------------------------------- MODULE QvVoting -------------------------------
(***************************************************************************)
(* The voting arithmetic of mock_fen_api/qv_voting.py.                     *)
(*                                                                         *)
(* A ballot box is a sequence of votes [voter, outcome, intensity] in the  *)
(* order they were cast, and a function delegations from delegating voters *)
(* to their delegates.                                                     *)
(***************************************************************************)
EXTENDS Integers, Sequences, FiniteSets

\* Ties are broken by this order.
OUTCOMES == <<"validated", "disputed", "rejected">>
Outcomes == {"validated", "disputed", "rejected"}
Rank == [o \in Outcomes |-> CHOOSE i \in 1 .. 3 : OUTCOMES[i] = o]

MAX_INTENSITY == 5

\* max(OUTCOMES, key = (count, -index)): the highest count, the first of those.
Leading(count) ==
    CHOOSE o \in Outcomes : \A other \in Outcomes \ {o} :
        \/ count[o] > count[other]
        \/ count[o] = count[other] /\ Rank[o] < Rank[other]

majority_outcome(votes) == Leading(votes)

quorum_total(votes) == votes["validated"] + votes["disputed"] + votes["rejected"]

\* The voters of a ballot box.
Voted(qv_votes) == {qv_votes[i].voter : i \in DOMAIN qv_votes}

\* Mutant of DirectUnits: range(1, intensity).
DirectUnitsShort(qv_votes, o) ==
    {u \in (DOMAIN qv_votes) \X (1 .. MAX_INTENSITY) :
        qv_votes[u[1]].outcome = o /\ u[2] < qv_votes[u[1]].intensity}

\* The sum of the intensities cast for an outcome, as the number of unit weights
\* <<vote, unit>> behind it.
DirectUnits(qv_votes, o) ==
    {u \in (DOMAIN qv_votes) \X (1 .. MAX_INTENSITY) :
        qv_votes[u[1]].outcome = o /\ u[2] <= qv_votes[u[1]].intensity}

\* The vote a delegation follows: the first one by the delegate.
FollowedVote(qv_votes, delegate) ==
    CHOOSE i \in DOMAIN qv_votes :
        /\ qv_votes[i].voter = delegate
        /\ \A j \in 1 .. i - 1 : qv_votes[j].voter # delegate

\* Mutant of Delegators: a delegator who votes as well counts twice.
DelegatorsCountedTwice(qv_votes, delegations, o) ==
    {v \in DOMAIN delegations :
        /\ delegations[v] # v
        /\ delegations[v] \in Voted(qv_votes)
        /\ qv_votes[FollowedVote(qv_votes, delegations[v])].outcome = o}

\* Voters who did not vote themselves and whose delegate did, for this outcome.
Delegators(qv_votes, delegations, o) ==
    {v \in DOMAIN delegations :
        /\ v \notin Voted(qv_votes)
        /\ delegations[v] # v
        /\ delegations[v] \in Voted(qv_votes)
        /\ qv_votes[FollowedVote(qv_votes, delegations[v])].outcome = o}

qv_scores(qv_votes, delegations) ==
    [o \in Outcomes |-> Cardinality(DirectUnits(qv_votes, o))
                          + Cardinality(Delegators(qv_votes, delegations, o))]

\* The leading outcome if its score reached the threshold.
Undecided == "undecided"

qv_decide(scores, threshold) ==
    IF scores[Leading(scores)] >= threshold THEN Leading(scores) ELSE Undecided
===============================================================================

-------------------------------- MODULE MockDao --------------------------------
(***************************************************************************)
(* mock_fen_api: the DAO stand-in.  Candidates are submitted over HTTP;    *)
(* in "auto" mode each submission schedules a decision, in "community" and *)
(* "qv" mode votes decide; a decision is delivered to the bridge's webhook *)
(* by a worker thread, with retries, and only then recorded and rewarded.  *)
(*                                                                         *)
(* Every handler runs its state change under _state_lock and is one        *)
(* action; a delivery task is a thread and takes several steps.  All state *)
(* is in memory and is lost by a restart; what the webhook accepted is not.*)
(***************************************************************************)
EXTENDS QvVoting
Sets == INSTANCE FiniteSetsExt

CONSTANTS
    Annotations,     \* annotation ids
    Voters,          \* voter names
    NamedVoters,     \* those some request gives explicitly
    ValidatorName,   \* 1 .. MaxVotes -> Voters: the default names validator_n
    Submitter,       \* Annotations -> names: who is rewarded as contributor
    VOTING_MODE,     \* "auto", "community" or "qv"
    QUORUM_REQUIRED,
    QV_THRESHOLD,
    MAX_WORKERS,
    WEBHOOK_MAX_RETRIES,
    Intensities,     \* intensities voters use
    Recommendations, \* what the reviewer recommends
    WebhookFaults,   \* subset of {"refused", "reply_lost"}
    MaxVotes,        \* bound: votes per candidate
    MaxSubmissions,  \* bound: candidates received by POST /candidates
    MaxRestarts      \* bound: restarts

ASSUME MockDaoAssumption ==
    /\ VOTING_MODE \in {"auto", "community", "qv"}
    /\ QUORUM_REQUIRED \in Nat \ {0}
    /\ QV_THRESHOLD \in Nat \ {0}
    /\ MAX_WORKERS \in Nat \ {0}
    /\ IsFiniteSet(Voters)
    /\ WEBHOOK_MAX_RETRIES \in Nat \ {0}
    /\ NamedVoters \subseteq Voters
    /\ Intensities \subseteq 1 .. MAX_INTENSITY
    /\ Recommendations \subseteq Outcomes
    /\ WebhookFaults \subseteq {"refused", "reply_lost"}
    /\ MaxVotes \in Nat /\ MaxSubmissions \in Nat /\ MaxRestarts \in Nat
    /\ ValidatorName \in [1 .. MaxVotes -> Voters]
    /\ DOMAIN Submitter = Annotations

VARIABLES
    candidates,      \* _candidates: annotation -> record, or Absent
    decisionCounter, \* _decision_counter (and _reputation_counter, in step)
    tasks,           \* delivery tasks the executor holds
    reputation,      \* _reputation
    history,         \* _reputation_history: number of rewards per annotation
    topic,           \* decisions the webhook accepted, in order
    scheduled,       \* tasks handed to the executor, numbers them
    submissions,     \* candidates received so far
    restarts         \* restarts so far

vars == <<candidates, decisionCounter, tasks, reputation, history, topic,
          scheduled, submissions, restarts>>

Absent == [status |-> "absent"]
NoDecision == [decision_id |-> 0, outcome |-> "none"]
Known == {a \in Annotations : candidates[a].status # "absent"}
People == Voters \cup {Submitter[a] : a \in Annotations}
VotingMode == VOTING_MODE \in {"community", "qv"}

NewRecord(recommendation) ==
    [status |-> "pending",
     votes |-> [o \in Outcomes |-> 0],
     qv_votes |-> << >>,
     delegations |-> << >>,
     llm_recommendation |-> recommendation,
     decision |-> NoDecision]

\* A task is queued, then a worker sleeps, then it holds a decision and posts
\* it; once the webhook has accepted, it records the decision, then rewards.
NewTask(id, a, outcome) ==
    [id |-> id, annotation |-> a, outcome |-> outcome, stage |-> "queued",
     decision_id |-> 0, attempt |-> 0]

Running == {t \in tasks : t.stage # "queued"}
Advance(t, t2) == tasks' = (tasks \ {t}) \cup {t2}
DecisionOf(t) == [decision_id |-> t.decision_id, outcome |-> t.outcome]

Init ==
    /\ candidates = [a \in Annotations |-> Absent]
    /\ decisionCounter = 1
    /\ tasks = {}
    /\ reputation = [x \in People |-> 0]
    /\ history = [a \in Annotations |-> 0]
    /\ topic = << >>
    /\ scheduled = 0
    /\ submissions = 0
    /\ restarts = 0

-------------------------------------------------------------------------------
\* Mutant of Schedule: a busy pool turns the task away.
ScheduleIfIdle(a, outcome) ==
    /\ scheduled' = scheduled + 1
    /\ tasks' = IF Cardinality(tasks) < MAX_WORKERS
                THEN tasks \cup {NewTask(scheduled + 1, a, outcome)}
                ELSE tasks

\* _get_executor().submit(_deliver_decision_after_delay, ...)
Schedule(a, outcome) ==
    /\ scheduled' = scheduled + 1
    /\ tasks' = tasks \cup {NewTask(scheduled + 1, a, outcome)}

\* POST /candidates, one candidate of the batch.  _record_candidate leaves a
\* known annotation alone; in auto mode a decision is scheduled either way, with
\* the recommendation computed when the annotation was first seen.
submit_candidate(a, recommendation) ==
    /\ submissions < MaxSubmissions
    /\ submissions' = submissions + 1
    /\ candidates' = IF a \in Known
                     THEN candidates
                     ELSE [candidates EXCEPT ![a] = NewRecord(recommendation)]
    /\ IF VotingMode
       THEN UNCHANGED <<tasks, scheduled>>
       ELSE Schedule(a, candidates'[a].llm_recommendation)
    /\ UNCHANGED <<decisionCounter, reputation, history, topic, restarts>>

\* Mutant of Count: the record is not claimed.
CountUnclaimed(a, record, decided, final) ==
    /\ candidates' = [candidates EXCEPT ![a] = record]
    /\ IF decided THEN Schedule(a, final) ELSE UNCHANGED <<tasks, scheduled>>

\* A vote that meets the guards is counted; if it brings the decision about, the
\* record is claimed under the same lock and the delivery scheduled.
Count(a, record, decided, final) ==
    IF decided
    THEN /\ candidates' = [candidates EXCEPT ![a] = [record EXCEPT !.status = "deciding"]]
         /\ Schedule(a, final)
    ELSE /\ candidates' = [candidates EXCEPT ![a] = record]
         /\ UNCHANGED <<tasks, scheduled>>

\* Mutant of cast_vote_community: the quorum has to be exceeded.
cast_vote_above_quorum(a, outcome) ==
    /\ VOTING_MODE = "community"
    /\ candidates[a].status = "pending"
    /\ LET record == [candidates[a] EXCEPT !.votes[outcome] = @ + 1]
       IN  Count(a, record, quorum_total(record.votes) > QUORUM_REQUIRED,
                 majority_outcome(record.votes))
    /\ UNCHANGED <<decisionCounter, reputation, history, topic, submissions, restarts>>

\* POST /candidates/{a}/vote in community mode: a count quorum.
cast_vote_community(a, outcome) ==
    /\ VOTING_MODE = "community"
    /\ candidates[a].status = "pending"
    /\ LET record == [candidates[a] EXCEPT !.votes[outcome] = @ + 1]
       IN  Count(a, record, quorum_total(record.votes) >= QUORUM_REQUIRED,
                 majority_outcome(record.votes))
    /\ UNCHANGED <<decisionCounter, reputation, history, topic, submissions, restarts>>

\* Mutant of cast_vote_qv: the scores are taken before the vote is appended.
cast_vote_qv_stale(a, voter, outcome, intensity) ==
    /\ VOTING_MODE = "qv"
    /\ candidates[a].status = "pending"
    /\ Len(candidates[a].qv_votes) < MaxVotes
    /\ voter \notin Voted(candidates[a].qv_votes)
    /\ LET vote == [voter |-> voter, outcome |-> outcome, intensity |-> intensity]
           record == [candidates[a] EXCEPT !.qv_votes = Append(@, vote)]
           decision == qv_decide(qv_scores(candidates[a].qv_votes, record.delegations),
                                 QV_THRESHOLD)
       IN  Count(a, record, decision # Undecided, decision)
    /\ UNCHANGED <<decisionCounter, reputation, history, topic, submissions, restarts>>

\* ... and in qv mode: one weighted vote per voter name, until an outcome's
\* score reaches the threshold.
cast_vote_qv(a, voter, outcome, intensity) ==
    /\ VOTING_MODE = "qv"
    /\ candidates[a].status = "pending"
    /\ Len(candidates[a].qv_votes) < MaxVotes
    /\ voter \notin Voted(candidates[a].qv_votes)
    /\ LET vote == [voter |-> voter, outcome |-> outcome, intensity |-> intensity]
           record == [candidates[a] EXCEPT !.qv_votes = Append(@, vote)]
           decision == qv_decide(qv_scores(record.qv_votes, record.delegations), QV_THRESHOLD)
       IN  Count(a, record, decision # Undecided, decision)
    /\ UNCHANGED <<decisionCounter, reputation, history, topic, submissions, restarts>>

\* The voter name of a request that gives none.
DefaultVoter(a) == ValidatorName[Len(candidates[a].qv_votes) + 1]

cast_anonymous_vote_qv(a, outcome, intensity) ==
    /\ a \in Known
    /\ Len(candidates[a].qv_votes) < MaxVotes
    /\ cast_vote_qv(a, DefaultVoter(a), outcome, intensity)

\* A new delegation of the same voter replaces the old one.
apply_delegation(delegations, voter, delegate) ==
    [v \in DOMAIN delegations \cup {voter} |->
        IF v = voter THEN delegate ELSE delegations[v]]

\* Mutant of delegate_vote: accepted on a claimed proposal.
delegate_vote_late(a, voter, delegate) ==
    /\ VOTING_MODE = "qv"
    /\ a \in Known
    /\ voter # delegate
    /\ voter \notin Voted(candidates[a].qv_votes)
    /\ candidates' = [candidates EXCEPT
            ![a].delegations = apply_delegation(@, voter, delegate)]
    /\ UNCHANGED <<decisionCounter, tasks, reputation, history, topic,
                   scheduled, submissions, restarts>>

\* POST /candidates/{a}/delegate: on an open proposal, by somebody who has not
\* voted on it, to somebody else.
delegate_vote(a, voter, delegate) ==
    /\ VOTING_MODE = "qv"
    /\ voter # delegate
    /\ candidates[a].status = "pending"
    /\ voter \notin Voted(candidates[a].qv_votes)
    /\ candidates' = [candidates EXCEPT
            ![a].delegations = apply_delegation(@, voter, delegate)]
    /\ UNCHANGED <<decisionCounter, tasks, reputation, history, topic,
                   scheduled, submissions, restarts>>

-------------------------------------------------------------------------------
\* The pool starts queued tasks in order while it has a free worker.
Begin(t) ==
    /\ t.stage = "queued"
    /\ Cardinality(Running) < MAX_WORKERS
    /\ \A u \in tasks : u.stage = "queued" => t.id <= u.id
    /\ Advance(t, [t EXCEPT !.stage = "sleeping"])
    /\ UNCHANGED <<candidates, decisionCounter, reputation, history, topic,
                   scheduled, submissions, restarts>>

\* After the delay the decision is built and takes the next number.
_fake_decide(t) ==
    /\ t.stage = "sleeping"
    /\ Advance(t, [t EXCEPT !.stage = "posting", !.decision_id = decisionCounter])
    /\ decisionCounter' = decisionCounter + 1
    /\ UNCHANGED <<candidates, reputation, history, topic, scheduled, submissions, restarts>>

Accepted(t) ==
    topic' = Append(topic, [annotation_id |-> t.annotation, decision_id |-> t.decision_id,
                            outcome |-> t.outcome])

\* The webhook answers 202.
PostAccepted(t) ==
    /\ t.stage = "posting"
    /\ Accepted(t)
    /\ Advance(t, [t EXCEPT !.stage = "delivered"])
    /\ UNCHANGED <<candidates, decisionCounter, reputation, history,
                   scheduled, submissions, restarts>>

\* Mutants of PostFails: one attempt more than configured; attempts that start
\* over when they are used up; a failure taken for a delivery.
PostFailsOnceMore(t) ==
    /\ t.stage = "posting"
    /\ \/ "refused" \in WebhookFaults /\ UNCHANGED topic
       \/ "reply_lost" \in WebhookFaults /\ Accepted(t)
    /\ IF t.attempt < WEBHOOK_MAX_RETRIES
       THEN Advance(t, [t EXCEPT !.attempt = @ + 1])
       ELSE tasks' = tasks \ {t}
    /\ UNCHANGED <<candidates, decisionCounter, reputation, history,
                   scheduled, submissions, restarts>>

PostFailsForever(t) ==
    /\ t.stage = "posting"
    /\ "refused" \in WebhookFaults
    /\ Advance(t, [t EXCEPT !.attempt = (@ + 1) % WEBHOOK_MAX_RETRIES])
    /\ UNCHANGED <<candidates, decisionCounter, reputation, history, topic,
                   scheduled, submissions, restarts>>

PostFailsDelivered(t) ==
    /\ t.stage = "posting"
    /\ "refused" \in WebhookFaults
    /\ Advance(t, [t EXCEPT !.stage = "delivered"])
    /\ UNCHANGED <<candidates, decisionCounter, reputation, history, topic,
                   scheduled, submissions, restarts>>

\* The request fails, or its reply is lost after the webhook accepted it.  The
\* same decision is posted again, up to WEBHOOK_MAX_RETRIES attempts in all;
\* then the task ends and leaves the record as it is.
PostFails(t) ==
    /\ t.stage = "posting"
    /\ \/ "refused" \in WebhookFaults /\ UNCHANGED topic
       \/ "reply_lost" \in WebhookFaults /\ Accepted(t)
    /\ IF t.attempt + 1 < WEBHOOK_MAX_RETRIES
       THEN Advance(t, [t EXCEPT !.attempt = @ + 1])
       ELSE tasks' = tasks \ {t}
    /\ UNCHANGED <<candidates, decisionCounter, reputation, history,
                   scheduled, submissions, restarts>>

\* Record the delivered decision.
_set_status(t) ==
    /\ t.stage = "delivered"
    /\ candidates' = IF t.annotation \in Known
                     THEN [candidates EXCEPT ![t.annotation].status = t.outcome,
                                             ![t.annotation].decision = DecisionOf(t)]
                     ELSE candidates
    /\ Advance(t, [t EXCEPT !.stage = "recorded"])
    /\ UNCHANGED <<decisionCounter, reputation, history, topic,
                   scheduled, submissions, restarts>>

\* Votes of x among the recorded ones for an outcome.
VotesOf(x, a, outcome) ==
    Cardinality({i \in DOMAIN candidates[a].qv_votes :
                    /\ candidates[a].qv_votes[i].voter = x
                    /\ candidates[a].qv_votes[i].outcome = outcome})

Reward(x, a) == (IF x = Submitter[a] THEN 2 ELSE 0) + VotesOf(x, a, "validated")

\* Mutant of _apply_reputation: every outcome is rewarded.
_apply_any_reputation(t) ==
    /\ t.stage = "recorded"
    /\ t.annotation \in Known
    /\ reputation' = [x \in People |-> reputation[x] + Reward(x, t.annotation)]
    /\ history' = [history EXCEPT ![t.annotation] = @ + 1]
    /\ tasks' = tasks \ {t}
    /\ UNCHANGED <<candidates, decisionCounter, topic, scheduled, submissions, restarts>>

\* A validated entry rewards its contributor and the voters who were for it.
_apply_reputation(t) ==
    /\ t.stage = "recorded"
    /\ IF t.outcome = "validated" /\ t.annotation \in Known
       THEN /\ reputation' = [x \in People |-> reputation[x] + Reward(x, t.annotation)]
            /\ history' = [history EXCEPT ![t.annotation] = @ + 1]
       ELSE UNCHANGED <<reputation, history>>
    /\ tasks' = tasks \ {t}
    /\ UNCHANGED <<candidates, decisionCounter, topic, scheduled, submissions, restarts>>

\* The process is restarted: memory and counters start over.
Restart ==
    /\ restarts < MaxRestarts
    /\ restarts' = restarts + 1
    /\ candidates' = [a \in Annotations |-> Absent]
    /\ decisionCounter' = 1
    /\ tasks' = {}
    /\ reputation' = [x \in People |-> 0]
    /\ history' = [a \in Annotations |-> 0]
    /\ UNCHANGED <<topic, scheduled, submissions>>

-------------------------------------------------------------------------------
DeliveryStep(t) ==
    Begin(t) \/ _fake_decide(t) \/ PostAccepted(t) \/ PostFails(t)
    \/ _set_status(t) \/ _apply_reputation(t)

CastVote(a, outcome) ==
    \/ cast_vote_community(a, outcome)
    \/ \E i \in Intensities :
        \/ \E v \in NamedVoters : cast_vote_qv(a, v, outcome, i)
        \/ cast_anonymous_vote_qv(a, outcome, i)

Next ==
    \/ \E a \in Annotations :
        \/ \E r \in Recommendations : submit_candidate(a, r)
        \/ \E o \in Outcomes : CastVote(a, o)
        \/ \E v \in NamedVoters, d \in Voters : delegate_vote(a, v, d)
    \/ \E t \in tasks : DeliveryStep(t)
    \/ Restart

Spec == Init /\ [][Next]_vars

\* Each task runs in a thread of the pool and every request has a timeout.
\* Submissions, votes and restarts come from outside; that the webhook accepts
\* is not assumed.
FairSpec ==
    /\ Spec
    /\ \A id \in 1 .. MaxSubmissions :
        WF_vars(\E t \in tasks : t.id = id /\ DeliveryStep(t))

-------------------------------------------------------------------------------
Decisions == [decision_id : Nat, outcome : Outcomes]
Votes == [voter : Voters, outcome : Outcomes, intensity : 1 .. MAX_INTENSITY]

Delegations == UNION {[D -> Voters] : D \in SUBSET Voters}

Records ==
    [status : {"pending", "deciding"} \cup Outcomes,
     votes : [Outcomes -> Nat],
     qv_votes : Seq(Votes),
     delegations : Delegations,
     llm_recommendation : Outcomes,
     decision : Decisions \cup {NoDecision}]

Tasks ==
    [id : Nat, annotation : Annotations, outcome : Outcomes,
     stage : {"queued", "sleeping", "posting", "delivered", "recorded"},
     decision_id : Nat, attempt : 0 .. WEBHOOK_MAX_RETRIES - 1]

TypeOK ==
    /\ candidates \in [Annotations -> Records \cup {Absent}]
    /\ \A a \in Known : \A v \in DOMAIN candidates[a].delegations :
            candidates[a].delegations[v] # v
    /\ decisionCounter \in Nat \ {0}
    /\ tasks \subseteq Tasks
    /\ reputation \in [People -> Nat]
    /\ history \in [Annotations -> Nat]
    /\ topic \in Seq([annotation_id : Annotations, decision_id : Nat, outcome : Outcomes])
    /\ scheduled \in Nat /\ submissions \in Nat /\ restarts \in Nat

Scores(a) == qv_scores(candidates[a].qv_votes, candidates[a].delegations)

BallotResult(a) ==
    IF VOTING_MODE = "community"
    THEN majority_outcome(candidates[a].votes)
    ELSE qv_decide(Scores(a), QV_THRESHOLD)

\* What GovernanceRecord calls a proposal's phase and verdict.  The verdict is
\* read off the ballots at every moment, so that it moves if they do.
PhaseOf(a) ==
    CASE candidates[a].status = "absent" -> "unknown"
      [] candidates[a].status = "pending" -> "open"
      [] candidates[a].status = "deciding" -> "claimed"
      [] OTHER -> "recorded"

VerdictOf(a) ==
    IF PhaseOf(a) \in {"unknown", "open"} THEN "undetermined" ELSE BallotResult(a)

Governance == INSTANCE GovernanceRecord WITH
    Verdicts <- Outcomes,
    Rewarded <- {"validated"},
    phase <- [a \in Annotations |-> PhaseOf(a)],
    verdict <- [a \in Annotations |-> VerdictOf(a)],
    published <- [a \in Annotations |->
                    {topic[i].outcome : i \in {j \in DOMAIN topic : topic[j].annotation_id = a}}],
    rewards <- history

\* In the voting modes the handlers, the pool and the retries implement
\* GovernanceRecord: late votes and delegations, lost replies, given up
\* deliveries and restarts included.
GovernanceImplemented == Governance!GovSpec

\* "When decided, the outcome is delivered once": whatever votes, retries and
\* lost replies interleave, the topic never carries two different decisions of
\* one voted proposal.
OneDecisionPerProposal ==
    (VotingMode /\ restarts = 0) =>
        \A i, j \in DOMAIN topic :
            topic[i].annotation_id = topic[j].annotation_id => topic[i] = topic[j]

\* A delivered decision is the result of the ballots on record, then and ever
\* after: no vote or delegation that arrives while the delivery is under way
\* changes what was decided.
DecisionIsBallotResult ==
    (VotingMode /\ restarts = 0) =>
        \A i \in DOMAIN topic :
            LET a == topic[i].annotation_id
            IN  candidates[a].status # "pending" /\ topic[i].outcome = BallotResult(a)

\* Community mode counts exactly QUORUM_REQUIRED votes: fewer leave the proposal
\* open, and none is counted after the claim.
QuorumExact ==
    VOTING_MODE = "community" =>
        \A a \in Known :
            IF candidates[a].status = "pending"
            THEN quorum_total(candidates[a].votes) < QUORUM_REQUIRED
            ELSE quorum_total(candidates[a].votes) = QUORUM_REQUIRED

\* The DAO shows a candidate as decided only if the webhook has accepted that
\* very decision.
DecidedWasAccepted ==
    \A a \in Known : candidates[a].status \in Outcomes =>
        /\ candidates[a].decision.outcome = candidates[a].status
        /\ \E i \in DOMAIN topic :
            topic[i] = [annotation_id |-> a,
                        decision_id |-> candidates[a].decision.decision_id,
                        outcome |-> candidates[a].status]

\* Reputation is exactly what the rewards on record amount to, each proposal
\* rewarding at most once and with the votes that decided it.
ReputationBacked ==
    VotingMode =>
        /\ \A a \in Annotations : history[a] <= 1
        /\ \A a \in Annotations : history[a] = 1 => candidates[a].status = "validated"
        /\ \A x \in People :
            reputation[x] = Sets!MapThenSumSet(
                LAMBDA a : Reward(x, a), {a \in Annotations : history[a] = 1})

\* What one person contributes to an outcome, whatever else is on record: the
\* intensity of his first vote, or one if he has not voted and the one he
\* delegates to is for it.
Contribution(a, x, o) ==
    LET r == candidates[a]
        cast(y) == {i \in DOMAIN r.qv_votes : r.qv_votes[i].voter = y}
        supports(y) == \E i \in cast(y) : r.qv_votes[i].outcome = o
        first == r.qv_votes[Sets!Min(cast(x))]
    IN  IF cast(x) # {}
        THEN IF first.outcome = o THEN first.intensity ELSE 0
        ELSE IF x \in DOMAIN r.delegations /\ supports(r.delegations[x]) THEN 1 ELSE 0

\* The scores are the sum of what the names contribute, which are all the program
\* knows of people (ADR-005: one person, one vote): no name counts twice, be it given
\* or made up, nor as a voter and a delegator, and delegations are not followed
\* further.  Whether two people go by one name is not asked.
ScoresCountPeople ==
    \A a \in Known : \A o \in Outcomes :
        Scores(a)[o] = Sets!MapThenSumSet(LAMBDA x : Contribution(a, x, o), Voters)

\* A vote never lowers the score of the outcome it is for, and takes at most
\* the voter's own delegated weight from another.
VoteNeverHurtsItsOutcome ==
    [][\A a \in Annotations :
        (a \in Known /\ a \in Known' /\ Len(candidates'[a].qv_votes) > Len(candidates[a].qv_votes)) =>
            LET o == candidates'[a].qv_votes[Len(candidates'[a].qv_votes)].outcome
            IN  /\ Scores(a)'[o] >= Scores(a)[o]
                /\ \A other \in Outcomes : Scores(a)'[other] >= Scores(a)[other] - 1]_vars

\* A vote that leaves the proposal open leaves every score below the threshold:
\* the weight that delegations brought to it before is weighed with the vote that
\* follows, although a delegation alone decides nothing.
VotesDecide ==
    [][\A a \in Annotations :
        (/\ VOTING_MODE = "qv"
         /\ a \in Known /\ a \in Known'
         /\ Len(candidates'[a].qv_votes) > Len(candidates[a].qv_votes)
         /\ candidates'[a].status = "pending") =>
            qv_decide(Scores(a)', QV_THRESHOLD) = Undecided]_vars

\* A task never holds its worker for good: retries are bounded.
EveryTaskEnds ==
    \A id \in 1 .. MaxSubmissions :
        (\E t \in tasks : t.id = id) ~> (\A t \in tasks : t.id # id)

\* A webhook that answers before the last attempt gets every decision: each
\* claimed proposal is decided, unless a restart forgets it, although the pool
\* has fewer workers than there are claims.
LastAttemptUnused == \A t \in tasks : t.attempt + 1 < WEBHOOK_MAX_RETRIES

EveryClaimIsDecided ==
    []LastAttemptUnused =>
        \A a \in Annotations :
            (candidates[a].status = "deciding")
                ~> (candidates[a].status \in Outcomes \cup {"absent"})
===============================================================================

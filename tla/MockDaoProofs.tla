----------------------------- MODULE MockDaoProofs -----------------------------
(***************************************************************************)
(* What holds of MockDao for every number of proposals, voters, workers    *)
(* and retries: types, what is delivered and shown as decided, the quorum, *)
(* that an open proposal has no winner it withholds, what reputation and   *)
(* scores add up to, that the voting modes implement GovernanceRecord, and *)
(* that the pool of deliveries never stands still or loses one.            *)
(*                                                                         *)
(* Everything rests on the inductive invariant DInv: while a claimed       *)
(* proposal is delivered by its only task, that task carries the result of *)
(* ballots that no longer change, under a number that no longer changes    *)
(* once it was posted.                                                     *)
(***************************************************************************)
EXTENDS MockDao, DataLemmas, FiniteSetTheorems, TLAPS

\* The order in which ties are broken.
LEMMA Ranks == Rank["validated"] = 1 /\ Rank["disputed"] = 2 /\ Rank["rejected"] = 3
<1>1. \A i \in 1 .. 3 : i = 1 \/ i = 2 \/ i = 3
  OBVIOUS
<1>2. OUTCOMES[1] = "validated" /\ OUTCOMES[2] = "disputed" /\ OUTCOMES[3] = "rejected"
  BY DEF OUTCOMES
<1>3. \A o \in Outcomes : \E i \in 1 .. 3 : OUTCOMES[i] = o
  BY <1>2 DEF Outcomes
<1>4. \A o \in Outcomes : Rank[o] \in 1 .. 3 /\ OUTCOMES[Rank[o]] = o
  BY <1>3 DEF Rank
<1> QED
  BY <1>1, <1>2, <1>4 DEF Outcomes

\* The leader is an outcome, and none has more.
LEMMA LeaderIsMaximal ==
    ASSUME NEW count \in [Outcomes -> Nat]
    PROVE  Leading(count) \in Outcomes /\ \A o \in Outcomes : count[o] <= count[Leading(count)]
<1> DEFINE Leads(o) == \A other \in Outcomes \ {o} :
        \/ count[o] > count[other]
        \/ count[o] = count[other] /\ Rank[o] < Rank[other]
<1>1. \E o \in Outcomes : Leads(o)
  BY Ranks DEF Outcomes
<1>2. Leading(count) \in Outcomes /\ Leads(Leading(count))
  BY <1>1 DEF Leading
<1> QED
  BY <1>2

\* A ballot box has finitely many unit weights and delegators.
LEMMA BallotsFinite ==
    ASSUME NEW qv_votes \in Seq(Votes), NEW delegations \in Delegations, NEW o \in Outcomes
    PROVE  /\ IsFiniteSet(DirectUnits(qv_votes, o))
           /\ IsFiniteSet(Delegators(qv_votes, delegations, o))
           /\ Cardinality(DirectUnits(qv_votes, o)) \in Nat
           /\ Cardinality(Delegators(qv_votes, delegations, o)) \in Nat
<1>1. IsFiniteSet((DOMAIN qv_votes) \X (1 .. MAX_INTENSITY))
  <2>1. Len(qv_votes) \in Int /\ DOMAIN qv_votes = 1 .. Len(qv_votes) /\ 1 \in Int /\ MAX_INTENSITY \in Int
    BY DEF MAX_INTENSITY
  <2>2. IsFiniteSet(DOMAIN qv_votes) /\ IsFiniteSet(1 .. MAX_INTENSITY)
    BY <2>1, FS_Interval
  <2> QED
    BY <2>2, FS_Product
<1>2. IsFiniteSet(DOMAIN delegations)
  <2>1. IsFiniteSet(Voters) /\ DOMAIN delegations \in SUBSET Voters
    BY MockDaoAssumption DEF Delegations
  <2> QED
    BY <2>1, FS_Subset
<1>3. /\ DirectUnits(qv_votes, o) \in SUBSET ((DOMAIN qv_votes) \X (1 .. MAX_INTENSITY))
      /\ Delegators(qv_votes, delegations, o) \in SUBSET DOMAIN delegations
  BY DEF DirectUnits, Delegators
<1>4. IsFiniteSet(DirectUnits(qv_votes, o)) /\ IsFiniteSet(Delegators(qv_votes, delegations, o))
  BY <1>1, <1>2, <1>3, FS_Subset
<1> QED
  BY <1>4, FS_CardinalityType

LEMMA ScoresTyped ==
    ASSUME NEW qv_votes \in Seq(Votes), NEW delegations \in Delegations
    PROVE  qv_scores(qv_votes, delegations) \in [Outcomes -> Nat]
<1> DEFINE score(o) == Cardinality(DirectUnits(qv_votes, o))
                         + Cardinality(Delegators(qv_votes, delegations, o))
<1>1. \A o \in Outcomes : score(o) \in Nat
  BY BallotsFinite
<1>2. qv_scores(qv_votes, delegations) = [o \in Outcomes |-> score(o)]
  BY DEF qv_scores
<1> HIDE DEF score
<1> QED
  BY <1>1, <1>2

\* A record whose status, ballots or decision change is a record.
LEMMA StatusChanged ==
    ASSUME NEW x \in Records, NEW s \in {"pending", "deciding"} \cup Outcomes
    PROVE  /\ [x EXCEPT !.status = s] \in Records
           /\ [x EXCEPT !.status = s].status = s
           /\ [x EXCEPT !.status = s].votes = x.votes
           /\ [x EXCEPT !.status = s].qv_votes = x.qv_votes
           /\ [x EXCEPT !.status = s].delegations = x.delegations
  BY DEF Records

\* ... and one with a vote more.
LEMMA VoteAppended ==
    ASSUME NEW x \in Records, NEW vote \in Votes
    PROVE  /\ [x EXCEPT !.qv_votes = Append(@, vote)] \in Records
           /\ [x EXCEPT !.qv_votes = Append(@, vote)].status = x.status
           /\ [x EXCEPT !.qv_votes = Append(@, vote)].delegations = x.delegations
           /\ [x EXCEPT !.qv_votes = Append(@, vote)].qv_votes = Append(x.qv_votes, vote)
<1>1. x.qv_votes \in Seq(Votes)
  BY DEF Records
<1>2. Append(x.qv_votes, vote) \in Seq(Votes)
  BY <1>1
<1> HIDE DEF Votes
<1> DEFINE q == Append(x.qv_votes, vote)
<1>3. [x EXCEPT !.qv_votes = Append(@, vote)] = [x EXCEPT !.qv_votes = q]
  OBVIOUS
<1>4. q \in Seq(Votes)
  BY <1>2
<1> HIDE DEF q
<1> QED
  BY <1>3, <1>4 DEF Records

\* The result of the ballots of a record, BallotResult of the annotation it is for.
Result(r) ==
    IF VOTING_MODE = "community"
    THEN majority_outcome(r.votes)
    ELSE qv_decide(qv_scores(r.qv_votes, r.delegations), QV_THRESHOLD)

LEMMA ResultOfRecord == \A a \in Annotations : BallotResult(a) = Result(candidates[a])
  BY DEF BallotResult, Result, Scores

LEMMA ResultTyped ==
    ASSUME NEW r \in Records
    PROVE  /\ VOTING_MODE = "community" => Result(r) \in Outcomes
           /\ Result(r) \in Outcomes \cup {Undecided}
<1>1. majority_outcome(r.votes) \in Outcomes
  BY LeaderIsMaximal DEF majority_outcome, Records
<1>2. qv_scores(r.qv_votes, r.delegations) \in [Outcomes -> Nat]
  BY ScoresTyped DEF Records
<1>3. qv_decide(qv_scores(r.qv_votes, r.delegations), QV_THRESHOLD) \in Outcomes \cup {Undecided}
  BY <1>2, LeaderIsMaximal DEF qv_decide
<1> QED
  BY <1>1, <1>3 DEF Result

\* What a counted vote does to its proposal: it stays open, or it is claimed for
\* the result of its ballots and the delivery of that result is scheduled.
VoteCounted(a) ==
    \E r \in Records :
        /\ candidates[a].status = "pending"
        /\ \A v \in DOMAIN r.delegations : r.delegations[v] # v
        /\ r.delegations = candidates[a].delegations
        /\ \/ r.qv_votes = candidates[a].qv_votes
           \/ \E vote \in Votes : /\ vote.voter \notin Voted(candidates[a].qv_votes)
                                 /\ r.qv_votes = Append(candidates[a].qv_votes, vote)
        /\ candidates' = [candidates EXCEPT ![a] = r]
        /\ \/ r.status = "pending" /\ UNCHANGED <<tasks, scheduled>>
           \/ r.status = "deciding" /\ Result(r) \in Outcomes /\ Schedule(a, Result(r))
        /\ (VOTING_MODE = "qv" /\ r.status = "pending") => Result(r) = Undecided
        /\ (VOTING_MODE = "community" /\ quorum_total(candidates[a].votes) < QUORUM_REQUIRED) =>
               IF r.status = "pending"
               THEN quorum_total(r.votes) < QUORUM_REQUIRED
               ELSE quorum_total(r.votes) = QUORUM_REQUIRED
        /\ UNCHANGED <<decisionCounter, reputation, history, topic, submissions, restarts>>

\* A vote in community mode.
LEMMA CommunityVoteCounts ==
    ASSUME TypeOK, NEW a \in Annotations, NEW outcome \in Outcomes,
           cast_vote_community(a, outcome)
    PROVE  VotingMode /\ VoteCounted(a)
<1> DEFINE record == [candidates[a] EXCEPT !.votes[outcome] = @ + 1]
           r == [record EXCEPT !.status = "deciding"]
<1>1. candidates[a] \in Records /\ candidates[a].status = "pending" /\ VOTING_MODE = "community"
      /\ a \in Known
  BY DEF cast_vote_community, TypeOK, Absent, Known
<1>2. /\ record \in Records /\ record.status = "pending"
      /\ record.delegations = candidates[a].delegations /\ record.qv_votes = candidates[a].qv_votes
  <2>1. record \in Records /\ record.status = "pending" /\ record.delegations = candidates[a].delegations
    BY <1>1 DEF Records
  <2>2. record.qv_votes = candidates[a].qv_votes
    <3> USE <1>1 DEF Records
    <3> HIDE DEF Votes
    <3> QED
      OBVIOUS
  <2> QED
    BY <2>1, <2>2
<1>3. /\ r \in Records /\ r.status = "deciding" /\ r.votes = record.votes
      /\ r.delegations = candidates[a].delegations /\ r.qv_votes = candidates[a].qv_votes
  BY <1>2, StatusChanged
<1>4. /\ quorum_total(record.votes) = quorum_total(candidates[a].votes) + 1
      /\ quorum_total(candidates[a].votes) \in Nat
  BY <1>1 DEF Records, quorum_total, Outcomes
<1>5. Result(r) = majority_outcome(record.votes) /\ Result(r) \in Outcomes
  BY <1>1, <1>3, ResultTyped DEF Result
<1>6. \A v \in DOMAIN candidates[a].delegations : candidates[a].delegations[v] # v
  BY <1>1 DEF TypeOK
<1>7. Count(a, record, quorum_total(record.votes) >= QUORUM_REQUIRED, majority_outcome(record.votes))
  BY DEF cast_vote_community
<1>8. UNCHANGED <<decisionCounter, reputation, history, topic, submissions, restarts>>
  BY DEF cast_vote_community
<1> HIDE DEF record, r
<1>9. CASE quorum_total(record.votes) >= QUORUM_REQUIRED
  <2>1. candidates' = [candidates EXCEPT ![a] = r] /\ Schedule(a, Result(r))
    BY <1>5, <1>7, <1>9 DEF Count, r
  <2>2. quorum_total(candidates[a].votes) < QUORUM_REQUIRED => quorum_total(r.votes) = QUORUM_REQUIRED
    BY <1>3, <1>4, <1>9, MockDaoAssumption
  <2> QED
    BY <1>1, <1>3, <1>5, <1>6, <1>8, <2>1, <2>2 DEF VoteCounted, VotingMode
<1>10. CASE ~(quorum_total(record.votes) >= QUORUM_REQUIRED)
  <2>1. candidates' = [candidates EXCEPT ![a] = record] /\ UNCHANGED <<tasks, scheduled>>
    BY <1>7, <1>10 DEF Count
  <2>2. quorum_total(record.votes) < QUORUM_REQUIRED
    BY <1>4, <1>10, MockDaoAssumption
  <2> QED
    BY <1>1, <1>2, <1>6, <1>8, <2>1, <2>2 DEF VoteCounted, VotingMode
<1> QED
  BY <1>9, <1>10

\* A vote in qv mode.
LEMMA QvVoteCounts ==
    ASSUME TypeOK, NEW a \in Annotations, NEW voter \in Voters, NEW outcome \in Outcomes,
           NEW intensity \in 1 .. MAX_INTENSITY, cast_vote_qv(a, voter, outcome, intensity)
    PROVE  VotingMode /\ VoteCounted(a)
<1> DEFINE vote == [voter |-> voter, outcome |-> outcome, intensity |-> intensity]
           record == [candidates[a] EXCEPT !.qv_votes = Append(@, vote)]
           r == [record EXCEPT !.status = "deciding"]
           decision == qv_decide(qv_scores(record.qv_votes, record.delegations), QV_THRESHOLD)
<1>1. candidates[a] \in Records /\ candidates[a].status = "pending" /\ VOTING_MODE = "qv"
      /\ a \in Known
  BY DEF cast_vote_qv, TypeOK, Absent, Known
<1>2. vote \in Votes /\ vote.voter \notin Voted(candidates[a].qv_votes)
  BY DEF Votes, cast_vote_qv
<1>3. /\ record \in Records /\ record.status = "pending"
      /\ record.delegations = candidates[a].delegations
      /\ record.qv_votes = Append(candidates[a].qv_votes, vote)
  BY <1>1, <1>2, VoteAppended
<1>4. r \in Records /\ r.status = "deciding" /\ r.delegations = record.delegations /\ r.qv_votes = record.qv_votes
  BY <1>3, StatusChanged
<1>5. Result(r) = decision /\ Result(record) = decision /\ Result(r) \in Outcomes \cup {Undecided}
  BY <1>1, <1>4, ResultTyped DEF Result
<1>6. \A v \in DOMAIN candidates[a].delegations : candidates[a].delegations[v] # v
  BY <1>1 DEF TypeOK
<1>7. /\ Count(a, record, decision # Undecided, decision)
      /\ UNCHANGED <<decisionCounter, reputation, history, topic, submissions, restarts>>
  BY DEF cast_vote_qv
<1> HIDE DEF vote, record, r, decision
<1>8. CASE decision # Undecided
  <2>1. candidates' = [candidates EXCEPT ![a] = r] /\ Schedule(a, Result(r))
    BY <1>5, <1>7, <1>8 DEF Count, r
  <2> QED
    BY <1>1, <1>2, <1>3, <1>4, <1>5, <1>6, <1>7, <1>8, <2>1 DEF VoteCounted, VotingMode
<1>9. CASE decision = Undecided
  <2>1. candidates' = [candidates EXCEPT ![a] = record] /\ UNCHANGED <<tasks, scheduled>>
    BY <1>7, <1>9 DEF Count
  <2> QED
    BY <1>1, <1>2, <1>3, <1>5, <1>6, <1>7, <1>9, <2>1 DEF VoteCounted, VotingMode
<1> QED
  BY <1>8, <1>9

\* Every vote, whatever the mode and whoever casts it.
LEMMA VotesCount ==
    ASSUME TypeOK, NEW a \in Annotations, NEW outcome \in Outcomes, CastVote(a, outcome)
    PROVE  VotingMode /\ VoteCounted(a)
<1>1. CASE cast_vote_community(a, outcome)
  BY <1>1, CommunityVoteCounts
<1>2. ASSUME NEW i \in Intensities, NEW v \in NamedVoters, cast_vote_qv(a, v, outcome, i)
      PROVE  VotingMode /\ VoteCounted(a)
  BY <1>2, MockDaoAssumption, QvVoteCounts
<1>3. ASSUME NEW i \in Intensities, cast_anonymous_vote_qv(a, outcome, i)
      PROVE  VotingMode /\ VoteCounted(a)
  <2>1. candidates[a] \in Records /\ Len(candidates[a].qv_votes) < MaxVotes
    BY <1>3 DEF cast_anonymous_vote_qv, TypeOK, Known, Absent
  <2>2. Len(candidates[a].qv_votes) + 1 \in 1 .. MaxVotes
    BY <2>1, MockDaoAssumption DEF Records
  <2>3. DefaultVoter(a) \in Voters /\ i \in 1 .. MAX_INTENSITY
    BY <2>2, MockDaoAssumption DEF DefaultVoter
  <2> QED
    BY <1>3, <2>3, QvVoteCounts DEF cast_anonymous_vote_qv
<1> QED
  BY <1>1, <1>2, <1>3 DEF CastVote

-------------------------------------------------------------------------------
\* In the voting modes a proposal has at most one delivery task, that task carries
\* the result of the ballots on record, and nothing is rewarded before it is done.
ClaimsOK ==
    VotingMode =>
        /\ \A t \in tasks :
            /\ candidates[t.annotation].status =
                   IF t.stage = "recorded" THEN t.outcome ELSE "deciding"
            /\ t.outcome = BallotResult(t.annotation)
            /\ history[t.annotation] = 0
        /\ \A t, u \in tasks : t.annotation = u.annotation => t = u
        /\ \A a \in Annotations : candidates[a].status \in {"absent", "pending"} => history[a] = 0

\* What the webhook has accepted: the decision of every delivered task, and in the
\* voting modes nothing but the result of the ballots of claimed proposals.
OnTopic(a, id, outcome) ==
    \E i \in DOMAIN topic :
        topic[i] = [annotation_id |-> a, decision_id |-> id, outcome |-> outcome]

DeliveredOK ==
    \A t \in tasks : t.stage = "delivered" => OnTopic(t.annotation, t.decision_id, t.outcome)

TopicOK ==
    (VotingMode /\ restarts = 0) =>
        \A i \in DOMAIN topic :
            /\ candidates[topic[i].annotation_id].status \notin {"absent", "pending"}
            /\ topic[i].outcome = BallotResult(topic[i].annotation_id)
            /\ \A t \in tasks : t.annotation = topic[i].annotation_id =>
                   /\ t.stage \notin {"queued", "sleeping"}
                   /\ topic[i].decision_id = t.decision_id

DInv ==
    /\ TypeOK
    /\ ClaimsOK
    /\ DeliveredOK
    /\ DecidedWasAccepted
    /\ TopicOK
    /\ OneDecisionPerProposal
    /\ QuorumExact

\* What the types say of a single candidate and of a single task.
LEMMA CandidateTyped ==
    ASSUME TypeOK, NEW a \in Annotations
    PROVE  /\ a \in Known <=> candidates[a] \in Records
           /\ a \notin Known <=> candidates[a] = Absent
           /\ a \notin Known <=> candidates[a].status = "absent"
           /\ candidates[a].status \in {"absent", "pending", "deciding"} \cup Outcomes
  BY DEF TypeOK, Known, Records, Absent, Outcomes

LEMMA TaskTyped ==
    ASSUME TypeOK, NEW t \in tasks
    PROVE  /\ t.id \in Nat /\ t.annotation \in Annotations /\ t.outcome \in Outcomes
           /\ t.stage \in {"queued", "sleeping", "posting", "delivered", "recorded"}
           /\ t.decision_id \in Nat /\ t.attempt \in 0 .. WEBHOOK_MAX_RETRIES - 1
           /\ t \in Tasks
  BY DEF TypeOK, Tasks

LEMMA TopicTyped ==
    ASSUME TypeOK, NEW i \in DOMAIN topic
    PROVE  /\ topic[i].annotation_id \in Annotations
           /\ topic[i].outcome \in Outcomes /\ topic[i].decision_id \in Nat
<1> DEFINE Entry == [annotation_id : Annotations, decision_id : Nat, outcome : Outcomes]
<1>1. topic \in Seq(Entry)
  BY DEF TypeOK
<1>2. topic[i] \in Entry
  <2> HIDE DEF Entry
  <2> QED
    BY <1>1
<1> QED
  BY <1>2

\* Scheduling adds a task that waits for a worker.
LEMMA NewTaskTyped ==
    ASSUME NEW id \in Nat, NEW a \in Annotations, NEW outcome \in Outcomes
    PROVE  /\ NewTask(id, a, outcome) \in Tasks
           /\ NewTask(id, a, outcome).annotation = a
           /\ NewTask(id, a, outcome).outcome = outcome
           /\ NewTask(id, a, outcome).stage = "queued"
  BY MockDaoAssumption DEF NewTask, Tasks

\* The invariant holds in a process that has just started.
LEMMA InitDInv == Init => DInv
<1> SUFFICES ASSUME Init PROVE DInv
  OBVIOUS
<1>1. /\ candidates = [a \in Annotations |-> Absent] /\ Known = {}
      /\ tasks = {} /\ topic = << >> /\ DOMAIN topic = {}
      /\ history = [a \in Annotations |-> 0]
  BY DEF Init, Known, Absent
<1>2. TypeOK
  BY <1>1 DEF Init, TypeOK
<1>3. ClaimsOK /\ DeliveredOK /\ DecidedWasAccepted /\ TopicOK
  BY <1>1 DEF ClaimsOK, DeliveredOK, DecidedWasAccepted, TopicOK
<1> QED
  BY <1>1, <1>2, <1>3 DEF DInv, OneDecisionPerProposal, QuorumExact

\* The ballots of a proposal decide its result, nothing else does.
LEMMA SameBallots ==
    ASSUME NEW a \in Annotations,
           candidates'[a].votes = candidates[a].votes,
           candidates'[a].qv_votes = candidates[a].qv_votes,
           candidates'[a].delegations = candidates[a].delegations
    PROVE  BallotResult(a)' = BallotResult(a)
  BY DEF BallotResult, Scores

LEMMA SameCandidate ==
    ASSUME NEW a \in Annotations, candidates'[a] = candidates[a]
    PROVE  BallotResult(a)' = BallotResult(a)
  BY SameBallots

\* Steps the webhook has no part in: no claimed proposal changes its ballots, and
\* a task keeps the number under which it has been posted.
LEMMA TopicKept ==
    ASSUME TypeOK, TopicOK, UNCHANGED <<topic, restarts>>,
           VotingMode =>
               /\ \A b \in Annotations : candidates[b].status \notin {"absent", "pending"} =>
                      /\ candidates'[b].status \notin {"absent", "pending"}
                      /\ BallotResult(b)' = BallotResult(b)
               /\ \A t \in tasks' : candidates[t.annotation].status \notin {"absent", "pending"} =>
                      \E u \in tasks :
                          /\ u.annotation = t.annotation
                          /\ u.stage \notin {"queued", "sleeping"} =>
                                 /\ t.stage \notin {"queued", "sleeping"}
                                 /\ t.decision_id = u.decision_id
    PROVE  TopicOK'
<1> SUFFICES ASSUME VotingMode, restarts = 0, NEW i \in DOMAIN topic, NEW b \in Annotations,
                    topic[i].annotation_id = b
             PROVE  /\ candidates'[b].status \notin {"absent", "pending"}
                    /\ topic[i].outcome = BallotResult(b)'
                    /\ \A t \in tasks' : t.annotation = b =>
                           /\ t.stage \notin {"queued", "sleeping"}
                           /\ topic[i].decision_id = t.decision_id
  <2>1. \A i \in DOMAIN topic : topic[i].annotation_id \in Annotations
    BY TopicTyped
  <2> QED
    BY <2>1 DEF TopicOK
<1>1. /\ candidates[b].status \notin {"absent", "pending"} /\ topic[i].outcome = BallotResult(b)
      /\ \A t \in tasks : t.annotation = b =>
             t.stage \notin {"queued", "sleeping"} /\ topic[i].decision_id = t.decision_id
  BY DEF TopicOK
<1> QED
  BY <1>1

\* A vote, whether or not it brings the decision about.
LEMMA VoteKeepsDInv ==
    ASSUME DInv, VotingMode, NEW a \in Annotations, VoteCounted(a)
    PROVE  DInv'
<1> USE DEF DInv
<1>1. PICK r \in Records :
        /\ candidates[a].status = "pending"
        /\ \A v \in DOMAIN r.delegations : r.delegations[v] # v
        /\ r.delegations = candidates[a].delegations
        /\ \/ r.qv_votes = candidates[a].qv_votes
           \/ \E vote \in Votes : r.qv_votes = Append(candidates[a].qv_votes, vote)
        /\ candidates' = [candidates EXCEPT ![a] = r]
        /\ \/ r.status = "pending" /\ UNCHANGED <<tasks, scheduled>>
           \/ r.status = "deciding" /\ Result(r) \in Outcomes /\ Schedule(a, Result(r))
        /\ (VOTING_MODE = "qv" /\ r.status = "pending") => Result(r) = Undecided
        /\ (VOTING_MODE = "community" /\ quorum_total(candidates[a].votes) < QUORUM_REQUIRED) =>
               IF r.status = "pending"
               THEN quorum_total(r.votes) < QUORUM_REQUIRED
               ELSE quorum_total(r.votes) = QUORUM_REQUIRED
        /\ UNCHANGED <<decisionCounter, reputation, history, topic, submissions, restarts>>
  BY DEF VoteCounted
<1>2. /\ candidates \in [Annotations -> Records \cup {Absent}]
      /\ candidates'[a] = r
      /\ \A b \in Annotations \ {a} : candidates'[b] = candidates[b]
      /\ \A b \in Annotations \ {a} : BallotResult(b)' = BallotResult(b)
      /\ candidates' \in [Annotations -> Records \cup {Absent}]
  <2>1. candidates \in [Annotations -> Records \cup {Absent}]
    BY DEF TypeOK
  <2> QED
    BY <1>1, <2>1, SameCandidate
<1>3. /\ r.status \in {"pending", "deciding"}
      /\ Known' = Known /\ a \in Known
  BY <1>1, <1>2, CandidateTyped DEF Known
<1>4. BallotResult(a)' = Result(r)
  BY <1>2 DEF BallotResult, Scores, Result
<1>5. \A t \in tasks : t \in Tasks /\ t.annotation \in Annotations \ {a}
  <2>1. \A t \in tasks : t \in Tasks /\ t.annotation \in Annotations /\ t.outcome \in Outcomes
    BY TaskTyped
  <2> QED
    BY <1>1, <2>1 DEF ClaimsOK, Outcomes
<1>6. /\ tasks \subseteq tasks'
      /\ \A t \in tasks' \ tasks : /\ t \in Tasks /\ t.annotation = a /\ t.stage = "queued"
                                   /\ t.outcome = Result(r)
                                   /\ r.status = "deciding"
      /\ \A t, u \in tasks' \ tasks : t = u
      /\ scheduled' \in Nat
  <2>1. scheduled \in Nat /\ scheduled + 1 \in Nat
    BY DEF TypeOK
  <2>2. CASE UNCHANGED <<tasks, scheduled>>
    BY <2>1, <2>2
  <2>3. CASE r.status = "deciding" /\ Result(r) \in Outcomes /\ Schedule(a, Result(r))
    BY <2>1, <2>3, NewTaskTyped DEF Schedule
  <2> QED
    BY <1>1, <2>2, <2>3
<1>7. TypeOK'
  <2>1. tasks' \subseteq Tasks
    BY <1>5, <1>6
  <2>2. \A b \in Known' : \A v \in DOMAIN candidates'[b].delegations :
            candidates'[b].delegations[v] # v
    BY <1>1, <1>2, <1>3 DEF TypeOK, Known
  <2> QED
    BY <1>1, <1>2, <1>6, <2>1, <2>2 DEF TypeOK
<1>8. ClaimsOK'
  <2>1. ASSUME NEW t \in tasks'
        PROVE  /\ candidates'[t.annotation].status =
                      IF t.stage = "recorded" THEN t.outcome ELSE "deciding"
               /\ t.outcome = BallotResult(t.annotation)'
               /\ history'[t.annotation] = 0
    <3>1. CASE t \in tasks
      BY <1>1, <1>2, <1>5, <3>1 DEF ClaimsOK
    <3>2. CASE t \notin tasks
      BY <1>1, <1>2, <1>4, <1>6, <2>1, <3>2 DEF ClaimsOK
    <3> QED
      BY <3>1, <3>2
  <2>2. ASSUME NEW t \in tasks', NEW u \in tasks', t.annotation = u.annotation PROVE t = u
    BY <1>5, <1>6, <2>2 DEF ClaimsOK
  <2>3. \A b \in Annotations : candidates'[b].status \in {"absent", "pending"} => history'[b] = 0
    BY <1>1, <1>2, <1>3 DEF ClaimsOK
  <2> QED
    BY <2>1, <2>2, <2>3 DEF ClaimsOK
<1>9. DeliveredOK' /\ OneDecisionPerProposal'
  BY <1>1, <1>6 DEF DeliveredOK, OnTopic, OneDecisionPerProposal
<1>10. DecidedWasAccepted'
  BY <1>1, <1>2, <1>3 DEF DecidedWasAccepted, Outcomes, Known
<1>11. TopicOK'
  <2>1. \A b \in Annotations : candidates[b].status \notin {"absent", "pending"} => b # a
    BY <1>1
  <2>2. \A t \in tasks' : candidates[t.annotation].status \notin {"absent", "pending"} => t \in tasks
    BY <1>1, <1>6
  <2> QED
    BY <1>1, <1>2, <2>1, <2>2, TopicKept
<1>12. QuorumExact'
  BY <1>1, <1>2, <1>3 DEF QuorumExact, Known
<1> QED
  BY <1>7, <1>8, <1>9, <1>10, <1>11, <1>12

\* A submission: a known annotation is left alone, a new one is open; in auto mode
\* either way a decision is scheduled.
LEMMA SubmissionKeepsDInv ==
    ASSUME DInv, NEW a \in Annotations, NEW r \in Recommendations, submit_candidate(a, r)
    PROVE  DInv'
<1> USE DEF DInv
<1>1. /\ UNCHANGED <<decisionCounter, reputation, history, topic, restarts>>
      /\ submissions' = submissions + 1
      /\ VotingMode => UNCHANGED <<tasks, scheduled>>
      /\ ~VotingMode => Schedule(a, candidates'[a].llm_recommendation)
      /\ candidates' = IF a \in Known THEN candidates ELSE [candidates EXCEPT ![a] = NewRecord(r)]
  BY DEF submit_candidate
<1>2. NewRecord(r) \in Records /\ NewRecord(r).status = "pending" /\ NewRecord(r).delegations = << >>
      /\ NewRecord(r).votes = [o \in Outcomes |-> 0]
  <2>1. << >> \in Seq(Votes) /\ << >> \in [{} -> Voters] /\ << >> \in Delegations
    BY DEF Delegations
  <2>2. r \in Outcomes
    BY MockDaoAssumption
  <2> HIDE DEF DInv
  <2> QED
    BY <2>1, <2>2 DEF NewRecord, Records
<1>3. /\ candidates \in [Annotations -> Records \cup {Absent}]
      /\ candidates' \in [Annotations -> Records \cup {Absent}]
      /\ \A b \in Annotations \ {a} : candidates'[b] = candidates[b]
      /\ candidates'[a] = IF a \in Known THEN candidates[a] ELSE NewRecord(r)
  BY <1>1, <1>2 DEF TypeOK
<1>4. /\ candidates'[a] \in Records /\ candidates'[a].llm_recommendation \in Outcomes
      /\ Known' = Known \cup {a}
  BY <1>2, <1>3, CandidateTyped DEF Known, Records
<1>5. /\ \A b \in Known : candidates'[b] = candidates[b] /\ BallotResult(b)' = BallotResult(b)
      /\ Known \subseteq Annotations
  BY <1>3, SameCandidate DEF Known
<1>6. \A t \in tasks : VotingMode => t.annotation \in Known
  <2>1. \A t \in tasks : t.annotation \in Annotations /\ t.outcome \in Outcomes
    BY TaskTyped
  <2> QED
    BY <2>1 DEF ClaimsOK, Known, Outcomes
<1>7. /\ tasks \subseteq tasks' /\ scheduled' \in Nat /\ tasks' \subseteq Tasks
      /\ \A t \in tasks' \ tasks : t.stage = "queued"
  <2>1. scheduled \in Nat /\ scheduled + 1 \in Nat /\ tasks \subseteq Tasks
    BY DEF TypeOK
  <2> QED
    BY <1>1, <1>4, <2>1, NewTaskTyped DEF Schedule
<1>8. TypeOK'
  <2>1. \A b \in Known' : \A v \in DOMAIN candidates'[b].delegations :
            candidates'[b].delegations[v] # v
    BY <1>2, <1>3, <1>4, <1>5 DEF TypeOK
  <2> QED
    BY <1>1, <1>3, <1>7, <2>1 DEF TypeOK
<1>9. ClaimsOK'
  BY <1>1, <1>2, <1>3, <1>5, <1>6, CandidateTyped DEF ClaimsOK, Known
<1>10. DeliveredOK' /\ OneDecisionPerProposal'
  BY <1>1, <1>7 DEF DeliveredOK, OnTopic, OneDecisionPerProposal
<1>11. DecidedWasAccepted'
  BY <1>1, <1>2, <1>3, <1>4 DEF DecidedWasAccepted, Outcomes
<1>12. TopicOK'
  <2>1. \A b \in Annotations : candidates[b].status \notin {"absent", "pending"} => b \in Known
    BY DEF Known
  <2> QED
    BY <1>1, <1>5, <2>1, TopicKept
<1>13. QuorumExact'
  <2>1. quorum_total(NewRecord(r).votes) = 0 /\ 0 < QUORUM_REQUIRED
    BY <1>2, MockDaoAssumption DEF quorum_total, Outcomes
  <2> QED
    BY <1>2, <1>3, <1>4, <1>5, <2>1 DEF QuorumExact
<1> QED
  BY <1>8, <1>9, <1>10, <1>11, <1>12, <1>13

\* A delegation changes the delegations of an open proposal and nothing else.
LEMMA DelegationKeepsDInv ==
    ASSUME DInv, NEW a \in Annotations, NEW v \in Voters, NEW d \in Voters, delegate_vote(a, v, d)
    PROVE  DInv'
<1> USE DEF DInv
<1> DEFINE ds == apply_delegation(candidates[a].delegations, v, d)
           r == [candidates[a] EXCEPT !.delegations = ds]
<1>1. /\ candidates[a].status = "pending" /\ v # d /\ VOTING_MODE = "qv"
      /\ UNCHANGED <<decisionCounter, tasks, reputation, history, topic,
                     scheduled, submissions, restarts>>
      /\ candidates' = [candidates EXCEPT ![a] = r]
  BY DEF delegate_vote
<1>2. candidates[a] \in Records /\ a \in Known /\ candidates \in [Annotations -> Records \cup {Absent}]
  BY <1>1, CandidateTyped DEF TypeOK, Known
<1>3. ds \in Delegations /\ \A w \in DOMAIN ds : ds[w] # w
  <2>1. PICK D \in SUBSET Voters : candidates[a].delegations \in [D -> Voters]
    BY <1>2 DEF Records, Delegations
  <2>2. ds \in [D \cup {v} -> Voters]
    BY <2>1 DEF apply_delegation
  <2>3. \A w \in D : candidates[a].delegations[w] # w
    BY <1>2, <2>1 DEF TypeOK
  <2>4. \A w \in D \cup {v} : ds[w] # w
    BY <1>1, <2>1, <2>3 DEF apply_delegation
  <2> HIDE DEF ds
  <2> QED
    BY <2>2, <2>4 DEF Delegations
<1> HIDE DEF ds
<1>4. r \in Records /\ r.status = "pending" /\ r.delegations = ds /\ r.votes = candidates[a].votes
  BY <1>1, <1>2, <1>3 DEF Records
<1> HIDE DEF r
<1>5. /\ candidates' \in [Annotations -> Records \cup {Absent}]
      /\ candidates'[a] = r /\ Known' = Known
      /\ \A b \in Annotations \ {a} : candidates'[b] = candidates[b] /\ BallotResult(b)' = BallotResult(b)
  <2>1. /\ candidates' \in [Annotations -> Records \cup {Absent}]
        /\ candidates'[a] = r
        /\ \A b \in Annotations \ {a} : candidates'[b] = candidates[b]
    BY <1>1, <1>2, <1>4
  <2> QED
    BY <1>2, <1>4, <2>1, SameCandidate DEF Known
<1>6. \A t \in tasks : t.annotation \in Annotations \ {a}
  <2>1. \A t \in tasks : t.annotation \in Annotations /\ t.outcome \in Outcomes
    BY TaskTyped
  <2> QED
    BY <1>1, <2>1 DEF ClaimsOK, VotingMode, Outcomes
<1>7. TypeOK'
  <2>1. \A b \in Known' : \A w \in DOMAIN candidates'[b].delegations : candidates'[b].delegations[w] # w
    BY <1>3, <1>4, <1>5 DEF TypeOK, Known
  <2> QED
    BY <1>1, <1>5, <2>1 DEF TypeOK
<1>8. ClaimsOK'
  BY <1>1, <1>4, <1>5, <1>6 DEF ClaimsOK
<1>9. DeliveredOK' /\ OneDecisionPerProposal' /\ QuorumExact'
  BY <1>1 DEF DeliveredOK, OnTopic, OneDecisionPerProposal, QuorumExact
<1>10. DecidedWasAccepted'
  BY <1>1, <1>4, <1>5 DEF DecidedWasAccepted, Outcomes, Known
<1>11. TopicOK'
  <2>1. \A b \in Annotations : candidates[b].status \notin {"absent", "pending"} => b # a
    BY <1>1
  <2> QED
    BY <1>1, <1>5, <2>1, TopicKept
<1> QED
  BY <1>7, <1>8, <1>9, <1>10, <1>11

\* A task that goes on to its next stage, or leaves the pool.
LEMMA ClaimsMoved ==
    ASSUME ClaimsOK, NEW t \in tasks, NEW t2, UNCHANGED <<candidates, history>>,
           tasks' \subseteq (tasks \ {t}) \cup {t2},
           t2.annotation = t.annotation, t2.outcome = t.outcome,
           t.stage # "recorded", t2.stage # "recorded"
    PROVE  ClaimsOK'
<1>1. \A a : candidates'[a] = candidates[a] /\ BallotResult(a)' = BallotResult(a)
  BY DEF BallotResult, Scores
<1> QED
  BY <1>1 DEF ClaimsOK

\* The webhook accepts the decision of a task: it is the one it has accepted of that
\* proposal before, if any.
LEMMA TopicAppended ==
    ASSUME DInv, NEW t \in tasks, t.stage = "posting", Accepted(t),
           NEW t2, tasks' \subseteq (tasks \ {t}) \cup {t2}, UNCHANGED <<candidates, restarts>>,
           t2.annotation = t.annotation, t2.decision_id = t.decision_id,
           t2.stage \in {"posting", "delivered"}
    PROVE  /\ topic' \in Seq([annotation_id : Annotations, decision_id : Nat, outcome : Outcomes])
           /\ TopicOK' /\ OneDecisionPerProposal'
           /\ OnTopic(t.annotation, t.decision_id, t.outcome)'
           /\ \A a, id, o : OnTopic(a, id, o) => OnTopic(a, id, o)'
<1> USE DEF DInv
<1> DEFINE Entry == [annotation_id : Annotations, decision_id : Nat, outcome : Outcomes]
           entry == [annotation_id |-> t.annotation, decision_id |-> t.decision_id,
                     outcome |-> t.outcome]
<1>1. entry \in Entry
  BY TaskTyped
<1>2. topic \in Seq(Entry) /\ topic' = Append(topic, entry)
  BY DEF TypeOK, Accepted
<1>3. /\ topic' \in Seq(Entry) /\ DOMAIN topic' = DOMAIN topic \cup {Len(topic) + 1}
      /\ topic'[Len(topic) + 1] = entry
      /\ \A i \in DOMAIN topic : topic'[i] = topic[i] /\ topic[i] \in Entry
  <2> HIDE DEF Entry, entry
  <2> QED
    BY <1>1, <1>2
<1>4. entry.annotation_id = t.annotation /\ entry.decision_id = t.decision_id /\ entry.outcome = t.outcome
  OBVIOUS
<1>5. OnTopic(t.annotation, t.decision_id, t.outcome)'
  BY <1>3 DEF OnTopic
<1>6. \A a, id, o : OnTopic(a, id, o) => OnTopic(a, id, o)'
  BY <1>3 DEF OnTopic
<1>7. \A b : BallotResult(b)' = BallotResult(b)
  BY DEF BallotResult, Scores
<1>8. ASSUME VotingMode, restarts = 0, NEW i \in DOMAIN topic, topic[i].annotation_id = t.annotation
      PROVE  topic[i] = entry
  <2>1. /\ topic[i].outcome = BallotResult(t.annotation) /\ t.outcome = BallotResult(t.annotation)
        /\ topic[i].decision_id = t.decision_id
    BY <1>8 DEF TopicOK, ClaimsOK
  <2> QED
    BY <1>3, <1>8, <2>1
<1> HIDE DEF Entry, entry
<1>9. OneDecisionPerProposal'
  <2> SUFFICES ASSUME VotingMode, restarts = 0, NEW i \in DOMAIN topic', NEW j \in DOMAIN topic',
                      topic'[i].annotation_id = topic'[j].annotation_id
               PROVE  topic'[i] = topic'[j]
    BY DEF OneDecisionPerProposal
  <2>1. CASE i \in DOMAIN topic /\ j \in DOMAIN topic
    BY <1>3, <2>1 DEF OneDecisionPerProposal
  <2>2. CASE i \notin DOMAIN topic /\ j \in DOMAIN topic
    BY <1>3, <1>4, <1>8, <2>2
  <2>3. CASE i \in DOMAIN topic /\ j \notin DOMAIN topic
    BY <1>3, <1>4, <1>8, <2>3
  <2>4. CASE i \notin DOMAIN topic /\ j \notin DOMAIN topic
    BY <1>3, <2>4
  <2> QED
    BY <2>1, <2>2, <2>3, <2>4
<1>10. TopicOK'
  <2> SUFFICES ASSUME VotingMode, restarts = 0, NEW i \in DOMAIN topic', NEW b,
                      topic'[i].annotation_id = b
               PROVE  /\ candidates[b].status \notin {"absent", "pending"}
                      /\ topic'[i].outcome = BallotResult(b)
                      /\ \A u \in tasks' : u.annotation = b =>
                             /\ u.stage \notin {"queued", "sleeping"}
                             /\ topic'[i].decision_id = u.decision_id
    BY <1>7 DEF TopicOK
  <2>1. CASE i \in DOMAIN topic
    <3>1. /\ candidates[b].status \notin {"absent", "pending"} /\ topic[i].outcome = BallotResult(b)
          /\ \A u \in tasks : u.annotation = b =>
                 u.stage \notin {"queued", "sleeping"} /\ topic[i].decision_id = u.decision_id
      BY <1>3, <2>1 DEF TopicOK
    <3> QED
      BY <1>3, <2>1, <3>1
  <2>2. CASE i \notin DOMAIN topic
    <3>1. b = t.annotation /\ topic'[i].outcome = t.outcome /\ topic'[i].decision_id = t.decision_id
      BY <1>3, <1>4, <2>2
    <3>2. candidates[b].status = "deciding" /\ t.outcome = BallotResult(b)
      BY <3>1 DEF ClaimsOK
    <3>3. \A u \in tasks \ {t} : u.annotation # b
      BY <3>1 DEF ClaimsOK
    <3> QED
      BY <3>1, <3>2, <3>3
  <2> QED
    BY <2>1, <2>2
<1> QED
  BY <1>3, <1>5, <1>6, <1>9, <1>10 DEF Entry

\* A step of a delivery before anything is recorded, and of which the webhook
\* knows nothing: the task goes on, or gives up and leaves the pool.
LEMMA TaskMoved ==
    ASSUME DInv, NEW t \in tasks, NEW t2 \in Tasks,
           tasks' \subseteq (tasks \ {t}) \cup {t2},
           t2.annotation = t.annotation, t2.outcome = t.outcome,
           t.stage # "recorded", t2.stage \notin {"delivered", "recorded"},
           t.stage \notin {"queued", "sleeping"} =>
               t2.stage \notin {"queued", "sleeping"} /\ t2.decision_id = t.decision_id,
           decisionCounter' \in Nat \ {0},
           UNCHANGED <<candidates, reputation, history, topic, scheduled, submissions, restarts>>
    PROVE  DInv'
<1> USE DEF DInv
<1>1. \A a : BallotResult(a)' = BallotResult(a)
  BY DEF BallotResult, Scores
<1>2. TypeOK'
  BY DEF TypeOK, Known
<1>3. ClaimsOK'
  BY ClaimsMoved
<1>4. DeliveredOK'
  BY DEF DeliveredOK, OnTopic
<1>5. DecidedWasAccepted' /\ OneDecisionPerProposal' /\ QuorumExact'
  BY DEF DecidedWasAccepted, OneDecisionPerProposal, QuorumExact, Known
<1>6. TopicOK'
  BY <1>1, TopicKept
<1> QED
  BY <1>2, <1>3, <1>4, <1>5, <1>6

\* ... and one in which the webhook accepts the decision.
LEMMA TaskPosted ==
    ASSUME DInv, NEW t \in tasks, NEW t2 \in Tasks, t.stage = "posting", Accepted(t),
           tasks' \subseteq (tasks \ {t}) \cup {t2},
           t2.annotation = t.annotation, t2.outcome = t.outcome,
           t2.decision_id = t.decision_id, t2.stage \in {"posting", "delivered"},
           UNCHANGED <<candidates, decisionCounter, reputation, history,
                       scheduled, submissions, restarts>>
    PROVE  DInv'
<1> USE DEF DInv
<1>1. /\ topic' \in Seq([annotation_id : Annotations, decision_id : Nat, outcome : Outcomes])
      /\ TopicOK' /\ OneDecisionPerProposal'
      /\ OnTopic(t.annotation, t.decision_id, t.outcome)'
      /\ \A a, id, o : OnTopic(a, id, o) => OnTopic(a, id, o)'
  BY TopicAppended
<1>2. TypeOK'
  BY <1>1 DEF TypeOK, Known
<1>3. ClaimsOK'
  BY ClaimsMoved
<1>4. DeliveredOK'
  BY <1>1 DEF DeliveredOK
<1>5. DecidedWasAccepted'
  <2>1. \A a \in Known : candidates[a].status \in Outcomes =>
            /\ candidates[a].decision.outcome = candidates[a].status
            /\ OnTopic(a, candidates[a].decision.decision_id, candidates[a].status)
    BY DEF DecidedWasAccepted, OnTopic
  <2>2. \A a \in Known : candidates[a].status \in Outcomes =>
            /\ candidates[a].decision.outcome = candidates[a].status
            /\ OnTopic(a, candidates[a].decision.decision_id, candidates[a].status)'
    BY <1>1, <2>1
  <2> QED
    BY <2>2 DEF DecidedWasAccepted, OnTopic, Known
<1>6. QuorumExact'
  BY DEF QuorumExact, Known
<1> QED
  BY <1>1, <1>2, <1>3, <1>4, <1>5, <1>6

\* A worker takes up a delivery and gives it its number.
LEMMA BeginKeepsDInv ==
    ASSUME DInv, NEW t \in tasks, Begin(t)
    PROVE  DInv'
<1> DEFINE t2 == [t EXCEPT !.stage = "sleeping"]
<1>1. /\ t2 \in Tasks /\ t2.annotation = t.annotation /\ t2.outcome = t.outcome
      /\ t2.stage = "sleeping" /\ t.stage = "queued"
  BY TaskTyped DEF DInv, Tasks, Begin
<1>2. tasks' = (tasks \ {t}) \cup {t2}
  BY DEF Begin, Advance
<1>3. /\ decisionCounter' \in Nat \ {0}
      /\ UNCHANGED <<candidates, reputation, history, topic, scheduled, submissions, restarts>>
  BY DEF Begin, DInv, TypeOK
<1> HIDE DEF t2
<1> QED
  BY <1>1, <1>2, <1>3, TaskMoved

LEMMA DecideKeepsDInv ==
    ASSUME DInv, NEW t \in tasks, _fake_decide(t)
    PROVE  DInv'
<1> DEFINE t2 == [t EXCEPT !.stage = "posting", !.decision_id = decisionCounter]
<1>1. /\ t2 \in Tasks /\ t2.annotation = t.annotation /\ t2.outcome = t.outcome
      /\ t2.stage = "posting" /\ t.stage = "sleeping"
  BY TaskTyped DEF DInv, TypeOK, Tasks, _fake_decide
<1>2. tasks' = (tasks \ {t}) \cup {t2}
  BY DEF _fake_decide, Advance
<1>3. /\ decisionCounter' \in Nat \ {0}
      /\ UNCHANGED <<candidates, reputation, history, topic, scheduled, submissions, restarts>>
  BY DEF _fake_decide, DInv, TypeOK
<1> HIDE DEF t2
<1> QED
  BY <1>1, <1>2, <1>3, TaskMoved

LEMMA AcceptedKeepsDInv ==
    ASSUME DInv, NEW t \in tasks, PostAccepted(t)
    PROVE  DInv'
<1> DEFINE t2 == [t EXCEPT !.stage = "delivered"]
<1>1. /\ t2 \in Tasks /\ t2.annotation = t.annotation /\ t2.outcome = t.outcome
      /\ t2.stage = "delivered" /\ t2.decision_id = t.decision_id /\ t.stage = "posting"
  BY TaskTyped DEF DInv, Tasks, PostAccepted
<1>2. tasks' = (tasks \ {t}) \cup {t2} /\ Accepted(t)
  BY DEF PostAccepted, Advance
<1>3. UNCHANGED <<candidates, decisionCounter, reputation, history, scheduled, submissions, restarts>>
  BY DEF PostAccepted
<1> HIDE DEF t2
<1> QED
  BY <1>1, <1>2, <1>3, TaskPosted

\* A failed post is tried again or given up, whether or not the webhook took it.
LEMMA FailureKeepsDInv ==
    ASSUME DInv, NEW t \in tasks, PostFails(t)
    PROVE  DInv'
<1> DEFINE again == [t EXCEPT !.attempt = @ + 1]
           t2 == IF t.attempt + 1 < WEBHOOK_MAX_RETRIES THEN again ELSE t
<1>1. /\ t \in Tasks /\ t.stage = "posting" /\ t.attempt \in 0 .. WEBHOOK_MAX_RETRIES - 1
      /\ WEBHOOK_MAX_RETRIES \in Nat
  BY TaskTyped, MockDaoAssumption DEF DInv, PostFails
<1>2. t.attempt + 1 < WEBHOOK_MAX_RETRIES => again \in Tasks
  BY <1>1 DEF Tasks
<1>3. /\ again.annotation = t.annotation /\ again.outcome = t.outcome
      /\ again.stage = t.stage /\ again.decision_id = t.decision_id
  BY <1>1 DEF Tasks
<1>4. /\ t2 \in Tasks /\ t2.annotation = t.annotation /\ t2.outcome = t.outcome
      /\ t2.stage = "posting" /\ t2.decision_id = t.decision_id
  BY <1>1, <1>2, <1>3
<1>5. tasks' \subseteq (tasks \ {t}) \cup {t2}
  BY DEF PostFails, Advance
<1>6. UNCHANGED <<candidates, decisionCounter, reputation, history, scheduled, submissions, restarts>>
  BY DEF PostFails
<1>7. decisionCounter' \in Nat \ {0}
  BY <1>6 DEF DInv, TypeOK
<1> HIDE DEF t2
<1>8. CASE UNCHANGED topic
  BY <1>1, <1>4, <1>5, <1>6, <1>7, <1>8, TaskMoved
<1>9. CASE Accepted(t)
  BY <1>1, <1>4, <1>5, <1>6, <1>9, TaskPosted
<1> QED
  BY <1>8, <1>9 DEF PostFails

\* The delivered decision is recorded.
LEMMA RecordingKeepsDInv ==
    ASSUME DInv, NEW t \in tasks, _set_status(t)
    PROVE  DInv'
<1> USE DEF DInv
<1> DEFINE a == t.annotation
           t2 == [t EXCEPT !.stage = "recorded"]
           r == [candidates[a] EXCEPT !.status = t.outcome, !.decision = DecisionOf(t)]
<1>1. /\ t \in Tasks /\ a \in Annotations /\ t.outcome \in Outcomes /\ t.decision_id \in Nat
      /\ t.stage = "delivered"
      /\ UNCHANGED <<decisionCounter, reputation, history, topic, scheduled, submissions, restarts>>
  BY TaskTyped DEF _set_status
<1>2. /\ t2 \in Tasks /\ t2.annotation = a /\ t2.outcome = t.outcome
      /\ t2.stage = "recorded" /\ t2.decision_id = t.decision_id
      /\ tasks' = (tasks \ {t}) \cup {t2}
  BY <1>1 DEF Tasks, _set_status, Advance
<1>3. a \in Known => candidates[a] \in Records
  BY <1>1, CandidateTyped
<1>4. candidates[a] \in Records =>
        /\ r \in Records /\ r.status = t.outcome /\ r.decision = DecisionOf(t)
        /\ r.votes = candidates[a].votes /\ r.qv_votes = candidates[a].qv_votes
        /\ r.delegations = candidates[a].delegations
  <2>1. DecisionOf(t) \in Decisions
    BY <1>1 DEF Decisions, DecisionOf
  <2> QED
    BY <1>1, <2>1 DEF Records
<1>5. candidates' = IF a \in Known THEN [candidates EXCEPT ![a] = r] ELSE candidates
  BY DEF _set_status
<1> HIDE DEF r, t2
<1>6. /\ candidates' \in [Annotations -> Records \cup {Absent}]
      /\ \A b \in Annotations \ {a} : candidates'[b] = candidates[b]
      /\ candidates'[a] = IF a \in Known THEN r ELSE candidates[a]
  <2>1. candidates \in [Annotations -> Records \cup {Absent}]
    BY DEF TypeOK
  <2> QED
    BY <1>1, <1>3, <1>4, <1>5, <2>1
<1>7. /\ \A b \in Annotations : BallotResult(b)' = BallotResult(b)
      /\ Known' = Known
  <2>1. \A b \in Annotations : b # a => BallotResult(b)' = BallotResult(b)
    BY <1>6, SameCandidate
  <2>2. BallotResult(a)' = BallotResult(a)
    BY <1>1, <1>3, <1>4, <1>6, SameBallots
  <2> QED
    BY <1>1, <1>3, <1>4, <1>6, <2>1, <2>2 DEF Known, Outcomes
<1>8. TypeOK'
  <2>1. \A b \in Known' : \A v \in DOMAIN candidates'[b].delegations :
            candidates'[b].delegations[v] # v
    BY <1>3, <1>4, <1>6, <1>7 DEF TypeOK, Known
  <2>2. tasks' \subseteq Tasks
    BY <1>2 DEF TypeOK
  <2> QED
    BY <1>1, <1>6, <2>1, <2>2 DEF TypeOK
<1>9. VotingMode => a \in Known /\ candidates[a].status = "deciding"
  BY <1>1 DEF ClaimsOK, Known
<1>10. ClaimsOK'
  <2> SUFFICES ASSUME VotingMode PROVE ClaimsOK'
    BY DEF ClaimsOK
  <2>1. \A u \in tasks \ {t} : u.annotation \in Annotations \ {a}
    BY TaskTyped DEF ClaimsOK
  <2>2. candidates'[a].status = t.outcome
    BY <1>3, <1>4, <1>6, <1>9
  <2>3. ASSUME NEW u \in tasks'
        PROVE  /\ candidates'[u.annotation].status =
                      IF u.stage = "recorded" THEN u.outcome ELSE "deciding"
               /\ u.outcome = BallotResult(u.annotation)'
               /\ history'[u.annotation] = 0
    <3>1. CASE u \in tasks \ {t}
      BY <1>1, <1>6, <1>7, <2>1, <3>1 DEF ClaimsOK
    <3>2. CASE u = t2
      BY <1>1, <1>2, <1>7, <2>2, <3>2 DEF ClaimsOK
    <3> QED
      BY <1>2, <3>1, <3>2
  <2>4. \A u, w \in tasks' : u.annotation = w.annotation => u = w
    BY <1>2, <2>1 DEF ClaimsOK
  <2>5. \A b \in Annotations : candidates'[b].status \in {"absent", "pending"} => history'[b] = 0
    BY <1>1, <1>6, <2>2 DEF ClaimsOK, Outcomes
  <2> QED
    BY <2>3, <2>4, <2>5 DEF ClaimsOK
<1>11. DeliveredOK' /\ OneDecisionPerProposal'
  BY <1>1, <1>2 DEF DeliveredOK, OnTopic, OneDecisionPerProposal
<1>12. DecidedWasAccepted'
  <2>1. ASSUME a \in Known
        PROVE  /\ candidates'[a].decision.outcome = candidates'[a].status
               /\ OnTopic(a, candidates'[a].decision.decision_id, candidates'[a].status)
    <3>1. OnTopic(a, t.decision_id, t.outcome)
      BY <1>1 DEF DeliveredOK
    <3> QED
      BY <1>3, <1>4, <1>6, <2>1, <3>1 DEF DecisionOf
  <2>2. \A b \in Known \ {a} : candidates'[b] = candidates[b]
    BY <1>6 DEF Known
  <2> QED
    BY <1>1, <1>7, <2>1, <2>2 DEF DecidedWasAccepted, OnTopic
<1>13. TopicOK'
  <2>1. \A b \in Annotations : candidates[b].status \notin {"absent", "pending"} =>
            candidates'[b].status \notin {"absent", "pending"}
    BY <1>1, <1>3, <1>4, <1>6 DEF Outcomes
  <2>2. \A u \in tasks' : \E w \in tasks :
            /\ w.annotation = u.annotation
            /\ w.stage \notin {"queued", "sleeping"} =>
                   u.stage \notin {"queued", "sleeping"} /\ u.decision_id = w.decision_id
    BY <1>2
  <2> QED
    BY <1>1, <1>7, <2>1, <2>2, TopicKept
<1>14. QuorumExact'
  <2> SUFFICES ASSUME VOTING_MODE = "community", NEW b \in Known
               PROVE  IF candidates'[b].status = "pending"
                      THEN quorum_total(candidates'[b].votes) < QUORUM_REQUIRED
                      ELSE quorum_total(candidates'[b].votes) = QUORUM_REQUIRED
    BY <1>7 DEF QuorumExact
  <2>1. CASE b # a
    BY <1>6, <2>1 DEF QuorumExact, Known
  <2>2. CASE b = a
    <3>1. quorum_total(candidates[a].votes) = QUORUM_REQUIRED
      BY <1>9, <2>2 DEF QuorumExact, VotingMode
    <3> QED
      BY <1>1, <1>3, <1>4, <1>6, <2>2, <3>1 DEF Outcomes
  <2> QED
    BY <2>1, <2>2
<1> QED
  BY <1>8, <1>10, <1>11, <1>12, <1>13, <1>14
\* A validated entry is rewarded: nobody's reputation shrinks, and the task is done.
LEMMA RewardTyped ==
    ASSUME TypeOK, NEW a \in Known, NEW x
    PROVE  Reward(x, a) \in Nat
<1>1. candidates[a] \in Records
  BY CandidateTyped DEF Known
<1>2. candidates[a].qv_votes \in Seq(Votes)
  BY <1>1 DEF Records
<1>3. IsFiniteSet(DOMAIN candidates[a].qv_votes)
  <2>1. /\ DOMAIN candidates[a].qv_votes = 1 .. Len(candidates[a].qv_votes)
        /\ Len(candidates[a].qv_votes) \in Int /\ 1 \in Int
    BY <1>2
  <2> QED
    BY <2>1, FS_Interval
<1> DEFINE mine == {i \in DOMAIN candidates[a].qv_votes :
                      /\ candidates[a].qv_votes[i].voter = x
                      /\ candidates[a].qv_votes[i].outcome = "validated"}
<1>4. mine \in SUBSET DOMAIN candidates[a].qv_votes
  OBVIOUS
<1>5. Cardinality(mine) \in Nat
  <2> HIDE DEF mine
  <2> QED
    BY <1>3, <1>4, FS_Subset, FS_CardinalityType
<1>6. Reward(x, a) = (IF x = Submitter[a] THEN 2 ELSE 0) + Cardinality(mine)
  BY DEF Reward, VotesOf
<1> HIDE DEF mine
<1> QED
  BY <1>5, <1>6

LEMMA RewardKeepsDInv ==
    ASSUME DInv, NEW t \in tasks, _apply_reputation(t)
    PROVE  DInv'
<1> USE DEF DInv
<1>1. /\ t.annotation \in Annotations /\ t.stage = "recorded" /\ t.outcome \in Outcomes
      /\ tasks' = tasks \ {t}
      /\ UNCHANGED <<candidates, decisionCounter, topic, scheduled, submissions, restarts>>
  BY TaskTyped DEF _apply_reputation
<1>2. \A a : BallotResult(a)' = BallotResult(a)
  BY <1>1 DEF BallotResult, Scores
<1>3. /\ reputation' \in [People -> Nat] /\ history' \in [Annotations -> Nat]
      /\ \A a \in Annotations \ {t.annotation} : history'[a] = history[a]
  <2>1. reputation \in [People -> Nat] /\ history \in [Annotations -> Nat]
    BY DEF TypeOK
  <2>2. CASE UNCHANGED <<reputation, history>>
    BY <2>1, <2>2
  <2>3. CASE /\ t.annotation \in Known
             /\ reputation' = [x \in People |-> reputation[x] + Reward(x, t.annotation)]
             /\ history' = [history EXCEPT ![t.annotation] = @ + 1]
    <3>1. \A x \in People : reputation[x] + Reward(x, t.annotation) \in Nat
      BY <2>1, <2>3, RewardTyped
    <3> QED
      BY <1>1, <2>1, <2>3, <3>1
  <2> QED
    BY <2>2, <2>3 DEF _apply_reputation
<1>4. TypeOK'
  BY <1>1, <1>3 DEF TypeOK, Known
<1>5. ClaimsOK'
  <2>1. VotingMode => /\ candidates[t.annotation].status = t.outcome
                      /\ \A u \in tasks \ {t} : u.annotation \in Annotations \ {t.annotation}
    BY <1>1, TaskTyped DEF ClaimsOK
  <2> QED
    BY <1>1, <1>2, <1>3, <2>1 DEF ClaimsOK, Outcomes
<1>6. DeliveredOK' /\ DecidedWasAccepted' /\ OneDecisionPerProposal' /\ QuorumExact'
  BY <1>1 DEF DeliveredOK, OnTopic, DecidedWasAccepted, OneDecisionPerProposal, QuorumExact, Known
<1>7. TopicOK'
  BY <1>1, <1>2, TopicKept
<1> QED
  BY <1>4, <1>5, <1>6, <1>7

\* After a restart the process knows of nothing.
LEMMA RestartKeepsDInv ==
    ASSUME DInv, Restart
    PROVE  DInv'
<1>1. /\ candidates' = [a \in Annotations |-> Absent] /\ Known' = {} /\ tasks' = {}
      /\ history' = [a \in Annotations |-> 0] /\ restarts' = restarts + 1
      /\ restarts \in Nat
  BY DEF Restart, Known, Absent, DInv, TypeOK
<1>2. TypeOK'
  BY <1>1 DEF Restart, DInv, TypeOK
<1>3. ClaimsOK' /\ DeliveredOK' /\ DecidedWasAccepted' /\ QuorumExact'
  BY <1>1 DEF ClaimsOK, DeliveredOK, DecidedWasAccepted, QuorumExact
<1>4. TopicOK' /\ OneDecisionPerProposal'
  BY <1>1 DEF TopicOK, OneDecisionPerProposal
<1> QED
  BY <1>2, <1>3, <1>4 DEF DInv

\* Every step of the process.
LEMMA NextDInv == DInv /\ [Next]_vars => DInv'
<1> SUFFICES ASSUME DInv, [Next]_vars PROVE DInv'
  OBVIOUS
<1>1. ASSUME NEW a \in Annotations, NEW r \in Recommendations, submit_candidate(a, r)
      PROVE  DInv'
  BY <1>1, SubmissionKeepsDInv
<1>2. ASSUME NEW a \in Annotations, NEW o \in Outcomes, CastVote(a, o)
      PROVE  DInv'
  <2>1. VotingMode /\ VoteCounted(a)
    BY <1>2, VotesCount DEF DInv
  <2> QED
    BY <2>1, VoteKeepsDInv
<1>3. ASSUME NEW a \in Annotations, NEW v \in NamedVoters, NEW d \in Voters, delegate_vote(a, v, d)
      PROVE  DInv'
  BY <1>3, DelegationKeepsDInv, MockDaoAssumption
<1>4. ASSUME NEW t \in tasks, DeliveryStep(t)
      PROVE  DInv'
  BY <1>4, BeginKeepsDInv, DecideKeepsDInv, AcceptedKeepsDInv, FailureKeepsDInv,
     RecordingKeepsDInv, RewardKeepsDInv DEF DeliveryStep
<1>5. CASE Restart
  BY <1>5, RestartKeepsDInv
<1>6. CASE UNCHANGED vars
  <2>1. \A a : BallotResult(a)' = BallotResult(a)
    BY <1>6 DEF vars, BallotResult, Scores
  <2>2. TypeOK' /\ ClaimsOK' /\ DeliveredOK' /\ DecidedWasAccepted'
    BY <1>6, <2>1 DEF vars, DInv, TypeOK, ClaimsOK, DeliveredOK, OnTopic, DecidedWasAccepted, Known
  <2>3. TopicOK' /\ OneDecisionPerProposal' /\ QuorumExact'
    BY <1>6, <2>1 DEF vars, DInv, TopicOK, OneDecisionPerProposal, QuorumExact, Known
  <2> QED
    BY <2>2, <2>3 DEF DInv
<1> QED
  BY <1>1, <1>2, <1>3, <1>4, <1>5, <1>6 DEF Next
-------------------------------------------------------------------------------
\* Every reachable state satisfies the invariant.
THEOREM DaoInvariance == Spec => []DInv
  BY InitDInv, NextDInv, PTL DEF Spec

\* Every variable keeps its type, for every number of proposals, voters, workers
\* and retries, and nobody delegates to himself (main.py:621).
THEOREM DaoTypeCorrect == Spec => []TypeOK
<1>1. DInv => TypeOK
  BY DEF DInv
<1> QED
  BY <1>1, DaoInvariance, PTL

\* What the DAO shows as decided, in any mode, was accepted by the webhook, with
\* that number and that outcome (main.py:442-447).
THEOREM DecidedCorrect == Spec => []DecidedWasAccepted
<1>1. DInv => DecidedWasAccepted
  BY DEF DInv
<1> QED
  BY <1>1, DaoInvariance, PTL

\* The topic never carries two different decisions of one voted proposal, however
\* often a post is retried after its reply was lost.
THEOREM OneDecisionCorrect == Spec => []OneDecisionPerProposal
<1>1. DInv => OneDecisionPerProposal
  BY DEF DInv
<1> QED
  BY <1>1, DaoInvariance, PTL

\* No vote is counted after the one that made up the quorum.
THEOREM QuorumCorrect == Spec => []QuorumExact
<1>1. DInv => QuorumExact
  BY DEF DInv
<1> QED
  BY <1>1, DaoInvariance, PTL

\* Every delivered decision is, then and ever after, the result of the ballots on
\* record: votes and delegations that arrive during its delivery change nothing.
THEOREM BallotsCorrect == Spec => []DecisionIsBallotResult
<1>1. DInv => DecisionIsBallotResult
  BY DEF DInv, TopicOK, DecisionIsBallotResult
<1> QED
  BY <1>1, DaoInvariance, PTL
-------------------------------------------------------------------------------
\* The refinement mapping, each part by a name.
gPhase == [a \in Annotations |-> PhaseOf(a)]
gVerdict == [a \in Annotations |-> VerdictOf(a)]
gPublished == [a \in Annotations |->
                  {topic[i].outcome : i \in {j \in DOMAIN topic : topic[j].annotation_id = a}}]

\* The actions of GovernanceRecord under the mapping.
LEMMA MappedSteps ==
    ASSUME NEW a \in Annotations
    PROVE  /\ Governance!Propose(a) <=>
                  /\ gPhase[a] = "unknown" /\ gPhase' = [gPhase EXCEPT ![a] = "open"]
                  /\ UNCHANGED <<gVerdict, gPublished, history>>
           /\ Governance!Claim(a) <=>
                  /\ gPhase[a] = "open" /\ gPhase' = [gPhase EXCEPT ![a] = "claimed"]
                  /\ \E v \in Outcomes : gVerdict' = [gVerdict EXCEPT ![a] = v]
                  /\ UNCHANGED <<gPublished, history>>
           /\ Governance!Publish(a) <=>
                  /\ gPhase[a] = "claimed"
                  /\ gPublished' = [gPublished EXCEPT ![a] = @ \cup {gVerdict[a]}]
                  /\ UNCHANGED <<gPhase, gVerdict, history>>
           /\ Governance!RecordVerdict(a) <=>
                  /\ gVerdict[a] \in gPublished[a]
                  /\ gPhase[a] = "claimed" /\ gPhase' = [gPhase EXCEPT ![a] = "recorded"]
                  /\ UNCHANGED <<gVerdict, gPublished, history>>
           /\ Governance!GiveReward(a) <=>
                  /\ gPhase[a] = "recorded" /\ gVerdict[a] \in {"validated"} /\ history[a] = 0
                  /\ history' = [history EXCEPT ![a] = 1]
                  /\ UNCHANGED <<gPhase, gVerdict, gPublished>>
<1>1. Governance!Propose(a) <=>
                  /\ gPhase[a] = "unknown" /\ gPhase' = [gPhase EXCEPT ![a] = "open"]
                  /\ UNCHANGED <<gVerdict, gPublished, history>>
  BY Zenon DEF Governance!Propose, Governance!Move, gPhase, gVerdict, gPublished
<1>2. Governance!Claim(a) <=>
                  /\ gPhase[a] = "open" /\ gPhase' = [gPhase EXCEPT ![a] = "claimed"]
                  /\ \E v \in Outcomes : gVerdict' = [gVerdict EXCEPT ![a] = v]
                  /\ UNCHANGED <<gPublished, history>>
  BY Zenon DEF Governance!Claim, Governance!Move, gPhase, gVerdict, gPublished
<1>3. Governance!Publish(a) <=>
                  /\ gPhase[a] = "claimed"
                  /\ gPublished' = [gPublished EXCEPT ![a] = @ \cup {gVerdict[a]}]
                  /\ UNCHANGED <<gPhase, gVerdict, history>>
  BY Zenon DEF Governance!Publish, gPhase, gVerdict, gPublished
<1>4. Governance!RecordVerdict(a) <=>
                  /\ gVerdict[a] \in gPublished[a]
                  /\ gPhase[a] = "claimed" /\ gPhase' = [gPhase EXCEPT ![a] = "recorded"]
                  /\ UNCHANGED <<gVerdict, gPublished, history>>
  BY Zenon DEF Governance!RecordVerdict, Governance!Move, gPhase, gVerdict, gPublished
<1>5. Governance!GiveReward(a) <=>
                  /\ gPhase[a] = "recorded" /\ gVerdict[a] \in {"validated"} /\ history[a] = 0
                  /\ history' = [history EXCEPT ![a] = 1]
                  /\ UNCHANGED <<gPhase, gVerdict, gPublished>>
  BY Zenon DEF Governance!GiveReward, gPhase, gVerdict, gPublished
<1> QED
  BY <1>1, <1>2, <1>3, <1>4, <1>5
\* A proposal whose status and ballots stay has the phase and the verdict it had.
LEMMA MappedAlike ==
    ASSUME NEW a \in Annotations,
           candidates'[a].status = candidates[a].status,
           BallotResult(a)' = BallotResult(a)
    PROVE  gPhase'[a] = gPhase[a] /\ gVerdict'[a] = gVerdict[a]
<1>1. PhaseOf(a)' = PhaseOf(a)
  BY DEF PhaseOf
<1>2. VerdictOf(a)' = VerdictOf(a)
  BY <1>1 DEF VerdictOf
<1> QED
  BY <1>1, <1>2 DEF gPhase, gVerdict

LEMMA MappedSame ==
    ASSUME NEW a \in Annotations, candidates'[a] = candidates[a]
    PROVE  gPhase'[a] = gPhase[a] /\ gVerdict'[a] = gVerdict[a]
  BY SameCandidate, MappedAlike

LEMMA SameMapping ==
    ASSUME UNCHANGED candidates
    PROVE  UNCHANGED <<gPhase, gVerdict>>
<1>1. \A b \in Annotations : gPhase'[b] = gPhase[b] /\ gVerdict'[b] = gVerdict[b]
  BY MappedSame
<1>2. /\ gPhase = [b \in Annotations |-> gPhase[b]] /\ gPhase' = [b \in Annotations |-> gPhase'[b]]
      /\ gVerdict = [b \in Annotations |-> gVerdict[b]]
      /\ gVerdict' = [b \in Annotations |-> gVerdict'[b]]
  BY DEF gPhase, gVerdict
<1> QED
  BY <1>1, <1>2

\* Where only one proposal moves, the functions change in that place.
LEMMA MovesOnly ==
    ASSUME NEW a \in Annotations, \A b \in Annotations \ {a} : candidates'[b] = candidates[b]
    PROVE  /\ gPhase' = [gPhase EXCEPT ![a] = gPhase'[a]]
           /\ gVerdict' = [gVerdict EXCEPT ![a] = gVerdict'[a]]
<1>1. \A b \in Annotations \ {a} : gPhase'[b] = gPhase[b] /\ gVerdict'[b] = gVerdict[b]
  BY MappedSame
<1>2. /\ gPhase = [b \in Annotations |-> gPhase[b]] /\ gPhase' = [b \in Annotations |-> gPhase'[b]]
      /\ gVerdict = [b \in Annotations |-> gVerdict[b]]
      /\ gVerdict' = [b \in Annotations |-> gVerdict'[b]]
  BY DEF gPhase, gVerdict
<1> QED
  BY <1>1, <1>2

\* Steps that GovernanceRecord does not see.
LEMMA Unseen ==
    ASSUME UNCHANGED <<candidates, topic, history>>
    PROVE  UNCHANGED Governance!govVars
<1>1. UNCHANGED <<gPhase, gVerdict>>
  BY SameMapping
<1>2. UNCHANGED gPublished
  BY DEF gPublished
<1> QED
  BY Zenon, <1>1, <1>2 DEF Governance!govVars, gPhase, gVerdict, gPublished

LEMMA UnseenAt ==
    ASSUME NEW a \in Annotations, \A b \in Annotations \ {a} : candidates'[b] = candidates[b],
           gPhase'[a] = gPhase[a], gVerdict'[a] = gVerdict[a], UNCHANGED <<topic, history>>
    PROVE  UNCHANGED Governance!govVars
<1>1. /\ gPhase' = [gPhase EXCEPT ![a] = gPhase[a]]
      /\ gVerdict' = [gVerdict EXCEPT ![a] = gVerdict[a]]
  BY MovesOnly
<1>2. UNCHANGED <<gPhase, gVerdict>>
  BY <1>1 DEF gPhase, gVerdict
<1>3. UNCHANGED gPublished
  BY DEF gPublished
<1> QED
  BY Zenon, <1>2, <1>3 DEF Governance!govVars, gPhase, gVerdict, gPublished

\* A new candidate is proposed; a known one is left alone.
LEMMA SubmissionImplements ==
    ASSUME DInv, VotingMode, NEW a \in Annotations, NEW r \in Recommendations, submit_candidate(a, r)
    PROVE  Governance!Propose(a) \/ UNCHANGED Governance!govVars
<1>1. /\ UNCHANGED <<history, topic>>
      /\ candidates' = IF a \in Known THEN candidates ELSE [candidates EXCEPT ![a] = NewRecord(r)]
  BY DEF submit_candidate
<1>2. CASE a \in Known
  BY <1>1, <1>2, Unseen
<1>3. CASE a \notin Known
  <2>1. /\ candidates[a].status = "absent" /\ candidates'[a].status = "pending"
        /\ \A b \in Annotations \ {a} : candidates'[b] = candidates[b]
    BY <1>1, <1>3, CandidateTyped DEF DInv, TypeOK, NewRecord
  <2>2. PhaseOf(a) = "unknown" /\ PhaseOf(a)' = "open"
    BY <2>1 DEF PhaseOf
  <2>3. VerdictOf(a) = "undetermined" /\ VerdictOf(a)' = "undetermined"
    BY <2>2 DEF VerdictOf
  <2>4. /\ gPhase[a] = "unknown" /\ gPhase'[a] = "open" /\ gVerdict'[a] = gVerdict[a]
    BY <2>2, <2>3 DEF gPhase, gVerdict
  <2>5. /\ gPhase' = [gPhase EXCEPT ![a] = "open"]
        /\ gVerdict' = [gVerdict EXCEPT ![a] = gVerdict[a]]
    BY <2>1, <2>4, MovesOnly
  <2>6. UNCHANGED gVerdict
    BY <2>5 DEF gVerdict
  <2>7. UNCHANGED gPublished
    BY <1>1 DEF gPublished
  <2> QED
    BY <1>1, <2>4, <2>5, <2>6, <2>7, MappedSteps
<1> QED
  BY <1>2, <1>3

\* A vote that decides claims the proposal with the result of its ballots; the
\* ballots of an open one are nothing GovernanceRecord knows of.
LEMMA VoteImplements ==
    ASSUME DInv, NEW a \in Annotations, VoteCounted(a)
    PROVE  Governance!Claim(a) \/ UNCHANGED Governance!govVars
<1>1. PICK r \in Records :
        /\ candidates[a].status = "pending"
        /\ candidates' = [candidates EXCEPT ![a] = r]
        /\ r.status = "pending" \/ (r.status = "deciding" /\ Result(r) \in Outcomes)
        /\ UNCHANGED <<history, topic>>
  BY DEF VoteCounted
<1>2. candidates'[a] = r /\ \A b \in Annotations \ {a} : candidates'[b] = candidates[b]
  BY <1>1 DEF DInv, TypeOK
<1>3. gPhase[a] = "open" /\ gVerdict[a] = "undetermined"
  BY <1>1 DEF gPhase, gVerdict, PhaseOf, VerdictOf
<1>4. CASE r.status = "pending"
  <2>1. gPhase'[a] = "open" /\ gVerdict'[a] = "undetermined"
    BY <1>2, <1>4 DEF gPhase, gVerdict, PhaseOf, VerdictOf
  <2> QED
    BY <1>1, <1>2, <1>3, <2>1, UnseenAt
<1>5. CASE r.status = "deciding" /\ Result(r) \in Outcomes
  <2>1. BallotResult(a)' = Result(r)
    BY <1>2 DEF BallotResult, Scores, Result
  <2>2. PhaseOf(a)' = "claimed"
    BY <1>2, <1>5 DEF PhaseOf
  <2>3. VerdictOf(a)' = Result(r)
    BY <2>1, <2>2 DEF VerdictOf
  <2>4. gPhase'[a] = "claimed" /\ gVerdict'[a] = Result(r)
    BY <2>2, <2>3 DEF gPhase, gVerdict
  <2>5. /\ gPhase' = [gPhase EXCEPT ![a] = "claimed"]
        /\ gVerdict' = [gVerdict EXCEPT ![a] = Result(r)]
    BY <1>2, <2>4, MovesOnly
  <2>6. UNCHANGED gPublished
    BY <1>1 DEF gPublished
  <2> QED
    BY <1>1, <1>3, <1>5, <2>5, <2>6, MappedSteps
<1> QED
  BY <1>1, <1>4, <1>5

\* Delegations move the ballots of open proposals only.
LEMMA DelegationImplements ==
    ASSUME DInv, NEW a \in Annotations, NEW v, NEW d, delegate_vote(a, v, d)
    PROVE  UNCHANGED Governance!govVars
<1>1. /\ candidates[a].status = "pending" /\ UNCHANGED <<history, topic>>
      /\ candidates \in [Annotations -> Records \cup {Absent}]
  BY DEF delegate_vote, DInv, TypeOK
<1>2. candidates[a] \in Records
  BY <1>1, CandidateTyped DEF DInv, Known
<1>3. /\ candidates'[a].status = "pending"
      /\ \A b \in Annotations \ {a} : candidates'[b] = candidates[b]
  BY <1>1, <1>2 DEF delegate_vote, Records
<1>4. gPhase'[a] = gPhase[a] /\ gVerdict'[a] = gVerdict[a]
  BY <1>1, <1>3 DEF gPhase, gVerdict, PhaseOf, VerdictOf
<1> QED
  BY <1>1, <1>3, <1>4, UnseenAt

\* A task carries the verdict of a claimed proposal.
LEMMA TaskMapped ==
    ASSUME DInv, VotingMode, NEW t \in tasks
    PROVE  /\ t.annotation \in Annotations
           /\ gPhase[t.annotation] = IF t.stage = "recorded" THEN "recorded" ELSE "claimed"
           /\ gVerdict[t.annotation] = t.outcome
<1>1. /\ t.annotation \in Annotations /\ t.outcome \in Outcomes
      /\ candidates[t.annotation].status = IF t.stage = "recorded" THEN t.outcome ELSE "deciding"
      /\ t.outcome = BallotResult(t.annotation)
  BY TaskTyped DEF DInv, ClaimsOK
<1>2. PhaseOf(t.annotation) = IF t.stage = "recorded" THEN "recorded" ELSE "claimed"
  BY <1>1 DEF PhaseOf, Outcomes
<1>3. VerdictOf(t.annotation) = t.outcome
  BY <1>1, <1>2 DEF VerdictOf
<1> QED
  BY <1>1, <1>2, <1>3 DEF gPhase, gVerdict

\* What the webhook accepts is published, once or again.
LEMMA AcceptedImplements ==
    ASSUME DInv, VotingMode, NEW t \in tasks, t.stage = "posting", Accepted(t),
           UNCHANGED <<candidates, history>>
    PROVE  Governance!Publish(t.annotation)
<1> DEFINE a == t.annotation
           Entry == [annotation_id : Annotations, decision_id : Nat, outcome : Outcomes]
           entry == [annotation_id |-> a, decision_id |-> t.decision_id, outcome |-> t.outcome]
<1>1. a \in Annotations /\ gPhase[a] = "claimed" /\ gVerdict[a] = t.outcome
  BY TaskMapped
<1>2. UNCHANGED <<gPhase, gVerdict>>
  BY SameMapping
<1>3. entry \in Entry /\ entry.annotation_id = a /\ entry.outcome = t.outcome
  BY TaskTyped DEF DInv
<1>4. topic \in Seq(Entry) /\ topic' = Append(topic, entry)
  BY DEF DInv, TypeOK, Accepted
<1>5. /\ DOMAIN topic' = DOMAIN topic \cup {Len(topic) + 1}
      /\ topic'[Len(topic) + 1] = entry
      /\ \A i \in DOMAIN topic : topic'[i] = topic[i]
  <2> HIDE DEF Entry, entry
  <2> QED
    BY <1>3, <1>4
<1> HIDE DEF Entry, entry
<1> DEFINE Of(b) == {i \in DOMAIN topic : topic[i].annotation_id = b}
           OfNext(b) == {i \in DOMAIN topic' : topic'[i].annotation_id = b}
<1>6. gPublished' = [gPublished EXCEPT ![a] = @ \cup {gVerdict[a]}]
  <2>1. ASSUME NEW b \in Annotations
        PROVE  {topic'[i].outcome : i \in OfNext(b)} =
                   IF b = a THEN {topic[i].outcome : i \in Of(b)} \cup {t.outcome}
                   ELSE {topic[i].outcome : i \in Of(b)}
    <3>1. CASE b = a
      BY <1>3, <1>5, <3>1
    <3>2. CASE b # a
      BY <1>3, <1>5, <3>2
    <3> QED
      BY <3>1, <3>2
  <2>2. /\ gPublished = [b \in Annotations |-> {topic[i].outcome : i \in Of(b)}]
        /\ gPublished' = [b \in Annotations |-> {topic'[i].outcome : i \in OfNext(b)}]
    BY DEF gPublished
  <2> HIDE DEF Of, OfNext
  <2> QED
    BY <1>1, <2>1, <2>2
<1> QED
  BY <1>1, <1>2, <1>6, MappedSteps
\* The steps of a delivery.
LEMMA DeliveryImplements ==
    ASSUME DInv, VotingMode, NEW t \in tasks, DeliveryStep(t)
    PROVE  \/ Governance!Publish(t.annotation)
           \/ Governance!RecordVerdict(t.annotation)
           \/ Governance!GiveReward(t.annotation)
           \/ UNCHANGED Governance!govVars
<1> DEFINE a == t.annotation
<1>1. /\ a \in Annotations /\ gVerdict[a] = t.outcome
      /\ gPhase[a] = IF t.stage = "recorded" THEN "recorded" ELSE "claimed"
  BY TaskMapped
<1>2. CASE Begin(t) \/ _fake_decide(t)
  <2>1. UNCHANGED <<candidates, topic, history>>
    BY <1>2 DEF Begin, _fake_decide
  <2> QED
    BY <2>1, Unseen
<1>3. CASE PostAccepted(t) \/ PostFails(t)
  <2>1. /\ t.stage = "posting" /\ UNCHANGED <<candidates, history>>
        /\ Accepted(t) \/ UNCHANGED topic
    BY <1>3 DEF PostAccepted, PostFails
  <2> QED
    BY <2>1, AcceptedImplements, Unseen
<1>4. CASE _set_status(t)
  <2>1. /\ t.stage = "delivered" /\ UNCHANGED <<topic, history>>
        /\ a \in Known /\ candidates[a] \in Records /\ t.outcome \in Outcomes
        /\ t.outcome = BallotResult(a)
    BY <1>1, <1>4, TaskTyped, CandidateTyped DEF _set_status, DInv, ClaimsOK, Known
  <2>2. /\ candidates'[a].status = t.outcome
        /\ candidates'[a].votes = candidates[a].votes
        /\ candidates'[a].qv_votes = candidates[a].qv_votes
        /\ candidates'[a].delegations = candidates[a].delegations
        /\ \A b \in Annotations \ {a} : candidates'[b] = candidates[b]
    BY <1>1, <1>4, <2>1 DEF _set_status, Records, DInv, TypeOK
  <2>3. PhaseOf(a)' = "recorded" /\ VerdictOf(a)' = t.outcome
    <3>1. BallotResult(a)' = t.outcome
      BY <1>1, <2>1, <2>2, SameBallots
    <3>2. PhaseOf(a)' = "recorded"
      BY <2>1, <2>2 DEF PhaseOf, Outcomes
    <3> QED
      BY <3>1, <3>2 DEF VerdictOf
  <2>4. gPhase'[a] = "recorded" /\ gVerdict'[a] = gVerdict[a]
    BY <1>1, <2>3 DEF gPhase, gVerdict
  <2>5. /\ gPhase' = [gPhase EXCEPT ![a] = "recorded"]
        /\ gVerdict' = [gVerdict EXCEPT ![a] = gVerdict[a]]
    BY <1>1, <2>2, <2>4, MovesOnly
  <2>6. UNCHANGED gVerdict
    BY <2>5 DEF gVerdict
  <2>7. UNCHANGED gPublished
    BY <2>1 DEF gPublished
  <2>8. gVerdict[a] \in gPublished[a]
    <3>1. OnTopic(a, t.decision_id, t.outcome)
      BY <2>1 DEF DInv, DeliveredOK
    <3> QED
      BY <1>1, <3>1 DEF OnTopic, gPublished
  <2> QED
    BY <1>1, <2>1, <2>5, <2>6, <2>7, <2>8, MappedSteps
<1>5. CASE _apply_reputation(t)
  <2>1. t.stage = "recorded" /\ UNCHANGED <<candidates, topic>> /\ history[a] = 0
    BY <1>5 DEF _apply_reputation, DInv, ClaimsOK
  <2>2. CASE UNCHANGED history
    BY <2>1, <2>2, Unseen
  <2>3. CASE t.outcome = "validated" /\ history' = [history EXCEPT ![a] = @ + 1]
    <3>1. history' = [history EXCEPT ![a] = 1]
      BY <2>1, <2>3
    <3>2. UNCHANGED <<gPhase, gVerdict>>
      BY <2>1, SameMapping
    <3>3. UNCHANGED gPublished
      BY <2>1 DEF gPublished
    <3> QED
      BY <1>1, <2>1, <2>3, <3>1, <3>2, <3>3, MappedSteps
  <2> QED
    BY <1>5, <2>2, <2>3 DEF _apply_reputation
<1> QED
  BY <1>2, <1>3, <1>4, <1>5 DEF DeliveryStep

\* A restart forgets what was proposed and keeps what was published.
LEMMA RestartImplements == Restart => Governance!Forget
<1> SUFFICES ASSUME Restart PROVE Governance!Forget
  OBVIOUS
<1>1. /\ candidates' = [a \in Annotations |-> Absent] /\ UNCHANGED topic
      /\ history' = [a \in Annotations |-> 0]
  BY DEF Restart
<1>2. ASSUME NEW a \in Annotations
      PROVE  gPhase'[a] = "unknown" /\ gVerdict'[a] = "undetermined"
  <2>1. PhaseOf(a)' = "unknown"
    BY <1>1 DEF PhaseOf, Absent
  <2>2. VerdictOf(a)' = "undetermined"
    BY <2>1 DEF VerdictOf
  <2> QED
    BY <2>1, <2>2 DEF gPhase, gVerdict
<1>3. gPhase' = [b \in Annotations |-> gPhase'[b]] /\ gVerdict' = [b \in Annotations |-> gVerdict'[b]]
  BY DEF gPhase, gVerdict
<1>4. gPhase' = [a \in Annotations |-> "unknown"] /\ gVerdict' = [a \in Annotations |-> "undetermined"]
  BY <1>2, <1>3
<1>5. UNCHANGED gPublished
  BY <1>1 DEF gPublished
<1> QED
  BY Zenon, <1>1, <1>4, <1>5 DEF Governance!Forget, Governance!Undetermined, gPhase, gVerdict, gPublished

LEMMA InitImplements == Init => Governance!GovInit
<1> SUFFICES ASSUME Init PROVE Governance!GovInit
  OBVIOUS
<1>1. /\ candidates = [a \in Annotations |-> Absent] /\ DOMAIN topic = {}
      /\ history = [a \in Annotations |-> 0]
  BY DEF Init
<1>2. ASSUME NEW a \in Annotations PROVE PhaseOf(a) = "unknown" /\ VerdictOf(a) = "undetermined"
  <2>1. PhaseOf(a) = "unknown"
    BY <1>1 DEF PhaseOf, Absent
  <2> QED
    BY <2>1 DEF VerdictOf
<1>3. gPhase = [a \in Annotations |-> "unknown"] /\ gVerdict = [a \in Annotations |-> "undetermined"]
  BY <1>2 DEF gPhase, gVerdict
<1>4. gPublished = [a \in Annotations |-> {}]
  BY <1>1 DEF gPublished
<1> QED
  BY Zenon, <1>1, <1>3, <1>4
     DEF Governance!GovInit, Governance!Undetermined, gPhase, gVerdict, gPublished

\* In the voting modes every step of the process is a step of GovernanceRecord, or
\* one it does not see.
LEMMA NextImplements ==
    VotingMode /\ DInv /\ [Next]_vars => [Governance!GovNext]_(Governance!govVars)
<1> SUFFICES ASSUME VotingMode, DInv, [Next]_vars
             PROVE  Governance!GovNext \/ UNCHANGED Governance!govVars
  OBVIOUS
<1>1. ASSUME NEW a \in Annotations, NEW r \in Recommendations, submit_candidate(a, r)
      PROVE  Governance!GovNext \/ UNCHANGED Governance!govVars
  BY <1>1, SubmissionImplements DEF Governance!GovNext
<1>2. ASSUME NEW a \in Annotations, NEW o \in Outcomes, CastVote(a, o)
      PROVE  Governance!GovNext \/ UNCHANGED Governance!govVars
  <2>1. VoteCounted(a)
    BY <1>2, VotesCount DEF DInv
  <2> QED
    BY <2>1, VoteImplements DEF Governance!GovNext
<1>3. ASSUME NEW a \in Annotations, NEW v \in NamedVoters, NEW d \in Voters, delegate_vote(a, v, d)
      PROVE  Governance!GovNext \/ UNCHANGED Governance!govVars
  BY <1>3, DelegationImplements
<1>4. ASSUME NEW t \in tasks, DeliveryStep(t)
      PROVE  Governance!GovNext \/ UNCHANGED Governance!govVars
  <2>1. t.annotation \in Annotations
    BY TaskMapped
  <2> QED
    BY <1>4, <2>1, DeliveryImplements DEF Governance!GovNext
<1>5. CASE Restart
  BY <1>5, RestartImplements DEF Governance!GovNext
<1>6. CASE UNCHANGED vars
  BY <1>6, Unseen DEF vars
<1> QED
  BY <1>1, <1>2, <1>3, <1>4, <1>5, <1>6 DEF Next

\* Community and qv mode implement GovernanceRecord: one verdict per proposal, the
\* verdict and nothing else published, on record only once published, rewarded at
\* most once, for every number of proposals, voters, workers, retries and restarts.
THEOREM GovernanceCorrect == VotingMode => (Spec => GovernanceImplemented)
<1> SUFFICES ASSUME VotingMode PROVE Spec => GovernanceImplemented
  OBVIOUS
<1>1. Init => Governance!GovInit
  BY InitImplements
<1>2. DInv /\ [Next]_vars => [Governance!GovNext]_(Governance!govVars)
  BY NextImplements
<1> QED
  BY <1>1, <1>2, DaoInvariance, PTL DEF Spec, GovernanceImplemented, Governance!GovSpec
-------------------------------------------------------------------------------
\* Votes alone fill the ballot box of a proposal that stays known.
LEMMA BoxKept ==
    ASSUME DInv, NEW a \in Annotations, a \in Known, a \in Known',
           \/ \E b \in Annotations, r \in Recommendations : submit_candidate(b, r)
           \/ \E b \in Annotations, v \in NamedVoters, d \in Voters : delegate_vote(b, v, d)
           \/ \E t \in tasks : DeliveryStep(t)
           \/ Restart
           \/ UNCHANGED vars
    PROVE  candidates'[a].qv_votes = candidates[a].qv_votes
<1>1. candidates \in [Annotations -> Records \cup {Absent}] /\ candidates[a] \in Records
  BY CandidateTyped DEF DInv, TypeOK
<1>2. ASSUME NEW b \in Annotations, NEW r \in Recommendations, submit_candidate(b, r)
      PROVE  candidates'[a] = candidates[a]
  BY <1>1, <1>2 DEF submit_candidate
<1>3. ASSUME NEW b \in Annotations, NEW v \in NamedVoters, NEW d \in Voters, delegate_vote(b, v, d)
      PROVE  candidates'[a].qv_votes = candidates[a].qv_votes
  BY <1>1, <1>3 DEF delegate_vote, Records
<1>4. ASSUME NEW t \in tasks, _set_status(t)
      PROVE  candidates'[a].qv_votes = candidates[a].qv_votes
  BY <1>1, <1>4 DEF _set_status, Records
<1>5. ASSUME NEW t \in tasks, DeliveryStep(t), ~_set_status(t)
      PROVE  UNCHANGED candidates
  BY <1>5 DEF DeliveryStep, Begin, _fake_decide, PostAccepted, PostFails, _apply_reputation
<1>6. ~Restart
  BY DEF Restart, Known, Absent
<1>7. UNCHANGED vars => UNCHANGED candidates
  BY DEF vars
<1> QED
  BY <1>2, <1>3, <1>4, <1>5, <1>6, <1>7

LEMMA StepVotesDecide ==
    ASSUME DInv, [Next]_vars, NEW a \in Annotations, VOTING_MODE = "qv",
           a \in Known, a \in Known',
           Len(candidates'[a].qv_votes) > Len(candidates[a].qv_votes),
           candidates'[a].status = "pending"
    PROVE  qv_decide(Scores(a)', QV_THRESHOLD) = Undecided
<1>1. candidates[a] \in Records /\ candidates \in [Annotations -> Records \cup {Absent}]
  BY CandidateTyped DEF DInv, TypeOK
<1>2. candidates'[a].qv_votes # candidates[a].qv_votes
  <2>1. Len(candidates[a].qv_votes) \in Nat
    BY <1>1 DEF Records
  <2> QED
    BY <2>1
<1>3. PICK b \in Annotations : \E o \in Outcomes : CastVote(b, o)
  BY <1>2, BoxKept DEF Next
<1>4. VoteCounted(b)
  BY <1>3, VotesCount DEF DInv
<1>5. PICK r \in Records : /\ candidates' = [candidates EXCEPT ![b] = r]
                           /\ r.status = "pending" => Result(r) = Undecided
  BY <1>4 DEF VoteCounted
<1>6. a = b /\ candidates'[a] = r
  BY <1>1, <1>2, <1>5
<1>7. Scores(a)' = qv_scores(r.qv_votes, r.delegations)
  BY <1>6 DEF Scores
<1> QED
  BY <1>5, <1>6, <1>7 DEF Result

\* A vote that leaves the proposal open leaves no outcome at the threshold: the
\* weight delegated before is weighed with the vote that follows (main.py:563).
THEOREM VotesDecideCorrect == Spec => VotesDecide
<1>1. DInv /\ [Next]_vars =>
        [\A a \in Annotations :
            (/\ VOTING_MODE = "qv"
             /\ a \in Known /\ a \in Known'
             /\ Len(candidates'[a].qv_votes) > Len(candidates[a].qv_votes)
             /\ candidates'[a].status = "pending") =>
                qv_decide(Scores(a)', QV_THRESHOLD) = Undecided]_vars
  BY StepVotesDecide
<1> QED
  BY <1>1, DaoInvariance, PTL DEF Spec, VotesDecide
-------------------------------------------------------------------------------
\* Who has voted is followed to his first vote, which later votes do not change.
LEMMA FollowedIsFirst ==
    ASSUME NEW q \in Seq(Votes), NEW d \in Voted(q)
    PROVE  /\ FollowedVote(q, d) \in DOMAIN q
           /\ q[FollowedVote(q, d)].voter = d
           /\ \A j \in 1 .. FollowedVote(q, d) - 1 : q[j].voter # d
<1> DEFINE S == {i \in DOMAIN q : q[i].voter = d}
<1>1. S \in SUBSET Nat /\ S # {} /\ DOMAIN q = 1 .. Len(q) /\ Len(q) \in Nat
  BY DEF Voted
<1>2. PICK m \in S : \A k \in S : m <= k
  BY <1>1, LeastNumber
<1>3. \A j \in 1 .. m - 1 : q[j].voter # d
  BY <1>1, <1>2
<1>4. \E i \in DOMAIN q : q[i].voter = d /\ \A j \in 1 .. i - 1 : q[j].voter # d
  BY <1>2, <1>3
<1> QED
  BY <1>4, Zenon DEF FollowedVote

\* One vote more: what it adds to the unit weights and takes from the delegators.
LEMMA VoteWeighs ==
    ASSUME NEW q \in Seq(Votes), NEW vote \in Votes, NEW ds \in Delegations
    PROVE  LET q2 == Append(q, vote)
           IN  /\ qv_scores(q2, ds)[vote.outcome] >= qv_scores(q, ds)[vote.outcome]
               /\ \A o \in Outcomes : qv_scores(q2, ds)[o] >= qv_scores(q, ds)[o] - 1
<1> DEFINE q2 == Append(q, vote)
           n == Len(q) + 1
<1>1. /\ q2 \in Seq(Votes) /\ n \in Nat /\ DOMAIN q = 1 .. n - 1 /\ DOMAIN q2 = 1 .. n
      /\ q2[n] = vote /\ \A i \in 1 .. n - 1 : q2[i] = q[i]
  <2> HIDE DEF Votes
  <2> QED
    OBVIOUS
<1>2. vote.voter \in Voters /\ vote.outcome \in Outcomes /\ vote.intensity \in 1 .. MAX_INTENSITY
  BY DEF Votes
<1> HIDE DEF q2, n
<1>3. \A o \in Outcomes : DirectUnits(q, o) \subseteq DirectUnits(q2, o)
  BY <1>1 DEF DirectUnits
<1>4. /\ <<n, 1>> \in DirectUnits(q2, vote.outcome)
      /\ <<n, 1>> \notin DirectUnits(q, vote.outcome)
  <2>1. n \in DOMAIN q2 /\ n \notin DOMAIN q /\ 1 \in 1 .. MAX_INTENSITY /\ 1 <= vote.intensity
    <3>1. Len(q) \in Nat /\ n = Len(q) + 1
      BY DEF n
    <3> QED
      BY <1>1, <1>2, <3>1 DEF MAX_INTENSITY
  <2>2. <<n, 1>> \in (DOMAIN q2) \X (1 .. MAX_INTENSITY) /\ <<n, 1>>[1] = n /\ <<n, 1>>[2] = 1
    BY <2>1
  <2>3. <<n, 1>> \notin (DOMAIN q) \X (1 .. MAX_INTENSITY)
    BY <2>1
  <2> QED
    BY <1>1, <2>1, <2>2, <2>3 DEF DirectUnits
<1>5. ASSUME NEW d \in Voted(q) PROVE FollowedVote(q2, d) = FollowedVote(q, d) /\ d \in Voted(q2)
  <2>1. d \in Voted(q2)
    BY <1>1 DEF Voted
  <2> DEFINE f == FollowedVote(q, d)
             g == FollowedVote(q2, d)
  <2>2. f \in 1 .. n - 1 /\ q[f].voter = d /\ \A j \in 1 .. f - 1 : q[j].voter # d
    BY <1>1, FollowedIsFirst
  <2>3. g \in 1 .. n /\ q2[g].voter = d /\ \A j \in 1 .. g - 1 : q2[j].voter # d
    BY <1>1, <2>1, FollowedIsFirst
  <2> HIDE DEF f, g
  <2>4. ~(f < g)
    BY <1>1, <2>2, <2>3
  <2>5. ~(g < f)
    BY <1>1, <2>2, <2>3
  <2>6. f = g
    BY <1>1, <2>2, <2>3, <2>4, <2>5
  <2> QED
    BY <2>1, <2>6 DEF f, g
<1>6. ASSUME NEW o \in Outcomes
      PROVE  Delegators(q, ds, o) \ {vote.voter} \subseteq Delegators(q2, ds, o)
  <2> SUFFICES ASSUME NEW v \in Delegators(q, ds, o), v # vote.voter
               PROVE  v \in Delegators(q2, ds, o)
    OBVIOUS
  <2>1. /\ v \in DOMAIN ds /\ v \notin Voted(q) /\ ds[v] # v /\ ds[v] \in Voted(q)
        /\ q[FollowedVote(q, ds[v])].outcome = o
    BY DEF Delegators
  <2>2. v \notin Voted(q2)
    BY <1>1, <2>1 DEF Voted
  <2>3. q2[FollowedVote(q2, ds[v])].outcome = o /\ ds[v] \in Voted(q2)
    BY <1>1, <1>5, <2>1, FollowedIsFirst
  <2> QED
    BY <2>1, <2>2, <2>3 DEF Delegators
<1>7. ASSUME NEW o \in Outcomes
      PROVE  Cardinality(Delegators(q2, ds, o)) >= Cardinality(Delegators(q, ds, o)) - 1
  <2> DEFINE D == Delegators(q, ds, o)
             D2 == Delegators(q2, ds, o)
  <2>1. IsFiniteSet(D) /\ IsFiniteSet(D2) /\ Cardinality(D) \in Nat /\ Cardinality(D2) \in Nat
    BY <1>1, BallotsFinite
  <2>2. D \ {vote.voter} \in SUBSET D2
    BY <1>6
  <2> HIDE DEF D, D2
  <2>3. /\ Cardinality(D \ {vote.voter}) <= Cardinality(D2)
        /\ Cardinality(D \ {vote.voter}) = IF vote.voter \in D THEN Cardinality(D) - 1 ELSE Cardinality(D)
    BY <2>1, <2>2, FS_Subset, FS_RemoveElement
  <2> QED
    BY <2>1, <2>3 DEF D, D2
<1>8. ASSUME NEW o \in Outcomes
      PROVE  Cardinality(DirectUnits(q2, o)) >= Cardinality(DirectUnits(q, o))
                                                  + IF o = vote.outcome THEN 1 ELSE 0
  <2> DEFINE U == DirectUnits(q, o)
             U2 == DirectUnits(q2, o)
  <2>1. IsFiniteSet(U) /\ IsFiniteSet(U2) /\ Cardinality(U) \in Nat /\ Cardinality(U2) \in Nat
    BY <1>1, BallotsFinite
  <2>2. U \in SUBSET U2
    BY <1>3
  <2>3. o = vote.outcome => <<n, 1>> \notin U /\ U \cup {<<n, 1>>} \in SUBSET U2
    BY <1>3, <1>4
  <2> HIDE DEF U, U2
  <2>4. Cardinality(U) <= Cardinality(U2)
    BY <2>1, <2>2, FS_Subset
  <2>5. CASE o = vote.outcome
    <3>1. Cardinality(U \cup {<<n, 1>>}) = Cardinality(U) + 1
      BY <2>1, <2>3, <2>5, FS_AddElement
    <3>2. Cardinality(U \cup {<<n, 1>>}) <= Cardinality(U2)
      BY <2>1, <2>3, <2>5, FS_Subset
    <3> QED
      BY <2>1, <2>5, <3>1, <3>2 DEF U, U2
  <2>6. CASE o # vote.outcome
    BY <2>1, <2>4, <2>6 DEF U, U2
  <2> QED
    BY <2>5, <2>6
<1>9. ASSUME NEW o \in Outcomes
      PROVE  /\ qv_scores(q, ds)[o] = Cardinality(DirectUnits(q, o)) + Cardinality(Delegators(q, ds, o))
             /\ qv_scores(q2, ds)[o] = Cardinality(DirectUnits(q2, o)) + Cardinality(Delegators(q2, ds, o))
             /\ Cardinality(DirectUnits(q, o)) \in Nat /\ Cardinality(Delegators(q, ds, o)) \in Nat
             /\ Cardinality(DirectUnits(q2, o)) \in Nat /\ Cardinality(Delegators(q2, ds, o)) \in Nat
  BY <1>1, BallotsFinite DEF qv_scores
<1>10. \A o \in Outcomes : qv_scores(q2, ds)[o] >= qv_scores(q, ds)[o] - 1
  BY <1>7, <1>8, <1>9
<1>11. qv_scores(q2, ds)[vote.outcome] >= qv_scores(q, ds)[vote.outcome]
  BY <1>2, <1>7, <1>8, <1>9
<1> QED
  BY <1>10, <1>11 DEF q2

LEMMA StepHurtsNobody ==
    ASSUME DInv, [Next]_vars, NEW a \in Annotations, a \in Known, a \in Known',
           Len(candidates'[a].qv_votes) > Len(candidates[a].qv_votes)
    PROVE  LET o == candidates'[a].qv_votes[Len(candidates'[a].qv_votes)].outcome
           IN  /\ Scores(a)'[o] >= Scores(a)[o]
               /\ \A other \in Outcomes : Scores(a)'[other] >= Scores(a)[other] - 1
<1>1. candidates[a] \in Records /\ candidates \in [Annotations -> Records \cup {Absent}]
  BY CandidateTyped DEF DInv, TypeOK
<1>2. candidates[a].qv_votes \in Seq(Votes) /\ candidates[a].delegations \in Delegations
  BY <1>1 DEF Records
<1>3. candidates'[a].qv_votes # candidates[a].qv_votes
  <2>1. Len(candidates[a].qv_votes) \in Nat
    BY <1>2
  <2> QED
    BY <2>1
<1>4. PICK b \in Annotations : \E o \in Outcomes : CastVote(b, o)
  BY <1>3, BoxKept DEF Next
<1>5. VoteCounted(b)
  BY <1>4, VotesCount DEF DInv
<1>6. PICK r \in Records :
        /\ candidates' = [candidates EXCEPT ![b] = r]
        /\ r.delegations = candidates[b].delegations
        /\ \/ r.qv_votes = candidates[b].qv_votes
           \/ \E vote \in Votes : r.qv_votes = Append(candidates[b].qv_votes, vote)
  BY <1>5 DEF VoteCounted
<1>7. a = b /\ candidates'[a] = r
  BY <1>1, <1>3, <1>6
<1>8. PICK vote \in Votes : r.qv_votes = Append(candidates[a].qv_votes, vote)
  BY <1>3, <1>6, <1>7
<1> DEFINE q == candidates[a].qv_votes
           ds == candidates[a].delegations
           q2 == Append(q, vote)
<1>9. /\ Scores(a)' = qv_scores(q2, ds) /\ Scores(a) = qv_scores(q, ds)
      /\ candidates'[a].qv_votes = q2
  BY <1>6, <1>7, <1>8 DEF Scores
<1>10. q2[Len(q2)].outcome = vote.outcome
  <2>1. q \in Seq(Votes)
    BY <1>2
  <2> HIDE DEF q, Votes
  <2>2. q2[Len(q2)] = vote
    BY <2>1
  <2> QED
    BY <2>2
<1>11. /\ qv_scores(q2, ds)[vote.outcome] >= qv_scores(q, ds)[vote.outcome]
       /\ \A o \in Outcomes : qv_scores(q2, ds)[o] >= qv_scores(q, ds)[o] - 1
  BY <1>2, VoteWeighs
<1> HIDE DEF q, ds, q2
<1> QED
  BY <1>9, <1>10, <1>11

\* Whatever delegations and votes are on record, a vote never lowers the score of
\* the outcome it is for, and takes at most one from any other (qv_voting.py:37-59).
THEOREM VotesNeverHurtCorrect == Spec => VoteNeverHurtsItsOutcome
<1>1. DInv /\ [Next]_vars =>
        [\A a \in Annotations :
            (a \in Known /\ a \in Known' /\ Len(candidates'[a].qv_votes) > Len(candidates[a].qv_votes)) =>
                LET o == candidates'[a].qv_votes[Len(candidates'[a].qv_votes)].outcome
                IN  /\ Scores(a)'[o] >= Scores(a)[o]
                    /\ \A other \in Outcomes : Scores(a)'[other] >= Scores(a)[other] - 1]_vars
  BY StepHurtsNobody
<1> QED
  BY <1>1, DaoInvariance, PTL DEF Spec, VoteNeverHurtsItsOutcome

-------------------------------------------------------------------------------
\* The proposals that were rewarded, and what x was rewarded for each.
RewardedOnes == {a \in Annotations : history[a] = 1}
RewardsOf(x) == [a \in Annotations |-> Reward(x, a)]

\* Reputation is backed by the ballots on record of the rewarded proposals, of
\* which there are finitely many.
BackedInv ==
    VotingMode =>
        /\ IsFiniteSet(RewardedOnes)
        /\ \A a \in Annotations : history[a] <= 1
        /\ \A a \in RewardedOnes : candidates[a].status = "validated"
        /\ \A x \in People : reputation[x] = SumOver(RewardsOf(x), RewardedOnes)

\* Every reward on record is a number.
LEMMA RewardsTyped ==
    ASSUME TypeOK, NEW S \in SUBSET Known, NEW x
    PROVE  \A a \in S : RewardsOf(x)[a] \in Int /\ RewardsOf(x)[a] = Reward(x, a)
<1>1. Known \subseteq Annotations
  BY DEF Known
<1>2. \A a \in S : Reward(x, a) \in Nat
  BY RewardTyped
<1> QED
  BY <1>1, <1>2 DEF RewardsOf

\* A step that rewards nobody and leaves the rewarded proposals alone but for
\* their status keeps what backs the reputation.
LEMMA BackingKept ==
    ASSUME BackedInv, UNCHANGED <<reputation, history>>,
           \A a \in RewardedOnes : VotingMode =>
                /\ candidates'[a].status = candidates[a].status
                /\ candidates'[a].qv_votes = candidates[a].qv_votes
    PROVE  BackedInv'
<1> SUFFICES ASSUME VotingMode PROVE BackedInv'
  BY DEF BackedInv
<1>1. RewardedOnes' = RewardedOnes
  BY DEF RewardedOnes
<1>2. ASSUME NEW x \in People
      PROVE  SumOver(RewardsOf(x)', RewardedOnes) = SumOver(RewardsOf(x), RewardedOnes)
  <2>1. \A a \in RewardedOnes : Reward(x, a)' = Reward(x, a)
    BY DEF Reward, VotesOf
  <2>2. \A a \in RewardedOnes : RewardsOf(x)'[a] = RewardsOf(x)[a]
    BY <2>1 DEF RewardsOf, RewardedOnes
  <2>3. IsFiniteSet(RewardedOnes)
    BY DEF BackedInv
  <2> QED
    BY <2>2, <2>3, SumSame
<1> QED
  BY <1>1, <1>2 DEF BackedInv

LEMMA RewardBacks ==
    ASSUME DInv, BackedInv, NEW t \in tasks, _apply_reputation(t)
    PROVE  BackedInv'
<1> DEFINE a == t.annotation
<1>1. a \in Annotations /\ history \in [Annotations -> Nat] /\ reputation \in [People -> Nat]
  BY TaskTyped DEF DInv, TypeOK
<1>2. CASE ~(t.outcome = "validated" /\ a \in Known)
  BY <1>2, BackingKept DEF _apply_reputation
<1>3. CASE t.outcome = "validated" /\ a \in Known
  <2> SUFFICES ASSUME VotingMode PROVE BackedInv'
    BY DEF BackedInv
  <2>1. /\ reputation' = [x \in People |-> reputation[x] + Reward(x, a)]
        /\ history' = [history EXCEPT ![a] = @ + 1]
        /\ UNCHANGED candidates
    BY <1>3 DEF _apply_reputation
  <2>2. history[a] = 0 /\ candidates[a].status = "validated"
    BY <1>3 DEF DInv, ClaimsOK, _apply_reputation
  <2> DEFINE R == RewardedOnes
             R2 == RewardedOnes'
  <2>3. R2 = R \cup {a} /\ a \notin R /\ R2 \ {a} = R
    BY <1>1, <2>1, <2>2 DEF RewardedOnes
  <2>4. IsFiniteSet(R) /\ IsFiniteSet(R2)
    BY <2>3, FS_AddElement DEF BackedInv
  <2>5. \A b \in R2 : candidates[b].status = "validated"
    BY <2>2, <2>3 DEF BackedInv
  <2>6. R2 \in SUBSET Known
    BY <2>5 DEF RewardedOnes, Known
  <2>7. ASSUME NEW x \in People
        PROVE  reputation'[x] = SumOver(RewardsOf(x)', R2)
    <3> DEFINE g == RewardsOf(x)
    <3>1. RewardsOf(x)' = g
      BY <2>1 DEF RewardsOf, Reward, VotesOf
    <3>2. \A b \in R2 : g[b] \in Int /\ g[b] = Reward(x, b)
      BY <2>6, RewardsTyped DEF DInv
    <3>3. reputation[x] = SumOver(g, R)
      BY DEF BackedInv
    <3>4. reputation'[x] = reputation[x] + g[a] /\ reputation[x] \in Int /\ g[a] \in Int
      BY <1>1, <2>1, <2>3, <3>2
    <3>5. SumOver(RewardsOf(x)', R2) = SumOver(g, R2)
      BY <3>1
    <3>6. SumOver(g, R2 \ {a}) = reputation[x]
      BY <2>3, <3>3
    <3>7. reputation'[x] = SumOver(g, R2)
      <4> HIDE DEF g, R, R2, a
      <4>1. SumOver(g, R2) = g[a] + SumOver(g, R2 \ {a})
        BY <2>3, <2>4, <3>2, SumSplit
      <4>2. SumOver(g, R2) = g[a] + reputation[x]
        BY <3>6, <4>1
      <4> QED
        BY <3>4, <4>2
    <3> QED
      BY <3>5, <3>7
  <2>8. \A b \in Annotations : history'[b] <= 1
    BY <1>1, <2>1, <2>2 DEF BackedInv
  <2> QED
    BY <2>1, <2>4, <2>5, <2>7, <2>8 DEF BackedInv
<1> QED
  BY <1>2, <1>3

\* After a restart nobody has been rewarded.
LEMMA NothingBacked ==
    ASSUME history = [a \in Annotations |-> 0], reputation = [x \in People |-> 0]
    PROVE  BackedInv
<1>1. RewardedOnes = {}
  BY DEF RewardedOnes
<1> QED
  BY <1>1, SumEmpty, FS_EmptySet DEF BackedInv

LEMMA InitBacked == Init => BackedInv
  BY NothingBacked DEF Init

LEMMA NextBacked == DInv /\ BackedInv /\ [Next]_vars => BackedInv'
<1> SUFFICES ASSUME DInv, BackedInv, [Next]_vars PROVE BackedInv'
  OBVIOUS
<1>0. /\ candidates \in [Annotations -> Records \cup {Absent}]
      /\ VotingMode => \A a \in RewardedOnes : candidates[a].status = "validated" /\ a \in Annotations
  BY DEF DInv, TypeOK, BackedInv, RewardedOnes
<1>1. ASSUME NEW a \in Annotations, NEW r \in Recommendations, submit_candidate(a, r)
      PROVE  BackedInv'
  <2>1. UNCHANGED <<reputation, history>> /\ \A b \in Known : candidates'[b] = candidates[b]
    BY <1>0, <1>1 DEF submit_candidate, Known
  <2>2. VotingMode => RewardedOnes \subseteq Known
    BY <1>0 DEF Known
  <2> QED
    BY <2>1, <2>2, BackingKept
<1>2. ASSUME NEW a \in Annotations, NEW o \in Outcomes, CastVote(a, o)
      PROVE  BackedInv'
  <2>1. VoteCounted(a)
    BY <1>2, VotesCount DEF DInv
  <2>2. UNCHANGED <<reputation, history>> /\ candidates[a].status = "pending"
    BY <2>1 DEF VoteCounted
  <2>3. \A b \in Annotations \ {a} : candidates'[b] = candidates[b]
    BY <1>0, <2>1 DEF VoteCounted
  <2> QED
    BY <1>0, <2>2, <2>3, BackingKept
<1>3. ASSUME NEW a \in Annotations, NEW v \in NamedVoters, NEW d \in Voters, delegate_vote(a, v, d)
      PROVE  BackedInv'
  <2>1. UNCHANGED <<reputation, history>> /\ candidates[a].status = "pending"
    BY <1>3 DEF delegate_vote
  <2>2. \A b \in Annotations \ {a} : candidates'[b] = candidates[b]
    BY <1>0, <1>3 DEF delegate_vote
  <2> QED
    BY <1>0, <2>1, <2>2, BackingKept
<1>4. ASSUME NEW t \in tasks, _set_status(t)
      PROVE  BackedInv'
  <2>1. UNCHANGED <<reputation, history>> /\ \A b \in Annotations \ {t.annotation} : candidates'[b] = candidates[b]
    BY <1>0, <1>4 DEF _set_status
  <2>2. VotingMode => t.annotation \notin RewardedOnes
    BY DEF DInv, ClaimsOK, RewardedOnes
  <2> QED
    BY <1>0, <2>1, <2>2, BackingKept
<1>5. ASSUME NEW t \in tasks, DeliveryStep(t)
      PROVE  BackedInv'
  <2>1. CASE Begin(t) \/ _fake_decide(t) \/ PostAccepted(t) \/ PostFails(t)
    BY <2>1, BackingKept DEF Begin, _fake_decide, PostAccepted, PostFails
  <2> QED
    BY <1>4, <1>5, <2>1, RewardBacks DEF DeliveryStep
<1>6. CASE Restart
  <2>1. history' = [a \in Annotations |-> 0] /\ reputation' = [x \in People |-> 0]
    BY <1>6 DEF Restart
  <2>2. RewardedOnes' = {}
    BY <2>1 DEF RewardedOnes
  <2> QED
    BY <2>1, <2>2, SumEmpty, FS_EmptySet DEF BackedInv
<1>7. CASE UNCHANGED vars
  BY <1>7, BackingKept DEF vars
<1> QED
  BY <1>1, <1>2, <1>3, <1>5, <1>6, <1>7 DEF Next

\* In a state of the invariant the sum the property names is the one it keeps.
LEMMA BackingShown == TypeOK /\ BackedInv => ReputationBacked
<1> SUFFICES ASSUME TypeOK, BackedInv, VotingMode PROVE ReputationBacked
  BY DEF ReputationBacked
<1> DEFINE R == {a \in Annotations : history[a] = 1}
<1>1. R = RewardedOnes /\ IsFiniteSet(R)
  BY DEF RewardedOnes, BackedInv
<1>2. ASSUME NEW x \in People
      PROVE  reputation[x] = Sets!MapThenSumSet(LAMBDA a : Reward(x, a), R)
  <2> DEFINE g == [a \in R |-> Reward(x, a)]
             it == CHOOSE it : it = [s \in SUBSET R |-> IF s = {} THEN 0
                      ELSE LET a == CHOOSE a \in s : TRUE IN Reward(x, a) + it[s \ {a}]]
  <2>1. PICK k : Sums(k, g, R) /\ SumOver(g, R) = k[R]
    BY <1>1, FoldSums
  <2>2. \A s \in SUBSET R : s # {} => g[Pick(s)] = Reward(x, Pick(s))
    <3>1. \A s \in SUBSET R : s # {} => Pick(s) \in R
      BY Picked
    <3> QED
      BY <3>1
  <2>3. k = [s \in SUBSET R |-> IF s = {} THEN 0
                ELSE LET a == CHOOSE a \in s : TRUE IN Reward(x, a) + k[s \ {a}]]
    <3> HIDE DEF R, g
    <3>1. k = [s \in SUBSET R |-> IF s = {} THEN 0 ELSE Reward(x, Pick(s)) + k[s \ {Pick(s)}]]
      BY <2>1, <2>2 DEF Sums
    <3> QED
      BY <3>1, Zenon DEF Pick
  <2>4. it = [s \in SUBSET R |-> IF s = {} THEN 0
                ELSE LET a == CHOOSE a \in s : TRUE IN Reward(x, a) + it[s \ {a}]]
    <3> HIDE DEF R
    <3> QED
      BY <2>3, Zenon
  <2>5. Sets!MapThenSumSet(LAMBDA a : Reward(x, a), R) = it[R]
    BY DEF Sets!MapThenSumSet, Sets!MapThenFoldSet
  <2>6. it[R] = k[R]
    <3> HIDE DEF R, g, it
    <3>1. it = [s \in SUBSET R |-> IF s = {} THEN 0 ELSE Reward(x, Pick(s)) + it[s \ {Pick(s)}]]
      BY <2>4, Zenon DEF Pick
    <3>2. Sums(it, g, R)
      BY <2>2, <3>1 DEF Sums
    <3> QED
      BY <1>1, <2>1, <3>2, SumsAgree
  <2>7. SumOver(g, R) = SumOver(RewardsOf(x), R)
    <3>1. \A a \in R : g[a] = RewardsOf(x)[a]
      BY DEF RewardsOf
    <3> HIDE DEF R, g
    <3> QED
      BY <1>1, <3>1, SumSame
  <2>8. reputation[x] = SumOver(RewardsOf(x), R)
    BY <1>1 DEF BackedInv
  <2> HIDE DEF it, g, R
  <2> QED
    BY <2>1, <2>5, <2>6, <2>7, <2>8
<1>3. /\ \A a \in Annotations : history[a] <= 1
      /\ \A a \in Annotations : history[a] = 1 => candidates[a].status = "validated"
  BY DEF BackedInv, RewardedOnes
<1> QED
  BY <1>2, <1>3 DEF ReputationBacked

\* Whatever votes, retries, lost replies and restarts interleave, everybody's
\* reputation is exactly what the rewarded proposals on record amount to, each
\* rewarded once and for the votes that decided it (main.py:343-372).
THEOREM ReputationCorrect == Spec => []ReputationBacked
<1>1. DInv => TypeOK
  BY DEF DInv
<1> QED
  BY <1>1, InitBacked, NextBacked, BackingShown, DaoInvariance, PTL DEF Spec

-------------------------------------------------------------------------------
\* What a person adds to the score of an outcome, when nobody is in the ballot
\* box twice.
Share(q, ds, x, o) ==
    IF x \in Voted(q)
    THEN IF q[FollowedVote(q, x)].outcome = o THEN q[FollowedVote(q, x)].intensity ELSE 0
    ELSE IF /\ x \in DOMAIN ds
            /\ ds[x] \in Voted(q)
            /\ q[FollowedVote(q, ds[x])].outcome = o
         THEN 1 ELSE 0

VotesOnce(q) == \A i, j \in DOMAIN q : q[i].voter = q[j].voter => i = j

\* The unit weights behind an outcome that are one person's.
LEMMA UnitsOfPerson ==
    ASSUME NEW q \in Seq(Votes), VotesOnce(q), NEW x \in Voters, NEW o \in Outcomes
    PROVE  Cardinality({u \in DirectUnits(q, o) : q[u[1]].voter = x}) =
             IF x \in Voted(q) /\ q[FollowedVote(q, x)].outcome = o
             THEN q[FollowedVote(q, x)].intensity ELSE 0
<1> DEFINE mine == {u \in DirectUnits(q, o) : q[u[1]].voter = x}
           f == FollowedVote(q, x)
           n == q[f].intensity
<1>1. \A i \in DOMAIN q : q[i] \in Votes
  <2> HIDE DEF Votes
  <2> QED
    OBVIOUS
<1>2. CASE x \notin Voted(q)
  <2>1. mine = {}
    BY <1>2 DEF DirectUnits, Voted
  <2> QED
    BY <1>2, <2>1, FS_EmptySet
<1>3. CASE x \in Voted(q)
  <2>1. f \in DOMAIN q /\ q[f].voter = x /\ \A i \in DOMAIN q : q[i].voter = x => i = f
    BY <1>3, FollowedIsFirst DEF VotesOnce
  <2>2. n \in 1 .. MAX_INTENSITY
    BY <1>1, <2>1 DEF Votes
  <2> HIDE DEF f, n
  <2>3. CASE q[f].outcome # o
    <3>1. mine = {}
      BY <2>1, <2>3 DEF DirectUnits
    <3> QED
      BY <1>3, <2>3, <3>1, FS_EmptySet DEF f
  <2>4. CASE q[f].outcome = o
    <3>1. mine = {f} \X (1 .. n)
      <4>1. \A u \in mine : u \in {f} \X (1 .. n)
        <5> SUFFICES ASSUME NEW u \in mine PROVE u \in {f} \X (1 .. n)
          OBVIOUS
        <5>1. /\ u \in (DOMAIN q) \X (1 .. MAX_INTENSITY) /\ q[u[1]].voter = x
              /\ u[2] <= q[u[1]].intensity
          BY DEF DirectUnits
        <5>2. u[1] = f /\ u[2] \in 1 .. n /\ u = <<u[1], u[2]>>
          BY <2>1, <2>2, <5>1 DEF n, MAX_INTENSITY
        <5> QED
          BY <5>2
      <4>2. \A k \in 1 .. n : <<f, k>> \in mine
        BY <2>1, <2>2, <2>4 DEF DirectUnits, n, MAX_INTENSITY
      <4> HIDE DEF mine
      <4> QED
        BY <4>1, <4>2
    <3>2. IsFiniteSet({f}) /\ Cardinality({f}) = 1
      BY FS_Singleton
    <3>3. IsFiniteSet(1 .. n) /\ Cardinality(1 .. n) = n
      <4>1. n \in Int /\ 1 \in Int /\ ~(1 > n) /\ n - 1 + 1 = n
        BY <2>2 DEF MAX_INTENSITY
      <4> QED
        BY <4>1, FS_Interval
    <3>4. Cardinality({f} \X (1 .. n)) = 1 * n
      BY <3>2, <3>3, FS_Product
    <3>5. Cardinality(mine) = n
      <4> HIDE DEF mine
      <4> QED
        BY <2>2, <3>1, <3>4 DEF MAX_INTENSITY
    <3> QED
      BY <1>3, <2>4, <3>5 DEF f, n
  <2> QED
    BY <2>3, <2>4
<1> QED
  BY <1>2, <1>3

\* The score of an outcome is the sum of what the people add.
LEMMA ScoreByPerson ==
    ASSUME NEW q \in Seq(Votes), VotesOnce(q), NEW ds \in Delegations,
           \A v \in DOMAIN ds : ds[v] # v, NEW o \in Outcomes,
           NEW share, \A x \in Voters : share[x] = Share(q, ds, x, o)
    PROVE  qv_scores(q, ds)[o] = SumOver(share, Voters)
<1> DEFINE U == DirectUnits(q, o)
           D == Delegators(q, ds, o)
           owner == [u \in U |-> q[u[1]].voter]
           direct == [x \in Voters |-> Cardinality({u \in U : owner[u] = x})]
           self == [v \in D |-> v]
           delegated == [x \in Voters |-> Cardinality({v \in D : self[v] = x})]
<1>1. IsFiniteSet(U) /\ IsFiniteSet(D) /\ IsFiniteSet(Voters)
  BY BallotsFinite, MockDaoAssumption
<1>2. \A i \in DOMAIN q : q[i] \in Votes
  <2> HIDE DEF Votes
  <2> QED
    OBVIOUS
<1>3. owner \in [U -> Voters]
  BY <1>2 DEF DirectUnits, Votes
<1>4. self \in [D -> Voters] /\ D \in SUBSET Voters
  BY DEF Delegators, Delegations
<1>5. /\ \A x \in Voters : {u \in U : owner[u] = x} = {u \in DirectUnits(q, o) : q[u[1]].voter = x}
      /\ \A x \in Voters : {v \in D : self[v] = x} = IF x \in D THEN {x} ELSE {}
  OBVIOUS
<1>6. Cardinality(U) = SumOver(direct, Voters)
  <2> HIDE DEF U, owner
  <2> QED
    BY <1>1, <1>3, CountedByKey
<1>7. Cardinality(D) = SumOver(delegated, Voters)
  <2> HIDE DEF D, self
  <2> QED
    BY <1>1, <1>4, CountedByKey
<1>8. ASSUME NEW x \in Voters
      PROVE  /\ direct[x] \in Nat /\ delegated[x] \in Nat
             /\ share[x] = direct[x] + delegated[x]
  <2>1. direct[x] = IF x \in Voted(q) /\ q[FollowedVote(q, x)].outcome = o
                    THEN q[FollowedVote(q, x)].intensity ELSE 0
    <3> DEFINE units == {u \in DirectUnits(q, o) : q[u[1]].voter = x}
    <3>1. direct[x] = Cardinality(units)
      BY <1>5
    <3>2. Cardinality(units) = IF x \in Voted(q) /\ q[FollowedVote(q, x)].outcome = o
                               THEN q[FollowedVote(q, x)].intensity ELSE 0
      BY UnitsOfPerson
    <3> HIDE DEF direct, units
    <3> QED
      BY <3>1, <3>2
  <2>2. x \in Voted(q) => q[FollowedVote(q, x)].intensity \in Nat
    <3>1. x \in Voted(q) => FollowedVote(q, x) \in DOMAIN q
      <4> HIDE DEF Votes
      <4> QED
        BY FollowedIsFirst
    <3>2. \A i \in DOMAIN q : q[i].intensity \in Nat
      BY <1>2 DEF Votes, MAX_INTENSITY
    <3> QED
      BY <3>1, <3>2
  <2>3. delegated[x] = IF x \in D THEN 1 ELSE 0
    <3>1. Cardinality({x}) = 1 /\ Cardinality({}) = 0
      BY FS_Singleton, FS_EmptySet
    <3>2. delegated[x] = Cardinality(IF x \in D THEN {x} ELSE {})
      BY <1>5
    <3> QED
      BY <3>1, <3>2
  <2>4. x \in D <=> /\ x \in DOMAIN ds /\ x \notin Voted(q) /\ ds[x] \in Voted(q)
                    /\ q[FollowedVote(q, ds[x])].outcome = o
    BY DEF Delegators
  <2> HIDE DEF direct, delegated, D, U
  <2> QED
    BY <2>1, <2>2, <2>3, <2>4 DEF Share
<1>9. SumOver(share, Voters) = SumOver(direct, Voters) + SumOver(delegated, Voters)
  <2> HIDE DEF direct, delegated
  <2> QED
    BY <1>1, <1>8, SumAdds
<1> QED
  BY <1>6, <1>7, <1>9 DEF qv_scores

\* That is what the property calls a person's contribution.
LEMMA ContributionIsShare ==
    ASSUME TypeOK, NEW a \in Known, VotesOnce(candidates[a].qv_votes),
           NEW x \in Voters, NEW o \in Outcomes
    PROVE  Contribution(a, x, o) =
             Share(candidates[a].qv_votes, candidates[a].delegations, x, o)
<1> DEFINE q == candidates[a].qv_votes
           ds == candidates[a].delegations
           cast(y) == {i \in DOMAIN q : q[i].voter = y}
<1>1. q \in Seq(Votes)
  <2>1. candidates[a] \in Records
    BY CandidateTyped DEF Known
  <2> QED
    BY <2>1 DEF Records
<1>2. \A y : cast(y) # {} <=> y \in Voted(q)
  BY DEF Voted
<1>3. ASSUME NEW y \in Voted(q) PROVE cast(y) = {FollowedVote(q, y)} /\ FollowedVote(q, y) \in Nat
  <2>1. FollowedVote(q, y) \in DOMAIN q /\ q[FollowedVote(q, y)].voter = y
    BY <1>1, FollowedIsFirst
  <2> QED
    BY <1>1, <2>1 DEF VotesOnce
<1>4. x \in Voted(q) => Sets!Min(cast(x)) = FollowedVote(q, x)
  <2> SUFFICES ASSUME x \in Voted(q) PROVE Sets!Min(cast(x)) = FollowedVote(q, x)
    OBVIOUS
  <2> DEFINE m == FollowedVote(q, x)
  <2>1. cast(x) = {m} /\ m \in Nat
    BY <1>3
  <2>2. Sets!Min({m}) = m
    <3> HIDE DEF m
    <3> QED
      BY <2>1 DEF Sets!Min
  <2> QED
    BY <2>1, <2>2
<1>5. \A y : (\E i \in cast(y) : q[i].outcome = o)
               <=> y \in Voted(q) /\ q[FollowedVote(q, y)].outcome = o
  BY <1>2, <1>3
<1>6. Contribution(a, x, o) =
        IF cast(x) # {}
        THEN IF q[Sets!Min(cast(x))].outcome = o THEN q[Sets!Min(cast(x))].intensity ELSE 0
        ELSE IF x \in DOMAIN ds /\ (\E i \in cast(ds[x]) : q[i].outcome = o) THEN 1 ELSE 0
  BY DEF Contribution
<1> HIDE DEF q, ds
<1>7. CASE x \in Voted(q)
  <2>1. Contribution(a, x, o) = IF q[FollowedVote(q, x)].outcome = o
                                THEN q[FollowedVote(q, x)].intensity ELSE 0
    BY <1>2, <1>4, <1>6, <1>7
  <2> QED
    BY <1>7, <2>1 DEF Share, q
<1>8. CASE x \notin Voted(q)
  <2>1. Contribution(a, x, o) =
          IF x \in DOMAIN ds /\ (\E i \in cast(ds[x]) : q[i].outcome = o) THEN 1 ELSE 0
    BY <1>2, <1>6, <1>8
  <2> QED
    BY <1>5, <1>8, <2>1 DEF Share, q, ds
<1> QED
  BY <1>7, <1>8

\* Nobody is in a ballot box twice.
BoxesOnce == \A a \in Known : VotesOnce(candidates[a].qv_votes)

LEMMA OnceMore ==
    ASSUME NEW q \in Seq(Votes), VotesOnce(q), NEW vote \in Votes, vote.voter \notin Voted(q)
    PROVE  VotesOnce(Append(q, vote))
<1> DEFINE q2 == Append(q, vote)
           n == Len(q) + 1
<1>1. /\ DOMAIN q = 1 .. n - 1 /\ DOMAIN q2 = (DOMAIN q) \cup {n} /\ q2[n] = vote
      /\ \A i \in DOMAIN q : q2[i] = q[i]
  <2> HIDE DEF Votes
  <2> QED
    OBVIOUS
<1> HIDE DEF q2, n
<1>2. \A i \in DOMAIN q : q2[i].voter # q2[n].voter
  BY <1>1 DEF Voted
<1>3. VotesOnce(q2)
  BY <1>1, <1>2 DEF VotesOnce
<1> QED
  BY <1>3 DEF q2

LEMMA InitOnce == Init => BoxesOnce
  BY DEF Init, Known, Absent, BoxesOnce

LEMMA NextOnce == DInv /\ BoxesOnce /\ [Next]_vars => BoxesOnce'
<1> SUFFICES ASSUME DInv, BoxesOnce, [Next]_vars, NEW a \in Known'
             PROVE  VotesOnce(candidates'[a].qv_votes)
  BY DEF BoxesOnce
<1>0. candidates \in [Annotations -> Records \cup {Absent}] /\ a \in Annotations
  BY DEF DInv, TypeOK, Known
<1>1. CASE \E b \in Annotations, o \in Outcomes : CastVote(b, o)
  <2>1. PICK b \in Annotations : VoteCounted(b)
    BY <1>1, VotesCount DEF DInv
  <2>2. PICK r \in Records :
          /\ candidates[b].status = "pending"
          /\ candidates' = [candidates EXCEPT ![b] = r]
          /\ \/ r.qv_votes = candidates[b].qv_votes
             \/ \E vote \in Votes : /\ vote.voter \notin Voted(candidates[b].qv_votes)
                                   /\ r.qv_votes = Append(candidates[b].qv_votes, vote)
    BY <2>1 DEF VoteCounted
  <2>3. CASE a # b
    BY <1>0, <2>2, <2>3 DEF BoxesOnce, Known
  <2>4. CASE a = b
    <3>1. a \in Known /\ candidates'[a] = r
      BY <1>0, <2>2, <2>4 DEF Known
    <3>2. candidates[a].qv_votes \in Seq(Votes) /\ VotesOnce(candidates[a].qv_votes)
      <4>1. candidates[a] \in Records
        BY <1>0, <3>1, CandidateTyped DEF DInv
      <4> QED
        BY <3>1, <4>1 DEF Records, BoxesOnce
    <3> QED
      BY <2>2, <2>4, <3>1, <3>2, OnceMore
  <2> QED
    BY <2>3, <2>4
<1>2. CASE ~ \E b \in Annotations, o \in Outcomes : CastVote(b, o)
  <2>1. CASE a \in Known
    <3>1. candidates'[a].qv_votes = candidates[a].qv_votes
      BY <1>0, <1>2, <2>1, BoxKept DEF Next
    <3> QED
      BY <2>1, <3>1 DEF BoxesOnce
  <2>2. CASE a \notin Known
    <3>1. candidates'[a].status # "absent" /\ candidates[a].status = "absent" /\ candidates[a] = Absent
      BY <1>0, <2>2, CandidateTyped DEF Known, DInv
    <3>2. ~ UNCHANGED candidates
      BY <3>1
    <3>3. ~ \E t \in tasks : DeliveryStep(t)
      <4> SUFFICES ASSUME NEW t \in tasks, DeliveryStep(t) PROVE FALSE
        OBVIOUS
      <4>1. _set_status(t)
        BY <3>2 DEF DeliveryStep, Begin, _fake_decide, PostAccepted, PostFails, _apply_reputation
      <4>2. candidates'[a] = candidates[a]
        BY <1>0, <2>2, <4>1 DEF _set_status
      <4> QED
        BY <3>1, <4>2
    <3>4. ~ Restart
      BY <1>0, <3>1 DEF Restart, Absent
    <3>5. ~ \E b \in Annotations, v \in NamedVoters, d \in Voters : delegate_vote(b, v, d)
      BY <1>0, <3>1 DEF delegate_vote
    <3>6. PICK b \in Annotations, r \in Recommendations : submit_candidate(b, r)
      BY <1>2, <3>2, <3>3, <3>4, <3>5 DEF Next, vars
    <3>7. candidates'[a] = NewRecord(r)
      BY <1>0, <3>1, <3>6 DEF submit_candidate
    <3> QED
      BY <3>7 DEF NewRecord, VotesOnce
  <2> QED
    BY <2>1, <2>2
<1> QED
  BY <1>1, <1>2

\* In such a state the sum the property names is the score.
LEMMA PeopleCounted == TypeOK /\ BoxesOnce => ScoresCountPeople
<1> SUFFICES ASSUME TypeOK, BoxesOnce, NEW a \in Known, NEW o \in Outcomes
             PROVE  Scores(a)[o] = Sets!MapThenSumSet(LAMBDA x : Contribution(a, x, o), Voters)
  BY DEF ScoresCountPeople
<1> DEFINE q == candidates[a].qv_votes
           ds == candidates[a].delegations
           g == [x \in Voters |-> Contribution(a, x, o)]
           it == CHOOSE it : it = [s \in SUBSET Voters |-> IF s = {} THEN 0
                    ELSE LET x == CHOOSE x \in s : TRUE IN Contribution(a, x, o) + it[s \ {x}]]
<1>1. IsFiniteSet(Voters)
  BY MockDaoAssumption
<1>2. /\ q \in Seq(Votes) /\ VotesOnce(q) /\ ds \in Delegations
      /\ \A v \in DOMAIN ds : ds[v] # v
  <2>1. candidates[a] \in Records
    BY CandidateTyped DEF Known
  <2> QED
    BY <2>1 DEF Records, BoxesOnce, TypeOK
<1>3. qv_scores(q, ds)[o] = SumOver(g, Voters)
  <2>1. \A x \in Voters : g[x] = Share(q, ds, x, o)
    BY <1>2, ContributionIsShare
  <2> HIDE DEF q, ds, g
  <2> QED
    BY <1>2, <2>1, ScoreByPerson
<1>4. PICK k : Sums(k, g, Voters) /\ SumOver(g, Voters) = k[Voters]
  BY <1>1, FoldSums
<1>5. \A s \in SUBSET Voters : s # {} => g[Pick(s)] = Contribution(a, Pick(s), o)
  <2>1. \A s \in SUBSET Voters : s # {} => Pick(s) \in Voters
    BY Picked
  <2> QED
    BY <2>1
<1>6. k = [s \in SUBSET Voters |-> IF s = {} THEN 0
              ELSE LET x == CHOOSE x \in s : TRUE IN Contribution(a, x, o) + k[s \ {x}]]
  <2> HIDE DEF g
  <2>1. k = [s \in SUBSET Voters |-> IF s = {} THEN 0
                ELSE Contribution(a, Pick(s), o) + k[s \ {Pick(s)}]]
    BY <1>4, <1>5 DEF Sums
  <2> QED
    BY <2>1, Zenon DEF Pick
<1>7. it = [s \in SUBSET Voters |-> IF s = {} THEN 0
               ELSE LET x == CHOOSE x \in s : TRUE IN Contribution(a, x, o) + it[s \ {x}]]
  BY <1>6, Zenon
<1>8. Sets!MapThenSumSet(LAMBDA x : Contribution(a, x, o), Voters) = it[Voters]
  BY DEF Sets!MapThenSumSet, Sets!MapThenFoldSet
<1>9. it[Voters] = k[Voters]
  <2> HIDE DEF g, it
  <2>1. it = [s \in SUBSET Voters |-> IF s = {} THEN 0
                 ELSE Contribution(a, Pick(s), o) + it[s \ {Pick(s)}]]
    BY <1>7, Zenon DEF Pick
  <2>2. Sums(it, g, Voters)
    BY <1>5, <2>1 DEF Sums
  <2> QED
    BY <1>1, <1>4, <2>2, SumsAgree
<1>10. Scores(a)[o] = qv_scores(q, ds)[o]
  BY DEF Scores
<1> HIDE DEF q, ds, g, it
<1> QED
  BY <1>3, <1>4, <1>8, <1>9, <1>10

\* "One person, one vote", a person being a name: the scores are what the names
\* contribute, each by its vote or by its delegation, never by both and never twice,
\* whatever names are given or made up (qv_voting.py:37-59, main.py:545-552).
THEOREM PeopleCountOnce == Spec => []ScoresCountPeople
<1>1. DInv => TypeOK
  BY DEF DInv
<1> QED
  BY <1>1, InitOnce, NextOnce, PeopleCounted, DaoInvariance, PTL DEF Spec

-------------------------------------------------------------------------------
\* The pool of deliveries: what the liveness of the deliveries rests on.

\* A task goes on: to a later stage, or to another attempt of the same.
StageNo == [queued |-> 0, sleeping |-> 1, posting |-> 2, delivered |-> 3, recorded |-> 4]

MovedOn(t, u) ==
    \/ StageNo[u.stage] > StageNo[t.stage]
    \/ u.stage = t.stage /\ u.attempt > t.attempt

\* A task that holds a worker can take its next step; a queued one has to be
\* first in the queue and find a free worker.
TaskReady(t) ==
    \/ t.stage # "queued"
    \/ /\ Cardinality(Running) < MAX_WORKERS
       /\ \A u \in tasks : u.stage = "queued" => t.id <= u.id

\* The fairness of FairSpec and EveryTaskEnds quantify over 1 .. MaxSubmissions:
\* every task is among those, alone under its number.  No more tasks run than
\* there are workers, and some task can always take its next step.
PoolSound ==
    /\ \A t \in tasks : t.id \in 1 .. MaxSubmissions
    /\ \A t, u \in tasks : t.id = u.id => t = u
    /\ Cardinality(Running) <= MAX_WORKERS
    /\ tasks # {} => \E t \in tasks : TaskReady(t)

\* The inductive invariant: a proposal is claimed once per submission at most, so
\* that tasks scheduled and claims still open together do not exceed submissions.
Open == {a \in Annotations : candidates[a].status = "pending"}

PoolInv ==
    /\ IsFiniteSet(tasks) /\ IsFiniteSet(Open)
    /\ submissions <= MaxSubmissions
    /\ scheduled + (IF VotingMode THEN Cardinality(Open) ELSE 0) <= submissions
    /\ \A t \in tasks : t.id \in 1 .. scheduled
    /\ \A t, u \in tasks : t.id = u.id => t = u
    /\ Cardinality(Running) <= MAX_WORKERS

\* What a step does to the pool: nothing, a task is added, goes on or leaves, or
\* the process is restarted.
Goes(t, t2) ==
    /\ t2 \in Tasks /\ t2.id = t.id /\ t2.annotation = t.annotation
    /\ MovedOn(t, t2)
    /\ t2.stage # "queued"
    /\ t.stage = "queued" => Cardinality(Running) < MAX_WORKERS
    /\ tasks' = (tasks \ {t}) \cup {t2}

Leaves(t) ==
    /\ t.stage = "recorded" \/ (t.stage = "posting" /\ t.attempt + 1 = WEBHOOK_MAX_RETRIES)
    /\ tasks' = tasks \ {t}

LEMMA StagesOrdered ==
    /\ StageNo["queued"] = 0 /\ StageNo["sleeping"] = 1 /\ StageNo["posting"] = 2
    /\ StageNo["delivered"] = 3 /\ StageNo["recorded"] = 4
  BY DEF StageNo

\* Every step of a delivery makes its task go on or leave.
LEMMA DeliveryMoves ==
    ASSUME DInv, NEW t \in tasks, DeliveryStep(t)
    PROVE  /\ Leaves(t) \/ \E t2 : Goes(t, t2)
           /\ UNCHANGED <<scheduled, submissions>>
<1>0. /\ t \in Tasks /\ t.attempt \in 0 .. WEBHOOK_MAX_RETRIES - 1 /\ t.outcome \in Outcomes
      /\ WEBHOOK_MAX_RETRIES \in Nat /\ decisionCounter \in Nat
  BY TaskTyped, MockDaoAssumption DEF DInv, TypeOK
<1>1. CASE Begin(t)
  <2>1. [t EXCEPT !.stage = "sleeping"] \in Tasks
    BY <1>0 DEF Tasks
  <2>2. Goes(t, [t EXCEPT !.stage = "sleeping"])
    BY <1>0, <1>1, <2>1, StagesOrdered DEF Begin, Advance, Goes, MovedOn, Tasks
  <2> QED
    BY <1>1, <2>2 DEF Begin
<1>2. CASE _fake_decide(t)
  <2> DEFINE t2 == [t EXCEPT !.stage = "posting", !.decision_id = decisionCounter]
  <2>1. /\ t2 \in Tasks /\ t2.id = t.id /\ t2.annotation = t.annotation
        /\ t.stage = "sleeping" /\ t2.stage = "posting" /\ tasks' = (tasks \ {t}) \cup {t2}
    BY <1>0, <1>2 DEF Tasks, _fake_decide, Advance
  <2> HIDE DEF t2
  <2>2. Goes(t, t2)
    BY <2>1, StagesOrdered DEF Goes, MovedOn
  <2> QED
    BY <1>2, <2>2 DEF _fake_decide
<1>3. CASE PostAccepted(t)
  <2> DEFINE t2 == [t EXCEPT !.stage = "delivered"]
  <2>1. /\ t2 \in Tasks /\ t2.id = t.id /\ t2.annotation = t.annotation
        /\ t.stage = "posting" /\ t2.stage = "delivered" /\ tasks' = (tasks \ {t}) \cup {t2}
    BY <1>0, <1>3 DEF Tasks, PostAccepted, Advance
  <2> HIDE DEF t2
  <2>2. Goes(t, t2)
    BY <2>1, StagesOrdered DEF Goes, MovedOn
  <2> QED
    BY <1>3, <2>2 DEF PostAccepted
<1>4. CASE PostFails(t)
  <2>1. t.stage = "posting" /\ UNCHANGED <<scheduled, submissions>>
    BY <1>4 DEF PostFails
  <2>2. CASE t.attempt + 1 < WEBHOOK_MAX_RETRIES
    <3> DEFINE t2 == [t EXCEPT !.attempt = @ + 1]
    <3>1. tasks' = (tasks \ {t}) \cup {t2}
      BY <1>4, <2>2 DEF PostFails, Advance
    <3>2. /\ t2 \in Tasks /\ t2.id = t.id /\ t2.annotation = t.annotation
          /\ t2.stage = t.stage /\ t2.attempt > t.attempt
      BY <1>0, <2>2 DEF Tasks
    <3> HIDE DEF t2
    <3>3. Goes(t, t2)
      BY <2>1, <3>1, <3>2 DEF Goes, MovedOn
    <3> QED
      BY <2>1, <3>3
  <2>3. CASE ~(t.attempt + 1 < WEBHOOK_MAX_RETRIES)
    <3>1. t.attempt + 1 = WEBHOOK_MAX_RETRIES
      BY <1>0, <2>3
    <3>2. tasks' = tasks \ {t}
      BY <1>4, <2>3 DEF PostFails
    <3> QED
      BY <2>1, <3>1, <3>2 DEF Leaves
  <2> QED
    BY <2>2, <2>3
<1>5. CASE _set_status(t)
  <2> DEFINE t2 == [t EXCEPT !.stage = "recorded"]
  <2>1. /\ t2 \in Tasks /\ t2.id = t.id /\ t2.annotation = t.annotation
        /\ t.stage = "delivered" /\ t2.stage = "recorded" /\ tasks' = (tasks \ {t}) \cup {t2}
    BY <1>0, <1>5 DEF Tasks, _set_status, Advance
  <2> HIDE DEF t2
  <2>2. Goes(t, t2)
    BY <2>1, StagesOrdered DEF Goes, MovedOn
  <2> QED
    BY <1>5, <2>2 DEF _set_status
<1>6. CASE _apply_reputation(t)
  <2>1. t.stage = "recorded" /\ tasks' = tasks \ {t} /\ UNCHANGED <<scheduled, submissions>>
    BY <1>6 DEF _apply_reputation
  <2> QED
    BY <2>1 DEF Leaves
<1> QED
  BY <1>1, <1>2, <1>3, <1>4, <1>5, <1>6 DEF DeliveryStep

\* A delivery opens no proposal.
LEMMA DeliveryOpensNone ==
    ASSUME DInv, NEW t \in tasks, DeliveryStep(t)
    PROVE  /\ Open' \subseteq Open
           /\ \A a \in Annotations :
                \/ candidates'[a].status = candidates[a].status
                \/ a = t.annotation /\ candidates'[a].status \in Outcomes
<1> SUFFICES \A a \in Annotations :
                \/ candidates'[a].status = candidates[a].status
                \/ a = t.annotation /\ candidates'[a].status \in Outcomes
  BY DEF Open, Outcomes
<1>1. t.annotation \in Annotations /\ t.outcome \in Outcomes
  BY TaskTyped DEF DInv
<1>2. CASE _set_status(t)
  <2>1. candidates \in [Annotations -> Records \cup {Absent}]
    BY DEF DInv, TypeOK
  <2>2. \A a \in Annotations \ {t.annotation} : candidates'[a] = candidates[a]
    BY <1>2, <2>1 DEF _set_status
  <2>3. CASE t.annotation \in Known
    <3>1. candidates[t.annotation] \in Records
      BY <1>1, <2>3, CandidateTyped DEF DInv
    <3>2. candidates'[t.annotation] = [candidates[t.annotation] EXCEPT
                                          !.status = t.outcome, !.decision = DecisionOf(t)]
      BY <1>1, <1>2, <2>1, <2>3 DEF _set_status
    <3>3. candidates'[t.annotation].status = t.outcome
      BY <3>1, <3>2 DEF Records
    <3> QED
      BY <1>1, <2>2, <3>3
  <2>4. CASE t.annotation \notin Known
    BY <1>2, <2>4 DEF _set_status
  <2> QED
    BY <2>3, <2>4
<1>3. CASE ~_set_status(t)
  BY <1>3 DEF DeliveryStep, Begin, _fake_decide, PostAccepted, PostFails, _apply_reputation
<1> QED
  BY <1>2, <1>3

\* A new task has a number of its own and waits.
LEMMA ScheduledKeeps ==
    ASSUME TypeOK, PoolInv, NEW a \in Annotations, NEW o \in Outcomes, Schedule(a, o)
    PROVE  /\ IsFiniteSet(tasks') /\ Running' = Running /\ scheduled' = scheduled + 1
           /\ \A t \in tasks' : t.id \in 1 .. scheduled'
           /\ \A t, u \in tasks' : t.id = u.id => t = u
           /\ \A t \in tasks' : t \in tasks \/ t.id = scheduled + 1
           /\ tasks \subseteq tasks' /\ \E t \in tasks' : t.annotation = a
<1> DEFINE new == NewTask(scheduled + 1, a, o)
<1>1. scheduled \in Nat /\ tasks' = tasks \cup {new} /\ scheduled' = scheduled + 1
  BY DEF TypeOK, Schedule
<1>2. new.id = scheduled + 1 /\ new.stage = "queued" /\ new.annotation = a
  BY DEF NewTask
<1> HIDE DEF new
<1>3. IsFiniteSet(tasks')
  BY <1>1, FS_AddElement DEF PoolInv
<1>4. Running' = Running
  BY <1>1, <1>2 DEF Running
<1>5. \A t \in tasks : t.id \in Nat /\ t.id \in 1 .. scheduled
  BY <1>1 DEF PoolInv
<1>6. \A t \in tasks' : t.id \in 1 .. scheduled'
  BY <1>1, <1>2, <1>5
<1>7. ASSUME NEW t \in tasks', NEW u \in tasks', t.id = u.id PROVE t = u
  <2>1. \A w \in tasks : w.id # scheduled + 1
    BY <1>1, <1>5
  <2> QED
    BY <1>1, <1>2, <1>7, <2>1 DEF PoolInv
<1> QED
  BY <1>1, <1>2, <1>3, <1>4, <1>6, <1>7

\* A step of a delivery keeps the numbers and takes no worker that is not free.
LEMMA DeliveryKeepsPool ==
    ASSUME DInv, PoolInv, NEW t \in tasks, DeliveryStep(t)
    PROVE  PoolInv'
<1>1. UNCHANGED <<scheduled, submissions>> /\ (Leaves(t) \/ \E t2 : Goes(t, t2))
  BY DeliveryMoves
<1>2. IsFiniteSet(Open') /\ Cardinality(Open') <= Cardinality(Open)
  BY DeliveryOpensNone, FS_Subset DEF PoolInv
<1>3. /\ scheduled \in Nat /\ submissions \in Nat /\ MAX_WORKERS \in Nat
      /\ Cardinality(Open) \in Nat /\ Cardinality(Open') \in Nat
  BY <1>2, FS_CardinalityType, MockDaoAssumption DEF DInv, TypeOK, PoolInv
<1>4. submissions' <= MaxSubmissions /\ scheduled' + (IF VotingMode THEN Cardinality(Open') ELSE 0) <= submissions'
  BY <1>1, <1>2, <1>3 DEF PoolInv
<1>5. IsFiniteSet(Running) /\ Cardinality(Running) \in Nat /\ Running \subseteq tasks
  <2>1. Running \subseteq tasks
    BY DEF Running
  <2> QED
    BY <2>1, FS_Subset, FS_CardinalityType DEF PoolInv
<1>6. CASE Leaves(t)
  <2>1. tasks' = tasks \ {t} /\ Running' \subseteq Running
    BY <1>6 DEF Leaves, Running
  <2>2. IsFiniteSet(tasks') /\ Cardinality(Running') <= Cardinality(Running) /\ Cardinality(Running') \in Nat
    BY <1>5, <2>1, FS_RemoveElement, FS_Subset, FS_CardinalityType DEF PoolInv
  <2>3. Cardinality(Running') <= MAX_WORKERS
    BY <1>3, <1>5, <2>2 DEF PoolInv
  <2>4. (\A u \in tasks' : u.id \in 1 .. scheduled') /\ \A u, w \in tasks' : u.id = w.id => u = w
    BY <1>1, <2>1 DEF PoolInv
  <2> QED
    BY <1>2, <1>4, <2>2, <2>3, <2>4 DEF PoolInv, VotingMode
<1>7. ASSUME NEW t2, Goes(t, t2) PROVE PoolInv'
  <2>1. tasks' = (tasks \ {t}) \cup {t2} /\ t2.id = t.id /\ t2.stage # "queued"
    BY <1>7 DEF Goes
  <2>2. IsFiniteSet(tasks')
    BY <2>1, FS_RemoveElement, FS_AddElement DEF PoolInv
  <2>3. Running' = (Running \ {t}) \cup {t2}
    BY <2>1 DEF Running
  <2>4. /\ IsFiniteSet(Running \ {t})
        /\ Cardinality(Running \ {t}) = IF t \in Running THEN Cardinality(Running) - 1 ELSE Cardinality(Running)
    BY <1>5, FS_RemoveElement
  <2>5. Cardinality(Running') <= Cardinality(Running \ {t}) + 1
    <3>1. Cardinality(Running \ {t}) \in Nat
      BY <2>4, FS_CardinalityType
    <3>2. Cardinality((Running \ {t}) \cup {t2}) =
            IF t2 \in Running \ {t} THEN Cardinality(Running \ {t}) ELSE Cardinality(Running \ {t}) + 1
      BY <2>4, FS_AddElement
    <3> QED
      BY <2>3, <3>1, <3>2
  <2>6. t \notin Running => Cardinality(Running) < MAX_WORKERS
    BY <1>7 DEF Goes, Running
  <2>7. Cardinality(Running') <= MAX_WORKERS
    <3>1. Cardinality(Running') \in Nat
      <4>1. IsFiniteSet(Running')
        BY <2>3, <2>4, FS_AddElement
      <4> QED
        BY <4>1, FS_CardinalityType
    <3> QED
      BY <1>3, <1>5, <2>4, <2>5, <2>6, <3>1 DEF PoolInv
  <2>8. \A u \in tasks' : u.id \in 1 .. scheduled'
    BY <1>1, <2>1 DEF PoolInv
  <2>9. \A u, w \in tasks' : u.id = w.id => u = w
    BY <2>1 DEF PoolInv
  <2> QED
    BY <1>2, <1>4, <2>2, <2>7, <2>8, <2>9 DEF PoolInv, VotingMode
<1> QED
  BY <1>1, <1>6, <1>7

\* A submission opens one proposal in the voting modes, or schedules one task.
LEMMA SubmissionKeepsPool ==
    ASSUME DInv, PoolInv, NEW a \in Annotations, NEW r \in Recommendations, submit_candidate(a, r)
    PROVE  PoolInv'
<1>1. /\ submissions < MaxSubmissions /\ submissions' = submissions + 1
      /\ candidates' = IF a \in Known THEN candidates ELSE [candidates EXCEPT ![a] = NewRecord(r)]
      /\ VotingMode => UNCHANGED <<tasks, scheduled>>
      /\ ~VotingMode => Schedule(a, candidates'[a].llm_recommendation)
  BY DEF submit_candidate
<1>2. /\ scheduled \in Nat /\ submissions \in Nat /\ MaxSubmissions \in Nat
      /\ candidates \in [Annotations -> Records \cup {Absent}]
  BY MockDaoAssumption DEF DInv, TypeOK
<1>3. Open' \subseteq Open \cup {a}
  BY <1>1, <1>2 DEF Open
<1>4. IsFiniteSet(Open') /\ Cardinality(Open') \in Nat /\ Cardinality(Open') <= Cardinality(Open) + 1
  <2>1. IsFiniteSet(Open) /\ Cardinality(Open) \in Nat
    BY FS_CardinalityType DEF PoolInv
  <2>2. /\ IsFiniteSet(Open \cup {a})
        /\ Cardinality(Open \cup {a}) = IF a \in Open THEN Cardinality(Open) ELSE Cardinality(Open) + 1
    BY <2>1, FS_AddElement
  <2>3. IsFiniteSet(Open') /\ Cardinality(Open') <= Cardinality(Open \cup {a})
    BY <1>3, <2>2, FS_Subset
  <2>4. Cardinality(Open') \in Nat
    BY <2>3, FS_CardinalityType
  <2> QED
    BY <2>1, <2>2, <2>3, <2>4
<1>5. submissions' <= MaxSubmissions
  BY <1>1, <1>2
<1>6. CASE VotingMode
  <2>1. Running' = Running
    BY <1>1, <1>6 DEF Running
  <2>2. Cardinality(Open) \in Nat
    BY FS_CardinalityType DEF PoolInv
  <2>3. scheduled' + Cardinality(Open') <= submissions'
    BY <1>1, <1>2, <1>4, <1>6, <2>2 DEF PoolInv
  <2> QED
    BY <1>1, <1>4, <1>5, <1>6, <2>1, <2>3 DEF PoolInv, VotingMode
<1>7. CASE ~VotingMode
  <2>1. candidates'[a].llm_recommendation \in Outcomes
    <3>1. a \in Known => candidates[a].llm_recommendation \in Outcomes
      BY CandidateTyped DEF DInv, Records
    <3>2. NewRecord(r).llm_recommendation \in Outcomes
      BY MockDaoAssumption DEF NewRecord
    <3> QED
      BY <1>1, <1>2, <3>1, <3>2
  <2>2. /\ IsFiniteSet(tasks') /\ Running' = Running /\ scheduled' = scheduled + 1
        /\ \A t \in tasks' : t.id \in 1 .. scheduled'
        /\ \A t, u \in tasks' : t.id = u.id => t = u
    BY <1>1, <1>7, <2>1, ScheduledKeeps DEF DInv
  <2>3. scheduled' + 0 <= submissions'
    BY <1>1, <1>2, <1>7, <2>2 DEF PoolInv
  <2> QED
    BY <1>4, <1>5, <1>7, <2>2, <2>3 DEF PoolInv, VotingMode
<1> QED
  BY <1>6, <1>7

\* A vote closes the proposal it schedules a task for.
LEMMA VoteKeepsPool ==
    ASSUME DInv, PoolInv, VotingMode, NEW a \in Annotations, VoteCounted(a)
    PROVE  PoolInv'
<1>1. PICK r \in Records :
        /\ candidates[a].status = "pending"
        /\ candidates' = [candidates EXCEPT ![a] = r]
        /\ \/ r.status = "pending" /\ UNCHANGED <<tasks, scheduled>>
           \/ r.status = "deciding" /\ Result(r) \in Outcomes /\ Schedule(a, Result(r))
        /\ UNCHANGED submissions
  BY DEF VoteCounted
<1>2. /\ scheduled \in Nat /\ submissions \in Nat
      /\ candidates \in [Annotations -> Records \cup {Absent}]
      /\ Cardinality(Open) \in Nat /\ a \in Open
  BY <1>1, FS_CardinalityType DEF DInv, TypeOK, PoolInv, Open
<1>3. CASE r.status = "pending" /\ UNCHANGED <<tasks, scheduled>>
  <2>1. Open' = Open /\ Running' = Running
    BY <1>1, <1>2, <1>3 DEF Open, Running
  <2> QED
    BY <1>1, <1>3, <2>1 DEF PoolInv, VotingMode
<1>4. CASE r.status = "deciding" /\ Result(r) \in Outcomes /\ Schedule(a, Result(r))
  <2>1. Open' = Open \ {a}
    BY <1>1, <1>2, <1>4 DEF Open
  <2>2. IsFiniteSet(Open') /\ Cardinality(Open') = Cardinality(Open) - 1
    BY <1>2, <2>1, FS_RemoveElement DEF PoolInv
  <2>3. /\ IsFiniteSet(tasks') /\ Running' = Running /\ scheduled' = scheduled + 1
        /\ \A t \in tasks' : t.id \in 1 .. scheduled'
        /\ \A t, u \in tasks' : t.id = u.id => t = u
    BY <1>4, ScheduledKeeps DEF DInv
  <2>4. scheduled' + Cardinality(Open') <= submissions'
    BY <1>1, <1>2, <2>2, <2>3 DEF PoolInv
  <2> QED
    BY <1>1, <2>2, <2>3, <2>4 DEF PoolInv, VotingMode
<1> QED
  BY <1>1, <1>3, <1>4

LEMMA InitPool == Init => PoolInv
<1> SUFFICES ASSUME Init PROVE PoolInv
  OBVIOUS
<1>1. tasks = {} /\ Open = {} /\ Running = {} /\ scheduled = 0 /\ submissions = 0
  BY DEF Init, Open, Running, Absent
<1> QED
  BY <1>1, FS_EmptySet, MockDaoAssumption DEF PoolInv

LEMMA NextPool == DInv /\ PoolInv /\ [Next]_vars => PoolInv'
<1> SUFFICES ASSUME DInv, PoolInv, [Next]_vars PROVE PoolInv'
  OBVIOUS
<1>1. ASSUME NEW a \in Annotations, NEW o \in Outcomes, CastVote(a, o) PROVE PoolInv'
  <2>1. VotingMode /\ VoteCounted(a)
    BY <1>1, VotesCount DEF DInv
  <2> QED
    BY <2>1, VoteKeepsPool
<1>2. ASSUME NEW a \in Annotations, NEW v \in NamedVoters, NEW d \in Voters, delegate_vote(a, v, d)
      PROVE  PoolInv'
  <2>1. candidates[a] \in Records /\ candidates \in [Annotations -> Records \cup {Absent}]
    BY <1>2, CandidateTyped DEF delegate_vote, DInv, TypeOK
  <2>2. candidates' = [candidates EXCEPT ![a].delegations = apply_delegation(@, v, d)]
    BY <1>2 DEF delegate_vote
  <2>3. \A b \in Annotations : candidates'[b].status = candidates[b].status
    BY <2>1, <2>2 DEF Records
  <2>4. Open' = Open /\ Running' = Running
    BY <1>2, <2>3 DEF Open, Running, delegate_vote
  <2> QED
    BY <1>2, <2>4 DEF PoolInv, VotingMode, delegate_vote
<1>3. CASE Restart
  <2>1. /\ tasks' = {} /\ Open' = {} /\ Running' = {}
        /\ UNCHANGED <<scheduled, submissions>>
    BY <1>3 DEF Restart, Open, Running, Absent
  <2>2. /\ scheduled \in Nat /\ submissions \in Nat
        /\ Cardinality(Open) \in Nat
    BY FS_CardinalityType DEF DInv, TypeOK, PoolInv
  <2>3. IsFiniteSet({}) /\ Cardinality({}) = 0
    BY FS_EmptySet
  <2> QED
    BY <2>1, <2>2, <2>3, MockDaoAssumption DEF PoolInv, VotingMode
<1>4. CASE UNCHANGED vars
  <2>1. Open' = Open /\ Running' = Running
    BY <1>4 DEF Open, Running, vars
  <2> QED
    BY <1>4, <2>1 DEF PoolInv, VotingMode, vars
<1> QED
  BY <1>1, <1>2, <1>3, <1>4, SubmissionKeepsPool, DeliveryKeepsPool DEF Next

\* Where nothing runs, the first of the queue finds a worker.
LEMMA SomeTaskReady ==
    ASSUME DInv, PoolInv, tasks # {}
    PROVE  \E t \in tasks : TaskReady(t)
<1>1. CASE Running # {}
  BY <1>1 DEF Running, TaskReady
<1>2. CASE Running = {}
  <2> DEFINE ids == {t.id : t \in tasks}
  <2>1. ids \in SUBSET Nat /\ ids # {}
    BY TaskTyped DEF DInv
  <2>2. PICK m \in ids : \A k \in ids : m <= k
    <3> HIDE DEF ids
    <3> QED
      BY <2>1, LeastNumber
  <2>3. PICK t \in tasks : t.id = m
    OBVIOUS
  <2>4. \A u \in tasks : t.id <= u.id
    BY <2>2, <2>3
  <2>5. Cardinality(Running) < MAX_WORKERS
    BY <1>2, FS_EmptySet, MockDaoAssumption
  <2> QED
    BY <2>4, <2>5 DEF TaskReady
<1> QED
  BY <1>1, <1>2

\* The pool never runs more deliveries than it has workers, never mistakes one for
\* another, and never stands still while it holds one (main.py:159-172).
THEOREM PoolCorrect == Spec => []PoolSound
<1>1. DInv /\ PoolInv => PoolSound
  <2> SUFFICES ASSUME DInv, PoolInv PROVE PoolSound
    OBVIOUS
  <2>1. \A t \in tasks : t.id \in 1 .. MaxSubmissions
    <3>1. /\ scheduled \in Nat /\ submissions \in Nat /\ MaxSubmissions \in Nat
          /\ Cardinality(Open) \in Nat
      BY FS_CardinalityType, MockDaoAssumption DEF DInv, TypeOK, PoolInv
    <3>2. scheduled <= MaxSubmissions
      BY <3>1 DEF PoolInv
    <3> QED
      BY <3>1, <3>2 DEF PoolInv
  <2> QED
    BY <2>1, SomeTaskReady DEF PoolInv, PoolSound
<1> QED
  BY <1>1, InitPool, NextPool, DaoInvariance, PTL DEF Spec

\* No delivery is ever taken back to an earlier stage or given attempts anew: until
\* it ends or the process is restarted it goes on with every step it takes, so that
\* it takes a bounded number of them.
TasksMoveOn ==
    [][\A t \in tasks, u \in tasks' : u.id = t.id => u = t \/ MovedOn(t, u)]_vars

\* What a step adds to the pool, but for the deliveries' own.
LEMMA StepSchedules ==
    ASSUME DInv, PoolInv, [Next]_vars, \A t \in tasks : ~DeliveryStep(t)
    PROVE  /\ tasks' = {} \/ tasks \subseteq tasks'
           /\ \A u \in tasks' : u \in tasks \/ u.id = scheduled + 1
           /\ VotingMode => \A a \in Annotations :
                candidates'[a].status = "deciding" =>
                    \/ candidates[a].status = "deciding" /\ tasks \subseteq tasks'
                    \/ \E t \in tasks' : t.annotation = a
<1>0. candidates \in [Annotations -> Records \cup {Absent}]
  BY DEF DInv, TypeOK
<1>1. ASSUME NEW a \in Annotations, NEW r \in Recommendations, submit_candidate(a, r)
      PROVE  /\ tasks \subseteq tasks'
             /\ \A u \in tasks' : u \in tasks \/ u.id = scheduled + 1
             /\ VotingMode => \A b \in Annotations :
                    candidates'[b].status = "deciding" => candidates[b].status = "deciding"
  <2>1. CASE VotingMode
    BY <1>0, <1>1, <2>1 DEF submit_candidate, NewRecord
  <2>2. CASE ~VotingMode
    <3>1. candidates'[a].llm_recommendation \in Outcomes
      <4>1. a \in Known => candidates[a].llm_recommendation \in Outcomes
        BY CandidateTyped DEF DInv, Records
      <4>2. NewRecord(r).llm_recommendation \in Outcomes
        BY MockDaoAssumption DEF NewRecord
      <4> QED
        BY <1>0, <1>1, <4>1, <4>2 DEF submit_candidate
    <3> QED
      BY <1>1, <2>2, <3>1, ScheduledKeeps DEF submit_candidate, DInv
  <2> QED
    BY <2>1, <2>2
<1>2. ASSUME NEW a \in Annotations, VoteCounted(a)
      PROVE  /\ tasks \subseteq tasks'
             /\ \A u \in tasks' : u \in tasks \/ u.id = scheduled + 1
             /\ \A b \in Annotations :
                    candidates'[b].status = "deciding" =>
                        candidates[b].status = "deciding" \/ \E t \in tasks' : t.annotation = b
  <2>1. PICK r \in Records :
          /\ candidates' = [candidates EXCEPT ![a] = r]
          /\ \/ r.status = "pending" /\ UNCHANGED <<tasks, scheduled>>
             \/ Result(r) \in Outcomes /\ Schedule(a, Result(r))
    BY <1>2 DEF VoteCounted
  <2>2. CASE r.status = "pending" /\ UNCHANGED <<tasks, scheduled>>
    BY <1>0, <2>1, <2>2
  <2>3. CASE Result(r) \in Outcomes /\ Schedule(a, Result(r))
    BY <1>0, <2>1, <2>3, ScheduledKeeps DEF DInv
  <2> QED
    BY <2>1, <2>2, <2>3
<1>3. ASSUME NEW a \in Annotations, NEW o \in Outcomes, CastVote(a, o) PROVE VoteCounted(a)
  BY <1>3, VotesCount DEF DInv
<1>4. ASSUME NEW a \in Annotations, NEW v \in NamedVoters, NEW d \in Voters, delegate_vote(a, v, d)
      PROVE  tasks' = tasks /\ \A b \in Annotations : candidates'[b].status = candidates[b].status
  <2>1. candidates[a] \in Records
    BY <1>4, CandidateTyped DEF delegate_vote, DInv
  <2>2. candidates' = [candidates EXCEPT ![a].delegations = apply_delegation(@, v, d)]
    BY <1>4 DEF delegate_vote
  <2>3. \A b \in Annotations : candidates'[b].status = candidates[b].status
    BY <1>0, <2>1, <2>2 DEF Records
  <2> QED
    BY <1>4, <2>3 DEF delegate_vote
<1>5. CASE Restart
  BY <1>5 DEF Restart, Absent
<1>6. CASE UNCHANGED vars
  BY <1>6 DEF vars
<1> QED
  BY <1>1, <1>2, <1>3, <1>4, <1>5, <1>6 DEF Next

LEMMA StepMovesTasks ==
    ASSUME DInv, PoolInv, [Next]_vars, NEW t \in tasks, NEW u \in tasks', u.id = t.id
    PROVE  u = t \/ MovedOn(t, u)
<1>0. scheduled \in Nat /\ t.id \in 1 .. scheduled
  BY DEF DInv, TypeOK, PoolInv
<1>1. ASSUME NEW s \in tasks, DeliveryStep(s) PROVE u = t \/ MovedOn(t, u)
  <2>1. Leaves(s) \/ \E s2 : Goes(s, s2)
    BY <1>1, DeliveryMoves
  <2>2. CASE u \in tasks
    BY <2>2 DEF PoolInv
  <2>3. CASE u \notin tasks
    <3>1. Goes(s, u)
      BY <2>1, <2>3 DEF Leaves, Goes
    <3>2. s = t
      BY <3>1 DEF Goes, PoolInv
    <3> QED
      BY <3>1, <3>2 DEF Goes
  <2> QED
    BY <2>2, <2>3
<1>2. CASE \A s \in tasks : ~DeliveryStep(s)
  <2>1. u \in tasks \/ u.id = scheduled + 1
    BY <1>2, StepSchedules
  <2> QED
    BY <1>0, <2>1 DEF PoolInv
<1> QED
  BY <1>1, <1>2

\* Retries and stages only ever go forward (main.py:349-384).
THEOREM TasksMoveOnCorrect == Spec => TasksMoveOn
<1>1. DInv /\ PoolInv /\ [Next]_vars =>
        [\A t \in tasks, u \in tasks' : u.id = t.id => u = t \/ MovedOn(t, u)]_vars
  BY StepMovesTasks
<1> QED
  BY <1>1, InitPool, NextPool, DaoInvariance, PTL DEF Spec, TasksMoveOn

Served(a) == \E t \in tasks : t.annotation = a

\* A claimed proposal has its delivery in the pool, and is left without one only by
\* a post that was its last attempt.
OnlyLastAttemptOrphans ==
    [][\A a \in Annotations :
        (VotingMode /\ candidates'[a].status = "deciding" /\ ~Served(a)') =>
            \/ candidates[a].status = "deciding" /\ ~Served(a)
            \/ \E t \in tasks : /\ t.annotation = a /\ t.stage = "posting"
                                /\ t.attempt + 1 = WEBHOOK_MAX_RETRIES]_vars

LEMMA StepOrphans ==
    ASSUME DInv, PoolInv, [Next]_vars, VotingMode, NEW a \in Annotations,
           candidates'[a].status = "deciding", ~Served(a)'
    PROVE  \/ candidates[a].status = "deciding" /\ ~Served(a)
           \/ \E t \in tasks : /\ t.annotation = a /\ t.stage = "posting"
                               /\ t.attempt + 1 = WEBHOOK_MAX_RETRIES
<1>1. ASSUME NEW s \in tasks, DeliveryStep(s)
      PROVE  \/ candidates[a].status = "deciding" /\ ~Served(a)
             \/ \E t \in tasks : /\ t.annotation = a /\ t.stage = "posting"
                                 /\ t.attempt + 1 = WEBHOOK_MAX_RETRIES
  <2>1. Leaves(s) \/ \E s2 : Goes(s, s2)
    BY <1>1, DeliveryMoves
  <2>2. candidates[a].status = "deciding"
    BY <1>1, DeliveryOpensNone DEF Outcomes
  <2>3. CASE Served(a)
    <3>1. PICK t \in tasks : t.annotation = a
      BY <2>3 DEF Served
    <3>2. Leaves(s) /\ t = s
      BY <2>1, <3>1 DEF Served, Leaves, Goes
    <3>3. s.stage # "recorded"
      BY <2>2, <3>1, <3>2, TaskTyped DEF DInv, ClaimsOK, Outcomes
    <3> QED
      BY <3>1, <3>2, <3>3 DEF Leaves
  <2> QED
    BY <2>2, <2>3
<1>2. CASE \A s \in tasks : ~DeliveryStep(s)
  BY <1>2, StepSchedules DEF Served
<1> QED
  BY <1>1, <1>2

\* No race, refusal or lost reply loses a claim before its attempts are used up
\* (main.py:375-384, 514-525).
THEOREM OrphansCorrect == Spec => OnlyLastAttemptOrphans
<1>1. DInv /\ PoolInv /\ [Next]_vars =>
        [\A a \in Annotations :
            (VotingMode /\ candidates'[a].status = "deciding" /\ ~Served(a)') =>
                \/ candidates[a].status = "deciding" /\ ~Served(a)
                \/ \E t \in tasks : /\ t.annotation = a /\ t.stage = "posting"
                                    /\ t.attempt + 1 = WEBHOOK_MAX_RETRIES]_vars
  BY StepOrphans
<1> QED
  BY <1>1, InitPool, NextPool, DaoInvariance, PTL DEF Spec, OnlyLastAttemptOrphans
===============================================================================

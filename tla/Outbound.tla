------------------------------- MODULE Outbound -------------------------------
(***************************************************************************)
(* services/fen_bridge/outbound.py with fen_client.py: polls a batch of    *)
(* candidates, POSTs it to the FEN API with a bounded number of retries    *)
(* and commits the batch if the API accepted it.  A rejected batch is not  *)
(* committed; nothing seeks back to it either.                             *)
(***************************************************************************)
EXTENDS KafkaGroup

CONSTANTS
    MaxRetries,   \* FenClient.max_retries: attempts after the first
    Faults,       \* which calls may fail
    MaxLeaves     \* bound: crashes, stops and rebalances together

ASSUME OutboundAssumption ==
    /\ MaxRetries \in Nat
    /\ Faults \subseteq {"post", "commit", "crash", "rebalance"}
    /\ MaxLeaves \in Nat

VARIABLES
    pc,           \* where the process is
    attempt,      \* failed attempts of the current submit_candidates call
    received,     \* history: offsets the FEN API has taken in
    leaves        \* crashes, stops and rebalances so far

vars == <<groupVars, pc, attempt, received, leaves>>

Init ==
    /\ GroupInit
    /\ pc = "down"
    /\ attempt = 0
    /\ received = [p \in Partitions |-> {}]
    /\ leaves = 0

\* The whole batch is one request body.
ReceivedToo == [p \in Partitions |-> received[p] \cup Pending(p)]

-------------------------------------------------------------------------------
Start ==
    /\ pc = "down"
    /\ pc' = "joining"
    /\ UNCHANGED <<groupVars, attempt, received, leaves>>

Assign ==
    /\ pc = "joining"
    /\ Join
    /\ pc' = "idle"
    /\ UNCHANGED <<attempt, received, leaves>>

PollBatch ==
    /\ pc = "idle"
    /\ Poll
    /\ pc' = "posting"
    /\ UNCHANGED <<attempt, received, leaves>>

\* A 2xx reply: submit_candidates returns True.
PostAccepted ==
    /\ pc = "posting"
    /\ received' = ReceivedToo
    /\ attempt' = 0
    /\ pc' = "committing"
    /\ UNCHANGED <<groupVars, leaves>>

\* Mutants of PostRetried: no bound on the attempts; attempts that start
\* over when they are used up.
RetryUnbounded ==
    /\ pc = "posting"
    /\ "post" \in Faults
    /\ received' \in {received, ReceivedToo}
    /\ attempt' = attempt + 1
    /\ UNCHANGED <<groupVars, pc, leaves>>

RetryStartingOver ==
    /\ pc = "posting"
    /\ "post" \in Faults
    /\ received' \in {received, ReceivedToo}
    /\ attempt' = (attempt + 1) % (MaxRetries + 1)
    /\ UNCHANGED <<groupVars, pc, leaves>>

\* An error, a refusal or a timeout; in the last case the API may have taken
\* the batch in.  Retried while attempts remain.
PostRetried ==
    /\ pc = "posting"
    /\ "post" \in Faults
    /\ attempt < MaxRetries
    /\ received' \in {received, ReceivedToo}
    /\ attempt' = attempt + 1
    /\ UNCHANGED <<groupVars, pc, leaves>>

\* Mutant of PostGivenUp: True is returned after the last attempt too.
GiveUpAsAccepted ==
    /\ pc = "posting"
    /\ "post" \in Faults
    /\ attempt = MaxRetries
    /\ attempt' = 0
    /\ pc' = "committing"
    /\ UNCHANGED <<groupVars, received, leaves>>

\* The last attempt fails: submit_candidates returns False, run() returns
\* without committing.
PostGivenUp ==
    /\ pc = "posting"
    /\ "post" \in Faults
    /\ attempt = MaxRetries
    /\ received' \in {received, ReceivedToo}
    /\ attempt' = 0
    /\ Abandon(next)
    /\ pc' = "idle"
    /\ UNCHANGED <<committed, leaves>>

CommitBatch ==
    /\ pc = "committing"
    /\ CommitOffsets(position)
    /\ pc' = "idle"
    /\ UNCHANGED <<attempt, received, leaves>>

\* commit() raises out of run(); main() backs off and polls on.  The broker
\* may have recorded the offsets anyway.
CommitFails ==
    /\ pc = "committing"
    /\ "commit" \in Faults
    /\ committed' \in {committed, Committing(position)}
    /\ Abandon(position)
    /\ pc' = "idle"
    /\ UNCHANGED <<attempt, received, leaves>>

\* SIGTERM sets an event that main() tests between cycles; then consumer.close().
Stop ==
    /\ pc = "idle"
    /\ leaves < MaxLeaves
    /\ leaves' = leaves + 1
    /\ Leave
    /\ pc' = "down"
    /\ UNCHANGED <<attempt, received>>

Crash ==
    /\ "crash" \in Faults
    /\ pc # "down"
    /\ leaves < MaxLeaves
    /\ leaves' = leaves + 1
    /\ Leave
    /\ attempt' = 0
    /\ pc' = "down"
    /\ UNCHANGED received

Rebalance ==
    /\ "rebalance" \in Faults
    /\ pc = "idle"
    /\ leaves < MaxLeaves
    /\ leaves' = leaves + 1
    /\ Leave
    /\ pc' = "joining"
    /\ UNCHANGED <<attempt, received>>

\* The upstream extraction service publishes a candidate.
CandidateArrives(p, v) ==
    /\ Produce(p, v)
    /\ UNCHANGED <<pc, attempt, received, leaves>>

-------------------------------------------------------------------------------
PostStep == PostAccepted \/ PostRetried \/ PostGivenUp
CommitStep == CommitBatch \/ CommitFails

Next ==
    \/ Start
    \/ Assign
    \/ PollBatch
    \/ PostStep
    \/ CommitStep
    \/ Stop
    \/ Crash
    \/ Rebalance
    \/ \E p \in Partitions, v \in Values : CandidateArrives(p, v)

Spec == Init /\ [][Next]_vars

\* The loop's own steps: every request has a timeout, every wait is bounded and
\* the container is restarted.  That the API ever accepts is not assumed.
Fairness ==
    /\ WF_vars(Start)
    /\ WF_vars(Assign)
    /\ WF_vars(PollBatch)
    /\ WF_vars(PostStep)
    /\ WF_vars(CommitStep)

FairSpec == Spec /\ Fairness

-------------------------------------------------------------------------------
TypeOK ==
    /\ GroupTypeOK
    /\ pc \in {"down", "joining", "idle", "posting", "committing"}
    /\ attempt \in 0 .. MaxRetries
    /\ received \in [Partitions -> SUBSET Nat]
    /\ leaves \in Nat

\* Where a committed candidate can have gone: the FEN API took it in, or every
\* attempt of a cycle failed and a later batch was committed past it, or a
\* reset to "latest" skipped it.  The exact loss of run() under every fault.
CommittedAccounted ==
    \A p \in Partitions : \A o \in 0 .. committed[p] - 1 :
        o \in received[p] \cup dropped[p] \cup passed[p]

\* Forwarding keeps OffsetLedger, with a candidate settled by the API taking it
\* in, by a cycle giving it up or by being passed over: a batch is committed as a
\* whole only after each of its candidates was settled, and none is jumped over,
\* whatever attempts fail and whatever the API took in although they failed.
Ledger == INSTANCE OffsetLedger WITH
    arrived <- [p \in Partitions |-> LogEnd(p)],
    settled <- [p \in Partitions |-> received[p] \cup dropped[p] \cup passed[p]]

LedgerImplemented == Ledger!LedgerSpec

\* outbound.py's "at-least-once, never at-most-once", with the conditions under
\* which it does hold: no submit_candidates call runs out of attempts and the
\* group has an offset.  Failing commits, crashes and rebalances are allowed.
ForwardedBeforeCommit ==
    "post" \notin Faults =>
        \A p \in Partitions \ Fresh : \A o \in 0 .. committed[p] - 1 : o \in received[p]

\* What a crash costs: the candidates the API sees again lie within one batch
\* of the committed offset, because a batch is committed before the next poll.
RedeliveryWithinBatch ==
    Faults \cap {"post", "commit"} = {} =>
        \A p \in Partitions \ Fresh : \A o \in received[p] :
            o < committed[p] + BatchSize

\* "This process never blocks the pipeline": an API that never answers holds a
\* batch for max_retries + 1 attempts and no longer.
PostingEnds == (pc = "posting") ~> (pc \in {"idle", "joining", "down"})

\* Every candidate that reaches the topic is forwarded or given up.
EveryCandidateSettles ==
    \A p \in Partitions : \A o \in 0 .. MaxLog - 1 :
        (LogEnd(p) > o) ~> (o \in received[p] \cup dropped[p] \cup passed[p])
===============================================================================

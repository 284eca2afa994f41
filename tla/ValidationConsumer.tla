-------------------------- MODULE ValidationConsumer --------------------------
(***************************************************************************)
(* services/validation_consumer: reads fen.governance.decisions.v1, writes *)
(* each decision into its named graph by a SPARQL update, publishes an     *)
(* EntityValidated confirmation and commits the record's offset.           *)
(*                                                                         *)
(* One process, one batch at a time; what interleaves with it are the      *)
(* producers of decisions, the I/O thread of its own Kafka producer, the   *)
(* faults of the store and of the broker, crashes and rebalances.          *)
(***************************************************************************)
EXTENDS KafkaGroup

CONSTANTS
    Malformed,    \* payloads GovernanceDecision rejects or whose PIDs do not parse
    NoDocument,   \* value of document_id when the decision carries none
    Faults,       \* which calls may fail, see FaultKinds
    MaxLeaves     \* bound: crashes, stops and rebalances together

FaultKinds == {"update", "publish", "commit", "deliver", "crash", "rebalance"}

ASSUME ValidationConsumerAssumption ==
    /\ Malformed \subseteq Values
    /\ Faults \subseteq FaultKinds
    /\ MaxLeaves \in Nat

VARIABLES
    pc,           \* where the process is
    store,        \* named graphs: the record whose triples each entry holds
    applied,      \* history: offsets whose update reached the store
    handled,      \* history: offsets handle_message returned from
    buffer,       \* confirmations in the producer, not yet acknowledged
    validated,    \* confirmations on dap.entities.validated.v1
    leaves        \* crashes, stops and rebalances so far

vars == <<groupVars, pc, store, applied, handled, buffer, validated, leaves>>

\* D2.2 section 3.5: the unit of update is a named graph, the document's if the
\* decision names a document and the annotation's own otherwise.
NamedGraph(d) ==
    IF d.document_id # NoDocument
    THEN <<"document", d.document_id>>
    ELSE <<"annotation", d.annotation_id>>

Key(d) == <<NamedGraph(d), d.annotation_id>>
Keys == {Key(d) : d \in Values}

NoRecord == << >>
Coordinates == Partitions \X Nat

\* Mutant of Updated: INSERT only where the entry has no status yet.
UpdatedOnce(p, o) ==
    IF store[Key(Record(p, o))] = NoRecord
    THEN [store EXCEPT ![Key(Record(p, o))] = <<p, o>>]
    ELSE store

\* DELETE the entry's triples, INSERT those of the record at offset o of p,
\* within one named graph and for one annotation.
Updated(p, o) == [store EXCEPT ![Key(Record(p, o))] = <<p, o>>]

\* Record(p, next[p]) is the one the batch loop holds.
Past(p) == [next EXCEPT ![p] = @ + 1]

Init ==
    /\ GroupInit
    /\ pc = "down"
    /\ store = [k \in Keys |-> NoRecord]
    /\ applied = [p \in Partitions |-> {}]
    /\ handled = [p \in Partitions |-> {}]
    /\ buffer = {}
    /\ validated = {}
    /\ leaves = 0

-------------------------------------------------------------------------------
\* main(): a fresh consumer and producer; also the container's restart.
Start ==
    /\ pc = "down"
    /\ pc' = "joining"
    /\ UNCHANGED <<groupVars, store, applied, handled, buffer, validated, leaves>>

Assign ==
    /\ pc = "joining"
    /\ Join
    /\ pc' = "idle"
    /\ UNCHANGED <<store, applied, handled, buffer, validated, leaves>>

PollBatch ==
    /\ pc = "idle"
    /\ Poll
    /\ pc' = "handling"
    /\ UNCHANGED <<store, applied, handled, buffer, validated, leaves>>

\* Mutant of ApplyUpdate: apply_update without raise_for_status.
ApplyUnchecked(p) ==
    /\ pc = "handling"
    /\ IsNext(p)
    /\ serving' = p
    /\ pc' = "publishing"
    /\ UNCHANGED <<log, committed, position, next, historyVars,
                   store, applied, handled, buffer, validated, leaves>>

\* handle_decision succeeds: the payload validates and the store accepts the
\* update.
ApplyUpdate(p) ==
    /\ pc = "handling"
    /\ IsNext(p)
    /\ Record(p, next[p]) \notin Malformed
    /\ store' = Updated(p, next[p])
    /\ applied' = [applied EXCEPT ![p] = @ \cup {next[p]}]
    /\ serving' = p
    /\ pc' = "publishing"
    /\ UNCHANGED <<log, committed, position, next, historyVars,
                   handled, buffer, validated, leaves>>

\* handle_decision raises.  A malformed decision raises before the request; a
\* failed request may still have reached the store (the reply was lost).  The
\* cycle returns without committing.
HandleFails(p) ==
    /\ pc = "handling"
    /\ IsNext(p)
    /\ \/ /\ Record(p, next[p]) \in Malformed
          /\ UNCHANGED <<store, applied>>
       \/ /\ "update" \in Faults
          /\ Record(p, next[p]) \notin Malformed
          /\ \/ UNCHANGED <<store, applied>>
             \/ /\ store' = Updated(p, next[p])
                /\ applied' = [applied EXCEPT ![p] = @ \cup {next[p]}]
    /\ Abandon(next)
    /\ pc' = "idle"
    /\ UNCHANGED <<committed, handled, buffer, validated, leaves>>

\* send() hands the confirmation to the producer and returns; nobody waits for
\* the acknowledgement.
Publish(p) ==
    /\ pc = "publishing"
    /\ IsNext(p)
    /\ buffer' = buffer \cup {<<p, next[p]>>}
    /\ handled' = [handled EXCEPT ![p] = @ \cup {next[p]}]
    /\ pc' = "committing"
    /\ UNCHANGED <<groupVars, store, applied, validated, leaves>>

\* send() itself raises (no metadata, buffer full): the cycle returns.
PublishFails(p) ==
    /\ pc = "publishing"
    /\ IsNext(p)
    /\ "publish" \in Faults
    /\ Abandon(next)
    /\ pc' = "idle"
    /\ UNCHANGED <<committed, store, applied, handled, buffer, validated, leaves>>

Commit(p) ==
    /\ pc = "committing"
    /\ IsNext(p)
    /\ CommitOffsets(Past(p))
    /\ pc' = IF \E q \in Partitions : Past(p)[q] < position[q] THEN "handling" ELSE "idle"
    /\ UNCHANGED <<store, applied, handled, buffer, validated, leaves>>

\* commit() raises: outside the try of process_cycle, so the rest of the batch
\* is lost with the cycle.  The broker may have recorded the offset anyway.
CommitFails(p) ==
    /\ pc = "committing"
    /\ IsNext(p)
    /\ "commit" \in Faults
    /\ committed' \in {committed, Committing(Past(p))}
    /\ Abandon(Past(p))
    /\ pc' = "idle"
    /\ UNCHANGED <<store, applied, handled, buffer, validated, leaves>>

-------------------------------------------------------------------------------
\* The producer's I/O thread: the broker acknowledges a confirmation, or the
\* errback logs that it never will.
Deliver(r) ==
    /\ pc # "down"
    /\ r \in buffer
    /\ buffer' = buffer \ {r}
    /\ validated' = validated \cup {r}
    /\ UNCHANGED <<groupVars, pc, store, applied, handled, leaves>>

DeliverFails(r) ==
    /\ "deliver" \in Faults
    /\ pc # "down"
    /\ r \in buffer
    /\ buffer' = buffer \ {r}
    /\ UNCHANGED <<groupVars, pc, store, applied, handled, validated, leaves>>

\* SIGTERM only sets an event, which the main loop tests between cycles.
StopRequested ==
    /\ pc = "idle"
    /\ leaves < MaxLeaves
    /\ leaves' = leaves + 1
    /\ pc' = "stopping"
    /\ UNCHANGED <<groupVars, store, applied, handled, buffer, validated>>

\* Mutant of Close: no flush.
CloseUnflushed ==
    /\ pc = "stopping"
    /\ Leave
    /\ buffer' = {}
    /\ pc' = "down"
    /\ UNCHANGED <<store, applied, handled, validated, leaves>>

\* finally: producer.flush() returns once nothing is outstanding, then
\* consumer.close().
Close ==
    /\ pc = "stopping"
    /\ buffer = {}
    /\ Leave
    /\ pc' = "down"
    /\ UNCHANGED <<store, applied, handled, buffer, validated, leaves>>

\* The process dies; the producer's buffer dies with it.
Crash ==
    /\ "crash" \in Faults
    /\ pc # "down"
    /\ leaves < MaxLeaves
    /\ leaves' = leaves + 1
    /\ Leave
    /\ buffer' = {}
    /\ pc' = "down"
    /\ UNCHANGED <<store, applied, handled, validated>>

\* The coordinator takes the partitions away and gives them back, inside poll().
Rebalance ==
    /\ "rebalance" \in Faults
    /\ pc = "idle"
    /\ leaves < MaxLeaves
    /\ leaves' = leaves + 1
    /\ Leave
    /\ pc' = "joining"
    /\ UNCHANGED <<store, applied, handled, buffer, validated>>

\* The webhook publishes a decision without a key: any partition.
DecisionArrives(p, v) ==
    /\ Produce(p, v)
    /\ UNCHANGED <<pc, store, applied, handled, buffer, validated, leaves>>

-------------------------------------------------------------------------------
HandleStep(p) == ApplyUpdate(p) \/ HandleFails(p)
PublishStep(p) == Publish(p) \/ PublishFails(p)
CommitStep(p) == Commit(p) \/ CommitFails(p)
DeliverStep(r) == Deliver(r) \/ DeliverFails(r)

OwnStep ==
    \/ Start
    \/ Assign
    \/ PollBatch
    \/ \E p \in Partitions : HandleStep(p) \/ PublishStep(p) \/ CommitStep(p)
    \/ \E r \in buffer : DeliverStep(r)
    \/ StopRequested
    \/ Close
    \/ Crash
    \/ Rebalance

Next ==
    \/ OwnStep
    \/ \E p \in Partitions, v \in Values : DecisionArrives(p, v)

Spec == Init /\ [][Next]_vars

\* The process takes its own steps (the loop never exits, every call has a
\* timeout, the container is restarted) and the producer resolves what it
\* holds.  Arrivals, stops, crashes and rebalances are not promised.
Fairness ==
    /\ WF_vars(Start)
    /\ WF_vars(Assign)
    /\ WF_vars(PollBatch)
    /\ WF_vars(\E p \in Partitions : HandleStep(p))
    /\ WF_vars(\E p \in Partitions : PublishStep(p))
    /\ WF_vars(\E p \in Partitions : CommitStep(p))
    /\ WF_vars(\E r \in buffer : DeliverStep(r))
    /\ WF_vars(Close)

FairSpec == Spec /\ Fairness

-------------------------------------------------------------------------------
TypeOK ==
    /\ GroupTypeOK
    /\ pc \in {"down", "joining", "idle", "handling", "publishing", "committing",
               "stopping"}
    /\ store \in [Keys -> Coordinates \cup {NoRecord}]
    /\ applied \in [Partitions -> SUBSET Nat]
    /\ handled \in [Partitions -> SUBSET Nat]
    /\ buffer \subseteq Coordinates
    /\ validated \subseteq Coordinates
    /\ leaves \in Nat

\* Where a committed offset can have come from: the record was processed to the
\* end, or a failed cycle dropped it, or a reset to "latest" skipped it.  This
\* is the exact loss of process_cycle + commit_offsets under every fault.
CommittedAccounted ==
    \A p \in Partitions : \A o \in 0 .. committed[p] - 1 :
        o \in handled[p] \cup dropped[p] \cup passed[p]

NoFailedCycle ==
    /\ \A p \in Partitions : \A i \in DOMAIN log[p] : log[p][i] \notin Malformed
    /\ Faults \cap {"update", "publish", "commit"} = {}

\* At-least-once as kafka_io.py promises it, with the conditions under which it
\* does hold: cycles that never fail (no call fails and no record is malformed)
\* and a group that already has an offset.
\* Crashes, rebalances and lost confirmations are allowed.
AtLeastOnce ==
    NoFailedCycle =>
        \A p \in Partitions \ Fresh : \A o \in 0 .. committed[p] - 1 : o \in handled[p]

\* What a crash costs: per partition only the record being committed can be
\* processed a second time, because every record is committed on its own.
OneRecordRedelivered ==
    NoFailedCycle =>
        \A p \in Partitions \ Fresh : \A o \in handled[p] :
            o < committed[p] \/ o = committed[p]

\* A redelivery never takes the graph back behind what is committed: the entry
\* of a key last written from partition p holds its newest committed record.
StoreNotBehindCommit ==
    NoFailedCycle =>
        \A p \in Partitions : \A k \in Keys :
            (store[k] # NoRecord /\ store[k][1] = p) =>
                \A o \in applied[p] :
                    (o < committed[p] /\ Key(Record(p, o)) = k) => o <= store[k][2]

\* EntityValidated is published only after the graph holds the decision: a
\* consumer of the confirmation that reads the store finds an applied decision.
ConfirmationAfterUpdate ==
    \A r \in buffer \cup validated : r[2] \in applied[r[1]]

\* A clean stop leaves no confirmation behind: every committed record that was
\* processed is confirmed on the topic, when only stops interrupt the process.
CleanStopConfirms ==
    (Faults \cap {"crash", "deliver"} = {} /\ pc = "down") =>
        \A p \in Partitions : \A o \in handled[p] : <<p, o>> \in validated

\* The committed offset of a partition never moves back.
CommittedMonotone ==
    [][\A p \in Partitions : committed'[p] >= committed[p]]_vars

\* The consumer keeps OffsetLedger, with a record settled by being handled, by
\* falling to a failed cycle or by being passed over for want of an offset: none
\* is left out between two that are settled, and no offset is committed for one
\* that is not, through every failing call, crash and rebalance.
Ledger == INSTANCE OffsetLedger WITH
    arrived <- [p \in Partitions |-> LogEnd(p)],
    settled <- [p \in Partitions |-> handled[p] \cup dropped[p] \cup passed[p]]

LedgerImplemented == Ledger!LedgerSpec

\* Every record that reaches the topic is disposed of: nothing, a malformed
\* payload included, stops the loop for good ("no blocking points").
EveryRecordSettles ==
    \A p \in Partitions : \A o \in 0 .. MaxLog - 1 :
        (LogEnd(p) > o) ~> (o \in handled[p] \cup dropped[p] \cup passed[p])

\* main.py:82-84: "the failed message, and anything after it in the batch,
\* stays uncommitted and is redelivered".
FailedStaysUncommitted ==
    \A p \in Partitions : \A o \in dropped[p] \ handled[p] : o >= committed[p]
===============================================================================

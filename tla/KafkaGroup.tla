------------------------------ MODULE KafkaGroup ------------------------------
(***************************************************************************)
(* One member of a Kafka consumer group, as services/common/kafka_io.py    *)
(* drives it: manual commits, auto_offset_reset = "latest", batches of at  *)
(* most batch_size records.  The two consuming processes of the pipeline   *)
(* (ValidationConsumer and Outbound) extend this module and add what they  *)
(* do with a batch.                                                        *)
(*                                                                         *)
(* Offsets count from 0; the record at offset o of partition p is          *)
(* log[p][o + 1].  Three cursors matter and they are different things:     *)
(*   committed  what the broker keeps for the group, survives a crash      *)
(*   position   the next offset poll() will fetch, memory of the process   *)
(*   next       the next record of the polled batch still to be processed  *)
(* kafka-python moves position when poll() returns and never moves it back *)
(* by itself: a batch that was polled and not committed is fetched again   *)
(* only after a rebalance or a restart, from committed.                    *)
(***************************************************************************)
EXTENDS Integers, Sequences, FiniteSets

CONSTANTS
    Partitions,   \* partitions of the consumed topic
    Fresh,        \* those for which the group starts with no committed offset
    Values,       \* decoded payloads
    BatchSize,    \* config.batch_size, passed to poll() as max_records
    MaxLog        \* bound: records per partition

ASSUME KafkaGroupAssumption ==
    /\ IsFiniteSet(Partitions)
    /\ Fresh \subseteq Partitions
    /\ BatchSize \in Nat \ {0}
    /\ MaxLog \in Nat

VARIABLES
    log,          \* broker: the records of each partition
    committed,    \* broker: committed offset of the group, or NoOffset
    position,     \* client: fetch position, NoOffset while not assigned
    next,         \* client: next offset of the current batch to process
    serving,      \* client: the partition the batch loop is in
    polled,       \* history: offsets poll() has handed to the process
    dropped,      \* history: offsets that left memory because a cycle failed
    passed        \* history: offsets skipped by a reset to "latest"

groupVars == <<log, committed, position, next, serving, polled, dropped, passed>>
historyVars == <<polled, dropped, passed>>

NoOffset == -1
Offset == Nat \cup {NoOffset}

LogEnd(p) == Len(log[p])
Record(p, o) == log[p][o + 1]
Pending(p) == next[p] .. position[p] - 1
BatchEmpty == \A p \in Partitions : Pending(p) = {}

\* The batch lists the records partition by partition: the loop stays in one
\* partition until its records are used up.
IsNext(p) ==
    /\ Pending(p) # {}
    /\ Pending(serving) # {} => p = serving

GroupInit ==
    /\ log = [p \in Partitions |-> << >>]
    /\ committed = [p \in Partitions |-> IF p \in Fresh THEN NoOffset ELSE 0]
    /\ position = [p \in Partitions |-> NoOffset]
    /\ next = [p \in Partitions |-> NoOffset]
    /\ serving \in Partitions
    /\ polled = [p \in Partitions |-> {}]
    /\ dropped = [p \in Partitions |-> {}]
    /\ passed = [p \in Partitions |-> {}]

\* A producer somewhere appends a record.
Produce(p, v) ==
    /\ LogEnd(p) < MaxLog
    /\ log' = [log EXCEPT ![p] = Append(@, v)]
    /\ UNCHANGED <<committed, position, next, serving, historyVars>>

\* Mutants of StartOffset: auto_offset_reset = "earliest" with no group id; a
\* client that resumes at the record before the committed offset.
StartAtEarliest(p) == 0
StartOneBefore(p) == committed[p] - 1

\* The fetch positions are resolved inside the first poll() after an
\* assignment: the committed offset, or the end of the log where there is none.
StartOffset(p) == IF committed[p] = NoOffset THEN LogEnd(p) ELSE committed[p]

Join ==
    /\ position' = [p \in Partitions |-> StartOffset(p)]
    /\ next' = position'
    /\ passed' = [p \in Partitions |->
                    IF committed[p] = NoOffset
                    THEN passed[p] \cup 0 .. LogEnd(p) - 1
                    ELSE passed[p]]
    /\ UNCHANGED <<log, committed, serving, polled, dropped>>

\* Mutant of Leave: auto-commit on close and on rebalance.
LeaveCommitting ==
    /\ committed' = [p \in Partitions |->
                        IF position[p] = NoOffset THEN committed[p] ELSE position[p]]
    /\ position' = [p \in Partitions |-> NoOffset]
    /\ next' = position'
    /\ UNCHANGED <<log, serving, historyVars>>

\* The member loses its assignment and with it everything it had in memory.
Leave ==
    /\ position' = [p \in Partitions |-> NoOffset]
    /\ next' = position'
    /\ UNCHANGED <<log, committed, serving, historyVars>>

\* poll(max_records = batch_size) returns between one and batch_size records,
\* in offset order within each partition.  A poll that returns nothing or
\* raises yields an empty batch and changes nothing.
Poll ==
    /\ BatchEmpty
    /\ \E upto \in [Partitions -> 0 .. MaxLog] :
        /\ \A p \in Partitions : upto[p] \in position[p] .. LogEnd(p)
        /\ Cardinality({r \in Partitions \X (0 .. MaxLog) :
                          r[2] \in position[r[1]] .. upto[r[1]] - 1}) \in 1 .. BatchSize
        /\ position' = upto
        /\ polled' = [p \in Partitions |->
                        polled[p] \cup position[p] .. upto[p] - 1]
        /\ serving' \in {p \in Partitions : upto[p] > position[p]}
    /\ UNCHANGED <<log, committed, next, dropped, passed>>

\* Mutants of Committing: the consumer's position instead of the records'
\* offsets; only once the whole batch is done; only the first record.
CommittingPosition(upto) ==
    [p \in Partitions |-> IF position[p] > next[p] THEN position[p] ELSE committed[p]]
CommittingAtBatchEnd(upto) ==
    [p \in Partitions |-> IF upto[p] = position[p] THEN upto[p] ELSE committed[p]]
CommittingFirst(upto) ==
    [p \in Partitions |-> IF upto[p] > next[p] THEN next[p] + 1 ELSE committed[p]]

\* commit_offsets(records): offset + 1 of the last of the records of each
\* partition; here the records are those from next[p] up to upto[p].
Committing(upto) ==
    [p \in Partitions |-> IF upto[p] > next[p] THEN upto[p] ELSE committed[p]]

CommitOffsets(upto) ==
    /\ committed' = Committing(upto)
    /\ next' = upto
    /\ UNCHANGED <<log, position, serving, historyVars>>

\* Mutant of Abandon: the batch is kept in memory for a retry nobody makes.
AbandonKeeping(upto) ==
    /\ next' = upto
    /\ UNCHANGED <<log, position, serving, historyVars>>

\* A failed cycle: the records from upto on leave memory unprocessed.  Nothing
\* seeks back, so the following poll() continues behind them.
Abandon(upto) ==
    /\ dropped' = [p \in Partitions |-> dropped[p] \cup upto[p] .. position[p] - 1]
    /\ next' = position
    /\ UNCHANGED <<log, position, serving, polled, passed>>

-------------------------------------------------------------------------------
GroupTypeOK ==
    /\ log \in [Partitions -> Seq(Values)]
    /\ committed \in [Partitions -> Offset]
    /\ position \in [Partitions -> Offset]
    /\ next \in [Partitions -> Offset]
    /\ serving \in Partitions
    /\ polled \in [Partitions -> SUBSET Nat]
    /\ dropped \in [Partitions -> SUBSET Nat]
    /\ passed \in [Partitions -> SUBSET Nat]

\* Offsets below this one have been disposed of, one way or another.
Frontier(p) == IF next[p] = NoOffset THEN committed[p] ELSE next[p]
===============================================================================

----------------------- MODULE ValidationConsumerProofs -----------------------
(***************************************************************************)
(* Proofs about ValidationConsumer for every topic, batch size, fault set  *)
(* and number of restarts: type correctness, the exact loss accounting,    *)
(* at-least-once under its conditions, what a malformed record takes with  *)
(* it, that commits never move back, and that the consumer implements      *)
(* OffsetLedger.                                                           *)
(***************************************************************************)
EXTENDS ValidationConsumer, KafkaGroupProofs

Joined == pc \notin {"down", "joining"}

\* The cursors are ordered while the member is assigned and absent otherwise.
CursorsOK ==
    \A p \in Partitions :
        /\ committed[p] <= LogEnd(p)
        /\ ~Joined => position[p] = NoOffset /\ next[p] = NoOffset
        /\ Joined => /\ 0 <= next[p]
                     /\ committed[p] <= next[p]
                     /\ next[p] <= position[p]
                     /\ position[p] <= LogEnd(p)
        /\ pc \in {"idle", "stopping"} => next[p] = position[p]

\* While a record is being published or committed it is the one at next, in the
\* partition the loop serves.
CurrentOK ==
    /\ pc \in {"publishing", "committing"} => next[serving] < position[serving]
    /\ pc = "committing" => next[serving] \in handled[serving]

\* Everything below the frontier has been disposed of.
FrontierAccounted ==
    \A p \in Partitions : \A o \in Nat :
        o < Frontier(p) => o \in handled[p] \cup dropped[p] \cup passed[p]

\* Only a failed cycle drops, only a missing offset skips.
LossesExplained ==
    \A p \in Partitions :
        /\ NoFailedCycle => dropped[p] = {}
        /\ p \notin Fresh => committed[p] # NoOffset /\ passed[p] = {}

\* The inductive invariant: the types, what orders the cursors, and what became of
\* the records behind them.
IInv ==
    /\ TypeOK
    /\ CursorsOK
    /\ CurrentOK
    /\ FrontierAccounted
    /\ LossesExplained

\* An assigned member's cursors are natural numbers, not the missing offset.
LEMMA AssignedCursors ==
    ASSUME TypeOK, CursorsOK, Joined
    PROVE  \A p \in Partitions : next[p] \in Nat /\ position[p] \in Nat
  BY DEF TypeOK, GroupTypeOK, CursorsOK, Offset, NoOffset

\* The offset past the current record, in the partition it is in, is one more.
LEMMA PastTyped ==
    ASSUME TypeOK, CursorsOK, Joined, NEW p \in Partitions
    PROVE  /\ Past(p) \in [Partitions -> Nat]
           /\ next \in [Partitions -> Nat]
           /\ Past(p)[p] = next[p] + 1
           /\ \A q \in Partitions \ {p} : Past(p)[q] = next[q]
  BY AssignedCursors DEF TypeOK, GroupTypeOK, Past

\* Applying a record to its named graph keeps the types.
LEMMA UpdatedTyped ==
    ASSUME TypeOK, NEW p \in Partitions, NEW o \in Nat
    PROVE  /\ Updated(p, o) \in [Keys -> Coordinates \cup {NoRecord}]
           /\ [applied EXCEPT ![p] = @ \cup {o}] \in [Partitions -> SUBSET Nat]
  BY DEF TypeOK, Updated, Coordinates

\* The invariant holds before the process is first started.
LEMMA InitIInv == Init => IInv
  BY KafkaGroupAssumption, ValidationConsumerAssumption
     DEF Init, GroupInit, IInv, TypeOK, GroupTypeOK, CursorsOK, CurrentOK, FrontierAccounted,
         LossesExplained, Joined, Frontier, LogEnd, NoOffset, Offset, NoRecord, Coordinates

\* The log only grows, so a malformed record that is not there now never was.
LEMMA NoFailedCycleBefore ==
    ASSUME TypeOK, [Next]_vars, NoFailedCycle' PROVE NoFailedCycle
<1>1. CASE UNCHANGED log
  BY <1>1 DEF NoFailedCycle
<1>2. ASSUME NEW p \in Partitions, NEW v \in Values, DecisionArrives(p, v) PROVE NoFailedCycle
  <2>1. log \in [Partitions -> Seq(Values)] /\ log' = [log EXCEPT ![p] = Append(@, v)]
    BY <1>2 DEF TypeOK, GroupTypeOK, DecisionArrives, Produce
  <2>2. ASSUME NEW q \in Partitions, NEW i \in DOMAIN log[q]
        PROVE  i \in DOMAIN log'[q] /\ log'[q][i] = log[q][i]
    BY <2>1
  <2> QED
    BY <2>2 DEF NoFailedCycle
<1>3. UNCHANGED log \/ \E p \in Partitions, v \in Values : DecisionArrives(p, v)
  BY DEF Next, OwnStep, vars, groupVars, historyVars, Start, Assign, Join, PollBatch, Poll,
         HandleStep, ApplyUpdate, HandleFails, Abandon, PublishStep, Publish, PublishFails,
         CommitStep, Commit, CommitOffsets, CommitFails, DeliverStep, Deliver, DeliverFails,
         StopRequested, Close, Crash, Rebalance, Leave
<1> QED
  BY <1>1, <1>2, <1>3

\* handle_decision raises only for a malformed record or a failing store.
LEMMA NoFailingStep ==
    ASSUME TypeOK, CursorsOK, NEW p \in Partitions, HandleFails(p) PROVE ~NoFailedCycle
<1>1. next[p] + 1 \in DOMAIN log[p]
  <2>1. next[p] \in Nat /\ position[p] \in Nat /\ log[p] \in Seq(Values) /\ Joined
    BY AssignedCursors DEF TypeOK, GroupTypeOK, HandleFails, Joined
  <2>2. next[p] < position[p] /\ position[p] <= LogEnd(p)
    BY <2>1, IsNextBelowPosition DEF HandleFails, CursorsOK, TypeOK
  <2> QED
    BY <2>1, <2>2 DEF LogEnd
<1> QED
  BY <1>1 DEF HandleFails, NoFailedCycle, Record

\* Steps that touch neither the log nor a cursor nor what was lost: they can
\* disturb the invariant only in what the process is about to do.
LEMMA UntouchedCursors ==
    ASSUME IInv, UNCHANGED <<log, committed, position, next, dropped, passed>>,
           \A p \in Partitions : handled[p] \subseteq handled'[p],
           Joined' <=> Joined,
           pc' \in {"idle", "stopping"} => pc \in {"idle", "stopping"}
    PROVE  CursorsOK' /\ FrontierAccounted' /\ LossesExplained'
<1>1. CursorsOK'
  BY DEF IInv, CursorsOK, LogEnd
<1>2. FrontierAccounted'
  <2> SUFFICES ASSUME NEW p \in Partitions, NEW o \in Nat, o < Frontier(p)
               PROVE  o \in handled'[p] \cup dropped[p] \cup passed[p]
    BY DEF FrontierAccounted, Frontier
  <2> QED
    BY DEF IInv, FrontierAccounted
<1>3. LossesExplained'
  BY DEF IInv, LossesExplained, NoFailedCycle
<1> QED
  BY <1>1, <1>2, <1>3

\* A failed cycle: where upto ends what was processed, the cursors meet at the
\* fetch position and what lies between is dropped, so nothing below the new
\* frontier is unaccounted for.
LEMMA FailedCycle ==
    ASSUME IInv, Joined, NEW upto \in [Partitions -> Nat], Abandon(upto),
           pc' = "idle", handled' = handled, committed' \in [Partitions -> Offset],
           \A q \in Partitions : /\ committed'[q] <= upto[q]
                                 /\ upto[q] <= position[q]
                                 /\ \A o \in next[q] .. upto[q] - 1 : o \in handled[q]
    PROVE  GroupTypeOK' /\ CursorsOK' /\ CurrentOK' /\ FrontierAccounted'
<1> USE DEF IInv, LogEnd, NoOffset
<1>1. \A q \in Partitions : next[q] \in Nat /\ position[q] \in Nat /\ LogEnd(q) \in Nat
  BY AssignedCursors DEF TypeOK, GroupTypeOK
<1>2. /\ log' = log /\ position' = position /\ next' = position /\ passed' = passed
      /\ \A q \in Partitions : dropped'[q] = dropped[q] \cup upto[q] .. position[q] - 1
  BY DEF Abandon
<1>3. GroupTypeOK'
  BY <1>1, AbandonTyped DEF TypeOK
<1>4. CursorsOK'
  <2>1. ASSUME NEW q \in Partitions
        PROVE  committed'[q] <= position[q] /\ 0 <= position[q] /\ position[q] <= LogEnd(q)
    <3>1. committed'[q] \in Int /\ upto[q] \in Nat
      BY DEF Offset
    <3> QED
      BY <1>1, <3>1 DEF CursorsOK
  <2>2. Joined' /\ pc' # "down"
    BY DEF Joined
  <2>3. \A q \in Partitions : LogEnd(q)' = LogEnd(q)
    BY <1>2
  <2>4. \A q \in Partitions : committed'[q] <= LogEnd(q)
    BY <1>1, <2>1 DEF Offset
  <2> HIDE DEF LogEnd, IInv, NoOffset
  <2>5. \A q \in Partitions : next'[q] = position'[q] /\ position'[q] = position[q]
    BY <1>2
  <2> QED
    BY <1>1, <2>1, <2>2, <2>3, <2>4, <2>5 DEF CursorsOK
<1>5. FrontierAccounted'
  <2> SUFFICES ASSUME NEW q \in Partitions, NEW o \in Nat, o < position[q]
               PROVE  o \in handled[q] \cup dropped'[q] \cup passed[q]
    BY <1>1, <1>2 DEF FrontierAccounted, Frontier
  <2>1. CASE o < next[q]
    BY <1>1, <1>2, <2>1 DEF FrontierAccounted, Frontier
  <2>2. CASE next[q] <= o /\ o < upto[q]
    BY <1>1, <2>2
  <2>3. CASE upto[q] <= o
    BY <1>1, <1>2, <2>3
  <2> QED
    BY <1>1, <2>1, <2>2, <2>3
<1> QED
  BY <1>3, <1>4, <1>5 DEF CurrentOK

\* Losing the assignment, in a stop, a crash or a rebalance: the frontier falls
\* back to the committed offset, which never was ahead of it.
LEMMA LostAssignment ==
    ASSUME IInv, Leave, pc' \in {"down", "joining"}, handled' = handled
    PROVE  GroupTypeOK' /\ CursorsOK' /\ CurrentOK' /\ FrontierAccounted' /\ LossesExplained'
<1> USE DEF IInv, LogEnd, NoOffset
<1>1. /\ GroupTypeOK'
      /\ \A p \in Partitions : position'[p] = NoOffset /\ next'[p] = NoOffset
      /\ log' = log /\ committed' = committed /\ dropped' = dropped /\ passed' = passed
  BY LeaveTyped DEF TypeOK
<1>2. CursorsOK'
  BY <1>1 DEF CursorsOK, Joined
<1>3. FrontierAccounted'
  <2> SUFFICES ASSUME NEW p \in Partitions, NEW o \in Nat, o < committed[p]
               PROVE  o \in handled[p] \cup dropped[p] \cup passed[p]
    BY <1>1 DEF FrontierAccounted, Frontier
  <2>1. committed[p] \in Int /\ next[p] \in Int
    BY DEF TypeOK, GroupTypeOK, Offset
  <2>2. next[p] # NoOffset => committed[p] <= next[p]
    BY DEF CursorsOK
  <2> QED
    BY <2>1, <2>2 DEF FrontierAccounted, Frontier
<1>4. LossesExplained'
  BY <1>1 DEF LossesExplained, NoFailedCycle
<1> QED
  BY <1>1, <1>2, <1>3, <1>4 DEF CurrentOK

\* Every step keeps the invariant: one step of the proof per action, one leaf per
\* conjunct.
LEMMA NextIInv == IInv /\ [Next]_vars => IInv'
<1> SUFFICES ASSUME IInv, [Next]_vars PROVE IInv'
  OBVIOUS
<1> USE DEF IInv, LogEnd, NoOffset, groupVars, historyVars
<1>1. CASE Start
  <2>1. /\ UNCHANGED <<log, committed, position, next, dropped, passed>>
        /\ \A q \in Partitions : handled[q] \subseteq handled'[q]
        /\ Joined' <=> Joined
        /\ pc' \in {"idle", "stopping"} => pc \in {"idle", "stopping"}
    BY <1>1 DEF Start, Joined
  <2>2. TypeOK'
    BY <1>1 DEF Start, TypeOK, GroupTypeOK
  <2>3. CurrentOK'
    BY <1>1 DEF Start, CurrentOK
  <2> QED
    BY <2>1, <2>2, <2>3, UntouchedCursors
<1>2. CASE Assign
  <2>1. /\ GroupTypeOK'
        /\ \A p \in Partitions : position'[p] = StartOffset(p) /\ next'[p] = StartOffset(p)
    BY <1>2, JoinTyped DEF Assign, TypeOK
  <2>2. ~Joined /\ Joined' /\ \A p \in Partitions : next[p] = NoOffset
    BY <1>2 DEF Assign, Joined, CursorsOK
  <2>3. TypeOK'
    BY <1>2, <2>1 DEF Assign, Join, TypeOK
  <2>4. CursorsOK'
    BY <1>2, <2>1 DEF Assign, Join, StartOffset, TypeOK, GroupTypeOK, Offset, CursorsOK, Joined
  <2>5. FrontierAccounted'
    BY <1>2, <2>1, <2>2
       DEF Assign, Join, StartOffset, TypeOK, GroupTypeOK, Offset, FrontierAccounted, Frontier
  <2>6. LossesExplained'
    BY <1>2 DEF Assign, Join, TypeOK, GroupTypeOK, LossesExplained, NoFailedCycle
  <2> QED
    BY <1>2, <2>3, <2>4, <2>5, <2>6 DEF Assign, CurrentOK
<1>3. CASE PollBatch
  <2>1. Joined /\ \A p \in Partitions : position[p] \in Nat
    BY <1>3, AssignedCursors DEF PollBatch, Joined
  <2>2. /\ GroupTypeOK'
        /\ \A p \in Partitions : position[p] <= position'[p] /\ position'[p] <= LogEnd(p)
        /\ UNCHANGED <<log, committed, next, dropped, passed>>
    BY <1>3, <2>1, PollTyped DEF PollBatch, TypeOK
  <2>3. TypeOK'
    BY <1>3, <2>2 DEF PollBatch, TypeOK
  <2>4. CursorsOK'
    BY <1>3, <2>1, <2>2 DEF PollBatch, TypeOK, GroupTypeOK, Offset, CursorsOK, Joined
  <2>5. FrontierAccounted'
    BY <1>3, <2>2 DEF PollBatch, FrontierAccounted, Frontier
  <2>6. LossesExplained'
    BY <2>2 DEF LossesExplained, NoFailedCycle
  <2> QED
    BY <1>3, <2>3, <2>4, <2>5, <2>6 DEF PollBatch, CurrentOK
<1>4. ASSUME NEW p \in Partitions, ApplyUpdate(p) PROVE IInv'
  <2>1. /\ UNCHANGED <<log, committed, position, next, dropped, passed>>
        /\ \A q \in Partitions : handled[q] \subseteq handled'[q]
        /\ Joined' <=> Joined
        /\ pc' \in {"idle", "stopping"} => pc \in {"idle", "stopping"}
    BY <1>4 DEF ApplyUpdate, Joined
  <2>2. TypeOK'
    <3>1. next[p] \in Nat
      BY <1>4, AssignedCursors DEF ApplyUpdate, Joined
    <3> QED
      BY <1>4, <3>1, UpdatedTyped DEF ApplyUpdate, TypeOK, GroupTypeOK
  <2>3. CurrentOK'
    <3>1. next[p] < position[p] /\ (next[serving] < position[serving] => p = serving)
      BY <1>4, IsNextBelowPosition DEF ApplyUpdate, TypeOK
    <3> QED
      BY <1>4, <3>1 DEF ApplyUpdate, CurrentOK, TypeOK, GroupTypeOK
  <2> QED
    BY <2>1, <2>2, <2>3, UntouchedCursors
<1>5. ASSUME NEW p \in Partitions, HandleFails(p) PROVE IInv'
  <2>1. Joined /\ next[p] \in Nat /\ next \in [Partitions -> Nat]
    BY <1>5, AssignedCursors, PastTyped DEF HandleFails, Joined
  <2>2. /\ Abandon(next) /\ pc' = "idle"
        /\ UNCHANGED <<committed, handled, buffer, validated, leaves>>
    BY <1>5 DEF HandleFails
  <2>3. \A q \in Partitions : /\ committed[q] <= next[q] /\ next[q] <= position[q]
                              /\ next[q] .. next[q] - 1 = {}
    BY <2>1 DEF CursorsOK
  <2>4. GroupTypeOK' /\ CursorsOK' /\ CurrentOK' /\ FrontierAccounted'
    <3>1. committed' \in [Partitions -> Offset]
      BY <2>2 DEF TypeOK, GroupTypeOK
    <3> QED
      BY <2>1, <2>2, <2>3, <3>1, FailedCycle
  <2>5. TypeOK'
    <3>1. /\ store' \in [Keys -> Coordinates \cup {NoRecord}]
          /\ applied' \in [Partitions -> SUBSET Nat]
      BY <1>5, <2>1, UpdatedTyped DEF HandleFails, TypeOK
    <3> QED
      BY <2>2, <2>4, <3>1 DEF TypeOK
  <2>6. ~NoFailedCycle
    BY <1>5, NoFailingStep
  <2>7. LossesExplained'
    BY <2>2, <2>6 DEF Abandon, LossesExplained, NoFailedCycle
  <2> QED
    BY <2>4, <2>5, <2>7
<1>6. ASSUME NEW p \in Partitions, Publish(p) PROVE IInv'
  <2>1. /\ UNCHANGED <<log, committed, position, next, dropped, passed>>
        /\ \A q \in Partitions : handled[q] \subseteq handled'[q]
        /\ Joined' <=> Joined
        /\ pc' \in {"idle", "stopping"} => pc \in {"idle", "stopping"}
    BY <1>6 DEF Publish, Joined, TypeOK
  <2>2. TypeOK'
    <3>1. next[p] \in Nat
      BY <1>6, AssignedCursors DEF Publish, Joined
    <3> QED
      BY <1>6, <3>1 DEF Publish, TypeOK, GroupTypeOK, Coordinates
  <2>3. CurrentOK'
    <3>1. next[p] < position[p] /\ (next[serving] < position[serving] => p = serving)
      BY <1>6, IsNextBelowPosition DEF Publish, TypeOK
    <3> QED
      BY <1>6, <3>1 DEF Publish, CurrentOK, TypeOK, GroupTypeOK
  <2> QED
    BY <2>1, <2>2, <2>3, UntouchedCursors
<1>7. ASSUME NEW p \in Partitions, PublishFails(p) PROVE IInv'
  <2>1. Joined /\ next \in [Partitions -> Nat]
    BY <1>7, AssignedCursors, PastTyped DEF PublishFails, Joined
  <2>2. /\ Abandon(next) /\ pc' = "idle"
        /\ UNCHANGED <<committed, store, applied, handled, buffer, validated, leaves>>
    BY <1>7 DEF PublishFails
  <2>3. \A q \in Partitions : /\ committed[q] <= next[q] /\ next[q] <= position[q]
                              /\ next[q] .. next[q] - 1 = {}
    BY <2>1 DEF CursorsOK
  <2>4. GroupTypeOK' /\ CursorsOK' /\ CurrentOK' /\ FrontierAccounted'
    <3>1. committed' \in [Partitions -> Offset]
      BY <2>2 DEF TypeOK, GroupTypeOK
    <3> QED
      BY <2>1, <2>2, <2>3, <3>1, FailedCycle
  <2>5. TypeOK'
    BY <2>2, <2>4 DEF TypeOK
  <2>6. ~NoFailedCycle
    BY <1>7 DEF PublishFails, NoFailedCycle
  <2>7. LossesExplained'
    BY <2>2, <2>6 DEF Abandon, LossesExplained, NoFailedCycle
  <2> QED
    BY <2>4, <2>5, <2>7
<1>8. ASSUME NEW p \in Partitions, Commit(p) PROVE IInv'
  <2>1. Joined /\ \A q \in Partitions : next[q] \in Nat /\ position[q] \in Nat
    BY <1>8, AssignedCursors DEF Commit, Joined
  <2>2. next[p] < position[p] /\ next[p] \in handled[p]
    BY <1>8, IsNextBelowPosition DEF Commit, TypeOK, CurrentOK
  <2>3. /\ Past(p) \in [Partitions -> Nat]
        /\ Past(p)[p] = next[p] + 1
        /\ \A q \in Partitions \ {p} : Past(p)[q] = next[q]
    BY <2>1, PastTyped
  <2>4. /\ Committing(Past(p))[p] = next[p] + 1
        /\ \A q \in Partitions \ {p} : Committing(Past(p))[q] = committed[q]
    BY <2>1, <2>3 DEF Committing
  <2>5. \A q \in Partitions : committed[q] \in Int /\ LogEnd(q) \in Nat
    BY DEF TypeOK, GroupTypeOK, Offset
  <2>6. /\ log' = log /\ position' = position /\ dropped' = dropped /\ passed' = passed
        /\ next' = Past(p) /\ committed' = Committing(Past(p))
        /\ UNCHANGED <<store, applied, handled, buffer, validated, leaves>>
        /\ pc' \in {"handling", "idle"}
        /\ pc' = "idle" => \A q \in Partitions : ~(Past(p)[q] < position[q])
    BY <1>8 DEF Commit, CommitOffsets
  <2>7. TypeOK'
    <3>1. GroupTypeOK'
      BY <1>8, <2>3, CommitOffsetsTyped DEF Commit, TypeOK
    <3> QED
      BY <2>6, <3>1 DEF TypeOK
  <2>8. CursorsOK'
    <3> SUFFICES ASSUME NEW q \in Partitions
                 PROVE  /\ 0 <= next'[q] /\ committed'[q] <= next'[q]
                        /\ next'[q] <= position[q] /\ position[q] <= LogEnd(q)
                        /\ pc' = "idle" => next'[q] = position[q]
      BY <2>1, <2>3, <2>4, <2>5, <2>6 DEF CursorsOK, Joined
    <3>1. CASE q = p
      BY <2>1, <2>2, <2>3, <2>4, <2>5, <2>6, <3>1 DEF CursorsOK
    <3>2. CASE q # p
      BY <2>1, <2>3, <2>4, <2>5, <2>6, <3>2 DEF CursorsOK
    <3> QED
      BY <3>1, <3>2
  <2>9. FrontierAccounted'
    <3> SUFFICES ASSUME NEW q \in Partitions, NEW o \in Nat, o < Past(p)[q]
                 PROVE  o \in handled[q] \cup dropped[q] \cup passed[q]
      BY <2>1, <2>3, <2>6 DEF FrontierAccounted, Frontier
    <3>1. CASE o < next[q]
      BY <2>1, <3>1 DEF FrontierAccounted, Frontier
    <3>2. CASE q = p /\ o = next[p]
      BY <2>2, <3>2
    <3> QED
      BY <2>1, <2>3, <3>1, <3>2
  <2>10. LossesExplained'
    <3>1. \A q \in Partitions : committed'[q] = committed[q] \/ committed'[q] \in Nat
      BY <2>1, <2>4, <2>6
    <3> QED
      BY <2>6, <3>1 DEF LossesExplained, NoFailedCycle
  <2> QED
    BY <2>6, <2>7, <2>8, <2>9, <2>10 DEF CurrentOK
<1>9. ASSUME NEW p \in Partitions, CommitFails(p) PROVE IInv'
  <2>1. Joined /\ \A q \in Partitions : next[q] \in Nat /\ position[q] \in Nat
    BY <1>9, AssignedCursors DEF CommitFails, Joined
  <2>2. next[p] < position[p] /\ next[p] \in handled[p]
    BY <1>9, IsNextBelowPosition DEF CommitFails, TypeOK, CurrentOK
  <2>3. /\ Past(p) \in [Partitions -> Nat]
        /\ Past(p)[p] = next[p] + 1
        /\ \A q \in Partitions \ {p} : Past(p)[q] = next[q]
    BY <2>1, PastTyped
  <2>4. /\ Committing(Past(p))[p] = next[p] + 1
        /\ \A q \in Partitions \ {p} : Committing(Past(p))[q] = committed[q]
    BY <2>1, <2>3 DEF Committing
  <2>5. \A q \in Partitions : committed[q] \in Int /\ LogEnd(q) \in Nat
    BY DEF TypeOK, GroupTypeOK, Offset
  <2>6. /\ Abandon(Past(p)) /\ pc' = "idle"
        /\ UNCHANGED <<store, applied, handled, buffer, validated, leaves>>
        /\ committed' \in {committed, Committing(Past(p))}
    BY <1>9 DEF CommitFails
  <2>7. GroupTypeOK' /\ CursorsOK' /\ CurrentOK' /\ FrontierAccounted'
    <3>1. committed' \in [Partitions -> Offset]
      BY <2>3, <2>6, CommittingTyped DEF TypeOK, GroupTypeOK
    <3>2. ASSUME NEW q \in Partitions
          PROVE  /\ committed'[q] <= Past(p)[q]
                 /\ Past(p)[q] <= position[q]
                 /\ \A o \in next[q] .. Past(p)[q] - 1 : o \in handled[q]
      <4>1. CASE q = p
        BY <2>1, <2>2, <2>3, <2>4, <2>5, <2>6, <4>1 DEF CursorsOK
      <4>2. CASE q # p
        BY <2>1, <2>3, <2>4, <2>5, <2>6, <4>2 DEF CursorsOK
      <4> QED
        BY <4>1, <4>2
    <3> QED
      BY <2>1, <2>3, <2>6, <3>1, <3>2, FailedCycle
  <2>8. TypeOK'
    BY <2>6, <2>7 DEF TypeOK
  <2>9. ~NoFailedCycle
    BY <1>9 DEF CommitFails, NoFailedCycle
  <2>10. LossesExplained'
    <3>1. \A q \in Partitions : committed'[q] = committed[q] \/ committed'[q] \in Nat
      BY <2>1, <2>4, <2>6
    <3> QED
      BY <2>6, <2>9, <3>1 DEF Abandon, LossesExplained, NoFailedCycle
  <2> QED
    BY <2>7, <2>8, <2>10
<1>10. ASSUME NEW p \in Partitions, NEW v \in Values, DecisionArrives(p, v) PROVE IInv'
  <2>1. /\ GroupTypeOK'
        /\ \A q \in Partitions : LogEnd(q)' \in Nat /\ LogEnd(q) <= LogEnd(q)'
    BY <1>10, ProduceTyped DEF DecisionArrives, TypeOK
  <2>2. UNCHANGED <<committed, position, next, serving, dropped, passed, pc, handled>>
    BY <1>10 DEF DecisionArrives, Produce
  <2>3. TypeOK'
    BY <1>10, <2>1 DEF DecisionArrives, TypeOK
  <2>4. CursorsOK'
    <3>1. \A q \in Partitions : LogEnd(q) \in Nat /\ committed[q] \in Int /\ position[q] \in Int
      BY DEF TypeOK, GroupTypeOK, Offset
    <3> HIDE DEF LogEnd
    <3> QED
      BY <2>1, <2>2, <3>1 DEF CursorsOK, Joined
  <2>5. FrontierAccounted' /\ CurrentOK'
    BY <2>2 DEF FrontierAccounted, Frontier, CurrentOK
  <2>6. LossesExplained'
    <3>1. NoFailedCycle' => NoFailedCycle
      BY NoFailedCycleBefore
    <3> QED
      BY <2>2, <3>1 DEF LossesExplained
  <2> QED
    BY <2>3, <2>4, <2>5, <2>6
<1>11. ASSUME NEW r \in buffer, DeliverStep(r) PROVE IInv'
  <2>1. /\ UNCHANGED <<log, committed, position, next, dropped, passed>>
        /\ \A q \in Partitions : handled[q] \subseteq handled'[q]
        /\ Joined' <=> Joined
        /\ pc' \in {"idle", "stopping"} => pc \in {"idle", "stopping"}
    BY <1>11 DEF DeliverStep, Deliver, DeliverFails, Joined
  <2>2. TypeOK'
    BY <1>11 DEF DeliverStep, Deliver, DeliverFails, TypeOK, GroupTypeOK
  <2>3. CurrentOK'
    BY <1>11 DEF DeliverStep, Deliver, DeliverFails, CurrentOK
  <2> QED
    BY <2>1, <2>2, <2>3, UntouchedCursors
<1>12. CASE StopRequested
  <2>1. /\ UNCHANGED <<log, committed, position, next, dropped, passed>>
        /\ \A q \in Partitions : handled[q] \subseteq handled'[q]
        /\ Joined' <=> Joined
        /\ pc' \in {"idle", "stopping"} => pc \in {"idle", "stopping"}
    BY <1>12 DEF StopRequested, Joined
  <2>2. TypeOK'
    BY <1>12 DEF StopRequested, TypeOK, GroupTypeOK
  <2>3. CurrentOK'
    BY <1>12 DEF StopRequested, CurrentOK
  <2> QED
    BY <2>1, <2>2, <2>3, UntouchedCursors
<1>13. CASE Close
  <2>1. Leave /\ pc' \in {"down", "joining"} /\ handled' = handled
    BY <1>13 DEF Close
  <2>2. GroupTypeOK' /\ CursorsOK' /\ CurrentOK' /\ FrontierAccounted' /\ LossesExplained'
    BY <2>1, LostAssignment
  <2>3. TypeOK'
    BY <1>13, <2>2 DEF Close, TypeOK
  <2> QED
    BY <2>2, <2>3
<1>14. CASE Crash
  <2>1. Leave /\ pc' \in {"down", "joining"} /\ handled' = handled
    BY <1>14 DEF Crash
  <2>2. GroupTypeOK' /\ CursorsOK' /\ CurrentOK' /\ FrontierAccounted' /\ LossesExplained'
    BY <2>1, LostAssignment
  <2>3. TypeOK'
    BY <1>14, <2>2 DEF Crash, TypeOK
  <2> QED
    BY <2>2, <2>3
<1>15. CASE Rebalance
  <2>1. Leave /\ pc' \in {"down", "joining"} /\ handled' = handled
    BY <1>15 DEF Rebalance
  <2>2. GroupTypeOK' /\ CursorsOK' /\ CurrentOK' /\ FrontierAccounted' /\ LossesExplained'
    BY <2>1, LostAssignment
  <2>3. TypeOK'
    BY <1>15, <2>2 DEF Rebalance, TypeOK
  <2> QED
    BY <2>2, <2>3
<1>16. CASE UNCHANGED vars
  <2>1. /\ UNCHANGED <<log, committed, position, next, dropped, passed>>
        /\ \A q \in Partitions : handled[q] \subseteq handled'[q]
        /\ Joined' <=> Joined
        /\ pc' \in {"idle", "stopping"} => pc \in {"idle", "stopping"}
    BY <1>16 DEF vars, Joined
  <2>2. TypeOK'
    BY <1>16 DEF vars, TypeOK, GroupTypeOK
  <2>3. CurrentOK'
    BY <1>16 DEF vars, CurrentOK
  <2> QED
    BY <2>1, <2>2, <2>3, UntouchedCursors
<1> QED
  BY <1>1, <1>2, <1>3, <1>4, <1>5, <1>6, <1>7, <1>8,
     <1>9, <1>10, <1>11, <1>12, <1>13, <1>14, <1>15, <1>16
     DEF Next, OwnStep, HandleStep, PublishStep, CommitStep

\* The invariant the theorems below rest on holds in every reachable state.
THEOREM Invariance == Spec => []IInv
<1>1. Init => IInv
  BY InitIInv
<1>2. IInv /\ [Next]_vars => IInv'
  BY NextIInv
<1> QED
  BY <1>1, <1>2, PTL DEF Spec

\* Every variable of the consumer keeps its type, whatever the topic, the batch
\* size, the faults and the number of restarts.
THEOREM TypeCorrect == Spec => []TypeOK
<1>1. IInv => TypeOK
  BY DEF IInv
<1> QED
  BY <1>1, Invariance, PTL

\* What is below a committed offset is below the frontier as well.
LEMMA CommittedBelowFrontier ==
    ASSUME IInv, NEW p \in Partitions, NEW o \in 0 .. committed[p] - 1
    PROVE  o \in Nat /\ o < Frontier(p)
<1>1. committed[p] \in Int /\ next[p] \in Int
  BY DEF IInv, TypeOK, GroupTypeOK, Offset, NoOffset
<1>2. next[p] # NoOffset => committed[p] <= next[p]
  BY DEF IInv, CursorsOK
<1> QED
  BY <1>1, <1>2 DEF Frontier

\* Everything below a committed offset was processed to the end, dropped by a
\* failed cycle of process_cycle, or skipped by the reset to "latest".
THEOREM AccountingCorrect == Spec => []CommittedAccounted
<1>1. IInv => CommittedAccounted
  BY CommittedBelowFrontier DEF IInv, FrontierAccounted, CommittedAccounted
<1> QED
  BY <1>1, Invariance, PTL

\* At-least-once, as kafka_io.py promises it, for cycles that do not fail and a
\* group that has an offset: a committed record was processed to the end.
THEOREM AtLeastOnceCorrect == Spec => []AtLeastOnce
<1>1. ASSUME IInv, NoFailedCycle, NEW p \in Partitions \ Fresh,
             NEW o \in 0 .. committed[p] - 1
      PROVE  o \in handled[p]
  <2>1. o \in handled[p] \cup dropped[p] \cup passed[p]
    BY <1>1, CommittedBelowFrontier DEF IInv, FrontierAccounted
  <2>2. dropped[p] = {} /\ passed[p] = {}
    BY <1>1 DEF IInv, LossesExplained
  <2> QED
    BY <2>1, <2>2
<1>2. IInv => AtLeastOnce
  BY <1>1 DEF AtLeastOnce
<1> QED
  BY <1>2, Invariance, PTL

\* No step moves a committed offset back: what commit() sends is past the record
\* the loop is at, and that record was never behind the committed offset.
THEOREM CommitsMoveForward == Spec => CommittedMonotone
<1>1. ASSUME IInv, [Next]_vars, NEW p \in Partitions
      PROVE  committed'[p] >= committed[p]
  <2>1. committed[p] \in Int
    BY <1>1 DEF IInv, TypeOK, GroupTypeOK, Offset, NoOffset
  <2>2. CASE UNCHANGED committed
    BY <2>1, <2>2
  <2>3. ASSUME NEW q \in Partitions, Commit(q) \/ CommitFails(q), committed' = Committing(Past(q))
        PROVE  committed'[p] >= committed[p]
    <3>1. Joined
      BY <2>3 DEF Commit, CommitFails, Joined
    <3>2. Past(q)[p] \in Nat /\ next[p] \in Nat /\ committed[p] <= next[p]
      BY <1>1, <3>1, PastTyped, AssignedCursors DEF IInv, CursorsOK
    <3> QED
      BY <2>1, <2>3, <3>2 DEF Committing
  <2>4. UNCHANGED committed \/ \E q \in Partitions : /\ Commit(q) \/ CommitFails(q)
                                                    /\ committed' = Committing(Past(q))
    BY <1>1
       DEF Next, OwnStep, vars, groupVars, historyVars, Start, Assign, Join, PollBatch, Poll, HandleStep,
           ApplyUpdate, HandleFails, PublishStep, Publish, PublishFails, CommitStep, Commit,
           CommitOffsets, CommitFails, DecisionArrives, Produce, DeliverStep, Deliver,
           DeliverFails, StopRequested, Close, Crash, Rebalance, Leave
  <2> QED
    BY <2>2, <2>3, <2>4
<1>2. IInv /\ [Next]_vars => [\A p \in Partitions : committed'[p] >= committed[p]]_vars
  BY <1>1
<1> QED
  BY <1>2, Invariance, PTL DEF Spec, CommittedMonotone

\* What the loop is about to confirm is in the store already.
AppliedBeforePublish ==
    /\ pc = "publishing" => next[serving] \in applied[serving]
    /\ ConfirmationAfterUpdate
    /\ \A p \in Partitions : handled[p] \subseteq applied[p]

\* A record is published and counted as handled only after its update, and what
\* is applied stays so.
LEMMA AppliedInvariance == Spec => []AppliedBeforePublish
<1>1. Init => AppliedBeforePublish
  BY DEF Init, AppliedBeforePublish, ConfirmationAfterUpdate
<1>2. ASSUME IInv, AppliedBeforePublish, [Next]_vars PROVE AppliedBeforePublish'
  <2> USE <1>2 DEF IInv, AppliedBeforePublish, ConfirmationAfterUpdate, groupVars, historyVars
  <2>1. ASSUME NEW p \in Partitions, ApplyUpdate(p) PROVE AppliedBeforePublish'
    BY <2>1 DEF ApplyUpdate, TypeOK
  <2>2. ASSUME NEW p \in Partitions, HandleFails(p) PROVE AppliedBeforePublish'
    <3>1. /\ pc' = "idle" /\ buffer' = buffer /\ validated' = validated /\ handled' = handled
          /\ \A q \in Partitions : applied[q] \subseteq applied'[q]
      BY <2>2 DEF HandleFails, TypeOK
    <3>2. \A r \in buffer \cup validated : r[1] \in Partitions
      BY DEF TypeOK, Coordinates
    <3> QED
      BY <3>1, <3>2
  <2>3. ASSUME NEW p \in Partitions, Publish(p) PROVE AppliedBeforePublish'
    <3>1. p = serving
      BY <2>3, IsNextBelowPosition DEF Publish, TypeOK, CurrentOK
    <3> QED
      BY <2>3, <3>1 DEF Publish, TypeOK
  <2>4. ASSUME NEW p \in Partitions, PublishFails(p) \/ CommitStep(p) PROVE AppliedBeforePublish'
    BY <2>4 DEF PublishFails, CommitStep, Commit, CommitFails
  <2>5. ASSUME NEW p \in Partitions, NEW v \in Values, DecisionArrives(p, v)
        PROVE  AppliedBeforePublish'
    BY <2>5 DEF DecisionArrives, Produce
  <2>6. ASSUME NEW r \in buffer, DeliverStep(r) PROVE AppliedBeforePublish'
    BY <2>6 DEF DeliverStep, Deliver, DeliverFails
  <2>7. CASE Start \/ Assign \/ PollBatch \/ StopRequested
    BY <2>7 DEF Start, Assign, PollBatch, StopRequested
  <2>8. CASE Close \/ Crash \/ Rebalance
    BY <2>8 DEF Close, Crash, Rebalance
  <2>9. CASE UNCHANGED vars
    BY <2>9 DEF vars
  <2> QED
    BY <2>1, <2>2, <2>3, <2>4, <2>5, <2>6, <2>7, <2>8, <2>9
       DEF Next, OwnStep, HandleStep, PublishStep
<1> QED
  BY <1>1, <1>2, Invariance, PTL DEF Spec

\* A confirmation is sent only for an update the store has accepted: a reader of
\* EntityValidated finds the decision in the graph.
THEOREM ConfirmationCorrect == Spec => []ConfirmationAfterUpdate
<1>1. AppliedBeforePublish => ConfirmationAfterUpdate
  BY DEF AppliedBeforePublish
<1> QED
  BY <1>1, AppliedInvariance, PTL

\* Without failed cycles the loop commits record by record, so an assigned member
\* stands at its committed offset and has processed at most the record there.
CommitsKeepUp ==
    NoFailedCycle =>
        \A p \in Partitions \ Fresh :
            /\ Joined => next[p] = committed[p]
            /\ handled[p] \subseteq 0 .. committed[p]

\* What a crash or a rebalance costs when no cycle fails: per partition at most
\* the one record whose commit was under way is processed a second time.
THEOREM RedeliveryBounded == Spec => []OneRecordRedelivered
<1>1. Init => CommitsKeepUp
  BY DEF Init, CommitsKeepUp, Joined
<1>2. ASSUME IInv, CommitsKeepUp, [Next]_vars PROVE CommitsKeepUp'
  <2> SUFFICES ASSUME NoFailedCycle', NEW p \in Partitions \ Fresh
               PROVE  /\ Joined' => next'[p] = committed'[p]
                      /\ handled'[p] \subseteq 0 .. committed'[p]
    BY DEF CommitsKeepUp
  <2>0. NoFailedCycle
    BY <1>2, NoFailedCycleBefore DEF IInv
  <2> USE <1>2 DEF IInv, NoOffset, groupVars, historyVars
  <2>1. /\ Joined => next[p] = committed[p]
        /\ handled[p] \subseteq 0 .. committed[p]
        /\ committed[p] # NoOffset /\ committed[p] \in Nat
    BY <2>0 DEF CommitsKeepUp, LossesExplained, TypeOK, GroupTypeOK, Offset
  <2>2. CASE Assign
    BY <2>1, <2>2 DEF Assign, Join, StartOffset
  <2>3. ASSUME NEW q \in Partitions, Publish(q)
        PROVE  /\ Joined' => next'[p] = committed'[p]
               /\ handled'[p] \subseteq 0 .. committed'[p]
    BY <2>1, <2>3 DEF Publish, Joined, TypeOK
  <2>4. ASSUME NEW q \in Partitions, Commit(q)
        PROVE  /\ Joined' => next'[p] = committed'[p]
               /\ handled'[p] \subseteq 0 .. committed'[p]
    <3>1. Joined
      BY <2>4 DEF Commit, Joined
    <3>2. Past(q)[p] \in {next[p], next[p] + 1}
      BY <3>1, PastTyped
    <3>3. /\ next'[p] = Past(q)[p] /\ handled' = handled
          /\ committed'[p] = IF Past(q)[p] > next[p] THEN Past(q)[p] ELSE committed[p]
      BY <2>4 DEF Commit, CommitOffsets, Committing
    <3> QED
      BY <2>1, <3>1, <3>2, <3>3
  <2>5. \A q \in Partitions : ~HandleFails(q) /\ ~PublishFails(q) /\ ~CommitFails(q)
    BY <2>0, NoFailingStep DEF PublishFails, CommitFails, NoFailedCycle
  <2>6. CASE Start \/ PollBatch \/ StopRequested \/ UNCHANGED vars
    BY <2>1, <2>6 DEF Start, PollBatch, Poll, StopRequested, vars, Joined
  <2>7. CASE Close \/ Crash \/ Rebalance
    BY <2>1, <2>7 DEF Close, Crash, Rebalance, Leave, Joined
  <2>8. ASSUME NEW q \in Partitions, ApplyUpdate(q) \/ \E v \in Values : DecisionArrives(q, v)
        PROVE  /\ Joined' => next'[p] = committed'[p]
               /\ handled'[p] \subseteq 0 .. committed'[p]
    BY <2>1, <2>8 DEF ApplyUpdate, DecisionArrives, Produce, Joined
  <2>9. ASSUME NEW r \in buffer, DeliverStep(r)
        PROVE  /\ Joined' => next'[p] = committed'[p]
               /\ handled'[p] \subseteq 0 .. committed'[p]
    BY <2>1, <2>9 DEF DeliverStep, Deliver, DeliverFails, Joined
  <2> QED
    BY <2>2, <2>3, <2>4, <2>5, <2>6, <2>7, <2>8, <2>9
       DEF Next, OwnStep, HandleStep, PublishStep, CommitStep
<1>3. IInv /\ CommitsKeepUp => OneRecordRedelivered
  <2> SUFFICES ASSUME IInv, CommitsKeepUp, NoFailedCycle, NEW p \in Partitions \ Fresh,
                      NEW o \in handled[p]
               PROVE  o < committed[p] \/ o = committed[p]
    BY DEF OneRecordRedelivered
  <2>1. committed[p] \in Int
    BY DEF IInv, TypeOK, GroupTypeOK, Offset, NoOffset
  <2> QED
    BY <2>1 DEF CommitsKeepUp
<1> QED
  BY <1>1, <1>2, <1>3, Invariance, PTL DEF Spec

\* Every confirmation of a handled record is with the producer or on the topic, as
\* long as the process is not killed and the broker takes what it is sent.
ConfirmationsKept ==
    Faults \cap {"crash", "deliver"} = {} =>
        /\ \A p \in Partitions : \A o \in handled[p] : <<p, o>> \in buffer \cup validated
        /\ pc = "down" => buffer = {}

\* A clean stop leaves no confirmation behind: close() comes after a flush() that
\* waits for everything the producer holds.
THEOREM CleanStopCorrect == Spec => []CleanStopConfirms
<1>1. Init => ConfirmationsKept
  BY DEF Init, ConfirmationsKept
<1>2. ASSUME IInv, ConfirmationsKept, [Next]_vars PROVE ConfirmationsKept'
  <2> SUFFICES ASSUME Faults \cap {"crash", "deliver"} = {}
               PROVE  /\ \A p \in Partitions : \A o \in handled'[p] :
                            <<p, o>> \in buffer' \cup validated'
                      /\ pc' = "down" => buffer' = {}
    BY DEF ConfirmationsKept
  <2> USE <1>2 DEF IInv, ConfirmationsKept, groupVars, historyVars
  <2>1. ASSUME NEW p \in Partitions, Publish(p) PROVE ConfirmationsKept'
    BY <2>1 DEF Publish, TypeOK
  <2>2. ASSUME NEW r \in buffer, DeliverStep(r) PROVE ConfirmationsKept'
    BY <2>2 DEF DeliverStep, Deliver, DeliverFails
  <2>3. ASSUME NEW p \in Partitions, ApplyUpdate(p) \/ HandleFails(p) \/ PublishFails(p) \/ CommitStep(p)
        PROVE  ConfirmationsKept'
    BY <2>3 DEF ApplyUpdate, HandleFails, PublishFails, CommitStep, Commit, CommitFails
  <2>4. ASSUME NEW p \in Partitions, NEW v \in Values, DecisionArrives(p, v)
        PROVE  ConfirmationsKept'
    BY <2>4 DEF DecisionArrives, Produce
  <2>5. CASE Start \/ Assign \/ PollBatch \/ StopRequested
    BY <2>5 DEF Start, Assign, PollBatch, StopRequested
  <2>6. CASE Close \/ Crash \/ Rebalance
    BY <2>6 DEF Close, Crash, Rebalance
  <2>7. CASE UNCHANGED vars
    BY <2>7 DEF vars
  <2> QED
    BY <2>1, <2>2, <2>3, <2>4, <2>5, <2>6, <2>7 DEF Next, OwnStep, HandleStep, PublishStep
<1>3. ConfirmationsKept => CleanStopConfirms
  BY DEF ConfirmationsKept, CleanStopConfirms
<1> QED
  BY <1>1, <1>2, <1>3, Invariance, PTL DEF Spec

\* How far the updates of a partition have got when no cycle fails: not beyond the
\* record in hand, and not beyond the committed offset once there is one.
UpdatesInOrder ==
    \A p \in Partitions : \A o \in applied[p] :
        /\ o < LogEnd(p)
        /\ Joined => o <= next[p]
        /\ committed[p] # NoOffset => o <= committed[p]

\* An entry last written from p holds the newest of p's committed records on it;
\* while there is no offset to go back to, the newest of all.
EntriesNewest ==
    \A p \in Partitions : \A k \in Keys :
        (store[k] # NoRecord /\ store[k][1] = p) =>
            \A o \in applied[p] :
                /\ Key(Record(p, o)) = k
                /\ o < committed[p] \/ committed[p] = NoOffset
                => o <= store[k][2]

StoreInv ==
    NoFailedCycle =>
        /\ UpdatesInOrder
        /\ EntriesNewest
        /\ \A p \in Partitions : (Joined /\ committed[p] # NoOffset) => next[p] = committed[p]
        /\ pc \in {"publishing", "committing"} =>
               store[Key(Record(serving, next[serving]))] = <<serving, next[serving]>>

\* The record in hand is on the log and its entry is one of the store's.
LEMMA CurrentRecord ==
    ASSUME TypeOK, CursorsOK, Joined, NEW p \in Partitions, IsNext(p)
    PROVE  /\ next[p] \in Nat /\ next[p] < LogEnd(p)
           /\ Key(Record(p, next[p])) \in Keys
<1>1. /\ next[p] \in Nat /\ position[p] \in Nat /\ LogEnd(p) \in Nat
      /\ log[p] \in Seq(Values)
  BY AssignedCursors DEF TypeOK, GroupTypeOK, LogEnd
<1>2. next[p] < position[p] /\ position[p] <= LogEnd(p)
  BY IsNextBelowPosition DEF TypeOK, CursorsOK
<1>3. Record(p, next[p]) \in Values
  BY <1>1, <1>2 DEF Record, LogEnd
<1> QED
  BY <1>1, <1>2, <1>3 DEF Keys

\* An update of the record in hand makes its entry the newest of its partition.
LEMMA UpdateKeepsStoreInv ==
    ASSUME IInv, StoreInv, NoFailedCycle, NEW p \in Partitions, ApplyUpdate(p)
    PROVE  StoreInv'
<1> USE DEF IInv
<1>1. /\ Joined /\ Joined' /\ IsNext(p)
      /\ UNCHANGED <<log, committed, position, next>>
      /\ store' = Updated(p, next[p])
      /\ applied' = [applied EXCEPT ![p] = @ \cup {next[p]}]
      /\ serving' = p /\ pc' = "publishing"
  BY DEF ApplyUpdate, Joined
<1>2. next[p] \in Nat /\ next[p] < LogEnd(p) /\ Key(Record(p, next[p])) \in Keys
  BY <1>1, CurrentRecord
<1>3. /\ UpdatesInOrder /\ EntriesNewest
      /\ \A q \in Partitions : committed[q] # NoOffset => next[q] = committed[q]
  BY <1>1 DEF StoreInv
<1>4. /\ \A q \in Partitions \ {p} : applied'[q] = applied[q]
      /\ applied'[p] = applied[p] \cup {next[p]}
      /\ \A k \in Keys : store'[k] = IF k = Key(Record(p, next[p])) THEN <<p, next[p]>> ELSE store[k]
  BY <1>1, <1>2 DEF TypeOK, Updated
<1>5. UpdatesInOrder'
  BY <1>1, <1>2, <1>3, <1>4 DEF UpdatesInOrder, LogEnd
<1>6. EntriesNewest'
  <2> SUFFICES ASSUME NEW q \in Partitions, NEW k \in Keys,
                      store'[k] # NoRecord, store'[k][1] = q, NEW o \in applied'[q],
                      Key(Record(q, o)) = k, o < committed[q] \/ committed[q] = NoOffset
               PROVE  o <= store'[k][2]
    BY <1>1 DEF EntriesNewest, Record
  <2>1. CASE k = Key(Record(p, next[p]))
    <3>1. q = p /\ store'[k][2] = next[p]
      BY <1>4, <2>1
    <3>2. o <= next[p]
      BY <1>1, <1>2, <1>3, <1>4, <3>1 DEF UpdatesInOrder
    <3> QED
      BY <3>1, <3>2
  <2>2. CASE k # Key(Record(p, next[p]))
    <3>1. store'[k] = store[k]
      BY <1>4, <2>2
    <3>2. o \in applied[q]
      BY <1>4, <2>2
    <3> QED
      BY <1>3, <3>1, <3>2 DEF EntriesNewest
  <2> QED
    BY <2>1, <2>2
<1>7. store'[Key(Record(p, next[p]))] = <<p, next[p]>>
  BY <1>2, <1>4
<1> QED
  BY <1>1, <1>3, <1>5, <1>6, <1>7 DEF StoreInv, Record

\* Committing the record in hand: its entry holds it, and what was committed before
\* it lies below.
LEMMA CommitKeepsStoreInv ==
    ASSUME IInv, StoreInv, NoFailedCycle, NEW p \in Partitions, Commit(p)
    PROVE  StoreInv'
<1> USE DEF IInv, NoOffset
<1>1. /\ Joined /\ Joined' /\ IsNext(p) /\ pc = "committing"
      /\ UNCHANGED <<log, position, serving, store, applied>>
      /\ next' = Past(p) /\ committed' = Committing(Past(p))
      /\ pc' \in {"handling", "idle"}
  BY DEF Commit, CommitOffsets, historyVars, Joined
<1>2. /\ \A q \in Partitions : next[q] \in Nat /\ committed[q] \in Int
      /\ \A q \in Partitions : \A o \in applied[q] : o \in Nat
  BY <1>1, AssignedCursors DEF TypeOK, GroupTypeOK, Offset
<1>3. /\ next'[p] = next[p] + 1 /\ committed'[p] = next[p] + 1
      /\ \A q \in Partitions \ {p} : next'[q] = next[q] /\ committed'[q] = committed[q]
  BY <1>1, <1>2, PastTyped DEF Committing
<1>4. /\ UpdatesInOrder /\ EntriesNewest
      /\ \A q \in Partitions : committed[q] # NoOffset => next[q] = committed[q]
      /\ store[Key(Record(serving, next[serving]))] = <<serving, next[serving]>>
  BY <1>1 DEF StoreInv
<1>5. p = serving
  <2>1. next[serving] < position[serving]
    BY <1>1 DEF CurrentOK
  <2> QED
    BY <1>1, <2>1, IsNextBelowPosition DEF TypeOK
<1>6. UpdatesInOrder'
  BY <1>1, <1>2, <1>3, <1>4 DEF UpdatesInOrder, LogEnd
<1>7. EntriesNewest'
  <2> SUFFICES ASSUME NEW q \in Partitions, NEW k \in Keys,
                      store[k] # NoRecord, store[k][1] = q, NEW o \in applied[q],
                      Key(Record(q, o)) = k, o < committed'[q] \/ committed'[q] = NoOffset
               PROVE  o <= store[k][2]
    BY <1>1 DEF EntriesNewest, Record
  <2>1. CASE o < committed[q] \/ committed[q] = NoOffset
    BY <1>4, <2>1 DEF EntriesNewest
  <2>2. CASE ~(o < committed[q]) /\ committed[q] # NoOffset
    <3>1. q = p /\ o < next[p] + 1
      BY <1>2, <1>3, <2>2
    <3>2. o = next[p]
      BY <1>2, <1>4, <2>2, <3>1
    <3>3. store[k] = <<p, next[p]>>
      BY <1>4, <1>5, <3>1, <3>2
    <3> QED
      BY <1>2, <3>2, <3>3
  <2> QED
    BY <2>1, <2>2
<1>8. \A q \in Partitions : committed'[q] # NoOffset => next'[q] = committed'[q]
  BY <1>3, <1>4
<1> QED
  BY <1>1, <1>6, <1>7, <1>8 DEF StoreInv

\* A decision that arrives is behind everything that was applied.
LEMMA ArrivalKeepsStoreInv ==
    ASSUME IInv, StoreInv, NoFailedCycle, NEW p \in Partitions, NEW v \in Values,
           DecisionArrives(p, v)
    PROVE  StoreInv'
<1> USE DEF IInv, NoOffset
<1>1. /\ UNCHANGED <<committed, position, next, serving, store, applied, pc>>
      /\ log' = [log EXCEPT ![p] = Append(@, v)]
      /\ log \in [Partitions -> Seq(Values)]
      /\ Joined' <=> Joined
  BY DEF DecisionArrives, Produce, historyVars, TypeOK, GroupTypeOK, Joined
<1>2. \A q \in Partitions : /\ LogEnd(q) \in Nat /\ LogEnd(q) <= LogEnd(q)' /\ LogEnd(q)' \in Nat
                             /\ \A o \in Nat : o < LogEnd(q) => Record(q, o)' = Record(q, o)
  BY <1>1 DEF LogEnd, Record
<1>3. \A q \in Partitions : \A o \in applied[q] : o \in Nat
  BY DEF TypeOK
<1>4. UpdatesInOrder /\ EntriesNewest
  BY DEF StoreInv
<1>5. UpdatesInOrder'
  <2> HIDE DEF IInv
  <2> QED
    BY <1>1, <1>2, <1>3, <1>4 DEF UpdatesInOrder
<1>6. EntriesNewest'
  <2>1. \A q \in Partitions : \A o \in applied[q] : Record(q, o)' = Record(q, o)
    BY <1>2, <1>3, <1>4 DEF UpdatesInOrder
  <2> QED
    BY <1>1, <1>4, <2>1 DEF EntriesNewest
<1>7. pc \in {"publishing", "committing"} => Record(serving, next[serving])' = Record(serving, next[serving])
  <2> SUFFICES ASSUME pc \in {"publishing", "committing"}
               PROVE  next[serving] \in Nat /\ next[serving] < LogEnd(serving) /\ serving \in Partitions
    BY <1>1, <1>2 DEF Record
  <2>1. /\ serving \in Partitions /\ next[serving] \in Nat /\ position[serving] \in Nat
        /\ Joined
    BY AssignedCursors DEF TypeOK, GroupTypeOK, Joined
  <2>2. next[serving] < position[serving] /\ position[serving] <= LogEnd(serving)
    BY <2>1 DEF CurrentOK, CursorsOK
  <2> QED
    BY <1>2, <2>1, <2>2
<1> QED
  BY <1>1, <1>5, <1>6, <1>7 DEF StoreInv

\* Without failed cycles a redelivery never takes an entry back behind what is
\* committed: a restart resumes at the committed offset, or where there is none at
\* the end of the log, and what is applied from there on is newer.
THEOREM StoreCorrect == Spec => []StoreNotBehindCommit
<1>1. Init => StoreInv
  BY DEF Init, StoreInv, UpdatesInOrder, EntriesNewest, Joined
<1>2. ASSUME IInv, StoreInv, [Next]_vars PROVE StoreInv'
  <2> SUFFICES ASSUME NoFailedCycle' PROVE StoreInv'
    BY DEF StoreInv
  <2>0. NoFailedCycle
    BY <1>2, NoFailedCycleBefore DEF IInv
  <2>1. ASSUME NEW p \in Partitions, ApplyUpdate(p) \/ Commit(p) \/ \E v \in Values : DecisionArrives(p, v)
        PROVE  StoreInv'
    BY <1>2, <2>0, <2>1, UpdateKeepsStoreInv, CommitKeepsStoreInv, ArrivalKeepsStoreInv
  <2> USE <1>2, <2>0 DEF IInv, NoOffset, groupVars, historyVars
  <2>2. \A p \in Partitions : ~HandleFails(p) /\ ~PublishFails(p) /\ ~CommitFails(p)
    BY NoFailingStep DEF PublishFails, CommitFails, NoFailedCycle
  <2>3. CASE Assign
    <3>1. /\ Joined' /\ pc' = "idle" /\ UNCHANGED <<log, committed, store, applied>>
          /\ \A p \in Partitions : next'[p] = StartOffset(p)
      BY <2>3 DEF Assign, Join, Joined
    <3>2. UpdatesInOrder /\ EntriesNewest
      BY DEF StoreInv
    <3>3. \A p \in Partitions : /\ LogEnd(p) \in Nat
                                 /\ \A o \in applied[p] : o \in Nat
      BY DEF TypeOK, GroupTypeOK, LogEnd
    <3>4. UpdatesInOrder'
      BY <3>1, <3>2, <3>3 DEF UpdatesInOrder, LogEnd, StartOffset
    <3>5. EntriesNewest'
      BY <3>1, <3>2 DEF EntriesNewest, Record
    <3> QED
      BY <3>1, <3>4, <3>5 DEF StoreInv, StartOffset
  <2>4. CASE Start \/ StopRequested \/ UNCHANGED vars
    <3>1. /\ UNCHANGED <<log, committed, next, serving, store, applied>>
          /\ Joined' <=> Joined
          /\ pc' \in {"publishing", "committing"} => pc \in {"publishing", "committing"}
      BY <2>4 DEF Start, StopRequested, vars, Joined
    <3> QED
      BY <3>1 DEF StoreInv, UpdatesInOrder, EntriesNewest, LogEnd, Record
  <2>5. CASE PollBatch
    <3>1. /\ UNCHANGED <<log, committed, next, store, applied>> /\ pc' = "handling"
          /\ Joined' <=> Joined
      BY <2>5 DEF PollBatch, Poll, Joined
    <3> QED
      BY <3>1 DEF StoreInv, UpdatesInOrder, EntriesNewest, LogEnd, Record
  <2>6. CASE Close \/ Crash \/ Rebalance
    <3>1. /\ UNCHANGED <<log, committed, store, applied>> /\ ~Joined'
          /\ pc' \in {"down", "joining"}
      BY <2>6 DEF Close, Crash, Rebalance, Leave, Joined
    <3> QED
      BY <3>1 DEF StoreInv, UpdatesInOrder, EntriesNewest, LogEnd, Record
  <2>7. ASSUME NEW p \in Partitions, Publish(p) PROVE StoreInv'
    <3>1. /\ UNCHANGED <<log, committed, next, serving, store, applied>>
          /\ Joined /\ Joined' /\ pc = "publishing"
      BY <2>7 DEF Publish, Joined
    <3> QED
      BY <3>1 DEF StoreInv, UpdatesInOrder, EntriesNewest, LogEnd, Record
  <2>8. ASSUME NEW r \in buffer, DeliverStep(r) PROVE StoreInv'
    <3>1. UNCHANGED <<log, committed, next, serving, store, applied, pc>>
      BY <2>8 DEF DeliverStep, Deliver, DeliverFails
    <3> QED
      BY <3>1 DEF StoreInv, UpdatesInOrder, EntriesNewest, LogEnd, Record, Joined
  <2> QED
    BY <2>1, <2>2, <2>3, <2>4, <2>5, <2>6, <2>7, <2>8
       DEF Next, OwnStep, HandleStep, PublishStep, CommitStep
<1>3. StoreInv => StoreNotBehindCommit
  BY DEF StoreInv, EntriesNewest, StoreNotBehindCommit
<1> QED
  BY <1>1, <1>2, <1>3, Invariance, PTL DEF Spec

\* The state of OffsetLedger under the mapping.
lArrived == [p \in Partitions |-> LogEnd(p)]
lSettled == [p \in Partitions |-> handled[p] \cup dropped[p] \cup passed[p]]

\* The steps of OffsetLedger under the mapping.
Extends(p) == \E upto \in 0 .. LogEnd(p) : lSettled'[p] = lSettled[p] \cup (0 .. upto - 1)
MovesOn(p) ==
    committed'[p] # committed[p] =>
        committed'[p] > committed[p] /\ 0 .. committed'[p] - 1 \subseteq lSettled[p]

LEMMA LedgerProcess ==
    ASSUME TypeOK', UNCHANGED log, \A p \in Partitions : Extends(p) /\ MovesOn(p)
    PROVE  Ledger!LedgerNext
<1>1. lSettled' \in [Partitions -> SUBSET Nat]
  <2>1. /\ handled' \in [Partitions -> SUBSET Nat] /\ dropped' \in [Partitions -> SUBSET Nat]
        /\ passed' \in [Partitions -> SUBSET Nat]
    BY DEF TypeOK, GroupTypeOK
  <2> QED
    BY <2>1 DEF lSettled
<1>2. committed' \in [Partitions -> Nat \cup {-1}]
  BY DEF TypeOK, GroupTypeOK, Offset, NoOffset
<1>3. UNCHANGED lArrived
  BY DEF lArrived, LogEnd
<1>4. ASSUME NEW p \in Partitions PROVE Ledger!Settle(p) /\ Ledger!Commit(p)
  <2>1. lArrived[p] = LogEnd(p)
    BY DEF lArrived
  <2>2. \E upto \in 0 .. lArrived[p] : lSettled'[p] = lSettled[p] \cup (0 .. upto - 1)
    BY <2>1 DEF Extends
  <2>3. MovesOn(p)
    OBVIOUS
  <2>4. Ledger!Settle(p)
    BY <2>2, Zenon DEF Ledger!Settle, lArrived, lSettled
  <2>5. Ledger!Commit(p)
    BY <2>3, Zenon DEF Ledger!Commit, MovesOn, lSettled
  <2> QED
    BY <2>4, <2>5
<1>5. Ledger!Process
  BY <1>1, <1>2, <1>3, <1>4, Zenon DEF Ledger!Process, Ledger!NoOffset, lArrived, lSettled
<1> QED
  BY <1>5 DEF Ledger!LedgerNext

LEMMA LedgerArrival ==
    ASSUME TypeOK, NEW p \in Partitions, NEW v \in Values, DecisionArrives(p, v)
    PROVE  Ledger!LedgerNext
<1>1. /\ log \in [Partitions -> Seq(Values)] /\ log' = [log EXCEPT ![p] = Append(@, v)]
      /\ UNCHANGED <<committed, handled, dropped, passed>>
  BY DEF TypeOK, GroupTypeOK, DecisionArrives, Produce, historyVars
<1>2. lArrived' = [lArrived EXCEPT ![p] = @ + 1]
  <2>1. \A q \in Partitions : LogEnd(q)' = IF q = p THEN LogEnd(q) + 1 ELSE LogEnd(q)
    BY <1>1 DEF LogEnd
  <2> QED
    BY <2>1 DEF lArrived
<1>3. UNCHANGED lSettled
  BY <1>1 DEF lSettled
<1>4. Ledger!Arrive(p)
  BY <1>1, <1>2, <1>3, Zenon DEF Ledger!Arrive, lArrived, lSettled
<1> QED
  BY <1>4 DEF Ledger!LedgerNext

\* Steps that dispose of nothing and commit nothing.
LEMMA LedgerUnseen ==
    ASSUME UNCHANGED <<log, committed, handled, dropped, passed>>
    PROVE  UNCHANGED Ledger!ledgerVars
<1>1. UNCHANGED <<lArrived, lSettled>>
  BY DEF lArrived, lSettled, LogEnd
<1> QED
  BY <1>1, Zenon DEF Ledger!ledgerVars, lArrived, lSettled

\* All that is below the cursor of an assigned member is settled.
LEMMA BelowNextSettled ==
    ASSUME IInv, Joined, NEW p \in Partitions
    PROVE  0 .. next[p] - 1 \subseteq lSettled[p]
<1>1. next[p] \in Nat /\ next[p] # NoOffset
  BY AssignedCursors DEF IInv, NoOffset
<1>2. \A o \in 0 .. next[p] - 1 : o \in Nat /\ o < Frontier(p)
  BY <1>1 DEF Frontier
<1> QED
  BY <1>2 DEF IInv, FrontierAccounted, lSettled

\* A failed cycle settles the rest of its batch.
LEMMA LedgerAbandon ==
    ASSUME IInv, Joined, NEW upto \in [Partitions -> Nat], Abandon(upto),
           UNCHANGED handled,
           \A p \in Partitions : 0 .. upto[p] - 1 \subseteq lSettled[p]
    PROVE  \A p \in Partitions : Extends(p)
<1> SUFFICES ASSUME NEW p \in Partitions PROVE Extends(p)
  OBVIOUS
<1>1. position[p] \in Nat /\ position[p] \in 0 .. LogEnd(p)
  <2>1. position[p] \in Nat /\ LogEnd(p) \in Nat /\ position[p] <= LogEnd(p)
    BY AssignedCursors DEF IInv, CursorsOK, TypeOK, GroupTypeOK, LogEnd
  <2> QED
    BY <2>1
<1>2. lSettled'[p] = lSettled[p] \cup (upto[p] .. position[p] - 1)
  BY DEF lSettled, Abandon
<1>3. lSettled'[p] = lSettled[p] \cup (0 .. position[p] - 1)
  BY <1>1, <1>2, StretchExtended
<1> QED
  BY <1>1, <1>3 DEF Extends

\* A record that has been handled and is committed: the cursor past it.
LEMMA PastSettled ==
    ASSUME IInv, pc = "committing", NEW p \in Partitions, IsNext(p)
    PROVE  /\ Past(p) \in [Partitions -> Nat]
           /\ \A q \in Partitions : 0 .. Past(p)[q] - 1 \subseteq lSettled[q]
           /\ \A q \in Partitions : committed[q] <= Past(p)[q]
<1>1. Joined
  BY DEF Joined
<1>2. /\ Past(p) \in [Partitions -> Nat] /\ next \in [Partitions -> Nat]
      /\ Past(p)[p] = next[p] + 1 /\ \A q \in Partitions \ {p} : Past(p)[q] = next[q]
  BY <1>1, PastTyped DEF IInv
<1>3. next[p] \in handled[p]
  BY IsNextBelowPosition DEF IInv, CurrentOK, TypeOK
<1>4. ASSUME NEW q \in Partitions PROVE 0 .. Past(p)[q] - 1 \subseteq lSettled[q]
  <2>1. 0 .. next[q] - 1 \subseteq lSettled[q]
    BY <1>1, BelowNextSettled
  <2>2. CASE q = p
    <3>1. \A o \in 0 .. Past(p)[p] - 1 : o \in 0 .. next[p] - 1 \/ o = next[p]
      BY <1>2
    <3>2. next[p] \in lSettled[p]
      BY <1>3 DEF lSettled
    <3> QED
      BY <2>1, <2>2, <3>1, <3>2
  <2> QED
    BY <1>2, <2>1, <2>2
<1>5. ASSUME NEW q \in Partitions PROVE committed[q] <= Past(p)[q]
  <2>1. committed[q] \in Int /\ committed[q] <= next[q]
    BY <1>1 DEF IInv, TypeOK, GroupTypeOK, Offset, NoOffset, CursorsOK
  <2> QED
    BY <1>2, <2>1
<1> QED
  BY <1>2, <1>4, <1>5

LEMMA LedgerCommitting ==
    ASSUME IInv, pc = "committing", NEW p \in Partitions, IsNext(p),
           committed' = Committing(Past(p))
    PROVE  \A q \in Partitions : MovesOn(q)
<1>1. ASSUME NEW q \in Partitions
      PROVE  committed'[q] = committed[q] \/ (committed'[q] = Past(p)[q] /\ Past(p)[q] > next[q])
  BY DEF Committing
<1>2. Joined
  BY DEF Joined
<1>3. \A q \in Partitions : committed[q] \in Int /\ committed[q] <= next[q] /\ next[q] \in Nat
  BY <1>2, AssignedCursors DEF IInv, TypeOK, GroupTypeOK, Offset, NoOffset, CursorsOK
<1> QED
  BY <1>1, <1>3, PastSettled DEF MovesOn

\* Every step is one of the ledger's, or none.
LEMMA LedgerStep == IInv /\ IInv' /\ [Next]_vars => [Ledger!LedgerNext]_(Ledger!ledgerVars)
<1> SUFFICES ASSUME IInv, IInv', [Next]_vars
             PROVE  Ledger!LedgerNext \/ UNCHANGED Ledger!ledgerVars
  OBVIOUS
<1>0. /\ TypeOK'
      /\ UNCHANGED committed => \A p \in Partitions : MovesOn(p)
      /\ UNCHANGED <<handled, dropped, passed>> => \A p \in Partitions : Extends(p)
  <2>1. UNCHANGED <<handled, dropped, passed>> => \A p \in Partitions : Extends(p)
    <3> SUFFICES ASSUME UNCHANGED <<handled, dropped, passed>>, NEW p \in Partitions
                 PROVE  Extends(p)
      OBVIOUS
    <3>1. 0 \in 0 .. LogEnd(p)
      BY DEF IInv, TypeOK, GroupTypeOK, LogEnd
    <3>2. lSettled'[p] = lSettled[p] \cup (0 .. 0 - 1)
      BY DEF lSettled
    <3> QED
      BY <3>1, <3>2 DEF Extends
  <2> QED
    BY <2>1 DEF IInv, MovesOn
<1>1. CASE Assign
  <2>1. UNCHANGED <<log, committed, handled, dropped>>
    BY <1>1 DEF Assign, Join
  <2>2. ASSUME NEW p \in Partitions PROVE Extends(p)
    <3>1. LogEnd(p) \in Nat
      BY DEF IInv, TypeOK, GroupTypeOK, LogEnd
    <3>2. passed'[p] = passed[p] \/ passed'[p] = passed[p] \cup (0 .. LogEnd(p) - 1)
      BY <1>1 DEF Assign, Join
    <3>3. lSettled'[p] = lSettled[p] \cup (0 .. 0 - 1) \/ lSettled'[p] = lSettled[p] \cup (0 .. LogEnd(p) - 1)
      BY <2>1, <3>2 DEF lSettled
    <3>4. 0 \in 0 .. LogEnd(p) /\ LogEnd(p) \in 0 .. LogEnd(p)
      BY <3>1
    <3> QED
      BY <3>3, <3>4 DEF Extends
  <2> QED
    BY <1>0, <2>1, <2>2, LedgerProcess
<1>2. ASSUME NEW p \in Partitions, HandleFails(p) \/ PublishFails(p)
      PROVE  Ledger!LedgerNext
  <2>1. /\ Joined /\ Abandon(next) /\ UNCHANGED <<log, committed, handled>>
    BY <1>2 DEF HandleFails, PublishFails, Abandon, Joined
  <2>2. next \in [Partitions -> Nat]
    BY <2>1, AssignedCursors DEF IInv, TypeOK, GroupTypeOK
  <2>3. \A q \in Partitions : Extends(q)
    BY <2>1, <2>2, BelowNextSettled, LedgerAbandon
  <2> QED
    BY <1>0, <2>1, <2>3, LedgerProcess
<1>3. ASSUME NEW p \in Partitions, Publish(p)
      PROVE  Ledger!LedgerNext
  <2>1. /\ Joined /\ UNCHANGED <<log, committed, dropped, passed>>
        /\ handled' = [handled EXCEPT ![p] = @ \cup {next[p]}]
    BY <1>3 DEF Publish, Joined, groupVars, historyVars
  <2>2. next[p] \in Nat /\ next[p] + 1 \in 0 .. LogEnd(p)
    <3>1. next[p] \in Nat /\ position[p] \in Nat /\ LogEnd(p) \in Nat /\ position[p] <= LogEnd(p)
      BY <2>1, AssignedCursors DEF IInv, CursorsOK, TypeOK, GroupTypeOK, LogEnd
    <3>2. next[p] < position[p]
      BY <1>3, IsNextBelowPosition DEF Publish, IInv, TypeOK
    <3> QED
      BY <3>1, <3>2
  <2>3. lSettled'[p] = lSettled[p] \cup (0 .. (next[p] + 1) - 1)
    <3>1. lSettled'[p] = lSettled[p] \cup {next[p]}
      BY <2>1 DEF lSettled, IInv, TypeOK
    <3>2. {next[p]} = next[p] .. (next[p] + 1) - 1
      BY <2>2
    <3> QED
      BY <2>1, <2>2, <3>1, <3>2, BelowNextSettled, StretchExtended
  <2>4. ASSUME NEW q \in Partitions, q # p PROVE Extends(q)
    <3>1. 0 \in 0 .. LogEnd(q)
      BY DEF IInv, TypeOK, GroupTypeOK, LogEnd
    <3>2. lSettled'[q] = lSettled[q] \cup (0 .. 0 - 1)
      BY <2>1, <2>4 DEF lSettled, IInv, TypeOK
    <3> QED
      BY <3>1, <3>2 DEF Extends
  <2>5. Extends(p)
    BY <2>2, <2>3 DEF Extends
  <2> QED
    BY <1>0, <2>1, <2>4, <2>5, LedgerProcess
<1>4. ASSUME NEW p \in Partitions, Commit(p)
      PROVE  Ledger!LedgerNext
  <2>1. /\ pc = "committing" /\ IsNext(p) /\ committed' = Committing(Past(p))
        /\ UNCHANGED <<log, handled, dropped, passed>>
    BY <1>4 DEF Commit, CommitOffsets, historyVars
  <2> QED
    BY <1>0, <2>1, LedgerCommitting, LedgerProcess
<1>5. ASSUME NEW p \in Partitions, CommitFails(p)
      PROVE  Ledger!LedgerNext
  <2>1. /\ pc = "committing" /\ IsNext(p) /\ committed' \in {committed, Committing(Past(p))}
        /\ Abandon(Past(p)) /\ UNCHANGED <<log, handled>> /\ Joined
    BY <1>5 DEF CommitFails, Abandon, Joined
  <2>2. \A q \in Partitions : Extends(q)
    BY <2>1, PastSettled, LedgerAbandon
  <2>3. \A q \in Partitions : MovesOn(q)
    BY <1>0, <2>1, LedgerCommitting
  <2> QED
    BY <1>0, <2>1, <2>2, <2>3, LedgerProcess
<1>6. ASSUME NEW p \in Partitions, NEW v \in Values, DecisionArrives(p, v)
      PROVE  Ledger!LedgerNext
  BY <1>6, LedgerArrival DEF IInv
<1>7. CASE Start \/ PollBatch \/ StopRequested \/ Close \/ Crash \/ Rebalance
           \/ (\E p \in Partitions : ApplyUpdate(p)) \/ (\E r \in buffer : DeliverStep(r))
           \/ UNCHANGED vars
  <2>1. UNCHANGED <<log, committed, handled, dropped, passed>>
    BY <1>7 DEF Start, PollBatch, Poll, StopRequested, Close, Crash, Rebalance, Leave, ApplyUpdate,
                DeliverStep, Deliver, DeliverFails, vars, groupVars, historyVars
  <2> QED
    BY <2>1, LedgerUnseen
<1> QED
  BY <1>1, <1>2, <1>3, <1>4, <1>5, <1>6, <1>7
     DEF Next, OwnStep, HandleStep, PublishStep, CommitStep

LEMMA LedgerStart == Init => Ledger!LedgerInit
<1> SUFFICES ASSUME Init PROVE Ledger!LedgerInit
  OBVIOUS
<1>1. lArrived = [p \in Partitions |-> 0] /\ lSettled = [p \in Partitions |-> {}]
  BY DEF Init, GroupInit, lArrived, lSettled, LogEnd
<1>2. committed \in [Partitions -> {-1, 0}]
  BY DEF Init, GroupInit, NoOffset
<1> QED
  BY <1>1, <1>2, Zenon DEF Ledger!LedgerInit, Ledger!NoOffset, lArrived, lSettled

\* The consumer implements OffsetLedger: through failing updates, sends and commits,
\* crashes and rebalances it settles the records of a partition in order and leaves
\* no gap, and commits forward and over settled records only (main.py:86-103,
\* kafka_io.py:102-116).
THEOREM LedgerCorrect == Spec => LedgerImplemented
<1>1. IInv /\ IInv' /\ [Next]_vars => [Ledger!LedgerNext]_(Ledger!ledgerVars)
  BY LedgerStep
<1> QED
  BY <1>1, LedgerStart, Invariance, PTL DEF Spec, LedgerImplemented, Ledger!LedgerSpec

-------------------------------------------------------------------------------
\* The loop never stands on nothing: between cycles the batch is used up, so that
\* the next poll may go, and within a cycle there is a record to go on with.
LoopReady ==
    /\ pc = "idle" => BatchEmpty
    /\ pc \in {"handling", "publishing", "committing"} => \E p \in Partitions : IsNext(p)

\* A cycle that handles its batch has a record left.
BatchLeft == pc = "handling" => \E p \in Partitions : next[p] < position[p]

LEMMA NextBatchLeft == IInv /\ BatchLeft /\ [Next]_vars => BatchLeft'
<1> SUFFICES ASSUME IInv, BatchLeft, [Next]_vars, pc' = "handling"
             PROVE  \E p \in Partitions : next'[p] < position'[p]
  BY DEF BatchLeft
<1>1. CASE PollBatch
  <2>1. next' = next /\ \A p \in Partitions : next[p] = position[p]
    BY <1>1 DEF PollBatch, Poll, IInv, CursorsOK
  <2>2. \E p \in Partitions : position'[p] > position[p]
    BY <1>1 DEF PollBatch, Poll
  <2>3. PICK p \in Partitions : position'[p] > position[p]
    BY <2>2
  <2>4. position[p] \in Nat /\ position'[p] \in Int
    <3>1. Joined /\ \A q \in Partitions : position[q] \in Nat
      BY <1>1, AssignedCursors DEF PollBatch, Joined, IInv
    <3>2. GroupTypeOK'
      BY <1>1, <3>1, PollTyped DEF PollBatch, IInv, TypeOK
    <3> QED
      BY <3>1, <3>2 DEF GroupTypeOK, Offset, NoOffset
  <2> QED
    BY <2>1, <2>3, <2>4
<1>2. ASSUME NEW p \in Partitions, Commit(p)
      PROVE  \E q \in Partitions : next'[q] < position'[q]
  BY <1>2 DEF Commit, CommitOffsets
<1>3. CASE pc = "handling" /\ UNCHANGED <<next, position>>
  BY <1>3 DEF BatchLeft
<1>4. CASE ~PollBatch /\ \A p \in Partitions : ~Commit(p)
  <2>1. pc = "handling" /\ UNCHANGED <<next, position>>
    BY <1>4 DEF Next, OwnStep, HandleStep, PublishStep, CommitStep, DeliverStep, Start, Assign,
                ApplyUpdate, HandleFails, Publish, PublishFails, CommitFails, Deliver, DeliverFails,
                StopRequested, Close, Crash, Rebalance, DecisionArrives, Produce, groupVars, vars
  <2> QED
    BY <1>3, <2>1
<1> QED
  BY <1>1, <1>2, <1>4

\* Whatever fails, the consumer can always take its next step, and waits only for
\* records to arrive (main.py:86-103, 137-147).
THEOREM LoopNeverStands == Spec => []LoopReady
<1>1. Init => BatchLeft
  BY DEF Init, BatchLeft
<1>2. ASSUME IInv, BatchLeft PROVE LoopReady
  <2>1. ASSUME pc = "idle" PROVE BatchEmpty
    <3>1. ASSUME NEW p \in Partitions PROVE Pending(p) = {}
      <4>1. next[p] = position[p] /\ position[p] \in Int
        BY <1>2, <2>1 DEF IInv, CursorsOK, TypeOK, GroupTypeOK, Offset, NoOffset
      <4> QED
        BY <4>1 DEF Pending
    <3> QED
      BY <3>1 DEF BatchEmpty
  <2>2. ASSUME pc \in {"handling", "publishing", "committing"} PROVE \E p \in Partitions : IsNext(p)
    <3>1. PICK p \in Partitions : next[p] < position[p]
      BY <1>2, <2>2 DEF BatchLeft, IInv, CurrentOK, TypeOK, GroupTypeOK
    <3>2. next[p] \in Pending(p) /\ serving \in Partitions
      BY <1>2, <3>1 DEF Pending, IInv, TypeOK, GroupTypeOK, Offset, NoOffset
    <3> QED
      BY <3>2 DEF IsNext
  <2> QED
    BY <2>1, <2>2 DEF LoopReady
<1> QED
  BY <1>1, <1>2, NextBatchLeft, Invariance, PTL DEF Spec
-------------------------------------------------------------------------------
\* What the process holds is at most one batch of each partition.
BatchBounded ==
    \A p \in Partitions : position[p] # NoOffset => position[p] <= next[p] + BatchSize

\* The record at offset o of p fell in one cycle with a malformed one, which in the
\* same partition is that record itself or one at most a batch before it.
FellWithMalformed(p, o) ==
    \E q \in Partitions : \E f \in dropped[q] :
        /\ f < LogEnd(q) /\ Record(q, f) \in Malformed
        /\ q = p => o \in f .. f + BatchSize - 1

\* When no call fails it is malformed records that end cycles, and what they take
\* with them is the rest of their batch.
DropsTraced ==
    Faults \cap {"update", "publish", "commit"} = {} =>
        \A p \in Partitions : \A o \in dropped[p] : FellWithMalformed(p, o)

LEMMA NextBatchBounded == IInv /\ BatchBounded /\ [Next]_vars => BatchBounded'
<1> SUFFICES ASSUME IInv, BatchBounded, [Next]_vars, NEW p \in Partitions,
                    position'[p] # NoOffset
             PROVE  position'[p] <= next'[p] + BatchSize
  BY DEF BatchBounded
<1>0. /\ BatchSize \in Nat \ {0} /\ GroupTypeOK
      /\ next[p] \in Int /\ position[p] \in Int
  <2>1. GroupTypeOK
    BY DEF IInv, TypeOK
  <2> QED
    BY <2>1, KafkaGroupAssumption DEF GroupTypeOK, Offset, NoOffset
<1>1. CASE Assign
  <2>1. position'[p] = next'[p] /\ GroupTypeOK'
    BY <1>0, <1>1, JoinTyped DEF Assign
  <2> QED
    BY <1>0, <2>1 DEF GroupTypeOK, Offset, NoOffset
<1>2. CASE PollBatch
  <2>1. \A q \in Partitions : position[q] \in Nat
    BY <1>2, AssignedCursors DEF PollBatch, Joined, IInv
  <2>2. position'[p] <= position[p] + BatchSize /\ next' = next
    BY <1>0, <1>2, <2>1, PollBounded DEF PollBatch, Poll
  <2>3. next[p] = position[p]
    BY <1>2 DEF PollBatch, IInv, CursorsOK
  <2> QED
    BY <2>2, <2>3
<1>3. CASE \E q \in Partitions : Commit(q)
  <2>1. PICK q \in Partitions : Commit(q)
    BY <1>3
  <2>2. Joined
    BY <2>1 DEF Commit, Joined
  <2>3. next'[p] \in {next[p], next[p] + 1} /\ position' = position
    BY <1>0, <2>1, <2>2, PastTyped DEF Commit, CommitOffsets, IInv
  <2> QED
    BY <1>0, <2>3 DEF BatchBounded
<1>4. CASE (\E q \in Partitions : HandleFails(q) \/ PublishFails(q) \/ CommitFails(q))
  <2>1. next' = position /\ position' = position
    BY <1>4 DEF HandleFails, PublishFails, CommitFails, Abandon
  <2> QED
    BY <1>0, <2>1
<1>5. CASE Close \/ Crash \/ Rebalance
  <2>1. position'[p] = NoOffset
    BY <1>0, <1>5, LeaveTyped DEF Close, Crash, Rebalance
  <2> QED
    BY <2>1
<1>6. CASE Start \/ StopRequested \/ (\E q \in Partitions : ApplyUpdate(q) \/ Publish(q))
           \/ (\E r \in buffer : DeliverStep(r))
           \/ (\E q \in Partitions, v \in Values : DecisionArrives(q, v)) \/ UNCHANGED vars
  <2>1. next' = next /\ position' = position
    BY <1>6 DEF Start, StopRequested, ApplyUpdate, Publish, DeliverStep, Deliver, DeliverFails,
                DecisionArrives, Produce, groupVars, vars
  <2> QED
    BY <2>1 DEF BatchBounded
<1> QED
  BY <1>1, <1>2, <1>3, <1>4, <1>5, <1>6
     DEF Next, OwnStep, HandleStep, PublishStep, CommitStep

\* What has fallen with a malformed record has done so for good.
LEMMA FellStays ==
    ASSUME TypeOK, NEW p \in Partitions, NEW o \in Nat, FellWithMalformed(p, o),
           \A q \in Partitions : /\ dropped[q] \subseteq dropped'[q]
                                 /\ LogEnd(q) <= LogEnd(q)' /\ LogEnd(q)' \in Nat
                                 /\ \A i \in DOMAIN log[q] : log'[q][i] = log[q][i]
    PROVE  FellWithMalformed(p, o)'
<1>0. PICK q \in Partitions : \E f \in dropped[q] :
        /\ f < LogEnd(q) /\ Record(q, f) \in Malformed
        /\ q = p => o \in f .. f + BatchSize - 1
  BY DEF FellWithMalformed
<1>1. PICK f \in dropped[q] :
        /\ f < LogEnd(q) /\ Record(q, f) \in Malformed
        /\ q = p => o \in f .. f + BatchSize - 1
  BY <1>0
<1>2. f \in Nat /\ LogEnd(q) \in Nat /\ f + 1 \in DOMAIN log[q]
  BY <1>1 DEF TypeOK, GroupTypeOK, LogEnd
<1>3. f \in dropped'[q] /\ f < LogEnd(q)' /\ Record(q, f)' = Record(q, f)
  BY <1>1, <1>2 DEF Record
<1> QED
  BY <1>1, <1>3 DEF FellWithMalformed

LEMMA NextDropsTraced == IInv /\ BatchBounded /\ DropsTraced /\ [Next]_vars => DropsTraced'
<1> SUFFICES ASSUME IInv, BatchBounded, DropsTraced, [Next]_vars,
                    Faults \cap {"update", "publish", "commit"} = {},
                    NEW p \in Partitions, NEW o \in dropped'[p]
             PROVE  FellWithMalformed(p, o)'
  BY DEF DropsTraced
<1>0. /\ TypeOK /\ GroupTypeOK /\ BatchSize \in Nat \ {0}
      /\ \A q \in Partitions : dropped[q] \subseteq Nat /\ LogEnd(q) \in Nat
  BY KafkaGroupAssumption DEF IInv, TypeOK, GroupTypeOK, LogEnd
<1>1. ASSUME NEW s \in Partitions, HandleFails(s) PROVE FellWithMalformed(p, o)'
  <2>1. Record(s, next[s]) \in Malformed /\ Abandon(next) /\ pc = "handling" /\ IsNext(s)
    BY <1>1 DEF HandleFails
  <2>2. \A q \in Partitions : next[q] \in Nat /\ position[q] \in Nat
    BY <2>1, AssignedCursors DEF Joined, IInv
  <2>3. next[s] < position[s] /\ position[s] <= LogEnd(s)
    BY <1>0, <2>1, IsNextBelowPosition DEF IInv, CursorsOK, Joined
  <2>4. /\ log' = log
        /\ \A q \in Partitions : dropped'[q] = dropped[q] \cup next[q] .. position[q] - 1
    BY <2>1 DEF Abandon
  <2>5. CASE o \in dropped[p]
    <3>1. FellWithMalformed(p, o)
      BY <2>5 DEF DropsTraced
    <3> QED
      BY <1>0, <2>4, <2>5, <3>1, FellStays DEF LogEnd
  <2>6. CASE o \in next[p] .. position[p] - 1
    <3>0. PICK f \in Nat : f = next[s]
      BY <2>2
    <3>1. f \in dropped'[s] /\ f < LogEnd(s)' /\ Record(s, f)' \in Malformed
      <4>1. f < LogEnd(s)
        BY <1>0, <2>2, <2>3, <3>0
      <4>2. f \in next[s] .. position[s] - 1
        BY <2>2, <2>3, <3>0
      <4>3. Record(s, f) \in Malformed
        BY <2>1, <3>0
      <4>4. LogEnd(s)' = LogEnd(s) /\ Record(s, f)' = Record(s, f)
        BY <2>4 DEF LogEnd, Record
      <4> QED
        BY <2>4, <4>1, <4>2, <4>3, <4>4
    <3>2. s = p => o \in f .. f + BatchSize - 1
      <4>1. position[p] <= next[p] + BatchSize
        BY <2>2 DEF BatchBounded, NoOffset
      <4> QED
        BY <1>0, <2>2, <2>6, <3>0, <4>1
    <3> QED
      BY <3>1, <3>2 DEF FellWithMalformed
  <2> QED
    BY <2>4, <2>5, <2>6
<1>2. ASSUME NEW q \in Partitions, NEW v \in Values, DecisionArrives(q, v)
      PROVE  FellWithMalformed(p, o)'
  <2>1. dropped' = dropped /\ Produce(q, v) /\ log' = [log EXCEPT ![q] = Append(@, v)]
    BY <1>2 DEF DecisionArrives, Produce, historyVars
  <2>2. FellWithMalformed(p, o) /\ o \in Nat
    BY <1>0, <2>1 DEF DropsTraced
  <2>3. \A r \in Partitions : LogEnd(r)' \in Nat /\ LogEnd(r) <= LogEnd(r)'
    BY <1>0, <2>1, ProduceTyped
  <2>4. \A r \in Partitions : \A i \in DOMAIN log[r] : log'[r][i] = log[r][i]
    BY <2>1 DEF IInv, TypeOK, GroupTypeOK
  <2> QED
    BY <1>0, <2>1, <2>2, <2>3, <2>4, FellStays
<1>3. CASE UNCHANGED <<log, dropped>>
  <2>1. FellWithMalformed(p, o)
    BY <1>3 DEF DropsTraced
  <2> QED
    BY <1>3, <2>1 DEF FellWithMalformed, LogEnd, Record
<1>4. CASE \/ Start \/ Assign \/ PollBatch \/ StopRequested \/ Close \/ Crash \/ Rebalance
           \/ (\E q \in Partitions : ApplyUpdate(q) \/ Publish(q) \/ Commit(q))
           \/ (\E r \in buffer : DeliverStep(r)) \/ UNCHANGED vars
  <2>1. UNCHANGED <<log, dropped>>
    BY <1>4 DEF Start, Assign, Join, PollBatch, Poll, StopRequested, Close, Crash, Rebalance, Leave,
                ApplyUpdate, Publish, Commit, CommitOffsets, DeliverStep, Deliver, DeliverFails,
                groupVars, historyVars, vars
  <2> QED
    BY <1>3, <2>1
<1>5. \A q \in Partitions : ~PublishFails(q) /\ ~CommitFails(q)
  BY DEF PublishFails, CommitFails
<1> QED
  BY <1>1, <1>2, <1>4, <1>5 DEF Next, OwnStep, HandleStep, PublishStep, CommitStep

\* The loss of a failed cycle is the rest of its batch: where no call fails, each
\* record that left memory unprocessed did so behind a malformed one, and less than
\* batch_size offsets behind it in its partition (main.py:86-101).
THEOREM DropsCorrect == Spec => []DropsTraced
<1>1. Init => BatchBounded /\ DropsTraced
  BY DEF Init, GroupInit, BatchBounded, DropsTraced
<1> QED
  BY <1>1, NextBatchBounded, NextDropsTraced, Invariance, PTL DEF Spec
===============================================================================

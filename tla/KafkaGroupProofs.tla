---------------------------- MODULE KafkaGroupProofs ----------------------------
(***************************************************************************)
(* Facts about the steps of a group member, used by the proofs about the   *)
(* two processes that are members of a group.                              *)
(***************************************************************************)
EXTENDS KafkaGroup, FiniteSetTheorems, TLAPS

\* An interval that starts at a natural number holds natural numbers only.
LEMMA IntervalInNat ==
    ASSUME NEW a \in Nat, NEW b \in Int
    PROVE  a .. b \in SUBSET Nat
  OBVIOUS

\* A batch with a record in it ends behind where it starts.
LEMMA NonEmptyInterval ==
    ASSUME NEW a \in Int, NEW b \in Int, a .. b - 1 # {}
    PROVE  a < b
  OBVIOUS

\* The record the batch loop takes up next lies below the fetch position.
LEMMA IsNextBelowPosition ==
    ASSUME GroupTypeOK, NEW p \in Partitions, IsNext(p)
    PROVE  /\ next[p] < position[p]
           /\ next[serving] < position[serving] => p = serving
<1>1. next[p] \in Int /\ position[p] \in Int /\ next[serving] \in Int /\ position[serving] \in Int
  BY DEF GroupTypeOK, Offset, NoOffset
<1>2. next[p] < position[p]
  BY <1>1, NonEmptyInterval DEF IsNext, Pending
<1>3. ASSUME next[serving] < position[serving] PROVE p = serving
  <2>1. next[serving] \in Pending(serving)
    BY <1>1, <1>3 DEF Pending
  <2> QED
    BY <2>1 DEF IsNext
<1> QED
  BY <1>2, <1>3

\* Appending a record keeps the types and never shortens a log.
LEMMA ProduceTyped ==
    ASSUME GroupTypeOK, NEW p \in Partitions, NEW v \in Values, Produce(p, v)
    PROVE  /\ GroupTypeOK'
           /\ \A q \in Partitions : LogEnd(q)' \in Nat /\ LogEnd(q) <= LogEnd(q)'
  BY DEF GroupTypeOK, Produce, historyVars, LogEnd

\* Resolving the fetch positions gives every partition its start offset.
LEMMA JoinTyped ==
    ASSUME GroupTypeOK, Join
    PROVE  /\ GroupTypeOK'
           /\ \A p \in Partitions : position'[p] = StartOffset(p) /\ next'[p] = StartOffset(p)
<1>1. \A p \in Partitions : StartOffset(p) \in Nat
  BY DEF GroupTypeOK, StartOffset, Offset, NoOffset, LogEnd
<1>2. \A p \in Partitions : LogEnd(p) - 1 \in Int
  BY DEF GroupTypeOK, LogEnd
<1>3. passed' \in [Partitions -> SUBSET Nat]
  BY <1>2, IntervalInNat DEF GroupTypeOK, Join
<1> QED
  BY <1>1, <1>3 DEF GroupTypeOK, Join, Offset

\* Losing the assignment clears the client's cursors and nothing of the broker's.
LEMMA LeaveTyped ==
    ASSUME GroupTypeOK, Leave
    PROVE  /\ GroupTypeOK'
           /\ \A p \in Partitions : position'[p] = NoOffset /\ next'[p] = NoOffset
           /\ UNCHANGED <<log, committed, dropped, passed>>
  BY DEF GroupTypeOK, Leave, Offset, historyVars

\* poll() moves the position forward, at most to the end of the log.
LEMMA PollTyped ==
    ASSUME GroupTypeOK, \A p \in Partitions : position[p] \in Nat, Poll
    PROVE  /\ GroupTypeOK'
           /\ \A p \in Partitions : /\ position[p] <= position'[p]
                                    /\ position'[p] <= LogEnd(p)
           /\ UNCHANGED <<log, committed, next, dropped, passed>>
<1>1. PICK upto \in [Partitions -> 0 .. MaxLog] :
        /\ \A p \in Partitions : upto[p] \in position[p] .. LogEnd(p)
        /\ position' = upto
        /\ polled' = [p \in Partitions |-> polled[p] \cup position[p] .. upto[p] - 1]
        /\ serving' \in {p \in Partitions : upto[p] > position[p]}
  BY DEF Poll
<1>2. \A p \in Partitions : LogEnd(p) \in Nat
  BY DEF GroupTypeOK, LogEnd
<1>3. \A p \in Partitions : upto[p] \in Nat /\ position[p] <= upto[p] /\ upto[p] <= LogEnd(p)
  BY <1>1, <1>2
<1>4. \A p \in Partitions : position[p] .. upto[p] - 1 \in SUBSET Nat
  BY <1>3, IntervalInNat
<1>5. polled' \in [Partitions -> SUBSET Nat]
  BY <1>1, <1>4 DEF GroupTypeOK
<1>6. position' \in [Partitions -> Offset]
  BY <1>1, <1>3 DEF Offset
<1> QED
  BY <1>1, <1>3, <1>5, <1>6 DEF GroupTypeOK, Poll

\* poll(max_records) bounds what is fetched of a single partition, too.
LEMMA PollBounded ==
    ASSUME GroupTypeOK, \A p \in Partitions : position[p] \in Nat, Poll,
           NEW p \in Partitions
    PROVE  position'[p] <= position[p] + BatchSize
<1>1. PICK upto \in [Partitions -> 0 .. MaxLog] :
        /\ upto[p] \in position[p] .. LogEnd(p)
        /\ Cardinality({r \in Partitions \X (0 .. MaxLog) :
                          r[2] \in position[r[1]] .. upto[r[1]] - 1}) \in 1 .. BatchSize
        /\ position' = upto
  BY DEF Poll
<1> DEFINE all == {r \in Partitions \X (0 .. MaxLog) : r[2] \in position[r[1]] .. upto[r[1]] - 1}
           mine == {p} \X (position[p] .. upto[p] - 1)
<1>2. BatchSize \in Nat /\ MaxLog \in Nat /\ upto[p] \in Nat /\ upto[p] <= MaxLog
  BY KafkaGroupAssumption
<1>3. IsFiniteSet(all)
  <2>1. IsFiniteSet(Partitions \X (0 .. MaxLog))
    <3>1. IsFiniteSet(Partitions) /\ IsFiniteSet(0 .. MaxLog)
      <4>1. 0 \in Int /\ MaxLog \in Int
        BY <1>2
      <4> QED
        BY <4>1, KafkaGroupAssumption, FS_Interval
    <3> QED
      BY <3>1, FS_Product
  <2> QED
    BY <2>1, FS_Subset
<1>4. mine \subseteq all
  BY <1>2
<1>5. Cardinality(mine) = Cardinality(position[p] .. upto[p] - 1)
  <2>1. IsFiniteSet({p}) /\ Cardinality({p}) = 1
    BY FS_Singleton
  <2>2. /\ IsFiniteSet(position[p] .. upto[p] - 1)
        /\ Cardinality(position[p] .. upto[p] - 1) \in Nat
    <3>1. position[p] \in Int /\ upto[p] - 1 \in Int
      BY <1>2
    <3>2. IsFiniteSet(position[p] .. upto[p] - 1)
      BY <3>1, FS_Interval
    <3> QED
      BY <3>2, FS_CardinalityType
  <2>3. Cardinality(mine) = 1 * Cardinality(position[p] .. upto[p] - 1)
    BY <2>1, <2>2, FS_Product
  <2> QED
    BY <2>2, <2>3
<1>6. Cardinality(mine) <= Cardinality(all) /\ Cardinality(all) <= BatchSize
  BY <1>1, <1>2, <1>3, <1>4, FS_Subset
<1>7. Cardinality(position[p] .. upto[p] - 1) =
        IF position[p] > upto[p] - 1 THEN 0 ELSE (upto[p] - 1) - position[p] + 1
  <2>1. position[p] \in Int /\ upto[p] - 1 \in Int
    BY <1>2
  <2> QED
    BY <2>1, FS_Interval
<1>8. Cardinality(all) \in Nat
  BY <1>3, FS_CardinalityType
<1> HIDE DEF all, mine
<1> QED
  BY <1>1, <1>2, <1>5, <1>6, <1>7, <1>8

\* What commit_offsets sends is an offset for every partition.
LEMMA CommittingTyped ==
    ASSUME GroupTypeOK, NEW upto \in [Partitions -> Nat]
    PROVE  Committing(upto) \in [Partitions -> Offset]
  BY DEF GroupTypeOK, Committing, Offset, NoOffset

\* Committing keeps the types.
LEMMA CommitOffsetsTyped ==
    ASSUME GroupTypeOK, NEW upto \in [Partitions -> Nat], CommitOffsets(upto)
    PROVE  GroupTypeOK'
  BY CommittingTyped DEF GroupTypeOK, CommitOffsets, historyVars, Offset

\* A failed cycle keeps the types.
LEMMA AbandonTyped ==
    ASSUME GroupTypeOK, \A p \in Partitions : position[p] \in Nat,
           NEW upto \in [Partitions -> Nat], Abandon(upto),
           committed' \in [Partitions -> Offset]
    PROVE  GroupTypeOK'
<1>1. \A p \in Partitions : upto[p] .. position[p] - 1 \in SUBSET Nat
  BY IntervalInNat
<1>2. dropped' \in [Partitions -> SUBSET Nat]
  BY <1>1 DEF GroupTypeOK, Abandon
<1> QED
  BY <1>2 DEF GroupTypeOK, Abandon

\* What follows a settled stretch without a gap makes it longer.
LEMMA StretchExtended ==
    ASSUME NEW S, NEW a \in Nat, NEW b \in Nat, 0 .. a - 1 \subseteq S
    PROVE  S \cup (a .. b - 1) = S \cup (0 .. b - 1)
<1>1. ASSUME NEW x \in 0 .. b - 1 PROVE x \in S \cup (a .. b - 1)
  <2>1. x \in 0 .. a - 1 \/ x \in a .. b - 1
    OBVIOUS
  <2> QED
    BY <2>1
<1>2. a .. b - 1 \subseteq 0 .. b - 1
  OBVIOUS
<1> QED
  BY <1>1, <1>2
===============================================================================

---------------------------- MODULE OutboundProofs ----------------------------
(***************************************************************************)
(* Proofs about Outbound for every topic, batch size, number of attempts,  *)
(* fault set and number of restarts: type correctness, the exact loss      *)
(* accounting, at-least-once under its conditions, what a crash costs, and *)
(* that forwarding implements OffsetLedger.                                *)
(***************************************************************************)
EXTENDS Outbound, KafkaGroupProofs

Joined == pc \notin {"down", "joining"}

\* The cursors are ordered while the member is assigned and absent otherwise;
\* between cycles the batch is empty.
CursorsOK ==
    \A p \in Partitions :
        /\ committed[p] <= LogEnd(p)
        /\ ~Joined => position[p] = NoOffset /\ next[p] = NoOffset
        /\ Joined => /\ 0 <= next[p]
                     /\ committed[p] <= next[p]
                     /\ next[p] <= position[p]
                     /\ position[p] <= LogEnd(p)
        /\ pc = "idle" => next[p] = position[p]

\* Only a batch the API has accepted is committed.
BatchReceived ==
    pc = "committing" => \A p \in Partitions : Pending(p) \subseteq received[p]

\* Everything below the frontier has been disposed of.
FrontierAccounted ==
    \A p \in Partitions : \A o \in Nat :
        o < Frontier(p) => o \in received[p] \cup dropped[p] \cup passed[p]

\* Only a call that ran out of attempts drops, only a missing offset skips.
LossesExplained ==
    \A p \in Partitions :
        /\ "post" \notin Faults => dropped[p] = {}
        /\ p \notin Fresh => committed[p] # NoOffset /\ passed[p] = {}

IInv ==
    /\ TypeOK
    /\ CursorsOK
    /\ BatchReceived
    /\ FrontierAccounted
    /\ LossesExplained

\* An assigned member's cursors are natural numbers, not the missing offset.
LEMMA AssignedCursors ==
    ASSUME TypeOK, CursorsOK, Joined
    PROVE  /\ next \in [Partitions -> Nat] /\ position \in [Partitions -> Nat]
           /\ \A p \in Partitions : Pending(p) \in SUBSET Nat
<1>1. \A p \in Partitions : next[p] \in Nat /\ position[p] \in Nat
  BY DEF TypeOK, GroupTypeOK, CursorsOK, Offset, NoOffset
<1>2. \A p \in Partitions : Pending(p) \in SUBSET Nat
  BY <1>1, IntervalInNat DEF Pending
<1> QED
  BY <1>1, <1>2 DEF TypeOK, GroupTypeOK

\* What the API knows after a request it took in.
LEMMA ReceivedTyped ==
    ASSUME TypeOK, CursorsOK, Joined
    PROVE  /\ ReceivedToo \in [Partitions -> SUBSET Nat]
           /\ \A p \in Partitions : /\ received[p] \subseteq ReceivedToo[p]
                                    /\ Pending(p) \subseteq ReceivedToo[p]
  BY AssignedCursors DEF TypeOK, ReceivedToo

\* The invariant holds before the process is first started.
LEMMA InitIInv == Init => IInv
  BY KafkaGroupAssumption, OutboundAssumption
     DEF Init, GroupInit, IInv, TypeOK, GroupTypeOK, CursorsOK, BatchReceived,
         FrontierAccounted, LossesExplained, Joined, Frontier, LogEnd, NoOffset, Offset

\* Steps that move no cursor, lose nothing and keep what the API was sent: they
\* can disturb the invariant only in what the process is about to do.
LEMMA UntouchedCursors ==
    ASSUME IInv, UNCHANGED <<log, committed, position, next, dropped, passed>>,
           \A p \in Partitions : received[p] \subseteq received'[p],
           Joined' <=> Joined,
           pc' = "idle" => pc = "idle"
    PROVE  CursorsOK' /\ FrontierAccounted' /\ LossesExplained'
<1>1. CursorsOK'
  BY DEF IInv, CursorsOK, LogEnd
<1>2. FrontierAccounted'
  <2> SUFFICES ASSUME NEW p \in Partitions, NEW o \in Nat, o < Frontier(p)
               PROVE  o \in received'[p] \cup dropped[p] \cup passed[p]
    BY DEF FrontierAccounted, Frontier
  <2> QED
    BY DEF IInv, FrontierAccounted
<1>3. LossesExplained'
  BY DEF IInv, LossesExplained
<1> QED
  BY <1>1, <1>2, <1>3

\* Losing the assignment, in a stop, a crash or a rebalance: the frontier falls
\* back to the committed offset, which never was ahead of it.
LEMMA LostAssignment ==
    ASSUME IInv, Leave, pc' \in {"down", "joining"}, received' = received
    PROVE  GroupTypeOK' /\ CursorsOK' /\ BatchReceived' /\ FrontierAccounted' /\ LossesExplained'
<1> USE DEF IInv, LogEnd, NoOffset
<1>1. /\ GroupTypeOK'
      /\ \A p \in Partitions : position'[p] = NoOffset /\ next'[p] = NoOffset
      /\ log' = log /\ committed' = committed /\ dropped' = dropped /\ passed' = passed
  BY LeaveTyped DEF TypeOK
<1>2. CursorsOK'
  BY <1>1 DEF CursorsOK, Joined
<1>3. FrontierAccounted'
  <2> SUFFICES ASSUME NEW p \in Partitions, NEW o \in Nat, o < committed[p]
               PROVE  o \in received[p] \cup dropped[p] \cup passed[p]
    BY <1>1 DEF FrontierAccounted, Frontier
  <2>1. committed[p] \in Int /\ next[p] \in Int
    BY DEF TypeOK, GroupTypeOK, Offset
  <2>2. next[p] # NoOffset => committed[p] <= next[p]
    BY DEF CursorsOK
  <2> QED
    BY <2>1, <2>2 DEF FrontierAccounted, Frontier
<1>4. LossesExplained'
  BY <1>1 DEF LossesExplained
<1> QED
  BY <1>1, <1>2, <1>3, <1>4 DEF BatchReceived

\* Every step keeps the invariant: one step of the proof per action, one leaf per
\* conjunct.
LEMMA NextIInv == IInv /\ [Next]_vars => IInv'
<1> SUFFICES ASSUME IInv, [Next]_vars PROVE IInv'
  OBVIOUS
<1> USE DEF IInv, LogEnd, NoOffset, groupVars, historyVars
<1>1. CASE Start
  <2>1. /\ UNCHANGED <<log, committed, position, next, dropped, passed, received>>
        /\ Joined' <=> Joined
        /\ pc' # "idle"
    BY <1>1 DEF Start, Joined
  <2>2. TypeOK' /\ BatchReceived'
    BY <1>1 DEF Start, TypeOK, GroupTypeOK, BatchReceived
  <2> QED
    BY <2>1, <2>2, UntouchedCursors
<1>2. CASE Assign
  <2>1. /\ GroupTypeOK'
        /\ \A p \in Partitions : position'[p] = StartOffset(p) /\ next'[p] = StartOffset(p)
    BY <1>2, JoinTyped DEF Assign, TypeOK
  <2>2. ~Joined /\ Joined' /\ \A p \in Partitions : next[p] = NoOffset
    BY <1>2 DEF Assign, Joined, CursorsOK
  <2>3. TypeOK'
    BY <1>2, <2>1 DEF Assign, Join, TypeOK
  <2>4. CursorsOK'
    BY <1>2, <2>1 DEF Assign, Join, StartOffset, TypeOK, GroupTypeOK, Offset, CursorsOK, Joined
  <2>5. FrontierAccounted'
    BY <1>2, <2>1, <2>2
       DEF Assign, Join, StartOffset, TypeOK, GroupTypeOK, Offset, FrontierAccounted, Frontier
  <2>6. LossesExplained'
    BY <1>2 DEF Assign, Join, TypeOK, GroupTypeOK, LossesExplained
  <2> QED
    BY <1>2, <2>3, <2>4, <2>5, <2>6 DEF Assign, BatchReceived
<1>3. CASE PollBatch
  <2>1. Joined /\ \A p \in Partitions : position[p] \in Nat
    BY <1>3, AssignedCursors DEF PollBatch, Joined
  <2>2. /\ GroupTypeOK'
        /\ \A p \in Partitions : position[p] <= position'[p] /\ position'[p] <= LogEnd(p)
        /\ UNCHANGED <<log, committed, next, dropped, passed>>
    BY <1>3, <2>1, PollTyped DEF PollBatch, TypeOK
  <2>3. TypeOK'
    BY <1>3, <2>2 DEF PollBatch, TypeOK
  <2>4. CursorsOK'
    BY <1>3, <2>1, <2>2 DEF PollBatch, TypeOK, GroupTypeOK, Offset, CursorsOK, Joined
  <2>5. FrontierAccounted'
    BY <1>3, <2>2 DEF PollBatch, FrontierAccounted, Frontier
  <2>6. LossesExplained'
    BY <2>2 DEF LossesExplained
  <2> QED
    BY <1>3, <2>3, <2>4, <2>5, <2>6 DEF PollBatch, BatchReceived
<1>4. CASE PostAccepted \/ PostRetried
  <2>1. Joined /\ received' \in {received, ReceivedToo}
    BY <1>4 DEF PostAccepted, PostRetried, Joined
  <2>2. received' \in [Partitions -> SUBSET Nat] /\ \A p \in Partitions : received[p] \subseteq received'[p]
    BY <2>1, ReceivedTyped DEF TypeOK
  <2>3. /\ UNCHANGED <<log, committed, position, next, dropped, passed>>
        /\ Joined' <=> Joined
        /\ pc' # "idle"
    BY <1>4 DEF PostAccepted, PostRetried, Joined
  <2>4. TypeOK'
    BY <1>4, <2>2, OutboundAssumption DEF PostAccepted, PostRetried, TypeOK, GroupTypeOK
  <2>5. BatchReceived'
    <3>1. \A p \in Partitions : Pending(p)' = Pending(p)
      BY <2>3 DEF Pending
    <3>2. pc' = "committing" => received' = ReceivedToo
      BY <1>4 DEF PostAccepted, PostRetried
    <3> QED
      BY <2>1, <3>1, <3>2, ReceivedTyped DEF BatchReceived
  <2> QED
    BY <2>2, <2>3, <2>4, <2>5, UntouchedCursors
<1>5. CASE PostGivenUp
  <2>1. /\ Joined /\ Abandon(next) /\ pc' = "idle"
        /\ received' \in {received, ReceivedToo} /\ attempt' = 0
        /\ UNCHANGED <<committed, leaves>>
    BY <1>5 DEF PostGivenUp, Joined
  <2>2. /\ next \in [Partitions -> Nat] /\ position \in [Partitions -> Nat]
        /\ \A p \in Partitions : LogEnd(p) \in Nat /\ committed[p] \in Int
    BY <2>1, AssignedCursors DEF TypeOK, GroupTypeOK, Offset
  <2>3. received' \in [Partitions -> SUBSET Nat] /\ \A p \in Partitions : received[p] \subseteq received'[p]
    BY <2>1, ReceivedTyped DEF TypeOK
  <2>4. TypeOK'
    <3>1. GroupTypeOK'
      BY <2>1, <2>2, AbandonTyped DEF TypeOK, GroupTypeOK
    <3> QED
      BY <2>1, <2>3, <3>1, OutboundAssumption DEF TypeOK
  <2>5. CursorsOK'
    BY <2>1, <2>2 DEF Abandon, CursorsOK, Joined
  <2>6. FrontierAccounted'
    <3> SUFFICES ASSUME NEW q \in Partitions, NEW o \in Nat, o < position[q]
                 PROVE  o \in received'[q] \cup dropped'[q] \cup passed[q]
      BY <2>1, <2>2 DEF Abandon, FrontierAccounted, Frontier
    <3>1. CASE o < next[q]
      BY <2>1, <2>2, <2>3, <3>1 DEF Abandon, FrontierAccounted, Frontier
    <3>2. CASE next[q] <= o
      BY <2>1, <2>2, <3>2 DEF Abandon
    <3> QED
      BY <2>2, <3>1, <3>2
  <2>7. LossesExplained'
    BY <1>5 DEF PostGivenUp, Abandon, LossesExplained
  <2> QED
    BY <2>1, <2>4, <2>5, <2>6, <2>7 DEF BatchReceived
<1>6. CASE CommitStep
  <2>1. /\ Joined /\ pc = "committing" /\ pc' = "idle" /\ Joined'
        /\ next' = position
        /\ committed' \in {committed, Committing(position)}
        /\ \A q \in Partitions : dropped'[q] = dropped[q]
        /\ UNCHANGED <<log, position, serving, polled, passed, attempt, received, leaves>>
    <3>1. CASE CommitBatch
      BY <3>1 DEF CommitBatch, CommitOffsets, Joined
    <3>2. CASE CommitFails
      <4>1. \A q \in Partitions : position[q] .. position[q] - 1 = {}
        BY <3>2, AssignedCursors DEF CommitFails, Joined
      <4> QED
        BY <3>2, <4>1 DEF CommitFails, Abandon, Joined
    <3> QED
      BY <1>6, <3>1, <3>2 DEF CommitStep
  <2>2. /\ next \in [Partitions -> Nat] /\ position \in [Partitions -> Nat]
        /\ \A p \in Partitions : LogEnd(p) \in Nat /\ committed[p] \in Int
    BY <2>1, AssignedCursors DEF TypeOK, GroupTypeOK, Offset
  <2>3. /\ committed' \in [Partitions -> Offset]
        /\ \A q \in Partitions : /\ committed'[q] = committed[q] \/ committed'[q] = position[q]
                                 /\ committed[q] <= position[q]
    <3>1. committed \in [Partitions -> Offset] /\ Committing(position) \in [Partitions -> Offset]
      BY <2>2, CommittingTyped DEF TypeOK, GroupTypeOK
    <3>2. \A q \in Partitions :
            Committing(position)[q] = committed[q] \/ Committing(position)[q] = position[q]
      BY DEF Committing
    <3>3. \A q \in Partitions : committed[q] <= position[q]
      BY <2>1, <2>2 DEF CursorsOK
    <3> QED
      BY <2>1, <3>1, <3>2, <3>3
  <2>4. TypeOK'
    <3>1. dropped' \in [Partitions -> SUBSET Nat]
      <4>1. DOMAIN dropped' = Partitions /\ dropped' = [q \in Partitions |-> dropped'[q]]
        BY <1>6 DEF CommitStep, CommitBatch, CommitFails, CommitOffsets, Abandon, TypeOK, GroupTypeOK
      <4> QED
        BY <2>1, <4>1 DEF TypeOK, GroupTypeOK
    <3> QED
      BY <2>1, <2>3, <3>1 DEF TypeOK, GroupTypeOK
  <2>5. CursorsOK'
    BY <2>1, <2>2, <2>3 DEF CursorsOK
  <2>6. FrontierAccounted'
    <3> SUFFICES ASSUME NEW q \in Partitions, NEW o \in Nat, o < position[q]
                 PROVE  o \in received[q] \cup dropped[q] \cup passed[q]
      BY <2>1, <2>2 DEF FrontierAccounted, Frontier
    <3>1. CASE o < next[q]
      BY <2>2, <3>1 DEF FrontierAccounted, Frontier
    <3>2. CASE next[q] <= o
      <4>1. o \in Pending(q)
        BY <2>2, <3>2 DEF Pending
      <4> QED
        BY <2>1, <4>1 DEF BatchReceived
    <3> QED
      BY <2>2, <3>1, <3>2
  <2>7. LossesExplained'
    BY <2>1, <2>2, <2>3 DEF LossesExplained
  <2> QED
    BY <2>1, <2>4, <2>5, <2>6, <2>7 DEF BatchReceived
<1>7. CASE Stop \/ Crash \/ Rebalance
  <2>1. Leave /\ pc' \in {"down", "joining"} /\ received' = received
    BY <1>7 DEF Stop, Crash, Rebalance
  <2>2. GroupTypeOK' /\ CursorsOK' /\ BatchReceived' /\ FrontierAccounted' /\ LossesExplained'
    BY <2>1, LostAssignment
  <2>3. TypeOK'
    BY <1>7, <2>2, OutboundAssumption DEF Stop, Crash, Rebalance, TypeOK
  <2> QED
    BY <2>2, <2>3
<1>8. ASSUME NEW p \in Partitions, NEW v \in Values, CandidateArrives(p, v) PROVE IInv'
  <2>1. /\ GroupTypeOK'
        /\ \A q \in Partitions : LogEnd(q)' \in Nat /\ LogEnd(q) <= LogEnd(q)'
    BY <1>8, ProduceTyped DEF CandidateArrives, TypeOK
  <2>2. UNCHANGED <<committed, position, next, dropped, passed, pc, received>>
    BY <1>8 DEF CandidateArrives, Produce
  <2>3. TypeOK'
    BY <1>8, <2>1 DEF CandidateArrives, TypeOK
  <2>4. CursorsOK'
    <3>1. \A q \in Partitions : LogEnd(q) \in Nat /\ committed[q] \in Int /\ position[q] \in Int
      BY DEF TypeOK, GroupTypeOK, Offset
    <3> HIDE DEF LogEnd
    <3> QED
      BY <2>1, <2>2, <3>1 DEF CursorsOK, Joined
  <2>5. FrontierAccounted' /\ BatchReceived' /\ LossesExplained'
    BY <2>2 DEF FrontierAccounted, Frontier, BatchReceived, Pending, LossesExplained
  <2> QED
    BY <2>3, <2>4, <2>5
<1>9. CASE UNCHANGED vars
  <2>1. /\ UNCHANGED <<log, committed, position, next, dropped, passed, received>>
        /\ Joined' <=> Joined
        /\ pc' = "idle" => pc = "idle"
    BY <1>9 DEF vars, Joined
  <2>2. TypeOK' /\ BatchReceived'
    BY <1>9 DEF vars, TypeOK, GroupTypeOK, BatchReceived, Pending
  <2> QED
    BY <2>1, <2>2, UntouchedCursors
<1> QED
  BY <1>1, <1>2, <1>3, <1>4, <1>5, <1>6, <1>7, <1>8, <1>9 DEF Next, PostStep

\* The invariant the theorems below rest on holds in every reachable state.
THEOREM Invariance == Spec => []IInv
<1>1. Init => IInv
  BY InitIInv
<1>2. IInv /\ [Next]_vars => IInv'
  BY NextIInv
<1> QED
  BY <1>1, <1>2, PTL DEF Spec

\* Every variable keeps its type: in particular the attempts of one
\* submit_candidates call never exceed max_retries, whatever the API does.
THEOREM TypeCorrect == Spec => []TypeOK
<1>1. IInv => TypeOK
  BY DEF IInv
<1> QED
  BY <1>1, Invariance, PTL

\* What is below a committed offset is below the frontier as well.
LEMMA CommittedBelowFrontier ==
    ASSUME IInv, NEW p \in Partitions, NEW o \in 0 .. committed[p] - 1
    PROVE  o \in Nat /\ o < Frontier(p)
<1>1. committed[p] \in Int /\ next[p] \in Int
  BY DEF IInv, TypeOK, GroupTypeOK, Offset, NoOffset
<1>2. next[p] # NoOffset => committed[p] <= next[p]
  BY DEF IInv, CursorsOK
<1> QED
  BY <1>1, <1>2 DEF Frontier

\* Every candidate below a committed offset was taken in by the FEN API, given up
\* after the last attempt of a cycle, or skipped by the reset to "latest".
THEOREM AccountingCorrect == Spec => []CommittedAccounted
<1>1. IInv => CommittedAccounted
  BY CommittedBelowFrontier DEF IInv, FrontierAccounted, CommittedAccounted
<1> QED
  BY <1>1, Invariance, PTL

\* "At-least-once, never at-most-once", where no call runs out of attempts and the
\* group has an offset: failing commits, crashes, stops and rebalances lose nothing.
THEOREM ForwardingCorrect == Spec => []ForwardedBeforeCommit
<1>1. ASSUME IInv, "post" \notin Faults, NEW p \in Partitions \ Fresh,
             NEW o \in 0 .. committed[p] - 1
      PROVE  o \in received[p]
  <2>1. o \in received[p] \cup dropped[p] \cup passed[p]
    BY <1>1, CommittedBelowFrontier DEF IInv, FrontierAccounted
  <2>2. dropped[p] = {} /\ passed[p] = {}
    BY <1>1 DEF IInv, LossesExplained
  <2> QED
    BY <2>1, <2>2
<1>2. IInv => ForwardedBeforeCommit
  BY <1>1 DEF ForwardedBeforeCommit
<1> QED
  BY <1>2, Invariance, PTL

\* Without refused requests and failing commits an assigned member stands at its
\* committed offset with at most one batch in hand, and that batch is all the API
\* can have seen beyond it.
BatchInHand ==
    Faults \cap {"post", "commit"} = {} =>
        \A p \in Partitions \ Fresh :
            /\ Joined => /\ next[p] = committed[p]
                         /\ position[p] <= next[p] + BatchSize
            /\ \A o \in received[p] : o < committed[p] + BatchSize

\* What a crash, a stop or a rebalance costs: the candidates the API is sent again
\* lie within one batch of the committed offset.
THEOREM RedeliveryBounded == Spec => []RedeliveryWithinBatch
<1>1. Init => BatchInHand
  BY DEF Init, BatchInHand, Joined
<1>2. ASSUME IInv, BatchInHand, [Next]_vars PROVE BatchInHand'
  <2> SUFFICES ASSUME Faults \cap {"post", "commit"} = {}, NEW p \in Partitions \ Fresh
               PROVE  /\ Joined' => /\ next'[p] = committed'[p]
                                    /\ position'[p] <= next'[p] + BatchSize
                      /\ \A o \in received'[p] : o < committed'[p] + BatchSize
    BY DEF BatchInHand
  <2> USE <1>2 DEF IInv, NoOffset, groupVars, historyVars
  <2>1. /\ Joined => next[p] = committed[p] /\ position[p] <= next[p] + BatchSize
        /\ \A o \in received[p] : o < committed[p] + BatchSize
        /\ committed[p] \in Nat /\ BatchSize \in Nat /\ committed[p] # NoOffset
    BY KafkaGroupAssumption DEF BatchInHand, LossesExplained, TypeOK, GroupTypeOK, Offset
  <2>2. Joined => next[p] \in Nat /\ position[p] \in Nat
    BY AssignedCursors
  <2>3. CASE Assign
    BY <2>1, <2>3 DEF Assign, Join, StartOffset
  <2>4. CASE PollBatch
    <3>1. /\ Joined /\ UNCHANGED <<next, committed, received>>
          /\ next[p] = position[p]
      BY <2>4 DEF PollBatch, Poll, Joined, CursorsOK
    <3>2. \A q \in Partitions : position[q] \in Nat
      BY <3>1, AssignedCursors
    <3>3. position'[p] <= position[p] + BatchSize
      BY <2>4, <3>2, PollBounded DEF PollBatch, TypeOK
    <3> QED
      BY <2>1, <3>1, <3>3
  <2>5. CASE PostAccepted
    <3>1. Joined /\ UNCHANGED <<next, committed, position>> /\ received' = ReceivedToo
      BY <2>5 DEF PostAccepted, Joined
    <3>2. received'[p] = received[p] \cup Pending(p)
      BY <3>1 DEF ReceivedToo
    <3>3. \A o \in Pending(p) : o < committed[p] + BatchSize
      BY <2>1, <2>2, <3>1 DEF Pending
    <3> QED
      BY <2>1, <3>1, <3>2, <3>3
  <2>6. CASE CommitBatch
    <3>1. /\ Joined /\ next' = position /\ position' = position /\ received' = received
          /\ committed'[p] = IF position[p] > next[p] THEN position[p] ELSE committed[p]
          /\ next[p] <= position[p]
      BY <2>6 DEF CommitBatch, CommitOffsets, Committing, Joined, CursorsOK
    <3>2. \A o \in received[p] : o \in Nat
      BY DEF TypeOK
    <3> QED
      BY <2>1, <2>2, <3>1, <3>2
  <2>7. ~PostRetried /\ ~PostGivenUp /\ ~CommitFails
    BY DEF PostRetried, PostGivenUp, CommitFails
  <2>8. CASE Start \/ Stop \/ Crash \/ Rebalance
    BY <2>1, <2>8 DEF Start, Stop, Crash, Rebalance, Leave, Joined
  <2>9. ASSUME NEW q \in Partitions, NEW v \in Values, CandidateArrives(q, v)
        PROVE  /\ Joined' => /\ next'[p] = committed'[p]
                             /\ position'[p] <= next'[p] + BatchSize
               /\ \A o \in received'[p] : o < committed'[p] + BatchSize
    BY <2>1, <2>9 DEF CandidateArrives, Produce, Joined
  <2>10. CASE UNCHANGED vars
    BY <2>1, <2>10 DEF vars, Joined
  <2> QED
    BY <2>3, <2>4, <2>5, <2>6, <2>7, <2>8, <2>9, <2>10 DEF Next, PostStep, CommitStep
<1>3. BatchInHand => RedeliveryWithinBatch
  BY DEF BatchInHand, RedeliveryWithinBatch
<1> QED
  BY <1>1, <1>2, <1>3, Invariance, PTL DEF Spec

\* The state of OffsetLedger under the mapping.
lArrived == [p \in Partitions |-> LogEnd(p)]
lSettled == [p \in Partitions |-> received[p] \cup dropped[p] \cup passed[p]]

\* The steps of OffsetLedger under the mapping.
Extends(p) == \E upto \in 0 .. LogEnd(p) : lSettled'[p] = lSettled[p] \cup (0 .. upto - 1)
MovesOn(p) ==
    committed'[p] # committed[p] =>
        committed'[p] > committed[p] /\ 0 .. committed'[p] - 1 \subseteq lSettled[p]

LEMMA LedgerProcess ==
    ASSUME TypeOK', UNCHANGED log, \A p \in Partitions : Extends(p) /\ MovesOn(p)
    PROVE  Ledger!LedgerNext
<1>1. lSettled' \in [Partitions -> SUBSET Nat]
  <2>1. /\ received' \in [Partitions -> SUBSET Nat] /\ dropped' \in [Partitions -> SUBSET Nat]
        /\ passed' \in [Partitions -> SUBSET Nat]
    BY DEF TypeOK, GroupTypeOK
  <2> QED
    BY <2>1 DEF lSettled
<1>2. committed' \in [Partitions -> Nat \cup {-1}]
  BY DEF TypeOK, GroupTypeOK, Offset, NoOffset
<1>3. UNCHANGED lArrived
  BY DEF lArrived, LogEnd
<1>4. ASSUME NEW p \in Partitions PROVE Ledger!Settle(p) /\ Ledger!Commit(p)
  <2>1. lArrived[p] = LogEnd(p)
    BY DEF lArrived
  <2>2. \E upto \in 0 .. lArrived[p] : lSettled'[p] = lSettled[p] \cup (0 .. upto - 1)
    BY <2>1 DEF Extends
  <2>3. MovesOn(p)
    OBVIOUS
  <2>4. Ledger!Settle(p)
    BY <2>2, Zenon DEF Ledger!Settle, lArrived, lSettled
  <2>5. Ledger!Commit(p)
    BY <2>3, Zenon DEF Ledger!Commit, MovesOn, lSettled
  <2> QED
    BY <2>4, <2>5
<1>5. Ledger!Process
  BY <1>1, <1>2, <1>3, <1>4, Zenon DEF Ledger!Process, Ledger!NoOffset, lArrived, lSettled
<1> QED
  BY <1>5 DEF Ledger!LedgerNext

LEMMA LedgerArrival ==
    ASSUME TypeOK, NEW p \in Partitions, NEW v \in Values, CandidateArrives(p, v)
    PROVE  Ledger!LedgerNext
<1>1. /\ log \in [Partitions -> Seq(Values)] /\ log' = [log EXCEPT ![p] = Append(@, v)]
      /\ UNCHANGED <<committed, received, dropped, passed>>
  BY DEF TypeOK, GroupTypeOK, CandidateArrives, Produce, historyVars
<1>2. lArrived' = [lArrived EXCEPT ![p] = @ + 1]
  <2>1. \A q \in Partitions : LogEnd(q)' = IF q = p THEN LogEnd(q) + 1 ELSE LogEnd(q)
    BY <1>1 DEF LogEnd
  <2> QED
    BY <2>1 DEF lArrived
<1>3. UNCHANGED lSettled
  BY <1>1 DEF lSettled
<1>4. Ledger!Arrive(p)
  BY <1>1, <1>2, <1>3, Zenon DEF Ledger!Arrive, lArrived, lSettled
<1> QED
  BY <1>4 DEF Ledger!LedgerNext

\* Steps that settle nothing and commit nothing.
LEMMA LedgerUnseen ==
    ASSUME UNCHANGED <<log, committed, received, dropped, passed>>
    PROVE  UNCHANGED Ledger!ledgerVars
<1>1. UNCHANGED <<lArrived, lSettled>>
  BY DEF lArrived, lSettled, LogEnd
<1> QED
  BY <1>1, Zenon DEF Ledger!ledgerVars, lArrived, lSettled

\* All that is below the cursor of an assigned member is settled.
LEMMA BelowNextSettled ==
    ASSUME IInv, Joined, NEW p \in Partitions
    PROVE  0 .. next[p] - 1 \subseteq lSettled[p]
<1>1. next[p] \in Nat /\ next[p] # NoOffset
  BY AssignedCursors DEF IInv, NoOffset
<1>2. \A o \in 0 .. next[p] - 1 : o \in Nat /\ o < Frontier(p)
  BY <1>1 DEF Frontier
<1> QED
  BY <1>2 DEF IInv, FrontierAccounted, lSettled

\* An assigned member's fetch position lies within the log.
LEMMA PositionArrived ==
    ASSUME IInv, Joined, NEW p \in Partitions
    PROVE  /\ next[p] \in Nat /\ position[p] \in Nat /\ position[p] \in 0 .. LogEnd(p)
           /\ committed[p] \in Int /\ committed[p] <= next[p] /\ next[p] <= position[p]
<1>1. position[p] \in Nat /\ LogEnd(p) \in Nat /\ position[p] <= LogEnd(p)
  BY AssignedCursors DEF IInv, CursorsOK, TypeOK, GroupTypeOK, LogEnd
<1>2. /\ next[p] \in Nat /\ committed[p] \in Int /\ committed[p] <= next[p]
      /\ next[p] <= position[p]
  BY AssignedCursors DEF IInv, CursorsOK, TypeOK, GroupTypeOK, Offset, NoOffset
<1> QED
  BY <1>1, <1>2

\* Settling the batch in hand, as the API's or as given up, leaves no gap.
LEMMA BatchSettled ==
    ASSUME IInv, Joined, NEW p \in Partitions,
           \/ lSettled'[p] = lSettled[p]
           \/ lSettled'[p] = lSettled[p] \cup Pending(p)
    PROVE  Extends(p)
<1>1. next[p] \in Nat /\ position[p] \in Nat /\ position[p] \in 0 .. LogEnd(p) /\ 0 \in 0 .. LogEnd(p)
  <2>1. LogEnd(p) \in Nat
    BY DEF IInv, TypeOK, GroupTypeOK, LogEnd
  <2>2. 0 \in 0 .. LogEnd(p)
    BY <2>1
  <2> QED
    BY <2>2, PositionArrived
<1>2. CASE lSettled'[p] = lSettled[p]
  <2>1. lSettled'[p] = lSettled[p] \cup (0 .. 0 - 1)
    BY <1>2
  <2> QED
    BY <1>1, <2>1 DEF Extends
<1>3. CASE lSettled'[p] = lSettled[p] \cup Pending(p)
  <2>1. lSettled'[p] = lSettled[p] \cup (0 .. position[p] - 1)
    BY <1>1, <1>3, BelowNextSettled, StretchExtended DEF Pending
  <2> QED
    BY <1>1, <2>1 DEF Extends
<1> QED
  BY <1>2, <1>3

\* Committing the batch passes over settled candidates only.
LEMMA LedgerCommitting ==
    ASSUME IInv, pc = "committing", NEW p \in Partitions,
           committed' \in {committed, Committing(position)}
    PROVE  MovesOn(p)
<1>1. Joined
  BY DEF Joined
<1>2. committed'[p] = committed[p] \/ (committed'[p] = position[p] /\ position[p] > next[p])
  BY DEF Committing
<1>3. 0 .. position[p] - 1 \subseteq lSettled[p]
  <2>1. \A o \in 0 .. position[p] - 1 : o \in 0 .. next[p] - 1 \/ o \in Pending(p)
    BY <1>1, PositionArrived DEF Pending
  <2>2. Pending(p) \subseteq lSettled[p]
    BY DEF IInv, BatchReceived, lSettled
  <2> QED
    BY <1>1, <2>1, <2>2, BelowNextSettled
<1> QED
  BY <1>1, <1>2, <1>3, PositionArrived DEF MovesOn

\* Every step is one of the ledger's, or none.
LEMMA LedgerStep == IInv /\ IInv' /\ [Next]_vars => [Ledger!LedgerNext]_(Ledger!ledgerVars)
<1> SUFFICES ASSUME IInv, IInv', [Next]_vars
             PROVE  Ledger!LedgerNext \/ UNCHANGED Ledger!ledgerVars
  OBVIOUS
<1>0. /\ TypeOK'
      /\ UNCHANGED committed => \A p \in Partitions : MovesOn(p)
  BY DEF IInv, MovesOn
<1>1. CASE Assign
  <2>1. UNCHANGED <<log, committed, received, dropped>>
    BY <1>1 DEF Assign, Join
  <2>2. ASSUME NEW p \in Partitions PROVE Extends(p)
    <3>1. LogEnd(p) \in Nat
      BY DEF IInv, TypeOK, GroupTypeOK, LogEnd
    <3>2. passed'[p] = passed[p] \/ passed'[p] = passed[p] \cup (0 .. LogEnd(p) - 1)
      BY <1>1 DEF Assign, Join
    <3>3. lSettled'[p] = lSettled[p] \cup (0 .. 0 - 1) \/ lSettled'[p] = lSettled[p] \cup (0 .. LogEnd(p) - 1)
      BY <2>1, <3>2 DEF lSettled
    <3>4. 0 \in 0 .. LogEnd(p) /\ LogEnd(p) \in 0 .. LogEnd(p)
      BY <3>1
    <3> QED
      BY <3>3, <3>4 DEF Extends
  <2> QED
    BY <1>0, <2>1, <2>2, LedgerProcess
<1>2. CASE PostStep
  <2>1. /\ Joined /\ pc = "posting" /\ UNCHANGED <<log, committed, passed>>
    BY <1>2 DEF PostStep, PostAccepted, PostRetried, PostGivenUp, Abandon, groupVars, Joined
  <2>2. /\ received' \in {received, ReceivedToo}
        /\ dropped' = dropped \/ (Abandon(next))
    BY <1>2 DEF PostStep, PostAccepted, PostRetried, PostGivenUp, groupVars
  <2>3. ASSUME NEW p \in Partitions PROVE Extends(p)
    <3>1. received'[p] = received[p] \/ received'[p] = received[p] \cup Pending(p)
      BY <2>2 DEF ReceivedToo
    <3>2. dropped'[p] = dropped[p] \/ dropped'[p] = dropped[p] \cup Pending(p)
      BY <2>2 DEF Abandon, Pending
    <3>3. lSettled'[p] = lSettled[p] \/ lSettled'[p] = lSettled[p] \cup Pending(p)
      BY <2>1, <3>1, <3>2 DEF lSettled
    <3> QED
      BY <2>1, <3>3, BatchSettled
  <2> QED
    BY <1>0, <2>1, <2>3, LedgerProcess
<1>3. CASE CommitStep
  <2>1. /\ Joined /\ pc = "committing" /\ UNCHANGED <<log, received, passed>>
        /\ committed' \in {committed, Committing(position)}
        /\ dropped' = dropped \/ Abandon(position)
    BY <1>3 DEF CommitStep, CommitBatch, CommitFails, CommitOffsets, Abandon, historyVars, Joined
  <2>2. ASSUME NEW p \in Partitions PROVE Extends(p)
    <3>1. position[p] .. position[p] - 1 = {}
      BY <2>1, PositionArrived
    <3>2. dropped'[p] = dropped[p]
      BY <2>1, <3>1 DEF Abandon
    <3>3. lSettled'[p] = lSettled[p]
      BY <2>1, <3>2 DEF lSettled
    <3> QED
      BY <2>1, <3>3, BatchSettled
  <2>3. \A p \in Partitions : MovesOn(p)
    BY <2>1, LedgerCommitting
  <2> QED
    BY <1>0, <2>1, <2>2, <2>3, LedgerProcess
<1>4. ASSUME NEW p \in Partitions, NEW v \in Values, CandidateArrives(p, v)
      PROVE  Ledger!LedgerNext
  BY <1>4, LedgerArrival DEF IInv
<1>5. CASE Start \/ PollBatch \/ Stop \/ Crash \/ Rebalance \/ UNCHANGED vars
  <2>1. UNCHANGED <<log, committed, received, dropped, passed>>
    BY <1>5 DEF Start, PollBatch, Poll, Stop, Crash, Rebalance, Leave, vars, groupVars, historyVars
  <2> QED
    BY <2>1, LedgerUnseen
<1> QED
  BY <1>1, <1>2, <1>3, <1>4, <1>5 DEF Next

LEMMA LedgerStart == Init => Ledger!LedgerInit
<1> SUFFICES ASSUME Init PROVE Ledger!LedgerInit
  OBVIOUS
<1>1. lArrived = [p \in Partitions |-> 0] /\ lSettled = [p \in Partitions |-> {}]
  BY DEF Init, GroupInit, lArrived, lSettled, LogEnd
<1>2. committed \in [Partitions -> {-1, 0}]
  BY DEF Init, GroupInit, NoOffset
<1> QED
  BY <1>1, <1>2, Zenon DEF Ledger!LedgerInit, Ledger!NoOffset, lArrived, lSettled

\* Forwarding implements OffsetLedger: through refused requests, attempts that are
\* given up, failing commits, crashes and rebalances it settles the candidates of
\* a partition in order, leaves no gap, and commits forward and over settled
\* candidates only (outbound.py:37-63, kafka_io.py:102-116).
THEOREM LedgerCorrect == Spec => LedgerImplemented
<1>1. IInv /\ IInv' /\ [Next]_vars => [Ledger!LedgerNext]_(Ledger!ledgerVars)
  BY LedgerStep
<1> QED
  BY <1>1, LedgerStart, Invariance, PTL DEF Spec, LedgerImplemented, Ledger!LedgerSpec
===============================================================================

------------------------------ MODULE OffsetLedger ------------------------------
(***************************************************************************)
(* What a process that reads a topic with manual commits owes its group,   *)
(* whatever it does with the records and whatever fails: the records of a  *)
(* partition are settled in order and without gaps, only records that have *)
(* arrived are, what is settled stays so, and the committed offset moves   *)
(* forward only, over records that were settled before.                    *)
(*                                                                         *)
(* Which record is settled by being processed and which by being lost, and *)
(* what is done twice, is the affair of ValidationConsumer and Outbound.   *)
(***************************************************************************)
EXTENDS Integers

CONSTANT Partitions

VARIABLES
    arrived,      \* number of records in each partition
    settled,      \* offsets that need no further attention
    committed     \* offset the group resumes from, or NoOffset

ledgerVars == <<arrived, settled, committed>>

NoOffset == -1

LedgerInit ==
    /\ arrived = [p \in Partitions |-> 0]
    /\ settled = [p \in Partitions |-> {}]
    /\ committed \in [Partitions -> {NoOffset, 0}]

Arrive(p) ==
    /\ arrived' = [arrived EXCEPT ![p] = @ + 1]
    /\ UNCHANGED <<settled, committed>>

\* Everything below some offset is settled, nothing else is added.
Settle(p) ==
    \E upto \in 0 .. arrived[p] : settled'[p] = settled[p] \cup 0 .. upto - 1

Commit(p) ==
    committed'[p] # committed[p] =>
        /\ committed'[p] > committed[p]
        /\ 0 .. committed'[p] - 1 \subseteq settled[p]

\* A step of the process settles and commits, in any partitions, or does neither.
Process ==
    /\ settled' \in [Partitions -> SUBSET Nat]
    /\ committed' \in [Partitions -> Nat \cup {NoOffset}]
    /\ \A p \in Partitions : Settle(p) /\ Commit(p)
    /\ UNCHANGED arrived

LedgerNext == (\E p \in Partitions : Arrive(p)) \/ Process

LedgerSpec == LedgerInit /\ [][LedgerNext]_ledgerVars
===============================================================================

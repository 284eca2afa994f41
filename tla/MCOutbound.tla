------------------------------ MODULE MCOutbound ------------------------------
(* Finite instances of Outbound: the payload of a candidate plays no part in  *)
(* forwarding, so one model value stands for all.                             *)
EXTENDS Outbound, TLC

CONSTANTS cand, p1, p2
===============================================================================

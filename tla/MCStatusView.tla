------------------------------ MODULE MCStatusView ------------------------------
(* Finite instances of StatusView. *)
EXTENDS StatusView, TLC

CONSTANTS a1, a2, noId
===============================================================================

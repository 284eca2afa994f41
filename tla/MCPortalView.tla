------------------------------ MODULE MCPortalView ------------------------------
(* Finite instances of PortalView: every constant is a number. *)
EXTENDS PortalView, TLC
===============================================================================

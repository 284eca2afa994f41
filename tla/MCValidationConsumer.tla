------------------------- MODULE MCValidationConsumer -------------------------
(* Finite instances of ValidationConsumer. *)
EXTENDS ValidationConsumer, TLC

CONSTANTS a1, a2, doc, noDoc, p1, p2

Decision(a, d, id) == [annotation_id |-> a, document_id |-> d, decision_id |-> id]

\* One good decision and one whose identifier does not parse.
GoodAndBad == {Decision(a1, doc, 1), Decision(a2, noDoc, 0)}
Bad == {Decision(a2, noDoc, 0)}
===============================================================================

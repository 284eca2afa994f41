--------------------------- MODULE MCDecisionPipeline ---------------------------
(* Finite instances of DecisionPipeline. *)
EXTENDS DecisionPipeline, TLC

CONSTANTS a1, a2, doc, noDoc, p1, p2

Decision(a, d, id) == [annotation_id |-> a, document_id |-> d, decision_id |-> id]

\* A decision, a payload that is not valid and one whose identifiers do not parse.
Good == Decision(a1, doc, 1)
NotValid == Decision(a2, noDoc, 0)
NotReadable == Decision(a2, noDoc, -1)
AllKinds == {Good, NotValid, NotReadable}
Bad == {NotValid, NotReadable}
BadForWebhook == {NotValid}

\* Two that the webhook takes in.
Acceptable == {Good, NotReadable}
BadForConsumer == {NotReadable}
===============================================================================

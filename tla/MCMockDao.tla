------------------------------- MODULE MCMockDao -------------------------------
(* Finite instances of MockDao. *)
EXTENDS MockDao, TLC

CONSTANTS a1, a2, alice, bob, val1, val2, contributor_1

\* Two people who give their names; the names main.py makes up for those who do
\* not.  bob also uses the name of the second anonymous voter in one instance.
People3 == {alice, val1, val2}
People4 == {alice, bob, val1, val2}
DefaultNames == 1 :> val1 @@ 2 :> val2
DefaultNamesToBob == 1 :> val1 @@ 2 :> bob @@ 3 :> val2
NoNames == << >>
Contributor == [a \in Annotations |-> contributor_1]
AliceSubmits == [a \in Annotations |-> IF a = a1 THEN alice ELSE contributor_1]
===============================================================================

------------------------------ MODULE MCTaskTree ------------------------------
(* Instances of TaskTree for TLC.                                           *)
EXTENDS TaskTree

CONSTANTS a1, a2, p1, p2, c1, c2

\* Two trees whose children go to the agent of the other tree's root.
Crossed    == [t \in Task |-> CASE t = c1 -> p1 [] t = c2 -> p2 [] OTHER -> None]
CrossAgent == [t \in Task |-> IF t \in {p1, c2} THEN a1 ELSE a2]
Order      == [t \in Task |-> CASE t = p1 -> 1 [] t = p2 -> 2 [] t = c1 -> 3 [] t = c2 -> 4]
\* One of the children may be tried again.
AgainC1 == [t \in Task |-> IF t = c1 THEN 2 ELSE 1]
OnlyOnce == [t \in Task |-> 1]
=================================================================================

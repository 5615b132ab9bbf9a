------------------------------ MODULE MCExecution ------------------------------
(* Instances of Execution for TLC.                                           *)
EXTENDS Execution

CONSTANTS a1, a2, r1, t1, t2, t3, dir, file

\* Two agents of one Role; a step of a Team, planned for whoever is Primary,
\* and standalone Tasks that name an agent.  A file lies in the directory that
\* another Task may write.
OneRole    == [a \in Agent |-> r1]
TaskRole   == [t \in Task |-> r1]
StepAndAsk == [t \in Task |-> IF t = t1 THEN None ELSE a2]
DirAndFile == [t \in Task |-> IF t = t1 THEN {dir} ELSE {file}]
OnceAndTwice == [t \in Task |-> IF t = t1 THEN 1 ELSE 2]
Nested     == {<<dir, dir>>, <<file, file>>, <<dir, file>>, <<file, dir>>}
================================================================================

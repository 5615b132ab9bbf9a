---------------------------- MODULE MCControllerLife ----------------------------
(***************************************************************************)
(* ControllerLife for TLC: processes of one kind are interchangeable in    *)
(* the runs that check no liveness.                                        *)
(***************************************************************************)
EXTENDS ControllerLife, TLC

Alike == Permutations(Server) \cup Permutations(Migrator) \cup Permutations(Port)
=================================================================================

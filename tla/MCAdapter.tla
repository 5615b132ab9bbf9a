-------------------------------- MODULE MCAdapter --------------------------------
(***************************************************************************)
(* Adapter for TLC: two Attempts of the agent, the first of two segments.  *)
(***************************************************************************)
EXTENDS Adapter

TwoThenOne == <<2, 1>>
=================================================================================

----------------------------- MODULE MCTeamMessages -----------------------------
(***************************************************************************)
(* TeamMessages for TLC: a notice, two requests to reply to it, and a      *)
(* question in the other direction, whose answer meets the notice in the   *)
(* inbox of a2.                                                            *)
(***************************************************************************)
EXTENDS TeamMessages, TLC

CONSTANTS a1, a2, notice, reply, again, question

Senders == notice :> a2 @@ reply :> a1 @@ again :> a1 @@ question :> a2
Receivers == notice :> a1 @@ reply :> a2 @@ again :> a2 @@ question :> a1
Answered == notice :> None @@ reply :> notice @@ again :> notice
=================================================================================

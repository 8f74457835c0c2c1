-------------------------- MODULE MCGroupController --------------------------
(***************************************************************************)
(* GroupController on its own, with every sequence of calls its            *)
(* surroundings allow.  Three players are the fewest with a group that can *)
(* lose two members in one update, and a fourth connection is one too      *)
(* many.                                                                   *)
(***************************************************************************)
EXTENDS GroupController
=============================================================================

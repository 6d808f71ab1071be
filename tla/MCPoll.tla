------------------------------- MODULE MCPoll -------------------------------
(* Instances of Poll for TLC. *)
EXTENDS Poll
=============================================================================

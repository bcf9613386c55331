---------------------------- MODULE MCWrdsClient ----------------------------
(* One client, with or without a sandbox around it, and an operator. *)
EXTENDS WrdsClient
=============================================================================

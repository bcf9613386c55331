---------------------------- MODULE MCWrdsDaemon ----------------------------
(* Instances of WrdsDaemon for TLC. *)
EXTENDS WrdsDaemon
=============================================================================

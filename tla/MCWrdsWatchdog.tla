--------------------------- MODULE MCWrdsWatchdog ---------------------------
(* Instances of WrdsWatchdog for TLC. *)
EXTENDS WrdsWatchdog
=============================================================================

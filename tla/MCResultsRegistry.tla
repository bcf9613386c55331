-------------------------- MODULE MCResultsRegistry --------------------------
(* TLC instance of ResultsRegistry. *)
EXTENDS ResultsRegistry
=============================================================================

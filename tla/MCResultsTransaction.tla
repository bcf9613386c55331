------------------------ MODULE MCResultsTransaction ------------------------
(* TLC instance of ResultsTransaction. *)
EXTENDS ResultsTransaction
=============================================================================

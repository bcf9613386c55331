--------------------------- MODULE MCWrdsSingleton ---------------------------
(* TLC instance of WrdsSingleton. *)
EXTENDS WrdsSingleton, TLC

Symmetry == Permutations(Starters) \cup Permutations(Nets)
=============================================================================

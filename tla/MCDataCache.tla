----------------------------- MODULE MCDataCache -----------------------------
(* Two processes; the initial states choose the helper.                       *)
EXTENDS DataCache, TLC

Interchangeable == Permutations(Callers)
=============================================================================

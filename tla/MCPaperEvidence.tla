--------------------------- MODULE MCPaperEvidence ---------------------------
(* TLC instance of PaperEvidence: the two contents of the paper are alike. *)
EXTENDS PaperEvidence, TLC

Alike == Permutations(Papers)
=============================================================================

-------------------------- MODULE MCVerifierManifest --------------------------
(* Two analyses, a replicator on one of them, one finalizer, one check and    *)
(* one pipeline command.                                                      *)
EXTENDS VerifierManifest
=============================================================================

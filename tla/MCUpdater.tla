------------------------------ MODULE MCUpdater ------------------------------
EXTENDS Updater, TLC

\* Updates are interchangeable: used by the runs without liveness only.
Alike == Permutations(Updates)
=============================================================================

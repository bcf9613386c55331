--------------------------- MODULE MCResultsSandbox ---------------------------
EXTENDS ResultsSandbox
=============================================================================

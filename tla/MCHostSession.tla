--------------------------- MODULE MCHostSession ---------------------------
EXTENDS HostSession, TLC
=============================================================================

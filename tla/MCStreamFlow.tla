---------------------------- MODULE MCStreamFlow ----------------------------
EXTENDS StreamFlow, TLC
=============================================================================

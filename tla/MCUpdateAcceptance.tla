------------------------- MODULE MCUpdateAcceptance -------------------------
EXTENDS UpdateAcceptance
=============================================================================

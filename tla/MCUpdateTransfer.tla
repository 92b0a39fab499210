-------------------------- MODULE MCUpdateTransfer --------------------------
EXTENDS UpdateTransfer, TLC
=============================================================================

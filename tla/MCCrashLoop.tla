----------------------------- MODULE MCCrashLoop -----------------------------
EXTENDS CrashLoop

CONSTANTS s0, s1, s2, rescue, good, bad

MCLimitOf == [i \in Images |-> 2]
=============================================================================

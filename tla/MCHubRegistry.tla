---------------------------- MODULE MCHubRegistry ----------------------------
EXTENDS HubRegistry, TLC

CONSTANTS d1, d2, s3

\* s3 is the service of d2, all others are services of d1.
MCOwner == [s \in Services |-> IF s = s3 THEN d2 ELSE d1]

HubSymmetry ==
    Permutations(Supervisors) \cup Permutations(Tcp) \cup Permutations(Services \ {s3})
=============================================================================

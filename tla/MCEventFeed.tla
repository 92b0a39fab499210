----------------------------- MODULE MCEventFeed -----------------------------
EXTENDS EventFeed, TLC

CONSTANTS d1

\* The follower asks for one device, the workbenches for every event.
MCWatched == [c \in Clients |-> IF c \in Followers THEN d1 ELSE None]
=============================================================================

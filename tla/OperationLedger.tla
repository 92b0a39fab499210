--------------------------- MODULE OperationLedger ---------------------------
(***************************************************************************)
(* What the gateway promises a client about an operation id, with tasks,   *)
(* locks, leases, modes and restarts left out: an id belongs to the first  *)
(* request that used it, its device call starts at most once, and the      *)
(* state it settles in is true of that call and never changes.  One        *)
(* gateway step may advance several ids (a mode switch, a restart).        *)
(***************************************************************************)
EXTENDS Integers

CONSTANTS OpIds, Requests, None, Uncertain

VARIABLES
    fate,   \* absent, queued, started or the state that an id has settled in
    owner,  \* the request that an id belongs to
    calls   \* how often its device call was started

ledger == <<fate, owner, calls>>

LedgerInit ==
    /\ fate = [i \in OpIds |-> "absent"]
    /\ owner = [i \in OpIds |-> None]
    /\ calls = [i \in OpIds |-> 0]

\* A new id: its row is queued, or its call starts at once.
Accept(i) ==
    /\ fate[i] = "absent"
    /\ owner'[i] \in Requests
    /\ \/ fate'[i] = "queued" /\ calls'[i] = calls[i]
       \/ fate'[i] = "started" /\ calls'[i] = calls[i] + 1

\* The call of a queued operation starts.
Start(i) ==
    /\ fate[i] = "queued"
    /\ fate'[i] = "started"
    /\ calls'[i] = calls[i] + 1
    /\ owner'[i] = owner[i]

\* A started operation settles.
Settle(i) ==
    /\ fate[i] = "started"
    /\ \/ fate'[i] \in {"succeeded", "failed", "outcome_unknown"}
       \/ fate'[i] = "interrupted" /\ owner[i] \notin Uncertain
    /\ calls'[i] = calls[i]
    /\ owner'[i] = owner[i]

\* A queued operation is given up before its call.
GiveUp(i) ==
    /\ fate[i] = "queued"
    /\ fate'[i] \in {"cancelled", "interrupted", "outcome_unknown"}
    /\ calls'[i] = calls[i]
    /\ owner'[i] = owner[i]

Keep(i) ==
    /\ fate'[i] = fate[i]
    /\ owner'[i] = owner[i]
    /\ calls'[i] = calls[i]

LedgerNext ==
    \A i \in OpIds : Accept(i) \/ Start(i) \/ Settle(i) \/ GiveUp(i) \/ Keep(i)

LedgerSpec == LedgerInit /\ [][LedgerNext]_ledger

\* execute, _run: the state of a row tells whether the device was called, and a
\* call of an uncertain request never ends as merely interrupted.
CallsMatchRows ==
    \A i \in OpIds :
        /\ fate[i] \in {"absent", "queued", "cancelled"} => calls[i] = 0
        /\ fate[i] \in {"started", "succeeded", "failed"} => calls[i] = 1
        /\ calls[i] \in {0, 1}
        /\ fate[i] = "interrupted" /\ calls[i] = 1 => owner[i] \notin Uncertain
=============================================================================

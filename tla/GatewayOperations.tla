-------------------------- MODULE GatewayOperations --------------------------
(***************************************************************************)
(* The gateway's operation ledger and per-device scheduling: the           *)
(* OperationManager (operations.py), the durable operation and lease rows  *)
(* (store.py), the operating mode and the maintenance leases of            *)
(* GatewayService (gateway.py), orderly shutdown, crash and restart        *)
(* (cli.py).                                                               *)
(*                                                                         *)
(* The gateway is one asyncio loop, so code between two awaits that really *)
(* suspend is one step.  A device lock is an asyncio.Lock: a flag without  *)
(* an owner and a FIFO of waiters; the first takes the lock once the flag  *)
(* is down, a newcomer only when nobody waits.  The FIFO is kept as the    *)
(* set of waiters still ahead of each waiter.                              *)
(***************************************************************************)
EXTENDS Integers, FiniteSets

CONSTANTS
    Tasks,            \* request handlers and background operation tasks
    OpIds,            \* operation ids chosen by clients
    Devices,
    Requests,         \* request fingerprints: device, actor, action, params
    Asked,            \* the pairs of an id and a request that clients send
    DeviceOf,         \* the device a request addresses
    Serialized,       \* requests executed with serialized=True
    Background,       \* requests that go through submit()
    Uncertain,        \* actions a cancelled call leaves outcome_unknown
    RestartUncertain, \* actions a restart turns to outcome_unknown
    Stages,           \* active stages reported by stage() and progress()
    Outcomes,         \* how call() may end: result, error, unknown outcome
    Leases,           \* maintenance lease rows
    Finishers,        \* handlers of a maintenance complete or abort request
    None,             \* no operation, request, lease or device
    MaxStops          \* bound on the number of shutdowns and crashes

Terminal == {"succeeded", "failed", "cancelled", "interrupted", "outcome_unknown"}
ActiveStates == {"queued", "running"} \cup Stages
ActiveLease == {"detached", "flashing", "reattaching", "verifying", "expired_quarantined"}
\* released, aborted and verification_failed: what follows is the same for all three.
ClosedLease == {"ended"}

ASSUME ConstantsAssumption ==
    /\ DeviceOf \in [Requests -> Devices]
    /\ Asked \subseteq OpIds \X Requests
    /\ Serialized \subseteq Requests
    /\ Background \subseteq Serialized
    /\ Uncertain \subseteq RestartUncertain
    /\ RestartUncertain \subseteq Requests
    /\ Outcomes \subseteq {"succeeded", "failed", "outcome_unknown"}
    /\ Stages \cap (Terminal \cup {"queued", "running", "absent"}) = {}
    /\ Tasks \cap Devices = {}
    /\ None \notin OpIds \cup Requests \cup Leases \cup Devices
    /\ MaxStops \in Nat

VARIABLES
    \* durable (SQLite)
    status,      \* status column of an operation row, "absent" if there is none
    rowReq,      \* request_fingerprint column
    lease,       \* state and device columns of a maintenance lease row
    \* volatile (one process)
    phase,       \* "up", "closing", "flushing" or "down"
    pc,          \* where each task stands
    op,          \* the operation id of a task
    req,         \* the request of a task
    cancelled,   \* tasks whose _Pending.cancelled is set
    locked,      \* asyncio.Lock flag per device
    ahead,       \* asyncio.Lock waiters ahead of a task or maintenance acquirer
    maint,       \* maintenance_state() per device
    acquirer,    \* progress of the maintenance acquisition of a device
    finisher,    \* progress of each finish_maintenance() call
    mode,
    modeTransition,
    \* history
    calls,       \* how often call() was started for an operation
    stops,
    late,        \* tasks that created their row in observe mode, since the switch to it
    stale        \* devices whose gate was touched by a finish whose lease another had ended

durable == <<status, rowReq, lease>>
taskVars == <<pc, op, req, cancelled, late>>
lockVars == <<locked, ahead>>
maintVars == <<lease, maint, acquirer, finisher>>
modeVars == <<mode, modeTransition>>
history == <<calls, stops, stale>>
vars == <<status, rowReq, lease, phase, pc, op, req, cancelled, locked, ahead,
          maint, acquirer, finisher, mode, modeTransition, calls, stops, late, stale>>

\* A device stands for its maintenance acquirer, of which there is at most one.
Waiters == Tasks \cup Devices

IdleFinisher == [pc |-> "idle", lease |-> None]
NoLease == [state |-> "absent", dev |-> None]

Init ==
    /\ status = [i \in OpIds |-> "absent"]
    /\ rowReq = [i \in OpIds |-> None]
    /\ lease = [l \in Leases |-> NoLease]
    /\ phase = "up"
    /\ pc = [t \in Tasks |-> "idle"]
    /\ op = [t \in Tasks |-> None]
    /\ req = [t \in Tasks |-> None]
    /\ cancelled = {}
    /\ locked = [d \in Devices |-> FALSE]
    /\ ahead = [w \in Waiters |-> {}]
    /\ maint = [d \in Devices |-> "none"]
    /\ acquirer = [d \in Devices |-> "idle"]
    /\ finisher = [f \in Finishers |-> IdleFinisher]
    /\ mode = "develop"
    /\ modeTransition = FALSE
    /\ calls = [i \in OpIds |-> 0]
    /\ stops = 0
    /\ late = {}
    /\ stale = {}

-----------------------------------------------------------------------------
(* Operation rows. *)

\* operation_transition: a queued operation may start, be cancelled or be
\* given up; any other active state may move anywhere; terminal states are fixed.
LegalTransition(s, target) ==
    \/ s = target /\ s \in ActiveStates
    \/ s = "queued" /\ target \in {"running", "cancelled", "interrupted", "outcome_unknown"}
    \/ s \in ActiveStates \ {"queued"} /\ target \in ActiveStates \cup Terminal

\* OperationManager._transition: an illegal target raises and writes nothing.
Transition(i, target) ==
    status' = IF LegalTransition(status[i], target)
              THEN [status EXCEPT ![i] = target] ELSE status

\* The task's coroutine returns or raises; `finally` pops its pending entry.
Return(t) ==
    /\ pc' = [pc EXCEPT ![t] = "idle"]
    /\ op' = [op EXCEPT ![t] = None]
    /\ req' = [req EXCEPT ![t] = None]
    /\ cancelled' = cancelled \ {t}
    /\ late' = late \ {t}

Dev(t) == DeviceOf[req[t]]

\* store.operation and the INSERT ... ON CONFLICT DO NOTHING of create_operation.
Existing(i) == status[i] # "absent"

\* maintenance_state(device) is not None.
InMaintenance(d) == maint[d] # "none"

\* Mutant: the flag is not looked at once the lock is granted.
MutWasCancelled(t) == FALSE
WasCancelled(t) == t \in cancelled

\* The waiters of a device lock, a newcomer that joins them, one that leaves.
WaitingFor(d) ==
    {t \in Tasks : pc[t] = "waiting" /\ Dev(t) = d}
        \cup {e \in {d} : acquirer[d] = "waiting"}
LockFree(d) == ~locked[d] /\ WaitingFor(d) = {}
Join(w, d) == ahead' = [ahead EXCEPT ![w] = WaitingFor(d)]
Leave(S) == ahead' = [w \in Waiters |-> IF w \in S THEN {} ELSE ahead[w] \ S]
MayTakeLock(w, d) == ~locked[d] /\ ahead[w] = {}

-----------------------------------------------------------------------------
(* Requests and operations. *)

\* A handler passes require_develop() and then awaits the request body.
BeginRequest(t, i, r) ==
    /\ phase = "up"
    /\ mode = "develop"
    /\ pc[t] = "idle"
    /\ pc' = [pc EXCEPT ![t] = "body"]
    /\ op' = [op EXCEPT ![t] = i]
    /\ req' = [req EXCEPT ![t] = r]
    /\ UNCHANGED <<durable, phase, cancelled, late, lockVars, maint, acquirer, finisher,
                   modeVars, history>>

SubmittedElsewhere(t) ==
    \E u \in Tasks \ {t} : pc[u] = "submitted" /\ op[u] = op[t]

\* submit(): register the id and create the background task.
Submit(t) ==
    /\ phase # "down"
    /\ pc[t] = "body"
    /\ req[t] \in Background
    /\ ~InMaintenance(Dev(t))
    /\ ~Existing(op[t])
    /\ ~SubmittedElsewhere(t)
    /\ pc' = [pc EXCEPT ![t] = "submitted"]
    /\ UNCHANGED <<durable, phase, op, req, cancelled, late, lockVars, maint, acquirer,
                   finisher, modeVars, history>>

\* submit() answers with the existing row, or raises: device in maintenance,
\* another request under this id, or a concurrent submission never registered.
SubmitReturns(t) ==
    /\ phase # "down"
    /\ pc[t] = "body"
    /\ req[t] \in Background
    /\ \/ InMaintenance(Dev(t))
       \/ Existing(op[t])
       \/ SubmittedElsewhere(t)
    /\ Return(t)
    /\ UNCHANGED <<durable, phase, lockVars, maint, acquirer, finisher, modeVars,
                   history>>

AtExecute(t) ==
    \/ pc[t] = "body" /\ req[t] \notin Background
    \/ pc[t] = "submitted"

\* execute() raises DeviceMaintenance, or create_operation finds the row: the
\* same request gets it back, another one is a conflict.
ExecuteReturns(t) ==
    /\ phase # "down"
    /\ AtExecute(t)
    /\ InMaintenance(Dev(t)) \/ Existing(op[t])
    /\ Return(t)
    /\ UNCHANGED <<durable, phase, lockVars, maint, acquirer, finisher, modeVars,
                   history>>

\* History: execute() does not look at the mode, its caller did before it read the body.
CreatedLate(t) == IF mode = "observe" THEN late \cup {t} ELSE late

\* execute() inserts the row and runs at once: the operation is not serialized,
\* or the device lock is free and nobody waits for it.
ExecuteRuns(t) ==
    LET i == op[t]
        d == Dev(t)
        serial == req[t] \in Serialized
    IN  /\ phase # "down"
        /\ AtExecute(t)
        /\ ~InMaintenance(d)
        /\ ~Existing(i)
        /\ serial => LockFree(d)
        /\ status' = [status EXCEPT ![i] = "running"]
        /\ rowReq' = [rowReq EXCEPT ![i] = req[t]]
        /\ locked' = [locked EXCEPT ![d] = @ \/ serial]
        /\ pc' = [pc EXCEPT ![t] = "calling"]
        /\ calls' = [calls EXCEPT ![i] = @ + 1]
        /\ late' = CreatedLate(t)
        /\ UNCHANGED <<lease, phase, op, req, cancelled, ahead, maint, acquirer,
                       finisher, modeVars, stops, stale>>

\* execute() inserts the queued row and waits for the device lock.
ExecuteWaits(t) ==
    LET i == op[t]
        d == Dev(t)
    IN  /\ phase # "down"
        /\ AtExecute(t)
        /\ ~InMaintenance(d)
        /\ ~Existing(i)
        /\ req[t] \in Serialized
        /\ ~LockFree(d)
        /\ status' = [status EXCEPT ![i] = "queued"]
        /\ rowReq' = [rowReq EXCEPT ![i] = req[t]]
        /\ Join(t, d)
        /\ pc' = [pc EXCEPT ![t] = "waiting"]
        /\ late' = CreatedLate(t)
        /\ UNCHANGED <<lease, phase, op, req, cancelled, locked, maint, acquirer,
                       finisher, modeVars, calls, stops, stale>>

\* The first waiter gets the lock and _run() starts the device call.
LockGranted(t) ==
    LET d == Dev(t)
    IN  /\ phase # "down"
        /\ pc[t] = "waiting"
        /\ ~WasCancelled(t)
        /\ MayTakeLock(t, d)
        /\ Leave({t})
        /\ locked' = [locked EXCEPT ![d] = TRUE]
        /\ Transition(op[t], "running")
        /\ pc' = [pc EXCEPT ![t] = "calling"]
        /\ calls' = [calls EXCEPT ![op[t]] = @ + 1]
        /\ UNCHANGED <<rowReq, lease, phase, op, req, cancelled, maint, acquirer,
                       finisher, modeVars, stops, late, stale>>

\* The first waiter was cancelled meanwhile: OperationCancelled, lock released.
CancelledReturns(t) ==
    LET d == Dev(t)
    IN  /\ phase # "down"
        /\ pc[t] = "waiting"
        /\ WasCancelled(t)
        /\ MayTakeLock(t, d)
        /\ Leave({t})
        /\ Return(t)
        /\ UNCHANGED <<durable, phase, locked, maint, acquirer, finisher, modeVars,
                       history>>

\* stage() and progress(), called from inside a running background call.
Progress(t, s) ==
    /\ phase # "down"
    /\ pc[t] = "calling"
    /\ req[t] \in Background
    /\ Transition(op[t], s)
    /\ UNCHANGED <<rowReq, lease, phase, taskVars, lockVars, maint, acquirer,
                   finisher, modeVars, history>>

\* call() returns, raises, or leaves its outcome unknown; _run() records it and
\* `async with` releases the lock.
CallEnds(t, outcome) ==
    /\ phase # "down"
    /\ pc[t] = "calling"
    /\ Transition(op[t], outcome)
    /\ locked' = [locked EXCEPT ![Dev(t)] = @ /\ req[t] \notin Serialized]
    /\ Return(t)
    /\ UNCHANGED <<rowReq, lease, phase, ahead, maint, acquirer, finisher,
                   modeVars, history>>

-----------------------------------------------------------------------------
(* Operating mode. *)

\* switch_mode("observe") with cancel_queued().
SwitchToObserve ==
    LET victims == {t \in Tasks : pc[t] = "waiting" /\ t \notin cancelled}
    IN  /\ phase = "up"
        /\ mode = "develop"
        /\ mode' = "observe"
        /\ modeTransition' = TRUE
        /\ cancelled' = cancelled \cup victims
        /\ status' = [i \in OpIds |->
                        IF /\ \E t \in victims : op[t] = i
                           /\ LegalTransition(status[i], "cancelled")
                        THEN "cancelled" ELSE status[i]]
        /\ late' = {}
        /\ UNCHANGED <<rowReq, lease, phase, pc, op, req, lockVars, maint, acquirer,
                       finisher, calls, stops, stale>>

SwitchToDevelop ==
    /\ phase = "up"
    /\ mode = "observe"
    /\ mode' = "develop"
    /\ modeTransition' = FALSE
    /\ late' = {}
    /\ UNCHANGED <<durable, phase, pc, op, req, cancelled, lockVars, maint, acquirer, finisher,
                   history>>

\* _finish_mode_transition() sees no running operation.
FinishModeTransition ==
    /\ phase # "down"
    /\ modeTransition
    /\ \A t \in Tasks : pc[t] # "calling"
    /\ modeTransition' = FALSE
    /\ UNCHANGED <<durable, phase, taskVars, lockVars, maint, acquirer, finisher,
                   mode, history>>

-----------------------------------------------------------------------------
(* Maintenance leases. *)

\* OperationManager.release_maintenance: the lock is released whoever holds it.
ReleaseMaintenance(d) ==
    /\ maint' = [maint EXCEPT ![d] = "none"]
    /\ locked' = [locked EXCEPT ![d] = FALSE]

\* acquire_maintenance with the lock free.
AcquireMaintenance(d) ==
    /\ phase = "up"
    /\ ~InMaintenance(d)
    /\ acquirer[d] = "idle"
    /\ LockFree(d)
    /\ locked' = [locked EXCEPT ![d] = TRUE]
    /\ maint' = [maint EXCEPT ![d] = "active"]
    /\ acquirer' = [acquirer EXCEPT ![d] = "probing"]
    /\ UNCHANGED <<durable, phase, taskVars, ahead, finisher, modeVars, history>>

\* acquire_maintenance behind earlier operations.
AwaitMaintenance(d) ==
    /\ phase = "up"
    /\ ~InMaintenance(d)
    /\ acquirer[d] = "idle"
    /\ ~LockFree(d)
    /\ Join(d, d)
    /\ maint' = [maint EXCEPT ![d] = "pending"]
    /\ acquirer' = [acquirer EXCEPT ![d] = "waiting"]
    /\ UNCHANGED <<durable, phase, taskVars, locked, finisher, modeVars, history>>

MaintenanceGranted(d) ==
    /\ phase # "down"
    /\ acquirer[d] = "waiting"
    /\ MayTakeLock(d, d)
    /\ Leave({d})
    /\ locked' = [locked EXCEPT ![d] = TRUE]
    /\ maint' = [maint EXCEPT ![d] = "active"]
    /\ acquirer' = [acquirer EXCEPT ![d] = "probing"]
    /\ UNCHANGED <<durable, phase, taskVars, finisher, modeVars, history>>

\* wait_for() times out or the handler is cancelled while it waits.
MaintenanceTimeout(d) ==
    /\ phase # "down"
    /\ acquirer[d] = "waiting"
    /\ Leave({d})
    /\ maint' = [maint EXCEPT ![d] = IF @ = "pending" THEN "none" ELSE @]
    /\ acquirer' = [acquirer EXCEPT ![d] = "idle"]
    /\ UNCHANGED <<durable, phase, taskVars, locked, finisher, modeVars, history>>

HasActiveLease(d) == \E l \in Leases : lease[l].dev = d /\ lease[l].state \in ActiveLease

\* Evidence saved, endpoint quiesced, lease row inserted (one active per device).
LeaseCreated(d, l) ==
    /\ phase # "down"
    /\ acquirer[d] = "probing"
    /\ lease[l] = NoLease
    /\ ~HasActiveLease(d)
    /\ lease' = [lease EXCEPT ![l] = [state |-> "detached", dev |-> d]]
    /\ acquirer' = [acquirer EXCEPT ![d] = "idle"]
    /\ UNCHANGED <<status, rowReq, phase, taskVars, lockVars, maint, finisher,
                   modeVars, history>>

\* Any failure after the lock was taken resumes the endpoint and opens the gate.
AcquireFails(d) ==
    /\ phase # "down"
    /\ acquirer[d] = "probing"
    /\ acquirer' = [acquirer EXCEPT ![d] = "idle"]
    /\ ReleaseMaintenance(d)
    /\ UNCHANGED <<durable, phase, taskVars, ahead, finisher, modeVars, history>>

\* renew_maintenance, with _authorized_lease's expiry check.
RenewMaintenance(l, expired) ==
    /\ phase = "up"
    /\ lease[l].state \in ActiveLease
    /\ lease' = [lease EXCEPT ![l].state = CASE expired -> "expired_quarantined"
                                             [] ~expired /\ @ = "detached" -> "flashing"
                                             [] OTHER -> @]
    /\ UNCHANGED <<status, rowReq, phase, taskVars, lockVars, maint, acquirer,
                   finisher, modeVars, history>>

\* History: devices whose gate the finish calls in S touch although their lease was ended by
\* another one.
GatesTouched(S) ==
    {lease[finisher[f].lease].dev : f \in {g \in S :
        finisher[g].pc # "idle" /\ lease[finisher[g].lease].state \notin ActiveLease}}

\* finish_maintenance up to its first await: another call for the same lease may be in flight.
BeginFinish(f, l) ==
    /\ phase = "up"
    /\ finisher[f] = IdleFinisher
    /\ lease[l].state \in ActiveLease
    /\ finisher' = [finisher EXCEPT ![f] = [pc |-> "resuming", lease |-> l]]
    /\ lease' = [lease EXCEPT ![l].state = "reattaching"]
    /\ UNCHANGED <<status, rowReq, phase, taskVars, lockVars, maint, acquirer,
                   modeVars, history>>

\* The endpoint is back: a completion goes on to verify the device, an abort does not.
BeginVerify(f) ==
    LET l == finisher[f].lease
    IN  /\ phase # "down"
        /\ finisher[f].pc = "resuming"
        /\ \A m \in Leases \ {l} :
               ~(lease[m].dev = lease[l].dev /\ lease[m].state \in ActiveLease)
        /\ lease' = [lease EXCEPT ![l].state = "verifying"]
        /\ finisher' = [finisher EXCEPT ![f].pc = "verifying"]
        /\ stale' = stale \cup GatesTouched({f})
        /\ UNCHANGED <<status, rowReq, phase, taskVars, lockVars, maint, acquirer,
                       modeVars, calls, stops>>

\* finish_maintenance ends: aborted, verified, or failed at either await; the
\* `finally` opens the gate.
EndFinish(f) ==
    LET l == finisher[f].lease
    IN  /\ phase # "down"
        /\ finisher[f].pc # "idle"
        /\ lease' = [lease EXCEPT ![l].state = "ended"]
        /\ finisher' = [finisher EXCEPT ![f] = IdleFinisher]
        /\ ReleaseMaintenance(lease[l].dev)
        /\ stale' = stale \cup GatesTouched({f})
        /\ UNCHANGED <<status, rowReq, phase, taskVars, ahead, acquirer, modeVars,
                       calls, stops>>

-----------------------------------------------------------------------------
(* Shutdown, crash and restart. *)

\* Mutant: every cancelled call is reported as interrupted.
MutInterruptedAs(r) == "interrupted"
\* What _run() records when a running call is cancelled.
InterruptedAs(r) == IF r \in Uncertain THEN "outcome_unknown" ELSE "interrupted"

\* Cancellation of the tasks in S: a running call is recorded, a waiter leaves
\* its queue and its row stays queued, a task before execute() leaves nothing.
CancelTasks(S) ==
    /\ status' = [i \in OpIds |->
                    LET T == {t \in S : pc[t] = "calling" /\ op[t] = i}
                    IN  IF T # {} /\ LegalTransition(status[i], InterruptedAs(rowReq[i]))
                        THEN InterruptedAs(rowReq[i]) ELSE status[i]]
    /\ Leave(S \cup Devices)
    /\ pc' = [t \in Tasks |-> IF t \in S THEN "idle" ELSE pc[t]]
    /\ op' = [t \in Tasks |-> IF t \in S THEN None ELSE op[t]]
    /\ req' = [t \in Tasks |-> IF t \in S THEN None ELSE req[t]]
    /\ cancelled' = cancelled \ S
    /\ late' = late \ S

Holds(t, d) == pc[t] = "calling" /\ req[t] \in Serialized /\ Dev(t) = d

IsBackground(t) == req[t] \in Background /\ pc[t] # "body"

\* A stop signal: the listener closes, running handlers may still finish.
StopServing ==
    /\ phase = "up"
    /\ stops < MaxStops
    /\ phase' = "closing"
    /\ stops' = stops + 1
    /\ UNCHANGED <<durable, taskVars, lockVars, maint, acquirer, finisher, modeVars, calls,
                   stale>>

\* runner.cleanup() cancels the remaining handlers: foreground operations,
\* maintenance acquirers (gate opened) and finishers (lease failed, gate opened).
CancelHandlers ==
    LET handlers == {t \in Tasks : ~IsBackground(t)}
        freed == {d \in Devices :
                    \/ acquirer[d] = "probing"
                    \/ \E f \in Finishers : finisher[f].pc # "idle" /\ lease[finisher[f].lease].dev = d}
    IN  /\ phase = "closing"
        /\ phase' = "flushing"
        /\ CancelTasks(handlers)
        /\ locked' = [d \in Devices |->
                        locked[d] /\ d \notin freed /\ \A t \in handlers : ~Holds(t, d)]
        /\ maint' = [d \in Devices |->
                        IF d \in freed \/ (acquirer[d] = "waiting" /\ maint[d] = "pending")
                        THEN "none" ELSE maint[d]]
        /\ acquirer' = [d \in Devices |-> "idle"]
        /\ lease' = [l \in Leases |->
                        IF \E f \in Finishers : finisher[f].lease = l
                        THEN [lease[l] EXCEPT !.state = "ended"] ELSE lease[l]]
        /\ finisher' = [f \in Finishers |-> IdleFinisher]
        /\ stale' = stale \cup GatesTouched(Finishers)
        /\ UNCHANGED <<rowReq, modeVars, calls, stops>>

\* operations.close() cancels the background tasks and the process exits.
CloseOperations ==
    /\ phase = "flushing"
    /\ phase' = "down"
    /\ CancelTasks(Tasks)
    /\ locked' = [d \in Devices |-> FALSE]
    /\ maint' = [d \in Devices |-> "none"]
    /\ stale' = {}
    /\ UNCHANGED <<rowReq, lease, acquirer, finisher, modeVars, calls, stops>>

\* The process dies: only the database survives.
Crash ==
    /\ phase # "down"
    /\ stops < MaxStops
    /\ stops' = stops + 1
    /\ phase' = "down"
    /\ pc' = [t \in Tasks |-> "idle"]
    /\ op' = [t \in Tasks |-> None]
    /\ req' = [t \in Tasks |-> None]
    /\ cancelled' = {}
    /\ late' = {}
    /\ locked' = [d \in Devices |-> FALSE]
    /\ ahead' = [w \in Waiters |-> {}]
    /\ maint' = [d \in Devices |-> "none"]
    /\ acquirer' = [d \in Devices |-> "idle"]
    /\ finisher' = [f \in Finishers |-> IdleFinisher]
    /\ stale' = {}
    /\ UNCHANGED <<durable, modeVars, calls>>

\* Mutant: every row that was active is called interrupted.
MutRecoveredAsInterrupted(r) == "interrupted"
\* What _recover_interrupted() records for a row that was active.
RecoveredAs(r) == IF r \in RestartUncertain THEN "outcome_unknown" ELSE "interrupted"

\* Mutant: the gates of active leases are not restored.
MutRestoredGate(d) == "none"
\* restore_maintenance for every active lease.
RestoredGate(d) == IF HasActiveLease(d) THEN "active" ELSE "none"

\* _recover_interrupted and GatewayService.__init__: active rows are settled
\* without a replay, the gate of every active lease is restored (without its
\* lock), and the mode is develop.
Restart ==
    /\ phase = "down"
    /\ phase' = "up"
    /\ status' = [i \in OpIds |->
                    IF status[i] \notin ActiveStates THEN status[i] ELSE RecoveredAs(rowReq[i])]
    /\ maint' = [d \in Devices |-> RestoredGate(d)]
    /\ mode' = "develop"
    /\ modeTransition' = FALSE
    /\ UNCHANGED <<rowReq, lease, taskVars, lockVars, acquirer, finisher, calls, stops, stale>>

-----------------------------------------------------------------------------
\* A route that runs an operation, from its mode check to its answer.
Handle(t) ==
    \/ \E i \in OpIds, r \in Requests : <<i, r>> \in Asked /\ BeginRequest(t, i, r)
    \/ Submit(t) \/ SubmitReturns(t)
    \/ ExecuteReturns(t) \/ ExecuteRuns(t) \/ ExecuteWaits(t)
    \/ LockGranted(t) \/ CancelledReturns(t)
    \/ \E s \in Stages : Progress(t, s)
    \/ \E o \in Outcomes : CallEnds(t, o)

\* The routes that acquire a lease, and those that finish one.
Maintain(d) ==
    \/ AcquireMaintenance(d) \/ AwaitMaintenance(d)
    \/ MaintenanceGranted(d) \/ MaintenanceTimeout(d)
    \/ \E l \in Leases : LeaseCreated(d, l)
    \/ AcquireFails(d)

Finish(f) ==
    \/ \E l \in Leases : BeginFinish(f, l)
    \/ BeginVerify(f)
    \/ EndFinish(f)

Next ==
    \/ \E t \in Tasks : Handle(t)
    \/ SwitchToObserve \/ SwitchToDevelop \/ FinishModeTransition
    \/ \E d \in Devices : Maintain(d)
    \/ \E l \in Leases, e \in BOOLEAN : RenewMaintenance(l, e)
    \/ \E f \in Finishers : Finish(f)
    \/ StopServing \/ CancelHandlers \/ CloseOperations \/ Crash \/ Restart

Spec == Init /\ [][Next]_vars

\* What progress needs of the event loop and the timeouts of the code: a task that has
\* the lock or is next runs, a device call returns or times out, wait_for() and the
\* verification deadline expire.  Clients, signals and restarts are under no obligation.
Fairness ==
    /\ \A t \in Tasks :
          WF_vars(LockGranted(t) \/ CancelledReturns(t) \/ \E o \in Outcomes : CallEnds(t, o))
    /\ \A d \in Devices :
          WF_vars(\/ MaintenanceGranted(d) \/ MaintenanceTimeout(d) \/ AcquireFails(d)
                  \/ \E l \in Leases : LeaseCreated(d, l))
    /\ WF_vars(\E f \in Finishers : BeginVerify(f) \/ EndFinish(f))

FairSpec == Spec /\ Fairness

-----------------------------------------------------------------------------
(* Properties. *)

TaskStates == {"idle", "body", "submitted", "waiting", "calling"}

RowType ==
    /\ status \in [OpIds -> ActiveStates \cup Terminal \cup {"absent"}]
    /\ rowReq \in [OpIds -> Requests \cup {None}]
    /\ calls \in [OpIds -> Nat]
TaskType ==
    /\ pc \in [Tasks -> TaskStates]
    /\ op \in [Tasks -> OpIds \cup {None}]
    /\ req \in [Tasks -> Requests \cup {None}]
    /\ \A t \in Tasks : pc[t] # "idle" => op[t] \in OpIds /\ req[t] \in Requests
    /\ cancelled \in SUBSET Tasks
    /\ late \in SUBSET Tasks
LockType ==
    /\ locked \in [Devices -> BOOLEAN]
    /\ ahead \in [Waiters -> SUBSET Waiters]
LeaseRow == [state : ActiveLease \cup ClosedLease, dev : Devices]
LeaseType ==
    /\ lease \in [Leases -> LeaseRow \cup {NoLease}]
    /\ \A f \in Finishers : finisher[f].pc # "idle" => lease[finisher[f].lease] \in LeaseRow
GateType ==
    /\ maint \in [Devices -> {"none", "pending", "active"}]
    /\ acquirer \in [Devices -> {"idle", "waiting", "probing"}]
    /\ stale \in SUBSET Devices
FinisherType ==
    finisher \in [Finishers -> [pc : {"resuming", "verifying"}, lease : Leases]
                               \cup {IdleFinisher}]
ModeType ==
    /\ phase \in {"up", "closing", "flushing", "down"}
    /\ mode \in {"develop", "observe"}
    /\ modeTransition \in BOOLEAN
    /\ stops \in 0 .. MaxStops

\* Type invariant of the rows, tasks, locks, gates and leases.
TypeOK ==
    RowType /\ TaskType /\ LockType /\ LeaseType /\ GateType /\ FinisherType /\ ModeType

\* operations.execute, cli._recover_interrupted ("operation was not replayed"):
\* an operation id reaches the device at most once, over retries, concurrent
\* submissions, cancellations, crashes and restarts.
AtMostOneCall == \A i \in OpIds : calls[i] <= 1

\* operations._locks, acquire_maintenance ("Drain earlier work and atomically
\* block later work for one device"): serialized calls to a device never
\* overlap, and none runs while the device is reserved for maintenance.  The code
\* breaks this when a finish_maintenance call goes on after another one has ended
\* its lease, so it holds for a device until that happens to it, and again after a
\* restart; other devices are not affected.
DeviceExclusive ==
    \A d \in Devices \ stale :
        /\ \A t, u \in Tasks : Holds(t, d) /\ Holds(u, d) => t = u
        /\ maint[d] = "active" => \A t \in Tasks : ~Holds(t, d)

\* store.operations, _run: what a settled row says is true of the device.  A
\* cancelled operation never reached it, a succeeded or failed one did, and a
\* started call of an action that _run() calls uncertain (updates, restarts, raw
\* RPC) is never reported as merely interrupted.  Other cancelled calls are.
SettledRowsAreTrue ==
    \A i \in OpIds :
        /\ status[i] = "cancelled" => calls[i] = 0
        /\ status[i] \in {"succeeded", "failed"} => calls[i] = 1
        /\ status[i] = "interrupted" /\ calls[i] = 1 => rowReq[i] \notin Uncertain

Owns(t) == pc[t] \in {"waiting", "calling"}

TaskRows ==
    \A t \in Tasks :
        /\ t \in cancelled => pc[t] = "waiting"
        /\ Owns(t) => rowReq[op[t]] = req[t]
        /\ pc[t] = "waiting" => status[op[t]] = IF t \in cancelled THEN "cancelled" ELSE "queued"
        /\ pc[t] = "calling" => status[op[t]] \in ActiveStates \ {"queued"}
OneOwner == \A t, u \in Tasks : Owns(t) /\ Owns(u) /\ op[t] = op[u] => t = u
NoOrphanRow ==
    phase = "up" =>
        \A i \in OpIds : status[i] \in ActiveStates => \E t \in Tasks : Owns(t) /\ op[t] = i
DownIsIdle == phase = "down" => \A t \in Tasks : pc[t] = "idle"

\* execute, _run, cancel_queued: while the gateway serves, every active row is
\* driven by exactly one task, queued if that task waits for the lock and
\* started if it is in its call, so no _transition of the code is refused.
RowsFollowTasks == TaskRows /\ OneOwner /\ NoOrphanRow /\ DownIsIdle

\* gateway maintenance: while the gateway serves, a device with an active lease
\* stays behind the gate, through renewals, quarantine and restarts, until a finish
\* call of an ended lease touches it.
LeaseKeepsGate ==
    phase = "up" => \A d \in Devices \ stale : HasActiveLease(d) => maint[d] = "active"

\* acquire_maintenance drains: no operation waits behind a maintenance acquirer,
\* and none is left waiting once the device is reserved, until a finish call of an
\* ended lease touches the gate.
MaintenanceDrains ==
    \A d \in Devices \ stale :
        /\ maint[d] = "active" => WaitingFor(d) = {}
        /\ \A t \in Tasks : d \notin ahead[t]

LocksHeld == \A d \in Devices \ stale, t \in Tasks : Holds(t, d) => locked[d]
GateFollowsAcquirer ==
    \A d \in Devices \ stale :
        /\ acquirer[d] = "waiting" <=> maint[d] = "pending"
        /\ acquirer[d] = "probing" => maint[d] = "active" /\ locked[d] /\ ~HasActiveLease(d)
GateFollowsLease ==
    phase # "down" => \A d \in Devices \ stale : HasActiveLease(d) => maint[d] = "active"
OneActiveLease ==
    \A l, m \in Leases :
        /\ lease[l].state \in ActiveLease /\ lease[m].state \in ActiveLease
        /\ lease[l].dev = lease[m].dev
        => l = m
PendingIsLast ==
    \A d \in Devices \ stale, t \in Tasks :
        maint[d] = "pending" /\ t \in WaitingFor(d) => t \in ahead[d]
DownIsEmpty ==
    /\ phase = "down" => stale = {} /\ \A d \in Devices : ~locked[d] /\ maint[d] = "none"
    /\ phase \in {"flushing", "down"} =>
          /\ \A d \in Devices : acquirer[d] = "idle"
          /\ \A f \in Finishers : finisher[f].pc = "idle"

\* acquire_maintenance, release_maintenance, finish_maintenance: the lock of a
\* device has one holder, a calling task or a maintenance client, the gate
\* follows acquirer and lease, and a pending acquirer has every waiting
\* operation ahead of it.  Finish calls of one lease may overlap; only when one
\* goes on after another has ended the lease is its device left out, until the
\* process ends.  A device has one active lease whatever happens.
LocksAndGates ==
    /\ LocksHeld /\ DeviceExclusive /\ MaintenanceDrains
    /\ GateFollowsAcquirer /\ GateFollowsLease /\ OneActiveLease
    /\ PendingIsLast /\ DownIsEmpty

\* architecture.md: "Terminal operation states are immutable": no step rewrites
\* a settled row, and no step gives an id to another request.
SettledRowsAreFinal ==
    [][\A i \in OpIds :
          /\ status[i] \in Terminal => status'[i] = status[i]
          /\ status[i] # "absent" => rowReq'[i] = rowReq[i]]_vars

\* What a client is told of a stored state: the stages of a running call are one.
FateOf(s) == IF s \in {"running"} \cup Stages THEN "started" ELSE s
Fate == [i \in OpIds |-> FateOf(status[i])]

Ledger == INSTANCE OperationLedger WITH fate <- Fate, owner <- rowReq

\* execute, _run, cancel_queued, _recover_interrupted together implement the
\* client's view of an operation id: one request, at most one device call, and
\* a settled state that is true of that call.
ImplementsLedger == Ledger!LedgerSpec

\* require_develop ("all business device requests are stopped while gateway mode
\* is observe") and _finish_mode_transition: once the transition to observe mode
\* is over, no device call is running, except that of a request that was let in
\* before the switch, read its body, and came to execute() after it: the mode is
\* checked before that await and not again.
ObserveIsQuiet ==
    mode = "observe" /\ ~modeTransition =>
        \A t \in Tasks : pc[t] = "calling" => t \in late

=============================================================================

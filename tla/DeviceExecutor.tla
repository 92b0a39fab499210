--------------------------- MODULE DeviceExecutor ---------------------------
(***************************************************************************)
(* The slow-service executor of the device (esp_iris_executor.inc) with    *)
(* the session ends, OTA and system updates it serves (esp_iris.c,         *)
(* esp_iris_services.c, esp_iris_system_update.c).                         *)
(*                                                                         *)
(* Two FreeRTOS tasks share one request slot: the protocol task submits a  *)
(* request, cancels and drains the completion, the iris-service task runs  *)
(* the callback.  A critical section or an atomic access is one step.  In  *)
(* place of the protocol task, an application task in esp_iris_stop() or   *)
(* esp_iris_start() calls iris_services_deinit().                          *)
(*                                                                         *)
(* An update is the OTA or the system update in progress: begun, fed and   *)
(* ended by requests of one session.  Re-encoding a completion that was    *)
(* encoded once does not fail, so draining has no retry.                   *)
(***************************************************************************)
EXTENDS Integers, FiniteSets

CONSTANTS
    Updates,      \* kinds of update: ota, system
    Ota,          \* the one whose cancel flag the executor itself owns
    SessionIds,   \* what begin_session() draws from
    NoSession,    \* the session id of a link that is down
    MaxRequests   \* bound on the frames a host sends in one session

\* A request for an update, "job" being the CONTROL CANCEL of its job, or any other
\* CONTROL request.
Steps == {"begin", "data", "end", "cancel", "job"}
Rpc == [kind |-> "rpc", step |-> "request"]
Request == [kind : Updates, step : Steps] \cup {Rpc}

ASSUME ExecutorAssumption ==
    /\ Ota \in Updates
    /\ "rpc" \notin Updates
    /\ NoSession \notin SessionIds
    /\ MaxRequests \in Nat

VARIABLES
    \* s_executor
    stage,
    abandoned,
    deinit,
    cancel,     \* updates whose cancel flag is set: ota_cancel, s_cancel_requested
    jobCancel,  \* updates whose job has cancel_pending set
    hasWork,    \* work and task are allocated
    work,       \* request and session in the work buffer, and is a reply encoded?
    notified,   \* the task notification of iris-service
    \* iris-service
    spc,
    taken,      \* what executor_run_one() took from the flags: abandon, cancels, a job
    cleaned,
    \* the protocol task and its session
    ppc,
    life,       \* progress of esp_iris_stop() and esp_iris_start()
    frame,      \* the request in hand
    session,
    link,       \* DISCONNECTED, NEGOTIATING or READY (hello_acked)
    tx,         \* the TX slot is taken
    \* services
    update,     \* the session that owns the update in progress, if there is one
    rpcSeen,    \* the session whose request ids the RPC window holds
    \* history
    requests,   \* frames received in this session
    acked,      \* acknowledged cancels of an update that met the request in the slot
    ackedJob    \* the same for cancels of the job of an update

flagVars == <<abandoned, deinit, cancel, jobCancel>>
svcVars == <<spc, taken, cleaned>>
linkVars == <<session, link>>
dataVars == <<update, rpcSeen>>
history == <<acked, ackedJob>>
vars == <<stage, abandoned, deinit, cancel, jobCancel, hasWork, work, notified, spc, taken, cleaned,
          ppc, life, frame, session, link, tx, update, rpcSeen, requests, acked, ackedJob>>

NoWork == [req |-> Rpc, session |-> NoSession, reply |-> FALSE]
NoTake == [abandoned |-> FALSE, deinit |-> FALSE, cancel |-> {}, jobs |-> {}]

Init ==
    /\ stage = "IDLE"
    /\ abandoned = FALSE
    /\ deinit = FALSE
    /\ cancel = {}
    /\ jobCancel = {}
    /\ hasWork = FALSE
    /\ work = NoWork
    /\ notified = FALSE
    /\ spc = "wait"
    /\ taken = NoTake
    /\ cleaned = FALSE
    /\ ppc = "idle"
    /\ life = "running"
    /\ frame = Rpc
    /\ session = NoSession
    /\ link = "down"
    /\ tx = FALSE
    /\ update = [k \in Updates |-> NoSession]
    /\ rpcSeen = NoSession
    /\ requests = 0
    /\ acked = {}
    /\ ackedJob = {}

NoUpdate == [k \in Updates |-> NoSession]
ExecutorBusy == stage # "IDLE"

\* The worker is between two frames.
Pumping == ppc = "idle" /\ life \in {"running", "exiting"}

-----------------------------------------------------------------------------
(* Sessions. *)

\* begin_session() draws a random id until it is not zero; an id that some state
\* of the services still names is taken not to come up again.
FreshSession(s) ==
    /\ s \in SessionIds
    /\ s \notin {update[k] : k \in Updates} \cup {work.session, rpcSeen}

\* begin_session() with services_session_begin(), which leaves the RPC window to
\* the pending cleanup when the executor is busy.
BeginSession(s) ==
    /\ Pumping /\ life = "running"
    /\ link = "down"
    /\ FreshSession(s)
    /\ session' = s
    /\ link' = "negotiating"
    /\ tx' = FALSE
    /\ requests' = 0
    /\ rpcSeen' = IF ExecutorBusy THEN rpcSeen ELSE NoSession
    /\ UNCHANGED <<stage, flagVars, hasWork, work, notified, svcVars, ppc, life, frame,
                   update, history>>

\* A valid HELLO_ACK.
SessionReady ==
    /\ Pumping
    /\ link = "negotiating"
    /\ link' = "ready"
    /\ UNCHANGED <<stage, flagVars, hasWork, work, notified, svcVars, ppc, life, frame,
                   session, tx, dataVars, requests, history>>

\* What end_session() resets after the services.
LinkDown ==
    /\ session' = NoSession
    /\ link' = "down"
    /\ tx' = FALSE

\* end_session() of a candidate that was never acknowledged leaves the services alone.
EndProvisional ==
    /\ Pumping
    /\ link = "negotiating"
    /\ LinkDown
    /\ UNCHANGED <<stage, flagVars, hasWork, work, notified, svcVars, ppc, life, frame,
                   dataVars, requests, history>>

\* end_session() without executor: services_session_end_now() on the protocol task.
EndSessionNow ==
    /\ Pumping
    /\ link = "ready"
    /\ ~hasWork
    /\ update' = NoUpdate
    /\ LinkDown
    /\ UNCHANGED <<stage, flagVars, hasWork, work, notified, svcVars, ppc, life, frame,
                   rpcSeen, requests, history>>

\* executor_abandon() finds work and task, and does not hold the lock yet.
EndSession ==
    /\ Pumping
    /\ link = "ready"
    /\ hasWork
    /\ ppc' = "abandoning"
    /\ UNCHANGED <<stage, flagVars, hasWork, work, notified, svcVars, life, frame, linkVars,
                   tx, dataVars, requests, history>>

\* Mutant: only an idle executor is sent to clean up.
MutMustQueue(s) == s = "IDLE"
\* The stages in which nobody will look at the flags.
MustQueue(s) == s \in {"IDLE", "DONE"}

\* Mutant: the service task is not woken.
MutNotify == notified' = notified
\* xTaskNotifyGive(s_executor.task).
Notify == notified' = TRUE

\* The critical section of executor_abandon() and what its caller does next:
\* end_session() resets the link, esp_iris_stop() waits, esp_iris_start() fails.
Abandon ==
    LET byApp == life \in {"deinit", "startfail"}
    IN  /\ ppc = "abandoning"
        /\ hasWork
        /\ ppc' = "idle"
        /\ deinit' = (deinit \/ byApp)
        /\ abandoned' = TRUE
        /\ cancel' = Updates
        /\ IF MustQueue(stage)
           THEN /\ stage' = "QUEUED"
                /\ work' = [work EXCEPT !.session = session]
           ELSE UNCHANGED <<stage, work>>
        /\ Notify
        /\ IF byApp
           THEN /\ life' = IF life = "deinit" THEN "waiting" ELSE "failed"
                /\ UNCHANGED <<session, link, tx>>
           ELSE /\ LinkDown
                /\ UNCHANGED life
        /\ UNCHANGED <<jobCancel, hasWork, svcVars, frame, dataVars, requests, history>>

\* executor_reap_idle() ran before that critical section: the write to the work buffer goes
\* through a null pointer, the device panics and starts again.
AbandonPanics ==
    /\ ppc = "abandoning"
    /\ ~hasWork
    /\ stage' = "IDLE"
    /\ abandoned' = FALSE
    /\ deinit' = FALSE
    /\ cancel' = {}
    /\ jobCancel' = {}
    /\ work' = NoWork
    /\ notified' = FALSE
    /\ spc' = "wait"
    /\ taken' = NoTake
    /\ cleaned' = FALSE
    /\ ppc' = "idle"
    /\ life' = "running"
    /\ frame' = Rpc
    /\ LinkDown
    /\ update' = NoUpdate
    /\ rpcSeen' = NoSession
    /\ requests' = 0
    /\ acked' = {}
    /\ ackedJob' = {}
    /\ UNCHANGED hasWork

-----------------------------------------------------------------------------
(* Requests. *)

Receives == Pumping /\ life = "running" /\ link = "ready" /\ ~tx /\ requests < MaxRequests

\* executor_dispatch() on an idle executor: old flags are dropped and the slot is
\* reserved, in one critical section.
Reserve(r) ==
    /\ Receives
    /\ ~ExecutorBusy
    /\ stage' = "RESERVED"
    /\ abandoned' = FALSE
    /\ deinit' = FALSE
    /\ cancel' = cancel \ {Ota}
    /\ UNCHANGED jobCancel
    /\ frame' = r
    /\ ppc' = "reserved"
    /\ requests' = requests + 1
    /\ UNCHANGED <<hasWork, work, notified, svcVars, life, linkVars, tx, dataVars, history>>

\* executor_ensure() fails: no memory.
EnsureFails ==
    /\ ppc = "reserved"
    /\ ~hasWork
    /\ stage' = "IDLE"
    /\ ppc' = "idle"
    /\ frame' = Rpc
    /\ tx' = TRUE
    /\ UNCHANGED <<flagVars, hasWork, work, notified, svcVars, life, linkVars, dataVars,
                   requests, history>>

\* executor_ensure() succeeds and the request is published.
Queue ==
    /\ ppc = "reserved"
    /\ hasWork' = TRUE
    /\ work' = [req |-> frame, session |-> session, reply |-> FALSE]
    /\ stage' = "QUEUED"
    /\ Notify
    /\ ppc' = "idle"
    /\ frame' = Rpc
    /\ acked' = {}
    /\ ackedJob' = {}
    /\ UNCHANGED <<flagVars, svcVars, life, linkVars, tx, dataVars, requests>>

\* executor_dispatch() answers INVALID_STATE, or a status, while work is active.
AnswerBusy ==
    /\ Receives
    /\ ExecutorBusy
    /\ tx' = TRUE
    /\ requests' = requests + 1
    /\ UNCHANGED <<stage, flagVars, hasWork, work, notified, svcVars, ppc, life, frame,
                   linkVars, dataVars, history>>

\* A cancel for an update or its job: executor_busy() is true, the lock is not held yet.
CancelBusy(r) ==
    /\ Receives
    /\ ExecutorBusy
    /\ r.step \in {"cancel", "job"}
    /\ frame' = r
    /\ ppc' = "cancelling"
    /\ requests' = requests + 1
    /\ UNCHANGED <<stage, flagVars, hasWork, work, notified, svcVars, life, linkVars, tx,
                   dataVars, history>>

\* The OTA cancel looks at the stage only; iris_system_update_request_cancel also
\* wants a system update in progress.
CancelAccepted(k) == stage # "DONE" /\ (k = Ota \/ update[k] # NoSession)

\* The critical section of the cancel of an update, and its answer.
RequestCancel ==
    LET k == frame.kind
    IN  /\ ppc = "cancelling"
        /\ frame.step = "cancel"
        /\ ppc' = "idle"
        /\ frame' = Rpc
        /\ tx' = TRUE
        /\ IF CancelAccepted(k)
           THEN cancel' = cancel \cup {k} /\ acked' = acked \cup {k}
           ELSE UNCHANGED <<cancel, acked>>
        /\ UNCHANGED <<stage, abandoned, deinit, jobCancel, hasWork, work, notified, svcVars,
                       life, linkVars, dataVars, requests, ackedJob>>

\* The job of an update runs as long as the update is in progress.
JobRuns(k) == update[k] # NoSession

\* The critical section of CONTROL CANCEL: cancel_requested and cancel_pending are set.
RequestJobCancel ==
    LET k == frame.kind
    IN  /\ ppc = "cancelling"
        /\ frame.step = "job"
        /\ ppc' = "idle"
        /\ frame' = Rpc
        /\ tx' = TRUE
        /\ IF stage # "DONE" /\ JobRuns(k)
           THEN jobCancel' = jobCancel \cup {k} /\ ackedJob' = ackedJob \cup {k}
           ELSE UNCHANGED <<jobCancel, ackedJob>>
        /\ UNCHANGED <<stage, abandoned, deinit, cancel, hasWork, work, notified, svcVars,
                       life, linkVars, dataVars, requests, acked>>

\* executor_queue_next() claims the completion.
DrainClaim ==
    /\ Pumping
    /\ link = "ready"
    /\ ~tx
    /\ stage = "DONE"
    /\ stage' = "DRAINING"
    /\ ppc' = "draining"
    /\ UNCHANGED <<flagVars, hasWork, work, notified, svcVars, life, frame, linkVars, tx,
                   dataVars, requests, history>>

\* A completion is for the session that asked.
Deliverable == work.session = session /\ work.reply /\ ~abandoned

\* The slot is given back; nothing reads the work buffer again.
SlotFreed ==
    /\ stage' = "IDLE"
    /\ work' = NoWork
    /\ acked' = {}
    /\ ackedJob' = {}

\* It sends the completion or drops it, and gives the slot back.
Drain ==
    /\ ppc = "draining"
    /\ tx' = Deliverable
    /\ IF abandoned
       THEN /\ stage' = "QUEUED"
            /\ work' = [work EXCEPT !.reply = FALSE]
            /\ Notify
            /\ UNCHANGED history
       ELSE SlotFreed /\ UNCHANGED notified
    /\ ppc' = "idle"
    /\ UNCHANGED <<flagVars, hasWork, svcVars, life, frame, linkVars, dataVars, requests>>

\* flush_tx() wrote the last byte.
FlushTx ==
    /\ Pumping
    /\ tx
    /\ tx' = FALSE
    /\ UNCHANGED <<stage, flagVars, hasWork, work, notified, svcVars, ppc, life, frame,
                   linkVars, dataVars, requests, history>>

-----------------------------------------------------------------------------
(* The iris-service task. *)

\* ulTaskNotifyTake() and the exchange of QUEUED for RUNNING.
Take ==
    /\ hasWork
    /\ spc = "wait"
    /\ notified
    /\ notified' = FALSE
    /\ IF stage = "QUEUED"
       THEN stage' = "RUNNING" /\ spc' = "loaded"
       ELSE UNCHANGED <<stage, spc>>
    /\ UNCHANGED <<flagVars, hasWork, work, taken, cleaned, ppc, life, frame, linkVars, tx,
                   dataVars, requests, history>>

\* An abandoned request is not handled.
Skip ==
    /\ spc = "loaded"
    /\ abandoned
    /\ work' = [work EXCEPT !.req = Rpc]
    /\ spc' = "loop"
    /\ UNCHANGED <<stage, flagVars, hasWork, notified, taken, cleaned, ppc, life, frame,
                   linkVars, tx, dataVars, requests, history>>

Handle ==
    /\ spc = "loaded"
    /\ ~abandoned
    /\ spc' = "handler"
    /\ UNCHANGED <<stage, flagVars, hasWork, work, notified, taken, cleaned, ppc, life, frame,
                   linkVars, tx, dataVars, requests, history>>

\* The handler is done with the request and has encoded its answer.
Reply ==
    /\ work' = [work EXCEPT !.req = Rpc, !.reply = TRUE]
    /\ spc' = "loop"

\* handle_rpc(): a fresh request id enters the window of the session; any other
\* request is refused.
HandleRpc(fresh) ==
    /\ spc = "handler"
    /\ work.req.kind = "rpc"
    /\ rpcSeen' = IF fresh THEN work.session ELSE rpcSeen
    /\ Reply
    /\ UNCHANGED <<stage, flagVars, hasWork, notified, taken, cleaned, ppc, life, frame,
                   linkVars, tx, update, requests, history>>

\* The owners that a BEGIN, DATA or CANCEL may leave an update with.  A refused
\* step changes nothing and a failing one aborts; an OTA cancel names no operation
\* that could differ from the one in progress.
UpdateOutcomes(k, step) ==
    CASE step = "begin"  -> {update[k], IF update[k] = NoSession THEN work.session ELSE update[k]}
      [] step = "data"   -> {update[k], NoSession}
      [] step = "cancel" -> {IF k = Ota THEN NoSession ELSE update[k], NoSession}
      [] OTHER           -> {}

HandleUpdate ==
    LET k == work.req.kind
    IN  /\ spc = "handler"
        /\ k \in Updates
        /\ \E owner \in UpdateOutcomes(k, work.req.step) :
              update' = [update EXCEPT ![k] = owner]
        /\ Reply
        /\ UNCHANGED <<stage, flagVars, hasWork, notified, taken, cleaned, ppc, life, frame,
                       linkVars, tx, rpcSeen, requests, history>>

\* handle_job(): the callback of a running job sets the flag of the OTA, or aborts the
\* system update.
HandleJob ==
    LET k == work.req.kind
    IN  /\ spc = "handler"
        /\ work.req.step = "job"
        /\ cancel' = IF k = Ota /\ JobRuns(k) THEN cancel \cup {k} ELSE cancel
        /\ update' = IF k = Ota THEN update ELSE [update EXCEPT ![k] = NoSession]
        /\ Reply
        /\ UNCHANGED <<stage, abandoned, deinit, jobCancel, hasWork, notified, taken, cleaned,
                       ppc, life, frame, linkVars, tx, rpcSeen, requests, history>>

\* Mutant: the flags are not looked at before the commit.
MutCancelled(k) == FALSE
\* executor_cancelled() for OTA; s_cancel_requested and the job for a system update.
Cancelled(k) == k \in cancel \/ IF k = Ota THEN abandoned ELSE k \in jobCancel

\* END or COMMIT up to the final cancellable boundary: an invalid image, a cancel
\* seen in time, or a system update whose components are not complete, which
\* stays in progress.
EndRefused(kept) ==
    LET k == work.req.kind
    IN  /\ spc = "handler"
        /\ k \in Updates
        /\ work.req.step = "end"
        /\ kept => k # Ota
        /\ update' = [update EXCEPT ![k] = IF kept THEN @ ELSE NoSession]
        /\ Reply
        /\ UNCHANGED <<stage, flagVars, hasWork, notified, taken, cleaned, ppc, life, frame,
                       linkVars, tx, rpcSeen, requests, history>>

\* The boundary is passed ...
PassBoundary ==
    LET k == work.req.kind
    IN  /\ spc = "handler"
        /\ k \in Updates
        /\ work.req.step = "end"
        /\ update[k] # NoSession
        /\ ~Cancelled(k)
        /\ spc' = "committing"
        /\ UNCHANGED <<stage, flagVars, hasWork, work, notified, taken, cleaned, ppc, life,
                       frame, linkVars, tx, dataVars, requests, history>>

\* ... and the new boot target is selected.
Commit ==
    /\ spc = "committing"
    /\ update' = [update EXCEPT ![work.req.kind] = NoSession]
    /\ Reply
    /\ UNCHANGED <<stage, flagVars, hasWork, notified, taken, cleaned, ppc, life, frame,
                   linkVars, tx, rpcSeen, requests, history>>

NothingPending == ~abandoned /\ cancel = {} /\ jobCancel = {}

\* One turn of the loop of executor_run_one(), with something to do: jobs is one job with
\* a pending cancel, if there is any.  The flag of the system update is only read here.
TakeFlags(jobs) ==
    /\ spc = "loop"
    /\ ~NothingPending
    /\ jobs \in {{k} : k \in jobCancel} \/ (jobs = {} /\ jobCancel = {})
    /\ taken' = [abandoned |-> abandoned, deinit |-> abandoned /\ deinit, cancel |-> cancel,
                 jobs |-> jobs]
    /\ abandoned' = FALSE
    /\ deinit' = (deinit /\ ~abandoned)
    /\ cancel' = cancel \ {Ota}
    /\ jobCancel' = jobCancel \ jobs
    /\ spc' = "cleanup"
    /\ UNCHANGED <<stage, hasWork, work, notified, cleaned, ppc, life, frame, linkVars, tx,
                   dataVars, requests, history>>

\* Outside the lock: the callback of a job sets the flag of the OTA or aborts the system
\* update, cancels abort their update, an abandon ends the session.
Cleanup ==
    /\ spc = "cleanup"
    /\ cancel' = (cancel \ (taken.cancel \ {Ota})) \cup (taken.jobs \cap {Ota})
    /\ update' = [k \in Updates |->
                    IF taken.abandoned \/ k \in taken.cancel \cup (taken.jobs \ {Ota})
                    THEN NoSession ELSE update[k]]
    /\ rpcSeen' = IF taken.abandoned THEN NoSession ELSE rpcSeen
    /\ jobCancel' = IF taken.deinit THEN {} ELSE jobCancel
    /\ work' = [work EXCEPT !.reply = @ /\ ~taken.abandoned]
    /\ cleaned' = (cleaned \/ taken.abandoned)
    /\ taken' = NoTake
    /\ spc' = "loop"
    /\ UNCHANGED <<stage, abandoned, deinit, hasWork, notified, ppc, life, frame, linkVars, tx,
                   requests, history>>

\* Nothing left to do, decided under the lock.
Finish ==
    /\ spc = "loop"
    /\ NothingPending
    /\ IF cleaned THEN SlotFreed ELSE stage' = "DONE" /\ UNCHANGED <<work, history>>
    /\ spc' = "wait"
    /\ cleaned' = FALSE
    /\ UNCHANGED <<flagVars, hasWork, notified, taken, ppc, life, frame, linkVars, tx,
                   dataVars, requests>>

\* Mutant: an elapsed timeout is enough.
MutReapable == TRUE
Reapable == stage = "IDLE"

\* executor_reap_idle() after the idle timeout: buffer and task are released, although a
\* caller of executor_abandon() may have found them already.
Reap ==
    /\ hasWork
    /\ spc = "wait"
    /\ ~notified
    /\ Reapable
    /\ hasWork' = FALSE
    /\ UNCHANGED <<stage, flagVars, work, notified, svcVars, ppc, life, frame, linkVars, tx,
                   dataVars, requests, history>>

-----------------------------------------------------------------------------
(* Stop and start. *)

\* esp_iris_stop() of a running runtime: the worker is told to leave.
Stop ==
    /\ life = "running"
    /\ life' = "exiting"
    /\ UNCHANGED <<stage, flagVars, hasWork, work, notified, svcVars, ppc, frame, linkVars, tx,
                   dataVars, requests, history>>

\* The worker left after its last end_session(), or had left before.
WorkerGone ==
    /\ \/ life = "exiting" /\ ppc = "idle" /\ link = "down"
       \/ life = "failed"
    /\ life' = "deinit"
    /\ UNCHANGED <<stage, flagVars, hasWork, work, notified, svcVars, ppc, frame, linkVars, tx,
                   dataVars, requests, history>>

\* Mutant: a start does not wait for the cleanup.
MutMayStart == TRUE
\* iris_services_init() rejects while work is pending.
MayStart == ~ExecutorBusy

\* esp_iris_start(); ok is the outcome of what it starts after the services.
Start(ok) ==
    /\ life \in {"stopped", "failed"}
    /\ life' = IF MayStart /\ ok THEN "running" ELSE "startfail"
    /\ UNCHANGED <<stage, flagVars, hasWork, work, notified, svcVars, ppc, frame, linkVars, tx,
                   dataVars, requests, history>>

\* iris_services_deinit() without executor: services_deinit_now() ends an OTA.
DeinitNow ==
    /\ ppc = "idle"
    /\ life \in {"deinit", "startfail"}
    /\ ~hasWork
    /\ update' = [update EXCEPT ![Ota] = NoSession]
    /\ life' = IF life = "deinit" THEN "waiting" ELSE "failed"
    /\ UNCHANGED <<stage, flagVars, hasWork, work, notified, svcVars, ppc, frame, linkVars, tx,
                   rpcSeen, requests, history>>

\* iris_services_deinit() finds work and task.
Deinit ==
    /\ ppc = "idle"
    /\ life \in {"deinit", "startfail"}
    /\ hasWork
    /\ ppc' = "abandoning"
    /\ UNCHANGED <<stage, flagVars, hasWork, work, notified, svcVars, life, frame, linkVars, tx,
                   dataVars, requests, history>>

\* The bounded wait for the deferred cleanup ends, and stop releases the rest.
StopReturns(ok) ==
    /\ life = "waiting"
    /\ ok => ~ExecutorBusy
    /\ life' = IF ok THEN "stopped" ELSE "failed"
    /\ UNCHANGED <<stage, flagVars, hasWork, work, notified, svcVars, ppc, frame, linkVars, tx,
                   dataVars, requests, history>>

-----------------------------------------------------------------------------
Protocol ==
    \/ \E s \in SessionIds \cup {NoSession} : BeginSession(s)
    \/ SessionReady \/ EndProvisional \/ EndSessionNow \/ EndSession \/ Abandon \/ AbandonPanics
    \/ \E r \in Request : Reserve(r) \/ CancelBusy(r)
    \/ EnsureFails \/ Queue \/ AnswerBusy
    \/ RequestCancel \/ RequestJobCancel \/ DrainClaim \/ Drain \/ FlushTx

Service ==
    \/ Take \/ Skip \/ Handle \/ HandleUpdate \/ HandleJob \/ PassBoundary \/ Commit
    \/ \E b \in BOOLEAN : HandleRpc(b) \/ EndRefused(b)
    \/ \E jobs \in SUBSET Updates : TakeFlags(jobs)
    \/ Cleanup \/ Finish

Application ==
    \/ Stop \/ WorkerGone \/ DeinitNow \/ Deinit
    \/ \E b \in BOOLEAN : Start(b) \/ StopReturns(b)

Next == Protocol \/ Service \/ Reap \/ Application

Spec == Init /\ [][Next]_vars

\* Both tasks run, callbacks return, and the link takes the bytes of the TX slot.
\* Hosts, the application and the idle timeout are under no obligation.
Fairness ==
    /\ WF_vars(Service)
    /\ WF_vars(\/ Abandon \/ AbandonPanics \/ EnsureFails \/ Queue \/ RequestCancel
               \/ RequestJobCancel \/ Drain)
    /\ WF_vars(FlushTx)
    /\ WF_vars(DrainClaim)

FairSpec == Spec /\ Fairness

-----------------------------------------------------------------------------
(* Properties. *)

Running == {"loaded", "handler", "committing", "loop", "cleanup"}

SlotType ==
    /\ stage \in {"IDLE", "QUEUED", "RUNNING", "DONE", "RESERVED", "DRAINING"}
    /\ hasWork \in BOOLEAN
    /\ work \in [req : Request, session : SessionIds \cup {NoSession}, reply : BOOLEAN]
    /\ notified \in BOOLEAN
FlagType ==
    /\ abandoned \in BOOLEAN /\ deinit \in BOOLEAN
    /\ cancel \in SUBSET Updates
    /\ jobCancel \in SUBSET Updates
    /\ taken \in [abandoned : BOOLEAN, deinit : BOOLEAN, cancel : SUBSET Updates,
                  jobs : SUBSET Updates]
    /\ acked \in SUBSET Updates
    /\ ackedJob \in SUBSET Updates
TaskType ==
    /\ spc \in Running \cup {"wait"}
    /\ cleaned \in BOOLEAN
    /\ ppc \in {"idle", "abandoning", "reserved", "draining", "cancelling"}
    /\ life \in {"running", "exiting", "deinit", "waiting", "stopped", "failed", "startfail"}
    /\ frame \in Request
    /\ ppc = "cancelling" => frame.kind \in Updates
SessionType ==
    /\ link \in {"down", "negotiating", "ready"}
    /\ session \in IF link = "down" THEN {NoSession} ELSE SessionIds
    /\ tx \in BOOLEAN
    /\ requests \in Nat
DataType ==
    /\ update \in [Updates -> SessionIds \cup {NoSession}]
    /\ rpcSeen \in SessionIds \cup {NoSession}

\* Type invariant of the slot, the two tasks and the session.
TypeOK == SlotType /\ FlagType /\ TaskType /\ SessionType /\ DataType

\* esp_iris_executor.inc ("Only the protocol task submits/drains; only
\* iris-service executes work"): the work buffer has one user at a time, and
\* exists as long as a request is in it.  The code does not give this to a caller of
\* executor_abandon() that found the buffer before executor_reap_idle() freed it: its
\* write goes through a null pointer (AbandonPanics), and the device starts again.
SlotHasOneOwner ==
    /\ spc \in Running <=> stage = "RUNNING"
    /\ ppc = "draining" <=> stage = "DRAINING"
    /\ ppc = "reserved" <=> stage = "RESERVED"
    /\ stage \in {"QUEUED", "RUNNING", "DONE", "DRAINING"} => hasWork
    /\ stage = "QUEUED" => notified

\* A session that ended still has its cleanup ahead of it.
CleanupPending == stage \in {"QUEUED", "RUNNING"} /\ (abandoned \/ taken.abandoned)

\* services_session_end_now, executor_abandon ("Session changes discard old
\* completions and defer cleanup"): what an ended session left behind, an update
\* in progress or a window of request ids, is cleaned up before a request of
\* another session can meet it.
SessionsAreIsolated ==
    /\ ~CleanupPending => \A k \in Updates : update[k] \in {NoSession, session}
    /\ spc \in {"handler", "committing"} =>
          /\ \A k \in Updates : update[k] \in {NoSession, work.session}
          /\ rpcSeen \in {NoSession, work.session}

\* executor_queue_next: a completion in the slot of a live session answers a
\* request of that session, so a new session never receives an old answer.
NoStaleCompletion ==
    /\ stage \in {"DONE", "DRAINING"} /\ work.reply => work.session = session
    /\ stage \in {"DONE", "DRAINING"} => link = "ready"

\* OTA CANCEL, SYSTEM_UPDATE CANCEL ("Acknowledges intent only") and CONTROL CANCEL
\* of their jobs: once the step that an acknowledged cancel met is over, its update is
\* no longer in progress (it may have been committed).
AckedCancelStops ==
    stage \in {"IDLE", "DONE", "DRAINING", "RESERVED"} =>
        \A k \in acked \cup ackedJob : update[k] = NoSession

FlagsAreConsumed ==
    /\ abandoned => stage \in {"QUEUED", "RUNNING"}
    /\ jobCancel # {} => stage \in {"QUEUED", "RUNNING"}
    /\ deinit => abandoned
    /\ taken.deinit => taken.abandoned
    /\ spc # "cleanup" => taken = NoTake
    /\ cleaned => spc \in {"loop", "cleanup"}
    /\ deinit \/ taken.deinit => life \notin {"running", "exiting"}
CallersInPlace ==
    /\ ppc \in {"reserved", "draining", "cancelling"} => link = "ready"
    /\ ppc = "abandoning" /\ life \in {"running", "exiting"} => link = "ready"
    /\ life \notin {"running", "exiting"} => link = "down" /\ ppc \in {"idle", "abandoning"}
    /\ life \in {"waiting", "stopped", "failed"} => ppc = "idle"
SlotOfSession ==
    /\ ~CleanupPending
    /\ stage \in {"QUEUED", "RUNNING", "DONE", "DRAINING"}
    /\ ~(stage = "RUNNING" /\ cleaned)
    => work.session = session /\ link = "ready"
CleanedIsEmpty ==
    stage = "RUNNING" /\ cleaned => rpcSeen = NoSession /\ update = NoUpdate
CandidateIsUnknown ==
    link = "negotiating" =>
        /\ session \notin {work.session, rpcSeen}
        /\ \A k \in Updates : update[k] # session
WindowOfSession ==
    link # "down" /\ ~CleanupPending => rpcSeen \in {NoSession, session}
CancelsReach ==
    /\ stage = "QUEUED" \/ spc \in {"loaded", "handler", "committing"} => acked \subseteq cancel
    /\ stage = "QUEUED" \/ spc = "loaded" => abandoned \/ ackedJob \subseteq jobCancel
    /\ spc \in {"handler", "committing"} => ackedJob \subseteq jobCancel
    /\ spc \in {"loop", "cleanup"} =>
          /\ \A k \in acked : k \in cancel \cup taken.cancel \/ update[k] = NoSession
          /\ \A k \in ackedJob :
                \/ abandoned \/ taken.abandoned
                \/ k \in jobCancel \cup taken.jobs \cup cancel \cup taken.cancel
                \/ update[k] = NoSession
    /\ ppc = "cancelling" /\ stage = "IDLE" => update = NoUpdate

\* The inductive invariant: every flag is consumed before the slot is given up,
\* the slot belongs to the live session unless a cleanup is on its way, and an
\* acknowledged cancel is on its way to its update.
ExecutorInv ==
    /\ TypeOK /\ SlotHasOneOwner /\ FlagsAreConsumed /\ CallersInPlace /\ SlotOfSession
    /\ CleanedIsEmpty /\ CandidateIsUnknown /\ WindowOfSession /\ SessionsAreIsolated
    /\ CancelsReach /\ AckedCancelStops

\* handle_ota, handle_commit ("This is the final cancellable boundary"): an update whose
\* cancel was acknowledged before the boundary is not committed, nor is a system update
\* whose job's cancel was.  The code does not give this for an OTA whose job is cancelled
\* while END runs: handle_ota asks executor_cancelled() and not the job, whose callback
\* comes after the step.
NoCommitAfterCancel ==
    [][spc = "handler" /\ spc' = "committing" =>
          work.req.kind \notin acked \cup (ackedJob \ {Ota})]_vars

\* iris_services_init ("A subsequent start rejects until deferred cleanup
\* completes"): a started runtime has no deinitialisation of an earlier one
\* ahead of it.
StartIsClean == life = "running" => ~deinit /\ ~taken.deinit

\* executor_run_one, executor_queue_next ("Completion draining retains unsent
\* responses under TX backpressure"): the slot that a request of a session took
\* becomes free again, unless the session ends first.
SlotIsFreed ==
    \A s \in SessionIds :
        (ExecutorBusy /\ session = s) ~> (~ExecutorBusy \/ session # s)
=============================================================================

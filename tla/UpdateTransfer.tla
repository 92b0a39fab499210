--------------------------- MODULE UpdateTransfer ---------------------------
(***************************************************************************)
(* The transfer of an update over one session: DeviceSession.ota_update()  *)
(* ("ota") and perform_system_update() ("system") against handle_ota() and *)
(* esp_iris_system_update.c, which run in the one slot of the executor.    *)
(*                                                                         *)
(* An image is Comps components of Chunks chunks; an OTA image has one.    *)
(* Request ids are abstracted: HostSession shows that an answer reaches    *)
(* its own request only, so a request of the host is its place in the      *)
(* batch, and what an abandoned request leaves on the way has place 0.     *)
(***************************************************************************)
EXTENDS Integers, Sequences, FiniteSets

CONSTANTS
    Kinds,      \* "ota", "system"
    Windows,    \* DATA requests of one batch: OTA_IN_FLIGHT_BYTES // chunk_size, 1 for "system"
    Chunks,     \* chunks of a component
    Comps,      \* components of a system update
    MaxOps,     \* bound: updates that the host starts
    MaxLoss,    \* bound: lost frames
    MaxLate,    \* bound: requests given up although their answer is still to come
    MaxFaults,  \* bound: failing writes and verifications of the device
    MaxBreaks   \* bound: lost sessions and reboots

ASSUME TransferAssumption ==
    /\ Kinds \subseteq {"ota", "system"}
    /\ Windows \subseteq Nat \ {0}
    /\ {Chunks, Comps, MaxOps} \subseteq Nat \ {0}
    /\ {MaxLoss, MaxLate, MaxFaults, MaxBreaks} \subseteq Nat

VARIABLES
    kind, window,
    \* ota_update() or perform_system_update()
    host,     \* where it is, its operation, component and offset
    pend,     \* the answers of the current requests, by place
    result,   \* how the last one ended
    alive,    \* the session is open
    \* the link
    h2d, d2h,
    \* the device
    dev,      \* iris_ota_t or the status of the system update, and what is written
    job,      \* the job of the last OTA
    slot,     \* s_executor: stage, request, answer
    cancel,   \* ota_cancel or s_cancel_requested
    abandoned,
    boot,     \* what esp_ota_set_boot_partition() or the backend's commit selected
    \* counters of the faults
    lost, late, faults, breaks

faultVars == <<lost, late, faults, breaks>>
hostVars == <<host, pend, result>>
devVars == <<dev, job, slot, cancel, abandoned, boot>>
vars == <<kind, window, hostVars, alive, h2d, d2h, devVars, faultVars>>

Waiting == [ok |-> FALSE, op |-> 0, phase |-> "waiting", comp |-> 0, received |-> 0]
Refused == [Waiting EXCEPT !.phase = "error"]
Off == [op |-> 0, phase |-> "idle", comp |-> 0, received |-> 0, written |-> <<>>]
NoRequest == [id |-> 0, type |-> "none", op |-> 0, comp |-> 0, offset |-> 0]
FreeSlot == [stage |-> "idle", req |-> NoRequest, answer |-> Refused]
Parts == IF kind = "ota" THEN 1 ELSE Comps

\* update_in_progress(), ota->active
Active == dev.phase \in {"prepared", "receiving", "verified", "committing"}

\* All chunks of operation o, in the order of the bundle.
Image(o) == [i \in 1 .. Parts * Chunks |-> <<o, (i - 1) \div Chunks, (i - 1) % Chunks>>]

Init ==
    /\ kind \in Kinds
    /\ window \in IF kind = "ota" THEN Windows ELSE {1}
    /\ host = [at |-> "idle", op |-> 0, comp |-> 0, offset |-> 0, error |-> "none"]
    /\ pend = <<>> /\ result = [op |-> 0, how |-> "none", freed |-> FALSE]
    /\ alive = TRUE /\ h2d = <<>> /\ d2h = <<>>
    /\ dev = Off /\ job = [op |-> 0, state |-> "none"] /\ slot = FreeSlot
    /\ cancel = FALSE /\ abandoned = FALSE /\ boot = [op |-> 0, written |-> <<>>]
    /\ lost = 0 /\ late = 0 /\ faults = 0 /\ breaks = 0

-----------------------------------------------------------------------------
(* The host: requests and how they end *)

Request(type, i, offset) ==
    [id |-> i, type |-> type, op |-> host'.op, comp |-> host'.comp, offset |-> offset]

\* What the requests given up leave behind answers nobody.
Stale(q) == [i \in DOMAIN q |-> [q[i] EXCEPT !.id = 0]]

\* _request_unlocked() of each of the requests; a closed session sends nothing and fails them.
SendAll(requests) ==
    /\ h2d' = IF alive THEN Stale(h2d) \o requests ELSE h2d
    /\ d2h' = Stale(d2h)
    /\ slot' = [slot EXCEPT !.req.id = 0]
    /\ pend' = [i \in DOMAIN requests |-> Waiting]

\* _request()
Ask(type) == SendAll(<<Request(type, 1, host'.offset)>>)

Go(at) == host' = [host EXCEPT !.at = at]

\* batch_offset < len(image) and len(batch) < request_count
BatchSize(offset) == IF Chunks - offset < window THEN Chunks - offset ELSE window

\* A batch of DATA, gathered under the request lock.
Batch(offset) ==
    SendAll([i \in 1 .. BatchSize(offset) |-> Request("DATA", i, offset + i - 1)])

\* The call returns or raises.
Leave(how, freed) ==
    /\ host' = [host EXCEPT !.at = "idle"]
    /\ result' = [op |-> host.op, how |-> how, freed |-> freed]
    /\ pend' = <<>>
    /\ h2d' = Stale(h2d) /\ d2h' = Stale(d2h) /\ slot' = [slot EXCEPT !.req.id = 0]

\* except BaseException: CANCEL, then raise.  A closed session fails the CANCEL at once.
\* A RuntimeError or ProtocolError is a failure, a TimeoutError or ConnectionError leaves the
\* outcome unknown to the gateway.
Raise(error) ==
    IF alive THEN /\ host' = [host EXCEPT !.at = "cancel", !.error = error]
                  /\ Ask("CANCEL") /\ UNCHANGED result
             ELSE Leave(error, FALSE)

\* The loop over the chunks of a component, and what follows it.
Transfer(offset) ==
    /\ UNCHANGED result
    /\ IF offset < Chunks
       THEN host' = [host EXCEPT !.at = "data", !.offset = offset] /\ Batch(offset)
       ELSE /\ host' = [host EXCEPT !.at = IF kind = "ota" THEN "commit" ELSE "close",
                                    !.offset = offset]
            /\ Ask(IF kind = "ota" THEN "COMMIT" ELSE "CLOSE")

\* BEGIN is before the try: no CANCEL follows its failure.
Begun ==
    IF kind = "ota" THEN Transfer(0)
                    ELSE Go("open") /\ Ask("OPEN") /\ UNCHANGED result

\* ota_update(), perform_system_update()
Start ==
    /\ host.at = "idle" /\ alive /\ host.op < MaxOps
    /\ host' = [at |-> "begin", op |-> host.op + 1, comp |-> 0, offset |-> 0, error |-> "none"]
    /\ Ask("BEGIN")
    /\ result' = [op |-> 0, how |-> "none", freed |-> FALSE]
    /\ UNCHANGED <<kind, window, alive, dev, job, cancel, abandoned, boot, faultVars>>

\* received != chunk_offset + len(chunk) is a ProtocolError.
Progressed(i) == pend[i].received = host.offset + i

\* After a timeout the transfer goes on where the device is, inside the batch.
Resume(a) ==
    IF a.op # host.op \/ a.phase # "receiving" \/ a.comp # host.comp THEN Raise("unknown")
    ELSE IF a.received \in host.offset .. host.offset + window THEN Transfer(a.received)
    ELSE Raise("failed")

\* Mutant: a job that is not over confirms the end.
MutConfirms(a) == a.op = host.op
\* The END or COMMIT without an answer is confirmed by the job, or by the status.
Confirms(a) ==
    a.op = host.op /\ a.phase = IF kind = "ota" THEN "succeeded" ELSE "committed"

\* OTA end response timed out: TimeoutError
Unconfirmed == Raise("unknown")

\* A BEGIN without an answer is repeated when the device has prepared the operation.
Prepared(a) == a.op = host.op /\ a.phase = "prepared" /\ a.comp = 0

\* Every request of the batch has its answer.
Complete == pend # <<>> /\ \A i \in DOMAIN pend : pend[i].ok

\* The transfer takes the answers.
Proceed ==
    /\ Complete
    /\ LET a == pend[Len(pend)] IN
       \/ host.at \in {"begin", "begin2"} /\ Begun
       \/ /\ host.at = "begin_status"
          /\ IF Prepared(a)
             THEN Go("begin2") /\ Ask("BEGIN") /\ UNCHANGED result
             ELSE Leave("unknown", FALSE)
       \/ host.at = "open" /\ Transfer(0)
       \/ /\ host.at = "data"
          /\ IF \A i \in DOMAIN pend : Progressed(i)
             THEN Transfer(a.received)
             ELSE Raise("failed")
       \/ host.at = "data_status" /\ Resume(a)
       \/ /\ host.at = "close"
          /\ IF host.comp + 1 < Parts
             THEN host' = [host EXCEPT !.at = "open", !.comp = @ + 1, !.offset = 0] /\ Ask("OPEN")
             ELSE Go("commit") /\ Ask("COMMIT")
          /\ UNCHANGED result
       \/ host.at = "commit" /\ Leave(IF a.phase = "committed" THEN "answer" ELSE "failed", FALSE)
       \/ host.at = "confirm" /\ IF Confirms(a) THEN Leave("status", FALSE) ELSE Unconfirmed
       \/ host.at = "cancel" /\ Leave(host.error, TRUE)
    /\ UNCHANGED <<kind, window, alive, dev, job, cancel, abandoned, boot, faultVars>>

\* A request raises.  The exception of a CANCEL is suppressed.
Fails(error) ==
    \/ host.at \in {"begin", "begin2", "begin_status"} /\ Leave(error, FALSE)
    \/ host.at = "cancel" /\ Leave(host.error, FALSE)
    \/ host.at = "commit" /\ ~alive /\ Leave("session_close", FALSE)
    \/ host.at \notin {"begin", "begin2", "begin_status", "cancel"}
       /\ (host.at = "commit" => alive) /\ Raise(error)

\* ERROR of the device, or the end of the session
RequestFails ==
    /\ host.at # "idle"
    /\ \/ ~alive /\ Fails("unknown")
       \/ alive /\ (\E i \in DOMAIN pend : pend[i].phase = "error") /\ Fails("failed")
    /\ UNCHANGED <<kind, window, alive, dev, job, cancel, abandoned, boot, faultVars>>

\* The request or its answer is lost; without that, the timeout is early.
Gone(i) ==
    /\ \A j \in DOMAIN h2d : h2d[j].id # i
    /\ \A j \in DOMAIN d2h : d2h[j].id # i
    /\ slot.req.id # i

\* Mutant: a request without an answer waits for ever.
MutExpires(i) == FALSE
\* wait_for() of a request that is still pending
Expires(i) == pend[i] = Waiting /\ alive

TimesOut(i) ==
    /\ Expires(i)
    /\ \/ host.at = "begin" /\ kind = "system" /\ Go("begin_status") /\ Ask("STATUS") /\ UNCHANGED result
       \/ host.at = "data" /\ Go("data_status") /\ Ask("STATUS") /\ UNCHANGED result
       \/ /\ host.at = "commit" /\ Go("confirm")
          /\ Ask(IF kind = "ota" THEN "JOB" ELSE "STATUS") /\ UNCHANGED result
       \/ ~ (host.at \in {"data", "commit"} \/ (host.at = "begin" /\ kind = "system")) /\ Fails("unknown")
    /\ UNCHANGED <<kind, window, alive, dev, job, cancel, abandoned, boot, lost, faults, breaks>>

Timeout == \E i \in DOMAIN pend : Gone(i) /\ TimesOut(i) /\ UNCHANGED late
EarlyTimeout ==
    late < MaxLate /\ \E i \in DOMAIN pend : ~Gone(i) /\ TimesOut(i) /\ late' = late + 1

\* _handle_frame()
HostReceives ==
    /\ d2h # <<>> /\ d2h' = Tail(d2h)
    /\ LET a == Head(d2h) IN
       pend' = IF a.id \in DOMAIN pend THEN [pend EXCEPT ![a.id] = a.body] ELSE pend
    /\ UNCHANGED <<kind, window, host, result, alive, h2d, devVars, faultVars>>

-----------------------------------------------------------------------------
(* The device *)

Answer(id, body) == d2h' = Append(d2h, [id |-> id, body |-> body])
Body(d) == [ok |-> TRUE, op |-> d.op, phase |-> d.phase, comp |-> d.comp, received |-> d.received]
Busy == slot.stage # "idle"

\* executor_dispatch() on the protocol task.
DeviceReceives ==
    /\ h2d # <<>> /\ h2d' = Tail(h2d)
    /\ LET r == Head(h2d) IN
       \/ /\ r.type = "JOB"
          /\ Answer(r.id, IF job.op = r.op THEN [Body(Off) EXCEPT !.op = r.op, !.phase = job.state]
                                           ELSE Refused)
          /\ UNCHANGED <<slot, cancel>>
       \/ /\ r.type = "STATUS" /\ (Busy \/ kind = "system")
          /\ Answer(r.id, Body(dev))
          /\ UNCHANGED <<slot, cancel>>
       \/ /\ r.type = "CANCEL" /\ Busy
          /\ LET taken == slot.stage # "done"
                          /\ (kind = "system" => dev.op = r.op /\ Active) IN
             /\ cancel' = (cancel \/ taken)
             /\ Answer(r.id, IF taken THEN Body(dev) ELSE Refused)
          /\ UNCHANGED slot
       \/ /\ Busy /\ r.type \notin {"JOB", "CANCEL", "STATUS"}
          /\ Answer(r.id, Refused)
          /\ UNCHANGED <<slot, cancel>>
       \/ /\ ~Busy /\ r.type # "JOB" /\ (r.type = "STATUS" => kind = "ota")
          /\ slot' = [stage |-> "queued", req |-> r, answer |-> Refused]
          /\ cancel' = IF kind = "ota" THEN FALSE ELSE cancel
          /\ UNCHANGED d2h
    /\ UNCHANGED <<kind, window, hostVars, alive, dev, job, abandoned, boot, faultVars>>

\* ota_abort(), or backend_abort() and job_finish(): nothing when no update is active.
Aborted(phase) ==
    /\ dev' = IF ~Active THEN dev
              ELSE IF kind = "ota" THEN Off
              ELSE [dev EXCEPT !.phase = phase, !.received = 0, !.written = <<>>]
    /\ job' = IF Active /\ job.op = dev.op THEN [job EXCEPT !.state = "failed"] ELSE job

Answers(body) == slot' = [slot EXCEPT !.stage = "ran", !.answer = body]
Refuse == Answers(Refused) /\ UNCHANGED <<dev, job>>

\* The backend fails, or a digest does not match: the update is over, the answer an ERROR.
Faulty == faults < MaxFaults /\ faults' = faults + 1 /\ Aborted("failed") /\ Answers(Refused)

\* OTA BEGIN, handle_begin(): a repeated BEGIN of a prepared system update is answered again.
DoBegin(r) ==
    IF Active
    THEN IF kind = "system" /\ dev.op = r.op /\ dev.phase = "prepared" /\ dev.comp = 0
         THEN Answers(Body(dev)) /\ UNCHANGED <<dev, job, faults>>
         ELSE Refuse /\ UNCHANGED faults
    ELSE \/ /\ dev' = [Off EXCEPT !.op = r.op,
                                  !.phase = IF kind = "ota" THEN "receiving" ELSE "prepared"]
            /\ job' = [op |-> r.op, state |-> "running"]
            /\ Answers(Body(dev')) /\ UNCHANGED faults
         \/ Faulty

\* handle_component_begin()
DoOpen(r) ==
    IF dev.op = r.op /\ dev.phase = "prepared" /\ dev.comp = r.comp
    THEN \/ /\ dev' = [dev EXCEPT !.phase = "receiving", !.received = 0]
            /\ Answers(Body(dev')) /\ UNCHANGED <<job, faults>>
         \/ Faulty
    ELSE Refuse /\ UNCHANGED faults

\* Mutant: the device takes a chunk at any offset.
MutInOrder(r) == TRUE
\* The chunk is the next one.  OTA DATA does not name the operation.
InOrder(r) ==
    r.offset = dev.received /\ (kind = "system" => dev.op = r.op /\ dev.comp = r.comp)

\* OTA DATA, handle_data()
DoData(r) ==
    IF dev.phase # "receiving" \/ ~InOrder(r) \/ dev.received = Chunks
    THEN Refuse /\ UNCHANGED faults
    ELSE \/ /\ dev' = [dev EXCEPT !.received = @ + 1,
                                  !.written = Append(@, <<r.op, r.comp, r.offset>>)]
            /\ Answers(Body(dev'))
            /\ UNCHANGED <<job, faults>>
         \/ Faulty

\* handle_component_end()
DoClose(r) ==
    IF dev.op = r.op /\ dev.comp = r.comp /\ dev.phase = "receiving" /\ dev.received = Chunks
    THEN \/ /\ dev' = [dev EXCEPT !.comp = @ + 1, !.received = 0,
                                  !.phase = IF r.comp + 1 < Parts THEN "prepared" ELSE "verified"]
            /\ Answers(Body(dev')) /\ UNCHANGED <<job, faults>>
         \/ Faulty
    ELSE Refuse /\ UNCHANGED faults

\* The checks of OTA END up to the cancellation boundary, handle_commit() up to the backend.
Verified(r) ==
    IF kind = "ota" THEN dev.received = Chunks ELSE dev.comp = Parts /\ dev.op = r.op
Finished(ok) ==
    /\ dev' = IF kind = "ota" THEN Off
              ELSE [dev EXCEPT !.phase = IF ok THEN "committed" ELSE "failed"]
    /\ job' = IF job.op = dev.op
              THEN [job EXCEPT !.state = IF ok THEN "succeeded" ELSE "failed"] ELSE job
    /\ Answers([Body(dev) EXCEPT !.phase = IF ok THEN "committed" ELSE "failed"])
DoCommit(r) ==
    \/ /\ IF kind = "ota" THEN dev.phase # "receiving" ELSE dev.phase # "verified" \/ ~Verified(r)
       /\ Refuse /\ UNCHANGED faults
    \/ /\ IF kind = "ota" THEN dev.phase = "receiving" ELSE dev.phase = "verified" /\ Verified(r)
       /\ \/ /\ Verified(r) /\ ~cancel /\ ~abandoned
             /\ slot' = [slot EXCEPT !.stage = "boundary"]
             /\ dev' = IF kind = "ota" THEN dev ELSE [dev EXCEPT !.phase = "committing"]
             /\ UNCHANGED <<job, faults>>
          \/ (~Verified(r) \/ cancel \/ abandoned) /\ Finished(FALSE) /\ UNCHANGED faults
          \/ faults < MaxFaults /\ faults' = faults + 1 /\ Finished(FALSE)

\* OTA CANCEL, handle_cancel()
DoCancel(r) ==
    IF Active /\ (kind = "system" => dev.op = r.op)
    THEN Aborted("cancelled") /\ Answers([Body(dev) EXCEPT !.phase = "cancelled"])
    ELSE Refuse

DoStatus == Answers(Body(dev)) /\ UNCHANGED <<dev, job>>

\* executor_run_one(): the handler, unless the session was given up.
Execute ==
    /\ slot.stage = "queued"
    /\ LET r == slot.req IN
       IF abandoned \/ r.type = "none"
       THEN Refuse /\ UNCHANGED faults
       ELSE \/ r.type = "BEGIN" /\ DoBegin(r)
            \/ r.type = "OPEN" /\ DoOpen(r)
            \/ r.type = "DATA" /\ DoData(r)
            \/ r.type = "CLOSE" /\ DoClose(r)
            \/ r.type = "COMMIT" /\ DoCommit(r)
            \/ r.type = "CANCEL" /\ DoCancel(r) /\ UNCHANGED faults
            \/ r.type = "STATUS" /\ DoStatus /\ UNCHANGED faults
    /\ UNCHANGED <<kind, window, hostVars, alive, h2d, d2h, cancel, abandoned, boot, lost, late, breaks>>

\* Past the boundary: the boot partition is set, or the backend commits.
Select ==
    /\ slot.stage = "boundary"
    /\ boot' = [op |-> dev.op, written |-> dev.written]
    /\ Finished(TRUE)
    /\ UNCHANGED <<kind, window, hostVars, alive, h2d, d2h, cancel, abandoned, faultVars>>

\* Mutant: a cancel that arrives while the step runs is dropped.
MutCleanUp ==
    /\ slot.stage = "ran"
    /\ cancel' = FALSE /\ abandoned' = FALSE
    /\ slot' = [slot EXCEPT !.stage = IF abandoned THEN "idle" ELSE "done"]
    /\ UNCHANGED <<dev, job>>
    /\ UNCHANGED <<kind, window, hostVars, alive, h2d, d2h, boot, faultVars>>
\* The loop of executor_run_one() after the step: cancels, then the end of the session.
CleanUp ==
    /\ slot.stage = "ran"
    /\ cancel' = FALSE /\ abandoned' = FALSE
    /\ IF cancel \/ abandoned THEN Aborted("cancelled") ELSE UNCHANGED <<dev, job>>
    /\ slot' = [slot EXCEPT !.stage = IF abandoned THEN "idle" ELSE IF cancel THEN "ran" ELSE "done",
                            !.req = IF abandoned THEN NoRequest ELSE @]
    /\ UNCHANGED <<kind, window, hostVars, alive, h2d, d2h, boot, faultVars>>

\* executor_queue_next()
Drain ==
    /\ slot.stage = "done"
    /\ Answer(slot.req.id, slot.answer)
    /\ slot' = FreeSlot
    /\ UNCHANGED <<kind, window, hostVars, alive, h2d, dev, job, cancel, abandoned, boot, faultVars>>

-----------------------------------------------------------------------------
(* Faults *)

Drop(q, i) == [j \in 1 .. Len(q) - 1 |-> IF j < i THEN q[j] ELSE q[j + 1]]

Lose ==
    /\ alive /\ lost < MaxLoss /\ lost' = lost + 1
    /\ \/ \E i \in DOMAIN h2d : h2d' = Drop(h2d, i) /\ UNCHANGED d2h
       \/ \E i \in DOMAIN d2h : d2h' = Drop(d2h, i) /\ UNCHANGED h2d
    /\ UNCHANGED <<kind, window, hostVars, alive, devVars, late, faults, breaks>>

\* The link goes: end_session() abandons the work of the executor, or cleans up when it has none.
Disconnect ==
    /\ alive /\ breaks < MaxBreaks /\ breaks' = breaks + 1
    /\ alive' = FALSE /\ h2d' = <<>> /\ d2h' = <<>>
    /\ \/ /\ abandoned' = TRUE /\ cancel' = TRUE
          /\ slot' = IF Busy /\ slot.stage # "done" THEN [slot EXCEPT !.req.id = 0]
                     ELSE [FreeSlot EXCEPT !.stage = "queued"]
          /\ UNCHANGED <<dev, job>>
       \/ ~Busy /\ Aborted("cancelled") /\ UNCHANGED <<slot, cancel, abandoned>>
    /\ UNCHANGED <<kind, window, hostVars, boot, lost, late, faults>>

\* A reset of the device keeps what was selected.
Reboot ==
    /\ alive /\ breaks < MaxBreaks /\ breaks' = breaks + 1
    /\ alive' = FALSE /\ h2d' = <<>> /\ d2h' = <<>>
    /\ dev' = Off /\ job' = [op |-> 0, state |-> "none"] /\ slot' = FreeSlot
    /\ cancel' = FALSE /\ abandoned' = FALSE
    /\ UNCHANGED <<kind, window, hostVars, boot, lost, late, faults>>

Reconnect ==
    /\ ~alive /\ host.at = "idle"
    /\ alive' = TRUE
    /\ UNCHANGED <<kind, window, hostVars, h2d, d2h, devVars, faultVars>>

Next ==
    \/ Start \/ Proceed \/ RequestFails \/ Timeout \/ EarlyTimeout \/ HostReceives
    \/ DeviceReceives \/ Execute \/ Select \/ CleanUp \/ Drain
    \/ Lose \/ Disconnect \/ Reboot \/ Reconnect

Spec == Init /\ [][Next]_vars

\* The tasks run, and asyncio's deadlines pass.
Fairness ==
    /\ WF_vars(Proceed) /\ WF_vars(RequestFails) /\ WF_vars(Timeout) /\ WF_vars(HostReceives)
    /\ WF_vars(DeviceReceives) /\ WF_vars(Execute) /\ WF_vars(Select) /\ WF_vars(CleanUp)
    /\ WF_vars(Drain)
FairSpec == Spec /\ Fairness

-----------------------------------------------------------------------------
(* Properties *)

Bodies == [ok : BOOLEAN, op : 0 .. MaxOps,
           phase : {"waiting", "error", "idle", "prepared", "receiving", "verified", "committing",
                    "committed", "cancelled", "failed", "running", "succeeded"},
           comp : 0 .. Parts, received : 0 .. Chunks]

\* The state of the host and of the device stays in its types: an offset never passes the end
\* of a component, a batch never its window or the end.
TypeOK ==
    /\ host.at \in {"idle", "begin", "begin_status", "begin2", "open", "data", "data_status", "close",
                   "commit", "confirm", "cancel"}
    /\ host.op \in 0 .. MaxOps /\ host.comp \in 0 .. Parts - 1 /\ host.offset \in 0 .. Chunks
    /\ Len(pend) <= window /\ \A i \in DOMAIN pend : pend[i] \in Bodies
    /\ \A i \in DOMAIN h2d : h2d[i].type = "DATA" => h2d[i].offset \in 0 .. Chunks - 1
    /\ result.how \in {"none", "failed", "unknown", "answer", "status", "session_close"}
    /\ dev.op \in 0 .. MaxOps /\ dev.comp \in 0 .. Parts /\ dev.received \in 0 .. Chunks
    /\ slot.stage \in {"idle", "queued", "boundary", "ran", "done"}

\* Through lost answers, batches resumed after a timeout, repeated chunks and late cancels, what
\* an update has written is a prefix of its image, without a gap or a chunk twice.
WrittenIsPrefix ==
    Active => dev.written = SubSeq(Image(dev.op), 1, dev.comp * Chunks + dev.received)

\* handle_ota, handle_data: offsets stay in their ranges, and what was written under them is
\* right.
WritesAreSound == TypeOK /\ WrittenIsPrefix

\* Completion evidence "end_response", "commit_response", "device_job" or "device_status" is
\* never reported unless the device has selected the whole image of this very operation.
\* "session_close" promises nothing: the gateway has to look at the next boot.
EvidenceIsTrue ==
    result.how \in {"answer", "status"} => boot = [op |-> result.op, written |-> Image(result.op)]

\* A definite failure is one: when the call raises a RuntimeError or a ProtocolError, which the
\* gateway records as "failed", the device has not selected the image and never will, whatever
\* requests and cancels are still on their way.
FailureIsDefinite == result.how = "failed" => boot.op # result.op

\* ota_update, perform_system_update: the host reports what became of the update on the device: neither
\* a completion nor a failure that is not one.
ResultIsTrue == EvidenceIsTrue /\ FailureIsDefinite

\* After a failed transfer whose CANCEL was acknowledged, also when it met a running step, no
\* update of the session stays open once the executor is idle: the next BEGIN is not refused.
AckedCancelReleases == result.how \in {"failed", "unknown"} /\ result.freed /\ ~Busy => ~Active

\* Without a fault or an early deadline no update fails...
Healthy == lost + late + faults + breaks = 0
WindowSucceeds == Healthy => result.how \notin {"failed", "unknown"}
\* ...when the requests are sent one at a time: a system update, and an OTA whose chunks are
\* larger than half of OTA_IN_FLIGHT_BYTES.  The code does not give WindowSucceeds for a wider
\* window, and the default chunk of 1024 bytes makes one of four requests: the executor has one
\* slot, and refuses a DATA that arrives while the one before it is written.
HealthySucceeds == window = 1 => WindowSucceeds

\* ota_update, perform_system_update: every update call returns, whatever is lost, late or
\* broken and however many requests a batch has; and when nothing is lost, late or broken and
\* requests are sent one at a time, it returns with success.
TransferEnds ==
    /\ (host.at # "idle") ~> (host.at = "idle")
    /\ []HealthySucceeds

=============================================================================

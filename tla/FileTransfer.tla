---------------------------- MODULE FileTransfer ----------------------------
(***************************************************************************)
(* One file of a device and the requests that reach it: DeviceFiles of the *)
(* gateway (upload with its reconciliation after a timeout, delete, list   *)
(* and download) against the file task of the device, which has one slot   *)
(* for a request and one for an open handle.  Frames may be lost, answers  *)
(* may come after the timeout, the session may break, and the application  *)
(* on the device may change the file by itself.                            *)
(***************************************************************************)
EXTENDS Integers, FiniteSets

CONSTANTS
    N,          \* chunks of an upload
    MaxOps,     \* operations on the file
    MaxReads,   \* lists or downloads
    MaxTries,   \* WRITE_STATUS requests that may answer BUSY (files.py has 12)
    MaxFaults   \* lost frames, late answers, broken sessions, edits, write errors

ASSUME ChunksAssumption == N \in Nat \ {0}
ASSUME TriesAssumption == MaxTries \in Nat \ {0}
ASSUME BoundsAssumption ==
    {MaxOps, MaxReads, MaxFaults} \subseteq Nat

VARIABLES
    file,     \* the target: data and etag; as history, its version and whether an etag came twice
    temps,    \* temporary files on the volume
    handle,   \* the device's open handle
    receipt,  \* the last terminal receipt of a write
    job,      \* the file task's request: queued, or done and not yet sent
    call,     \* the host's request in flight (the session has one request lock)
    op,       \* the operation of the gateway: an upload or a delete
    reader,   \* a list or a download, which needs no operation
    opens,    \* streams opened so far
    used      \* faults so far

vars == <<file, temps, handle, receipt, job, call, op, reader, opens, used>>
device == <<file, temps, handle, receipt, opens>>
host == <<op, reader>>

NoTerms == [over |-> FALSE, match |-> -1]   \* the conditions a WRITE_OPEN states
NoHandle == [kind |-> "none", stream |-> 0, got |-> 0, base |-> 0, existed |-> FALSE,
             terms |-> NoTerms, version |-> 0, seen |-> 0]
NoReceipt == [stream |-> 0, state |-> "aborted", got |-> 0]
NoCall == [by |-> "nobody", type |-> "stat", stream |-> 0, off |-> 0, st |-> "none", got |-> 0]
NoJob == [stage |-> "none", mine |-> FALSE, type |-> "stat", stream |-> 0, off |-> 0,
          st |-> "none", got |-> 0, terms |-> NoTerms]
NoOp == [pc |-> "idle", kind |-> "upload", terms |-> NoTerms, stream |-> 0, from |-> 0,
         sent |-> 0, again |-> FALSE, tries |-> 0, out |-> "none"]
NoReader == [pc |-> "idle", stream |-> 0]
Unused == [ops |-> 0, reads |-> 0, loss |-> 0, late |-> 0, breaks |-> 0, edits |-> 0,
           io |-> 0, blind |-> 0, killed |-> 0]

Asking == {"open", "write", "check", "commit", "recheck", "commit_again", "stat", "abort",
           "delete"}
Types == {"open", "write", "status", "commit", "stat", "abort", "delete", "read_open",
          "read", "close"}
Statuses == {"none", "ok", "busy", "error", "active", "committed", "aborted"}

Terms == [over : BOOLEAN, match : Nat \union {-1}]
Files == [data : {"absent", "old", "local", "new"}, etag : Nat, version : Nat,
          weak : BOOLEAN]
Handles == [kind : {"none", "read", "write"}, stream : Nat, got : 0 .. N, base : Nat,
            existed : BOOLEAN, terms : Terms, version : Nat, seen : Nat]
Receipts == [stream : Nat, state : {"committed", "aborted"}, got : 0 .. N]
Jobs == [stage : {"none", "queued", "renaming", "done"}, mine : BOOLEAN, type : Types, stream : Nat,
         off : 0 .. N, st : Statuses, got : Nat, terms : Terms]
Requests == [by : {"nobody", "op", "reader"}, type : Types, stream : Nat, off : 0 .. N,
             st : Statuses, got : Nat]
Ops == [pc : Asking \union {"idle", "done"}, kind : {"upload", "delete"}, terms : Terms,
        stream : Nat, from : Nat, sent : 0 .. N, again : BOOLEAN, tries : 0 .. MaxTries - 1,
        out : {"none", "success", "failed", "unknown"}]
Readers == [pc : {"idle", "stat", "read_open", "read", "close"}, stream : Nat]
Counters == {"ops", "reads", "loss", "late", "breaks", "edits", "io", "blind", "killed"}

\* Type invariant: offsets end at the size of the file, retries of WRITE_STATUS at their limit.
TypeOK ==
    /\ file \in Files /\ handle \in Handles /\ receipt \in Receipts
    /\ job \in Jobs /\ call \in Requests /\ op \in Ops /\ reader \in Readers
    /\ temps \in Nat /\ opens \in Nat /\ used \in [Counters -> Nat]

Init ==
    /\ file \in {[data |-> data, etag |-> 0, version |-> 0, weak |-> FALSE] :
                    data \in {"old", "absent"}}
    /\ temps = 0 /\ handle = NoHandle /\ receipt = NoReceipt /\ job = NoJob
    /\ call = NoCall /\ op = NoOp /\ reader = NoReader /\ opens = 0 /\ used = Unused

Begins(kind, limit) == used[kind] < limit /\ used' = [used EXCEPT ![kind] = @ + 1]
Faults == {"loss", "late", "breaks", "edits", "io", "blind"}
MayFail ==
    used.loss + used.late + used.breaks + used.edits + used.io + used.blind < MaxFaults
Fault(kind) == MayFail /\ used' = [used EXCEPT ![kind] = @ + 1]

(* weak_etag hashes mode, size and time of the last change: a new version  *)
(* may have the etag of an earlier one.                                    *)
Etags == 0 .. file.version + 1
Becomes(data) ==
    \E etag \in IF data = "absent" THEN {file.version + 1} ELSE Etags :
        file' = [data |-> data, etag |-> etag, version |-> file.version + 1,
                 weak |-> file.weak \/ etag # file.version + 1]

(***************************************************************************)
(* The device's side of a request.  iris_files_handle_frame answers BUSY   *)
(* at once while an earlier request is with the task.                      *)
(***************************************************************************)
TypeOf(pc) ==
    IF pc \in {"check", "recheck"} THEN "status"
    ELSE IF pc = "commit_again" THEN "commit" ELSE pc
Accepted == job.stage = "none"

Calls(who, type, stream, off, st) ==
    call' = [by |-> who, type |-> type, stream |-> stream, off |-> off, st |-> st, got |-> 0]
Ask(who, type, stream, off) ==
    /\ call = NoCall
    /\ \/ /\ Accepted
          /\ Calls(who, type, stream, off, "none")
          /\ job' = [stage |-> "queued", mine |-> TRUE, type |-> type, stream |-> stream,
                     off |-> off, st |-> "none", got |-> 0, terms |-> op.terms]
          /\ UNCHANGED used
       \/ /\ ~Accepted
          /\ Calls(who, type, stream, off, "busy")
          /\ UNCHANGED <<job, used>>
       \/ /\ Fault("loss")
          /\ Calls(who, type, stream, off, "none")
          /\ UNCHANGED job
    /\ UNCHANGED <<device, host>>

AskOp == op.pc \in Asking /\ Ask("op", TypeOf(op.pc), op.stream, op.sent)
AskReader == reader.pc # "idle" /\ Ask("reader", reader.pc, reader.stream, 0)

(* What the task answers, and what it leaves behind. *)
Answer(st, got) == job' = [job EXCEPT !.stage = "done", !.st = st, !.got = got]
Refuse == Answer("error", 0) /\ UNCHANGED <<device, used>>
HandleFree == handle.kind = "none"
Owns(kind) == handle.kind = kind /\ handle.stream = job.stream
Exists == file.data # "absent"
CloseHandle == handle' = NoHandle
Receipt(state) == receipt' = [stream |-> handle.stream, state |-> state, got |-> handle.got]

Meets(terms) == /\ Exists => terms.over
                /\ terms.match # -1 => (Exists /\ file.etag = terms.match)
WriteOpen ==
    /\ job.type = "open"
    /\ IF ~HandleFree THEN Answer("busy", 0) /\ UNCHANGED device
       ELSE IF ~Meets(job.terms) THEN Answer("error", 0) /\ UNCHANGED device
       ELSE /\ handle' = [kind |-> "write", stream |-> opens + 1, got |-> 0,
                          base |-> file.etag, existed |-> Exists, terms |-> job.terms,
                          version |-> file.version, seen |-> file.version]
            /\ opens' = opens + 1 /\ temps' = temps + 1 /\ receipt' = NoReceipt
            /\ Answer("ok", opens + 1)
            /\ UNCHANGED file
    /\ UNCHANGED used

InOrder == job.off = handle.got
Write ==
    /\ job.type = "write"
    /\ \/ /\ Owns("write") /\ InOrder
          /\ handle' = [handle EXCEPT !.got = @ + 1]
          /\ Answer("ok", handle.got + 1)
          /\ UNCHANGED <<file, temps, receipt, opens, used>>
       \/ /\ Owns("write") /\ InOrder
          /\ Fault("io")
          /\ Receipt("aborted") /\ CloseHandle /\ temps' = temps - 1
          /\ Answer("error", 0)
          /\ UNCHANGED <<file, opens>>
       \/ ~(Owns("write") /\ InOrder) /\ Refuse

(* COMMIT looks at the target again, and then writes out, closes and       *)
(* renames the temporary file: the application may run in between.         *)
MutUnchanged == TRUE
Unchanged == Exists = handle.existed /\ (Exists => file.etag = handle.base)
Complete == handle.got = N /\ Unchanged
CommitCheck ==
    /\ job.type = "commit"
    /\ \/ /\ Owns("write") /\ Complete
          /\ handle' = [handle EXCEPT !.seen = file.version]
          /\ job' = [job EXCEPT !.stage = "renaming"]
          /\ UNCHANGED <<file, temps, receipt, opens>>
       \/ /\ Owns("write") /\ ~Complete
          /\ Receipt("aborted") /\ CloseHandle /\ temps' = temps - 1
          /\ Answer("error", 0)
          /\ UNCHANGED <<file, opens>>
       \/ ~Owns("write") /\ Answer("error", 0) /\ UNCHANGED device
    /\ UNCHANGED used

(* The volume may fail it before the rename ("io"), or hide the new file   *)
(* from the stat that follows it ("blind").                                *)
CommitRename ==
    /\ \/ /\ Becomes("new")
          /\ \/ Receipt("committed") /\ Answer("ok", 0) /\ UNCHANGED used
             \/ Receipt("aborted") /\ Answer("error", 0) /\ Fault("blind")
       \/ Receipt("aborted") /\ Answer("error", 0) /\ Fault("io") /\ UNCHANGED file
    /\ temps' = temps - 1 /\ CloseHandle
    /\ UNCHANGED opens

Abort ==
    /\ job.type = "abort"
    /\ IF Owns("write")
       THEN /\ Receipt("aborted") /\ CloseHandle /\ temps' = temps - 1 /\ Answer("ok", 0)
            /\ UNCHANGED <<file, opens, used>>
       ELSE Refuse

WriteStatus ==
    /\ job.type = "status"
    /\ IF Owns("write") THEN Answer("active", handle.got)
       ELSE IF receipt.stream = job.stream THEN Answer(receipt.state, receipt.got)
       ELSE Answer("error", 0)
    /\ UNCHANGED <<device, used>>

Delete ==
    /\ job.type = "delete"
    /\ IF HandleFree /\ Exists
       THEN /\ Becomes("absent") /\ Answer("ok", 0)
            /\ UNCHANGED <<temps, handle, receipt, opens, used>>
       ELSE Answer(IF HandleFree THEN "error" ELSE "busy", 0) /\ UNCHANGED <<device, used>>

Stat ==
    /\ job.type = "stat"
    /\ Answer(IF Exists THEN "ok" ELSE "error", 0)
    /\ UNCHANGED <<device, used>>

Read ==
    \/ /\ job.type = "read_open"
       /\ IF HandleFree /\ Exists
          THEN /\ handle' = [kind |-> "read", stream |-> opens + 1, got |-> 0, base |-> 0,
                             existed |-> FALSE, terms |-> NoTerms, version |-> 0, seen |-> 0]
               /\ opens' = opens + 1 /\ Answer("ok", opens + 1)
               /\ UNCHANGED <<file, temps, receipt, used>>
          ELSE Answer(IF HandleFree THEN "error" ELSE "busy", 0) /\ UNCHANGED <<device, used>>
    \/ /\ job.type = "read"
       /\ Answer(IF Owns("read") THEN "ok" ELSE "error", 0)
       /\ UNCHANGED <<device, used>>
    \/ /\ job.type = "close"
       /\ IF Owns("read")
          THEN CloseHandle /\ Answer("ok", 0) /\ UNCHANGED <<file, temps, receipt, opens, used>>
          ELSE Refuse

(* The file task at its request (process_work). *)
FileTask ==
    /\ \/ /\ job.stage = "queued"
          /\ \/ WriteOpen \/ Write \/ CommitCheck \/ Abort
             \/ WriteStatus \/ Delete \/ Stat \/ Read
       \/ job.stage = "renaming" /\ CommitRename
    /\ UNCHANGED <<call, host>>

(* iris_files_queue_next: the slot is free, the answer goes to whoever     *)
(* still waits for it, unless the link loses it.                           *)
Drain ==
    /\ job.stage = "done"
    /\ job' = NoJob
    /\ \/ /\ call' = IF job.mine THEN [call EXCEPT !.st = job.st, !.got = job.got] ELSE call
          /\ UNCHANGED used
       \/ Fault("loss") /\ UNCHANGED call
    /\ UNCHANGED <<device, host>>

(* The application writes or removes the file. *)
LocalEdit ==
    /\ Fault("edits")
    /\ \E data \in {"local", "absent"} \ {file.data} : Becomes(data)
    /\ UNCHANGED <<temps, handle, receipt, opens, job, call, host>>

(***************************************************************************)
(* The gateway.                                                            *)
(***************************************************************************)
Idle == op.pc \in {"idle", "done"}
Submits(pc, kind, terms) ==
    op' = [pc |-> pc, kind |-> kind, terms |-> terms, stream |-> 0, from |-> file.version,
           sent |-> 0, again |-> FALSE, tries |-> 0, out |-> "none"]
SubmitUpload ==
    /\ Idle /\ Begins("ops", MaxOps)
    /\ \E over \in BOOLEAN, match \in {-1, 0} :
          Submits("open", "upload", [over |-> over, match |-> match])
    /\ UNCHANGED <<device, job, call, reader>>
SubmitDelete ==
    /\ Idle /\ Begins("ops", MaxOps)
    /\ Submits("delete", "delete", NoTerms)
    /\ UNCHANGED <<device, job, call, reader>>

End(outcome) == op' = [op EXCEPT !.pc = "done", !.out = outcome]
(* finally: an upload that is not complete aborts its stream. *)
MutFails(outcome) == op' = [op EXCEPT !.pc = "done", !.out = outcome]
Fails(outcome) == op' = [op EXCEPT !.pc = "abort", !.out = outcome]
Sent == op' = [op EXCEPT !.sent = @ + 1, !.again = FALSE, !.tries = 0,
                         !.pc = IF op.sent + 1 = N THEN "commit" ELSE "write"]
BusyAgain ==
    IF op.tries + 1 = MaxTries THEN Fails("failed") ELSE op' = [op EXCEPT !.tries = @ + 1]
MutCommitted(st) == st # "busy"
Committed(st) == st = "committed"

Reply(st, got) ==
    \/ /\ op.pc = "open"
       /\ IF st = "ok" THEN op' = [op EXCEPT !.pc = "write", !.stream = got] ELSE End("failed")
    \/ /\ op.pc = "write"
       /\ IF st = "ok" THEN Sent ELSE Fails("failed")
    \/ /\ op.pc = "check"
       /\ \/ st = "busy" /\ BusyAgain
          \/ st = "error" /\ Fails("failed")
          \/ /\ st \notin {"busy", "error"}
             /\ \/ got = op.sent + 1 /\ Sent
                \/ /\ got = op.sent /\ ~op.again
                   /\ op' = [op EXCEPT !.pc = "write", !.again = TRUE, !.tries = 0]
                \/ /\ got # op.sent + 1 /\ (got = op.sent => op.again)
                   /\ Fails("unknown")
    \/ /\ op.pc \in {"commit", "commit_again"}
       /\ IF st = "ok" THEN End("success") ELSE Fails("failed")
    \/ /\ op.pc = "recheck"
       /\ \/ st = "busy" /\ BusyAgain
          \/ Committed(st) /\ op' = [op EXCEPT !.pc = "stat"]
          \/ st = "active" /\ op' = [op EXCEPT !.pc = "commit_again"]
          \/ st \notin {"busy", "active"} /\ ~Committed(st) /\ Fails("failed")
    \/ /\ op.pc \in {"stat", "delete"}
       /\ End(IF st = "ok" THEN "success" ELSE "failed")
    \/ op.pc = "abort" /\ End(op.out)

Returns ==
    /\ call.by = "op" /\ call.st # "none"
    /\ Reply(call.st, call.got)
    /\ call' = NoCall
    /\ UNCHANGED <<device, job, reader, used>>

(* What an operation does about a request that was not answered in time. *)
AfterTimeout ==
    CASE op.pc = "write" -> op' = [op EXCEPT !.pc = "check", !.tries = 0]
      [] op.pc = "commit" -> op' = [op EXCEPT !.pc = "recheck", !.tries = 0]
      [] op.pc \in {"check", "recheck", "commit_again"} -> Fails("unknown")
      [] op.pc = "abort" -> End(op.out)
      [] OTHER -> End("unknown")

(* The time is over for a request that is lost, or, as a fault, for one    *)
(* that the device still works on.                                         *)
MutGone == FALSE
Gone == job.stage = "none" \/ ~job.mine
TimesOut ==
    /\ call # NoCall /\ call.st = "none"
    /\ call' = NoCall
    /\ IF Gone THEN UNCHANGED <<job, used>>
       ELSE Fault("late") /\ job' = [job EXCEPT !.mine = FALSE]
    /\ \/ call.by = "op" /\ AfterTimeout /\ UNCHANGED reader
       \/ call.by = "reader" /\ UNCHANGED op
          /\ reader' = IF reader.pc = "read" THEN [reader EXCEPT !.pc = "close"] ELSE NoReader
    /\ UNCHANGED device

(* A list or a download: open, some requests, CLOSE in a finally.  The     *)
(* offset of a range may lie beyond a file that shrank since its stat: the *)
(* download gives up before its try, and leaves its handle open.           *)
Shrunk == IF used.edits > 0 THEN {NoReader} ELSE {}
StartReading ==
    /\ reader.pc = "idle" /\ Begins("reads", MaxReads)
    /\ \E pc \in {"stat", "read_open"} : reader' = [pc |-> pc, stream |-> 0]
    /\ UNCHANGED <<device, job, call, op>>

ReaderReturns ==
    /\ call.by = "reader" /\ call.st # "none"
    /\ call' = NoCall
    /\ reader' \in
        CASE reader.pc = "stat" /\ call.st = "ok" -> {[reader EXCEPT !.pc = "read_open"]}
          [] reader.pc = "read_open" /\ call.st = "ok" ->
                {[pc |-> pc, stream |-> call.got] : pc \in {"read", "close"}} \union Shrunk
          [] reader.pc = "read" -> {[reader EXCEPT !.pc = "close"]}
          [] OTHER -> {NoReader}
    /\ UNCHANGED <<device, job, op, used>>

(***************************************************************************)
(* The session ends.  The host's requests fail with ConnectionError, which *)
(* _run records as failed, and the ABORT and CLOSE of a finally find no    *)
(* session.  The device stops its file task (iris_files_deinit): the task  *)
(* leaves when it has finished its request, closing the handle; one that   *)
(* needs more than two seconds is deleted with the handle open.            *)
(***************************************************************************)
LostSession == IF op.out = "none" THEN "failed" ELSE op.out
Break ==
    /\ \/ /\ job.stage # "renaming" /\ Fault("breaks")
          /\ temps' = IF handle.kind = "write" THEN temps - 1 ELSE temps
       \/ /\ job.stage \in {"queued", "renaming"} /\ MayFail
          /\ used' = [used EXCEPT !.breaks = @ + 1,
                                  !.killed = IF handle.kind = "write" THEN @ + 1 ELSE @]
          /\ UNCHANGED temps
    /\ job' = NoJob /\ handle' = NoHandle /\ receipt' = NoReceipt
    /\ op' = IF op.pc \in Asking THEN [op EXCEPT !.pc = "done", !.out = LostSession] ELSE op
    /\ reader' = NoReader /\ call' = NoCall
    /\ UNCHANGED <<file, opens>>

Next ==
    \/ AskOp \/ AskReader \/ FileTask \/ Drain \/ LocalEdit
    \/ SubmitUpload \/ SubmitDelete \/ Returns \/ TimesOut \/ StartReading \/ ReaderReturns \/ Break

Spec == Init /\ [][Next]_vars

(* The requests of a session queue behind one fair lock, so neither client *)
(* is passed over for ever.                                                *)
FairSpec ==
    /\ Spec
    /\ SF_vars(AskOp) /\ SF_vars(AskReader)
    /\ WF_vars(FileTask) /\ WF_vars(Drain)
    /\ WF_vars(Returns) /\ WF_vars(ReaderReturns) /\ WF_vars(TimesOut)

(***************************************************************************)
(* Properties.                                                             *)
(***************************************************************************)
Ended(outcome) == op.pc = "done" /\ op.out = outcome
Only(kinds) == \A k \in Faults \ kinds : used[k] = 0

(* An upload that is reported as a success has put its data in place: a    *)
(* COMMIT whose answer was lost is never taken for done on a guess.        *)
SuccessIsTrue ==
    (Ended("success") /\ op.kind = "upload" /\ used.edits = 0) => file.data = "new"

(* An operation that is reported as failed has not changed the file, as    *)
(* long as the session holds and no request outlives its timeout.          *)
FailedIsUntouched ==
    (Ended("failed") /\ Only({"loss", "io"})) => file.version = op.from

(* upload, _reconcile_write_status, delete: what an operation reports of   *)
(* the file is true, and slot, handle and receipt stay well formed.        *)
OutcomeIsTrue == TypeOK /\ SuccessIsTrue /\ FailedIsUntouched

(* One lost frame after WRITE_OPEN costs nothing: the status request tells *)
(* the host where it is, and every chunk and the COMMIT arrive once.       *)
OneLossIsRecovered ==
    (op.pc = "done" /\ op.stream # 0 /\ Only({"loss"}) /\ used.loss < 2)
        => op.out = "success"

(* An upload that knows its stream leaves neither its handle nor its       *)
(* temporary file, however it ends, on three conditions.  No request of it *)
(* outlives its timeout: such a one still holds the slot, and the ABORT is *)
(* refused.  Fewer than three frames are lost: it takes two losses to give *)
(* up and a third to lose the ABORT.  And no file task is deleted in       *)
(* mid-request by iris_files_deinit: there the code does leave the file,   *)
(* although protocol/spec.md has a lost session remove it.                 *)
LeavesNothing ==
    (op.pc = "done" /\ op.stream # 0 /\ used.late = 0 /\ used.loss < 3 /\ used.killed = 0)
        => handle.kind # "write" /\ temps = 0

(* What COMMIT's check lets pass: without overwrite the rename replaces no *)
(* file at all, with If-Match only one with the etag it names, and as long *)
(* as no two versions share an etag only the very version that WRITE_OPEN  *)
(* saw, whatever the application did between WRITE_OPEN and the check.  An *)
(* edit between the check and the rename (handle.seen is then an older     *)
(* version) is beyond it: the code overwrites what the application wrote.  *)
NoLostUpdate ==
    [][(file' # file /\ file'.data = "new" /\ file.version = handle.seen) =>
        /\ file.data # "absent" => handle.terms.over
        /\ handle.terms.match # -1 => file.etag = handle.terms.match
        /\ (file.data # "absent" /\ ~file.weak) => file.version = handle.version]_vars

(* upload, delete and the timeout of each request: every operation ends,   *)
(* an upload in success when no more than one frame was lost.              *)
OperationEnds ==
    /\ (op.pc \in Asking) ~> (op.pc = "done")
    /\ []OneLossIsRecovered
=============================================================================

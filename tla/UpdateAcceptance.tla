-------------------------- MODULE UpdateAcceptance --------------------------
(***************************************************************************)
(* How the gateway decides what an update or a restart came to: the        *)
(* coroutines closed_loop_ota, run_system_update and closed_loop_restart,  *)
(* which watch the device through the hub's event history and its status,  *)
(* and reconcile_operation, which looks again later.  The device reboots,  *)
(* rolls an unconfirmed image back, crashes and loses its session at any   *)
(* moment; the gateway may be restarted.  The transfer itself is one step  *)
(* here: UpdateTransfer has its details, and this module takes from it     *)
(* what it can report.                                                     *)
(***************************************************************************)
EXTENDS Integers, Sequences, FiniteSets

CONSTANTS
    Kinds,        \* the operations that may be asked for: a subset of AllKinds
    MaxBoot,      \* boots of the device
    HistorySize,  \* the hub's history of one device (hub.py keeps 100)
    MaxFaults     \* crashes, broken sessions, late or failing steps

AllKinds == {"ota_application", "ota_recovery", "system", "restart"}

ASSUME KindsAssumption == Kinds \subseteq AllKinds
ASSUME BoundsAssumption ==
    HistorySize \in Nat \ {0} /\ MaxFaults \in Nat /\ MaxBoot \in Nat
(* One boot to start with, one per crash and the two an update plans. *)
ASSUME RoomForBoots == MaxBoot >= MaxFaults + 3

VARIABLES
    dev,      \* the device: boot, image, healthy, plan (a restart is due), told
    flash,    \* what survives a reset: sel(ected image), prev(ious app), trial, receipt
    hub,      \* the gateway's hub: up (session), last (_last_boot_id), history
    op,       \* the operation and its coroutine
    stored,   \* boots whose HEALTHY was stored since the operation was created
    rec,      \* the reconciliation
    ran,      \* which image each boot ran, and which boots became healthy
    faults,   \* the faults so far
    calm      \* no fault since the operation was created

vars == <<dev, flash, hub, op, stored, rec, ran, faults, calm>>
device == <<dev, flash, ran>>

Boots == 1 .. MaxBoot
Apps == {"old", "new"}
Images == Apps \union {"recovery"}
Events == [kind : {"connected", "reconnected", "rebooted", "disconnected", "healthy"},
           boot : Boots]
NoBoot == 0

Updates == {"ota_application", "ota_recovery", "system"}
Otas == {"ota_application", "ota_recovery"}
Outcomes == {"none", "success", "failed", "unknown", "interrupted"}
(* What the stored error of a failed operation speaks of: a request before *)
(* the transfer was complete, one after it, or a wrong image or inventory. *)
Errors == {"none", "before", "after", "mismatch"}
Running == {"before", "enter", "wait", "prepare", "write", "restart", "listen",
            "check", "inventory", "after"}
NoOp == [pc |-> "idle", kind |-> "restart", before |-> NoBoot, writer |-> NoBoot,
         proof |-> NoBoot, queue |-> <<>>, listening |-> FALSE, newBoot |-> NoBoot,
         seen |-> NoBoot, receipt |-> FALSE, stale |-> FALSE, out |-> "none",
         error |-> "none"]
NoRec == [pc |-> "idle", boot |-> NoBoot, healthy |-> FALSE, receipt |-> FALSE,
          out |-> "none"]

Devices == [boot : Boots, image : Images, healthy : BOOLEAN, plan : BOOLEAN, told : BOOLEAN]
Flashes == [sel : Images, prev : Apps, trial : {"fresh", "trial", "valid"}, receipt : BOOLEAN]
Hubs == [up : BOOLEAN, last : Boots \union {NoBoot}, history : Seq(Events)]
Ops == [pc : Running \union {"idle", "done"}, kind : AllKinds, before : Boots \union {NoBoot},
        writer : Boots \union {NoBoot}, proof : Boots \union {NoBoot}, queue : Seq(Events),
        listening : BOOLEAN, newBoot : Boots \union {NoBoot}, seen : Boots \union {NoBoot},
        receipt : BOOLEAN, stale : BOOLEAN, out : Outcomes, error : Errors]
Recs == [pc : {"idle", "inventory", "after", "done"}, boot : Boots \union {NoBoot},
         healthy : BOOLEAN, receipt : BOOLEAN, out : {"none", "success", "unknown"}]
Trails == [image : Seq(Images), healthy : SUBSET Boots]

(* An operation has an outcome when it is over, and an error when it failed. *)
Settled ==
    /\ (op.out # "none") <=> (op.pc = "done")
    /\ (op.out = "failed") <=> (op.error # "none")

\* Type invariant; the hub's history of a device stays within its bound (_on_event).
TypeOK ==
    /\ dev \in Devices /\ flash \in Flashes /\ op \in Ops /\ rec \in Recs /\ ran \in Trails
    /\ hub \in Hubs /\ Len(hub.history) =< HistorySize
    /\ Settled
    /\ stored \in SUBSET Boots /\ calm \in BOOLEAN /\ faults \in 0 .. MaxFaults

Init ==
    \E image \in Apps :
        /\ dev = [boot |-> 1, image |-> image, healthy |-> FALSE, plan |-> FALSE,
                  told |-> FALSE]
        /\ flash = [sel |-> image, prev |-> image, trial |-> "valid", receipt |-> FALSE]
        /\ hub = [up |-> FALSE, last |-> NoBoot, history |-> <<>>]
        /\ op = NoOp /\ stored = {} /\ rec = NoRec
        /\ ran = [image |-> <<image>>, healthy |-> {}]
        /\ faults = 0 /\ calm = TRUE

(***************************************************************************)
(* Faults: everything that is not the ordinary course of an update.  None  *)
(* is looked at any more once the last outcome is known.                   *)
(***************************************************************************)
Over == op.pc = "done" /\ (rec.pc = "done" \/ op.out \notin {"unknown", "interrupted"})
Fault == ~Over /\ faults < MaxFaults /\ faults' = faults + 1 /\ calm' = FALSE
NoFault == UNCHANGED <<faults, calm>>

(***************************************************************************)
(* Events (hub._on_event): the history keeps the last ones, the store      *)
(* keeps the HEALTHY ones, a subscribed coroutine gets them in its queue.  *)
(***************************************************************************)
Kept(s) == IF Len(s) > HistorySize THEN Tail(s) ELSE s
Publish(e, up, last) ==
    /\ hub' = [up |-> up, last |-> last, history |-> Kept(Append(hub.history, e))]
    /\ op' = IF op.listening THEN [op EXCEPT !.queue = Append(@, e)] ELSE op
    /\ stored' = IF e.kind = "healthy" /\ op.pc # "idle" THEN stored \union {e.boot}
                                                         ELSE stored

Disconnected == [kind |-> "disconnected", boot |-> dev.boot]

(* The session ends: the supervisor publishes that and removes it. *)
Hangup ==
    IF hub.up THEN Publish(Disconnected, FALSE, hub.last)
              ELSE UNCHANGED <<hub, op, stored>>

(***************************************************************************)
(* The device.  The bootloader tries a fresh image once: a boot that was   *)
(* not confirmed before the next reset falls back to the other image.      *)
(***************************************************************************)
RollsBack == flash.sel = "new" /\ flash.trial = "trial"
NextImage == IF RollsBack THEN flash.prev ELSE flash.sel
NextTrial == IF RollsBack \/ flash.sel # "new" \/ flash.trial = "valid" THEN "valid"
                                                                        ELSE "trial"
Reset ==
    /\ dev.boot < MaxBoot
    /\ dev' = [boot |-> dev.boot + 1, image |-> NextImage, healthy |-> FALSE,
               plan |-> FALSE, told |-> FALSE]
    /\ flash' = [flash EXCEPT !.sel = NextImage, !.trial = NextTrial]
    /\ ran' = [ran EXCEPT !.image = Append(@, NextImage)]
    /\ Hangup

(* A planned restart comes 250 ms after its answer; a coroutine that has   *)
(* not read the replayed events by then is a slow one.                     *)
PlannedReset ==
    /\ dev.plan
    /\ Reset
    /\ IF op.pc \in {"listen", "check"} /\ \E i \in DOMAIN op.queue : op.queue[i].boot # dev.boot
       THEN Fault ELSE NoFault
    /\ UNCHANGED rec

Crash ==
    /\ Reset
    /\ Fault
    /\ UNCHANGED rec

(* esp_iris_mark_healthy, and with it the confirmation of the image. *)
MarkHealthy ==
    /\ ~dev.healthy
    /\ dev' = [dev EXCEPT !.healthy = TRUE]
    /\ flash' = IF dev.image = flash.sel /\ flash.trial = "trial" THEN [flash EXCEPT !.trial = "valid"] ELSE flash
    /\ ran' = [ran EXCEPT !.healthy = @ \union {dev.boot}]
    /\ NoFault
    /\ UNCHANGED <<hub, op, stored, rec>>

(* HELLO is acknowledged (hub._on_ready). *)
ConnectionState ==
    IF hub.last = NoBoot THEN "connected"
    ELSE IF hub.last = dev.boot THEN "reconnected" ELSE "rebooted"
Connect ==
    /\ ~hub.up
    /\ Publish([kind |-> ConnectionState, boot |-> dev.boot], TRUE, dev.boot)
    /\ dev' = [dev EXCEPT !.told = FALSE]
    /\ NoFault
    /\ UNCHANGED <<flash, ran, rec>>

(* A healthy device says so once in every session. *)
Announce ==
    /\ hub.up /\ dev.healthy /\ ~dev.told
    /\ Publish([kind |-> "healthy", boot |-> dev.boot], TRUE, hub.last)
    /\ dev' = [dev EXCEPT !.told = TRUE]
    /\ NoFault
    /\ UNCHANGED <<flash, ran, rec>>

Break ==
    /\ hub.up
    /\ Hangup
    /\ Fault
    /\ UNCHANGED <<device, rec>>

(***************************************************************************)
(* The coroutine: reads before the write.                                  *)
(***************************************************************************)
Step(new) == op' = new /\ UNCHANGED <<hub, stored, rec>>
Stored(outcome, error) ==
    Step([op EXCEPT !.pc = "done", !.out = outcome, !.error = error,
                    !.listening = FALSE, !.queue = <<>>])
Finish(outcome) == Stored(outcome, "none")
Fails(error) == Stored("failed", error)

(* The device answers with an error: no handler of the coroutine catches   *)
(* the RuntimeError, which OperationManager._run stores as a failure.      *)
Refused(error) == hub.up /\ Fails(error) /\ Fault

Begins(kind) ==
    /\ op.pc = "idle" /\ kind \in Kinds
    /\ op' = [op EXCEPT !.pc = "before", !.kind = kind]
    /\ stored' = {} /\ calm' = TRUE
    /\ UNCHANGED <<device, hub, rec, faults>>
SubmitOta == \E kind \in Otas : Begins(kind)
SubmitSystemUpdate == Begins("system")
SubmitRestart == Begins("restart")

NeedsRecovery == op.kind \in {"ota_recovery", "system"} /\ dev.image # "recovery"

(* The first status; without a session, or when the device answers with an *)
(* error or its contract does not fit the artifact, the operation fails    *)
(* before any effect.                                                      *)
ReadBefore ==
    /\ op.pc = "before"
    /\ IF hub.up
       THEN IF NeedsRecovery
            THEN Step([op EXCEPT !.pc = "enter", !.before = dev.boot, !.proof = dev.boot])
            ELSE Step([op EXCEPT !.pc = "prepare", !.before = dev.boot, !.writer = dev.boot])
       ELSE Fails("before")
    /\ NoFault /\ UNCHANGED device

Incompatible ==
    /\ op.pc \in {"before", "enter", "prepare"}
    /\ op.pc = "prepare" => op.kind # "restart"
    /\ Refused("before")
    /\ UNCHANGED device

(* enter_recovery: a lost answer is not an error, a missing session is. *)
EnterRecovery ==
    /\ op.pc = "enter"
    /\ \/ /\ hub.up
          /\ flash' = [flash EXCEPT !.sel = "recovery"]
          /\ dev' = [dev EXCEPT !.plan = TRUE]
          /\ Step([op EXCEPT !.pc = "wait"])
       \/ /\ ~hub.up
          /\ Step([op EXCEPT !.pc = "wait"]) \/ Fails("before")
          /\ UNCHANGED <<dev, flash>>
    /\ NoFault /\ UNCHANGED ran

RecoveryIsUp == hub.up /\ dev.image = "recovery" /\ dev.boot # op.before
WaitRecovery ==
    /\ op.pc = "wait"
    /\ RecoveryIsUp
    /\ Step([op EXCEPT !.pc = "prepare", !.writer = dev.boot])
    /\ NoFault /\ UNCHANGED device

(* Subscribing replays the history of the device into the queue. *)
Replayed == hub.history
Prepare ==
    /\ op.pc = "prepare"
    /\ IF hub.up
       THEN Step([op EXCEPT !.pc = IF op.kind = "restart" THEN "restart" ELSE "write",
                            !.listening = TRUE, !.queue = Replayed,
                            !.proof = IF op.kind = "restart" THEN @ ELSE op.writer,
                            !.stale = \E i \in DOMAIN Replayed :
                                        /\ Replayed[i].kind = "healthy"
                                        /\ Replayed[i].boot # op.writer])
       ELSE Fails("before")
    /\ NoFault /\ UNCHANGED device

(***************************************************************************)
(* The transfer.  A complete one selects the image; an answer, a lost      *)
(* session and a timeout all may follow that, the last two also without    *)
(* it; a refusal by the device leaves the selection alone.                 *)
(***************************************************************************)
Previous == IF dev.image = "recovery" THEN flash.prev ELSE dev.image
Commits == flash' = [sel |-> "new", prev |-> Previous, trial |-> "fresh",
                     receipt |-> op.kind = "system"]
MayCommit == Commits \/ UNCHANGED flash
Serves == op.kind # "system" \/ dev.image = "recovery"

(* The operation status that the exception of a broken transfer maps to. *)
LostContact == "unknown"

Transfer ==
    /\ op.pc = "write" /\ hub.up /\ Serves
    /\ Commits
    /\ Step([op EXCEPT !.pc = "restart"])
    /\ NoFault /\ UNCHANGED <<dev, ran>>

TransferRefused ==
    /\ op.pc = "write" /\ hub.up
    /\ Fails("before")
    /\ IF Serves THEN Fault ELSE NoFault
    /\ UNCHANGED device

(* END or COMMIT loses its session: session_close is the evidence, and no  *)
(* restart is asked for.                                                   *)
TransferCut ==
    /\ op.pc = "write" /\ hub.up /\ Serves
    /\ MayCommit
    /\ hub' = [hub EXCEPT !.up = FALSE, !.history = Kept(Append(@, Disconnected))]
    /\ op' = [op EXCEPT !.pc = "listen", !.queue = Append(@, Disconnected)]
    /\ Fault /\ UNCHANGED <<dev, ran, stored, rec>>

TransferUnknown ==
    /\ op.pc = "write"
    /\ IF hub.up /\ Serves THEN MayCommit /\ Fault ELSE ~hub.up /\ UNCHANGED flash /\ NoFault
    /\ Finish(LostContact)
    /\ UNCHANGED <<dev, ran>>

(***************************************************************************)
(* The restart.  Updates suppress a lost session; closed_loop_restart does *)
(* not.  A device that cannot record the planned restart refuses it, and   *)
(* the operation has failed, whatever the transfer has selected.           *)
(***************************************************************************)
Restart ==
    /\ op.pc = "restart"
    /\ \/ /\ hub.up
          /\ dev' = [dev EXCEPT !.plan = TRUE]
          /\ Step([op EXCEPT !.pc = "listen"])
          /\ NoFault
       \/ /\ Refused("after")
          /\ UNCHANGED dev
       \/ /\ ~hub.up
          /\ IF op.kind = "restart" THEN Fails("after") ELSE Step([op EXCEPT !.pc = "listen"])
          /\ NoFault /\ UNCHANGED dev
    /\ UNCHANGED <<flash, ran>>

(***************************************************************************)
(* The event loop.                                                         *)
(***************************************************************************)
Observed(e) == IF e.boot # op.writer THEN e.boot ELSE op.newBoot
Accepts(e) ==
    IF op.kind = "restart" THEN e.kind = "rebooted" /\ e.boot # op.before
                           ELSE e.kind = "healthy" /\ e.boot = Observed(e)
Listen ==
    /\ op.pc = "listen" /\ op.queue # <<>>
    /\ LET e == Head(op.queue) IN
       Step([op EXCEPT !.queue = Tail(@),
                       !.newBoot = IF op.kind = "restart" /\ ~Accepts(e) THEN @ ELSE Observed(e),
                       !.pc = IF Accepts(e) THEN "check" ELSE @])
    /\ NoFault /\ UNCHANGED device

(* _validate_ota_identity: the status names the image that runs. *)
Identity(image) == image = "new"
Validate == IF Identity(dev.image) THEN Finish("success") ELSE Fails("mismatch")

(* The status read after HEALTHY: an OTA keeps observing when another boot *)
(* answers, a system update remembers who answered.  An error for answer   *)
(* to any of these reads is stored as a failure too.                       *)
MutConfirms == TRUE
Confirms == dev.boot = op.newBoot
CheckOta ==
    /\ op.pc = "check" /\ op.kind \in Otas
    /\ \/ ~hub.up /\ Finish(LostContact) /\ NoFault
       \/ hub.up /\ Confirms /\ Validate /\ NoFault
       \/ /\ hub.up /\ ~Confirms
          /\ Step([op EXCEPT !.pc = "listen",
                             !.newBoot = IF dev.boot # op.writer THEN dev.boot ELSE @])
          /\ NoFault
       \/ Refused("after")
    /\ UNCHANGED device

CheckSystem ==
    /\ op.pc = "check" /\ op.kind = "system"
    /\ \/ hub.up /\ Step([op EXCEPT !.pc = "inventory", !.seen = dev.boot]) /\ NoFault
       \/ ~hub.up /\ Finish(LostContact) /\ NoFault
       \/ Refused("after")
    /\ UNCHANGED device

ReadInventory ==
    /\ op.pc = "inventory"
    /\ \/ hub.up /\ Step([op EXCEPT !.pc = "after", !.receipt = flash.receipt]) /\ NoFault
       \/ ~hub.up /\ Finish(LostContact) /\ NoFault
       \/ Refused("after")
    /\ UNCHANGED device

SameBoot == op.seen = op.newBoot /\ dev.boot = op.newBoot
ReadAfter ==
    /\ op.pc = "after"
    /\ \/ (~hub.up \/ ~SameBoot) /\ Finish(LostContact) /\ NoFault
       \/ hub.up /\ SameBoot /\ op.receipt /\ Validate /\ NoFault
       \/ hub.up /\ SameBoot /\ ~op.receipt /\ Fails("mismatch") /\ NoFault
       \/ Refused("after")
    /\ UNCHANGED device

CheckRestart ==
    /\ op.pc = "check" /\ op.kind = "restart"
    /\ \/ hub.up /\ Finish("success") /\ NoFault
       \/ ~hub.up /\ Fails("after") /\ NoFault
       \/ Refused("after")
    /\ UNCHANGED device

(* The deadlines of the recovery wait and of the event loop.  One passes   *)
(* when nothing is left to wait for, or, as a fault, before that.          *)
Quiet == hub.up /\ ~dev.plan /\ dev.healthy /\ dev.told /\ op.queue = <<>>
MutExpires == FALSE
Expires == Quiet /\ ~(op.pc = "wait" /\ RecoveryIsUp)
Deadline ==
    /\ op.pc \in {"wait", "listen"}
    /\ Finish("unknown")
    /\ IF Expires THEN NoFault ELSE Fault
    /\ UNCHANGED device

(* The gateway restarts: the row becomes interrupted, the history is gone. *)
GatewayRestart ==
    /\ op.pc \in Running
    /\ op' = [op EXCEPT !.pc = "done", !.out = "interrupted", !.listening = FALSE, !.queue = <<>>]
    /\ hub' = [up |-> FALSE, last |-> NoBoot, history |-> <<>>]
    /\ Fault /\ UNCHANGED <<device, stored, rec>>

(***************************************************************************)
(* reconcile_operation.                                                    *)
(***************************************************************************)
MutStoredHealthy(boot) == stored # {}
StoredHealthy(boot) == boot \in stored
RecStep(new) == rec' = new /\ NoFault /\ UNCHANGED <<device, hub, op, stored>>
RecEnds(outcome) == RecStep([rec EXCEPT !.pc = "done", !.out = outcome])
NewBoot(boot) == op.proof # NoBoot /\ boot # op.proof

ReconcileStatus ==
    /\ op.pc = "done" /\ op.out \in {"unknown", "interrupted"} /\ rec.pc = "idle"
    /\ \/ hub.up /\ op.kind = "system"
          /\ RecStep([rec EXCEPT !.pc = "inventory", !.boot = dev.boot,
                                 !.healthy = StoredHealthy(dev.boot)])
       \/ hub.up /\ op.kind \in Otas
          /\ RecStep([rec EXCEPT !.pc = "done", !.boot = dev.boot,
                !.out = IF Identity(dev.image) /\ StoredHealthy(dev.boot) /\ NewBoot(dev.boot)
                        THEN "success" ELSE "unknown"])
       \/ (~hub.up \/ op.kind = "restart") /\ RecEnds("unknown")

ReconcileInventory ==
    /\ rec.pc = "inventory"
    /\ IF hub.up THEN RecStep([rec EXCEPT !.pc = "after", !.receipt = flash.receipt])
                 ELSE RecEnds("unknown")

ReconcileAfter ==
    /\ rec.pc = "after"
    /\ RecEnds(IF /\ hub.up /\ dev.boot = rec.boot /\ rec.receipt /\ rec.healthy
                  /\ NewBoot(rec.boot) /\ Identity(dev.image)
               THEN "success" ELSE "unknown")

Coroutine ==
    \/ ReadBefore \/ EnterRecovery \/ WaitRecovery \/ Prepare \/ Transfer
    \/ TransferUnknown \/ TransferRefused
    \/ Restart \/ Listen \/ CheckOta \/ CheckSystem \/ ReadInventory \/ ReadAfter
    \/ CheckRestart \/ Deadline
    \/ ReconcileStatus \/ ReconcileInventory \/ ReconcileAfter
Device == PlannedReset \/ MarkHealthy \/ Connect \/ Announce

Next ==
    \/ Coroutine \/ Device
    \/ SubmitOta \/ SubmitSystemUpdate \/ SubmitRestart
    \/ Incompatible \/ TransferCut \/ Crash \/ Break \/ GatewayRestart

Spec == Init /\ [][Next]_vars
FairSpec == Spec /\ WF_vars(Device) /\ WF_vars(Coroutine)

(***************************************************************************)
(* Properties.                                                             *)
(***************************************************************************)
Done(kinds) == op.pc = "done" /\ op.kind \in kinds

(* An update that is reported as a success was observed on a boot after    *)
(* the one that wrote it, which ran the target image and became healthy;   *)
(* that boot is the one reported (gateway.py, system_update_workflow.py:   *)
(* the status after HEALTHY must be of the same boot).                     *)
AcceptedIsReal ==
    (Done(Updates) /\ op.out = "success") =>
        /\ op.newBoot > op.writer
        /\ ran.image[op.newBoot] = "new"
        /\ op.newBoot \in ran.healthy

(* The same of an update that a reconciliation observes as a success: the  *)
(* boot it saw is neither the writer's nor, if recovery was entered, the   *)
(* one before it, and that boot itself became healthy.                     *)
ObservedIsReal ==
    rec.out = "success" =>
        /\ rec.boot > op.before
        /\ ran.image[rec.boot] = "new"
        /\ rec.boot \in ran.healthy

(* An update that fails before its transfer is complete has not been       *)
(* selected for boot: what may have been written is reported as unknown.   *)
(* One that fails for a wrong image or inventory was observed on a later,  *)
(* healthy boot that really ran another image or has no receipt of it.     *)
(* The exception is in the code: when the device answers the restart or a  *)
(* read after the transfer with an error, "failed" is stored though the    *)
(* image may be selected (gateway.py:865, system_update_workflow.py:186).  *)
FailureIsDefinite ==
    (Done(Updates) /\ op.out = "failed") =>
        \/ op.error = "before" /\ flash.trial # "fresh" /\ ~flash.receipt
        \/ /\ op.error = "mismatch"
           /\ op.newBoot > op.writer /\ op.newBoot \in ran.healthy
           /\ ran.image[op.newBoot] # "new" \/ (op.kind = "system" /\ ~flash.receipt)
        \/ op.error = "after"

(* What closed_loop_ota and run_system_update report of an update is what  *)
(* became of it on the device, and the state stays well formed.            *)
OutcomeIsTrue == TypeOK /\ AcceptedIsReal /\ FailureIsDefinite

(* Without any fault, an OTA is accepted; so is a system update when no    *)
(* HEALTHY of a boot other than its writer's is replayed to it.            *)
CalmAccepts ==
    (calm /\ (Done(Otas) \/ (Done({"system"}) /\ ~op.stale)) /\ op.before # NoBoot)
        => op.out = "success"

(* A restart that is reported as a success was followed by a new boot.     *)
RestartIsReal ==
    (Done({"restart"}) /\ op.out = "success") => op.newBoot > op.before

(* Every operation comes to an end, and so does every reconciliation.  An  *)
(* OTA that nothing disturbs ends with its acceptance.  A system update    *)
(* does so only if the history replayed to it holds no HEALTHY of another  *)
(* boot: it takes such an older HEALTHY, usual after a start from a        *)
(* healthy application, for its own, reads the status before the restart   *)
(* and ends as unknown (hub.py:1028, system_update_workflow.py:177-190).   *)
OperationEnds ==
    /\ []CalmAccepts
    /\ (op.pc \in Running) ~> (op.pc = "done")
    /\ (rec.pc \in {"inventory", "after"}) ~> (rec.pc = "done")
=============================================================================

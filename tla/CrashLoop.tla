------------------------------ MODULE CrashLoop ------------------------------
(***************************************************************************)
(* The persisted crash-loop record of a device (esp_iris_crash_recovery.c) *)
(* with what resets it: boots, crashes, power losses, planned restarts,    *)
(* stable runs and OTA commits (esp_iris.c, esp_iris_services.c).          *)
(*                                                                         *)
(* Each function that changes the record reads, modifies and writes it     *)
(* under one mutex, so it is one step; the boot probe and an OTA commit    *)
(* write more than once and are several steps, with a power loss possible  *)
(* between them.  A write that fails may or may not have been stored.      *)
(* The running image is always known.                                      *)
(***************************************************************************)
EXTENDS Integers, FiniteSets

CONSTANTS
    Slots,           \* application partitions
    Factory,         \* the one that holds recovery, never an OTA target
    Images,          \* SHA-256 of the images
    Rescue,          \* the image in Factory, built with role recovery
    Recovering,      \* images built with CRASH_LOOP_RECOVERY
    Bad,             \* images that crash again and again and never become healthy
    LimitOf,         \* CRASH_LOOP_LIMIT of an image
    CountPowerFaults,\* CRASH_LOOP_COUNT_POWER_FAULTS
    None,            \* no image
    MaxCount,        \* UINT32_MAX
    MaxFaults,       \* bound on power losses, crashes while booting and failing writes
    MaxUpdates       \* bound on OTA transfers and selections

ASSUME CrashLoopAssumption ==
    /\ Factory \in Slots
    /\ Rescue \in Images
    /\ Recovering \subseteq Images \ {Rescue}
    /\ Bad \subseteq Images \ {Rescue}
    /\ MaxCount \in Nat \ {0}
    /\ LimitOf \in [Images -> 1 .. MaxCount]
    /\ None \notin Images \cup (Slots \X Images)
    /\ CountPowerFaults \in BOOLEAN
    /\ MaxFaults \in Nat
    /\ MaxUpdates \in Nat

VARIABLES
    \* flash
    rec,        \* the crash_loop blob: started and failed image, marks, count
    boot,       \* the slot that the boot selection names
    flash,      \* the image in each slot, if it is valid
    \* this boot
    pc,
    at,         \* the running slot
    reason,     \* the reset reason
    err,        \* crash_state_error is set
    stable,     \* crash_stable_deadline_us is set
    wasPlanned, \* previous_boot_planned
    ota,        \* progress of an OTA and its slot
    \* history
    crashes,    \* counted resets of each image since the record was cleared
    marked,     \* this boot stored a planned mark
    came,       \* this boot follows a software reset of a boot that had
    lapses,     \* "boot": a boot ended, or went on, without its probe being stored;
                \* "select": the product selected a slot without a reset of the record
    faults,
    updates

flashVars == <<rec, boot, flash>>
probeVars == <<at, reason, wasPlanned>>
histVars == <<crashes, marked, came>>
vars == <<rec, boot, flash, pc, at, reason, err, stable, wasPlanned, ota, crashes, marked,
          came, lapses, faults, updates>>

\* same_image() compares the address and the SHA.
Ids == Slots \X Images
Running == <<at, flash[at]>>
EmptyRecord == [started |-> None, failed |-> None, planned |-> FALSE, pending |-> FALSE,
                count |-> 0]
NoOta == [pc |-> "none", slot |-> None]

Init ==
    /\ rec = EmptyRecord
    /\ flash \in [Slots -> Images \cup {None}]
    /\ \A s \in Slots : flash[s] = Rescue <=> s = Factory
    /\ boot \in Slots
    /\ flash[boot] # None
    /\ pc = "boot"
    /\ at = boot
    /\ reason = "poweron"
    /\ err = FALSE
    /\ stable = FALSE
    /\ wasPlanned = FALSE
    /\ ota = NoOta
    /\ crashes = [i \in Ids |-> 0]
    /\ marked = FALSE
    /\ came = FALSE
    /\ lapses = {}
    /\ faults = 0
    /\ updates = 0

-----------------------------------------------------------------------------
(* The record. *)

\* The count saturates.
Increment(n) == IF n < MaxCount THEN n + 1 ELSE n

\* reset_counts_for_loop()
Counts(why) == why = "crash" \/ (why = "brownout" /\ CountPowerFaults)

\* Mutant: a crash of another image continues the count.
MutCharged(r) == Increment(r.count)
\* The count after a counted reset of the image started last.
Charged(r) == IF r.failed = r.started THEN Increment(r.count) ELSE 1

\* The reset that led to this boot is attributed to the image started last.
Attributed(r) ==
    IF r.started # None /\ Counts(reason)
    THEN [r EXCEPT !.count = Charged(r), !.failed = r.started]
    ELSE r

Consumed(r) == [r EXCEPT !.planned = FALSE]

AtLimit(r) == r.count >= LimitOf[flash[at]]

\* The record as the probe of this boot leaves it.
Probed ==
    LET r == [Attributed(Consumed(rec)) EXCEPT !.started = Running]
    IN  [r EXCEPT !.pending =
            @ \/ (flash[at] \in Recovering /\ r.failed = Running /\ AtLimit(r))]

\* clear_failure()
Cleared(r) == [r EXCEPT !.failed = None, !.pending = FALSE, !.count = 0]

\* state_write(): r is stored, or the write fails and perhaps is not.
Write(ok, r) ==
    IF ok THEN rec' = r /\ faults' = faults
    ELSE /\ faults < MaxFaults
         /\ faults' = faults + 1
         /\ rec' \in {rec, r}

\* The counts start again once a clearing write was stored.
Forget == crashes' = IF rec'.failed = None THEN [i \in Ids |-> 0] ELSE crashes

-----------------------------------------------------------------------------
(* Resets.  The bootloader falls back to Factory when the slot is not valid. *)

Reboot(why) ==
    /\ pc' = "boot"
    /\ at' = IF flash[boot] # None THEN boot ELSE Factory
    /\ reason' = why
    /\ err' = FALSE
    /\ stable' = FALSE
    /\ wasPlanned' = FALSE
    /\ ota' = NoOta
    /\ crashes' = IF Counts(why) THEN [crashes EXCEPT ![Running] = Increment(@)] ELSE crashes
    /\ marked' = FALSE
    /\ came' = (marked /\ why = "sw")
    /\ UNCHANGED flashVars

\* A panic, a watchdog or a lockup of the running image.
Crash ==
    /\ pc = "running"
    /\ Reboot("crash")
    /\ UNCHANGED <<faults, updates, lapses>>

\* A reset from outside, or a crash while the boot code runs.
Fault(why) ==
    /\ faults < MaxFaults
    /\ why = "crash" => pc # "running"
    /\ Reboot(why)
    /\ lapses' = IF pc = "boot" /\ Counts(why) THEN lapses \cup {"boot"} ELSE lapses
    /\ faults' = faults + 1
    /\ UNCHANGED updates

\* esp_restart() by the RESTART service or by the product.
Restart ==
    /\ pc = "running"
    /\ Reboot("sw")
    /\ UNCHANGED <<faults, updates, lapses>>

-----------------------------------------------------------------------------
(* iris_crash_recovery_probe() *)

Role2 == flash[at] = Rescue

\* Opening or reading the record fails: nothing is attributed or recorded.
ProbeUnread ==
    /\ pc = "boot"
    /\ faults < MaxFaults
    /\ faults' = faults + 1
    /\ err' = TRUE
    /\ pc' = "running"
    /\ lapses' = lapses \cup {"boot"}
    /\ UNCHANGED <<flashVars, probeVars, stable, ota, histVars, updates>>

\* Mutant: the mark of an earlier quarantine is not looked at.
MutMustRecover(r) == FALSE
MustRecover(r) == flash[at] \in Recovering /\ r.pending /\ r.failed = Running

\* The first write.
Probe(ok) ==
    /\ pc = "boot"
    /\ Write(ok, Probed)
    /\ lapses' = IF ok THEN lapses ELSE lapses \cup {"boot"}
    /\ wasPlanned' = (rec.planned /\ reason = "sw")
    /\ stable' = (~Role2 /\ Probed.count > 0)
    /\ err' = ~ok
    /\ pc' = IF ok /\ MustRecover(Probed) THEN "recovering" ELSE "running"
    /\ UNCHANGED <<boot, flash, at, reason, ota, histVars, updates>>

\* The recovery target is chosen and the restart is marked as planned.
Plan(ok) ==
    /\ pc = "recovering"
    /\ Write(ok, [rec EXCEPT !.planned = TRUE])
    /\ marked' = (marked \/ rec'.planned)
    /\ err' = ~ok
    /\ pc' = IF ok THEN "planned" ELSE "unplan"
    /\ UNCHANGED <<boot, flash, probeVars, stable, ota, crashes, came, updates, lapses>>

\* Mutant: the check that recovery is another slot is gone.
MutRecoveryTarget == at
\* esp_iris_platform_select_recovery_target()
RecoveryTarget == Factory

\* set_boot_address()
SelectRecovery(ok) ==
    /\ pc = "planned"
    /\ ok \/ faults < MaxFaults
    /\ faults' = IF ok THEN faults ELSE faults + 1
    /\ boot' = IF ok THEN RecoveryTarget ELSE boot
    /\ err' = ~ok
    /\ pc' = IF ok THEN "leaving" ELSE "unplan"
    /\ UNCHANGED <<rec, flash, probeVars, stable, ota, histVars, updates, lapses>>

\* esp_restart()
EnterRecovery ==
    /\ pc = "leaving"
    /\ Reboot("sw")
    /\ UNCHANGED <<faults, updates, lapses>>

\* Recovery cannot be entered: the mark is taken back and the image runs on.
Unplan(ok) ==
    /\ pc = "unplan"
    /\ Write(ok, [rec EXCEPT !.planned = FALSE])
    /\ pc' = "running"
    /\ UNCHANGED <<boot, flash, probeVars, err, stable, ota, histVars, updates, lapses>>

-----------------------------------------------------------------------------
(* The running image. *)

\* iris_crash_recovery_mark_planned()
MarkPlanned(ok) ==
    /\ pc = "running"
    /\ Write(ok, [rec EXCEPT !.planned = TRUE])
    /\ marked' = (marked \/ rec'.planned)
    /\ err' = ~ok
    /\ UNCHANGED <<boot, flash, pc, probeVars, stable, ota, crashes, came, updates, lapses>>

\* iris_crash_recovery_mark_healthy(), called by the product or, at the stable
\* deadline, by the poll; recovery does nothing.
MarkHealthy(ok) ==
    /\ pc = "running"
    /\ ~Role2
    /\ flash[at] \notin Bad
    /\ Write(ok, Cleared(rec))
    /\ Forget
    /\ stable' = FALSE
    /\ err' = ~ok
    /\ UNCHANGED <<boot, flash, pc, probeVars, ota, marked, came, updates, lapses>>

StableDeadline(ok) == stable /\ MarkHealthy(ok)

\* Mutant: recovery goes on being due.
MutResetRecord(r) == [Consumed(r) EXCEPT !.failed = None, !.count = 0]
ResetRecord(r) == Consumed(Cleared(r))

\* esp_iris_crash_loop_reset() by the product.
Reset(ok) ==
    /\ pc = "running"
    /\ flash[at] \notin Bad
    /\ Write(ok, ResetRecord(rec))
    /\ Forget
    /\ stable' = FALSE
    /\ err' = ~ok
    /\ UNCHANGED <<boot, flash, pc, probeVars, ota, marked, came, updates, lapses>>

\* An OTA takes a slot that neither runs nor is the factory's ...
OtaBegin(s) ==
    /\ pc = "running"
    /\ ota.pc = "none"
    /\ updates < MaxUpdates
    /\ s \notin {at, Factory}
    /\ ota' = [pc |-> "open", slot |-> s]
    /\ updates' = updates + 1
    /\ UNCHANGED <<flashVars, pc, probeVars, err, stable, histVars, faults, lapses>>

\* ... whose image is gone with the first sector that is erased and written ...
OtaData ==
    /\ ota.pc = "open"
    /\ pc = "running"
    /\ flash' = [flash EXCEPT ![ota.slot] = None]
    /\ ota' = [ota EXCEPT !.pc = "transfer"]
    /\ UNCHANGED <<rec, boot, pc, probeVars, err, stable, histVars, faults, updates, lapses>>

OtaAbort ==
    /\ ota.pc \in {"open", "transfer"}
    /\ pc = "running"
    /\ ota' = NoOta
    /\ UNCHANGED <<flashVars, pc, probeVars, err, stable, histVars, faults, updates, lapses>>

\* ... and which is filled.  A verified image may still be refused or cancelled; ...
OtaRefused(i) ==
    /\ ota.pc = "transfer"
    /\ pc = "running"
    /\ i # Rescue
    /\ flash' = [flash EXCEPT ![ota.slot] = i]
    /\ ota' = NoOta
    /\ UNCHANGED <<rec, boot, pc, probeVars, err, stable, histVars, faults, updates, lapses>>

\* ... its commit starts a new crash history ...
OtaCommit(i, ok) ==
    /\ ota.pc = "transfer"
    /\ pc = "running"
    /\ i # Rescue
    /\ flash' = [flash EXCEPT ![ota.slot] = i]
    /\ Write(ok, ResetRecord(rec))
    /\ Forget
    /\ stable' = FALSE
    /\ err' = ~ok
    /\ ota' = IF ok THEN [ota EXCEPT !.pc = "select"] ELSE NoOta
    /\ UNCHANGED <<boot, pc, probeVars, marked, came, updates, lapses>>

\* ... before it selects the new image.
OtaSelect(ok) ==
    /\ ota.pc = "select"
    /\ pc = "running"
    /\ boot' = IF ok THEN ota.slot ELSE boot
    /\ ota' = NoOta
    /\ UNCHANGED <<rec, flash, pc, probeVars, err, stable, histVars, faults, updates, lapses>>

\* The product selects a slot by itself, as a system update backend does.
SelectBoot(s) ==
    /\ pc = "running"
    /\ updates < MaxUpdates
    /\ flash[s] # None
    /\ boot' = s
    /\ updates' = updates + 1
    /\ lapses' = lapses \cup {"select"}
    /\ UNCHANGED <<rec, flash, pc, probeVars, err, stable, ota, histVars, faults>>

-----------------------------------------------------------------------------
Booting ==
    \/ EnterRecovery
    \/ \E ok \in BOOLEAN : Probe(ok) \/ Plan(ok) \/ SelectRecovery(ok) \/ Unplan(ok)

Environment ==
    \/ \E why \in {"poweron", "brownout", "crash"} : Fault(why)
    \/ ProbeUnread \/ Restart \/ OtaData \/ OtaAbort
    \/ \E s \in Slots : OtaBegin(s) \/ SelectBoot(s)
    \/ \E i \in Images : OtaRefused(i)
    \/ \E ok \in BOOLEAN :
          \/ MarkPlanned(ok) \/ MarkHealthy(ok) \/ StableDeadline(ok) \/ Reset(ok)
          \/ OtaSelect(ok)
          \/ \E i \in Images : OtaCommit(i, ok)

Next == Booting \/ Crash \/ Environment

Spec == Init /\ [][Next]_vars

\* The boot code runs, and an image in Bad crashes whenever it is given the time.
Fairness ==
    /\ WF_vars(Booting)
    /\ SF_vars(Crash /\ flash[at] \in Bad)

FairSpec == Spec /\ Fairness

-----------------------------------------------------------------------------
(* Properties. *)

Record == [started : Ids \cup {None}, failed : Ids \cup {None}, planned : BOOLEAN,
           pending : BOOLEAN, count : 0 .. MaxCount]
RecordType ==
    /\ rec \in Record
    /\ crashes \in [Ids -> 0 .. MaxCount]
FlashType ==
    /\ boot \in Slots
    /\ at \in Slots
    /\ flash \in [Slots -> Images \cup {None}]
    /\ flash[at] # None
    /\ \A s \in Slots : flash[s] = Rescue <=> s = Factory
OtaType ==
    /\ ota \in [pc : {"open", "transfer", "select"}, slot : Slots] \cup {NoOta}
    /\ ota.pc # "none" => ota.slot \notin {at, Factory}
BootType ==
    /\ pc \in {"boot", "recovering", "planned", "leaving", "unplan", "running"}
    /\ reason \in {"poweron", "brownout", "crash", "sw"}
    /\ err \in BOOLEAN /\ stable \in BOOLEAN /\ wasPlanned \in BOOLEAN
    /\ marked \in BOOLEAN /\ came \in BOOLEAN
BoundType ==
    /\ faults \in 0 .. MaxFaults
    /\ updates \in 0 .. MaxUpdates
    /\ lapses \subseteq {"boot", "select"}

\* Type invariant of the record, the flash and the boot in progress.
TypeOK == RecordType /\ FlashType /\ OtaType /\ BootType /\ BoundType

Recorded == "boot" \notin lapses
CountMatches == rec.failed # None => rec.count >= 1 /\ rec.count <= crashes[rec.failed]
EarnsQuarantine ==
    pc \in {"recovering", "planned", "leaving"} => crashes[Running] >= LimitOf[flash[at]]
PlannedCame == wasPlanned => came

\* iris_crash_recovery_probe ("resets are attributed to that image"): as long as every boot
\* was recorded, the image on record as failed really crashed as often as the record says.
CountIsTrue == Recorded => CountMatches

\* iris_crash_recovery_probe ("When the configured limit is reached"): an image
\* is left for recovery only after as many crashes of its own as its limit says,
\* as long as boots are recorded and only an OTA selects another image.
QuarantineIsEarned == lapses = {} => EarnsQuarantine

\* iris_crash_recovery_probe: an image at its limit does not get to run, over
\* resets at any point of the way to recovery, unless recovery itself could not
\* be entered.
QuarantineHolds ==
    [][pc # "running" /\ pc' = "running" /\ ~err' =>
          ~(flash[at] \in Recovering /\ rec'.failed = Running
            /\ rec'.count >= LimitOf[flash[at]])]_vars

\* iris_crash_recovery_probe ("atomically consumes any planned marker"): a boot
\* is reported as planned only if the one before it marked its own restart, as
\* long as every boot was recorded.
PlannedIsTrue == Recorded => PlannedCame

StartedIsRunning == pc # "boot" => rec.started = Running
BootedSlot == pc = "boot" => at = IF flash[boot] # None THEN boot ELSE Factory
ResetIsCharged ==
    pc = "boot" /\ Counts(reason) /\ rec.started # None => Charged(rec) <= crashes[rec.started]
PendingIsQuarantine ==
    /\ rec.pending /\ boot # Factory =>
          /\ rec.started = <<boot, flash[boot]>>
          /\ rec.failed = rec.started
          /\ rec.count >= LimitOf[flash[boot]]
          /\ flash[boot] # None
    /\ ota.pc = "select" => ~rec.pending
    /\ ota.pc # "none" => pc = "running"
MarkIsFresh ==
    /\ pc # "boot" /\ rec.planned => marked
    /\ pc = "boot" /\ rec.planned /\ reason = "sw" => came

\* The inductive invariant of recorded boots: the image on record as started is
\* the one that runs, a counted reset was counted by the history too, and a
\* planned mark is one of this boot.
RecordInv ==
    TypeOK /\ CountMatches /\ PlannedCame /\ StartedIsRunning /\ BootedSlot
    /\ ResetIsCharged /\ MarkIsFresh

\* With it: recovery is due only for the image that the device will boot.
QuarantineInv == EarnsQuarantine /\ PendingIsQuarantine

\* ESP_IRIS_CRASH_LOOP_RECOVERY ("Enter recovery after repeated crashes"): a
\* device does not stay with an image that crashes again and again.
BadImageIsLeft == (flash[at] \in Bad \cap Recovering) ~> (flash[at] \notin Bad \cap Recovering)
=============================================================================

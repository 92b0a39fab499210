--------------------------- MODULE CrashLoopProofs ---------------------------
(***************************************************************************)
(* Proofs about CrashLoop: the record is never ahead of the crashes that   *)
(* really happened, whatever the number of slots, images and faults.       *)
(***************************************************************************)
EXTENDS CrashLoop, TLAPS

\* The device as it leaves the factory has the types of the model.
LEMMA TypeInit == Init => TypeOK
<1> SUFFICES ASSUME Init PROVE TypeOK
    OBVIOUS
<1>1. RecordType
    BY CrashLoopAssumption DEF Init, RecordType, Record, EmptyRecord
<1>2. FlashType
    BY DEF Init, FlashType
<1>3. OtaType
    BY DEF Init, OtaType, NoOta
<1>4. BootType
    BY DEF Init, BootType
<1>5. BoundType
    BY CrashLoopAssumption DEF Init, BoundType
<1> QED BY <1>1, <1>2, <1>3, <1>4, <1>5 DEF TypeOK


\* Setting one field of a record gives a record.
LEMMA SetField ==
    ASSUME NEW r \in Record
    PROVE  /\ \A x \in Ids \cup {None} : [r EXCEPT !.failed = x] \in Record
           /\ \A x \in BOOLEAN : [r EXCEPT !.pending = x] \in Record
           /\ \A x \in BOOLEAN : [r EXCEPT !.planned = x] \in Record
           /\ \A x \in 0 .. MaxCount : [r EXCEPT !.count = x] \in Record
    BY DEF Record

\* clear_failure() forgets the failure and leaves the started image and the mark.
LEMMA ClearedRecord ==
    \A r \in Record :
        /\ Cleared(r) \in Record
        /\ Cleared(r).failed = None /\ Cleared(r).count = 0
        /\ Cleared(r).started = r.started
        /\ Cleared(r).planned = r.planned /\ Cleared(r).pending = FALSE
<1> SUFFICES ASSUME NEW r \in Record
             PROVE  /\ Cleared(r) \in Record
                    /\ Cleared(r).failed = None /\ Cleared(r).count = 0
                    /\ Cleared(r).started = r.started
                    /\ Cleared(r).planned = r.planned /\ Cleared(r).pending = FALSE
    OBVIOUS
<1>1. 0 \in 0 .. MaxCount
    BY CrashLoopAssumption
<1> DEFINE f == [r EXCEPT !.failed = None]
<1>2. f \in Record /\ f.started = r.started /\ f.planned = r.planned /\ f.failed = None
    BY DEF Record
<1> DEFINE p == [f EXCEPT !.pending = FALSE]
<1>3. /\ p \in Record /\ p.started = r.started /\ p.planned = r.planned /\ p.failed = None
      /\ p.pending = FALSE
  <2> HIDE DEF f
  <2> QED BY <1>2 DEF Record
<1>4. Cleared(r) = [p EXCEPT !.count = 0]
    BY DEF Cleared
<1> HIDE DEF p
<1> QED BY <1>1, <1>3, <1>4 DEF Record

\* esp_iris_crash_loop_reset() forgets the mark too.
LEMMA ResetRecordIsRecord ==
    \A r \in Record :
        /\ ResetRecord(r) \in Record
        /\ ResetRecord(r).failed = None /\ ResetRecord(r).count = 0
        /\ ResetRecord(r).started = r.started
        /\ ResetRecord(r).planned = FALSE /\ ResetRecord(r).pending = FALSE
<1> SUFFICES ASSUME NEW r \in Record
             PROVE  /\ ResetRecord(r) \in Record
                    /\ ResetRecord(r).failed = None /\ ResetRecord(r).count = 0
                    /\ ResetRecord(r).started = r.started
                    /\ ResetRecord(r).planned = FALSE /\ ResetRecord(r).pending = FALSE
    OBVIOUS
<1>1. PICK c \in Record : c = Cleared(r)
    BY ClearedRecord
<1> QED BY <1>1, ClearedRecord DEF ResetRecord, Record, Consumed

\* The probe charges a counted reset to the image started last, records the running
\* one as started, and makes recovery due when the running image is at its limit.
LEMMA ProbedRecord ==
    ASSUME TypeOK
    PROVE  /\ Running \in Ids
           /\ Probed \in Record
           /\ Probed.started = Running
           /\ Probed.planned = FALSE
           /\ rec.started # None /\ Counts(reason) =>
                 Probed.failed = rec.started /\ Probed.count = Charged(rec)
           /\ ~(rec.started # None /\ Counts(reason)) =>
                 Probed.failed = rec.failed /\ Probed.count = rec.count
           /\ Probed.pending = (rec.pending \/ (flash[at] \in Recovering /\ Probed.failed = Running
                                                /\ AtLimit(Probed)))
<1>1. Running \in Ids
    BY DEF TypeOK, FlashType, Running, Ids
<1>2. rec \in Record
    BY DEF TypeOK, RecordType
<1> DEFINE c == Consumed(rec)
<1>3. /\ c \in Record
      /\ c.started = rec.started /\ c.failed = rec.failed /\ c.count = rec.count
      /\ c.planned = FALSE /\ c.pending = rec.pending
    BY <1>2 DEF Consumed, Record
<1> HIDE DEF c
<1>4. Charged(c) = Charged(rec) /\ Charged(c) \in 0 .. MaxCount
    BY <1>3, CrashLoopAssumption DEF Charged, Increment, Record
<1> DEFINE a == Attributed(c)
<1>5. /\ a \in Record
      /\ a.planned = FALSE /\ a.pending = rec.pending
      /\ rec.started # None /\ Counts(reason) =>
            a.failed = rec.started /\ a.count = Charged(rec)
      /\ ~(rec.started # None /\ Counts(reason)) =>
            a.failed = rec.failed /\ a.count = rec.count
  <2>1. CASE c.started # None /\ Counts(reason)
    <3> DEFINE n == Charged(c)
    <3>1. n \in 0 .. MaxCount /\ n = Charged(rec)
        BY <1>4
    <3> HIDE DEF n
    <3>2. a = [c EXCEPT !.count = n, !.failed = c.started]
        BY <2>1 DEF Attributed, n
    <3>3. a \in Record
        BY <3>1, <3>2, <1>3 DEF Record
    <3> QED BY <3>1, <3>2, <3>3, <1>3, <2>1 DEF Record
  <2>2. CASE ~(c.started # None /\ Counts(reason))
    BY <2>2, <1>3 DEF Attributed
  <2> QED BY <2>1, <2>2
<1> HIDE DEF a
<1> DEFINE p == [a EXCEPT !.started = Running]
<1>6. /\ p \in Record /\ p.started = Running
      /\ p.planned = FALSE /\ p.pending = rec.pending
      /\ p.failed = a.failed /\ p.count = a.count
    BY <1>1, <1>5 DEF Record
<1>7. Probed = [p EXCEPT !.pending = @ \/ (flash[at] \in Recovering /\ p.failed = Running
                                           /\ AtLimit(p))]
    BY DEF Probed, p, a, c
<1> HIDE DEF p
<1>8. Probed \in Record
    BY <1>6, <1>7, SetField, ZenonT(60) DEF Record
<1>9. /\ Probed.started = p.started /\ Probed.planned = p.planned
      /\ Probed.failed = p.failed /\ Probed.count = p.count
    BY <1>6, <1>7 DEF Record
<1>10. Probed.pending = (p.pending \/ (flash[at] \in Recovering /\ p.failed = Running
                                           /\ AtLimit(p)))
    BY <1>6, <1>7 DEF Record
<1>11. AtLimit(Probed) <=> AtLimit(p)
    BY <1>9 DEF AtLimit
<1> QED BY <1>1, <1>5, <1>6, <1>8, <1>9, <1>10, <1>11


\* Every action keeps the types.
LEMMA TypeStep == TypeOK /\ [Next]_vars => TypeOK'
<1> SUFFICES ASSUME TypeOK, [Next]_vars PROVE TypeOK'
    OBVIOUS
<1> USE CrashLoopAssumption
<1>1. ASSUME Crash PROVE TypeOK'
  <2>1. RecordType'
    BY <1>1 DEF Crash, Reboot, flashVars, TypeOK, RecordType, FlashType, Running, Ids,
       Increment
  <2>2. FlashType'
    BY <1>1 DEF Crash, Reboot, flashVars, TypeOK, FlashType
  <2>3. OtaType'
    BY <1>1 DEF Crash, Reboot, OtaType, NoOta
  <2>4. BootType'
    BY <1>1 DEF Crash, Reboot, BootType
  <2>5. BoundType'
    BY <1>1 DEF Crash, Reboot, TypeOK, BoundType
  <2> QED BY <2>1, <2>2, <2>3, <2>4, <2>5 DEF TypeOK
<1>2. ASSUME NEW why \in {"poweron", "brownout", "crash"}, Fault(why) PROVE TypeOK'
  <2>1. RecordType'
    BY <1>2 DEF Fault, Reboot, flashVars, TypeOK, RecordType, FlashType, Running, Ids,
       Increment
  <2>2. FlashType'
    BY <1>2 DEF Fault, Reboot, flashVars, TypeOK, FlashType
  <2>3. OtaType'
    BY <1>2 DEF Fault, Reboot, OtaType, NoOta
  <2>4. BootType'
    BY <1>2 DEF Fault, Reboot, BootType
  <2>5. BoundType'
    BY <1>2 DEF Fault, Reboot, TypeOK, BoundType
  <2> QED BY <2>1, <2>2, <2>3, <2>4, <2>5 DEF TypeOK
<1>3. ASSUME Restart PROVE TypeOK'
  <2>1. RecordType'
    BY <1>3 DEF Restart, Reboot, flashVars, TypeOK, RecordType, FlashType, Running, Ids,
       Increment
  <2>2. FlashType'
    BY <1>3 DEF Restart, Reboot, flashVars, TypeOK, FlashType
  <2>3. OtaType'
    BY <1>3 DEF Restart, Reboot, OtaType, NoOta
  <2>4. BootType'
    BY <1>3 DEF Restart, Reboot, BootType
  <2>5. BoundType'
    BY <1>3 DEF Restart, Reboot, TypeOK, BoundType
  <2> QED BY <2>1, <2>2, <2>3, <2>4, <2>5 DEF TypeOK
<1>4. ASSUME EnterRecovery PROVE TypeOK'
  <2>1. RecordType'
    BY <1>4 DEF EnterRecovery, Reboot, flashVars, TypeOK, RecordType, FlashType,
       Running, Ids, Increment
  <2>2. FlashType'
    BY <1>4 DEF EnterRecovery, Reboot, flashVars, TypeOK, FlashType
  <2>3. OtaType'
    BY <1>4 DEF EnterRecovery, Reboot, OtaType, NoOta
  <2>4. BootType'
    BY <1>4 DEF EnterRecovery, Reboot, BootType
  <2>5. BoundType'
    BY <1>4 DEF EnterRecovery, Reboot, TypeOK, BoundType
  <2> QED BY <2>1, <2>2, <2>3, <2>4, <2>5 DEF TypeOK
<1>5. ASSUME ProbeUnread PROVE TypeOK'
  <2>1. RecordType'
    BY <1>5 DEF ProbeUnread, flashVars, histVars, TypeOK, RecordType
  <2>2. FlashType'
    BY <1>5 DEF ProbeUnread, flashVars, probeVars, TypeOK, FlashType
  <2>3. OtaType'
    BY <1>5 DEF ProbeUnread, probeVars, TypeOK, OtaType
  <2>4. BootType'
    BY <1>5 DEF ProbeUnread, probeVars, histVars, TypeOK, BootType
  <2>5. BoundType'
    BY <1>5 DEF ProbeUnread, TypeOK, BoundType
  <2> QED BY <2>1, <2>2, <2>3, <2>4, <2>5 DEF TypeOK
<1>6. ASSUME NEW ok \in BOOLEAN, Probe(ok) PROVE TypeOK'
  <2>1. RecordType'
    BY <1>6, ProbedRecord DEF Probe, Write, histVars, TypeOK, RecordType
  <2>2. FlashType'
    BY <1>6 DEF Probe, Write, TypeOK, FlashType
  <2>3. OtaType'
    BY <1>6 DEF Probe, Write, TypeOK, OtaType
  <2>4. BootType'
    BY <1>6 DEF Probe, Write, histVars, TypeOK, BootType
  <2>5. BoundType'
    BY <1>6 DEF Probe, Write, TypeOK, BoundType
  <2> QED BY <2>1, <2>2, <2>3, <2>4, <2>5 DEF TypeOK
<1>7. ASSUME NEW ok \in BOOLEAN, Plan(ok) PROVE TypeOK'
  <2>1. RecordType'
    BY <1>7, SetField DEF Plan, Write, TypeOK, RecordType
  <2>2. FlashType'
    BY <1>7 DEF Plan, Write, probeVars, TypeOK, FlashType
  <2>3. OtaType'
    BY <1>7 DEF Plan, Write, probeVars, TypeOK, OtaType
  <2>4. BootType'
    BY <1>7 DEF Plan, Write, probeVars, TypeOK, BootType
  <2>5. BoundType'
    BY <1>7 DEF Plan, Write, TypeOK, BoundType
  <2> QED BY <2>1, <2>2, <2>3, <2>4, <2>5 DEF TypeOK
<1>8. ASSUME NEW ok \in BOOLEAN, SelectRecovery(ok) PROVE TypeOK'
  <2>1. RecordType'
    BY <1>8 DEF SelectRecovery, histVars, TypeOK, RecordType
  <2>2. FlashType'
    BY <1>8 DEF SelectRecovery, RecoveryTarget, probeVars, TypeOK, FlashType
  <2>3. OtaType'
    BY <1>8 DEF SelectRecovery, probeVars, TypeOK, OtaType
  <2>4. BootType'
    BY <1>8 DEF SelectRecovery, probeVars, histVars, TypeOK, BootType
  <2>5. BoundType'
    BY <1>8 DEF SelectRecovery, TypeOK, BoundType
  <2> QED BY <2>1, <2>2, <2>3, <2>4, <2>5 DEF TypeOK
<1>9. ASSUME NEW ok \in BOOLEAN, Unplan(ok) PROVE TypeOK'
  <2>1. RecordType'
    BY <1>9, SetField DEF Unplan, Write, histVars, TypeOK, RecordType
  <2>2. FlashType'
    BY <1>9 DEF Unplan, Write, probeVars, TypeOK, FlashType
  <2>3. OtaType'
    BY <1>9 DEF Unplan, Write, probeVars, TypeOK, OtaType
  <2>4. BootType'
    BY <1>9 DEF Unplan, Write, probeVars, histVars, TypeOK, BootType
  <2>5. BoundType'
    BY <1>9 DEF Unplan, Write, TypeOK, BoundType
  <2> QED BY <2>1, <2>2, <2>3, <2>4, <2>5 DEF TypeOK
<1>10. ASSUME NEW ok \in BOOLEAN, MarkPlanned(ok) PROVE TypeOK'
  <2>1. RecordType'
    BY <1>10, SetField DEF MarkPlanned, Write, TypeOK, RecordType
  <2>2. FlashType'
    BY <1>10 DEF MarkPlanned, Write, probeVars, TypeOK, FlashType
  <2>3. OtaType'
    BY <1>10 DEF MarkPlanned, Write, probeVars, TypeOK, OtaType
  <2>4. BootType'
    BY <1>10 DEF MarkPlanned, Write, probeVars, TypeOK, BootType
  <2>5. BoundType'
    BY <1>10 DEF MarkPlanned, Write, TypeOK, BoundType
  <2> QED BY <2>1, <2>2, <2>3, <2>4, <2>5 DEF TypeOK
<1>11. ASSUME NEW ok \in BOOLEAN, MarkHealthy(ok) PROVE TypeOK'
  <2>1. RecordType'
    BY <1>11, ClearedRecord DEF MarkHealthy, Write, Forget, TypeOK, RecordType
  <2>2. FlashType'
    BY <1>11 DEF MarkHealthy, Write, probeVars, TypeOK, FlashType
  <2>3. OtaType'
    BY <1>11 DEF MarkHealthy, Write, probeVars, TypeOK, OtaType
  <2>4. BootType'
    BY <1>11 DEF MarkHealthy, Write, probeVars, TypeOK, BootType
  <2>5. BoundType'
    BY <1>11 DEF MarkHealthy, Write, TypeOK, BoundType
  <2> QED BY <2>1, <2>2, <2>3, <2>4, <2>5 DEF TypeOK
<1>12. ASSUME NEW ok \in BOOLEAN, Reset(ok) PROVE TypeOK'
  <2>1. RecordType'
    BY <1>12, ResetRecordIsRecord DEF Reset, Write, Forget, TypeOK, RecordType
  <2>2. FlashType'
    BY <1>12 DEF Reset, Write, probeVars, TypeOK, FlashType
  <2>3. OtaType'
    BY <1>12 DEF Reset, Write, probeVars, TypeOK, OtaType
  <2>4. BootType'
    BY <1>12 DEF Reset, Write, probeVars, TypeOK, BootType
  <2>5. BoundType'
    BY <1>12 DEF Reset, Write, TypeOK, BoundType
  <2> QED BY <2>1, <2>2, <2>3, <2>4, <2>5 DEF TypeOK
<1>13. ASSUME NEW s \in Slots, OtaBegin(s) PROVE TypeOK'
  <2>1. RecordType'
    BY <1>13 DEF OtaBegin, flashVars, histVars, TypeOK, RecordType
  <2>2. FlashType'
    BY <1>13 DEF OtaBegin, flashVars, probeVars, TypeOK, FlashType
  <2>3. OtaType'
    BY <1>13 DEF OtaBegin, probeVars, OtaType
  <2>4. BootType'
    BY <1>13 DEF OtaBegin, probeVars, histVars, TypeOK, BootType
  <2>5. BoundType'
    BY <1>13 DEF OtaBegin, TypeOK, BoundType
  <2> QED BY <2>1, <2>2, <2>3, <2>4, <2>5 DEF TypeOK
<1>14. ASSUME OtaData PROVE TypeOK'
  <2>1. RecordType'
    BY <1>14 DEF OtaData, histVars, TypeOK, RecordType
  <2>2. FlashType'
    BY <1>14 DEF OtaData, probeVars, TypeOK, FlashType, OtaType
  <2>3. OtaType'
    BY <1>14 DEF OtaData, probeVars, TypeOK, OtaType, NoOta
  <2>4. BootType'
    BY <1>14 DEF OtaData, probeVars, histVars, TypeOK, BootType
  <2>5. BoundType'
    BY <1>14 DEF OtaData, TypeOK, BoundType
  <2> QED BY <2>1, <2>2, <2>3, <2>4, <2>5 DEF TypeOK
<1>15. ASSUME OtaAbort PROVE TypeOK'
  <2>1. RecordType'
    BY <1>15 DEF OtaAbort, flashVars, histVars, TypeOK, RecordType
  <2>2. FlashType'
    BY <1>15 DEF OtaAbort, flashVars, probeVars, TypeOK, FlashType
  <2>3. OtaType'
    BY <1>15 DEF OtaAbort, OtaType, NoOta
  <2>4. BootType'
    BY <1>15 DEF OtaAbort, probeVars, histVars, TypeOK, BootType
  <2>5. BoundType'
    BY <1>15 DEF OtaAbort, TypeOK, BoundType
  <2> QED BY <2>1, <2>2, <2>3, <2>4, <2>5 DEF TypeOK
<1>16. ASSUME NEW i \in Images, OtaRefused(i) PROVE TypeOK'
  <2>1. RecordType'
    BY <1>16 DEF OtaRefused, histVars, TypeOK, RecordType
  <2>2. FlashType'
    BY <1>16 DEF OtaRefused, probeVars, TypeOK, FlashType, OtaType
  <2>3. OtaType'
    BY <1>16 DEF OtaRefused, OtaType, NoOta
  <2>4. BootType'
    BY <1>16 DEF OtaRefused, probeVars, histVars, TypeOK, BootType
  <2>5. BoundType'
    BY <1>16 DEF OtaRefused, TypeOK, BoundType
  <2> QED BY <2>1, <2>2, <2>3, <2>4, <2>5 DEF TypeOK
<1>17. ASSUME NEW ok \in BOOLEAN, NEW i \in Images, OtaCommit(i, ok) PROVE TypeOK'
  <2>1. RecordType'
    BY <1>17, ResetRecordIsRecord DEF OtaCommit, Write, Forget, TypeOK, RecordType
  <2>2. FlashType'
    BY <1>17 DEF OtaCommit, Write, probeVars, TypeOK, FlashType, OtaType
  <2>3. OtaType'
    BY <1>17 DEF OtaCommit, Write, probeVars, TypeOK, OtaType, NoOta
  <2>4. BootType'
    BY <1>17 DEF OtaCommit, Write, probeVars, TypeOK, BootType
  <2>5. BoundType'
    BY <1>17 DEF OtaCommit, Write, TypeOK, BoundType
  <2> QED BY <2>1, <2>2, <2>3, <2>4, <2>5 DEF TypeOK
<1>18. ASSUME NEW ok \in BOOLEAN, OtaSelect(ok) PROVE TypeOK'
  <2>1. RecordType'
    BY <1>18 DEF OtaSelect, histVars, TypeOK, RecordType
  <2>2. FlashType'
    BY <1>18 DEF OtaSelect, probeVars, TypeOK, FlashType, OtaType, NoOta
  <2>3. OtaType'
    BY <1>18 DEF OtaSelect, OtaType, NoOta
  <2>4. BootType'
    BY <1>18 DEF OtaSelect, probeVars, histVars, TypeOK, BootType
  <2>5. BoundType'
    BY <1>18 DEF OtaSelect, TypeOK, BoundType
  <2> QED BY <2>1, <2>2, <2>3, <2>4, <2>5 DEF TypeOK
<1>19. ASSUME NEW s \in Slots, SelectBoot(s) PROVE TypeOK'
  <2>1. RecordType'
    BY <1>19 DEF SelectBoot, histVars, TypeOK, RecordType
  <2>2. FlashType'
    BY <1>19 DEF SelectBoot, probeVars, TypeOK, FlashType
  <2>3. OtaType'
    BY <1>19 DEF SelectBoot, probeVars, TypeOK, OtaType
  <2>4. BootType'
    BY <1>19 DEF SelectBoot, probeVars, histVars, TypeOK, BootType
  <2>5. BoundType'
    BY <1>19 DEF SelectBoot, TypeOK, BoundType
  <2> QED BY <2>1, <2>2, <2>3, <2>4, <2>5 DEF TypeOK
<1>20. CASE UNCHANGED vars
    BY <1>20 DEF vars, TypeOK, RecordType, FlashType, OtaType, BootType, BoundType, NoOta
<1> QED BY <1>1, <1>2, <1>3, <1>4, <1>5, <1>6, <1>7, <1>8, <1>9, <1>10, <1>11, <1>12, <1>13,
   <1>14, <1>15, <1>16, <1>17, <1>18, <1>19, <1>20 DEF Next, Booting, Environment, StableDeadline

\* iris_crash_recovery_probe and its callers keep the types of record and boot.
THEOREM TypeCorrect == Spec => []TypeOK
<1>1. Init => TypeOK
    BY TypeInit
<1>2. TypeOK /\ [Next]_vars => TypeOK'
    BY TypeStep
<1> QED BY <1>1, <1>2, PTL DEF Spec

\* A device out of the factory satisfies the invariants.
LEMMA InvInit == Init => RecordInv /\ QuarantineInv
<1> SUFFICES ASSUME Init PROVE RecordInv /\ QuarantineInv
    OBVIOUS
<1>1. TypeOK
    BY TypeInit
<1>2. CountMatches /\ EarnsQuarantine /\ StartedIsRunning /\ ResetIsCharged
    BY DEF Init, EmptyRecord, CountMatches, EarnsQuarantine, StartedIsRunning, ResetIsCharged
<1>3. BootedSlot
    BY DEF Init, BootedSlot
<1>4. PlannedCame /\ PendingIsQuarantine /\ MarkIsFresh
    BY DEF Init, EmptyRecord, NoOta, PlannedCame, PendingIsQuarantine, MarkIsFresh
<1> QED BY <1>1, <1>2, <1>3, <1>4 DEF RecordInv, QuarantineInv

\* A counted reset of a recorded boot is in the history before the probe charges it.
LEMMA RebootCharges ==
    ASSUME RecordInv, NEW why, Reboot(why), pc # "boot" \/ ~Counts(why)
    PROVE  ResetIsCharged'
<1> SUFFICES ASSUME Counts(why), rec.started # None
             PROVE  Charged(rec) <= crashes'[rec.started] /\ Charged(rec)' = Charged(rec)
    BY DEF Reboot, ResetIsCharged, flashVars
<1>1. rec' = rec
    BY DEF Reboot, flashVars
<1>2. rec.started = Running /\ Running \in Ids /\ None \notin Ids
    BY CrashLoopAssumption DEF RecordInv, StartedIsRunning, TypeOK, FlashType, Running, Ids
<1>3. crashes \in [Ids -> 0 .. MaxCount] /\ rec.count \in 0 .. MaxCount
    BY DEF RecordInv, TypeOK, RecordType, Record
<1>4. crashes'[rec.started] = Increment(crashes[rec.started])
    BY <1>2, <1>3 DEF Reboot
<1>5. Charged(rec) <= Increment(crashes[rec.started])
    BY <1>2, <1>3, CrashLoopAssumption DEF Charged, Increment, RecordInv, CountMatches
<1> QED BY <1>1, <1>4, <1>5 DEF Charged

\* Every step keeps the record true, when each boot is recorded.
LEMMA RecordStep == RecordInv /\ [Next]_vars /\ Recorded' => RecordInv'
<1> SUFFICES ASSUME RecordInv, [Next]_vars, Recorded' PROVE RecordInv'
    OBVIOUS
<1>u. "boot" \notin lapses'
    BY DEF Recorded
<1>t. TypeOK /\ TypeOK'
    BY TypeStep DEF RecordInv
<1>r. rec \in Record /\ rec' \in Record /\ Running \in Ids
    BY <1>t DEF TypeOK, RecordType, FlashType, Running, Ids
<1>1. ASSUME Crash PROVE RecordInv'
  <2>1. CountMatches'
    BY <1>1 DEF Crash, flashVars, RecordInv, CountMatches, Reboot, Increment, TypeOK,
       RecordType, Record
  <2>2. PlannedCame'
    BY <1>1 DEF Crash, PlannedCame, Reboot
  <2>3. StartedIsRunning'
    BY <1>1 DEF Crash, StartedIsRunning, Reboot
  <2>4. BootedSlot'
    BY <1>1 DEF Crash, flashVars, BootedSlot, Reboot
  <2>5. ResetIsCharged'
    BY <1>1, RebootCharges DEF Crash
  <2>6. MarkIsFresh'
    BY <1>1 DEF Crash, MarkIsFresh, Reboot
  <2> QED BY <1>t, <2>1, <2>2, <2>3, <2>4, <2>5, <2>6 DEF RecordInv
<1>2. ASSUME NEW why \in {"poweron", "brownout", "crash"}, Fault(why) PROVE RecordInv'
  <2>1. CountMatches'
    BY <1>2 DEF Fault, flashVars, RecordInv, CountMatches, Reboot, Increment, TypeOK,
       RecordType, Record
  <2>2. PlannedCame'
    BY <1>2 DEF Fault, PlannedCame, Reboot
  <2>3. StartedIsRunning'
    BY <1>2 DEF Fault, StartedIsRunning, Reboot
  <2>4. BootedSlot'
    BY <1>2 DEF Fault, flashVars, BootedSlot, Reboot
  <2>5. ResetIsCharged'
    BY <1>2, <1>u, RebootCharges DEF Fault
  <2>6. MarkIsFresh'
    BY <1>2 DEF Fault, MarkIsFresh, Reboot
  <2> QED BY <1>t, <2>1, <2>2, <2>3, <2>4, <2>5, <2>6 DEF RecordInv
<1>3. ASSUME Restart PROVE RecordInv'
  <2>1. CountMatches'
    BY <1>3 DEF Restart, flashVars, RecordInv, CountMatches, Reboot, Increment, TypeOK,
       RecordType, Record
  <2>2. PlannedCame'
    BY <1>3 DEF Restart, PlannedCame, Reboot
  <2>3. StartedIsRunning'
    BY <1>3 DEF Restart, StartedIsRunning, Reboot
  <2>4. BootedSlot'
    BY <1>3 DEF Restart, flashVars, BootedSlot, Reboot
  <2>5. ResetIsCharged'
    BY <1>3, RebootCharges DEF Restart
  <2>6. MarkIsFresh'
    BY <1>3 DEF Restart, flashVars, RecordInv, MarkIsFresh, Reboot
  <2> QED BY <1>t, <2>1, <2>2, <2>3, <2>4, <2>5, <2>6 DEF RecordInv
<1>4. ASSUME EnterRecovery PROVE RecordInv'
  <2>1. CountMatches'
    BY <1>4 DEF EnterRecovery, flashVars, RecordInv, CountMatches, Reboot, Increment,
       TypeOK, RecordType, Record
  <2>2. PlannedCame'
    BY <1>4 DEF EnterRecovery, PlannedCame, Reboot
  <2>3. StartedIsRunning'
    BY <1>4 DEF EnterRecovery, StartedIsRunning, Reboot
  <2>4. BootedSlot'
    BY <1>4 DEF EnterRecovery, flashVars, BootedSlot, Reboot
  <2>5. ResetIsCharged'
    BY <1>4, RebootCharges DEF EnterRecovery
  <2>6. MarkIsFresh'
    BY <1>4 DEF EnterRecovery, flashVars, RecordInv, MarkIsFresh, Reboot
  <2> QED BY <1>t, <2>1, <2>2, <2>3, <2>4, <2>5, <2>6 DEF RecordInv
<1>5. ASSUME ProbeUnread PROVE RecordInv'
    BY <1>5, <1>u DEF ProbeUnread
<1>6. ASSUME NEW ok \in BOOLEAN, Probe(ok) PROVE RecordInv'
  <2>0. rec' = Probed
    BY <1>6, <1>u DEF Probe, Write
  <2>p. /\ rec'.started = Running /\ rec'.planned = FALSE
        /\ rec.started # None /\ Counts(reason) =>
              rec'.failed = rec.started /\ rec'.count = Charged(rec)
        /\ ~(rec.started # None /\ Counts(reason)) =>
              rec'.failed = rec.failed /\ rec'.count = rec.count
        /\ rec'.pending = (rec.pending \/ (flash[at] \in Recovering /\ rec'.failed = Running
                                             /\ AtLimit(rec')))
    BY <1>t, <2>0, ProbedRecord
  <2>1. CountMatches'
    BY <1>6, <1>r, <2>p DEF Probe, histVars, RecordInv, CountMatches, ResetIsCharged,
       Charged, Increment, Record
  <2>2. PlannedCame'
    BY <1>6 DEF Probe, histVars, RecordInv, PlannedCame, MarkIsFresh
  <2>3. StartedIsRunning'
    BY <1>6, <2>p DEF Probe, StartedIsRunning, Running
  <2>4. BootedSlot'
    BY <1>6 DEF Probe, BootedSlot
  <2>5. ResetIsCharged'
    BY <1>6 DEF Probe, ResetIsCharged
  <2>6. MarkIsFresh'
    BY <1>6, <2>p DEF Probe, MarkIsFresh
  <2> QED BY <1>t, <2>1, <2>2, <2>3, <2>4, <2>5, <2>6 DEF RecordInv
<1>7. ASSUME NEW ok \in BOOLEAN, Plan(ok) PROVE RecordInv'
  <2>0. rec'.started = rec.started /\ rec'.failed = rec.failed /\ rec'.count = rec.count
        /\ rec'.pending = rec.pending
    BY <1>7, <1>r DEF Plan, Write, Record
  <2>1. CountMatches'
    BY <1>7, <2>0 DEF Plan, RecordInv, CountMatches
  <2>2. PlannedCame'
    BY <1>7 DEF Plan, probeVars, RecordInv, PlannedCame
  <2>3. StartedIsRunning'
    BY <1>7, <2>0 DEF Plan, probeVars, RecordInv, StartedIsRunning, Running
  <2>4. BootedSlot'
    BY <1>7 DEF Plan, BootedSlot
  <2>5. ResetIsCharged'
    BY <1>7 DEF Plan, ResetIsCharged
  <2>6. MarkIsFresh'
    BY <1>7 DEF Plan, MarkIsFresh
  <2> QED BY <1>t, <2>1, <2>2, <2>3, <2>4, <2>5, <2>6 DEF RecordInv
<1>8. ASSUME NEW ok \in BOOLEAN, SelectRecovery(ok) PROVE RecordInv'
  <2>1. CountMatches'
    BY <1>8 DEF SelectRecovery, histVars, RecordInv, CountMatches
  <2>2. PlannedCame'
    BY <1>8 DEF SelectRecovery, probeVars, histVars, RecordInv, PlannedCame
  <2>3. StartedIsRunning'
    BY <1>8 DEF SelectRecovery, probeVars, RecordInv, StartedIsRunning, Running
  <2>4. BootedSlot'
    BY <1>8 DEF SelectRecovery, BootedSlot
  <2>5. ResetIsCharged'
    BY <1>8 DEF SelectRecovery, ResetIsCharged
  <2>6. MarkIsFresh'
    BY <1>8 DEF SelectRecovery, histVars, RecordInv, MarkIsFresh
  <2> QED BY <1>t, <2>1, <2>2, <2>3, <2>4, <2>5, <2>6 DEF RecordInv
<1>9. ASSUME NEW ok \in BOOLEAN, Unplan(ok) PROVE RecordInv'
  <2>0. rec'.started = rec.started /\ rec'.failed = rec.failed /\ rec'.count = rec.count
        /\ rec'.pending = rec.pending
        /\ (rec'.planned => rec.planned)
    BY <1>9, <1>r DEF Unplan, Write, Record
  <2>1. CountMatches'
    BY <1>9, <2>0 DEF Unplan, histVars, RecordInv, CountMatches
  <2>2. PlannedCame'
    BY <1>9 DEF Unplan, probeVars, histVars, RecordInv, PlannedCame
  <2>3. StartedIsRunning'
    BY <1>9, <2>0 DEF Unplan, probeVars, RecordInv, StartedIsRunning, Running
  <2>4. BootedSlot'
    BY <1>9 DEF Unplan, BootedSlot
  <2>5. ResetIsCharged'
    BY <1>9 DEF Unplan, ResetIsCharged
  <2>6. MarkIsFresh'
    BY <1>9, <2>0 DEF Unplan, histVars, RecordInv, MarkIsFresh
  <2> QED BY <1>t, <2>1, <2>2, <2>3, <2>4, <2>5, <2>6 DEF RecordInv
<1>10. ASSUME NEW ok \in BOOLEAN, MarkPlanned(ok) PROVE RecordInv'
  <2>0. rec'.started = rec.started /\ rec'.failed = rec.failed /\ rec'.count = rec.count
        /\ rec'.pending = rec.pending
    BY <1>10, <1>r DEF MarkPlanned, Write, Record
  <2>1. CountMatches'
    BY <1>10, <2>0 DEF MarkPlanned, RecordInv, CountMatches
  <2>2. PlannedCame'
    BY <1>10 DEF MarkPlanned, probeVars, RecordInv, PlannedCame
  <2>3. StartedIsRunning'
    BY <1>10, <2>0 DEF MarkPlanned, probeVars, RecordInv, StartedIsRunning, Running
  <2>4. BootedSlot'
    BY <1>10 DEF MarkPlanned, BootedSlot
  <2>5. ResetIsCharged'
    BY <1>10 DEF MarkPlanned, ResetIsCharged
  <2>6. MarkIsFresh'
    BY <1>10 DEF MarkPlanned, MarkIsFresh
  <2> QED BY <1>t, <2>1, <2>2, <2>3, <2>4, <2>5, <2>6 DEF RecordInv
<1>11. ASSUME NEW ok \in BOOLEAN, MarkHealthy(ok) PROVE RecordInv'
  <2>0. \/ rec' = rec
        \/ /\ rec'.started = rec.started /\ rec'.failed = None /\ rec'.count = 0
           /\ rec'.planned = rec.planned /\ rec'.pending = FALSE
    BY <1>11, <1>r, ClearedRecord DEF MarkHealthy, Write
  <2>1. CountMatches'
    BY <1>11, <2>0 DEF MarkHealthy, RecordInv, CountMatches, Forget
  <2>2. PlannedCame'
    BY <1>11 DEF MarkHealthy, probeVars, RecordInv, PlannedCame
  <2>3. StartedIsRunning'
    BY <1>11, <2>0 DEF MarkHealthy, probeVars, RecordInv, StartedIsRunning, Running
  <2>4. BootedSlot'
    BY <1>11 DEF MarkHealthy, BootedSlot
  <2>5. ResetIsCharged'
    BY <1>11 DEF MarkHealthy, ResetIsCharged
  <2>6. MarkIsFresh'
    BY <1>11, <2>0 DEF MarkHealthy, RecordInv, MarkIsFresh
  <2> QED BY <1>t, <2>1, <2>2, <2>3, <2>4, <2>5, <2>6 DEF RecordInv
<1>12. ASSUME NEW ok \in BOOLEAN, Reset(ok) PROVE RecordInv'
  <2>0. \/ ~ok /\ rec' = rec
        \/ /\ rec'.started = rec.started /\ rec'.failed = None /\ rec'.count = 0
           /\ rec'.planned = FALSE /\ rec'.pending = FALSE
    BY <1>12, <1>r, ResetRecordIsRecord DEF Reset, Write
  <2>1. CountMatches'
    BY <1>12, <2>0 DEF Reset, RecordInv, CountMatches, Forget
  <2>2. PlannedCame'
    BY <1>12 DEF Reset, probeVars, RecordInv, PlannedCame
  <2>3. StartedIsRunning'
    BY <1>12, <2>0 DEF Reset, probeVars, RecordInv, StartedIsRunning, Running
  <2>4. BootedSlot'
    BY <1>12 DEF Reset, BootedSlot
  <2>5. ResetIsCharged'
    BY <1>12 DEF Reset, ResetIsCharged
  <2>6. MarkIsFresh'
    BY <1>12, <2>0 DEF Reset, RecordInv, MarkIsFresh
  <2> QED BY <1>t, <2>1, <2>2, <2>3, <2>4, <2>5, <2>6 DEF RecordInv
<1>13. ASSUME NEW s \in Slots, OtaBegin(s) PROVE RecordInv'
  <2>1. CountMatches'
    BY <1>13 DEF OtaBegin, flashVars, histVars, RecordInv, CountMatches
  <2>2. PlannedCame'
    BY <1>13 DEF OtaBegin, probeVars, histVars, RecordInv, PlannedCame
  <2>3. StartedIsRunning'
    BY <1>13 DEF OtaBegin, flashVars, probeVars, RecordInv, StartedIsRunning, Running
  <2>4. BootedSlot'
    BY <1>13 DEF OtaBegin, BootedSlot
  <2>5. ResetIsCharged'
    BY <1>13 DEF OtaBegin, ResetIsCharged
  <2>6. MarkIsFresh'
    BY <1>13 DEF OtaBegin, flashVars, histVars, RecordInv, MarkIsFresh
  <2> QED BY <1>t, <2>1, <2>2, <2>3, <2>4, <2>5, <2>6 DEF RecordInv
<1>14. ASSUME OtaData PROVE RecordInv'
  <2>1. CountMatches'
    BY <1>14 DEF OtaData, histVars, RecordInv, CountMatches
  <2>2. PlannedCame'
    BY <1>14 DEF OtaData, probeVars, histVars, RecordInv, PlannedCame
  <2>3. StartedIsRunning'
    BY <1>14 DEF OtaData, probeVars, RecordInv, StartedIsRunning, Running, TypeOK,
       OtaType
  <2>4. BootedSlot'
    BY <1>14 DEF OtaData, BootedSlot
  <2>5. ResetIsCharged'
    BY <1>14 DEF OtaData, ResetIsCharged
  <2>6. MarkIsFresh'
    BY <1>14 DEF OtaData, histVars, RecordInv, MarkIsFresh
  <2> QED BY <1>t, <2>1, <2>2, <2>3, <2>4, <2>5, <2>6 DEF RecordInv
<1>15. ASSUME OtaAbort PROVE RecordInv'
  <2>1. CountMatches'
    BY <1>15 DEF OtaAbort, flashVars, histVars, RecordInv, CountMatches
  <2>2. PlannedCame'
    BY <1>15 DEF OtaAbort, probeVars, histVars, RecordInv, PlannedCame
  <2>3. StartedIsRunning'
    BY <1>15 DEF OtaAbort, flashVars, probeVars, RecordInv, StartedIsRunning, Running
  <2>4. BootedSlot'
    BY <1>15 DEF OtaAbort, BootedSlot
  <2>5. ResetIsCharged'
    BY <1>15 DEF OtaAbort, ResetIsCharged
  <2>6. MarkIsFresh'
    BY <1>15 DEF OtaAbort, flashVars, histVars, RecordInv, MarkIsFresh
  <2> QED BY <1>t, <2>1, <2>2, <2>3, <2>4, <2>5, <2>6 DEF RecordInv
<1>16. ASSUME NEW i \in Images, OtaRefused(i) PROVE RecordInv'
  <2>1. CountMatches'
    BY <1>16 DEF OtaRefused, histVars, RecordInv, CountMatches
  <2>2. PlannedCame'
    BY <1>16 DEF OtaRefused, probeVars, histVars, RecordInv, PlannedCame
  <2>3. StartedIsRunning'
    BY <1>16 DEF OtaRefused, probeVars, RecordInv, StartedIsRunning, Running, TypeOK,
       OtaType
  <2>4. BootedSlot'
    BY <1>16 DEF OtaRefused, BootedSlot
  <2>5. ResetIsCharged'
    BY <1>16 DEF OtaRefused, ResetIsCharged
  <2>6. MarkIsFresh'
    BY <1>16 DEF OtaRefused, histVars, RecordInv, MarkIsFresh
  <2> QED BY <1>t, <2>1, <2>2, <2>3, <2>4, <2>5, <2>6 DEF RecordInv
<1>17. ASSUME NEW ok \in BOOLEAN, NEW i \in Images, OtaCommit(i, ok) PROVE RecordInv'
  <2>0. \/ ~ok /\ rec' = rec
        \/ /\ rec'.started = rec.started /\ rec'.failed = None /\ rec'.count = 0
           /\ rec'.planned = FALSE /\ rec'.pending = FALSE
    BY <1>17, <1>r, ResetRecordIsRecord DEF OtaCommit, Write
  <2>1. CountMatches'
    BY <1>17, <2>0 DEF OtaCommit, RecordInv, CountMatches, Forget
  <2>2. PlannedCame'
    BY <1>17 DEF OtaCommit, probeVars, RecordInv, PlannedCame
  <2>3. StartedIsRunning'
    BY <1>17, <2>0 DEF OtaCommit, probeVars, RecordInv, StartedIsRunning, Running,
       TypeOK, OtaType
  <2>4. BootedSlot'
    BY <1>17 DEF OtaCommit, BootedSlot
  <2>5. ResetIsCharged'
    BY <1>17 DEF OtaCommit, ResetIsCharged
  <2>6. MarkIsFresh'
    BY <1>17, <2>0 DEF OtaCommit, RecordInv, MarkIsFresh
  <2> QED BY <1>t, <2>1, <2>2, <2>3, <2>4, <2>5, <2>6 DEF RecordInv
<1>18. ASSUME NEW ok \in BOOLEAN, OtaSelect(ok) PROVE RecordInv'
  <2>1. CountMatches'
    BY <1>18 DEF OtaSelect, histVars, RecordInv, CountMatches
  <2>2. PlannedCame'
    BY <1>18 DEF OtaSelect, probeVars, histVars, RecordInv, PlannedCame
  <2>3. StartedIsRunning'
    BY <1>18 DEF OtaSelect, probeVars, RecordInv, StartedIsRunning, Running
  <2>4. BootedSlot'
    BY <1>18 DEF OtaSelect, BootedSlot
  <2>5. ResetIsCharged'
    BY <1>18 DEF OtaSelect, ResetIsCharged
  <2>6. MarkIsFresh'
    BY <1>18 DEF OtaSelect, histVars, RecordInv, MarkIsFresh
  <2> QED BY <1>t, <2>1, <2>2, <2>3, <2>4, <2>5, <2>6 DEF RecordInv
<1>19. ASSUME NEW s \in Slots, SelectBoot(s) PROVE RecordInv'
  <2>1. CountMatches'
    BY <1>19 DEF SelectBoot, histVars, RecordInv, CountMatches
  <2>2. PlannedCame'
    BY <1>19 DEF SelectBoot, probeVars, histVars, RecordInv, PlannedCame
  <2>3. StartedIsRunning'
    BY <1>19 DEF SelectBoot, probeVars, RecordInv, StartedIsRunning, Running
  <2>4. BootedSlot'
    BY <1>19 DEF SelectBoot, BootedSlot
  <2>5. ResetIsCharged'
    BY <1>19 DEF SelectBoot, ResetIsCharged
  <2>6. MarkIsFresh'
    BY <1>19 DEF SelectBoot, histVars, RecordInv, MarkIsFresh
  <2> QED BY <1>t, <2>1, <2>2, <2>3, <2>4, <2>5, <2>6 DEF RecordInv
<1>20. CASE UNCHANGED vars
    BY <1>20, <1>t DEF vars, RecordInv, CountMatches, PlannedCame, StartedIsRunning, BootedSlot,
       ResetIsCharged, MarkIsFresh, Running, Charged, NoOta
<1> QED BY <1>1, <1>2, <1>3, <1>4, <1>5, <1>6, <1>7, <1>8, <1>9, <1>10, <1>11, <1>12, <1>13,
   <1>14, <1>15, <1>16, <1>17, <1>18, <1>19, <1>20 DEF Next, Booting, Environment, StableDeadline

\* Every step keeps the quarantine, when only an OTA selects another image.
LEMMA QuarantineStep ==
    RecordInv /\ RecordInv' /\ QuarantineInv /\ [Next]_vars /\ lapses' = {} => QuarantineInv'
<1> SUFFICES ASSUME RecordInv, RecordInv', QuarantineInv, [Next]_vars, lapses' = {}
             PROVE  QuarantineInv'
    OBVIOUS
<1>u. lapses' = {}
    OBVIOUS
<1>t. TypeOK /\ TypeOK'
    BY DEF RecordInv
<1>r. rec \in Record /\ rec' \in Record /\ Running \in Ids
    BY <1>t DEF TypeOK, RecordType, FlashType, Running, Ids
<1>q. RecordInv /\ RecordInv' /\ QuarantineInv
    OBVIOUS
<1>1. ASSUME Crash PROVE QuarantineInv'
  <2>1. EarnsQuarantine'
    BY <1>1 DEF Crash, EarnsQuarantine, Reboot
  <2>2. PendingIsQuarantine'
    BY <1>1 DEF Crash, flashVars, QuarantineInv, PendingIsQuarantine, NoOta, Reboot
  <2> QED BY <2>1, <2>2 DEF QuarantineInv
<1>2. ASSUME NEW why \in {"poweron", "brownout", "crash"}, Fault(why) PROVE QuarantineInv'
  <2>1. EarnsQuarantine'
    BY <1>2 DEF Fault, EarnsQuarantine, Reboot
  <2>2. PendingIsQuarantine'
    BY <1>2 DEF Fault, flashVars, QuarantineInv, PendingIsQuarantine, NoOta, Reboot
  <2> QED BY <2>1, <2>2 DEF QuarantineInv
<1>3. ASSUME Restart PROVE QuarantineInv'
  <2>1. EarnsQuarantine'
    BY <1>3 DEF Restart, EarnsQuarantine, Reboot
  <2>2. PendingIsQuarantine'
    BY <1>3 DEF Restart, flashVars, QuarantineInv, PendingIsQuarantine, NoOta, Reboot
  <2> QED BY <2>1, <2>2 DEF QuarantineInv
<1>4. ASSUME EnterRecovery PROVE QuarantineInv'
  <2>1. EarnsQuarantine'
    BY <1>4 DEF EnterRecovery, EarnsQuarantine, Reboot
  <2>2. PendingIsQuarantine'
    BY <1>4 DEF EnterRecovery, flashVars, QuarantineInv, PendingIsQuarantine, NoOta,
       Reboot
  <2> QED BY <2>1, <2>2 DEF QuarantineInv
<1>5. ASSUME ProbeUnread PROVE QuarantineInv'
    BY <1>5, <1>u DEF ProbeUnread
<1>6. ASSUME NEW ok \in BOOLEAN, Probe(ok) PROVE QuarantineInv'
  <2>0. rec' = Probed
    BY <1>6, <1>u DEF Probe, Write
  <2>p. /\ rec'.started = Running /\ rec'.planned = FALSE
        /\ rec.started # None /\ Counts(reason) =>
              rec'.failed = rec.started /\ rec'.count = Charged(rec)
        /\ ~(rec.started # None /\ Counts(reason)) =>
              rec'.failed = rec.failed /\ rec'.count = rec.count
        /\ rec'.pending = (rec.pending \/ (flash[at] \in Recovering /\ rec'.failed = Running
                                             /\ AtLimit(rec')))
    BY <1>t, <2>0, ProbedRecord
  <2>1. EarnsQuarantine'
    BY <1>6, <2>0, <2>p, CrashLoopAssumption DEF Probe, histVars, RecordInv,
       QuarantineInv, CountMatches, BootedSlot, EarnsQuarantine, PendingIsQuarantine,
       Running, TypeOK, RecordType, FlashType, AtLimit, MustRecover, Record
  <2>2. PendingIsQuarantine'
    BY <1>6, <1>r, <2>p, CrashLoopAssumption DEF Probe, RecordInv, QuarantineInv,
       BootedSlot, PendingIsQuarantine, Running, TypeOK, FlashType, AtLimit, Charged,
       Increment, Record
  <2> QED BY <2>1, <2>2 DEF QuarantineInv
<1>7. ASSUME NEW ok \in BOOLEAN, Plan(ok) PROVE QuarantineInv'
  <2>0. rec'.started = rec.started /\ rec'.failed = rec.failed /\ rec'.count = rec.count
        /\ rec'.pending = rec.pending
    BY <1>7, <1>r DEF Plan, Write, Record
  <2>1. EarnsQuarantine'
    BY <1>7, <2>0 DEF Plan, RecordInv, QuarantineInv, StartedIsRunning,
       EarnsQuarantine, Running
  <2>2. PendingIsQuarantine'
    BY <1>7, <2>0 DEF Plan, QuarantineInv, PendingIsQuarantine
  <2> QED BY <2>1, <2>2 DEF QuarantineInv
<1>8. ASSUME NEW ok \in BOOLEAN, SelectRecovery(ok) PROVE QuarantineInv'
  <2>1. EarnsQuarantine'
    BY <1>8 DEF SelectRecovery, histVars, RecordInv, QuarantineInv, StartedIsRunning,
       EarnsQuarantine, Running
  <2>2. PendingIsQuarantine'
    BY <1>8 DEF SelectRecovery, QuarantineInv, PendingIsQuarantine, RecoveryTarget
  <2> QED BY <2>1, <2>2 DEF QuarantineInv
<1>9. ASSUME NEW ok \in BOOLEAN, Unplan(ok) PROVE QuarantineInv'
  <2>0. rec'.started = rec.started /\ rec'.failed = rec.failed /\ rec'.count = rec.count
        /\ rec'.pending = rec.pending
    BY <1>9, <1>r DEF Unplan, Write, Record
  <2>1. EarnsQuarantine'
    BY <1>9 DEF Unplan, EarnsQuarantine
  <2>2. PendingIsQuarantine'
    BY <1>9, <2>0 DEF Unplan, QuarantineInv, PendingIsQuarantine
  <2> QED BY <2>1, <2>2 DEF QuarantineInv
<1>10. ASSUME NEW ok \in BOOLEAN, MarkPlanned(ok) PROVE QuarantineInv'
  <2>0. rec'.started = rec.started /\ rec'.failed = rec.failed /\ rec'.count = rec.count
        /\ rec'.pending = rec.pending
    BY <1>10, <1>r DEF MarkPlanned, Write, Record
  <2>1. EarnsQuarantine'
    BY <1>10 DEF MarkPlanned, EarnsQuarantine
  <2>2. PendingIsQuarantine'
    BY <1>10, <2>0 DEF MarkPlanned, QuarantineInv, PendingIsQuarantine
  <2> QED BY <2>1, <2>2 DEF QuarantineInv
<1>11. ASSUME NEW ok \in BOOLEAN, MarkHealthy(ok) PROVE QuarantineInv'
  <2>0. \/ rec' = rec
        \/ /\ rec'.started = rec.started /\ rec'.failed = None /\ rec'.count = 0
           /\ rec'.planned = rec.planned /\ rec'.pending = FALSE
    BY <1>11, <1>r, ClearedRecord DEF MarkHealthy, Write
  <2>1. EarnsQuarantine'
    BY <1>11 DEF MarkHealthy, EarnsQuarantine
  <2>2. PendingIsQuarantine'
    BY <1>11, <2>0 DEF MarkHealthy, QuarantineInv, PendingIsQuarantine
  <2> QED BY <2>1, <2>2 DEF QuarantineInv
<1>12. ASSUME NEW ok \in BOOLEAN, Reset(ok) PROVE QuarantineInv'
  <2>0. \/ ~ok /\ rec' = rec
        \/ /\ rec'.started = rec.started /\ rec'.failed = None /\ rec'.count = 0
           /\ rec'.planned = FALSE /\ rec'.pending = FALSE
    BY <1>12, <1>r, ResetRecordIsRecord DEF Reset, Write
  <2>1. EarnsQuarantine'
    BY <1>12 DEF Reset, EarnsQuarantine
  <2>2. PendingIsQuarantine'
    BY <1>12, <2>0 DEF Reset, QuarantineInv, PendingIsQuarantine
  <2> QED BY <2>1, <2>2 DEF QuarantineInv
<1>13. ASSUME NEW s \in Slots, OtaBegin(s) PROVE QuarantineInv'
  <2>1. EarnsQuarantine'
    BY <1>13 DEF OtaBegin, EarnsQuarantine
  <2>2. PendingIsQuarantine'
    BY <1>13 DEF OtaBegin, flashVars, QuarantineInv, PendingIsQuarantine
  <2> QED BY <2>1, <2>2 DEF QuarantineInv
<1>14. ASSUME OtaData PROVE QuarantineInv'
  <2>1. EarnsQuarantine'
    BY <1>14 DEF OtaData, EarnsQuarantine
  <2>2. PendingIsQuarantine'
    BY <1>14 DEF OtaData, RecordInv, QuarantineInv, StartedIsRunning,
       PendingIsQuarantine, Running
  <2> QED BY <2>1, <2>2 DEF QuarantineInv
<1>15. ASSUME OtaAbort PROVE QuarantineInv'
  <2>1. EarnsQuarantine'
    BY <1>15 DEF OtaAbort, EarnsQuarantine
  <2>2. PendingIsQuarantine'
    BY <1>15 DEF OtaAbort, flashVars, QuarantineInv, PendingIsQuarantine, NoOta
  <2> QED BY <2>1, <2>2 DEF QuarantineInv
<1>16. ASSUME NEW i \in Images, OtaRefused(i) PROVE QuarantineInv'
  <2>1. EarnsQuarantine'
    BY <1>16 DEF OtaRefused, EarnsQuarantine
  <2>2. PendingIsQuarantine'
    BY <1>16 DEF OtaRefused, RecordInv, QuarantineInv, StartedIsRunning,
       PendingIsQuarantine, Running, NoOta
  <2> QED BY <2>1, <2>2 DEF QuarantineInv
<1>17. ASSUME NEW ok \in BOOLEAN, NEW i \in Images, OtaCommit(i, ok) PROVE QuarantineInv'
  <2>0. \/ ~ok /\ rec' = rec
        \/ /\ rec'.started = rec.started /\ rec'.failed = None /\ rec'.count = 0
           /\ rec'.planned = FALSE /\ rec'.pending = FALSE
    BY <1>17, <1>r, ResetRecordIsRecord DEF OtaCommit, Write
  <2>1. EarnsQuarantine'
    BY <1>17 DEF OtaCommit, EarnsQuarantine
  <2>2. PendingIsQuarantine'
    BY <1>17, <2>0 DEF OtaCommit, RecordInv, QuarantineInv, StartedIsRunning,
       PendingIsQuarantine, Running, NoOta
  <2> QED BY <2>1, <2>2 DEF QuarantineInv
<1>18. ASSUME NEW ok \in BOOLEAN, OtaSelect(ok) PROVE QuarantineInv'
  <2>1. EarnsQuarantine'
    BY <1>18 DEF OtaSelect, EarnsQuarantine
  <2>2. PendingIsQuarantine'
    BY <1>18 DEF OtaSelect, QuarantineInv, PendingIsQuarantine
  <2> QED BY <2>1, <2>2 DEF QuarantineInv
<1>19. ASSUME NEW s \in Slots, SelectBoot(s) PROVE QuarantineInv'
    BY <1>19, <1>u DEF SelectBoot
<1>20. CASE UNCHANGED vars
    BY <1>20, <1>t, <1>q DEF vars, RecordInv, QuarantineInv, EarnsQuarantine,
       PendingIsQuarantine, Running, Charged, NoOta
<1> QED BY <1>1, <1>2, <1>3, <1>4, <1>5, <1>6, <1>7, <1>8, <1>9, <1>10, <1>11, <1>12, <1>13,
   <1>14, <1>15, <1>16, <1>17, <1>18, <1>19, <1>20 DEF Next, Booting, Environment, StableDeadline

\* A lapse is not forgotten.
LEMMA LapsesStay == [Next]_vars => lapses \subseteq lapses'
    BY DEF Next, Booting, Environment, Crash, Fault, Restart, EnterRecovery, Reboot, ProbeUnread,
       Probe, Plan, SelectRecovery, Unplan, MarkPlanned, MarkHealthy, StableDeadline, Reset,
       OtaBegin, OtaData, OtaAbort, OtaRefused, OtaCommit, OtaSelect, SelectBoot, vars

\* The record is true as long as every boot was recorded, for any slots, images and faults.
THEOREM RecordInvariant == Spec => [](Recorded => RecordInv)
<1>1. Init => (Recorded => RecordInv)
    BY InvInit
<1>2. (Recorded => RecordInv) /\ [Next]_vars => (Recorded => RecordInv)'
    BY RecordStep, LapsesStay DEF Recorded
<1> QED BY <1>1, <1>2, PTL DEF Spec

\* iris_crash_recovery_probe: a recorded crash count is never ahead of the crashes
\* of the image it names.
THEOREM CountsAreTrue == Spec => []CountIsTrue
<1>1. (Recorded => RecordInv) => CountIsTrue
    BY DEF RecordInv, CountIsTrue
<1> QED BY <1>1, RecordInvariant, PTL

\* iris_crash_recovery_probe, iris_crash_recovery_mark_planned: a boot reported as
\* planned was announced by the boot before it.
THEOREM PlannedBoots == Spec => []PlannedIsTrue
<1>1. (Recorded => RecordInv) => PlannedIsTrue
    BY DEF RecordInv, PlannedIsTrue
<1> QED BY <1>1, RecordInvariant, PTL

\* iris_crash_recovery_probe: no image is left for recovery before its limit of
\* crashes, as long as boots are recorded and only an OTA selects another image.
THEOREM QuarantineEarned == Spec => []QuarantineIsEarned
<1> DEFINE Clean == lapses = {} => RecordInv /\ QuarantineInv
<1>1. Init => Clean
    BY InvInit
<1>2. Clean /\ [Next]_vars => Clean'
  <2> SUFFICES ASSUME Clean, [Next]_vars, lapses' = {} PROVE (RecordInv /\ QuarantineInv)'
    OBVIOUS
  <2>1. RecordInv /\ QuarantineInv
    BY LapsesStay
  <2>2. RecordInv'
    BY <2>1, RecordStep DEF Recorded
  <2> QED BY <2>1, <2>2, QuarantineStep
<1>3. Clean => QuarantineIsEarned
    BY DEF QuarantineInv, QuarantineIsEarned
<1> QED BY <1>1, <1>2, <1>3, PTL DEF Spec

\* The way back from a failed recovery is taken with the error set.
UnplanFailed == pc = "unplan" => err = TRUE

\* Every step keeps it.
LEMMA UnplanStep == UnplanFailed /\ [Next]_vars => UnplanFailed'
<1> SUFFICES ASSUME UnplanFailed, [Next]_vars PROVE UnplanFailed'
    OBVIOUS
<1>1. CASE UNCHANGED vars
    BY <1>1 DEF vars, UnplanFailed
<1>2. ASSUME NEW ok \in BOOLEAN, Plan(ok) PROVE UnplanFailed'
    BY <1>2 DEF Plan, UnplanFailed
<1>3. ASSUME NEW ok \in BOOLEAN, SelectRecovery(ok) PROVE UnplanFailed'
    BY <1>3 DEF SelectRecovery, UnplanFailed
<1>4. CASE pc' # "unplan"
    BY <1>4 DEF UnplanFailed
<1>5. CASE Next /\ ~(\E ok \in BOOLEAN : Plan(ok) \/ SelectRecovery(ok))
    BY <1>5 DEF Next, Booting, Environment, Crash, Fault, Restart, EnterRecovery, Reboot,
       ProbeUnread, Probe, Unplan, MarkPlanned, MarkHealthy, StableDeadline, Reset, OtaBegin,
       OtaData, OtaAbort, OtaRefused, OtaCommit, OtaSelect, SelectBoot, UnplanFailed
<1> QED BY <1>1, <1>2, <1>3, <1>5

\* iris_crash_recovery_probe: an image at its limit does not get to run unless
\* recovery could not be entered; this holds for unrecorded boots and foreign
\* selections too.
THEOREM QuarantineIsKept == Spec => QuarantineHolds
<1>1. Init => UnplanFailed
    BY DEF Init, UnplanFailed
<1>2. UnplanFailed /\ [Next]_vars => UnplanFailed'
    BY UnplanStep
<1>3. TypeOK /\ UnplanFailed /\ [Next]_vars =>
        [pc # "running" /\ pc' = "running" /\ ~err' =>
            ~(flash[at] \in Recovering /\ rec'.failed = Running
              /\ rec'.count >= LimitOf[flash[at]])]_vars
  <2> SUFFICES ASSUME TypeOK, UnplanFailed, [Next]_vars, pc # "running", pc' = "running", ~err'
               PROVE  ~(flash[at] \in Recovering /\ rec'.failed = Running
                        /\ rec'.count >= LimitOf[flash[at]])
    OBVIOUS
  <2>1. PICK ok \in BOOLEAN : Probe(ok)
    BY DEF Next, Booting, Environment, Crash, Fault, Restart, EnterRecovery, Reboot, ProbeUnread,
       Plan, SelectRecovery, Unplan, MarkPlanned, MarkHealthy, StableDeadline, Reset, OtaBegin,
       OtaData, OtaAbort, OtaRefused, OtaCommit, OtaSelect, SelectBoot, UnplanFailed, vars
  <2>2. rec' = Probed /\ ~MustRecover(Probed)
    BY <2>1 DEF Probe, Write
  <2> QED BY <2>2, ProbedRecord DEF MustRecover, AtLimit
<1> QED BY <1>1, <1>2, <1>3, TypeCorrect, PTL DEF Spec, QuarantineHolds
=============================================================================

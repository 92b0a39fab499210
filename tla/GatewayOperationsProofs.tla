----------------------- MODULE GatewayOperationsProofs -----------------------
(* Theorems about GatewayOperations, for every value of its constants. *)
EXTENDS GatewayOperations, TLAPS

USE DEF durable, taskVars, lockVars, modeVars, history, Existing, InMaintenance, WasCancelled,
        RestoredGate

\* The gateway starts with well-typed rows, tasks, locks, gates and leases.
LEMMA TypeInit == Init => TypeOK
<1> SUFFICES ASSUME Init PROVE TypeOK
  OBVIOUS
<1> USE ConstantsAssumption DEF Init
<1>1. RowType
  BY DEF RowType
<1>2. TaskType
  BY DEF TaskType, TaskStates
<1>3. LockType
  BY DEF LockType
<1>4. LeaseType
  BY DEF LeaseType, IdleFinisher
<1>5. GateType
  BY DEF GateType
<1>6. FinisherType
  BY DEF FinisherType
<1>7. ModeType
  <2>1. 0 \in 0 .. MaxStops
    BY ConstantsAssumption
  <2> QED
    BY <2>1 DEF ModeType
<1> QED
  BY <1>1, <1>2, <1>3, <1>4, <1>5, <1>6, <1>7 DEF TypeOK

\* The gates that finish calls touch are those of devices.
LEMMA TouchedType ==
  ASSUME TypeOK, NEW S \in SUBSET Finishers
  PROVE  GatesTouched(S) \subseteq Devices
<1> SUFFICES ASSUME NEW f \in S, finisher[f].pc # "idle"
             PROVE  lease[finisher[f].lease].dev \in Devices
  BY DEF GatesTouched
<1> QED
  BY DEF TypeOK, LeaseType, LeaseRow

\* Every step of the gateway preserves the types of its variables.
LEMMA TypeStep == TypeOK /\ [Next]_vars => TypeOK'
<1> SUFFICES ASSUME TypeOK, [Next]_vars PROVE TypeOK'
  OBVIOUS
<1>1. ASSUME NEW t \in Tasks, NEW i \in OpIds, NEW r \in Requests, BeginRequest(t, i,
   r) PROVE TypeOK'
  <2>1. TaskType'
    BY <1>1, ConstantsAssumption DEF TypeOK, BeginRequest, TaskType, TaskStates, RowType
  <2>2. RowType' /\ LockType' /\ LeaseType' /\ GateType' /\ FinisherType' /\ ModeType'
    BY <1>1 DEF TypeOK, BeginRequest, RowType, LockType, LeaseType, GateType, FinisherType,
       ModeType
  <2> QED
    BY <2>1, <2>2 DEF TypeOK
<1>2. ASSUME NEW t \in Tasks, Submit(t) PROVE TypeOK'
  <2>1. TaskType'
    BY <1>2, ConstantsAssumption DEF TypeOK, Submit, SubmittedElsewhere, TaskType,
       TaskStates, RowType
  <2>2. RowType' /\ LockType' /\ LeaseType' /\ GateType' /\ FinisherType' /\ ModeType'
    BY <1>2 DEF TypeOK, Submit, RowType, LockType, LeaseType, GateType, FinisherType, ModeType
  <2> QED
    BY <2>1, <2>2 DEF TypeOK
<1>3. ASSUME NEW t \in Tasks, SubmitReturns(t) PROVE TypeOK'
  <2>1. TaskType'
    BY <1>3, ConstantsAssumption DEF TypeOK, SubmitReturns, Return, TaskType, TaskStates,
       RowType
  <2>2. RowType' /\ LockType' /\ LeaseType' /\ GateType' /\ FinisherType' /\ ModeType'
    BY <1>3 DEF TypeOK, SubmitReturns, RowType, LockType, LeaseType, GateType, FinisherType,
       ModeType
  <2> QED
    BY <2>1, <2>2 DEF TypeOK
<1>4. ASSUME NEW t \in Tasks, ExecuteReturns(t) PROVE TypeOK'
  <2>1. TaskType'
    BY <1>4, ConstantsAssumption DEF TypeOK, ExecuteReturns, AtExecute, Return, TaskType,
       TaskStates, RowType
  <2>2. RowType' /\ LockType' /\ LeaseType' /\ GateType' /\ FinisherType' /\ ModeType'
    BY <1>4 DEF TypeOK, ExecuteReturns, RowType, LockType, LeaseType, GateType, FinisherType,
       ModeType
  <2> QED
    BY <2>1, <2>2 DEF TypeOK
<1>5. ASSUME NEW t \in Tasks, ExecuteRuns(t) PROVE TypeOK'
  <2>1. RowType'
    BY <1>5, ConstantsAssumption DEF TypeOK, ExecuteRuns, AtExecute, LockFree, RowType,
       ActiveStates, Terminal, TaskType, TaskStates
  <2>2. TaskType'
    BY <1>5, ConstantsAssumption DEF TypeOK, ExecuteRuns, CreatedLate, AtExecute, LockFree, TaskType,
       TaskStates, RowType
  <2>3. LockType'
    BY <1>5, ConstantsAssumption DEF TypeOK, ExecuteRuns, AtExecute, LockFree, LockType,
       Waiters, TaskType, TaskStates
  <2>4. LeaseType' /\ GateType' /\ FinisherType' /\ ModeType'
    BY <1>5 DEF TypeOK, ExecuteRuns, LeaseType, GateType, FinisherType, ModeType
  <2> QED
    BY <2>1, <2>2, <2>3, <2>4 DEF TypeOK
<1>6. ASSUME NEW t \in Tasks, ExecuteWaits(t) PROVE TypeOK'
  <2>1. RowType'
    BY <1>6, ConstantsAssumption DEF TypeOK, ExecuteWaits, AtExecute, LockFree, Join,
       WaitingFor, RowType, ActiveStates, Terminal, TaskType, TaskStates
  <2>2. TaskType'
    BY <1>6, ConstantsAssumption DEF TypeOK, ExecuteWaits, CreatedLate, AtExecute, LockFree, Join,
       WaitingFor, TaskType, TaskStates, RowType
  <2>3. LockType'
    <3>1. Dev(t) \in Devices
      BY <1>6, ConstantsAssumption DEF TypeOK, TaskType, ExecuteWaits, AtExecute, Dev
    <3>2. WaitingFor(Dev(t)) \subseteq Waiters
      BY <3>1 DEF WaitingFor, Waiters
    <3>3. locked' = locked /\ ahead' = [ahead EXCEPT ![t] = WaitingFor(Dev(t))]
      BY <1>6 DEF ExecuteWaits, Join
    <3> QED
      BY <3>2, <3>3 DEF TypeOK, LockType
  <2>4. LeaseType' /\ GateType' /\ FinisherType' /\ ModeType'
    BY <1>6 DEF TypeOK, ExecuteWaits, LeaseType, GateType, FinisherType, ModeType
  <2> QED
    BY <2>1, <2>2, <2>3, <2>4 DEF TypeOK
<1>7. ASSUME NEW t \in Tasks, LockGranted(t) PROVE TypeOK'
  <2>1. RowType'
    BY <1>7, ConstantsAssumption DEF TypeOK, LockGranted, Transition, LegalTransition, Leave,
       MayTakeLock, RowType, ActiveStates, Terminal, TaskType, TaskStates
  <2>2. TaskType'
    BY <1>7, ConstantsAssumption DEF TypeOK, LockGranted, Transition, LegalTransition, Leave,
       MayTakeLock, TaskType, TaskStates, RowType
  <2>3. LockType'
    BY <1>7, ConstantsAssumption DEF TypeOK, LockGranted, Transition, LegalTransition, Leave,
       MayTakeLock, LockType, Waiters, TaskType, TaskStates
  <2>4. LeaseType' /\ GateType' /\ FinisherType' /\ ModeType'
    BY <1>7 DEF TypeOK, LockGranted, LeaseType, GateType, FinisherType, ModeType
  <2> QED
    BY <2>1, <2>2, <2>3, <2>4 DEF TypeOK
<1>8. ASSUME NEW t \in Tasks, CancelledReturns(t) PROVE TypeOK'
  <2>1. TaskType'
    BY <1>8, ConstantsAssumption DEF TypeOK, CancelledReturns, Return, Leave, MayTakeLock,
       TaskType, TaskStates, RowType
  <2>2. LockType'
    BY <1>8, ConstantsAssumption DEF TypeOK, CancelledReturns, Return, Leave, MayTakeLock,
       LockType, Waiters, TaskType, TaskStates
  <2>3. RowType' /\ LeaseType' /\ GateType' /\ FinisherType' /\ ModeType'
    BY <1>8 DEF TypeOK, CancelledReturns, RowType, LeaseType, GateType, FinisherType, ModeType
  <2> QED
    BY <2>1, <2>2, <2>3 DEF TypeOK
<1>9. ASSUME NEW t \in Tasks, NEW s \in Stages, Progress(t, s) PROVE TypeOK'
  <2>1. RowType'
    BY <1>9, ConstantsAssumption DEF TypeOK, Progress, Transition, LegalTransition, RowType,
       ActiveStates, Terminal, TaskType, TaskStates
  <2>2. TaskType' /\ LockType' /\ LeaseType' /\ GateType' /\ FinisherType' /\ ModeType'
    BY <1>9 DEF TypeOK, Progress, TaskType, LockType, LeaseType, GateType, FinisherType,
       ModeType
  <2> QED
    BY <2>1, <2>2 DEF TypeOK
<1>10. ASSUME NEW t \in Tasks, NEW o \in Outcomes, CallEnds(t, o) PROVE TypeOK'
  <2>1. RowType'
    BY <1>10, ConstantsAssumption DEF TypeOK, CallEnds, Transition,
       LegalTransition, Return, RowType, ActiveStates, Terminal, TaskType, TaskStates
  <2>2. TaskType'
    BY <1>10, ConstantsAssumption DEF TypeOK, CallEnds, Transition,
       LegalTransition, Return, TaskType, TaskStates, RowType
  <2>3. LockType'
    BY <1>10, ConstantsAssumption DEF TypeOK, CallEnds, Transition,
       LegalTransition, Return, LockType, Waiters, TaskType, TaskStates
  <2>4. LeaseType' /\ GateType' /\ FinisherType' /\ ModeType'
    BY <1>10 DEF TypeOK, CallEnds, LeaseType, GateType, FinisherType, ModeType
  <2> QED
    BY <2>1, <2>2, <2>3, <2>4 DEF TypeOK
<1>11. CASE SwitchToObserve
  <2>1. RowType'
    BY <1>11, ConstantsAssumption DEF TypeOK, SwitchToObserve, LegalTransition, RowType,
       ActiveStates, Terminal, TaskType, TaskStates
  <2>2. TaskType'
    BY <1>11, ConstantsAssumption DEF TypeOK, SwitchToObserve, LegalTransition, TaskType,
       TaskStates, RowType
  <2>3. ModeType'
    BY <1>11, ConstantsAssumption DEF TypeOK, SwitchToObserve, LegalTransition, ModeType
  <2>4. LockType' /\ LeaseType' /\ GateType' /\ FinisherType'
    BY <1>11 DEF TypeOK, SwitchToObserve, LockType, LeaseType, GateType, FinisherType
  <2> QED
    BY <2>1, <2>2, <2>3, <2>4 DEF TypeOK
<1>12. CASE SwitchToDevelop
  <2>1. ModeType'
    BY <1>12, ConstantsAssumption DEF TypeOK, SwitchToDevelop, ModeType
  <2>2. RowType' /\ TaskType' /\ LockType' /\ LeaseType' /\ GateType' /\ FinisherType'
    BY <1>12 DEF TypeOK, SwitchToDevelop, RowType, TaskType, LockType, LeaseType, GateType,
       FinisherType
  <2> QED
    BY <2>1, <2>2 DEF TypeOK
<1>13. CASE FinishModeTransition
  <2>1. ModeType'
    BY <1>13, ConstantsAssumption DEF TypeOK, FinishModeTransition, ModeType
  <2>2. RowType' /\ TaskType' /\ LockType' /\ LeaseType' /\ GateType' /\ FinisherType'
    BY <1>13 DEF TypeOK, FinishModeTransition, RowType, TaskType, LockType, LeaseType,
       GateType, FinisherType
  <2> QED
    BY <2>1, <2>2 DEF TypeOK
<1>14. ASSUME NEW d \in Devices, AcquireMaintenance(d) PROVE TypeOK'
  <2>1. LockType'
    BY <1>14, ConstantsAssumption DEF TypeOK, AcquireMaintenance, LockFree, LockType,
       Waiters, TaskType, TaskStates
  <2>2. GateType'
    BY <1>14, ConstantsAssumption DEF TypeOK, AcquireMaintenance, LockFree, GateType
  <2>3. RowType' /\ TaskType' /\ LeaseType' /\ FinisherType' /\ ModeType'
    BY <1>14 DEF TypeOK, AcquireMaintenance, RowType, TaskType, LeaseType, FinisherType,
       ModeType
  <2> QED
    BY <2>1, <2>2, <2>3 DEF TypeOK
<1>15. ASSUME NEW d \in Devices, AwaitMaintenance(d) PROVE TypeOK'
  <2>1. LockType'
    BY <1>15, ConstantsAssumption DEF TypeOK, AwaitMaintenance, LockFree, Join, WaitingFor,
       LockType, Waiters, TaskType, TaskStates
  <2>2. GateType'
    BY <1>15, ConstantsAssumption DEF TypeOK, AwaitMaintenance, LockFree, Join, WaitingFor,
       GateType
  <2>3. RowType' /\ TaskType' /\ LeaseType' /\ FinisherType' /\ ModeType'
    BY <1>15 DEF TypeOK, AwaitMaintenance, RowType, TaskType, LeaseType, FinisherType, ModeType
  <2> QED
    BY <2>1, <2>2, <2>3 DEF TypeOK
<1>16. ASSUME NEW d \in Devices, MaintenanceGranted(d) PROVE TypeOK'
  <2>1. LockType'
    BY <1>16, ConstantsAssumption DEF TypeOK, MaintenanceGranted, Leave, MayTakeLock,
       LockType, Waiters, TaskType, TaskStates
  <2>2. GateType'
    BY <1>16, ConstantsAssumption DEF TypeOK, MaintenanceGranted, Leave, MayTakeLock, GateType
  <2>3. RowType' /\ TaskType' /\ LeaseType' /\ FinisherType' /\ ModeType'
    BY <1>16 DEF TypeOK, MaintenanceGranted, RowType, TaskType, LeaseType, FinisherType,
       ModeType
  <2> QED
    BY <2>1, <2>2, <2>3 DEF TypeOK
<1>17. ASSUME NEW d \in Devices, MaintenanceTimeout(d) PROVE TypeOK'
  <2>1. LockType'
    BY <1>17, ConstantsAssumption DEF TypeOK, MaintenanceTimeout, Leave, LockType, Waiters,
       TaskType, TaskStates
  <2>2. GateType'
    BY <1>17, ConstantsAssumption DEF TypeOK, MaintenanceTimeout, Leave, GateType
  <2>3. RowType' /\ TaskType' /\ LeaseType' /\ FinisherType' /\ ModeType'
    BY <1>17 DEF TypeOK, MaintenanceTimeout, RowType, TaskType, LeaseType, FinisherType,
       ModeType
  <2> QED
    BY <2>1, <2>2, <2>3 DEF TypeOK
<1>18. ASSUME NEW d \in Devices, NEW l \in Leases, LeaseCreated(d, l) PROVE TypeOK'
  <2>1. LeaseType'
    BY <1>18, ConstantsAssumption DEF TypeOK, LeaseCreated, HasActiveLease, LeaseType,
       LeaseRow, ActiveLease, ClosedLease, NoLease, FinisherType, IdleFinisher
  <2>2. GateType'
    BY <1>18, ConstantsAssumption DEF TypeOK, LeaseCreated, HasActiveLease, GateType
  <2>3. RowType' /\ TaskType' /\ LockType' /\ FinisherType' /\ ModeType'
    BY <1>18 DEF TypeOK, LeaseCreated, RowType, TaskType, LockType, FinisherType, ModeType
  <2> QED
    BY <2>1, <2>2, <2>3 DEF TypeOK
<1>19. ASSUME NEW d \in Devices, AcquireFails(d) PROVE TypeOK'
  <2>1. LockType'
    BY <1>19, ConstantsAssumption DEF TypeOK, AcquireFails, ReleaseMaintenance, LockType,
       Waiters, TaskType, TaskStates
  <2>2. GateType'
    BY <1>19, ConstantsAssumption DEF TypeOK, AcquireFails, ReleaseMaintenance, GateType
  <2>3. RowType' /\ TaskType' /\ LeaseType' /\ FinisherType' /\ ModeType'
    BY <1>19 DEF TypeOK, AcquireFails, RowType, TaskType, LeaseType, FinisherType, ModeType
  <2> QED
    BY <2>1, <2>2, <2>3 DEF TypeOK
<1>20. ASSUME NEW l \in Leases, NEW e \in BOOLEAN, RenewMaintenance(l, e) PROVE TypeOK'
  <2>1. LeaseType'
    BY <1>20, ConstantsAssumption DEF TypeOK, RenewMaintenance, LeaseType, LeaseRow,
       ActiveLease, ClosedLease, NoLease, FinisherType, IdleFinisher
  <2>2. RowType' /\ TaskType' /\ LockType' /\ GateType' /\ FinisherType' /\ ModeType'
    BY <1>20 DEF TypeOK, RenewMaintenance, RowType, TaskType, LockType, GateType,
       FinisherType, ModeType
  <2> QED
    BY <2>1, <2>2 DEF TypeOK
<1>21. ASSUME NEW f \in Finishers, NEW l \in Leases, BeginFinish(f, l) PROVE TypeOK'
  <2>1. LeaseType'
    BY <1>21, ConstantsAssumption DEF TypeOK, BeginFinish, LeaseType, LeaseRow, ActiveLease,
       ClosedLease, NoLease, FinisherType, IdleFinisher
  <2>2. FinisherType'
    BY <1>21, ConstantsAssumption DEF TypeOK, BeginFinish, FinisherType, IdleFinisher
  <2>3. RowType' /\ TaskType' /\ LockType' /\ GateType' /\ ModeType'
    BY <1>21 DEF TypeOK, BeginFinish, RowType, TaskType, LockType, GateType, ModeType
  <2> QED
    BY <2>1, <2>2, <2>3 DEF TypeOK
<1>22. ASSUME NEW f \in Finishers, BeginVerify(f) PROVE TypeOK'
  <2>1. LeaseType'
    BY <1>22, ConstantsAssumption DEF TypeOK, BeginVerify, LeaseType, LeaseRow, ActiveLease,
       ClosedLease, NoLease, FinisherType, IdleFinisher
  <2>2. FinisherType'
    BY <1>22, ConstantsAssumption DEF TypeOK, BeginVerify, FinisherType, IdleFinisher
  <2>3. RowType' /\ TaskType' /\ LockType' /\ GateType' /\ ModeType'
    BY <1>22, TouchedType DEF TypeOK, BeginVerify, RowType, TaskType, LockType, GateType, ModeType
  <2> QED
    BY <2>1, <2>2, <2>3 DEF TypeOK
<1>23. ASSUME NEW f \in Finishers, EndFinish(f) PROVE TypeOK'
  <2>1. LockType'
    BY <1>23, ConstantsAssumption DEF TypeOK, EndFinish, ReleaseMaintenance, ClosedLease,
       LockType, Waiters, TaskType, TaskStates
  <2>2. LeaseType'
    BY <1>23, ConstantsAssumption DEF TypeOK, EndFinish, ReleaseMaintenance, ClosedLease,
       LeaseType, LeaseRow, ActiveLease, NoLease, FinisherType, IdleFinisher
  <2>3. GateType'
    BY <1>23, ConstantsAssumption, TouchedType DEF TypeOK, EndFinish, ReleaseMaintenance,
       GateType
  <2>4. FinisherType'
    BY <1>23, ConstantsAssumption DEF TypeOK, EndFinish, ReleaseMaintenance, ClosedLease,
       FinisherType, IdleFinisher
  <2>5. RowType' /\ TaskType' /\ ModeType'
    BY <1>23 DEF TypeOK, EndFinish, RowType, TaskType, ModeType
  <2> QED
    BY <2>1, <2>2, <2>3, <2>4, <2>5 DEF TypeOK
<1>24. CASE StopServing
  <2>1. ModeType'
    BY <1>24, ConstantsAssumption DEF TypeOK, StopServing, ModeType
  <2>2. RowType' /\ TaskType' /\ LockType' /\ LeaseType' /\ GateType' /\ FinisherType'
    BY <1>24 DEF TypeOK, StopServing, RowType, TaskType, LockType, LeaseType, GateType,
       FinisherType
  <2> QED
    BY <2>1, <2>2 DEF TypeOK
<1>25. CASE CancelHandlers
  <2>1. RowType'
    BY <1>25, ConstantsAssumption DEF TypeOK, CancelHandlers, CancelTasks, InterruptedAs,
       Leave, LegalTransition, RowType, ActiveStates, Terminal, TaskType, TaskStates
  <2>2. TaskType'
    BY <1>25, ConstantsAssumption DEF TypeOK, CancelHandlers, CancelTasks, InterruptedAs,
       Leave, LegalTransition, TaskType, TaskStates, RowType
  <2>3. LockType'
    BY <1>25, ConstantsAssumption DEF TypeOK, CancelHandlers, CancelTasks, InterruptedAs,
       Leave, LegalTransition, LockType, Waiters, TaskType, TaskStates
  <2>4. LeaseType'
    BY <1>25, ConstantsAssumption, SMTT(40) DEF TypeOK, CancelHandlers, CancelTasks, InterruptedAs,
       Leave, LegalTransition, LeaseType, LeaseRow, ActiveLease, ClosedLease, NoLease,
          FinisherType, IdleFinisher
  <2>5. GateType'
    BY <1>25, ConstantsAssumption, TouchedType DEF TypeOK, CancelHandlers, GateType
  <2>6. FinisherType'
    BY <1>25, ConstantsAssumption DEF TypeOK, CancelHandlers, CancelTasks, InterruptedAs,
       Leave, LegalTransition, FinisherType, IdleFinisher
  <2>7. ModeType'
    BY <1>25, ConstantsAssumption DEF TypeOK, CancelHandlers, CancelTasks, InterruptedAs,
       Leave, LegalTransition, ModeType
  <2> QED
    BY <2>1, <2>2, <2>3, <2>4, <2>5, <2>6, <2>7 DEF TypeOK
<1>26. CASE CloseOperations
  <2>1. RowType'
    BY <1>26, ConstantsAssumption DEF TypeOK, CloseOperations, CancelTasks, InterruptedAs,
       Leave, LegalTransition, RowType, ActiveStates, Terminal, TaskType, TaskStates
  <2>2. TaskType'
    BY <1>26, ConstantsAssumption DEF TypeOK, CloseOperations, CancelTasks, InterruptedAs,
       Leave, LegalTransition, TaskType, TaskStates, RowType
  <2>3. LockType'
    BY <1>26, ConstantsAssumption DEF TypeOK, CloseOperations, CancelTasks, InterruptedAs,
       Leave, LegalTransition, LockType, Waiters, TaskType, TaskStates
  <2>4. GateType'
    BY <1>26, ConstantsAssumption DEF TypeOK, CloseOperations, CancelTasks, InterruptedAs,
       Leave, LegalTransition, GateType
  <2>5. ModeType'
    BY <1>26, ConstantsAssumption DEF TypeOK, CloseOperations, CancelTasks, InterruptedAs,
       Leave, LegalTransition, ModeType
  <2>6. LeaseType' /\ FinisherType'
    BY <1>26 DEF TypeOK, CloseOperations, LeaseType, FinisherType
  <2> QED
    BY <2>1, <2>2, <2>3, <2>4, <2>5, <2>6 DEF TypeOK
<1>27. CASE Crash
  <2>1. TaskType'
    BY <1>27, ConstantsAssumption DEF TypeOK, Crash, TaskType, TaskStates, RowType
  <2>2. LockType'
    BY <1>27, ConstantsAssumption DEF TypeOK, Crash, LockType, Waiters, TaskType, TaskStates
  <2>3. LeaseType'
    BY <1>27, ConstantsAssumption DEF TypeOK, Crash, LeaseType, LeaseRow, ActiveLease,
       ClosedLease, NoLease, FinisherType, IdleFinisher
  <2>4. GateType'
    BY <1>27, ConstantsAssumption DEF TypeOK, Crash, GateType
  <2>5. FinisherType'
    BY <1>27, ConstantsAssumption DEF TypeOK, Crash, FinisherType, IdleFinisher
  <2>6. ModeType'
    BY <1>27, ConstantsAssumption DEF TypeOK, Crash, ModeType
  <2>7. RowType'
    BY <1>27 DEF TypeOK, Crash, RowType
  <2> QED
    BY <2>1, <2>2, <2>3, <2>4, <2>5, <2>6, <2>7 DEF TypeOK
<1>28. CASE Restart
  <2>1. RowType'
    BY <1>28, ConstantsAssumption DEF TypeOK, Restart, HasActiveLease, RecoveredAs, RowType,
       ActiveStates,
       Terminal, TaskType, TaskStates
  <2>2. GateType'
    BY <1>28, ConstantsAssumption DEF TypeOK, Restart, HasActiveLease, RecoveredAs, GateType
  <2>3. ModeType'
    BY <1>28, ConstantsAssumption DEF TypeOK, Restart, HasActiveLease, RecoveredAs, ModeType
  <2>4. TaskType' /\ LockType' /\ LeaseType' /\ FinisherType'
    BY <1>28 DEF TypeOK, Restart, TaskType, LockType, LeaseType, FinisherType
  <2> QED
    BY <2>1, <2>2, <2>3, <2>4 DEF TypeOK
<1>29. CASE UNCHANGED vars
  BY <1>29 DEF vars, TypeOK, RowType, TaskType, LockType, LeaseType, GateType,
     FinisherType, ModeType
<1> QED
  BY <1>1, <1>2, <1>3, <1>4, <1>5, <1>6, <1>7, <1>8, <1>9, <1>10, <1>11, <1>12, <1>13, <1>14,
     <1>15, <1>16, <1>17, <1>18, <1>19, <1>20, <1>21, <1>22, <1>23, <1>24, <1>25, <1>26,
        <1>27, <1>28, <1>29
  DEF Next, Handle, Maintain, Finish

\* The type invariant of the gateway's rows, tasks, locks, gates and leases
\* holds in every reachable state.
THEOREM TypeCorrect == Spec => []TypeOK
  BY TypeInit, TypeStep, PTL DEF Spec
-----------------------------------------------------------------------------
(* Operation rows and the tasks that drive them. *)

\* No two tasks drive the same row, and a task's row is in the state the task's
\* code expects, in every step.
LEMMA RowsStep ==
  TypeOK /\ RowsFollowTasks /\ [Next]_vars => RowsFollowTasks'
<1> SUFFICES ASSUME TypeOK, RowsFollowTasks, [Next]_vars PROVE RowsFollowTasks'
  OBVIOUS
<1> USE ConstantsAssumption DEF TypeOK, RowType, TaskType, TaskStates, RowsFollowTasks, TaskRows,
        OneOwner, NoOrphanRow, DownIsIdle, Owns, ActiveStates, Terminal
<1>1. ASSUME NEW t \in Tasks, NEW i \in OpIds, NEW r \in Requests, BeginRequest(t, i, r)
      PROVE RowsFollowTasks'
  BY <1>1 DEF BeginRequest
<1>2. ASSUME NEW t \in Tasks, Submit(t) PROVE RowsFollowTasks'
  BY <1>2 DEF Submit
<1>3. ASSUME NEW t \in Tasks, SubmitReturns(t) PROVE RowsFollowTasks'
  BY <1>3 DEF SubmitReturns, Return
<1>4. ASSUME NEW t \in Tasks, ExecuteReturns(t) PROVE RowsFollowTasks'
  BY <1>4 DEF ExecuteReturns, AtExecute, Return
<1>5. ASSUME NEW t \in Tasks, ExecuteRuns(t) PROVE RowsFollowTasks'
  BY <1>5 DEF ExecuteRuns, AtExecute
<1>6. ASSUME NEW t \in Tasks, ExecuteWaits(t) PROVE RowsFollowTasks'
  BY <1>6 DEF ExecuteWaits, AtExecute
<1>7. ASSUME NEW t \in Tasks, LockGranted(t) PROVE RowsFollowTasks'
  BY <1>7 DEF LockGranted, Transition, LegalTransition
<1>8. ASSUME NEW t \in Tasks, CancelledReturns(t) PROVE RowsFollowTasks'
  BY <1>8 DEF CancelledReturns, Return
<1>9. ASSUME NEW t \in Tasks, NEW s \in Stages, Progress(t, s) PROVE RowsFollowTasks'
  BY <1>9 DEF Progress, Transition, LegalTransition
<1>10. ASSUME NEW t \in Tasks, NEW o \in Outcomes, CallEnds(t, o) PROVE RowsFollowTasks'
  BY <1>10 DEF CallEnds, Transition, LegalTransition, Return
<1>11. CASE SwitchToObserve
  BY <1>11 DEF SwitchToObserve, LegalTransition
<1>12. CASE SwitchToDevelop
  BY <1>12 DEF SwitchToDevelop
<1>13. CASE FinishModeTransition
  BY <1>13 DEF FinishModeTransition
<1>14. ASSUME NEW d \in Devices, AcquireMaintenance(d) PROVE RowsFollowTasks'
  BY <1>14 DEF AcquireMaintenance
<1>15. ASSUME NEW d \in Devices, AwaitMaintenance(d) PROVE RowsFollowTasks'
  BY <1>15 DEF AwaitMaintenance
<1>16. ASSUME NEW d \in Devices, MaintenanceGranted(d) PROVE RowsFollowTasks'
  BY <1>16 DEF MaintenanceGranted
<1>17. ASSUME NEW d \in Devices, MaintenanceTimeout(d) PROVE RowsFollowTasks'
  BY <1>17 DEF MaintenanceTimeout
<1>18. ASSUME NEW d \in Devices, NEW l \in Leases, LeaseCreated(d, l) PROVE RowsFollowTasks'
  BY <1>18 DEF LeaseCreated
<1>19. ASSUME NEW d \in Devices, AcquireFails(d) PROVE RowsFollowTasks'
  BY <1>19 DEF AcquireFails
<1>20. ASSUME NEW l \in Leases, NEW e \in BOOLEAN, RenewMaintenance(l, e) PROVE RowsFollowTasks'
  BY <1>20 DEF RenewMaintenance
<1>21. ASSUME NEW f \in Finishers, NEW l \in Leases, BeginFinish(f, l)
       PROVE RowsFollowTasks'
  BY <1>21 DEF BeginFinish
<1>22. ASSUME NEW f \in Finishers, BeginVerify(f) PROVE RowsFollowTasks'
  BY <1>22 DEF BeginVerify
<1>23. ASSUME NEW f \in Finishers, EndFinish(f) PROVE RowsFollowTasks'
  BY <1>23 DEF EndFinish
<1>24. CASE StopServing
  BY <1>24 DEF StopServing
<1>25. CASE CancelHandlers
  BY <1>25 DEF CancelHandlers, CancelTasks, InterruptedAs, LegalTransition
<1>26. CASE CloseOperations
  BY <1>26 DEF CloseOperations, CancelTasks, InterruptedAs, LegalTransition
<1>27. CASE Crash
  BY <1>27 DEF Crash
<1>28. CASE Restart
  BY <1>28 DEF Restart, RecoveredAs
<1>29. CASE UNCHANGED vars
  BY <1>29 DEF vars
<1> HIDE DEF TypeOK, RowsFollowTasks
<1> QED
  BY <1>1, <1>2, <1>3, <1>4, <1>5, <1>6, <1>7, <1>8, <1>9, <1>10, <1>11, <1>12, <1>13, <1>14,
     <1>15, <1>16, <1>17, <1>18, <1>19, <1>20, <1>21, <1>22, <1>23, <1>24, <1>25, <1>26, <1>27,
     <1>28, <1>29
  DEF Next, Handle, Maintain, Finish


\* Each step of the gateway is a step of the client's ledger, or leaves it alone.
LEMMA LedgerStep == TypeOK /\ RowsFollowTasks /\ [Next]_vars => [Ledger!LedgerNext]_(Ledger!ledger)
<1> SUFFICES ASSUME TypeOK, RowsFollowTasks, [Next]_vars
             PROVE  Ledger!LedgerNext \/ UNCHANGED Ledger!ledger
  OBVIOUS
<1> USE ConstantsAssumption DEF TypeOK, RowType, TaskType, TaskStates, RowsFollowTasks,
   TaskRows,
        OneOwner, Owns, ActiveStates, Terminal, Ledger!LedgerNext, Ledger!ledger, Ledger!Accept,
        Ledger!Start, Ledger!Settle, Ledger!GiveUp, Ledger!Keep, Fate, FateOf
<1>1. ASSUME NEW t \in Tasks, ExecuteRuns(t) PROVE Ledger!LedgerNext
  BY <1>1 DEF ExecuteRuns, AtExecute
<1>2. ASSUME NEW t \in Tasks, ExecuteWaits(t) PROVE Ledger!LedgerNext
  BY <1>2 DEF ExecuteWaits, AtExecute
<1>3. ASSUME NEW t \in Tasks, LockGranted(t) PROVE Ledger!LedgerNext
  BY <1>3 DEF LockGranted, Transition, LegalTransition
<1>4. ASSUME NEW t \in Tasks, NEW s \in Stages, Progress(t, s) PROVE Ledger!LedgerNext
  BY <1>4 DEF Progress, Transition, LegalTransition
<1>5. ASSUME NEW t \in Tasks, NEW o \in Outcomes, CallEnds(t, o) PROVE Ledger!LedgerNext
  BY <1>5 DEF CallEnds, Transition, LegalTransition, Return
<1>6. CASE SwitchToObserve
  BY <1>6 DEF SwitchToObserve, LegalTransition
<1>7. CASE CancelHandlers
  BY <1>7 DEF CancelHandlers, CancelTasks, InterruptedAs, LegalTransition
<1>8. CASE CloseOperations
  BY <1>8 DEF CloseOperations, CancelTasks, InterruptedAs, LegalTransition
<1>9. CASE Restart
  <2> SUFFICES ASSUME NEW i \in OpIds PROVE Ledger!Settle(i) \/ Ledger!GiveUp(i) \/ Ledger!Keep(i)
    BY DEF Ledger!LedgerNext
  <2>1. rowReq' = rowReq /\ calls' = calls
    BY <1>9 DEF Restart
  <2>2. CASE status[i] \notin ActiveStates
    <3>1. status'[i] = status[i]
      BY <1>9, <2>2 DEF Restart
    <3> QED
      BY <2>1, <3>1
  <2>3. CASE status[i] \in ActiveStates /\ rowReq[i] \in RestartUncertain
    <3>1. status'[i] = "outcome_unknown"
      BY <1>9, <2>3 DEF Restart, RecoveredAs
    <3> QED
      BY <2>1, <2>3, <3>1
  <2>4. CASE status[i] \in ActiveStates /\ rowReq[i] \notin RestartUncertain
    <3>1. status'[i] = "interrupted"
      BY <1>9, <2>4, SMTT(40) DEF Restart, RecoveredAs
    <3> QED
      BY <2>1, <2>4, <3>1
  <2> QED
    BY <2>2, <2>3, <2>4
<1>10. ASSUME [Next]_vars, ~Ledger!LedgerNext PROVE UNCHANGED Ledger!ledger
  <2> HIDE DEF TypeOK, RowsFollowTasks, Ledger!LedgerNext
  <2> QED
    BY <1>1, <1>2, <1>3, <1>4, <1>5, <1>6, <1>7, <1>8, <1>9, <1>10, ZenonT(60)
    DEF Next, Handle, Maintain, Finish, vars, BeginRequest, Submit, SubmitReturns,
       ExecuteReturns, CancelledReturns, SwitchToDevelop, FinishModeTransition,
          AcquireMaintenance, AwaitMaintenance, MaintenanceGranted, MaintenanceTimeout,
             LeaseCreated, AcquireFails, RenewMaintenance, BeginFinish, BeginVerify,
                EndFinish, StopServing, Crash
<1> QED
  BY <1>10

\* A step of the client's ledger keeps rows and device calls in agreement.
LEMMA LedgerInvariant ==
  ASSUME Ledger!CallsMatchRows, RowType, [Ledger!LedgerNext]_(Ledger!ledger)
  PROVE  Ledger!CallsMatchRows'
<1> USE ConstantsAssumption DEF Ledger!CallsMatchRows, Fate, FateOf, RowType, ActiveStates,
   Terminal
<1>1. CASE Ledger!LedgerNext
  BY <1>1 DEF Ledger!LedgerNext, Ledger!Accept, Ledger!Start, Ledger!Settle, Ledger!GiveUp,
     Ledger!Keep
<1>2. CASE UNCHANGED Ledger!ledger
  BY <1>2 DEF Ledger!ledger
<1> QED
  BY <1>1, <1>2

\* The inductive invariant of the operation rows.
LedgerInv == TypeOK /\ RowsFollowTasks /\ Ledger!CallsMatchRows

\* Types, row ownership and the agreement of rows and device calls hold in
\* every reachable state.
LEMMA LedgerInvCorrect == Spec => []LedgerInv
<1>1. Init => LedgerInv
  <2> SUFFICES ASSUME Init PROVE LedgerInv
    OBVIOUS
  <2>1. RowsFollowTasks
    BY ConstantsAssumption DEF Init, RowsFollowTasks, TaskRows, OneOwner, NoOrphanRow,
       DownIsIdle, Owns, ActiveStates,
       Terminal
  <2>2. Ledger!CallsMatchRows
    BY ConstantsAssumption DEF Init, Ledger!CallsMatchRows, Fate, FateOf
  <2> QED
    BY TypeInit, <2>1, <2>2 DEF LedgerInv
<1>2. LedgerInv /\ [Next]_vars => LedgerInv'
  BY TypeStep, RowsStep, LedgerStep, LedgerInvariant DEF LedgerInv, TypeOK
<1> QED
  BY <1>1, <1>2, PTL DEF Spec

\* The gateway implements the client's ledger: with any number of clients,
\* devices, leases, crashes and restarts, an id belongs to one request, its
\* device call starts at most once and its settled state is final.
THEOREM LedgerRefinement == Spec => ImplementsLedger
<1>1. Init => Ledger!LedgerInit
  BY ConstantsAssumption DEF Init, Ledger!LedgerInit, Fate, FateOf
<1> QED
  BY <1>1, LedgerInvCorrect, LedgerStep, PTL DEF Spec, LedgerInv, ImplementsLedger,
     Ledger!LedgerSpec

\* An operation id reaches the device at most once, over retries, concurrent
\* submissions, cancellations, crashes and restarts.
THEOREM AtMostOnce == Spec => []AtMostOneCall
<1>1. LedgerInv => AtMostOneCall
  BY DEF LedgerInv, Ledger!CallsMatchRows, AtMostOneCall
<1> QED
  BY <1>1, LedgerInvCorrect, PTL

\* What a settled operation row says about the device call is true.
THEOREM SettledTruth == Spec => []SettledRowsAreTrue
<1>1. LedgerInv => SettledRowsAreTrue
  BY ConstantsAssumption DEF LedgerInv, Ledger!CallsMatchRows, SettledRowsAreTrue, Fate, FateOf,
     Terminal
<1> QED
  BY <1>1, LedgerInvCorrect, PTL

\* While the gateway serves, every active row is driven by exactly one task.
THEOREM RowsDriven == Spec => []RowsFollowTasks
  BY LedgerInvCorrect, PTL DEF LedgerInv

\* No step rewrites a settled row or gives an id to another request.
THEOREM SettledFinal == Spec => SettledRowsAreFinal
<1> DEFINE Final == \A i \in OpIds :
          /\ status[i] \in Terminal => status'[i] = status[i]
          /\ status[i] # "absent" => rowReq'[i] = rowReq[i]
<1>1. [Ledger!LedgerNext]_(Ledger!ledger) => Final
  BY ConstantsAssumption DEF Ledger!LedgerNext, Ledger!ledger, Ledger!Accept, Ledger!Start,
     Ledger!Settle,
     Ledger!GiveUp, Ledger!Keep, Fate, FateOf, Terminal
<1>2. LedgerInv /\ [Next]_vars => [Final]_vars
  BY <1>1, LedgerStep DEF LedgerInv
<1> QED
  BY <1>2, LedgerInvCorrect, PTL DEF Spec, SettledRowsAreFinal


-----------------------------------------------------------------------------
(* Locks, gates and leases. *)

USE DEF maintVars

\* A finish call whose lease is over touches the gate of its device.
LEMMA Touched ==
  ASSUME NEW S, NEW f \in S, finisher[f].pc # "idle",
         lease[finisher[f].lease].state \notin ActiveLease
  PROVE  lease[finisher[f].lease].dev \in GatesTouched(S)
  BY DEF GatesTouched

\* Every step keeps one holder per device lock, and one active lease per device.
LEMMA LocksStep ==
  ASSUME TypeOK, RowsFollowTasks, LocksAndGates, [Next]_vars
  PROVE  LocksAndGates'
<1> USE ConstantsAssumption DEF TypeOK, TaskType, LockType, LeaseType, LeaseRow, GateType,
   FinisherType,
        ModeType, Waiters, TaskStates, RowsFollowTasks, DownIsIdle, LocksAndGates, LocksHeld,
           DeviceExclusive,
        MaintenanceDrains, GateFollowsAcquirer, GateFollowsLease, OneActiveLease,
           PendingIsLast,
        DownIsEmpty, Holds, Dev, WaitingFor, HasActiveLease, ActiveLease, ClosedLease,
           NoLease, IdleFinisher
<1>1. ASSUME NEW t \in Tasks, NEW i \in OpIds, NEW r \in Requests, BeginRequest(t, i,
   r) PROVE LocksAndGates'
  BY <1>1 DEF BeginRequest
<1>2. ASSUME NEW t \in Tasks, Submit(t) PROVE LocksAndGates'
  BY <1>2 DEF Submit
<1>3. ASSUME NEW t \in Tasks, SubmitReturns(t) PROVE LocksAndGates'
  BY <1>3 DEF SubmitReturns, Return
<1>4. ASSUME NEW t \in Tasks, ExecuteReturns(t) PROVE LocksAndGates'
  BY <1>4 DEF ExecuteReturns, AtExecute, Return
<1>5. ASSUME NEW t \in Tasks, ExecuteRuns(t) PROVE LocksAndGates'
  <2>1. CASE req[t] \in Serialized
    <3>1. locked' = [locked EXCEPT ![Dev(t)] = TRUE] /\ LockFree(Dev(t))
      BY <1>5, <2>1 DEF ExecuteRuns
    <3> QED
      BY <1>5, <2>1, <3>1 DEF ExecuteRuns, AtExecute, LockFree
  <2>2. CASE req[t] \notin Serialized
    <3>1. locked' = locked
      BY <1>5, <2>2 DEF ExecuteRuns, AtExecute
    <3> QED
      BY <1>5, <2>2, <3>1 DEF ExecuteRuns, AtExecute
  <2> QED
    BY <2>1, <2>2
<1>6. ASSUME NEW t \in Tasks, ExecuteWaits(t) PROVE LocksAndGates'
  BY <1>6 DEF ExecuteWaits, AtExecute, LockFree, Join
<1>7. ASSUME NEW t \in Tasks, LockGranted(t) PROVE LocksAndGates'
  BY <1>7 DEF LockGranted, Leave, MayTakeLock
<1>8. ASSUME NEW t \in Tasks, CancelledReturns(t) PROVE LocksAndGates'
  BY <1>8 DEF CancelledReturns, Return, Leave, MayTakeLock
<1>9. ASSUME NEW t \in Tasks, NEW s \in Stages, Progress(t, s) PROVE LocksAndGates'
  BY <1>9 DEF Progress
<1>10. ASSUME NEW t \in Tasks, NEW o \in Outcomes, CallEnds(t, o) PROVE LocksAndGates'
  BY <1>10 DEF CallEnds, Return
<1>11. CASE SwitchToObserve
  BY <1>11 DEF SwitchToObserve
<1>12. CASE SwitchToDevelop
  BY <1>12 DEF SwitchToDevelop
<1>13. CASE FinishModeTransition
  BY <1>13 DEF FinishModeTransition
<1>14. ASSUME NEW d \in Devices, AcquireMaintenance(d) PROVE LocksAndGates'
  BY <1>14 DEF AcquireMaintenance, LockFree
<1>15. ASSUME NEW d \in Devices, AwaitMaintenance(d) PROVE LocksAndGates'
  BY <1>15 DEF AwaitMaintenance, LockFree, Join
<1>16. ASSUME NEW d \in Devices, MaintenanceGranted(d) PROVE LocksAndGates'
  BY <1>16 DEF MaintenanceGranted, Leave, MayTakeLock
<1>17. ASSUME NEW d \in Devices, MaintenanceTimeout(d) PROVE LocksAndGates'
  BY <1>17 DEF MaintenanceTimeout, Leave
<1>18. ASSUME NEW d \in Devices, NEW l \in Leases, LeaseCreated(d, l) PROVE LocksAndGates'
  BY <1>18 DEF LeaseCreated
<1>19. ASSUME NEW d \in Devices, AcquireFails(d) PROVE LocksAndGates'
  BY <1>19 DEF AcquireFails, ReleaseMaintenance
<1>20. ASSUME NEW l \in Leases, NEW e \in BOOLEAN, RenewMaintenance(l, e) PROVE LocksAndGates'
  BY <1>20 DEF RenewMaintenance
<1>21. ASSUME NEW f \in Finishers, NEW l \in Leases, BeginFinish(f, l) PROVE LocksAndGates'
  BY <1>21 DEF BeginFinish
<1>22. ASSUME NEW f \in Finishers, BeginVerify(f) PROVE LocksAndGates'
  <2>1. \A d \in Devices \ stale' : d \notin stale
    BY <1>22 DEF BeginVerify
  <2>2. ASSUME NEW d \in Devices \ stale', HasActiveLease(d)' PROVE HasActiveLease(d)
    <3>1. PICK m \in Leases : lease'[m].dev = d /\ lease'[m].state \in ActiveLease
      BY <2>2
    <3>2. CASE m = finisher[f].lease /\ lease[m].state \notin ActiveLease
      BY <1>22, <3>1, <3>2, Touched DEF BeginVerify
    <3> QED
      BY <1>22, <3>1, <3>2 DEF BeginVerify
  <2>3. ASSUME NEW d \in Devices \ stale', HasActiveLease(d) PROVE HasActiveLease(d)'
    BY <1>22, <2>3 DEF BeginVerify
  <2>4. OneActiveLease'
    BY <1>22 DEF BeginVerify
  <2>5. UNCHANGED <<pc, op, req, cancelled, locked, ahead, maint, acquirer, phase>>
    BY <1>22 DEF BeginVerify
  <2>6. LocksHeld' /\ DeviceExclusive' /\ MaintenanceDrains' /\ PendingIsLast'
    BY <2>1, <2>5
  <2>7. GateFollowsAcquirer' /\ GateFollowsLease'
    <3> HIDE DEF HasActiveLease
    <3> QED
      BY <2>1, <2>2, <2>3, <2>5
  <2>8. DownIsEmpty'
    BY <1>22, <2>5 DEF BeginVerify
  <2> QED
    BY <2>4, <2>6, <2>7, <2>8 DEF LocksAndGates
<1>23. ASSUME NEW f \in Finishers, EndFinish(f) PROVE LocksAndGates'
  <2>0. PICK e \in Devices : e = lease[finisher[f].lease].dev
    BY <1>23 DEF EndFinish
  <2>1. \A d \in Devices \ stale' : d \notin stale
    BY <1>23 DEF EndFinish
  <2>2. e \notin stale' => lease[finisher[f].lease].state \in ActiveLease
    BY <1>23, <2>0, Touched DEF EndFinish
  <2>3. e \notin stale' => /\ maint[e] = "active" /\ acquirer[e] = "idle" /\ WaitingFor(e) = {}
                           /\ \A t \in Tasks : ~Holds(t, e)
    BY <1>23, <2>0, <2>1, <2>2 DEF EndFinish
  <2>4. OneActiveLease'
    BY <1>23 DEF EndFinish
  <2>5. e \notin stale' => ~HasActiveLease(e)'
    <3> SUFFICES ASSUME e \notin stale', NEW m \in Leases, lease'[m].dev = e,
                        lease'[m].state \in ActiveLease
                 PROVE  FALSE
      OBVIOUS
    <3>1. m # finisher[f].lease /\ lease[m] = lease'[m]
      BY <1>23 DEF EndFinish
    <3> QED
      BY <1>23, <2>0, <2>2, <3>1 DEF EndFinish
  <2>6. \A d \in Devices \ {e} : HasActiveLease(d)' <=> HasActiveLease(d)
    BY <1>23, <2>0 DEF EndFinish
  <2>7. UNCHANGED <<pc, op, req, cancelled, ahead, acquirer, phase>>
    BY <1>23 DEF EndFinish
  <2>8. /\ maint' = [maint EXCEPT ![e] = "none"]
        /\ locked' = [locked EXCEPT ![e] = FALSE]
    BY <1>23, <2>0 DEF EndFinish, ReleaseMaintenance
  <2>9. LocksHeld' /\ DeviceExclusive' /\ MaintenanceDrains' /\ PendingIsLast'
    BY <2>1, <2>3, <2>7, <2>8
  <2>10. GateFollowsAcquirer' /\ GateFollowsLease'
    <3> HIDE DEF HasActiveLease
    <3> QED
      BY <2>1, <2>3, <2>5, <2>6, <2>7, <2>8
  <2>11. DownIsEmpty'
    BY <1>23, <2>7, <2>8 DEF EndFinish
  <2> QED
    BY <2>4, <2>9, <2>10, <2>11 DEF LocksAndGates
<1>24. CASE StopServing
  BY <1>24 DEF StopServing
<1>25. CASE CancelHandlers
  <2>1. LocksHeld'
    <3> SUFFICES ASSUME NEW d \in Devices \ stale', NEW t \in Tasks, Holds(t, d)' PROVE locked'[d]
      BY DEF LocksHeld
    <3>0. d \notin stale
      BY <1>25 DEF CancelHandlers
    <3>1. Holds(t, d) /\ IsBackground(t)
      BY <1>25 DEF CancelHandlers, CancelTasks
    <3>2. locked[d] /\ maint[d] # "active" /\ \A u \in Tasks : Holds(u, d) => u = t
      BY <3>0, <3>1
    <3>3. acquirer[d] # "probing" /\ ~HasActiveLease(d)
      BY <1>25, <3>0, <3>2 DEF CancelHandlers
    <3>4. \A f \in Finishers : finisher[f].pc # "idle" => lease[finisher[f].lease].dev # d
      BY <1>25, <3>3, Touched DEF CancelHandlers
    <3> HIDE DEF LocksAndGates, Holds, TypeOK, RowsFollowTasks, HasActiveLease
    <3> QED
      BY <1>25, <3>1, <3>2, <3>3, <3>4 DEF CancelHandlers
  <2>2. DeviceExclusive'
    BY <1>25 DEF CancelHandlers, CancelTasks, Leave
  <2>3. MaintenanceDrains'
    BY <1>25 DEF CancelHandlers, CancelTasks, Leave
  <2>4. GateFollowsAcquirer'
    BY <1>25 DEF CancelHandlers, CancelTasks, Leave
  <2>5. GateFollowsLease'
    <3> SUFFICES ASSUME NEW d \in Devices \ stale', NEW m \in Leases,
                        lease'[m].dev = d, lease'[m].state \in ActiveLease
                 PROVE  maint'[d] = "active"
      BY DEF GateFollowsLease
    <3>1. d \notin stale /\ lease[m] = lease'[m] /\ \A f \in Finishers : finisher[f].lease # m
      BY <1>25 DEF CancelHandlers
    <3>2. maint[d] = "active" /\ acquirer[d] # "probing"
      BY <1>25, <3>1 DEF CancelHandlers
    <3>3. \A f \in Finishers : finisher[f].pc # "idle" => lease[finisher[f].lease].dev # d
      BY <1>25, <3>1, Touched DEF CancelHandlers
    <3> HIDE DEF LocksAndGates, TypeOK, RowsFollowTasks, HasActiveLease
    <3> QED
      BY <1>25, <3>2, <3>3 DEF CancelHandlers
  <2>6. OneActiveLease'
    BY <1>25 DEF CancelHandlers, CancelTasks, Leave
  <2>7. PendingIsLast'
    BY <1>25 DEF CancelHandlers, CancelTasks, Leave
  <2>8. DownIsEmpty'
    BY <1>25 DEF CancelHandlers, CancelTasks, Leave
  <2> QED
    BY <2>1, <2>2, <2>3, <2>4, <2>5, <2>6, <2>7, <2>8
<1>26. CASE CloseOperations
  BY <1>26 DEF CloseOperations, CancelTasks, Leave
<1>27. CASE Crash
  BY <1>27 DEF Crash
<1>28. CASE Restart
  BY <1>28 DEF Restart
<1>29. CASE UNCHANGED vars
  BY <1>29 DEF vars
<1> HIDE DEF TypeOK, RowsFollowTasks, LocksAndGates
<1> QED
  BY <1>1, <1>2, <1>3, <1>4, <1>5, <1>6, <1>7, <1>8, <1>9, <1>10, <1>11, <1>12, <1>13, <1>14,
     <1>15, <1>16, <1>17, <1>18, <1>19, <1>20, <1>21, <1>22, <1>23, <1>24, <1>25, <1>26,
        <1>27, <1>28, <1>29
  DEF Next, Handle, Maintain, Finish

\* The inductive invariant of the device locks and maintenance gates.
GateInv == TypeOK /\ RowsFollowTasks /\ LocksAndGates

\* Locks, gates and leases agree in every reachable state, but for the devices in stale.
LEMMA GateInvCorrect == Spec => []GateInv
<1>1. Init => GateInv
  <2> SUFFICES ASSUME Init PROVE GateInv
    OBVIOUS
  <2>1. TypeOK
    BY TypeInit
  <2>2. RowsFollowTasks
    BY ConstantsAssumption DEF Init, RowsFollowTasks, TaskRows, OneOwner, NoOrphanRow,
       DownIsIdle,
       Owns, ActiveStates, Terminal
  <2>3. LocksAndGates
    BY ConstantsAssumption DEF Init, LocksAndGates, LocksHeld, DeviceExclusive,
       MaintenanceDrains,
       GateFollowsAcquirer, GateFollowsLease, OneActiveLease, PendingIsLast, DownIsEmpty,
          Holds,
       WaitingFor, HasActiveLease, ActiveLease, NoLease, IdleFinisher, Waiters
  <2> QED
    BY <2>1, <2>2, <2>3 DEF GateInv
<1>2. GateInv /\ [Next]_vars => GateInv'
  BY TypeStep, RowsStep, LocksStep DEF GateInv
<1> QED
  BY <1>1, <1>2, PTL DEF Spec

\* Serialized calls to a device never overlap and none runs while the device is under
\* maintenance, until a finish call goes on after another has ended its lease.
THEOREM Exclusion == Spec => []DeviceExclusive
<1>1. GateInv => DeviceExclusive
  BY DEF GateInv, LocksAndGates
<1> QED
  BY <1>1, GateInvCorrect, PTL

\* Until then no operation waits behind a maintenance acquirer.
THEOREM MaintenanceGate == Spec => []MaintenanceDrains
<1>1. GateInv => MaintenanceDrains
  BY DEF GateInv, LocksAndGates
<1> QED
  BY <1>1, GateInvCorrect, PTL

\* Until then a device with an active lease stays behind its gate while the gateway
\* serves, for any number of leases in sequence.
THEOREM LeaseGate == Spec => []LeaseKeepsGate
<1>1. GateInv => LeaseKeepsGate
  BY DEF GateInv, LocksAndGates, GateFollowsLease, LeaseKeepsGate
<1> QED
  BY <1>1, GateInvCorrect, PTL

\* A device has one active lease, whatever finish calls overlap; and until one of them
\* goes on after its lease was ended, tasks, acquirers and leases agree on its lock.
THEOREM LocksAgree == Spec => []LocksAndGates
<1>1. GateInv => LocksAndGates
  BY DEF GateInv
<1> QED
  BY <1>1, GateInvCorrect, PTL

-----------------------------------------------------------------------------
(* Observe mode. *)

\* In observe mode a task that waits was cancelled or came late, and so did every call
\* that runs once the transition is over.
ObserveInv ==
  mode = "observe" =>
    /\ \A t \in Tasks : pc[t] = "waiting" => t \in cancelled \cup late
    /\ ~modeTransition => \A t \in Tasks : pc[t] = "calling" => t \in late

\* Every step keeps the calls of observe mode to those that were running at the switch
\* and those of requests that came late.
LEMMA ObserveStep ==
  ASSUME TypeOK, ObserveInv, [Next]_vars
  PROVE  ObserveInv'
<1> USE DEF TypeOK, TaskType, ModeType, TaskStates, ObserveInv, modeVars
<1>1. ASSUME NEW t \in Tasks, NEW i \in OpIds, NEW r \in Requests, BeginRequest(t, i, r)
      PROVE ObserveInv'
  BY <1>1 DEF BeginRequest
<1>2. ASSUME NEW t \in Tasks, Submit(t)
      PROVE ObserveInv'
  BY <1>2 DEF Submit
<1>3. ASSUME NEW t \in Tasks, SubmitReturns(t)
      PROVE ObserveInv'
  BY <1>3 DEF SubmitReturns, Return
<1>4. ASSUME NEW t \in Tasks, ExecuteReturns(t)
      PROVE ObserveInv'
  BY <1>4 DEF ExecuteReturns, Return
<1>5. ASSUME NEW t \in Tasks, ExecuteRuns(t)
      PROVE ObserveInv'
  BY <1>5 DEF ExecuteRuns, CreatedLate
<1>6. ASSUME NEW t \in Tasks, ExecuteWaits(t)
      PROVE ObserveInv'
  BY <1>6 DEF ExecuteWaits, CreatedLate
<1>7. ASSUME NEW t \in Tasks, LockGranted(t)
      PROVE ObserveInv'
  BY <1>7 DEF LockGranted, WasCancelled
<1>8. ASSUME NEW t \in Tasks, CancelledReturns(t)
      PROVE ObserveInv'
  BY <1>8 DEF CancelledReturns, Return
<1>9. ASSUME NEW t \in Tasks, NEW s \in Stages, Progress(t, s)
      PROVE ObserveInv'
  BY <1>9 DEF Progress, taskVars
<1>10. ASSUME NEW t \in Tasks, NEW o \in Outcomes, CallEnds(t, o)
      PROVE ObserveInv'
  BY <1>10 DEF CallEnds, Return
<1>11. CASE SwitchToObserve
  BY <1>11 DEF SwitchToObserve
<1>12. CASE SwitchToDevelop
  BY <1>12 DEF SwitchToDevelop
<1>13. CASE FinishModeTransition
  BY <1>13 DEF FinishModeTransition, taskVars
<1>14. ASSUME NEW d \in Devices, Maintain(d)
      PROVE ObserveInv'
  BY <1>14 DEF Maintain, AcquireMaintenance, AwaitMaintenance,
     MaintenanceGranted, MaintenanceTimeout, LeaseCreated, AcquireFails, taskVars
<1>15. ASSUME NEW l \in Leases, NEW e \in BOOLEAN, RenewMaintenance(l, e)
      PROVE ObserveInv'
  BY <1>15 DEF RenewMaintenance, taskVars
<1>16. ASSUME NEW f \in Finishers, Finish(f)
      PROVE ObserveInv'
  BY <1>16 DEF Finish, BeginFinish, BeginVerify, EndFinish, taskVars
<1>17. CASE StopServing
  BY <1>17 DEF StopServing, taskVars
<1>18. CASE CancelHandlers
  BY <1>18 DEF CancelHandlers, CancelTasks
<1>19. CASE CloseOperations
  BY <1>19 DEF CloseOperations, CancelTasks
<1>20. CASE Crash
  BY <1>20 DEF Crash
<1>21. CASE Restart
  BY <1>21 DEF Restart
<1>22. CASE UNCHANGED vars
  BY <1>22 DEF vars
<1> HIDE DEF TypeOK, ObserveInv
<1> QED
  BY <1>1, <1>2, <1>3, <1>4, <1>5, <1>6, <1>7, <1>8, <1>9, <1>10, <1>11,
     <1>12, <1>13, <1>14, <1>15, <1>16, <1>17, <1>18, <1>19, <1>20, <1>21, <1>22
  DEF Next, Handle

\* require_develop, _finish_mode_transition: once the transition to observe mode is over
\* no device call is running but those of requests that were let in before the switch
\* and came to execute() after it.
THEOREM ObserveModeIsQuiet == Spec => []ObserveIsQuiet
<1>1. Init => TypeOK /\ ObserveInv
  BY TypeInit DEF Init, ObserveInv
<1>2. (TypeOK /\ ObserveInv) /\ [Next]_vars => (TypeOK /\ ObserveInv)'
  BY TypeStep, ObserveStep
<1>3. TypeOK /\ ObserveInv => ObserveIsQuiet
  BY DEF ObserveInv, ObserveIsQuiet
<1> QED
  BY <1>1, <1>2, <1>3, PTL DEF Spec

=============================================================================

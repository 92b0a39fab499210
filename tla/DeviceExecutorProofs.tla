------------------------ MODULE DeviceExecutorProofs ------------------------
(* Theorems about DeviceExecutor, for every value of its constants. *)
EXTENDS DeviceExecutor, TLAPS

USE DEF flagVars, svcVars, linkVars, dataVars, history

\* What the work buffer holds when nobody uses it has its type.
LEMMA NoWorkType ==
    NoWork \in [req : Request, session : SessionIds \cup {NoSession}, reply : BOOLEAN]
  BY DEF NoWork, Request, Rpc

\* The initial state satisfies the inductive invariant.
LEMMA InvInit == Init => ExecutorInv
<1> SUFFICES ASSUME Init PROVE ExecutorInv
  OBVIOUS
<1> USE ExecutorAssumption DEF Init, NoTake, NoWork, NoUpdate, Rpc
<1>1. TypeOK
  BY DEF TypeOK, SlotType, FlagType, TaskType, SessionType, DataType, Request, Rpc, Steps
<1>2. SlotHasOneOwner /\ FlagsAreConsumed /\ CallersInPlace
  BY DEF SlotHasOneOwner, FlagsAreConsumed, CallersInPlace, Running
<1>3. SlotOfSession /\ CleanedIsEmpty /\ CandidateIsUnknown /\ WindowOfSession
  BY DEF SlotOfSession, CleanedIsEmpty, CandidateIsUnknown, WindowOfSession
<1>4. SessionsAreIsolated /\ CancelsReach /\ AckedCancelStops
  BY DEF SessionsAreIsolated, CancelsReach, AckedCancelStops
<1> QED
  BY <1>1, <1>2, <1>3, <1>4 DEF ExecutorInv

\* Every step of the two tasks preserves the types of the variables.
LEMMA TypeStep == TypeOK /\ [Next]_vars => TypeOK'
<1> SUFFICES ASSUME TypeOK, [Next]_vars PROVE TypeOK'
  OBVIOUS
<1> USE ExecutorAssumption DEF TypeOK
<1>1. ASSUME NEW s \in SessionIds \cup {NoSession}, BeginSession(s) PROVE TypeOK'
  <2>1. SessionType'
    BY <1>1 DEF BeginSession, ExecutorBusy, Pumping, FreshSession, SessionType
  <2>2. DataType'
    BY <1>1 DEF BeginSession, ExecutorBusy, Pumping, FreshSession, DataType
  <2>3. SlotType' /\ FlagType' /\ TaskType'
    BY <1>1 DEF BeginSession, SlotType, FlagType, TaskType
  <2> QED
    BY <2>1, <2>2, <2>3
<1>2. CASE SessionReady
  <2>1. SessionType'
    BY <1>2 DEF SessionReady, Pumping, SessionType
  <2>2. SlotType' /\ FlagType' /\ TaskType' /\ DataType'
    BY <1>2 DEF SessionReady, SlotType, FlagType, TaskType, DataType
  <2> QED
    BY <2>1, <2>2
<1>3. CASE EndProvisional
  <2>1. SessionType'
    BY <1>3 DEF EndProvisional, Pumping, LinkDown, SessionType
  <2>2. SlotType' /\ FlagType' /\ TaskType' /\ DataType'
    BY <1>3 DEF EndProvisional, LinkDown, SlotType, FlagType, TaskType, DataType
  <2> QED
    BY <2>1, <2>2
<1>4. CASE EndSessionNow
  <2>1. SessionType'
    BY <1>4 DEF EndSessionNow, NoUpdate, Pumping, LinkDown, SessionType
  <2>2. DataType'
    BY <1>4 DEF EndSessionNow, NoUpdate, Pumping, LinkDown, DataType
  <2>3. SlotType' /\ FlagType' /\ TaskType'
    BY <1>4 DEF EndSessionNow, LinkDown, SlotType, FlagType, TaskType
  <2> QED
    BY <2>1, <2>2, <2>3
<1>5. CASE EndSession
  <2>1. TaskType'
    BY <1>5 DEF EndSession, Pumping, TaskType, Request, Rpc, Steps, Running
  <2>2. SlotType' /\ FlagType' /\ SessionType' /\ DataType'
    BY <1>5 DEF EndSession, SlotType, FlagType, SessionType, DataType
  <2> QED
    BY <2>1, <2>2
<1>6. CASE Abandon
  <2>1. SlotType'
    BY <1>6 DEF Abandon, LinkDown, MustQueue, Notify, SlotType, SessionType, Request, Rpc,
       Steps
  <2>2. FlagType'
    BY <1>6 DEF Abandon, LinkDown, MustQueue, Notify, FlagType
  <2>3. TaskType'
    BY <1>6 DEF Abandon, LinkDown, MustQueue, Notify, TaskType, Request, Rpc, Steps, Running
  <2>4. SessionType'
    BY <1>6 DEF Abandon, LinkDown, MustQueue, Notify, SessionType
  <2>5. DataType'
    BY <1>6 DEF Abandon, LinkDown, Notify, DataType
  <2> QED
    BY <2>1, <2>2, <2>3, <2>4, <2>5
<1>7. ASSUME NEW r \in Request, Reserve(r) PROVE TypeOK'
  <2>1. SlotType'
    BY <1>7 DEF Reserve, ExecutorBusy, Pumping, Receives, SlotType, Request, Rpc, Steps
  <2>2. FlagType'
    BY <1>7 DEF Reserve, ExecutorBusy, Pumping, Receives, FlagType
  <2>3. TaskType'
    BY <1>7 DEF Reserve, ExecutorBusy, Pumping, Receives, TaskType, Request, Rpc, Steps,
       Running
  <2>4. SessionType'
    BY <1>7 DEF Reserve, ExecutorBusy, Pumping, Receives, SessionType
  <2>5. DataType'
    BY <1>7 DEF Reserve, DataType
  <2> QED
    BY <2>1, <2>2, <2>3, <2>4, <2>5
<1>8. CASE EnsureFails
  <2>1. SlotType'
    BY <1>8 DEF EnsureFails, SlotType, Request, Rpc, Steps
  <2>2. TaskType'
    BY <1>8 DEF EnsureFails, TaskType, Request, Rpc, Steps, Running
  <2>3. SessionType'
    BY <1>8 DEF EnsureFails, SessionType
  <2>4. FlagType' /\ DataType'
    BY <1>8 DEF EnsureFails, FlagType, DataType
  <2> QED
    BY <2>1, <2>2, <2>3, <2>4
<1>9. CASE Queue
  <2>1. SlotType'
    BY <1>9 DEF Queue, Notify, SlotType, TaskType, SessionType, Request, Rpc, Steps, Running
  <2>2. FlagType'
    BY <1>9 DEF Queue, Notify, FlagType
  <2>3. TaskType'
    BY <1>9 DEF Queue, Notify, TaskType, Request, Rpc, Steps, Running
  <2>4. SessionType' /\ DataType'
    BY <1>9 DEF Queue, Notify, SessionType, DataType
  <2> QED
    BY <2>1, <2>2, <2>3, <2>4
<1>10. CASE AnswerBusy
  <2>1. SessionType'
    BY <1>10 DEF AnswerBusy, ExecutorBusy, Pumping, Receives, SessionType
  <2>2. SlotType' /\ FlagType' /\ TaskType' /\ DataType'
    BY <1>10 DEF AnswerBusy, SlotType, FlagType, TaskType, DataType
  <2> QED
    BY <2>1, <2>2
<1>11. ASSUME NEW r \in Request, CancelBusy(r) PROVE TypeOK'
  <2>1. TaskType'
    BY <1>11 DEF CancelBusy, ExecutorBusy, Pumping, Receives, TaskType, Request, Rpc, Steps,
       Running
  <2>2. SessionType'
    BY <1>11 DEF CancelBusy, ExecutorBusy, Pumping, Receives, SessionType
  <2>3. SlotType' /\ FlagType' /\ DataType'
    BY <1>11 DEF CancelBusy, SlotType, FlagType, DataType
  <2> QED
    BY <2>1, <2>2, <2>3
<1>12. CASE RequestCancel
  <2>1. FlagType'
    BY <1>12 DEF RequestCancel, CancelAccepted, FlagType, TaskType, Request, Rpc, Steps,
       Running
  <2>2. TaskType'
    BY <1>12 DEF RequestCancel, CancelAccepted, TaskType, Request, Rpc, Steps, Running
  <2>3. SessionType'
    BY <1>12 DEF RequestCancel, CancelAccepted, SessionType
  <2>4. SlotType' /\ DataType'
    BY <1>12 DEF RequestCancel, SlotType, DataType
  <2> QED
    BY <2>1, <2>2, <2>3, <2>4
<1>13. CASE DrainClaim
  <2>1. SlotType'
    BY <1>13 DEF DrainClaim, Pumping, SlotType, Request, Rpc, Steps
  <2>2. TaskType'
    BY <1>13 DEF DrainClaim, Pumping, TaskType, Request, Rpc, Steps, Running
  <2>3. FlagType' /\ SessionType' /\ DataType'
    BY <1>13 DEF DrainClaim, FlagType, SessionType, DataType
  <2> QED
    BY <2>1, <2>2, <2>3
<1>14. CASE Drain
  <2>1. SlotType'
    BY <1>14, NoWorkType DEF Drain, SlotFreed, Notify, SlotType, FlagType
  <2>2. TaskType'
    BY <1>14 DEF Drain, Deliverable, SlotFreed, NoWork, Notify, TaskType, Request, Rpc,
       Steps, Running
  <2>3. SessionType'
    BY <1>14 DEF Drain, Deliverable, SlotFreed, NoWork, Notify, SessionType, SlotType,
       Request, Rpc, Steps
  <2>4. FlagType' /\ DataType'
    BY <1>14 DEF Drain, SlotFreed, FlagType, DataType
  <2> QED
    BY <2>1, <2>2, <2>3, <2>4
<1>15. CASE FlushTx
  <2>1. SessionType'
    BY <1>15 DEF FlushTx, Pumping, SessionType
  <2>2. SlotType' /\ FlagType' /\ TaskType' /\ DataType'
    BY <1>15 DEF FlushTx, SlotType, FlagType, TaskType, DataType
  <2> QED
    BY <2>1, <2>2
<1>16. CASE Take
  <2>1. SlotType'
    BY <1>16 DEF Take, SlotType, Request, Rpc, Steps
  <2>2. TaskType'
    BY <1>16 DEF Take, TaskType, Request, Rpc, Steps, Running
  <2>3. FlagType' /\ SessionType' /\ DataType'
    BY <1>16 DEF Take, FlagType, SessionType, DataType
  <2> QED
    BY <2>1, <2>2, <2>3
<1>17. CASE Skip
  <2>1. TaskType'
    BY <1>17 DEF Skip, TaskType, Request, Rpc, Steps, Running
  <2>2. SlotType' /\ FlagType' /\ SessionType' /\ DataType'
    BY <1>17 DEF Skip, SlotType, FlagType, SessionType, DataType, Request, Rpc
  <2> QED
    BY <2>1, <2>2
<1>18. CASE Handle
  <2>1. TaskType'
    BY <1>18 DEF Handle, TaskType, Request, Rpc, Steps, Running
  <2>2. SlotType' /\ FlagType' /\ SessionType' /\ DataType'
    BY <1>18 DEF Handle, SlotType, FlagType, SessionType, DataType
  <2> QED
    BY <2>1, <2>2
<1>19. ASSUME NEW fresh \in BOOLEAN, HandleRpc(fresh) PROVE TypeOK'
  <2>1. SlotType'
    BY <1>19 DEF HandleRpc, Reply, Rpc, SlotType, Request, Steps
  <2>2. TaskType'
    BY <1>19 DEF HandleRpc, Reply, Rpc, TaskType, Request, Steps, Running
  <2>3. DataType'
    BY <1>19 DEF HandleRpc, Reply, Rpc, DataType, SlotType, Request, Steps
  <2>4. FlagType' /\ SessionType'
    BY <1>19 DEF HandleRpc, Reply, Rpc, FlagType, SessionType
  <2> QED
    BY <2>1, <2>2, <2>3, <2>4
<1>20. CASE HandleUpdate
  <2>1. SlotType'
    BY <1>20 DEF HandleUpdate, Reply, Rpc, UpdateOutcomes, SlotType, Request, Steps
  <2>2. TaskType'
    BY <1>20 DEF HandleUpdate, Reply, Rpc, UpdateOutcomes, TaskType, Request, Steps, Running
  <2>3. DataType'
    BY <1>20 DEF HandleUpdate, Reply, Rpc, UpdateOutcomes, DataType, SlotType, Request,
       Steps
  <2>4. FlagType' /\ SessionType'
    BY <1>20 DEF HandleUpdate, Reply, Rpc, FlagType, SessionType
  <2> QED
    BY <2>1, <2>2, <2>3, <2>4
<1>21. ASSUME NEW kept \in BOOLEAN, EndRefused(kept) PROVE TypeOK'
  <2>1. SlotType'
    BY <1>21 DEF EndRefused, Reply, Rpc, SlotType, Request, Steps
  <2>2. TaskType'
    BY <1>21 DEF EndRefused, Reply, Rpc, TaskType, Request, Steps, Running
  <2>3. DataType'
    BY <1>21 DEF EndRefused, Reply, Rpc, DataType, SlotType, Request, Steps
  <2>4. FlagType' /\ SessionType'
    BY <1>21 DEF EndRefused, Reply, Rpc, FlagType, SessionType
  <2> QED
    BY <2>1, <2>2, <2>3, <2>4
<1>22. CASE PassBoundary
  <2>1. TaskType'
    BY <1>22 DEF PassBoundary, Cancelled, TaskType, Request, Rpc, Steps, Running
  <2>2. SlotType' /\ FlagType' /\ SessionType' /\ DataType'
    BY <1>22 DEF PassBoundary, SlotType, FlagType, SessionType, DataType
  <2> QED
    BY <2>1, <2>2
<1>23. CASE Commit
  <2>1. SlotType'
    BY <1>23 DEF Commit, Reply, Rpc, SlotType, Request, Steps
  <2>2. TaskType'
    BY <1>23 DEF Commit, Reply, Rpc, TaskType, Request, Steps, Running
  <2>3. DataType'
    BY <1>23 DEF Commit, Reply, Rpc, DataType, SlotType, Request, Steps
  <2>4. FlagType' /\ SessionType'
    BY <1>23 DEF Commit, Reply, Rpc, FlagType, SessionType
  <2> QED
    BY <2>1, <2>2, <2>3, <2>4
<1>24. ASSUME NEW jobs \in SUBSET Updates, TakeFlags(jobs) PROVE TypeOK'
  <2>1. FlagType'
    BY <1>24 DEF TakeFlags, NothingPending, FlagType
  <2>2. TaskType'
    BY <1>24 DEF TakeFlags, NothingPending, TaskType, Request, Rpc, Steps, Running
  <2>3. SlotType' /\ SessionType' /\ DataType'
    BY <1>24 DEF TakeFlags, SlotType, SessionType, DataType
  <2> QED
    BY <2>1, <2>2, <2>3
<1>25. CASE Cleanup
  <2>1. SlotType'
    BY <1>25 DEF Cleanup, NoTake, SlotType, FlagType, Request, Rpc, Steps
  <2>2. FlagType'
    BY <1>25 DEF Cleanup, NoTake, FlagType
  <2>3. TaskType'
    BY <1>25 DEF Cleanup, NoTake, TaskType, FlagType, Request, Rpc, Steps, Running
  <2>4. DataType'
    BY <1>25 DEF Cleanup, NoTake, DataType, FlagType
  <2>5. SessionType'
    BY <1>25 DEF Cleanup, SessionType
  <2> QED
    BY <2>1, <2>2, <2>3, <2>4, <2>5
<1>26. CASE Finish
  <2>1. SlotType'
    BY <1>26, NoWorkType DEF Finish, SlotFreed, SlotType
  <2>2. TaskType'
    BY <1>26 DEF Finish, NothingPending, SlotFreed, NoWork, TaskType, Request, Rpc, Steps,
       Running
  <2>3. FlagType' /\ SessionType' /\ DataType'
    BY <1>26 DEF Finish, SlotFreed, FlagType, SessionType, DataType
  <2> QED
    BY <2>1, <2>2, <2>3
<1>27. CASE Reap
  <2>1. SlotType'
    BY <1>27 DEF Reap, Reapable, SlotType, Request, Rpc, Steps
  <2>2. FlagType' /\ TaskType' /\ SessionType' /\ DataType'
    BY <1>27 DEF Reap, FlagType, TaskType, SessionType, DataType
  <2> QED
    BY <2>1, <2>2
<1>28. CASE Stop
  <2>1. TaskType'
    BY <1>28 DEF Stop, TaskType, Request, Rpc, Steps, Running
  <2>2. SlotType' /\ FlagType' /\ SessionType' /\ DataType'
    BY <1>28 DEF Stop, SlotType, FlagType, SessionType, DataType
  <2> QED
    BY <2>1, <2>2
<1>29. CASE WorkerGone
  <2>1. TaskType'
    BY <1>29 DEF WorkerGone, TaskType, Request, Rpc, Steps, Running
  <2>2. SlotType' /\ FlagType' /\ SessionType' /\ DataType'
    BY <1>29 DEF WorkerGone, SlotType, FlagType, SessionType, DataType
  <2> QED
    BY <2>1, <2>2
<1>30. CASE DeinitNow
  <2>1. TaskType'
    BY <1>30 DEF DeinitNow, TaskType, Request, Rpc, Steps, Running
  <2>2. DataType'
    BY <1>30 DEF DeinitNow, DataType
  <2>3. SlotType' /\ FlagType' /\ SessionType'
    BY <1>30 DEF DeinitNow, SlotType, FlagType, SessionType
  <2> QED
    BY <2>1, <2>2, <2>3
<1>31. CASE Deinit
  <2>1. TaskType'
    BY <1>31 DEF Deinit, TaskType, Request, Rpc, Steps, Running
  <2>2. SlotType' /\ FlagType' /\ SessionType' /\ DataType'
    BY <1>31 DEF Deinit, SlotType, FlagType, SessionType, DataType
  <2> QED
    BY <2>1, <2>2
<1>32. ASSUME NEW ok \in BOOLEAN, Start(ok) PROVE TypeOK'
  <2>1. TaskType'
    BY <1>32 DEF Start, ExecutorBusy, MayStart, TaskType, Request, Rpc, Steps, Running
  <2>2. SlotType' /\ FlagType' /\ SessionType' /\ DataType'
    BY <1>32 DEF Start, SlotType, FlagType, SessionType, DataType
  <2> QED
    BY <2>1, <2>2
<1>33. ASSUME NEW ok \in BOOLEAN, StopReturns(ok) PROVE TypeOK'
  <2>1. TaskType'
    BY <1>33 DEF StopReturns, ExecutorBusy, TaskType, Request, Rpc, Steps, Running
  <2>2. SlotType' /\ FlagType' /\ SessionType' /\ DataType'
    BY <1>33 DEF StopReturns, SlotType, FlagType, SessionType, DataType
  <2> QED
    BY <2>1, <2>2
<1>34. CASE UNCHANGED vars
  BY <1>34 DEF vars, SlotType, FlagType, TaskType, SessionType, DataType
<1>35. CASE AbandonPanics
  <2>1. SlotType' /\ FlagType'
    BY <1>35 DEF AbandonPanics, NoWork, NoTake, SlotType, FlagType, Request, Rpc
  <2>2. TaskType' /\ SessionType'
    BY <1>35 DEF AbandonPanics, LinkDown, TaskType, SessionType, Request, Rpc, Running
  <2>3. DataType'
    BY <1>35 DEF AbandonPanics, NoUpdate, DataType
  <2> QED
    BY <2>1, <2>2, <2>3
<1>36. CASE RequestJobCancel
  <2>1. FlagType'
    BY <1>36 DEF RequestJobCancel, FlagType, TaskType
  <2>2. TaskType' /\ SessionType'
    BY <1>36 DEF RequestJobCancel, TaskType, SessionType, Request, Rpc, Running
  <2>3. SlotType' /\ DataType'
    BY <1>36 DEF RequestJobCancel, SlotType, DataType
  <2> QED
    BY <2>1, <2>2, <2>3
<1>37. CASE HandleJob
  <2>0. Rpc \in Request
    BY DEF Request
  <2>1. SlotType' /\ TaskType'
    BY <1>37, <2>0 DEF HandleJob, Reply, SlotType, TaskType, Running
  <2>2. FlagType'
    BY <1>37 DEF HandleJob, FlagType
  <2>3. DataType'
    BY <1>37 DEF HandleJob, DataType
  <2>4. SessionType'
    BY <1>37 DEF HandleJob, SessionType
  <2> QED
    BY <2>1, <2>2, <2>3, <2>4
<1> QED
  BY <1>1, <1>2, <1>3, <1>4, <1>5, <1>6, <1>7, <1>8, <1>9, <1>10, <1>11, <1>12, <1>13, <1>14,
     <1>15, <1>16, <1>17, <1>18, <1>19, <1>20, <1>21, <1>22, <1>23, <1>24, <1>25, <1>26, <1>27,
     <1>28, <1>29, <1>30, <1>31, <1>32, <1>33, <1>34, <1>35, <1>36,
     <1>37 DEF Next, Protocol, Service,
        Application

\* Every step of the two tasks, the idle timeout included, preserves the inductive
\* invariant.
LEMMA InvStep == ExecutorInv /\ [Next]_vars => ExecutorInv'
<1> SUFFICES ASSUME ExecutorInv, [Next]_vars PROVE ExecutorInv'
  OBVIOUS
<1> USE DEF ExecutorInv
<1>0. TypeOK'
  BY TypeStep
<1>1. ASSUME NEW s \in SessionIds \cup {NoSession}, BeginSession(s) PROVE ExecutorInv'
  <2>1. CallersInPlace'
    BY <1>1 DEF BeginSession, ExecutorBusy, Pumping, FreshSession, CallersInPlace
  <2>2. SlotOfSession'
    BY <1>1 DEF BeginSession, ExecutorBusy, Pumping, FreshSession, SlotOfSession,
       CleanupPending
  <2>3. CleanedIsEmpty'
    BY <1>1 DEF BeginSession, ExecutorBusy, Pumping, FreshSession, CleanedIsEmpty, NoUpdate
  <2>4. CandidateIsUnknown'
    BY <1>1, ExecutorAssumption DEF BeginSession, ExecutorBusy, Pumping, FreshSession,
       CandidateIsUnknown, TypeOK, SlotType, FlagType, TaskType, SessionType, DataType,
       Running
  <2>5. WindowOfSession'
    BY <1>1, ExecutorAssumption DEF BeginSession, ExecutorBusy, Pumping, FreshSession,
       WindowOfSession, TypeOK, SlotHasOneOwner, SlotOfSession, CleanedIsEmpty,
       CleanupPending, Running, NoUpdate, SlotType, FlagType, TaskType, SessionType,
       DataType
  <2>6. SessionsAreIsolated'
    BY <1>1, ExecutorAssumption DEF BeginSession, ExecutorBusy, Pumping, FreshSession,
       SessionsAreIsolated, TypeOK, CleanupPending, SlotType, FlagType, TaskType,
       SessionType, DataType, Running
  <2>7. SlotHasOneOwner' /\ FlagsAreConsumed' /\ CancelsReach' /\ AckedCancelStops'
    BY <1>1 DEF BeginSession, SlotHasOneOwner, FlagsAreConsumed, CancelsReach,
       AckedCancelStops
  <2> QED
    BY <1>0, <2>1, <2>2, <2>3, <2>4, <2>5, <2>6, <2>7
<1>2. CASE SessionReady
  <2>1. CallersInPlace'
    BY <1>2 DEF SessionReady, Pumping, CallersInPlace
  <2>2. SlotOfSession'
    BY <1>2 DEF SessionReady, Pumping, SlotOfSession, CleanupPending
  <2>3. CandidateIsUnknown'
    BY <1>2 DEF SessionReady, Pumping, CandidateIsUnknown
  <2>4. WindowOfSession'
    BY <1>2 DEF SessionReady, Pumping, WindowOfSession, CleanupPending
  <2>5. SlotHasOneOwner' /\ FlagsAreConsumed' /\ CleanedIsEmpty' /\ SessionsAreIsolated' /\
     CancelsReach' /\ AckedCancelStops'
    BY <1>2 DEF SessionReady, SlotHasOneOwner, FlagsAreConsumed, CleanedIsEmpty,
       SessionsAreIsolated, CancelsReach, AckedCancelStops, CleanupPending
  <2> QED
    BY <1>0, <2>1, <2>2, <2>3, <2>4, <2>5
<1>3. CASE EndProvisional
  <2>1. CallersInPlace'
    BY <1>3 DEF EndProvisional, Pumping, LinkDown, CallersInPlace
  <2>2. SlotOfSession'
    BY <1>3 DEF EndProvisional, Pumping, LinkDown, SlotOfSession, CleanupPending
  <2>3. CandidateIsUnknown'
    BY <1>3 DEF EndProvisional, Pumping, LinkDown, CandidateIsUnknown
  <2>4. WindowOfSession'
    BY <1>3 DEF EndProvisional, Pumping, LinkDown, WindowOfSession, CleanupPending
  <2>5. SessionsAreIsolated'
    BY <1>3 DEF EndProvisional, Pumping, LinkDown, SessionsAreIsolated, CandidateIsUnknown,
       CleanupPending
  <2>6. SlotHasOneOwner' /\ FlagsAreConsumed' /\ CleanedIsEmpty' /\ CancelsReach' /\
     AckedCancelStops'
    BY <1>3 DEF EndProvisional, LinkDown, SlotHasOneOwner, FlagsAreConsumed, CleanedIsEmpty,
       CancelsReach, AckedCancelStops
  <2> QED
    BY <1>0, <2>1, <2>2, <2>3, <2>4, <2>5, <2>6
<1>4. CASE EndSessionNow
  <2>1. CallersInPlace'
    BY <1>4 DEF EndSessionNow, NoUpdate, Pumping, LinkDown, CallersInPlace
  <2>2. SlotOfSession'
    BY <1>4 DEF EndSessionNow, NoUpdate, Pumping, LinkDown, SlotOfSession, SlotHasOneOwner,
       CleanupPending, Running
  <2>3. CleanedIsEmpty'
    BY <1>4 DEF EndSessionNow, NoUpdate, Pumping, LinkDown, CleanedIsEmpty
  <2>4. CandidateIsUnknown'
    BY <1>4 DEF EndSessionNow, NoUpdate, Pumping, LinkDown, CandidateIsUnknown
  <2>5. WindowOfSession'
    BY <1>4 DEF EndSessionNow, NoUpdate, Pumping, LinkDown, WindowOfSession, CleanupPending
  <2>6. SessionsAreIsolated'
    BY <1>4 DEF EndSessionNow, NoUpdate, Pumping, LinkDown, SessionsAreIsolated,
       CleanupPending
  <2>7. CancelsReach'
    BY <1>4 DEF EndSessionNow, NoUpdate, Pumping, LinkDown, CancelsReach, SlotHasOneOwner,
       Running
  <2>8. AckedCancelStops'
    BY <1>4, ExecutorAssumption DEF EndSessionNow, NoUpdate, Pumping, LinkDown,
       AckedCancelStops, TypeOK, SlotType, FlagType, TaskType, SessionType, DataType,
       Running
  <2>9. SlotHasOneOwner' /\ FlagsAreConsumed'
    BY <1>4 DEF EndSessionNow, LinkDown, SlotHasOneOwner, FlagsAreConsumed
  <2> QED
    BY <1>0, <2>1, <2>2, <2>3, <2>4, <2>5, <2>6, <2>7, <2>8, <2>9
<1>5. CASE EndSession
  <2>1. SlotHasOneOwner'
    BY <1>5 DEF EndSession, Pumping, SlotHasOneOwner, Running
  <2>2. CallersInPlace'
    BY <1>5 DEF EndSession, Pumping, CallersInPlace
  <2>3. CancelsReach'
    BY <1>5 DEF EndSession, Pumping, CancelsReach, NoUpdate
  <2>4. FlagsAreConsumed' /\ SlotOfSession' /\ CleanedIsEmpty' /\ CandidateIsUnknown' /\
     WindowOfSession' /\ SessionsAreIsolated' /\ AckedCancelStops'
    BY <1>5 DEF EndSession, FlagsAreConsumed, SlotOfSession, CleanedIsEmpty,
       CandidateIsUnknown, WindowOfSession, SessionsAreIsolated, AckedCancelStops,
       CleanupPending
  <2> QED
    BY <1>0, <2>1, <2>2, <2>3, <2>4
<1>6. CASE Abandon
  <2>1. SlotHasOneOwner'
    BY <1>6 DEF Abandon, LinkDown, MustQueue, Notify, SlotHasOneOwner, CallersInPlace,
       Running
  <2>2. FlagsAreConsumed'
    BY <1>6, ExecutorAssumption DEF Abandon, LinkDown, MustQueue, Notify, FlagsAreConsumed,
       TypeOK, SlotHasOneOwner, Running, NoTake, SlotType, FlagType, TaskType, SessionType,
       DataType
  <2>3. CallersInPlace'
    BY <1>6 DEF Abandon, LinkDown, MustQueue, Notify, CallersInPlace
  <2>4. SlotOfSession'
    BY <1>6 DEF Abandon, LinkDown, MustQueue, Notify, SlotOfSession, SlotHasOneOwner,
       CleanupPending, Running
  <2>5. CleanedIsEmpty'
    BY <1>6 DEF Abandon, LinkDown, MustQueue, Notify, CleanedIsEmpty, NoUpdate
  <2>6. CandidateIsUnknown'
    BY <1>6 DEF Abandon, LinkDown, MustQueue, Notify, CandidateIsUnknown, CallersInPlace
  <2>7. WindowOfSession'
    BY <1>6 DEF Abandon, LinkDown, MustQueue, Notify, WindowOfSession, CleanupPending
  <2>8. SessionsAreIsolated'
    BY <1>6, ExecutorAssumption DEF Abandon, LinkDown, MustQueue, Notify,
       SessionsAreIsolated, TypeOK, SlotHasOneOwner, CleanupPending, Running, SlotType,
       FlagType, TaskType, SessionType, DataType
  <2>9. CancelsReach'
    BY <1>6, ExecutorAssumption DEF Abandon, LinkDown, MustQueue, Notify, CancelsReach,
       TypeOK, NoUpdate, SlotType, FlagType, TaskType, SessionType, DataType, Running
  <2>10. AckedCancelStops'
    BY <1>6 DEF Abandon, LinkDown, MustQueue, Notify, AckedCancelStops
  <2> QED
    BY <1>0, <2>1, <2>2, <2>3, <2>4, <2>5, <2>6, <2>7, <2>8, <2>9, <2>10
<1>7. ASSUME NEW r \in Request, Reserve(r) PROVE ExecutorInv'
  <2>1. SlotHasOneOwner'
    BY <1>7 DEF Reserve, ExecutorBusy, Pumping, Receives, SlotHasOneOwner, Running
  <2>2. FlagsAreConsumed'
    BY <1>7 DEF Reserve, ExecutorBusy, Pumping, Receives, FlagsAreConsumed, NoTake
  <2>3. CallersInPlace'
    BY <1>7 DEF Reserve, ExecutorBusy, Pumping, Receives, CallersInPlace
  <2>4. SlotOfSession'
    BY <1>7 DEF Reserve, ExecutorBusy, Pumping, Receives, SlotOfSession, CleanupPending
  <2>5. CleanedIsEmpty'
    BY <1>7 DEF Reserve, ExecutorBusy, Pumping, Receives, CleanedIsEmpty, NoUpdate
  <2>6. WindowOfSession'
    BY <1>7 DEF Reserve, ExecutorBusy, Pumping, Receives, WindowOfSession, CleanupPending
  <2>7. SessionsAreIsolated'
    BY <1>7 DEF Reserve, ExecutorBusy, Pumping, Receives, SessionsAreIsolated,
       CleanupPending
  <2>8. CancelsReach'
    BY <1>7 DEF Reserve, ExecutorBusy, Pumping, Receives, CancelsReach, SlotHasOneOwner,
       Running, NoUpdate
  <2>9. AckedCancelStops'
    BY <1>7 DEF Reserve, ExecutorBusy, Pumping, Receives, AckedCancelStops
  <2>10. CandidateIsUnknown'
    BY <1>7 DEF Reserve, CandidateIsUnknown
  <2> QED
    BY <1>0, <2>1, <2>2, <2>3, <2>4, <2>5, <2>6, <2>7, <2>8, <2>9, <2>10
<1>8. CASE EnsureFails
  <2>1. SlotHasOneOwner'
    BY <1>8 DEF EnsureFails, SlotHasOneOwner, Running
  <2>2. FlagsAreConsumed'
    BY <1>8 DEF EnsureFails, FlagsAreConsumed, SlotHasOneOwner, Running, NoTake
  <2>3. CallersInPlace'
    BY <1>8 DEF EnsureFails, CallersInPlace
  <2>4. SlotOfSession'
    BY <1>8 DEF EnsureFails, SlotOfSession, CleanupPending
  <2>5. CleanedIsEmpty'
    BY <1>8 DEF EnsureFails, CleanedIsEmpty, NoUpdate
  <2>6. WindowOfSession'
    BY <1>8 DEF EnsureFails, WindowOfSession, SlotHasOneOwner, CleanupPending, Running
  <2>7. SessionsAreIsolated'
    BY <1>8 DEF EnsureFails, SessionsAreIsolated, SlotHasOneOwner, CleanupPending, Running
  <2>8. CancelsReach'
    BY <1>8 DEF EnsureFails, CancelsReach, NoUpdate
  <2>9. AckedCancelStops'
    BY <1>8 DEF EnsureFails, AckedCancelStops, SlotHasOneOwner, Running
  <2>10. CandidateIsUnknown'
    BY <1>8 DEF EnsureFails, CandidateIsUnknown
  <2> QED
    BY <1>0, <2>1, <2>2, <2>3, <2>4, <2>5, <2>6, <2>7, <2>8, <2>9, <2>10
<1>9. CASE Queue
  <2>1. SlotHasOneOwner'
    BY <1>9 DEF Queue, Notify, SlotHasOneOwner, Running
  <2>2. FlagsAreConsumed'
    BY <1>9 DEF Queue, Notify, FlagsAreConsumed, NoTake
  <2>3. CallersInPlace'
    BY <1>9 DEF Queue, Notify, CallersInPlace
  <2>4. SlotOfSession'
    BY <1>9 DEF Queue, Notify, SlotOfSession, CallersInPlace, CleanupPending
  <2>5. CleanedIsEmpty'
    BY <1>9 DEF Queue, Notify, CleanedIsEmpty, NoUpdate
  <2>6. CandidateIsUnknown'
    BY <1>9 DEF Queue, Notify, CandidateIsUnknown, CallersInPlace
  <2>7. WindowOfSession'
    BY <1>9 DEF Queue, Notify, WindowOfSession, CleanupPending
  <2>8. SessionsAreIsolated'
    BY <1>9 DEF Queue, Notify, SessionsAreIsolated, SlotHasOneOwner, CleanupPending, Running
  <2>9. CancelsReach'
    BY <1>9 DEF Queue, Notify, CancelsReach, NoUpdate
  <2>10. AckedCancelStops'
    BY <1>9 DEF Queue, Notify, AckedCancelStops
  <2> QED
    BY <1>0, <2>1, <2>2, <2>3, <2>4, <2>5, <2>6, <2>7, <2>8, <2>9, <2>10
<1>10. CASE AnswerBusy
  <2>1. SlotHasOneOwner' /\ FlagsAreConsumed' /\ CallersInPlace' /\ SlotOfSession' /\
     CleanedIsEmpty' /\ CandidateIsUnknown' /\ WindowOfSession' /\ SessionsAreIsolated' /\
     CancelsReach' /\ AckedCancelStops'
    BY <1>10 DEF AnswerBusy, SlotHasOneOwner, FlagsAreConsumed, CallersInPlace,
       SlotOfSession, CleanedIsEmpty, CandidateIsUnknown, WindowOfSession,
       SessionsAreIsolated, CancelsReach, AckedCancelStops, CleanupPending
  <2> QED
    BY <1>0, <2>1
<1>11. ASSUME NEW r \in Request, CancelBusy(r) PROVE ExecutorInv'
  <2>1. SlotHasOneOwner'
    BY <1>11 DEF CancelBusy, ExecutorBusy, Pumping, Receives, SlotHasOneOwner, Running
  <2>2. CallersInPlace'
    BY <1>11 DEF CancelBusy, ExecutorBusy, Pumping, Receives, CallersInPlace
  <2>3. CancelsReach'
    BY <1>11 DEF CancelBusy, ExecutorBusy, Pumping, Receives, CancelsReach, NoUpdate
  <2>4. FlagsAreConsumed' /\ SlotOfSession' /\ CleanedIsEmpty' /\ CandidateIsUnknown' /\
     WindowOfSession' /\ SessionsAreIsolated' /\ AckedCancelStops'
    BY <1>11 DEF CancelBusy, FlagsAreConsumed, SlotOfSession, CleanedIsEmpty,
       CandidateIsUnknown, WindowOfSession, SessionsAreIsolated, AckedCancelStops,
       CleanupPending
  <2> QED
    BY <1>0, <2>1, <2>2, <2>3, <2>4
<1>12. CASE RequestCancel
  <2>1. SlotHasOneOwner'
    BY <1>12 DEF RequestCancel, CancelAccepted, SlotHasOneOwner, Running
  <2>2. CallersInPlace'
    BY <1>12 DEF RequestCancel, CancelAccepted, CallersInPlace
  <2>3. CancelsReach'
    BY <1>12 DEF RequestCancel, CancelAccepted, CancelsReach, NoUpdate
  <2>4. AckedCancelStops'
    BY <1>12, ExecutorAssumption DEF RequestCancel, CancelAccepted, AckedCancelStops,
       TypeOK, SlotHasOneOwner, CancelsReach, Running, NoUpdate, SlotType, FlagType,
       TaskType, SessionType, DataType
  <2>5. FlagsAreConsumed' /\ SlotOfSession' /\ CleanedIsEmpty' /\ CandidateIsUnknown' /\
     WindowOfSession' /\ SessionsAreIsolated'
    BY <1>12 DEF RequestCancel, FlagsAreConsumed, SlotOfSession, CleanedIsEmpty,
       CandidateIsUnknown, WindowOfSession, SessionsAreIsolated, CleanupPending
  <2> QED
    BY <1>0, <2>1, <2>2, <2>3, <2>4, <2>5
<1>13. CASE DrainClaim
  <2>1. SlotHasOneOwner'
    BY <1>13 DEF DrainClaim, Pumping, SlotHasOneOwner, Running
  <2>2. FlagsAreConsumed'
    BY <1>13 DEF DrainClaim, Pumping, FlagsAreConsumed, NoTake
  <2>3. CallersInPlace'
    BY <1>13 DEF DrainClaim, Pumping, CallersInPlace
  <2>4. SlotOfSession'
    BY <1>13 DEF DrainClaim, Pumping, SlotOfSession, CleanupPending
  <2>5. CleanedIsEmpty'
    BY <1>13 DEF DrainClaim, Pumping, CleanedIsEmpty, NoUpdate
  <2>6. WindowOfSession'
    BY <1>13 DEF DrainClaim, Pumping, WindowOfSession, CleanupPending
  <2>7. SessionsAreIsolated'
    BY <1>13 DEF DrainClaim, Pumping, SessionsAreIsolated, CleanupPending
  <2>8. CancelsReach'
    BY <1>13 DEF DrainClaim, Pumping, CancelsReach, NoUpdate
  <2>9. AckedCancelStops'
    BY <1>13 DEF DrainClaim, Pumping, AckedCancelStops
  <2>10. CandidateIsUnknown'
    BY <1>13 DEF DrainClaim, CandidateIsUnknown
  <2> QED
    BY <1>0, <2>1, <2>2, <2>3, <2>4, <2>5, <2>6, <2>7, <2>8, <2>9, <2>10
<1>14. CASE Drain
  <2>1. SlotHasOneOwner'
    BY <1>14 DEF Drain, Deliverable, SlotFreed, NoWork, Notify, SlotHasOneOwner, Running
  <2>2. FlagsAreConsumed'
    BY <1>14 DEF Drain, SlotFreed, FlagsAreConsumed, SlotHasOneOwner, NoTake
  <2>3. CallersInPlace'
    BY <1>14 DEF Drain, Deliverable, SlotFreed, NoWork, Notify, CallersInPlace
  <2>4. SlotOfSession'
    BY <1>14 DEF Drain, Deliverable, SlotFreed, NoWork, Notify, SlotOfSession,
       CleanupPending
  <2>5. CleanedIsEmpty'
    BY <1>14 DEF Drain, Deliverable, SlotFreed, NoWork, Notify, CleanedIsEmpty, NoUpdate
  <2>6. CandidateIsUnknown'
    BY <1>14 DEF Drain, CandidateIsUnknown, CallersInPlace
  <2>7. WindowOfSession'
    BY <1>14 DEF Drain, Deliverable, SlotFreed, NoWork, Notify, WindowOfSession,
       SlotHasOneOwner, CleanupPending, Running
  <2>8. SessionsAreIsolated'
    BY <1>14 DEF Drain, Deliverable, SlotFreed, NoWork, Notify, SessionsAreIsolated,
       SlotHasOneOwner, CleanupPending, Running
  <2>9. CancelsReach'
    BY <1>14 DEF Drain, Deliverable, SlotFreed, NoWork, Notify, CancelsReach,
       SlotHasOneOwner, FlagsAreConsumed, Running, NoTake, NoUpdate
  <2>10. AckedCancelStops'
    BY <1>14 DEF Drain, Deliverable, SlotFreed, NoWork, Notify, AckedCancelStops,
       SlotHasOneOwner, Running
  <2> QED
    BY <1>0, <2>1, <2>2, <2>3, <2>4, <2>5, <2>6, <2>7, <2>8, <2>9, <2>10
<1>15. CASE FlushTx
  <2>1. SlotHasOneOwner' /\ FlagsAreConsumed' /\ CallersInPlace' /\ SlotOfSession' /\
     CleanedIsEmpty' /\ CandidateIsUnknown' /\ WindowOfSession' /\ SessionsAreIsolated' /\
     CancelsReach' /\ AckedCancelStops'
    BY <1>15 DEF FlushTx, SlotHasOneOwner, FlagsAreConsumed, CallersInPlace, SlotOfSession,
       CleanedIsEmpty, CandidateIsUnknown, WindowOfSession, SessionsAreIsolated,
       CancelsReach, AckedCancelStops, CleanupPending
  <2> QED
    BY <1>0, <2>1
<1>16. CASE Take
  <2>1. SlotHasOneOwner'
    BY <1>16 DEF Take, SlotHasOneOwner, Running
  <2>2. FlagsAreConsumed'
    BY <1>16 DEF Take, FlagsAreConsumed, NoTake
  <2>3. SlotOfSession'
    BY <1>16 DEF Take, SlotOfSession, CleanupPending
  <2>4. CleanedIsEmpty'
    BY <1>16 DEF Take, CleanedIsEmpty, FlagsAreConsumed, NoUpdate
  <2>5. WindowOfSession'
    BY <1>16 DEF Take, WindowOfSession, CleanupPending
  <2>6. SessionsAreIsolated'
    BY <1>16 DEF Take, SessionsAreIsolated, CleanupPending
  <2>7. CancelsReach'
    BY <1>16 DEF Take, CancelsReach, NoUpdate
  <2>8. AckedCancelStops'
    BY <1>16 DEF Take, AckedCancelStops
  <2>9. CallersInPlace' /\ CandidateIsUnknown'
    BY <1>16 DEF Take, CallersInPlace, CandidateIsUnknown
  <2> QED
    BY <1>0, <2>1, <2>2, <2>3, <2>4, <2>5, <2>6, <2>7, <2>8, <2>9
<1>17. CASE Skip
  <2>1. SlotHasOneOwner'
    BY <1>17 DEF Skip, SlotHasOneOwner, Running
  <2>2. FlagsAreConsumed'
    BY <1>17 DEF Skip, FlagsAreConsumed, NoTake
  <2>3. SessionsAreIsolated'
    BY <1>17 DEF Skip, SessionsAreIsolated, CleanupPending
  <2>4. CancelsReach'
    BY <1>17 DEF Skip, CancelsReach, NoUpdate
  <2>5. CallersInPlace' /\ SlotOfSession' /\ CleanedIsEmpty' /\ CandidateIsUnknown' /\
     WindowOfSession' /\ AckedCancelStops'
    BY <1>17 DEF Skip, CallersInPlace, SlotOfSession, CleanedIsEmpty, CandidateIsUnknown,
       WindowOfSession, AckedCancelStops, CleanupPending
  <2> QED
    BY <1>0, <2>1, <2>2, <2>3, <2>4, <2>5
<1>18. CASE Handle
  <2>1. SlotHasOneOwner'
    BY <1>18 DEF Handle, SlotHasOneOwner, Running
  <2>2. FlagsAreConsumed'
    BY <1>18 DEF Handle, FlagsAreConsumed, NoTake
  <2>3. SessionsAreIsolated'
    BY <1>18 DEF Handle, SessionsAreIsolated, SlotHasOneOwner, FlagsAreConsumed,
       SlotOfSession, WindowOfSession, CleanupPending, Running, NoTake
  <2>4. CancelsReach'
    BY <1>18 DEF Handle, CancelsReach, NoUpdate
  <2>5. CallersInPlace' /\ SlotOfSession' /\ CleanedIsEmpty' /\ CandidateIsUnknown' /\
     WindowOfSession' /\ AckedCancelStops'
    BY <1>18 DEF Handle, CallersInPlace, SlotOfSession, CleanedIsEmpty, CandidateIsUnknown,
       WindowOfSession, AckedCancelStops, CleanupPending
  <2> QED
    BY <1>0, <2>1, <2>2, <2>3, <2>4, <2>5
<1>19. ASSUME NEW fresh \in BOOLEAN, HandleRpc(fresh) PROVE ExecutorInv'
  <2>1. SlotHasOneOwner'
    BY <1>19 DEF HandleRpc, Reply, Rpc, SlotHasOneOwner, Running
  <2>2. FlagsAreConsumed'
    BY <1>19 DEF HandleRpc, Reply, Rpc, FlagsAreConsumed, NoTake
  <2>3. SlotOfSession'
    BY <1>19 DEF HandleRpc, Reply, Rpc, SlotOfSession, CleanupPending
  <2>4. CleanedIsEmpty'
    BY <1>19 DEF HandleRpc, Reply, Rpc, CleanedIsEmpty, FlagsAreConsumed, NoTake, NoUpdate
  <2>5. CandidateIsUnknown'
    BY <1>19 DEF HandleRpc, Reply, Rpc, CandidateIsUnknown
  <2>6. WindowOfSession'
    BY <1>19 DEF HandleRpc, Reply, Rpc, WindowOfSession, SlotHasOneOwner, FlagsAreConsumed,
       SlotOfSession, CleanupPending, Running, NoTake
  <2>7. SessionsAreIsolated'
    BY <1>19 DEF HandleRpc, Reply, Rpc, SessionsAreIsolated, CleanupPending
  <2>8. CancelsReach'
    BY <1>19 DEF HandleRpc, Reply, Rpc, CancelsReach, NoUpdate
  <2>9. CallersInPlace' /\ AckedCancelStops'
    BY <1>19 DEF HandleRpc, Reply, Rpc, CallersInPlace, AckedCancelStops
  <2> QED
    BY <1>0, <2>1, <2>2, <2>3, <2>4, <2>5, <2>6, <2>7, <2>8, <2>9
<1>20. CASE HandleUpdate
  <2>1. SlotHasOneOwner'
    BY <1>20 DEF HandleUpdate, Reply, Rpc, UpdateOutcomes, SlotHasOneOwner, Running
  <2>2. FlagsAreConsumed'
    BY <1>20 DEF HandleUpdate, Reply, Rpc, UpdateOutcomes, FlagsAreConsumed, NoTake
  <2>3. SlotOfSession'
    BY <1>20 DEF HandleUpdate, Reply, Rpc, UpdateOutcomes, SlotOfSession, CleanupPending
  <2>4. CleanedIsEmpty'
    BY <1>20 DEF HandleUpdate, Reply, Rpc, UpdateOutcomes, CleanedIsEmpty, FlagsAreConsumed,
       NoTake, NoUpdate
  <2>5. CandidateIsUnknown'
    BY <1>20, ExecutorAssumption DEF HandleUpdate, Reply, Rpc, UpdateOutcomes,
       CandidateIsUnknown, TypeOK, SlotType, FlagType, TaskType, SessionType, DataType,
       Running
  <2>6. SessionsAreIsolated'
    BY <1>20 DEF HandleUpdate, Reply, Rpc, UpdateOutcomes, SessionsAreIsolated,
       SlotHasOneOwner, FlagsAreConsumed, SlotOfSession, CleanupPending, Running, NoTake
  <2>7. CancelsReach'
    BY <1>20 DEF HandleUpdate, Reply, Rpc, UpdateOutcomes, CancelsReach, SlotHasOneOwner,
       Running, NoUpdate
  <2>8. AckedCancelStops'
    BY <1>20 DEF HandleUpdate, Reply, UpdateOutcomes, AckedCancelStops, SlotHasOneOwner,
       Running
  <2>9. CallersInPlace' /\ WindowOfSession'
    BY <1>20 DEF HandleUpdate, Reply, Rpc, CallersInPlace, WindowOfSession, CleanupPending
  <2> QED
    BY <1>0, <2>1, <2>2, <2>3, <2>4, <2>5, <2>6, <2>7, <2>8, <2>9
<1>21. ASSUME NEW kept \in BOOLEAN, EndRefused(kept) PROVE ExecutorInv'
  <2>1. SlotHasOneOwner'
    BY <1>21 DEF EndRefused, Reply, Rpc, SlotHasOneOwner, Running
  <2>2. FlagsAreConsumed'
    BY <1>21 DEF EndRefused, Reply, Rpc, FlagsAreConsumed, NoTake
  <2>3. SlotOfSession'
    BY <1>21 DEF EndRefused, Reply, Rpc, SlotOfSession, CleanupPending
  <2>4. CleanedIsEmpty'
    BY <1>21 DEF EndRefused, Reply, Rpc, CleanedIsEmpty, NoUpdate
  <2>5. CandidateIsUnknown'
    BY <1>21, ExecutorAssumption DEF EndRefused, Reply, Rpc, CandidateIsUnknown, TypeOK,
       SlotType, FlagType, TaskType, SessionType, DataType, Running
  <2>6. SessionsAreIsolated'
    BY <1>21 DEF EndRefused, Reply, Rpc, SessionsAreIsolated, CleanupPending
  <2>7. CancelsReach'
    BY <1>21 DEF EndRefused, Reply, Rpc, CancelsReach, NoUpdate
  <2>8. AckedCancelStops'
    BY <1>21 DEF EndRefused, Reply, Rpc, AckedCancelStops
  <2>9. CallersInPlace' /\ WindowOfSession'
    BY <1>21 DEF EndRefused, Reply, Rpc, CallersInPlace, WindowOfSession, CleanupPending
  <2> QED
    BY <1>0, <2>1, <2>2, <2>3, <2>4, <2>5, <2>6, <2>7, <2>8, <2>9
<1>22. CASE PassBoundary
  <2>1. SlotHasOneOwner'
    BY <1>22 DEF PassBoundary, Cancelled, SlotHasOneOwner, Running
  <2>2. FlagsAreConsumed'
    BY <1>22 DEF PassBoundary, Cancelled, FlagsAreConsumed, NoTake
  <2>3. SessionsAreIsolated'
    BY <1>22 DEF PassBoundary, Cancelled, SessionsAreIsolated, CleanupPending
  <2>4. CancelsReach'
    BY <1>22 DEF PassBoundary, Cancelled, CancelsReach, NoUpdate
  <2>5. CallersInPlace' /\ SlotOfSession' /\ CleanedIsEmpty' /\ CandidateIsUnknown' /\
     WindowOfSession' /\ AckedCancelStops'
    BY <1>22 DEF PassBoundary, CallersInPlace, SlotOfSession, CleanedIsEmpty,
       CandidateIsUnknown, WindowOfSession, AckedCancelStops, CleanupPending
  <2> QED
    BY <1>0, <2>1, <2>2, <2>3, <2>4, <2>5
<1>23. CASE Commit
  <2>1. SlotHasOneOwner'
    BY <1>23 DEF Commit, Reply, Rpc, SlotHasOneOwner, Running
  <2>2. FlagsAreConsumed'
    BY <1>23 DEF Commit, Reply, Rpc, FlagsAreConsumed, NoTake
  <2>3. SlotOfSession'
    BY <1>23 DEF Commit, Reply, Rpc, SlotOfSession, CleanupPending
  <2>4. CleanedIsEmpty'
    BY <1>23 DEF Commit, Reply, Rpc, CleanedIsEmpty, NoUpdate
  <2>5. CandidateIsUnknown'
    BY <1>23, ExecutorAssumption DEF Commit, Reply, Rpc, CandidateIsUnknown, TypeOK,
       SlotType, FlagType, TaskType, SessionType, DataType, Running
  <2>6. SessionsAreIsolated'
    BY <1>23 DEF Commit, Reply, Rpc, SessionsAreIsolated, CleanupPending
  <2>7. CancelsReach'
    BY <1>23 DEF Commit, Reply, Rpc, CancelsReach, NoUpdate
  <2>8. AckedCancelStops'
    BY <1>23 DEF Commit, Reply, Rpc, AckedCancelStops
  <2>9. CallersInPlace' /\ WindowOfSession'
    BY <1>23 DEF Commit, Reply, Rpc, CallersInPlace, WindowOfSession, CleanupPending
  <2> QED
    BY <1>0, <2>1, <2>2, <2>3, <2>4, <2>5, <2>6, <2>7, <2>8, <2>9
<1>24. ASSUME NEW jobs \in SUBSET Updates, TakeFlags(jobs) PROVE ExecutorInv'
  <2>1. SlotHasOneOwner'
    BY <1>24 DEF TakeFlags, NothingPending, SlotHasOneOwner, Running
  <2>2. FlagsAreConsumed'
    BY <1>24 DEF TakeFlags, NothingPending, FlagsAreConsumed, NoTake
  <2>3. SlotOfSession'
    BY <1>24 DEF TakeFlags, NothingPending, SlotOfSession, FlagsAreConsumed, CleanupPending,
       NoTake
  <2>4. WindowOfSession'
    BY <1>24 DEF TakeFlags, NothingPending, WindowOfSession, FlagsAreConsumed,
       CleanupPending, NoTake
  <2>5. SessionsAreIsolated'
    BY <1>24 DEF TakeFlags, NothingPending, SessionsAreIsolated, FlagsAreConsumed,
       CleanupPending, NoTake
  <2>6. CancelsReach'
    BY <1>24 DEF TakeFlags, NothingPending, CancelsReach, SlotHasOneOwner, FlagsAreConsumed,
       Running, NoTake, NoUpdate
  <2>7. CallersInPlace' /\ CleanedIsEmpty' /\ CandidateIsUnknown' /\ AckedCancelStops'
    BY <1>24 DEF TakeFlags, CallersInPlace, CleanedIsEmpty, CandidateIsUnknown,
       AckedCancelStops
  <2> QED
    BY <1>0, <2>1, <2>2, <2>3, <2>4, <2>5, <2>6, <2>7
<1>25. CASE Cleanup
  <2>1. SlotHasOneOwner'
    BY <1>25 DEF Cleanup, NoTake, SlotHasOneOwner, Running
  <2>2. FlagsAreConsumed'
    BY <1>25 DEF Cleanup, NoTake, FlagsAreConsumed
  <2>3. SlotOfSession'
    BY <1>25, ExecutorAssumption DEF Cleanup, NoTake, SlotOfSession, TypeOK,
       SlotHasOneOwner, CleanupPending, Running, SlotType, FlagType, TaskType, SessionType,
       DataType
  <2>4. CleanedIsEmpty'
    BY <1>25 DEF Cleanup, NoTake, CleanedIsEmpty, NoUpdate
  <2>5. CandidateIsUnknown'
    BY <1>25, ExecutorAssumption DEF Cleanup, NoTake, CandidateIsUnknown, TypeOK, SlotType,
       FlagType, TaskType, SessionType, DataType, Running
  <2>6. WindowOfSession'
    BY <1>25 DEF Cleanup, NoTake, WindowOfSession, CleanupPending
  <2>7. SessionsAreIsolated'
    BY <1>25 DEF Cleanup, NoTake, SessionsAreIsolated, CleanupPending
  <2>8. CancelsReach'
    BY <1>25, ExecutorAssumption DEF Cleanup, NoTake, CancelsReach, TypeOK, SlotHasOneOwner,
       FlagsAreConsumed, Running, NoUpdate, SlotType, FlagType, TaskType, SessionType, DataType
  <2>9. AckedCancelStops'
    BY <1>25 DEF Cleanup, NoTake, AckedCancelStops, SlotHasOneOwner, Running
  <2>10. CallersInPlace'
    BY <1>25 DEF Cleanup, CallersInPlace
  <2> QED
    BY <1>0, <2>1, <2>2, <2>3, <2>4, <2>5, <2>6, <2>7, <2>8, <2>9, <2>10
<1>26. CASE Finish
  <2>1. SlotHasOneOwner'
    BY <1>26 DEF Finish, NothingPending, SlotFreed, NoWork, SlotHasOneOwner, Running
  <2>2. FlagsAreConsumed'
    BY <1>26 DEF Finish, NothingPending, SlotFreed, NoWork, FlagsAreConsumed, NoTake
  <2>3. SlotOfSession'
    BY <1>26 DEF Finish, NothingPending, SlotFreed, NoWork, SlotOfSession, SlotHasOneOwner,
       FlagsAreConsumed, CleanupPending, Running, NoTake
  <2>4. CleanedIsEmpty'
    BY <1>26 DEF Finish, NothingPending, SlotFreed, NoWork, CleanedIsEmpty, NoUpdate
  <2>5. WindowOfSession'
    BY <1>26 DEF Finish, NothingPending, SlotFreed, NoWork, WindowOfSession,
       FlagsAreConsumed, CleanupPending, NoTake
  <2>6. SessionsAreIsolated'
    BY <1>26 DEF Finish, NothingPending, SlotFreed, NoWork, SessionsAreIsolated,
       FlagsAreConsumed, CleanupPending, NoTake
  <2>7. CancelsReach'
    BY <1>26 DEF Finish, NothingPending, SlotFreed, NoWork, CancelsReach, SlotHasOneOwner,
       CleanedIsEmpty, Running, NoUpdate
  <2>8. AckedCancelStops'
    BY <1>26 DEF Finish, NothingPending, SlotFreed, NoWork, AckedCancelStops,
       FlagsAreConsumed, CancelsReach, NoTake, NoUpdate
  <2>9. CallersInPlace' /\ CandidateIsUnknown'
    BY <1>26, ExecutorAssumption DEF Finish, SlotFreed, NoWork, CallersInPlace,
       CandidateIsUnknown, TypeOK, SessionType
  <2> QED
    BY <1>0, <2>1, <2>2, <2>3, <2>4, <2>5, <2>6, <2>7, <2>8, <2>9
<1>27. CASE Reap
  <2>1. SlotHasOneOwner'
    BY <1>27 DEF Reap, Reapable, SlotHasOneOwner, Running
  <2>2. CallersInPlace'
    BY <1>27 DEF Reap, Reapable, CallersInPlace
  <2>3. FlagsAreConsumed' /\ SlotOfSession' /\ CleanedIsEmpty' /\ CandidateIsUnknown' /\
     WindowOfSession' /\ SessionsAreIsolated' /\ CancelsReach' /\ AckedCancelStops'
    BY <1>27 DEF Reap, FlagsAreConsumed, SlotOfSession, CleanedIsEmpty, CandidateIsUnknown,
       WindowOfSession, SessionsAreIsolated, CancelsReach, AckedCancelStops, CleanupPending
  <2> QED
    BY <1>0, <2>1, <2>2, <2>3
<1>28. CASE Stop
  <2>1. FlagsAreConsumed'
    BY <1>28 DEF Stop, FlagsAreConsumed, NoTake
  <2>2. CallersInPlace'
    BY <1>28 DEF Stop, CallersInPlace
  <2>3. SlotHasOneOwner' /\ SlotOfSession' /\ CleanedIsEmpty' /\ CandidateIsUnknown' /\
     WindowOfSession' /\ SessionsAreIsolated' /\ CancelsReach' /\ AckedCancelStops'
    BY <1>28 DEF Stop, SlotHasOneOwner, SlotOfSession, CleanedIsEmpty, CandidateIsUnknown,
       WindowOfSession, SessionsAreIsolated, CancelsReach, AckedCancelStops, CleanupPending
  <2> QED
    BY <1>0, <2>1, <2>2, <2>3
<1>29. CASE WorkerGone
  <2>1. FlagsAreConsumed'
    BY <1>29 DEF WorkerGone, FlagsAreConsumed, NoTake
  <2>2. CallersInPlace'
    BY <1>29 DEF WorkerGone, CallersInPlace
  <2>3. SlotHasOneOwner' /\ SlotOfSession' /\ CleanedIsEmpty' /\ CandidateIsUnknown' /\
     WindowOfSession' /\ SessionsAreIsolated' /\ CancelsReach' /\ AckedCancelStops'
    BY <1>29 DEF WorkerGone, SlotHasOneOwner, SlotOfSession, CleanedIsEmpty,
       CandidateIsUnknown, WindowOfSession, SessionsAreIsolated, CancelsReach,
       AckedCancelStops, CleanupPending
  <2> QED
    BY <1>0, <2>1, <2>2, <2>3
<1>30. CASE DeinitNow
  <2>1. FlagsAreConsumed'
    BY <1>30 DEF DeinitNow, FlagsAreConsumed, NoTake
  <2>2. CallersInPlace'
    BY <1>30 DEF DeinitNow, CallersInPlace
  <2>3. CleanedIsEmpty'
    BY <1>30 DEF DeinitNow, CleanedIsEmpty, NoUpdate
  <2>4. CandidateIsUnknown'
    BY <1>30 DEF DeinitNow, CandidateIsUnknown, CallersInPlace
  <2>5. SessionsAreIsolated'
    BY <1>30 DEF DeinitNow, SessionsAreIsolated, CleanupPending
  <2>6. CancelsReach'
    BY <1>30 DEF DeinitNow, CancelsReach, SlotHasOneOwner, Running, NoUpdate
  <2>7. AckedCancelStops'
    BY <1>30, ExecutorAssumption DEF DeinitNow, AckedCancelStops, TypeOK, SlotType,
       FlagType, TaskType, SessionType, DataType, Running
  <2>8. SlotHasOneOwner' /\ SlotOfSession' /\ WindowOfSession'
    BY <1>30 DEF DeinitNow, SlotHasOneOwner, SlotOfSession, WindowOfSession, CleanupPending
  <2> QED
    BY <1>0, <2>1, <2>2, <2>3, <2>4, <2>5, <2>6, <2>7, <2>8
<1>31. CASE Deinit
  <2>1. SlotHasOneOwner'
    BY <1>31 DEF Deinit, SlotHasOneOwner, Running
  <2>2. CallersInPlace'
    BY <1>31 DEF Deinit, CallersInPlace
  <2>3. CancelsReach'
    BY <1>31 DEF Deinit, CancelsReach, NoUpdate
  <2>4. FlagsAreConsumed' /\ SlotOfSession' /\ CleanedIsEmpty' /\ CandidateIsUnknown' /\
     WindowOfSession' /\ SessionsAreIsolated' /\ AckedCancelStops'
    BY <1>31 DEF Deinit, FlagsAreConsumed, SlotOfSession, CleanedIsEmpty,
       CandidateIsUnknown, WindowOfSession, SessionsAreIsolated, AckedCancelStops,
       CleanupPending
  <2> QED
    BY <1>0, <2>1, <2>2, <2>3, <2>4
<1>32. ASSUME NEW ok \in BOOLEAN, Start(ok) PROVE ExecutorInv'
  <2>1. FlagsAreConsumed'
    BY <1>32 DEF Start, ExecutorBusy, MayStart, FlagsAreConsumed, SlotHasOneOwner, Running,
       NoTake
  <2>2. CallersInPlace'
    BY <1>32 DEF Start, ExecutorBusy, MayStart, CallersInPlace
  <2>3. SlotHasOneOwner' /\ SlotOfSession' /\ CleanedIsEmpty' /\ CandidateIsUnknown' /\
     WindowOfSession' /\ SessionsAreIsolated' /\ CancelsReach' /\ AckedCancelStops'
    BY <1>32 DEF Start, SlotHasOneOwner, SlotOfSession, CleanedIsEmpty, CandidateIsUnknown,
       WindowOfSession, SessionsAreIsolated, CancelsReach, AckedCancelStops, CleanupPending
  <2> QED
    BY <1>0, <2>1, <2>2, <2>3
<1>33. ASSUME NEW ok \in BOOLEAN, StopReturns(ok) PROVE ExecutorInv'
  <2>1. FlagsAreConsumed'
    BY <1>33 DEF StopReturns, ExecutorBusy, FlagsAreConsumed, NoTake
  <2>2. CallersInPlace'
    BY <1>33 DEF StopReturns, ExecutorBusy, CallersInPlace
  <2>3. SlotHasOneOwner' /\ SlotOfSession' /\ CleanedIsEmpty' /\ CandidateIsUnknown' /\
     WindowOfSession' /\ SessionsAreIsolated' /\ CancelsReach' /\ AckedCancelStops'
    BY <1>33 DEF StopReturns, SlotHasOneOwner, SlotOfSession, CleanedIsEmpty,
       CandidateIsUnknown, WindowOfSession, SessionsAreIsolated, CancelsReach,
       AckedCancelStops, CleanupPending
  <2> QED
    BY <1>0, <2>1, <2>2, <2>3
<1>34. CASE UNCHANGED vars
  BY <1>0, <1>34 DEF vars, SlotHasOneOwner, FlagsAreConsumed, CallersInPlace, SlotOfSession,
     CleanedIsEmpty, CandidateIsUnknown, WindowOfSession, SessionsAreIsolated, CancelsReach,
     AckedCancelStops, CleanupPending
<1>35. CASE AbandonPanics
  <2>1. SlotHasOneOwner' /\ FlagsAreConsumed' /\ CallersInPlace'
    BY <1>35 DEF AbandonPanics, LinkDown, NoTake, SlotHasOneOwner, FlagsAreConsumed,
       CallersInPlace, Running
  <2>2. SlotOfSession' /\ CleanedIsEmpty' /\ CandidateIsUnknown' /\ WindowOfSession'
    BY <1>35 DEF AbandonPanics, LinkDown, SlotOfSession, CleanedIsEmpty, CandidateIsUnknown,
       WindowOfSession
  <2>3. SessionsAreIsolated' /\ CancelsReach' /\ AckedCancelStops'
    BY <1>35 DEF AbandonPanics, NoUpdate, SessionsAreIsolated, CancelsReach, AckedCancelStops
  <2> QED
    BY <1>0, <2>1, <2>2, <2>3
<1>36. CASE RequestJobCancel
  <2>1. SlotHasOneOwner'
    BY <1>36 DEF RequestJobCancel, SlotHasOneOwner, Running
  <2>2. FlagsAreConsumed'
    BY <1>36 DEF RequestJobCancel, JobRuns, FlagsAreConsumed, CancelsReach, SlotHasOneOwner,
       NoTake, NoUpdate, TypeOK, TaskType, SlotType
  <2>3. CallersInPlace'
    BY <1>36 DEF RequestJobCancel, CallersInPlace
  <2>4. CancelsReach'
    BY <1>36 DEF RequestJobCancel, JobRuns, CancelsReach
  <2>5. AckedCancelStops'
    BY <1>36 DEF RequestJobCancel, JobRuns, AckedCancelStops, CancelsReach, SlotHasOneOwner,
       NoUpdate, TypeOK, TaskType
  <2>6. SlotOfSession' /\ CleanedIsEmpty' /\ CandidateIsUnknown' /\ WindowOfSession' /\
     SessionsAreIsolated'
    BY <1>36 DEF RequestJobCancel, SlotOfSession, CleanedIsEmpty, CandidateIsUnknown,
       WindowOfSession, SessionsAreIsolated, CleanupPending
  <2> QED
    BY <1>0, <2>1, <2>2, <2>3, <2>4, <2>5, <2>6
<1>37. CASE HandleJob
  <2>1. SlotHasOneOwner' /\ FlagsAreConsumed'
    BY <1>37 DEF HandleJob, Reply, SlotHasOneOwner, FlagsAreConsumed, Running, NoTake
  <2>2. SlotOfSession' /\ CleanedIsEmpty'
    BY <1>37 DEF HandleJob, Reply, SlotOfSession, CleanedIsEmpty, FlagsAreConsumed,
       CleanupPending
  <2>3. CandidateIsUnknown'
    BY <1>37, ExecutorAssumption DEF HandleJob, Reply, CandidateIsUnknown, TypeOK, SlotType,
       SessionType, DataType
  <2>4. SessionsAreIsolated'
    BY <1>37 DEF HandleJob, Reply, SessionsAreIsolated, CleanupPending, TypeOK, DataType
  <2>5. CancelsReach'
    BY <1>37 DEF HandleJob, Reply, CancelsReach, SlotHasOneOwner, Running
  <2>6. AckedCancelStops'
    BY <1>37 DEF HandleJob, Reply, AckedCancelStops, SlotHasOneOwner, Running
  <2>7. CallersInPlace' /\ WindowOfSession'
    BY <1>37 DEF HandleJob, Reply, CallersInPlace, WindowOfSession, CleanupPending
  <2> QED
    BY <1>0, <2>1, <2>2, <2>3, <2>4, <2>5, <2>6, <2>7
<1> QED
  BY <1>1, <1>2, <1>3, <1>4, <1>5, <1>6, <1>7, <1>8, <1>9, <1>10, <1>11, <1>12, <1>13, <1>14,
     <1>15, <1>16, <1>17, <1>18, <1>19, <1>20, <1>21, <1>22, <1>23, <1>24, <1>25, <1>26, <1>27,
     <1>28, <1>29, <1>30, <1>31, <1>32, <1>33, <1>34, <1>35, <1>36,
     <1>37 DEF Next, Protocol, Service,
        Application

-----------------------------------------------------------------------------

\* The inductive invariant holds in every reachable state, wherever the idle timeout fires.
THEOREM ExecutorInvariant == Spec => []ExecutorInv
<1>1. Init => ExecutorInv
  BY InvInit
<1>2. ExecutorInv /\ [Next]_vars => ExecutorInv'
  BY InvStep
<1> QED
  BY <1>1, <1>2, PTL DEF Spec

\* Type correctness of the slot, the two tasks and the session.
THEOREM TypeCorrect == Spec => []TypeOK
<1>1. Init => TypeOK
  BY InvInit DEF ExecutorInv
<1> QED
  BY <1>1, TypeStep, PTL DEF Spec

\* The work buffer of esp_iris_executor.inc has one user at a time and lives as
\* long as it is used.
THEOREM SlotOwnership == Spec => []SlotHasOneOwner
<1>1. ExecutorInv => SlotHasOneOwner
  BY DEF ExecutorInv
<1> QED
  BY <1>1, ExecutorInvariant, PTL

\* A new session meets no update and no RPC window of an ended one.
THEOREM SessionIsolation == Spec => []SessionsAreIsolated
<1>1. ExecutorInv => SessionsAreIsolated
  BY DEF ExecutorInv
<1> QED
  BY <1>1, ExecutorInvariant, PTL

\* A new session receives no completion of an ended one.
THEOREM CompletionsAreFresh == Spec => []NoStaleCompletion
<1>1. ExecutorInv => NoStaleCompletion
  BY DEF ExecutorInv, NoStaleCompletion, SlotOfSession, CleanupPending
<1> QED
  BY <1>1, ExecutorInvariant, PTL

\* An acknowledged cancel of an update or its job has stopped the update when the slot is
\* given up, and no update is committed after its cancel was acknowledged, nor a system
\* update after that of its job.
THEOREM CancelsHold == Spec => []AckedCancelStops /\ NoCommitAfterCancel
<1>1. ExecutorInv => AckedCancelStops
  BY DEF ExecutorInv
<1>2. ExecutorInv /\ [Next]_vars
        => [spc = "handler" /\ spc' = "committing" =>
               work.req.kind \notin acked \cup (ackedJob \ {Ota})]_vars
  <2> SUFFICES ASSUME ExecutorInv, [Next]_vars, spc = "handler", spc' = "committing"
               PROVE  work.req.kind \notin acked \cup (ackedJob \ {Ota})
    OBVIOUS
  <2>1. acked \subseteq cancel /\ ackedJob \subseteq jobCancel
    BY DEF ExecutorInv, CancelsReach
  <2>2. PassBoundary
    BY DEF Next, Protocol, Service, Application, vars, BeginSession, SessionReady,
       EndProvisional, EndSessionNow, EndSession, Abandon, AbandonPanics, Reserve, EnsureFails,
       Queue, AnswerBusy, CancelBusy, RequestCancel, RequestJobCancel, DrainClaim, Drain,
       FlushTx, Take, Skip, Handle, HandleRpc, HandleUpdate, HandleJob, EndRefused, Commit,
       TakeFlags, Cleanup, Finish, Reap, Stop, WorkerGone, DeinitNow, Deinit, Start,
       StopReturns, Reply
  <2> QED
    BY <2>1, <2>2 DEF PassBoundary, Cancelled
<1> QED
  BY <1>1, <1>2, ExecutorInvariant, PTL DEF Spec, NoCommitAfterCancel

\* A runtime that esp_iris_start() brought up has no deinitialisation of an
\* earlier one ahead of it.
THEOREM CleanStart == Spec => []StartIsClean
<1>1. ExecutorInv => StartIsClean
  BY DEF ExecutorInv, FlagsAreConsumed, StartIsClean
<1> QED
  BY <1>1, ExecutorInvariant, PTL
=============================================================================

----------------------------- MODULE HubRegistry -----------------------------
(***************************************************************************)
(* The endpoints, supervisors and live sessions of IrisHub (hub.py) with   *)
(* the mDNS callbacks that add and remove endpoints (mdns_discovery.py).   *)
(*                                                                         *)
(* One asyncio loop runs everything: a coroutine keeps the loop until it   *)
(* really suspends.  A supervisor's code between two awaits is one step;   *)
(* an mDNS callback takes several, and "turn" names it while it runs.      *)
(* Event sinks do not suspend, but may raise.                              *)
(***************************************************************************)
EXTENDS Integers, FiniteSets

CONSTANTS
    Usb, Tcp,        \* endpoints
    Devices,         \* device ids
    Services,        \* mDNS service names: a prefix and the MAC of the device
    Owner,           \* the device of each service
    Supervisors,     \* tasks of _supervise
    Callbacks,       \* tasks of mDNS state changes
    None,
    Contended,       \* endpoints whose lock another process may hold
    Lapses           \* which of the lapses below may happen

Endpoints == Usb \cup Tcp
EndpointState == [dev : Devices \cup {None}, mdns : BOOLEAN, adv : Devices \cup {None}]

ASSUME HubAssumption ==
    /\ Usb \cap Tcp = {}
    /\ None \notin Endpoints \cup Devices \cup Services \cup Supervisors \cup Callbacks
    /\ None \notin EndpointState
    /\ Owner \in [Services -> Devices]
    /\ Contended \subseteq Endpoints
    /\ Lapses \subseteq {"overlap", "shared", "roam", "raised"}

VARIABLES
    state,    \* _endpoint_states: remembered device, origin and advertised device
    held,     \* _locks
    maint,    \* _maintenance_endpoints
    task,     \* _endpoint_tasks
    devices,  \* _devices, by the supervisor whose session it is
    svc,      \* _mdns_services
    devSvc,   \* _mdns_devices
    sup,      \* endpoint and progress of each supervisor, the device of its session
    cb,       \* progress of each mDNS callback
    turn,     \* the callback that has the loop
    quiesce,  \* the quiesce_endpoint() call in progress
    phase,    \* start, service and the progress of close()
    network,  \* the address at which each service is advertised
    lapses    \* history.  "overlap": an mDNS callback started while another one waited;
              \* "shared": two services, or one and the command line, named one address;
              \* "roam": a device that a USB endpoint remembers appeared elsewhere;
              \* "raised": the event sink raised into a supervisor

tables == <<state, held, maint, task>>
mdns == <<svc, devSvc>>
vars == <<state, held, maint, task, devices, svc, devSvc, sup, cb, turn, quiesce, phase, network,
          lapses>>

IdleSup == [ep |-> None, pc |-> "done", dev |-> None, cancel |-> FALSE]
IdleCb == [pc |-> "idle", svc |-> None, ep |-> None, on |-> None, waits |-> None, then |-> "idle"]
NoQuiesce == [ep |-> None, dev |-> None, waits |-> None]

\* The step is one of the lapses in found, all of which may happen.
Lapse(found) == found \subseteq Lapses /\ lapses' = lapses \cup found

Known(e) == state[e] # None
\* What EndpointLock.acquire() may find.
Free(e, ok) == ok \/ e \in Contended

\* The tables that a new hub has empty.
EmptyTables ==
    /\ task = [e \in Endpoints |-> None]
    /\ devices = [d \in Devices |-> None]
    /\ svc = [s \in Services |-> None]
    /\ devSvc = [d \in Devices |-> None]

\* reserve_maintenance_endpoint() has restored the leases of an earlier run.
Init ==
    /\ EmptyTables
    /\ maint \in SUBSET Usb
    /\ held = maint
    /\ state \in [Endpoints -> {None} \cup [dev : Devices \cup {None}, mdns : {FALSE}, adv : {None}]]
    /\ \A e \in Endpoints : Known(e) <=> e \in maint
    /\ sup = [t \in Supervisors |-> IdleSup]
    /\ cb = [c \in Callbacks |-> IdleCb]
    /\ turn = None
    /\ quiesce = NoQuiesce
    /\ phase = "start"
    /\ network = [s \in Services |-> None]
    /\ lapses = {}

-----------------------------------------------------------------------------
(* Helpers. *)

Ended == {"done", "died"}
Waited == {cb[c].waits : c \in Callbacks} \cup {quiesce.waits}
\* A task object that nothing refers to.
Spare(t) ==
    /\ sup[t].pc \in Ended
    /\ t \notin Waited
    /\ \A e \in Endpoints : task[e] # t
    /\ \A d \in Devices : devices[d] # t

Fresh(e) == [ep |-> e, pc |-> "new", dev |-> None, cancel |-> FALSE]
\* task.cancel(): nothing happens to a task that is over.
Cancelled(r) == IF r.pc \in Ended THEN r ELSE [r EXCEPT !.cancel = TRUE]

\* _add_supervisor() after the state was set: ok, the lock of the endpoint is free;
\* m, the endpoints under maintenance.
StartSupervisor(e, ok, m) ==
    IF task[e] # None \/ e \in m \/ (e \notin held /\ ~ok)
    THEN UNCHANGED <<held, task, sup>>
    ELSE /\ held' = held \cup {e}
         /\ \E t \in Supervisors :
               /\ Spare(t)
               /\ task' = [task EXCEPT ![e] = t]
               /\ sup' = [sup EXCEPT ![t] = Fresh(e)]

NewState == [dev |-> None, mdns |-> FALSE, adv |-> None]
StateOf(e) == IF Known(e) THEN state[e] ELSE NewState

\* Mutant: the task stays in the table.
MutPopped(e) == task
Popped(e) == [task EXCEPT ![e] = None]

-----------------------------------------------------------------------------
(* Start: endpoints of the command line, before any task runs. *)

\* add_tcp() or add_usb(); a lock that is taken ends the gateway.
AddManual(e, ok) ==
    /\ phase = "start"
    /\ Free(e, ok)
    /\ state' = [state EXCEPT ![e] = StateOf(e)]
    /\ StartSupervisor(e, ok, maint)
    /\ phase' = IF ok \/ e \in held THEN "start" ELSE "discovery"
    /\ UNCHANGED <<maint, devices, mdns, cb, turn, quiesce, network, lapses>>

\* start_usb_discovery() and start_mdns_discovery(); the loop runs the tasks.
Serve ==
    /\ phase = "start"
    /\ phase' = "serve"
    /\ UNCHANGED <<tables, devices, mdns, sup, cb, turn, quiesce, network, lapses>>

-----------------------------------------------------------------------------
(* _supervise() *)

Runs(t, pc) == turn = None /\ phase # "start" /\ sup[t].pc = pc
Goes(t, pc) == sup' = [sup EXCEPT ![t].pc = pc]
Ends(t, how) == sup' = [sup EXCEPT ![t] = [ep |-> None, pc |-> how, dev |-> None, cancel |-> FALSE]]
Outside == <<held, maint, task, mdns, cb, turn, quiesce, phase, network>>
Others == <<Outside, lapses>>

\* Mutant: a supervisor removes the session of whoever has the device.
MutDisowned(t) == [devices EXCEPT ![sup[t].dev] = None]
\* The finally of _supervise(): its own session is no longer registered.
Disowned(t) ==
    [d \in Devices |-> IF d = sup[t].dev /\ devices[d] = t THEN None ELSE devices[d]]

\* _set_endpoint_state() finds no state: KeyError ends the task.
Dies(t) ==
    /\ Ends(t, "died")
    /\ devices' = Disowned(t)
    /\ UNCHANGED <<state, Others>>

Connect(t) ==
    /\ Runs(t, "new") \/ Runs(t, "sleeping")
    /\ ~sup[t].cancel
    /\ IF Known(sup[t].ep)
       THEN Goes(t, "opening") /\ UNCHANGED <<state, devices, Others>>
       ELSE Dies(t)

Opened(t) ==
    /\ Runs(t, "opening")
    /\ ~sup[t].cancel
    /\ IF Known(sup[t].ep)
       THEN Goes(t, "session") /\ UNCHANGED <<state, devices, Others>>
       ELSE Dies(t)

\* _on_ready(): the identity is the advertised one and has no session yet.
Accepts(t, d) ==
    /\ state[sup[t].ep].adv \in {None, d}
    /\ devices[d] \in {None, t}

Hello(t, d) ==
    LET e == sup[t].ep IN
    /\ Runs(t, "session")
    /\ ~sup[t].cancel
    /\ IF ~Known(e) THEN Dies(t)
       ELSE /\ Lapse(IF \A u \in Usb \ {e} : StateOf(u).dev # d THEN {} ELSE {"roam"})
            /\ IF Accepts(t, d)
               THEN /\ devices' = [devices EXCEPT ![d] = t]
                    /\ state' = [state EXCEPT ![e].dev = d]
                    /\ sup' = [sup EXCEPT ![t].dev = d, ![t].pc = "ready"]
                    /\ UNCHANGED Outside
               ELSE /\ sup' = [sup EXCEPT ![t].dev = d, ![t].pc = "closing"]
                    /\ UNCHANGED <<state, devices, Outside>>

\* The link breaks, the session fails or the event sink raises; run() closes the link.
LinkLost(t) ==
    /\ Runs(t, "session") \/ Runs(t, "ready")
    /\ ~sup[t].cancel
    /\ Goes(t, "closing")
    /\ UNCHANGED <<state, devices, Others>>

\* The session, or the event that it is over, met an exception that _supervise() does not
\* handle (asyncio.QueueFull of the event sink, through _on_event()): the task ends and
\* stays in _endpoint_tasks.
SinkRaises(t) ==
    /\ Runs(t, "closing")
    /\ ~sup[t].cancel
    /\ t \in {devices[d] : d \in Devices}
    /\ Lapse({"raised"})
    /\ Ends(t, "died")
    /\ devices' = Disowned(t)
    /\ UNCHANGED <<state, Outside>>

\* The opener failed or the session is over: the device of the endpoint is
\* unregistered if its session was of this endpoint, then the supervisor sleeps.
Retry(t) ==
    LET e == sup[t].ep
        d == state[e].dev
        mine == d # None /\ devices[d] # None /\ sup[devices[d]].ep = e
    IN
    /\ Runs(t, "opening") \/ Runs(t, "closing")
    /\ ~sup[t].cancel
    /\ IF Known(e)
       THEN /\ devices' = IF mine THEN [devices EXCEPT ![d] = None] ELSE devices
            /\ sup' = [sup EXCEPT ![t].pc = "sleeping", ![t].dev = None]
            /\ UNCHANGED <<state, Others>>
       ELSE Dies(t)

\* Mutant: the cleanup of a session that ends consumes the cancellation.
MutUnwind(t) ==
    /\ Runs(t, "session") \/ Runs(t, "ready") \/ Runs(t, "closing")
    /\ sup[t].cancel
    /\ sup' = IF sup[t].pc = "closing" THEN [sup EXCEPT ![t].cancel = FALSE]
              ELSE [sup EXCEPT ![t].pc = "unwinding"]
    /\ UNCHANGED <<state, devices, Others>>

\* CancelledError in the session: run() closes the link first.
Unwind(t) ==
    /\ Runs(t, "session") \/ Runs(t, "ready") \/ Runs(t, "closing")
    /\ sup[t].cancel
    /\ Goes(t, "unwinding")
    /\ UNCHANGED <<state, devices, Others>>

\* CancelledError elsewhere, or after that: the task ends.
Finish(t) ==
    /\ Runs(t, "new") \/ Runs(t, "opening") \/ Runs(t, "sleeping") \/ Runs(t, "unwinding")
    /\ sup[t].cancel
    /\ IF Known(sup[t].ep) \/ sup[t].pc = "new"
       THEN /\ Ends(t, "done")
            /\ devices' = Disowned(t)
            /\ UNCHANGED <<state, Others>>
       ELSE Dies(t)

-----------------------------------------------------------------------------
(* mDNS callbacks. *)

Idle == \A c \in Callbacks : cb[c].pc = "idle"
MayStart(c) ==
    /\ turn = None
    /\ phase = "serve"
    /\ cb[c].pc = "idle"

Overlap == IF Idle THEN {} ELSE {"overlap"}

\* The rest of _remove_mdns_service(s): its endpoint is forgotten, then removed.
Unlist(c, s, then) ==
    LET e == svc[s]
        d == StateOf(e).adv
    IN
    /\ svc' = [svc EXCEPT ![s] = None]
    /\ devSvc' = IF d # None /\ devSvc[d] = s THEN [devSvc EXCEPT ![d] = None] ELSE devSvc
    /\ cb' = [cb EXCEPT ![c].pc = "remove", ![c].on = e, ![c].then = then]

\* The callback ends and gives the loop away, or goes on.
Return(c) == cb' = [cb EXCEPT ![c] = IdleCb] /\ turn' = None
Continue(c, pc) ==
    IF pc = "idle" THEN Return(c)
    ELSE cb' = [cb EXCEPT ![c].pc = pc, ![c].on = None, ![c].waits = None] /\ turn' = c

\* ServiceStateChange.Removed
ServiceRemoved(c, s) ==
    /\ MayStart(c)
    /\ Lapse(Overlap)
    /\ network[s] # None
    /\ network' = [network EXCEPT ![s] = None]
    /\ IF svc[s] # None
       THEN Unlist(c, s, "idle") /\ turn' = c
       ELSE UNCHANGED <<mdns, cb, turn>>
    /\ UNCHANGED <<tables, devices, sup, quiesce, phase>>

\* Given on the command line.
Manual(e) == task[e] # None /\ Known(e) /\ ~state[e].mdns

\* No other device is known at the address.
Alone(s, e) ==
    /\ ~Manual(e)
    /\ \A r \in Services : network[r] = e => Owner[r] = Owner[s]

\* Added or Updated, and resolved.  A device has one service: a new one stands
\* for the one it had.
ServiceResolved(c, s, e) ==
    /\ MayStart(c)
    /\ Lapse(Overlap \cup IF Alone(s, e) THEN {} ELSE {"shared"})
    /\ network' = [r \in Services |-> IF r = s THEN e
                                     ELSE IF Owner[r] = Owner[s] THEN None
                                     ELSE network[r]]
    /\ cb' = [cb EXCEPT ![c] = [pc |-> "service", svc |-> s, ep |-> e, on |-> None, waits |-> None,
                                then |-> "idle"]]
    /\ turn' = c
    /\ UNCHANGED <<tables, devices, mdns, sup, quiesce, phase>>

\* _add_mdns_device(): another service of the device is removed ...
AddService(c) ==
    LET old == devSvc[Owner[cb[c].svc]] IN
    /\ turn = c
    /\ cb[c].pc = "service"
    /\ IF old \notin {None, cb[c].svc} /\ svc[old] # None
       THEN Unlist(c, old, "endpoint") /\ UNCHANGED turn
       ELSE Continue(c, "endpoint") /\ UNCHANGED mdns
    /\ UNCHANGED <<tables, devices, sup, quiesce, phase, network, lapses>>

\* Mutant: the endpoint that the service had is not looked up.
MutFormer(c) == None
Former(c) == svc[cb[c].svc]

\* ... then another endpoint of the service ...
AddEndpoint(c) ==
    LET old == Former(c) IN
    /\ turn = c
    /\ cb[c].pc = "endpoint"
    /\ IF old \notin {None, cb[c].ep}
       THEN /\ cb' = [cb EXCEPT ![c].pc = "remove", ![c].on = old, ![c].then = "add"]
            /\ UNCHANGED turn
       ELSE Continue(c, "add")
    /\ UNCHANGED <<tables, devices, mdns, sup, quiesce, phase, network, lapses>>

\* ... and the endpoint is supervised.
AddTcp(c, ok) ==
    LET e == cb[c].ep
        advertised == [dev |-> StateOf(e).dev, mdns |-> TRUE, adv |-> Owner[cb[c].svc]]
        listed == /\ svc' = [svc EXCEPT ![cb[c].svc] = e]
                  /\ devSvc' = [devSvc EXCEPT ![Owner[cb[c].svc]] = cb[c].svc]
    IN
    /\ turn = c
    /\ cb[c].pc = "add"
    /\ Free(e, ok)
    /\ Return(c)
    /\ \/ /\ task[e] = None
          /\ phase = "serve"
          /\ state' = [state EXCEPT ![e] = advertised]
          /\ StartSupervisor(e, ok, maint)
          /\ IF e \in held \/ e \in maint \/ ok THEN listed ELSE UNCHANGED mdns
       \/ /\ task[e] = None
          /\ phase # "serve"
          /\ UNCHANGED <<state, held, task, sup, mdns>>
       \/ /\ task[e] # None
          /\ StateOf(e).mdns
          /\ state' = [state EXCEPT ![e] = advertised]
          /\ listed
          /\ UNCHANGED <<held, task, sup>>
       \/ /\ task[e] # None
          /\ ~StateOf(e).mdns
          /\ UNCHANGED <<state, held, task, sup, mdns>>
    /\ UNCHANGED <<maint, devices, quiesce, phase, network, lapses>>

\* _remove_endpoint(): the supervisor is cancelled and awaited ...
RemoveEndpoint(c) ==
    LET e == cb[c].on
        t == task[e]
    IN
    /\ turn = c
    /\ cb[c].pc = "remove"
    /\ IF ~StateOf(e).mdns
       THEN Continue(c, cb[c].then) /\ UNCHANGED <<task, sup>>
       ELSE /\ task' = Popped(e)
            /\ IF t = None
               THEN /\ cb' = [cb EXCEPT ![c].pc = "drop"]
                    /\ UNCHANGED <<sup, turn>>
               ELSE /\ sup' = [sup EXCEPT ![t] = Cancelled(@)]
                    /\ cb' = [cb EXCEPT ![c].pc = "wait", ![c].waits = t]
                    /\ turn' = None
    /\ UNCHANGED <<state, held, maint, devices, mdns, quiesce, phase, network, lapses>>

\* ... an exception of the task ends the callback ...
Awaited(c) ==
    /\ turn = None
    /\ cb[c].pc = "wait"
    /\ \/ /\ sup[cb[c].waits].pc = "done"
          /\ cb' = [cb EXCEPT ![c].pc = "drop", ![c].waits = None]
          /\ turn' = c
       \/ /\ sup[cb[c].waits].pc = "died"
          /\ Return(c)
    /\ UNCHANGED <<tables, devices, mdns, sup, quiesce, phase, network, lapses>>

\* ... and what the hub knows of the endpoint is dropped.
DropEndpoint(c) ==
    LET e == cb[c].on IN
    /\ turn = c
    /\ cb[c].pc = "drop"
    /\ state' = [state EXCEPT ![e] = None]
    /\ held' = held \ {e}
    /\ maint' = maint \ {e}
    /\ Continue(c, cb[c].then)
    /\ UNCHANGED <<task, devices, mdns, sup, quiesce, phase, network, lapses>>

-----------------------------------------------------------------------------
(* USB endpoints and their maintenance. *)

\* discover_loop() calls add_usb(); a lock that is taken is tried again later.
AddUsb(e, ok) ==
    /\ turn = None
    /\ phase = "serve"
    /\ Free(e, ok)
    /\ state' = [state EXCEPT ![e] = StateOf(e)]
    /\ StartSupervisor(e, ok, maint)
    /\ UNCHANGED <<maint, devices, mdns, cb, turn, quiesce, phase, network, lapses>>

\* Mutant: the supervisor is cancelled but not awaited.
MutDetaches(t) == TRUE
Detaches(t) == t = None

Local(e) == e \in Usb

\* quiesce_endpoint() of an endpoint whose lock is free or the hub's.
Quiesce(e) ==
    LET d == StateOf(e).dev
        t == task[e]
    IN
    /\ turn = None
    /\ phase = "serve"
    /\ quiesce = NoQuiesce
    /\ Local(e)
    /\ e \notin maint
    /\ state' = [state EXCEPT ![e] = StateOf(e)]
    /\ held' = held \cup {e}
    /\ maint' = maint \cup {e}
    /\ task' = Popped(e)
    /\ sup' = IF t = None THEN sup ELSE [sup EXCEPT ![t] = Cancelled(@)]
    /\ IF Detaches(t)
       THEN /\ devices' = IF d = None THEN devices ELSE [devices EXCEPT ![d] = None]
            /\ UNCHANGED quiesce
       ELSE /\ quiesce' = [ep |-> e, dev |-> d, waits |-> t]
            /\ UNCHANGED devices
    /\ UNCHANGED <<mdns, cb, turn, phase, network, lapses>>

\* The supervisor is over: the device that was read before the await is dropped, unless
\* the supervisor ended with an exception, which quiesce_endpoint() raises again.
Quiesced ==
    /\ turn = None
    /\ quiesce # NoQuiesce
    /\ sup[quiesce.waits].pc \in Ended
    /\ devices' = IF quiesce.dev = None \/ sup[quiesce.waits].pc = "died" THEN devices
                  ELSE [devices EXCEPT ![quiesce.dev] = None]
    /\ quiesce' = NoQuiesce
    /\ UNCHANGED <<tables, mdns, sup, cb, turn, phase, network, lapses>>

\* resume_maintenance_endpoint() by the owner of the lease.
ResumeMaintenance(e, ok) ==
    /\ turn = None
    /\ Free(e, ok)
    /\ phase = "serve"
    /\ e \in maint
    /\ quiesce.ep # e
    /\ maint' = maint \ {e}
    /\ StartSupervisor(e, ok, maint')
    /\ UNCHANGED <<state, devices, mdns, cb, turn, quiesce, phase, network, lapses>>

-----------------------------------------------------------------------------
(* close(), after the server has stopped. *)

\* Discovery is stopped; callbacks in progress are awaited.
Close ==
    /\ turn = None
    /\ phase = "serve"
    /\ quiesce = NoQuiesce
    /\ phase' = "discovery"
    /\ UNCHANGED <<tables, devices, mdns, sup, cb, turn, quiesce, network, lapses>>

CancelAll ==
    /\ turn = None
    /\ phase = "discovery"
    /\ Idle
    /\ svc' = [s \in Services |-> None]
    /\ devSvc' = [d \in Devices |-> None]
    /\ sup' = [t \in Supervisors |->
                  IF \E e \in Endpoints : task[e] = t THEN Cancelled(sup[t]) ELSE sup[t]]
    /\ phase' = "tasks"
    /\ UNCHANGED <<tables, devices, cb, turn, quiesce, network, lapses>>

\* Mutant: the supervisors are not awaited.
MutAllDone == TRUE
AllDone == \A e \in Endpoints : task[e] # None => sup[task[e]].pc = "done"

Closed ==
    /\ turn = None
    /\ phase = "tasks"
    /\ AllDone
    /\ phase' = "closed"
    /\ task' = [e \in Endpoints |-> None]
    /\ maint' = {}
    /\ held' = {}
    /\ UNCHANGED <<state, devices, mdns, sup, cb, turn, quiesce, network, lapses>>

\* The exception of a supervisor that died leaves close(); the locks stay.
CloseFails ==
    /\ turn = None
    /\ phase = "tasks"
    /\ \E e \in Endpoints : task[e] # None /\ sup[task[e]].pc = "died"
    /\ phase' = "failed"
    /\ UNCHANGED <<tables, devices, mdns, sup, cb, turn, quiesce, network, lapses>>

-----------------------------------------------------------------------------
Supervise(t) ==
    \/ Connect(t) \/ Opened(t) \/ LinkLost(t) \/ SinkRaises(t) \/ Retry(t)
    \/ Unwind(t) \/ Finish(t)
    \/ \E d \in Devices : Hello(t, d)

CallbackStep(c) ==
    \/ AddService(c) \/ AddEndpoint(c) \/ RemoveEndpoint(c) \/ Awaited(c) \/ DropEndpoint(c)
    \/ \E ok \in BOOLEAN : AddTcp(c, ok)

Discovery(c) ==
    \E s \in Services :
        \/ ServiceRemoved(c, s)
        \/ \E e \in Tcp : ServiceResolved(c, s, e)

Maintenance ==
    \/ Quiesced
    \/ \E e \in Endpoints : Quiesce(e)
    \/ \E e \in Usb : \E ok \in BOOLEAN : AddUsb(e, ok) \/ ResumeMaintenance(e, ok)

Shutdown == Close \/ CancelAll \/ Closed \/ CloseFails

Next ==
    \/ \E t \in Supervisors : Supervise(t)
    \/ \E c \in Callbacks : CallbackStep(c) \/ Discovery(c)
    \/ \E e \in Endpoints, ok \in BOOLEAN : AddManual(e, ok)
    \/ Serve
    \/ Maintenance
    \/ Shutdown

Spec == Init /\ [][Next]_vars

\* The loop runs its ready tasks in the order in which they became ready, so a
\* task that is ready again and again gets its turn; links are closed in bounded
\* time.
Fairness ==
    /\ \A t \in Supervisors : SF_vars(Unwind(t) \/ Finish(t))
    /\ \A c \in Callbacks : SF_vars(CallbackStep(c))
    /\ SF_vars(Quiesced)
    /\ WF_vars(CancelAll \/ Closed \/ CloseFails)

FairSpec == Spec /\ Fairness

-----------------------------------------------------------------------------
(* Properties. *)

TablesType ==
    /\ state \in [Endpoints -> EndpointState \cup {None}]
    /\ held \subseteq Endpoints
    /\ maint \subseteq Usb
    /\ task \in [Endpoints -> Supervisors \cup {None}]
    /\ devices \in [Devices -> Supervisors \cup {None}]
MdnsType ==
    /\ svc \in [Services -> Tcp \cup {None}]
    /\ devSvc \in [Devices -> Services \cup {None}]
    /\ network \in [Services -> Tcp \cup {None}]
SupPcs == {"new", "opening", "session", "ready", "closing", "sleeping", "unwinding", "done", "died"}
SupRecord == [ep : Endpoints \cup {None}, pc : SupPcs, dev : Devices \cup {None}, cancel : BOOLEAN]
SupType == sup \in [Supervisors -> SupRecord]
CbPcs == {"idle", "service", "endpoint", "add", "remove", "wait", "drop"}
CbRecord == [pc : CbPcs, svc : Services \cup {None}, ep : Tcp \cup {None}, on : Tcp \cup {None},
             waits : Supervisors \cup {None}, then : {"idle", "endpoint", "add"}]
CallerType ==
    /\ cb \in [Callbacks -> CbRecord]
    /\ turn \in Callbacks \cup {None}
    /\ quiesce \in [ep : Usb \cup {None}, dev : Devices \cup {None},
                     waits : Supervisors \cup {None}]
    /\ phase \in {"start", "serve", "discovery", "tasks", "closed", "failed"}
    /\ lapses \subseteq Lapses

\* Type invariant of the hub's tables, its tasks and its callers.
TypeOK == TablesType /\ MdnsType /\ SupType /\ CallerType

Live(t) == sup[t].pc \notin Ended

\* _add_supervisor, _remove_endpoint, _supervise ("supervises every valid advertised
\* endpoint"): a task that the hub has for an endpoint is at work on it, with its
\* state and its lock, as long as no two mDNS callbacks have overlapped and the event
\* sink has not raised.  (The code does not give more: a callback that was waiting drops the
\* state and the lock of the supervisor that another one started, and an exception
\* outside the list of _supervise() leaves the ended task in _endpoint_tasks.)
SupervisedIsAlive ==
    lapses \cap {"overlap", "raised"} = {} =>
    \A e \in Endpoints : task[e] # None /\ phase \in {"start", "serve", "discovery"} =>
        /\ Live(task[e]) /\ ~sup[task[e]].cancel /\ sup[task[e]].ep = e
        /\ Known(e) /\ e \in held \ maint

\* _add_supervisor, _remove_endpoint, quiesce_endpoint: whatever overlapped or was
\* raised, the hub never loses sight of a supervisor: the only task that works on an
\* endpoint without being told to end is the one in the table, so an endpoint is
\* never opened twice for good.
NoneIsLost ==
    phase \in {"start", "serve", "discovery"} =>
    \A t \in Supervisors : Live(t) /\ ~sup[t].cancel => task[sup[t].ep] = t

\* _add_mdns_device, _remove_mdns_service ("supervises every valid advertised
\* endpoint"): between two callbacks a TCP endpoint has a supervisor just when a
\* service is advertised there or the command line named it, unless another
\* process may hold the lock of a TCP endpoint, two callbacks have overlapped, two
\* services have shared an address or the event sink has raised.  (A lock that is taken leaves
\* _mdns_services at the address the service had, and the service's removal then
\* takes that endpoint from whoever is advertised there now.)
AdvertisedIsSupervised ==
    /\ Contended \subseteq Usb
    /\ lapses \cap {"overlap", "shared", "raised"} = {}
    /\ Idle
    /\ phase = "serve"
    => \A e \in Tcp : task[e] # None <=> Manual(e) \/ \E s \in Services : network[s] = e

\* _endpoint_states, _locks, _endpoint_tasks: the tables of the hub are well formed and agree
\* with its supervisors.
TablesAgree == TypeOK /\ SupervisedIsAlive /\ NoneIsLost

\* _on_ready, _supervise ("Each physical device has at most one active session"):
\* requests for a device go to its ready session, so no two supervisors have one,
\* and an entry never outlives the session, as long as no callbacks have
\* overlapped and no device has left the USB endpoint that remembers it.  A supervisor
\* that the event sink raised into is no exception.
RegistryIsTrue ==
    lapses \cap {"overlap", "roam"} = {} =>
    /\ \A t \in Supervisors : sup[t].pc = "ready" => devices[sup[t].dev] = t
    /\ \A d \in Devices : devices[d] # None =>
          /\ sup[devices[d]].pc \in {"ready", "closing", "unwinding"}
          /\ sup[devices[d]].dev = d

\* quiesce_endpoint ("Close one local USB endpoint", "retaining its cross-process
\* lock"): when it has returned, no supervisor uses the endpoint and the lock is
\* still held.
QuiescedIsDetached ==
    \A e \in maint :
        /\ e \in held
        /\ quiesce.ep # e => \A t \in Supervisors : sup[t].ep = e => ~Live(t)

\* close: a closed hub has no supervisor at work and no session registered.
ClosedIsQuiet ==
    phase = "closed" =>
        /\ \A t \in Supervisors : ~Live(t)
        /\ \A d \in Devices : devices[d] = None

\* _add_supervisor, _remove_endpoint, quiesce_endpoint, close: whatever overlapped, was
\* shared or was raised, no supervisor works on an endpoint unseen: while the hub serves
\* it is in the table or told to end, and when the hub is closed there is none.
NoneRunsUnseen == NoneIsLost /\ ClosedIsQuiet

\* close, _remove_endpoint: whoever waits for a supervisor is not left waiting,
\* overlapping callbacks and dead supervisors included.
WaitersReturn ==
    /\ phase = "discovery" ~> phase \in {"closed", "failed"}
    /\ \A c \in Callbacks : cb[c].pc = "wait" ~> cb[c].pc # "wait"
=============================================================================

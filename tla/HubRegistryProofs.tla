-------------------------- MODULE HubRegistryProofs --------------------------
(***************************************************************************)
(* The safety properties of the hub, for any endpoints, devices, services, *)
(* supervisors and callbacks.                                              *)
(*                                                                         *)
(* 1. The inductive invariant HubInv.  Its parts up to ReadyInv are about  *)
(*    supervisors, tables and sessions; the others follow one mDNS         *)
(*    callback through _add_mdns_device and _remove_endpoint, as long as   *)
(*    the hub is "Orderly".                                                *)
(* 2. The effects: what the actions of the hub do to the variables, with   *)
(*    the record updates taken apart.                                      *)
(* 3. EffectStep: an effect keeps HubInv, one step for each effect and     *)
(*    under it one for each part that the effect can disturb.              *)
(* 4. NextEffect: every action has one of the effects.                     *)
(* 5. The theorems.                                                        *)
(***************************************************************************)
EXTENDS HubRegistry, TLAPS

-----------------------------------------------------------------------------
(* The inductive invariant. *)

\* No two mDNS callbacks have overlapped; close() has not cancelled the tasks yet.
Serial == "overlap" \notin lapses
\* Moreover, the event sink has not raised.
Intact == lapses \cap {"overlap", "raised"} = {}
Early == phase \in {"start", "serve", "discovery"}

\* The callback that is not idle has the loop unless it waits; what it has set.
CallbackInv ==
    /\ \A c \in Callbacks :
          /\ cb[c].pc \in {"service", "endpoint", "add", "remove", "drop"} <=> turn = c
          /\ cb[c].pc \in {"service", "endpoint", "add"} \/ cb[c].then # "idle" =>
                cb[c].svc \in Services /\ cb[c].ep \in Tcp
          /\ cb[c].pc \in {"remove", "wait", "drop"} => cb[c].on \in Tcp
          /\ cb[c].pc = "wait" <=> cb[c].waits # None
          /\ cb[c].pc = "idle" => cb[c].svc = None /\ cb[c].then = "idle"
    /\ Serial => \A b, c \in Callbacks : cb[b].pc # "idle" /\ cb[c].pc # "idle" => b = c

\* No callback and no session before the service, no callback when the supervisors are
\* cancelled.
PhaseInv ==
    /\ phase \in {"start", "tasks", "closed", "failed"} => Idle
    /\ phase = "start" => \A d \in Devices : devices[d] = None
    /\ phase # "serve" => quiesce = NoQuiesce

\* What a supervisor's record has at each point of _supervise.
SupInv ==
    \A t \in Supervisors :
        /\ Live(t) <=> sup[t].ep # None
        /\ sup[t].dev # None => sup[t].pc \in {"ready", "closing", "unwinding"}
        /\ sup[t].pc = "ready" => sup[t].dev # None
        /\ sup[t].pc = "unwinding" => sup[t].cancel
        /\ ~Live(t) => ~sup[t].cancel

\* A task in the table is of its endpoint, not cancelled before close(), and the
\* endpoint is not under maintenance.
TaskInv ==
    \A e \in Endpoints : task[e] # None =>
        /\ Live(task[e]) => sup[task[e]].ep = e
        /\ Early => ~sup[task[e]].cancel
        /\ e \notin maint
        /\ phase # "closed"

\* The callback waits for the supervisor.
WaitsFor(c, t) == cb[c].pc = "wait" /\ cb[c].waits = t

\* A supervisor at work is in the table or somebody waits for its end.
OwnedInv ==
    \A t \in Supervisors : Live(t) =>
        \/ task[sup[t].ep] = t
        \/ \E c \in Callbacks : WaitsFor(c, t)
        \/ quiesce.waits = t

\* Whoever waits for a supervisor has cancelled it.
WaitInv ==
    /\ \A c \in Callbacks : \A t \in Supervisors :
          WaitsFor(c, t) /\ Live(t) => sup[t].ep = cb[c].on /\ sup[t].cancel
    /\ \A t \in Supervisors :
          quiesce.waits = t /\ Live(t) => sup[t].ep = quiesce.ep /\ sup[t].cancel

\* The endpoints under maintenance, and the one that is being quiesced.
MaintInv ==
    /\ maint \subseteq held
    /\ \A e \in maint : Known(e)
    /\ quiesce # NoQuiesce =>
          /\ quiesce.ep \in maint
          /\ quiesce.waits \in Supervisors
          /\ state[quiesce.ep].dev = quiesce.dev

\* An entry of _devices is of the session at work there.
RegistryInv ==
    \A d \in Devices : devices[d] # None =>
        LET t == devices[d] IN
        /\ sup[t].pc \in {"ready", "closing", "unwinding"}
        /\ sup[t].dev = d
        /\ ~sup[t].cancel /\ Known(sup[t].ep) => state[sup[t].ep].dev = d

\* The state of an endpoint outlives its supervisor.
KnownInv ==
    \A t \in Supervisors :
        /\ Live(t) /\ (Serial \/ sup[t].ep \in Usb) => Known(sup[t].ep)
        /\ Intact => sup[t].pc # "died"

\* With one callback at a time a task in the table has its state and its lock, and is at
\* work unless the event sink has raised.
AliveInv ==
    /\ Serial => \A e \in Endpoints : task[e] # None /\ Early => Known(e) /\ e \in held
    /\ Serial => \A c \in Callbacks : cb[c].pc \in {"wait", "drop"} => task[cb[c].on] = None
    /\ Intact => \A e \in Endpoints : task[e] # None /\ Early => Live(task[e])

\* A session that is ready is the registered one.
ReadyInv ==
    lapses \cap {"overlap", "roam"} = {} =>
    \A t \in Supervisors : sup[t].pc = "ready" =>
        /\ devices[sup[t].dev] = t
        /\ \A u \in Usb : u # sup[t].ep => StateOf(u).dev # sup[t].dev

\* One callback at a time, one service at an address, no sink that raises and no lock of a
\* TCP endpoint taken.
Orderly ==
    /\ Contended \subseteq Usb
    /\ lapses \cap {"overlap", "shared", "raised"} = {}
    /\ phase \in {"start", "serve"}

\* What the callback is about: the service it adds, the endpoint it removes.
Resolves(c) == cb[c].pc # "idle" /\ cb[c].svc # None
Removes(c, e) == cb[c].pc \in {"remove", "wait", "drop"} /\ cb[c].on = e

\* Each device has one service and each address one device.
UniqueInv ==
    Orderly =>
    \A r, s \in Services :
        /\ network[r] # None /\ network[s] # None
        /\ network[r] = network[s] \/ Owner[r] = Owner[s]
        => r = s

\* The command line named no address of the network.
FreeInv ==
    Orderly =>
    \A s \in Services : network[s] # None =>
        phase = "serve" /\ (Known(network[s]) => state[network[s]].mdns)

\* A callback adds a service where the network has it.
TargetInv ==
    Orderly => \A c \in Callbacks : Resolves(c) => network[cb[c].svc] = cb[c].ep

\* _mdns_devices has the one service of a device that _mdns_services has.
ListedInv ==
    /\ \A d \in Devices : devSvc[d] # None => Owner[devSvc[d]] = d
    /\ Orderly => \A s \in Services : svc[s] # None => devSvc[Owner[s]] = s

\* _mdns_services is the network, the device of the callback at work left aside.
SettledInv ==
    Orderly =>
    \A s \in Services :
        (\A c \in Callbacks : Resolves(c) => Owner[cb[c].svc] # Owner[s]) => svc[s] = network[s]

\* That callback first takes the other services of its device out ...
ReplacedInv ==
    Orderly =>
    \A c \in Callbacks : Resolves(c) /\ cb[c].pc # "service" =>
        \A s \in Services : svc[s] # None /\ Owner[s] = Owner[cb[c].svc] => s = cb[c].svc

\* ... then the endpoint that the service had.
MovingInv ==
    Orderly =>
    \A c \in Callbacks : Resolves(c) /\ cb[c].pc \in {"remove", "wait", "drop"} =>
        \/ cb[c].then = "endpoint" /\ svc[cb[c].svc] = None
        \/ cb[c].then = "add" /\ svc[cb[c].svc] = cb[c].on /\ cb[c].on # cb[c].ep

\* That endpoint is no longer known when the new one is added.
VacatedInv ==
    Orderly =>
    \A c \in Callbacks : cb[c].pc = "add" =>
        svc[cb[c].svc] \in {None, cb[c].ep} \/ ~Known(svc[cb[c].svc])

\* A listed service is at an endpoint of mDNS, unless a callback has removed it.
PlacedInv ==
    Orderly =>
    \A s \in Services : svc[s] # None /\ (\A c \in Callbacks : ~Removes(c, svc[s])) =>
        \/ Known(svc[s]) /\ state[svc[s]].mdns /\ state[svc[s]].adv = Owner[s]
        \/ \E c \in Callbacks :
               cb[c].pc = "add" /\ cb[c].svc = s /\ ~Known(svc[s]) /\ svc[s] # cb[c].ep

\* An endpoint that the hub knows has a task and, if it is of mDNS, a service, unless
\* a callback removes it.
TaskedInv ==
    Orderly =>
    \A e \in Tcp : Known(e) =>
        task[e] # None \/ \E c \in Callbacks : Removes(c, e) /\ cb[c].pc # "remove"
NamedInv ==
    Orderly =>
    \A e \in Tcp : Known(e) /\ state[e].mdns =>
        (\E s \in Services : svc[s] = e) \/ \E c \in Callbacks : Removes(c, e)

\* A callback removes an endpoint of mDNS, and of no other service.
VictimInv ==
    Orderly =>
    \A c \in Callbacks : cb[c].pc \in {"remove", "wait", "drop"} =>
        /\ Known(cb[c].on) /\ state[cb[c].on].mdns
        /\ \A s \in Services : svc[s] = cb[c].on => s = cb[c].svc

HubInv ==
    /\ TypeOK /\ CallbackInv /\ PhaseInv /\ SupInv /\ TaskInv /\ OwnedInv /\ WaitInv /\ MaintInv
    /\ RegistryInv /\ KnownInv /\ AliveInv /\ ReadyInv
    /\ UniqueInv /\ FreeInv /\ TargetInv /\ ListedInv
    /\ SettledInv /\ ReplacedInv /\ MovingInv /\ VacatedInv
    /\ PlacedInv /\ TaskedInv /\ NamedInv /\ VictimInv

-----------------------------------------------------------------------------
(* What the steps do.  Each action of the hub has one of these effects. *)

\* The fields of one record afterwards.
SupBecomes(t, e, p, d, b) ==
    /\ SupType'
    /\ sup'[t].ep = e /\ sup'[t].pc = p /\ sup'[t].dev = d /\ sup'[t].cancel = b
    /\ \A u \in Supervisors : u # t => sup'[u] = sup[u]
CbBecomes(c, p, s, e, on, w, then) ==
    /\ cb' \in [Callbacks -> CbRecord]
    /\ cb'[c].pc = p /\ cb'[c].svc = s /\ cb'[c].ep = e
    /\ cb'[c].on = on /\ cb'[c].waits = w /\ cb'[c].then = then
    /\ \A b \in Callbacks : b # c => cb'[b] = cb[b]
\* The callback goes on at p, or ends.
CbGoesOn(c, p) ==
    /\ p # "idle" => CbBecomes(c, p, cb[c].svc, cb[c].ep, None, None, cb[c].then) /\ turn' = c
    /\ p = "idle" => CbBecomes(c, "idle", None, None, None, None, "idle") /\ turn' = None

\* A supervisor goes on.
Moved(t, p) ==
    /\ Live(t)
    /\ p \in {"opening", "session", "closing", "unwinding"}
    /\ sup[t].dev # None => p \in {"closing", "unwinding"}
    /\ p = "unwinding" => sup[t].cancel
    /\ SupBecomes(t, sup[t].ep, p, sup[t].dev, sup[t].cancel)
    /\ UNCHANGED <<tables, devices, mdns, cb, turn, quiesce, phase, network, lapses>>
\* A supervisor ends.
Over(t, how) ==
    /\ Live(t)
    /\ (how = "done" /\ sup[t].cancel) \/ (how = "died" /\ ~Known(sup[t].ep))
    /\ SupBecomes(t, None, how, None, FALSE)
    /\ devices' = Disowned(t)
    /\ UNCHANGED <<tables, mdns, cb, turn, quiesce, phase, network, lapses>>
\* The event sink raises into a supervisor.
Raised(t) ==
    /\ Live(t)
    /\ SupBecomes(t, None, "died", None, FALSE)
    /\ devices' = Disowned(t)
    /\ lapses' = lapses \cup {"raised"} /\ lapses' \subseteq Lapses
    /\ UNCHANGED <<tables, mdns, cb, turn, quiesce, phase, network>>
\* The device may have left a USB endpoint that remembers it.
Roamed(t, d) ==
    /\ lapses' = lapses \/ lapses' = lapses \cup {"roam"}
    /\ lapses' \subseteq Lapses
    /\ "roam" \in lapses' \/ \A u \in Usb : u # sup[t].ep => StateOf(u).dev # d
\* A session is registered.
Registered(t, d) ==
    /\ phase # "start"
    /\ sup[t].pc = "session" /\ ~sup[t].cancel /\ Known(sup[t].ep)
    /\ Roamed(t, d)
    /\ devices[d] \in {None, t}
    /\ devices' = [devices EXCEPT ![d] = t]
    /\ state' = [state EXCEPT ![sup[t].ep] =
                    [dev |-> d, mdns |-> state[sup[t].ep].mdns, adv |-> state[sup[t].ep].adv]]
    /\ SupBecomes(t, sup[t].ep, "ready", d, FALSE)
    /\ UNCHANGED <<held, maint, task, mdns, cb, turn, quiesce, phase, network>>
\* A session is refused.
Refused(t, d) ==
    /\ sup[t].pc = "session" /\ ~sup[t].cancel
    /\ Roamed(t, d)
    /\ SupBecomes(t, sup[t].ep, "closing", d, FALSE)
    /\ UNCHANGED <<tables, devices, mdns, cb, turn, quiesce, phase, network>>
\* A supervisor will try again.
Rested(t) ==
    /\ Live(t) /\ ~sup[t].cancel /\ Known(sup[t].ep)
    /\ LET d == state[sup[t].ep].dev
           mine == d # None /\ devices[d] # None /\ sup[devices[d]].ep = sup[t].ep
       IN  devices' = IF mine THEN [devices EXCEPT ![d] = None] ELSE devices
    /\ SupBecomes(t, sup[t].ep, "sleeping", None, FALSE)
    /\ UNCHANGED <<tables, mdns, cb, turn, quiesce, phase, network, lapses>>

\* An endpoint has a state; it may leave maintenance.
Noted(e) ==
    /\ state' = [state EXCEPT ![e] = StateOf(e)]
    /\ maint' = maint \/ (maint' = maint \ {e} /\ quiesce.ep # e)
    /\ e \in Usb \/ phase = "start"
    /\ e \in Usb \/ task[e] # None \/ phase' = "discovery"
    /\ phase' = phase \/ (phase = "start" /\ phase' = "discovery")
    /\ UNCHANGED <<held, task, devices, mdns, sup, cb, turn, quiesce, network, lapses>>
\* A supervisor of the endpoint starts.
Started(e, t) ==
    /\ e \in Usb \/ phase = "start"
    /\ phase \in {"start", "serve"}
    /\ quiesce.ep # e
    /\ task[e] = None
    /\ Spare(t)
    /\ state' = [state EXCEPT ![e] = StateOf(e)]
    /\ held' = held \cup {e}
    /\ maint' = maint \ {e}
    /\ task' = [task EXCEPT ![e] = t]
    /\ SupBecomes(t, e, "new", None, FALSE)
    /\ UNCHANGED <<devices, mdns, cb, turn, quiesce, phase, network, lapses>>

\* A callback begins.
Begun(c) ==
    /\ phase = "serve" /\ turn = None /\ cb[c].pc = "idle"
    /\ lapses \subseteq lapses' /\ lapses' \subseteq Lapses
    /\ lapses' \subseteq lapses \cup {"overlap", "shared"}
    /\ "overlap" \in lapses' \/ Idle
\* The service has no endpoint any more, and c will remove it.
Delisted(c, s) ==
    /\ svc[s] # None
    /\ svc' = [svc EXCEPT ![s] = None]
    /\ devSvc' = IF StateOf(svc[s]).adv # None /\ devSvc[StateOf(svc[s]).adv] = s
                 THEN [devSvc EXCEPT ![StateOf(svc[s]).adv] = None] ELSE devSvc
    /\ turn' = c
    /\ UNCHANGED <<tables, devices, sup, quiesce, phase>>
\* A service leaves the network.
Withdrawn(c, s) ==
    /\ Begun(c)
    /\ Delisted(c, s)
    /\ CbBecomes(c, "remove", cb[c].svc, cb[c].ep, svc[s], cb[c].waits, "idle")
    /\ network' = [network EXCEPT ![s] = None]
\* The same, of a service that the hub has not listed.
Vanished(c, s) ==
    /\ Begun(c)
    /\ svc[s] = None
    /\ network' = [network EXCEPT ![s] = None]
    /\ UNCHANGED <<tables, devices, mdns, sup, cb, turn, quiesce, phase>>
\* A service has an address.
Resolved(c, s, e) ==
    /\ Begun(c)
    /\ "shared" \in lapses' \/ Alone(s, e)
    /\ network' = [r \in Services |->
                      IF r = s THEN e ELSE IF Owner[r] = Owner[s] THEN None ELSE network[r]]
    /\ CbBecomes(c, "service", s, e, None, None, "idle")
    /\ turn' = c
    /\ UNCHANGED <<tables, devices, mdns, sup, quiesce, phase>>
\* The other service of the device goes.
Superseded(c, s) ==
    /\ turn = c /\ cb[c].pc = "service"
    /\ s = devSvc[Owner[cb[c].svc]] /\ s # cb[c].svc
    /\ Delisted(c, s)
    /\ CbBecomes(c, "remove", cb[c].svc, cb[c].ep, svc[s], cb[c].waits, "endpoint")
    /\ UNCHANGED <<network, lapses>>
\* There is no other service of the device.
Sole(c) ==
    /\ turn = c /\ cb[c].pc = "service"
    /\ LET old == devSvc[Owner[cb[c].svc]] IN old \in {None, cb[c].svc} \/ svc[old] = None
    /\ CbGoesOn(c, "endpoint")
    /\ UNCHANGED <<tables, devices, mdns, sup, quiesce, phase, network, lapses>>
\* The endpoint that the service had goes, or there is none.
Leaves(c) ==
    /\ turn = c /\ cb[c].pc = "endpoint"
    /\ svc[cb[c].svc] \notin {None, cb[c].ep}
    /\ CbBecomes(c, "remove", cb[c].svc, cb[c].ep, svc[cb[c].svc], cb[c].waits, "add")
    /\ UNCHANGED <<tables, devices, mdns, sup, turn, quiesce, phase, network, lapses>>
Stays(c) ==
    /\ turn = c /\ cb[c].pc = "endpoint"
    /\ svc[cb[c].svc] \in {None, cb[c].ep}
    /\ CbGoesOn(c, "add")
    /\ UNCHANGED <<tables, devices, mdns, sup, quiesce, phase, network, lapses>>
\* The endpoint gets the advertised device and, unless its lock is taken, the service;
\* with a new supervisor, with the one it has, or not at all.
Enters(c) ==
    /\ turn = c /\ cb[c].pc = "add"
    /\ CbGoesOn(c, "idle")
    /\ state' = [state EXCEPT ![cb[c].ep] =
                    [dev |-> StateOf(cb[c].ep).dev, mdns |-> TRUE, adv |-> Owner[cb[c].svc]]]
    /\ UNCHANGED <<maint, devices, quiesce, phase, network, lapses>>
Listed(c) ==
    /\ svc' = [svc EXCEPT ![cb[c].svc] = cb[c].ep]
    /\ devSvc' = [devSvc EXCEPT ![Owner[cb[c].svc]] = cb[c].svc]
Appeared(c, t) ==
    /\ Enters(c) /\ Listed(c)
    /\ task[cb[c].ep] = None
    /\ phase = "serve"
    /\ Spare(t)
    /\ held' = held \cup {cb[c].ep}
    /\ task' = [task EXCEPT ![cb[c].ep] = t]
    /\ SupBecomes(t, cb[c].ep, "new", None, FALSE)
Confirmed(c) ==
    /\ Enters(c) /\ Listed(c)
    /\ task[cb[c].ep] # None /\ StateOf(cb[c].ep).mdns
    /\ UNCHANGED <<held, task, sup>>
Locked(c) ==
    /\ Enters(c)
    /\ task[cb[c].ep] = None
    /\ cb[c].ep \in Contended
    /\ UNCHANGED <<held, task, sup, mdns>>
Ignored(c) ==
    /\ turn = c /\ cb[c].pc = "add"
    /\ phase # "serve" \/ (task[cb[c].ep] # None /\ ~StateOf(cb[c].ep).mdns)
    /\ CbGoesOn(c, "idle")
    /\ UNCHANGED <<tables, devices, mdns, sup, quiesce, phase, network, lapses>>
\* The endpoint is not of mDNS, has no task, or its task is cancelled.
Spared(c) ==
    /\ turn = c /\ cb[c].pc = "remove"
    /\ ~StateOf(cb[c].on).mdns
    /\ CbGoesOn(c, cb[c].then)
    /\ UNCHANGED <<tables, devices, mdns, sup, quiesce, phase, network, lapses>>
Emptied(c) ==
    /\ turn = c /\ cb[c].pc = "remove"
    /\ task[cb[c].on] = None
    /\ CbBecomes(c, "drop", cb[c].svc, cb[c].ep, cb[c].on, cb[c].waits, cb[c].then)
    /\ UNCHANGED <<tables, devices, mdns, sup, turn, quiesce, phase, network, lapses>>
CancelBecomes(t) ==
    SupBecomes(t, sup[t].ep, sup[t].pc, sup[t].dev, Live(t) \/ sup[t].cancel)
Evicted(c) ==
    /\ turn = c /\ cb[c].pc = "remove"
    /\ task[cb[c].on] # None
    /\ task' = [task EXCEPT ![cb[c].on] = None]
    /\ CancelBecomes(task[cb[c].on])
    /\ CbBecomes(c, "wait", cb[c].svc, cb[c].ep, cb[c].on, task[cb[c].on], cb[c].then)
    /\ turn' = None
    /\ UNCHANGED <<state, held, maint, devices, mdns, quiesce, phase, network, lapses>>
\* The task is over, or has failed.
Arrived(c) ==
    /\ turn = None /\ cb[c].pc = "wait"
    /\ sup[cb[c].waits].pc = "done"
    /\ CbBecomes(c, "drop", cb[c].svc, cb[c].ep, cb[c].on, None, cb[c].then)
    /\ turn' = c
    /\ UNCHANGED <<tables, devices, mdns, sup, quiesce, phase, network, lapses>>
Failed(c) ==
    /\ turn = None /\ cb[c].pc = "wait"
    /\ sup[cb[c].waits].pc = "died"
    /\ CbGoesOn(c, "idle")
    /\ UNCHANGED <<tables, devices, mdns, sup, quiesce, phase, network, lapses>>
Dropped(c) ==
    /\ turn = c /\ cb[c].pc = "drop"
    /\ state' = [state EXCEPT ![cb[c].on] = None]
    /\ held' = held \ {cb[c].on}
    /\ maint' = maint \ {cb[c].on}
    /\ CbGoesOn(c, cb[c].then)
    /\ UNCHANGED <<task, devices, mdns, sup, quiesce, phase, network, lapses>>

\* An endpoint goes under maintenance; its supervisor, if any, is awaited.
Reserved(e) ==
    /\ turn = None /\ phase = "serve" /\ quiesce = NoQuiesce
    /\ e \in Usb /\ e \notin maint
    /\ state' = [state EXCEPT ![e] = StateOf(e)]
    /\ held' = held \cup {e}
    /\ maint' = maint \cup {e}
    /\ task' = [task EXCEPT ![e] = None]
    /\ UNCHANGED <<mdns, cb, turn, phase, network, lapses>>
Forgets(d) == devices' = IF d = None THEN devices ELSE [devices EXCEPT ![d] = None]
Detached(e) ==
    /\ Reserved(e)
    /\ task[e] = None
    /\ Forgets(StateOf(e).dev)
    /\ UNCHANGED <<sup, quiesce>>
Detaching(e) ==
    /\ Reserved(e)
    /\ task[e] # None
    /\ CancelBecomes(task[e])
    /\ quiesce' = [ep |-> e, dev |-> StateOf(e).dev, waits |-> task[e]]
    /\ UNCHANGED devices
Released ==
    /\ quiesce # NoQuiesce
    /\ ~Live(quiesce.waits)
    /\ Forgets(quiesce.dev) \/ UNCHANGED devices
    /\ quiesce' = NoQuiesce
    /\ UNCHANGED <<tables, mdns, sup, cb, turn, phase, network, lapses>>

\* The phase alone changes.
Advanced ==
    /\ \/ phase = "start" /\ phase' = "serve"
       \/ phase = "serve" /\ quiesce = NoQuiesce /\ phase' = "discovery"
       \/ phase = "tasks" /\ phase' = "failed"
    /\ UNCHANGED <<tables, devices, mdns, sup, cb, turn, quiesce, network, lapses>>
\* Every task in the table is cancelled.
AllCancelled ==
    /\ phase = "discovery" /\ Idle
    /\ svc' = [s \in Services |-> None]
    /\ devSvc' = [d \in Devices |-> None]
    /\ SupType'
    /\ \A t \in Supervisors :
          /\ sup'[t].ep = sup[t].ep /\ sup'[t].pc = sup[t].pc /\ sup'[t].dev = sup[t].dev
          /\ sup'[t].cancel = (sup[t].cancel \/ (Live(t) /\ \E e \in Endpoints : task[e] = t))
    /\ phase' = "tasks"
    /\ UNCHANGED <<tables, devices, cb, turn, quiesce, network, lapses>>
Emptying ==
    /\ phase = "tasks" /\ AllDone
    /\ phase' = "closed"
    /\ task' = [e \in Endpoints |-> None]
    /\ maint' = {}
    /\ held' = {}
    /\ UNCHANGED <<state, devices, mdns, sup, cb, turn, quiesce, network, lapses>>

Effect ==
    \/ \E t \in Supervisors, p \in SupPcs : Moved(t, p)
    \/ \E t \in Supervisors, how \in Ended : Over(t, how)
    \/ \E t \in Supervisors : Raised(t)
    \/ \E t \in Supervisors, d \in Devices : Registered(t, d)
    \/ \E t \in Supervisors, d \in Devices : Refused(t, d)
    \/ \E t \in Supervisors : Rested(t)
    \/ \E e \in Endpoints : Noted(e)
    \/ \E e \in Endpoints, t \in Supervisors : Started(e, t)
    \/ \E c \in Callbacks, s \in Services : Withdrawn(c, s)
    \/ \E c \in Callbacks, s \in Services : Vanished(c, s)
    \/ \E c \in Callbacks, s \in Services, e \in Tcp : Resolved(c, s, e)
    \/ \E c \in Callbacks, s \in Services : Superseded(c, s)
    \/ \E c \in Callbacks : Sole(c)
    \/ \E c \in Callbacks : Leaves(c)
    \/ \E c \in Callbacks : Stays(c)
    \/ \E c \in Callbacks, t \in Supervisors : Appeared(c, t)
    \/ \E c \in Callbacks : Confirmed(c)
    \/ \E c \in Callbacks : Locked(c)
    \/ \E c \in Callbacks : Ignored(c)
    \/ \E c \in Callbacks : Spared(c)
    \/ \E c \in Callbacks : Emptied(c)
    \/ \E c \in Callbacks : Evicted(c)
    \/ \E c \in Callbacks : Arrived(c)
    \/ \E c \in Callbacks : Failed(c)
    \/ \E c \in Callbacks : Dropped(c)
    \/ \E e \in Endpoints : Detached(e)
    \/ \E e \in Endpoints : Detaching(e)
    \/ Released
    \/ Advanced
    \/ AllCancelled
    \/ Emptying

-----------------------------------------------------------------------------
(* What an entry of _endpoint_states becomes. *)

\* The state that a hub has or makes for an endpoint.
LEMMA EntryType ==
    ASSUME TablesType, NEW e \in Endpoints
    PROVE  /\ StateOf(e) \in EndpointState
           /\ StateOf(e).dev \in Devices \cup {None}
           /\ StateOf(e).mdns \in BOOLEAN
           /\ StateOf(e).adv \in Devices \cup {None}
<1>1. CASE Known(e)
  <2>1. state[e] \in EndpointState
    BY <1>1 DEF TablesType, Known
  <2> QED BY <1>1, <2>1 DEF StateOf, EndpointState
<1>2. CASE ~Known(e)
  BY <1>2 DEF StateOf, NewState, EndpointState
<1> QED BY <1>1, <1>2

\* One entry is replaced.
LEMMA EntrySet ==
    ASSUME TablesType, NEW e \in Endpoints, NEW x \in EndpointState,
           state' = [state EXCEPT ![e] = x]
    PROVE  /\ state' \in [Endpoints -> EndpointState \cup {None}]
           /\ state'[e] = x /\ state'[e] # None
           /\ \A f \in Endpoints : f # e => state'[f] = state[f]
<1>1. state \in [Endpoints -> EndpointState \cup {None}]
  BY DEF TablesType
<1>2. x # None
  BY HubAssumption
<1> QED BY <1>1, <1>2

\* A state is made or stays.
LEMMA EntryKept ==
    ASSUME TablesType, NEW e \in Endpoints, state' = [state EXCEPT ![e] = StateOf(e)]
    PROVE  /\ state' \in [Endpoints -> EndpointState \cup {None}]
           /\ state'[e] = StateOf(e) /\ state'[e] # None
           /\ \A f \in Endpoints : f # e => state'[f] = state[f]
BY EntryType, EntrySet

\* The endpoint is of mDNS and advertises d.
LEMMA EntryUpdate ==
    ASSUME TablesType, NEW e \in Endpoints, NEW d \in Devices,
           state' = [state EXCEPT ![e] = [dev |-> StateOf(e).dev, mdns |-> TRUE, adv |-> d]]
    PROVE  /\ state' \in [Endpoints -> EndpointState \cup {None}] /\ state'[e] # None
           /\ state'[e].mdns = TRUE /\ state'[e].adv = d /\ state'[e].dev = StateOf(e).dev
           /\ \A f \in Endpoints : f # e => state'[f] = state[f]
<1> DEFINE x == [dev |-> StateOf(e).dev, mdns |-> TRUE, adv |-> d]
<1>1. x \in EndpointState
  BY EntryType DEF EndpointState
<1>2. x.dev = StateOf(e).dev /\ x.mdns = TRUE /\ x.adv = d
  OBVIOUS
<1> HIDE DEF x
<1>3. state' = [state EXCEPT ![e] = x]
  BY DEF x
<1>4. /\ state' \in [Endpoints -> EndpointState \cup {None}]
      /\ state'[e] = x /\ state'[e] # None
      /\ \A f \in Endpoints : f # e => state'[f] = state[f]
  BY <1>1, <1>3, EntrySet
<1> QED BY <1>2, <1>4

\* Every effect keeps every part of the invariant.
LEMMA EffectStep == HubInv /\ (Effect \/ UNCHANGED vars) => HubInv'
<1> SUFFICES ASSUME HubInv, Effect \/ UNCHANGED vars PROVE HubInv'
    OBVIOUS
<1>i. /\ TablesType /\ MdnsType /\ SupType /\ CallerType
      /\ CallbackInv /\ PhaseInv /\ SupInv /\ TaskInv /\ OwnedInv /\ WaitInv /\ MaintInv
      /\ RegistryInv /\ KnownInv /\ AliveInv /\ ReadyInv /\ UniqueInv /\ FreeInv /\ TargetInv
      /\ ListedInv /\ SettledInv /\ ReplacedInv /\ MovingInv /\ VacatedInv /\ PlacedInv /\ TaskedInv
      /\ NamedInv /\ VictimInv
    BY DEF HubInv, TypeOK
<1> USE <1>i
<1>e. \A t \in Supervisors : Live(t) => sup[t].ep \in Endpoints
  BY DEF SupInv, SupType, SupRecord
<1>t. \A t \in Supervisors : Live(t) /\ ~sup[t].cancel => task[sup[t].ep] = t
  BY DEF OwnedInv, WaitInv
<1>d. \A d \in Devices : devices[d] # None =>
         devices[d] \in Supervisors /\ Live(devices[d]) /\ sup[devices[d]].ep \in Endpoints
  BY <1>e DEF TablesType, RegistryInv, Live, Ended
<1>s. Orderly => Serial /\ Intact /\ Early
  BY DEF Orderly, Serial, Intact, Early
<1>p. Orderly /\ phase = "start" => \A s \in Services : svc[s] = None /\ network[s] = None
  BY HubAssumption DEF SettledInv, FreeInv, PhaseInv, Idle, Resolves
<1>1. ASSUME NEW t \in Supervisors, NEW p \in SupPcs, Moved(t, p) PROVE HubInv'
  <2>u. UNCHANGED <<state, held, maint, task, devices, svc, devSvc, cb, turn, quiesce, phase,
        network, lapses>>
    BY <1>1 DEF Moved, tables, mdns
  <2>g. /\ Live(t) /\ p \in {"opening", "session", "closing", "unwinding"}
        /\ sup[t].dev # None => p \in {"closing", "unwinding"}
        /\ p = "unwinding" => sup[t].cancel
    BY <1>1 DEF Moved
  <2>t. /\ SupType' /\ sup'[t].ep = sup[t].ep /\ sup'[t].pc = p
        /\ sup'[t].dev = sup[t].dev /\ sup'[t].cancel = sup[t].cancel
        /\ \A u \in Supervisors : u # t => sup'[u] = sup[u]
    BY <1>1, SMTT(40) DEF Moved, SupBecomes
  <2>1. TablesType' /\ MdnsType' /\ CallerType' /\ CallbackInv' /\ PhaseInv' /\ MaintInv' /\
     UniqueInv' /\ FreeInv' /\ TargetInv' /\ ListedInv' /\ SettledInv' /\ ReplacedInv' /\
     MovingInv' /\ VacatedInv' /\ PlacedInv' /\ TaskedInv' /\ NamedInv' /\ VictimInv'
    BY <2>u, SMTT(40) DEF TablesType, MdnsType, CallerType, NoQuiesce, CallbackInv, Serial, Intact, PhaseInv,
       Idle, MaintInv, Known, UniqueInv, Orderly, FreeInv, TargetInv, Resolves, ListedInv,
       SettledInv, ReplacedInv, MovingInv, VacatedInv, PlacedInv, Removes, TaskedInv,
       NamedInv, VictimInv
  <2>2. SupType'
    BY <2>t DEF SupType
  <2>3. SupInv'
    BY <2>g, <2>t DEF SupInv, Live, Ended
  <2>4. TaskInv'
    BY <2>u, <2>g, <2>t DEF TaskInv, Live, Early, TablesType
  <2>5. OwnedInv'
    BY <2>u, <2>g, <2>t DEF OwnedInv, Live, WaitsFor
  <2>6. WaitInv'
    BY <2>u, <2>g, <2>t DEF WaitInv, Live, WaitsFor
  <2>7. RegistryInv'
    BY HubAssumption, <2>u, <2>g, <2>t DEF RegistryInv, Known, TablesType
  <2>8. KnownInv'
    BY <2>u, <2>g, <2>t DEF KnownInv, Live, Known, Serial, Intact
  <2>9. AliveInv'
    BY <2>u, <2>g, <2>t DEF AliveInv, Live, Ended, Serial, Intact, Early, Known, TablesType
  <2>10. ReadyInv'
    BY <2>u, <2>g, <2>t DEF ReadyInv, Known, StateOf
  <2> QED BY <2>1, <2>2, <2>3, <2>4, <2>5, <2>6, <2>7, <2>8, <2>9, <2>10 DEF HubInv, TypeOK
<1>2. ASSUME NEW t \in Supervisors, NEW how \in Ended, Over(t, how) PROVE HubInv'
  <2>u. UNCHANGED <<state, held, maint, task, svc, devSvc, cb, turn, quiesce, phase, network,
        lapses>>
    BY <1>2 DEF Over, tables, mdns
  <2>g. /\ Live(t)
        /\ (how = "done" /\ sup[t].cancel) \/ (how = "died" /\ ~Known(sup[t].ep))
    BY <1>2 DEF Over
  <2>t. /\ SupType' /\ sup'[t].ep = None /\ sup'[t].pc = how /\ sup'[t].dev = None
        /\ sup'[t].cancel = FALSE
        /\ \A u \in Supervisors : u # t => sup'[u] = sup[u]
    BY <1>2 DEF Over, SupBecomes
  <2>d. /\ devices' \in [Devices -> Supervisors \cup {None}]
        /\ \A d \in Devices : devices'[d] = IF d = sup[t].dev /\ devices[d] = t THEN None ELSE devices[d]
    BY <1>2 DEF Over, Disowned, TablesType
  <2>1. MdnsType' /\ CallerType' /\ CallbackInv' /\ MaintInv' /\ UniqueInv' /\ FreeInv' /\
     TargetInv' /\ ListedInv' /\ SettledInv' /\ ReplacedInv' /\ MovingInv' /\ VacatedInv' /\
     PlacedInv' /\ TaskedInv' /\ NamedInv' /\ VictimInv'
    BY <2>u DEF MdnsType, CallerType, NoQuiesce, CallbackInv, Serial, Intact, PhaseInv, Idle,
       MaintInv, Known, UniqueInv, Orderly, FreeInv, TargetInv, Resolves, ListedInv,
       SettledInv, ReplacedInv, MovingInv, VacatedInv, PlacedInv, Removes, TaskedInv,
       NamedInv, VictimInv
  <2>2. TablesType'
    BY <2>u, <2>d DEF TablesType
  <2>3. SupType'
    BY <2>t DEF SupType
  <2>4. PhaseInv'
    BY <2>u, <2>d DEF PhaseInv, Idle
  <2>5. SupInv'
    BY <2>t DEF SupInv, Live, Ended
  <2>6. TaskInv'
    BY <2>u, <2>t DEF TaskInv, Live, Early, TablesType
  <2>7. OwnedInv'
    BY <2>u, <2>t DEF OwnedInv, Live, WaitsFor
  <2>8. WaitInv'
    BY <2>u, <2>t DEF WaitInv, Live, WaitsFor
  <2>9. RegistryInv'
    BY <2>u, <2>t, <2>d DEF RegistryInv, Known
  <2>10. KnownInv'
    BY <2>u, <2>g, <2>t DEF KnownInv, Live, Known, Serial, Intact
  <2>11. AliveInv'
    BY <2>u, <2>g, <2>t DEF AliveInv, Live, Serial, Intact, Early, Known, TaskInv, TablesType
  <2>12. ReadyInv'
    BY <2>u, <2>t, <2>d DEF ReadyInv, Known, StateOf, SupInv, Ended, TablesType, SupType,
       SupRecord
  <2> QED BY <2>1, <2>2, <2>3, <2>4, <2>5, <2>6, <2>7, <2>8, <2>9, <2>10, <2>11, <2>12 DEF
     HubInv, TypeOK
<1>raised. ASSUME NEW t \in Supervisors, Raised(t) PROVE HubInv'
  <2>u. UNCHANGED <<state, held, maint, task, svc, devSvc, cb, turn, quiesce, phase, network>>
    BY <1>raised DEF Raised, tables, mdns
  <2>l. /\ lapses' \subseteq Lapses /\ lapses' = lapses \cup {"raised"}
        /\ "overlap" \in lapses' <=> "overlap" \in lapses
        /\ "roam" \in lapses' <=> "roam" \in lapses
        /\ ~Orderly' /\ ~Intact'
    BY <1>raised DEF Raised, Orderly, Intact
  <2>g. Live(t)
    BY <1>raised DEF Raised
  <2>t. /\ SupType' /\ sup'[t].ep = None /\ sup'[t].pc = "died" /\ sup'[t].dev = None
        /\ sup'[t].cancel = FALSE
        /\ \A u \in Supervisors : u # t => sup'[u] = sup[u]
    BY <1>raised DEF Raised, SupBecomes
  <2>d. /\ devices' \in [Devices -> Supervisors \cup {None}]
        /\ \A d \in Devices : devices'[d] = IF d = sup[t].dev /\ devices[d] = t THEN None ELSE devices[d]
    BY <1>raised DEF Raised, Disowned, TablesType
  <2>1. MdnsType' /\ CallerType' /\ CallbackInv' /\ MaintInv'
    BY <2>u, <2>l DEF MdnsType, CallerType, NoQuiesce, CallbackInv, Serial, MaintInv, Known
  <2>o. UniqueInv' /\ FreeInv' /\ TargetInv' /\ SettledInv' /\ ReplacedInv' /\ MovingInv' /\
     VacatedInv' /\ PlacedInv' /\ TaskedInv' /\ NamedInv' /\ VictimInv'
    BY <2>l DEF UniqueInv, FreeInv, TargetInv, SettledInv, ReplacedInv, MovingInv, VacatedInv,
       PlacedInv, TaskedInv, NamedInv, VictimInv
  <2>r. ListedInv'
    BY <2>u, <2>l DEF ListedInv
  <2>2. TablesType'
    BY <2>u, <2>d DEF TablesType
  <2>3. SupType'
    BY <2>t DEF SupType
  <2>4. PhaseInv'
    BY <2>u, <2>d DEF PhaseInv, Idle
  <2>5. SupInv'
    BY <2>t DEF SupInv, Live, Ended
  <2>6. TaskInv'
    BY <2>u, <2>t DEF TaskInv, Live, Ended, Early, TablesType
  <2>7. OwnedInv'
    BY <2>u, <2>t DEF OwnedInv, Live, Ended, WaitsFor
  <2>8. WaitInv'
    BY <2>u, <2>t DEF WaitInv, Live, Ended, WaitsFor
  <2>9. RegistryInv'
    BY <2>u, <2>t, <2>d DEF RegistryInv, Known
  <2>10. KnownInv'
    BY <2>u, <2>l, <2>t DEF KnownInv, Live, Ended, Known, Serial
  <2>11. AliveInv'
    BY <2>u, <2>l, <2>t DEF AliveInv, Serial, Early, Known
  <2>12. ReadyInv'
    BY <2>u, <2>l, <2>t, <2>d DEF ReadyInv, Known, StateOf, SupInv, Ended, TablesType, SupType,
       SupRecord
  <2> QED BY <2>1, <2>o, <2>r, <2>2, <2>3, <2>4, <2>5, <2>6, <2>7, <2>8, <2>9, <2>10, <2>11,
     <2>12 DEF HubInv, TypeOK
<1>3. ASSUME NEW t \in Supervisors, NEW d \in Devices, Registered(t, d) PROVE HubInv'
  <2>u. UNCHANGED <<held, maint, task, svc, devSvc, cb, turn, quiesce, phase, network>>
    BY <1>3 DEF Registered, tables, mdns
  <2>g. /\ phase # "start" /\ sup[t].pc = "session" /\ ~sup[t].cancel /\ Known(sup[t].ep)
        /\ devices[d] \in {None, t}
    BY <1>3 DEF Registered
  <2>l. /\ lapses' \subseteq Lapses
        /\ "overlap" \in lapses' <=> "overlap" \in lapses
        /\ "shared" \in lapses' <=> "shared" \in lapses
        /\ "raised" \in lapses' <=> "raised" \in lapses
        /\ "roam" \in lapses => "roam" \in lapses'
        /\ "roam" \in lapses' \/ \A u \in Usb : u # sup[t].ep => StateOf(u).dev # d
    BY <1>3 DEF Registered, Roamed
  <2>t. /\ SupType' /\ sup'[t].ep = sup[t].ep /\ sup'[t].pc = "ready" /\ sup'[t].dev = d
        /\ sup'[t].cancel = FALSE
        /\ \A u \in Supervisors : u # t => sup'[u] = sup[u]
    BY <1>3 DEF Registered, SupBecomes
  <2>e. sup[t].ep \in Endpoints
    BY <2>g DEF SupInv, SupType, SupRecord, Live, Ended
  <2>s. /\ state' \in [Endpoints -> EndpointState \cup {None}]
        /\ state'[sup[t].ep] # None /\ state'[sup[t].ep].dev = d
        /\ state'[sup[t].ep].mdns = state[sup[t].ep].mdns
        /\ state'[sup[t].ep].adv = state[sup[t].ep].adv
        /\ \A f \in Endpoints : f # sup[t].ep => state'[f] = state[f]
    BY <1>3, <2>g, <2>e, HubAssumption DEF Registered, TablesType, EndpointState, Known
  <2>d. /\ devices' \in [Devices -> Supervisors \cup {None}] /\ devices'[d] = t
        /\ \A x \in Devices : x # d => devices'[x] = devices[x]
    BY <1>3 DEF Registered, TablesType
  <2>k. \A f \in Endpoints : /\ Known(f)' <=> Known(f)
                              /\ Known(f) => state'[f].mdns = state[f].mdns /\ state'[f].adv = state[f].adv
    BY <2>e, <2>g, <2>s DEF Known
  <2>1. MdnsType'
    BY <2>u DEF MdnsType, PhaseInv, Idle
  <2>2. TablesType'
    BY <2>u, <2>s, <2>d DEF TablesType
  <2>3. SupType'
    BY <2>t DEF SupType
  <2>4. CallerType'
    BY <2>u, <2>l DEF CallerType
  <2>5. CallbackInv'
    BY <2>u, <2>l DEF CallbackInv, Serial, Intact
  <2>6. PhaseInv'
    BY <2>u, <2>g DEF PhaseInv, Idle
  <2>7. SupInv'
    BY HubAssumption, <2>t, <2>e DEF SupInv, Live, Ended
  <2>8. TaskInv'
    BY <2>u, <2>g, <2>t DEF TaskInv, Live, Ended, Early, TablesType
  <2>9. OwnedInv'
    BY <2>u, <2>g, <2>t DEF OwnedInv, Live, Ended, WaitsFor
  <2>10. WaitInv'
    BY <1>3, <2>u, <2>g, <2>t DEF WaitInv, Live, Ended, WaitsFor
  <2>11. MaintInv'
    <3>1. task[sup[t].ep] = t /\ sup[t].ep \notin maint
      BY <1>t, <2>e, <2>g, HubAssumption DEF Live, Ended, TaskInv
    <3>2. \A f \in maint : state'[f] = state[f]
      BY <3>1, <2>s DEF TablesType, Endpoints
    <3> QED BY <3>2, <2>u DEF MaintInv, Known
  <2>12. RegistryInv'
    <3>1. ASSUME NEW x \in Devices, x # d, devices[x] # None
          PROVE  /\ sup'[devices[x]] = sup[devices[x]]
                 /\ ~sup[devices[x]].cancel => sup[devices[x]].ep # sup[t].ep
      <4>1. devices[x] \in Supervisors /\ Live(devices[x])
        BY <1>d, <3>1
      <4>2. devices[x] # t
        BY <3>1, <2>g DEF RegistryInv
      <4>3. task[sup[t].ep] = t
        BY <1>t, <2>g DEF Live, Ended
      <4> QED BY <4>1, <4>2, <4>3, <1>t, <2>t
    <3>2. ASSUME NEW x \in Devices, x # d, devices'[x] # None
          PROVE  /\ sup'[devices'[x]].pc \in {"ready", "closing", "unwinding"}
                 /\ sup'[devices'[x]].dev = x
                 /\ ~sup'[devices'[x]].cancel /\ state'[sup'[devices'[x]].ep] # None =>
                       state'[sup'[devices'[x]].ep].dev = x
      BY <3>1, <3>2, <1>d, <2>d, <2>s DEF RegistryInv, Known
    <3> QED BY <3>2, <2>d, <2>t, <2>s DEF RegistryInv, Known
  <2>13. KnownInv'
    BY <2>u, <2>l, <2>t, <2>s DEF KnownInv, Live, Known, Serial, Intact, SupInv, SupType, SupRecord
  <2>14. AliveInv'
    BY <2>u, <2>l, <2>t, <2>s DEF AliveInv, Live, Ended, Serial, Intact, Early, Known, TablesType
  <2>15. ReadyInv'
    BY <1>3, HubAssumption, <2>g, <2>l, <2>t, <2>s, <2>d DEF ReadyInv, Known, StateOf,
       SupInv, Live, TablesType, Endpoints, SupType, SupRecord
  <2>16. UniqueInv'
    BY <2>u, <2>l DEF UniqueInv, Orderly
  <2>17. FreeInv'
    BY <2>u, <2>g, <2>l, <2>s DEF FreeInv, Orderly, Known, Endpoints, MdnsType
  <2>18. TargetInv'
    BY <2>u, <2>l DEF TargetInv, Orderly, Resolves
  <2>19. ListedInv'
    BY <2>u, <2>l DEF ListedInv, Orderly
  <2>20. SettledInv'
    BY <2>u, <2>l DEF SettledInv, Orderly, Resolves
  <2>21. ReplacedInv'
    BY <2>u, <2>l DEF ReplacedInv, Orderly, Resolves
  <2>22. MovingInv'
    BY <2>u, <2>l DEF MovingInv, Orderly, Resolves
  <2>23. VacatedInv'
    BY <2>u, <2>g, <2>l, <2>s DEF VacatedInv, Orderly, Known, CallbackInv, Endpoints,
       MdnsType
  <2>24. PlacedInv'
    BY <2>u, <2>g, <2>l, <2>s DEF PlacedInv, Orderly, Known, Removes, Endpoints, MdnsType
  <2>25. TaskedInv'
    BY <2>u, <2>g, <2>l, <2>s DEF TaskedInv, Orderly, Known, Removes, Endpoints
  <2>26. NamedInv'
    BY <2>u, <2>g, <2>l, <2>s DEF NamedInv, Orderly, Known, Removes, Endpoints
  <2>27. VictimInv'
    <3> SUFFICES ASSUME Orderly PROVE VictimInv'
      BY <2>u, <2>l DEF VictimInv, Orderly
    <3>1. ASSUME NEW b \in Callbacks, cb[b].pc \in {"remove", "wait", "drop"}
          PROVE  /\ state'[cb[b].on] # None /\ state'[cb[b].on].mdns
                 /\ \A r \in Services : svc[r] = cb[b].on => r = cb[b].svc
      <4>1. cb[b].on \in Endpoints
        BY <3>1 DEF CallbackInv, Endpoints
      <4>2. /\ Known(cb[b].on) /\ state[cb[b].on].mdns
            /\ \A r \in Services : svc[r] = cb[b].on => r = cb[b].svc
        BY <3>1 DEF VictimInv
      <4> QED BY <4>1, <4>2, <2>s, <2>e, <2>g, Zenon DEF Known
    <3> QED BY <3>1, <2>u DEF VictimInv, Known
  <2> QED BY <2>1, <2>2, <2>3, <2>4, <2>5, <2>6, <2>7, <2>8, <2>9, <2>10, <2>11, <2>12,
     <2>13, <2>14, <2>15, <2>16, <2>17, <2>18, <2>19, <2>20, <2>21, <2>22, <2>23, <2>24,
     <2>25, <2>26, <2>27 DEF HubInv, TypeOK
<1>4. ASSUME NEW t \in Supervisors, NEW d \in Devices, Refused(t, d) PROVE HubInv'
  <2>u. UNCHANGED <<state, held, maint, task, devices, svc, devSvc, cb, turn, quiesce, phase,
        network>>
    BY <1>4 DEF Refused, tables, mdns
  <2>g. /\ sup[t].pc = "session" /\ ~sup[t].cancel
    BY <1>4 DEF Refused
  <2>l. /\ lapses' \subseteq Lapses
        /\ "overlap" \in lapses' <=> "overlap" \in lapses
        /\ "shared" \in lapses' <=> "shared" \in lapses
        /\ "raised" \in lapses' <=> "raised" \in lapses
        /\ "roam" \in lapses => "roam" \in lapses'
        /\ "roam" \in lapses' \/ \A u \in Usb : u # sup[t].ep => StateOf(u).dev # d
    BY <1>4 DEF Refused, Roamed
  <2>t. /\ SupType' /\ sup'[t].ep = sup[t].ep /\ sup'[t].pc = "closing"
        /\ sup'[t].dev = d /\ sup'[t].cancel = FALSE
        /\ \A u \in Supervisors : u # t => sup'[u] = sup[u]
    BY <1>4 DEF Refused, SupBecomes
  <2>1. TablesType' /\ MdnsType' /\ PhaseInv' /\ MaintInv'
    BY <2>u DEF TablesType, MdnsType, PhaseInv, Idle, MaintInv, Known
  <2>2. SupType'
    BY <2>t DEF SupType
  <2>3. CallerType'
    BY <2>u, <2>l DEF CallerType
  <2>4. CallbackInv'
    BY <2>u, <2>l DEF CallbackInv, Serial, Intact
  <2>5. SupInv'
    BY <2>g, <2>t DEF SupInv, Live, Ended
  <2>6. TaskInv'
    BY <1>4, <2>u, <2>g, <2>t DEF TaskInv, Live, Ended, Early, TablesType
  <2>7. OwnedInv'
    BY <2>u, <2>g, <2>t DEF OwnedInv, Live, Ended, WaitsFor
  <2>8. WaitInv'
    BY <2>u, <2>g, <2>t DEF WaitInv, Live, Ended, WaitsFor
  <2>9. RegistryInv'
    BY <2>u, <2>g, <2>t DEF RegistryInv, Known, TablesType
  <2>10. KnownInv'
    BY <2>u, <2>g, <2>l, <2>t DEF KnownInv, Live, Ended, Known, Serial, Intact
  <2>11. AliveInv'
    BY <1>4, <2>u, <2>l, <2>t DEF AliveInv, Live, Ended, Serial, Intact, Early, Known, TablesType
  <2>12. ReadyInv'
    BY <2>u, <2>l, <2>t DEF ReadyInv, Known, StateOf
  <2>13. UniqueInv'
    BY <2>u, <2>l DEF UniqueInv, Orderly
  <2>14. FreeInv'
    BY <2>u, <2>l DEF FreeInv, Orderly, Known
  <2>15. TargetInv'
    BY <2>u, <2>l DEF TargetInv, Orderly, Resolves
  <2>16. ListedInv'
    BY <2>u, <2>l DEF ListedInv, Orderly
  <2>17. SettledInv'
    BY <2>u, <2>l DEF SettledInv, Orderly, Resolves
  <2>18. ReplacedInv'
    BY <2>u, <2>l DEF ReplacedInv, Orderly, Resolves
  <2>19. MovingInv'
    BY <2>u, <2>l DEF MovingInv, Orderly, Resolves
  <2>20. VacatedInv'
    BY <2>u, <2>l DEF VacatedInv, Orderly, Known
  <2>21. PlacedInv'
    BY <2>u, <2>l DEF PlacedInv, Orderly, Known, Removes
  <2>22. TaskedInv'
    BY <2>u, <2>l DEF TaskedInv, Orderly, Known, Removes
  <2>23. NamedInv'
    BY <2>u, <2>l DEF NamedInv, Orderly, Known, Removes
  <2>24. VictimInv'
    BY <2>u, <2>l DEF VictimInv, Orderly, Known
  <2> QED BY <2>1, <2>2, <2>3, <2>4, <2>5, <2>6, <2>7, <2>8, <2>9, <2>10, <2>11, <2>12,
     <2>13, <2>14, <2>15, <2>16, <2>17, <2>18, <2>19, <2>20, <2>21, <2>22, <2>23, <2>24 DEF
     HubInv, TypeOK
<1>5. ASSUME NEW t \in Supervisors, Rested(t) PROVE HubInv'
  <2>u. UNCHANGED <<state, held, maint, task, svc, devSvc, cb, turn, quiesce, phase, network,
        lapses>>
    BY <1>5 DEF Rested, tables, mdns
  <2>g. /\ Live(t) /\ ~sup[t].cancel /\ Known(sup[t].ep)
    BY <1>5 DEF Rested
  <2>e. /\ sup[t].ep \in Endpoints /\ state[sup[t].ep] \in EndpointState
        /\ state[sup[t].ep].dev \in Devices \cup {None}
    BY <2>g DEF SupInv, SupType, SupRecord, TablesType, Known, EndpointState
  <2>t. /\ SupType' /\ sup'[t].ep = sup[t].ep /\ sup'[t].pc = "sleeping"
        /\ sup'[t].dev = None /\ sup'[t].cancel = FALSE
        /\ \A u \in Supervisors : u # t => sup'[u] = sup[u]
    BY <1>5, SMTT(30) DEF Rested, SupBecomes
  <2>d. /\ devices' \in [Devices -> Supervisors \cup {None}]
        /\ \A x \in Devices : devices'[x] = IF x = state[sup[t].ep].dev /\ devices[x] # None /\ sup[devices[x]].ep = sup[t].ep THEN None ELSE devices[x]
    BY <1>5, <2>e, HubAssumption DEF Rested, TablesType
  <2>1. MdnsType' /\ CallerType' /\ CallbackInv' /\ MaintInv' /\ UniqueInv' /\ FreeInv' /\
     TargetInv' /\ ListedInv' /\ SettledInv' /\ ReplacedInv' /\ MovingInv' /\ VacatedInv' /\
     PlacedInv' /\ TaskedInv' /\ NamedInv' /\ VictimInv'
    BY <2>u DEF MdnsType, CallerType, NoQuiesce, CallbackInv, Serial, Intact, PhaseInv, Idle,
       MaintInv, Known, UniqueInv, Orderly, FreeInv, TargetInv, Resolves, ListedInv,
       SettledInv, ReplacedInv, MovingInv, VacatedInv, PlacedInv, Removes, TaskedInv,
       NamedInv, VictimInv
  <2>2. TablesType'
    BY <2>u, <2>d DEF TablesType
  <2>3. SupType'
    BY <2>t DEF SupType
  <2>4. PhaseInv'
    BY <2>u, <2>d DEF PhaseInv, Idle
  <2>5. SupInv'
    BY <2>g, <2>t DEF SupInv, Live, Ended
  <2>6. TaskInv'
    BY <2>u, <2>g, <2>t DEF TaskInv, Live, Early, TablesType
  <2>7. OwnedInv'
    BY <2>u, <2>g, <2>t DEF OwnedInv, Live, WaitsFor
  <2>8. WaitInv'
    <3>1. \A x \in Supervisors : x # t /\ Live(x)' => sup'[x] = sup[x] /\ Live(x)
      BY <2>t DEF Live
    <3>2. quiesce.waits # t /\ \A b \in Callbacks : ~WaitsFor(b, t)
      BY <2>g DEF WaitInv
    <3> QED BY <3>1, <3>2, <2>u DEF WaitInv, WaitsFor
  <2>9. RegistryInv'
    BY <2>u, <2>g, <2>t, <2>d DEF RegistryInv, Known
  <2>10. KnownInv'
    BY <2>u, <2>g, <2>t DEF KnownInv, Live, Known, Serial, Intact
  <2>11. AliveInv'
    BY <2>u, <2>t DEF AliveInv, Live, Ended, Serial, Intact, Early, Known, TablesType
  <2>12. ReadyInv'
    <3> SUFFICES ASSUME lapses \cap {"overlap", "roam"} = {}, NEW x \in Supervisors,
                        sup'[x].pc = "ready"
                 PROVE  /\ devices'[sup'[x].dev] = x
                        /\ \A u \in Usb : u # sup'[x].ep => StateOf(u)'.dev # sup'[x].dev
      BY <2>u DEF ReadyInv
    <3>1. x # t /\ sup'[x] = sup[x] /\ Live(x)
      BY <2>t DEF Live, Ended
    <3>2. sup[x].dev \in Devices /\ devices[sup[x].dev] = x
      BY <3>1 DEF ReadyInv, SupInv, SupType, SupRecord
    <3>3. task[sup[t].ep] = t
      BY <1>t, <2>g
    <3>4. sup[x].ep # sup[t].ep
      <4>1. SUFFICES ASSUME sup[x].ep = sup[t].ep PROVE FALSE
        OBVIOUS
      <4>2. ASSUME NEW b \in Callbacks, WaitsFor(b, x) PROVE FALSE
        <5>1. sup[x].ep = cb[b].on /\ cb[b].pc = "wait"
          BY <4>2, <3>1 DEF WaitInv, WaitsFor
        <5> QED BY <5>1, <4>1, <3>3, HubAssumption DEF AliveInv, Serial, Intact
      <4>3. CASE quiesce.waits = x
        <5>1. quiesce # NoQuiesce
          BY <4>3, HubAssumption DEF NoQuiesce
        <5>2. sup[x].ep \in maint
          BY <5>1, <4>3, <3>1 DEF WaitInv, MaintInv
        <5> QED BY <5>2, <4>1, <3>3, <2>e, HubAssumption DEF TaskInv
      <4> QED BY <4>1, <4>2, <4>3, <3>1, <3>3 DEF OwnedInv
    <3>5. devices'[sup[x].dev] = x
      BY <3>2, <3>4, <2>d
    <3> QED BY <3>1, <3>5, <2>u DEF ReadyInv, StateOf, Known
  <2> QED BY <2>1, <2>2, <2>3, <2>4, <2>5, <2>6, <2>7, <2>8, <2>9, <2>10, <2>11, <2>12 DEF
     HubInv, TypeOK
<1>6. ASSUME NEW e \in Endpoints, Noted(e) PROVE HubInv'
  <2>u. UNCHANGED <<held, task, devices, svc, devSvc, sup, cb, turn, quiesce, network, lapses>>
    BY <1>6 DEF Noted, tables, mdns
  <2>s. /\ state' \in [Endpoints -> EndpointState \cup {None}] /\ state'[e] = StateOf(e)
        /\ state'[e] # None
        /\ \A f \in Endpoints : f # e => state'[f] = state[f]
    BY <1>6, EntryKept DEF Noted
  <2>k. /\ \A f \in Endpoints : Known(f) => state'[f] = state[f]
        /\ \A f \in Endpoints : Known(f) => state'[f] # None
        /\ StateOf(e).dev \in Devices \cup {None}
        /\ StateOf(e).mdns => Known(e)
    BY <2>s, HubAssumption DEF TablesType, EndpointState, StateOf, NewState, Known
  <2>g. /\ maint' = maint \/ (maint' = maint \ {e} /\ quiesce.ep # e)
        /\ e \in Usb \/ phase = "start"
        /\ e \in Usb \/ task[e] # None \/ phase' = "discovery"
        /\ phase' = phase \/ (phase = "start" /\ phase' = "discovery")
    BY <1>6 DEF Noted
  <2>n. \A f \in Tcp : phase = "serve" => state'[f] = state[f]
    BY <2>g, <2>s, HubAssumption DEF Endpoints
  <2>h. Orderly' => Orderly
    BY <2>u, <2>g DEF Orderly
  <2>1. MdnsType' /\ SupType' /\ CallbackInv' /\ SupInv' /\ OwnedInv' /\ WaitInv'
    BY <2>u DEF MdnsType, SupType, CallbackInv, Serial, Intact, SupInv, Live, Ended, OwnedInv,
       WaitsFor, WaitInv
  <2>2. TablesType'
    BY <2>u, <2>s, <2>g DEF TablesType
  <2>3. CallerType'
    BY <2>u, <2>g DEF CallerType
  <2>4. PhaseInv'
    BY <2>u, <2>g DEF PhaseInv, Idle
  <2>5. TaskInv'
    BY <2>u, <2>g DEF TaskInv, Live, Early
  <2>6. MaintInv'
    BY <2>u, <2>k, <2>g DEF MaintInv, Known, TablesType
  <2>7. RegistryInv'
    <3> SUFFICES ASSUME NEW d \in Devices, devices[d] # None, Known(sup[devices[d]].ep)',
                        ~sup[devices[d]].cancel
                 PROVE  state'[sup[devices[d]].ep].dev = d
      BY <2>u DEF RegistryInv, Known
    <3>1. phase # "start" /\ e \in Usb
      BY <2>g DEF PhaseInv
    <3>2. Known(sup[devices[d]].ep)
      <4>1. CASE sup[devices[d]].ep = e
        BY <4>1, <3>1, <1>d DEF KnownInv
      <4>2. CASE sup[devices[d]].ep # e
        BY <4>2, <1>d, <2>u, <2>s DEF Known
      <4> QED BY <4>1, <4>2
    <3> QED BY <3>2, <1>d, <2>k DEF RegistryInv
  <2>8. KnownInv'
    BY <2>u, <2>k DEF KnownInv, Live, Known, Serial, Intact, SupInv, SupType, SupRecord
  <2>9. AliveInv'
    BY <2>u, <2>k, <2>g DEF AliveInv, Live, Serial, Intact, Early, Known
  <2>10. ReadyInv'
    BY <2>u, <2>s DEF ReadyInv, Known, StateOf, Endpoints
  <2>11. UniqueInv'
    BY <2>u, <2>g DEF UniqueInv, Orderly
  <2>12. FreeInv'
    <3> SUFFICES ASSUME Orderly', Orderly, NEW s \in Services, network[s] # None
                 PROVE  phase' = "serve" /\ (state'[network[s]] # None => state'[network[s]].mdns)
      BY <2>u, <2>h DEF FreeInv, Known
    <3>1. phase = "serve" /\ (Known(network[s]) => state[network[s]].mdns)
      BY DEF FreeInv
    <3>2. network[s] \in Tcp
      BY DEF MdnsType
    <3> QED BY <3>1, <3>2, <2>n, <2>g DEF Known
  <2>13. TargetInv'
    BY <2>u, <2>g DEF TargetInv, Orderly, Resolves
  <2>14. ListedInv'
    BY <2>u, <2>g DEF ListedInv, Orderly
  <2>15. SettledInv'
    BY <2>u, <2>g DEF SettledInv, Orderly, Resolves
  <2>16. ReplacedInv'
    BY <2>u, <2>g DEF ReplacedInv, Orderly, Resolves
  <2>17. MovingInv'
    BY <2>u, <2>g DEF MovingInv, Orderly, Resolves
  <2>18. VacatedInv'
    <3> SUFFICES ASSUME Orderly PROVE VacatedInv'
      BY <2>h DEF VacatedInv

    <3>1. ASSUME NEW b \in Callbacks, cb[b].pc = "add"
          PROVE  svc[cb[b].svc] \in {None, cb[b].ep} \/ state'[svc[cb[b].svc]] = None
      <4>1. phase = "serve"
        BY <3>1 DEF PhaseInv, Idle, Orderly
      <4>2. svc[cb[b].svc] \in Tcp \cup {None}
        BY <3>1 DEF CallbackInv, MdnsType
      <4> QED BY <3>1, <4>1, <4>2, <2>n DEF VacatedInv, Known
    <3> QED BY <3>1, <2>u DEF VacatedInv, Known
  <2>19. PlacedInv'
    <3> SUFFICES ASSUME Orderly PROVE PlacedInv'
      BY <2>h DEF PlacedInv

    <3>1. \A s \in Services : svc[s] # None => svc[s] \in Tcp /\ state'[svc[s]] = state[svc[s]]
      BY <1>p, <2>n DEF MdnsType, Orderly
    <3> QED BY <3>1, <2>u DEF PlacedInv, Known, Removes
  <2>20. TaskedInv'
    BY HubAssumption, <2>u, <2>s, <2>g DEF TaskedInv, Orderly, Known, Removes, Endpoints
  <2>21. NamedInv'
    BY <2>u, <2>s, <2>k, <2>g DEF NamedInv, Orderly, Known, Removes, Endpoints
  <2>22. VictimInv'
    BY <2>u, <2>k, <2>g DEF VictimInv, Orderly, Known, CallbackInv, Endpoints
  <2> QED BY <2>1, <2>2, <2>3, <2>4, <2>5, <2>6, <2>7, <2>8, <2>9, <2>10, <2>11, <2>12,
     <2>13, <2>14, <2>15, <2>16, <2>17, <2>18, <2>19, <2>20, <2>21, <2>22 DEF HubInv, TypeOK
<1>7. ASSUME NEW e \in Endpoints, NEW t \in Supervisors, Started(e, t) PROVE HubInv'
  <2>u. UNCHANGED <<devices, svc, devSvc, cb, turn, quiesce, phase, network, lapses>>
    BY <1>7 DEF Started, tables, mdns
  <2>s. /\ state' \in [Endpoints -> EndpointState \cup {None}] /\ state'[e] = StateOf(e)
        /\ state'[e] # None
        /\ \A f \in Endpoints : f # e => state'[f] = state[f]
    BY <1>7, EntryKept DEF Started
  <2>k. /\ \A f \in Endpoints : Known(f) => state'[f] = state[f]
        /\ \A f \in Endpoints : Known(f) => state'[f] # None
        /\ StateOf(e).dev \in Devices \cup {None}
        /\ StateOf(e).mdns => Known(e)
    BY <2>s, HubAssumption DEF TablesType, EndpointState, StateOf, NewState, Known
  <2>g. /\ e \in Usb \/ phase = "start"
        /\ phase \in {"start", "serve"} /\ quiesce.ep # e /\ task[e] = None
        /\ held' = held \cup {e} /\ maint' = maint \ {e}
    BY <1>7 DEF Started
  <2>p. /\ sup[t].pc \in Ended
        /\ \A b \in Callbacks : cb[b].waits # t
        /\ quiesce.waits # t
        /\ \A f \in Endpoints : task[f] # t
        /\ \A d \in Devices : devices[d] # t
    BY <1>7 DEF Started, Spare, Waited
  <2>t. /\ SupType' /\ sup'[t].ep = e /\ sup'[t].pc = "new" /\ sup'[t].dev = None
        /\ sup'[t].cancel = FALSE
        /\ \A u \in Supervisors : u # t => sup'[u] = sup[u]
    BY <1>7 DEF Started, SupBecomes
  <2>a. /\ task' \in [Endpoints -> Supervisors \cup {None}] /\ task'[e] = t
        /\ \A f \in Endpoints : f # e => task'[f] = task[f]
    BY <1>7 DEF Started, TablesType
  <2>n. \A f \in Tcp : phase = "serve" => state'[f] = state[f]
    BY <2>g, <2>s, HubAssumption DEF Endpoints
  <2>1. MdnsType' /\ CallerType' /\ CallbackInv' /\ PhaseInv' /\ UniqueInv' /\ TargetInv' /\
     ListedInv' /\ SettledInv' /\ ReplacedInv' /\ MovingInv'
    BY <2>u DEF MdnsType, CallerType, NoQuiesce, CallbackInv, Serial, Intact, PhaseInv, Idle,
       UniqueInv, Orderly, TargetInv, Resolves, ListedInv, SettledInv, ReplacedInv,
       MovingInv
  <2>2. TablesType'
    BY <2>u, <2>s, <2>g, <2>a DEF TablesType
  <2>3. SupType'
    BY <2>t DEF SupType
  <2>4. SupInv'
    BY HubAssumption, <2>t DEF SupInv, Live, Ended
  <2>5. TaskInv'
    BY <2>u, <2>g, <2>p, <2>t, <2>a DEF TaskInv, Live, Early
  <2>6. OwnedInv'
    BY HubAssumption, <2>u, <2>g, <2>t, <2>a DEF OwnedInv, Live, WaitsFor, SupInv, SupType,
       SupRecord, SupPcs
  <2>7. WaitInv'
    BY <2>u, <2>p, <2>t DEF WaitInv, Live, WaitsFor
  <2>8. MaintInv'
    BY <2>u, <2>k, <2>g DEF MaintInv, Known, TablesType
  <2>9. RegistryInv'
    <3> SUFFICES ASSUME NEW d \in Devices, devices[d] # None
                 PROVE  /\ sup'[devices[d]].pc \in {"ready", "closing", "unwinding"}
                        /\ sup'[devices[d]].dev = d
                        /\ ~sup'[devices[d]].cancel /\ state'[sup'[devices[d]].ep] # None =>
                              state'[sup'[devices[d]].ep].dev = d
      BY <2>u DEF RegistryInv, Known
    <3>1. devices[d] \in Supervisors /\ sup'[devices[d]] = sup[devices[d]]
      BY <1>d, <2>p, <2>t
    <3>2. ~sup[devices[d]].cancel => sup[devices[d]].ep # e /\ sup[devices[d]].ep \in Endpoints
      BY <1>d, <1>t, <2>g, HubAssumption
    <3> QED BY <3>1, <3>2, <2>s DEF RegistryInv, Known
  <2>10. KnownInv'
    BY <2>u, <2>s, <2>t DEF KnownInv, Live, Known, Serial, Intact, SupInv, SupType, SupRecord
  <2>11. AliveInv'
    <3> SUFFICES ASSUME Serial PROVE AliveInv'
      BY <2>u DEF AliveInv, Serial, Intact
    <3>1. ASSUME NEW f \in Endpoints, task'[f] # None, Early
          PROVE  (Intact => Live(task[f])') /\ state'[f] # None /\ f \in held'
      <4>1. CASE f = e
        BY <4>1, <2>a, <2>t, <2>s, <2>g DEF Live, Ended
      <4>2. CASE f # e
        <5>1. task'[f] = task[f] /\ task[f] # t /\ task[f] \in Supervisors
          BY <3>1, <4>2, <2>a, <2>p DEF TablesType
        <5>2. (Intact => Live(task[f])) /\ Known(f) /\ f \in held
          BY <3>1, <5>1 DEF AliveInv
        <5> QED BY <5>1, <5>2, <4>2, <2>t, <2>s, <2>g DEF Live, Known
      <4> QED BY <4>1, <4>2
    <3>2. ASSUME NEW b \in Callbacks, cb[b].pc \in {"wait", "drop"} PROVE task'[cb[b].on] = None
      <4>1. phase # "start" /\ cb[b].on \in Tcp /\ task[cb[b].on] = None
        BY <3>2 DEF PhaseInv, Idle, CallbackInv, AliveInv
      <4> QED BY <4>1, <2>g, <2>a, HubAssumption DEF Endpoints
    <3> QED BY <2>u, <3>1, <3>2 DEF AliveInv, Serial, Intact, Early, Known
  <2>12. ReadyInv'
    BY <2>u, <2>s, <2>t DEF ReadyInv, Known, StateOf, Endpoints
  <2>13. FreeInv'
    BY HubAssumption, <2>u, <2>s, <2>g DEF FreeInv, Orderly, Known, Endpoints, MdnsType
  <2>14. VacatedInv'
    <3> SUFFICES ASSUME Orderly PROVE VacatedInv'
      BY <2>u DEF VacatedInv, Orderly

    <3>1. ASSUME NEW b \in Callbacks, cb[b].pc = "add"
          PROVE  svc[cb[b].svc] \in {None, cb[b].ep} \/ state'[svc[cb[b].svc]] = None
      <4>1. phase = "serve"
        BY <3>1 DEF PhaseInv, Idle, Orderly
      <4>2. svc[cb[b].svc] \in Tcp \cup {None}
        BY <3>1 DEF CallbackInv, MdnsType
      <4> QED BY <3>1, <4>1, <4>2, <2>n DEF VacatedInv, Known
    <3> QED BY <3>1, <2>u DEF VacatedInv, Known
  <2>15. PlacedInv'
    <3> SUFFICES ASSUME Orderly PROVE PlacedInv'
      BY <2>u DEF PlacedInv, Orderly

    <3>1. \A s \in Services : svc[s] # None => svc[s] \in Tcp /\ state'[svc[s]] = state[svc[s]]
      BY <1>p, <2>n DEF MdnsType, Orderly
    <3> QED BY <3>1, <2>u DEF PlacedInv, Known, Removes
  <2>16. TaskedInv'
    BY <2>u, <2>s, <2>g, <2>p, <2>a DEF TaskedInv, Orderly, Known, Removes, Endpoints
  <2>17. NamedInv'
    BY <2>u, <2>s, <2>k DEF NamedInv, Orderly, Known, Removes, Endpoints
  <2>18. VictimInv'
    BY <2>u, <2>k DEF VictimInv, Orderly, Known, CallbackInv, Endpoints
  <2> QED BY <2>1, <2>2, <2>3, <2>4, <2>5, <2>6, <2>7, <2>8, <2>9, <2>10, <2>11, <2>12,
     <2>13, <2>14, <2>15, <2>16, <2>17, <2>18 DEF HubInv, TypeOK
<1>8. ASSUME NEW c \in Callbacks, NEW s \in Services, Withdrawn(c, s) PROVE HubInv'
  <2>u. UNCHANGED <<state, held, maint, task, devices, sup, quiesce, phase>>
    BY <1>8 DEF Withdrawn, Delisted, tables, mdns
  <2>g. /\ phase = "serve" /\ turn = None /\ cb[c].pc = "idle"
        /\ lapses \subseteq lapses' /\ lapses' \subseteq Lapses
        /\ "roam" \in lapses' => "roam" \in lapses
        /\ "overlap" \in lapses' \/ \A b \in Callbacks : cb[b].pc = "idle"
        /\ svc[s] # None /\ turn' = c
    BY <1>8 DEF Withdrawn, Begun, Idle, Delisted
  <2>v. /\ svc[s] \in Tcp /\ StateOf(svc[s]).adv \in Devices \cup {None}
    BY <2>g DEF TablesType, EndpointState, StateOf, NewState, Known, MdnsType, Endpoints
  <2>l. /\ svc' \in [Services -> Tcp \cup {None}] /\ svc'[s] = None
        /\ \A r \in Services : r # s => svc'[r] = svc[r]
        /\ network' \in [Services -> Tcp \cup {None}] /\ network'[s] = None
        /\ \A r \in Services : r # s => network'[r] = network[r]
    BY <1>8 DEF Withdrawn, Delisted, MdnsType
  <2>d. /\ devSvc' \in [Devices -> Services \cup {None}]
        /\ \A d \in Devices : devSvc'[d] = IF d = StateOf(svc[s]).adv /\ devSvc[d] = s THEN None ELSE devSvc[d]
    BY <1>8, <2>v, HubAssumption DEF Withdrawn, Delisted, MdnsType
  <2>c. /\ cb' \in [Callbacks -> CbRecord] /\ cb'[c].pc = "remove"
        /\ cb'[c].svc = cb[c].svc /\ cb'[c].ep = cb[c].ep /\ cb'[c].on = svc[s]
        /\ cb'[c].waits = cb[c].waits /\ cb'[c].then = "idle"
        /\ \A b \in Callbacks : b # c => cb'[b] = cb[b]
    BY <1>8 DEF Withdrawn, CbBecomes
  <2>1. TablesType' /\ SupType' /\ SupInv' /\ TaskInv' /\ MaintInv' /\ RegistryInv'
    BY <2>u DEF TablesType, SupType, SupInv, Live, Ended, TaskInv, Early, MaintInv, Known,
       RegistryInv
  <2>2. MdnsType'
    BY <2>l, <2>d DEF MdnsType
  <2>3. CallerType'
    BY <2>u, <2>g, <2>c DEF CallerType
  <2>4. CallbackInv'
    BY HubAssumption, <2>g, <2>v, <2>c DEF CallbackInv, Serial, Intact
  <2>5. PhaseInv'
    BY <2>u, <2>g DEF PhaseInv
  <2>6. OwnedInv'
    <3>1. \A b \in Callbacks, x \in Supervisors : WaitsFor(b, x) => WaitsFor(b, x)'
      BY <2>g, <2>c DEF WaitsFor
    <3> QED BY <3>1, <2>u DEF OwnedInv, Live
  <2>7. WaitInv'
    BY <2>u, <2>c DEF WaitInv, Live, WaitsFor
  <2>8. KnownInv'
    BY <2>u, <2>g DEF KnownInv, Live, Known, Serial, Intact
  <2>9. AliveInv'
    BY <2>u, <2>g, <2>c DEF AliveInv, Live, Serial, Intact, Early, Known
  <2>10. ReadyInv'
    BY <2>u, <2>g DEF ReadyInv, Known, StateOf
  <2>11. UniqueInv'
    BY <2>g, <2>l DEF UniqueInv, Orderly
  <2>12. FreeInv'
    BY <2>u, <2>g, <2>l DEF FreeInv, Orderly, Known
  <2>13. TargetInv'
    BY <2>g, <2>c DEF TargetInv, Orderly, Resolves, CallbackInv
  <2>14. ListedInv'
    BY HubAssumption, <2>g, <2>l, <2>d DEF ListedInv, Orderly
  <2>15. SettledInv'
    BY <2>g, <2>l DEF SettledInv, Orderly, Resolves
  <2>16. ReplacedInv'
    BY <2>g, <2>c DEF ReplacedInv, Orderly, Resolves, CallbackInv
  <2>17. MovingInv'
    BY <2>g, <2>c DEF MovingInv, Orderly, Resolves, CallbackInv
  <2>18. VacatedInv'
    BY <2>g, <2>c DEF VacatedInv, Orderly
  <2>19. PlacedInv'
    BY <2>u, <2>g, <2>l DEF PlacedInv, Orderly, Known, Removes
  <2>20. TaskedInv'
    BY <2>u, <2>g DEF TaskedInv, Orderly, Known, Removes
  <2>21. NamedInv'
    BY <2>u, <2>g, <2>l, <2>c DEF NamedInv, Orderly, Known, Removes
  <2>22. VictimInv'
    <3> SUFFICES ASSUME Orderly', Orderly PROVE VictimInv'
      BY <2>u, <2>g DEF VictimInv, Orderly
    <3>1. \A b \in Callbacks : cb[b].pc = "idle"
      BY <2>g DEF Orderly
    <3>2. \A r \in Services : svc[r] = network[r]
      BY <3>1 DEF SettledInv, Resolves
    <3>3. Known(svc[s]) /\ state[svc[s]].mdns
      BY <3>1, <2>g DEF PlacedInv, Removes
    <3>4. \A r \in Services : svc'[r] # svc[s]
      BY <3>2, <2>l, <2>g, <2>v, HubAssumption DEF UniqueInv, Endpoints
    <3> QED BY <3>1, <3>3, <3>4, <2>u, <2>c DEF VictimInv, Known
  <2> QED BY <2>1, <2>2, <2>3, <2>4, <2>5, <2>6, <2>7, <2>8, <2>9, <2>10, <2>11, <2>12,
     <2>13, <2>14, <2>15, <2>16, <2>17, <2>18, <2>19, <2>20, <2>21, <2>22 DEF HubInv, TypeOK
<1>9. ASSUME NEW c \in Callbacks, NEW s \in Services, Vanished(c, s) PROVE HubInv'
  <2>u. UNCHANGED <<state, held, maint, task, devices, svc, devSvc, sup, cb, turn, quiesce, phase>>
    BY <1>9 DEF Vanished, tables, mdns
  <2>g. /\ phase = "serve" /\ turn = None /\ cb[c].pc = "idle"
        /\ lapses \subseteq lapses' /\ lapses' \subseteq Lapses
        /\ "roam" \in lapses' => "roam" \in lapses
        /\ "overlap" \in lapses' \/ \A b \in Callbacks : cb[b].pc = "idle"
        /\ svc[s] = None
    BY <1>9 DEF Vanished, Begun, Idle
  <2>l. /\ network' \in [Services -> Tcp \cup {None}] /\ network'[s] = None
        /\ \A r \in Services : r # s => network'[r] = network[r]
    BY <1>9 DEF Vanished, MdnsType
  <2>1. TablesType' /\ SupType' /\ PhaseInv' /\ SupInv' /\ TaskInv' /\ OwnedInv' /\ WaitInv'
     /\ MaintInv' /\ RegistryInv'
    BY <2>u DEF TablesType, SupType, PhaseInv, Idle, SupInv, Live, Ended, TaskInv, Early,
       OwnedInv, WaitsFor, WaitInv, MaintInv, Known, RegistryInv
  <2>2. MdnsType'
    BY <2>u, <2>l DEF MdnsType
  <2>3. CallerType'
    BY <2>u, <2>g DEF CallerType
  <2>4. CallbackInv'
    BY <2>u, <2>g DEF CallbackInv, Serial, Intact
  <2>5. KnownInv'
    BY <2>u, <2>g DEF KnownInv, Live, Known, Serial, Intact
  <2>6. AliveInv'
    BY <2>u, <2>g DEF AliveInv, Live, Serial, Intact, Early, Known
  <2>7. ReadyInv'
    BY <2>u, <2>g DEF ReadyInv, Known, StateOf
  <2>8. UniqueInv'
    BY <2>g, <2>l DEF UniqueInv, Orderly
  <2>9. FreeInv'
    BY <2>u, <2>g, <2>l DEF FreeInv, Orderly, Known
  <2>10. TargetInv'
    BY <2>u, <2>g DEF TargetInv, Orderly, Resolves
  <2>11. ListedInv'
    BY <2>u, <2>g DEF ListedInv, Orderly
  <2>12. SettledInv'
    BY <2>u, <2>g, <2>l DEF SettledInv, Orderly, Resolves
  <2>13. ReplacedInv'
    BY <2>u, <2>g DEF ReplacedInv, Orderly, Resolves
  <2>14. MovingInv'
    BY <2>u, <2>g DEF MovingInv, Orderly
  <2>15. VacatedInv'
    BY <2>u, <2>g DEF VacatedInv, Orderly
  <2>16. PlacedInv'
    BY <2>u, <2>g DEF PlacedInv, Orderly, Known, Removes
  <2>17. TaskedInv'
    BY <2>u, <2>g DEF TaskedInv, Orderly, Known, Removes
  <2>18. NamedInv'
    BY <2>u, <2>g DEF NamedInv, Orderly, Known, Removes
  <2>19. VictimInv'
    BY <2>u, <2>g DEF VictimInv, Orderly
  <2> QED BY <2>1, <2>2, <2>3, <2>4, <2>5, <2>6, <2>7, <2>8, <2>9, <2>10, <2>11, <2>12,
     <2>13, <2>14, <2>15, <2>16, <2>17, <2>18, <2>19 DEF HubInv, TypeOK
<1>10. ASSUME NEW c \in Callbacks, NEW s \in Services, NEW e \in Tcp, Resolved(c, s, e)
       PROVE HubInv'
  <2>u. UNCHANGED <<state, held, maint, task, devices, svc, devSvc, sup, quiesce, phase>>
    BY <1>10 DEF Resolved, tables, mdns
  <2>g. /\ phase = "serve" /\ turn = None /\ cb[c].pc = "idle"
        /\ lapses \subseteq lapses' /\ lapses' \subseteq Lapses
        /\ "roam" \in lapses' => "roam" \in lapses
        /\ "overlap" \in lapses' \/ \A b \in Callbacks : cb[b].pc = "idle"
        /\ "shared" \in lapses' \/ (~Manual(e) /\ \A r \in Services : network[r] = e => Owner[r] = Owner[s])
        /\ turn' = c
    BY <1>10 DEF Resolved, Begun, Idle, Alone
  <2>l. /\ network' \in [Services -> Tcp \cup {None}] /\ network'[s] = e
        /\ \A r \in Services : r # s => network'[r] = IF Owner[r] = Owner[s] THEN None ELSE network[r]
    BY <1>10 DEF Resolved, MdnsType
  <2>c. /\ cb' \in [Callbacks -> CbRecord] /\ cb'[c].pc = "service" /\ cb'[c].svc = s
        /\ cb'[c].ep = e /\ cb'[c].on = None /\ cb'[c].waits = None
        /\ cb'[c].then = "idle"
        /\ \A b \in Callbacks : b # c => cb'[b] = cb[b]
    BY <1>10 DEF Resolved, CbBecomes
  <2>1. TablesType' /\ SupType' /\ SupInv' /\ TaskInv' /\ MaintInv' /\ RegistryInv'
    BY <2>u DEF TablesType, SupType, SupInv, Live, Ended, TaskInv, Early, MaintInv, Known,
       RegistryInv
  <2>2. MdnsType'
    BY <2>u, <2>l DEF MdnsType
  <2>3. CallerType'
    BY <2>u, <2>g, <2>c DEF CallerType
  <2>4. CallbackInv'
    BY HubAssumption, <2>g, <2>c DEF CallbackInv, Serial, Intact
  <2>5. PhaseInv'
    BY <2>u, <2>g DEF PhaseInv
  <2>6. OwnedInv'
    BY <2>u, <2>g, <2>c DEF OwnedInv, Live, WaitsFor
  <2>7. WaitInv'
    BY <2>u, <2>c DEF WaitInv, Live, WaitsFor
  <2>8. KnownInv'
    BY <2>u, <2>g DEF KnownInv, Live, Known, Serial, Intact
  <2>9. AliveInv'
    BY <2>u, <2>g, <2>c DEF AliveInv, Live, Serial, Intact, Early, Known
  <2>10. ReadyInv'
    BY <2>u, <2>g DEF ReadyInv, Known, StateOf
  <2>11. UniqueInv'
    BY <2>g, <2>l DEF UniqueInv, Orderly
  <2>12. FreeInv'
    <3> SUFFICES ASSUME Orderly', NEW r \in Services, network'[r] # None
                 PROVE  phase = "serve" /\ (Known(network'[r]) => state[network'[r]].mdns)
      BY <2>u DEF FreeInv, Known
    <3>1. Orderly /\ "shared" \notin lapses' /\ Serial /\ Intact
      BY <2>u, <2>g DEF Orderly, Serial, Intact
    <3>2. CASE r = s
      <4>1. Known(e) => state[e].mdns
        <5>1. Known(e) => task[e] # None
          <6>1. \A b \in Callbacks : ~Removes(b, e)
            BY <3>1, <2>g DEF Removes, Orderly
          <6> QED BY <3>1, <6>1 DEF TaskedInv
        <5> QED BY <5>1, <3>1, <2>g DEF Manual
      <4> QED BY <3>2, <4>1, <2>l, <2>g
    <3>3. CASE r # s
      BY <3>1, <3>3, <2>l, <2>g DEF FreeInv
    <3> QED BY <3>2, <3>3
  <2>13. TargetInv'
    BY <2>g, <2>l, <2>c DEF TargetInv, Orderly, Resolves
  <2>14. ListedInv'
    BY <2>u, <2>g DEF ListedInv, Orderly
  <2>15. SettledInv'
    BY HubAssumption, <2>u, <2>g, <2>l, <2>c DEF SettledInv, Orderly, Resolves
  <2>16. ReplacedInv'
    BY <2>g, <2>c DEF ReplacedInv, Orderly, Resolves
  <2>17. MovingInv'
    BY <2>g, <2>c DEF MovingInv, Orderly
  <2>18. VacatedInv'
    BY <2>g, <2>c DEF VacatedInv, Orderly
  <2>19. PlacedInv'
    BY <2>u, <2>g DEF PlacedInv, Orderly, Known, Removes
  <2>20. TaskedInv'
    BY <2>u, <2>g DEF TaskedInv, Orderly, Known, Removes
  <2>21. NamedInv'
    BY <2>u, <2>g DEF NamedInv, Orderly, Known, Removes
  <2>22. VictimInv'
    BY <2>g, <2>c DEF VictimInv, Orderly
  <2> QED BY <2>1, <2>2, <2>3, <2>4, <2>5, <2>6, <2>7, <2>8, <2>9, <2>10, <2>11, <2>12,
     <2>13, <2>14, <2>15, <2>16, <2>17, <2>18, <2>19, <2>20, <2>21, <2>22 DEF HubInv, TypeOK
<1>11. ASSUME NEW c \in Callbacks, NEW s \in Services, Superseded(c, s) PROVE HubInv'
  <2>z. /\ turn = c /\ cb[c].pc = "service" /\ s = devSvc[Owner[cb[c].svc]] /\ s # cb[c].svc
        /\ Delisted(c, s) /\ UNCHANGED <<network, lapses>>
    BY <1>11, ZenonT(60) DEF Superseded
  <2>u. UNCHANGED <<state, held, maint, task, devices, sup, quiesce, phase, network, lapses>>
    BY <2>z, ZenonT(60) DEF Delisted, tables
  <2>g. /\ turn = c /\ cb[c].pc = "service" /\ s = devSvc[Owner[cb[c].svc]]
        /\ s # cb[c].svc /\ svc[s] # None /\ turn' = c
    BY <2>z, ZenonT(60) DEF Delisted
  <2>o. Serial => \A b \in Callbacks : b # c => cb[b].pc = "idle"
    BY <2>g DEF CallbackInv
  <2>w. /\ cb[c].svc \in Services /\ cb[c].ep \in Tcp
    BY <2>g DEF CallbackInv
  <2>v. /\ svc[s] \in Tcp /\ StateOf(svc[s]).adv \in Devices \cup {None}
    BY <2>g, SMTT(30) DEF TablesType, EndpointState, StateOf, NewState, Known, MdnsType, Endpoints
  <2>l. /\ svc' \in [Services -> Tcp \cup {None}] /\ svc'[s] = None
        /\ \A r \in Services : r # s => svc'[r] = svc[r]
    BY <2>z, ZenonT(60) DEF Delisted, MdnsType
  <2>d. /\ devSvc' \in [Devices -> Services \cup {None}]
        /\ \A d \in Devices : devSvc'[d] = IF d = StateOf(svc[s]).adv /\ devSvc[d] = s THEN None ELSE devSvc[d]
    BY <2>z, <2>v, HubAssumption, ZenonT(60) DEF Delisted, MdnsType
  <2>c. /\ cb' \in [Callbacks -> CbRecord] /\ cb'[c].pc = "remove"
        /\ cb'[c].svc = cb[c].svc /\ cb'[c].ep = cb[c].ep /\ cb'[c].on = svc[s]
        /\ cb'[c].waits = cb[c].waits /\ cb'[c].then = "endpoint"
        /\ \A b \in Callbacks : b # c => cb'[b] = cb[b]
    BY <1>11 DEF Superseded, CbBecomes
  <2>1. TablesType' /\ SupType' /\ SupInv' /\ TaskInv' /\ MaintInv' /\ RegistryInv' /\
     KnownInv' /\ ReadyInv' /\ UniqueInv' /\ FreeInv'
    BY <2>u DEF TablesType, SupType, SupInv, Live, Ended, TaskInv, Early, MaintInv, Known,
       RegistryInv, KnownInv, Serial, Intact, ReadyInv, StateOf, NewState, UniqueInv, Orderly,
       FreeInv
  <2>2. MdnsType'
    BY <2>u, <2>l, <2>d DEF MdnsType
  <2>3. CallerType'
    BY <2>u, <2>g, <2>c DEF CallerType
  <2>4. CallbackInv'
    BY <2>u, <2>g, <2>v, <2>c DEF CallbackInv, Serial, Intact
  <2>5. PhaseInv'
    BY <2>u, <2>g DEF PhaseInv, Idle
  <2>6. OwnedInv'
    BY <2>u, <2>g, <2>c DEF OwnedInv, Live, WaitsFor
  <2>7. WaitInv'
    BY <2>u, <2>c DEF WaitInv, Live, WaitsFor
  <2>8. AliveInv'
    BY <2>u, <2>c DEF AliveInv, Live, Serial, Intact, Early, Known
  <2>9. TargetInv'
    BY <2>u, <2>g, <2>c DEF TargetInv, Orderly, Resolves
  <2>10. ListedInv'
    BY HubAssumption, <2>u, <2>l, <2>d DEF ListedInv, Orderly
  <2>11. SettledInv'
    <3> SUFFICES ASSUME Orderly PROVE SettledInv'
      BY <2>u DEF SettledInv, Orderly

    <3>1. Resolves(c) /\ Resolves(c)' /\ cb'[c].svc = cb[c].svc
      BY <2>g, <2>w, <2>c, HubAssumption DEF Resolves
    <3>2. Owner[s] = Owner[cb[c].svc]
      BY <2>g, <2>w, HubAssumption DEF ListedInv
    <3>3. ASSUME NEW r \in Services,
                 \A b \in Callbacks : Resolves(b)' => Owner[cb'[b].svc] # Owner[r]
          PROVE  svc'[r] = network[r]
      <4>1. \A b \in Callbacks : Resolves(b) => Owner[cb[b].svc] # Owner[r]
        BY <3>1, <3>3, <1>s, <2>o DEF Resolves
      <4>2. r # s
        BY <3>1, <3>2, <4>1
      <4> QED BY <4>1, <4>2, <2>l DEF SettledInv
    <3> QED BY <2>u, <3>3 DEF SettledInv
  <2>12. ReplacedInv'
    BY <2>u, <2>g, <2>l, <2>c DEF ReplacedInv, Orderly, Resolves, ListedInv
  <2>13. MovingInv'
    BY <2>u, <2>g, <2>o, <2>w, <2>l, <2>c DEF MovingInv, Orderly, Serial, Intact, ListedInv
  <2>14. VacatedInv'
    BY <2>u, <2>o, <2>c DEF VacatedInv, Orderly, Serial, Intact
  <2>15. PlacedInv'
    BY <2>u, <2>g, <2>l, <2>c DEF PlacedInv, Orderly, Known, Removes
  <2>16. TaskedInv'
    BY <2>u, <2>g, <2>c DEF TaskedInv, Orderly, Known, Removes
  <2>17. NamedInv'
    BY <1>11, <2>u, <2>g, <2>l, <2>c DEF NamedInv, Orderly, Known, Removes
  <2>18. VictimInv'
    <3> SUFFICES ASSUME Orderly PROVE VictimInv'
      BY <2>u DEF VictimInv, Orderly

    <3>1. \A b \in Callbacks : b # c => cb[b].pc = "idle"
      BY <1>s, <2>o
    <3>2. ASSUME NEW r \in Services, svc[r] # None
          PROVE  Known(svc[r]) /\ state[svc[r]].mdns /\ state[svc[r]].adv = Owner[r]
      BY <3>1, <3>2, <2>g DEF PlacedInv, Removes
    <3>3. ASSUME NEW r \in Services, svc'[r] = svc[s] PROVE FALSE
      <4>1. r # s /\ svc[r] = svc[s]
        BY <3>3, <2>l, <2>g
      <4>2. Owner[r] = Owner[s]
        BY <3>2, <4>1, <2>g
      <4> QED BY <4>1, <4>2, <2>g DEF ListedInv
    <3> QED BY <3>1, <3>2, <3>3, <2>u, <2>g, <2>c DEF VictimInv, Known
  <2> QED BY <2>1, <2>2, <2>3, <2>4, <2>5, <2>6, <2>7, <2>8, <2>9, <2>10, <2>11, <2>12,
     <2>13, <2>14, <2>15, <2>16, <2>17, <2>18 DEF HubInv, TypeOK
<1>12. ASSUME NEW c \in Callbacks, Sole(c) PROVE HubInv'
  <2>u. UNCHANGED <<state, held, maint, task, devices, svc, devSvc, sup, quiesce, phase,
        network, lapses>>
    BY <1>12 DEF Sole, tables, mdns
  <2>g. /\ turn = c /\ cb[c].pc = "service" /\ turn' = c
    BY <1>12 DEF Sole, CbGoesOn, CbBecomes
  <2>x. devSvc[Owner[cb[c].svc]] \in {None, cb[c].svc} \/ svc[devSvc[Owner[cb[c].svc]]] = None
    BY <1>12 DEF Sole
  <2>o. Serial => \A b \in Callbacks : b # c => cb[b].pc = "idle"
    BY <2>g DEF CallbackInv
  <2>v. /\ cb[c].svc \in Services /\ cb[c].ep \in Tcp /\ cb[c].ep # None
    BY <2>g, HubAssumption DEF CallbackInv, Endpoints
  <2>c. /\ cb' \in [Callbacks -> CbRecord] /\ cb'[c].pc = "endpoint"
        /\ cb'[c].svc = cb[c].svc /\ cb'[c].ep = cb[c].ep /\ cb'[c].on = None
        /\ cb'[c].waits = None /\ cb'[c].then = cb[c].then
        /\ \A b \in Callbacks : b # c => cb'[b] = cb[b]
    BY <1>12 DEF Sole, CbGoesOn, CbBecomes
  <2>1. TablesType' /\ MdnsType' /\ SupType' /\ SupInv' /\ TaskInv' /\ MaintInv' /\
     RegistryInv' /\ KnownInv' /\ ReadyInv' /\ UniqueInv' /\ FreeInv' /\ ListedInv'
    BY <2>u DEF TablesType, MdnsType, SupType, SupInv, Live, Ended, TaskInv, Early,
       MaintInv, Known, RegistryInv, KnownInv, Serial, Intact, ReadyInv, StateOf, NewState,
       UniqueInv, Orderly, FreeInv, ListedInv
  <2>2. CallerType'
    BY <2>u, <2>g, <2>c DEF CallerType
  <2>3. CallbackInv'
    BY <2>u, <2>g, <2>c DEF CallbackInv, Serial, Intact
  <2>4. PhaseInv'
    BY <2>u, <2>g DEF PhaseInv, Idle
  <2>5. OwnedInv'
    BY <2>u, <2>g, <2>c DEF OwnedInv, Live, WaitsFor
  <2>6. WaitInv'
    BY <2>u, <2>c DEF WaitInv, Live, WaitsFor
  <2>7. AliveInv'
    BY <2>u, <2>c DEF AliveInv, Live, Serial, Intact, Early, Known
  <2>8. TargetInv'
    BY <2>u, <2>g, <2>c DEF TargetInv, Orderly, Resolves
  <2>9. SettledInv'
    BY <2>u, <2>c DEF SettledInv, Orderly, Resolves
  <2>10. ReplacedInv'
    BY HubAssumption, <2>u, <2>x, <2>c DEF ReplacedInv, Orderly, Resolves, ListedInv
  <2>11. MovingInv'
    BY <2>u, <2>c DEF MovingInv, Orderly, Resolves
  <2>12. VacatedInv'
    BY <2>u, <2>c DEF VacatedInv, Orderly, Known
  <2>13. PlacedInv'
    BY <1>12, <2>u, <2>g, <2>c DEF PlacedInv, Orderly, Known, Removes
  <2>14. TaskedInv'
    BY <2>u, <2>g, <2>c DEF TaskedInv, Orderly, Known, Removes
  <2>15. NamedInv'
    BY <2>u, <2>g, <2>c DEF NamedInv, Orderly, Known, Removes
  <2>16. VictimInv'
    BY <2>u, <2>o, <2>c DEF VictimInv, Orderly, Serial, Intact
  <2> QED BY <2>1, <2>2, <2>3, <2>4, <2>5, <2>6, <2>7, <2>8, <2>9, <2>10, <2>11, <2>12,
     <2>13, <2>14, <2>15, <2>16 DEF HubInv, TypeOK
<1>13. ASSUME NEW c \in Callbacks, Leaves(c) PROVE HubInv'
  <2>u. UNCHANGED <<state, held, maint, task, devices, svc, devSvc, sup, turn, quiesce, phase,
        network, lapses>>
    BY <1>13 DEF Leaves, tables, mdns
  <2>g. /\ turn = c /\ cb[c].pc = "endpoint" /\ svc[cb[c].svc] # None
        /\ svc[cb[c].svc] # cb[c].ep
    BY <1>13 DEF Leaves
  <2>o. Serial => \A b \in Callbacks : b # c => cb[b].pc = "idle"
    BY <2>g DEF CallbackInv
  <2>v. /\ cb[c].svc \in Services /\ cb[c].ep \in Tcp /\ cb[c].ep # None
    BY <2>g, HubAssumption DEF CallbackInv, Endpoints
  <2>s. svc[cb[c].svc] \in Tcp
    BY <2>g, <2>v DEF MdnsType
  <2>c. /\ cb' \in [Callbacks -> CbRecord] /\ cb'[c].pc = "remove"
        /\ cb'[c].svc = cb[c].svc /\ cb'[c].ep = cb[c].ep /\ cb'[c].on = svc[cb[c].svc]
        /\ cb'[c].waits = cb[c].waits /\ cb'[c].then = "add"
        /\ \A b \in Callbacks : b # c => cb'[b] = cb[b]
    BY <1>13 DEF Leaves, CbBecomes
  <2>1. TablesType' /\ MdnsType' /\ SupType' /\ SupInv' /\ TaskInv' /\ MaintInv' /\
     RegistryInv' /\ KnownInv' /\ ReadyInv' /\ UniqueInv' /\ FreeInv' /\ ListedInv'
    BY <2>u DEF TablesType, MdnsType, SupType, SupInv, Live, Ended, TaskInv, Early,
       MaintInv, Known, RegistryInv, KnownInv, Serial, Intact, ReadyInv, StateOf, NewState,
       UniqueInv, Orderly, FreeInv, ListedInv
  <2>2. CallerType'
    BY <2>u, <2>c DEF CallerType
  <2>3. CallbackInv'
    BY <2>u, <2>g, <2>s, <2>c DEF CallbackInv, Serial, Intact
  <2>4. PhaseInv'
    BY <2>u, <2>g DEF PhaseInv, Idle
  <2>5. OwnedInv'
    BY <1>13, <2>u, <2>g, <2>c DEF OwnedInv, Live, WaitsFor
  <2>6. WaitInv'
    BY <2>u, <2>c DEF WaitInv, Live, WaitsFor
  <2>7. AliveInv'
    BY <2>u, <2>c DEF AliveInv, Live, Serial, Intact, Early, Known
  <2>8. TargetInv'
    BY <2>u, <2>g, <2>c DEF TargetInv, Orderly, Resolves
  <2>9. SettledInv'
    BY <2>u, <2>c DEF SettledInv, Orderly, Resolves
  <2>10. ReplacedInv'
    BY <2>u, <2>g, <2>c DEF ReplacedInv, Orderly, Resolves
  <2>11. MovingInv'
    BY <2>u, <2>g, <2>c DEF MovingInv, Orderly, Resolves
  <2>12. VacatedInv'
    BY <2>u, <2>c DEF VacatedInv, Orderly, Known
  <2>13. PlacedInv'
    BY <2>u, <2>g, <2>c DEF PlacedInv, Orderly, Known, Removes
  <2>14. TaskedInv'
    BY <2>u, <2>g, <2>c DEF TaskedInv, Orderly, Known, Removes
  <2>15. NamedInv'
    BY <2>u, <2>g, <2>c DEF NamedInv, Orderly, Known, Removes
  <2>16. VictimInv'
    BY <2>u, <2>g, <2>o, <2>v, <2>c DEF VictimInv, Orderly, Known, Serial, Intact, PlacedInv,
       Removes, ListedInv
  <2> QED BY <2>1, <2>2, <2>3, <2>4, <2>5, <2>6, <2>7, <2>8, <2>9, <2>10, <2>11, <2>12,
     <2>13, <2>14, <2>15, <2>16 DEF HubInv, TypeOK
<1>14. ASSUME NEW c \in Callbacks, Stays(c) PROVE HubInv'
  <2>u. UNCHANGED <<state, held, maint, task, devices, svc, devSvc, sup, quiesce, phase,
        network, lapses>>
    BY <1>14 DEF Stays, tables, mdns
  <2>g. /\ turn = c /\ cb[c].pc = "endpoint" /\ svc[cb[c].svc] \in {None, cb[c].ep}
        /\ turn' = c
    BY <1>14 DEF Stays, CbGoesOn, CbBecomes
  <2>o. Serial => \A b \in Callbacks : b # c => cb[b].pc = "idle"
    BY <2>g DEF CallbackInv
  <2>v. /\ cb[c].svc \in Services /\ cb[c].ep \in Tcp /\ cb[c].ep # None
    BY <2>g, HubAssumption DEF CallbackInv, Endpoints
  <2>c. /\ cb' \in [Callbacks -> CbRecord] /\ cb'[c].pc = "add" /\ cb'[c].svc = cb[c].svc
        /\ cb'[c].ep = cb[c].ep /\ cb'[c].on = None /\ cb'[c].waits = None
        /\ cb'[c].then = cb[c].then
        /\ \A b \in Callbacks : b # c => cb'[b] = cb[b]
    BY <1>14 DEF Stays, CbGoesOn, CbBecomes
  <2>1. TablesType' /\ MdnsType' /\ SupType' /\ SupInv' /\ TaskInv' /\ MaintInv' /\
     RegistryInv' /\ KnownInv' /\ ReadyInv' /\ UniqueInv' /\ FreeInv' /\ ListedInv'
    BY <2>u DEF TablesType, MdnsType, SupType, SupInv, Live, Ended, TaskInv, Early,
       MaintInv, Known, RegistryInv, KnownInv, Serial, Intact, ReadyInv, StateOf, NewState,
       UniqueInv, Orderly, FreeInv, ListedInv
  <2>2. CallerType'
    BY <2>u, <2>g, <2>c DEF CallerType
  <2>3. CallbackInv'
    BY <2>u, <2>g, <2>c DEF CallbackInv, Serial, Intact
  <2>4. PhaseInv'
    BY <2>u, <2>g DEF PhaseInv, Idle
  <2>5. OwnedInv'
    BY <2>u, <2>g, <2>c DEF OwnedInv, Live, WaitsFor
  <2>6. WaitInv'
    BY <2>u, <2>c DEF WaitInv, Live, WaitsFor
  <2>7. AliveInv'
    BY <2>u, <2>c DEF AliveInv, Live, Serial, Intact, Early, Known
  <2>8. TargetInv'
    BY <2>u, <2>g, <2>c DEF TargetInv, Orderly, Resolves
  <2>9. SettledInv'
    BY <2>u, <2>c DEF SettledInv, Orderly, Resolves
  <2>10. ReplacedInv'
    BY <2>u, <2>g, <2>c DEF ReplacedInv, Orderly, Resolves
  <2>11. MovingInv'
    BY <2>u, <2>c DEF MovingInv, Orderly, Resolves
  <2>12. VacatedInv'
    BY <2>u, <2>g, <2>c DEF VacatedInv, Orderly, Known
  <2>13. PlacedInv'
    BY <1>14, <2>u, <2>g, <2>c DEF PlacedInv, Orderly, Known, Removes
  <2>14. TaskedInv'
    BY <2>u, <2>g, <2>c DEF TaskedInv, Orderly, Known, Removes
  <2>15. NamedInv'
    BY <2>u, <2>g, <2>c DEF NamedInv, Orderly, Known, Removes
  <2>16. VictimInv'
    BY <2>u, <2>o, <2>c DEF VictimInv, Orderly, Serial, Intact
  <2> QED BY <2>1, <2>2, <2>3, <2>4, <2>5, <2>6, <2>7, <2>8, <2>9, <2>10, <2>11, <2>12,
     <2>13, <2>14, <2>15, <2>16 DEF HubInv, TypeOK
<1>15. ASSUME NEW c \in Callbacks, NEW t \in Supervisors, Appeared(c, t) PROVE HubInv'
  <2>u. UNCHANGED <<maint, devices, quiesce, phase, network, lapses>>
    BY <1>15 DEF Appeared, Enters, tables, mdns
  <2>g. /\ turn = c /\ cb[c].pc = "add" /\ task[cb[c].ep] = None /\ phase = "serve"
        /\ held' = held \cup {cb[c].ep} /\ turn' = None
    BY <1>15 DEF Appeared, Enters, CbGoesOn, CbBecomes
  <2>o. Serial => \A b \in Callbacks : b # c => cb[b].pc = "idle"
    BY <2>g DEF CallbackInv
  <2>v. /\ cb[c].svc \in Services /\ cb[c].ep \in Tcp /\ cb[c].ep # None
    BY <2>g, HubAssumption DEF CallbackInv, Endpoints
  <2>e. /\ cb[c].ep \in Endpoints /\ cb[c].ep \notin Usb /\ Owner[cb[c].svc] \in Devices
    BY <2>v, HubAssumption DEF Endpoints
  <2>s. /\ state' \in [Endpoints -> EndpointState \cup {None}] /\ state'[cb[c].ep] # None
        /\ state'[cb[c].ep].mdns = TRUE /\ state'[cb[c].ep].adv = Owner[cb[c].svc]
        /\ state'[cb[c].ep].dev = StateOf(cb[c].ep).dev
        /\ \A f \in Endpoints : f # cb[c].ep => state'[f] = state[f]
    BY <1>15, <2>v, <2>e, EntryUpdate DEF Appeared, Enters
  <2>l. /\ svc' \in [Services -> Tcp \cup {None}] /\ svc'[cb[c].svc] = cb[c].ep
        /\ \A r \in Services : r # cb[c].svc => svc'[r] = svc[r]
        /\ devSvc' \in [Devices -> Services \cup {None}]
        /\ devSvc'[Owner[cb[c].svc]] = cb[c].svc
        /\ \A d \in Devices : d # Owner[cb[c].svc] => devSvc'[d] = devSvc[d]
    BY <1>15, <2>v, <2>e DEF Appeared, Listed, MdnsType
  <2>p. /\ sup[t].pc \in Ended
        /\ \A b \in Callbacks : cb[b].waits # t
        /\ quiesce.waits # t
        /\ \A f \in Endpoints : task[f] # t
        /\ \A d \in Devices : devices[d] # t
    BY <1>15 DEF Appeared, Spare, Waited
  <2>t. /\ SupType' /\ sup'[t].ep = cb[c].ep /\ sup'[t].pc = "new" /\ sup'[t].dev = None
        /\ sup'[t].cancel = FALSE
        /\ \A u \in Supervisors : u # t => sup'[u] = sup[u]
    BY <1>15 DEF Appeared, SupBecomes
  <2>a. /\ task' \in [Endpoints -> Supervisors \cup {None}] /\ task'[cb[c].ep] = t
        /\ \A f \in Endpoints : f # cb[c].ep => task'[f] = task[f]
    BY <1>15, <2>e DEF Appeared, TablesType
  <2>c. /\ cb' \in [Callbacks -> CbRecord] /\ cb'[c].pc = "idle" /\ cb'[c].svc = None
        /\ cb'[c].ep = None /\ cb'[c].on = None /\ cb'[c].waits = None
        /\ cb'[c].then = "idle"
        /\ \A b \in Callbacks : b # c => cb'[b] = cb[b]
    BY <1>15 DEF Appeared, Enters, CbGoesOn, CbBecomes
  <2>z. Orderly => /\ network[cb[c].svc] = cb[c].ep
                   /\ \A s \in Services : s # cb[c].svc /\ svc[s] # None =>
                         Owner[s] # Owner[cb[c].svc] /\ svc[s] = network[s] /\ svc[s] # cb[c].ep
    <3> SUFFICES ASSUME Orderly PROVE
            /\ network[cb[c].svc] = cb[c].ep
            /\ \A s \in Services : s # cb[c].svc /\ svc[s] # None =>
                  Owner[s] # Owner[cb[c].svc] /\ svc[s] = network[s] /\ svc[s] # cb[c].ep
      OBVIOUS
    <3>1. Resolves(c) /\ network[cb[c].svc] = cb[c].ep
      BY <2>g, <2>v, HubAssumption DEF TargetInv, Resolves
    <3>2. \A b \in Callbacks : Resolves(b) => b = c
      BY <1>s, <2>o DEF Resolves
    <3>3. ASSUME NEW s \in Services, s # cb[c].svc, svc[s] # None
          PROVE  Owner[s] # Owner[cb[c].svc] /\ svc[s] = network[s] /\ svc[s] # cb[c].ep
      <4>1. Owner[s] # Owner[cb[c].svc]
        BY <3>1, <3>3, <2>g DEF ReplacedInv
      <4>2. svc[s] = network[s]
        BY <3>2, <4>1 DEF SettledInv
      <4> QED BY <3>1, <3>3, <4>1, <4>2, <2>v DEF UniqueInv
    <3> QED BY <3>1, <3>3
  <2>1. UniqueInv'
    BY <2>u DEF UniqueInv, Orderly
  <2>2. TablesType'
    BY <2>u, <2>g, <2>e, <2>s, <2>a DEF TablesType
  <2>3. MdnsType'
    BY <2>u, <2>l DEF MdnsType
  <2>4. SupType'
    BY <2>t DEF SupType
  <2>5. CallerType'
    BY <2>u, <2>g, <2>c DEF CallerType
  <2>6. CallbackInv'
    BY <2>u, <2>g, <2>c, HubAssumption DEF CallbackInv, Serial, Intact
  <2>7. PhaseInv'
    BY <2>u, <2>c DEF PhaseInv, Idle
  <2>8. SupInv'
    BY <2>t, <2>v, HubAssumption DEF SupInv, Live, Ended
  <2>9. TaskInv'
    BY <2>u, <2>g, <2>e, <2>p, <2>t, <2>a DEF TaskInv, Live, Early, TablesType
  <2>10. OwnedInv'
    <3> SUFFICES ASSUME NEW x \in Supervisors, Live(x)'
                 PROVE  \/ task'[sup'[x].ep] = x
                        \/ \E b \in Callbacks : cb'[b].pc = "wait" /\ cb'[b].waits = x
                        \/ quiesce'.waits = x
      BY DEF OwnedInv, WaitsFor
    <3>1. CASE x = t
      BY <3>1, <2>t, <2>a
    <3>2. CASE x # t
      <4>1. sup'[x] = sup[x] /\ Live(x) /\ sup[x].ep \in Endpoints
        BY <3>2, <2>t, <1>e DEF Live
      <4>2. CASE task[sup[x].ep] = x
        BY <4>1, <4>2, <2>a, <2>g, HubAssumption
      <4>3. ASSUME NEW b \in Callbacks, WaitsFor(b, x)
            PROVE  cb'[b].pc = "wait" /\ cb'[b].waits = x
        BY <4>3, <2>g, <2>c DEF WaitsFor
      <4>4. CASE quiesce.waits = x
        BY <4>4, <2>u
      <4> QED BY <4>1, <4>2, <4>3, <4>4 DEF OwnedInv
    <3> QED BY <3>1, <3>2
  <2>11. WaitInv'
    <3>1. ASSUME NEW b \in Callbacks, NEW x \in Supervisors,
                 WaitsFor(b, x)', Live(x)'
          PROVE  sup'[x].ep = cb'[b].on /\ sup'[x].cancel
      <4>1. WaitsFor(b, x) /\ x # t /\ cb'[b].on = cb[b].on
        BY <3>1, <2>c, <2>p DEF WaitsFor
      <4>2. sup'[x] = sup[x] /\ Live(x)
        BY <3>1, <4>1, <2>t DEF Live
      <4> QED BY <4>1, <4>2 DEF WaitInv
    <3>2. ASSUME NEW x \in Supervisors, quiesce'.waits = x, Live(x)'
          PROVE  sup'[x].ep = quiesce'.ep /\ sup'[x].cancel
      <4>1. quiesce.waits = x /\ x # t
        BY <3>2, <2>u, <2>p
      <4>2. sup'[x] = sup[x] /\ Live(x)
        BY <3>2, <4>1, <2>t DEF Live
      <4> QED BY <4>1, <4>2, <2>u DEF WaitInv
    <3> QED BY <3>1, <3>2 DEF WaitInv
  <2>12. MaintInv'
    BY <2>u, <2>g, <2>e, <2>s DEF MaintInv, Known, TablesType
  <2>13. RegistryInv'
    <3> SUFFICES ASSUME NEW d \in Devices, devices[d] # None
                 PROVE  /\ sup'[devices[d]].pc \in {"ready", "closing", "unwinding"}
                        /\ sup'[devices[d]].dev = d
                        /\ ~sup'[devices[d]].cancel /\ state'[sup'[devices[d]].ep] # None =>
                              state'[sup'[devices[d]].ep].dev = d
      BY <2>u DEF RegistryInv, Known
    <3>1. devices[d] \in Supervisors /\ sup'[devices[d]] = sup[devices[d]]
      BY <1>d, <2>p, <2>t
    <3>2. ~sup[devices[d]].cancel => sup[devices[d]].ep # cb[c].ep /\ sup[devices[d]].ep \in Endpoints
      BY <1>d, <1>t, <2>g, HubAssumption
    <3> QED BY <3>1, <3>2, <2>s DEF RegistryInv, Known
  <2>14. KnownInv'
    BY <2>u, <2>s, <2>t DEF KnownInv, Live, Known, Serial, Intact, SupInv, TablesType, SupType,
       SupRecord
  <2>15. AliveInv'
    <3> SUFFICES ASSUME Serial PROVE AliveInv'
      BY <2>u DEF AliveInv, Serial, Intact
    <3>1. ASSUME NEW f \in Endpoints, task'[f] # None, Early
          PROVE  (Intact => Live(task[f])') /\ state'[f] # None /\ f \in held'
      <4>1. CASE f = cb[c].ep
        BY <4>1, <2>a, <2>t, <2>s, <2>g DEF Live, Ended
      <4>2. CASE f # cb[c].ep
        <5>1. task'[f] = task[f] /\ task[f] # t /\ task[f] \in Supervisors
          BY <3>1, <4>2, <2>a, <2>p DEF TablesType
        <5>2. (Intact => Live(task[f])) /\ Known(f) /\ f \in held
          BY <3>1, <5>1 DEF AliveInv
        <5> QED BY <5>1, <5>2, <4>2, <2>t, <2>s, <2>g DEF Live, Known
      <4> QED BY <4>1, <4>2
    <3>2. \A b \in Callbacks : cb'[b].pc = "idle"
      BY <2>o, <2>c
    <3> QED BY <2>u, <3>1, <3>2 DEF AliveInv, Serial, Intact, Early, Known
  <2>16. ReadyInv'
    BY <2>u, <2>s, <2>t DEF ReadyInv, Known, StateOf, Endpoints
  <2>17. FreeInv'
    BY <2>u, <2>s DEF FreeInv, Orderly, Known, Endpoints, MdnsType
  <2>18. TargetInv'
    BY <2>u, <2>c DEF TargetInv, Orderly, Resolves
  <2>19. ListedInv'
    BY <2>u, <2>l, <2>v, <2>e, <2>z, HubAssumption DEF ListedInv, Orderly, MdnsType
  <2>20. SettledInv'
    <3> SUFFICES ASSUME Orderly PROVE SettledInv'
      BY <2>u DEF SettledInv, Orderly

    <3>1. SUFFICES ASSUME NEW s \in Services PROVE svc'[s] = network[s]
      BY <2>u DEF SettledInv
    <3>2. CASE s = cb[c].svc
      BY <3>2, <2>l, <2>z
    <3>3. CASE s # cb[c].svc /\ Owner[s] = Owner[cb[c].svc]
      <4>1. svc[s] = None
        BY <3>3, <2>z
      <4>2. network[s] = None
        BY <3>3, <2>z, <2>v DEF UniqueInv
      <4> QED BY <3>3, <4>1, <4>2, <2>l
    <3>4. CASE s # cb[c].svc /\ Owner[s] # Owner[cb[c].svc]
      <4>1. \A b \in Callbacks : Resolves(b) => Owner[cb[b].svc] # Owner[s]
        BY <1>s, <2>o, <3>4 DEF Resolves
      <4> QED BY <3>4, <4>1, <2>l DEF SettledInv
    <3> QED BY <3>2, <3>3, <3>4
  <2>21. ReplacedInv'
    BY <2>u, <2>o, <2>c DEF ReplacedInv, Orderly, Resolves, Serial, Intact
  <2>22. MovingInv'
    BY <2>u, <2>o, <2>c DEF MovingInv, Orderly, Serial, Intact
  <2>23. VacatedInv'
    BY <2>u, <2>o, <2>c DEF VacatedInv, Orderly, Serial, Intact
  <2>24. PlacedInv'
    <3> SUFFICES ASSUME Orderly PROVE PlacedInv'
      BY <2>u DEF PlacedInv, Orderly

    <3>1. SUFFICES ASSUME NEW s \in Services, svc'[s] # None
                   PROVE  state'[svc'[s]] # None /\ state'[svc'[s]].mdns
                          /\ state'[svc'[s]].adv = Owner[s]
      BY DEF PlacedInv, Known
    <3>2. CASE s = cb[c].svc
      BY <3>2, <2>l, <2>s
    <3>3. CASE s # cb[c].svc
      <4>1. svc'[s] = svc[s] /\ svc[s] # None /\ svc[s] # cb[c].ep /\ svc[s] \in Endpoints
        BY <3>1, <3>3, <2>l, <2>z DEF MdnsType, Endpoints
      <4>2. \A b \in Callbacks : ~Removes(b, svc[s])
        BY <1>s, <2>o, <2>g DEF Removes
      <4>3. \A b \in Callbacks : ~(cb[b].pc = "add" /\ cb[b].svc = s)
        BY <1>s, <2>o, <3>3
      <4>4. Known(svc[s]) /\ state[svc[s]].mdns /\ state[svc[s]].adv = Owner[s]
        BY <4>1, <4>2, <4>3 DEF PlacedInv
      <4> QED BY <4>1, <4>4, <2>s DEF Known
    <3> QED BY <3>2, <3>3
  <2>25. TaskedInv'
    BY <2>u, <2>g, <2>s, <2>p, <2>a, <2>c DEF TaskedInv, Orderly, Known, Removes, Endpoints
  <2>26. NamedInv'
    <3> SUFFICES ASSUME Orderly PROVE NamedInv'
      BY <2>u DEF NamedInv, Orderly

    <3>1. SUFFICES ASSUME NEW e \in Tcp, state'[e] # None, state'[e].mdns
                   PROVE  \E s \in Services : svc'[s] = e
      BY DEF NamedInv, Known
    <3>2. CASE e = cb[c].ep
      BY <3>2, <2>l, <2>v
    <3>3. CASE e # cb[c].ep
      <4>1. Known(e) /\ state[e].mdns
        BY <3>1, <3>3, <2>s DEF Known, Endpoints
      <4>2. \A b \in Callbacks : ~Removes(b, e)
        BY <1>s, <2>o, <2>g DEF Removes
      <4>3. PICK s \in Services : svc[s] = e
        BY <4>1, <4>2 DEF NamedInv
      <4>4. s # cb[c].svc
        BY <4>1, <4>3, <3>3, <2>g, HubAssumption DEF VacatedInv, Endpoints
      <4> QED BY <4>3, <4>4, <2>l
    <3> QED BY <3>2, <3>3
  <2>27. VictimInv'
    BY <2>u, <2>o, <2>c DEF VictimInv, Orderly, Serial, Intact
  <2> QED BY <2>1, <2>2, <2>3, <2>4, <2>5, <2>6, <2>7, <2>8, <2>9, <2>10, <2>11, <2>12,
     <2>13, <2>14, <2>15, <2>16, <2>17, <2>18, <2>19, <2>20, <2>21, <2>22, <2>23, <2>24,
     <2>25, <2>26, <2>27 DEF HubInv, TypeOK
<1>16. ASSUME NEW c \in Callbacks, Confirmed(c) PROVE HubInv'
  <2>u. UNCHANGED <<held, maint, task, devices, sup, quiesce, phase, network, lapses>>
    BY <1>16 DEF Confirmed, Enters, tables, mdns
  <2>g. /\ turn = c /\ cb[c].pc = "add" /\ task[cb[c].ep] # None /\ turn' = None
    BY <1>16 DEF Confirmed, Enters, CbGoesOn, CbBecomes
  <2>o. Serial => \A b \in Callbacks : b # c => cb[b].pc = "idle"
    BY <2>g DEF CallbackInv
  <2>v. /\ cb[c].svc \in Services /\ cb[c].ep \in Tcp /\ cb[c].ep # None
    BY <2>g, HubAssumption DEF CallbackInv, Endpoints
  <2>e. /\ cb[c].ep \in Endpoints /\ cb[c].ep \notin Usb /\ Owner[cb[c].svc] \in Devices
    BY <2>v, HubAssumption DEF Endpoints
  <2>s. /\ state' \in [Endpoints -> EndpointState \cup {None}] /\ state'[cb[c].ep] # None
        /\ state'[cb[c].ep].mdns = TRUE /\ state'[cb[c].ep].adv = Owner[cb[c].svc]
        /\ state'[cb[c].ep].dev = StateOf(cb[c].ep).dev
        /\ \A f \in Endpoints : f # cb[c].ep => state'[f] = state[f]
    BY <1>16, <2>v, <2>e, EntryUpdate DEF Confirmed, Enters
  <2>l. /\ svc' \in [Services -> Tcp \cup {None}] /\ svc'[cb[c].svc] = cb[c].ep
        /\ \A r \in Services : r # cb[c].svc => svc'[r] = svc[r]
        /\ devSvc' \in [Devices -> Services \cup {None}]
        /\ devSvc'[Owner[cb[c].svc]] = cb[c].svc
        /\ \A d \in Devices : d # Owner[cb[c].svc] => devSvc'[d] = devSvc[d]
    BY <1>16, <2>v, <2>e DEF Confirmed, Listed, MdnsType
  <2>k. /\ Known(cb[c].ep) /\ state'[cb[c].ep].dev = state[cb[c].ep].dev
    BY <1>16, <2>s DEF Confirmed, StateOf, NewState
  <2>c. /\ cb' \in [Callbacks -> CbRecord] /\ cb'[c].pc = "idle" /\ cb'[c].svc = None
        /\ cb'[c].ep = None /\ cb'[c].on = None /\ cb'[c].waits = None
        /\ cb'[c].then = "idle"
        /\ \A b \in Callbacks : b # c => cb'[b] = cb[b]
    BY <1>16 DEF Confirmed, Enters, CbGoesOn, CbBecomes
  <2>z. Orderly => /\ network[cb[c].svc] = cb[c].ep
                   /\ \A s \in Services : s # cb[c].svc /\ svc[s] # None =>
                         Owner[s] # Owner[cb[c].svc] /\ svc[s] = network[s] /\ svc[s] # cb[c].ep
    <3> SUFFICES ASSUME Orderly PROVE
            /\ network[cb[c].svc] = cb[c].ep
            /\ \A s \in Services : s # cb[c].svc /\ svc[s] # None =>
                  Owner[s] # Owner[cb[c].svc] /\ svc[s] = network[s] /\ svc[s] # cb[c].ep
      OBVIOUS
    <3>1. Resolves(c) /\ network[cb[c].svc] = cb[c].ep
      BY <2>g, <2>v, HubAssumption DEF TargetInv, Resolves
    <3>2. \A b \in Callbacks : Resolves(b) => b = c
      BY <1>s, <2>o DEF Resolves
    <3>3. ASSUME NEW s \in Services, s # cb[c].svc, svc[s] # None
          PROVE  Owner[s] # Owner[cb[c].svc] /\ svc[s] = network[s] /\ svc[s] # cb[c].ep
      <4>1. Owner[s] # Owner[cb[c].svc]
        BY <3>1, <3>3, <2>g DEF ReplacedInv
      <4>2. svc[s] = network[s]
        BY <3>2, <4>1 DEF SettledInv
      <4> QED BY <3>1, <3>3, <4>1, <4>2, <2>v DEF UniqueInv
    <3> QED BY <3>1, <3>3
  <2>1. SupType' /\ SupInv' /\ TaskInv' /\ UniqueInv'
    BY <2>u DEF SupType, SupInv, Live, Ended, TaskInv, Early, UniqueInv, Orderly
  <2>2. TablesType'
    BY <2>u, <2>s DEF TablesType
  <2>3. MdnsType'
    BY <2>u, <2>l DEF MdnsType
  <2>4. CallerType'
    BY <2>u, <2>g, <2>c DEF CallerType
  <2>5. CallbackInv'
    BY HubAssumption, <2>u, <2>g, <2>c DEF CallbackInv, Serial, Intact
  <2>6. PhaseInv'
    BY <2>u, <2>c DEF PhaseInv, Idle
  <2>7. OwnedInv'
    BY <1>16, <2>u, <2>g, <2>c DEF OwnedInv, Live, WaitsFor
  <2>8. WaitInv'
    BY <1>16, <2>u, <2>c DEF WaitInv, Live, WaitsFor
  <2>9. MaintInv'
    BY <2>u, <2>s, <2>k DEF MaintInv, Known, TablesType
  <2>10. RegistryInv'
    BY <2>u, <2>s, <2>k DEF RegistryInv, Known, SupInv, Live, Ended, TablesType, SupType,
       SupRecord
  <2>11. KnownInv'
    BY <2>u, <2>s DEF KnownInv, Live, Known, Serial, Intact, SupInv, SupType, SupRecord
  <2>12. AliveInv'
    BY <1>16, <2>u, <2>s, <2>c DEF AliveInv, Live, Serial, Intact, Early, Known
  <2>13. ReadyInv'
    BY <2>u, <2>s DEF ReadyInv, Known, StateOf, Endpoints
  <2>14. FreeInv'
    BY <2>u, <2>s DEF FreeInv, Orderly, Known, Endpoints, MdnsType
  <2>15. TargetInv'
    BY <2>u, <2>c DEF TargetInv, Orderly, Resolves
  <2>16. ListedInv'
    BY <2>u, <2>l, <2>v, <2>e, <2>z, HubAssumption DEF ListedInv, Orderly, MdnsType
  <2>17. SettledInv'
    <3> SUFFICES ASSUME Orderly PROVE SettledInv'
      BY <2>u DEF SettledInv, Orderly

    <3>1. SUFFICES ASSUME NEW s \in Services PROVE svc'[s] = network[s]
      BY <2>u DEF SettledInv
    <3>2. CASE s = cb[c].svc
      BY <3>2, <2>l, <2>z
    <3>3. CASE s # cb[c].svc /\ Owner[s] = Owner[cb[c].svc]
      <4>1. svc[s] = None
        BY <3>3, <2>z
      <4>2. network[s] = None
        BY <3>3, <2>z, <2>v DEF UniqueInv
      <4> QED BY <3>3, <4>1, <4>2, <2>l
    <3>4. CASE s # cb[c].svc /\ Owner[s] # Owner[cb[c].svc]
      <4>1. \A b \in Callbacks : Resolves(b) => Owner[cb[b].svc] # Owner[s]
        BY <1>s, <2>o, <3>4 DEF Resolves
      <4> QED BY <3>4, <4>1, <2>l DEF SettledInv
    <3> QED BY <3>2, <3>3, <3>4
  <2>18. ReplacedInv'
    BY <2>u, <2>o, <2>c DEF ReplacedInv, Orderly, Resolves, Serial, Intact
  <2>19. MovingInv'
    BY <2>u, <2>o, <2>c DEF MovingInv, Orderly, Serial, Intact
  <2>20. VacatedInv'
    BY <2>u, <2>o, <2>c DEF VacatedInv, Orderly, Serial, Intact
  <2>21. PlacedInv'
    <3> SUFFICES ASSUME Orderly PROVE PlacedInv'
      BY <2>u DEF PlacedInv, Orderly

    <3>1. SUFFICES ASSUME NEW s \in Services, svc'[s] # None
                   PROVE  state'[svc'[s]] # None /\ state'[svc'[s]].mdns
                          /\ state'[svc'[s]].adv = Owner[s]
      BY DEF PlacedInv, Known
    <3>2. CASE s = cb[c].svc
      BY <3>2, <2>l, <2>s
    <3>3. CASE s # cb[c].svc
      <4>1. svc'[s] = svc[s] /\ svc[s] # None /\ svc[s] # cb[c].ep /\ svc[s] \in Endpoints
        BY <3>1, <3>3, <2>l, <2>z DEF MdnsType, Endpoints
      <4>2. \A b \in Callbacks : ~Removes(b, svc[s])
        BY <1>s, <2>o, <2>g DEF Removes
      <4>3. \A b \in Callbacks : ~(cb[b].pc = "add" /\ cb[b].svc = s)
        BY <1>s, <2>o, <3>3
      <4>4. Known(svc[s]) /\ state[svc[s]].mdns /\ state[svc[s]].adv = Owner[s]
        BY <4>1, <4>2, <4>3 DEF PlacedInv
      <4> QED BY <4>1, <4>4, <2>s DEF Known
    <3> QED BY <3>2, <3>3
  <2>22. TaskedInv'
    BY <2>u, <2>g, <2>s, <2>c DEF TaskedInv, Orderly, Known, Removes, Endpoints
  <2>23. NamedInv'
    <3> SUFFICES ASSUME Orderly PROVE NamedInv'
      BY <2>u DEF NamedInv, Orderly

    <3>1. SUFFICES ASSUME NEW e \in Tcp, state'[e] # None, state'[e].mdns
                   PROVE  \E s \in Services : svc'[s] = e
      BY DEF NamedInv, Known
    <3>2. CASE e = cb[c].ep
      BY <3>2, <2>l, <2>v
    <3>3. CASE e # cb[c].ep
      <4>1. Known(e) /\ state[e].mdns
        BY <3>1, <3>3, <2>s DEF Known, Endpoints
      <4>2. \A b \in Callbacks : ~Removes(b, e)
        BY <1>s, <2>o, <2>g DEF Removes
      <4>3. PICK s \in Services : svc[s] = e
        BY <4>1, <4>2 DEF NamedInv
      <4>4. s # cb[c].svc
        BY <4>1, <4>3, <3>3, <2>g, HubAssumption DEF VacatedInv, Endpoints
      <4> QED BY <4>3, <4>4, <2>l
    <3> QED BY <3>2, <3>3
  <2>24. VictimInv'
    BY <2>u, <2>o, <2>c DEF VictimInv, Orderly, Serial, Intact
  <2> QED BY <2>1, <2>2, <2>3, <2>4, <2>5, <2>6, <2>7, <2>8, <2>9, <2>10, <2>11, <2>12,
     <2>13, <2>14, <2>15, <2>16, <2>17, <2>18, <2>19, <2>20, <2>21, <2>22, <2>23, <2>24 DEF
     HubInv, TypeOK
<1>17. ASSUME NEW c \in Callbacks, Locked(c) PROVE HubInv'
  <2>u. UNCHANGED <<held, maint, task, devices, svc, devSvc, sup, quiesce, phase, network, lapses>>
    BY <1>17 DEF Locked, Enters, tables, mdns
  <2>g. /\ turn = c /\ cb[c].pc = "add" /\ task[cb[c].ep] = None
        /\ cb[c].ep \in Contended /\ turn' = None
    BY <1>17 DEF Locked, Enters, CbGoesOn, CbBecomes
  <2>o. Serial => \A b \in Callbacks : b # c => cb[b].pc = "idle"
    BY <2>g DEF CallbackInv
  <2>v. /\ cb[c].svc \in Services /\ cb[c].ep \in Tcp /\ cb[c].ep # None
    BY <2>g, HubAssumption DEF CallbackInv, Endpoints
  <2>e. /\ cb[c].ep \in Endpoints /\ cb[c].ep \notin Usb /\ Owner[cb[c].svc] \in Devices
    BY <2>v, HubAssumption DEF Endpoints
  <2>s. /\ state' \in [Endpoints -> EndpointState \cup {None}] /\ state'[cb[c].ep] # None
        /\ state'[cb[c].ep].mdns = TRUE /\ state'[cb[c].ep].adv = Owner[cb[c].svc]
        /\ state'[cb[c].ep].dev = StateOf(cb[c].ep).dev
        /\ \A f \in Endpoints : f # cb[c].ep => state'[f] = state[f]
    BY <1>17, <2>v, <2>e, EntryUpdate DEF Locked, Enters
  <2>n. ~Contended \subseteq Usb
    BY <2>g, <2>e
  <2>c. /\ cb' \in [Callbacks -> CbRecord] /\ cb'[c].pc = "idle" /\ cb'[c].svc = None
        /\ cb'[c].ep = None /\ cb'[c].on = None /\ cb'[c].waits = None
        /\ cb'[c].then = "idle"
        /\ \A b \in Callbacks : b # c => cb'[b] = cb[b]
    BY <1>17 DEF Locked, Enters, CbGoesOn, CbBecomes
  <2>1. MdnsType' /\ SupType' /\ SupInv' /\ TaskInv' /\ UniqueInv' /\ ListedInv'
    BY <2>u DEF MdnsType, SupType, SupInv, Live, Ended, TaskInv, Early, UniqueInv, Orderly,
       ListedInv
  <2>2. TablesType'
    BY <2>u, <2>s DEF TablesType
  <2>3. CallerType'
    BY <2>u, <2>g, <2>c DEF CallerType
  <2>4. CallbackInv'
    BY HubAssumption, <2>u, <2>g, <2>c DEF CallbackInv, Serial, Intact
  <2>5. PhaseInv'
    BY <2>u, <2>c DEF PhaseInv, Idle
  <2>6. OwnedInv'
    BY <2>u, <2>g, <2>c DEF OwnedInv, Live, WaitsFor
  <2>7. WaitInv'
    BY <2>u, <2>c DEF WaitInv, Live, WaitsFor
  <2>8. MaintInv'
    BY <2>u, <2>e, <2>s DEF MaintInv, Known, TablesType
  <2>9. RegistryInv'
    <3> SUFFICES ASSUME NEW d \in Devices, devices[d] # None
                 PROVE  /\ sup'[devices[d]].pc \in {"ready", "closing", "unwinding"}
                        /\ sup'[devices[d]].dev = d
                        /\ ~sup'[devices[d]].cancel /\ state'[sup'[devices[d]].ep] # None =>
                              state'[sup'[devices[d]].ep].dev = d
      BY <2>u DEF RegistryInv, Known
    <3>1. devices[d] \in Supervisors /\ sup'[devices[d]] = sup[devices[d]]
      BY <1>d, <2>u
    <3>2. ~sup[devices[d]].cancel => sup[devices[d]].ep # cb[c].ep /\ sup[devices[d]].ep \in Endpoints
      BY <1>d, <1>t, <2>g, HubAssumption
    <3> QED BY <3>1, <3>2, <2>s DEF RegistryInv, Known
  <2>10. KnownInv'
    BY <2>u, <2>s DEF KnownInv, Live, Known, Serial, Intact, SupInv, SupType, SupRecord
  <2>11. AliveInv'
    BY <2>u, <2>s, <2>c DEF AliveInv, Live, Serial, Intact, Early, Known
  <2>12. ReadyInv'
    BY <2>u, <2>s DEF ReadyInv, Known, StateOf, Endpoints
  <2>13. FreeInv'
    BY <2>n DEF FreeInv, Orderly
  <2>14. TargetInv'
    BY <2>n DEF TargetInv, Orderly
  <2>15. SettledInv'
    BY <2>n DEF SettledInv, Orderly
  <2>16. ReplacedInv'
    BY <2>n DEF ReplacedInv, Orderly
  <2>17. MovingInv'
    BY <2>n DEF MovingInv, Orderly
  <2>18. VacatedInv'
    BY <2>n DEF VacatedInv, Orderly
  <2>19. PlacedInv'
    BY <2>n DEF PlacedInv, Orderly
  <2>20. TaskedInv'
    BY <2>n DEF TaskedInv, Orderly
  <2>21. NamedInv'
    BY <2>n DEF NamedInv, Orderly
  <2>22. VictimInv'
    BY <2>n DEF VictimInv, Orderly
  <2> QED BY <2>1, <2>2, <2>3, <2>4, <2>5, <2>6, <2>7, <2>8, <2>9, <2>10, <2>11, <2>12,
     <2>13, <2>14, <2>15, <2>16, <2>17, <2>18, <2>19, <2>20, <2>21, <2>22 DEF HubInv, TypeOK
<1>18. ASSUME NEW c \in Callbacks, Ignored(c) PROVE HubInv'
  <2>u. UNCHANGED <<state, held, maint, task, devices, svc, devSvc, sup, quiesce, phase,
        network, lapses>>
    BY <1>18 DEF Ignored, tables, mdns
  <2>g. /\ turn = c /\ cb[c].pc = "add" /\ turn' = None
    BY <1>18 DEF Ignored, CbGoesOn, CbBecomes
  <2>x. phase # "serve" \/ (task[cb[c].ep] # None /\ ~StateOf(cb[c].ep).mdns)
    BY <1>18 DEF Ignored
  <2>o. Serial => \A b \in Callbacks : b # c => cb[b].pc = "idle"
    BY <2>g DEF CallbackInv
  <2>v. /\ cb[c].svc \in Services /\ cb[c].ep \in Tcp /\ cb[c].ep # None
    BY <2>g, HubAssumption DEF CallbackInv, Endpoints
  <2>e. /\ cb[c].ep \in Endpoints /\ cb[c].ep \notin Usb /\ Owner[cb[c].svc] \in Devices
    BY <2>v, HubAssumption DEF Endpoints
  <2>n. ~Orderly
    <3> SUFFICES ASSUME Orderly PROVE FALSE
      OBVIOUS
    <3>1. Resolves(c) /\ ~Idle
      BY <2>g, <2>v, HubAssumption DEF Resolves, Idle
    <3>2. phase = "serve"
      BY <3>1 DEF Orderly, PhaseInv
    <3>3. Known(cb[c].ep)
      BY <3>2, <2>x, <2>e DEF AliveInv, Orderly, Serial, Intact, Early
    <3>4. network[cb[c].svc] = cb[c].ep
      BY <3>1 DEF TargetInv
    <3>5. state[cb[c].ep].mdns
      BY <3>3, <3>4, <2>v DEF FreeInv
    <3> QED BY <3>2, <3>3, <3>5, <2>x DEF StateOf
  <2>c. /\ cb' \in [Callbacks -> CbRecord] /\ cb'[c].pc = "idle" /\ cb'[c].svc = None
        /\ cb'[c].ep = None /\ cb'[c].on = None /\ cb'[c].waits = None
        /\ cb'[c].then = "idle"
        /\ \A b \in Callbacks : b # c => cb'[b] = cb[b]
    BY <1>18 DEF Ignored, CbGoesOn, CbBecomes
  <2>1. TablesType' /\ MdnsType' /\ SupType' /\ SupInv' /\ TaskInv' /\ MaintInv' /\
     RegistryInv' /\ KnownInv' /\ ReadyInv' /\ UniqueInv' /\ FreeInv' /\ ListedInv'
    BY <2>u DEF TablesType, MdnsType, SupType, SupInv, Live, Ended, TaskInv, Early,
       MaintInv, Known, RegistryInv, KnownInv, Serial, Intact, ReadyInv, StateOf, NewState,
       UniqueInv, Orderly, FreeInv, ListedInv
  <2>2. CallerType'
    BY <2>u, <2>g, <2>c DEF CallerType
  <2>3. CallbackInv'
    BY HubAssumption, <2>u, <2>g, <2>c DEF CallbackInv, Serial, Intact
  <2>4. PhaseInv'
    BY <2>u, <2>c DEF PhaseInv, Idle
  <2>5. OwnedInv'
    BY <2>u, <2>g, <2>c DEF OwnedInv, Live, WaitsFor
  <2>6. WaitInv'
    BY <2>u, <2>c DEF WaitInv, Live, WaitsFor
  <2>7. AliveInv'
    BY <2>u, <2>c DEF AliveInv, Live, Serial, Intact, Early, Known
  <2>8. TargetInv'
    BY <2>u, <2>n DEF TargetInv, Orderly
  <2>9. SettledInv'
    BY <2>u, <2>n DEF SettledInv, Orderly
  <2>10. ReplacedInv'
    BY <2>u, <2>n DEF ReplacedInv, Orderly
  <2>11. MovingInv'
    BY <2>u, <2>n DEF MovingInv, Orderly
  <2>12. VacatedInv'
    BY <2>u, <2>n DEF VacatedInv, Orderly
  <2>13. PlacedInv'
    BY <2>u, <2>n DEF PlacedInv, Orderly
  <2>14. TaskedInv'
    BY <2>u, <2>n DEF TaskedInv, Orderly
  <2>15. NamedInv'
    BY <2>u, <2>n DEF NamedInv, Orderly
  <2>16. VictimInv'
    BY <2>u, <2>n DEF VictimInv, Orderly
  <2> QED BY <2>1, <2>2, <2>3, <2>4, <2>5, <2>6, <2>7, <2>8, <2>9, <2>10, <2>11, <2>12,
     <2>13, <2>14, <2>15, <2>16 DEF HubInv, TypeOK
<1>19. ASSUME NEW c \in Callbacks, Spared(c) PROVE HubInv'
  <2>u. UNCHANGED <<state, held, maint, task, devices, svc, devSvc, sup, quiesce, phase,
        network, lapses>>
    BY <1>19 DEF Spared, tables, mdns
  <2>g. /\ turn = c /\ cb[c].pc = "remove"
    BY <1>19 DEF Spared
  <2>x. ~StateOf(cb[c].on).mdns
    BY <1>19 DEF Spared
  <2>o. Serial => \A b \in Callbacks : b # c => cb[b].pc = "idle"
    BY <2>g DEF CallbackInv
  <2>f. /\ cb[c].then \in {"idle", "endpoint", "add"}
        /\ cb[c].then # "idle" => cb[c].svc \in Services /\ cb[c].ep \in Tcp
        /\ cb[c].on \in Tcp /\ cb[c].on # None
    BY <2>g, HubAssumption DEF CallbackInv, CallerType, CbRecord, Endpoints
  <2>n. ~Orderly
    BY <2>g, <2>x, <2>f DEF VictimInv, StateOf
  <2>c. /\ cb' \in [Callbacks -> CbRecord] /\ cb'[c].pc = cb[c].then
        /\ cb'[c].waits = None /\ cb'[c].then = cb[c].then
        /\ \A b \in Callbacks : b # c => cb'[b] = cb[b]
    BY <1>19, <2>f DEF Spared, CbGoesOn, CbBecomes
  <2>h. /\ cb[c].then # "idle" => cb'[c].svc = cb[c].svc /\ cb'[c].ep = cb[c].ep /\ turn' = c
        /\ cb[c].then = "idle" => cb'[c].svc = None /\ turn' = None
    BY <1>19 DEF Spared, CbGoesOn, CbBecomes
  <2>1. TablesType' /\ MdnsType' /\ SupType' /\ SupInv' /\ TaskInv' /\ MaintInv' /\
     RegistryInv' /\ KnownInv' /\ ReadyInv' /\ UniqueInv' /\ FreeInv' /\ ListedInv'
    BY <2>u DEF TablesType, MdnsType, SupType, SupInv, Live, Ended, TaskInv, Early,
       MaintInv, Known, RegistryInv, KnownInv, Serial, Intact, ReadyInv, StateOf, NewState,
       UniqueInv, Orderly, FreeInv, ListedInv
  <2>2. CallerType'
    BY <2>u, <2>c, <2>h DEF CallerType
  <2>3. CallbackInv'
    BY HubAssumption, <2>u, <2>g, <2>f, <2>c, <2>h DEF CallbackInv, Serial, Intact
  <2>4. PhaseInv'
    BY <2>u, <2>g DEF PhaseInv, Idle
  <2>5. OwnedInv'
    BY <1>19, <2>u, <2>g, <2>c DEF OwnedInv, Live, WaitsFor
  <2>6. WaitInv'
    BY <2>u, <2>f, <2>c DEF WaitInv, Live, WaitsFor
  <2>7. AliveInv'
    BY <2>u, <2>f, <2>c DEF AliveInv, Live, Serial, Intact, Early, Known
  <2>8. TargetInv'
    BY <2>u, <2>n DEF TargetInv, Orderly
  <2>9. SettledInv'
    BY <2>u, <2>n DEF SettledInv, Orderly
  <2>10. ReplacedInv'
    BY <2>u, <2>n DEF ReplacedInv, Orderly
  <2>11. MovingInv'
    BY <2>u, <2>n DEF MovingInv, Orderly
  <2>12. VacatedInv'
    BY <2>u, <2>n DEF VacatedInv, Orderly
  <2>13. PlacedInv'
    BY <2>u, <2>n DEF PlacedInv, Orderly
  <2>14. TaskedInv'
    BY <2>u, <2>n DEF TaskedInv, Orderly
  <2>15. NamedInv'
    BY <2>u, <2>n DEF NamedInv, Orderly
  <2>16. VictimInv'
    BY <2>u, <2>n DEF VictimInv, Orderly
  <2> QED BY <2>1, <2>2, <2>3, <2>4, <2>5, <2>6, <2>7, <2>8, <2>9, <2>10, <2>11, <2>12,
     <2>13, <2>14, <2>15, <2>16 DEF HubInv, TypeOK
<1>20. ASSUME NEW c \in Callbacks, Emptied(c) PROVE HubInv'
  <2>u. UNCHANGED <<state, held, maint, task, devices, svc, devSvc, sup, turn, quiesce, phase,
        network, lapses>>
    BY <1>20 DEF Emptied, tables, mdns
  <2>g. /\ turn = c /\ cb[c].pc = "remove" /\ task[cb[c].on] = None
    BY <1>20 DEF Emptied
  <2>o. Serial => \A b \in Callbacks : b # c => cb[b].pc = "idle"
    BY <2>g DEF CallbackInv
  <2>f. /\ cb[c].on \in Tcp /\ cb[c].on \in Endpoints /\ cb[c].on \notin Usb
        /\ cb[c].on # None
    BY <2>g, HubAssumption DEF CallbackInv, Endpoints
  <2>c. /\ cb' \in [Callbacks -> CbRecord] /\ cb'[c].pc = "drop"
        /\ cb'[c].svc = cb[c].svc /\ cb'[c].ep = cb[c].ep /\ cb'[c].on = cb[c].on
        /\ cb'[c].waits = cb[c].waits /\ cb'[c].then = cb[c].then
        /\ \A b \in Callbacks : b # c => cb'[b] = cb[b]
    BY <1>20 DEF Emptied, CbBecomes
  <2>1. TablesType' /\ MdnsType' /\ SupType' /\ SupInv' /\ TaskInv' /\ MaintInv' /\
     RegistryInv' /\ KnownInv' /\ ReadyInv' /\ UniqueInv' /\ FreeInv' /\ ListedInv'
    BY <2>u DEF TablesType, MdnsType, SupType, SupInv, Live, Ended, TaskInv, Early,
       MaintInv, Known, RegistryInv, KnownInv, Serial, Intact, ReadyInv, StateOf, NewState,
       UniqueInv, Orderly, FreeInv, ListedInv
  <2>2. CallerType'
    BY <2>u, <2>c DEF CallerType
  <2>3. CallbackInv'
    BY <2>u, <2>g, <2>c DEF CallbackInv, Serial, Intact
  <2>4. PhaseInv'
    BY <2>u, <2>g DEF PhaseInv, Idle
  <2>5. OwnedInv'
    BY <2>u, <2>g, <2>c DEF OwnedInv, Live, WaitsFor
  <2>6. WaitInv'
    BY <2>u, <2>c DEF WaitInv, Live, WaitsFor
  <2>7. AliveInv'
    BY <2>u, <2>g, <2>c DEF AliveInv, Live, Serial, Intact, Early, Known
  <2>8. TargetInv'
    BY <2>u, <2>g, <2>c DEF TargetInv, Orderly, Resolves
  <2>9. SettledInv'
    BY <2>u, <2>c DEF SettledInv, Orderly, Resolves
  <2>10. ReplacedInv'
    BY <2>u, <2>g, <2>c DEF ReplacedInv, Orderly, Resolves
  <2>11. MovingInv'
    BY <2>u, <2>g, <2>c DEF MovingInv, Orderly, Resolves
  <2>12. VacatedInv'
    BY <2>u, <2>c DEF VacatedInv, Orderly, Known
  <2>13. PlacedInv'
    BY <1>20, <2>u, <2>g, <2>c DEF PlacedInv, Orderly, Known, Removes
  <2>14. TaskedInv'
    BY <2>u, <2>c DEF TaskedInv, Orderly, Known, Removes
  <2>15. NamedInv'
    BY <2>u, <2>c DEF NamedInv, Orderly, Known, Removes
  <2>16. VictimInv'
    BY <2>u, <2>g, <2>c DEF VictimInv, Orderly, Known
  <2> QED BY <2>1, <2>2, <2>3, <2>4, <2>5, <2>6, <2>7, <2>8, <2>9, <2>10, <2>11, <2>12,
     <2>13, <2>14, <2>15, <2>16 DEF HubInv, TypeOK
<1>21. ASSUME NEW c \in Callbacks, Evicted(c) PROVE HubInv'
  <2>u. UNCHANGED <<state, held, maint, devices, svc, devSvc, quiesce, phase, network, lapses>>
    BY <1>21 DEF Evicted, tables, mdns
  <2>g. /\ turn = c /\ cb[c].pc = "remove" /\ task[cb[c].on] # None /\ turn' = None
    BY <1>21 DEF Evicted
  <2>o. Serial => \A b \in Callbacks : b # c => cb[b].pc = "idle"
    BY <2>g DEF CallbackInv
  <2>f. /\ cb[c].on \in Tcp /\ cb[c].on \in Endpoints /\ cb[c].on \notin Usb
        /\ cb[c].on # None
    BY <2>g, HubAssumption DEF CallbackInv, Endpoints
  <2>v. task[cb[c].on] \in Supervisors
    BY <2>g, <2>f DEF TablesType
  <2>t. /\ SupType' /\ sup'[task[cb[c].on]].ep = sup[task[cb[c].on]].ep
        /\ sup'[task[cb[c].on]].pc = sup[task[cb[c].on]].pc
        /\ sup'[task[cb[c].on]].dev = sup[task[cb[c].on]].dev
        /\ sup'[task[cb[c].on]].cancel = (Live(task[cb[c].on]) \/ sup[task[cb[c].on]].cancel)
        /\ \A u \in Supervisors : u # task[cb[c].on] => sup'[u] = sup[u]
    BY <1>21, Zenon DEF Evicted, CancelBecomes, SupBecomes
  <2>a. /\ task' \in [Endpoints -> Supervisors \cup {None}] /\ task'[cb[c].on] = None
        /\ \A f \in Endpoints : f # cb[c].on => task'[f] = task[f]
    BY <1>21, <2>f DEF Evicted, TablesType
  <2>c. /\ cb' \in [Callbacks -> CbRecord] /\ cb'[c].pc = "wait"
        /\ cb'[c].svc = cb[c].svc /\ cb'[c].ep = cb[c].ep /\ cb'[c].on = cb[c].on
        /\ cb'[c].waits = task[cb[c].on] /\ cb'[c].then = cb[c].then
        /\ \A b \in Callbacks : b # c => cb'[b] = cb[b]
    BY <1>21 DEF Evicted, CbBecomes
  <2>y. \A x \in Supervisors : sup'[x].pc = sup[x].pc /\ sup'[x].ep = sup[x].ep /\ sup'[x].dev = sup[x].dev
    BY <2>t
  <2>x. /\ \A x \in Supervisors : sup[x].cancel => sup'[x].cancel
        /\ Live(task[cb[c].on]) => sup'[task[cb[c].on]].cancel
        /\ \A x \in Supervisors : x # task[cb[c].on] => sup'[x] = sup[x]
    BY <2>t, <2>v, Zenon
  <2>1. MdnsType' /\ MaintInv' /\ UniqueInv' /\ FreeInv' /\ ListedInv'
    BY <2>u DEF MdnsType, MaintInv, Known, UniqueInv, Orderly, FreeInv, ListedInv
  <2>2. TablesType'
    BY <2>u, <2>a DEF TablesType
  <2>3. SupType'
    BY <2>t DEF SupType
  <2>4. CallerType'
    BY <2>u, <2>g, <2>c DEF CallerType
  <2>5. CallbackInv'
    BY HubAssumption, <2>u, <2>g, <2>c DEF CallbackInv, Serial, Intact
  <2>6. PhaseInv'
    BY <2>u, <2>g DEF PhaseInv, Idle
  <2>7. SupInv'
    BY <2>t DEF SupInv, Live, SupType, SupRecord
  <2>8. TaskInv'
    <3> SUFFICES ASSUME NEW f \in Endpoints, task'[f] # None
                 PROVE  /\ Live(task[f])' => sup'[task'[f]].ep = f
                        /\ Early => ~sup'[task'[f]].cancel
                        /\ f \notin maint /\ phase # "closed"
      BY <2>u DEF TaskInv, Early
    <3>1. f # cb[c].on /\ task'[f] = task[f] /\ task[f] \in Supervisors
      BY <2>a DEF TablesType
    <3>2. /\ Live(task[f]) => sup[task[f]].ep = f
          /\ Early => ~sup[task[f]].cancel
          /\ f \notin maint /\ phase # "closed"
      BY <3>1 DEF TaskInv
    <3>3. CASE task[f] = task[cb[c].on]
      <4>1. ~Live(task[f])
        BY <3>1, <3>2, <3>3, <2>f, <2>g DEF TaskInv
      <4>2. ~sup[task[f]].cancel
        BY <3>1, <4>1 DEF SupInv
      <4>3. ~sup'[task[f]].cancel
        BY <3>3, <4>1, <4>2, <2>t, Zenon
      <4>4. ~Live(task[f])'
        BY <3>1, <4>1, <2>y DEF Live
      <4> QED BY <3>1, <3>2, <4>3, <4>4
    <3>4. CASE task[f] # task[cb[c].on]
      <4>1. sup'[task[f]] = sup[task[f]]
        BY <3>1, <3>4, <2>x, SMTT(30)
      <4> QED BY <3>1, <3>2, <4>1 DEF Live
    <3> QED BY <3>3, <3>4
  <2>9. OwnedInv'
    BY <1>21, <2>u, <2>g, <2>o, <2>f, <2>v, <2>t, <2>a, <2>c, SMTT(30) DEF OwnedInv, Live, Ended,
       WaitsFor, SupInv, CallbackInv, Serial, Intact, TablesType, Endpoints, SupType, SupRecord,
       SupPcs, CbRecord
  <2>10. WaitInv'
    <3>1. ASSUME NEW b \in Callbacks, NEW x \in Supervisors, WaitsFor(b, x)', Live(x)'
          PROVE  sup'[x].ep = cb'[b].on /\ sup'[x].cancel
      <4>1. Live(x)
        BY <3>1, <2>y DEF Live
      <4>2. CASE b = c
        <5>1. x = task[cb[c].on]
          BY <3>1, <4>2, <2>c DEF WaitsFor
        <5> QED BY <4>1, <4>2, <5>1, <2>g, <2>f, <2>v, <2>c, <2>y, <2>x DEF TaskInv
      <4>3. CASE b # c
        <5>1. WaitsFor(b, x) /\ cb'[b].on = cb[b].on
          BY <3>1, <4>3, <2>c DEF WaitsFor
        <5> QED BY <4>1, <5>1, <2>y, <2>x DEF WaitInv
      <4> QED BY <4>2, <4>3
    <3>2. ASSUME NEW x \in Supervisors, quiesce'.waits = x, Live(x)'
          PROVE  sup'[x].ep = quiesce'.ep /\ sup'[x].cancel
      <4>1. Live(x)
        BY <3>2, <2>y DEF Live
      <4> QED BY <3>2, <4>1, <2>u, <2>y, <2>x DEF WaitInv
    <3> QED BY <3>1, <3>2 DEF WaitInv
  <2>11. RegistryInv'
    BY <2>u, <2>t DEF RegistryInv, Known, TablesType, SupType, SupRecord
  <2>12. KnownInv'
    BY <2>u, <2>t DEF KnownInv, Live, Known, Serial, Intact
  <2>13. AliveInv'
    <3> SUFFICES ASSUME Serial PROVE AliveInv'
      BY <2>u DEF AliveInv, Serial, Intact
    <3>1. ASSUME NEW f \in Endpoints, task'[f] # None, Early
          PROVE  (Intact => Live(task[f])') /\ state'[f] # None /\ f \in held'
      <4>1. task'[f] = task[f] /\ task[f] \in Supervisors
        BY <3>1, <2>a DEF TablesType
      <4>2. (Intact => Live(task[f])) /\ Known(f) /\ f \in held
        BY <3>1, <4>1 DEF AliveInv
      <4> QED BY <4>1, <4>2, <2>y, <2>u DEF Live, Known
    <3>2. \A b \in Callbacks : cb'[b].pc \in {"wait", "drop"} => b = c
      BY <2>o, <2>c
    <3>3. task'[cb'[c].on] = None
      BY <2>a, <2>c
    <3> QED BY <2>u, <3>1, <3>2, <3>3 DEF AliveInv, Serial, Intact, Early, Known
  <2>14. ReadyInv'
    BY <2>u, <2>t DEF ReadyInv, Known, StateOf
  <2>15. TargetInv'
    BY <2>u, <2>g, <2>c DEF TargetInv, Orderly, Resolves
  <2>16. SettledInv'
    BY <2>u, <2>c DEF SettledInv, Orderly, Resolves
  <2>17. ReplacedInv'
    BY <1>21, <2>u, <2>g, <2>c DEF ReplacedInv, Orderly, Resolves
  <2>18. MovingInv'
    BY <2>u, <2>g, <2>c DEF MovingInv, Orderly, Resolves
  <2>19. VacatedInv'
    BY <2>u, <2>c DEF VacatedInv, Orderly, Known
  <2>20. PlacedInv'
    <3> SUFFICES ASSUME Orderly PROVE PlacedInv'
      BY <2>u DEF PlacedInv, Orderly

    <3>1. \A b \in Callbacks, f \in Tcp : Removes(b, f) => Removes(b, f)'
      BY <2>g, <2>c DEF Removes
    <3>2. \A b \in Callbacks : cb[b].pc = "add" => cb'[b] = cb[b]
      BY <2>g, <2>c
    <3>3. \A s \in Services : svc[s] # None => svc[s] \in Tcp
      BY DEF MdnsType
    <3> QED BY <2>u, <3>1, <3>2, <3>3 DEF PlacedInv, Known
  <2>21. TaskedInv'
    BY <2>u, <2>a, <2>c DEF TaskedInv, Orderly, Known, Removes, Endpoints
  <2>22. NamedInv'
    BY <1>21, <2>u, <2>c DEF NamedInv, Orderly, Known, Removes
  <2>23. VictimInv'
    BY <2>u, <2>g, <2>c DEF VictimInv, Orderly, Known
  <2> QED BY <2>1, <2>2, <2>3, <2>4, <2>5, <2>6, <2>7, <2>8, <2>9, <2>10, <2>11, <2>12,
     <2>13, <2>14, <2>15, <2>16, <2>17, <2>18, <2>19, <2>20, <2>21, <2>22, <2>23 DEF HubInv,
     TypeOK
<1>22. ASSUME NEW c \in Callbacks, Arrived(c) PROVE HubInv'
  <2>u. UNCHANGED <<state, held, maint, task, devices, svc, devSvc, sup, quiesce, phase,
        network, lapses>>
    BY <1>22 DEF Arrived, tables, mdns
  <2>g. /\ turn = None /\ cb[c].pc = "wait" /\ sup[cb[c].waits].pc = "done" /\ turn' = c
    BY <1>22 DEF Arrived
  <2>o. Serial => \A b \in Callbacks : b # c => cb[b].pc = "idle"
    BY <2>g DEF CallbackInv
  <2>f. /\ cb[c].on \in Tcp /\ cb[c].on \in Endpoints /\ cb[c].on \notin Usb
        /\ cb[c].on # None
    BY <2>g, HubAssumption DEF CallbackInv, Endpoints
  <2>c. /\ cb' \in [Callbacks -> CbRecord] /\ cb'[c].pc = "drop"
        /\ cb'[c].svc = cb[c].svc /\ cb'[c].ep = cb[c].ep /\ cb'[c].on = cb[c].on
        /\ cb'[c].waits = None /\ cb'[c].then = cb[c].then
        /\ \A b \in Callbacks : b # c => cb'[b] = cb[b]
    BY <1>22 DEF Arrived, CbBecomes
  <2>1. TablesType' /\ MdnsType' /\ SupType' /\ SupInv' /\ TaskInv' /\ MaintInv' /\
     RegistryInv' /\ KnownInv' /\ ReadyInv' /\ UniqueInv' /\ FreeInv' /\ ListedInv'
    BY <2>u DEF TablesType, MdnsType, SupType, SupInv, Live, Ended, TaskInv, Early,
       MaintInv, Known, RegistryInv, KnownInv, Serial, Intact, ReadyInv, StateOf, NewState,
       UniqueInv, Orderly, FreeInv, ListedInv
  <2>2. CallerType'
    BY <2>u, <2>g, <2>c DEF CallerType
  <2>3. CallbackInv'
    BY HubAssumption, <2>u, <2>g, <2>c DEF CallbackInv, Serial, Intact
  <2>4. PhaseInv'
    BY <2>u, <2>g DEF PhaseInv, Idle
  <2>5. OwnedInv'
    BY <1>22, <2>u, <2>g, <2>c DEF OwnedInv, Live, Ended, WaitsFor
  <2>6. WaitInv'
    BY <2>u, <2>c DEF WaitInv, Live, WaitsFor
  <2>7. AliveInv'
    BY <2>u, <2>g, <2>c DEF AliveInv, Live, Serial, Intact, Early, Known
  <2>8. TargetInv'
    BY <2>u, <2>g, <2>c DEF TargetInv, Orderly, Resolves
  <2>9. SettledInv'
    BY <2>u, <2>c DEF SettledInv, Orderly, Resolves
  <2>10. ReplacedInv'
    BY <2>u, <2>g, <2>c DEF ReplacedInv, Orderly, Resolves
  <2>11. MovingInv'
    BY <2>u, <2>g, <2>c DEF MovingInv, Orderly, Resolves
  <2>12. VacatedInv'
    BY <2>u, <2>c DEF VacatedInv, Orderly, Known
  <2>13. PlacedInv'
    BY <1>22, <2>u, <2>g, <2>c DEF PlacedInv, Orderly, Known, Removes
  <2>14. TaskedInv'
    BY <2>u, <2>c DEF TaskedInv, Orderly, Known, Removes
  <2>15. NamedInv'
    BY <2>u, <2>c DEF NamedInv, Orderly, Known, Removes
  <2>16. VictimInv'
    BY <2>u, <2>g, <2>c DEF VictimInv, Orderly, Known
  <2> QED BY <2>1, <2>2, <2>3, <2>4, <2>5, <2>6, <2>7, <2>8, <2>9, <2>10, <2>11, <2>12,
     <2>13, <2>14, <2>15, <2>16 DEF HubInv, TypeOK
<1>23. ASSUME NEW c \in Callbacks, Failed(c) PROVE HubInv'
  <2>u. UNCHANGED <<state, held, maint, task, devices, svc, devSvc, sup, quiesce, phase,
        network, lapses>>
    BY <1>23 DEF Failed, tables, mdns
  <2>g. /\ turn = None /\ cb[c].pc = "wait" /\ sup[cb[c].waits].pc = "died"
        /\ turn' = None
    BY <1>23 DEF Failed, CbGoesOn, CbBecomes
  <2>o. Serial => \A b \in Callbacks : b # c => cb[b].pc = "idle"
    BY <2>g DEF CallbackInv
  <2>v. cb[c].waits \in Supervisors
    BY <2>g DEF CallbackInv, CallerType, CbRecord
  <2>n. ~Intact
    BY <2>g, <2>v DEF KnownInv
  <2>c. /\ cb' \in [Callbacks -> CbRecord] /\ cb'[c].pc = "idle" /\ cb'[c].svc = None
        /\ cb'[c].ep = None /\ cb'[c].on = None /\ cb'[c].waits = None
        /\ cb'[c].then = "idle"
        /\ \A b \in Callbacks : b # c => cb'[b] = cb[b]
    BY <1>23 DEF Failed, CbGoesOn, CbBecomes
  <2>1. TablesType' /\ MdnsType' /\ SupType' /\ SupInv' /\ TaskInv' /\ MaintInv' /\
     RegistryInv' /\ KnownInv' /\ ReadyInv' /\ UniqueInv' /\ FreeInv' /\ ListedInv'
    BY <2>u DEF TablesType, MdnsType, SupType, SupInv, Live, Ended, TaskInv, Early,
       MaintInv, Known, RegistryInv, KnownInv, Serial, Intact, ReadyInv, StateOf, NewState,
       UniqueInv, Orderly, FreeInv, ListedInv
  <2>2. CallerType'
    BY <2>u, <2>g, <2>c DEF CallerType
  <2>3. CallbackInv'
    BY <2>u, <2>g, <2>c DEF CallbackInv, Serial, Intact
  <2>4. PhaseInv'
    BY <2>u, <2>c DEF PhaseInv, Idle
  <2>5. OwnedInv'
    BY <1>23, <2>u, <2>g, <2>c DEF OwnedInv, Live, Ended, WaitsFor
  <2>6. WaitInv'
    BY <2>u, <2>c DEF WaitInv, Live, WaitsFor
  <2>7. AliveInv'
    BY <2>u, <2>n, <2>c DEF AliveInv, Serial, Intact, Early, Known
  <2>8. TargetInv'
    BY <2>u, <2>c DEF TargetInv, Orderly, Resolves
  <2>9. SettledInv'
    BY <2>u, <2>n DEF SettledInv, Orderly, Intact
  <2>10. ReplacedInv'
    BY <2>u, <2>c DEF ReplacedInv, Orderly, Resolves
  <2>11. MovingInv'
    BY <2>u, <2>c DEF MovingInv, Orderly, Resolves
  <2>12. VacatedInv'
    BY <2>u, <2>c DEF VacatedInv, Orderly, Known
  <2>13. PlacedInv'
    BY <2>u, <2>n DEF PlacedInv, Orderly, Intact
  <2>14. TaskedInv'
    BY <2>u, <2>n DEF TaskedInv, Orderly, Intact
  <2>15. NamedInv'
    BY <2>u, <2>n DEF NamedInv, Orderly, Intact
  <2>16. VictimInv'
    BY <2>u, <2>n DEF VictimInv, Orderly, Intact
  <2> QED BY <2>1, <2>2, <2>3, <2>4, <2>5, <2>6, <2>7, <2>8, <2>9, <2>10, <2>11, <2>12,
     <2>13, <2>14, <2>15, <2>16 DEF HubInv, TypeOK
<1>24. ASSUME NEW c \in Callbacks, Dropped(c) PROVE HubInv'
  <2>u. UNCHANGED <<task, devices, svc, devSvc, sup, quiesce, phase, network, lapses>>
    BY <1>24 DEF Dropped, tables, mdns
  <2>g. /\ turn = c /\ cb[c].pc = "drop" /\ held' = held \ {cb[c].on}
    BY <1>24 DEF Dropped
  <2>o. Serial => \A b \in Callbacks : b # c => cb[b].pc = "idle"
    BY <2>g DEF CallbackInv
  <2>f. /\ cb[c].then \in {"idle", "endpoint", "add"}
        /\ cb[c].then # "idle" => cb[c].svc \in Services /\ cb[c].ep \in Tcp
        /\ cb[c].on \in Tcp /\ cb[c].on # None
    BY <2>g, HubAssumption DEF CallbackInv, CallerType, CbRecord, Endpoints
  <2>e. /\ cb[c].on \in Endpoints /\ cb[c].on \notin Usb /\ cb[c].on \notin maint
    BY <2>f, HubAssumption DEF Endpoints, TablesType
  <2>m. maint' = maint
    BY <1>24, <2>e DEF Dropped
  <2>s. /\ state' \in [Endpoints -> EndpointState \cup {None}] /\ state'[cb[c].on] = None
        /\ \A f \in Endpoints : f # cb[c].on => state'[f] = state[f]
    BY <1>24, <2>e DEF Dropped, TablesType
  <2>c. /\ cb' \in [Callbacks -> CbRecord] /\ cb'[c].pc = cb[c].then
        /\ cb'[c].waits = None /\ cb'[c].then = cb[c].then
        /\ \A b \in Callbacks : b # c => cb'[b] = cb[b]
    BY <1>24, <2>f DEF Dropped, CbGoesOn, CbBecomes
  <2>h. /\ cb[c].then # "idle" => cb'[c].svc = cb[c].svc /\ cb'[c].ep = cb[c].ep /\ turn' = c
        /\ cb[c].then = "idle" => cb'[c].svc = None /\ turn' = None
    BY <1>24 DEF Dropped, CbGoesOn, CbBecomes
  <2>1. MdnsType' /\ SupType' /\ SupInv' /\ UniqueInv' /\ ListedInv'
    BY <2>u DEF MdnsType, SupType, SupInv, Live, Ended, UniqueInv, Orderly, ListedInv
  <2>2. TablesType'
    BY <2>u, <2>g, <2>m, <2>s DEF TablesType
  <2>3. CallerType'
    BY <2>u, <2>c, <2>h DEF CallerType
  <2>4. CallbackInv'
    BY HubAssumption, <2>u, <2>g, <2>f, <2>c, <2>h DEF CallbackInv, Serial, Intact
  <2>5. PhaseInv'
    BY <2>u, <2>g DEF PhaseInv, Idle
  <2>6. TaskInv'
    BY <2>u, <2>m DEF TaskInv, Live, Early
  <2>7. OwnedInv'
    BY <2>u, <2>g, <2>c DEF OwnedInv, Live, WaitsFor
  <2>8. WaitInv'
    BY <2>u, <2>f, <2>c DEF WaitInv, Live, WaitsFor
  <2>9. MaintInv'
    BY <2>u, <2>g, <2>e, <2>m, <2>s DEF MaintInv, Known, TablesType
  <2>10. RegistryInv'
    BY <2>u, <2>s DEF RegistryInv, Known, SupInv, Live, Ended, TablesType, SupType,
       SupRecord
  <2>11. KnownInv'
    <3> SUFFICES ASSUME NEW x \in Supervisors
                 PROVE  /\ Live(x) /\ (Serial \/ sup[x].ep \in Usb) => state'[sup[x].ep] # None
                        /\ Intact => sup[x].pc # "died"
      BY <2>u DEF KnownInv, Live, Serial, Intact, Known
    <3>1. ASSUME Live(x), Serial PROVE sup[x].ep # cb[c].on
      <4>1. task[cb[c].on] = None
        BY <3>1, <2>g DEF AliveInv
      <4>2. \A b \in Callbacks : ~WaitsFor(b, x)
        BY <3>1, <2>g, <2>o DEF WaitsFor
      <4>3. quiesce.waits = x => sup[x].ep \in maint
        BY <3>1, HubAssumption DEF WaitInv, MaintInv, NoQuiesce
      <4> QED BY <3>1, <4>1, <4>2, <4>3, <2>e, HubAssumption DEF OwnedInv
    <3> QED BY <3>1, <1>e, <2>s, <2>e DEF KnownInv, Known
  <2>12. AliveInv'
    BY <2>u, <2>g, <2>f, <2>s, <2>c DEF AliveInv, Live, Serial, Intact, Early, Known
  <2>13. ReadyInv'
    BY <2>u, <2>e, <2>s DEF ReadyInv, Known, StateOf, Endpoints
  <2>14. FreeInv'
    BY <2>u, <2>s DEF FreeInv, Orderly, Known, Endpoints, MdnsType
  <2>15. TargetInv'
    BY <2>u, <2>g, <2>c, <2>h DEF TargetInv, Orderly, Resolves
  <2>16. SettledInv'
    <3> SUFFICES ASSUME Orderly PROVE SettledInv'
      BY <2>u DEF SettledInv, Orderly

    <3>1. Resolves(c) => cb[c].then # "idle"
      BY <2>g DEF MovingInv, Resolves
    <3>2. \A b \in Callbacks : Resolves(b) => Resolves(b)' /\ cb'[b].svc = cb[b].svc
      BY <3>1, <2>c, <2>h DEF Resolves
    <3> QED BY <3>2, <2>u DEF SettledInv
  <2>17. ReplacedInv'
    BY <2>u, <2>g, <2>c, <2>h DEF ReplacedInv, Orderly, Resolves
  <2>18. MovingInv'
    BY <2>u, <2>f, <2>c DEF MovingInv, Orderly, Resolves
  <2>19. VacatedInv'
    BY HubAssumption, <2>u, <2>g, <2>o, <2>f, <2>s, <2>c, <2>h DEF VacatedInv, Orderly,
       Known, Serial, Intact, MovingInv, Resolves
  <2>20. PlacedInv'
    BY HubAssumption, <2>u, <2>g, <2>s, <2>c, <2>h DEF PlacedInv, Orderly, Known, Removes,
       MovingInv, Resolves, VictimInv, Endpoints, MdnsType
  <2>21. TaskedInv'
    BY <2>u, <2>s, <2>c DEF TaskedInv, Orderly, Known, Removes, Endpoints
  <2>22. NamedInv'
    BY <2>u, <2>s, <2>c DEF NamedInv, Orderly, Known, Removes, Endpoints
  <2>23. VictimInv'
    BY <2>u, <2>o, <2>f, <2>c DEF VictimInv, Orderly, Serial, Intact
  <2> QED BY <2>1, <2>2, <2>3, <2>4, <2>5, <2>6, <2>7, <2>8, <2>9, <2>10, <2>11, <2>12,
     <2>13, <2>14, <2>15, <2>16, <2>17, <2>18, <2>19, <2>20, <2>21, <2>22, <2>23 DEF HubInv,
     TypeOK
<1>25. ASSUME NEW e \in Endpoints, Detached(e) PROVE HubInv'
  <2>u. UNCHANGED <<svc, devSvc, sup, cb, turn, quiesce, phase, network, lapses>>
    BY <1>25 DEF Detached, Reserved, tables, mdns
  <2>g. /\ turn = None /\ phase = "serve" /\ quiesce = NoQuiesce /\ e \in Usb
        /\ e \notin maint /\ held' = held \cup {e} /\ maint' = maint \cup {e}
        /\ task[e] = None
    BY <1>25 DEF Detached, Reserved
  <2>s. /\ state' \in [Endpoints -> EndpointState \cup {None}] /\ state'[e] = StateOf(e)
        /\ state'[e] # None
        /\ \A f \in Endpoints : f # e => state'[f] = state[f]
    BY <1>25, EntryKept DEF Detached, Reserved
  <2>k. /\ \A f \in Endpoints : Known(f) => state'[f] = state[f]
        /\ \A f \in Endpoints : Known(f) => state'[f] # None
        /\ StateOf(e).dev \in Devices \cup {None}
        /\ StateOf(e).mdns => Known(e)
    BY <2>s, HubAssumption DEF TablesType, EndpointState, StateOf, NewState, Known
  <2>a. /\ task' \in [Endpoints -> Supervisors \cup {None}] /\ task'[e] = None
        /\ \A f \in Endpoints : f # e => task'[f] = task[f]
    BY <1>25 DEF Detached, Reserved, TablesType
  <2>d. /\ devices' \in [Devices -> Supervisors \cup {None}]
        /\ \A d \in Devices : devices'[d] = IF d = StateOf(e).dev THEN None ELSE devices[d]
    BY <1>25, <2>k, HubAssumption DEF Detached, Forgets, TablesType
  <2>1. MdnsType' /\ SupType' /\ CallerType' /\ CallbackInv' /\ SupInv' /\ WaitInv' /\
     UniqueInv' /\ TargetInv' /\ ListedInv' /\ SettledInv' /\ ReplacedInv' /\ MovingInv'
    BY <2>u DEF MdnsType, SupType, CallerType, NoQuiesce, CallbackInv, Serial, Intact, PhaseInv,
       Idle, SupInv, Live, Ended, WaitInv, WaitsFor, UniqueInv, Orderly, TargetInv,
       Resolves, ListedInv, SettledInv, ReplacedInv, MovingInv
  <2>2. TablesType'
    BY <2>g, <2>s, <2>a, <2>d DEF TablesType
  <2>3. PhaseInv'
    BY <2>u, <2>d DEF PhaseInv, Idle
  <2>4. TaskInv'
    BY <2>u, <2>g, <2>a DEF TaskInv, Live, Early
  <2>5. OwnedInv'
    BY <2>u, <2>g, <2>a DEF OwnedInv, Live, WaitsFor, TablesType
  <2>6. MaintInv'
    BY <2>u, <2>g, <2>s DEF MaintInv, Known, TablesType
  <2>7. RegistryInv'
    BY <2>u, <2>g, <2>s, <2>d DEF RegistryInv, Known, SupInv, Live, Ended, OwnedInv,
       WaitInv, TablesType, Endpoints, SupType, SupRecord
  <2>8. KnownInv'
    BY <2>u, <2>k DEF KnownInv, Live, Known, Serial, Intact, SupInv, SupType, SupRecord
  <2>9. AliveInv'
    BY <2>u, <2>g, <2>k, <2>a DEF AliveInv, Live, Serial, Intact, Early, Known, TablesType
  <2>10. ReadyInv'
    <3> SUFFICES ASSUME lapses \cap {"overlap", "roam"} = {}, NEW x \in Supervisors,
                        sup[x].pc = "ready"
                 PROVE  /\ devices'[sup[x].dev] = x
                        /\ \A u \in Usb : u # sup[x].ep => StateOf(u)'.dev # sup[x].dev
      BY <2>u DEF ReadyInv
    <3>1. sup[x].dev \in Devices /\ devices[sup[x].dev] = x /\ Live(x)
      BY DEF ReadyInv, SupInv, SupType, SupRecord, Live, Ended
    <3>2. sup[x].ep # e
      <4>1. \A b \in Callbacks : WaitsFor(b, x) => sup[x].ep \in Tcp
        BY <3>1 DEF WaitInv, WaitsFor, CallbackInv
      <4>2. quiesce.waits # x
        BY <2>g, HubAssumption DEF NoQuiesce
      <4> QED BY <3>1, <4>1, <4>2, <2>g, HubAssumption DEF OwnedInv
    <3>3. StateOf(e).dev # sup[x].dev
      BY <3>2, <2>g DEF ReadyInv
    <3>4. \A u \in Usb : StateOf(u)' = StateOf(u)
      BY <2>s DEF StateOf, Known, Endpoints
    <3> QED BY <3>1, <3>3, <3>4, <2>d DEF ReadyInv
  <2>11. FreeInv'
    BY HubAssumption, <2>u, <2>g, <2>s DEF FreeInv, Orderly, Known, Endpoints, MdnsType
  <2>12. VacatedInv'
    BY HubAssumption, <2>u, <2>g DEF VacatedInv, CallbackInv
  <2>13. PlacedInv'
    BY HubAssumption, <2>u, <2>g, <2>s DEF PlacedInv, Orderly, Known, Removes, Endpoints,
       MdnsType
  <2>14. TaskedInv'
    BY HubAssumption, <2>u, <2>g, <2>s, <2>a DEF TaskedInv, Orderly, Known, Removes,
       Endpoints
  <2>15. NamedInv'
    BY <2>u, <2>s, <2>k DEF NamedInv, Orderly, Known, Removes, Endpoints
  <2>16. VictimInv'
    BY <2>u, <2>k DEF VictimInv, Orderly, Known, CallbackInv, Endpoints
  <2> QED BY <2>1, <2>2, <2>3, <2>4, <2>5, <2>6, <2>7, <2>8, <2>9, <2>10, <2>11, <2>12,
     <2>13, <2>14, <2>15, <2>16 DEF HubInv, TypeOK
<1>26. ASSUME NEW e \in Endpoints, Detaching(e) PROVE HubInv'
  <2>u. UNCHANGED <<devices, svc, devSvc, cb, turn, phase, network, lapses>>
    BY <1>26 DEF Detaching, Reserved, tables, mdns
  <2>g. /\ turn = None /\ phase = "serve" /\ quiesce = NoQuiesce /\ e \in Usb
        /\ e \notin maint /\ held' = held \cup {e} /\ maint' = maint \cup {e}
        /\ task[e] # None
    BY <1>26 DEF Detaching, Reserved
  <2>s. /\ state' \in [Endpoints -> EndpointState \cup {None}] /\ state'[e] = StateOf(e)
        /\ state'[e] # None
        /\ \A f \in Endpoints : f # e => state'[f] = state[f]
    BY <1>26, EntryKept DEF Detaching, Reserved
  <2>k. /\ \A f \in Endpoints : Known(f) => state'[f] = state[f]
        /\ \A f \in Endpoints : Known(f) => state'[f] # None
        /\ StateOf(e).dev \in Devices \cup {None}
        /\ StateOf(e).mdns => Known(e)
    BY <2>s, HubAssumption DEF TablesType, EndpointState, StateOf, NewState, Known
  <2>a. /\ task' \in [Endpoints -> Supervisors \cup {None}] /\ task'[e] = None
        /\ \A f \in Endpoints : f # e => task'[f] = task[f]
    BY <1>26 DEF Detaching, Reserved, TablesType
  <2>q. /\ quiesce' # NoQuiesce /\ quiesce'.ep = e /\ quiesce'.dev = StateOf(e).dev
        /\ quiesce'.waits = task[e]
        /\ quiesce' = [ep |-> e, dev |-> StateOf(e).dev, waits |-> task[e]]
    BY <1>26, HubAssumption DEF Detaching, NoQuiesce, Endpoints
  <2>v. task[e] \in Supervisors
    BY <2>g DEF TablesType
  <2>t. /\ SupType' /\ sup'[task[e]].ep = sup[task[e]].ep
        /\ sup'[task[e]].pc = sup[task[e]].pc /\ sup'[task[e]].dev = sup[task[e]].dev
        /\ sup'[task[e]].cancel = (Live(task[e]) \/ sup[task[e]].cancel)
        /\ \A u \in Supervisors : u # task[e] => sup'[u] = sup[u]
    BY <1>26, Zenon DEF Detaching, CancelBecomes, SupBecomes
  <2>y. \A x \in Supervisors : sup'[x].pc = sup[x].pc /\ sup'[x].ep = sup[x].ep /\ sup'[x].dev = sup[x].dev
    BY <2>t
  <2>x. /\ \A x \in Supervisors : sup[x].cancel => sup'[x].cancel
        /\ Live(task[e]) => sup'[task[e]].cancel
        /\ \A x \in Supervisors : x # task[e] => sup'[x] = sup[x]
    BY <2>t, <2>v, Zenon
  <2>1. MdnsType' /\ CallbackInv' /\ UniqueInv' /\ TargetInv' /\ ListedInv' /\ SettledInv'
     /\ ReplacedInv' /\ MovingInv'
    BY <2>u DEF MdnsType, CallbackInv, Serial, Intact, UniqueInv, Orderly, TargetInv, Resolves,
       ListedInv, SettledInv, ReplacedInv, MovingInv
  <2>2. TablesType'
    BY <2>u, <2>g, <2>s, <2>a DEF TablesType
  <2>3. SupType'
    BY <2>t DEF SupType
  <2>4. CallerType'
    BY <2>u, <2>g, <2>k, <2>q, <2>v DEF CallerType
  <2>5. PhaseInv'
    BY <2>u, <2>g DEF PhaseInv
  <2>6. SupInv'
    BY <2>t DEF SupInv, Live, SupType, SupRecord
  <2>7. TaskInv'
    BY <2>u, <2>g, <2>a, <2>t DEF TaskInv, Live, Early, SupType, SupRecord
  <2>8. OwnedInv'
    <3> SUFFICES ASSUME NEW x \in Supervisors, Live(x)'
                 PROVE  \/ task'[sup'[x].ep] = x
                        \/ \E b \in Callbacks : WaitsFor(b, x)
                        \/ quiesce'.waits = x
      BY <2>u DEF OwnedInv, WaitsFor
    <3>1. sup'[x].ep = sup[x].ep /\ Live(x) /\ sup[x].ep \in Endpoints
      BY <2>y, <1>e DEF Live
    <3>2. quiesce.waits # x
      BY <2>g, HubAssumption DEF NoQuiesce
    <3> QED BY <3>1, <3>2, <2>a, <2>q DEF OwnedInv
  <2>9. WaitInv'
    <3>1. ASSUME NEW b \in Callbacks, NEW x \in Supervisors, WaitsFor(b, x)', Live(x)'
          PROVE  sup'[x].ep = cb'[b].on /\ sup'[x].cancel
      BY <3>1, <2>u, <2>y, <2>x DEF WaitInv, WaitsFor, Live
    <3>2. ASSUME NEW x \in Supervisors, quiesce'.waits = x, Live(x)'
          PROVE  sup'[x].ep = quiesce'.ep /\ sup'[x].cancel
      <4>1. x = task[e] /\ Live(x)
        BY <3>2, <2>q, <2>y DEF Live
      <4> QED BY <4>1, <2>q, <2>y, <2>x, <2>g DEF TaskInv
    <3> QED BY <3>1, <3>2 DEF WaitInv
  <2>10. MaintInv'
    BY <2>g, <2>s, <2>q DEF MaintInv, Known, TablesType
  <2>11. RegistryInv'
    <3> SUFFICES ASSUME NEW d \in Devices, devices[d] # None
                 PROVE  /\ sup'[devices[d]].pc \in {"ready", "closing", "unwinding"}
                        /\ sup'[devices[d]].dev = d
                        /\ ~sup'[devices[d]].cancel /\ state'[sup'[devices[d]].ep] # None =>
                              state'[sup'[devices[d]].ep].dev = d
      BY <2>u DEF RegistryInv, Known
    <3>1. /\ sup'[devices[d]].pc = sup[devices[d]].pc /\ sup'[devices[d]].ep = sup[devices[d]].ep
          /\ sup'[devices[d]].dev = sup[devices[d]].dev
          /\ sup[devices[d]].cancel => sup'[devices[d]].cancel
          /\ sup[devices[d]].ep \in Endpoints /\ Live(devices[d]) /\ devices[d] \in Supervisors
      BY <1>d, <2>y, <2>x
    <3>2. state'[sup[devices[d]].ep] = state[sup[devices[d]].ep]
      <4>1. CASE sup[devices[d]].ep = e
        BY <3>1, <4>1, <2>k, <2>g DEF KnownInv
      <4>2. CASE sup[devices[d]].ep # e
        BY <3>1, <4>2, <2>s
      <4> QED BY <4>1, <4>2
    <3> QED BY <3>1, <3>2 DEF RegistryInv, Known
  <2>12. KnownInv'
    BY <2>u, <2>g, <2>s, <2>k, <2>t DEF KnownInv, Live, Known, Serial, Intact, Early, AliveInv,
       TablesType, Endpoints
  <2>13. AliveInv'
    <3> SUFFICES ASSUME Serial PROVE AliveInv'
      BY <2>u DEF AliveInv, Serial, Intact
    <3>1. ASSUME NEW f \in Endpoints, task'[f] # None, Early
          PROVE  (Intact => Live(task[f])') /\ state'[f] # None /\ f \in held'
      <4>1. f # e /\ task'[f] = task[f] /\ task[f] \in Supervisors
        BY <3>1, <2>a DEF TablesType
      <4>2. (Intact => Live(task[f])) /\ Known(f) /\ f \in held
        BY <3>1, <4>1 DEF AliveInv
      <4> QED BY <4>1, <4>2, <2>y, <2>s, <2>g DEF Live, Known
    <3>2. ASSUME NEW b \in Callbacks, cb[b].pc \in {"wait", "drop"} PROVE task'[cb[b].on] = None
      BY <3>2, <2>a DEF AliveInv, CallbackInv, Endpoints
    <3> QED BY <2>u, <3>1, <3>2 DEF AliveInv, Serial, Intact, Early, Known
  <2>14. ReadyInv'
    BY <2>u, <2>s, <2>t DEF ReadyInv, Known, StateOf, Endpoints
  <2>15. FreeInv'
    BY HubAssumption, <2>u, <2>g, <2>s DEF FreeInv, Orderly, Known, Endpoints, MdnsType
  <2>16. VacatedInv'
    BY HubAssumption, <2>u, <2>g DEF VacatedInv, CallbackInv
  <2>17. PlacedInv'
    BY HubAssumption, <2>u, <2>g, <2>s DEF PlacedInv, Orderly, Known, Removes, Endpoints,
       MdnsType
  <2>18. TaskedInv'
    BY HubAssumption, <2>u, <2>g, <2>s, <2>a DEF TaskedInv, Orderly, Known, Removes,
       Endpoints
  <2>19. NamedInv'
    BY <2>u, <2>s, <2>k DEF NamedInv, Orderly, Known, Removes, Endpoints
  <2>20. VictimInv'
    BY <2>u, <2>k DEF VictimInv, Orderly, Known, CallbackInv, Endpoints
  <2> QED BY <2>1, <2>2, <2>3, <2>4, <2>5, <2>6, <2>7, <2>8, <2>9, <2>10, <2>11, <2>12,
     <2>13, <2>14, <2>15, <2>16, <2>17, <2>18, <2>19, <2>20 DEF HubInv, TypeOK
<1>27. CASE Released
  <2>u. UNCHANGED <<state, held, maint, task, svc, devSvc, sup, cb, turn, phase, network, lapses>>
    BY <1>27 DEF Released, tables, mdns
  <2>g. /\ quiesce # NoQuiesce /\ ~Live(quiesce.waits) /\ quiesce' = NoQuiesce
    BY <1>27 DEF Released
  <2>d. /\ devices' \in [Devices -> Supervisors \cup {None}]
        /\ \A d \in Devices :
              devices'[d] = devices[d] \/ (d = quiesce.dev /\ devices'[d] = None)
    BY <1>27, HubAssumption DEF Released, Forgets, TablesType, CallerType
  <2>1. MdnsType' /\ SupType' /\ CallbackInv' /\ SupInv' /\ TaskInv' /\ KnownInv' /\
     AliveInv' /\ UniqueInv' /\ FreeInv' /\ TargetInv' /\ ListedInv' /\ SettledInv' /\
     ReplacedInv' /\ MovingInv' /\ VacatedInv' /\ PlacedInv' /\ TaskedInv' /\ NamedInv' /\
     VictimInv'
    BY <2>u DEF MdnsType, SupType, CallbackInv, Serial, Intact, SupInv, Live, Ended, TaskInv, Early,
       KnownInv, Known, AliveInv, UniqueInv, Orderly, FreeInv, TargetInv, Resolves,
       ListedInv, SettledInv, ReplacedInv, MovingInv, VacatedInv, PlacedInv, Removes,
       TaskedInv, NamedInv, VictimInv
  <2>2. TablesType'
    BY <2>u, <2>d DEF TablesType
  <2>3. CallerType'
    BY <2>u, <2>g DEF CallerType, NoQuiesce
  <2>4. PhaseInv'
    BY <2>u, <2>g DEF PhaseInv
  <2>5. OwnedInv'
    BY <2>u, <2>g DEF OwnedInv, Live, WaitsFor
  <2>6. WaitInv'
    BY <2>u, <2>g, HubAssumption DEF WaitInv, WaitsFor, NoQuiesce, Live
  <2>7. MaintInv'
    BY <2>u, <2>g DEF MaintInv, Known
  <2>8. RegistryInv'
    BY <2>u, <2>d DEF RegistryInv, Known
  <2>9. ReadyInv'
    <3> SUFFICES ASSUME lapses \cap {"overlap", "roam"} = {}, NEW x \in Supervisors,
                        sup[x].pc = "ready"
                 PROVE  /\ devices'[sup[x].dev] = x
                        /\ \A u \in Usb : u # sup[x].ep => StateOf(u).dev # sup[x].dev
      BY <2>u DEF ReadyInv, StateOf, Known
    <3>1. sup[x].dev \in Devices /\ devices[sup[x].dev] = x /\ Live(x)
      BY DEF ReadyInv, SupInv, SupType, SupRecord, Live, Ended
    <3>2. quiesce.ep \in Usb /\ StateOf(quiesce.ep).dev = quiesce.dev /\ task[quiesce.ep] = None
      BY <2>g DEF MaintInv, TablesType, StateOf, Endpoints, TaskInv
    <3>3. sup[x].ep # quiesce.ep
      <4>1. \A b \in Callbacks : WaitsFor(b, x) => sup[x].ep \in Tcp
        BY <3>1 DEF WaitInv, WaitsFor, CallbackInv
      <4>2. quiesce.waits # x
        BY <2>g, <3>1
      <4> QED BY <3>1, <3>2, <4>1, <4>2, HubAssumption DEF OwnedInv
    <3>4. quiesce.dev # sup[x].dev
      BY <3>2, <3>3 DEF ReadyInv
    <3> QED BY <3>1, <3>4, <2>d DEF ReadyInv
  <2> QED BY <2>1, <2>2, <2>3, <2>4, <2>5, <2>6, <2>7, <2>8, <2>9 DEF HubInv, TypeOK
<1>28. CASE Advanced
  <2>u. UNCHANGED <<state, held, maint, task, devices, svc, devSvc, sup, cb, turn, quiesce,
        network, lapses>>
    BY <1>28 DEF Advanced, tables, mdns
  <2>g. \/ phase = "start" /\ phase' = "serve"
        \/ phase = "serve" /\ quiesce = NoQuiesce /\ phase' = "discovery"
        \/ phase = "tasks" /\ phase' = "failed"
    BY <1>28 DEF Advanced
  <2>1. TablesType' /\ MdnsType' /\ SupType' /\ CallbackInv' /\ SupInv' /\ OwnedInv' /\
     WaitInv' /\ MaintInv' /\ RegistryInv' /\ KnownInv' /\ ReadyInv'
    BY <2>u DEF TablesType, MdnsType, SupType, CallbackInv, Serial, Intact, SupInv, Live, Ended,
       OwnedInv, WaitsFor, WaitInv, MaintInv, Known, RegistryInv, KnownInv, ReadyInv,
       StateOf, NewState
  <2>2. CallerType'
    BY <2>u, <2>g DEF CallerType
  <2>3. PhaseInv'
    BY <2>u, <2>g DEF PhaseInv, Idle
  <2>4. TaskInv'
    BY <2>u, <2>g DEF TaskInv, Live, Early
  <2>5. AliveInv'
    BY <2>u, <2>g DEF AliveInv, Live, Serial, Intact, Early, Known
  <2>6. UniqueInv'
    BY <2>u, <2>g DEF UniqueInv, Orderly
  <2>7. FreeInv'
    BY <2>u, <2>g DEF FreeInv, Orderly
  <2>8. TargetInv'
    BY <2>u, <2>g DEF TargetInv, Orderly, Resolves
  <2>9. ListedInv'
    BY <2>u, <2>g DEF ListedInv, Orderly
  <2>10. SettledInv'
    BY <2>u, <2>g DEF SettledInv, Orderly, Resolves
  <2>11. ReplacedInv'
    BY <2>u, <2>g DEF ReplacedInv, Orderly, Resolves
  <2>12. MovingInv'
    BY <2>u, <2>g DEF MovingInv, Orderly, Resolves
  <2>13. VacatedInv'
    BY <2>u, <2>g DEF VacatedInv, Orderly, Known
  <2>14. PlacedInv'
    BY <2>u, <2>g DEF PlacedInv, Orderly, Known, Removes
  <2>15. TaskedInv'
    BY <2>u, <2>g DEF TaskedInv, Orderly, Known, Removes
  <2>16. NamedInv'
    BY <2>u, <2>g DEF NamedInv, Orderly, Known, Removes
  <2>17. VictimInv'
    BY <2>u, <2>g DEF VictimInv, Orderly, Known
  <2> QED BY <2>1, <2>2, <2>3, <2>4, <2>5, <2>6, <2>7, <2>8, <2>9, <2>10, <2>11, <2>12,
     <2>13, <2>14, <2>15, <2>16, <2>17 DEF HubInv, TypeOK
<1>29. CASE AllCancelled
  <2>u. UNCHANGED <<state, held, maint, task, devices, cb, turn, quiesce, network, lapses>>
    BY <1>29 DEF AllCancelled, tables, mdns
  <2>g. /\ phase = "discovery" /\ Idle /\ phase' = "tasks"
    BY <1>29 DEF AllCancelled
  <2>l. /\ svc' \in [Services -> Tcp \cup {None}]
        /\ devSvc' \in [Devices -> Services \cup {None}]
    BY <1>29 DEF AllCancelled, MdnsType
  <2>t. /\ SupType'
        /\ \A t \in Supervisors : sup'[t].ep = sup[t].ep /\ sup'[t].pc = sup[t].pc /\ sup'[t].dev = sup[t].dev
        /\ \A t \in Supervisors : sup'[t].cancel = (sup[t].cancel \/ (Live(t) /\ \E e \in Endpoints : task[e] = t))
    BY <1>29, Zenon DEF AllCancelled
  <2>n. \A d \in Devices : devSvc'[d] = None
    BY <1>29 DEF AllCancelled
  <2>1. TablesType' /\ CallbackInv' /\ MaintInv'
    BY <2>u DEF TablesType, CallbackInv, Serial, Intact, MaintInv, Known
  <2>2. MdnsType'
    BY <2>u, <2>l DEF MdnsType
  <2>3. SupType'
    BY <2>t DEF SupType
  <2>4. CallerType'
    BY <2>u, <2>g DEF CallerType
  <2>5. PhaseInv'
    BY <2>u, <2>g DEF PhaseInv, Idle
  <2>6. SupInv'
    BY <2>t DEF SupInv, Live, SupType, SupRecord
  <2>7. TaskInv'
    BY <2>u, <2>g, <2>t DEF TaskInv, Live, Early, TablesType
  <2>8. OwnedInv'
    BY <2>u, <2>t DEF OwnedInv, Live, WaitsFor
  <2>9. WaitInv'
    BY <2>u, <2>t DEF WaitInv, Live, WaitsFor, SupType, SupRecord
  <2>10. RegistryInv'
    BY <2>u, <2>t DEF RegistryInv, Known, TablesType, SupType, SupRecord
  <2>11. KnownInv'
    BY <2>u, <2>t DEF KnownInv, Live, Known, Serial, Intact
  <2>12. AliveInv'
    BY <2>u, <2>g DEF AliveInv, Serial, Intact, Early
  <2>13. ReadyInv'
    BY <2>u, <2>t DEF ReadyInv, Known, StateOf
  <2>14. UniqueInv'
    BY <2>g DEF UniqueInv, Orderly
  <2>15. FreeInv'
    BY <2>g DEF FreeInv, Orderly
  <2>16. TargetInv'
    BY <2>g DEF TargetInv, Orderly
  <2>17. ListedInv'
    BY <2>g, <2>n DEF ListedInv, Orderly
  <2>18. SettledInv'
    BY <2>g DEF SettledInv, Orderly
  <2>19. ReplacedInv'
    BY <2>g DEF ReplacedInv, Orderly
  <2>20. MovingInv'
    BY <2>g DEF MovingInv, Orderly
  <2>21. VacatedInv'
    BY <2>g DEF VacatedInv, Orderly
  <2>22. PlacedInv'
    BY <2>g DEF PlacedInv, Orderly
  <2>23. TaskedInv'
    BY <2>g DEF TaskedInv, Orderly
  <2>24. NamedInv'
    BY <2>g DEF NamedInv, Orderly
  <2>25. VictimInv'
    BY <2>g DEF VictimInv, Orderly
  <2> QED BY <2>1, <2>2, <2>3, <2>4, <2>5, <2>6, <2>7, <2>8, <2>9, <2>10, <2>11, <2>12,
     <2>13, <2>14, <2>15, <2>16, <2>17, <2>18, <2>19, <2>20, <2>21, <2>22, <2>23, <2>24,
     <2>25 DEF HubInv, TypeOK
<1>30. CASE Emptying
  <2>u. UNCHANGED <<state, devices, svc, devSvc, sup, cb, turn, quiesce, network, lapses>>
    BY <1>30 DEF Emptying, tables, mdns
  <2>g. /\ phase = "tasks" /\ phase' = "closed" /\ maint' = {} /\ held' = {}
    BY <1>30 DEF Emptying
  <2>a. /\ task' \in [Endpoints -> Supervisors \cup {None}]
        /\ \A e \in Endpoints : task'[e] = None
        /\ \A e \in Endpoints : task[e] # None => sup[task[e]].pc = "done"
    BY <1>30 DEF Emptying, AllDone
  <2>1. MdnsType' /\ SupType' /\ CallbackInv' /\ SupInv' /\ WaitInv' /\ RegistryInv' /\
     KnownInv' /\ ReadyInv'
    BY <2>u DEF MdnsType, SupType, CallbackInv, Serial, Intact, SupInv, Live, Ended, WaitInv,
       WaitsFor, RegistryInv, Known, KnownInv, ReadyInv, StateOf, NewState
  <2>2. TablesType'
    BY <2>u, <2>g, <2>a DEF TablesType
  <2>3. CallerType'
    BY <2>u, <2>g DEF CallerType
  <2>4. PhaseInv'
    BY <2>u, <2>g DEF PhaseInv, Idle
  <2>5. TaskInv'
    BY <2>a DEF TaskInv
  <2>6. OwnedInv'
    BY <2>u, <2>a DEF OwnedInv, Live, Ended, WaitsFor, SupInv, SupType, SupRecord
  <2>7. MaintInv'
    BY <2>u, <2>g DEF MaintInv, PhaseInv
  <2>8. AliveInv'
    BY <2>u, <2>g, <2>a DEF AliveInv, PhaseInv, Idle
  <2>9. UniqueInv'
    BY <2>g DEF UniqueInv, Orderly
  <2>10. FreeInv'
    BY <2>g DEF FreeInv, Orderly
  <2>11. TargetInv'
    BY <2>g DEF TargetInv, Orderly
  <2>12. ListedInv'
    BY <2>u, <2>g DEF ListedInv, Orderly
  <2>13. SettledInv'
    BY <2>g DEF SettledInv, Orderly
  <2>14. ReplacedInv'
    BY <2>g DEF ReplacedInv, Orderly
  <2>15. MovingInv'
    BY <2>g DEF MovingInv, Orderly
  <2>16. VacatedInv'
    BY <2>g DEF VacatedInv, Orderly
  <2>17. PlacedInv'
    BY <2>g DEF PlacedInv, Orderly
  <2>18. TaskedInv'
    BY <2>g DEF TaskedInv, Orderly
  <2>19. NamedInv'
    BY <2>g DEF NamedInv, Orderly
  <2>20. VictimInv'
    BY <2>g, SMTT(30) DEF VictimInv, Orderly
  <2> QED BY <2>1, <2>2, <2>3, <2>4, <2>5, <2>6, <2>7, <2>8, <2>9, <2>10, <2>11, <2>12,
     <2>13, <2>14, <2>15, <2>16, <2>17, <2>18, <2>19, <2>20 DEF HubInv, TypeOK
<1>31. CASE UNCHANGED vars
    BY <1>31 DEF vars, HubInv, TypeOK, TablesType, MdnsType, SupType, CallerType, NoQuiesce,
       CallbackInv, Serial, Intact, PhaseInv, Idle, SupInv, Live, Ended, TaskInv, Early, OwnedInv,
       WaitsFor, WaitInv, MaintInv, Known, RegistryInv, KnownInv, AliveInv, ReadyInv,
       StateOf, NewState, UniqueInv, Orderly, FreeInv, TargetInv, Resolves, ListedInv,
       SettledInv, ReplacedInv, MovingInv, VacatedInv, PlacedInv, Removes, TaskedInv,
       NamedInv, VictimInv
<1> QED BY <1>1, <1>2, <1>3, <1>4, <1>5, <1>6, <1>7, <1>8, <1>9, <1>10, <1>11, <1>12, <1>13,
   <1>14, <1>15, <1>16, <1>17, <1>18, <1>19, <1>20, <1>21, <1>22, <1>23, <1>24, <1>25,
   <1>26, <1>27, <1>28, <1>29, <1>30, <1>31, <1>raised DEF Effect

-----------------------------------------------------------------------------
(* Updates of the two tables of records. *)

\* The fields of a supervisor's record.
LEMMA SupFields ==
    ASSUME SupType, NEW t \in Supervisors
    PROVE  /\ sup[t] \in SupRecord
           /\ sup[t].pc \in SupPcs
           /\ sup[t].ep \in Endpoints \cup {None}
           /\ sup[t].dev \in Devices \cup {None}
           /\ sup[t].cancel \in BOOLEAN
BY DEF SupType, SupRecord

\* One supervisor's record is replaced.
LEMMA SupUpdate ==
    ASSUME SupType, NEW t \in Supervisors, NEW e \in Endpoints \cup {None}, NEW p \in SupPcs,
           NEW d \in Devices \cup {None}, NEW b \in BOOLEAN,
           sup' = [sup EXCEPT ![t] = [ep |-> e, pc |-> p, dev |-> d, cancel |-> b]]
    PROVE  SupBecomes(t, e, p, d, b)
BY DEF SupType, SupRecord, SupBecomes

\* A supervisor moves on (_supervise).
LEMMA SupGoes ==
    ASSUME SupType, NEW t \in Supervisors, NEW p \in SupPcs, Goes(t, p)
    PROVE  SupBecomes(t, sup[t].ep, p, sup[t].dev, sup[t].cancel)
<1> DEFINE r == [sup[t] EXCEPT !.pc = p]
<1>1. /\ r \in SupRecord
      /\ r.ep = sup[t].ep /\ r.pc = p /\ r.dev = sup[t].dev /\ r.cancel = sup[t].cancel
    BY SupFields DEF SupRecord
<1>2. sup' = [sup EXCEPT ![t] = r]
    BY DEF Goes
<1> HIDE DEF r
<1> QED BY <1>1, <1>2 DEF SupType, SupBecomes

\* A supervisor learns its device or forgets it.
LEMMA SupMeets ==
    ASSUME SupType, NEW t \in Supervisors, NEW p \in SupPcs, NEW d \in Devices \cup {None},
           \/ sup' = [sup EXCEPT ![t].dev = d, ![t].pc = p]
           \/ sup' = [sup EXCEPT ![t].pc = p, ![t].dev = d]
    PROVE  SupBecomes(t, sup[t].ep, p, d, sup[t].cancel)
<1> DEFINE q == [sup[t] EXCEPT !.dev = d]
           r == [q EXCEPT !.pc = p]
           v == [sup[t] EXCEPT !.pc = p]
           w == [v EXCEPT !.dev = d]
<1>1. /\ q \in SupRecord /\ q.ep = sup[t].ep /\ q.dev = d /\ q.cancel = sup[t].cancel
      /\ v \in SupRecord /\ v.ep = sup[t].ep /\ v.pc = p /\ v.cancel = sup[t].cancel
    BY SupFields DEF SupRecord
<1>2. sup' = [sup EXCEPT ![t] = r] \/ sup' = [sup EXCEPT ![t] = w]
  <2>1. CASE sup' = [sup EXCEPT ![t].dev = d, ![t].pc = p]
    <3>1. sup' = [[sup EXCEPT ![t] = q] EXCEPT ![t] = [[sup EXCEPT ![t] = q][t] EXCEPT !.pc = p]]
        BY <2>1
    <3> HIDE DEF q
    <3>2. [sup EXCEPT ![t] = q][t] = q
        BY DEF SupType
    <3> HIDE DEF r
    <3>3. sup' = [[sup EXCEPT ![t] = q] EXCEPT ![t] = r]
        BY <3>1, <3>2, Zenon DEF r
    <3> QED BY <3>3 DEF SupType
  <2>2. CASE sup' = [sup EXCEPT ![t].pc = p, ![t].dev = d]
    <3>1. sup' = [[sup EXCEPT ![t] = v] EXCEPT ![t] = [[sup EXCEPT ![t] = v][t] EXCEPT !.dev = d]]
        BY <2>2
    <3> HIDE DEF v
    <3>2. [sup EXCEPT ![t] = v][t] = v
        BY DEF SupType
    <3> HIDE DEF w
    <3>3. sup' = [[sup EXCEPT ![t] = v] EXCEPT ![t] = w]
        BY <3>1, <3>2, Zenon DEF w
    <3> QED BY <3>3 DEF SupType
  <2> QED BY <2>1, <2>2
<1> HIDE DEF q, v
<1>3. /\ r \in SupRecord /\ r.ep = sup[t].ep /\ r.pc = p /\ r.dev = d /\ r.cancel = sup[t].cancel
      /\ w \in SupRecord /\ w.ep = sup[t].ep /\ w.pc = p /\ w.dev = d /\ w.cancel = sup[t].cancel
    BY <1>1 DEF SupRecord
<1> HIDE DEF r, w
<1> QED BY <1>2, <1>3 DEF SupType, SupBecomes

\* A supervisor ends.
LEMMA SupEnds ==
    ASSUME SupType, NEW t \in Supervisors, NEW how \in Ended, Ends(t, how)
    PROVE  SupBecomes(t, None, how, None, FALSE)
BY SupUpdate DEF Ends, Ended, SupPcs

\* A supervisor starts.
LEMMA SupStarts ==
    ASSUME SupType, NEW t \in Supervisors, NEW e \in Endpoints, sup' = [sup EXCEPT ![t] = Fresh(e)]
    PROVE  SupBecomes(t, e, "new", None, FALSE)
BY SupUpdate DEF Fresh, SupPcs

\* A supervisor's record after task.cancel().
LEMMA CancelledFields ==
    ASSUME NEW r \in SupRecord
    PROVE  /\ Cancelled(r) \in SupRecord
           /\ Cancelled(r).pc = r.pc /\ Cancelled(r).ep = r.ep /\ Cancelled(r).dev = r.dev
           /\ Cancelled(r).cancel = (r.pc \notin Ended \/ r.cancel)
<1> DEFINE x == [r EXCEPT !.cancel = TRUE]
<1>1. x \in SupRecord /\ x.cancel = TRUE
    BY Zenon DEF SupRecord
<1>2. x.pc = r.pc /\ x.ep = r.ep /\ x.dev = r.dev
    BY Zenon DEF SupRecord
<1>3. r.cancel \in BOOLEAN
    BY DEF SupRecord
<1>4. CASE r.pc \in Ended
  <2>1. Cancelled(r) = r
      BY <1>4 DEF Cancelled
  <2> QED BY <2>1, <1>3, <1>4, Zenon
<1>5. CASE r.pc \notin Ended
  <2>1. Cancelled(r) = x
      BY <1>5, Zenon DEF Cancelled
  <2> QED BY <2>1, <1>1, <1>2, <1>3, <1>5, Zenon
<1> QED BY <1>4, <1>5

\* A supervisor is cancelled.
LEMMA SupCancels ==
    ASSUME SupType, NEW t \in Supervisors, sup' = [sup EXCEPT ![t] = Cancelled(@)]
    PROVE  CancelBecomes(t)
<1>1. sup' = [sup EXCEPT ![t] = Cancelled(sup[t])]
    BY DEF SupType
<1>2. SupType' /\ sup'[t] = Cancelled(sup[t]) /\ \A u \in Supervisors : u # t => sup'[u] = sup[u]
    BY <1>1, SupFields, CancelledFields DEF SupType
<1>3. /\ Cancelled(sup[t]).pc = sup[t].pc /\ Cancelled(sup[t]).ep = sup[t].ep
      /\ Cancelled(sup[t]).dev = sup[t].dev
      /\ Cancelled(sup[t]).cancel = (sup[t].pc \notin Ended \/ sup[t].cancel)
    BY SupFields, CancelledFields, Zenon
<1> QED BY <1>2, <1>3, Zenon DEF CancelBecomes, SupBecomes, Live

\* The fields of a callback's record.
LEMMA CbFields ==
    ASSUME CallerType, NEW c \in Callbacks
    PROVE  /\ cb[c] \in CbRecord
           /\ cb[c].pc \in CbPcs
           /\ cb[c].svc \in Services \cup {None}
           /\ cb[c].ep \in Tcp \cup {None}
           /\ cb[c].on \in Tcp \cup {None}
           /\ cb[c].waits \in Supervisors \cup {None}
           /\ cb[c].then \in {"idle", "endpoint", "add"}
BY DEF CallerType, CbRecord

\* One callback's record is replaced.
LEMMA CbUpdate ==
    ASSUME CallerType, NEW c \in Callbacks, NEW p \in CbPcs, NEW s \in Services \cup {None},
           NEW e \in Tcp \cup {None}, NEW on \in Tcp \cup {None},
           NEW w \in Supervisors \cup {None},
           NEW then \in {"idle", "endpoint", "add"},
           cb' = [cb EXCEPT ![c] = [pc |-> p, svc |-> s, ep |-> e, on |-> on, waits |-> w,
                                    then |-> then]]
    PROVE  CbBecomes(c, p, s, e, on, w, then)
BY DEF CallerType, CbRecord, CbBecomes

\* What is left when one callback's record is replaced.
LEMMA CbReplaced ==
    ASSUME CallerType, NEW c \in Callbacks, NEW r \in CbRecord, cb' = [cb EXCEPT ![c] = r]
    PROVE  /\ cb' \in [Callbacks -> CbRecord] /\ cb'[c] = r
           /\ \A b \in Callbacks : b # c => cb'[b] = cb[b]
BY DEF CallerType

\* A callback turns to an endpoint that must go.
LEMMA CbTurns ==
    ASSUME CallerType, NEW c \in Callbacks, NEW p \in CbPcs, NEW on \in Tcp \cup {None},
           NEW then \in {"idle", "endpoint", "add"},
           cb' = [cb EXCEPT ![c].pc = p, ![c].on = on, ![c].then = then]
    PROVE  CbBecomes(c, p, cb[c].svc, cb[c].ep, on, cb[c].waits, then)
<1> DEFINE q == [cb[c] EXCEPT !.pc = p]
           v == [q EXCEPT !.on = on]
           r == [v EXCEPT !.then = then]
<1>1. cb' = [cb EXCEPT ![c] = r]
    BY DEF CallerType
<1>2. q \in CbRecord /\ q.pc = p /\ q.svc = cb[c].svc /\ q.ep = cb[c].ep /\ q.waits = cb[c].waits
    BY CbFields DEF CbRecord
<1> HIDE DEF q
<1>3. v \in CbRecord /\ v.pc = p /\ v.svc = q.svc /\ v.ep = q.ep /\ v.waits = q.waits /\ v.on = on
    BY <1>2 DEF CbRecord
<1> HIDE DEF v
<1>4. /\ r \in CbRecord /\ r.pc = p /\ r.svc = v.svc /\ r.ep = v.ep /\ r.waits = v.waits
      /\ r.on = on /\ r.then = then
    BY <1>3 DEF CbRecord
<1> HIDE DEF r
<1>5. /\ r.svc = cb[c].svc /\ r.ep = cb[c].ep /\ r.waits = cb[c].waits
    BY <1>2, <1>3, <1>4
<1>6. /\ cb' \in [Callbacks -> CbRecord] /\ cb'[c] = r
      /\ \A b \in Callbacks : b # c => cb'[b] = cb[b]
    BY <1>1, <1>4, CbReplaced, ZenonT(60)
<1> QED BY <1>4, <1>5, <1>6 DEF CbBecomes

\* A callback waits for a task, has waited for it, or need not.
LEMMA CbWaits ==
    ASSUME CallerType, NEW c \in Callbacks, NEW p \in CbPcs, NEW w \in Supervisors \cup {None},
           \/ cb' = [cb EXCEPT ![c].pc = p, ![c].waits = w]
           \/ cb' = [cb EXCEPT ![c].pc = p] /\ w = cb[c].waits
    PROVE  CbBecomes(c, p, cb[c].svc, cb[c].ep, cb[c].on, w, cb[c].then)
<1> DEFINE q == [cb[c] EXCEPT !.pc = p]
           r == [q EXCEPT !.waits = w]
<1>1. cb' = [cb EXCEPT ![c] = r] \/ (cb' = [cb EXCEPT ![c] = q] /\ w = cb[c].waits)
    BY DEF CallerType
<1>2. /\ q \in CbRecord /\ q.pc = p /\ q.svc = cb[c].svc /\ q.ep = cb[c].ep
      /\ q.on = cb[c].on /\ q.waits = cb[c].waits /\ q.then = cb[c].then
    BY CbFields DEF CbRecord
<1> HIDE DEF q
<1>3. /\ r \in CbRecord /\ r.pc = p /\ r.svc = q.svc /\ r.ep = q.ep
      /\ r.on = q.on /\ r.waits = w /\ r.then = q.then
    BY <1>2 DEF CbRecord
<1> HIDE DEF r
<1> QED BY <1>1, <1>2, <1>3 DEF CallerType, CbBecomes

\* A callback ends.
LEMMA CbReturns ==
    ASSUME CallerType, NEW c \in Callbacks, Return(c)
    PROVE  CbGoesOn(c, "idle")
BY CbUpdate DEF Return, IdleCb, CbPcs, CbGoesOn

\* A callback goes on or ends.
LEMMA CbContinues ==
    ASSUME CallerType, NEW c \in Callbacks, NEW p \in CbPcs, Continue(c, p)
    PROVE  CbGoesOn(c, p)
<1>1. CASE p = "idle"
    BY <1>1, CbReturns DEF Continue
<1>2. CASE p # "idle"
  <2> DEFINE q == [cb[c] EXCEPT !.pc = p]
             v == [q EXCEPT !.on = None]
             r == [v EXCEPT !.waits = None]
  <2>1. cb' = [cb EXCEPT ![c] = r] /\ turn' = c
      BY <1>2 DEF Continue, CallerType
  <2>2. q \in CbRecord /\ q.pc = p /\ q.svc = cb[c].svc /\ q.ep = cb[c].ep /\ q.then = cb[c].then
      BY CbFields DEF CbRecord
  <2> HIDE DEF q
  <2>3. v \in CbRecord /\ v.pc = p /\ v.svc = q.svc /\ v.ep = q.ep /\ v.then = q.then
        /\ v.on = None
      BY <2>2 DEF CbRecord
  <2> HIDE DEF v
  <2>4. /\ r \in CbRecord /\ r.pc = p /\ r.svc = v.svc /\ r.ep = v.ep /\ r.then = v.then
        /\ r.on = None /\ r.waits = None
      BY <2>3 DEF CbRecord
  <2> HIDE DEF r
  <2> QED BY <1>2, <2>1, <2>2, <2>3, <2>4 DEF CallerType, CbBecomes, CbGoesOn
<1> QED BY <1>1, <1>2

-----------------------------------------------------------------------------
(* Each action has one of the effects. *)

\* The steps of _supervise.
LEMMA SupervisorEffect ==
    ASSUME TypeOK, SupInv, NEW t \in Supervisors, Supervise(t)
    PROVE  Effect
<1> USE DEF TypeOK
<1>p. {"opening", "session", "closing", "unwinding", "ready", "sleeping"} \subseteq SupPcs
      /\ "done" \in Ended /\ "died" \in Ended
    BY DEF SupPcs, Ended
<1>f. sup[t].ep \in Endpoints \cup {None} /\ sup[t].dev \in Devices \cup {None}
    BY SupFields
<1>d. Dies(t) /\ Live(t) /\ ~Known(sup[t].ep) => Effect
  <2> SUFFICES ASSUME Dies(t), Live(t), ~Known(sup[t].ep) PROVE Over(t, "died")
      BY <1>p DEF Effect
  <2>1. SupBecomes(t, None, "died", None, FALSE)
      BY <1>p, SupEnds DEF Dies
  <2> QED BY <2>1 DEF Dies, Over, Others, Outside, tables, mdns
<1>m. ASSUME NEW p \in SupPcs, p \in {"opening", "session", "closing", "unwinding"},
             Live(t), sup[t].dev # None => p \in {"closing", "unwinding"},
             p = "unwinding" => sup[t].cancel,
             Goes(t, p), UNCHANGED <<state, devices, Others>>
      PROVE  Effect
  <2>1. SupBecomes(t, sup[t].ep, p, sup[t].dev, sup[t].cancel)
      BY <1>m, SupGoes
  <2>2. Moved(t, p)
      BY <1>m, <2>1 DEF Moved, Others, Outside, tables, mdns
  <2> QED BY <2>2 DEF Effect
<1>1. CASE Connect(t)
  <2>1. Live(t) /\ sup[t].dev = None
      BY <1>1 DEF Connect, Runs, Live, Ended, SupInv
  <2>2. CASE Known(sup[t].ep)
      BY <1>1, <2>1, <2>2, <1>m, <1>p DEF Connect
  <2>3. CASE ~Known(sup[t].ep)
      BY <1>1, <2>1, <2>3, <1>d DEF Connect
  <2> QED BY <2>2, <2>3
<1>2. CASE Opened(t)
  <2>1. Live(t) /\ sup[t].dev = None
      BY <1>2 DEF Opened, Runs, Live, Ended, SupInv
  <2>2. CASE Known(sup[t].ep)
      BY <1>2, <2>1, <2>2, <1>m, <1>p DEF Opened
  <2>3. CASE ~Known(sup[t].ep)
      BY <1>2, <2>1, <2>3, <1>d DEF Opened
  <2> QED BY <2>2, <2>3
<1>3. CASE LinkLost(t)
  <2>1. Live(t)
      BY <1>3 DEF LinkLost, Runs, Live, Ended
  <2> QED BY <1>3, <2>1, <1>m, <1>p DEF LinkLost
<1>r. CASE SinkRaises(t)
  <2>1. Live(t) /\ Ends(t, "died") /\ devices' = Disowned(t) /\ UNCHANGED <<state, Outside>>
      BY <1>r DEF SinkRaises, Runs, Live, Ended
  <2>2. SupBecomes(t, None, "died", None, FALSE)
      BY <1>p, <2>1, SupEnds
  <2>3. lapses' = lapses \cup {"raised"} /\ lapses' \subseteq Lapses
      BY <1>r DEF SinkRaises, Lapse, CallerType
  <2>4. Raised(t)
      BY <2>1, <2>2, <2>3 DEF Raised, Outside, tables, mdns
  <2> QED BY <2>4 DEF Effect
<1>4. CASE Unwind(t)
  <2>1. Live(t)
      BY <1>4 DEF Unwind, Runs, Live, Ended
  <2> QED BY <1>4, <2>1, <1>m, <1>p DEF Unwind
<1>5. CASE Retry(t)
  <2>1. Live(t) /\ ~sup[t].cancel
      BY <1>5 DEF Retry, Runs, Live, Ended
  <2>2. CASE Known(sup[t].ep)
    <3>1. sup' = [sup EXCEPT ![t].pc = "sleeping", ![t].dev = None]
        BY <1>5, <2>2 DEF Retry
    <3>2. SupBecomes(t, sup[t].ep, "sleeping", None, sup[t].cancel)
        BY <3>1, <1>p, SupMeets
    <3>3. sup[t].cancel = FALSE
        BY <2>1, SupFields
    <3>4. Rested(t)
        BY <1>5, <2>1, <2>2, <3>2, <3>3 DEF Retry, Rested, Others, Outside, tables, mdns
    <3> QED BY <3>4 DEF Effect
  <2>3. CASE ~Known(sup[t].ep)
      BY <1>5, <2>1, <2>3, <1>d DEF Retry
  <2> QED BY <2>2, <2>3
<1>6. CASE Finish(t)
  <2>1. Live(t) /\ sup[t].cancel
      BY <1>6 DEF Finish, Runs, Live, Ended
  <2>2. CASE Known(sup[t].ep) \/ sup[t].pc = "new"
    <3>1. SupBecomes(t, None, "done", None, FALSE)
        BY <1>6, <2>2, <1>p, SupEnds DEF Finish
    <3>2. Over(t, "done")
        BY <1>6, <2>1, <2>2, <3>1 DEF Finish, Over, Others, Outside, tables, mdns
    <3> QED BY <3>2, <1>p DEF Effect
  <2>3. CASE ~(Known(sup[t].ep) \/ sup[t].pc = "new")
      BY <1>6, <2>1, <2>3, <1>d DEF Finish
  <2> QED BY <2>2, <2>3
<1>7. ASSUME NEW d \in Devices, Hello(t, d) PROVE Effect
  <2>1. Live(t) /\ ~sup[t].cancel /\ sup[t].pc = "session"
      BY <1>7 DEF Hello, Runs, Live, Ended
  <2>c. sup[t].cancel = FALSE /\ sup[t].ep \in Endpoints
      BY <2>1, SupFields DEF SupInv
  <2>2. CASE ~Known(sup[t].ep)
      BY <1>7, <2>1, <2>2, <1>d DEF Hello
  <2>3. CASE Known(sup[t].ep)
    <3>1. Roamed(t, d)
      <4>1. Lapse(IF \A u \in Usb \ {sup[t].ep} : StateOf(u).dev # d THEN {} ELSE {"roam"})
          BY <1>7, <2>3, Zenon DEF Hello
      <4>2. CASE \A u \in Usb \ {sup[t].ep} : StateOf(u).dev # d
        <5>1. lapses' = lapses \cup {}
            BY <4>1, <4>2, Zenon DEF Lapse
        <5> QED BY <4>2, <5>1 DEF Roamed, CallerType
      <4>3. CASE ~\A u \in Usb \ {sup[t].ep} : StateOf(u).dev # d
        <5>1. lapses' = lapses \cup {"roam"} /\ {"roam"} \subseteq Lapses
            BY <4>1, <4>3, Zenon DEF Lapse
        <5> QED BY <5>1 DEF Roamed, CallerType
      <4> QED BY <4>2, <4>3
    <3>2. CASE Accepts(t, d)
      <4>1. SupBecomes(t, sup[t].ep, "ready", d, FALSE)
        <5>1. sup' = [sup EXCEPT ![t].dev = d, ![t].pc = "ready"]
            BY <1>7, <2>3, <3>2 DEF Hello
        <5> QED BY <5>1, <2>c, <1>p, SupMeets
      <4>2. state' = [state EXCEPT ![sup[t].ep] =
                [dev |-> d, mdns |-> state[sup[t].ep].mdns, adv |-> state[sup[t].ep].adv]]
        <5> DEFINE e == sup[t].ep
        <5>1. state[e] \in EndpointState
            BY <2>3, <2>c DEF TablesType, Known
        <5>2. [state[e] EXCEPT !.dev = d] =
                  [dev |-> d, mdns |-> state[e].mdns, adv |-> state[e].adv]
            BY <5>1 DEF EndpointState
        <5>3. state' = [state EXCEPT ![e].dev = d]
            BY <1>7, <2>3, <3>2 DEF Hello
        <5> QED BY <5>2, <5>3 DEF TablesType
      <4>3. devices' = [devices EXCEPT ![d] = t] /\ UNCHANGED Outside
            /\ devices[d] \in {None, t}
          BY <1>7, <2>3, <3>2 DEF Hello, Accepts
      <4>4. phase # "start"
          BY <1>7 DEF Hello, Runs
      <4>5. Registered(t, d)
          BY <2>1, <2>3, <3>1, <4>1, <4>2, <4>3, <4>4 DEF Registered, Outside, tables, mdns
      <4> QED BY <4>5 DEF Effect
    <3>3. CASE ~Accepts(t, d)
      <4>1. SupBecomes(t, sup[t].ep, "closing", d, FALSE)
        <5>1. sup' = [sup EXCEPT ![t].dev = d, ![t].pc = "closing"]
            BY <1>7, <2>3, <3>3 DEF Hello
        <5> QED BY <5>1, <2>c, <1>p, SupMeets
      <4>2. UNCHANGED <<state, devices, Outside>>
          BY <1>7, <2>3, <3>3 DEF Hello
      <4>3. Refused(t, d)
          BY <2>1, <3>1, <4>1, <4>2 DEF Refused, Outside, tables, mdns
      <4> QED BY <4>3 DEF Effect
    <3> QED BY <3>2, <3>3
  <2> QED BY <2>2, <2>3
<1> QED BY <1>1, <1>2, <1>3, <1>4, <1>5, <1>6, <1>7, <1>r DEF Supervise

\* A change of the network starts a callback.
LEMMA DiscoveryEffect ==
    ASSUME TypeOK, NEW c \in Callbacks, Discovery(c)
    PROVE  Effect
<1> USE DEF TypeOK
<1>c. {"service", "remove"} \subseteq CbPcs
    BY DEF CbPcs
<1>1. ASSUME NEW s \in Services, ServiceRemoved(c, s) PROVE Effect
  <2>1. Lapse(Overlap) /\ MayStart(c) /\ network' = [network EXCEPT ![s] = None]
        /\ UNCHANGED <<tables, devices, sup, quiesce, phase>>
      BY <1>1 DEF ServiceRemoved
  <2>2. Begun(c)
      BY <2>1 DEF Begun, Lapse, Overlap, MayStart, CallerType
  <2>3. CASE svc[s] # None
    <3>1. Unlist(c, s, "idle") /\ turn' = c
        BY <1>1, <2>3, Zenon DEF ServiceRemoved
    <3>2. CbBecomes(c, "remove", cb[c].svc, cb[c].ep, svc[s], cb[c].waits, "idle")
      <4>1. svc[s] \in Tcp
          BY <2>3 DEF MdnsType
      <4>2. cb' = [cb EXCEPT ![c].pc = "remove", ![c].on = svc[s], ![c].then = "idle"]
          BY <3>1, Zenon DEF Unlist
      <4> QED BY <4>1, <4>2, <1>c, CbTurns, ZenonT(60)
    <3>3. Delisted(c, s)
        BY <2>1, <2>3, <3>1, Zenon DEF Unlist, Delisted
    <3>4. Withdrawn(c, s)
        BY <2>1, <2>2, <3>2, <3>3 DEF Withdrawn
    <3> QED BY <3>4, Zenon DEF Effect
  <2>4. CASE svc[s] = None
    <3>1. Vanished(c, s)
        BY <1>1, <2>1, <2>2, <2>4 DEF ServiceRemoved, Vanished, mdns
    <3> QED BY <3>1, Zenon DEF Effect
  <2> QED BY <2>3, <2>4
<1>2. ASSUME NEW s \in Services, NEW e \in Tcp, ServiceResolved(c, s, e) PROVE Effect
  <2>1. Lapse(Overlap \cup IF Alone(s, e) THEN {} ELSE {"shared"}) /\ MayStart(c)
      BY <1>2 DEF ServiceResolved
  <2>2. Begun(c) /\ ("shared" \in lapses' \/ Alone(s, e))
      BY <2>1 DEF Begun, Lapse, Overlap, MayStart, CallerType
  <2>3. CbBecomes(c, "service", s, e, None, None, "idle")
      BY <1>2, <1>c, CbUpdate DEF ServiceResolved
  <2>4. Resolved(c, s, e)
      BY <1>2, <2>2, <2>3 DEF ServiceResolved, Resolved
  <2> QED BY <2>4, Zenon DEF Effect
<1> QED BY <1>1, <1>2 DEF Discovery

\* The steps of a callback.
LEMMA CallbackEffect ==
    ASSUME TypeOK, CallbackInv, NEW c \in Callbacks, CallbackStep(c)
    PROVE  Effect
<1> USE DEF TypeOK
<1>c. CbPcs = {"idle", "service", "endpoint", "add", "remove", "wait", "drop"}
    BY DEF CbPcs
<1>f. /\ cb[c].svc \in Services \cup {None} /\ cb[c].ep \in Tcp \cup {None}
      /\ cb[c].on \in Tcp \cup {None} /\ cb[c].then \in {"idle", "endpoint", "add"}
    BY CbFields
<1>1. CASE AddService(c)
  <2> DEFINE old == devSvc[Owner[cb[c].svc]]
  <2>0. turn = c /\ cb[c].pc = "service"
        /\ UNCHANGED <<tables, devices, sup, quiesce, phase, network, lapses>>
      BY <1>1 DEF AddService
  <2>1. cb[c].svc \in Services /\ old \in Services \cup {None}
      BY <2>0, HubAssumption DEF CallbackInv, MdnsType
  <2>2. CASE old \notin {None, cb[c].svc} /\ svc[old] # None
    <3>1. Unlist(c, old, "endpoint") /\ UNCHANGED turn
        BY <1>1, <2>2, ZenonT(60) DEF AddService
    <3>2. CbBecomes(c, "remove", cb[c].svc, cb[c].ep, svc[old], cb[c].waits, "endpoint")
      <4>1. svc[old] \in Tcp
          BY <2>1, <2>2 DEF MdnsType
      <4>2. cb' = [cb EXCEPT ![c].pc = "remove", ![c].on = svc[old], ![c].then = "endpoint"]
          BY <3>1, Zenon DEF Unlist
      <4> QED BY <4>1, <4>2, <1>c, CbTurns, ZenonT(60)
    <3>3. Delisted(c, old)
        BY <2>0, <2>2, <3>1, Zenon DEF Unlist, Delisted
    <3>4. Superseded(c, old) /\ old \in Services
        BY <2>0, <2>1, <2>2, <3>2, <3>3 DEF Superseded
    <3> QED BY <3>4, Zenon DEF Effect
  <2>3. CASE ~(old \notin {None, cb[c].svc} /\ svc[old] # None)
    <3>1. Continue(c, "endpoint") /\ UNCHANGED mdns
        BY <1>1, <2>3, Zenon DEF AddService
    <3>2. CbGoesOn(c, "endpoint")
        BY <3>1, <1>c, CbContinues
    <3>3. Sole(c)
        BY <2>0, <2>3, <3>1, <3>2 DEF Sole
    <3> QED BY <3>3, Zenon DEF Effect
  <2> QED BY <2>2, <2>3
<1>2. CASE AddEndpoint(c)
  <2> DEFINE old == svc[cb[c].svc]
  <2>0. turn = c /\ cb[c].pc = "endpoint"
        /\ UNCHANGED <<tables, devices, mdns, sup, quiesce, phase, network, lapses>>
      BY <1>2 DEF AddEndpoint
  <2>1. old \in Tcp \cup {None}
      BY <2>0 DEF CallbackInv, MdnsType
  <2>2. CASE old \notin {None, cb[c].ep}
    <3>1. cb' = [cb EXCEPT ![c].pc = "remove", ![c].on = old, ![c].then = "add"] /\ UNCHANGED turn
        BY <1>2, <2>2, ZenonT(60) DEF AddEndpoint, Former
    <3>2. CbBecomes(c, "remove", cb[c].svc, cb[c].ep, old, cb[c].waits, "add")
        BY <2>1, <3>1, <1>c, CbTurns, ZenonT(60)
    <3>3. Leaves(c)
        BY <2>0, <2>2, <3>1, <3>2 DEF Leaves
    <3> QED BY <3>3, Zenon DEF Effect
  <2>3. CASE old \in {None, cb[c].ep}
    <3>1. Continue(c, "add")
        BY <1>2, <2>3, Zenon DEF AddEndpoint, Former
    <3>2. CbGoesOn(c, "add")
        BY <3>1, <1>c, CbContinues
    <3>3. Stays(c)
        BY <2>0, <2>3, <3>2 DEF Stays
    <3> QED BY <3>3, Zenon DEF Effect
  <2> QED BY <2>2, <2>3
<1>3. CASE RemoveEndpoint(c)
  <2> DEFINE e == cb[c].on
  <2>0. turn = c /\ cb[c].pc = "remove" /\ e \in Tcp
        /\ UNCHANGED <<state, held, maint, devices, mdns, quiesce, phase, network, lapses>>
      BY <1>3 DEF RemoveEndpoint, CallbackInv
  <2>1. CASE ~StateOf(e).mdns
    <3>1. Continue(c, cb[c].then) /\ UNCHANGED <<task, sup>>
        BY <1>3, <2>1, Zenon DEF RemoveEndpoint
    <3>2. CbGoesOn(c, cb[c].then)
        BY <3>1, <1>c, <1>f, CbContinues
    <3>3. Spared(c)
        BY <2>0, <2>1, <3>1, <3>2 DEF Spared, tables
    <3> QED BY <3>3, Zenon DEF Effect
  <2>2. CASE StateOf(e).mdns /\ task[e] = None
    <3>1. task' = Popped(e) /\ cb' = [cb EXCEPT ![c].pc = "drop"] /\ UNCHANGED <<sup, turn>>
        BY <1>3, <2>2, Zenon DEF RemoveEndpoint
    <3>2. CbBecomes(c, "drop", cb[c].svc, cb[c].ep, cb[c].on, cb[c].waits, cb[c].then)
        BY <3>1, <1>c, CbFields, CbWaits
    <3>3. task' = task
        BY <2>2, <3>1 DEF Popped, TablesType
    <3>4. Emptied(c)
        BY <2>0, <2>2, <3>1, <3>2, <3>3 DEF Emptied, tables
    <3> QED BY <3>4, Zenon DEF Effect
  <2>3. CASE StateOf(e).mdns /\ task[e] # None
    <3>1. /\ task' = Popped(e)
          /\ sup' = [sup EXCEPT ![task[e]] = Cancelled(@)]
          /\ cb' = [cb EXCEPT ![c].pc = "wait", ![c].waits = task[e]]
          /\ turn' = None
        BY <1>3, <2>3, Zenon DEF RemoveEndpoint
    <3>2. task[e] \in Supervisors
        BY <2>0, <2>3 DEF TablesType, Endpoints
    <3>3. CbBecomes(c, "wait", cb[c].svc, cb[c].ep, cb[c].on, task[e], cb[c].then)
        BY <3>1, <3>2, <1>c, CbWaits
    <3>4. CancelBecomes(task[e])
        BY <3>1, <3>2, SupCancels, Zenon
    <3>5. Evicted(c)
        BY <2>0, <2>3, <3>1, <3>3, <3>4, Zenon DEF Evicted, Popped
    <3> QED BY <3>5, Zenon DEF Effect
  <2> QED BY <2>1, <2>2, <2>3
<1>4. CASE Awaited(c)
  <2>0. turn = None /\ cb[c].pc = "wait"
        /\ UNCHANGED <<tables, devices, mdns, sup, quiesce, phase, network, lapses>>
      BY <1>4 DEF Awaited
  <2>1. CASE sup[cb[c].waits].pc = "done" /\ cb' = [cb EXCEPT ![c].pc = "drop", ![c].waits = None]
             /\ turn' = c
    <3>1. CbBecomes(c, "drop", cb[c].svc, cb[c].ep, cb[c].on, None, cb[c].then)
        BY <2>1, <1>c, CbWaits
    <3>2. Arrived(c)
        BY <2>0, <2>1, <3>1 DEF Arrived
    <3> QED BY <3>2, Zenon DEF Effect
  <2>2. CASE sup[cb[c].waits].pc = "died" /\ Return(c)
    <3>1. CbGoesOn(c, "idle")
        BY <2>2, CbReturns
    <3>2. Failed(c)
        BY <2>0, <2>2, <3>1 DEF Failed
    <3> QED BY <3>2, Zenon DEF Effect
  <2> QED BY <1>4, <2>1, <2>2, Zenon DEF Awaited
<1>5. CASE DropEndpoint(c)
  <2>1. CbGoesOn(c, cb[c].then)
      BY <1>5, <1>c, <1>f, CbContinues DEF DropEndpoint
  <2>2. Dropped(c)
      BY <1>5, <2>1 DEF DropEndpoint, Dropped
  <2> QED BY <2>2, Zenon DEF Effect
<1>6. ASSUME NEW ok \in BOOLEAN, AddTcp(c, ok) PROVE Effect
  <2> DEFINE e == cb[c].ep
             advertised == [dev |-> StateOf(e).dev, mdns |-> TRUE, adv |-> Owner[cb[c].svc]]
             listed == /\ svc' = [svc EXCEPT ![cb[c].svc] = e]
                       /\ devSvc' = [devSvc EXCEPT ![Owner[cb[c].svc]] = cb[c].svc]
  <2>0. turn = c /\ cb[c].pc = "add" /\ Free(e, ok) /\ Return(c)
        /\ UNCHANGED <<maint, devices, quiesce, phase, network, lapses>>
      BY <1>6, Zenon DEF AddTcp
  <2>1. e \in Tcp /\ e \in Endpoints /\ e \notin maint
      BY <2>0, HubAssumption DEF CallbackInv, Endpoints, TablesType
  <2>2. CbGoesOn(c, "idle")
      BY <2>0, CbReturns
  <2>3. CASE /\ task[e] = None
             /\ phase = "serve"
             /\ state' = [state EXCEPT ![e] = advertised]
             /\ StartSupervisor(e, ok, maint)
             /\ IF e \in held \/ e \in maint \/ ok THEN listed ELSE UNCHANGED mdns
    <3>1. Enters(c)
        BY <2>0, <2>2, <2>3 DEF Enters
    <3>2. CASE e \notin held /\ ~ok
      <4>1. UNCHANGED <<held, task, sup>> /\ UNCHANGED mdns /\ e \in Contended
          BY <2>0, <2>1, <2>3, <3>2, Zenon DEF StartSupervisor, Free
      <4>2. Locked(c)
          BY <2>3, <3>1, <4>1 DEF Locked
      <4> QED BY <4>2, Zenon DEF Effect
    <3>3. CASE e \in held \/ ok
      <4>1. held' = held \cup {e} /\ listed
          BY <2>1, <2>3, <3>3, Zenon DEF StartSupervisor
      <4>2. PICK t \in Supervisors :
               Spare(t) /\ task' = [task EXCEPT ![e] = t] /\ sup' = [sup EXCEPT ![t] = Fresh(e)]
          BY <2>1, <2>3, <3>3, Zenon DEF StartSupervisor
      <4>3. SupBecomes(t, e, "new", None, FALSE)
          BY <2>1, <4>2, SupStarts
      <4>4. Appeared(c, t)
          BY <2>3, <3>1, <4>1, <4>2, <4>3, Zenon DEF Appeared, Listed
      <4> QED BY <4>4, Zenon DEF Effect
    <3> QED BY <3>2, <3>3
  <2>4. CASE task[e] = None /\ phase # "serve" /\ UNCHANGED <<state, held, task, sup, mdns>>
    <3>1. Ignored(c)
        BY <2>0, <2>2, <2>4 DEF Ignored, tables
    <3> QED BY <3>1, Zenon DEF Effect
  <2>5. CASE /\ task[e] # None
             /\ StateOf(e).mdns
             /\ state' = [state EXCEPT ![e] = advertised]
             /\ listed
             /\ UNCHANGED <<held, task, sup>>
    <3>1. Confirmed(c)
        BY <2>0, <2>2, <2>5, Zenon DEF Confirmed, Enters, Listed
    <3> QED BY <3>1, Zenon DEF Effect
  <2>6. CASE task[e] # None /\ ~StateOf(e).mdns /\ UNCHANGED <<state, held, task, sup, mdns>>
    <3>1. Ignored(c)
        BY <2>0, <2>2, <2>6 DEF Ignored, tables
    <3> QED BY <3>1, Zenon DEF Effect
  <2> QED BY <1>6, <2>3, <2>4, <2>5, <2>6, Zenon DEF AddTcp
<1> QED BY <1>1, <1>2, <1>3, <1>4, <1>5, <1>6 DEF CallbackStep

\* The endpoints of the command line, of USB discovery and after maintenance.
LEMMA StartEffect ==
    ASSUME TypeOK, PhaseInv, MaintInv, NEW e \in Endpoints, NEW ok \in BOOLEAN,
           AddManual(e, ok) \/ (e \in Usb /\ (AddUsb(e, ok) \/ ResumeMaintenance(e, ok)))
    PROVE  Effect
<1> USE DEF TypeOK
<1>1. state' = [state EXCEPT ![e] = StateOf(e)]
  <2>1. CASE AddManual(e, ok)
      BY <2>1, Zenon DEF AddManual
  <2>2. CASE AddUsb(e, ok)
      BY <2>2, Zenon DEF AddUsb
  <2>3. CASE ResumeMaintenance(e, ok)
    <3>1. state' = state /\ state[e] = StateOf(e)
        BY <2>3 DEF ResumeMaintenance, MaintInv, StateOf
    <3> QED BY <3>1 DEF TablesType
  <2> QED BY <2>1, <2>2, <2>3
<1>2. /\ e \in Usb \/ phase = "start"
      /\ phase \in {"start", "serve"}
      /\ maint' = maint \/ (maint' = maint \ {e} /\ quiesce.ep # e)
      /\ StartSupervisor(e, ok, maint')
      /\ phase' = phase \/ (phase = "start" /\ phase' = "discovery")
      /\ phase = "start" => phase' = IF ok \/ e \in held THEN "start" ELSE "discovery"
      /\ UNCHANGED <<devices, mdns, cb, turn, quiesce, network, lapses>>
  <2>1. CASE AddManual(e, ok)
    <3>1. /\ phase = "start" /\ maint' = maint /\ StartSupervisor(e, ok, maint)
          /\ phase' = IF ok \/ e \in held THEN "start" ELSE "discovery"
          /\ UNCHANGED <<devices, mdns, cb, turn, quiesce, network, lapses>>
        BY <2>1, Zenon DEF AddManual
    <3> QED BY <3>1
  <2>2. CASE e \in Usb /\ AddUsb(e, ok)
    <3>1. /\ phase = "serve" /\ maint' = maint /\ StartSupervisor(e, ok, maint) /\ phase' = phase
          /\ UNCHANGED <<devices, mdns, cb, turn, quiesce, network, lapses>>
        BY <2>2, Zenon DEF AddUsb
    <3> QED BY <2>2, <3>1
  <2>3. CASE e \in Usb /\ ResumeMaintenance(e, ok)
    <3>1. /\ phase = "serve" /\ maint' = maint \ {e} /\ quiesce.ep # e /\ phase' = phase
          /\ StartSupervisor(e, ok, maint')
          /\ UNCHANGED <<devices, mdns, cb, turn, quiesce, network, lapses>>
        BY <2>3, Zenon DEF ResumeMaintenance
    <3> QED BY <2>3, <3>1
  <2> QED BY <2>1, <2>2, <2>3
<1>3. CASE task[e] # None \/ e \in maint' \/ (e \notin held /\ ~ok)
  <2>1. UNCHANGED <<held, task, sup>>
      BY <1>2, <1>3, Zenon DEF StartSupervisor
  <2>2. e \in Usb \/ task[e] # None \/ phase' = "discovery"
      BY <1>2, <1>3 DEF TablesType
  <2>3. Noted(e)
      BY <1>1, <1>2, <2>1, <2>2 DEF Noted
  <2> QED BY <2>3, Zenon DEF Effect
<1>4. CASE ~(task[e] # None \/ e \in maint' \/ (e \notin held /\ ~ok))
  <2>1. held' = held \cup {e}
      BY <1>2, <1>4, Zenon DEF StartSupervisor
  <2>2. PICK t \in Supervisors :
           Spare(t) /\ task' = [task EXCEPT ![e] = t] /\ sup' = [sup EXCEPT ![t] = Fresh(e)]
      BY <1>2, <1>4, Zenon DEF StartSupervisor
  <2>3. SupBecomes(t, e, "new", None, FALSE)
      BY <2>2, SupStarts
  <2>4. maint' = maint \ {e} /\ quiesce.ep # e
    <3>1. CASE quiesce = NoQuiesce
        BY <1>2, <1>4, <3>1, HubAssumption DEF NoQuiesce
    <3>2. CASE quiesce # NoQuiesce
        BY <1>2, <1>4, <3>2 DEF MaintInv
    <3> QED BY <3>1, <3>2
  <2>5. phase' = phase
      BY <1>2, <1>4
  <2>6. Started(e, t)
      BY <1>1, <1>2, <1>4, <2>1, <2>2, <2>3, <2>4, <2>5 DEF Started
  <2> QED BY <2>6, Zenon DEF Effect
<1> QED BY <1>3, <1>4

\* quiesce_endpoint.
LEMMA QuiesceEffect ==
    ASSUME TypeOK, MaintInv, NEW e \in Endpoints, Quiesce(e)
    PROVE  Effect
<1> USE DEF TypeOK
<1> DEFINE t == task[e]
<1>1. Reserved(e)
    BY Zenon DEF Quiesce, Reserved, Local, Popped
<1>2. CASE t = None
  <2>1. Detached(e)
      BY <1>1, <1>2, Zenon DEF Quiesce, Detaches, Detached, Forgets
  <2> QED BY <2>1, Zenon DEF Effect
<1>3. CASE t # None
  <2>1. /\ sup' = [sup EXCEPT ![t] = Cancelled(@)]
        /\ quiesce' = [ep |-> e, dev |-> StateOf(e).dev, waits |-> t]
        /\ UNCHANGED devices
      BY <1>3, Zenon DEF Quiesce, Detaches
  <2>2. t \in Supervisors
      BY <1>3 DEF TablesType
  <2>3. CancelBecomes(t)
      BY <2>1, <2>2, SupCancels, Zenon
  <2>4. Detaching(e)
      BY <1>1, <1>3, <2>1, <2>3, Zenon DEF Detaching
  <2> QED BY <2>4, Zenon DEF Effect
<1> QED BY <1>2, <1>3

\* close().
LEMMA ShutdownEffect ==
    ASSUME TypeOK, Shutdown \/ Serve \/ Quiesced
    PROVE  Effect
<1> USE DEF TypeOK
<1>1. CASE Close \/ CloseFails \/ Serve
  <2>1. Advanced
      BY <1>1 DEF Close, CloseFails, Serve, Advanced
  <2> QED BY <2>1, Zenon DEF Effect
<1>2. CASE CancelAll
  <2> DEFINE f(t) == IF \E e \in Endpoints : task[e] = t THEN Cancelled(sup[t]) ELSE sup[t]
  <2>0. sup' = [t \in Supervisors |-> f(t)]
      BY <1>2, Zenon DEF CancelAll
  <2>1. ASSUME NEW t \in Supervisors
        PROVE  /\ sup'[t] = f(t) /\ f(t) \in SupRecord
               /\ f(t).ep = sup[t].ep /\ f(t).pc = sup[t].pc /\ f(t).dev = sup[t].dev
               /\ f(t).cancel = (sup[t].cancel \/ (Live(t) /\ \E e \in Endpoints : task[e] = t))
    <3>0. sup'[t] = f(t)
        BY <2>0, Zenon
    <3>r. sup[t] \in SupRecord /\ sup[t].cancel \in BOOLEAN
        BY SupFields
    <3>1. CASE \E e \in Endpoints : task[e] = t
      <4>1. f(t) = Cancelled(sup[t])
          BY <3>1, Zenon
      <4>2. /\ Cancelled(sup[t]) \in SupRecord
            /\ Cancelled(sup[t]).pc = sup[t].pc /\ Cancelled(sup[t]).ep = sup[t].ep
            /\ Cancelled(sup[t]).dev = sup[t].dev
            /\ Cancelled(sup[t]).cancel = (sup[t].pc \notin Ended \/ sup[t].cancel)
          BY <3>r, CancelledFields, Zenon
      <4> QED BY <3>0, <3>1, <3>r, <4>1, <4>2, Zenon DEF Live
    <3>2. CASE ~\E e \in Endpoints : task[e] = t
      <4>1. f(t) = sup[t]
          BY <3>2, Zenon
      <4> QED BY <3>0, <3>2, <3>r, <4>1, Zenon
    <3> QED BY <3>1, <3>2
  <2>2. SupType'
      BY <2>0, <2>1, Zenon DEF SupType
  <2>3. AllCancelled
      BY <1>2, <2>1, <2>2, Zenon DEF CancelAll, AllCancelled
  <2> QED BY <2>3, Zenon DEF Effect
<1>3. CASE Closed
  <2>1. Emptying
      BY <1>3 DEF Closed, Emptying
  <2> QED BY <2>1, Zenon DEF Effect
<1>4. CASE Quiesced
  <2>1. Released
      BY <1>4 DEF Quiesced, Released, Forgets, Live
  <2> QED BY <2>1, Zenon DEF Effect
<1> QED BY <1>1, <1>2, <1>3, <1>4 DEF Shutdown

\* Every step of the hub has an effect.
LEMMA NextEffect ==
    ASSUME HubInv, Next
    PROVE  Effect
<1>1. TypeOK /\ SupInv /\ CallbackInv /\ PhaseInv /\ MaintInv
    BY DEF HubInv
<1>2. ASSUME NEW t \in Supervisors, Supervise(t) PROVE Effect
    BY <1>1, <1>2, SupervisorEffect
<1>3. ASSUME NEW c \in Callbacks, CallbackStep(c) \/ Discovery(c) PROVE Effect
    BY <1>1, <1>3, CallbackEffect, DiscoveryEffect
<1>4. ASSUME NEW e \in Endpoints, NEW ok \in BOOLEAN, AddManual(e, ok) PROVE Effect
    BY <1>1, <1>4, StartEffect
<1>5. ASSUME Maintenance PROVE Effect
  <2>1. ASSUME NEW e \in Usb, NEW ok \in BOOLEAN, AddUsb(e, ok) \/ ResumeMaintenance(e, ok)
        PROVE Effect
    <3>1. e \in Endpoints
        BY DEF Endpoints
    <3> QED BY <1>1, <2>1, <3>1, StartEffect
  <2> QED BY <1>1, <1>5, <2>1, QuiesceEffect, ShutdownEffect DEF Maintenance
<1>6. CASE Serve \/ Shutdown
    BY <1>1, <1>6, ShutdownEffect
<1> QED BY <1>2, <1>3, <1>4, <1>5, <1>6 DEF Next

-----------------------------------------------------------------------------
(* The theorems. *)

\* The hub starts in the invariant.
LEMMA HubInit == Init => HubInv
<1> SUFFICES ASSUME Init PROVE HubInv
    OBVIOUS
<1>1. /\ \A t \in Supervisors : sup[t] = IdleSup
      /\ \A c \in Callbacks : cb[c] = IdleCb
      /\ \A e \in Endpoints : task[e] = None
      /\ \A d \in Devices : devices[d] = None /\ devSvc[d] = None
      /\ \A s \in Services : svc[s] = None /\ network[s] = None
      /\ turn = None /\ quiesce = NoQuiesce /\ phase = "start" /\ lapses = {}
      /\ maint \subseteq Usb /\ held = maint
    BY DEF Init, EmptyTables
<1>2. state \in [Endpoints -> EndpointState \cup {None}]
    BY DEF Init, EndpointState
<1>3. TypeOK
  <2>1. TablesType
      BY <1>1, <1>2 DEF TablesType, Init, EmptyTables, Endpoints
  <2>2. MdnsType
      BY DEF MdnsType, Init, EmptyTables
  <2>3. SupType
      BY DEF SupType, SupRecord, SupPcs, Init, IdleSup
  <2>4. CallerType
      BY <1>1 DEF CallerType, CbRecord, CbPcs, Init, IdleCb, NoQuiesce
  <2> QED BY <2>1, <2>2, <2>3, <2>4 DEF TypeOK
<1>4. CallbackInv /\ PhaseInv
    BY <1>1, HubAssumption DEF CallbackInv, PhaseInv, Idle, IdleCb
<1>5. SupInv /\ TaskInv /\ OwnedInv /\ WaitInv
    BY <1>1, HubAssumption DEF SupInv, TaskInv, OwnedInv, WaitInv, IdleSup, Live, Ended,
                NoQuiesce, WaitsFor
<1>6. MaintInv
    BY <1>1 DEF MaintInv, Init, Endpoints
<1>7. RegistryInv /\ KnownInv /\ AliveInv /\ ReadyInv
    BY <1>1 DEF RegistryInv, KnownInv, AliveInv, ReadyInv, IdleSup, IdleCb, Live, Ended
<1>8. UniqueInv /\ FreeInv /\ TargetInv /\ ListedInv /\ SettledInv /\ ReplacedInv /\ MovingInv
      /\ VacatedInv
    BY <1>1 DEF UniqueInv, FreeInv, TargetInv, ListedInv, SettledInv, ReplacedInv, MovingInv,
                VacatedInv, Resolves, IdleCb
<1>9. PlacedInv /\ TaskedInv /\ NamedInv /\ VictimInv
  <2>1. \A e \in Tcp : ~Known(e)
      BY <1>1, HubAssumption DEF Init, Endpoints
  <2> QED BY <1>1, <2>1 DEF PlacedInv, TaskedInv, NamedInv, VictimInv, IdleCb
<1> QED BY <1>3, <1>4, <1>5, <1>6, <1>7, <1>8, <1>9 DEF HubInv

\* The invariant of the hub holds, for any endpoints, devices, services and tasks.
THEOREM HubInvariant == Spec => []HubInv
<1>1. HubInv /\ [Next]_vars => HubInv'
    BY EffectStep, NextEffect
<1> QED BY <1>1, HubInit, PTL DEF Spec

\* _endpoint_states, _locks, _endpoint_tasks: the tables of the hub are well formed; whatever
\* overlapped or was raised, a task at work that nobody has told to end is the one in the
\* table; and as long as no two mDNS callbacks have overlapped and the event sink has not
\* raised, every task in the table is at work on its endpoint, with its state and its lock.
THEOREM TablesAlwaysAgree == Spec => []TablesAgree
<1>1. HubInv => TablesAgree
  <2> SUFFICES ASSUME HubInv PROVE SupervisedIsAlive /\ NoneIsLost
      BY DEF HubInv, TablesAgree
  <2>1. SupervisedIsAlive
    <3> SUFFICES ASSUME Intact PROVE SupervisedIsAlive
        BY DEF SupervisedIsAlive, Intact
    <3>1. Serial
        BY DEF Intact, Serial
    <3> QED BY <3>1 DEF HubInv, TaskInv, AliveInv, SupervisedIsAlive, Early
  <2>2. NoneIsLost
      BY DEF HubInv, OwnedInv, WaitInv, NoneIsLost
  <2> QED BY <2>1, <2>2
<1> QED BY <1>1, HubInvariant, PTL

\* _add_mdns_device, _remove_mdns_service: between two callbacks a TCP endpoint has a
\* supervisor just when a service is advertised there or the command line named it, under
\* the conditions that AdvertisedIsSupervised states.
THEOREM AdvertisedAreSupervised == Spec => []AdvertisedIsSupervised
<1>1. HubInv => AdvertisedIsSupervised
  <2> SUFFICES ASSUME HubInv, Contended \subseteq Usb, lapses \cap {"overlap", "shared", "raised"} = {},
                      Idle, phase = "serve", NEW e \in Tcp
               PROVE  task[e] # None <=> Manual(e) \/ \E s \in Services : network[s] = e
      BY DEF AdvertisedIsSupervised
  <2>1. /\ AliveInv /\ SettledInv /\ PlacedInv /\ TaskedInv /\ NamedInv /\ MdnsType
        /\ e \in Endpoints /\ e # None
      BY HubAssumption DEF HubInv, TypeOK, Endpoints
  <2>2. Orderly /\ Serial /\ Early
      BY DEF Orderly, Serial, Intact, Early
  <2>3. \A c \in Callbacks : ~Resolves(c) /\ cb[c].pc = "idle"
      BY DEF Idle, Resolves
  <2>4. \A s \in Services : svc[s] = network[s]
      BY <2>1, <2>2, <2>3 DEF SettledInv
  <2>5. ASSUME task[e] # None PROVE Manual(e) \/ \E s \in Services : network[s] = e
    <3>1. Known(e)
        BY <2>1, <2>2, <2>5 DEF AliveInv
    <3>2. state[e].mdns => \E s \in Services : svc[s] = e
        BY <2>1, <2>2, <2>3, <3>1 DEF NamedInv, Removes
    <3> QED BY <2>4, <2>5, <3>1, <3>2 DEF Manual
  <2>6. ASSUME NEW s \in Services, network[s] = e PROVE task[e] # None
    <3>1. svc[s] = e
        BY <2>4, <2>6
    <3>2. Known(e)
        BY <2>1, <2>2, <2>3, <3>1 DEF PlacedInv, Removes
    <3> QED BY <2>1, <2>2, <2>3, <3>2 DEF TaskedInv, Removes
  <2> QED BY <2>5, <2>6 DEF Manual
<1> QED BY <1>1, HubInvariant, PTL

\* _on_ready, _supervise ("Each physical device has at most one active session"): a ready
\* session is the registered one and no entry of _devices outlives its session, as long as
\* no callbacks have overlapped and no device has left the USB endpoint that remembers it.
THEOREM RegistryAlwaysTrue == Spec => []RegistryIsTrue
<1>1. HubInv => RegistryIsTrue
    BY DEF HubInv, RegistryInv, ReadyInv, RegistryIsTrue
<1> QED BY <1>1, HubInvariant, PTL

\* _devices: an entry is of a session that is up or being closed, of that very device,
\* whatever lapses there were.
EntriesAreSessions ==
    \A d \in Devices : devices[d] # None =>
        sup[devices[d]].pc \in {"ready", "closing", "unwinding"} /\ sup[devices[d]].dev = d

\* _on_ready, _supervise: callbacks that overlap and devices that roam never leave an entry
\* of _devices behind.
THEOREM NoStaleEntry == Spec => []EntriesAreSessions
<1>1. HubInv => EntriesAreSessions
    BY DEF HubInv, RegistryInv, EntriesAreSessions
<1> QED BY <1>1, HubInvariant, PTL

\* quiesce_endpoint ("Close one local USB endpoint", "retaining its cross-process lock"):
\* when it has returned no supervisor uses the endpoint and its lock is still held.
THEOREM QuiescedStaysDetached == Spec => []QuiescedIsDetached
<1>1. HubInv => QuiescedIsDetached
  <2> SUFFICES ASSUME HubInv, NEW e \in maint
               PROVE  e \in held /\ (quiesce.ep # e =>
                          \A t \in Supervisors : sup[t].ep = e => ~Live(t))
      BY DEF QuiescedIsDetached
  <2>1. e \in held /\ e \in Usb /\ e \in Endpoints /\ e \notin Tcp /\ e # None
      BY HubAssumption DEF HubInv, TypeOK, TablesType, MaintInv, Endpoints
  <2>2. ASSUME quiesce.ep # e, NEW t \in Supervisors, sup[t].ep = e, Live(t) PROVE FALSE
    <3>1. task[e] # t
        BY <2>1, <2>2, HubAssumption DEF HubInv, TaskInv
    <3>2. \A c \in Callbacks : ~WaitsFor(c, t)
      <4> SUFFICES ASSUME NEW c \in Callbacks, WaitsFor(c, t) PROVE FALSE
          OBVIOUS
      <4>1. cb[c].on \in Tcp
          BY DEF HubInv, CallbackInv, WaitsFor
      <4>2. cb[c].on = e
          BY <2>2 DEF HubInv, WaitInv
      <4> QED BY <2>1, <4>1, <4>2
    <3>3. quiesce.waits # t
        BY <2>2 DEF HubInv, WaitInv
    <3> QED BY <2>2, <3>1, <3>2, <3>3 DEF HubInv, OwnedInv
  <2> QED BY <2>1, <2>2
<1> QED BY <1>1, HubInvariant, PTL

\* _add_supervisor, _remove_endpoint, quiesce_endpoint, close: whatever lapses there were, a
\* supervisor at work is in the table or told to end, and a closed hub has none at work and
\* no session registered.
THEOREM HubSeesAll == Spec => []NoneRunsUnseen
<1>1. HubInv => ClosedIsQuiet
  <2> SUFFICES ASSUME HubInv, phase = "closed"
               PROVE  (\A t \in Supervisors : ~Live(t)) /\ \A d \in Devices : devices[d] = None
      BY DEF ClosedIsQuiet
  <2>1. ASSUME NEW t \in Supervisors, Live(t) PROVE FALSE
    <3>1. sup[t].ep \in Endpoints
        BY <2>1, SupFields DEF HubInv, TypeOK, SupInv
    <3>2. task[sup[t].ep] # t
        BY <3>1, HubAssumption DEF HubInv, TaskInv
    <3>3. \A c \in Callbacks : ~WaitsFor(c, t)
        BY DEF HubInv, PhaseInv, Idle, WaitsFor
    <3>4. quiesce.waits # t
        BY HubAssumption DEF HubInv, PhaseInv, NoQuiesce
    <3> QED BY <2>1, <3>2, <3>3, <3>4 DEF HubInv, OwnedInv
  <2>2. ASSUME NEW d \in Devices, devices[d] # None PROVE FALSE
    <3>1. devices[d] \in Supervisors
        BY <2>2 DEF HubInv, TypeOK, TablesType
    <3>2. Live(devices[d])
        BY <2>2 DEF HubInv, RegistryInv, Live, Ended
    <3> QED BY <2>1, <3>1, <3>2
  <2> QED BY <2>1, <2>2
<1>2. HubInv => NoneIsLost
    BY DEF HubInv, OwnedInv, WaitInv, NoneIsLost
<1>3. HubInv => NoneRunsUnseen
    BY <1>1, <1>2 DEF NoneRunsUnseen
<1> QED BY <1>3, HubInvariant, PTL
=============================================================================

---------------------------- MODULE HostSession ----------------------------
(***************************************************************************)
(* The gateway's DeviceSession (session.py) against the session of the     *)
(* device (esp_iris.c), over one link: handshake, reopening, pairing, the  *)
(* correlation of answers and the end of a session.  Sequence numbers and  *)
(* the streams that flow to the host are in module StreamFlow.             *)
(*                                                                         *)
(* A USB Serial/JTAG link ("jtag") outlives both of its ends: the device   *)
(* does not notice that the host went away and frames written for one      *)
(* DeviceSession are read by the next.  Any other link is gone with its    *)
(* host.  Frames keep their order; on a USB link up to MaxLoss of them     *)
(* fail their CRC and are dropped by a decoder.  Only TCP is paired.       *)
(***************************************************************************)
EXTENDS Integers, Sequences, FiniteSets

CONSTANTS
    Clients,      \* tasks that call the session
    Clock,        \* the one of them that runs _clock_loop
    None,
    Transports,   \* kinds of link: "jtag", "cdc", "tcp"
    Pairings,     \* "none": no pairing; "good", "bad": the token of the host
    ReqMod,       \* request ids are counted modulo ReqMod (2^32)
    FirstId,      \* where the request ids of the modelled sessions start
    MaxGen,       \* bound: DeviceSession objects of the host
    MaxSid,       \* bound: sessions of the device
    MaxRequests,  \* bound: requests
    MaxLoss,      \* bound: lost frames
    MaxBoot,      \* bound: boots of the device
    MaxWire       \* bound: frames in one direction, and HELLO exchanges in progress

ASSUME SessionAssumption ==
    /\ Clock \in Clients
    /\ None \notin Clients \cup Int
    /\ Transports \subseteq {"jtag", "cdc", "tcp"}
    /\ {"none"} \subseteq Pairings /\ Pairings \subseteq {"none", "good", "bad"}
    /\ ReqMod \in Nat /\ MaxRequests < ReqMod
    /\ FirstId \in 0 .. (ReqMod - 1)
    /\ {MaxGen, MaxSid, MaxRequests, MaxLoss, MaxBoot, MaxWire} \subseteq Nat

VARIABLES
    \* DeviceSession
    state,     \* SessionState
    info,      \* session and boot of the last HELLO, 0 before the first
    asked,     \* _reopen_requested
    reopening, \* _reopen_session_id, 0 for None
    ready,     \* _ready_announced and _ready
    lastId,    \* _request_id
    lock,      \* holder of _request_lock
    call,      \* each client's call and its future
    \* the device
    sid, boot,
    acked,     \* hello_acked
    slot,      \* the request in the executor
    \* the link
    h2d, d2h, eof, lost,
    transport, pairing,
    issued,    \* requests so far: the identity of a request
    gen,       \* the DeviceSession object that runs
    owner      \* the first object that listened to each session of the device, or 0

host == <<state, info, asked, reopening, ready, lastId, owner>>
tasks == <<lock, call, issued>>
device == <<sid, boot, acked, slot>>
link == <<h2d, d2h, eof, lost>>
setup == <<transport, pairing>>
vars == <<host, tasks, device, link, setup, gen>>

Idle == [at |-> "idle", mutates |-> FALSE, id |-> 0, ask |-> 0, future |-> None]
Jtag == transport = "jtag"
NoInfo == [sid |-> 0, boot |-> 0]
NoSlot == [id |-> 0, ask |-> 0]
Closed == -1     \* ConnectionError
Refused == -2    \* the device answered ERROR

-----------------------------------------------------------------------------
(* Frames. *)

\* _next_request_id(): 0 means "no request".
NextId == IF (lastId + 1) % ReqMod = 0 THEN 1 ELSE (lastId + 1) % ReqMod

HostFrame(type, new, id, ask, mutates) ==
    [type |-> type, sid |-> info.sid, new |-> new, id |-> id, ask |-> ask, mutates |-> mutates]

\* queue_frame()
DeviceFrame(type, id, ask) ==
    [type |-> type, sid |-> sid, boot |-> boot, id |-> id, ask |-> ask]

Count(q, type) == Cardinality({i \in DOMAIN q : q[i].type = type})
Room(q) == Len(q) < MaxWire
Without(q, i) == [j \in 1 .. Len(q) - 1 |-> IF j < i THEN q[j] ELSE q[j + 1]]

-----------------------------------------------------------------------------
(* The host: lifecycle *)

FreshHost ==
    /\ state = "NEGOTIATING" /\ info = NoInfo /\ asked = FALSE /\ reopening = 0
    /\ ready = FALSE /\ lastId = FirstId

Init ==
    /\ FreshHost
    /\ lock = None /\ call = [c \in Clients |-> Idle] /\ issued = 0
    /\ sid = 1 /\ boot = 1 /\ acked = FALSE
    /\ slot = NoSlot /\ owner = [s \in 1 .. MaxSid |-> 0]
    /\ h2d = <<>> /\ d2h = <<>> /\ eof = FALSE /\ lost = 0
    /\ transport \in Transports /\ gen = 1
    /\ pairing \in IF transport = "tcp" THEN Pairings ELSE {"none"}

\* _fail_pending(): a future that is done keeps its result.
Failed(r) == IF r.at = "sent" /\ r.future = None THEN [r EXCEPT !.future = Closed] ELSE r

\* run() ends, by EOF, by an exception of a handler or because close() was called:
\* the clock task is cancelled.
Ends ==
    /\ state' = "CLOSED"
    /\ call' = [c \in Clients |-> IF c = Clock THEN Idle ELSE Failed(call[c])]
    /\ UNCHANGED <<info, asked, reopening, ready, lastId, owner, lock, issued>>

\* The read of a closed link, or close() by the hub.
Close ==
    /\ state # "CLOSED"
    /\ Ends
    /\ UNCHANGED <<device, link, setup, gen>>

\* begin_session() after end_session().
NewSession ==
    /\ sid < MaxSid
    /\ sid' = sid + 1
    /\ acked' = FALSE
    /\ slot' = NoSlot

\* The hub's supervisor opens the link again.  The calls of the old object are over.
Reconnect ==
    /\ state = "CLOSED" /\ gen < MaxGen
    /\ \A c \in Clients : call[c] = Idle
    /\ gen' = gen + 1
    /\ state' = "NEGOTIATING" /\ info' = NoInfo /\ asked' = FALSE /\ reopening' = 0
    /\ ready' = FALSE /\ lastId' = FirstId
    /\ eof' = FALSE /\ UNCHANGED owner
    /\ IF Jtag
       THEN UNCHANGED <<device, h2d, d2h>>
       ELSE /\ NewSession
            /\ h2d' = <<>> /\ d2h' = <<>> /\ UNCHANGED boot
    /\ UNCHANGED <<tasks, lost, setup>>

-----------------------------------------------------------------------------
(* The host: handshake *)

\* Mutant: any HELLO after the request is taken for the new session.
MutReopened(f) == reopening # 0
\* A HELLO of another session than the one that was asked to end.
Reopened(f) == reopening # 0 /\ f.sid # reopening

\* Mutant: only the session is compared.
MutSameDevice(f) == TRUE
\* The boot of a HELLO that answers a reopen request (there is one device).
SameDevice(f) == info.boot = f.boot

\* Mutant: every HELLO is answered by the request for another session.
MutStill(f) == f.sid
\* _reopen_session_id after a HELLO: a session is asked to end once.
Still(f) == IF ~asked THEN f.sid ELSE IF Reopened(f) THEN 0 ELSE reopening

\* _complete_ready() and on_ready(), which the hub may refuse by an exception.
CompleteReady(ok) ==
    IF ready \/ ok
    THEN /\ ready' = TRUE
         /\ state' = "READY"
         /\ UNCHANGED <<call, lock, issued>>
    ELSE /\ ready' = FALSE
         /\ state' = "CLOSED"
         /\ call' = [c \in Clients |-> IF c = Clock THEN Idle ELSE Failed(call[c])]
         /\ UNCHANGED <<lock, issued>>

\* _handle_hello(): f is the frame.  Identities that changed are protocol errors.
HandleHello(f, ok) ==
    IF \/ Reopened(f) /\ ~SameDevice(f)
       \/ ~Reopened(f) /\ info # NoInfo /\ info.sid # f.sid
    THEN Ends /\ UNCHANGED h2d
    ELSE /\ info' = [sid |-> f.sid, boot |-> f.boot]
         /\ asked' = TRUE
         /\ reopening' = Still(f)
         /\ owner' = IF Still(f) = 0 /\ owner[f.sid] = 0 THEN [owner EXCEPT ![f.sid] = gen] ELSE owner
         /\ h2d' = Append(h2d, [HostFrame("HELLO_ACK", Still(f) # 0, 0, 0, FALSE)
                                  EXCEPT !.sid = f.sid])
         /\ UNCHANGED lastId
         /\ IF pairing = "none" /\ Still(f) = 0
            THEN CompleteReady(ok)
            ELSE UNCHANGED <<state, ready, tasks>>

\* The tests of _handle_frame() that every other frame passes.
Passes(f) == reopening = 0 /\ info # NoInfo /\ f.sid = info.sid

\* A result for the pending future of f's request.
Answered(f) ==
    [c \in Clients |->
        IF call[c].at = "sent" /\ call[c].id = f.id /\ call[c].future = None
        THEN [call[c] EXCEPT !.future = IF f.type = "ERROR" THEN Refused ELSE f.ask]
        ELSE call[c]]

\* _handle_frame() for one frame that run() has read.
HandleFrame(ok) ==
    /\ state # "CLOSED" /\ ~eof
    /\ d2h # <<>>
    /\ d2h' = Tail(d2h)
    /\ LET f == Head(d2h) IN
       \/ /\ f.type = "HELLO"
          /\ HandleHello(f, ok)
       \/ /\ f.type # "HELLO" /\ ~Passes(f)
          /\ ok
          /\ UNCHANGED <<host, tasks, h2d>>
       \/ /\ f.type # "HELLO" /\ Passes(f)
          /\ UNCHANGED <<info, asked, reopening, lastId, owner, h2d>>
          /\ IF f.type = "AUTH_RESULT"
             THEN CompleteReady(ok /\ f.ask = 1)
             ELSE /\ ok
                  /\ call' = IF f.id # 0 THEN Answered(f) ELSE call
                  /\ UNCHANGED <<state, ready, lock, issued>>
    /\ UNCHANGED <<device, eof, lost, setup, gen>>

-----------------------------------------------------------------------------
(* The host: requests *)

\* status(), ping, sync_clock() and the other probes go around the lock.
Submit(c, mutates) ==
    /\ call[c].at = "idle" /\ issued < MaxRequests
    /\ c = Clock => ready /\ state = "READY" /\ ~mutates
    /\ issued' = issued + 1
    /\ call' = [call EXCEPT ![c] = [Idle EXCEPT !.at = IF mutates THEN "lock" ELSE "wait",
                                                !.mutates = mutates, !.ask = issued + 1]]
    /\ UNCHANGED <<host, lock, device, link, setup, gen>>

TakeLock(c) ==
    /\ call[c].at = "lock" /\ lock = None
    /\ lock' = c
    /\ call' = [call EXCEPT ![c].at = "wait"]
    /\ UNCHANGED <<host, issued, device, link, setup, gen>>

Unlocked(c) == IF lock = c THEN None ELSE lock

\* The call returns or raises; the clock task closes its link when its probe failed.
Return(c, failed) ==
    /\ call' = [call EXCEPT ![c] = Idle]
    /\ lock' = Unlocked(c)
    /\ eof' = (eof \/ (c = Clock /\ failed /\ ~Jtag))
    /\ UNCHANGED <<host, issued, device, h2d, d2h, lost, setup, gen>>

\* wait_ready() gives up, or finds a session that was closed.
NotReady(c) ==
    /\ call[c].at = "wait"
    /\ ~ready \/ state = "CLOSED"
    /\ Return(c, TRUE)

\* _request_unlocked() after wait_ready(), up to the wait for the answer.
Send(c) ==
    /\ call[c].at = "wait" /\ ready /\ state # "CLOSED"
    /\ Room(h2d)
    /\ lastId' = NextId
    /\ call' = [call EXCEPT ![c] = [@ EXCEPT !.at = "sent", !.id = NextId]]
    /\ h2d' = Append(h2d, HostFrame("REQUEST", FALSE, NextId, call[c].ask, call[c].mutates))
    /\ UNCHANGED <<state, info, asked, reopening, ready, owner, lock, issued,
                   device, d2h, eof, lost, setup, gen>>

\* The link does not take the frame.
SendFails(c) ==
    /\ call[c].at = "wait" /\ ready /\ state # "CLOSED" /\ eof
    /\ Return(c, TRUE)

Resume(c) ==
    /\ call[c].at = "sent" /\ call[c].future # None
    /\ Return(c, call[c].future \in {Closed, Refused})

Timeout(c) ==
    /\ call[c].at = "sent" /\ call[c].future = None
    /\ Return(c, TRUE)

-----------------------------------------------------------------------------
(* The device *)

\* Frames leave the single TX slot in the order in which they were queued.
Queue(type, id, ask) == d2h' = Append(d2h, DeviceFrame(type, id, ask))

\* pump_link(): HELLO until it is acknowledged, on Serial/JTAG for ever.
SendHello ==
    /\ ~acked \/ Jtag
    /\ ~eof /\ Room(d2h)
    /\ Count(d2h, "HELLO") + Count(h2d, "HELLO_ACK") < MaxWire
    /\ Queue("HELLO", 0, 0)
    /\ UNCHANGED <<host, tasks, sid, boot, acked, slot, h2d, eof, lost, setup, gen>>

\* A HELLO_ACK that asks for a new session: proof first, then end, begin and HELLO.
Reopen(f) ==
    IF pairing = "bad"
    THEN Queue("ERROR", 0, 0) /\ UNCHANGED <<sid, acked, slot>>
    ELSE /\ NewSession
         /\ d2h' = Append(d2h, [DeviceFrame("HELLO", 0, 0) EXCEPT !.sid = sid + 1])

Acknowledge(f) ==
    /\ acked' = (acked \/ pairing # "bad")
    /\ IF acked \/ pairing = "none"
       THEN UNCHANGED d2h
       ELSE Queue("AUTH_RESULT", 0, IF pairing = "good" THEN 1 ELSE 0)
    /\ UNCHANGED <<sid, slot>>

\* A probe is answered at once; other requests go to the executor, which is busy or not.
Serve(f) ==
    /\ IF f.mutates /\ slot = NoSlot
       THEN slot' = [id |-> f.id, ask |-> f.ask] /\ UNCHANGED d2h
       ELSE /\ Queue(IF f.mutates THEN "ERROR" ELSE "RESPONSE", f.id, f.ask)
            /\ UNCHANGED slot
    /\ UNCHANGED <<sid, acked>>

\* handle_frame(): the frames that the device looks at.
ForDevice(f) ==
    /\ f.sid = sid
    /\ f.type = "HELLO_ACK" \/ acked

DeviceReceives ==
    /\ h2d # <<>> /\ Room(d2h)
    /\ h2d' = Tail(h2d)
    /\ LET f == Head(h2d) IN
       IF ForDevice(f)
       THEN \/ f.type = "HELLO_ACK" /\ f.new /\ Reopen(f)
            \/ f.type = "HELLO_ACK" /\ ~f.new /\ Acknowledge(f)
            \/ f.type = "REQUEST" /\ Serve(f)
       ELSE UNCHANGED <<sid, acked, slot, d2h>>
    /\ UNCHANGED <<host, tasks, boot, eof, lost, setup, gen>>

\* executor_queue_next()
Complete ==
    /\ slot # NoSlot /\ Room(d2h)
    /\ Queue("RESPONSE", slot.id, slot.ask)
    /\ slot' = NoSlot
    /\ UNCHANGED <<host, tasks, sid, boot, acked, h2d, eof, lost, setup, gen>>

\* A reset; what is on a Serial/JTAG link stays there, any other link breaks.
Reboot ==
    /\ boot < MaxBoot
    /\ boot' = boot + 1
    /\ NewSession
    /\ eof' = (eof \/ ~Jtag)
    /\ UNCHANGED <<host, tasks, h2d, d2h, lost, setup, gen>>

\* A frame that fails its CRC.
Lose ==
    /\ transport # "tcp" /\ lost < MaxLoss
    /\ lost' = lost + 1
    /\ \/ \E i \in DOMAIN h2d : h2d' = Without(h2d, i) /\ UNCHANGED d2h
       \/ \E i \in DOMAIN d2h : d2h' = Without(d2h, i) /\ UNCHANGED h2d
    /\ UNCHANGED <<host, tasks, device, eof, setup, gen>>

-----------------------------------------------------------------------------
HostStep == Close \/ Reconnect \/ \E ok \in BOOLEAN : HandleFrame(ok)

CallStep(c) ==
    \/ TakeLock(c) \/ NotReady(c) \/ Send(c) \/ SendFails(c) \/ Resume(c) \/ Timeout(c)

DeviceStep == SendHello \/ DeviceReceives \/ Complete

Next ==
    \/ HostStep
    \/ \E c \in Clients : CallStep(c) \/ \E mutates \in BOOLEAN : Submit(c, mutates)
    \/ DeviceStep
    \/ Reboot
    \/ Lose

Spec == Init /\ [][Next]_vars

\* The read loop, the timeouts of wait_for() and the device's worker go on; a reboot, a loss,
\* a new request, a close by the hub and a refusal by on_ready() need not happen.
Fairness ==
    /\ WF_vars(HandleFrame(TRUE))
    /\ WF_vars(eof /\ Close)
    /\ WF_vars(SendHello)
    /\ WF_vars(DeviceReceives)
    /\ WF_vars(Complete)
    /\ \A c \in Clients :
          /\ SF_vars(TakeLock(c))
          /\ SF_vars(NotReady(c) \/ Send(c) \/ SendFails(c) \/ Resume(c) \/ Timeout(c))

FairSpec == Spec /\ Fairness

-----------------------------------------------------------------------------
(* Properties *)

Frames(q, S) == \A i \in DOMAIN q : q[i] \in S
HostFrames ==
    [type : {"HELLO_ACK", "REQUEST"}, sid : 0 .. MaxSid, new : BOOLEAN,
     id : 0 .. ReqMod - 1, ask : 0 .. MaxRequests, mutates : BOOLEAN]
DeviceFrames ==
    [type : {"HELLO", "AUTH_RESULT", "RESPONSE", "ERROR"},
     sid : 1 .. MaxSid, boot : 1 .. MaxBoot,
     id : 0 .. ReqMod - 1, ask : 0 .. MaxRequests]

\* Type invariant of the session object, its calls, the device's session and the link
\* (_next_request_id: ids stay in their width).
TypeOK ==
    /\ state \in {"NEGOTIATING", "READY", "CLOSED"}
    /\ info \in [sid : 0 .. MaxSid, boot : 0 .. MaxBoot]
    /\ asked \in BOOLEAN /\ ready \in BOOLEAN /\ acked \in BOOLEAN /\ eof \in BOOLEAN
    /\ reopening \in 0 .. MaxSid
    /\ lastId \in 0 .. ReqMod - 1
    /\ lock \in Clients \cup {None}
    /\ call \in [Clients -> [at : {"idle", "lock", "wait", "sent"}, mutates : BOOLEAN,
                             id : 0 .. ReqMod - 1, ask : 0 .. MaxRequests,
                             future : 0 .. MaxRequests \cup {None, Closed, Refused}]]
    /\ sid \in 1 .. MaxSid /\ boot \in 1 .. MaxBoot
    /\ slot \in [id : 0 .. ReqMod - 1, ask : 0 .. MaxRequests]
    /\ h2d \in Seq(HostFrames) /\ d2h \in Seq(DeviceFrames)
    /\ lost \in 0 .. MaxLoss /\ issued \in 0 .. MaxRequests /\ gen \in 1 .. MaxGen
    /\ transport \in Transports /\ pairing \in Pairings
    /\ owner \in [1 .. MaxSid -> 0 .. MaxGen]

\* _handle_frame, _request_unlocked: a request is answered by the answer to it: not by one
\* that an earlier object of the host asked for with the same id, and not by one that came
\* after its timeout.
AnswerIsMine ==
    \A c \in Clients :
        call[c].future \notin {None, Closed, Refused} => call[c].future = call[c].ask

\* _handle_hello, _handle_frame: once a DeviceSession listens to more than HELLO, it
\* listens to a session of the device that no other object ever listened to: nothing meant
\* for an earlier one is heard.
ListensToItsOwn ==
    (state # "CLOSED" /\ info # NoInfo /\ reopening = 0) => owner[info.sid] = gen

\* close: a closed session leaves no future behind that nobody will ever complete.
ClosedFailsAll ==
    state = "CLOSED" => \A c \in Clients : call[c].at = "sent" => call[c].future # None

\* _handle_frame, _handle_hello, _fail_pending: whatever is lost, late or left over from an
\* earlier object, a request gets its own answer or none, and the state stays well formed.
AnswersAreSound == TypeOK /\ AnswerIsMine /\ ListensToItsOwn /\ ClosedFailsAll

\* _handle_hello: a session speaks to one boot of the device: a device that restarts under
\* a live link, also between the request for a new session and its HELLO, ends the session.
OneBoot ==
    [][(gen' = gen /\ info # NoInfo) => info'.boot = info.boot]_vars

\* _request, _request_unlocked (wait_for, the request lock): every call returns, also when its
\* answer is lost or the session closes under it.
CallsReturn == \A c \in Clients : call[c].at # "idle" ~> call[c].at = "idle"

\* run, _handle_hello: the handshake ends: with the right token, a session is ready or
\* over, whatever is lost.
HandshakeEnds ==
    (state = "NEGOTIATING" /\ pairing # "bad" /\ sid + 1 < MaxSid) ~> (state # "NEGOTIATING")

\* _request, run: nobody waits for ever, neither for an answer nor for the session.
NobodyWaits == CallsReturn /\ HandshakeEnds
=============================================================================

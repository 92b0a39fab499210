----------------------------- MODULE StreamFlow -----------------------------
(***************************************************************************)
(* One stream of frames from the device to the gateway inside a session:   *)
(* the log, or the screen that a mirror or a screenshot asks for.          *)
(* session.py and esp_iris.c number the frames of a channel and count its  *)
(* credit; hub.py starts, reuses and stops the mirror and puts the tiles   *)
(* of a screenshot together.                                               *)
(*                                                                         *)
(* The link keeps the order of frames and may lose MaxLoss of them.  A     *)
(* tile, a log record and their credit are one unit.  Requests of one      *)
(* media channel are serialised by the hub's lock: "call" is the holder.   *)
(***************************************************************************)
EXTENDS Integers, Sequences, FiniteSets

CONSTANTS
    None,
    Kinds,      \* "log", "screen"
    Tiles,      \* tiles of a screen
    Grant,      \* LOG_CREDIT_GRANT, 128 KiB for media
    Low,        \* LOG_CREDIT_LOW_WATER, 64 KiB for media
    QueueSize,  \* tiles that a subscriber's queue holds
    SeqMod,     \* sequence numbers are counted modulo SeqMod (2^32)
    MaxCalls,   \* bound: requests of the host
    MaxData,    \* bound: tiles or records that the device sends
    MaxLoss,    \* bound: lost frames
    MaxWire     \* bound: frames in one direction

ASSUME StreamAssumption ==
    /\ None \notin Int
    /\ Kinds \subseteq {"log", "screen"}
    /\ {Tiles, Grant, Low, QueueSize, SeqMod, MaxCalls, MaxData, MaxWire} \subseteq Nat \ {0}
    /\ MaxLoss \in Nat
    /\ Low <= Grant
    /\ 2 * (MaxLoss + 1) < SeqMod

VARIABLES
    kind,
    \* the device's slot of the channel
    active, stream, dcredit, frame, tile, dseq,
    \* the link
    h2d, d2h, lost, sent,
    \* DeviceSession
    hcredit,   \* _log_credit or _media_credit
    lastRx,    \* _last_rx_sequence
    lastId,    \* _request_id
    \* IrisHub
    mirror,    \* _mirror_states: the stream, or 0
    call,      \* the holder of _media_locks
    queue,     \* the subscriber of a screenshot
    image      \* tiles of the frame that is put together

device == <<active, stream, dcredit, frame, tile, dseq>>
hub == <<mirror, call, queue, image>>
vars == <<kind, device, h2d, d2h, lost, sent, hcredit, lastRx, lastId, hub>>

\* A call: who asks, what it waits for, the id of its request, the answer, and for a
\* screenshot the stream it takes and whether it has started it.
Idle == [who |-> "none", at |-> "idle", id |-> 0, got |-> None, stream |-> 0, temporary |-> FALSE]
NoImage == [frame |-> None, tiles |-> <<>>]

-----------------------------------------------------------------------------
(* Sequence numbers and the link. *)

Following(n) == (n + 1) % SeqMod

\* _accept_sequence() and the same test of the device: serial arithmetic.
Fresh(last, n) ==
    last # None =>
        LET distance == (n - last) % SeqMod IN distance # 0 /\ 2 * distance < SeqMod

Room(q) == Len(q) < MaxWire
Without(q, i) == [j \in 1 .. Len(q) - 1 |-> IF j < i THEN q[j] ELSE q[j + 1]]

\* _send() of a request or a grant.  The device answers what it got in order, so the host's
\* own numbers are not followed here.
Send(type, id) == h2d' = Append(h2d, [type |-> type, id |-> id])

\* queue_frame() on the channel of the stream.
Queue(type, id, s, f, t) ==
    /\ d2h' = Append(d2h, [type |-> type, id |-> id, stream |-> s, frame |-> f, tile |-> t,
                           seq |-> Following(dseq)])
    /\ dseq' = Following(dseq)

\* A log is granted credit by _complete_ready(), a screen when it is mirrored.
Init ==
    /\ kind \in Kinds
    /\ active = (kind = "log") /\ stream = 0 /\ dcredit = 0
    /\ frame = 1 /\ tile = 1 /\ dseq = 0
    /\ h2d = IF kind = "log" THEN <<[type |-> "CREDIT", id |-> 0]>> ELSE <<>>
    /\ d2h = <<>> /\ lost = 0 /\ sent = 0
    /\ hcredit = IF kind = "log" THEN Grant ELSE 0
    /\ lastRx = None /\ lastId = 0
    /\ mirror = 0 /\ call = Idle /\ queue = <<>> /\ image = NoImage

-----------------------------------------------------------------------------
(* The device *)

\* handle_media() of MIRROR_START: a running mirror is refused, on the CONTROL channel.
Start(f) ==
    IF active
    THEN /\ d2h' = Append(d2h, [type |-> "ERROR", id |-> f.id, stream |-> 0, frame |-> 0,
                                tile |-> 0, seq |-> None])
         /\ UNCHANGED device
    ELSE /\ active' = TRUE /\ stream' = f.id /\ dcredit' = 0
         /\ frame' = 1 /\ tile' = 1
         /\ Queue("MIRROR_STATE", f.id, f.id, 0, 0)

\* MIRROR_STOP and release_media_buffer()
Stop(f) ==
    /\ active' = FALSE /\ stream' = 0 /\ dcredit' = 0
    /\ Queue("MIRROR_STATE", f.id, 0, 0, 0)
    /\ UNCHANGED <<frame, tile>>

DeviceReceives ==
    /\ h2d # <<>> /\ Room(d2h)
    /\ h2d' = Tail(h2d)
    /\ LET f == Head(h2d) IN
       \/ f.type = "MIRROR_START" /\ Start(f)
       \/ f.type = "MIRROR_STOP" /\ Stop(f)
       \/ /\ f.type = "CREDIT"
          /\ dcredit' = dcredit + Grant
          /\ UNCHANGED <<active, stream, frame, tile, dseq, d2h>>
    /\ UNCHANGED <<kind, lost, sent, hcredit, lastRx, lastId, hub>>

\* queue_next_log(), prepare_pull_screen() and queue_media()
SendData ==
    /\ active /\ dcredit > 0 /\ sent < MaxData /\ Room(d2h)
    /\ sent' = sent + 1
    /\ dcredit' = dcredit - 1
    /\ Queue("DATA", 0, stream, frame, tile)
    /\ tile' = IF tile = Tiles THEN 1 ELSE tile + 1
    /\ frame' = IF tile = Tiles THEN frame + 1 ELSE frame
    /\ UNCHANGED <<kind, active, stream, h2d, lost, hcredit, lastRx, lastId, hub>>

Lose ==
    /\ lost < MaxLoss
    /\ lost' = lost + 1
    /\ \/ \E i \in DOMAIN h2d : h2d' = Without(h2d, i) /\ UNCHANGED d2h
       \/ \E i \in DOMAIN d2h : d2h' = Without(d2h, i) /\ UNCHANGED h2d
    /\ UNCHANGED <<kind, device, sent, hcredit, lastRx, lastId, hub>>

-----------------------------------------------------------------------------
(* The session: frames of the device *)

\* The tests of _handle_log() and _handle_media() after a record.
TooLow(c) == c < Low

\* Mutant: a grant is sent and not counted.
MutGranted(c) == c
\* _grant_log_credit() and _grant_media_credit()
Granted(c) == c + Grant

\* _on_media(): a full queue loses its oldest tile.
Published(f) ==
    IF call.who # "shot" THEN queue
    ELSE Append(IF Len(queue) = QueueSize THEN Tail(queue) ELSE queue, f)

\* A record uses up credit, and more is granted when too little is left.
UseCredit ==
    LET left == IF hcredit > 0 THEN hcredit - 1 ELSE 0
    IN /\ hcredit' = IF TooLow(left) THEN Granted(left) ELSE left
       /\ IF TooLow(left) THEN Send("CREDIT", 0) ELSE UNCHANGED h2d

HandleLog == UseCredit /\ UNCHANGED <<queue, call>>
HandleMedia(f) == UseCredit /\ queue' = Published(f) /\ UNCHANGED call

\* A future that is pending gets the answer.
HandleAnswer(f) ==
    /\ call' = IF call.id = f.id /\ call.got = None
               THEN [call EXCEPT !.got = f]
               ELSE call
    /\ UNCHANGED <<hcredit, h2d, queue>>

HostReceives ==
    /\ d2h # <<>>
    /\ d2h' = Tail(d2h)
    /\ LET f == Head(d2h)
           fresh == f.seq = None \/ Fresh(lastRx, f.seq)
       IN /\ lastRx' = IF fresh /\ f.seq # None THEN f.seq ELSE lastRx
          /\ IF fresh
             THEN CASE f.type # "DATA" -> HandleAnswer(f)
                    [] f.type = "DATA" /\ kind = "log" -> HandleLog
                    [] OTHER -> HandleMedia(f)
             ELSE UNCHANGED <<hcredit, h2d, call, queue>>
    /\ UNCHANGED <<kind, device, lost, sent, lastId, mirror, image>>

-----------------------------------------------------------------------------
(* The hub: mirrors and screenshots *)

\* _request() of this channel, for w.
Request(type, w, s, t) ==
    /\ lastId < MaxCalls
    /\ lastId' = lastId + 1
    /\ call' = [who |-> w, at |-> type, id |-> lastId + 1, got |-> None, stream |-> s, temporary |-> t]
    /\ Send(type, lastId + 1)

Same == UNCHANGED <<kind, device, d2h, lost, sent, lastRx>>

\* mirror_start() when there is none; otherwise the state of the mirror is returned.
MirrorStart ==
    /\ kind = "screen" /\ call = Idle /\ mirror = 0
    /\ Request("MIRROR_START", "mirror", 0, FALSE)
    /\ Same /\ UNCHANGED <<hcredit, mirror, queue, image>>

MirrorStop ==
    /\ kind = "screen" /\ call = Idle
    /\ Request("MIRROR_STOP", "mirror", 0, FALSE)
    /\ Same /\ UNCHANGED <<hcredit, mirror, queue, image>>

\* screenshot(): subscribes, then starts a mirror or takes the one there is.
Screenshot ==
    /\ kind = "screen" /\ call = Idle /\ lastId + 1 < MaxCalls
    /\ IF mirror = 0
       THEN Request("MIRROR_START", "shot", 0, FALSE)
       ELSE /\ call' = [Idle EXCEPT !.who = "shot", !.at = "receive", !.stream = mirror]
            /\ UNCHANGED <<lastId, h2d>>
    /\ queue' = <<>> /\ image' = NoImage
    /\ Same /\ UNCHANGED <<hcredit, mirror>>

\* Mutant: a stopped mirror keeps its credit.
MutStoppedCredit == hcredit
\* mirror_stop() of the session.
StoppedCredit == 0

\* The answer to MIRROR_START: a grant, and the hub remembers the stream.
Started ==
    /\ call.at = "MIRROR_START" /\ call.got # None /\ call.got.type = "MIRROR_STATE"
    /\ mirror' = call.got.stream
    /\ hcredit' = Granted(hcredit)
    /\ Send("CREDIT", 0)
    /\ call' = IF call.who = "mirror" THEN Idle
               ELSE [Idle EXCEPT !.who = "shot", !.at = "receive", !.stream = call.got.stream,
                                 !.temporary = TRUE]
    /\ Same /\ UNCHANGED <<lastId, queue, image>>

Stopped ==
    /\ call.at = "MIRROR_STOP" /\ call.got # None
    /\ hcredit' = StoppedCredit
    /\ mirror' = 0
    /\ call' = Idle
    /\ Same /\ UNCHANGED <<h2d, lastId, queue, image>>

\* The request fails, or its time is over.
GivesUp == call.got # None => call.got.type = "ERROR"

\* An error answer or a timeout: the exception leaves the hub's tables as they are.
CallFails ==
    /\ call.at \in {"MIRROR_START", "MIRROR_STOP"}
    /\ GivesUp
    /\ call' = Idle
    /\ Same /\ UNCHANGED <<hcredit, h2d, lastId, mirror, queue, image>>

\* Mutant: the number of the frame is not compared.
MutJoins(f, begun) == f.tile = Len(begun.tiles) + 1
\* The tile continues the frame that has begun.
Joins(f, begun) == begun.frame = f.frame /\ f.tile = Len(begun.tiles) + 1

\* What _next_complete_screen_frame() has after one more tile.
Assembled(f) ==
    LET begun == IF f.tile = 1 THEN [frame |-> f.frame, tiles |-> <<>>] ELSE image
    IN IF f.stream = call.stream /\ Joins(f, begun)
       THEN [begun EXCEPT !.tiles = Append(begun.tiles, <<f.stream, f.frame>>)]
       ELSE IF f.stream = call.stream THEN begun ELSE image

TakeTile ==
    /\ call.at = "receive" /\ Len(image.tiles) < Tiles
    /\ queue # <<>>
    /\ image' = Assembled(Head(queue))
    /\ queue' = Tail(queue)
    /\ Same /\ UNCHANGED <<hcredit, h2d, lastId, mirror, call>>

\* The frame is complete or the five seconds are over: a mirror of its own is stopped.
EndReceive ==
    /\ call.at = "receive"
    /\ IF call.temporary
       THEN Request("MIRROR_STOP", "shot", call.stream, TRUE)
       ELSE call' = Idle /\ UNCHANGED <<lastId, h2d>>
    /\ queue' = <<>>
    /\ Same /\ UNCHANGED <<hcredit, mirror, image>>

-----------------------------------------------------------------------------
Next ==
    \/ DeviceReceives \/ SendData \/ Lose \/ HostReceives
    \/ MirrorStart \/ MirrorStop \/ Screenshot
    \/ Started \/ Stopped \/ CallFails \/ TakeTile \/ EndReceive

Spec == Init /\ [][Next]_vars

\* Both ends go on, and a task whose answer is there resumes.
FairSpec ==
    /\ Spec
    /\ WF_vars(DeviceReceives) /\ WF_vars(SendData) /\ WF_vars(HostReceives)
    /\ WF_vars(Started \/ Stopped \/ CallFails) /\ WF_vars(EndReceive)

-----------------------------------------------------------------------------
(* Properties *)

Frame == [type : {"DATA", "MIRROR_STATE", "ERROR"}, id : 0 .. MaxCalls, stream : 0 .. MaxCalls,
          frame : 0 .. MaxData + 1, tile : 0 .. Tiles, seq : 0 .. SeqMod - 1 \cup {None}]

\* Type invariant; IrisHub._on_media keeps the subscriber's queue within its size.
TypeOK ==
    /\ kind \in Kinds /\ active \in BOOLEAN
    /\ stream \in 0 .. MaxCalls /\ mirror \in 0 .. MaxCalls /\ lastId \in 0 .. MaxCalls
    /\ dcredit \in Nat /\ hcredit \in Nat
    /\ frame \in 1 .. MaxData + 1 /\ tile \in 1 .. Tiles
    /\ dseq \in 0 .. SeqMod - 1 /\ lastRx \in 0 .. SeqMod - 1 \cup {None}
    /\ h2d \in Seq([type : {"MIRROR_START", "MIRROR_STOP", "CREDIT"}, id : 0 .. MaxCalls])
    /\ d2h \in Seq(Frame) /\ queue \in Seq(Frame) /\ Len(queue) <= QueueSize
    /\ lost \in 0 .. MaxLoss /\ sent \in 0 .. MaxData
    /\ call \in [who : {"none", "mirror", "shot"},
                 at : {"idle", "MIRROR_START", "receive", "MIRROR_STOP"}, id : 0 .. MaxCalls,
                 got : Frame \cup {None}, stream : 0 .. MaxCalls, temporary : BOOLEAN]
    /\ image \in [frame : 0 .. MaxData + 1 \cup {None},
                  tiles : Seq((0 .. MaxCalls) \X (0 .. MaxData + 1))]

InFlight(q, type) == Cardinality({i \in DOMAIN q : q[i].type = type})

\* _grant_media_credit, _handle_media: the device never has more credit, unused, on its way
\* or used by data on its way, than the host believes to have granted, so that the host's
\* count never falls below zero, over stops, starts, timeouts and losses.
CreditIsBacked ==
    kind = "log" \/ (mirror # 0 /\ stream = mirror) =>
        dcredit + InFlight(d2h, "DATA") + Grant * InFlight(h2d, "CREDIT") <= hcredit

\* _accept_sequence: the sequence window drops no frame, over the wrap of the counter,
\* while fewer than half of the numbers are lost.
WindowDropsNothing ==
    (d2h # <<>> /\ Head(d2h).seq # None) => Fresh(lastRx, Head(d2h).seq)

\* _grant_media_credit, _accept_sequence, _on_media: the flow control of the stream is sound:
\* no credit is invented, no good frame is dropped, and the queue keeps its size.
CreditIsSound == TypeOK /\ CreditIsBacked /\ WindowDropsNothing

\* screenshot: it shows one frame of the stream it asked for: tiles that were lost, or thrown
\* out of the full queue, do not join two frames.
NoTornFrame ==
    \A i, j \in DOMAIN image.tiles : image.tiles[i] = image.tiles[j]

\* mirror_start, mirror_stop, screenshot: a call of the hub ends, with an answer, an error
\* or a timeout.
CallsEnd == call # Idle ~> call = Idle

\* _handle_log, _handle_media: while no frame is lost, a log or a mirror that the hub knows
\* of is never left without credit: the device sends what it has; and no call of the hub
\* is left behind.
StreamFlows ==
    /\ (active /\ (kind = "log" \/ mirror = stream))
          ~> (sent = MaxData \/ ~active \/ mirror # stream \/ lost > 0)
    /\ CallsEnd
=============================================================================

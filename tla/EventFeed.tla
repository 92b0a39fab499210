------------------------------ MODULE EventFeed ------------------------------
(***************************************************************************)
(* The event feed of the gateway: GatewayService.on_device_event and       *)
(* _broadcast_system store an event and fan it out to the queues of the    *)
(* subscribers; event_socket replays the stored history from the client's  *)
(* cursor and then forwards its queue; event_history serves the same       *)
(* events once.  The workbench connects again from the highest id it has   *)
(* seen, "iris logs --follow" reads the history first and prints logs.     *)
(*                                                                         *)
(* A publication has no await in it and is one step.  The id of an event   *)
(* is its place in the table: rows of events are never deleted, so         *)
(* events_after never reports history_gap.  What the network holds when a  *)
(* connection breaks is lost with the queue and is not kept apart.         *)
(***************************************************************************)
EXTENDS Integers, Sequences, FiniteSets, FiniteSetsExt

CONSTANTS
    None,
    Devices,
    Workbench,    \* clients that follow every event and connect again
    Followers,    \* "iris logs --follow"
    Watched,      \* device_id of a client's query, or None
    Gap,          \* the item of kind history_gap, which has no event_id
    QueueSize,    \* asyncio.Queue(maxsize=1024)
    Limit,        \* limit=3000
    MaxEvents,    \* bound: stored events
    MaxBreaks     \* bound: lost connections and restarts of the gateway

Clients == Workbench \cup Followers
Categories == {"log", "operation", "system"}

ASSUME FeedAssumption ==
    /\ Workbench \cap Followers = {} /\ Clients \cap Int = {}
    /\ Watched \in [Clients -> Devices \cup {None}]
    /\ Gap \notin Int /\ None \notin Devices
    /\ {QueueSize, Limit, MaxEvents} \subseteq Nat \ {0} /\ MaxBreaks \in Nat

VARIABLES
    log,      \* table events: category and device
    alive,    \* devices whose _supervise task runs
    \* the connection of each client
    pc,
    queue,    \* its queue in _subscribers
    backlog,  \* rows of the history that are still to be sent
    last,     \* last_event_id
    \* the client
    cursor,
    got,
    orphans,  \* lengths of queues in _subscribers that no socket reads
    breaks,
    trouble   \* ghost: why a client may have missed an event

client == <<cursor, got>>
server == <<log, alive, orphans>>
vars == <<log, alive, pc, queue, backlog, last, cursor, got, orphans, breaks, trouble>>

-----------------------------------------------------------------------------
(* The store. *)

\* The device_id filter of a query.
Passes(c, i) == Watched[c] # None => log[i].device = Watched[c]
Rows(c, categories) == {i \in 1 .. Len(log) : log[i].category \in categories /\ Passes(c, i)}

Older(rows, i) == {j \in rows : j < i}
Newer(rows, i) == {j \in rows : j > i}

\* "ORDER BY event_id LIMIT ?" and "ORDER BY event_id DESC LIMIT ?".
Oldest(rows) == {i \in rows : Cardinality(Older(rows, i)) < Limit}
Newest(rows) == {i \in rows : Cardinality(Newer(rows, i)) < Limit}

events_after(c, after) == Oldest({i \in Rows(c, Categories) : i > after})
latest_events(c, categories) == Newest(Rows(c, categories))

\* Rows are sent and printed with the ids ascending.
Listings(rows) ==
    {s \in [1 .. Cardinality(rows) -> rows] :
        /\ \A i \in rows : \E n \in DOMAIN s : s[n] = i
        /\ \A m, n \in DOMAIN s : m < n => s[m] < s[n]}

\* next_cursor of the rows that follow a cursor.
NextCursor(rows, after) == IF rows = {} THEN after ELSE Max(rows)

\* The client keeps an item: the workbench every one, a follower what is a log.
Shown(c, item) == c \in Followers => item # Gap /\ log[item].category = "log"

Has(items, item) == \E n \in 1 .. Len(items) : items[n] = item

\* The ids of items ascend; the marker has none.
Ascending(items) ==
    \A m, n \in 1 .. Len(items) :
        m < n /\ Gap \notin {items[m], items[n]} => items[m] < items[n]

-----------------------------------------------------------------------------
(* Fan-out. *)

\* event_socket() subscribes before it prepares the connection and reads the history.
Subscribed == {c \in Clients : pc[c] \in {"opened", "replay", "live"}}
Full(c) == Len(queue[c]) >= QueueSize

\* Mutant: the oldest item makes room for the event, and nobody is told.
MutOverflow(c, id) == Append(Tail(queue[c]), id)
\* on_device_event() on a full queue: the oldest item makes room for the marker, which
\* fills the queue again, and the put of the event raises QueueFull.
Overflow(c, id) == Append(Tail(queue[c]), Gap)

\* on_device_event() after the row is stored.  Every queue has room and gets the event, or
\* the walk through the set of queues, in any order, ends at a full one: "served" come
\* before it, the others get nothing, and the caller gets the exception.
Delivers(id) ==
    /\ \A c \in Subscribed : ~Full(c)
    /\ \A o \in 1 .. Len(orphans) : orphans[o] < QueueSize
    /\ queue' = [c \in Clients |-> IF c \in Subscribed THEN Append(queue[c], id) ELSE queue[c]]
    /\ orphans' = [o \in 1 .. Len(orphans) |-> orphans[o] + 1]
    /\ UNCHANGED trouble

Raises(id) ==
    \E full \in {c \in Subscribed : Full(c)}
                    \cup {o \in 1 .. Len(orphans) : orphans[o] >= QueueSize},
       served \in SUBSET {c \in Subscribed : ~Full(c)},
       grown \in SUBSET {o \in 1 .. Len(orphans) : orphans[o] < QueueSize} :
        /\ queue' = [c \in Clients |-> IF c = full THEN Overflow(c, id)
                                      ELSE IF c \in served THEN Append(queue[c], id)
                                      ELSE queue[c]]
        /\ orphans' = [o \in 1 .. Len(orphans) |-> orphans[o] + IF o \in grown THEN 1 ELSE 0]
        /\ trouble' = [c \in Clients |->
                          trouble[c] \cup IF c = full THEN {"marked"}
                                         ELSE IF c \in Subscribed \ served THEN {"robbed"}
                                         ELSE {}]

Stored(category, device) ==
    /\ Len(log) < MaxEvents
    /\ log' = Append(log, [category |-> category, device |-> device])

\* A log record of a device; its other events reach clients as those of operations do, and
\* end the same task when they raise.  QueueFull is not among the exceptions that
\* _supervise() handles: its task ends and stays in _endpoint_tasks.
DeviceEvent(d) ==
    /\ alive[d]
    /\ Stored("log", d)
    /\ \/ Delivers(Len(log) + 1) /\ UNCHANGED alive
       \/ Raises(Len(log) + 1) /\ alive' = [alive EXCEPT ![d] = FALSE]
    /\ UNCHANGED <<pc, backlog, last, client, breaks>>

\* OperationManager._emit(): the exception ends the operation's task, not the device's.
OperationEvent(d) ==
    /\ Stored("operation", d)
    /\ (Delivers(Len(log) + 1) \/ Raises(Len(log) + 1))
    /\ UNCHANGED <<alive, pc, backlog, last, client, breaks>>

\* _broadcast_system(): a full queue is passed over.
SystemEvent ==
    /\ Stored("system", None)
    /\ queue' = [c \in Clients |-> IF c \in Subscribed /\ ~Full(c)
                                   THEN Append(queue[c], Len(log) + 1)
                                   ELSE queue[c]]
    /\ orphans' = [o \in 1 .. Len(orphans) |->
                      orphans[o] + IF orphans[o] < QueueSize THEN 1 ELSE 0]
    /\ trouble' = [c \in Clients |->
                      trouble[c] \cup IF c \in Subscribed /\ Full(c) THEN {"skipped"} ELSE {}]
    /\ UNCHANGED <<alive, pc, backlog, last, client, breaks>>

-----------------------------------------------------------------------------
(* Clients. *)

\* _logs(): GET of the history of the category, then the socket from next_cursor.
Fetch(c) ==
    LET rows == latest_events(c, {"log"}) IN
    /\ c \in Followers /\ pc[c] = "off"
    /\ pc' = [pc EXCEPT ![c] = "fetched"]
    /\ \E items \in Listings(rows) : got' = [got EXCEPT ![c] = items]
    /\ cursor' = [cursor EXCEPT ![c] = NextCursor(rows, 0)]
    /\ UNCHANGED <<server, queue, backlog, last, breaks, trouble>>

\* connect() of the workbench, first and after onclose.
Connect(c) ==
    /\ pc[c] = IF c \in Followers THEN "fetched" ELSE "off"
    /\ pc' = [pc EXCEPT ![c] = "opened"]
    /\ queue' = [queue EXCEPT ![c] = <<>>]
    /\ UNCHANGED <<server, backlog, last, client, breaks, trouble>>

\* The limit leaves rows out, behind what the client has, that are not in the queue either.
\* The workbench starts at cursor 0 and asks for the newest rows only.
Cut(c, rows) ==
    /\ c \in Followers \/ cursor[c] # 0
    /\ \E i \in cursor[c] + 1 .. Len(log) : Passes(c, i) /\ i \notin rows /\ ~Has(queue[c], i)

\* Behind the last item there is no await before forward() starts.
Replaying(rows) == IF rows = {} THEN "live" ELSE "replay"

\* event_socket() after prepare(): the history is read in one step.
ReadHistory(c) ==
    LET rows == IF cursor[c] # 0 THEN events_after(c, cursor[c]) ELSE latest_events(c, Categories)
    IN
    /\ pc[c] = "opened"
    /\ pc' = [pc EXCEPT ![c] = Replaying(rows)]
    /\ backlog' = [backlog EXCEPT ![c] = rows]
    /\ last' = [last EXCEPT ![c] = NextCursor(rows, cursor[c])]
    /\ trouble' = IF Cut(c, rows) THEN [trouble EXCEPT ![c] = @ \cup {"cut"}] ELSE trouble
    /\ UNCHANGED <<server, queue, client, breaks>>

\* onmessage(): the cursor of the workbench follows the highest id.
Receives(c, item) ==
    /\ got' = IF Shown(c, item) THEN [got EXCEPT ![c] = Append(@, item)] ELSE got
    /\ cursor' = IF c \in Workbench /\ item # Gap /\ item > cursor[c]
                 THEN [cursor EXCEPT ![c] = item] ELSE cursor

SendHistory(c) ==
    LET rest == backlog[c] \ {Min(backlog[c])} IN
    /\ pc[c] = "replay"
    /\ Receives(c, Min(backlog[c]))
    /\ backlog' = [backlog EXCEPT ![c] = rest]
    /\ pc' = [pc EXCEPT ![c] = Replaying(rest)]
    /\ UNCHANGED <<server, queue, last, breaks, trouble>>

\* Mutant: an event that the history has already sent is sent again.
MutSkips(c, item) == item # Gap /\ item < last[c]
\* An id that is not above last_event_id is not sent; the marker has no id.
Skips(c, item) == item # Gap /\ item <= last[c]

\* Mutant: the test for "no filter" is forgotten.
MutConcerns(c, item) == IF item = Gap THEN Watched[c] = None ELSE log[item].device = Watched[c]
\* The filter of forward(): the marker names no device and passes only without a filter.
Concerns(c, item) == IF item = Gap THEN Watched[c] = None ELSE Passes(c, item)

\* forward().
Forward(c) ==
    LET item == Head(queue[c])
        sent == Concerns(c, item) /\ ~Skips(c, item)
    IN
    /\ pc[c] = "live" /\ queue[c] # <<>>
    /\ queue' = [queue EXCEPT ![c] = Tail(@)]
    /\ IF sent THEN Receives(c, item) ELSE UNCHANGED client
    /\ last' = IF sent /\ item # Gap THEN [last EXCEPT ![c] = item] ELSE last
    /\ UNCHANGED <<server, pc, backlog, breaks, trouble>>

-----------------------------------------------------------------------------
(* Lost connections. *)

\* The connections of C end; the markers in their queues are lost with them.
Close(C) ==
    /\ pc' = [c \in Clients |-> IF c \notin C THEN pc[c] ELSE IF c \in Workbench THEN "off" ELSE "done"]
    /\ queue' = [c \in Clients |-> IF c \in C THEN <<>> ELSE queue[c]]
    /\ backlog' = [c \in Clients |-> IF c \in C THEN {} ELSE backlog[c]]
    /\ last' = [c \in Clients |-> IF c \in C THEN 0 ELSE last[c]]
    /\ trouble' = [c \in Clients |->
                      trouble[c] \cup IF c \in C /\ Has(queue[c], Gap) THEN {"left"} ELSE {}]
    /\ UNCHANGED client

\* forward() has an item to send.
Sends(c) ==
    pc[c] = "live" /\ queue[c] # <<>> /\ Concerns(c, Head(queue[c])) /\ ~Skips(c, Head(queue[c]))

\* A connection breaks.  unsubscribe() is the last line of the receive loop's finally: it
\* is not reached when prepare() or a send of the history fails, nor when the finally waits
\* for a forward() that its send has ended with an exception.  The queue then stays in
\* _subscribers for good.
Break(c) ==
    /\ c \in Subscribed /\ breaks < MaxBreaks
    /\ Close({c})
    /\ \/ pc[c] = "live" /\ UNCHANGED orphans
       \/ pc[c] # "live" /\ orphans' = Append(orphans, Len(queue[c]))
       \/ Sends(c) /\ orphans' = Append(orphans, Len(queue[c]) - 1)
    /\ breaks' = breaks + 1
    /\ UNCHANGED <<log, alive>>

\* The gateway is started again on its database: no subscriber, every device supervised.
Restart ==
    /\ breaks < MaxBreaks
    /\ Close(Subscribed)
    /\ orphans' = <<>>
    /\ alive' = [d \in Devices |-> TRUE]
    /\ breaks' = breaks + 1
    /\ UNCHANGED log

Init ==
    /\ log = <<>>
    /\ alive = [d \in Devices |-> TRUE]
    /\ pc = [c \in Clients |-> "off"]
    /\ queue = [c \in Clients |-> <<>>]
    /\ backlog = [c \in Clients |-> {}]
    /\ last = [c \in Clients |-> 0]
    /\ cursor = [c \in Clients |-> 0]
    /\ got = [c \in Clients |-> <<>>]
    /\ orphans = <<>>
    /\ breaks = 0
    /\ trouble = [c \in Clients |-> {}]

Next ==
    \/ \E d \in Devices : DeviceEvent(d) \/ OperationEvent(d)
    \/ SystemEvent
    \/ \E c \in Clients :
        \/ Fetch(c) \/ Connect(c) \/ ReadHistory(c) \/ SendHistory(c) \/ Forward(c)
        \/ Break(c)
    \/ Restart

Spec == Init /\ [][Next]_vars

\* The client connects (the workbench again after each loss), and the tasks of its socket
\* run; the network takes what is sent.  Nobody has to publish or to break a connection.
Fairness ==
    \A c \in Clients : WF_vars(Fetch(c) \/ Connect(c) \/ ReadHistory(c) \/ SendHistory(c) \/ Forward(c))

FairSpec == Spec /\ Fairness

-----------------------------------------------------------------------------
(* Properties. *)

Ids == 1 .. MaxEvents
Events == [category : Categories, device : Devices \cup {None}]
Items == Ids \cup {Gap}
Seen(c) == {i \in 1 .. Len(log) : Has(got[c], i)}
Wanted(c) == {i \in 1 .. Len(log) : Passes(c, i) /\ Shown(c, i)}
Holes(c) ==
    {i \in Wanted(c) \ Seen(c) : (\E j \in Seen(c) : j < i) /\ (\E j \in Seen(c) : i < j)}

\* Every queue in _subscribers, read or not, is within its size, and the rest is well formed.
TypeOK ==
    /\ log \in Seq(Events)
    /\ Len(log) <= MaxEvents
    /\ alive \in [Devices -> BOOLEAN]
    /\ pc \in [Clients -> {"off", "fetched", "opened", "replay", "live", "done"}]
    /\ queue \in [Clients -> Seq(Items)]
    /\ \A c \in Clients : Len(queue[c]) <= QueueSize
    /\ backlog \in [Clients -> SUBSET Ids]
    /\ \A c \in Clients : Cardinality(backlog[c]) <= Limit
    /\ last \in [Clients -> 0 .. MaxEvents] /\ cursor \in [Clients -> 0 .. MaxEvents]
    /\ got \in [Clients -> Seq(Items)]
    /\ orphans \in Seq(0 .. QueueSize)
    /\ breaks \in 0 .. MaxBreaks
    /\ trouble \in [Clients -> SUBSET {"marked", "robbed", "skipped", "cut", "left"}]

\* Exactly once, in order: over history, queue and new connections a client never gets an
\* event again and never one behind a later one.  event_socket() subscribes first, so the
\* queue overlaps the history, and only last_event_id keeps the two apart.
InOrder == \A c \in Clients : Ascending(got[c])

\* Between the first and the last event a client has, nothing that it asked for is missing,
\* unless a queue overflowed or the history after its cursor was longer than the limit: no
\* event falls between the history read and the queue, whatever is published meanwhile.
NoSilentGap == \A c \in Clients : trouble[c] = {} => Holes(c) = {}

\* A workbench whose queue overflowed is told: the history_gap item that on_device_event()
\* puts in the queue stays there until it is sent, however often the queue overflows again.
GapIsTold ==
    \A c \in Workbench :
        "marked" \in trouble[c] /\ "left" \notin trouble[c] /\ Watched[c] = None =>
            Has(queue[c], Gap) \/ Has(got[c], Gap)

\* event_socket, on_device_event, events_after: nothing is missing that the client was not told
\* of or that is not one of the named losses, and the queues keep their size.
GapsAreTold == TypeOK /\ NoSilentGap /\ GapIsTold

\* The clients that event i, which they asked for, has still to reach.
Owed(i) ==
    {c \in Clients : /\ trouble[c] = {} /\ pc[c] # "done"
                     /\ i \in Wanted(c)
                     /\ \A n \in 1 .. Len(got[c]) : got[c][n] = Gap \/ got[c][n] < i}

\* Every stored event that a client asked for reaches it, over the losses of its connection
\* that the workbench recovers from, unless an overflow or the limit took it.
Delivered == \A i \in Ids : i <= Len(log) ~> Owed(i) = {}

\* What the documents say of the connections, "an independent event stream": a client that
\* keeps up with its own queue misses nothing, whatever the other observers do.
Independent ==
    \A c \in Clients : trouble[c] \subseteq {"robbed"} => Holes(c) = {}
=============================================================================

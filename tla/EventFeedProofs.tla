--------------------------- MODULE EventFeedProofs ---------------------------
(***************************************************************************)
(* What a client of the event feed gets, for any number of clients,        *)
(* devices and events and for any sizes of queue and history.              *)
(***************************************************************************)
EXTENDS EventFeed, FiniteSetTheorems, SequenceTheorems, TLAPS

-----------------------------------------------------------------------------
(* Numbers, sets and sequences. *)

\* A set of natural numbers has a least element.
LEMMA LeastNumber ==
    ASSUME NEW S \in SUBSET Nat, S # {}
    PROVE  \E x \in S : \A y \in S : x <= y
<1> DEFINE less == {ss \in Nat \X Nat : ss[1] < ss[2]}
<1>1. IsWellFoundedOn(less, Nat)
    BY NatLessThanWellFounded DEF OpToRel
<1>2. PICK x \in S : \A y \in S : ~ (<<y, x>> \in less)
  <2> HIDE DEF less
  <2> QED BY <1>1, WFMin
<1>3. ASSUME NEW y \in S PROVE x <= y
  <2>1. x \in Nat /\ y \in Nat
    OBVIOUS
  <2>2. y < x => <<y, x>> \in less
    BY <2>1
  <2> HIDE DEF less
  <2> QED BY <1>2, <2>1, <2>2
<1> QED BY <1>3

\* Min and Max of the ids of a set of events.
LEMMA MinIsLeast ==
    ASSUME NEW n \in Nat, NEW S \in SUBSET (1 .. n), S # {}
    PROVE  Min(S) \in S /\ \A y \in S : Min(S) <= y
<1>1. \E x \in S : \A y \in S : x <= y
    BY LeastNumber
<1> QED BY <1>1 DEF Min

\* Max is the greatest number of a set within bounds.
LEMMA MaxIsGreatest ==
    ASSUME NEW n \in Nat, NEW S \in SUBSET (1 .. n), S # {}
    PROVE  Max(S) \in S /\ \A y \in S : y <= Max(S)
<1> DEFINE T == {n - x : x \in S}
<1>1. PICK t \in T : \A u \in T : t <= u
  <2>1. \A x \in S : n - x \in Nat
    OBVIOUS
  <2>2. T \in SUBSET Nat /\ T # {}
    BY <2>1
  <2> HIDE DEF T
  <2> QED BY <2>2, LeastNumber
<1>2. PICK x \in S : t = n - x
    BY <1>1
<1>3. \A y \in S : n - x <= n - y
    BY <1>1, <1>2
<1>4. \A y \in S : x >= y
    BY <1>3
<1> HIDE DEF T
<1> QED BY <1>4 DEF Max

\* The sets of events are finite.
LEMMA Finite ==
    ASSUME NEW n \in Nat, NEW S \in SUBSET (1 .. n)
    PROVE  IsFiniteSet(S) /\ Cardinality(S) \in Nat
<1>1. IsFiniteSet(1 .. n)
    BY FS_Interval
<1>2. IsFiniteSet(S)
    BY <1>1, FS_Subset
<1> QED BY <1>2, FS_CardinalityType

\* Append adds an item to what a sequence has.
LEMMA HasAppend ==
    ASSUME NEW S, NEW s \in Seq(S), NEW e \in S
    PROVE  \A x : Has(Append(s, e), x) <=> Has(s, x) \/ x = e
<1>1. /\ Len(Append(s, e)) = Len(s) + 1
      /\ \A i \in 1 .. Len(s) : Append(s, e)[i] = s[i]
      /\ Append(s, e)[Len(s) + 1] = e
    BY AppendProperties
<1>2. Len(s) \in Nat
    OBVIOUS
<1> QED BY <1>1, <1>2 DEF Has

\* A sequence has its head and what its tail has.
LEMMA HasTail ==
    ASSUME NEW S, NEW s \in Seq(S), s # <<>>
    PROVE  \A x : Has(s, x) <=> x = Head(s) \/ Has(Tail(s), x)
<1>1. /\ Len(Tail(s)) = Len(s) - 1 /\ Len(s) \in Nat \ {0} /\ Head(s) = s[1]
      /\ \A i \in 1 .. Len(Tail(s)) : Tail(s)[i] = s[i + 1]
    BY HeadTailProperties
<1>2. ASSUME NEW x, Has(s, x) PROVE x = Head(s) \/ Has(Tail(s), x)
  <2>1. PICK n \in 1 .. Len(s) : s[n] = x
    BY <1>2 DEF Has
  <2>2. CASE n = 1
    BY <1>1, <2>1, <2>2
  <2>3. CASE n # 1
    <3>1. n - 1 \in 1 .. Len(Tail(s)) /\ Tail(s)[n - 1] = x
        BY <1>1, <2>1, <2>3
    <3> QED BY <3>1 DEF Has
  <2> QED BY <2>2, <2>3
<1>3. ASSUME NEW x, x = Head(s) \/ Has(Tail(s), x) PROVE Has(s, x)
    BY <1>1, <1>3 DEF Has
<1> QED BY <1>2, <1>3

\* A sequence stays ascending when it gets the marker or a greater id.
LEMMA AscendingAppend ==
    ASSUME NEW S, NEW s \in Seq(S), NEW e \in S, Ascending(s),
           e = Gap \/ \A x \in S : Has(s, x) /\ x # Gap => x < e
    PROVE  Ascending(Append(s, e))
<1>1. /\ Len(Append(s, e)) = Len(s) + 1 /\ Len(s) \in Nat
      /\ \A i \in 1 .. Len(s) : Append(s, e)[i] = s[i] /\ s[i] \in S
      /\ Append(s, e)[Len(s) + 1] = e
    BY AppendProperties
<1>2. e # Gap => \A i \in 1 .. Len(s) : s[i] # Gap => s[i] < e
    BY <1>1 DEF Has
<1> DEFINE t == Append(s, e)
<1>3. ASSUME NEW m \in 1 .. Len(s) + 1, NEW n \in 1 .. Len(s) + 1, m < n,
             Gap \notin {t[m], t[n]}
      PROVE  t[m] < t[n]
  <2>1. m \in 1 .. Len(s)
    BY <1>1, <1>3
  <2>2. CASE n = Len(s) + 1
    BY <1>1, <1>2, <1>3, <2>1, <2>2
  <2>3. CASE n # Len(s) + 1
    <3>1. n \in 1 .. Len(s)
        BY <1>1, <2>3
    <3> QED BY <1>1, <1>3, <2>1, <3>1 DEF Ascending
  <2> QED BY <2>2, <2>3
<1> QED BY <1>1, <1>3 DEF Ascending

\* The tail of an ascending sequence ascends, behind its head.
LEMMA AscendingTail ==
    ASSUME NEW S, NEW s \in Seq(S), s # <<>>, Ascending(s)
    PROVE  /\ Ascending(Tail(s))
           /\ \A x : Has(Tail(s), x) /\ Gap \notin {x, Head(s)} => Head(s) < x
<1>1. /\ Len(Tail(s)) = Len(s) - 1 /\ Len(s) \in Nat \ {0} /\ Head(s) = s[1]
      /\ \A i \in 1 .. Len(Tail(s)) : Tail(s)[i] = s[i + 1]
    BY HeadTailProperties
<1>2. Ascending(Tail(s))
    BY <1>1 DEF Ascending
<1>3. \A i \in 1 .. Len(Tail(s)) : Gap \notin {Tail(s)[i], s[1]} => s[1] < Tail(s)[i]
    BY <1>1 DEF Ascending
<1> QED BY <1>1, <1>2, <1>3 DEF Has

-----------------------------------------------------------------------------
(* The rows that a query with a limit returns. *)

\* ORDER BY event_id LIMIT: no more than the limit, and every row up to the last of them.
LEMMA OldestRows ==
    ASSUME NEW n \in Nat, NEW R \in SUBSET (1 .. n)
    PROVE  /\ Oldest(R) \subseteq R /\ Cardinality(Oldest(R)) <= Limit
           /\ \A i \in R, j \in Oldest(R) : i <= j => i \in Oldest(R)
<1> DEFINE S == Oldest(R)
<1>1. S \subseteq R /\ \A x \in R : x \in Int
    BY DEF Oldest
<1>2. \A i \in R : i \in S <=> Cardinality(Older(R, i)) < Limit
    BY DEF Oldest
<1>3. Limit \in Nat \ {0}
    BY FeedAssumption
<1>4. \A i \in R : Older(R, i) \in SUBSET (1 .. n)
    BY DEF Older
<1> HIDE DEF S
<1>5. Cardinality(S) <= Limit
  <2>1. CASE S = {}
    BY <1>3, <2>1, FS_EmptySet
  <2>2. CASE S # {}
    <3>1. PICK m \in S : \A y \in S : y <= m
        BY <1>1, <2>2, MaxIsGreatest
    <3>2. ASSUME NEW x \in S \ {m} PROVE x \in Older(R, m)
      <4>1. x \in R /\ m \in R /\ x \in Int /\ m \in Int /\ x # m
        BY <1>1
      <4>2. x < m
        BY <3>1, <4>1
      <4> QED BY <4>1, <4>2 DEF Older
    <3>3. IsFiniteSet(Older(R, m)) /\ Cardinality(Older(R, m)) \in Nat
        BY <1>1, <1>4, Finite
    <3>4. IsFiniteSet(S) /\ Cardinality(S) \in Nat
        BY <1>1, Finite
    <3>5. Cardinality(S \ {m}) = Cardinality(S) - 1
        BY <3>4, FS_RemoveElement
    <3>6. S \ {m} \in SUBSET Older(R, m)
        BY <3>2
    <3>7. Cardinality(S \ {m}) <= Cardinality(Older(R, m))
        BY <3>3, <3>6, FS_Subset
    <3>8. Cardinality(Older(R, m)) < Limit
        BY <1>1, <1>2
    <3> QED BY <1>3, <3>3, <3>4, <3>5, <3>7, <3>8
  <2> QED BY <2>1, <2>2
<1>6. ASSUME NEW i \in R, NEW j \in S, i <= j PROVE i \in S
  <2>1. j \in R /\ Cardinality(Older(R, j)) < Limit
    BY <1>1, <1>2
  <2>2. ASSUME NEW x \in Older(R, i) PROVE x \in Older(R, j)
    <3>1. x \in R /\ x < i /\ x \in Int /\ i \in Int /\ j \in Int
        BY <1>1, <2>1 DEF Older
    <3>2. x < j
        BY <1>6, <3>1
    <3> QED BY <3>1, <3>2 DEF Older
  <2>3. /\ IsFiniteSet(Older(R, j)) /\ Cardinality(Older(R, j)) \in Nat
        /\ Cardinality(Older(R, i)) \in Nat
    BY <1>4, <2>1, Finite
  <2>4. Older(R, i) \in SUBSET Older(R, j)
    BY <2>2
  <2>5. Cardinality(Older(R, i)) <= Cardinality(Older(R, j))
    BY <2>3, <2>4, FS_Subset
  <2>6. Cardinality(Older(R, i)) < Limit
    BY <1>3, <2>1, <2>3, <2>5
  <2> QED BY <1>2, <2>6
<1> QED BY <1>1, <1>5, <1>6 DEF S

\* ORDER BY event_id DESC LIMIT: no more than the limit, every row from the first of them on, and
\* so the newest of all.
LEMMA NewestRows ==
    ASSUME NEW n \in Nat, NEW R \in SUBSET (1 .. n)
    PROVE  /\ Newest(R) \subseteq R /\ Cardinality(Newest(R)) <= Limit
           /\ \A i \in R, j \in Newest(R) : j <= i => i \in Newest(R)
           /\ \A i \in R : \E j \in Newest(R) : i <= j
<1> DEFINE S == Newest(R)
<1>1. S \subseteq R /\ \A x \in R : x \in Int
    BY DEF Newest
<1>2. \A i \in R : i \in S <=> Cardinality(Newer(R, i)) < Limit
    BY DEF Newest
<1>3. Limit \in Nat \ {0}
    BY FeedAssumption
<1>4. \A i \in R : Newer(R, i) \in SUBSET (1 .. n)
    BY DEF Newer
<1> HIDE DEF S
<1>5. Cardinality(S) <= Limit
  <2>1. CASE S = {}
    BY <1>3, <2>1, FS_EmptySet
  <2>2. CASE S # {}
    <3>1. PICK m \in S : \A y \in S : m <= y
        BY <1>1, <2>2, MinIsLeast
    <3>2. ASSUME NEW x \in S \ {m} PROVE x \in Newer(R, m)
      <4>1. x \in R /\ m \in R /\ x \in Int /\ m \in Int /\ x # m
        BY <1>1
      <4>2. x > m
        BY <3>1, <4>1
      <4> QED BY <4>1, <4>2 DEF Newer
    <3>3. IsFiniteSet(Newer(R, m)) /\ Cardinality(Newer(R, m)) \in Nat
        BY <1>1, <1>4, Finite
    <3>4. IsFiniteSet(S) /\ Cardinality(S) \in Nat
        BY <1>1, Finite
    <3>5. Cardinality(S \ {m}) = Cardinality(S) - 1
        BY <3>4, FS_RemoveElement
    <3>6. S \ {m} \in SUBSET Newer(R, m)
        BY <3>2
    <3>7. Cardinality(S \ {m}) <= Cardinality(Newer(R, m))
        BY <3>3, <3>6, FS_Subset
    <3>8. Cardinality(Newer(R, m)) < Limit
        BY <1>1, <1>2
    <3> QED BY <1>3, <3>3, <3>4, <3>5, <3>7, <3>8
  <2> QED BY <2>1, <2>2
<1>6. ASSUME NEW i \in R, NEW j \in S, j <= i PROVE i \in S
  <2>1. j \in R /\ Cardinality(Newer(R, j)) < Limit
    BY <1>1, <1>2
  <2>2. ASSUME NEW x \in Newer(R, i) PROVE x \in Newer(R, j)
    <3>1. x \in R /\ x > i /\ x \in Int /\ i \in Int /\ j \in Int
        BY <1>1, <2>1 DEF Newer
    <3>2. x > j
        BY <1>6, <3>1
    <3> QED BY <3>1, <3>2 DEF Newer
  <2>3. /\ IsFiniteSet(Newer(R, j)) /\ Cardinality(Newer(R, j)) \in Nat
        /\ Cardinality(Newer(R, i)) \in Nat
    BY <1>4, <2>1, Finite
  <2>4. Newer(R, i) \in SUBSET Newer(R, j)
    BY <2>2
  <2>5. Cardinality(Newer(R, i)) <= Cardinality(Newer(R, j))
    BY <2>3, <2>4, FS_Subset
  <2>6. Cardinality(Newer(R, i)) < Limit
    BY <1>3, <2>1, <2>3, <2>5
  <2> QED BY <1>2, <2>6
<1>7. ASSUME NEW i \in R PROVE \E j \in S : i <= j
  <2>1. PICK m \in R : \A y \in R : y <= m
    BY MaxIsGreatest
  <2>2. ASSUME NEW x \in Newer(R, m) PROVE FALSE
    <3>1. x \in R /\ x > m /\ x \in Int /\ m \in Int
        BY <1>1 DEF Newer
    <3> QED BY <2>1, <3>1
  <2>3. Newer(R, m) = {}
    BY <2>2
  <2>4. Cardinality(Newer(R, m)) < Limit
    BY <1>3, <2>3, FS_EmptySet
  <2>5. m \in S
    BY <1>2, <2>4
  <2> QED BY <2>1, <2>5
<1> QED BY <1>1, <1>5, <1>6, <1>7 DEF S

\* events_after: the rows behind the cursor, up to the last of them.
LEMMA AfterRows ==
    ASSUME TypeOK, NEW c \in Clients, NEW after \in Nat, NEW S, S = events_after(c, after)
    PROVE  /\ S \subseteq 1 .. Len(log) /\ Cardinality(S) <= Limit
           /\ \A i \in S : Passes(c, i) /\ i > after
           /\ \A i \in 1 .. Len(log), j \in S : i > after /\ Passes(c, i) /\ i <= j => i \in S
<1> DEFINE R == {i \in Rows(c, Categories) : i > after}
<1>1. Len(log) \in Nat /\ Limit \in Nat \ {0}
    BY FeedAssumption DEF TypeOK
<1>2. R \in SUBSET (1 .. Len(log))
    BY DEF Rows
<1>3. S = Oldest(R)
    BY DEF events_after
<1>4. \A i \in R : Passes(c, i) /\ i > after
    BY DEF Rows
<1>5. ASSUME NEW i \in 1 .. Len(log) PROVE log[i].category \in Categories
  <2>1. log[i] \in Events
    BY DEF TypeOK
  <2> QED BY <2>1 DEF Events
<1>6. \A i \in 1 .. Len(log) : i > after /\ Passes(c, i) => i \in R
    BY <1>5 DEF Rows
<1> HIDE DEF R
<1>7. /\ S \subseteq R /\ Cardinality(S) <= Limit
      /\ \A i \in R, j \in S : i <= j => i \in S
    BY <1>1, <1>2, <1>3, OldestRows
<1> QED BY <1>2, <1>4, <1>6, <1>7

\* latest_events: the rows of the categories, from the first of them on.
LEMMA LatestRows ==
    ASSUME TypeOK, NEW c \in Clients, NEW cats, NEW S, S = latest_events(c, cats)
    PROVE  /\ S \subseteq 1 .. Len(log) /\ Cardinality(S) <= Limit
           /\ \A i \in S : Passes(c, i) /\ log[i].category \in cats
           /\ \A i \in Rows(c, cats), j \in S : j <= i => i \in S
           /\ \A i \in Rows(c, cats) : \E j \in S : i <= j
<1> DEFINE R == Rows(c, cats)
<1>1. Len(log) \in Nat /\ Limit \in Nat \ {0}
    BY FeedAssumption DEF TypeOK
<1>2. R \in SUBSET (1 .. Len(log))
    BY DEF Rows
<1>3. S = Newest(R)
    BY DEF latest_events
<1>4. \A i \in R : Passes(c, i) /\ log[i].category \in cats
    BY DEF Rows
<1> HIDE DEF R
<1>5. /\ S \subseteq R /\ Cardinality(S) <= Limit
      /\ \A i \in R, j \in S : j <= i => i \in S
      /\ \A i \in R : \E j \in S : i <= j
    BY <1>1, <1>2, <1>3, NewestRows
<1>6. /\ \A i \in R, j \in S : j <= i => i \in S
      /\ \A i \in R : \E j \in S : i <= j
    BY <1>5
<1>7. S \subseteq 1 .. Len(log) /\ Cardinality(S) <= Limit
    BY <1>2, <1>5
<1>8. \A i \in S : Passes(c, i) /\ log[i].category \in cats
    BY <1>4, <1>5
<1> QED BY <1>6, <1>7, <1>8 DEF R

-----------------------------------------------------------------------------
(* The inductive invariant: what holds of each client. *)

\* The history of the client has been read.
Reading(c) == pc[c] \in {"replay", "live"}

\* The queue has stored events in their order; only a subscriber has one.
QueueInv(c) ==
    /\ c \notin Subscribed => queue[c] = <<>>
    /\ Ascending(queue[c])
    /\ \A i \in Ids : Has(queue[c], i) => i <= Len(log)

\* The client has stored events in their order.
GotInv(c) ==
    /\ Ascending(got[c])
    /\ \A i \in Ids : Has(got[c], i) => i <= Len(log)

\* The history that is still to be sent lies behind what the client has, up to
\* last_event_id.
BacklogInv(c) ==
    /\ backlog[c] # {} <=> pc[c] = "replay"
    /\ \A i \in backlog[c] : i <= last[c] /\ Passes(c, i) /\ \A j \in Seen(c) : j < i

\* A client that is to read the history has its cursor at the last event it has, and
\* nothing that it has is behind last_event_id.
CursorInv(c) ==
    /\ cursor[c] <= Len(log) /\ last[c] <= Len(log)
    /\ c \in Workbench \/ pc[c] \in {"fetched", "opened"} =>
          /\ \A j \in Seen(c) : j <= cursor[c]
          /\ cursor[c] # 0 => cursor[c] \in Seen(c)
    /\ Reading(c) => \A j \in Seen(c) : j <= last[c]

\* Nothing is missing between the events that the client has or is about to be sent ...
SentInv(c) ==
    trouble[c] = {} =>
        /\ Holes(c) = {}
        /\ Reading(c) =>
              \A i \in Wanted(c) :
                  i <= last[c] /\ (\E j \in Seen(c) \cup backlog[c] : j < i) =>
                      i \in Seen(c) \cup backlog[c]

\* ... and what comes after last_event_id is in the queue.
AheadInv(c) ==
    trouble[c] = {} /\ Reading(c) =>
        \A i \in 1 .. Len(log) : i > last[c] /\ Passes(c, i) => Has(queue[c], i)

\* GapIsTold, of one client.
ToldInv(c) ==
    /\ c \in Workbench /\ Watched[c] = None
    /\ "marked" \in trouble[c] /\ "left" \notin trouble[c]
    => Has(queue[c], Gap) \/ Has(got[c], Gap)

ClientInv(c) ==
    /\ QueueInv(c) /\ GotInv(c) /\ BacklogInv(c) /\ CursorInv(c)
    /\ SentInv(c) /\ AheadInv(c) /\ ToldInv(c)

FeedInv == TypeOK /\ \A c \in Clients : ClientInv(c)

\* What the types say of one client.
LEMMA ClientType ==
    ASSUME TypeOK, NEW c \in Clients
    PROVE  /\ pc[c] \in {"off", "fetched", "opened", "replay", "live", "done"}
           /\ queue[c] \in Seq(Items) /\ Len(queue[c]) \in Nat /\ Len(queue[c]) <= QueueSize
           /\ backlog[c] \in SUBSET Ids /\ Cardinality(backlog[c]) <= Limit
           /\ last[c] \in Nat /\ cursor[c] \in Nat /\ got[c] \in Seq(Items)
           /\ trouble[c] \in SUBSET {"marked", "robbed", "skipped", "cut", "left"}
           /\ Len(log) \in Nat /\ Len(log) <= MaxEvents
BY DEF TypeOK

\* A step that leaves a client and the table alone.
LEMMA ClientKept ==
    ASSUME NEW c \in Clients, ClientInv(c), UNCHANGED log,
           pc'[c] = pc[c], queue'[c] = queue[c], backlog'[c] = backlog[c], last'[c] = last[c],
           cursor'[c] = cursor[c], got'[c] = got[c], trouble'[c] = trouble[c]
    PROVE  ClientInv(c)'
<1>1. Seen(c)' = Seen(c)
    BY DEF Seen
<1>2. \A i : Passes(c, i)' <=> Passes(c, i)
    BY DEF Passes
<1>3. \A i : Shown(c, i)' <=> Shown(c, i)
    BY DEF Shown
<1>4. Wanted(c)' = Wanted(c)
    BY <1>2, <1>3 DEF Wanted
<1>5. Holes(c)' = Holes(c)
    BY <1>1, <1>4 DEF Holes
<1>6. QueueInv(c)' /\ GotInv(c)' /\ ToldInv(c)'
    BY DEF ClientInv, QueueInv, GotInv, ToldInv, Subscribed
<1>7. BacklogInv(c)' /\ CursorInv(c)'
    BY <1>1, <1>2 DEF ClientInv, BacklogInv, CursorInv, Reading
<1>8. SentInv(c)' /\ AheadInv(c)'
    BY <1>1, <1>2, <1>4, <1>5 DEF ClientInv, SentInv, AheadInv, Reading
<1> QED BY <1>6, <1>7, <1>8 DEF ClientInv

-----------------------------------------------------------------------------
(* Publications. *)

\* What a publication does to the connection of a client: its queue gets the event, it
\* overflows, it is passed over, or there is none.
Gets(c) ==
    /\ c \in Subscribed /\ ~Full(c)
    /\ queue'[c] = Append(queue[c], Len(log) + 1) /\ trouble'[c] = trouble[c]
Overflows(c) ==
    /\ c \in Subscribed /\ Full(c)
    /\ queue'[c] = Append(Tail(queue[c]), Gap) /\ trouble'[c] = trouble[c] \cup {"marked"}
Misses(c) ==
    /\ queue'[c] = queue[c]
    /\ \E why \in {"robbed", "skipped"} : trouble'[c] = trouble[c] \cup {why}
Rests(c) == c \notin Subscribed /\ queue'[c] = queue[c] /\ trouble'[c] = trouble[c]

Published ==
    /\ Len(log) < MaxEvents
    /\ \E e \in Events : log' = Append(log, e)
    /\ alive' \in [Devices -> BOOLEAN]
    /\ queue' = [c \in Clients |-> queue'[c]]
    /\ trouble' = [c \in Clients |-> trouble'[c]]
    /\ orphans' \in Seq(0 .. QueueSize)
    /\ UNCHANGED <<pc, backlog, last, cursor, got, breaks>>
    /\ \A c \in Clients : Gets(c) \/ Overflows(c) \/ Misses(c) \/ Rests(c)

\* Delivers and Raises are publications as far as the clients can tell.
LEMMA FanOut ==
    ASSUME TypeOK, NEW id, id = Len(log) + 1, Delivers(id) \/ Raises(id)
    PROVE  /\ queue' = [c \in Clients |-> queue'[c]] /\ trouble' = [c \in Clients |-> trouble'[c]]
           /\ orphans' \in Seq(0 .. QueueSize)
           /\ \A c \in Clients : Gets(c) \/ Overflows(c) \/ Misses(c) \/ Rests(c)
<1>1. QueueSize \in Nat /\ Len(orphans) \in Nat
    BY FeedAssumption DEF TypeOK
<1>2. \A o \in 1 .. Len(orphans) : orphans[o] \in 0 .. QueueSize
  <2>1. orphans \in Seq(0 .. QueueSize)
    BY DEF TypeOK
  <2> QED BY <1>1, <2>1
<1>3. trouble = [c \in Clients |-> trouble[c]]
    BY DEF TypeOK
<1>4. CASE Delivers(id)
  <2>1. /\ \A c \in Subscribed : ~Full(c)
        /\ queue' = [c \in Clients |->
                        IF c \in Subscribed THEN Append(queue[c], id) ELSE queue[c]]
        /\ trouble' = trouble
    BY <1>4 DEF Delivers
  <2>2. /\ \A o \in 1 .. Len(orphans) : orphans[o] < QueueSize
        /\ orphans' = [o \in 1 .. Len(orphans) |-> orphans[o] + 1]
    BY <1>4 DEF Delivers
  <2>3. orphans' \in Seq(0 .. QueueSize)
    <3>1. \A o \in 1 .. Len(orphans) : orphans[o] + 1 \in 0 .. QueueSize
        BY <1>1, <1>2, <2>2
    <3> QED BY <1>1, <2>2, <3>1
  <2>4. queue' = [c \in Clients |-> queue'[c]] /\ trouble' = [c \in Clients |-> trouble'[c]]
    BY <1>3, <2>1
  <2>5. \A c \in Clients : Gets(c) \/ Rests(c)
    BY <2>1 DEF Gets, Rests
  <2> QED BY <2>3, <2>4, <2>5
<1>5. CASE Raises(id)
  <2>1. PICK full \in {c \in Subscribed : Full(c)}
                        \cup {o \in 1 .. Len(orphans) : orphans[o] >= QueueSize},
             served \in SUBSET {c \in Subscribed : ~Full(c)},
             grown \in SUBSET {o \in 1 .. Len(orphans) : orphans[o] < QueueSize} :
        /\ queue' = [c \in Clients |-> IF c = full THEN Overflow(c, id)
                                      ELSE IF c \in served THEN Append(queue[c], id)
                                      ELSE queue[c]]
        /\ orphans' = [o \in 1 .. Len(orphans) |-> orphans[o] + IF o \in grown THEN 1 ELSE 0]
        /\ trouble' = [c \in Clients |->
                          trouble[c] \cup IF c = full THEN {"marked"}
                                         ELSE IF c \in Subscribed \ served THEN {"robbed"}
                                         ELSE {}]
    BY <1>5 DEF Raises
  <2>2. orphans' \in Seq(0 .. QueueSize)
    <3>1. \A o \in 1 .. Len(orphans) :
              orphans[o] + (IF o \in grown THEN 1 ELSE 0) \in 0 .. QueueSize
        BY <1>1, <1>2
    <3> QED BY <1>1, <2>1, <3>1
  <2>3. queue' = [c \in Clients |-> queue'[c]] /\ trouble' = [c \in Clients |-> trouble'[c]]
    BY <2>1
  <2>4. ASSUME NEW c \in Clients PROVE Gets(c) \/ Overflows(c) \/ Misses(c) \/ Rests(c)
    <3>1. CASE c = full /\ c \in Subscribed /\ Full(c)
      <4>1. queue'[c] = Append(Tail(queue[c]), Gap) /\ trouble'[c] = trouble[c] \cup {"marked"}
        BY <2>1, <3>1 DEF Overflow
      <4> QED BY <3>1, <4>1 DEF Overflows
    <3>2. CASE c # full /\ c \in served
        BY <2>1, <3>2 DEF Gets
    <3>3. CASE c # full /\ c \in Subscribed \ served
        BY <2>1, <3>3 DEF Misses
    <3>4. CASE c # full /\ c \notin Subscribed
        BY <2>1, <3>4 DEF Rests
    <3>5. CASE c = full /\ c \in 1 .. Len(orphans)
        BY <3>5, FeedAssumption
    <3> QED BY <3>1, <3>2, <3>3, <3>4, <3>5
  <2> QED BY <2>2, <2>3, <2>4
<1> QED BY <1>4, <1>5

\* The three kinds of publication.
LEMMA Publications ==
    ASSUME TypeOK,
           \/ \E d \in Devices : DeviceEvent(d) \/ OperationEvent(d)
           \/ SystemEvent
    PROVE  Published
<1>1. ASSUME NEW d \in Devices, DeviceEvent(d) PROVE Published
  <2>1. Len(log) < MaxEvents /\ log' = Append(log, [category |-> "log", device |-> d])
    BY <1>1 DEF DeviceEvent, Stored
  <2>2. [category |-> "log", device |-> d] \in Events
    BY DEF Events, Categories
  <2>3. Delivers(Len(log) + 1) \/ Raises(Len(log) + 1)
    BY <1>1 DEF DeviceEvent
  <2>4. alive' \in [Devices -> BOOLEAN]
    BY <1>1 DEF DeviceEvent, TypeOK
  <2>5. UNCHANGED <<pc, backlog, last, cursor, got, breaks>>
    BY <1>1 DEF DeviceEvent, client
  <2> QED BY <2>1, <2>2, <2>3, <2>4, <2>5, FanOut DEF Published
<1>2. ASSUME NEW d \in Devices, OperationEvent(d) PROVE Published
  <2>1. Len(log) < MaxEvents /\ log' = Append(log, [category |-> "operation", device |-> d])
    BY <1>2 DEF OperationEvent, Stored
  <2>2. [category |-> "operation", device |-> d] \in Events
    BY DEF Events, Categories
  <2>3. Delivers(Len(log) + 1) \/ Raises(Len(log) + 1)
    BY <1>2 DEF OperationEvent
  <2>4. alive' \in [Devices -> BOOLEAN]
    BY <1>2 DEF OperationEvent, TypeOK
  <2>5. UNCHANGED <<pc, backlog, last, cursor, got, breaks>>
    BY <1>2 DEF OperationEvent, client
  <2> QED BY <2>1, <2>2, <2>3, <2>4, <2>5, FanOut DEF Published
<1>3. CASE SystemEvent
  <2>1. Len(log) < MaxEvents /\ log' = Append(log, [category |-> "system", device |-> None])
    BY <1>3 DEF SystemEvent, Stored
  <2>2. [category |-> "system", device |-> None] \in Events
    BY DEF Events, Categories
  <2>3. alive' \in [Devices -> BOOLEAN]
    BY <1>3 DEF SystemEvent, TypeOK
  <2>4. UNCHANGED <<pc, backlog, last, cursor, got, breaks>>
    BY <1>3 DEF SystemEvent, client
  <2>5. orphans' \in Seq(0 .. QueueSize)
    <3>1. QueueSize \in Nat /\ orphans \in Seq(0 .. QueueSize)
        BY FeedAssumption DEF TypeOK
    <3>2. \A o \in 1 .. Len(orphans) :
              orphans[o] + (IF orphans[o] < QueueSize THEN 1 ELSE 0) \in 0 .. QueueSize
        BY <3>1
    <3>3. orphans' = [o \in 1 .. Len(orphans) |->
                         orphans[o] + IF orphans[o] < QueueSize THEN 1 ELSE 0]
        BY <1>3 DEF SystemEvent
    <3> QED BY <3>1, <3>2, <3>3
  <2>6. /\ queue' = [c \in Clients |-> IF c \in Subscribed /\ ~Full(c)
                                      THEN Append(queue[c], Len(log) + 1)
                                      ELSE queue[c]]
        /\ trouble' = [c \in Clients |->
              trouble[c] \cup IF c \in Subscribed /\ Full(c) THEN {"skipped"} ELSE {}]
    BY <1>3 DEF SystemEvent
  <2>7. queue' = [c \in Clients |-> queue'[c]] /\ trouble' = [c \in Clients |-> trouble'[c]]
    BY <2>6
  <2>8. ASSUME NEW c \in Clients PROVE Gets(c) \/ Misses(c) \/ Rests(c)
    <3>1. CASE c \in Subscribed /\ ~Full(c)
        BY <2>6, <3>1 DEF Gets
    <3>2. CASE c \in Subscribed /\ Full(c)
        BY <2>6, <3>2 DEF Misses
    <3>3. CASE c \notin Subscribed
        BY <2>6, <3>3 DEF Rests
    <3> QED BY <3>1, <3>2, <3>3
  <2> QED BY <2>1, <2>2, <2>3, <2>4, <2>5, <2>7, <2>8 DEF Published
<1> QED BY <1>1, <1>2, <1>3

\* A publication appends one row and moves nothing else of the table.
LEMMA TableGrows ==
    ASSUME TypeOK, Published
    PROVE  /\ log' \in Seq(Events) /\ Len(log) \in Nat /\ Len(log') = Len(log) + 1
           /\ Len(log') <= MaxEvents /\ Len(log') \in Ids
           /\ \A i \in 1 .. Len(log) : log'[i] = log[i]
<1>1. PICK e \in Events : log' = Append(log, e)
    BY DEF Published
<1>2. log \in Seq(Events) /\ Len(log) \in Nat /\ Len(log) < MaxEvents /\ MaxEvents \in Nat
    BY FeedAssumption DEF Published, TypeOK
<1>3. /\ log' \in Seq(Events) /\ Len(log') = Len(log) + 1
      /\ \A i \in 1 .. Len(log) : log'[i] = log[i]
    BY <1>1, <1>2, AppendProperties
<1> QED BY <1>2, <1>3 DEF Ids

\* A publication keeps the types: no queue outgrows its size.
LEMMA PublishedType ==
    ASSUME TypeOK, Published
    PROVE  TypeOK'
<1>1. ASSUME NEW c \in Clients PROVE queue'[c] \in Seq(Items) /\ Len(queue'[c]) <= QueueSize
  <2>1. /\ queue[c] \in Seq(Items) /\ Len(queue[c]) \in Nat /\ Len(queue[c]) <= QueueSize
        /\ QueueSize \in Nat \ {0} /\ Len(log) + 1 \in Items /\ Gap \in Items
    BY ClientType, TableGrows, FeedAssumption DEF Items
  <2>2. CASE Gets(c)
    <3>1. Append(queue[c], Len(log) + 1) \in Seq(Items)
          /\ Len(Append(queue[c], Len(log) + 1)) = Len(queue[c]) + 1
        BY <2>1, AppendProperties
    <3> QED BY <2>1, <2>2, <3>1 DEF Gets, Full
  <2>3. CASE Overflows(c)
    <3>1. Tail(queue[c]) \in Seq(Items) /\ Len(Tail(queue[c])) = Len(queue[c]) - 1
      <4>1. queue[c] # <<>>
        BY <2>1, <2>3 DEF Overflows, Full
      <4> QED BY <2>1, <4>1, HeadTailProperties
    <3>2. Append(Tail(queue[c]), Gap) \in Seq(Items)
          /\ Len(Append(Tail(queue[c]), Gap)) = Len(Tail(queue[c])) + 1
        BY <2>1, <3>1, AppendProperties
    <3> QED BY <2>1, <2>3, <3>1, <3>2 DEF Overflows
  <2>4. CASE Misses(c) \/ Rests(c)
    BY <2>1, <2>4 DEF Misses, Rests
  <2> QED BY <2>2, <2>3, <2>4 DEF Published
<1>2. queue' \in [Clients -> Seq(Items)]
    BY <1>1 DEF Published
<1>3. ASSUME NEW c \in Clients
      PROVE  trouble'[c] \in SUBSET {"marked", "robbed", "skipped", "cut", "left"}
  <2>1. trouble[c] \in SUBSET {"marked", "robbed", "skipped", "cut", "left"}
    BY ClientType
  <2> QED BY <2>1 DEF Published, Gets, Overflows, Misses, Rests
<1>4. trouble' \in [Clients -> SUBSET {"marked", "robbed", "skipped", "cut", "left"}]
    BY <1>3 DEF Published
<1>5. /\ pc' = pc /\ backlog' = backlog /\ last' = last /\ cursor' = cursor /\ got' = got
      /\ breaks' = breaks /\ alive' \in [Devices -> BOOLEAN] /\ orphans' \in Seq(0 .. QueueSize)
    BY DEF Published
<1> QED BY <1>1, <1>2, <1>4, <1>5, TableGrows DEF TypeOK

\* A publication keeps what holds of a client: the new event is behind everything that it
\* has, and it is in its queue unless the client is in trouble.
LEMMA PublishedClient ==
    ASSUME TypeOK, Published, NEW c \in Clients, ClientInv(c)
    PROVE  ClientInv(c)'
<1> DEFINE n == Len(log)
<1>1. /\ queue[c] \in Seq(Items) /\ got[c] \in Seq(Items) /\ last[c] \in Nat /\ cursor[c] \in Nat
      /\ backlog[c] \in SUBSET Ids /\ n \in Nat /\ Len(queue[c]) \in Nat
      /\ QueueSize \in Nat \ {0} /\ Gap \notin Int /\ MaxEvents \in Nat
    BY ClientType, FeedAssumption
<1>2. /\ Len(log') = n + 1 /\ n + 1 \in Ids /\ \A i \in 1 .. n : log'[i] = log[i]
    BY TableGrows
<1>3. /\ pc' = pc /\ backlog' = backlog /\ last' = last /\ cursor' = cursor /\ got' = got
      /\ Subscribed' = Subscribed /\ (Reading(c)' <=> Reading(c))
    BY DEF Published, Subscribed, Reading
<1>4. Gets(c) \/ Overflows(c) \/ Misses(c) \/ Rests(c)
    BY DEF Published
<1>5. \A i \in Ids : i \in Int /\ i >= 1
    BY <1>1 DEF Ids
<1>6. Seen(c)' = Seen(c) /\ Seen(c) \subseteq 1 .. n
  <2>1. ~Has(got[c], n + 1)
    BY <1>1, <1>2 DEF ClientInv, GotInv
  <2> QED BY <1>1, <1>2, <1>3, <2>1 DEF Seen
<1>7. \A i \in 1 .. n : (Passes(c, i)' <=> Passes(c, i)) /\ (Shown(c, i)' <=> Shown(c, i))
    BY <1>2 DEF Passes, Shown
<1>8. \A i \in 1 .. n : i \in Wanted(c)' <=> i \in Wanted(c)
    BY <1>1, <1>2, <1>7 DEF Wanted
<1>9. \A i \in Wanted(c)' : i \in 1 .. n \/ i = n + 1
    BY <1>1, <1>2 DEF Wanted
<1>got. ASSUME Gets(c) PROVE \A x : Has(queue'[c], x) <=> Has(queue[c], x) \/ x = n + 1
  <2>1. queue'[c] = Append(queue[c], n + 1) /\ n + 1 \in Items
    BY <1>2, <1>got DEF Gets, Items
  <2> QED BY <1>1, <2>1, HasAppend
<1>over. ASSUME Overflows(c)
         PROVE  /\ queue[c] # <<>> /\ Tail(queue[c]) \in Seq(Items) /\ Gap \in Items
                /\ queue'[c] = Append(Tail(queue[c]), Gap)
                /\ \A x : Has(queue'[c], x) <=> Has(Tail(queue[c]), x) \/ x = Gap
  <2>1. queue[c] # <<>> /\ Gap \in Items
    BY <1>1, <1>over DEF Overflows, Full, Items
  <2>2. Tail(queue[c]) \in Seq(Items)
    BY <1>1, <2>1, HeadTailProperties
  <2>3. queue'[c] = Append(Tail(queue[c]), Gap)
    BY <1>over DEF Overflows
  <2>4. \A x : Has(Append(Tail(queue[c]), Gap), x) <=> Has(Tail(queue[c]), x) \/ x = Gap
    <3> DEFINE q == Tail(queue[c])
    <3>1. q \in Seq(Items)
        BY <2>2
    <3> HIDE DEF q
    <3>2. \A x : Has(Append(q, Gap), x) <=> Has(q, x) \/ x = Gap
        BY <2>1, <3>1, HasAppend
    <3> QED BY <3>2 DEF q
  <2> QED BY <2>1, <2>2, <2>3, <2>4
<1>10. QueueInv(c)'
  <2>1. CASE Gets(c)
    <3>1. \A x : Has(queue'[c], x) <=> Has(queue[c], x) \/ x = n + 1
        BY <1>got, <2>1
    <3>2. Ascending(queue'[c])
      <4>1. n + 1 \in Items /\ queue'[c] = Append(queue[c], n + 1)
        BY <1>2, <2>1 DEF Gets, Items
      <4>2. \A x \in Items : Has(queue[c], x) /\ x # Gap => x < n + 1
        BY <1>1, <1>5 DEF ClientInv, QueueInv, Items
      <4> QED BY <1>1, <4>1, <4>2, AscendingAppend DEF ClientInv, QueueInv
    <3>3. c \in Subscribed
        BY <2>1 DEF Gets
    <3>4. \A i \in Ids : Has(queue'[c], i) => i <= n + 1
        BY <1>1, <1>5, <3>1 DEF ClientInv, QueueInv
    <3> QED BY <1>2, <1>3, <3>2, <3>3, <3>4 DEF QueueInv
  <2>2. CASE Overflows(c)
    <3>1. queue[c] # <<>> /\ Tail(queue[c]) \in Seq(Items) /\ Gap \in Items
          /\ queue'[c] = Append(Tail(queue[c]), Gap)
        BY <1>over, <2>2
    <3>2. \A x : Has(queue'[c], x) <=> Has(Tail(queue[c]), x) \/ x = Gap
        BY <1>over, <2>2
    <3>3. \A x : Has(Tail(queue[c]), x) => Has(queue[c], x)
        BY <1>1, <3>1, HasTail
    <3>4. Ascending(Tail(queue[c]))
        BY <1>1, <3>1, AscendingTail DEF ClientInv, QueueInv
    <3>5. Ascending(queue'[c])
        BY <3>1, <3>4, AscendingAppend
    <3>6. c \in Subscribed
        BY <2>2 DEF Overflows
    <3>7. \A i \in Ids : Has(queue'[c], i) => i <= n + 1
        BY <1>1, <1>5, <3>2, <3>3 DEF ClientInv, QueueInv
    <3> QED BY <1>2, <1>3, <3>5, <3>6, <3>7 DEF QueueInv
  <2>3. CASE Misses(c) \/ Rests(c)
    <3>1. queue'[c] = queue[c]
        BY <2>3 DEF Misses, Rests
    <3>2. \A i \in Ids : Has(queue[c], i) => i <= n + 1
        BY <1>1, <1>5 DEF ClientInv, QueueInv
    <3> QED BY <1>2, <1>3, <3>1, <3>2 DEF ClientInv, QueueInv
  <2> QED BY <1>4, <2>1, <2>2, <2>3
<1>11. GotInv(c)'
  <2>1. \A i \in Ids : Has(got[c], i) => i <= n + 1
    BY <1>1, <1>5 DEF ClientInv, GotInv
  <2> QED BY <1>2, <1>3, <2>1 DEF ClientInv, GotInv
<1>12. BacklogInv(c)'
  <2>1. \A i \in backlog[c] : i \in 1 .. n
    BY <1>1, <1>5 DEF ClientInv, BacklogInv, CursorInv
  <2> QED BY <1>3, <1>6, <1>7, <2>1 DEF ClientInv, BacklogInv
<1>13. CursorInv(c)'
    BY <1>1, <1>2, <1>3, <1>6 DEF ClientInv, CursorInv
<1>14. trouble'[c] = {} => trouble[c] = {} /\ (Reading(c) => Gets(c))
    BY <1>4 DEF Overflows, Misses, Gets, Rests, Reading, Subscribed
<1>15. SentInv(c)'
  <2> SUFFICES ASSUME trouble'[c] = {} PROVE SentInv(c)'
    BY DEF SentInv
  <2>1. Holes(c) = {} /\ trouble[c] = {}
    BY <1>14 DEF ClientInv, SentInv
  <2>2. Holes(c)' = {}
    <3> SUFFICES ASSUME NEW i \in Holes(c)' PROVE FALSE
        OBVIOUS
    <3>1. /\ i \in Wanted(c)' /\ i \notin Seen(c)
          /\ \E j \in Seen(c) : j < i
          /\ \E j \in Seen(c) : i < j
        BY <1>6 DEF Holes
    <3>2. i \in 1 .. n
        BY <1>1, <1>6, <1>9, <3>1
    <3> QED BY <1>8, <2>1, <3>1, <3>2 DEF Holes
  <2>3. ASSUME Reading(c), NEW i \in Wanted(c)', i <= last[c],
               \E j \in Seen(c) \cup backlog[c] : j < i
        PROVE  i \in Seen(c) \cup backlog[c]
    <3>1. i \in 1 .. n
        BY <1>1, <1>9, <2>3 DEF ClientInv, CursorInv
    <3>2. i \in Wanted(c)
        BY <1>8, <2>3, <3>1
    <3> QED BY <2>1, <2>3, <3>2 DEF ClientInv, SentInv
  <2> QED BY <1>3, <1>6, <2>2, <2>3 DEF SentInv
<1>16. AheadInv(c)'
  <2> SUFFICES ASSUME trouble'[c] = {}, Reading(c), NEW i \in 1 .. n + 1, i > last[c],
                      Passes(c, i)'
               PROVE  Has(queue'[c], i)
    BY <1>2, <1>3 DEF AheadInv
  <2>1. Gets(c) /\ trouble[c] = {}
    BY <1>14
  <2>2. \A x : Has(queue'[c], x) <=> Has(queue[c], x) \/ x = n + 1
    BY <1>got, <2>1
  <2>3. CASE i = n + 1
    BY <2>2, <2>3
  <2>4. CASE i # n + 1
    <3>1. i \in 1 .. n
        BY <1>1, <2>4
    <3>2. Passes(c, i)
        BY <1>7, <3>1
    <3> QED BY <2>1, <2>2, <3>1, <3>2 DEF ClientInv, AheadInv
  <2> QED BY <2>3, <2>4
<1>17. ToldInv(c)'
  <2>1. CASE Gets(c)
    <3>1. \A x : Has(queue'[c], x) <=> Has(queue[c], x) \/ x = n + 1
        BY <1>got, <2>1
    <3> QED BY <1>3, <2>1, <3>1 DEF Gets, ClientInv, ToldInv
  <2>2. CASE Overflows(c)
    <3>1. Has(queue'[c], Gap)
        BY <1>over, <2>2
    <3> QED BY <3>1 DEF ToldInv
  <2>3. CASE Misses(c) \/ Rests(c)
    BY <1>3, <2>3 DEF Misses, Rests, ClientInv, ToldInv
  <2> QED BY <1>4, <2>1, <2>2, <2>3
<1> QED BY <1>10, <1>11, <1>12, <1>13, <1>15, <1>16, <1>17 DEF ClientInv

-----------------------------------------------------------------------------
(* What the client receives. *)

\* The next item is the marker or an event behind all that the client has.
LEMMA Receiving ==
    ASSUME TypeOK, UNCHANGED log, NEW c \in Clients, ClientInv(c), NEW item \in Items,
           Receives(c, item),
           item # Gap => item \in 1 .. Len(log) /\ \A j \in Seen(c) : j < item
    PROVE  /\ got' \in [Clients -> Seq(Items)] /\ cursor' \in [Clients -> 0 .. MaxEvents]
           /\ \A k \in Clients \ {c} : got'[k] = got[k] /\ cursor'[k] = cursor[k]
           /\ GotInv(c)'
           /\ Seen(c)' = IF item # Gap /\ Shown(c, item) THEN Seen(c) \cup {item} ELSE Seen(c)
           /\ cursor'[c] = IF c \in Workbench /\ item # Gap THEN item ELSE cursor[c]
           /\ Has(got[c], Gap) \/ (item = Gap /\ c \in Workbench) => Has(got'[c], Gap)
<1>1. /\ got[c] \in Seq(Items) /\ cursor[c] \in Nat /\ Len(log) \in Nat /\ Len(log) <= MaxEvents
      /\ Gap \notin Int /\ MaxEvents \in Nat /\ \A i \in Ids : i \in Int /\ i >= 1
    BY ClientType, FeedAssumption DEF Ids
<1>2. got \in [Clients -> Seq(Items)] /\ cursor \in [Clients -> 0 .. MaxEvents]
    BY DEF TypeOK
<1>3. item # Gap => item \in Ids /\ item <= Len(log)
    BY <1>1 DEF Items
<1>4. /\ cursor' \in [Clients -> 0 .. MaxEvents]
      /\ \A k \in Clients \ {c} : cursor'[k] = cursor[k]
      /\ cursor'[c] = IF c \in Workbench /\ item # Gap THEN item ELSE cursor[c]
  <2>1. CASE c \in Workbench /\ item # Gap
    <3>1. item > cursor[c] /\ item \in 0 .. MaxEvents
        BY <1>1, <1>3, <2>1 DEF ClientInv, CursorInv, Ids
    <3>2. cursor' = [cursor EXCEPT ![c] = item]
        BY <2>1, <3>1 DEF Receives
    <3> QED BY <1>2, <2>1, <3>1, <3>2
  <2>2. CASE ~(c \in Workbench /\ item # Gap)
    <3>1. cursor' = cursor
        BY <2>2 DEF Receives
    <3> QED BY <1>2, <2>2, <3>1
  <2> QED BY <2>1, <2>2
<1>5. CASE Shown(c, item)
  <2> DEFINE q == got[c]
  <2>1. got' = [got EXCEPT ![c] = Append(q, item)]
    BY <1>5 DEF Receives
  <2>2. q \in Seq(Items) /\ q = got[c]
    BY <1>1
  <2> HIDE DEF q
  <2>3. Append(q, item) \in Seq(Items) /\ \A x : Has(Append(q, item), x) <=> Has(q, x) \/ x = item
    BY <2>2, AppendProperties, HasAppend
  <2>4. got' \in [Clients -> Seq(Items)] /\ got'[c] = Append(q, item)
        /\ \A k \in Clients \ {c} : got'[k] = got[k]
    BY <1>2, <2>1, <2>3
  <2>5. Ascending(Append(q, item))
    <3>1. item # Gap => \A x \in Items : Has(q, x) /\ x # Gap => x < item
        BY <1>1, <1>3, <2>2 DEF Items, Seen, Ids, ClientInv, GotInv
    <3> QED BY <2>2, <3>1, AscendingAppend DEF ClientInv, GotInv
  <2>6. GotInv(c)'
    <3>1. \A i \in Ids : Has(q, i) => i <= Len(log)
        BY <2>2 DEF ClientInv, GotInv
    <3>2. \A i \in Ids : Has(Append(q, item), i) => i <= Len(log)
        BY <1>1, <1>3, <2>3, <3>1
    <3> QED BY <2>4, <2>5, <3>2 DEF GotInv
  <2>7. Seen(c)' = IF item # Gap THEN Seen(c) \cup {item} ELSE Seen(c)
    <3>1. \A i \in 1 .. Len(log) : Has(got'[c], i) <=> Has(got[c], i) \/ i = item
        BY <2>2, <2>3, <2>4
    <3> QED BY <1>1, <3>1 DEF Seen
  <2>8. Has(got[c], Gap) \/ item = Gap => Has(got'[c], Gap)
    BY <2>2, <2>3, <2>4
  <2> QED BY <1>4, <1>5, <2>4, <2>6, <2>7, <2>8
<1>6. CASE ~Shown(c, item)
  <2>1. got' = got
    BY <1>6 DEF Receives
  <2>2. Seen(c)' = Seen(c) /\ GotInv(c)'
    BY <2>1 DEF Seen, ClientInv, GotInv
  <2>3. ~(item = Gap /\ c \in Workbench)
    BY <1>6, FeedAssumption DEF Shown
  <2> QED BY <1>2, <1>4, <1>6, <2>1, <2>2, <2>3
<1> QED BY <1>5, <1>6

\* The parts of TypeOK that a step of one client disturbs.
LEMMA SmallerBacklog ==
    ASSUME TypeOK, NEW c \in Clients, NEW rest \in SUBSET backlog[c]
    PROVE  rest \in SUBSET Ids /\ Cardinality(rest) <= Limit
<1>1. backlog[c] \in SUBSET Ids /\ Cardinality(backlog[c]) <= Limit
    BY ClientType
<1>2. MaxEvents \in Nat /\ Limit \in Nat
    BY FeedAssumption
<1>3. IsFiniteSet(backlog[c]) /\ Cardinality(backlog[c]) \in Nat /\ Cardinality(rest) \in Nat
    BY <1>1, <1>2, Finite DEF Ids
<1>4. Cardinality(rest) <= Cardinality(backlog[c])
    BY <1>3, FS_Subset
<1> QED BY <1>1, <1>2, <1>3, <1>4

\* Behind the last item the client is live.
LEMMA ReplayingType ==
    \A rows : /\ Replaying(rows) \in {"replay", "live"}
              /\ Replaying(rows) = "replay" <=> rows # {}
BY DEF Replaying

\* The history that a client is sent is the oldest of its backlog, so what is missing below
\* it was missing before.
LEMMA SendHistoryStep ==
    ASSUME FeedInv, NEW c \in Clients, SendHistory(c)
    PROVE  FeedInv'
<1> DEFINE item == Min(backlog[c])
           rest == backlog[c] \ {item}
<1>1. /\ pc[c] = "replay" /\ Receives(c, item)
      /\ backlog' = [backlog EXCEPT ![c] = rest]
      /\ pc' = [pc EXCEPT ![c] = Replaying(rest)]
      /\ log' = log /\ alive' = alive /\ orphans' = orphans /\ queue' = queue
      /\ last' = last /\ breaks' = breaks /\ trouble' = trouble
    BY DEF SendHistory, server
<1>2. TypeOK /\ ClientInv(c) /\ \A k \in Clients : ClientInv(k)
    BY DEF FeedInv
<1>3. /\ backlog[c] \in SUBSET Ids /\ last[c] \in Nat /\ cursor[c] \in Nat
      /\ Len(log) \in Nat /\ Len(log) <= MaxEvents
      /\ Gap \notin Int /\ MaxEvents \in Nat /\ \A i \in Ids : i \in Int /\ i >= 1
    BY <1>2, ClientType, FeedAssumption DEF Ids
<1>4. item \in backlog[c] /\ \A y \in backlog[c] : item <= y
  <2>1. backlog[c] # {}
    BY <1>1, <1>2 DEF ClientInv, BacklogInv
  <2> QED BY <1>3, <2>1, MinIsLeast DEF Ids
<1> HIDE DEF item
<1>5. /\ item \in Ids /\ item \in Items /\ item # Gap /\ item \in 1 .. Len(log)
      /\ item <= last[c] /\ Passes(c, item) /\ \A j \in Seen(c) : j < item
    BY <1>2, <1>3, <1>4 DEF ClientInv, BacklogInv, CursorInv, Items
<1>6. /\ got' \in [Clients -> Seq(Items)] /\ cursor' \in [Clients -> 0 .. MaxEvents]
      /\ \A k \in Clients \ {c} : got'[k] = got[k] /\ cursor'[k] = cursor[k]
      /\ GotInv(c)'
      /\ Seen(c)' = IF Shown(c, item) THEN Seen(c) \cup {item} ELSE Seen(c)
      /\ cursor'[c] = IF c \in Workbench THEN item ELSE cursor[c]
      /\ Has(got[c], Gap) => Has(got'[c], Gap)
    BY <1>1, <1>2, <1>5, Receiving
<1>7. /\ backlog'[c] = rest /\ pc'[c] \in {"replay", "live"} /\ (pc'[c] = "replay" <=> rest # {})
      /\ \A k \in Clients \ {c} : backlog'[k] = backlog[k] /\ pc'[k] = pc[k]
    BY <1>1, <1>2, ReplayingType, ZenonT(60) DEF TypeOK
<1>8. TypeOK'
  <2>1. rest \in SUBSET Ids /\ Cardinality(rest) <= Limit
    BY <1>2, SmallerBacklog
  <2>2. backlog' \in [Clients -> SUBSET Ids]
    BY <1>1, <1>2, <2>1 DEF TypeOK
  <2>3. \A k \in Clients : Cardinality(backlog'[k]) <= Limit
    BY <1>2, <1>7, <2>1 DEF TypeOK
  <2>4. pc' \in [Clients -> {"off", "fetched", "opened", "replay", "live", "done"}]
    BY <1>1, <1>2, ReplayingType DEF TypeOK
  <2> QED BY <1>1, <1>2, <1>6, <2>2, <2>3, <2>4 DEF TypeOK
<1>9. ASSUME NEW k \in Clients, k # c PROVE ClientInv(k)'
    BY <1>1, <1>2, <1>6, <1>7, <1>9, ClientKept
<1>10. /\ \A i : Passes(c, i)' <=> Passes(c, i)
       /\ Wanted(c)' = Wanted(c) /\ (item \in Wanted(c) => Shown(c, item))
  <2>1. \A i : (Passes(c, i)' <=> Passes(c, i)) /\ (Shown(c, i)' <=> Shown(c, i))
    BY <1>1 DEF Passes, Shown
  <2> QED BY <1>1, <2>1 DEF Wanted
<1>11. Reading(c) /\ Reading(c)' /\ c \in Subscribed /\ c \in Subscribed'
    BY <1>1, <1>7 DEF Reading, Subscribed
<1>12. QueueInv(c)'
    BY <1>1, <1>2, <1>11 DEF ClientInv, QueueInv
<1>13. BacklogInv(c)'
  <2>1. ASSUME NEW i \in rest PROVE i <= last[c] /\ Passes(c, i) /\ \A j \in Seen(c)' : j < i
    <3>1. i \in backlog[c] /\ i # item /\ i \in Int /\ item \in Int
        BY <1>3, <1>5
    <3>2. item < i
        BY <1>4, <3>1
    <3> QED BY <1>2, <1>6, <3>1, <3>2 DEF ClientInv, BacklogInv
  <2> QED BY <1>1, <1>7, <1>10, <2>1 DEF BacklogInv
<1>14. CursorInv(c)'
  <2>1. cursor'[c] <= Len(log) /\ last[c] <= Len(log)
    BY <1>2, <1>5, <1>6 DEF ClientInv, CursorInv
  <2>2. \A j \in Seen(c)' : j <= last[c]
    BY <1>2, <1>5, <1>6, <1>11 DEF ClientInv, CursorInv
  <2>3. c \in Workbench => (\A j \in Seen(c)' : j <= cursor'[c]) /\ cursor'[c] \in Seen(c)'
    <3>1. c \in Workbench => Shown(c, item)
        BY FeedAssumption DEF Shown
    <3>2. \A j \in Seen(c) : j \in Int
        BY <1>3 DEF Seen
    <3> QED BY <1>5, <1>6, <3>1, <3>2
  <2> QED BY <1>1, <1>7, <2>1, <2>2, <2>3 DEF CursorInv
<1>15. SentInv(c)'
  <2> SUFFICES ASSUME trouble[c] = {} PROVE SentInv(c)'
    BY <1>1 DEF SentInv
  <2>1. /\ Holes(c) = {}
        /\ \A i \in Wanted(c) : i <= last[c] /\ (\E j \in Seen(c) \cup backlog[c] : j < i) =>
               i \in Seen(c) \cup backlog[c]
    BY <1>2, <1>11 DEF ClientInv, SentInv
  <2>2. ASSUME NEW i \in Wanted(c), i <= last[c], \E j \in Seen(c)' \cup rest : j < i
        PROVE  i \in Seen(c)' \cup rest
    <3>1. \E j \in Seen(c) \cup backlog[c] : j < i
        BY <1>4, <1>6, <2>2
    <3>2. i \in Seen(c) \cup backlog[c]
        BY <2>1, <2>2, <3>1
    <3> QED BY <1>6, <1>10, <3>2
  <2>3. Holes(c)' = {}
    <3> SUFFICES ASSUME NEW i \in Holes(c)' PROVE FALSE
        OBVIOUS
    <3>1. i \in Wanted(c) /\ i \notin Seen(c)' /\ i \in 1 .. Len(log)
        BY <1>10 DEF Holes, Wanted
    <3>2. PICK a \in Seen(c)', b \in Seen(c)' : a < i /\ i < b
        BY DEF Holes
    <3>3. \A j \in Seen(c) : j \in Int
        BY <1>3 DEF Seen
    <3>4. i \notin Seen(c) /\ i \in Int /\ item \in Int
        BY <1>3, <1>5, <1>6, <3>1
    <3>5. b \notin Seen(c) \/ a \notin Seen(c)
        BY <2>1, <3>1, <3>2, <3>4 DEF Holes
    <3>6. b = item /\ a \in Seen(c)
        BY <1>5, <1>6, <3>2, <3>3, <3>4, <3>5
    <3>7. i <= last[c]
        BY <1>3, <1>5, <3>2, <3>4, <3>6
    <3>8. i \in backlog[c]
        BY <2>1, <3>1, <3>2, <3>4, <3>6, <3>7
    <3> QED BY <1>3, <1>4, <3>2, <3>4, <3>6, <3>8
  <2> QED BY <1>1, <1>7, <1>10, <2>2, <2>3 DEF SentInv
<1>16. AheadInv(c)' /\ ToldInv(c)'
    BY <1>1, <1>2, <1>6, <1>10, <1>11 DEF ClientInv, AheadInv, ToldInv
<1>17. ClientInv(c)'
    BY <1>6, <1>12, <1>13, <1>14, <1>15, <1>16 DEF ClientInv
<1> QED BY <1>8, <1>9, <1>17 DEF FeedInv

\* What forward() takes from the queue is the oldest event of it, so everything between
\* last_event_id and that event is none of the client's.
LEMMA ForwardStep ==
    ASSUME FeedInv, NEW c \in Clients, Forward(c)
    PROVE  FeedInv'
<1> DEFINE item == Head(queue[c])
           rest == Tail(queue[c])
           sent == Concerns(c, item) /\ ~Skips(c, item)
<1>1. /\ pc[c] = "live" /\ queue[c] # <<>>
      /\ queue' = [queue EXCEPT ![c] = rest]
      /\ sent => Receives(c, item)
      /\ ~sent => got' = got /\ cursor' = cursor
      /\ last' = IF sent /\ item # Gap THEN [last EXCEPT ![c] = item] ELSE last
      /\ log' = log /\ alive' = alive /\ orphans' = orphans /\ pc' = pc
      /\ backlog' = backlog /\ breaks' = breaks /\ trouble' = trouble
    BY DEF Forward, server, client
<1>2. TypeOK /\ ClientInv(c) /\ \A k \in Clients : ClientInv(k)
    BY DEF FeedInv
<1>3. /\ queue[c] \in Seq(Items) /\ Len(queue[c]) <= QueueSize /\ Len(queue[c]) \in Nat
      /\ last[c] \in Nat /\ cursor[c] \in Nat /\ Len(log) \in Nat /\ Len(log) <= MaxEvents
      /\ Gap \notin Int /\ MaxEvents \in Nat /\ \A i \in Ids : i \in Int /\ i >= 1
      /\ QueueSize \in Nat
    BY <1>2, ClientType, FeedAssumption DEF Ids
<1>4. /\ item \in Items /\ rest \in Seq(Items) /\ Len(rest) = Len(queue[c]) - 1
    BY <1>1, <1>3, HeadTailProperties
<1>5. \A x : Has(queue[c], x) <=> x = item \/ Has(rest, x)
    BY <1>1, <1>3, HasTail
<1>6. Ascending(rest) /\ \A x : Has(rest, x) /\ Gap \notin {x, item} => item < x
    BY <1>1, <1>2, <1>3, AscendingTail DEF ClientInv, QueueInv
<1>7. item # Gap => /\ item \in Ids /\ item \in 1 .. Len(log)
                    /\ sent => item > last[c] /\ Passes(c, item)
  <2> SUFFICES ASSUME item # Gap PROVE /\ item \in Ids /\ item \in 1 .. Len(log)
                                       /\ sent => item > last[c] /\ Passes(c, item)
    OBVIOUS
  <2>1. item \in Ids /\ item <= Len(log)
    BY <1>2, <1>4, <1>5 DEF Items, ClientInv, QueueInv
  <2>2. sent => item > last[c] /\ Passes(c, item)
    BY <1>3, <2>1 DEF Concerns, Skips
  <2> QED BY <1>3, <2>1, <2>2
<1>8. item = Gap /\ c \in Workbench /\ Watched[c] = None => sent
    BY DEF Concerns, Skips
<1>9. \A i \in 1 .. Len(log) : i > last[c] /\ Passes(c, i) /\ i = item => sent
    BY <1>3 DEF Concerns, Skips
<1> HIDE DEF item, rest, sent
<1>10. /\ backlog[c] = {} /\ Reading(c) /\ Reading(c)' /\ c \in Subscribed /\ c \in Subscribed'
       /\ \A j \in Seen(c) : j <= last[c] /\ j \in Int
    BY <1>1, <1>2, <1>3 DEF ClientInv, BacklogInv, CursorInv, Reading, Subscribed, Seen
<1>11. /\ got' \in [Clients -> Seq(Items)] /\ cursor' \in [Clients -> 0 .. MaxEvents]
       /\ \A k \in Clients \ {c} : got'[k] = got[k] /\ cursor'[k] = cursor[k]
       /\ GotInv(c)'
       /\ Seen(c)' = IF sent /\ item # Gap /\ Shown(c, item) THEN Seen(c) \cup {item} ELSE Seen(c)
       /\ cursor'[c] = IF sent /\ c \in Workbench /\ item # Gap THEN item ELSE cursor[c]
       /\ Has(got[c], Gap) \/ (sent /\ item = Gap /\ c \in Workbench) => Has(got'[c], Gap)
  <2>1. CASE sent
    <3>1. Receives(c, item)
        BY <1>1, <2>1
    <3>2. item # Gap => item \in 1 .. Len(log) /\ \A j \in Seen(c) : j < item
        BY <1>3, <1>7, <1>10, <2>1
    <3> QED BY <1>1, <1>2, <1>4, <2>1, <3>1, <3>2, Receiving
  <2>2. CASE ~sent
    <3>1. got' = got /\ cursor' = cursor
        BY <1>1, <2>2
    <3>2. Seen(c)' = Seen(c) /\ GotInv(c)'
        BY <1>1, <1>2, <3>1 DEF Seen, ClientInv, GotInv
    <3> QED BY <1>2, <2>2, <3>1, <3>2 DEF TypeOK
  <2> QED BY <2>1, <2>2
<1>12. /\ queue'[c] = rest /\ \A k \in Clients \ {c} : queue'[k] = queue[k] /\ last'[k] = last[k]
       /\ last'[c] = IF sent /\ item # Gap THEN item ELSE last[c]
    BY <1>1, <1>2 DEF TypeOK
<1>13. TypeOK'
  <2>1. queue' \in [Clients -> Seq(Items)]
    BY <1>1, <1>2, <1>4 DEF TypeOK
  <2>2. ASSUME NEW k \in Clients PROVE Len(queue'[k]) <= QueueSize
    <3>1. CASE k = c
        BY <1>3, <1>4, <1>12, <3>1
    <3>2. CASE k # c
        BY <1>2, <1>12, <3>2 DEF TypeOK
    <3> QED BY <3>1, <3>2
  <2>3. last' \in [Clients -> 0 .. MaxEvents]
    <3>1. item # Gap => item \in 0 .. MaxEvents
        BY <1>3, <1>7
    <3> QED BY <1>1, <1>2, <3>1 DEF TypeOK
  <2> QED BY <1>1, <1>2, <1>11, <2>1, <2>2, <2>3 DEF TypeOK
<1>14. ASSUME NEW k \in Clients, k # c PROVE ClientInv(k)'
    BY <1>1, <1>2, <1>11, <1>12, <1>14, ClientKept
<1>15. /\ \A i : Passes(c, i)' <=> Passes(c, i)
       /\ Wanted(c)' = Wanted(c) /\ (item \in Wanted(c) => Shown(c, item))
       /\ \A i \in Wanted(c) : i \in 1 .. Len(log) /\ Passes(c, i)
  <2>1. \A i : (Passes(c, i)' <=> Passes(c, i)) /\ (Shown(c, i)' <=> Shown(c, i))
    BY <1>1 DEF Passes, Shown
  <2> QED BY <1>1, <2>1 DEF Wanted
<1>16. QueueInv(c)'
  <2>1. \A i \in Ids : Has(rest, i) => i <= Len(log)
    BY <1>2, <1>5 DEF ClientInv, QueueInv
  <2> QED BY <1>1, <1>6, <1>10, <1>12, <2>1 DEF QueueInv
<1>17. BacklogInv(c)'
    BY <1>1, <1>10 DEF BacklogInv
<1>18. CursorInv(c)'
  <2>1. cursor'[c] <= Len(log) /\ last'[c] <= Len(log)
    BY <1>2, <1>3, <1>7, <1>11, <1>12 DEF ClientInv, CursorInv
  <2>2. \A j \in Seen(c)' : j <= last'[c]
    BY <1>3, <1>7, <1>10, <1>11, <1>12
  <2>3. ASSUME c \in Workbench
        PROVE  /\ \A j \in Seen(c)' : j <= cursor'[c]
               /\ cursor'[c] # 0 => cursor'[c] \in Seen(c)'
    <3>1. Shown(c, item)
        BY <2>3, FeedAssumption DEF Shown
    <3>2. CASE sent /\ item # Gap
        BY <1>3, <1>7, <1>10, <1>11, <2>3, <3>1, <3>2
    <3>3. CASE ~(sent /\ item # Gap)
        BY <1>2, <1>11, <2>3, <3>3 DEF ClientInv, CursorInv
    <3> QED BY <3>2, <3>3
  <2> QED BY <1>1, <2>1, <2>2, <2>3 DEF CursorInv
<1>19. ASSUME trouble[c] = {}, NEW i \in 1 .. Len(log), Passes(c, i), i > last[c]
       PROVE  (sent /\ i = item) \/ Has(rest, i)
    BY <1>2, <1>5, <1>9, <1>10, <1>19 DEF ClientInv, AheadInv
<1>20. SentInv(c)'
  <2> SUFFICES ASSUME trouble[c] = {} PROVE SentInv(c)'
    BY <1>1 DEF SentInv
  <2>1. /\ Holes(c) = {}
        /\ \A i \in Wanted(c) : i <= last[c] /\ (\E j \in Seen(c) : j < i) => i \in Seen(c)
    BY <1>2, <1>10 DEF ClientInv, SentInv
  <2>2. ASSUME NEW i \in Wanted(c), i <= last'[c], \E j \in Seen(c)' : j < i
        PROVE  i \in Seen(c)'
    <3>1. CASE i <= last[c]
      <4>1. \E j \in Seen(c) : j < i
        <5>1. i \in Int
            BY <1>15
        <5> QED BY <1>3, <1>7, <1>11, <2>2, <3>1, <5>1
      <4> QED BY <1>11, <2>1, <3>1, <4>1
    <3>2. CASE ~(i <= last[c])
      <4>1. i \in 1 .. Len(log) /\ Passes(c, i) /\ i > last[c]
        BY <1>3, <1>15, <3>2
      <4>2. sent /\ item # Gap /\ i <= item /\ i \in Int /\ item \in Int
        BY <1>3, <1>7, <1>12, <2>2, <3>2, <4>1
      <4>3. ~Has(rest, i)
        BY <1>3, <1>6, <4>2
      <4>4. i = item
        BY <1>19, <4>1, <4>3
      <4> QED BY <1>11, <1>15, <2>2, <4>2, <4>4
    <3> QED BY <3>1, <3>2
  <2>3. Holes(c)' = {}
    <3> SUFFICES ASSUME NEW i \in Holes(c)' PROVE FALSE
        OBVIOUS
    <3>1. i \in Wanted(c) /\ i \notin Seen(c)' /\ i \in Int
        BY <1>15 DEF Holes
    <3>2. PICK a \in Seen(c)', b \in Seen(c)' : a < i /\ i < b
        BY DEF Holes
    <3>3. b <= last'[c] /\ b \in Int /\ last'[c] \in Int
        BY <1>3, <1>7, <1>10, <1>11, <1>12
    <3>4. i <= last'[c]
        BY <3>1, <3>2, <3>3
    <3> QED BY <2>2, <3>1, <3>2, <3>4
  <2> QED BY <1>1, <1>10, <1>15, <2>2, <2>3 DEF SentInv
<1>21. AheadInv(c)'
  <2> SUFFICES ASSUME trouble[c] = {}, NEW i \in 1 .. Len(log), i > last'[c], Passes(c, i)
               PROVE  Has(rest, i)
    BY <1>1, <1>12, <1>15 DEF AheadInv
  <2>1. i > last[c] /\ ~(sent /\ i = item)
    BY <1>3, <1>7, <1>12
  <2> QED BY <1>19, <2>1
<1>22. ToldInv(c)'
  <2> SUFFICES ASSUME c \in Workbench, Watched[c] = None, "marked" \in trouble[c],
                      "left" \notin trouble[c]
               PROVE  Has(rest, Gap) \/ Has(got'[c], Gap)
    BY <1>1, <1>12 DEF ToldInv
  <2>1. Has(queue[c], Gap) \/ Has(got[c], Gap)
    BY <1>2 DEF ClientInv, ToldInv
  <2> QED BY <1>5, <1>8, <1>11, <2>1
<1>23. ClientInv(c)'
    BY <1>11, <1>16, <1>17, <1>18, <1>20, <1>21, <1>22 DEF ClientInv
<1> QED BY <1>13, <1>14, <1>23 DEF FeedInv

-----------------------------------------------------------------------------
(* Connections. *)

\* NextCursor is the greatest of the rows.
LEMMA NextCursorType ==
    ASSUME TypeOK, NEW rows \in SUBSET (1 .. Len(log)), NEW after \in Nat
    PROVE  /\ rows = {} => NextCursor(rows, after) = after
           /\ rows # {} => /\ NextCursor(rows, after) \in rows
                           /\ \A i \in rows : i <= NextCursor(rows, after)
<1>1. Len(log) \in Nat
    BY DEF TypeOK
<1> QED BY <1>1, MaxIsGreatest DEF NextCursor

\* A listing of rows has just these, in order.
LEMMA ListingType ==
    ASSUME TypeOK, NEW rows \in SUBSET (1 .. Len(log)), NEW items \in Listings(rows)
    PROVE  /\ items \in Seq(Items) /\ Ascending(items)
           /\ \A x : Has(items, x) <=> x \in rows
<1>1. Len(log) \in Nat /\ Len(log) <= MaxEvents /\ MaxEvents \in Nat
    BY FeedAssumption DEF TypeOK
<1>2. Cardinality(rows) \in Nat
    BY <1>1, Finite
<1>3. /\ items \in [1 .. Cardinality(rows) -> rows]
      /\ \A i \in rows : \E n \in DOMAIN items : items[n] = i
      /\ \A m, n \in DOMAIN items : m < n => items[m] < items[n]
    BY DEF Listings
<1>4. items \in Seq(rows) /\ Len(items) = Cardinality(rows)
    BY <1>2, <1>3
<1>5. rows \subseteq Items
    BY <1>1 DEF Items, Ids
<1>6. items \in Seq(Items)
  <2>1. items \in [1 .. Cardinality(rows) -> Items]
    BY <1>3, <1>5
  <2> QED BY <1>2, <2>1
<1>7. Ascending(items)
    BY <1>2, <1>3, <1>4 DEF Ascending
<1>8. \A x : Has(items, x) <=> x \in rows
    BY <1>2, <1>3, <1>4 DEF Has
<1> QED BY <1>6, <1>7, <1>8

\* "iris logs --follow" starts with the newest logs, none missing between them.
LEMMA FetchStep ==
    ASSUME FeedInv, NEW c \in Clients, Fetch(c)
    PROVE  FeedInv'
<1> DEFINE rows == latest_events(c, {"log"})
           next == NextCursor(rows, 0)
<1>1. PICK items \in Listings(rows) : got' = [got EXCEPT ![c] = items]
    BY DEF Fetch
<1>2. /\ c \in Followers /\ pc[c] = "off" /\ pc' = [pc EXCEPT ![c] = "fetched"]
      /\ cursor' = [cursor EXCEPT ![c] = next]
      /\ log' = log /\ alive' = alive /\ orphans' = orphans /\ queue' = queue
      /\ backlog' = backlog /\ last' = last /\ breaks' = breaks /\ trouble' = trouble
    BY DEF Fetch, server
<1>3. TypeOK /\ ClientInv(c) /\ \A k \in Clients : ClientInv(k)
    BY DEF FeedInv
<1>4. /\ rows \in SUBSET (1 .. Len(log))
      /\ \A i \in Rows(c, {"log"}), j \in rows : j <= i => i \in rows
    BY <1>3, LatestRows
<1> HIDE DEF rows
<1>5. /\ Len(log) \in Nat /\ Len(log) <= MaxEvents /\ MaxEvents \in Nat /\ last[c] \in Nat
      /\ \A i \in Ids : i \in Int
      /\ got \in [Clients -> Seq(Items)] /\ cursor \in [Clients -> 0 .. MaxEvents]
      /\ pc \in [Clients -> {"off", "fetched", "opened", "replay", "live", "done"}]
    BY <1>3, ClientType, FeedAssumption DEF TypeOK, Ids
<1>6. /\ rows = {} => next = 0
      /\ rows # {} => next \in rows /\ \A i \in rows : i <= next
    BY <1>3, <1>4, NextCursorType
<1> HIDE DEF next
<1>7. items \in Seq(Items) /\ Ascending(items) /\ \A x : Has(items, x) <=> x \in rows
    BY <1>1, <1>3, <1>4, ListingType
<1>8. next \in 0 .. MaxEvents /\ next <= Len(log)
  <2>1. CASE rows = {}
    BY <1>5, <1>6, <2>1
  <2>2. CASE rows # {}
    <3>1. next \in 1 .. Len(log)
        BY <1>4, <1>6, <2>2
    <3> QED BY <1>5, <3>1
  <2> QED BY <2>1, <2>2
<1>9. /\ got'[c] = items /\ cursor'[c] = next /\ pc'[c] = "fetched"
      /\ \A k \in Clients \ {c} : got'[k] = got[k] /\ cursor'[k] = cursor[k] /\ pc'[k] = pc[k]
    BY <1>1, <1>2, <1>5
<1>10. TypeOK'
  <2>1. /\ got' \in [Clients -> Seq(Items)] /\ cursor' \in [Clients -> 0 .. MaxEvents]
        /\ pc' \in [Clients -> {"off", "fetched", "opened", "replay", "live", "done"}]
    BY <1>1, <1>2, <1>5, <1>7, <1>8
  <2> QED BY <1>2, <1>3, <2>1 DEF TypeOK
<1>11. ASSUME NEW k \in Clients, k # c PROVE ClientInv(k)'
    BY <1>2, <1>3, <1>9, <1>11, ClientKept
<1>12. Seen(c)' = rows
    BY <1>2, <1>4, <1>7, <1>9 DEF Seen
<1>13. QueueInv(c)' /\ GotInv(c)' /\ BacklogInv(c)'
  <2>1. c \notin Subscribed /\ c \notin Subscribed'
    BY <1>2, <1>9 DEF Subscribed
  <2>2. QueueInv(c)'
    BY <1>2, <1>3, <2>1 DEF ClientInv, QueueInv
  <2>3. GotInv(c)'
    <3>1. \A i : Has(items, i) => i <= Len(log)
      <4>1. \A i \in 1 .. Len(log) : i <= Len(log)
        BY <1>5
      <4> QED BY <1>4, <1>7, <4>1
    <3>2. \A i : Has(got[c], i)' <=> Has(items, i)
        BY <1>9 DEF Has
    <3>3. Ascending(got[c])'
        BY <1>7, <1>9 DEF Ascending
    <3> QED BY <1>2, <3>1, <3>2, <3>3 DEF GotInv
  <2>4. BacklogInv(c)'
    BY <1>2, <1>3, <1>9 DEF ClientInv, BacklogInv
  <2> QED BY <2>2, <2>3, <2>4
<1>14. CursorInv(c)'
    BY <1>2, <1>3, <1>6, <1>8, <1>9, <1>12 DEF ClientInv, CursorInv, Reading
<1>15. SentInv(c)'
  <2>1. \A i \in Wanted(c)' : i \in Rows(c, {"log"})
    BY <1>2 DEF Wanted, Rows, Shown, Passes
  <2>2. Holes(c)' = {}
    <3> SUFFICES ASSUME NEW i \in Holes(c)' PROVE FALSE
        OBVIOUS
    <3>1. i \in Rows(c, {"log"}) /\ i \notin rows /\ \E j \in rows : j < i
        BY <1>12, <2>1 DEF Holes
    <3>2. i \in Int /\ \A j \in rows : j \in Int
        BY <1>4, <3>1 DEF Rows
    <3> QED BY <1>4, <3>1, <3>2
  <2> QED BY <1>9, <2>2 DEF SentInv, Reading
<1>16. AheadInv(c)' /\ ToldInv(c)'
    BY <1>2, <1>9, FeedAssumption DEF AheadInv, ToldInv, Reading
<1>17. ClientInv(c)'
    BY <1>13, <1>14, <1>15, <1>16 DEF ClientInv
<1> QED BY <1>10, <1>11, <1>17 DEF FeedInv

\* A new connection starts with an empty queue.
LEMMA ConnectStep ==
    ASSUME FeedInv, NEW c \in Clients, Connect(c)
    PROVE  FeedInv'
<1>1. /\ pc[c] \in {"off", "fetched"} /\ pc' = [pc EXCEPT ![c] = "opened"]
      /\ queue' = [queue EXCEPT ![c] = <<>>]
      /\ log' = log /\ alive' = alive /\ orphans' = orphans /\ backlog' = backlog
      /\ last' = last /\ cursor' = cursor /\ got' = got /\ breaks' = breaks /\ trouble' = trouble
      /\ c \notin Workbench => pc[c] = "fetched"
    BY DEF Connect, server, client, Clients
<1>2. TypeOK /\ ClientInv(c) /\ \A k \in Clients : ClientInv(k)
    BY DEF FeedInv
<1>3. queue' = queue
  <2>1. queue[c] = <<>>
    BY <1>1, <1>2 DEF ClientInv, QueueInv, Subscribed
  <2> QED BY <1>1, <1>2, <2>1 DEF TypeOK
<1>4. TypeOK' /\ pc'[c] = "opened" /\ \A k \in Clients \ {c} : pc'[k] = pc[k]
    BY <1>1, <1>2, <1>3 DEF TypeOK
<1>5. ASSUME NEW k \in Clients, k # c PROVE ClientInv(k)'
    BY <1>1, <1>2, <1>3, <1>4, <1>5, ClientKept
<1>6. /\ Seen(c)' = Seen(c) /\ Holes(c)' = Holes(c) /\ ~Reading(c)'
      /\ \A i : Passes(c, i)' <=> Passes(c, i)
    BY <1>1, <1>4 DEF Seen, Holes, Wanted, Passes, Shown, Reading
<1>7. QueueInv(c)' /\ GotInv(c)' /\ ToldInv(c)'
  <2>1. c \in Subscribed'
    BY <1>4 DEF Subscribed
  <2> QED BY <1>1, <1>2, <1>3, <2>1 DEF ClientInv, QueueInv, GotInv, ToldInv
<1>8. BacklogInv(c)' /\ CursorInv(c)'
    BY <1>1, <1>2, <1>4, <1>6 DEF ClientInv, BacklogInv, CursorInv
<1>9. SentInv(c)' /\ AheadInv(c)'
    BY <1>1, <1>2, <1>6 DEF ClientInv, SentInv, AheadInv
<1>10. ClientInv(c)'
    BY <1>7, <1>8, <1>9 DEF ClientInv
<1> QED BY <1>4, <1>5, <1>10 DEF FeedInv

\* The history of a client that is connected: the oldest rows after its cursor, or the newest
\* when it has none yet.
LEMMA HistoryRows ==
    ASSUME TypeOK, NEW c \in Clients, NEW rows,
           rows = IF cursor[c] # 0 THEN events_after(c, cursor[c])
                  ELSE latest_events(c, Categories)
    PROVE  /\ rows \in SUBSET (1 .. Len(log)) /\ Cardinality(rows) <= Limit
           /\ \A i \in rows : Passes(c, i) /\ i > cursor[c]
           /\ cursor[c] # 0 =>
                 \A i \in 1 .. Len(log), j \in rows :
                     i > cursor[c] /\ Passes(c, i) /\ i <= j => i \in rows
           /\ cursor[c] = 0 =>
                 \A i \in 1 .. Len(log) :
                     Passes(c, i) => /\ \A j \in rows : j <= i => i \in rows
                                     /\ \E j \in rows : i <= j
<1>1. cursor[c] \in Nat /\ Len(log) \in Nat
    BY ClientType
<1>2. CASE cursor[c] # 0
  <2>1. rows = events_after(c, cursor[c])
    BY <1>2
  <2> QED BY <1>1, <1>2, <2>1, AfterRows
<1>3. CASE cursor[c] = 0
  <2>1. rows = latest_events(c, Categories)
    BY <1>3
  <2>2. /\ rows \subseteq 1 .. Len(log) /\ Cardinality(rows) <= Limit
        /\ \A i \in rows : Passes(c, i)
        /\ \A i \in Rows(c, Categories), j \in rows : j <= i => i \in rows
        /\ \A i \in Rows(c, Categories) : \E j \in rows : i <= j
    BY <2>1, LatestRows
  <2>3. \A i \in 1 .. Len(log) : Passes(c, i) => i \in Rows(c, Categories)
    <3>1. \A i \in 1 .. Len(log) : log[i] \in Events
        BY <1>1 DEF TypeOK
    <3> QED BY <3>1 DEF Rows, Events
  <2>4. \A i \in rows : i > 0
    BY <1>1, <2>2
  <2> QED BY <1>3, <2>2, <2>3, <2>4
<1> QED BY <1>2, <1>3

\* The history that a connection reads goes on where the client stands, and what it does not
\* have is in the queue, unless the limit cuts it.
LEMMA ReadHistoryStep ==
    ASSUME FeedInv, NEW c \in Clients, ReadHistory(c)
    PROVE  FeedInv'
<1> DEFINE rows == IF cursor[c] # 0 THEN events_after(c, cursor[c])
                   ELSE latest_events(c, Categories)
           next == NextCursor(rows, cursor[c])
<1>1. /\ pc[c] = "opened" /\ pc' = [pc EXCEPT ![c] = Replaying(rows)]
      /\ backlog' = [backlog EXCEPT ![c] = rows]
      /\ last' = [last EXCEPT ![c] = next]
      /\ trouble' = IF Cut(c, rows) THEN [trouble EXCEPT ![c] = @ \cup {"cut"}] ELSE trouble
      /\ log' = log /\ alive' = alive /\ orphans' = orphans /\ queue' = queue
      /\ cursor' = cursor /\ got' = got /\ breaks' = breaks
    BY DEF ReadHistory, server, client
<1>2. TypeOK /\ ClientInv(c) /\ \A k \in Clients : ClientInv(k)
    BY DEF FeedInv
<1>3. /\ rows \in SUBSET (1 .. Len(log)) /\ Cardinality(rows) <= Limit
      /\ \A i \in rows : Passes(c, i) /\ i > cursor[c]
    BY <1>2, HistoryRows
<1>4. cursor[c] # 0 =>
          \A i \in 1 .. Len(log), j \in rows :
              i > cursor[c] /\ Passes(c, i) /\ i <= j => i \in rows
    BY <1>2, HistoryRows
<1>5. cursor[c] = 0 =>
          \A i \in 1 .. Len(log) :
              Passes(c, i) => /\ \A j \in rows : j <= i => i \in rows
                              /\ \E j \in rows : i <= j
    BY <1>2, HistoryRows
<1> HIDE DEF rows
<1>6. /\ Len(log) \in Nat /\ Len(log) <= MaxEvents /\ MaxEvents \in Nat /\ cursor[c] \in Nat
      /\ pc \in [Clients -> {"off", "fetched", "opened", "replay", "live", "done"}]
      /\ backlog \in [Clients -> SUBSET Ids] /\ last \in [Clients -> 0 .. MaxEvents]
      /\ trouble \in [Clients -> SUBSET {"marked", "robbed", "skipped", "cut", "left"}]
    BY <1>2, ClientType, FeedAssumption DEF TypeOK
<1>7. /\ rows = {} => next = cursor[c]
      /\ rows # {} => next \in rows /\ \A i \in rows : i <= next
    BY <1>2, <1>3, <1>6, NextCursorType
<1> HIDE DEF next
<1>8. next \in 0 .. MaxEvents /\ next <= Len(log) /\ cursor[c] <= next
  <2>1. CASE rows = {}
    BY <1>2, <1>6, <1>7, <2>1 DEF ClientInv, CursorInv
  <2>2. CASE rows # {}
    <3>1. next \in 1 .. Len(log) /\ cursor[c] < next
        BY <1>3, <1>7, <2>2
    <3> QED BY <1>6, <3>1
  <2> QED BY <2>1, <2>2
<1>9. /\ \A j \in Seen(c) : j <= cursor[c] /\ j \in 1 .. Len(log)
      /\ cursor[c] # 0 => cursor[c] \in Seen(c)
  <2>1. \A j \in Seen(c) : j \in 1 .. Len(log)
    BY DEF Seen
  <2> QED BY <1>1, <1>2, <2>1 DEF ClientInv, CursorInv
<1>10. /\ backlog'[c] = rows /\ last'[c] = next
       /\ pc'[c] \in {"replay", "live"} /\ (pc'[c] = "replay" <=> rows # {})
       /\ \A k \in Clients \ {c} : /\ backlog'[k] = backlog[k] /\ last'[k] = last[k]
                                   /\ pc'[k] = pc[k] /\ trouble'[k] = trouble[k]
       /\ trouble'[c] = IF Cut(c, rows) THEN trouble[c] \cup {"cut"} ELSE trouble[c]
    BY <1>1, <1>6, ReplayingType
<1>11. TypeOK'
  <2>1. rows \in SUBSET Ids
    BY <1>3, <1>6 DEF Ids
  <2>2. backlog' \in [Clients -> SUBSET Ids] /\ last' \in [Clients -> 0 .. MaxEvents]
    BY <1>1, <1>6, <1>8, <2>1
  <2>3. \A k \in Clients : Cardinality(backlog'[k]) <= Limit
    BY <1>2, <1>3, <1>10 DEF TypeOK
  <2>4. pc' \in [Clients -> {"off", "fetched", "opened", "replay", "live", "done"}]
    BY <1>1, <1>6, ReplayingType
  <2>5. trouble' \in [Clients -> SUBSET {"marked", "robbed", "skipped", "cut", "left"}]
    BY <1>1, <1>6
  <2> QED BY <1>1, <1>2, <2>2, <2>3, <2>4, <2>5 DEF TypeOK
<1>12. ASSUME NEW k \in Clients, k # c PROVE ClientInv(k)'
    BY <1>1, <1>2, <1>10, <1>12, ClientKept
<1>13. /\ Seen(c)' = Seen(c) /\ Wanted(c)' = Wanted(c) /\ Holes(c)' = Holes(c)
       /\ \A i : Passes(c, i)' <=> Passes(c, i)
    BY <1>1 DEF Seen, Holes, Wanted, Passes, Shown
<1>14. Reading(c)' /\ c \in Subscribed /\ c \in Subscribed'
    BY <1>1, <1>10 DEF Reading, Subscribed
<1>15. QueueInv(c)' /\ GotInv(c)' /\ ToldInv(c)'
  <2>1. QueueInv(c)' /\ GotInv(c)'
    BY <1>1, <1>2, <1>14 DEF ClientInv, QueueInv, GotInv
  <2>2. ToldInv(c)'
    BY <1>1, <1>2, <1>10 DEF ClientInv, ToldInv
  <2> QED BY <2>1, <2>2
<1>16. BacklogInv(c)'
  <2>1. ASSUME NEW i \in rows PROVE i <= next /\ Passes(c, i) /\ \A j \in Seen(c) : j < i
    <3>1. i \in 1 .. Len(log)
        BY <1>3
    <3> QED BY <1>3, <1>6, <1>7, <1>9, <3>1
  <2> QED BY <1>10, <1>13, <2>1 DEF BacklogInv
<1>17. CursorInv(c)'
  <2>1. cursor[c] <= Len(log)
    BY <1>2 DEF ClientInv, CursorInv
  <2>2. \A j \in Seen(c) : j <= next
    BY <1>6, <1>8, <1>9
  <2> QED BY <1>1, <1>8, <1>9, <1>10, <1>13, <2>1, <2>2 DEF CursorInv
<1>18. trouble'[c] = {} => trouble[c] = {} /\ ~Cut(c, rows)
    BY <1>10
<1>19. SentInv(c)'
  <2> SUFFICES ASSUME trouble[c] = {} PROVE SentInv(c)'
    BY <1>18 DEF SentInv
  <2>1. Holes(c) = {}
    BY <1>2 DEF ClientInv, SentInv
  <2>2. ASSUME NEW i \in Wanted(c), i <= next, NEW j \in Seen(c) \cup rows, j < i
        PROVE  i \in Seen(c) \cup rows
    <3>1. i \in 1 .. Len(log) /\ Passes(c, i) /\ j \in 1 .. Len(log)
        BY <1>3, <1>9 DEF Wanted
    <3>2. CASE cursor[c] = 0
      <4>1. j \in rows
        BY <1>9, <3>1, <3>2
      <4> QED BY <1>5, <2>2, <3>1, <3>2, <4>1
    <3>3. CASE cursor[c] # 0 /\ i > cursor[c]
      <4>1. rows # {}
        BY <1>6, <1>7, <2>2, <3>1, <3>3
      <4> QED BY <1>4, <1>7, <2>2, <3>1, <3>3, <4>1
    <3>4. CASE cursor[c] # 0 /\ i = cursor[c]
        BY <1>9, <3>4
    <3>5. CASE cursor[c] # 0 /\ i < cursor[c]
      <4>1. j \in Seen(c)
        BY <1>3, <1>6, <2>2, <3>1, <3>5
      <4> QED BY <1>9, <2>1, <2>2, <3>5, <4>1 DEF Holes
    <3> QED BY <1>6, <3>1, <3>2, <3>3, <3>4, <3>5
  <2> QED BY <1>10, <1>13, <2>1, <2>2 DEF SentInv
<1>20. AheadInv(c)'
  <2>1. ASSUME ~Cut(c, rows), NEW i \in 1 .. Len(log), i > next, Passes(c, i)
        PROVE  Has(queue[c], i)
    <3>1. i \notin rows
        BY <1>6, <1>7, <1>8, <2>1
    <3>2. CASE cursor[c] = 0
      <4>1. PICK j \in rows : i <= j
        BY <1>5, <2>1, <3>2
      <4>2. j <= next /\ j \in 1 .. Len(log)
        BY <1>3, <1>7
      <4> QED BY <1>8, <2>1, <4>1, <4>2
    <3>3. CASE cursor[c] # 0
      <4>1. i \in cursor[c] + 1 .. Len(log)
        BY <1>6, <1>8, <2>1
      <4> QED BY <2>1, <3>1, <3>3, <4>1 DEF Cut
    <3> QED BY <3>2, <3>3
  <2> QED BY <1>1, <1>10, <1>13, <1>18, <2>1 DEF AheadInv
<1>21. ClientInv(c)'
    BY <1>15, <1>16, <1>17, <1>19, <1>20 DEF ClientInv
<1> QED BY <1>11, <1>12, <1>21 DEF FeedInv

-----------------------------------------------------------------------------
(* Lost connections. *)

\* A connection that ends takes its queue and the rest of its history with it: what the client
\* has stays, and its cursor says where to go on.
LEMMA ClosedClient ==
    ASSUME TypeOK, NEW C \in SUBSET Clients, Close(C), UNCHANGED log, NEW c \in Clients,
           ClientInv(c)
    PROVE  ClientInv(c)'
<1>1. /\ cursor' = cursor /\ got' = got /\ log' = log
      /\ pc'[c] = IF c \notin C THEN pc[c] ELSE IF c \in Workbench THEN "off" ELSE "done"
      /\ queue'[c] = IF c \in C THEN <<>> ELSE queue[c]
      /\ backlog'[c] = IF c \in C THEN {} ELSE backlog[c]
      /\ last'[c] = IF c \in C THEN 0 ELSE last[c]
      /\ trouble'[c] = trouble[c] \cup IF c \in C /\ Has(queue[c], Gap) THEN {"left"} ELSE {}
    BY DEF Close, client
<1>2. CASE c \notin C
  <2>1. trouble'[c] = trouble[c]
    BY <1>1, <1>2
  <2> QED BY <1>1, <1>2, <2>1, ClientKept
<1>3. CASE c \in C
  <2>1. /\ pc'[c] \in {"off", "done"} /\ queue'[c] = <<>> /\ backlog'[c] = {} /\ last'[c] = 0
        /\ trouble[c] \subseteq trouble'[c]
        /\ Has(queue[c], Gap) => "left" \in trouble'[c]
    BY <1>1, <1>3
  <2>2. /\ Seen(c)' = Seen(c) /\ Holes(c)' = Holes(c) /\ ~Reading(c)' /\ c \notin Subscribed'
        /\ \A i : Passes(c, i)' <=> Passes(c, i)
    BY <1>1, <2>1 DEF Seen, Holes, Wanted, Passes, Shown, Reading, Subscribed
  <2>3. QueueInv(c)' /\ GotInv(c)'
    <3>1. Len(<<>>) = 0
        OBVIOUS
    <3>2. ~\E n \in 1 .. 0 : TRUE
        OBVIOUS
    <3>3. Ascending(queue[c])' /\ \A i : ~Has(queue[c], i)'
        BY <2>1, <3>1, <3>2 DEF Ascending, Has
    <3> QED BY <1>1, <2>1, <3>3 DEF ClientInv, QueueInv, GotInv
  <2>4. BacklogInv(c)'
    BY <2>1 DEF BacklogInv
  <2>5. CursorInv(c)'
    <3>1. 0 <= Len(log)
        BY DEF TypeOK
    <3>2. c \in Workbench =>
              /\ \A j \in Seen(c) : j <= cursor[c]
              /\ cursor[c] # 0 => cursor[c] \in Seen(c)
        BY DEF ClientInv, CursorInv
    <3> QED BY <1>1, <2>1, <2>2, <3>1, <3>2 DEF ClientInv, CursorInv
  <2>6. SentInv(c)' /\ AheadInv(c)'
    BY <2>1, <2>2 DEF ClientInv, SentInv, AheadInv
  <2>7. ToldInv(c)'
    <3>1. "marked" \in trouble'[c] => "marked" \in trouble[c]
        BY <1>1
    <3> QED BY <1>1, <2>1, <3>1 DEF ClientInv, ToldInv
  <2> QED BY <2>3, <2>4, <2>5, <2>6, <2>7 DEF ClientInv
<1> QED BY <1>2, <1>3

\* The types of what the end of connections changes.
LEMMA ClosedType ==
    ASSUME TypeOK, NEW C \in SUBSET Clients, Close(C)
    PROVE  /\ pc' \in [Clients -> {"off", "fetched", "opened", "replay", "live", "done"}]
           /\ queue' \in [Clients -> Seq(Items)]
           /\ \A c \in Clients : Len(queue'[c]) <= QueueSize
           /\ backlog' \in [Clients -> SUBSET Ids]
           /\ \A c \in Clients : Cardinality(backlog'[c]) <= Limit
           /\ last' \in [Clients -> 0 .. MaxEvents] /\ cursor' \in [Clients -> 0 .. MaxEvents]
           /\ got' \in [Clients -> Seq(Items)]
           /\ trouble' \in [Clients -> SUBSET {"marked", "robbed", "skipped", "cut", "left"}]
<1>1. /\ QueueSize \in Nat /\ MaxEvents \in Nat /\ Limit \in Nat
      /\ Cardinality({}) = 0 /\ <<>> \in Seq(Items) /\ Len(<<>>) = 0
    BY FeedAssumption, FS_EmptySet
<1>2. pc' \in [Clients -> {"off", "fetched", "opened", "replay", "live", "done"}]
    BY DEF TypeOK, Close
<1>3. queue' \in [Clients -> Seq(Items)] /\ \A c \in Clients : Len(queue'[c]) <= QueueSize
  <2>1. \A c \in Clients : queue'[c] = IF c \in C THEN <<>> ELSE queue[c]
    BY DEF Close
  <2>2. \A c \in Clients : (IF c \in C THEN <<>> ELSE queue[c]) \in Seq(Items)
    BY <1>1 DEF TypeOK
  <2>3. queue' \in [Clients -> Seq(Items)]
    BY <2>2 DEF Close
  <2> QED BY <1>1, <2>1, <2>3 DEF TypeOK
<1>4. backlog' \in [Clients -> SUBSET Ids] /\ \A c \in Clients : Cardinality(backlog'[c]) <= Limit
    BY <1>1 DEF TypeOK, Close
<1>5. last' \in [Clients -> 0 .. MaxEvents]
    BY <1>1 DEF TypeOK, Close
<1>6. trouble' \in [Clients -> SUBSET {"marked", "robbed", "skipped", "cut", "left"}]
    BY DEF TypeOK, Close
<1> QED BY <1>2, <1>3, <1>4, <1>5, <1>6 DEF TypeOK, Close, client

\* One connection breaks.
LEMMA BreakStep ==
    ASSUME FeedInv, NEW c \in Clients, Break(c)
    PROVE  FeedInv'
<1>1. /\ TypeOK /\ \A k \in Clients : ClientInv(k)
      /\ Close({c}) /\ log' = log /\ alive' = alive
      /\ breaks < MaxBreaks /\ breaks' = breaks + 1
      /\ \/ orphans' = orphans
         \/ orphans' = Append(orphans, Len(queue[c]))
         \/ queue[c] # <<>> /\ orphans' = Append(orphans, Len(queue[c]) - 1)
    BY DEF FeedInv, Break, Sends
<1>2. orphans' \in Seq(0 .. QueueSize)
  <2>1. /\ orphans \in Seq(0 .. QueueSize) /\ queue[c] \in Seq(Items)
        /\ Len(queue[c]) \in 0 .. QueueSize /\ QueueSize \in Nat
    BY <1>1, ClientType, FeedAssumption DEF TypeOK
  <2>2. queue[c] # <<>> => Len(queue[c]) - 1 \in 0 .. QueueSize
    BY <2>1
  <2>3. \A n \in 0 .. QueueSize : Append(orphans, n) \in Seq(0 .. QueueSize)
    BY <2>1
  <2> QED BY <1>1, <2>1, <2>2, <2>3
<1>3. breaks' \in 0 .. MaxBreaks
    BY <1>1, FeedAssumption DEF TypeOK
<1>4. TypeOK'
    BY <1>1, <1>2, <1>3, ClosedType DEF TypeOK
<1>5. \A k \in Clients : ClientInv(k)'
    BY <1>1, ClosedClient
<1> QED BY <1>4, <1>5 DEF FeedInv

\* The gateway is started again: every connection breaks.
LEMMA RestartStep ==
    ASSUME FeedInv, Restart
    PROVE  FeedInv'
<1>1. /\ TypeOK /\ \A k \in Clients : ClientInv(k)
      /\ Close(Subscribed) /\ log' = log /\ alive' = [d \in Devices |-> TRUE]
      /\ breaks < MaxBreaks /\ breaks' = breaks + 1 /\ orphans' = <<>>
    BY DEF FeedInv, Restart
<1>2. /\ orphans' \in Seq(0 .. QueueSize) /\ alive' \in [Devices -> BOOLEAN]
      /\ Subscribed \in SUBSET Clients
    BY <1>1 DEF Subscribed
<1>3. breaks' \in 0 .. MaxBreaks
    BY <1>1, FeedAssumption DEF TypeOK
<1>4. TypeOK'
    BY <1>1, <1>2, <1>3, ClosedType DEF TypeOK
<1>5. \A k \in Clients : ClientInv(k)'
    BY <1>1, <1>2, ClosedClient
<1> QED BY <1>4, <1>5 DEF FeedInv

-----------------------------------------------------------------------------
(* The theorems. *)

\* The invariant holds of a new gateway.
LEMMA FeedInit == Init => FeedInv
<1> SUFFICES ASSUME Init PROVE FeedInv
    OBVIOUS
<1>1. /\ QueueSize \in Nat /\ MaxEvents \in Nat \ {0} /\ Limit \in Nat /\ MaxBreaks \in Nat
      /\ Cardinality({}) = 0 /\ <<>> \in Seq(Items) /\ Len(<<>>) = 0
      /\ <<>> \in Seq(Events) /\ <<>> \in Seq(0 .. QueueSize)
    BY FeedAssumption, FS_EmptySet
<1>2. TypeOK
    BY <1>1 DEF Init, TypeOK
<1>3. ASSUME NEW c \in Clients PROVE ClientInv(c)
  <2>1. /\ pc[c] = "off" /\ queue[c] = <<>> /\ backlog[c] = {} /\ last[c] = 0 /\ cursor[c] = 0
        /\ got[c] = <<>> /\ trouble[c] = {} /\ log = <<>> /\ Len(log) = 0
    BY <1>1 DEF Init
  <2>2. ~\E n \in 1 .. 0 : TRUE
    OBVIOUS
  <2>3. Ascending(<<>>) /\ \A i : ~Has(<<>>, i)
    BY <1>1, <2>2 DEF Ascending, Has
  <2>4. Seen(c) = {} /\ Holes(c) = {} /\ ~Reading(c)
    BY <2>1, <2>2 DEF Seen, Holes, Wanted, Reading
  <2>5. QueueInv(c) /\ GotInv(c) /\ BacklogInv(c) /\ CursorInv(c)
    BY <2>1, <2>3, <2>4 DEF QueueInv, GotInv, BacklogInv, CursorInv
  <2>6. SentInv(c) /\ AheadInv(c) /\ ToldInv(c)
    BY <2>1, <2>4 DEF SentInv, AheadInv, ToldInv
  <2> QED BY <2>5, <2>6 DEF ClientInv
<1> QED BY <1>2, <1>3 DEF FeedInv

\* Every step of the gateway and of its clients keeps the invariant.
LEMMA FeedStep == FeedInv /\ [Next]_vars => FeedInv'
<1> SUFFICES ASSUME FeedInv, [Next]_vars PROVE FeedInv'
    OBVIOUS
<1>1. TypeOK /\ \A c \in Clients : ClientInv(c)
    BY DEF FeedInv
<1>2. ASSUME \/ \E d \in Devices : DeviceEvent(d) \/ OperationEvent(d)
             \/ SystemEvent
      PROVE  FeedInv'
  <2>1. Published
    BY <1>1, <1>2, Publications
  <2> QED BY <1>1, <2>1, PublishedType, PublishedClient DEF FeedInv
<1>3. ASSUME NEW c \in Clients, Fetch(c) PROVE FeedInv'
    BY <1>3, FetchStep
<1>4. ASSUME NEW c \in Clients, Connect(c) PROVE FeedInv'
    BY <1>4, ConnectStep
<1>5. ASSUME NEW c \in Clients, ReadHistory(c) PROVE FeedInv'
    BY <1>5, ReadHistoryStep
<1>6. ASSUME NEW c \in Clients, SendHistory(c) PROVE FeedInv'
    BY <1>6, SendHistoryStep
<1>7. ASSUME NEW c \in Clients, Forward(c) PROVE FeedInv'
    BY <1>7, ForwardStep
<1>8. ASSUME NEW c \in Clients, Break(c) PROVE FeedInv'
    BY <1>8, BreakStep
<1>9. CASE Restart
    BY <1>9, RestartStep
<1>10. CASE UNCHANGED vars
  <2>1. /\ log' = log /\ alive' = alive /\ pc' = pc /\ queue' = queue /\ backlog' = backlog
        /\ last' = last /\ cursor' = cursor /\ got' = got /\ orphans' = orphans
        /\ breaks' = breaks /\ trouble' = trouble
    BY <1>10 DEF vars
  <2>2. \A c \in Clients : ClientInv(c)'
    BY <1>1, <2>1, ClientKept
  <2>3. TypeOK'
    BY <1>1, <2>1 DEF TypeOK
  <2> QED BY <2>2, <2>3 DEF FeedInv
<1> QED BY <1>2, <1>3, <1>4, <1>5, <1>6, <1>7, <1>8, <1>9, <1>10 DEF Next

\* The invariant holds in every behaviour of the feed, whatever is published and however often
\* connections break.
THEOREM FeedInvariant == Spec => []FeedInv
BY FeedInit, FeedStep, PTL DEF Spec

\* event_socket: over history, queue and new connections every client gets the events once and
\* in their order, with any number of clients, devices and losses.
THEOREM EventsInOrder == Spec => []InOrder
<1>1. FeedInv => InOrder
    BY DEF FeedInv, ClientInv, GotInv, InOrder
<1> QED BY <1>1, FeedInvariant, PTL

\* on_device_event and events_after: nothing is missing between the events of a client unless
\* one of the named losses took it, and a workbench whose queue overflowed is told.
THEOREM GapsAlwaysTold == Spec => []GapsAreTold
<1>1. FeedInv => TypeOK
    BY DEF FeedInv
<1>2. FeedInv => NoSilentGap
    BY DEF FeedInv, ClientInv, SentInv, NoSilentGap
<1>3. FeedInv => GapIsTold
    BY DEF FeedInv, ClientInv, ToldInv, GapIsTold, Clients
<1> QED BY <1>1, <1>2, <1>3, FeedInvariant, PTL DEF GapsAreTold
=============================================================================

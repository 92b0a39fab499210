----------------------- MODULE UpdateAcceptanceProofs -----------------------
(***************************************************************************)
(* Proofs about UpdateAcceptance, for any number of boots and faults and   *)
(* any length of the hub's history: an update that is accepted, at once or *)
(* by a reconciliation, runs on a later boot that became healthy, one that *)
(* fails before the end of its transfer was never selected, and one that   *)
(* fails for a mismatch runs another image or has no receipt.              *)
(***************************************************************************)
EXTENDS UpdateAcceptance, TLAPS

-----------------------------------------------------------------------------
(* The inductive invariant. *)

\* The trail knows the image of every boot, the last one being the one that runs, and which
\* of them became healthy.
TrailInv ==
    /\ Len(ran.image) = dev.boot
    /\ ran.image[dev.boot] = dev.image
    /\ ran.healthy \subseteq 1 .. dev.boot
    /\ dev.healthy => dev.boot \in ran.healthy

\* A HEALTHY that is in the history, in the queue or in the store is one that was said.
Said(events, boots) ==
    \A i \in 1 .. Len(events) : events[i].kind = "healthy" => events[i].boot \in boots
EventInv ==
    /\ Said(hub.history, ran.healthy) /\ Said(op.queue, ran.healthy)
    /\ stored \subseteq ran.healthy

\* The boots an operation has read are in the order it read them.
OrderInv ==
    /\ op.before =< dev.boot /\ op.writer =< dev.boot
    /\ op.writer # NoBoot => op.before =< op.writer /\ op.newBoot # op.writer
    /\ op.proof \in {NoBoot, op.before, op.writer}
    /\ op.pc \in {"idle", "before"} => op.before = NoBoot /\ op.proof = NoBoot
    /\ op.pc \in {"idle", "before", "enter", "wait"} =>
           op.writer = NoBoot /\ op.newBoot = NoBoot
    /\ op.pc \in {"prepare", "write", "restart", "listen", "check", "inventory", "after"} =>
           op.writer # NoBoot

\* Only updates write, and only a system update reads the inventory.
KindInv ==
    /\ op.pc \in {"enter", "wait", "write"} => op.kind # "restart"
    /\ op.pc \in {"inventory", "after"} => op.kind = "system"

\* What the event loop of an update goes on with is a boot that became healthy.
HeardInv ==
    (op.pc \in {"check", "inventory", "after"} /\ op.kind \in Updates) =>
        op.newBoot \in ran.healthy

\* Until the transfer nothing is selected that was not started yet.
UnwrittenInv ==
    \/ op.kind = "restart"
    \/ op.pc \in {"idle", "before", "enter", "wait", "prepare", "write"}
    \/ op.error = "before"
    => flash.trial # "fresh" /\ ~flash.receipt

\* The inventory that was read is the device's, and a mismatch that was stored is a fact.
MismatchInv ==
    /\ op.pc = "after" => op.receipt = flash.receipt
    /\ op.error = "mismatch" =>
           /\ op.newBoot > op.writer /\ op.newBoot \in ran.healthy
           /\ ran.image[op.newBoot] # "new" \/ (op.kind = "system" /\ ~flash.receipt)

\* A reconciliation looks at the boot that runs, when the operation is over.
RecInv ==
    /\ rec.pc # "idle" => op.pc = "done"
    /\ rec.pc \in {"idle", "inventory", "after"} => rec.out = "none"
    /\ rec.boot =< dev.boot
    /\ rec.pc \in {"inventory", "after"} => rec.boot # NoBoot
    /\ rec.boot # NoBoot => /\ op.before =< rec.boot /\ op.writer =< rec.boot
                            /\ rec.pc # "idle"
    /\ rec.healthy => rec.boot \in ran.healthy

UpdateInv ==
    /\ TypeOK /\ TrailInv /\ EventInv /\ OrderInv /\ KindInv /\ HeardInv /\ UnwrittenInv
    /\ MismatchInv /\ RecInv /\ AcceptedIsReal /\ ObservedIsReal

-----------------------------------------------------------------------------
(* What the steps do to events and records. *)

\* Kept, Append and Tail keep to events that were said.
LEMMA SaidSequences ==
    ASSUME NEW s \in Seq(Events), NEW e \in Events, NEW boots, Said(s, boots),
           e.kind = "healthy" => e.boot \in boots
    PROVE  /\ Append(s, e) \in Seq(Events) /\ Said(Append(s, e), boots)
           /\ Kept(Append(s, e)) \in Seq(Events) /\ Said(Kept(Append(s, e)), boots)
           /\ s # <<>> => /\ Head(s) \in Events /\ Tail(s) \in Seq(Events)
                          /\ Said(Tail(s), boots)
                          /\ Head(s).kind = "healthy" => Head(s).boot \in boots
<1> DEFINE t == Append(s, e)
<1>0. t \in Seq(Events) /\ Len(t) = Len(s) + 1 /\ Len(s) \in Nat
    OBVIOUS
<1>1. t \in Seq(Events) /\ t # <<>>
    BY <1>0
<1>2. Said(t, boots)
    BY DEF Said
<1>3. ASSUME NEW r \in Seq(Events), r # <<>>, Said(r, boots)
      PROVE  /\ Head(r) \in Events /\ Tail(r) \in Seq(Events) /\ Said(Tail(r), boots)
             /\ Head(r).kind = "healthy" => Head(r).boot \in boots
    BY <1>3 DEF Said
<1>4. Tail(t) \in Seq(Events) /\ Said(Tail(t), boots)
    BY <1>1, <1>2, <1>3
<1> HIDE DEF t
<1>5. Kept(t) \in Seq(Events) /\ Said(Kept(t), boots)
    BY <1>1, <1>2, <1>4 DEF Kept
<1> QED BY <1>1, <1>2, <1>3, <1>5 DEF t

\* _on_event keeps the history within its bound.
LEMMA KeptIsBounded ==
    ASSUME NEW s \in Seq(Events), NEW e, Len(s) =< HistorySize, HistorySize \in Nat \ {0}
    PROVE  Len(Kept(Append(s, e))) =< HistorySize
    BY DEF Kept

\* What stays of an operation while it goes on.
SameRun ==
    /\ op'.kind = op.kind /\ op'.before = op.before /\ op'.writer = op.writer
    /\ op'.proof = op.proof /\ op'.newBoot = op.newBoot

\* Publish changes the queue of the operation and nothing else of it.
Published(boots) ==
    /\ hub' \in Hubs /\ Len(hub'.history) =< HistorySize /\ op' \in Ops
    /\ stored' \in SUBSET Boots
    /\ SameRun /\ op'.pc = op.pc /\ op'.out = op.out /\ op'.error = op.error
    /\ op'.receipt = op.receipt
    /\ Said(hub'.history, boots) /\ Said(op'.queue, boots) /\ stored' \subseteq boots
LEMMA PublishEffect ==
    ASSUME hub \in Hubs, Len(hub.history) =< HistorySize, op \in Ops, stored \in SUBSET Boots,
           NEW boots, Said(hub.history, boots), Said(op.queue, boots), stored \subseteq boots,
           NEW e \in Events, e.kind = "healthy" => e.boot \in boots,
           NEW up \in BOOLEAN, NEW last \in Boots \union {NoBoot}, Publish(e, up, last)
    PROVE  Published(boots) /\ hub'.up = up /\ hub'.last = last
<1>1. hub.history \in Seq(Events) /\ op.queue \in Seq(Events)
    BY DEF Hubs, Ops
<1>2. /\ Kept(Append(hub.history, e)) \in Seq(Events)
      /\ Said(Kept(Append(hub.history, e)), boots)
      /\ Append(op.queue, e) \in Seq(Events) /\ Said(Append(op.queue, e), boots)
    BY <1>1, SaidSequences
<1>3. hub' = [up |-> up, last |-> last, history |-> Kept(Append(hub.history, e))]
    BY DEF Publish
<1>4. hub' \in Hubs /\ hub'.up = up /\ hub'.last = last /\ Said(hub'.history, boots)
    BY <1>2, <1>3 DEF Hubs
<1>5. Len(hub'.history) =< HistorySize
    BY <1>1, <1>3, KeptIsBounded, BoundsAssumption
<1>6. op' = op \/ op' = [op EXCEPT !.queue = Append(op.queue, e)]
    BY DEF Publish
<1>7. op' \in Ops
    BY <1>2, <1>6, ZenonT(60) DEF Ops
<1>8. /\ SameRun /\ op'.pc = op.pc /\ op'.out = op.out /\ op'.error = op.error
      /\ op'.receipt = op.receipt
    BY <1>6 DEF Ops, SameRun
<1>9. Said(op'.queue, boots)
    BY <1>2, <1>6 DEF Ops
<1>10. stored' \in SUBSET Boots /\ stored' \subseteq boots
    BY DEF Publish, Events
<1> QED BY <1>4, <1>5, <1>7, <1>8, <1>9, <1>10 DEF Published

\* Hangup publishes, or nothing happens.
LEMMA HangupEffect ==
    ASSUME hub \in Hubs, Len(hub.history) =< HistorySize, op \in Ops, stored \in SUBSET Boots,
           dev \in Devices,
           NEW boots, Said(hub.history, boots), Said(op.queue, boots), stored \subseteq boots,
           Hangup
    PROVE  Published(boots)
<1>1. Disconnected \in Events /\ Disconnected.kind # "healthy"
    BY DEF Disconnected, Events, Devices
<1>2. CASE hub.up
    BY <1>1, <1>2, PublishEffect DEF Hangup, Hubs
<1>3. CASE ~hub.up
    BY <1>3 DEF Hangup, Published, SameRun
<1> QED BY <1>2, <1>3

\* Stored ends an operation and keeps what it has read.
Ends(outcome, error) ==
    /\ op' \in Ops /\ SameRun /\ op'.pc = "done" /\ op'.out = outcome /\ op'.error = error
    /\ op'.queue = <<>> /\ hub' = hub /\ stored' = stored /\ rec' = rec
LEMMA StoredEffect ==
    ASSUME op \in Ops, NEW outcome \in Outcomes, NEW error \in Errors, Stored(outcome, error)
    PROVE  Ends(outcome, error)
<1>1. op' = [op EXCEPT !.pc = "done", !.out = outcome, !.error = error,
                       !.listening = FALSE, !.queue = <<>>]
    BY DEF Stored, Step
<1>2. <<>> \in Seq(Events)
    OBVIOUS
<1>3. op' \in Ops
    BY <1>1, <1>2, Zenon DEF Ops
<1>4. SameRun
    BY <1>1 DEF SameRun, Ops
<1>5. op'.pc = "done" /\ op'.out = outcome /\ op'.error = error /\ op'.queue = <<>>
    BY <1>1 DEF Ops
<1> QED BY <1>3, <1>4, <1>5 DEF Ends, Stored, Step

\* The two ways to end: with an outcome and no error, or as failed with one.
LEMMA FinishEffect ==
    ASSUME op \in Ops
    PROVE  /\ \A outcome \in Outcomes : Finish(outcome) => Ends(outcome, "none")
           /\ \A error \in Errors : Fails(error) => Ends("failed", error)
    BY StoredEffect DEF Finish, Fails, Outcomes, Errors

\* Nothing is said in an empty queue, and what was said stays said.
LEMMA NothingSaid == \A boots : Said(<<>>, boots)
    BY DEF Said
LEMMA SaidMore ==
    ASSUME NEW s, NEW boots, NEW more, boots \subseteq more, Said(s, boots)
    PROVE  Said(s, more)
    BY DEF Said

\* A fault is counted, up to the bound.
LEMMA FaultsAreTyped ==
    ASSUME calm \in BOOLEAN, faults \in 0 .. MaxFaults, Fault \/ NoFault
    PROVE  calm' \in BOOLEAN /\ faults' \in 0 .. MaxFaults
<1>1. calm' \in BOOLEAN
    BY Zenon DEF Fault, NoFault
<1>2. faults' = faults \/ (faults < MaxFaults /\ faults' = faults + 1)
    BY Zenon DEF Fault, NoFault
<1> QED BY <1>1, <1>2, BoundsAssumption

\* A transfer that completes selects an image and remembers the application before it.
LEMMA CommitIsTyped ==
    ASSUME dev \in Devices, flash \in Flashes, Commits
    PROVE  flash' \in Flashes
<1>1. Previous \in Apps
    BY DEF Previous, Flashes, Devices, Images
<1>2. \A prev \in Apps, receipt \in BOOLEAN :
          [sel |-> "new", prev |-> prev, trial |-> "fresh", receipt |-> receipt] \in Flashes
    BY DEF Flashes, Images, Apps
<1>3. (op.kind = "system") \in BOOLEAN
    OBVIOUS
<1> DEFINE system == op.kind = "system"
<1>4. flash' = [sel |-> "new", prev |-> Previous, trial |-> "fresh", receipt |-> system]
    BY DEF Commits
<1> HIDE DEF system
<1> QED BY <1>1, <1>2, <1>3, <1>4, Zenon DEF system

\* Every action keeps every part of the invariant.
LEMMA UpdateStep == UpdateInv /\ [Next]_vars => UpdateInv'
<1> SUFFICES ASSUME UpdateInv, [Next]_vars PROVE UpdateInv'
    OBVIOUS
<1>i. /\ dev \in Devices /\ flash \in Flashes /\ op \in Ops /\ rec \in Recs /\ ran \in Trails
      /\ hub \in Hubs /\ Len(hub.history) =< HistorySize
      /\ Settled
      /\ stored \in SUBSET Boots /\ calm \in BOOLEAN /\ faults \in 0 .. MaxFaults
      /\ TrailInv /\ EventInv /\ OrderInv /\ KindInv /\ HeardInv /\ UnwrittenInv
      /\ MismatchInv /\ RecInv /\ AcceptedIsReal /\ ObservedIsReal
    BY DEF UpdateInv, TypeOK
<1>e. op.pc # "done" => op.out = "none" /\ op.error = "none"
    BY <1>i DEF Settled
<1> USE <1>i, <1>e
<1>1. CASE PlannedReset
  <2>u. rec' = rec
    BY <1>1 DEF PlannedReset, Fault, NoFault, Reset
  <2>a. Said(hub.history, ran.healthy) /\ Said(op.queue, ran.healthy)
        /\ stored \subseteq ran.healthy
    BY DEF EventInv
  <2>p. Published(ran.healthy)
    BY <1>1, <2>a, HangupEffect DEF PlannedReset, Reset
  <2>d. /\ dev.boot < MaxBoot /\ rec' = rec
        /\ dev' = [boot |-> dev.boot + 1, image |-> NextImage, healthy |-> FALSE,
                   plan |-> FALSE, told |-> FALSE]
        /\ flash' = [flash EXCEPT !.sel = NextImage, !.trial = NextTrial]
        /\ ran' = [ran EXCEPT !.image = Append(@, NextImage)]
    BY <1>1 DEF PlannedReset, Reset
  <2>b. dev.boot \in Nat /\ dev.boot + 1 \in Boots /\ dev'.boot = dev.boot + 1
        /\ dev'.image = NextImage
        /\ dev'.healthy = FALSE
    BY <2>d, BoundsAssumption DEF Devices, Boots
  <2>n. NextImage \in Images /\ NextTrial \in {"trial", "valid"}
        /\ (flash.trial # "fresh" => NextTrial # "fresh")
    BY DEF NextImage, NextTrial, RollsBack, Flashes, Images
  <2>f. flash' \in Flashes /\ flash'.receipt = flash.receipt /\ flash'.trial = NextTrial
    <3>1. flash' \in Flashes
        BY <2>d, <2>n, Zenon DEF Flashes
    <3> QED BY <3>1, <2>d DEF Flashes
  <2>t. /\ ran' \in Trails /\ ran'.healthy = ran.healthy /\ Len(ran'.image) = Len(ran.image) + 1
        /\ \A i \in 1 .. Len(ran.image) : ran'.image[i] = ran.image[i]
        /\ ran'.image[Len(ran.image) + 1] = NextImage
    <3>1. ran.image \in Seq(Images)
        BY DEF Trails
    <3>2. /\ Append(ran.image, NextImage) \in Seq(Images)
          /\ Len(Append(ran.image, NextImage)) = Len(ran.image) + 1
          /\ \A i \in 1 .. Len(ran.image) : Append(ran.image, NextImage)[i] = ran.image[i]
          /\ Append(ran.image, NextImage)[Len(ran.image) + 1] = NextImage
        BY <3>1, <2>n
    <3>3. ran' = [ran EXCEPT !.image = Append(ran.image, NextImage)]
        BY <2>d
    <3>4. ran' \in Trails
        BY <3>2, <3>3, Zenon DEF Trails
    <3>5. ran'.healthy = ran.healthy /\ ran'.image = Append(ran.image, NextImage)
        BY <3>3 DEF Trails
    <3> QED BY <3>2, <3>4, <3>5
  <2>1. (rec \in Recs)'
    BY <2>u
  <2>2. (dev \in Devices)'
    BY <2>b, <2>d, <2>n DEF Devices
  <2>3. (flash \in Flashes)'
    BY <1>1, <2>f DEF Trails, Hubs, Published, SameRun
  <2>4. (op \in Ops)'
    BY <1>1, <2>p DEF Trails, Hubs, Published, SameRun
  <2>5. (ran \in Trails)'
    BY <1>1, <2>t DEF Trails, Hubs, Published, SameRun
  <2>6. (hub \in Hubs /\ Len(hub.history) =< HistorySize)'
    BY <1>1, <2>p DEF Trails, Hubs, Published, SameRun
  <2>7. Settled'
    BY <1>1, <2>p DEF Settled, Trails, Hubs, Published, SameRun
  <2>8. (stored \in SUBSET Boots)'
    BY <1>1, <2>p DEF Trails, Hubs, Published, SameRun
  <2>9. (calm \in BOOLEAN /\ faults \in 0 .. MaxFaults)'
    BY <1>1, FaultsAreTyped DEF PlannedReset
  <2>10. TrailInv'
    BY <1>1, <2>b, <2>t DEF TrailInv, Trails, Hubs, Published, SameRun
  <2>11. EventInv'
    BY <1>1, <2>p, <2>t DEF EventInv, Trails, Hubs, Published, SameRun
  <2>12. OrderInv'
    BY <1>1, <2>p, <2>b, SMTT(40) DEF OrderInv, Boots, Ops, Trails, Hubs, Published, SameRun,
       NoBoot
  <2>13. KindInv'
    BY <1>1, <2>p DEF KindInv, Trails, Hubs, Published, SameRun
  <2>14. HeardInv'
    BY <1>1, <2>p, <2>t DEF HeardInv, Updates, Trails, Hubs, Published, SameRun
  <2>15. UnwrittenInv'
    BY <1>1, <2>p, <2>n, <2>f DEF UnwrittenInv, Trails, Hubs, Published, SameRun
  <2>16. RecInv'
    BY <1>1, <2>u, <2>p, <2>b, <2>t DEF RecInv, Boots, Recs, Trails, Hubs, Published,
       SameRun, NoBoot
  <2>z. MismatchInv'
    BY <1>1, <2>p, <2>t, SMTT(40), <2>u, <2>f DEF MismatchInv, TrailInv, Trails, Hubs,
       Published, SameRun
  <2>17. AcceptedIsReal'
    BY <1>1, <2>p, <2>t, SMTT(40) DEF AcceptedIsReal, Done, Updates, TrailInv, Trails, Hubs,
       Published, SameRun
  <2>18. ObservedIsReal'
    BY <1>1, <2>u, <2>p, <2>t DEF ObservedIsReal, TrailInv, Recs, Trails, Hubs, Published,
       SameRun
  <2> QED BY <2>z, <2>1, <2>2, <2>3, <2>4, <2>5, <2>6, <2>7, <2>8, <2>9, <2>10, <2>11, <2>12,
     <2>13, <2>14, <2>15, <2>16, <2>17, <2>18 DEF UpdateInv, TypeOK
<1>2. CASE Crash
  <2>u. rec' = rec
    BY <1>2 DEF Crash, Fault, NoFault, Reset
  <2>a. Said(hub.history, ran.healthy) /\ Said(op.queue, ran.healthy)
        /\ stored \subseteq ran.healthy
    BY DEF EventInv
  <2>p. Published(ran.healthy)
    BY <1>2, <2>a, HangupEffect DEF Crash, Reset
  <2>d. /\ dev.boot < MaxBoot /\ rec' = rec
        /\ dev' = [boot |-> dev.boot + 1, image |-> NextImage, healthy |-> FALSE,
                   plan |-> FALSE, told |-> FALSE]
        /\ flash' = [flash EXCEPT !.sel = NextImage, !.trial = NextTrial]
        /\ ran' = [ran EXCEPT !.image = Append(@, NextImage)]
    BY <1>2 DEF Crash, Reset
  <2>b. dev.boot \in Nat /\ dev.boot + 1 \in Boots /\ dev'.boot = dev.boot + 1
        /\ dev'.image = NextImage
        /\ dev'.healthy = FALSE
    BY <2>d, BoundsAssumption DEF Devices, Boots
  <2>n. NextImage \in Images /\ NextTrial \in {"trial", "valid"}
        /\ (flash.trial # "fresh" => NextTrial # "fresh")
    BY DEF NextImage, NextTrial, RollsBack, Flashes, Images
  <2>f. flash' \in Flashes /\ flash'.receipt = flash.receipt /\ flash'.trial = NextTrial
    <3>1. flash' \in Flashes
        BY <2>d, <2>n, Zenon DEF Flashes
    <3> QED BY <3>1, <2>d DEF Flashes
  <2>t. /\ ran' \in Trails /\ ran'.healthy = ran.healthy /\ Len(ran'.image) = Len(ran.image) + 1
        /\ \A i \in 1 .. Len(ran.image) : ran'.image[i] = ran.image[i]
        /\ ran'.image[Len(ran.image) + 1] = NextImage
    <3>1. ran.image \in Seq(Images)
        BY DEF Trails
    <3>2. /\ Append(ran.image, NextImage) \in Seq(Images)
          /\ Len(Append(ran.image, NextImage)) = Len(ran.image) + 1
          /\ \A i \in 1 .. Len(ran.image) : Append(ran.image, NextImage)[i] = ran.image[i]
          /\ Append(ran.image, NextImage)[Len(ran.image) + 1] = NextImage
        BY <3>1, <2>n
    <3>3. ran' = [ran EXCEPT !.image = Append(ran.image, NextImage)]
        BY <2>d
    <3>4. ran' \in Trails
        BY <3>2, <3>3, Zenon DEF Trails
    <3>5. ran'.healthy = ran.healthy /\ ran'.image = Append(ran.image, NextImage)
        BY <3>3 DEF Trails
    <3> QED BY <3>2, <3>4, <3>5
  <2>1. (rec \in Recs)'
    BY <2>u
  <2>2. (dev \in Devices)'
    BY <2>b, <2>d, <2>n DEF Devices
  <2>3. (flash \in Flashes)'
    BY <1>2, <2>f DEF Trails, Hubs, Published, SameRun
  <2>4. (op \in Ops)'
    BY <1>2, <2>p DEF Trails, Hubs, Published, SameRun
  <2>5. (ran \in Trails)'
    BY <1>2, <2>t DEF Trails, Hubs, Published, SameRun
  <2>6. (hub \in Hubs /\ Len(hub.history) =< HistorySize)'
    BY <1>2, <2>p DEF Trails, Hubs, Published, SameRun
  <2>7. Settled'
    BY <1>2, <2>p DEF Settled, Trails, Hubs, Published, SameRun
  <2>8. (stored \in SUBSET Boots)'
    BY <1>2, <2>p DEF Trails, Hubs, Published, SameRun
  <2>9. (calm \in BOOLEAN /\ faults \in 0 .. MaxFaults)'
    BY <1>2, FaultsAreTyped DEF Crash
  <2>10. TrailInv'
    BY <1>2, <2>b, <2>t DEF TrailInv, Trails, Hubs, Published, SameRun
  <2>11. EventInv'
    BY <1>2, <2>p, <2>t DEF EventInv, Trails, Hubs, Published, SameRun
  <2>12. OrderInv'
    BY <1>2, <2>p, <2>b, SMTT(40) DEF OrderInv, Boots, Ops, Trails, Hubs, Published, SameRun,
       NoBoot
  <2>13. KindInv'
    BY <1>2, <2>p DEF KindInv, Trails, Hubs, Published, SameRun
  <2>14. HeardInv'
    BY <1>2, <2>p, <2>t DEF HeardInv, Updates, Trails, Hubs, Published, SameRun
  <2>15. UnwrittenInv'
    BY <1>2, <2>p, <2>n, <2>f DEF UnwrittenInv, Trails, Hubs, Published, SameRun
  <2>16. RecInv'
    BY <1>2, <2>u, <2>p, <2>b, <2>t DEF RecInv, Boots, Recs, Trails, Hubs, Published,
       SameRun, NoBoot
  <2>z. MismatchInv'
    BY <1>2, <2>p, <2>t, <2>u, <2>f, SMTT(40) DEF MismatchInv, TrailInv, Trails, Hubs,
       Published, SameRun
  <2>17. AcceptedIsReal'
    BY <1>2, <2>p, <2>t, SMTT(40) DEF AcceptedIsReal, Done, Updates, TrailInv, Trails, Hubs,
       Published, SameRun
  <2>18. ObservedIsReal'
    BY <1>2, <2>u, <2>p, <2>t DEF ObservedIsReal, TrailInv, Recs, Trails, Hubs, Published,
       SameRun
  <2> QED BY <2>z, <2>1, <2>2, <2>3, <2>4, <2>5, <2>6, <2>7, <2>8, <2>9, <2>10, <2>11, <2>12,
     <2>13, <2>14, <2>15, <2>16, <2>17, <2>18 DEF UpdateInv, TypeOK
<1>3. CASE MarkHealthy
  <2>u. hub' = hub /\ op' = op /\ stored' = stored /\ rec' = rec /\ faults' = faults
        /\ calm' = calm
    BY <1>3 DEF MarkHealthy, Fault, NoFault
  <2>a. /\ dev' = [dev EXCEPT !.healthy = TRUE] /\ ran' = [ran EXCEPT !.healthy = ran.healthy \union {dev.boot}]
        /\ flash' = flash \/ flash' = [flash EXCEPT !.trial = "valid"]
        /\ rec' = rec /\ op' = op /\ hub' = hub /\ stored' = stored
    BY <1>3 DEF MarkHealthy
  <2>d. dev' \in Devices /\ dev'.boot = dev.boot /\ dev'.image = dev.image
    <3>1. dev' \in Devices
        BY <2>a, Zenon DEF Devices
    <3> QED BY <3>1, <2>a DEF Devices
  <2>f. flash' \in Flashes /\ flash'.receipt = flash.receipt
        /\ (flash'.trial = flash.trial \/ flash'.trial = "valid")
    <3>1. flash' \in Flashes
        BY <2>a, Zenon DEF Flashes
    <3> QED BY <3>1, <2>a DEF Flashes
  <2>t. ran' \in Trails /\ ran'.image = ran.image /\ ran'.healthy = ran.healthy \union {dev.boot}
    <3>1. ran.healthy \union {dev.boot} \in SUBSET Boots
        BY DEF Trails, Devices
    <3>2. ran' \in Trails
        BY <3>1, <2>a, Zenon DEF Trails
    <3> QED BY <3>2, <2>a DEF Trails
  <2>1. (op \in Ops)' /\ (rec \in Recs)' /\ (hub \in Hubs /\ Len(hub.history) =<
     HistorySize)' /\ Settled' /\ (stored \in SUBSET
     Boots)' /\ (calm \in BOOLEAN /\ faults \in 0 .. MaxFaults)' /\ KindInv'
    BY <2>u DEF Settled, KindInv
  <2>2. (dev \in Devices)'
    BY <1>3, <2>a, <2>d DEF Trails
  <2>3. (flash \in Flashes)'
    BY <1>3, <2>a, <2>d DEF Flashes, Trails
  <2>4. (ran \in Trails)'
    BY <1>3, <2>a, <2>d DEF Devices, Trails
  <2>5. TrailInv'
    BY <1>3, <2>a, <2>d DEF TrailInv, Devices, Boots, Trails
  <2>6. EventInv'
    BY <2>a, <2>t, SaidMore DEF EventInv
  <2>7. OrderInv'
    BY <1>3, <2>a, <2>d DEF OrderInv, Trails
  <2>8. HeardInv'
    BY <1>3, <2>a, <2>d DEF HeardInv, Updates, Trails
  <2>9. UnwrittenInv'
    BY <1>3, <2>a, <2>d, <2>f DEF UnwrittenInv, Trails
  <2>10. RecInv'
    BY <1>3, <2>a, <2>d DEF RecInv, Recs, Trails
  <2>z. MismatchInv'
    BY <1>3, <2>a, <2>d, <2>u, <2>f, <2>t DEF MismatchInv, Trails
  <2>11. AcceptedIsReal'
    BY <1>3, <2>a, <2>d DEF AcceptedIsReal, Done, Updates, Trails
  <2>12. ObservedIsReal'
    BY <1>3, <2>a, <2>d DEF ObservedIsReal, Recs, Trails
  <2> QED BY <2>z, <2>1, <2>2, <2>3, <2>4, <2>5, <2>6, <2>7, <2>8, <2>9, <2>10, <2>11, <2>12 DEF
     UpdateInv, TypeOK
<1>4. CASE Connect
  <2>u. flash' = flash /\ ran' = ran /\ rec' = rec /\ faults' = faults /\ calm' = calm
    BY <1>4 DEF Connect, Fault, NoFault
  <2>a. Said(hub.history, ran.healthy) /\ Said(op.queue, ran.healthy)
        /\ stored \subseteq ran.healthy
    BY DEF EventInv
  <2> DEFINE e == [kind |-> ConnectionState, boot |-> dev.boot]
  <2>e. e \in Events /\ (e.kind = "healthy" => e.boot \in ran.healthy) /\ dev.boot \in Boots
        /\ hub.last \in Boots \union {NoBoot}
    BY <1>4 DEF Connect, Events, Devices, Hubs, ConnectionState, TrailInv
  <2>b. Publish(e, TRUE, dev.boot)
    BY <1>4 DEF Connect
  <2>p. Published(ran.healthy)
    <3> HIDE DEF e
    <3> QED BY <2>a, <2>b, <2>e, PublishEffect
  <2>d. dev' \in Devices /\ dev'.boot = dev.boot /\ dev'.image = dev.image
        /\ dev'.healthy = dev.healthy
    <3>1. dev' \in Devices
        BY <1>4, Zenon DEF Devices, Connect
    <3> QED BY <3>1, <1>4 DEF Devices, Connect
  <2>1. (flash \in Flashes)' /\ (rec \in Recs)' /\ (ran \in Trails)' /\ (calm \in BOOLEAN /\
     faults \in 0 .. MaxFaults)'
    BY <2>u
  <2>2. (dev \in Devices)'
    BY <1>4, <2>d DEF Hubs, Published, SameRun
  <2>3. (op \in Ops)'
    BY <1>4, <2>p, <2>d DEF Hubs, Published, SameRun
  <2>4. (hub \in Hubs /\ Len(hub.history) =< HistorySize)'
    BY <1>4, <2>p, <2>d DEF Hubs, Published, SameRun
  <2>5. Settled'
    BY <1>4, <2>p, <2>d DEF Settled, Hubs, Published, SameRun
  <2>6. (stored \in SUBSET Boots)'
    BY <1>4, <2>p, <2>d DEF Hubs, Published, SameRun
  <2>7. TrailInv'
    BY <1>4, <2>u, <2>d DEF TrailInv, Trails, Hubs, Published, SameRun
  <2>8. EventInv'
    BY <1>4, <2>u, <2>p, <2>d DEF EventInv, Trails, Hubs, Published, SameRun
  <2>9. OrderInv'
    BY <1>4, <2>p, <2>d DEF OrderInv, Hubs, Published, SameRun
  <2>10. KindInv'
    BY <1>4, <2>p, <2>d DEF KindInv, Hubs, Published, SameRun
  <2>11. HeardInv'
    BY <1>4, <2>u, <2>p, <2>d DEF HeardInv, Updates, Trails, Hubs, Published, SameRun
  <2>12. UnwrittenInv'
    BY <1>4, <2>u, <2>p, <2>d DEF UnwrittenInv, Hubs, Published, SameRun
  <2>13. RecInv'
    BY <1>4, <2>u, <2>p, <2>d DEF RecInv, Recs, Trails, Hubs, Published, SameRun
  <2>z. MismatchInv'
    BY <1>4, <2>u, <2>p, <2>d DEF MismatchInv, Trails, Hubs, Published,
       SameRun
  <2>14. AcceptedIsReal'
    BY <1>4, <2>u, <2>p, <2>d DEF AcceptedIsReal, Done, Updates, Trails, Hubs, Published,
       SameRun
  <2>15. ObservedIsReal'
    BY <1>4, <2>u, <2>p, <2>d DEF ObservedIsReal, Recs, Trails, Hubs, Published, SameRun
  <2> QED BY <2>z, <2>1, <2>2, <2>3, <2>4, <2>5, <2>6, <2>7, <2>8, <2>9, <2>10, <2>11, <2>12,
     <2>13, <2>14, <2>15 DEF UpdateInv, TypeOK
<1>5. CASE Announce
  <2>u. flash' = flash /\ ran' = ran /\ rec' = rec /\ faults' = faults /\ calm' = calm
    BY <1>5 DEF Announce, Fault, NoFault
  <2>a. Said(hub.history, ran.healthy) /\ Said(op.queue, ran.healthy)
        /\ stored \subseteq ran.healthy
    BY DEF EventInv
  <2> DEFINE e == [kind |-> "healthy", boot |-> dev.boot]
  <2>e. e \in Events /\ (e.kind = "healthy" => e.boot \in ran.healthy) /\ dev.boot \in Boots
        /\ hub.last \in Boots \union {NoBoot}
    BY <1>5 DEF Announce, Events, Devices, Hubs, ConnectionState, TrailInv
  <2>b. Publish(e, TRUE, hub.last)
    BY <1>5 DEF Announce
  <2>p. Published(ran.healthy)
    <3> HIDE DEF e
    <3> QED BY <2>a, <2>b, <2>e, PublishEffect
  <2>d. dev' \in Devices /\ dev'.boot = dev.boot /\ dev'.image = dev.image
        /\ dev'.healthy = dev.healthy
    <3>1. dev' \in Devices
        BY <1>5, Zenon DEF Devices, Announce
    <3> QED BY <3>1, <1>5 DEF Devices, Announce
  <2>1. (flash \in Flashes)' /\ (rec \in Recs)' /\ (ran \in Trails)' /\ (calm \in BOOLEAN /\
     faults \in 0 .. MaxFaults)'
    BY <2>u
  <2>2. (dev \in Devices)'
    BY <1>5, <2>d DEF Hubs, Published, SameRun
  <2>3. (op \in Ops)'
    BY <1>5, <2>p, <2>d DEF Hubs, Published, SameRun
  <2>4. (hub \in Hubs /\ Len(hub.history) =< HistorySize)'
    BY <1>5, <2>p, <2>d DEF Hubs, Published, SameRun
  <2>5. Settled'
    BY <1>5, <2>p, <2>d DEF Settled, Hubs, Published, SameRun
  <2>6. (stored \in SUBSET Boots)'
    BY <1>5, <2>p, <2>d DEF Hubs, Published, SameRun
  <2>7. TrailInv'
    BY <1>5, <2>u, <2>d DEF TrailInv, Trails, Hubs, Published, SameRun
  <2>8. EventInv'
    BY <1>5, <2>u, <2>p, <2>d DEF EventInv, Trails, Hubs, Published, SameRun
  <2>9. OrderInv'
    BY <1>5, <2>p, <2>d DEF OrderInv, Hubs, Published, SameRun
  <2>10. KindInv'
    BY <1>5, <2>p, <2>d DEF KindInv, Hubs, Published, SameRun
  <2>11. HeardInv'
    BY <1>5, <2>u, <2>p, <2>d DEF HeardInv, Updates, Trails, Hubs, Published, SameRun
  <2>12. UnwrittenInv'
    BY <1>5, <2>u, <2>p, <2>d DEF UnwrittenInv, Hubs, Published, SameRun
  <2>13. RecInv'
    BY <1>5, <2>u, <2>p, <2>d DEF RecInv, Recs, Trails, Hubs, Published, SameRun
  <2>z. MismatchInv'
    BY <1>5, <2>u, <2>p, <2>d DEF MismatchInv, Trails, Hubs, Published,
       SameRun
  <2>14. AcceptedIsReal'
    BY <1>5, <2>u, <2>p, <2>d DEF AcceptedIsReal, Done, Updates, Trails, Hubs, Published,
       SameRun
  <2>15. ObservedIsReal'
    BY <1>5, <2>u, <2>p, <2>d DEF ObservedIsReal, Recs, Trails, Hubs, Published, SameRun
  <2> QED BY <2>z, <2>1, <2>2, <2>3, <2>4, <2>5, <2>6, <2>7, <2>8, <2>9, <2>10, <2>11, <2>12,
     <2>13, <2>14, <2>15 DEF UpdateInv, TypeOK
<1>6. CASE Break
  <2>u. dev' = dev /\ flash' = flash /\ ran' = ran /\ rec' = rec
    BY <1>6 DEF Break, Fault, NoFault, device
  <2>a. Said(hub.history, ran.healthy) /\ Said(op.queue, ran.healthy)
        /\ stored \subseteq ran.healthy
    BY DEF EventInv
  <2>p. Published(ran.healthy)
    BY <1>6, <2>a, HangupEffect DEF Break
  <2>1. (dev \in Devices)' /\ (flash \in Flashes)' /\ (rec \in Recs)' /\ (ran \in Trails)'
     /\ TrailInv'
    BY <2>u DEF TrailInv
  <2>2. (op \in Ops)'
    BY <1>6, <2>p DEF Hubs, Published, SameRun
  <2>3. (hub \in Hubs /\ Len(hub.history) =< HistorySize)'
    BY <1>6, <2>p DEF Hubs, Published, SameRun
  <2>4. Settled'
    BY <1>6, <2>p DEF Settled, Hubs, Published, SameRun
  <2>5. (stored \in SUBSET Boots)'
    BY <1>6, <2>p DEF Hubs, Published, SameRun
  <2>6. (calm \in BOOLEAN /\ faults \in 0 .. MaxFaults)'
    BY <1>6, FaultsAreTyped DEF Break
  <2>7. EventInv'
    BY <1>6, <2>u, <2>p DEF EventInv, Trails, Hubs, Published, SameRun
  <2>8. OrderInv'
    BY <1>6, <2>u, <2>p DEF OrderInv, Hubs, Published, SameRun
  <2>9. KindInv'
    BY <1>6, <2>p DEF KindInv, Hubs, Published, SameRun
  <2>10. HeardInv'
    BY <1>6, <2>u, <2>p DEF HeardInv, Updates, Trails, Hubs, Published, SameRun
  <2>11. UnwrittenInv'
    BY <1>6, <2>u, <2>p DEF UnwrittenInv, Hubs, Published, SameRun
  <2>12. RecInv'
    BY <1>6, <2>u, <2>p DEF RecInv, Recs, Trails, Hubs, Published, SameRun
  <2>z. MismatchInv'
    BY <1>6, <2>u, <2>p DEF MismatchInv, Trails, Hubs, Published, SameRun
  <2>13. AcceptedIsReal'
    BY <1>6, <2>u, <2>p DEF AcceptedIsReal, Done, Updates, Trails, Hubs, Published, SameRun
  <2>14. ObservedIsReal'
    BY <1>6, <2>u, <2>p DEF ObservedIsReal, Recs, Trails, Hubs, Published, SameRun
  <2> QED BY <2>z, <2>1, <2>2, <2>3, <2>4, <2>5, <2>6, <2>7, <2>8, <2>9, <2>10, <2>11, <2>12,
     <2>13, <2>14 DEF UpdateInv, TypeOK
<1>7. ASSUME NEW kind \in Kinds, Begins(kind) PROVE UpdateInv'
  <2>u. dev' = dev /\ flash' = flash /\ ran' = ran /\ hub' = hub /\ rec' = rec /\ faults' = faults
    BY <1>7 DEF Begins, device
  <2>b. op' = [op EXCEPT !.pc = "before", !.kind = kind]
    BY <1>7 DEF Begins
  <2>c. kind \in AllKinds /\ "before" \in Running
    BY KindsAssumption DEF Running
  <2>o. op' \in Ops
    BY <2>b, <2>c, Zenon DEF Ops
  <2>m. /\ op'.pc = "before" /\ op'.kind = kind /\ op'.before = op.before /\ op'.writer = op.writer
        /\ op'.proof = op.proof /\ op'.newBoot = op.newBoot /\ op'.out = op.out /\ op'.error = op.error /\ op'.queue = op.queue
    BY <2>b DEF Ops
  <2>1. (dev \in Devices)' /\ (flash \in Flashes)' /\ (rec \in Recs)' /\ (ran \in Trails)'
     /\ (hub \in Hubs /\ Len(hub.history) =< HistorySize)' /\ TrailInv'
    BY <2>u DEF Begins, TrailInv
  <2>2. (op \in Ops)'
    BY <1>7, <2>o, <2>m DEF Begins
  <2>3. Settled'
    BY <1>7, <2>o, <2>m DEF Settled, Begins
  <2>4. (stored \in SUBSET Boots)'
    BY <1>7, <2>o, <2>m DEF Begins
  <2>5. (calm \in BOOLEAN /\ faults \in 0 .. MaxFaults)'
    BY <1>7, <2>o, <2>m DEF Begins
  <2>6. EventInv'
    BY <1>7, <2>u, <2>o, <2>m DEF Begins, EventInv, Trails, Hubs
  <2>7. OrderInv'
    BY <1>7, <2>u, <2>o, <2>m DEF Begins, OrderInv
  <2>8. KindInv'
    BY <1>7, <2>o, <2>m DEF Begins, KindInv
  <2>9. HeardInv'
    BY <1>7, <2>o, <2>m DEF Begins, HeardInv, Updates, Trails
  <2>10. UnwrittenInv'
    BY <1>7, <2>u, <2>o, <2>m DEF Begins, UnwrittenInv
  <2>11. RecInv'
    BY <1>7, <2>u, <2>o, <2>m DEF Begins, RecInv, Recs, Trails
  <2>z. MismatchInv'
    BY <1>7, <2>o, <2>m, <2>u DEF Begins, MismatchInv, Trails
  <2>12. AcceptedIsReal'
    BY <1>7, <2>o, <2>m DEF Begins, AcceptedIsReal, Done, Updates, Trails
  <2>13. ObservedIsReal'
    BY <1>7, <2>u, <2>o, <2>m DEF Begins, ObservedIsReal, Recs, Trails
  <2> QED BY <2>z, <2>1, <2>2, <2>3, <2>4, <2>5, <2>6, <2>7, <2>8, <2>9, <2>10, <2>11, <2>12,
     <2>13 DEF UpdateInv, TypeOK
<1>8. CASE ReadBefore
  <2>u. dev' = dev /\ flash' = flash /\ ran' = ran /\ hub' = hub /\ stored' = stored
        /\ rec' = rec /\ faults' = faults /\ calm' = calm
    BY <1>8 DEF ReadBefore, Fault, NoFault, Finish, Fails, Refused, Stored, Step, device
  <2>h. hub' = hub /\ stored' = stored /\ rec' = rec /\ dev.boot \in Boots /\ op.pc = "before"
    BY <1>8 DEF ReadBefore, Finish, Fails, Refused, Stored, Step, Devices
  <2>o. \/ Ends("failed", "before")
        \/ /\ op' \in Ops /\ op'.pc = "enter" /\ NeedsRecovery /\ op'.kind = op.kind
           /\ op'.before = dev.boot /\ op'.proof = dev.boot /\ op'.writer = op.writer
           /\ op'.newBoot = op.newBoot /\ op'.out = op.out /\ op'.error = op.error /\ op'.queue = op.queue
        \/ /\ op' \in Ops /\ op'.pc = "prepare" /\ op'.kind = op.kind
           /\ op'.before = dev.boot /\ op'.writer = dev.boot /\ op'.proof = op.proof
           /\ op'.newBoot = op.newBoot /\ op'.out = op.out /\ op'.error = op.error /\ op'.queue = op.queue
    <3>1. CASE hub.up /\ NeedsRecovery
      <4>1. op' = [op EXCEPT !.pc = "enter", !.before = dev.boot, !.proof = dev.boot]
        BY <1>8, <3>1 DEF ReadBefore, Step
      <4>2. op' \in Ops
        BY <2>h, <4>1, Zenon DEF Ops, Running
      <4> QED BY <3>1, <4>1, <4>2 DEF Ops
    <3>2. CASE hub.up /\ ~NeedsRecovery
      <4>1. op' = [op EXCEPT !.pc = "prepare", !.before = dev.boot, !.writer = dev.boot]
        BY <1>8, <3>2 DEF ReadBefore, Step
      <4>2. op' \in Ops
        BY <2>h, <4>1, Zenon DEF Ops, Running
      <4> QED BY <3>2, <4>1, <4>2 DEF Ops
    <3>3. CASE ~hub.up
        BY <1>8, <3>3, FinishEffect DEF ReadBefore, Errors
    <3> QED BY <3>1, <3>2, <3>3
  <2>1. (dev \in Devices)' /\ (flash \in Flashes)' /\ (rec \in Recs)' /\ (ran \in Trails)'
     /\ (hub \in Hubs /\ Len(hub.history) =< HistorySize)' /\ (stored \in SUBSET Boots)' /\
     (calm \in BOOLEAN /\ faults \in 0 .. MaxFaults)' /\ TrailInv'
    BY <2>u DEF TrailInv
  <2>2. (op \in Ops)'
    BY <1>8, <2>h, <2>o, NothingSaid DEF Ends, SameRun, NeedsRecovery
  <2>3. Settled'
    BY <1>8, <2>h, <2>o, NothingSaid DEF Settled, Ends, SameRun, NeedsRecovery
  <2>4. EventInv'
    BY <1>8, <2>u, <2>h, <2>o, NothingSaid DEF EventInv, Trails, Hubs, Ends, SameRun,
       NeedsRecovery
  <2>5. OrderInv'
    BY <1>8, <2>u, <2>h, <2>o, NothingSaid DEF OrderInv, Boots, Ends, SameRun,
       NeedsRecovery, NoBoot
  <2>6. KindInv'
    BY <1>8, <2>h, <2>o, NothingSaid DEF KindInv, Ends, SameRun, NeedsRecovery
  <2>7. HeardInv'
    BY <1>8, <2>h, <2>o, NothingSaid DEF HeardInv, Updates, Trails, Ends, SameRun,
       NeedsRecovery
  <2>8. UnwrittenInv'
    BY <1>8, <2>u, <2>h, <2>o, NothingSaid DEF UnwrittenInv, Ends, SameRun, NeedsRecovery
  <2>9. RecInv'
    BY <1>8, <2>u, <2>h, <2>o, NothingSaid DEF RecInv, Recs, Trails, Ends, SameRun,
       NeedsRecovery
  <2>z. MismatchInv'
    BY <1>8, <2>h, <2>o, NothingSaid, <2>u DEF MismatchInv, Trails, Ends,
       SameRun, NeedsRecovery
  <2>10. AcceptedIsReal'
    BY <1>8, <2>h, <2>o, NothingSaid DEF AcceptedIsReal, Done, Updates, Trails, Ends,
       SameRun, NeedsRecovery
  <2>11. ObservedIsReal'
    BY <1>8, <2>h, <2>o, NothingSaid DEF ObservedIsReal, RecInv, Recs, Trails, Ends,
       SameRun, NeedsRecovery
  <2> QED BY <2>z, <2>1, <2>2, <2>3, <2>4, <2>5, <2>6, <2>7, <2>8, <2>9, <2>10, <2>11 DEF
     UpdateInv, TypeOK
<1>9. CASE Incompatible
  <2>u. dev' = dev /\ flash' = flash /\ ran' = ran /\ hub' = hub /\ stored' = stored /\ rec' = rec
    BY <1>9 DEF Incompatible, Fault, NoFault, Finish, Fails, Refused, Stored, Step, device
  <2>h. op.pc \in {"before", "enter", "prepare"}
    BY <1>9 DEF Incompatible
  <2>o. Ends("failed", "before")
    BY <1>9, FinishEffect DEF Incompatible, Refused, Errors
  <2>1. (dev \in Devices)' /\ (flash \in Flashes)' /\ (rec \in Recs)' /\ (ran \in Trails)'
     /\ (hub \in Hubs /\ Len(hub.history) =< HistorySize)' /\ (stored \in SUBSET Boots)' /\
     TrailInv'
    BY <2>u DEF TrailInv
  <2>2. (op \in Ops)'
    BY <1>9, <2>h, <2>o, NothingSaid DEF Ends, SameRun
  <2>3. Settled'
    BY <1>9, <2>h, <2>o, NothingSaid DEF Settled, Ends, SameRun
  <2>4. (calm \in BOOLEAN /\ faults \in 0 .. MaxFaults)'
    BY <1>9, FaultsAreTyped DEF Incompatible, Refused
  <2>5. EventInv'
    BY <1>9, <2>u, <2>h, <2>o, NothingSaid DEF EventInv, Trails, Hubs, Ends, SameRun
  <2>6. OrderInv'
    BY <1>9, <2>u, <2>h, <2>o, NothingSaid DEF OrderInv, Ends, SameRun
  <2>7. KindInv'
    BY <1>9, <2>h, <2>o, NothingSaid DEF KindInv, Ends, SameRun
  <2>8. HeardInv'
    BY <1>9, <2>h, <2>o, NothingSaid DEF HeardInv, Updates, Trails, Ends, SameRun
  <2>9. UnwrittenInv'
    BY <1>9, <2>u, <2>h, <2>o, NothingSaid DEF UnwrittenInv, Ends, SameRun
  <2>10. RecInv'
    BY <1>9, <2>u, <2>h, <2>o, NothingSaid DEF RecInv, Recs, Trails, Ends, SameRun
  <2>z. MismatchInv'
    BY <1>9, <2>h, <2>o, NothingSaid, <2>u DEF MismatchInv, Trails, Ends,
       SameRun
  <2>11. AcceptedIsReal'
    BY <1>9, <2>h, <2>o, NothingSaid DEF AcceptedIsReal, Done, Updates, Trails, Ends,
       SameRun
  <2>12. ObservedIsReal'
    BY <1>9, <2>u, <2>h, <2>o, NothingSaid DEF ObservedIsReal, Recs, Trails, Ends, SameRun
  <2> QED BY <2>z, <2>1, <2>2, <2>3, <2>4, <2>5, <2>6, <2>7, <2>8, <2>9, <2>10, <2>11, <2>12 DEF
     UpdateInv, TypeOK
<1>10. CASE EnterRecovery
  <2>u. ran' = ran /\ hub' = hub /\ stored' = stored /\ rec' = rec /\ faults' = faults
        /\ calm' = calm
    BY <1>10 DEF EnterRecovery, Fault, NoFault, Finish, Fails, Refused, Stored, Step, device
  <2>h. hub' = hub /\ stored' = stored /\ rec' = rec /\ op.pc = "enter"
    BY <1>10 DEF EnterRecovery, Finish, Fails, Refused, Stored, Step
  <2>o. \/ Ends("failed", "before")
        \/ /\ op' \in Ops /\ op'.pc = "wait"
           /\ op'.kind = op.kind /\ op'.before = op.before /\ op'.writer = op.writer
           /\ op'.proof = op.proof /\ op'.newBoot = op.newBoot
           /\ op'.out = op.out /\ op'.error = op.error /\ op'.queue = op.queue
    <3>1. CASE op' = [op EXCEPT !.pc = "wait"]
      <4>1. op' \in Ops
        BY <2>h, <3>1, Zenon DEF Ops, Running
      <4> QED BY <2>h, <3>1, <4>1 DEF Ops
    <3>2. CASE Fails("before")
        BY <3>2, FinishEffect DEF Errors
    <3> QED BY <1>10, <3>1, <3>2 DEF EnterRecovery, Step
  <2>d. dev' \in Devices /\ dev'.boot = dev.boot /\ dev'.image = dev.image
        /\ dev'.healthy = dev.healthy
    <3>1. dev' = dev \/ dev' = [dev EXCEPT !.plan = TRUE]
        BY <1>10 DEF EnterRecovery
    <3>2. dev' \in Devices
        BY <3>1, Zenon DEF Devices
    <3> QED BY <3>1, <3>2 DEF Devices
  <2>f. flash' \in Flashes /\ flash'.receipt = flash.receipt /\ flash'.trial = flash.trial
    <3>1. flash' = flash \/ flash' = [flash EXCEPT !.sel = "recovery"]
        BY <1>10 DEF EnterRecovery
    <3>2. flash' \in Flashes
        BY <3>1, Zenon DEF Flashes, Images
    <3> QED BY <3>1, <3>2 DEF Flashes
  <2>1. (rec \in Recs)' /\ (ran \in Trails)' /\ (hub \in Hubs /\ Len(hub.history) =<
     HistorySize)' /\ (stored \in SUBSET Boots)' /\ (calm \in BOOLEAN /\ faults \in 0 ..
     MaxFaults)'
    BY <2>u
  <2>2. (dev \in Devices)'
    BY <1>10, <2>h, <2>o, <2>d, NothingSaid DEF Ends, SameRun
  <2>3. (flash \in Flashes)'
    BY <1>10, <2>h, <2>o, <2>d, <2>f, NothingSaid DEF Ends, SameRun
  <2>4. (op \in Ops)'
    BY <1>10, <2>h, <2>o, <2>d, NothingSaid DEF Ends, SameRun
  <2>5. Settled'
    BY <1>10, <2>h, <2>o, <2>d, NothingSaid DEF Settled, Ends, SameRun
  <2>6. TrailInv'
    BY <1>10, <2>u, <2>h, <2>o, <2>d, NothingSaid DEF TrailInv, Trails, Ends, SameRun
  <2>7. EventInv'
    BY <1>10, <2>u, <2>h, <2>o, <2>d, NothingSaid DEF EventInv, Trails, Hubs, Ends, SameRun
  <2>8. OrderInv'
    BY <1>10, <2>h, <2>o, <2>d, NothingSaid DEF OrderInv, Ends, SameRun
  <2>9. KindInv'
    BY <1>10, <2>h, <2>o, <2>d, NothingSaid DEF KindInv, Ends, SameRun
  <2>10. HeardInv'
    BY <1>10, <2>h, <2>o, <2>d, NothingSaid DEF HeardInv, Updates, Trails, Ends, SameRun
  <2>11. UnwrittenInv'
    BY <1>10, <2>h, <2>o, <2>d, <2>f, NothingSaid DEF UnwrittenInv, Ends, SameRun
  <2>12. RecInv'
    BY <1>10, <2>h, <2>o, <2>d, NothingSaid DEF RecInv, Boots, Recs, Trails, Ends, SameRun,
       NoBoot
  <2>z. MismatchInv'
    BY <1>10, <2>h, <2>o, <2>d, NothingSaid, <2>u, <2>f DEF MismatchInv, Trails, Ends,
       SameRun
  <2>13. AcceptedIsReal'
    BY <1>10, <2>h, <2>o, <2>d, NothingSaid DEF AcceptedIsReal, Done, Updates, Trails, Ends,
       SameRun
  <2>14. ObservedIsReal'
    BY <1>10, <2>u, <2>h, <2>o, <2>d, NothingSaid DEF ObservedIsReal, Recs, Trails, Ends,
       SameRun
  <2> QED BY <2>z, <2>1, <2>2, <2>3, <2>4, <2>5, <2>6, <2>7, <2>8, <2>9, <2>10, <2>11, <2>12,
     <2>13, <2>14 DEF UpdateInv, TypeOK
<1>11. CASE WaitRecovery
  <2>u. dev' = dev /\ flash' = flash /\ ran' = ran /\ hub' = hub /\ stored' = stored
        /\ rec' = rec /\ faults' = faults /\ calm' = calm
    BY <1>11 DEF WaitRecovery, Fault, NoFault, Finish, Fails, Refused, Stored, Step, device
  <2>h. hub' = hub /\ stored' = stored /\ rec' = rec /\ op.pc = "wait"
    BY <1>11 DEF WaitRecovery, Finish, Fails, Refused, Stored, Step
  <2>s. dev.boot \in Boots
    BY DEF Devices
  <2>o. \/ /\ op' \in Ops /\ op'.pc = "prepare"
           /\ op'.kind = op.kind /\ op'.before = op.before /\ op'.writer = dev.boot
           /\ op'.proof = op.proof /\ op'.newBoot = op.newBoot
           /\ op'.out = op.out /\ op'.error = op.error /\ op'.queue = op.queue
    <3>1. CASE op' = [op EXCEPT !.pc = "prepare", !.writer = dev.boot]
      <4>1. op' \in Ops
        BY <2>h, <2>s, <3>1, Zenon DEF Ops, Running
      <4> QED BY <2>h, <2>s, <3>1, <4>1 DEF Ops
    <3> QED BY <1>11, <3>1 DEF WaitRecovery, Step
  <2>1. (dev \in Devices)' /\ (flash \in Flashes)' /\ (rec \in Recs)' /\ (ran \in Trails)'
     /\ (hub \in Hubs /\ Len(hub.history) =< HistorySize)' /\ (stored \in SUBSET Boots)' /\
     (calm \in BOOLEAN /\ faults \in 0 .. MaxFaults)' /\ TrailInv'
    BY <2>u DEF TrailInv
  <2>2. (op \in Ops)'
    BY <1>11, <2>h, <2>o, NothingSaid DEF Ends, SameRun
  <2>3. Settled'
    BY <1>11, <2>h, <2>o, NothingSaid DEF Settled, Ends, SameRun
  <2>4. EventInv'
    BY <1>11, <2>u, <2>h, <2>o, NothingSaid DEF EventInv, Trails, Hubs, Ends, SameRun
  <2>5. OrderInv'
    BY <1>11, <2>u, <2>h, <2>o, NothingSaid DEF OrderInv, Devices, Boots, Ends, SameRun,
       NoBoot
  <2>6. KindInv'
    BY <1>11, <2>h, <2>o, NothingSaid DEF KindInv, Ends, SameRun
  <2>7. HeardInv'
    BY <1>11, <2>h, <2>o, NothingSaid DEF HeardInv, Updates, Trails, Ends, SameRun
  <2>8. UnwrittenInv'
    BY <1>11, <2>u, <2>h, <2>o, NothingSaid DEF UnwrittenInv, Ends, SameRun
  <2>9. RecInv'
    BY <1>11, <2>u, <2>h, <2>o, NothingSaid DEF RecInv, Recs, Trails, Ends, SameRun
  <2>z. MismatchInv'
    BY <1>11, <2>h, <2>o, NothingSaid, <2>u DEF MismatchInv, Trails, Ends,
       SameRun
  <2>10. AcceptedIsReal'
    BY <1>11, <2>h, <2>o, NothingSaid DEF AcceptedIsReal, Done, Updates, Trails, Ends,
       SameRun
  <2>11. ObservedIsReal'
    BY <1>11, <2>u, <2>h, <2>o, NothingSaid DEF ObservedIsReal, Recs, Trails, Ends, SameRun
  <2> QED BY <2>z, <2>1, <2>2, <2>3, <2>4, <2>5, <2>6, <2>7, <2>8, <2>9, <2>10, <2>11 DEF
     UpdateInv, TypeOK
<1>12. CASE Prepare
  <2>u. dev' = dev /\ flash' = flash /\ ran' = ran /\ hub' = hub /\ stored' = stored
        /\ rec' = rec /\ faults' = faults /\ calm' = calm
    BY <1>12 DEF Prepare, Fault, NoFault, Finish, Fails, Refused, Stored, Step, device
  <2>h. hub' = hub /\ stored' = stored /\ rec' = rec /\ op.pc = "prepare"
    BY <1>12 DEF Prepare, Finish, Fails, Refused, Stored, Step
  <2>o. \/ Ends("failed", "before")
        \/ /\ op' \in Ops /\ op'.pc = (IF op.kind = "restart" THEN "restart" ELSE "write")
           /\ op'.kind = op.kind /\ op'.before = op.before /\ op'.writer = op.writer
           /\ op'.newBoot = op.newBoot /\ op'.out = op.out /\ op'.error = op.error /\ op'.queue = hub.history
           /\ op'.proof = (IF op.kind = "restart" THEN op.proof ELSE op.writer)
    <3>1. CASE hub.up
      <4> DEFINE pc == IF op.kind = "restart" THEN "restart" ELSE "write"
                 proof == IF op.kind = "restart" THEN op.proof ELSE op.writer
                 stale == \E i \in DOMAIN Replayed :
                              Replayed[i].kind = "healthy" /\ Replayed[i].boot # op.writer
      <4>1. op' = [op EXCEPT !.pc = pc, !.listening = TRUE, !.queue = hub.history,
                             !.proof = proof, !.stale = stale]
        BY <1>12, <3>1 DEF Prepare, Step, Replayed
      <4>2. /\ pc \in Running /\ proof \in Boots \union {NoBoot} /\ stale \in BOOLEAN
            /\ hub.history \in Seq(Events)
        BY DEF Running, Ops, Hubs
      <4> HIDE DEF pc, proof, stale
      <4>3. op' \in Ops
        BY <4>1, <4>2, Zenon DEF Ops
      <4>4. /\ op'.pc = pc /\ op'.kind = op.kind /\ op'.before = op.before
            /\ op'.writer = op.writer /\ op'.newBoot = op.newBoot /\ op'.out = op.out /\ op'.error = op.error
            /\ op'.queue = hub.history /\ op'.proof = proof
        BY <4>1 DEF Ops
      <4> QED BY <4>3, <4>4 DEF pc, proof
    <3>2. CASE ~hub.up
        BY <1>12, <3>2, FinishEffect DEF Prepare, Errors
    <3> QED BY <3>1, <3>2
  <2>1. (dev \in Devices)' /\ (flash \in Flashes)' /\ (rec \in Recs)' /\ (ran \in Trails)'
     /\ (hub \in Hubs /\ Len(hub.history) =< HistorySize)' /\ (stored \in SUBSET Boots)' /\
     (calm \in BOOLEAN /\ faults \in 0 .. MaxFaults)' /\ TrailInv'
    BY <2>u DEF TrailInv
  <2>2. (op \in Ops)'
    BY <1>12, <2>h, <2>o, NothingSaid DEF Ends, SameRun
  <2>3. Settled'
    BY <1>12, <2>h, <2>o, NothingSaid DEF Settled, Ends, SameRun
  <2>4. EventInv'
    BY <1>12, <2>u, <2>h, <2>o, NothingSaid DEF EventInv, Trails, Hubs, Ends, SameRun
  <2>5. OrderInv'
    BY <1>12, <2>u, <2>h, <2>o, NothingSaid DEF OrderInv, Ends, SameRun
  <2>6. KindInv'
    BY <1>12, <2>h, <2>o, NothingSaid DEF KindInv, Ends, SameRun
  <2>7. HeardInv'
    BY <1>12, <2>h, <2>o, NothingSaid DEF HeardInv, Updates, Trails, Ends, SameRun
  <2>8. UnwrittenInv'
    BY <1>12, <2>u, <2>h, <2>o, NothingSaid DEF UnwrittenInv, Ends, SameRun
  <2>9. RecInv'
    BY <1>12, <2>u, <2>h, <2>o, NothingSaid DEF RecInv, Recs, Trails, Ends, SameRun
  <2>z. MismatchInv'
    BY <1>12, <2>h, <2>o, NothingSaid, <2>u DEF MismatchInv, Trails, Ends,
       SameRun
  <2>10. AcceptedIsReal'
    BY <1>12, <2>h, <2>o, NothingSaid DEF AcceptedIsReal, Done, Updates, Trails, Ends,
       SameRun
  <2>11. ObservedIsReal'
    BY <1>12, <2>u, <2>h, <2>o, NothingSaid DEF ObservedIsReal, Recs, Trails, Ends, SameRun
  <2> QED BY <2>z, <2>1, <2>2, <2>3, <2>4, <2>5, <2>6, <2>7, <2>8, <2>9, <2>10, <2>11 DEF
     UpdateInv, TypeOK
<1>13. CASE Transfer
  <2>u. dev' = dev /\ ran' = ran /\ hub' = hub /\ stored' = stored /\ rec' = rec
        /\ faults' = faults /\ calm' = calm
    BY <1>13 DEF Transfer, Fault, NoFault, Finish, Fails, Refused, Stored, Step, device
  <2>h. hub' = hub /\ stored' = stored /\ rec' = rec /\ op.pc = "write"
    BY <1>13 DEF Transfer, Finish, Fails, Refused, Stored, Step
  <2>o. \/ /\ op' \in Ops /\ op'.pc = "restart"
           /\ op'.kind = op.kind /\ op'.before = op.before /\ op'.writer = op.writer
           /\ op'.proof = op.proof /\ op'.newBoot = op.newBoot
           /\ op'.out = op.out /\ op'.error = op.error /\ op'.queue = op.queue
    <3>1. CASE op' = [op EXCEPT !.pc = "restart"]
      <4>1. op' \in Ops
        BY <2>h, <3>1, Zenon DEF Ops, Running
      <4> QED BY <2>h, <3>1, <4>1 DEF Ops
    <3> QED BY <1>13, <3>1 DEF Transfer, Step
  <2>f. flash' \in Flashes
    BY <1>13, CommitIsTyped DEF Transfer
  <2>1. (dev \in Devices)' /\ (rec \in Recs)' /\ (ran \in Trails)' /\ (hub \in Hubs /\
     Len(hub.history) =< HistorySize)' /\ (stored \in SUBSET Boots)' /\ (calm \in BOOLEAN /\
     faults \in 0 .. MaxFaults)' /\ TrailInv'
    BY <2>u DEF TrailInv
  <2>2. (flash \in Flashes)'
    BY <1>13, <2>h, <2>o, <2>f, NothingSaid DEF Ends, SameRun
  <2>3. (op \in Ops)'
    BY <1>13, <2>h, <2>o, NothingSaid DEF Ends, SameRun
  <2>4. Settled'
    BY <1>13, <2>h, <2>o, NothingSaid DEF Settled, Ends, SameRun
  <2>5. EventInv'
    BY <1>13, <2>u, <2>h, <2>o, NothingSaid DEF EventInv, Trails, Hubs, Ends, SameRun
  <2>6. OrderInv'
    BY <1>13, <2>u, <2>h, <2>o, NothingSaid DEF OrderInv, Ends, SameRun
  <2>7. KindInv'
    BY <1>13, <2>h, <2>o, NothingSaid DEF KindInv, Ends, SameRun
  <2>8. HeardInv'
    BY <1>13, <2>h, <2>o, NothingSaid DEF HeardInv, Updates, Trails, Ends, SameRun
  <2>9. UnwrittenInv'
    BY <1>13, <2>h, <2>o, NothingSaid DEF UnwrittenInv, KindInv, Ends, SameRun
  <2>10. RecInv'
    BY <1>13, <2>u, <2>h, <2>o, NothingSaid DEF RecInv, Recs, Trails, Ends, SameRun
  <2>z. MismatchInv'
    BY <1>13, <2>h, <2>o, NothingSaid, <2>u, <2>f DEF MismatchInv, Trails, Ends,
       SameRun
  <2>11. AcceptedIsReal'
    BY <1>13, <2>h, <2>o, NothingSaid DEF AcceptedIsReal, Done, Updates, Trails, Ends,
       SameRun
  <2>12. ObservedIsReal'
    BY <1>13, <2>u, <2>h, <2>o, NothingSaid DEF ObservedIsReal, Recs, Trails, Ends, SameRun
  <2> QED BY <2>z, <2>1, <2>2, <2>3, <2>4, <2>5, <2>6, <2>7, <2>8, <2>9, <2>10, <2>11, <2>12 DEF
     UpdateInv, TypeOK
<1>14. CASE TransferRefused
  <2>u. dev' = dev /\ flash' = flash /\ ran' = ran /\ hub' = hub /\ stored' = stored /\ rec' = rec
    BY <1>14 DEF TransferRefused, Fault, NoFault, Finish, Fails, Refused, Stored, Step, device
  <2>h. op.pc = "write"
    BY <1>14 DEF TransferRefused
  <2>o. Ends("failed", "before")
    BY <1>14, FinishEffect DEF TransferRefused, Errors
  <2>1. (dev \in Devices)' /\ (flash \in Flashes)' /\ (rec \in Recs)' /\ (ran \in Trails)'
     /\ (hub \in Hubs /\ Len(hub.history) =< HistorySize)' /\ (stored \in SUBSET Boots)' /\
     TrailInv'
    BY <2>u DEF TrailInv
  <2>2. (op \in Ops)'
    BY <1>14, <2>h, <2>o, NothingSaid DEF Ends, SameRun
  <2>3. Settled'
    BY <1>14, <2>h, <2>o, NothingSaid DEF Settled, Ends, SameRun
  <2>4. (calm \in BOOLEAN /\ faults \in 0 .. MaxFaults)'
    BY <1>14, FaultsAreTyped DEF TransferRefused
  <2>5. EventInv'
    BY <1>14, <2>u, <2>h, <2>o, NothingSaid DEF EventInv, Trails, Hubs, Ends, SameRun
  <2>6. OrderInv'
    BY <1>14, <2>u, <2>h, <2>o, NothingSaid DEF OrderInv, Ends, SameRun
  <2>7. KindInv'
    BY <1>14, <2>h, <2>o, NothingSaid DEF KindInv, Ends, SameRun
  <2>8. HeardInv'
    BY <1>14, <2>h, <2>o, NothingSaid DEF HeardInv, Updates, Trails, Ends, SameRun
  <2>9. UnwrittenInv'
    BY <1>14, <2>u, <2>h, <2>o, NothingSaid DEF UnwrittenInv, Ends, SameRun
  <2>10. RecInv'
    BY <1>14, <2>u, <2>h, <2>o, NothingSaid DEF RecInv, Recs, Trails, Ends, SameRun
  <2>z. MismatchInv'
    BY <1>14, <2>h, <2>o, NothingSaid, <2>u DEF MismatchInv, Trails, Ends,
       SameRun
  <2>11. AcceptedIsReal'
    BY <1>14, <2>h, <2>o, NothingSaid DEF AcceptedIsReal, Done, Updates, Trails, Ends,
       SameRun
  <2>12. ObservedIsReal'
    BY <2>u, <2>o DEF ObservedIsReal, Ends, SameRun
  <2> QED BY <2>z, <2>1, <2>2, <2>3, <2>4, <2>5, <2>6, <2>7, <2>8, <2>9, <2>10, <2>11, <2>12 DEF
     UpdateInv, TypeOK
<1>15. CASE TransferCut
  <2>u. dev' = dev /\ ran' = ran /\ stored' = stored /\ rec' = rec
    BY <1>15 DEF TransferCut, Fault, NoFault, Finish, Fails, Refused, Stored, Step, MayCommit,
       Commits, device
  <2>f. flash' \in Flashes
    BY <1>15, CommitIsTyped DEF TransferCut, MayCommit
  <2>e. Disconnected \in Events /\ Disconnected.kind # "healthy"
    BY DEF Disconnected, Events, Devices
  <2>h. /\ op.pc = "write" /\ stored' = stored /\ rec' = rec
        /\ hub' = [hub EXCEPT !.up = FALSE, !.history = Kept(Append(hub.history, Disconnected))]
        /\ op' = [op EXCEPT !.pc = "listen", !.queue = Append(op.queue, Disconnected)]
    BY <1>15 DEF TransferCut
  <2>a. hub.history \in Seq(Events) /\ op.queue \in Seq(Events)
        /\ Said(hub.history, ran.healthy) /\ Said(op.queue, ran.healthy)
    BY DEF EventInv, Hubs, Ops
  <2>q. /\ Kept(Append(hub.history, Disconnected)) \in Seq(Events)
        /\ Said(Kept(Append(hub.history, Disconnected)), ran.healthy)
        /\ Append(op.queue, Disconnected) \in Seq(Events) /\ Said(Append(op.queue, Disconnected), ran.healthy)
        /\ Len(Kept(Append(hub.history, Disconnected))) =< HistorySize
    BY <2>a, <2>e, SaidSequences, KeptIsBounded, BoundsAssumption
  <2>o. /\ op' \in Ops /\ SameRun /\ op'.pc = "listen" /\ op'.out = op.out /\ op'.error = op.error
        /\ op'.queue = Append(op.queue, Disconnected)
    <3>1. op' \in Ops
        BY <2>h, <2>q, Zenon DEF Ops, Running
    <3> QED BY <3>1, <2>h DEF Ops, SameRun
  <2>b. hub' \in Hubs /\ hub'.history = Kept(Append(hub.history, Disconnected))
    <3>1. hub' \in Hubs
        BY <2>h, <2>q, Zenon DEF Hubs
    <3> QED BY <3>1, <2>h DEF Hubs
  <2>1. (dev \in Devices)' /\ (rec \in Recs)' /\ (ran \in Trails)' /\ (stored \in SUBSET
     Boots)' /\ TrailInv'
    BY <2>u DEF TrailInv
  <2>2. (flash \in Flashes)'
    BY <1>15, <2>f, <2>h, <2>q, <2>o DEF Hubs, SameRun
  <2>3. (op \in Ops)'
    BY <1>15, <2>h, <2>q, <2>o DEF Hubs, SameRun
  <2>4. (hub \in Hubs /\ Len(hub.history) =< HistorySize)'
    BY <1>15, <2>h, <2>q, <2>o, <2>b DEF Hubs, SameRun
  <2>5. Settled'
    BY <1>15, <2>h, <2>q, <2>o DEF Settled, Hubs, SameRun
  <2>6. (calm \in BOOLEAN /\ faults \in 0 .. MaxFaults)'
    BY <1>15, FaultsAreTyped DEF TransferCut
  <2>7. EventInv'
    BY <1>15, <2>u, <2>h, <2>q, <2>o DEF EventInv, Trails, Hubs, SameRun
  <2>8. OrderInv'
    BY <1>15, <2>u, <2>h, <2>q, <2>o DEF OrderInv, Hubs, SameRun
  <2>9. KindInv'
    BY <1>15, <2>h, <2>q, <2>o DEF KindInv, Hubs, SameRun
  <2>10. HeardInv'
    BY <1>15, <2>h, <2>q, <2>o DEF HeardInv, Updates, Trails, Hubs, SameRun
  <2>11. UnwrittenInv'
    BY <1>15, <2>h, <2>q, <2>o DEF UnwrittenInv, KindInv, Hubs, SameRun
  <2>12. RecInv'
    BY <1>15, <2>u, <2>h, <2>q, <2>o DEF RecInv, Recs, Trails, Hubs, SameRun
  <2>z. MismatchInv'
    BY <1>15, <2>h, <2>q, <2>o, <2>u, <2>f DEF MismatchInv, Trails, Hubs, SameRun
  <2>13. AcceptedIsReal'
    BY <1>15, <2>h, <2>q, <2>o DEF AcceptedIsReal, Done, Updates, Trails, Hubs, SameRun
  <2>14. ObservedIsReal'
    BY <1>15, <2>u, <2>h, <2>q, <2>o DEF ObservedIsReal, Recs, Trails, Hubs, SameRun
  <2> QED BY <2>z, <2>1, <2>2, <2>3, <2>4, <2>5, <2>6, <2>7, <2>8, <2>9, <2>10, <2>11, <2>12,
     <2>13, <2>14 DEF UpdateInv, TypeOK
<1>16. CASE TransferUnknown
  <2>u. dev' = dev /\ ran' = ran /\ hub' = hub /\ stored' = stored /\ rec' = rec
    BY <1>16 DEF TransferUnknown, Fault, NoFault, Finish, Fails, Refused, Stored, Step,
       MayCommit, Commits, device
  <2>h. op.pc = "write"
    BY <1>16 DEF TransferUnknown
  <2>o. Ends("unknown", "none")
    BY <1>16, FinishEffect DEF TransferUnknown, Outcomes, LostContact
  <2>f. flash' \in Flashes
    BY <1>16, CommitIsTyped DEF TransferUnknown, MayCommit
  <2>1. (dev \in Devices)' /\ (rec \in Recs)' /\ (ran \in Trails)' /\ (hub \in Hubs /\
     Len(hub.history) =< HistorySize)' /\ (stored \in SUBSET Boots)' /\ TrailInv'
    BY <2>u DEF TrailInv
  <2>2. (flash \in Flashes)'
    BY <1>16, <2>h, <2>o, <2>f, NothingSaid DEF Ends, SameRun
  <2>3. (op \in Ops)'
    BY <1>16, <2>h, <2>o, NothingSaid DEF Ends, SameRun
  <2>4. Settled'
    BY <1>16, <2>h, <2>o, NothingSaid DEF Settled, Ends, SameRun
  <2>5. (calm \in BOOLEAN /\ faults \in 0 .. MaxFaults)'
    BY <1>16, FaultsAreTyped DEF TransferUnknown
  <2>6. EventInv'
    BY <1>16, <2>u, <2>h, <2>o, NothingSaid DEF EventInv, Trails, Hubs, Ends, SameRun
  <2>7. OrderInv'
    BY <1>16, <2>u, <2>h, <2>o, NothingSaid DEF OrderInv, Ends, SameRun
  <2>8. KindInv'
    BY <1>16, <2>h, <2>o, NothingSaid DEF KindInv, Ends, SameRun
  <2>9. HeardInv'
    BY <1>16, <2>h, <2>o, NothingSaid DEF HeardInv, Updates, Trails, Ends, SameRun
  <2>10. UnwrittenInv'
    BY <1>16, <2>h, <2>o, NothingSaid DEF UnwrittenInv, KindInv, Ends, SameRun
  <2>11. RecInv'
    BY <1>16, <2>u, <2>h, <2>o, NothingSaid DEF RecInv, Recs, Trails, Ends, SameRun
  <2>z. MismatchInv'
    BY <1>16, <2>h, <2>o, NothingSaid, <2>u, <2>f DEF MismatchInv, Trails, Ends,
       SameRun
  <2>12. AcceptedIsReal'
    BY <1>16, <2>h, <2>o, NothingSaid DEF AcceptedIsReal, Done, Updates, Trails, Ends,
       SameRun
  <2>13. ObservedIsReal'
    BY <1>16, <2>u, <2>h, <2>o, NothingSaid DEF ObservedIsReal, Recs, Trails, Ends, SameRun
  <2> QED BY <2>z, <2>1, <2>2, <2>3, <2>4, <2>5, <2>6, <2>7, <2>8, <2>9, <2>10, <2>11, <2>12,
     <2>13 DEF UpdateInv, TypeOK
<1>17. CASE Restart
  <2>u. flash' = flash /\ ran' = ran /\ hub' = hub /\ stored' = stored /\ rec' = rec
    BY <1>17 DEF Restart, Fault, NoFault, Finish, Fails, Refused, Stored, Step, device
  <2>h. hub' = hub /\ stored' = stored /\ rec' = rec /\ op.pc = "restart"
    BY <1>17 DEF Restart, Finish, Fails, Refused, Stored, Step
  <2>o. \/ Ends("failed", "after")
        \/ /\ op' \in Ops /\ op'.pc = "listen"
           /\ op'.kind = op.kind /\ op'.before = op.before /\ op'.writer = op.writer
           /\ op'.proof = op.proof /\ op'.newBoot = op.newBoot
           /\ op'.out = op.out /\ op'.error = op.error /\ op'.queue = op.queue
    <3>1. CASE op' = [op EXCEPT !.pc = "listen"]
      <4>1. op' \in Ops
        BY <2>h, <3>1, Zenon DEF Ops, Running
      <4> QED BY <2>h, <3>1, <4>1 DEF Ops
    <3>2. CASE Fails("after")
        BY <3>2, FinishEffect DEF Errors
    <3> QED BY <1>17, <3>1, <3>2 DEF Restart, Refused, Step
  <2>d. dev' \in Devices /\ dev'.boot = dev.boot /\ dev'.image = dev.image
        /\ dev'.healthy = dev.healthy
    <3>1. dev' = dev \/ dev' = [dev EXCEPT !.plan = TRUE]
        BY <1>17 DEF Restart
    <3>2. dev' \in Devices
        BY <3>1, Zenon DEF Devices
    <3> QED BY <3>1, <3>2 DEF Devices
  <2>1. (flash \in Flashes)' /\ (rec \in Recs)' /\ (ran \in Trails)' /\ (hub \in Hubs /\
     Len(hub.history) =< HistorySize)' /\ (stored \in SUBSET Boots)'
    BY <2>u
  <2>2. (dev \in Devices)'
    BY <1>17, <2>h, <2>o, <2>d, NothingSaid DEF Ends, SameRun
  <2>3. (op \in Ops)'
    BY <1>17, <2>h, <2>o, <2>d, NothingSaid DEF Ends, SameRun
  <2>4. Settled'
    BY <1>17, <2>h, <2>o, <2>d, NothingSaid DEF Settled, Ends, SameRun
  <2>5. (calm \in BOOLEAN /\ faults \in 0 .. MaxFaults)'
    BY <1>17, FaultsAreTyped DEF Restart, Refused
  <2>6. TrailInv'
    BY <1>17, <2>u, <2>h, <2>o, <2>d, NothingSaid DEF TrailInv, Trails, Ends, SameRun
  <2>7. EventInv'
    BY <1>17, <2>u, <2>h, <2>o, <2>d, NothingSaid DEF EventInv, Trails, Hubs, Ends, SameRun
  <2>8. OrderInv'
    BY <1>17, <2>h, <2>o, <2>d, NothingSaid DEF OrderInv, Ends, SameRun
  <2>9. KindInv'
    BY <1>17, <2>h, <2>o, <2>d, NothingSaid DEF KindInv, Ends, SameRun
  <2>10. HeardInv'
    BY <1>17, <2>h, <2>o, <2>d, NothingSaid DEF HeardInv, Updates, Trails, Ends, SameRun
  <2>11. UnwrittenInv'
    BY <1>17, <2>u, <2>h, <2>o, <2>d, NothingSaid DEF UnwrittenInv, Ends, SameRun
  <2>12. RecInv'
    BY <1>17, <2>h, <2>o, <2>d, NothingSaid DEF RecInv, Boots, Recs, Trails, Ends, SameRun,
       NoBoot
  <2>z. MismatchInv'
    BY <1>17, <2>h, <2>o, <2>d, NothingSaid, <2>u DEF MismatchInv, Trails, Ends,
       SameRun
  <2>13. AcceptedIsReal'
    BY <1>17, <2>h, <2>o, <2>d, NothingSaid DEF AcceptedIsReal, Done, Updates, Trails, Ends,
       SameRun
  <2>14. ObservedIsReal'
    BY <1>17, <2>u, <2>h, <2>o, <2>d, NothingSaid DEF ObservedIsReal, Recs, Trails, Ends,
       SameRun
  <2> QED BY <2>z, <2>1, <2>2, <2>3, <2>4, <2>5, <2>6, <2>7, <2>8, <2>9, <2>10, <2>11, <2>12,
     <2>13, <2>14 DEF UpdateInv, TypeOK
<1>18. CASE Listen
  <2>u. dev' = dev /\ flash' = flash /\ ran' = ran /\ hub' = hub /\ stored' = stored
        /\ rec' = rec /\ faults' = faults /\ calm' = calm
    BY <1>18 DEF Listen, Fault, NoFault, Finish, Fails, Refused, Stored, Step, device
  <2>h. hub' = hub /\ stored' = stored /\ rec' = rec /\ op.pc = "listen" /\ op.queue # <<>>
    BY <1>18 DEF Listen, Step
  <2> DEFINE e == Head(op.queue)
             newBoot == IF op.kind = "restart" /\ ~Accepts(e) THEN op.newBoot ELSE Observed(e)
             pc == IF Accepts(e) THEN "check" ELSE "listen"
  <2>a. op.queue \in Seq(Events) /\ Said(op.queue, ran.healthy) /\ Disconnected \in Events
        /\ Disconnected.kind # "healthy"
    BY DEF Ops, EventInv, Disconnected, Events, Devices
  <2>q. /\ e \in Events /\ Tail(op.queue) \in Seq(Events) /\ Said(Tail(op.queue), ran.healthy)
        /\ e.kind = "healthy" => e.boot \in ran.healthy
    BY <2>a, <2>h, SaidSequences
  <2>b. op' = [op EXCEPT !.queue = Tail(op.queue), !.newBoot = newBoot, !.pc = pc]
    BY <1>18, <2>h DEF Listen, Step
  <2> HIDE DEF e
  <2>n. /\ newBoot \in Boots \union {NoBoot} /\ pc \in Running
        /\ op.newBoot # op.writer => newBoot # op.writer
        /\ pc \in {"listen", "check"}
        /\ (pc = "check" /\ op.kind \in Updates) => newBoot \in ran.healthy
    BY <2>q DEF Observed, Ops, Events, Running, Accepts, Updates
  <2> HIDE DEF newBoot, pc
  <2>o. /\ op' \in Ops /\ op'.pc = pc /\ op'.kind = op.kind /\ op'.before = op.before
        /\ op'.writer = op.writer /\ op'.proof = op.proof /\ op'.newBoot = newBoot
        /\ op'.out = op.out /\ op'.error = op.error /\ op'.queue = Tail(op.queue)
    <3>1. op' \in Ops
        BY <2>b, <2>n, <2>q, Zenon DEF Ops
    <3> QED BY <3>1, <2>b DEF Ops
  <2>1. (dev \in Devices)' /\ (flash \in Flashes)' /\ (rec \in Recs)' /\ (ran \in Trails)'
     /\ (hub \in Hubs /\ Len(hub.history) =< HistorySize)' /\ (stored \in SUBSET Boots)' /\
     (calm \in BOOLEAN /\ faults \in 0 .. MaxFaults)' /\ TrailInv'
    BY <2>u DEF TrailInv
  <2>2. (op \in Ops)'
    BY <1>18, <2>h, <2>q, <2>o
  <2>3. Settled'
    BY <1>18, <2>h, <2>q, <2>n, <2>o DEF Settled
  <2>4. EventInv'
    BY <1>18, <2>u, <2>h, <2>q, <2>o DEF EventInv, Trails, Hubs
  <2>5. OrderInv'
    BY <1>18, <2>u, <2>h, <2>q, <2>n, <2>o DEF OrderInv
  <2>6. KindInv'
    BY <1>18, <2>h, <2>q, <2>n, <2>o DEF KindInv
  <2>7. HeardInv'
    BY <1>18, <2>u, <2>h, <2>q, <2>n, <2>o DEF HeardInv, Updates, Trails
  <2>8. UnwrittenInv'
    BY <1>18, <2>u, <2>h, <2>q, <2>n, <2>o DEF UnwrittenInv
  <2>9. RecInv'
    BY <1>18, <2>u, <2>h, <2>q, <2>o DEF RecInv, Recs, Trails
  <2>z. MismatchInv'
    BY <2>h, <2>n, <2>o, <2>u DEF MismatchInv
  <2>10. AcceptedIsReal'
    BY <1>18, <2>h, <2>q, <2>o DEF AcceptedIsReal, Done, Updates, Trails
  <2>11. ObservedIsReal'
    BY <1>18, <2>u, <2>h, <2>q, <2>o DEF ObservedIsReal, Recs, Trails
  <2> QED BY <2>z, <2>1, <2>2, <2>3, <2>4, <2>5, <2>6, <2>7, <2>8, <2>9, <2>10, <2>11 DEF
     UpdateInv, TypeOK
<1>19. CASE CheckOta
  <2>u. dev' = dev /\ flash' = flash /\ ran' = ran /\ hub' = hub /\ stored' = stored
        /\ rec' = rec
    BY <1>19, Zenon DEF CheckOta, Finish, Fails, Refused, Stored, Step, Validate, device
  <2>h. hub' = hub /\ stored' = stored /\ rec' = rec /\ op.pc = "check" /\ op.kind \in Otas
    BY <1>19, Zenon DEF CheckOta, Finish, Fails, Refused, Stored, Step, Validate
  <2>s. dev.boot \in Boots /\ op.newBoot \in Boots \union {NoBoot}
    BY DEF Devices, Ops
  <2>o. \/ Ends("unknown", "none")
        \/ Ends("failed", "after")
        \/ Confirms /\ ~Identity(dev.image) /\ Ends("failed", "mismatch")
        \/ Confirms /\ Identity(dev.image) /\ Ends("success", "none")
        \/ /\ op' \in Ops /\ op'.pc = "listen"
           /\ op'.kind = op.kind /\ op'.before = op.before /\ op'.writer = op.writer
           /\ op'.proof = op.proof /\ op'.out = op.out /\ op'.error = op.error /\ op'.queue = op.queue
           /\ op'.newBoot = IF dev.boot # op.writer THEN dev.boot ELSE op.newBoot
    <3>1. CASE op' = [op EXCEPT !.pc = "listen", !.newBoot = IF dev.boot # op.writer THEN dev.boot ELSE op.newBoot]
      <4>1. op' \in Ops
        BY <2>h, <2>s, <3>1, ZenonT(60) DEF Ops, Running
      <4> QED BY <2>h, <2>s, <3>1, <4>1 DEF Ops
    <3>2. CASE Finish("unknown")
        BY <3>2, FinishEffect DEF Outcomes
    <3>3. CASE Confirms /\ ~Identity(dev.image) /\ Fails("mismatch")
        BY <3>3, FinishEffect DEF Errors
    <3>4. CASE Confirms /\ Identity(dev.image) /\ Finish("success")
        BY <3>4, FinishEffect DEF Outcomes
    <3>5. CASE Fails("after")
        BY <3>5, FinishEffect DEF Errors
    <3> QED BY <1>19, <3>1, <3>2, <3>3, <3>4, <3>5 DEF CheckOta, Refused, Step, LostContact,
               Validate
  <2>1. (dev \in Devices)' /\ (flash \in Flashes)' /\ (rec \in Recs)' /\ (ran \in Trails)'
     /\ (hub \in Hubs /\ Len(hub.history) =< HistorySize)' /\ (stored \in SUBSET Boots)' /\ TrailInv'
    BY <2>u DEF TrailInv
  <2>y. (calm \in BOOLEAN /\ faults \in 0 .. MaxFaults)'
    BY <1>19, FaultsAreTyped DEF CheckOta, Refused
  <2>2. (op \in Ops)'
    BY <1>19, <2>h, <2>o, NothingSaid DEF Ends, SameRun, Confirms, Identity
  <2>3. Settled'
    BY <1>19, <2>h, <2>o, NothingSaid DEF Settled, Ends, SameRun, Confirms, Identity
  <2>4. EventInv'
    BY <1>19, <2>u, <2>h, <2>o, NothingSaid DEF EventInv, Trails, Hubs, Ends, SameRun,
       Confirms, Identity
  <2>5. OrderInv'
    BY <1>19, <2>u, <2>h, <2>o, NothingSaid DEF OrderInv, Ends, SameRun, Confirms, Identity
  <2>6. KindInv'
    BY <1>19, <2>h, <2>o, NothingSaid DEF KindInv, Ends, SameRun, Confirms, Identity
  <2>7. HeardInv'
    BY <1>19, <2>h, <2>o, NothingSaid DEF HeardInv, Updates, Trails, Ends, SameRun,
       Confirms, Identity
  <2>8. UnwrittenInv'
    BY <1>19, <2>u, <2>h, <2>o, NothingSaid DEF UnwrittenInv, Ends, SameRun, Confirms,
       Identity
  <2>9. RecInv'
    BY <1>19, <2>u, <2>h, <2>o, NothingSaid DEF RecInv, Recs, Trails, Ends, SameRun,
       Confirms, Identity
  <2>z. MismatchInv'
    <3>1. op.newBoot \in ran.healthy /\ op.writer =< dev.boot /\ op.newBoot # op.writer
        BY <2>h DEF HeardInv, OrderInv, Updates, Otas, NoBoot
    <3>2. dev.boot \in Int /\ op.writer \in Int /\ ran.image[dev.boot] = dev.image
        BY DEF Devices, Ops, Boots, NoBoot, TrailInv
    <3>3. CASE op'.error = "mismatch"
        BY <2>u, <2>h, <2>o, <3>1, <3>2, <3>3 DEF MismatchInv, Ends, SameRun, Otas, Confirms,
           Identity
    <3>4. CASE op'.error # "mismatch"
        BY <2>h, <2>o, <3>4 DEF MismatchInv, Ends
    <3> QED BY <3>3, <3>4
  <2>10. AcceptedIsReal'
    BY <1>19, <2>u, <2>h, <2>o, NothingSaid DEF AcceptedIsReal, Done, Updates, TrailInv,
       HeardInv, OrderInv, Ops, Boots, Trails, Ends, SameRun, Confirms, Identity
  <2>11. ObservedIsReal'
    BY <1>19, <2>u, <2>h, <2>o, NothingSaid DEF ObservedIsReal, Recs, Trails, Ends, SameRun,
       Confirms, Identity
  <2> QED BY <2>z, <2>1, <2>y, <2>2, <2>3, <2>4, <2>5, <2>6, <2>7, <2>8, <2>9, <2>10, <2>11 DEF
     UpdateInv, TypeOK
<1>20. CASE CheckSystem
  <2>u. dev' = dev /\ flash' = flash /\ ran' = ran /\ hub' = hub /\ stored' = stored
        /\ rec' = rec
    BY <1>20 DEF CheckSystem, Fault, NoFault, Finish, Fails, Refused, Stored, Step, device
  <2>h. hub' = hub /\ stored' = stored /\ rec' = rec /\ op.pc = "check" /\ op.kind = "system"
    BY <1>20 DEF CheckSystem, Finish, Fails, Refused, Stored, Step
  <2>s. dev.boot \in Boots
    BY DEF Devices
  <2>o. \/ Ends("unknown", "none")
        \/ Ends("failed", "after")
        \/ /\ op' \in Ops /\ op'.pc = "inventory"
           /\ op'.kind = op.kind /\ op'.before = op.before /\ op'.writer = op.writer
           /\ op'.proof = op.proof /\ op'.newBoot = op.newBoot
           /\ op'.out = op.out /\ op'.error = op.error /\ op'.queue = op.queue
    <3>1. CASE op' = [op EXCEPT !.pc = "inventory", !.seen = dev.boot]
      <4>1. op' \in Ops
        BY <2>h, <2>s, <3>1, Zenon DEF Ops, Running
      <4> QED BY <2>h, <2>s, <3>1, <4>1 DEF Ops
    <3>2. CASE Finish("unknown")
        BY <3>2, FinishEffect DEF Outcomes
    <3>3. CASE Fails("after")
        BY <3>3, FinishEffect DEF Errors
    <3> QED BY <1>20, <3>1, <3>2, <3>3 DEF CheckSystem, Refused, Step, LostContact
  <2>1. (dev \in Devices)' /\ (flash \in Flashes)' /\ (rec \in Recs)' /\ (ran \in Trails)'
     /\ (hub \in Hubs /\ Len(hub.history) =< HistorySize)' /\ (stored \in SUBSET Boots)' /\ TrailInv'
    BY <2>u DEF TrailInv
  <2>y. (calm \in BOOLEAN /\ faults \in 0 .. MaxFaults)'
    BY <1>20, FaultsAreTyped DEF CheckSystem, Refused
  <2>2. (op \in Ops)'
    BY <1>20, <2>h, <2>o, NothingSaid DEF Ends, SameRun
  <2>3. Settled'
    BY <1>20, <2>h, <2>o, NothingSaid DEF Settled, Ends, SameRun
  <2>4. EventInv'
    BY <1>20, <2>u, <2>h, <2>o, NothingSaid DEF EventInv, Trails, Hubs, Ends, SameRun
  <2>5. OrderInv'
    BY <1>20, <2>u, <2>h, <2>o, NothingSaid DEF OrderInv, Ends, SameRun
  <2>6. KindInv'
    BY <1>20, <2>h, <2>o, NothingSaid DEF KindInv, Ends, SameRun
  <2>7. HeardInv'
    BY <1>20, <2>u, <2>h, <2>o, NothingSaid DEF HeardInv, Updates, Trails, Ends, SameRun
  <2>8. UnwrittenInv'
    BY <1>20, <2>h, <2>o, NothingSaid DEF UnwrittenInv, Ends, SameRun
  <2>9. RecInv'
    BY <1>20, <2>u, <2>h, <2>o, NothingSaid DEF RecInv, Recs, Trails, Ends, SameRun
  <2>z. MismatchInv'
    BY <1>20, <2>h, <2>o, NothingSaid, <2>u DEF MismatchInv, Trails, Ends,
       SameRun
  <2>10. AcceptedIsReal'
    BY <1>20, <2>h, <2>o, NothingSaid DEF AcceptedIsReal, Done, Updates, Trails, Ends,
       SameRun
  <2>11. ObservedIsReal'
    BY <1>20, <2>u, <2>h, <2>o, NothingSaid DEF ObservedIsReal, Recs, Trails, Ends, SameRun
  <2> QED BY <2>z, <2>1, <2>y, <2>2, <2>3, <2>4, <2>5, <2>6, <2>7, <2>8, <2>9, <2>10, <2>11 DEF
     UpdateInv, TypeOK
<1>21. CASE ReadInventory
  <2>u. dev' = dev /\ flash' = flash /\ ran' = ran /\ hub' = hub /\ stored' = stored
        /\ rec' = rec
    BY <1>21 DEF ReadInventory, Fault, NoFault, Finish, Fails, Refused, Stored, Step, device
  <2>h. hub' = hub /\ stored' = stored /\ rec' = rec /\ op.pc = "inventory"
    BY <1>21 DEF ReadInventory, Finish, Fails, Refused, Stored, Step
  <2>s. flash.receipt \in BOOLEAN
    BY DEF Flashes
  <2>o. \/ Ends("unknown", "none")
        \/ Ends("failed", "after")
        \/ /\ op' \in Ops /\ op'.pc = "after" /\ op'.receipt = flash.receipt
           /\ op'.kind = op.kind /\ op'.before = op.before /\ op'.writer = op.writer
           /\ op'.proof = op.proof /\ op'.newBoot = op.newBoot
           /\ op'.out = op.out /\ op'.error = op.error /\ op'.queue = op.queue
    <3>1. CASE op' = [op EXCEPT !.pc = "after", !.receipt = flash.receipt]
      <4>1. op' \in Ops
        BY <2>h, <2>s, <3>1, Zenon DEF Ops, Running
      <4> QED BY <2>h, <2>s, <3>1, <4>1 DEF Ops
    <3>2. CASE Finish("unknown")
        BY <3>2, FinishEffect DEF Outcomes
    <3>3. CASE Fails("after")
        BY <3>3, FinishEffect DEF Errors
    <3> QED BY <1>21, <3>1, <3>2, <3>3 DEF ReadInventory, Refused, Step, LostContact
  <2>1. (dev \in Devices)' /\ (flash \in Flashes)' /\ (rec \in Recs)' /\ (ran \in Trails)'
     /\ (hub \in Hubs /\ Len(hub.history) =< HistorySize)' /\ (stored \in SUBSET Boots)' /\ TrailInv'
    BY <2>u DEF TrailInv
  <2>y. (calm \in BOOLEAN /\ faults \in 0 .. MaxFaults)'
    BY <1>21, FaultsAreTyped DEF ReadInventory, Refused
  <2>2. (op \in Ops)'
    BY <1>21, <2>h, <2>o, NothingSaid DEF Ends, SameRun
  <2>3. Settled'
    BY <1>21, <2>h, <2>o, NothingSaid DEF Settled, Ends, SameRun
  <2>4. EventInv'
    BY <1>21, <2>u, <2>h, <2>o, NothingSaid DEF EventInv, Trails, Hubs, Ends, SameRun
  <2>5. OrderInv'
    BY <1>21, <2>u, <2>h, <2>o, NothingSaid DEF OrderInv, Ends, SameRun
  <2>6. KindInv'
    BY <1>21, <2>h, <2>o, NothingSaid DEF KindInv, Ends, SameRun
  <2>7. HeardInv'
    BY <1>21, <2>u, <2>h, <2>o, NothingSaid DEF HeardInv, Updates, Trails, Ends, SameRun
  <2>8. UnwrittenInv'
    BY <1>21, <2>u, <2>h, <2>o, NothingSaid DEF UnwrittenInv, Ends, SameRun
  <2>9. RecInv'
    BY <1>21, <2>u, <2>h, <2>o, NothingSaid DEF RecInv, Recs, Trails, Ends, SameRun
  <2>z. MismatchInv'
    BY <1>21, <2>h, <2>o, NothingSaid, <2>u DEF MismatchInv, Trails, Ends,
       SameRun
  <2>10. AcceptedIsReal'
    BY <1>21, <2>h, <2>o, NothingSaid DEF AcceptedIsReal, Done, Updates, Trails, Ends,
       SameRun
  <2>11. ObservedIsReal'
    BY <1>21, <2>u, <2>h, <2>o, NothingSaid DEF ObservedIsReal, Recs, Trails, Ends, SameRun
  <2> QED BY <2>z, <2>1, <2>y, <2>2, <2>3, <2>4, <2>5, <2>6, <2>7, <2>8, <2>9, <2>10, <2>11 DEF
     UpdateInv, TypeOK
<1>22. CASE ReadAfter
  <2>u. dev' = dev /\ flash' = flash /\ ran' = ran /\ hub' = hub /\ stored' = stored
        /\ rec' = rec
    BY <1>22, Zenon DEF ReadAfter, Finish, Fails, Refused, Stored, Step, Validate, device
  <2>h. hub' = hub /\ stored' = stored /\ rec' = rec /\ op.pc = "after"
    BY <1>22, Zenon DEF ReadAfter, Finish, Fails, Refused, Stored, Step, Validate
  <2>o. \/ Ends("unknown", "none") \/ Ends("failed", "after")
        \/ SameBoot /\ (~op.receipt \/ ~Identity(dev.image)) /\ Ends("failed", "mismatch")
        \/ SameBoot /\ Identity(dev.image) /\ Ends("success", "none")
    BY <1>22, FinishEffect DEF ReadAfter, LostContact, Outcomes, Errors, Refused,
       Validate
  <2>1. (dev \in Devices)' /\ (flash \in Flashes)' /\ (rec \in Recs)' /\ (ran \in Trails)'
     /\ (hub \in Hubs /\ Len(hub.history) =< HistorySize)' /\ (stored \in SUBSET Boots)' /\ TrailInv'
    BY <2>u DEF TrailInv
  <2>y. (calm \in BOOLEAN /\ faults \in 0 .. MaxFaults)'
    BY <1>22, FaultsAreTyped DEF ReadAfter, Refused
  <2>2. (op \in Ops)'
    BY <1>22, <2>h, <2>o, NothingSaid DEF Ends, SameRun, SameBoot, Identity
  <2>3. Settled'
    BY <1>22, <2>h, <2>o, NothingSaid DEF Settled, Ends, SameRun, SameBoot, Identity
  <2>4. EventInv'
    BY <1>22, <2>u, <2>h, <2>o, NothingSaid DEF EventInv, Trails, Hubs, Ends, SameRun,
       SameBoot, Identity
  <2>5. OrderInv'
    BY <1>22, <2>u, <2>h, <2>o, NothingSaid DEF OrderInv, Ends, SameRun, SameBoot, Identity
  <2>6. KindInv'
    BY <1>22, <2>h, <2>o, NothingSaid DEF KindInv, Ends, SameRun, SameBoot, Identity
  <2>7. HeardInv'
    BY <1>22, <2>h, <2>o, NothingSaid DEF HeardInv, Updates, Trails, Ends, SameRun,
       SameBoot, Identity
  <2>8. UnwrittenInv'
    BY <1>22, <2>u, <2>h, <2>o, NothingSaid DEF UnwrittenInv, Ends, SameRun, SameBoot,
       Identity
  <2>9. RecInv'
    BY <1>22, <2>u, <2>h, <2>o, NothingSaid DEF RecInv, Recs, Trails, Ends, SameRun,
       SameBoot, Identity
  <2>z. MismatchInv'
    <3>1. op.newBoot \in ran.healthy /\ op.writer =< dev.boot /\ op.newBoot # op.writer
        BY <2>h DEF HeardInv, OrderInv, Updates, KindInv, NoBoot
    <3>2. dev.boot \in Int /\ op.writer \in Int /\ ran.image[dev.boot] = dev.image
        BY DEF Devices, Ops, Boots, NoBoot, TrailInv
    <3>3. CASE op'.error = "mismatch"
        BY <2>u, <2>h, <2>o, <3>1, <3>2, <3>3 DEF MismatchInv, Ends, SameRun, KindInv, SameBoot,
           Identity
    <3>4. CASE op'.error # "mismatch"
        BY <2>h, <2>o, <3>4 DEF MismatchInv, Ends
    <3> QED BY <3>3, <3>4
  <2>10. AcceptedIsReal'
    BY <1>22, <2>u, <2>h, <2>o, NothingSaid DEF AcceptedIsReal, Done, Updates, TrailInv,
       HeardInv, OrderInv, Ops, Boots, Trails, Ends, SameRun, SameBoot, Identity
  <2>11. ObservedIsReal'
    BY <1>22, <2>u, <2>h, <2>o, NothingSaid DEF ObservedIsReal, Recs, Trails, Ends, SameRun,
       SameBoot, Identity
  <2> QED BY <2>z, <2>1, <2>y, <2>2, <2>3, <2>4, <2>5, <2>6, <2>7, <2>8, <2>9, <2>10, <2>11 DEF
     UpdateInv, TypeOK
<1>23. CASE CheckRestart
  <2>u. dev' = dev /\ flash' = flash /\ ran' = ran /\ hub' = hub /\ stored' = stored
        /\ rec' = rec
    BY <1>23 DEF CheckRestart, Fault, NoFault, Finish, Fails, Refused, Stored, Step, device
  <2>o. op.kind = "restart" /\ (Ends("success", "none") \/ Ends("failed", "after"))
    BY <1>23, FinishEffect DEF CheckRestart, Refused, Outcomes, Errors
  <2>1. (dev \in Devices)' /\ (flash \in Flashes)' /\ (rec \in Recs)' /\ (ran \in Trails)'
     /\ (hub \in Hubs /\ Len(hub.history) =< HistorySize)' /\ (stored \in SUBSET Boots)' /\ TrailInv'
    BY <2>u DEF TrailInv
  <2>y. (calm \in BOOLEAN /\ faults \in 0 .. MaxFaults)'
    BY <1>23, FaultsAreTyped DEF CheckRestart, Refused
  <2>2. (op \in Ops)'
    BY <1>23, <2>o, NothingSaid DEF Ends, SameRun
  <2>3. Settled'
    BY <1>23, <2>o, NothingSaid DEF Settled, Ends, SameRun
  <2>4. EventInv'
    BY <1>23, <2>u, <2>o, NothingSaid DEF EventInv, Trails, Hubs, Ends, SameRun
  <2>5. OrderInv'
    BY <1>23, <2>u, <2>o, NothingSaid DEF OrderInv, Ends, SameRun
  <2>6. KindInv'
    BY <1>23, <2>o, NothingSaid DEF KindInv, Ends, SameRun
  <2>7. HeardInv'
    BY <1>23, <2>o, NothingSaid DEF HeardInv, Updates, Trails, Ends, SameRun
  <2>8. UnwrittenInv'
    BY <1>23, <2>u, <2>o, NothingSaid DEF UnwrittenInv, Ends, SameRun
  <2>9. RecInv'
    BY <1>23, <2>u, <2>o, NothingSaid DEF RecInv, Recs, Trails, Ends, SameRun
  <2>z. MismatchInv'
    BY <1>23, <2>o, NothingSaid, <2>u DEF MismatchInv, Trails, Ends, SameRun
  <2>10. AcceptedIsReal'
    BY <1>23, <2>o, NothingSaid DEF AcceptedIsReal, Done, Updates, Trails, Ends, SameRun
  <2>11. ObservedIsReal'
    BY <1>23, <2>u, <2>o, NothingSaid DEF ObservedIsReal, Recs, Trails, Ends, SameRun
  <2> QED BY <2>z, <2>1, <2>y, <2>2, <2>3, <2>4, <2>5, <2>6, <2>7, <2>8, <2>9, <2>10, <2>11 DEF
     UpdateInv, TypeOK
<1>24. CASE Deadline
  <2>u. dev' = dev /\ flash' = flash /\ ran' = ran /\ hub' = hub /\ stored' = stored /\ rec' = rec
    BY <1>24 DEF Deadline, Fault, NoFault, Finish, Fails, Refused, Stored, Step, device
  <2>h. op.pc \in {"wait", "listen"}
    BY <1>24 DEF Deadline
  <2>o. Ends("unknown", "none")
    BY <1>24, FinishEffect DEF Deadline, Outcomes
  <2>1. (dev \in Devices)' /\ (flash \in Flashes)' /\ (rec \in Recs)' /\ (ran \in Trails)'
     /\ (hub \in Hubs /\ Len(hub.history) =< HistorySize)' /\ (stored \in SUBSET Boots)' /\
     TrailInv'
    BY <2>u DEF TrailInv
  <2>2. (op \in Ops)'
    BY <1>24, <2>h, <2>o, NothingSaid DEF Ends, SameRun
  <2>3. Settled'
    BY <1>24, <2>h, <2>o, NothingSaid DEF Settled, Ends, SameRun
  <2>4. (calm \in BOOLEAN /\ faults \in 0 .. MaxFaults)'
    BY <1>24, FaultsAreTyped DEF Deadline
  <2>5. EventInv'
    BY <1>24, <2>u, <2>h, <2>o, NothingSaid DEF EventInv, Trails, Hubs, Ends, SameRun
  <2>6. OrderInv'
    BY <1>24, <2>u, <2>h, <2>o, NothingSaid DEF OrderInv, Ends, SameRun
  <2>7. KindInv'
    BY <1>24, <2>h, <2>o, NothingSaid DEF KindInv, Ends, SameRun
  <2>8. HeardInv'
    BY <1>24, <2>h, <2>o, NothingSaid DEF HeardInv, Updates, Trails, Ends, SameRun
  <2>9. UnwrittenInv'
    BY <1>24, <2>u, <2>h, <2>o, NothingSaid DEF UnwrittenInv, Ends, SameRun
  <2>10. RecInv'
    BY <1>24, <2>u, <2>h, <2>o, NothingSaid DEF RecInv, Recs, Trails, Ends, SameRun
  <2>z. MismatchInv'
    BY <1>24, <2>h, <2>o, NothingSaid, <2>u DEF MismatchInv, Trails, Ends,
       SameRun
  <2>11. AcceptedIsReal'
    BY <1>24, <2>h, <2>o, NothingSaid DEF AcceptedIsReal, Done, Updates, Trails, Ends,
       SameRun
  <2>12. ObservedIsReal'
    BY <1>24, <2>u, <2>h, <2>o, NothingSaid DEF ObservedIsReal, Recs, Trails, Ends, SameRun
  <2> QED BY <2>z, <2>1, <2>2, <2>3, <2>4, <2>5, <2>6, <2>7, <2>8, <2>9, <2>10, <2>11, <2>12 DEF
     UpdateInv, TypeOK
<1>25. CASE GatewayRestart
  <2>u. dev' = dev /\ flash' = flash /\ ran' = ran /\ stored' = stored /\ rec' = rec
    BY <1>25 DEF GatewayRestart, Fault, NoFault, device
  <2>h. /\ op' = [op EXCEPT !.pc = "done", !.out = "interrupted", !.listening = FALSE, !.queue = <<>>]
        /\ hub' = [up |-> FALSE, last |-> NoBoot, history |-> <<>>] /\ stored' = stored /\ rec' = rec
        /\ op.pc \in Running
    BY <1>25 DEF GatewayRestart
  <2>q. <<>> \in Seq(Events) /\ Len(<<>>) = 0 /\ Said(<<>>, ran.healthy)
    BY DEF Said
  <2>o. /\ op' \in Ops /\ SameRun /\ op'.pc = "done" /\ op'.out = "interrupted"
        /\ op'.error = op.error /\ op'.queue = <<>> /\ op.pc # "done"
    <3>1. op' \in Ops
        BY <2>h, <2>q, Zenon DEF Ops, Outcomes
    <3> QED BY <3>1, <2>h DEF Ops, SameRun, Running
  <2>b. hub' \in Hubs /\ hub'.history = <<>>
    BY <2>h, <2>q DEF Hubs
  <2>1. (dev \in Devices)' /\ (flash \in Flashes)' /\ (rec \in Recs)' /\ (ran \in Trails)'
     /\ (stored \in SUBSET Boots)' /\ TrailInv'
    BY <2>u DEF TrailInv
  <2>2. (op \in Ops)'
    BY <1>25, <2>h, <2>q, <2>o, NothingSaid DEF Hubs, SameRun
  <2>3. (hub \in Hubs /\ Len(hub.history) =< HistorySize)'
    BY <1>25, BoundsAssumption, <2>h, <2>q, <2>o, BoundsAssumption, NothingSaid DEF Hubs,
       SameRun
  <2>4. Settled'
    BY <1>25, <2>h, <2>q, <2>o, NothingSaid DEF Settled, Hubs, SameRun
  <2>5. (calm \in BOOLEAN /\ faults \in 0 .. MaxFaults)'
    BY <1>25, FaultsAreTyped DEF GatewayRestart
  <2>6. EventInv'
    BY <1>25, <2>u, <2>h, <2>q, <2>o, NothingSaid DEF EventInv, Trails, Hubs, SameRun
  <2>7. OrderInv'
    BY <1>25, <2>u, <2>h, <2>q, <2>o, NothingSaid DEF OrderInv, Hubs, SameRun
  <2>8. KindInv'
    BY <1>25, <2>h, <2>q, <2>o, NothingSaid DEF KindInv, Hubs, SameRun
  <2>9. HeardInv'
    BY <1>25, <2>h, <2>q, <2>o, NothingSaid DEF HeardInv, Updates, Trails, Hubs, SameRun
  <2>10. UnwrittenInv'
    BY <1>25, <2>u, <2>h, <2>q, <2>o, NothingSaid DEF UnwrittenInv, Hubs, SameRun
  <2>11. RecInv'
    BY <1>25, <2>u, <2>h, <2>q, <2>o, NothingSaid DEF RecInv, Recs, Trails, Hubs, SameRun
  <2>z. MismatchInv'
    BY <1>25, <2>h, <2>q, <2>o, NothingSaid, <2>u DEF MismatchInv, Trails, Hubs,
       SameRun
  <2>12. AcceptedIsReal'
    BY <1>25, <2>h, <2>q, <2>o, NothingSaid DEF AcceptedIsReal, Done, Updates, Trails, Hubs,
       SameRun
  <2>13. ObservedIsReal'
    BY <1>25, <2>u, <2>h, <2>q, <2>o, NothingSaid DEF ObservedIsReal, Recs, Trails, Hubs,
       SameRun
  <2> QED BY <2>z, <2>1, <2>2, <2>3, <2>4, <2>5, <2>6, <2>7, <2>8, <2>9, <2>10, <2>11, <2>12,
     <2>13 DEF UpdateInv, TypeOK
<1>26. CASE ReconcileStatus
  <2>u. dev' = dev /\ flash' = flash /\ ran' = ran /\ hub' = hub /\ op' = op
        /\ stored' = stored /\ faults' = faults /\ calm' = calm
    BY <1>26 DEF ReconcileStatus, Fault, NoFault, RecStep, RecEnds, device
  <2>h. op' = op /\ op.pc = "done" /\ rec.pc = "idle"
    BY <1>26 DEF ReconcileStatus, RecEnds, RecStep
  <2>b. dev.boot \in Boots /\ StoredHealthy(dev.boot) \in BOOLEAN
    BY DEF Devices, StoredHealthy
  <2>r. /\ rec' \in Recs
        /\ \/ /\ rec'.pc = "inventory" /\ rec'.boot = dev.boot /\ rec'.out = rec.out
              /\ rec'.healthy = StoredHealthy(dev.boot)
           \/ /\ rec'.pc = "done" /\ rec'.boot = dev.boot /\ rec'.healthy = rec.healthy
              /\ rec'.out = "success" => /\ Identity(dev.image) /\ StoredHealthy(dev.boot)
                                         /\ NewBoot(dev.boot)
           \/ /\ rec'.pc = "done" /\ rec'.boot = rec.boot /\ rec'.healthy = rec.healthy
              /\ rec'.out = "unknown"
    <3>1. CASE rec' = [rec EXCEPT !.pc = "inventory", !.boot = dev.boot,
                                  !.healthy = StoredHealthy(dev.boot)]
      <4>1. rec' \in Recs
        BY <2>b, <3>1, Zenon DEF Recs
      <4> QED BY <3>1, <4>1 DEF Recs
    <3>2. CASE rec' = [rec EXCEPT !.pc = "done", !.boot = dev.boot,
                !.out = IF Identity(dev.image) /\ StoredHealthy(dev.boot) /\ NewBoot(dev.boot)
                        THEN "success" ELSE "unknown"]
      <4>1. rec' \in Recs
        BY <2>b, <3>2, Zenon DEF Recs
      <4> QED BY <3>2, <4>1 DEF Recs
    <3>3. CASE rec' = [rec EXCEPT !.pc = "done", !.out = "unknown"]
      <4>1. rec' \in Recs
        BY <3>3, Zenon DEF Recs
      <4> QED BY <3>3, <4>1 DEF Recs
    <3> QED BY <1>26, <3>1, <3>2, <3>3 DEF ReconcileStatus, RecEnds, RecStep
  <2>1. (dev \in Devices)' /\ (flash \in Flashes)' /\ (op \in Ops)' /\ (ran \in Trails)' /\
     (hub \in Hubs /\ Len(hub.history) =< HistorySize)' /\ Settled' /\ (stored \in SUBSET Boots)' /\ (calm \in BOOLEAN /\ faults \in 0 ..
     MaxFaults)' /\ TrailInv' /\ EventInv' /\ OrderInv' /\ KindInv' /\ HeardInv' /\
     UnwrittenInv' /\ MismatchInv' /\ AcceptedIsReal'
    BY <2>u DEF Settled, TrailInv, EventInv, OrderInv, NoBoot, KindInv, HeardInv, Updates,
       UnwrittenInv, MismatchInv, AcceptedIsReal, Done
  <2>2. (rec \in Recs)'
    BY <1>26, <2>h, <2>r DEF Recs, StoredHealthy, Identity, NewBoot
  <2>3. RecInv'
    BY <1>26, <2>u, <2>h, <2>r DEF RecInv, OrderInv, EventInv, Devices, Boots, Recs, Trails,
       StoredHealthy, Identity, NewBoot, NoBoot
  <2>4. ObservedIsReal'
    BY <1>26, <2>u, <2>h, <2>r DEF ObservedIsReal, TrailInv, RecInv, EventInv, OrderInv,
       Ops, Boots, Recs, Trails, StoredHealthy, Identity, NewBoot, NoBoot
  <2> QED BY <2>1, <2>2, <2>3, <2>4 DEF UpdateInv, TypeOK
<1>27. CASE ReconcileInventory
  <2>u. dev' = dev /\ flash' = flash /\ ran' = ran /\ hub' = hub /\ op' = op
        /\ stored' = stored /\ faults' = faults /\ calm' = calm
    BY <1>27 DEF ReconcileInventory, Fault, NoFault, RecStep, RecEnds, device
  <2>h. op' = op /\ rec.pc = "inventory"
    BY <1>27 DEF ReconcileInventory, RecEnds, RecStep
  <2>r. /\ rec' \in Recs /\ rec'.boot = rec.boot /\ rec'.healthy = rec.healthy
        /\ \/ rec'.pc = "after" /\ rec'.out = rec.out
           \/ rec'.pc = "done" /\ rec'.out = "unknown"
    <3>0. flash.receipt \in BOOLEAN
        BY DEF Flashes
    <3>1. CASE rec' = [rec EXCEPT !.pc = "after", !.receipt = flash.receipt]
      <4>1. rec' \in Recs
        BY <3>0, <3>1, Zenon DEF Recs
      <4> QED BY <3>1, <4>1 DEF Recs
    <3>2. CASE rec' = [rec EXCEPT !.pc = "done", !.out = "unknown"]
      <4>1. rec' \in Recs
        BY <3>2, Zenon DEF Recs
      <4> QED BY <3>2, <4>1 DEF Recs
    <3> QED BY <1>27, <3>1, <3>2 DEF ReconcileInventory, RecEnds, RecStep
  <2>1. (dev \in Devices)' /\ (flash \in Flashes)' /\ (op \in Ops)' /\ (ran \in Trails)' /\
     (hub \in Hubs /\ Len(hub.history) =< HistorySize)' /\ Settled' /\ (stored \in SUBSET Boots)' /\ (calm \in BOOLEAN /\ faults \in 0 ..
     MaxFaults)' /\ TrailInv' /\ EventInv' /\ OrderInv' /\ KindInv' /\ HeardInv' /\
     UnwrittenInv' /\ MismatchInv' /\ AcceptedIsReal'
    BY <2>u DEF Settled, TrailInv, EventInv, OrderInv, NoBoot, KindInv, HeardInv, Updates,
       UnwrittenInv, MismatchInv, AcceptedIsReal, Done
  <2>2. (rec \in Recs)'
    BY <1>27, <2>h, <2>r DEF Recs
  <2>3. RecInv'
    BY <1>27, <2>u, <2>h, <2>r DEF RecInv, Recs, Trails
  <2>4. ObservedIsReal'
    BY <1>27, <2>u, <2>h, <2>r DEF ObservedIsReal, Recs, Trails
  <2> QED BY <2>1, <2>2, <2>3, <2>4 DEF UpdateInv, TypeOK
<1>28. CASE ReconcileAfter
  <2>u. dev' = dev /\ flash' = flash /\ ran' = ran /\ hub' = hub /\ op' = op
        /\ stored' = stored /\ faults' = faults /\ calm' = calm
    BY <1>28 DEF ReconcileAfter, Fault, NoFault, RecStep, RecEnds, device
  <2> DEFINE accepts == /\ hub.up /\ dev.boot = rec.boot /\ rec.receipt /\ rec.healthy
                        /\ NewBoot(rec.boot) /\ Identity(dev.image)
  <2>h. op' = op /\ rec.pc = "after"
    BY <1>28 DEF ReconcileAfter, RecEnds, RecStep
  <2>a. rec' = [rec EXCEPT !.pc = "done", !.out = IF accepts THEN "success" ELSE "unknown"]
    BY <1>28 DEF ReconcileAfter, RecEnds, RecStep
  <2> HIDE DEF accepts
  <2>r. /\ rec' \in Recs /\ rec'.boot = rec.boot /\ rec'.healthy = rec.healthy
        /\ rec'.pc = "done" /\ rec'.out = (IF accepts THEN "success" ELSE "unknown")
    <3>1. rec' \in Recs
        BY <2>a, Zenon DEF Recs
    <3> QED BY <2>a, <3>1 DEF Recs
  <2>1. (dev \in Devices)' /\ (flash \in Flashes)' /\ (op \in Ops)' /\ (ran \in Trails)' /\
     (hub \in Hubs /\ Len(hub.history) =< HistorySize)' /\ Settled' /\ (stored \in SUBSET Boots)' /\ (calm \in BOOLEAN /\ faults \in 0 ..
     MaxFaults)' /\ TrailInv' /\ EventInv' /\ OrderInv' /\ KindInv' /\ HeardInv' /\
     UnwrittenInv' /\ MismatchInv' /\ AcceptedIsReal'
    BY <2>u DEF Settled, TrailInv, EventInv, OrderInv, NoBoot, KindInv, HeardInv, Updates,
       UnwrittenInv, MismatchInv, AcceptedIsReal, Done
  <2>2. (rec \in Recs)'
    BY <1>28, <2>h, <2>r DEF Recs, accepts, Identity, NewBoot
  <2>3. RecInv'
    BY <1>28, <2>u, <2>h, <2>r DEF RecInv, Recs, Trails, accepts, Identity, NewBoot
  <2>4. ObservedIsReal'
    BY <1>28, <2>u, <2>h, <2>r DEF ObservedIsReal, TrailInv, RecInv, OrderInv, Ops, Boots,
       Recs, Trails, accepts, Identity, NewBoot, NoBoot
  <2> QED BY <2>1, <2>2, <2>3, <2>4 DEF UpdateInv, TypeOK
<1>29. CASE UNCHANGED vars
    BY <1>29 DEF vars, UpdateInv, TypeOK, TrailInv, EventInv, OrderInv, NoBoot, KindInv,
       HeardInv, Updates, UnwrittenInv, MismatchInv, Settled, RecInv, AcceptedIsReal, Done,
       ObservedIsReal, Said
<1> QED BY <1>1, <1>2, <1>3, <1>4, <1>5, <1>6, <1>7, <1>8, <1>9, <1>10, <1>11, <1>12, <1>13,
   <1>14, <1>15, <1>16, <1>17, <1>18, <1>19, <1>20, <1>21, <1>22, <1>23, <1>24, <1>25,
   <1>26, <1>27, <1>28, <1>29 DEF Next, Coroutine, Device, SubmitOta, SubmitSystemUpdate,
   SubmitRestart, Begins

\* Nothing was asked for yet.
LEMMA UpdateInit == Init => UpdateInv
<1> SUFFICES ASSUME Init PROVE UpdateInv
    OBVIOUS
<1>1. PICK image \in Apps :
        /\ dev = [boot |-> 1, image |-> image, healthy |-> FALSE, plan |-> FALSE,
                  told |-> FALSE]
        /\ flash = [sel |-> image, prev |-> image, trial |-> "valid", receipt |-> FALSE]
        /\ ran = [image |-> <<image>>, healthy |-> {}]
    BY DEF Init
<1>2. /\ hub = [up |-> FALSE, last |-> NoBoot, history |-> <<>>]
      /\ op = NoOp /\ stored = {} /\ rec = NoRec /\ faults = 0 /\ calm = TRUE
    BY DEF Init
<1>3. <<>> \in Seq(Events) /\ Len(<<>>) = 0 /\ 1 \in Boots
    BY BoundsAssumption, RoomForBoots DEF Boots
<1>4. dev \in Devices /\ flash \in Flashes /\ image \in Images
    BY <1>1, <1>3 DEF Devices, Flashes, Images
<1>5. ran \in Trails /\ TrailInv
  <2>1. <<image>> \in Seq(Images) /\ Len(<<image>>) = 1 /\ <<image>>[1] = image
    BY <1>4
  <2> QED BY <1>1, <2>1 DEF Trails, TrailInv
<1>6. op \in Ops /\ Settled
    BY <1>2, <1>3 DEF NoOp, Ops, AllKinds, Outcomes, Errors, Settled
<1>7. hub \in Hubs /\ Len(hub.history) =< HistorySize
    BY <1>2, <1>3, BoundsAssumption DEF Hubs
<1>8. rec \in Recs
    BY <1>2 DEF NoRec, Recs
<1>9. TypeOK
    BY <1>2, <1>4, <1>5, <1>6, <1>7, <1>8, BoundsAssumption DEF TypeOK
<1>10. EventInv
    BY <1>2, NothingSaid DEF EventInv, NoOp
<1>11. OrderInv /\ KindInv /\ HeardInv /\ UnwrittenInv /\ MismatchInv
    BY <1>1, <1>2 DEF OrderInv, KindInv, HeardInv, UnwrittenInv, MismatchInv, NoOp, NoBoot
<1>12. RecInv /\ AcceptedIsReal /\ ObservedIsReal
    BY <1>1, <1>2 DEF RecInv, AcceptedIsReal, ObservedIsReal, Done, NoOp, NoRec, NoBoot
<1> QED BY <1>5, <1>9, <1>10, <1>11, <1>12 DEF UpdateInv

\* The parts of the invariant hold in every state of every behaviour.
THEOREM UpdateInvariant == Spec => []UpdateInv
<1>1. Init => UpdateInv
    BY UpdateInit
<1>2. UpdateInv /\ [Next]_vars => UpdateInv'
    BY UpdateStep
<1> QED BY <1>1, <1>2, PTL DEF Spec

\* closed_loop_ota, run_system_update: an accepted update runs, healthy, on a boot after the
\* one that wrote it; one that fails before the end of its transfer was not selected for
\* boot, and one that fails for a mismatch was seen, healthy, on a later boot that ran
\* another image or had no receipt.  Nothing is claimed of an update that is stored as failed
\* because the device answered the restart or a later read with an error.
THEOREM OutcomesAreTrue == Spec => []OutcomeIsTrue
<1>1. ASSUME UpdateInv PROVE OutcomeIsTrue
  <2>1. TypeOK /\ UnwrittenInv /\ MismatchInv /\ AcceptedIsReal
    BY <1>1 DEF UpdateInv
  <2>2. FailureIsDefinite
    BY <2>1 DEF FailureIsDefinite, UnwrittenInv, MismatchInv, Done, TypeOK, Settled, Ops, Errors
  <2> QED BY <2>1, <2>2 DEF OutcomeIsTrue
<1> QED BY <1>1, UpdateInvariant, PTL

\* reconcile_operation: an update that is found to be a success afterwards runs on a boot
\* after the first one the operation saw, and that boot became healthy.
THEOREM ReconciliationIsTrue == Spec => []ObservedIsReal
<1>1. UpdateInv => ObservedIsReal
    BY DEF UpdateInv
<1> QED BY <1>1, UpdateInvariant, PTL
=============================================================================

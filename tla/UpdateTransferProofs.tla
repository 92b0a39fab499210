------------------------ MODULE UpdateTransferProofs ------------------------
(***************************************************************************)
(* What an update writes, and what its caller is told, for images, windows *)
(* and fault counts of any size.                                           *)
(*                                                                         *)
(* The steps of the host and of the device are first put into effects that *)
(* speak of single fields and places; the invariant is kept effect by      *)
(* effect.                                                                 *)
(***************************************************************************)
EXTENDS UpdateTransfer, SequenceTheorems, TLAPS

-----------------------------------------------------------------------------
(* Types *)

Places == {"idle", "begin", "begin_status", "begin2", "open", "data", "data_status", "close",
           "commit", "confirm", "cancel"}
Phases == {"waiting", "error", "idle", "prepared", "receiving", "verified", "committing",
           "committed", "cancelled", "failed", "running", "succeeded"}
DevPhases == {"idle", "prepared", "receiving", "verified", "committing", "committed",
              "cancelled", "failed"}
RequestTypes == {"none", "BEGIN", "OPEN", "DATA", "CLOSE", "COMMIT", "CANCEL", "STATUS", "JOB"}
Hows == {"none", "failed", "unknown", "answer", "status", "session_close"}
Stages == {"idle", "queued", "boundary", "ran", "done"}

HostSet == [at : Places, op : Nat, comp : Nat, offset : Nat, error : {"none", "failed", "unknown"}]
ResultSet == [op : Nat, how : Hows, freed : BOOLEAN]
RequestSet == [id : Nat, type : RequestTypes, op : Nat, comp : Nat, offset : Nat]
BodySet == [ok : BOOLEAN, op : Nat, phase : Phases, comp : Nat, received : Nat]
AnswerSet == [id : Nat, body : BodySet]
ChunkSet == Nat \X Nat \X Nat
DevSet == [op : Nat, phase : DevPhases, comp : Nat, received : Nat, written : Seq(ChunkSet)]
JobSet == [op : Nat, state : {"none", "running", "failed", "succeeded"}]
SlotSet == [stage : Stages, req : RequestSet, answer : BodySet]
BootSet == [op : Nat, written : Seq(ChunkSet)]

\* Every variable has its shape.
HostTyped ==
    /\ kind \in {"ota", "system"} /\ window \in Nat \ {0}
    /\ host \in HostSet /\ pend \in Seq(BodySet) /\ result \in ResultSet /\ alive \in BOOLEAN
LinkTyped == h2d \in Seq(RequestSet) /\ d2h \in Seq(AnswerSet)
DeviceTyped ==
    /\ dev \in DevSet /\ job \in JobSet /\ slot \in SlotSet
    /\ cancel \in BOOLEAN /\ abandoned \in BOOLEAN /\ boot \in BootSet
Typed == HostTyped /\ LinkTyped /\ DeviceTyped

-----------------------------------------------------------------------------
(* The invariant *)

\* An answer is in its ranges, and an error or a missing one is not an answer.
GoodBody(b) ==
    /\ b.op <= MaxOps /\ b.comp <= Parts /\ b.received <= Chunks
    /\ b.ok <=> b.phase \notin {"waiting", "error"}

\* A request is in its ranges, and of a type that its kind of update has.
GoodRequest(r) ==
    /\ r.comp < Parts /\ r.offset <= Chunks
    /\ r.type = "DATA" => r.offset < Chunks
    /\ r.type # "none" => r.op >= 1
    /\ r.type \in {"OPEN", "CLOSE"} => kind = "system"
    /\ r.type = "JOB" => kind = "ota"

\* The caller: its place, offset and component, and one request outside a batch.
HostRange ==
    /\ kind \in Kinds /\ (kind = "system" => window = 1)
    /\ host.op <= MaxOps /\ host.comp < Parts /\ host.offset <= Chunks
    /\ host.at # "idle" => host.op >= 1
    /\ host.at \in {"begin_status", "begin2", "open", "close"} => kind = "system"
    /\ host.at = "cancel" => host.error # "none"
PendRange ==
    /\ host.at = "idle" <=> Len(pend) = 0
    /\ Len(pend) <= window
    /\ host.at # "data" => Len(pend) <= 1
PendGood == \A i \in 1 .. Len(pend) : GoodBody(pend[i])
ResultRange ==
    /\ host.at # "idle" => result.how = "none" /\ ~result.freed
    /\ result.how # "none" => result.op = host.op /\ host.op >= 1

\* The link and the slot carry good requests and answers; a closed session nothing.
RequestsGood == \A i \in 1 .. Len(h2d) : GoodRequest(h2d[i]) /\ h2d[i].type # "none"
AnswersGood == \A i \in 1 .. Len(d2h) : GoodBody(d2h[i].body) /\ d2h[i].body.phase # "waiting"
SlotGood ==
    /\ GoodRequest(slot.req) /\ GoodBody(slot.answer) /\ slot.answer.phase # "waiting"
    /\ slot.req.type # "JOB" /\ (slot.req.type = "STATUS" => kind = "ota")
    /\ slot.req.type = "none" => slot.req.id = 0
    /\ slot.stage = "idle" => slot.req.type = "none"
Closed ==
    ~alive => /\ Len(h2d) = 0 /\ Len(d2h) = 0 /\ slot.req.id = 0
              /\ slot.stage # "done" /\ (slot.stage # "idle" => abandoned)

\* The device: a system update goes through its components in order.
DevInv ==
    /\ dev.op <= host.op /\ dev.comp <= Parts /\ dev.received <= Chunks
    /\ job.op <= host.op /\ (job.op # 0 => job.state # "none")
    /\ kind = "ota" => dev.comp = 0 /\ dev.phase \in {"idle", "receiving"}
    /\ dev.phase \in {"prepared", "receiving"} => dev.comp < Parts
    /\ dev.phase = "prepared" => dev.received = 0
    /\ dev.phase \in {"verified", "committing"} => dev.comp = Parts /\ dev.received = 0
    /\ Active => dev.op >= 1 /\ job.op = dev.op

\* The type of request that is asked at a place of the call.
Suits(at, type) ==
    \/ at \in {"begin", "begin2"} /\ type = "BEGIN"
    \/ at \in {"begin_status", "data_status"} /\ type = "STATUS"
    \/ at = "open" /\ type = "OPEN"
    \/ at = "data" /\ type = "DATA"
    \/ at = "close" /\ type = "CLOSE"
    \/ at = "commit" /\ type = "COMMIT"
    \/ at = "confirm" /\ type = "JOB" /\ kind = "ota"
    \/ at = "confirm" /\ type = "STATUS" /\ kind = "system"
    \/ at = "cancel" /\ type = "CANCEL"

\* What carries an id is what the caller is waiting for.
Current(r) ==
    r.id # 0 => r.id <= Len(pend) /\ r.op = host.op /\ Suits(host.at, r.type)
CurrentQueue == \A i \in 1 .. Len(h2d) : Current(h2d[i])
CurrentSlot == Current(slot.req)
CurrentAnswers == \A i \in 1 .. Len(d2h) : d2h[i].id <= Len(pend)

\* Outside a batch the request is at one place: last on the link, in the slot, or answered.
LastInv ==
    host.at # "data" =>
        /\ \A i \in 1 .. Len(h2d) : h2d[i].id # 0 => i = Len(h2d) /\ slot.req.id = 0
        /\ slot.req.id # 0 => Len(h2d) = 0
NoneAsked == slot.req.id = 0 /\ \A i \in 1 .. Len(h2d) : h2d[i].id = 0
OnceAnswers == host.at # "data" => \A i \in 1 .. Len(d2h) : d2h[i].id # 0 => NoneAsked
OncePend == host.at # "data" => \A i \in 1 .. Len(pend) : pend[i].phase # "waiting" => NoneAsked

\* A request that is still to be carried out, or is at the boundary of its commit.
Live == slot.stage \in {"queued", "boundary"}

\* Operations come to the device, and are selected, in the order of their starts.
QueueOrder == \A i, j \in 1 .. Len(h2d) : i < j => h2d[i].op <= h2d[j].op
QueueOps == \A i \in 1 .. Len(h2d) : boot.op <= h2d[i].op /\ h2d[i].op <= host.op
SlotAhead == Live /\ slot.req.type # "none" => \A i \in 1 .. Len(h2d) : slot.req.op <= h2d[i].op
DevAhead == Active => \A i \in 1 .. Len(h2d) : dev.op <= h2d[i].op
SlotOps ==
    Live /\ slot.req.type # "none" => /\ boot.op <= slot.req.op /\ slot.req.op <= host.op
                                      /\ Active => dev.op <= slot.req.op
BootOps == boot.op <= host.op /\ (Active => boot.op <= dev.op)

\* What follows a BEGIN finds the update of its own operation, or none.
Owned(r) == r.type \in {"OPEN", "DATA", "CLOSE", "COMMIT", "CANCEL"}
OwnQueue == Active => \A i \in 1 .. Len(h2d) : Owned(h2d[i]) => h2d[i].op = dev.op
OwnSlot == Active /\ Live /\ Owned(slot.req) => slot.req.op = dev.op
OwnOrder == \A i, j \in 1 .. Len(h2d) : h2d[i].type = "BEGIN" /\ i < j => ~Owned(h2d[j])
OwnAhead == Live /\ slot.req.type = "BEGIN" => \A i \in 1 .. Len(h2d) : ~Owned(h2d[i])

\* Once its BEGIN is answered, the update on the device is the caller's and no BEGIN is on
\* its way.
NoBegin ==
    /\ \A i \in 1 .. Len(h2d) : h2d[i].type # "BEGIN"
    /\ Live => slot.req.type # "BEGIN"
SlotAnswers == slot.req.id # 0 /\ slot.stage \in {"ran", "done"}
OkAnswer ==
    \/ SlotAnswers /\ slot.answer.ok
    \/ \E i \in 1 .. Len(d2h) : d2h[i].id # 0 /\ d2h[i].body.ok
    \/ \E i \in 1 .. Len(pend) : pend[i].ok
HasBegun ==
    \/ host.at \notin {"idle", "begin", "begin_status", "begin2"}
    \/ host.at \in {"begin", "begin2"} /\ OkAnswer
BegunInv == HasBegun \/ result.freed => NoBegin
OursInv == HasBegun \/ result.freed => (Active => dev.op = host.op)
JobInv == HasBegun /\ alive => job.op = host.op

\* A definite failure: no COMMIT of the operation is on its way, and none was done.
IsCommit(r) == r.type = "COMMIT" /\ r.op = host.op
NoCommit ==
    /\ \A i \in 1 .. Len(h2d) : ~IsCommit(h2d[i])
    /\ Live => ~IsCommit(slot.req)
    /\ boot.op # host.op
CommitInv ==
    \/ host.at \notin {"idle", "commit", "confirm", "cancel"}
    \/ host.at = "cancel" /\ host.error = "failed"
    \/ host.at = "idle" /\ result.how = "failed"
    => NoCommit

\* While the COMMIT is asked for it is asked once, and its answer tells what it did.
CommitOk(b) == IF b.phase = "committed" THEN b.op = host.op ELSE NoCommit
AskedQueue ==
    host.at = "commit" =>
        \A i \in 1 .. Len(h2d) : IsCommit(h2d[i]) => h2d[i].id # 0 /\ boot.op # host.op
AskedSlot ==
    host.at = "commit" /\ Live /\ IsCommit(slot.req) =>
        (alive => slot.req.id # 0) /\ boot.op # host.op
AskedRan == host.at = "commit" /\ SlotAnswers => CommitOk(slot.answer)
AskedAnswers == host.at = "commit" => \A i \in 1 .. Len(d2h) : d2h[i].id # 0 => CommitOk(d2h[i].body)
AskedPend ==
    host.at = "commit" => \A i \in 1 .. Len(pend) : pend[i].phase # "waiting" => CommitOk(pend[i])

\* The device knows the job that the caller asks for: the question is not refused.
ConfirmInv ==
    host.at = "confirm" =>
        /\ slot.req.id = 0
        /\ \A i \in 1 .. Len(d2h) : d2h[i].id # 0 => d2h[i].body.phase # "error"
        /\ \A i \in 1 .. Len(pend) : pend[i].phase # "error"

\* What says that an operation was selected is right, also when it is an old answer.
Selected(o, phase) == phase \in {"committed", "succeeded"} => o <= boot.op
SelectedAnswers == \A i \in 1 .. Len(d2h) : Selected(d2h[i].body.op, d2h[i].body.phase)
SelectedPend == \A i \in 1 .. Len(pend) : Selected(pend[i].op, pend[i].phase)
SelectedSlot == Selected(slot.answer.op, slot.answer.phase)
SelectedDev == Selected(dev.op, dev.phase) /\ Selected(job.op, job.state)
SelectedResult == result.how \in {"answer", "status"} => boot.op = result.op

\* An acknowledged CANCEL has ended the update, or the executor will before it is idle.
FreedInv ==
    (host.at = "cancel" /\ OkAnswer) \/ result.freed =>
        (Active => cancel /\ slot.stage \in {"queued", "boundary", "ran"})

\* What is written: chunk after chunk of the operation.
WrittenInv ==
    Active =>
        /\ Len(dev.written) = dev.comp * Chunks + dev.received
        /\ \A i \in 1 .. Len(dev.written) :
               dev.written[i] = <<dev.op, (i - 1) \div Chunks, (i - 1) % Chunks>>

\* The boundary of the commit is reached with the whole image only.
BoundaryInv ==
    slot.stage = "boundary" =>
        /\ slot.req.type = "COMMIT" /\ Active /\ dev.op = slot.req.op
        /\ IF kind = "ota" THEN dev.received = Chunks ELSE dev.phase = "committing"
ImageInv == boot.op # 0 => boot.written = Image(boot.op)

\* All of them.
Pieces ==
    /\ HostRange /\ PendRange /\ PendGood /\ ResultRange
    /\ RequestsGood /\ AnswersGood /\ SlotGood /\ Closed
    /\ DevInv
    /\ CurrentQueue /\ CurrentSlot /\ CurrentAnswers
    /\ LastInv /\ OnceAnswers /\ OncePend
    /\ QueueOrder /\ QueueOps /\ SlotAhead /\ DevAhead /\ SlotOps /\ BootOps
    /\ OwnQueue /\ OwnSlot /\ OwnOrder /\ OwnAhead
    /\ BegunInv /\ OursInv /\ JobInv
    /\ CommitInv
    /\ AskedQueue /\ AskedSlot /\ AskedRan /\ AskedAnswers /\ AskedPend
    /\ ConfirmInv
    /\ SelectedAnswers /\ SelectedPend /\ SelectedSlot /\ SelectedDev /\ SelectedResult
    /\ FreedInv
    /\ WrittenInv /\ BoundaryInv /\ ImageInv

TransferInv == Typed /\ Pieces

-----------------------------------------------------------------------------
(* Effects: what a step does to single fields and places.  q and p, s and t, r and e are a
   queue, the slot and a request before and after. *)

Shorter(q, p) == Len(q) >= 1 /\ Len(p) = Len(q) - 1 /\ \A i \in 1 .. Len(p) : p[i] = q[i + 1]
Longer(q, p, e) ==
    Len(p) = Len(q) + 1 /\ p[Len(q) + 1] = e /\ \A i \in 1 .. Len(q) : p[i] = q[i]
Lacks(q, p) ==
    \E k \in 1 .. Len(q) :
        /\ Len(p) = Len(q) - 1
        /\ \A i \in 1 .. Len(p) : p[i] = IF i < k THEN q[i] ELSE q[i + 1]

\* What is given up keeps all but its id.
GivenUp(r, e) ==
    e.id = 0 /\ e.type = r.type /\ e.op = r.op /\ e.comp = r.comp /\ e.offset = r.offset
AnswersGivenUp ==
    /\ d2h' \in Seq(AnswerSet) /\ Len(d2h') = Len(d2h)
    /\ \A i \in 1 .. Len(d2h) : d2h'[i].id = 0 /\ d2h'[i].body = d2h[i].body
SlotGivenUp ==
    /\ slot' \in SlotSet
    /\ slot'.stage = slot.stage /\ slot'.answer = slot.answer /\ GivenUp(slot.req, slot'.req)

\* The request at place n of what is asked now.
Asked(e, n) ==
    /\ alive /\ e.id = n /\ e.op = host'.op /\ e.comp = host'.comp /\ Suits(host'.at, e.type)
    /\ e.offset <= Chunks /\ (e.type = "DATA" => e.offset < Chunks)

DeviceStays ==
    /\ dev' = dev /\ job' = job /\ cancel' = cancel /\ abandoned' = abandoned /\ boot' = boot
HostStays == host' = host /\ pend' = pend /\ result' = result
SessionStays == kind' = kind /\ window' = window /\ alive' = alive

\* SendAll() for the place where the caller now is.
Sends ==
    /\ SessionStays /\ DeviceStays
    /\ AnswersGivenUp /\ SlotGivenUp
    /\ host' \in HostSet /\ host'.at # "idle" /\ host'.comp < Parts /\ host'.offset <= Chunks
    /\ pend' \in Seq(BodySet) /\ Len(pend') \in 1 .. window
    /\ host'.at # "data" => Len(pend') = 1
    /\ \A i \in 1 .. Len(pend') : pend'[i] = Waiting
    /\ h2d' \in Seq(RequestSet) /\ Len(h2d') >= Len(h2d) /\ Len(h2d') <= Len(h2d) + Len(pend')
    /\ \A i \in 1 .. Len(h2d) : GivenUp(h2d[i], h2d'[i])
    /\ \A i \in Len(h2d) + 1 .. Len(h2d') : Asked(h2d'[i], i - Len(h2d))

Continues == host'.op = host.op /\ result' = result

\* The steps of a call, by where it was and where it is.
AskBegin ==
    /\ Sends /\ host.at = "idle" /\ host.op < MaxOps
    /\ host'.at = "begin" /\ host'.op = host.op + 1
    /\ result' = [op |-> 0, how |-> "none", freed |-> FALSE]
AskAgain ==
    /\ Sends /\ Continues /\ kind = "system"
    /\ host.at \in {"begin", "begin_status"} /\ host'.at \in {"begin_status", "begin2"}
AskFirst ==
    /\ Sends /\ Continues /\ host.at \in {"begin", "begin2"} /\ pend[Len(pend)].ok
    /\ \/ host'.at = "open" /\ kind = "system"
       \/ host'.at = "data"
AskNext ==
    /\ Sends /\ Continues /\ host.at \in {"open", "data", "data_status", "close"}
    /\ \/ host'.at \in {"data", "commit", "data_status"}
       \/ host'.at \in {"open", "close"} /\ kind = "system"
       \/ host'.at = "cancel" /\ host'.error # "none"
AskConfirm ==
    /\ Sends /\ Continues
    /\ \/ host.at = "commit" /\ host'.at = "confirm"
       \/ host.at = "confirm" /\ host'.at = "cancel" /\ host'.error = "unknown"
AskCancel ==
    /\ Sends /\ Continues /\ host.at \in {"commit", "confirm"}
    /\ host'.at = "cancel" /\ host'.error = "failed"
    /\ \E i \in 1 .. Len(pend) : pend[i].phase = "error"

\* The call ends.
Ends(how, freed) ==
    /\ SessionStays /\ DeviceStays
    /\ AnswersGivenUp /\ SlotGivenUp
    /\ host' = [host EXCEPT !.at = "idle"]
    /\ pend' = <<>> /\ result' = [op |-> host.op, how |-> how, freed |-> freed]
    /\ h2d' \in Seq(RequestSet) /\ Len(h2d') = Len(h2d)
    /\ \A i \in 1 .. Len(h2d) : GivenUp(h2d[i], h2d'[i])
EndEarly ==
    /\ host.at \in {"begin", "begin2", "begin_status"}
    /\ \E how \in {"failed", "unknown"} : Ends(how, FALSE)
EndAnswered ==
    /\ host.at = "commit" /\ Len(pend) >= 1 /\ pend[Len(pend)].ok
    /\ Ends(IF pend[Len(pend)].phase = "committed" THEN "answer" ELSE "failed", FALSE)
EndConfirmed ==
    /\ host.at = "confirm" /\ Len(pend) >= 1 /\ Confirms(pend[Len(pend)]) /\ Ends("status", FALSE)
EndCancelled ==
    /\ host.at = "cancel"
    /\ \E freed \in BOOLEAN : Ends(host.error, freed) /\ (freed => pend[Len(pend)].ok /\ Len(pend) >= 1)
EndBroken ==
    /\ host.at # "idle"
    /\ \E how \in {"unknown", "session_close", "failed"} :
           Ends(how, FALSE) /\ (how = "failed" => host.at \in {"data", "data_status"})

HostMoves ==
    \/ AskBegin \/ AskAgain \/ AskFirst \/ AskNext \/ AskConfirm \/ AskCancel
    \/ EndEarly \/ EndAnswered \/ EndConfirmed \/ EndCancelled \/ EndBroken

\* An answer reaches the caller.
Receives ==
    /\ SessionStays /\ DeviceStays
    /\ host' = host /\ result' = result /\ h2d' = h2d /\ slot' = slot
    /\ d2h' \in Seq(AnswerSet) /\ Shorter(d2h, d2h')
    /\ pend' \in Seq(BodySet) /\ Len(pend') = Len(pend)
    /\ \A i \in 1 .. Len(pend) : pend'[i] = IF i = d2h[1].id THEN d2h[1].body ELSE pend[i]

\* The protocol task answers a request itself.
Replies(body) ==
    /\ SessionStays /\ HostStays
    /\ dev' = dev /\ job' = job /\ slot' = slot /\ abandoned' = abandoned /\ boot' = boot
    /\ h2d' \in Seq(RequestSet) /\ Shorter(h2d, h2d')
    /\ d2h' \in Seq(AnswerSet) /\ Longer(d2h, d2h', [id |-> h2d[1].id, body |-> body])
ReplyJob ==
    /\ \E body \in BodySet :
           /\ Replies(body) /\ body.ok /\ body.op = job.op /\ body.phase = job.state
           /\ body.comp = 0 /\ body.received = 0
    /\ h2d[1].type = "JOB" /\ h2d[1].op = job.op /\ cancel' = cancel
ReplyStatus == Replies(Body(dev)) /\ h2d[1].type = "STATUS" /\ cancel' = cancel
ReplyCancel ==
    /\ Replies(Body(dev)) /\ h2d[1].type = "CANCEL"
    /\ slot.stage \notin {"idle", "done"} /\ cancel' = TRUE
ReplyRefused ==
    /\ Replies(Refused) /\ h2d[1].type # "STATUS" /\ cancel' = cancel
    /\ h2d[1].type = "JOB" => job.op # h2d[1].op

\* The protocol task fills the slot.
Enqueues ==
    /\ SessionStays /\ HostStays
    /\ dev' = dev /\ job' = job /\ abandoned' = abandoned /\ boot' = boot /\ d2h' = d2h
    /\ h2d' \in Seq(RequestSet) /\ Shorter(h2d, h2d')
    /\ h2d[1].type # "JOB" /\ (h2d[1].type = "STATUS" => kind = "ota")
    /\ slot.stage = "idle" /\ cancel' \in BOOLEAN
    /\ slot' = [stage |-> "queued", req |-> h2d[1], answer |-> Refused]

\* The executor carries out its request and keeps the answer.
Runs(body) ==
    /\ SessionStays /\ HostStays /\ h2d' = h2d /\ d2h' = d2h
    /\ cancel' = cancel /\ abandoned' = abandoned /\ boot' = boot
    /\ slot.stage = "queued" /\ slot' = [slot EXCEPT !.stage = "ran", !.answer = body]
RunRefused == Runs(Refused) /\ dev' = dev /\ job' = job
RunTold ==
    /\ Runs(Body(dev)) /\ dev' = dev /\ job' = job
    /\ slot.req.type \in {"BEGIN", "STATUS"}
    /\ slot.req.type = "BEGIN" => Active /\ dev.op = slot.req.op
RunBegin ==
    /\ Runs(Body(dev')) /\ slot.req.type = "BEGIN" /\ ~Active
    /\ dev' \in DevSet /\ dev'.op = slot.req.op /\ dev'.comp = 0 /\ dev'.received = 0
    /\ dev'.phase = (IF kind = "ota" THEN "receiving" ELSE "prepared") /\ Len(dev'.written) = 0
    /\ job' = [op |-> slot.req.op, state |-> "running"]
RunOpen ==
    /\ Runs(Body(dev')) /\ slot.req.type = "OPEN" /\ dev.phase = "prepared"
    /\ dev' = [dev EXCEPT !.phase = "receiving", !.received = 0] /\ job' = job
RunData ==
    /\ Runs(Body(dev')) /\ slot.req.type = "DATA" /\ dev.phase = "receiving"
    /\ dev.received < Chunks /\ slot.req.offset = dev.received
    /\ kind = "system" => dev.comp = slot.req.comp
    /\ dev' = [dev EXCEPT !.received = dev.received + 1,
                          !.written = Append(dev.written, <<slot.req.op, slot.req.comp,
                          dev.received>>)]
    /\ job' = job
RunClose ==
    /\ Runs(Body(dev')) /\ slot.req.type = "CLOSE" /\ dev.phase = "receiving"
    /\ dev.received = Chunks /\ dev.comp = slot.req.comp
    /\ dev' = [dev EXCEPT !.comp = dev.comp + 1, !.received = 0,
                          !.phase = IF dev.comp + 1 < Parts THEN "prepared" ELSE "verified"]
    /\ job' = job
RunBoundary ==
    /\ SessionStays /\ HostStays /\ h2d' = h2d /\ d2h' = d2h
    /\ cancel' = cancel /\ abandoned' = abandoned /\ boot' = boot /\ job' = job
    /\ slot.stage = "queued" /\ slot' = [slot EXCEPT !.stage = "boundary"]
    /\ slot.req.type = "COMMIT"
    /\ \/ kind = "ota" /\ dev.phase = "receiving" /\ dev.received = Chunks /\ dev' = dev
       \/ /\ kind = "system" /\ dev.phase = "verified"
          /\ dev' = [dev EXCEPT !.phase = "committing"]

\* The update is over on the device, which has selected nothing.
Over ==
    /\ dev' \in DevSet /\ dev'.phase \in {"idle", "failed", "cancelled"}
    /\ dev'.op <= dev.op /\ dev'.comp <= dev.comp /\ dev'.received <= dev.received
    /\ kind = "ota" => dev'.phase = "idle"
    /\ job' \in JobSet /\ job'.op = job.op /\ job'.state \in {job.state, "failed"}
OverIfActive == (Active /\ Over) \/ (~Active /\ dev' = dev /\ job' = job)
RunEnds ==
    /\ slot.req.type \in {"OPEN", "DATA", "CLOSE", "COMMIT", "CANCEL"} /\ Active /\ Over
    /\ \E body \in BodySet : /\ Runs(body) /\ body.phase \in {"error", "failed", "cancelled"}
                             /\ body.ok <=> body.phase # "error"
                             /\ body.ok => slot.req.type \in {"COMMIT", "CANCEL"}
                             /\ body.op <= dev.op /\ body.comp <= dev.comp
                             /\ body.received <= dev.received

\* The executor selects the image.
Selects ==
    /\ SessionStays /\ HostStays /\ h2d' = h2d /\ d2h' = d2h
    /\ cancel' = cancel /\ abandoned' = abandoned
    /\ slot.stage = "boundary" /\ boot' = [op |-> dev.op, written |-> dev.written]
    /\ \E body \in BodySet :
           /\ slot' = [slot EXCEPT !.stage = "ran", !.answer = body]
           /\ body.ok /\ body.op = dev.op /\ body.phase = "committed"
           /\ body.comp = dev.comp /\ body.received = dev.received
    /\ dev' \in DevSet /\ dev'.phase \in {"idle", "committed"}
    /\ dev'.op <= dev.op /\ dev'.comp <= dev.comp /\ dev'.received <= dev.received
    /\ kind = "ota" => dev'.phase = "idle"
    /\ job' \in JobSet /\ job'.op = job.op
    /\ job'.state = IF job.op = dev.op THEN "succeeded" ELSE job.state

\* The loop after a step, and the answer on its way.
Clears ==
    /\ SessionStays /\ HostStays /\ h2d' = h2d /\ d2h' = d2h /\ boot' = boot
    /\ slot.stage = "ran" /\ cancel' = FALSE /\ abandoned' = FALSE
ClearDone ==
    /\ Clears /\ ~cancel /\ ~abandoned /\ dev' = dev /\ job' = job
    /\ slot' = [slot EXCEPT !.stage = "done"]
ClearCancelled == Clears /\ ~abandoned /\ OverIfActive /\ slot' = slot
ClearAbandoned ==
    Clears /\ abandoned /\ OverIfActive /\ slot' = [slot EXCEPT !.stage = "idle", !.req = NoRequest]
Drains ==
    /\ SessionStays /\ HostStays /\ DeviceStays /\ h2d' = h2d
    /\ slot.stage = "done" /\ slot' = FreeSlot
    /\ d2h' \in Seq(AnswerSet) /\ Longer(d2h, d2h', [id |-> slot.req.id, body |-> slot.answer])

\* The faults.
LoseRequest ==
    /\ SessionStays /\ HostStays /\ DeviceStays /\ d2h' = d2h /\ slot' = slot
    /\ h2d' \in Seq(RequestSet) /\ Lacks(h2d, h2d')
LoseAnswer ==
    /\ SessionStays /\ HostStays /\ DeviceStays /\ h2d' = h2d /\ slot' = slot
    /\ d2h' \in Seq(AnswerSet) /\ Lacks(d2h, d2h')
Breaks ==
    /\ kind' = kind /\ window' = window /\ HostStays /\ boot' = boot
    /\ alive' = FALSE /\ h2d' = <<>> /\ d2h' = <<>>
BreakAbandons ==
    /\ Breaks /\ dev' = dev /\ job' = job /\ cancel' = TRUE /\ abandoned' = TRUE
    /\ slot.stage \in {"queued", "boundary", "ran"} /\ SlotGivenUp
BreakQueues ==
    /\ Breaks /\ dev' = dev /\ job' = job /\ cancel' = TRUE /\ abandoned' = TRUE
    /\ slot' = [stage |-> "queued", req |-> NoRequest, answer |-> Refused]
BreakIdle ==
    /\ Breaks /\ OverIfActive /\ cancel' = cancel /\ abandoned' = abandoned
    /\ slot.stage = "idle" /\ slot' = slot
BreakReboot ==
    /\ Breaks /\ dev' = Off /\ job' = [op |-> 0, state |-> "none"] /\ slot' = FreeSlot
    /\ cancel' = FALSE /\ abandoned' = FALSE
Reconnects ==
    /\ kind' = kind /\ window' = window /\ HostStays /\ DeviceStays /\ slot' = slot
    /\ h2d' = h2d /\ d2h' = d2h /\ ~alive /\ alive' = TRUE /\ host.at = "idle"

LinkMoves ==
    \/ Receives \/ LoseRequest \/ LoseAnswer
    \/ BreakAbandons \/ BreakQueues \/ BreakIdle \/ BreakReboot \/ Reconnects
DeviceMoves ==
    \/ ReplyJob \/ ReplyStatus \/ ReplyCancel \/ ReplyRefused \/ Enqueues
    \/ RunRefused \/ RunTold \/ RunBegin \/ RunOpen \/ RunData \/ RunClose \/ RunBoundary \/ RunEnds
    \/ Selects \/ ClearDone \/ ClearCancelled \/ ClearAbandoned \/ Drains
Moves == HostMoves \/ LinkMoves \/ DeviceMoves

-----------------------------------------------------------------------------
(* The steps of the caller have these effects. *)

\* The assumptions on the constants, one by one.
LEMMA Constants ==
    /\ Chunks \in Nat \ {0} /\ Comps \in Nat \ {0} /\ MaxOps \in Nat \ {0}
    /\ kind \in {"ota", "system"} => Parts \in Nat \ {0}
BY TransferAssumption DEF Parts

\* A queue of which all is given up.
LEMMA StaleRequests ==
    ASSUME NEW q \in Seq(RequestSet)
    PROVE  /\ Stale(q) \in Seq(RequestSet) /\ Len(Stale(q)) = Len(q)
           /\ \A i \in 1 .. Len(q) : GivenUp(q[i], Stale(q)[i])
<1>1. Len(q) \in Nat /\ DOMAIN q = 1 .. Len(q) /\ \A i \in 1 .. Len(q) : q[i] \in RequestSet
    BY LenProperties, ElementOfSeq
<1>2. \A i \in 1 .. Len(q) : [q[i] EXCEPT !.id = 0] \in RequestSet
    BY <1>1 DEF RequestSet
<1> DEFINE e(i) == [q[i] EXCEPT !.id = 0]
<1>3. Stale(q) = [i \in 1 .. Len(q) |-> e(i)]
    BY <1>1 DEF Stale
<1>4. Stale(q) \in Seq(RequestSet)
    BY <1>1, <1>2, <1>3
<1>5. Len(Stale(q)) = Len(q)
    BY <1>1, <1>3
<1>6. \A i \in 1 .. Len(q) : GivenUp(q[i], Stale(q)[i])
  <2> TAKE i \in 1 .. Len(q)
  <2>1. Stale(q)[i] = [q[i] EXCEPT !.id = 0]
    BY <1>3
  <2> QED BY <1>1, <2>1 DEF GivenUp, RequestSet
<1> QED BY <1>4, <1>5, <1>6

\* The same for the answers.
LEMMA StaleAnswers ==
    ASSUME NEW q \in Seq(AnswerSet)
    PROVE  /\ Stale(q) \in Seq(AnswerSet) /\ Len(Stale(q)) = Len(q)
           /\ \A i \in 1 .. Len(q) : Stale(q)[i].id = 0 /\ Stale(q)[i].body = q[i].body
<1>1. Len(q) \in Nat /\ DOMAIN q = 1 .. Len(q) /\ \A i \in 1 .. Len(q) : q[i] \in AnswerSet
    BY LenProperties, ElementOfSeq
<1>2. \A i \in 1 .. Len(q) : [q[i] EXCEPT !.id = 0] \in AnswerSet
    BY <1>1 DEF AnswerSet
<1> DEFINE e(i) == [q[i] EXCEPT !.id = 0]
<1>3. Stale(q) = [i \in 1 .. Len(q) |-> e(i)]
    BY <1>1 DEF Stale
<1>4. Stale(q) \in Seq(AnswerSet)
    BY <1>1, <1>2, <1>3
<1>5. Len(Stale(q)) = Len(q)
    BY <1>1, <1>3
<1>6. \A i \in 1 .. Len(q) : Stale(q)[i].id = 0 /\ Stale(q)[i].body = q[i].body
  <2> TAKE i \in 1 .. Len(q)
  <2>1. Stale(q)[i] = [q[i] EXCEPT !.id = 0]
    BY <1>3
  <2> QED BY <1>1, <2>1 DEF AnswerSet
<1> QED BY <1>4, <1>5, <1>6

\* The slot whose request is given up.
LEMMA StaleSlot ==
    ASSUME slot \in SlotSet, slot' = [slot EXCEPT !.req.id = 0]
    PROVE  SlotGivenUp
<1>1. slot' = [slot EXCEPT !.req = [slot.req EXCEPT !.id = 0]]
    BY Zenon
<1> DEFINE r == [slot.req EXCEPT !.id = 0]
<1>2. slot.req \in RequestSet
    BY DEF SlotSet
<1>3. r \in RequestSet /\ GivenUp(slot.req, r)
    BY <1>2 DEF RequestSet, GivenUp
<1>4. slot' = [slot EXCEPT !.req = r]
    BY <1>1
<1> HIDE DEF r
<1>5. /\ slot' \in SlotSet /\ slot'.stage = slot.stage /\ slot'.answer = slot.answer
      /\ slot'.req = r
    BY <1>3, <1>4 DEF SlotSet
<1> QED BY <1>3, <1>5 DEF SlotGivenUp

\* SendAll() of good requests sends them.
LEMMA SendAllSends ==
    ASSUME Typed, SessionStays, DeviceStays, ~alive => Len(h2d) = 0,
           NEW requests \in Seq(RequestSet), SendAll(requests),
           Len(requests) \in 1 .. window,
           host' \in HostSet, host'.at # "idle", host'.comp < Parts, host'.offset <= Chunks,
           host'.at # "data" => Len(requests) = 1,
           alive => \A i \in 1 .. Len(requests) : Asked(requests[i], i)
    PROVE  Sends
<1>1. /\ h2d \in Seq(RequestSet) /\ d2h \in Seq(AnswerSet) /\ slot \in SlotSet
      /\ Len(h2d) \in Nat /\ window \in Nat
    BY LenProperties DEF Typed, HostTyped, LinkTyped, DeviceTyped
<1>2. AnswersGivenUp
    BY <1>1, StaleAnswers DEF SendAll, AnswersGivenUp
<1>3. SlotGivenUp
    BY <1>1, StaleSlot DEF SendAll
<1>4. DOMAIN requests = 1 .. Len(requests) /\ Len(requests) \in Nat
    BY LenProperties
<1>5. /\ pend' \in Seq(BodySet) /\ Len(pend') = Len(requests)
      /\ \A i \in 1 .. Len(pend') : pend'[i] = Waiting
  <2>1. pend' = [i \in 1 .. Len(requests) |-> Waiting]
    BY <1>4 DEF SendAll
  <2>2. Waiting \in BodySet
    BY DEF Waiting, BodySet, Phases
  <2> HIDE DEF Waiting
  <2> QED BY <2>1, <2>2, <1>4
<1> DEFINE old == Stale(h2d)
<1>6. /\ old \in Seq(RequestSet) /\ Len(old) = Len(h2d)
      /\ \A i \in 1 .. Len(h2d) : GivenUp(h2d[i], old[i])
    BY <1>1, StaleRequests
<1>7. CASE alive
  <2>1. h2d' = old \o requests
    BY <1>7 DEF SendAll
  <2> HIDE DEF old
  <2>2. /\ h2d' \in Seq(RequestSet) /\ Len(h2d') = Len(h2d) + Len(requests)
        /\ \A i \in 1 .. Len(h2d) + Len(requests) :
               h2d'[i] = IF i <= Len(h2d) THEN old[i] ELSE requests[i - Len(h2d)]
    <3>1. /\ old \o requests \in Seq(RequestSet)
          /\ Len(old \o requests) = Len(old) + Len(requests)
          /\ \A i \in 1 .. Len(old) + Len(requests) :
                 (old \o requests)[i] = IF i <= Len(old) THEN old[i] ELSE requests[i - Len(old)]
      <4>1. old \in Seq(RequestSet)
        BY <1>6
      <4> HIDE <1>6
      <4> QED BY <4>1, ConcatProperties, Zenon
    <3> QED BY <3>1, <2>1, <1>6
  <2>3. \A i \in 1 .. Len(h2d) : GivenUp(h2d[i], h2d'[i])
    BY <2>2, <1>6, <1>1, <1>4
  <2>4. \A i \in Len(h2d) + 1 .. Len(h2d') : Asked(h2d'[i], i - Len(h2d))
    <3> TAKE i \in Len(h2d) + 1 .. Len(h2d')
    <3>1. i - Len(h2d) \in 1 .. Len(requests) /\ h2d'[i] = requests[i - Len(h2d)]
      <4>1. i \in Nat /\ i > Len(h2d) /\ i <= Len(h2d) + Len(requests)
        BY <2>2, <1>1, <1>4
      <4>2. h2d'[i] = IF i <= Len(h2d) THEN old[i] ELSE requests[i - Len(h2d)]
        BY <4>1, <2>2, <1>1, <1>4
      <4> QED BY <4>1, <4>2, <1>1, <1>4
    <3> QED BY <3>1, <1>7
  <2> QED BY <2>2, <2>3, <2>4, <1>1, <1>2, <1>3, <1>4, <1>5 DEF Sends
<1>8. CASE ~alive
  <2>1. h2d' = h2d
    BY <1>8 DEF SendAll
  <2>2. /\ \A i \in 1 .. Len(h2d) : GivenUp(h2d[i], h2d'[i])
        /\ \A i \in Len(h2d) + 1 .. Len(h2d') : Asked(h2d'[i], i - Len(h2d))
    BY <2>1, <1>8
  <2> QED BY <2>1, <2>2, <1>1, <1>2, <1>3, <1>4, <1>5 DEF Sends
<1> QED BY <1>7, <1>8

\* _request() of one request.
LEMMA AskSends ==
    ASSUME Typed, SessionStays, DeviceStays, ~alive => Len(h2d) = 0,
           NEW type \in RequestTypes, type # "DATA", Ask(type),
           host' \in HostSet, host'.at \notin {"idle", "data"}, host'.comp < Parts,
           host'.offset <= Chunks, Suits(host'.at, type)
    PROVE  Sends
<1> DEFINE r == Request(type, 1, host'.offset)
           requests == <<r>>
<1>1. r = [id |-> 1, type |-> type, op |-> host'.op, comp |-> host'.comp, offset |-> host'.offset]
    BY DEF Request
<1>2. host'.op \in Nat /\ host'.comp \in Nat /\ host'.offset \in Nat
    BY DEF HostSet
<1>3. r \in RequestSet /\ (alive => Asked(r, 1))
    BY <1>1, <1>2 DEF RequestSet, Asked
<1>4. SendAll(requests)
    BY DEF Ask
<1> HIDE DEF r
<1>5. requests \in Seq(RequestSet) /\ Len(requests) = 1 /\ requests[1] = r
    BY <1>3
<1> HIDE DEF requests
<1>6. window \in Nat \ {0}
    BY DEF Typed, HostTyped
<1>7. Len(requests) \in 1 .. window
    BY <1>5, <1>6
<1>8. alive => \A i \in 1 .. Len(requests) : Asked(requests[i], i)
    BY <1>3, <1>5
<1> QED BY <1>4, <1>5, <1>7, <1>8, SendAllSends

\* A batch stays within the window and the component.
LEMMA BatchSends ==
    ASSUME Typed, SessionStays, DeviceStays, ~alive => Len(h2d) = 0,
           NEW offset \in Nat, offset < Chunks, Batch(offset),
           host' \in HostSet, host'.at = "data", host'.comp < Parts, host'.offset <= Chunks
    PROVE  Sends
<1> DEFINE n == BatchSize(offset)
           e(i) == Request("DATA", i, offset + i - 1)
           requests == [i \in 1 .. n |-> e(i)]
<1>1. window \in Nat \ {0} /\ Chunks \in Nat
    BY Constants DEF Typed, HostTyped
<1>2. n \in Nat /\ n >= 1 /\ n <= window /\ offset + n <= Chunks
    BY <1>1 DEF BatchSize
<1>3. SendAll(requests)
    BY DEF Batch
<1> HIDE DEF n
<1>4. host'.op \in Nat /\ host'.comp \in Nat
    BY DEF HostSet
<1>5. \A i \in 1 .. n : e(i) \in RequestSet /\ (alive => Asked(e(i), i))
  <2> TAKE i \in 1 .. n
  <2>1. e(i) = [id |-> i, type |-> "DATA", op |-> host'.op, comp |-> host'.comp,
                offset |-> offset + i - 1]
    BY DEF Request
  <2>2. i \in Nat /\ offset + i - 1 \in Nat /\ offset + i - 1 < Chunks
    BY <1>2, <1>1
  <2> HIDE DEF e
  <2>3. e(i) \in RequestSet
    BY <2>1, <2>2, <1>4 DEF RequestSet, RequestTypes
  <2>4. ASSUME alive PROVE Asked(e(i), i)
    BY <2>1, <2>2, <2>4, <1>1 DEF Asked, Suits
  <2> QED BY <2>3, <2>4
<1> HIDE DEF e
<1>6. requests \in Seq(RequestSet) /\ Len(requests) = n
    BY <1>2, <1>5
<1>7. \A i \in 1 .. n : requests[i] = e(i)
    BY <1>2
<1> HIDE DEF requests
<1>8. Len(requests) \in 1 .. window
    BY <1>1, <1>2, <1>6
<1>9. alive => \A i \in 1 .. Len(requests) : Asked(requests[i], i)
    BY <1>5, <1>6, <1>7
<1> QED BY <1>3, <1>6, <1>8, <1>9, SendAllSends

\* The end of a call.
LEMMA LeaveEnds ==
    ASSUME Typed, SessionStays, DeviceStays, NEW how, NEW freed, Leave(how, freed)
    PROVE  Ends(how, freed)
<1>1. h2d \in Seq(RequestSet) /\ d2h \in Seq(AnswerSet) /\ slot \in SlotSet
    BY DEF Typed, LinkTyped, DeviceTyped
<1>2. AnswersGivenUp
    BY <1>1, StaleAnswers DEF Leave, AnswersGivenUp
<1>3. SlotGivenUp
    BY <1>1, StaleSlot DEF Leave
<1>4. /\ h2d' \in Seq(RequestSet) /\ Len(h2d') = Len(h2d)
      /\ \A i \in 1 .. Len(h2d) : GivenUp(h2d[i], h2d'[i])
    BY <1>1, StaleRequests DEF Leave
<1>5. /\ host' = [host EXCEPT !.at = "idle"] /\ pend' = <<>>
      /\ result' = [op |-> host.op, how |-> how, freed |-> freed]
    BY DEF Leave
<1> QED BY <1>2, <1>3, <1>4, <1>5 DEF Ends

\* What the next lemmas need of the invariant.
LEMMA HostFacts ==
    ASSUME TransferInv
    PROVE  /\ Typed /\ host \in HostSet /\ (~alive => Len(h2d) = 0)
           /\ host.comp < Parts /\ host.offset <= Chunks
           /\ kind \in {"ota", "system"} /\ Chunks \in Nat \ {0} /\ Parts \in Nat \ {0}
           /\ host.op \in Nat /\ host.comp \in Nat /\ host.offset \in Nat
BY Constants DEF TransferInv, Typed, HostTyped, Pieces, HostRange, PendRange, Closed, HostSet

\* The loop over the chunks, and what follows it.
LEMMA TransferSends ==
    ASSUME TransferInv, SessionStays, DeviceStays, NEW offset \in 0 .. Chunks, Transfer(offset)
    PROVE  /\ Sends /\ Continues
           /\ \/ host'.at \in {"data", "commit"}
              \/ host'.at = "close" /\ kind = "system"
           /\ offset = 0 => host'.at = "data"
<1>0. offset \in Nat /\ offset <= Chunks /\ host \in HostSet
    BY HostFacts
<1>1. CASE offset < Chunks
  <2>1. host' = [host EXCEPT !.at = "data", !.offset = offset] /\ Batch(offset) /\ result' = result
    BY <1>1 DEF Transfer
  <2>2. /\ host' \in HostSet /\ host'.at = "data" /\ host'.comp = host.comp
        /\ host'.offset = offset /\ host'.op = host.op
    BY <2>1, <1>0 DEF HostSet, Places
  <2>3. Sends
    BY <2>1, <2>2, <1>0, <1>1, HostFacts, BatchSends
  <2> QED BY <2>1, <2>2, <2>3 DEF Continues
<1>2. CASE ~(offset < Chunks)
  <2> DEFINE at == IF kind = "ota" THEN "commit" ELSE "close"
             type == IF kind = "ota" THEN "COMMIT" ELSE "CLOSE"
  <2>1. host' = [host EXCEPT !.at = at, !.offset = offset] /\ Ask(type) /\ result' = result
    BY <1>2 DEF Transfer
  <2>2. /\ at \in {"commit", "close"} /\ type \in RequestTypes /\ type # "DATA" /\ Suits(at, type)
        /\ (at = "close" => kind = "system")
    BY HostFacts DEF RequestTypes, Suits
  <2> HIDE DEF at, type
  <2>3. /\ host' \in HostSet /\ host'.at = at /\ host'.comp = host.comp
        /\ host'.offset = offset /\ host'.op = host.op
    BY <2>1, <2>2, <1>0 DEF HostSet, Places
  <2>4. Sends
    BY <1>0, <2>1, <2>2, <2>3, HostFacts, AskSends
  <2>5. offset # 0
    BY <1>2, HostFacts
  <2> QED BY <2>1, <2>2, <2>3, <2>4, <2>5 DEF Continues
<1> QED BY <1>1, <1>2

\* A request of the place the caller goes to, without a move inside the image.
LEMMA GoSends ==
    ASSUME TransferInv, SessionStays, DeviceStays,
           NEW at \in Places \ {"idle", "data"}, NEW type \in RequestTypes \ {"DATA"},
           Suits(at, type), Go(at), Ask(type), result' = result
    PROVE  Sends /\ Continues /\ host'.at = at
<1>1. /\ host' \in HostSet /\ host'.at = at /\ host'.comp = host.comp
      /\ host'.offset = host.offset /\ host'.op = host.op
    BY HostFacts DEF Go, HostSet
<1>2. Sends
    BY <1>1, HostFacts, AskSends
<1> QED BY <1>1, <1>2 DEF Continues

\* An exception asks for a CANCEL, or ends the call when the session is closed.
LEMMA RaiseMoves ==
    ASSUME TransferInv, SessionStays, DeviceStays,
           NEW error \in {"failed", "unknown"}, Raise(error)
    PROVE  \/ Sends /\ Continues /\ host'.at = "cancel" /\ host'.error = error
           \/ ~alive /\ Ends(error, FALSE)
<1>1. CASE alive
  <2>1. /\ host' = [host EXCEPT !.at = "cancel", !.error = error]
        /\ Ask("CANCEL") /\ result' = result
    BY <1>1 DEF Raise
  <2>2. /\ host' \in HostSet /\ host'.at = "cancel" /\ host'.comp = host.comp
        /\ host'.offset = host.offset /\ host'.op = host.op /\ host'.error = error
    BY <2>1, HostFacts DEF HostSet, Places
  <2>3. Sends
    BY <2>1, <2>2, HostFacts, AskSends DEF Suits, RequestTypes
  <2> QED BY <2>1, <2>2, <2>3 DEF Continues
<1>2. CASE ~alive
    BY <1>2, HostFacts, LeaveEnds DEF Raise
<1> QED BY <1>1, <1>2

\* A request that raises.
LEMMA FailsMoves ==
    ASSUME TransferInv, SessionStays, DeviceStays, host.at # "idle",
           NEW error \in {"failed", "unknown"}, Fails(error),
           error = "failed" => alive /\ \E i \in 1 .. Len(pend) : pend[i].phase = "error",
           host.at = "commit" /\ alive => error = "failed"
    PROVE  HostMoves
<1> USE HostFacts
<1>1. CASE host.at \in {"begin", "begin2", "begin_status"} /\ Leave(error, FALSE)
  <2>1. Ends(error, FALSE)
    BY <1>1, LeaveEnds
  <2> QED BY <1>1, <2>1 DEF HostMoves, EndEarly
<1>2. CASE host.at = "cancel" /\ Leave(host.error, FALSE)
  <2>1. Ends(host.error, FALSE)
    BY <1>2, LeaveEnds
  <2> QED BY <1>2, <2>1 DEF HostMoves, EndCancelled
<1>3. CASE host.at = "commit" /\ ~alive /\ Leave("session_close", FALSE)
  <2>1. Ends("session_close", FALSE)
    BY <1>3, LeaveEnds
  <2> QED BY <1>3, <2>1 DEF HostMoves, EndBroken
<1>4. CASE /\ host.at \notin {"begin", "begin2", "begin_status", "cancel"}
           /\ host.at = "commit" => alive
           /\ Raise(error)
  <2>1. CASE Sends /\ Continues /\ host'.at = "cancel" /\ host'.error = error
    <3>1. CASE host.at \in {"open", "data", "data_status", "close"}
      BY <2>1, <3>1 DEF HostMoves, AskNext
    <3>2. CASE host.at \in {"commit", "confirm"} /\ error = "failed"
      BY <2>1, <3>2 DEF HostMoves, AskCancel
    <3>3. CASE host.at = "confirm" /\ error = "unknown"
      BY <2>1, <3>3 DEF HostMoves, AskConfirm
    <3> QED BY <1>4, <3>1, <3>2, <3>3 DEF HostSet, Places
  <2>2. CASE ~alive /\ Ends(error, FALSE)
    BY <2>2 DEF HostMoves, EndBroken
  <2> QED BY <1>4, <2>1, <2>2, RaiseMoves
<1> QED BY <1>1, <1>2, <1>3, <1>4 DEF Fails

\* A call starts.
LEMMA StartMoves ==
    ASSUME TransferInv, Start
    PROVE  HostMoves
<1>1. SessionStays /\ DeviceStays
    BY DEF Start, SessionStays, DeviceStays
<1>2. /\ host.at = "idle" /\ host.op < MaxOps /\ Ask("BEGIN")
      /\ result' = [op |-> 0, how |-> "none", freed |-> FALSE]
      /\ host' = [at |-> "begin", op |-> host.op + 1, comp |-> 0, offset |-> 0, error |-> "none"]
    BY DEF Start
<1>3. /\ host' \in HostSet /\ host'.at = "begin" /\ host'.comp = 0
      /\ host'.offset = 0 /\ host'.op = host.op + 1
    BY <1>2, HostFacts DEF HostSet, Places
<1>4. Sends
    BY <1>1, <1>2, <1>3, HostFacts, AskSends DEF Suits, RequestTypes
<1> QED BY <1>2, <1>3, <1>4 DEF HostMoves, AskBegin

\* A request fails.
LEMMA RequestFailsMoves ==
    ASSUME TransferInv, RequestFails
    PROVE  HostMoves
<1>1. SessionStays /\ DeviceStays /\ host.at # "idle"
    BY DEF RequestFails, SessionStays, DeviceStays
<1>2. DOMAIN pend = 1 .. Len(pend)
    BY LenProperties DEF TransferInv, Typed, HostTyped
<1>3. CASE ~alive /\ Fails("unknown")
    BY <1>1, <1>3, FailsMoves
<1>4. CASE alive /\ (\E i \in DOMAIN pend : pend[i].phase = "error") /\ Fails("failed")
    BY <1>1, <1>2, <1>4, FailsMoves
<1> QED BY <1>3, <1>4 DEF RequestFails

\* A deadline passes.
LEMMA TimesOutMoves ==
    ASSUME TransferInv, NEW i \in DOMAIN pend, TimesOut(i)
    PROVE  HostMoves
<1>1. SessionStays /\ DeviceStays /\ alive
    BY DEF TimesOut, Expires, SessionStays, DeviceStays
<1>2. pend \in Seq(BodySet) /\ i \in 1 .. Len(pend) /\ Len(pend) \in Nat
    BY LenProperties DEF TransferInv, Typed, HostTyped
<1>3. host.at # "idle"
    BY <1>2 DEF TransferInv, Pieces, PendRange
<1>4. CASE /\ host.at = "begin" /\ kind = "system" /\ Go("begin_status") /\ Ask("STATUS")
           /\ UNCHANGED result
  <2>1. Sends /\ Continues /\ host'.at = "begin_status"
    BY <1>1, <1>4, GoSends DEF Places, RequestTypes, Suits
  <2> QED BY <1>4, <2>1 DEF HostMoves, AskAgain
<1>5. CASE host.at = "data" /\ Go("data_status") /\ Ask("STATUS") /\ UNCHANGED result
  <2>1. Sends /\ Continues /\ host'.at = "data_status"
    BY <1>1, <1>5, GoSends DEF Places, RequestTypes, Suits
  <2> QED BY <1>5, <2>1 DEF HostMoves, AskNext
<1>6. CASE /\ host.at = "commit" /\ Go("confirm")
           /\ Ask(IF kind = "ota" THEN "JOB" ELSE "STATUS") /\ UNCHANGED result
  <2> DEFINE type == IF kind = "ota" THEN "JOB" ELSE "STATUS"
  <2>1. type \in RequestTypes \ {"DATA"} /\ Suits("confirm", type) /\ Ask(type)
    BY <1>6, HostFacts DEF RequestTypes, Suits
  <2> HIDE DEF type
  <2>2. Sends /\ Continues /\ host'.at = "confirm"
    BY <1>1, <1>6, <2>1, GoSends DEF Places
  <2> QED BY <1>6, <2>2 DEF HostMoves, AskConfirm
<1>7. CASE /\ ~(host.at \in {"data", "commit"} \/ (host.at = "begin" /\ kind = "system"))
           /\ Fails("unknown")
    BY <1>1, <1>3, <1>7, FailsMoves
<1> QED BY <1>4, <1>5, <1>6, <1>7 DEF TimesOut

\* The answers are taken.
LEMMA ProceedMoves ==
    ASSUME TransferInv, Proceed
    PROVE  HostMoves
<1> USE HostFacts
<1>1. SessionStays /\ DeviceStays
    BY DEF Proceed, SessionStays, DeviceStays
<1>2. pend \in Seq(BodySet) /\ DOMAIN pend = 1 .. Len(pend) /\ Len(pend) \in Nat
    BY LenProperties DEF TransferInv, Typed, HostTyped
<1>3. Len(pend) >= 1 /\ pend # <<>> /\ \A i \in 1 .. Len(pend) : pend[i].ok
    BY <1>2, EmptySeq DEF Proceed, Complete
<1> DEFINE a == pend[Len(pend)]
<1>4. a \in BodySet /\ a.ok /\ a.received \in 0 .. Chunks
  <2>1. a \in BodySet /\ a.ok
    BY <1>2, <1>3, ElementOfSeq
  <2>2. a.received <= Chunks
    BY <1>2, <1>3 DEF TransferInv, Pieces, PendRange, PendGood, GoodBody
  <2>3. a.received \in Nat
    BY <2>1 DEF BodySet
  <2> HIDE DEF a
  <2> QED BY <2>1, <2>2, <2>3
<1> HIDE DEF a
<1>5. host.at # "idle"
    BY <1>2, <1>3 DEF TransferInv, Pieces, PendRange
<1>6. CASE host.at \in {"begin", "begin2"} /\ Begun
  <2>1. CASE kind = "ota"
    <3>1. Transfer(0)
      BY <1>6, <2>1 DEF Begun
    <3>2. Sends /\ Continues /\ host'.at = "data"
      BY <1>1, <3>1, TransferSends
    <3> QED BY <1>4, <1>6, <3>2 DEF HostMoves, AskFirst, a
  <2>2. CASE kind = "system"
    <3>1. Go("open") /\ Ask("OPEN") /\ result' = result
      BY <1>6, <2>2 DEF Begun
    <3>2. Sends /\ Continues /\ host'.at = "open"
      BY <1>1, <3>1, GoSends DEF Places, RequestTypes, Suits
    <3> QED BY <1>4, <1>6, <2>2, <3>2 DEF HostMoves, AskFirst, a
  <2> QED BY <2>1, <2>2
<1>7. CASE host.at = "begin_status" /\ Go("begin2") /\ Ask("BEGIN") /\ UNCHANGED result
  <2>1. Sends /\ Continues /\ host'.at = "begin2"
    BY <1>1, <1>7, GoSends DEF Places, RequestTypes, Suits
  <2>2. kind = "system"
    BY <1>7 DEF TransferInv, Pieces, HostRange, PendRange
  <2> QED BY <1>7, <2>1, <2>2 DEF HostMoves, AskAgain
<1>8. CASE host.at = "begin_status" /\ Leave("unknown", FALSE)
  <2>1. Ends("unknown", FALSE)
    BY <1>1, <1>8, LeaveEnds
  <2> QED BY <1>8, <2>1 DEF HostMoves, EndEarly
<1>9. ASSUME host.at \in {"open", "data", "data_status"},
             NEW offset \in 0 .. Chunks, Transfer(offset)
      PROVE  HostMoves
  <2>1. /\ Sends /\ Continues
        /\ host'.at \in {"data", "commit"} \/ (host'.at = "close" /\ kind = "system")
    BY <1>1, <1>9, TransferSends
  <2> QED BY <1>9, <2>1 DEF HostMoves, AskNext
<1>10. ASSUME host.at \in {"data", "data_status"}, NEW error \in {"failed", "unknown"},
              Raise(error)
       PROVE  HostMoves
  <2>1. CASE Sends /\ Continues /\ host'.at = "cancel" /\ host'.error = error
    BY <1>10, <2>1 DEF HostMoves, AskNext
  <2>2. CASE Ends(error, FALSE)
    BY <1>10, <2>2 DEF HostMoves, EndBroken
  <2> QED BY <1>1, <1>10, <2>1, <2>2, RaiseMoves
<1>11. CASE host.at = "open" /\ Transfer(0)
    BY <1>9, <1>11
<1>12. CASE host.at = "data" /\ (Transfer(a.received) \/ Raise("failed"))
    BY <1>4, <1>9, <1>10, <1>12
<1>13. CASE host.at = "data_status" /\ Resume(a)
    BY <1>4, <1>9, <1>10, <1>13 DEF Resume
<1>14. CASE /\ host.at = "close" /\ host.comp + 1 < Parts
            /\ host' = [host EXCEPT !.at = "open", !.comp = @ + 1, !.offset = 0]
            /\ Ask("OPEN") /\ UNCHANGED result
  <2>1. /\ host' \in HostSet /\ host'.at = "open" /\ host'.comp = host.comp + 1
        /\ host'.offset = 0 /\ host'.op = host.op
    <3>1. host \in HostSet /\ host.comp \in Nat /\ host.comp + 1 \in Nat
      OBVIOUS
    <3>2. host' = [host EXCEPT !.at = "open", !.comp = host.comp + 1, !.offset = 0]
      BY <1>14
    <3> HIDE HostFacts
    <3> QED BY <3>1, <3>2 DEF HostSet, Places
  <2>2. Sends
    BY <1>1, <1>14, <2>1, AskSends DEF Suits, RequestTypes
  <2>3. kind = "system"
    BY <1>14 DEF TransferInv, Pieces, HostRange, PendRange
  <2> QED BY <1>14, <2>1, <2>2, <2>3 DEF HostMoves, AskNext, Continues
<1>15. CASE host.at = "close" /\ Go("commit") /\ Ask("COMMIT") /\ UNCHANGED result
  <2>1. Sends /\ Continues /\ host'.at = "commit"
    BY <1>1, <1>15, GoSends DEF Places, RequestTypes, Suits
  <2> QED BY <1>15, <2>1 DEF HostMoves, AskNext
<1>16. CASE host.at = "commit" /\ Leave(IF a.phase = "committed" THEN "answer" ELSE "failed", FALSE)
  <2>1. Ends(IF a.phase = "committed" THEN "answer" ELSE "failed", FALSE)
    BY <1>1, <1>16, LeaveEnds
  <2> QED BY <1>3, <1>4, <1>16, <2>1 DEF HostMoves, EndAnswered, a
<1>17. CASE host.at = "confirm" /\ Confirms(a) /\ Leave("status", FALSE)
  <2>1. Ends("status", FALSE)
    BY <1>1, <1>17, LeaveEnds
  <2> QED BY <1>3, <1>4, <1>17, <2>1 DEF HostMoves, EndConfirmed, a
<1>18. CASE host.at = "confirm" /\ Unconfirmed
  <2>1. CASE Sends /\ Continues /\ host'.at = "cancel" /\ host'.error = "unknown"
    BY <1>18, <2>1 DEF HostMoves, AskConfirm
  <2>2. CASE Ends("unknown", FALSE)
    BY <1>18, <2>2 DEF HostMoves, EndBroken
  <2> QED BY <1>1, <1>18, <2>1, <2>2, RaiseMoves DEF Unconfirmed
<1>19. CASE host.at = "cancel" /\ Leave(host.error, TRUE)
  <2>1. Ends(host.error, TRUE)
    BY <1>1, <1>19, LeaveEnds
  <2> QED BY <1>3, <1>4, <1>19, <2>1 DEF HostMoves, EndCancelled, a
<1> QED
  <2>1. \/ host.at \in {"begin", "begin2"} /\ Begun
        \/ /\ host.at = "begin_status"
           /\ \/ Go("begin2") /\ Ask("BEGIN") /\ UNCHANGED result
              \/ Leave("unknown", FALSE)
        \/ host.at = "open" /\ Transfer(0)
        \/ host.at = "data" /\ (Transfer(a.received) \/ Raise("failed"))
        \/ host.at = "data_status" /\ Resume(a)
        \/ /\ host.at = "close" /\ UNCHANGED result
           /\ \/ /\ host.comp + 1 < Parts
                 /\ host' = [host EXCEPT !.at = "open", !.comp = @ + 1, !.offset = 0]
                 /\ Ask("OPEN")
              \/ Go("commit") /\ Ask("COMMIT")
        \/ host.at = "commit" /\ Leave(IF a.phase = "committed" THEN "answer" ELSE "failed", FALSE)
        \/ host.at = "confirm" /\ Confirms(a) /\ Leave("status", FALSE)
        \/ host.at = "confirm" /\ Unconfirmed
        \/ host.at = "cancel" /\ Leave(host.error, TRUE)
    BY Zenon DEF Proceed, a
  <2> QED BY <2>1, <1>6, <1>7, <1>8, <1>11, <1>12, <1>13, <1>14, <1>15, <1>16, <1>17, <1>18, <1>19

-----------------------------------------------------------------------------
(* The steps of the link and of the device have these effects. *)

\* A queue without its head, with one more element, or without one of them.
LEMMA TailShorter ==
    ASSUME NEW S, NEW q \in Seq(S), q # <<>>
    PROVE  Tail(q) \in Seq(S) /\ Shorter(q, Tail(q)) /\ Head(q) = q[1]
<1>1. Len(q) \in Nat \ {0} /\ Head(q) = q[1]
    BY EmptySeq
<1> QED BY <1>1, HeadTailProperties DEF Shorter

\* What Append() does.
LEMMA AppendLonger ==
    ASSUME NEW S, NEW q \in Seq(S), NEW e \in S
    PROVE  Append(q, e) \in Seq(S) /\ Longer(q, Append(q, e), e)
BY AppendProperties DEF Longer

\* What Drop() does.
LEMMA DropLacks ==
    ASSUME NEW S, NEW q \in Seq(S), NEW k \in DOMAIN q
    PROVE  Drop(q, k) \in Seq(S) /\ Lacks(q, Drop(q, k))
<1>1. Len(q) \in Nat /\ k \in 1 .. Len(q) /\ Len(q) - 1 \in Nat
    BY LenProperties
<1>2. \A i \in 1 .. Len(q) - 1 : q[i] \in S /\ q[i + 1] \in S
    BY <1>1, ElementOfSeq
<1> DEFINE e(i) == IF i < k THEN q[i] ELSE q[i + 1]
           n == Len(q) - 1
<1>3. \A i \in 1 .. n : e(i) \in S
    BY <1>2
<1>4. Drop(q, k) = [i \in 1 .. n |-> e(i)]
    BY DEF Drop
<1>5. n \in Nat
    BY <1>1
<1> HIDE DEF e, n
<1>6. Drop(q, k) \in Seq(S) /\ Len(Drop(q, k)) = n /\ \A i \in 1 .. n : Drop(q, k)[i] = e(i)
    BY <1>3, <1>4, <1>5
<1>7. \A i \in 1 .. n : Drop(q, k)[i] = IF i < k THEN q[i] ELSE q[i + 1]
    BY <1>6 DEF e
<1>8. Len(Drop(q, k)) = Len(q) - 1
    BY <1>6 DEF n
<1>9. Lacks(q, Drop(q, k))
    BY <1>1, <1>7, <1>8, <1>6 DEF Lacks
<1> QED BY <1>6, <1>9

\* What the answer to a refused request says.
LEMMA RefusedIs ==
    /\ Refused \in BodySet /\ Waiting \in BodySet
    /\ Refused.ok = FALSE /\ Refused.op = 0 /\ Refused.phase = "error"
    /\ Refused.comp = 0 /\ Refused.received = 0
<1>1. /\ Waiting \in BodySet
      /\ Waiting.ok = FALSE /\ Waiting.op = 0 /\ Waiting.comp = 0 /\ Waiting.received = 0
    BY DEF Waiting, BodySet, Phases
<1> QED BY <1>1 DEF Refused, BodySet, Phases

\* The values of the device have their types.
LEMMA BodyTypes ==
    ASSUME Typed
    PROVE  /\ Body(dev) \in BodySet /\ NoRequest \in RequestSet /\ Off \in DevSet
           /\ FreeSlot \in SlotSet
<1>1. Body(dev) \in BodySet
    BY DEF Typed, DeviceTyped, DevSet, DevPhases, Body, BodySet, Phases
<1>2. NoRequest \in RequestSet
    BY DEF NoRequest, RequestSet, RequestTypes
<1>3. Off \in DevSet
    BY DEF Off, DevSet, DevPhases
<1>4. FreeSlot \in SlotSet
    BY <1>2, RefusedIs DEF FreeSlot, SlotSet, Stages
<1> QED BY <1>1, <1>2, <1>3, <1>4

\* An answer reaches the caller.
LEMMA HostReceivesEffect ==
    ASSUME Typed, HostReceives
    PROVE  Receives
<1>1. d2h \in Seq(AnswerSet) /\ d2h # <<>> /\ pend \in Seq(BodySet)
    BY DEF Typed, LinkTyped, HostTyped, HostReceives
<1>2. d2h' \in Seq(AnswerSet) /\ Shorter(d2h, d2h') /\ Head(d2h) = d2h[1] /\ d2h[1] \in AnswerSet
    BY <1>1, TailShorter, HeadTailProperties DEF HostReceives
<1> DEFINE a == d2h[1]
<1>3. a.body \in BodySet /\ a.id \in Nat
    BY <1>2 DEF AnswerSet
<1>4. DOMAIN pend = 1 .. Len(pend) /\ Len(pend) \in Nat
    BY <1>1, LenProperties
<1>5. pend' = IF a.id \in 1 .. Len(pend) THEN [pend EXCEPT ![a.id] = a.body] ELSE pend
    BY <1>2, <1>4 DEF HostReceives
<1> HIDE DEF a
<1>6. /\ pend' \in Seq(BodySet) /\ Len(pend') = Len(pend)
      /\ \A i \in 1 .. Len(pend) : pend'[i] = IF i = a.id THEN a.body ELSE pend[i]
  <2>1. CASE a.id \in 1 .. Len(pend)
    BY <1>1, <1>3, <1>4, <1>5, <2>1, ExceptSeq
  <2>2. CASE a.id \notin 1 .. Len(pend)
    BY <1>1, <1>4, <1>5, <2>2
  <2> QED BY <2>1, <2>2
<1>7. /\ SessionStays /\ DeviceStays
      /\ host' = host /\ result' = result /\ h2d' = h2d /\ slot' = slot
    BY DEF HostReceives, SessionStays, DeviceStays, devVars
<1> QED BY <1>2, <1>6, <1>7 DEF Receives, a

\* The protocol task takes a request.
LEMMA DeviceReceivesEffect ==
    ASSUME TransferInv, DeviceReceives
    PROVE  ReplyJob \/ ReplyStatus \/ ReplyCancel \/ ReplyRefused \/ Enqueues
<1>1. Typed /\ h2d \in Seq(RequestSet) /\ d2h \in Seq(AnswerSet) /\ h2d # <<>>
    BY DEF TransferInv, Typed, LinkTyped, DeviceReceives
<1> DEFINE r == h2d[1]
<1>2. /\ h2d' \in Seq(RequestSet) /\ Shorter(h2d, h2d') /\ Head(h2d) = r /\ r \in RequestSet
      /\ Len(h2d) >= 1 /\ Len(h2d) \in Nat
    BY <1>1, TailShorter, HeadTailProperties, LenProperties DEF DeviceReceives, Shorter
<1>3. r.id \in Nat /\ r.op \in Nat /\ r.op >= 1 /\ r.type # "none"
    BY <1>2 DEF RequestSet, TransferInv, Pieces, RequestsGood, GoodRequest
<1>4. /\ SessionStays /\ HostStays
      /\ dev' = dev /\ job' = job /\ abandoned' = abandoned /\ boot' = boot
    BY DEF DeviceReceives, SessionStays, HostStays, hostVars
<1>5. ASSUME NEW body \in BodySet, Answer(r.id, body), slot' = slot
      PROVE  Replies(body)
  <2>1. [id |-> r.id, body |-> body] \in AnswerSet
    BY <1>3 DEF AnswerSet
  <2>2. d2h' \in Seq(AnswerSet) /\ Longer(d2h, d2h', [id |-> r.id, body |-> body])
    BY <1>1, <1>5, <2>1, AppendLonger DEF Answer
  <2> QED BY <1>2, <1>4, <1>5, <2>2 DEF Replies
<1> HIDE DEF r
<1>6. \/ /\ r.type = "JOB" /\ slot' = slot /\ cancel' = cancel
         /\ Answer(r.id, IF job.op = r.op THEN [Body(Off) EXCEPT !.op = r.op, !.phase = job.state]
                                          ELSE Refused)
      \/ r.type = "STATUS" /\ Answer(r.id, Body(dev)) /\ slot' = slot /\ cancel' = cancel
      \/ /\ r.type = "CANCEL" /\ slot' = slot
         /\ LET taken == slot.stage # "done"
                         /\ (kind = "system" => dev.op = r.op /\ Active) IN
            /\ cancel' = (cancel \/ taken)
            /\ Answer(r.id, IF taken THEN Body(dev) ELSE Refused)
         /\ slot.stage # "idle"
      \/ /\ r.type \notin {"JOB", "CANCEL", "STATUS"}
         /\ Answer(r.id, Refused) /\ slot' = slot /\ cancel' = cancel
      \/ /\ slot.stage = "idle" /\ r.type # "JOB" /\ (r.type = "STATUS" => kind = "ota")
         /\ slot' = [stage |-> "queued", req |-> r, answer |-> Refused]
         /\ cancel' = IF kind = "ota" THEN FALSE ELSE cancel
         /\ d2h' = d2h
    BY <1>2, Zenon DEF DeviceReceives, Busy
<1>7. CASE /\ r.type = "JOB" /\ slot' = slot /\ cancel' = cancel
           /\ Answer(r.id, IF job.op = r.op THEN [Body(Off) EXCEPT !.op = r.op, !.phase = job.state]
                                            ELSE Refused)
  <2>1. CASE job.op = r.op
    <3> DEFINE body == [Body(Off) EXCEPT !.op = r.op, !.phase = job.state]
    <3>1. job.state \in Phases
      BY <1>1, <1>3, <2>1 DEF TransferInv, Pieces, DevInv, Typed, DeviceTyped, JobSet, Phases
    <3>2. /\ Body(Off) \in BodySet /\ Body(Off).ok /\ Body(Off).comp = 0 /\ Body(Off).received = 0
      BY DEF Body, Off, BodySet, Phases
    <3>3. /\ body \in BodySet /\ body.ok /\ body.op = r.op /\ body.phase = job.state
          /\ body.comp = 0 /\ body.received = 0
      BY <3>1, <3>2, <1>3 DEF BodySet
    <3>4. Answer(r.id, body)
      BY <1>7, <2>1
    <3> HIDE DEF body
    <3> QED BY <1>5, <1>7, <2>1, <3>3, <3>4 DEF ReplyJob, r
  <2>2. CASE job.op # r.op
    <3>1. Replies(Refused)
      BY <1>5, <1>7, <2>2, RefusedIs
    <3> QED BY <1>7, <2>2, <3>1 DEF ReplyRefused, r
  <2> QED BY <2>1, <2>2
<1>8. CASE r.type = "STATUS" /\ Answer(r.id, Body(dev)) /\ slot' = slot /\ cancel' = cancel
    BY <1>1, <1>5, <1>8, BodyTypes DEF ReplyStatus, r
<1>9. CASE /\ r.type = "CANCEL" /\ slot' = slot
           /\ LET taken == slot.stage # "done"
                           /\ (kind = "system" => dev.op = r.op /\ Active) IN
              /\ cancel' = (cancel \/ taken)
              /\ Answer(r.id, IF taken THEN Body(dev) ELSE Refused)
           /\ slot.stage # "idle"
  <2> DEFINE taken == slot.stage # "done" /\ (kind = "system" => dev.op = r.op /\ Active)
  <2>1. CASE taken
    <3>1. Answer(r.id, Body(dev)) /\ cancel' = TRUE /\ slot.stage \notin {"idle", "done"}
      BY <1>9, <2>1
    <3> QED BY <1>1, <1>5, <1>9, <3>1, BodyTypes DEF ReplyCancel, r
  <2>2. CASE ~taken
    <3>1. Answer(r.id, Refused) /\ cancel' = cancel
      <4>1. cancel \in BOOLEAN
        BY <1>1 DEF Typed, DeviceTyped
      <4> QED BY <1>9, <2>2, <4>1
    <3> QED BY <1>5, <1>9, <3>1, RefusedIs DEF ReplyRefused, r
  <2> QED BY <2>1, <2>2
<1>10. CASE /\ r.type \notin {"JOB", "CANCEL", "STATUS"}
            /\ Answer(r.id, Refused) /\ slot' = slot /\ cancel' = cancel
    BY <1>5, <1>10, RefusedIs DEF ReplyRefused, r
<1>11. CASE /\ slot.stage = "idle" /\ r.type # "JOB" /\ (r.type = "STATUS" => kind = "ota")
            /\ slot' = [stage |-> "queued", req |-> r, answer |-> Refused]
            /\ cancel' = IF kind = "ota" THEN FALSE ELSE cancel
            /\ d2h' = d2h
  <2>1. cancel' \in BOOLEAN
    BY <1>1, <1>11 DEF Typed, DeviceTyped
  <2> QED BY <1>2, <1>4, <1>11, <2>1 DEF Enqueues, r
<1> QED BY <1>6, <1>7, <1>8, <1>9, <1>10, <1>11

\* What the device knows, field by field.
LEMMA DeviceFacts ==
    ASSUME Typed
    PROVE  /\ kind \in {"ota", "system"} /\ dev \in DevSet /\ job \in JobSet /\ slot \in SlotSet
           /\ dev.op \in Nat /\ dev.comp \in Nat /\ dev.received \in Nat /\ dev.phase \in DevPhases
           /\ dev.written \in Seq(ChunkSet) /\ job.op \in Nat
           /\ slot.req \in RequestSet /\ slot.req.op \in Nat /\ slot.req.comp \in Nat
           /\ slot.req.offset \in Nat /\ slot.answer \in BodySet
BY DEF Typed, HostTyped, DeviceTyped, DevSet, JobSet, SlotSet, RequestSet

\* ota_abort(), job_finish().
LEMMA AbortedOver ==
    ASSUME Typed, NEW phase \in {"failed", "cancelled"}, Aborted(phase)
    PROVE  OverIfActive
<1>1. CASE ~Active
    BY <1>1 DEF Aborted, OverIfActive
<1>2. CASE Active
  <2>1. /\ job' \in JobSet /\ job'.op = job.op /\ job'.state \in {job.state, "failed"}
    BY <1>2, DeviceFacts DEF Aborted, JobSet
  <2>2. CASE kind = "ota"
    <3>1. dev' = Off
      BY <1>2, <2>2 DEF Aborted
    <3>2. dev' \in DevSet /\ dev'.phase = "idle" /\ dev'.op = 0 /\ dev'.comp = 0 /\ dev'.received = 0
      BY <3>1 DEF Off, DevSet, DevPhases
    <3> QED BY <1>2, <2>1, <3>2, DeviceFacts DEF OverIfActive, Over
  <2>3. CASE kind = "system"
    <3>1. dev' = [dev EXCEPT !.phase = phase, !.received = 0, !.written = <<>>]
      BY <1>2, <2>3 DEF Aborted
    <3>2. /\ dev' \in DevSet /\ dev'.phase = phase /\ dev'.op = dev.op /\ dev'.comp = dev.comp
          /\ dev'.received = 0
      <4>1. dev \in DevSet /\ phase \in DevPhases /\ <<>> \in Seq(ChunkSet)
        BY DeviceFacts DEF DevPhases
      <4> QED BY <3>1, <4>1 DEF DevSet
    <3> QED BY <1>2, <2>1, <2>3, <3>2, DeviceFacts DEF OverIfActive, Over
  <2> QED BY <2>2, <2>3, DeviceFacts
<1> QED BY <1>1, <1>2

\* handle_commit(), OTA END when they fail.
LEMMA FinishedOver ==
    ASSUME Typed, Finished(FALSE)
    PROVE  Over
<1>1. /\ job' \in JobSet /\ job'.op = job.op /\ job'.state \in {job.state, "failed"}
    BY DeviceFacts DEF Finished, JobSet
<1>2. CASE kind = "ota"
  <2>1. dev' = Off
    BY <1>2 DEF Finished
  <2>2. dev' \in DevSet /\ dev'.phase = "idle" /\ dev'.op = 0 /\ dev'.comp = 0 /\ dev'.received = 0
    BY <2>1 DEF Off, DevSet, DevPhases
  <2> QED BY <1>1, <2>2, DeviceFacts DEF Over
<1>3. CASE kind = "system"
  <2>1. dev' = [dev EXCEPT !.phase = "failed"]
    BY <1>3 DEF Finished
  <2>2. /\ dev' \in DevSet /\ dev'.phase = "failed" /\ dev'.op = dev.op /\ dev'.comp = dev.comp
        /\ dev'.received = dev.received
    BY <2>1, DeviceFacts DEF DevSet, DevPhases
  <2> QED BY <1>1, <1>3, <2>2, DeviceFacts DEF Over
<1> QED BY <1>2, <1>3, DeviceFacts

\* The status of the device under another phase.
LEMMA BodyWith ==
    ASSUME Typed, NEW phase \in Phases
    PROVE  LET body == [Body(dev) EXCEPT !.phase = phase] IN
           /\ body \in BodySet /\ body.ok /\ body.op = dev.op /\ body.phase = phase
           /\ body.comp = dev.comp /\ body.received = dev.received
<1>1. /\ Body(dev) \in BodySet /\ Body(dev).ok /\ Body(dev).op = dev.op
      /\ Body(dev).comp = dev.comp /\ Body(dev).received = dev.received
    BY BodyTypes DEF Body
<1> QED BY <1>1 DEF BodySet

\* The executor selects the image.
LEMMA SelectEffect ==
    ASSUME Typed, Select
    PROVE  Selects
<1>1. /\ SessionStays /\ HostStays /\ h2d' = h2d /\ d2h' = d2h
      /\ cancel' = cancel /\ abandoned' = abandoned
      /\ slot.stage = "boundary" /\ boot' = [op |-> dev.op, written |-> dev.written]
    BY DEF Select, SessionStays, HostStays, hostVars
<1>2. /\ job' \in JobSet /\ job'.op = job.op
      /\ job'.state = IF job.op = dev.op THEN "succeeded" ELSE job.state
    BY DeviceFacts DEF Select, Finished, JobSet
<1>3. /\ dev' \in DevSet /\ dev'.phase \in {"idle", "committed"}
      /\ dev'.op <= dev.op /\ dev'.comp <= dev.comp /\ dev'.received <= dev.received
      /\ kind = "ota" => dev'.phase = "idle"
  <2>1. CASE kind = "ota"
    <3>1. dev' = Off
      BY <2>1 DEF Select, Finished
    <3>2. dev' \in DevSet /\ dev'.phase = "idle" /\ dev'.op = 0 /\ dev'.comp = 0 /\ dev'.received = 0
      BY <3>1 DEF Off, DevSet, DevPhases
    <3> QED BY <3>2, DeviceFacts
  <2>2. CASE kind = "system"
    <3>1. dev' = [dev EXCEPT !.phase = "committed"]
      BY <2>2 DEF Select, Finished
    <3>2. /\ dev' \in DevSet /\ dev'.phase = "committed" /\ dev'.op = dev.op /\ dev'.comp = dev.comp
          /\ dev'.received = dev.received
      BY <3>1, DeviceFacts DEF DevSet, DevPhases
    <3> QED BY <2>2, <3>2, DeviceFacts
  <2> QED BY <2>1, <2>2, DeviceFacts
<1>4. slot' = [slot EXCEPT !.stage = "ran", !.answer = [Body(dev) EXCEPT !.phase = "committed"]]
    BY DEF Select, Finished, Answers
<1>5. \E body \in BodySet :
           /\ slot' = [slot EXCEPT !.stage = "ran", !.answer = body]
           /\ body.ok /\ body.op = dev.op /\ body.phase = "committed"
           /\ body.comp = dev.comp /\ body.received = dev.received
    BY <1>4, BodyWith DEF Phases
<1> QED BY <1>1, <1>2, <1>3, <1>5 DEF Selects

\* The loop after a step.
LEMMA CleanUpEffect ==
    ASSUME Typed, CleanUp
    PROVE  ClearDone \/ ClearCancelled \/ ClearAbandoned
<1>1. Clears
    BY DEF CleanUp, Clears, SessionStays, HostStays, hostVars
<1>2. slot' = [slot EXCEPT !.stage = IF abandoned THEN "idle" ELSE IF cancel THEN "ran" ELSE "done",
                           !.req = IF abandoned THEN NoRequest ELSE slot.req]
    BY DEF CleanUp
<1>3. CASE abandoned
  <2>1. OverIfActive
    BY <1>3, AbortedOver DEF CleanUp
  <2> QED BY <1>1, <1>2, <1>3, <2>1 DEF ClearAbandoned
<1>4. CASE ~abandoned /\ cancel
  <2>1. OverIfActive
    BY <1>4, AbortedOver DEF CleanUp
  <2>2. slot' = slot
    BY <1>1, <1>2, <1>4, DeviceFacts DEF Clears, SlotSet
  <2> QED BY <1>1, <1>4, <2>1, <2>2 DEF ClearCancelled
<1>5. CASE ~abandoned /\ ~cancel
  <2>1. dev' = dev /\ job' = job
    BY <1>5 DEF CleanUp
  <2>2. slot' = [slot EXCEPT !.stage = "done"]
    BY <1>2, <1>5, DeviceFacts DEF SlotSet
  <2> QED BY <1>1, <1>5, <2>1, <2>2 DEF ClearDone
<1> QED BY <1>3, <1>4, <1>5

\* The answer of the slot is sent.
LEMMA DrainEffect ==
    ASSUME Typed, Drain
    PROVE  Drains
<1>1. slot.req.id \in Nat /\ slot.answer \in BodySet /\ d2h \in Seq(AnswerSet)
    BY DeviceFacts DEF Typed, LinkTyped, RequestSet
<1>2. [id |-> slot.req.id, body |-> slot.answer] \in AnswerSet
    BY <1>1 DEF AnswerSet
<1>3. /\ d2h' \in Seq(AnswerSet)
      /\ Longer(d2h, d2h', [id |-> slot.req.id, body |-> slot.answer])
    BY <1>1, <1>2, AppendLonger DEF Drain, Answer
<1> QED BY <1>3 DEF Drain, Drains, SessionStays, HostStays, DeviceStays, hostVars

\* A frame is lost.
LEMMA LoseEffect ==
    ASSUME Typed, Lose
    PROVE  LoseRequest \/ LoseAnswer
<1>1. /\ SessionStays /\ HostStays /\ DeviceStays /\ slot' = slot
      /\ h2d \in Seq(RequestSet) /\ d2h \in Seq(AnswerSet)
    BY DEF Lose, SessionStays, HostStays, DeviceStays, hostVars, devVars, Typed, LinkTyped
<1>2. CASE \E i \in DOMAIN h2d : h2d' = Drop(h2d, i) /\ UNCHANGED d2h
    BY <1>1, <1>2, DropLacks DEF LoseRequest
<1>3. CASE \E i \in DOMAIN d2h : d2h' = Drop(d2h, i) /\ UNCHANGED h2d
    BY <1>1, <1>3, DropLacks DEF LoseAnswer
<1> QED BY <1>2, <1>3 DEF Lose

\* The session ends.
LEMMA DisconnectEffect ==
    ASSUME Typed, Disconnect
    PROVE  BreakAbandons \/ BreakQueues \/ BreakIdle
<1>1. Breaks
    BY DEF Disconnect, Breaks, HostStays, hostVars
<1>2. CASE /\ abandoned' = TRUE /\ cancel' = TRUE /\ UNCHANGED <<dev, job>>
           /\ Busy /\ slot.stage # "done" /\ slot' = [slot EXCEPT !.req.id = 0]
  <2>1. SlotGivenUp
    BY <1>2, DeviceFacts, StaleSlot
  <2>2. slot.stage \in {"queued", "boundary", "ran"}
    BY <1>2, DeviceFacts DEF Busy, SlotSet, Stages
  <2> QED BY <1>1, <1>2, <2>1, <2>2 DEF BreakAbandons
<1>3. CASE /\ abandoned' = TRUE /\ cancel' = TRUE /\ UNCHANGED <<dev, job>>
           /\ slot' = [FreeSlot EXCEPT !.stage = "queued"]
  <2>1. slot' = [stage |-> "queued", req |-> NoRequest, answer |-> Refused]
    BY <1>3 DEF FreeSlot
  <2> QED BY <1>1, <1>3, <2>1 DEF BreakQueues
<1>4. CASE ~Busy /\ Aborted("cancelled") /\ UNCHANGED <<slot, cancel, abandoned>>
  <2>1. OverIfActive
    BY <1>4, AbortedOver
  <2> QED BY <1>1, <1>4, <2>1 DEF BreakIdle, Busy
<1> QED BY <1>2, <1>3, <1>4, Zenon DEF Disconnect

\* The executor carries out its request.
LEMMA ExecuteEffect ==
    ASSUME TransferInv, Execute
    PROVE  \/ RunRefused \/ RunTold \/ RunBegin \/ RunOpen \/ RunData \/ RunClose
           \/ RunBoundary \/ RunEnds
<1>1. Typed
    BY DEF TransferInv
<1> DEFINE r == slot.req
<1>2. /\ SessionStays /\ HostStays /\ h2d' = h2d /\ d2h' = d2h /\ slot.stage = "queued"
      /\ cancel' = cancel /\ abandoned' = abandoned /\ boot' = boot
    BY DEF Execute, SessionStays, HostStays, hostVars
<1>3. ASSUME NEW body, Answers(body) PROVE Runs(body)
    BY <1>2, <1>3 DEF Answers, Runs
<1>4. CASE Refuse
    BY <1>3, <1>4 DEF Refuse, RunRefused
<1>f. ASSUME Active, Faulty, r.type \in {"OPEN", "DATA", "CLOSE"} PROVE RunEnds
  <2>1. Over
    BY <1>1, <1>f, AbortedOver DEF OverIfActive, Faulty
  <2>2. Runs(Refused)
    BY <1>3, <1>f DEF Faulty
  <2>3. Refused.op <= dev.op /\ Refused.comp <= dev.comp /\ Refused.received <= dev.received
    BY <1>1, DeviceFacts, RefusedIs
  <2> QED BY <1>f, <2>1, <2>2, <2>3, RefusedIs DEF RunEnds
<1>5. CASE r.type = "BEGIN" /\ DoBegin(r)
  <2>1. CASE Active /\ kind = "system" /\ dev.op = r.op /\ Answers(Body(dev)) /\ UNCHANGED <<dev, job>>
    BY <1>3, <1>5, <2>1 DEF RunTold
  <2>3. CASE ~Active /\ Faulty
    BY <1>3, <2>3 DEF Faulty, Aborted, RunRefused
  <2>2. CASE ~Active /\ ~Faulty
    <3>1. /\ dev' = [Off EXCEPT !.op = r.op,
                                !.phase = IF kind = "ota" THEN "receiving" ELSE "prepared"]
          /\ job' = [op |-> r.op, state |-> "running"]
          /\ Answers(Body(dev'))
      BY <1>5, <2>2 DEF DoBegin
    <3>2. Off \in DevSet /\ Off.comp = 0 /\ Off.received = 0 /\ Off.written = <<>>
      BY DEF Off, DevSet, DevPhases
    <3> DEFINE phase == IF kind = "ota" THEN "receiving" ELSE "prepared"
    <3>3. phase \in DevPhases /\ r.op \in Nat
      BY <1>1, DeviceFacts DEF DevPhases
    <3>4. dev' = [Off EXCEPT !.op = r.op, !.phase = phase]
      BY <3>1
    <3> HIDE DEF phase
    <3>5. /\ dev' \in DevSet /\ dev'.op = r.op /\ dev'.comp = 0 /\ dev'.received = 0
          /\ dev'.phase = phase /\ dev'.written = <<>>
      BY <3>2, <3>3, <3>4 DEF DevSet
    <3>6. Len(dev'.written) = 0
      BY <3>5
    <3> QED BY <1>3, <1>5, <2>2, <3>1, <3>5, <3>6 DEF RunBegin, phase
  <2> QED BY <1>4, <1>5, <2>1, <2>2, <2>3 DEF DoBegin
<1>6. CASE r.type = "OPEN" /\ DoOpen(r)
  <2>1. CASE dev.phase = "prepared" /\ Faulty
    BY <1>6, <1>f, <2>1 DEF Active
  <2> QED BY <1>3, <1>4, <1>6, <2>1 DEF DoOpen, RunOpen
<1>7. CASE r.type = "DATA" /\ DoData(r)
  <2>1. CASE /\ dev.phase = "receiving" /\ InOrder(r) /\ dev.received # Chunks
             /\ dev' = [dev EXCEPT !.received = @ + 1,
                                   !.written = Append(@, <<r.op, r.comp, r.offset>>)]
             /\ Answers(Body(dev')) /\ UNCHANGED job
    <3>1. dev.received < Chunks
      BY <1>1, <2>1, DeviceFacts, Constants DEF TransferInv, Pieces, DevInv
    <3>2. r.offset = dev.received /\ (kind = "system" => dev.comp = r.comp)
      BY <2>1 DEF InOrder
    <3>3. dev' = [dev EXCEPT !.received = dev.received + 1,
                             !.written = Append(dev.written, <<r.op, r.comp, dev.received>>)]
      BY <2>1, <3>2
    <3> QED BY <1>3, <1>7, <2>1, <3>1, <3>2, <3>3 DEF RunData
  <2>2. CASE dev.phase = "receiving" /\ Faulty
    BY <1>7, <1>f, <2>2 DEF Active
  <2> QED BY <1>4, <1>7, <2>1, <2>2 DEF DoData
<1>8. CASE r.type = "CLOSE" /\ DoClose(r)
  <2>1. CASE dev.phase = "receiving" /\ Faulty
    BY <1>8, <1>f, <2>1 DEF Active
  <2> QED BY <1>3, <1>4, <1>8, <2>1 DEF DoClose, RunClose
<1>9. ASSUME Active, NEW phase \in {"failed", "cancelled"}, Over, r.type \in {"COMMIT", "CANCEL"},
             Answers([Body(dev) EXCEPT !.phase = phase])
      PROVE  RunEnds
  <2> DEFINE body == [Body(dev) EXCEPT !.phase = phase]
  <2>1. /\ body \in BodySet /\ body.ok /\ body.op = dev.op /\ body.phase = phase
        /\ body.comp = dev.comp /\ body.received = dev.received
    BY <1>1, BodyWith DEF Phases
  <2>2. Runs(body)
    BY <1>3, <1>9
  <2> HIDE DEF body
  <2> QED BY <1>1, <1>9, <2>1, <2>2, DeviceFacts DEF RunEnds
<1>10. CASE r.type = "COMMIT" /\ DoCommit(r)
  <2>1. CASE Finished(FALSE) /\ IF kind = "ota" THEN dev.phase = "receiving" ELSE dev.phase = "verified"
    <3>1. Active /\ Over
      BY <1>1, <2>1, FinishedOver DEF Active
    <3>2. Answers([Body(dev) EXCEPT !.phase = "failed"])
      BY <2>1 DEF Finished
    <3> QED BY <1>9, <1>10, <3>1, <3>2
  <2>2. CASE /\ Verified(r) /\ slot' = [slot EXCEPT !.stage = "boundary"] /\ UNCHANGED job
             /\ dev' = IF kind = "ota" THEN dev ELSE [dev EXCEPT !.phase = "committing"]
             /\ IF kind = "ota" THEN dev.phase = "receiving" ELSE dev.phase = "verified"
    <3>1. \/ kind = "ota" /\ dev.phase = "receiving" /\ dev.received = Chunks /\ dev' = dev
          \/ /\ kind = "system" /\ dev.phase = "verified"
             /\ dev' = [dev EXCEPT !.phase = "committing"]
      BY <1>1, <2>2, DeviceFacts DEF Verified
    <3> QED BY <1>2, <1>10, <2>2, <3>1 DEF RunBoundary
  <2> QED BY <1>4, <1>10, <2>1, <2>2 DEF DoCommit
<1>11. CASE r.type = "CANCEL" /\ DoCancel(r)
  <2>1. CASE Active /\ Aborted("cancelled") /\ Answers([Body(dev) EXCEPT !.phase = "cancelled"])
    <3>1. Over
      BY <1>1, <2>1, AbortedOver DEF OverIfActive
    <3> QED BY <1>9, <1>11, <2>1, <3>1
  <2> QED BY <1>4, <1>11, <2>1 DEF DoCancel
<1>12. CASE r.type = "STATUS" /\ DoStatus
    BY <1>3, <1>12 DEF DoStatus, RunTold
<1> QED BY <1>4, <1>5, <1>6, <1>7, <1>8, <1>10, <1>11, <1>12 DEF Execute

-----------------------------------------------------------------------------
(* The numbers and shapes that the next proofs use, now and after a step. *)

Lengths == Len(h2d) \in Nat /\ Len(d2h) \in Nat /\ Len(pend) \in Nat
Numbers ==
    /\ window \in Nat \ {0} /\ Chunks \in Nat \ {0} /\ MaxOps \in Nat \ {0} /\ Parts \in Nat \ {0}
    /\ host.op \in Nat /\ host.comp \in Nat /\ host.offset \in Nat
    /\ dev.op \in Nat /\ dev.comp \in Nat /\ dev.received \in Nat /\ job.op \in Nat /\ boot.op \in Nat
    /\ slot.req.id \in Nat /\ slot.req.op \in Nat /\ slot.req.comp \in Nat /\ slot.answer.op \in Nat
Words ==
    /\ kind \in {"ota", "system"} /\ host.at \in Places
    /\ slot.stage \in Stages /\ dev.phase \in DevPhases
Contents ==
    /\ \A i \in 1 .. Len(h2d) : /\ h2d[i].id \in Nat /\ h2d[i].op \in Nat /\ h2d[i].comp \in Nat
                                /\ h2d[i].offset \in Nat
    /\ \A i \in 1 .. Len(d2h) : d2h[i].id \in Nat /\ d2h[i].body.op \in Nat
    /\ \A i \in 1 .. Len(pend) : pend[i].op \in Nat
Shapes == Lengths /\ Numbers /\ Words /\ Contents

\* The elements of the queues.
LEMMA QueueShapes ==
    ASSUME NEW q \in Seq(RequestSet), NEW p \in Seq(AnswerSet), NEW b \in Seq(BodySet)
    PROVE  /\ Len(q) \in Nat /\ Len(p) \in Nat /\ Len(b) \in Nat
           /\ \A i \in 1 .. Len(q) : /\ q[i].id \in Nat /\ q[i].op \in Nat /\ q[i].comp \in Nat
                                      /\ q[i].offset \in Nat
           /\ \A i \in 1 .. Len(p) : p[i].id \in Nat /\ p[i].body.op \in Nat
           /\ \A i \in 1 .. Len(b) : b[i].op \in Nat
<1>1. Len(q) \in Nat /\ Len(p) \in Nat /\ Len(b) \in Nat
    BY LenProperties
<1>2. /\ \A i \in 1 .. Len(q) : q[i] \in RequestSet
      /\ \A i \in 1 .. Len(p) : p[i] \in AnswerSet
      /\ \A i \in 1 .. Len(b) : b[i] \in BodySet
    BY ElementOfSeq
<1>3. \A i \in 1 .. Len(q) : /\ q[i].id \in Nat /\ q[i].op \in Nat /\ q[i].comp \in Nat
                             /\ q[i].offset \in Nat
    BY <1>2 DEF RequestSet
<1>4. \A i \in 1 .. Len(p) : p[i].id \in Nat /\ p[i].body.op \in Nat
    BY <1>2 DEF AnswerSet, BodySet
<1>5. \A i \in 1 .. Len(b) : b[i].op \in Nat
    BY <1>2 DEF BodySet
<1> QED BY <1>1, <1>3, <1>4, <1>5

\* Typed gives the shapes.
LEMMA TypedShapes ==
    ASSUME Typed
    PROVE  Shapes
<1>1. /\ kind \in {"ota", "system"} /\ window \in Nat \ {0}
      /\ Chunks \in Nat \ {0} /\ MaxOps \in Nat \ {0} /\ Parts \in Nat \ {0}
    BY Constants DEF Typed, HostTyped
<1>2. h2d \in Seq(RequestSet) /\ d2h \in Seq(AnswerSet) /\ pend \in Seq(BodySet)
    BY DEF Typed, HostTyped, LinkTyped
<1>3. /\ Len(h2d) \in Nat /\ Len(d2h) \in Nat /\ Len(pend) \in Nat
      /\ \A i \in 1 .. Len(h2d) : /\ h2d[i].id \in Nat /\ h2d[i].op \in Nat
                                  /\ h2d[i].comp \in Nat /\ h2d[i].offset \in Nat
      /\ \A i \in 1 .. Len(d2h) : d2h[i].id \in Nat /\ d2h[i].body.op \in Nat
      /\ \A i \in 1 .. Len(pend) : pend[i].op \in Nat
    BY <1>2, QueueShapes
<1>4. /\ host.at \in Places /\ host.op \in Nat /\ host.comp \in Nat /\ host.offset \in Nat
      /\ slot.stage \in Stages /\ slot.req.id \in Nat /\ slot.req.op \in Nat /\ slot.req.comp \in Nat
      /\ slot.answer.op \in Nat
    BY DEF Typed, HostTyped, DeviceTyped, HostSet, SlotSet, RequestSet, BodySet
<1>5. /\ dev.op \in Nat /\ dev.comp \in Nat /\ dev.received \in Nat /\ dev.phase \in DevPhases
      /\ job.op \in Nat /\ boot.op \in Nat
    BY DEF Typed, DeviceTyped, DevSet, JobSet, BootSet
<1> QED BY <1>1, <1>3, <1>4, <1>5 DEF Shapes, Lengths, Numbers, Words, Contents

\* The same after a step.
LEMMA TypedShapesNext ==
    ASSUME Typed'
    PROVE  Shapes'
<1>1. /\ kind' \in {"ota", "system"} /\ window' \in Nat \ {0}
      /\ Chunks \in Nat \ {0} /\ MaxOps \in Nat \ {0} /\ Parts' \in Nat \ {0}
    BY TransferAssumption DEF Typed, HostTyped, Parts
<1>2. h2d' \in Seq(RequestSet) /\ d2h' \in Seq(AnswerSet) /\ pend' \in Seq(BodySet)
    BY DEF Typed, HostTyped, LinkTyped
<1>3. /\ Len(h2d') \in Nat /\ Len(d2h') \in Nat /\ Len(pend') \in Nat
      /\ \A i \in 1 .. Len(h2d') : /\ h2d'[i].id \in Nat /\ h2d'[i].op \in Nat
                                  /\ h2d'[i].comp \in Nat /\ h2d'[i].offset \in Nat
      /\ \A i \in 1 .. Len(d2h') : d2h'[i].id \in Nat /\ d2h'[i].body.op \in Nat
      /\ \A i \in 1 .. Len(pend') : pend'[i].op \in Nat
    BY <1>2, QueueShapes
<1>4. /\ host'.at \in Places /\ host'.op \in Nat /\ host'.comp \in Nat /\ host'.offset \in Nat
      /\ slot'.stage \in Stages /\ slot'.req.id \in Nat /\ slot'.req.op \in Nat
      /\ slot'.req.comp \in Nat /\ slot'.answer.op \in Nat
    BY DEF Typed, HostTyped, DeviceTyped, HostSet, SlotSet, RequestSet, BodySet
<1>5. /\ dev'.op \in Nat /\ dev'.comp \in Nat /\ dev'.received \in Nat /\ dev'.phase \in DevPhases
      /\ job'.op \in Nat /\ boot'.op \in Nat
    BY DEF Typed, DeviceTyped, DevSet, JobSet, BootSet
<1> QED BY <1>1, <1>3, <1>4, <1>5 DEF Shapes, Lengths, Numbers, Words, Contents

\* Every step has one of the effects.
LEMMA NextMoves ==
    ASSUME TransferInv, Next
    PROVE  Moves
<1>1. Typed
    BY DEF TransferInv
<1>2. CASE Start \/ Proceed \/ RequestFails \/ Timeout \/ EarlyTimeout
  <2>1. HostMoves
    BY <1>2, StartMoves, ProceedMoves, RequestFailsMoves, TimesOutMoves DEF Timeout, EarlyTimeout
  <2> QED BY <2>1 DEF Moves
<1>3. CASE HostReceives \/ Lose \/ Disconnect
    BY <1>1, <1>3, HostReceivesEffect, LoseEffect, DisconnectEffect DEF Moves, LinkMoves
<1>4. CASE Reboot
  <2>1. BreakReboot
    BY <1>4 DEF Reboot, BreakReboot, Breaks, HostStays, hostVars
  <2> QED BY <2>1 DEF Moves, LinkMoves
<1>5. CASE Reconnect
  <2>1. Reconnects
    BY <1>5 DEF Reconnect, Reconnects, HostStays, DeviceStays, hostVars, devVars
  <2> QED BY <2>1 DEF Moves, LinkMoves
<1>6. CASE DeviceReceives
    BY <1>6, DeviceReceivesEffect DEF Moves, DeviceMoves
<1>7. CASE Execute
    BY <1>7, ExecuteEffect DEF Moves, DeviceMoves
<1>8. CASE Select \/ CleanUp \/ Drain
    BY <1>1, <1>8, SelectEffect, CleanUpEffect, DrainEffect DEF Moves, DeviceMoves
<1> QED BY <1>2, <1>3, <1>4, <1>5, <1>6, <1>7, <1>8 DEF Next

\* The shapes of the variables are kept.
LEMMA MovesTyped ==
    ASSUME TransferInv, Moves
    PROVE  Typed'
<1>1. /\ kind \in {"ota", "system"} /\ window \in Nat \ {0}
      /\ host \in HostSet /\ pend \in Seq(BodySet) /\ result \in ResultSet /\ alive \in BOOLEAN
      /\ h2d \in Seq(RequestSet) /\ d2h \in Seq(AnswerSet)
      /\ dev \in DevSet /\ job \in JobSet /\ slot \in SlotSet
      /\ cancel \in BOOLEAN /\ abandoned \in BOOLEAN /\ boot \in BootSet
    BY DEF TransferInv, Typed, HostTyped, LinkTyped, DeviceTyped
<1>2. Typed
    BY DEF TransferInv
<1> DEFINE T == /\ kind' \in {"ota", "system"} /\ window' \in Nat \ {0} /\ alive' \in BOOLEAN
                /\ host' \in HostSet /\ pend' \in Seq(BodySet) /\ result' \in ResultSet
                /\ h2d' \in Seq(RequestSet) /\ d2h' \in Seq(AnswerSet)
                /\ dev' \in DevSet /\ job' \in JobSet /\ slot' \in SlotSet
                /\ cancel' \in BOOLEAN /\ abandoned' \in BOOLEAN /\ boot' \in BootSet
<1>3. T => Typed'
    BY DEF Typed, HostTyped, LinkTyped, DeviceTyped
<1>4. ASSUME NEW body \in BodySet, Runs(body)
      PROVE  slot' \in SlotSet
    BY <1>1, <1>4 DEF Runs, SlotSet, Stages
<1>5. /\ Body(dev) \in BodySet /\ NoRequest \in RequestSet /\ Off \in DevSet /\ FreeSlot \in SlotSet
      /\ Refused \in BodySet
    BY <1>2, BodyTypes, RefusedIs
<1>6. dev' \in DevSet => Body(dev') \in BodySet
    BY DEF DevSet, DevPhases, Body, BodySet, Phases
<1>0. <<>> \in Seq(BodySet) /\ <<>> \in Seq(RequestSet) /\ <<>> \in Seq(AnswerSet)
    OBVIOUS
<1>7. CASE HostMoves
  <2>1. CASE AskBegin \/ AskAgain \/ AskFirst \/ AskNext \/ AskConfirm \/ AskCancel
    <3>1. Sends
      BY <2>1 DEF AskBegin, AskAgain, AskFirst, AskNext, AskConfirm, AskCancel
    <3>2. result' \in ResultSet
      <4>1. CASE AskBegin
        BY <4>1 DEF AskBegin, ResultSet, Hows
      <4>2. CASE ~AskBegin
        <5>1. result' = result
          BY <2>1, <4>2 DEF AskAgain, AskFirst, AskNext, AskConfirm, AskCancel, Continues
        <5> QED BY <1>1, <5>1
      <4> QED BY <4>1, <4>2
    <3> QED BY <1>1, <1>3, <3>1, <3>2 DEF Sends, SessionStays, DeviceStays, AnswersGivenUp,
       SlotGivenUp
  <2>2. CASE EndEarly \/ EndAnswered \/ EndConfirmed \/ EndCancelled \/ EndBroken
    <3>1. PICK how \in Hows, freed \in BOOLEAN : Ends(how, freed)
      BY <1>1, <2>2 DEF EndEarly, EndAnswered, EndConfirmed, EndCancelled, EndBroken, Hows,
         HostSet
    <3>2. result' \in ResultSet /\ host' \in HostSet /\ pend' \in Seq(BodySet)
      <4>1. /\ host' = [host EXCEPT !.at = "idle"] /\ pend' = <<>> /\ host.op \in Nat
            /\ result' = [op |-> host.op, how |-> how, freed |-> freed]
        BY <1>1, <3>1 DEF Ends, HostSet
      <4>2. result' \in ResultSet
        BY <4>1 DEF ResultSet
      <4>3. host' \in HostSet
        BY <1>1, <4>1 DEF HostSet, Places
      <4> QED BY <1>0, <4>1, <4>2, <4>3
    <3> QED BY <1>1, <1>3, <3>1, <3>2 DEF Ends, SessionStays, DeviceStays, AnswersGivenUp,
       SlotGivenUp
  <2> QED BY <1>7, <2>1, <2>2 DEF HostMoves
<1>8. CASE LinkMoves
  <2>1. CASE Receives \/ LoseRequest \/ LoseAnswer \/ Reconnects
    BY <1>1, <1>3, <2>1 DEF Receives, LoseRequest, LoseAnswer, Reconnects, SessionStays,
       HostStays,
       DeviceStays
  <2>2. CASE BreakAbandons
    BY <1>0, <1>1, <1>3, <2>2 DEF BreakAbandons, Breaks, HostStays, SlotGivenUp
  <2>3. CASE BreakQueues
    <3>1. slot' \in SlotSet
      BY <1>5, <2>3 DEF BreakQueues, SlotSet, Stages
    <3> QED BY <1>0, <1>1, <1>3, <2>3, <3>1 DEF BreakQueues, Breaks, HostStays
  <2>4. CASE BreakIdle
    BY <1>0, <1>1, <1>3, <2>4 DEF BreakIdle, Breaks, HostStays, OverIfActive, Over
  <2>5. CASE BreakReboot
    <3>1. job' \in JobSet
      BY <2>5 DEF BreakReboot, JobSet
    <3> QED BY <1>0, <1>1, <1>3, <1>5, <2>5, <3>1 DEF BreakReboot, Breaks, HostStays
  <2> QED BY <1>8, <2>1, <2>2, <2>3, <2>4, <2>5 DEF LinkMoves
<1>9. CASE DeviceMoves
  <2>1. CASE ReplyJob \/ ReplyStatus \/ ReplyCancel \/ ReplyRefused
    <3>1. PICK body : Replies(body)
      BY <2>1 DEF ReplyJob, ReplyStatus, ReplyCancel, ReplyRefused
    <3>2. cancel' \in BOOLEAN
      BY <1>1, <2>1 DEF ReplyJob, ReplyStatus, ReplyCancel, ReplyRefused
    <3> QED BY <1>1, <1>3, <3>1, <3>2 DEF Replies, SessionStays, HostStays
  <2>2. CASE Enqueues
    <3>1. h2d[1] \in RequestSet
      <4>1. 1 \in 1 .. Len(h2d)
        BY <1>1, <2>2, LenProperties DEF Enqueues, Shorter
      <4> QED BY <1>1, <4>1, ElementOfSeq
    <3>2. slot' \in SlotSet
      BY <1>5, <2>2, <3>1 DEF Enqueues, SlotSet, Stages
    <3> QED BY <1>1, <1>3, <2>2, <3>2 DEF Enqueues, SessionStays, HostStays
  <2>3. ASSUME NEW body \in BodySet, Runs(body), dev' \in DevSet, job' \in JobSet
        PROVE  Typed'
    BY <1>1, <1>3, <1>4, <2>3 DEF Runs, SessionStays, HostStays
  <2>4. CASE RunRefused \/ RunTold
    BY <1>1, <1>5, <2>3, <2>4 DEF RunRefused, RunTold
  <2>5. CASE RunBegin
    <3>1. job' \in JobSet
      BY <1>1, <2>5 DEF RunBegin, JobSet, SlotSet, RequestSet
    <3> QED BY <1>6, <2>3, <2>5, <3>1 DEF RunBegin
  <2>6. CASE RunOpen
    <3>1. dev' \in DevSet
      BY <1>1, <2>6 DEF RunOpen, DevSet, DevPhases
    <3> QED BY <1>1, <1>6, <2>3, <2>6, <3>1 DEF RunOpen
  <2>7. CASE RunData
    <3>1. <<slot.req.op, slot.req.comp, dev.received>> \in ChunkSet
      BY <1>1 DEF ChunkSet, SlotSet, RequestSet, DevSet
    <3>2. Append(dev.written, <<slot.req.op, slot.req.comp, dev.received>>) \in Seq(ChunkSet)
      BY <1>1, <3>1, AppendProperties DEF DevSet
    <3>3. dev' \in DevSet
      <4> DEFINE w == Append(dev.written, <<slot.req.op, slot.req.comp, dev.received>>)
                 n == dev.received + 1
      <4>1. n \in Nat /\ w \in Seq(ChunkSet)
        BY <1>1, <3>2 DEF DevSet
      <4>2. dev' = [dev EXCEPT !.received = n, !.written = w]
        BY <2>7 DEF RunData
      <4> HIDE DEF w, n
      <4> QED BY <1>1, <4>1, <4>2 DEF DevSet
    <3> QED BY <1>1, <1>6, <2>3, <2>7, <3>3 DEF RunData
  <2>8. CASE RunClose
    <3>1. dev' \in DevSet
      <4> DEFINE p == IF dev.comp + 1 < Parts THEN "prepared" ELSE "verified"
                 n == dev.comp + 1
      <4>1. n \in Nat /\ p \in DevPhases
        BY <1>1 DEF DevSet, DevPhases
      <4>2. dev' = [dev EXCEPT !.comp = n, !.received = 0, !.phase = p]
        BY <2>8 DEF RunClose
      <4> HIDE DEF p, n
      <4> QED BY <1>1, <4>1, <4>2 DEF DevSet
    <3> QED BY <1>1, <1>6, <2>3, <2>8, <3>1 DEF RunClose
  <2>9. CASE RunBoundary
    <3>1. dev' \in DevSet /\ slot' \in SlotSet
      BY <1>1, <2>9 DEF RunBoundary, DevSet, DevPhases, SlotSet, Stages
    <3> QED BY <1>1, <1>3, <2>9, <3>1 DEF RunBoundary, SessionStays, HostStays
  <2>10. CASE RunEnds
    BY <2>3, <2>10 DEF RunEnds, Over
  <2>11. CASE Selects
    <3>1. slot' \in SlotSet /\ boot' \in BootSet
      BY <1>1, <2>11 DEF Selects, SlotSet, Stages, BootSet, DevSet
    <3> QED BY <1>1, <1>3, <2>11, <3>1 DEF Selects, SessionStays, HostStays
  <2>12. CASE ClearDone \/ ClearCancelled \/ ClearAbandoned
    <3>1. slot' \in SlotSet
      BY <1>1, <1>5, <2>12 DEF ClearDone, ClearCancelled, ClearAbandoned, SlotSet, Stages
    <3> QED BY <1>1, <1>3, <2>12, <3>1 DEF ClearDone, ClearCancelled, ClearAbandoned, Clears,
               SessionStays, HostStays, OverIfActive, Over
  <2>13. CASE Drains
    BY <1>1, <1>3, <1>5, <2>13 DEF Drains, SessionStays, HostStays, DeviceStays
  <2> QED BY <1>9, <2>1, <2>2, <2>4, <2>5, <2>6, <2>7, <2>8, <2>9, <2>10, <2>11, <2>12, <2>13
          DEF DeviceMoves
<1> QED BY <1>7, <1>8, <1>9 DEF Moves

\* The place of chunk r of component c.
LEMMA PlaceOf ==
    ASSUME NEW k \in Nat \ {0}, NEW c \in Nat, NEW r \in Nat, r < k
    PROVE  (c * k + r) \div k = c /\ (c * k + r) % k = r
<1> DEFINE n == c * k + r
           d == n \div k
           m == n % k
<1>1. n \in Nat /\ c * k \in Nat
    OBVIOUS
<1>2. d \in Int /\ m \in Int /\ n = d * k + m /\ 0 <= m /\ m < k
    BY <1>1
<1>3. c * k + r = d * k + m
    BY <1>2
<1> HIDE DEF n, d, m
<1>4. d = c
  <2>1. ASSUME d >= c + 1 PROVE FALSE
    <3>1. d * k >= (c + 1) * k
      BY <1>2, <2>1
    <3>2. (c + 1) * k = c * k + k
      OBVIOUS
    <3>3. d * k \in Int /\ c * k \in Int
      BY <1>2
    <3> QED BY <1>2, <1>3, <3>1, <3>2, <3>3
  <2>2. ASSUME d + 1 <= c PROVE FALSE
    <3>1. c * k >= (d + 1) * k
      BY <1>2, <2>2
    <3>2. (d + 1) * k = d * k + k
      BY <1>2
    <3>3. d * k \in Int /\ c * k \in Int
      BY <1>2
    <3> QED BY <1>2, <1>3, <3>1, <3>2, <3>3
  <2> QED BY <1>2, <2>1, <2>2
<1>5. m = r
  <2>1. d * k \in Int /\ c * k = d * k
    BY <1>2, <1>4
  <2> QED BY <1>2, <1>3, <2>1
<1> QED BY <1>4, <1>5 DEF n, d, m

\* The places of a component end where those of the next begin.
LEMMA NextPlace ==
    ASSUME NEW k \in Nat, NEW c \in Nat
    PROVE  c * k + k = (c + 1) * k /\ c * k \in Nat
OBVIOUS


\* What a sending keeps, wherever the caller goes.
LEMMA SendsKeepA ==
    ASSUME Pieces, Shapes, Shapes', Sends, host.op <= host'.op, HostRange'
    PROVE  /\ RequestsGood' /\ PendGood' /\ QueueOrder' /\ QueueOps' /\ SlotAhead' /\ DevAhead'
           /\ SlotOps' /\ BootOps' /\ DevInv'
<1>k. kind' = kind /\ Parts' = Parts
    BY DEF Sends, SessionStays, Parts
<1>n. /\ Len(h2d) \in Nat /\ Len(h2d') \in Nat /\ Len(pend') \in Nat /\ Len(h2d') >= Len(h2d)
      /\ host.op \in Nat /\ host'.op \in Nat
    BY DEF Shapes, Lengths, Numbers, Sends
<1>q. ASSUME NEW i \in 1 .. Len(h2d')
      PROVE  \/ i \in 1 .. Len(h2d) /\ GivenUp(h2d[i], h2d'[i])
             \/ i \in Len(h2d) + 1 .. Len(h2d') /\ Asked(h2d'[i], i - Len(h2d))
    BY <1>n DEF Sends
<1>d. dev' = dev /\ job' = job /\ boot' = boot
    BY DEF Sends, DeviceStays
<1>1. RequestsGood'
  <2>1. ASSUME NEW i \in 1 .. Len(h2d') PROVE (GoodRequest(h2d[i]))' /\ h2d'[i].type # "none"
    <3>1. CASE i \in 1 .. Len(h2d) /\ GivenUp(h2d[i], h2d'[i])
      BY <3>1, <1>k DEF GivenUp, Pieces, RequestsGood, GoodRequest
    <3>2. CASE Asked(h2d'[i], i - Len(h2d))
      BY <3>2, <1>k, <1>n DEF Asked, Suits, GoodRequest, Sends, HostRange
    <3> QED BY <1>q, <3>1, <3>2
  <2> QED BY <2>1 DEF RequestsGood
<1>2. PendGood'
  <2>1. \A i \in 1 .. Len(pend') : pend'[i] = Waiting
    BY DEF Sends
  <2>2. Waiting.op = 0 /\ Waiting.comp = 0 /\ Waiting.received = 0 /\ ~Waiting.ok /\ Waiting.phase = "waiting"
    BY DEF Waiting
  <2> HIDE DEF Waiting
  <2>3. Parts \in Nat /\ MaxOps \in Nat /\ Chunks \in Nat
    BY DEF Shapes, Numbers
  <2> QED BY <2>1, <2>2, <2>3, <1>k DEF PendGood, GoodBody
<1>3. QueueOrder' /\ QueueOps'
  <2>1. \A i \in 1 .. Len(h2d) : h2d[i].op \in Nat /\ h2d[i].op <= host.op /\ boot.op <= h2d[i].op
    BY DEF Shapes, Contents, Pieces, QueueOps
  <2>2. boot.op \in Nat /\ boot.op <= host.op
    BY DEF Shapes, Numbers, Pieces, BootOps
  <2>3. \A i \in 1 .. Len(h2d') : \/ i \in 1 .. Len(h2d) /\ h2d'[i].op = h2d[i].op
                                  \/ i \in Len(h2d) + 1 .. Len(h2d') /\ h2d'[i].op = host'.op
    BY <1>q DEF GivenUp, Asked
  <2>4. \A i, j \in 1 .. Len(h2d) : i < j => h2d[i].op <= h2d[j].op
    BY DEF Pieces, QueueOrder
  <2>5. ASSUME NEW i \in 1 .. Len(h2d'), NEW j \in 1 .. Len(h2d'), i < j
        PROVE  h2d'[i].op <= h2d'[j].op
    BY <1>n, <2>1, <2>3, <2>4, <2>5, SMTT(40)
  <2>6. ASSUME NEW i \in 1 .. Len(h2d')
        PROVE  boot.op <= h2d'[i].op /\ h2d'[i].op <= host'.op
    BY <1>n, <2>1, <2>2, <2>3, SMTT(40)
  <2> QED BY <2>5, <2>6, <1>d DEF QueueOrder, QueueOps
<1>4. SlotAhead' /\ DevAhead'
  <2>1. \A i \in 1 .. Len(h2d') : \/ i \in 1 .. Len(h2d) /\ h2d'[i].op = h2d[i].op
                                  \/ i \in Len(h2d) + 1 .. Len(h2d') /\ h2d'[i].op = host'.op
    BY <1>q DEF GivenUp, Asked
  <2>2. slot'.stage = slot.stage /\ slot'.req.op = slot.req.op /\ slot'.req.type = slot.req.type
    BY DEF Sends, SlotGivenUp, GivenUp
  <2>3. ASSUME Live, slot.req.type # "none" PROVE slot.req.op \in Nat /\ slot.req.op <= host'.op
    <3>1. slot.req.op \in Nat /\ slot.req.op <= host.op
      BY <2>3 DEF Shapes, Numbers, Pieces, SlotOps
    <3> QED BY <3>1, <1>n
  <2>4. dev.op \in Nat /\ dev.op <= host'.op
    <3>1. dev.op \in Nat /\ dev.op <= host.op
      BY DEF Shapes, Numbers, Pieces, DevInv
    <3> QED BY <3>1, <1>n
  <2> QED BY <2>1, <2>2, <2>3, <2>4, <1>d, <1>n DEF SlotAhead, DevAhead, Live, Active, Pieces
<1>5. SlotOps' /\ BootOps' /\ DevInv'
  <2>1. slot'.stage = slot.stage /\ slot'.req.op = slot.req.op /\ slot'.req.type = slot.req.type
    BY DEF Sends, SlotGivenUp, GivenUp
  <2>2. boot.op \in Nat /\ dev.op \in Nat /\ job.op \in Nat /\ slot.req.op \in Nat
    BY DEF Shapes, Numbers
  <2>3. SlotOps'
    BY <1>d, <1>n, <2>1, <2>2 DEF SlotOps, Live, Active, Pieces
  <2>4. BootOps'
    BY <1>d, <1>n, <2>1, <2>2 DEF BootOps, Live, Active, Pieces
  <2>5. DevInv'
    BY <1>d, <1>k, <1>n, <2>1, <2>2 DEF DevInv, Active, Pieces
  <2> QED BY <2>3, <2>4, <2>5
<1> QED BY <1>1, <1>2, <1>3, <1>4, <1>5

\* What is on its way after a sending, and that nothing is answered yet.
LEMMA SendsShow ==
    ASSUME Pieces, Shapes, Shapes', Sends, host.op <= host'.op
    PROVE  /\ ~OkAnswer'
           /\ NoBegin /\ host'.at \notin {"begin", "begin2"} => NoBegin'
           /\ NoCommit /\ host'.op = host.op /\ host'.at # "commit" => NoCommit'
           /\ host'.op # host.op /\ host'.at # "commit" => NoCommit'
           /\ NoBegin \/ host'.at \in {"begin", "begin_status", "begin2"} => OwnOrder' /\ OwnAhead'
           /\ (Active => dev.op = host'.op) \/ host'.at \in {"begin", "begin_status", "begin2"} => OwnQueue'
<1>n. /\ Len(h2d) \in Nat /\ Len(h2d') \in Nat /\ Len(h2d') >= Len(h2d)
      /\ Len(d2h) \in Nat /\ Len(pend') \in Nat
    BY DEF Shapes, Lengths, Sends
<1>o. host.op \in Nat /\ host'.op \in Nat /\ boot.op \in Nat /\ slot.req.op \in Nat
    BY DEF Shapes, Numbers
<1>d. dev' = dev /\ boot' = boot
    BY DEF Sends, DeviceStays
<1>q. \A i \in 1 .. Len(h2d') :
          \/ i \in 1 .. Len(h2d) /\ h2d'[i].op = h2d[i].op /\ h2d'[i].type = h2d[i].type
          \/ /\ i \in Len(h2d) + 1 .. Len(h2d')
             /\ h2d'[i].op = host'.op /\ Suits(host'.at, h2d'[i].type)
  <2>1. SUFFICES ASSUME NEW i \in 1 .. Len(h2d')
                 PROVE  \/ /\ i \in 1 .. Len(h2d)
                           /\ h2d'[i].op = h2d[i].op /\ h2d'[i].type = h2d[i].type
                        \/ /\ i \in Len(h2d) + 1 .. Len(h2d')
                           /\ h2d'[i].op = host'.op /\ Suits(host'.at, h2d'[i].type)
    OBVIOUS
  <2> QED BY <1>n DEF Sends, GivenUp, Asked
<1>s. /\ slot'.stage = slot.stage /\ slot'.req.op = slot.req.op /\ slot'.req.type = slot.req.type
      /\ slot'.req.id = 0
    BY DEF Sends, SlotGivenUp, GivenUp
<1>1. ~OkAnswer'
  <2>1. \A i \in 1 .. Len(pend') : ~pend'[i].ok
    BY DEF Sends, Waiting
  <2>2. \A i \in 1 .. Len(d2h') : d2h'[i].id = 0
    BY DEF Sends, AnswersGivenUp
  <2> QED BY <1>s, <2>1, <2>2 DEF OkAnswer, SlotAnswers
<1>2. NoBegin /\ host'.at \notin {"begin", "begin2"} => NoBegin'
    BY <1>q, <1>s DEF NoBegin, Live, Suits
<1>3. NoCommit /\ host'.op = host.op /\ host'.at # "commit" => NoCommit'
    BY <1>q, <1>s, <1>d DEF NoCommit, IsCommit, Live, Suits
<1>4. ASSUME host'.op # host.op, host'.at # "commit" PROVE NoCommit'
  <2>1. \A i \in 1 .. Len(h2d) : h2d[i].op \in Nat /\ h2d[i].op <= host.op
    BY DEF Pieces, QueueOps, Shapes, Contents
  <2>2. \A i \in 1 .. Len(h2d) : h2d[i].op # host'.op
    BY <1>o, <1>4, <2>1
  <2>3. Live /\ slot.req.type # "none" => slot.req.op <= host.op
    BY DEF Pieces, SlotOps
  <2>4. boot.op <= host.op
    BY DEF Pieces, BootOps
  <2>5. (Live /\ slot.req.type # "none" => slot.req.op # host'.op) /\ boot.op # host'.op
    BY <1>o, <1>4, <2>3, <2>4
  <2> QED BY <1>4, <1>q, <1>s, <1>d, <2>2, <2>5 DEF NoCommit, IsCommit, Live, Suits
<1>5. ASSUME NoBegin \/ host'.at \in {"begin", "begin_status", "begin2"}
      PROVE  OwnOrder' /\ OwnAhead'
  <2>1. OwnOrder'
    <3>1. SUFFICES ASSUME NEW i \in 1 .. Len(h2d'), NEW j \in 1 .. Len(h2d'),
                          h2d'[i].type = "BEGIN", i < j
                   PROVE  ~Owned(h2d'[j])
      BY DEF OwnOrder, Owned
    <3>2. CASE j \in 1 .. Len(h2d)
      BY <1>n, <1>q, <3>1, <3>2 DEF Pieces, OwnOrder, Owned
    <3>3. CASE j \notin 1 .. Len(h2d)
      <4>1. Suits(host'.at, h2d'[j].type)
        BY <1>q, <3>3
      <4>2. CASE NoBegin /\ i \in 1 .. Len(h2d)
        BY <1>q, <1>n, <3>1, <4>2 DEF NoBegin
      <4>3. CASE i \notin 1 .. Len(h2d) \/ host'.at \in {"begin", "begin_status", "begin2"}
        BY <1>q, <3>1, <4>1, <4>3 DEF Suits, Owned
      <4> QED BY <1>5, <4>2, <4>3
    <3> QED BY <3>2, <3>3
  <2>2. OwnAhead'
    <3>1. SUFFICES ASSUME Live, slot.req.type = "BEGIN", NEW j \in 1 .. Len(h2d')
                   PROVE  ~Owned(h2d'[j])
      BY <1>s DEF OwnAhead, Owned, Live
    <3>2. CASE j \in 1 .. Len(h2d)
      BY <1>n, <1>q, <3>1, <3>2 DEF Pieces, OwnAhead, Owned
    <3>3. CASE j \notin 1 .. Len(h2d)
      BY <1>5, <1>q, <3>1, <3>3 DEF NoBegin, Suits, Owned
    <3> QED BY <3>2, <3>3
  <2> QED BY <2>1, <2>2
<1>6. ASSUME (Active => dev.op = host'.op) \/ host'.at \in {"begin", "begin_status", "begin2"}
      PROVE  OwnQueue'
    BY <1>6, <1>q, <1>d DEF OwnQueue, Owned, Active, Suits, Pieces
<1> QED BY <1>1, <1>2, <1>3, <1>4, <1>5, <1>6

\* What a sending keeps of the answers and of the single request.
LEMMA SendsKeepB ==
    ASSUME Pieces, Shapes, Shapes', Sends
    PROVE  /\ PendRange' /\ AnswersGood' /\ SlotGood' /\ Closed'
           /\ CurrentQueue' /\ CurrentSlot' /\ CurrentAnswers' /\ LastInv' /\ OnceAnswers' /\ OncePend'
           /\ OwnSlot' /\ AskedRan' /\ AskedAnswers' /\ AskedPend' /\ ConfirmInv'
           /\ SelectedAnswers' /\ SelectedPend' /\ SelectedSlot' /\ SelectedDev'
           /\ WrittenInv' /\ BoundaryInv' /\ ImageInv'
<1>k. kind' = kind /\ Parts' = Parts /\ window' = window /\ alive' = alive
    BY DEF Sends, SessionStays, Parts
<1>n. /\ Len(h2d) \in Nat /\ Len(h2d') \in Nat /\ Len(h2d') >= Len(h2d)
      /\ Len(d2h) \in Nat /\ Len(d2h') = Len(d2h)
      /\ Len(pend') \in Nat /\ Len(pend') >= 1 /\ Len(pend') <= window /\ window \in Nat
      /\ Len(h2d') <= Len(h2d) + Len(pend')
    BY DEF Shapes, Lengths, Numbers, Sends, AnswersGivenUp
<1>d. dev' = dev /\ job' = job /\ boot' = boot /\ abandoned' = abandoned
    BY DEF Sends, DeviceStays
<1>h. host'.at # "idle" /\ (host'.at # "data" => Len(pend') = 1)
    BY DEF Sends
<1>q. ASSUME NEW i \in 1 .. Len(h2d')
      PROVE  \/ i \in 1 .. Len(h2d) /\ h2d'[i].id = 0
             \/ /\ i \in Len(h2d) + 1 .. Len(h2d') /\ alive
                /\ h2d'[i].id = i - Len(h2d) /\ h2d'[i].op = host'.op /\ Suits(host'.at, h2d'[i].type)
    BY <1>n, SMTT(40) DEF Sends, GivenUp, Asked
<1>s. /\ slot'.stage = slot.stage /\ slot'.answer = slot.answer /\ GivenUp(slot.req, slot'.req)
      /\ slot'.req.op = slot.req.op /\ slot'.req.type = slot.req.type /\ slot'.req.id = 0
    BY DEF Sends, SlotGivenUp, GivenUp
<1>b. \A i \in 1 .. Len(d2h') : d2h'[i].id = 0 /\ d2h'[i].body = d2h[i].body
    BY <1>n DEF Sends, AnswersGivenUp
<1>p. \A i \in 1 .. Len(pend') : pend'[i].phase = "waiting" /\ pend'[i].op = 0
    BY DEF Sends, Waiting
<1>1. PendRange'
  <2>1. Len(pend') # 0
    BY <1>n
  <2>2. Len(pend') <= window'
    BY <1>k, <1>n
  <2>3. ASSUME host'.at # "data" PROVE Len(pend') <= 1
    <3>1. Len(pend') = 1
      BY <2>3, <1>h
    <3> QED BY <3>1
  <2> QED BY <1>h, <2>1, <2>2, <2>3 DEF PendRange
<1>2. AnswersGood'
    BY <1>b, <1>k, <1>n DEF AnswersGood, GoodBody, Pieces
<1>3. SlotGood'
    BY <1>s, <1>k DEF SlotGood, GoodBody, GoodRequest, GivenUp, Pieces
<1>4. Closed'
  <2>1. alive \/ Len(h2d') = Len(h2d)
    <3>1. SUFFICES ASSUME Len(h2d') # Len(h2d) PROVE alive
      OBVIOUS
    <3>2. Len(h2d') \in 1 .. Len(h2d') /\ ~(Len(h2d') \in 1 .. Len(h2d))
      BY <3>1, <1>n
    <3> QED BY <3>2, <1>q
  <2> QED BY <2>1, <1>k, <1>n, <1>s, <1>d DEF Closed, Pieces
<1>5. CurrentQueue'
  <2>1. ASSUME NEW i \in 1 .. Len(h2d') PROVE (Current(h2d[i]))'
    <3>1. CASE h2d'[i].id = 0
      BY <3>1 DEF Current
    <3>2. CASE h2d'[i].id # 0
      <4>1. /\ i \in Len(h2d) + 1 .. Len(h2d') /\ h2d'[i].id = i - Len(h2d)
            /\ h2d'[i].op = host'.op /\ Suits(host'.at, h2d'[i].type)
        BY <1>q, <3>2
      <4>2. h2d'[i].id <= Len(pend')
        BY <4>1, <1>n
      <4> QED BY <4>1, <4>2, <1>k DEF Current, Suits
    <3> QED BY <3>1, <3>2
  <2> QED BY <2>1 DEF CurrentQueue
<1>6. CurrentSlot' /\ CurrentAnswers'
    BY <1>s, <1>b, <1>n DEF CurrentSlot, CurrentAnswers, Current
<1>7. LastInv' /\ OnceAnswers' /\ OncePend'
  <2>1. ASSUME host'.at # "data", NEW i \in 1 .. Len(h2d'), h2d'[i].id # 0 PROVE i = Len(h2d')
    <3>1. i \in Len(h2d) + 1 .. Len(h2d')
      BY <1>q, <2>1
    <3>2. Len(h2d') <= Len(h2d) + 1
      BY <1>h, <1>n, <2>1
    <3> QED BY <3>1, <3>2, <1>n
  <2>2. LastInv'
    BY <2>1, <1>s DEF LastInv
  <2>3. OnceAnswers' /\ OncePend'
    BY <1>b, <1>p DEF OnceAnswers, OncePend
  <2> QED BY <2>2, <2>3
<1>8. OwnSlot' /\ AskedRan' /\ BoundaryInv'
    BY <1>s, <1>d, <1>k DEF OwnSlot, AskedRan, SlotAnswers, BoundaryInv, Live, Active, Owned,
       Pieces
<1>9. AskedAnswers' /\ AskedPend' /\ ConfirmInv'
    BY <1>s, <1>b, <1>p DEF AskedAnswers, AskedPend, ConfirmInv
<1>10. SelectedAnswers' /\ SelectedPend' /\ SelectedSlot' /\ SelectedDev'
    BY <1>s, <1>b, <1>p, <1>d, <1>n
    DEF SelectedAnswers, SelectedPend, SelectedSlot, SelectedDev, Selected, Pieces
<1>11. WrittenInv' /\ ImageInv'
    BY <1>d, <1>k DEF WrittenInv, ImageInv, Image, Active, Pieces
<1> QED BY <1>1, <1>2, <1>3, <1>4, <1>5, <1>6, <1>7, <1>8, <1>9, <1>10, <1>11

\* A sending keeps the invariant when it fits the place of the call.
LEMMA SendsKeep ==
    ASSUME Pieces, Shapes, Shapes', Sends, host.op <= host'.op,
           HostRange', ResultRange', OwnQueue', OwnOrder', OwnAhead', BegunInv', OursInv',
           JobInv',
           CommitInv', AskedQueue', AskedSlot', SelectedResult', FreedInv'
    PROVE  Pieces'
BY SendsKeepA, SendsKeepB, Zenon DEF Pieces

\* A call starts: nothing on its way is of the new operation.
LEMMA AskBeginKeeps ==
    ASSUME Pieces, Shapes, Shapes', AskBegin
    PROVE  Pieces'
<1>1. /\ Sends /\ host.at = "idle" /\ host.op < MaxOps /\ host'.at = "begin"
      /\ host'.op = host.op + 1 /\ result'.op = 0 /\ result'.how = "none" /\ result'.freed = FALSE
    BY DEF AskBegin
<1>2. host.op \in Nat /\ MaxOps \in Nat
    BY DEF Shapes, Numbers
<1>3. host.op <= host'.op /\ host'.op # host.op /\ host'.op <= MaxOps /\ host'.op >= 1
    BY <1>1, <1>2
<1>4. ~OkAnswer' /\ NoCommit' /\ OwnOrder' /\ OwnAhead' /\ OwnQueue'
    BY <1>1, <1>3, SendsShow
<1>5. HostRange'
  <2>1. kind' = kind /\ Parts' = Parts /\ window' = window /\ host'.comp < Parts /\ host'.offset <= Chunks
    BY <1>1 DEF Sends, SessionStays, Parts
  <2> QED BY <1>1, <1>3, <2>1 DEF HostRange, Pieces
<1>6. ResultRange' /\ SelectedResult' /\ AskedQueue' /\ AskedSlot'
    BY <1>1 DEF ResultRange, SelectedResult, AskedQueue, AskedSlot
<1>7. BegunInv' /\ OursInv' /\ JobInv' /\ CommitInv' /\ FreedInv'
    BY <1>1, <1>4 DEF BegunInv, OursInv, JobInv, HasBegun, CommitInv, FreedInv
<1> QED BY <1>1, <1>3, <1>4, <1>5, <1>6, <1>7, SendsKeep

\* A BEGIN without an answer is asked about, and repeated.
LEMMA AskAgainKeeps ==
    ASSUME Pieces, Shapes, Shapes', AskAgain
    PROVE  Pieces'
<1>1. /\ Sends /\ kind = "system" /\ host.at \in {"begin", "begin_status"}
      /\ host'.at \in {"begin_status", "begin2"} /\ host'.op = host.op /\ result' = result
    BY DEF AskAgain, Continues
<1>2. host.op \in Nat
    BY DEF Shapes, Numbers
<1>3. host.op <= host'.op
    BY <1>1, <1>2
<1>4. NoCommit
    BY <1>1 DEF Pieces, CommitInv
<1>5. ~OkAnswer' /\ NoCommit' /\ OwnOrder' /\ OwnAhead' /\ OwnQueue'
    BY <1>1, <1>3, <1>4, SendsShow
<1>6. HostRange'
  <2>1. kind' = kind /\ Parts' = Parts /\ window' = window /\ host'.comp < Parts /\ host'.offset <= Chunks
    BY <1>1 DEF Sends, SessionStays, Parts
  <2> QED BY <1>1, <2>1 DEF HostRange, Pieces
<1>7. result.how = "none" /\ ~result.freed
    BY <1>1 DEF ResultRange, Pieces
<1>8. ResultRange' /\ SelectedResult' /\ AskedQueue' /\ AskedSlot'
    BY <1>1, <1>7 DEF ResultRange, SelectedResult, AskedQueue, AskedSlot
<1>9. BegunInv' /\ OursInv' /\ JobInv' /\ CommitInv' /\ FreedInv'
    BY <1>1, <1>5, <1>7 DEF BegunInv, OursInv, JobInv, HasBegun, CommitInv, FreedInv
<1> QED BY <1>1, <1>3, <1>5, <1>6, <1>8, <1>9, SendsKeep

\* A call that has begun goes on: the update on the device is its own.
LEMMA AskLaterKeeps ==
    ASSUME Pieces, Shapes, Shapes', Sends, Continues, HasBegun, host.at # "idle", HostRange',
           host'.at \notin {"begin", "begin2", "begin_status"},
           CommitInv', AskedQueue', AskedSlot'
    PROVE  Pieces'
<1>1. host'.op = host.op /\ result' = result /\ host'.at # "idle"
    BY DEF Continues, Sends
<1>2. host.op <= host'.op
  <2>1. host.op \in Nat
    BY DEF Shapes, Numbers
  <2> QED BY <1>1, <2>1
<1>3. NoBegin /\ (Active => dev.op = host.op) /\ (alive => job.op = host.op)
    BY DEF Pieces, BegunInv, OursInv, JobInv
<1>4. ~OkAnswer' /\ NoBegin' /\ OwnOrder' /\ OwnAhead' /\ OwnQueue'
    BY <1>1, <1>2, <1>3, SendsShow
<1>5. result.how = "none" /\ ~result.freed
    BY DEF ResultRange, Pieces
<1>6. ResultRange' /\ SelectedResult'
    BY <1>1, <1>5 DEF ResultRange, SelectedResult
<1>7. dev' = dev /\ job' = job /\ alive' = alive
    BY DEF Sends, DeviceStays, SessionStays
<1>8. BegunInv' /\ OursInv' /\ JobInv' /\ FreedInv'
    BY <1>1, <1>3, <1>4, <1>5, <1>7 DEF BegunInv, OursInv, JobInv, Active, FreedInv
<1> QED BY <1>2, <1>4, <1>6, <1>8, SendsKeep

\* The range of the place of the caller.
LEMMA PlaceKeeps ==
    ASSUME Pieces, Sends, Continues, host.at # "idle",
           host'.at \in {"begin_status", "begin2", "open", "close"} => kind = "system",
           host'.at = "cancel" => host'.error # "none"
    PROVE  HostRange'
<1>1. kind' = kind /\ Parts' = Parts /\ window' = window /\ host'.comp < Parts /\ host'.offset <= Chunks
    BY DEF Sends, SessionStays, Parts
<1> QED BY <1>1 DEF HostRange, Continues, Pieces

\* The first request after the BEGIN.
LEMMA AskFirstKeeps ==
    ASSUME Pieces, Shapes, Shapes', AskFirst
    PROVE  Pieces'
<1>1. /\ Sends /\ Continues /\ host.at \in {"begin", "begin2"} /\ pend[Len(pend)].ok
      /\ host'.at \in {"open", "data"} /\ (host'.at = "open" => kind = "system")
    BY DEF AskFirst
<1>2. HasBegun
  <2>1. Len(pend) \in Nat /\ Len(pend) # 0
    BY <1>1 DEF Shapes, Lengths, Pieces, PendRange
  <2>2. Len(pend) \in 1 .. Len(pend)
    BY <2>1
  <2> QED BY <1>1, <2>2 DEF HasBegun, OkAnswer
<1>3. HostRange'
    BY <1>1, PlaceKeeps DEF AskFirst
<1>4. NoCommit
    BY <1>1 DEF Pieces, CommitInv
<1>5. host.op <= host'.op /\ host'.op = host.op
  <2>1. host.op \in Nat
    BY DEF Shapes, Numbers
  <2> QED BY <1>1, <2>1 DEF Continues
<1>6. NoCommit'
    BY <1>1, <1>4, <1>5, SendsShow
<1>7. CommitInv' /\ AskedQueue' /\ AskedSlot'
    BY <1>1, <1>6 DEF CommitInv, AskedQueue, AskedSlot
<1> QED BY <1>1, <1>2, <1>3, <1>7, AskLaterKeeps

\* The next request of the transfer.
LEMMA AskNextKeeps ==
    ASSUME Pieces, Shapes, Shapes', AskNext
    PROVE  Pieces'
<1>1. /\ Sends /\ Continues /\ host.at \in {"open", "data", "data_status", "close"}
      /\ host'.at \in {"data", "commit", "data_status", "open", "close", "cancel"}
    BY DEF AskNext
<1>2. HasBegun
    BY <1>1 DEF HasBegun
<1>3. HostRange'
    BY <1>1, PlaceKeeps DEF AskNext
<1>4. NoCommit
    BY <1>1 DEF Pieces, CommitInv
<1>5. host.op <= host'.op /\ host'.op = host.op
  <2>1. host.op \in Nat
    BY DEF Shapes, Numbers
  <2> QED BY <1>1, <2>1 DEF Continues
<1>6. CommitInv'
  <2>1. host'.at # "commit" => NoCommit'
    BY <1>1, <1>4, <1>5, SendsShow
  <2> QED BY <1>1, <2>1 DEF CommitInv
<1>7. AskedQueue'
  <2>1. SUFFICES ASSUME NEW i \in 1 .. Len(h2d'), (IsCommit(h2d[i]))'
                 PROVE  h2d'[i].id # 0 /\ boot'.op # host'.op
    BY DEF AskedQueue, IsCommit
  <2>2. Len(h2d) \in Nat /\ Len(h2d') \in Nat /\ boot' = boot
    BY DEF Shapes, Lengths, Sends, AskNext, DeviceStays
  <2>3. CASE i \in 1 .. Len(h2d)
    BY <1>1, <1>4, <1>5, <2>1, <2>3 DEF Sends, GivenUp, NoCommit, IsCommit
  <2>4. CASE i \in Len(h2d) + 1 .. Len(h2d')
    <3>1. h2d'[i].id = i - Len(h2d)
      BY <1>1, <2>4 DEF Sends, Asked
    <3> QED BY <1>4, <1>5, <2>2, <2>4, <3>1 DEF NoCommit
  <2> QED BY <2>2, <2>3, <2>4
<1>8. AskedSlot'
    BY <1>1, <1>4, <1>5 DEF AskedSlot, NoCommit, IsCommit, Live, Sends, SlotGivenUp, GivenUp
<1> QED BY <1>1, <1>2, <1>3, <1>6, <1>7, <1>8, AskLaterKeeps

\* The end without an answer is asked about; without a confirmation it is cancelled.
LEMMA AskConfirmKeeps ==
    ASSUME Pieces, Shapes, Shapes', AskConfirm
    PROVE  Pieces'
<1>1. /\ Sends /\ Continues /\ host.at \in {"commit", "confirm"} /\ host'.at \in {"confirm", "cancel"}
      /\ host'.at = "cancel" => host'.error = "unknown"
    BY DEF AskConfirm
<1>2. HasBegun
    BY <1>1 DEF HasBegun
<1>3. HostRange'
    BY <1>1, PlaceKeeps
<1>4. CommitInv' /\ AskedQueue' /\ AskedSlot'
    BY <1>1 DEF CommitInv, AskedQueue, AskedSlot
<1> QED BY <1>1, <1>2, <1>3, <1>4, AskLaterKeeps

\* A refused COMMIT is cancelled: it was not done and is not on its way.
LEMMA AskCancelKeeps ==
    ASSUME Pieces, Shapes, Shapes', AskCancel
    PROVE  Pieces'
<1>1. /\ Sends /\ Continues /\ host.at \in {"commit", "confirm"} /\ host'.at = "cancel"
      /\ host'.error = "failed"
    BY DEF AskCancel
<1>2. PICK i \in 1 .. Len(pend) : pend[i].phase = "error"
    BY DEF AskCancel
<1>3. HasBegun
    BY <1>1 DEF HasBegun
<1>4. HostRange'
    BY <1>1, PlaceKeeps
<1>5. NoCommit
    BY <1>1, <1>2 DEF Pieces, AskedPend, CommitOk, ConfirmInv
<1>6. host.op <= host'.op /\ host'.op = host.op
  <2>1. host.op \in Nat
    BY DEF Shapes, Numbers
  <2> QED BY <1>1, <2>1 DEF Continues
<1>7. NoCommit'
    BY <1>1, <1>5, <1>6, SendsShow
<1>8. CommitInv' /\ AskedQueue' /\ AskedSlot'
    BY <1>1, <1>7 DEF CommitInv, AskedQueue, AskedSlot
<1> QED BY <1>1, <1>3, <1>4, <1>8, AskLaterKeeps

\* The end of a call keeps the invariant when what it reports is right.
LEMMA EndsKeep ==
    ASSUME Pieces, Shapes, Shapes', host \in HostSet, NEW how \in Hows, NEW freed \in BOOLEAN,
           Ends(how, freed), host.at # "idle",
           how = "failed" => NoCommit,
           how \in {"answer", "status"} => boot.op = host.op,
           freed => HasBegun /\ (Active => cancel /\ slot.stage \in {"queued", "boundary", "ran"})
    PROVE  Pieces'
<1>k. kind' = kind /\ Parts' = Parts /\ window' = window /\ alive' = alive
    BY DEF Ends, SessionStays, Parts
<1>d. dev' = dev /\ job' = job /\ boot' = boot /\ abandoned' = abandoned /\ cancel' = cancel
    BY DEF Ends, DeviceStays
<1>n. /\ Len(h2d) \in Nat /\ Len(h2d') = Len(h2d) /\ Len(d2h) \in Nat /\ Len(d2h') = Len(d2h)
      /\ Len(pend') = 0 /\ host.op \in Nat /\ window \in Nat
    BY DEF Shapes, Lengths, Numbers, Ends, AnswersGivenUp
<1>h. /\ host'.at = "idle" /\ host'.op = host.op /\ host'.comp = host.comp
      /\ host'.offset = host.offset
  <2>1. host' = [host EXCEPT !.at = "idle"]
    BY DEF Ends
  <2> QED BY <2>1 DEF HostSet
<1>r. result'.op = host.op /\ result'.how = how /\ result'.freed = freed
    BY DEF Ends
<1>q. \A i \in 1 .. Len(h2d') : GivenUp(h2d[i], h2d'[i])
    BY <1>n DEF Ends
<1>b. \A i \in 1 .. Len(d2h') : d2h'[i].id = 0 /\ d2h'[i].body = d2h[i].body
    BY <1>n DEF Ends, AnswersGivenUp
<1>s. slot'.stage = slot.stage /\ slot'.answer = slot.answer /\ GivenUp(slot.req, slot'.req)
    BY DEF Ends, SlotGivenUp
<1>p. \A i \in 1 .. Len(pend') : FALSE
    BY <1>n
<1>1. HostRange' /\ ResultRange'
    BY <1>h, <1>r, <1>k DEF HostRange, ResultRange, Pieces
<1>2. PendRange' /\ PendGood'
  <2>1. Len(pend') <= window /\ Len(pend') <= 1
    BY <1>n
  <2> QED BY <1>h, <1>k, <1>n, <1>p, <2>1 DEF PendRange, PendGood
<1>3. RequestsGood' /\ SlotGood'
    BY <1>q, <1>s, <1>k, <1>n DEF RequestsGood, SlotGood, GoodRequest, GoodBody, GivenUp, Pieces
<1>4. AnswersGood'
    BY <1>b, <1>k, <1>n DEF AnswersGood, GoodBody, Pieces
<1>5. Closed'
    BY <1>k, <1>n, <1>s, <1>d DEF Closed, GivenUp, Pieces
<1>6. DevInv'
    BY <1>d, <1>k, <1>h DEF DevInv, Active, Pieces
<1>7. CurrentQueue' /\ CurrentSlot' /\ CurrentAnswers'
    BY <1>q, <1>s, <1>b, <1>n DEF CurrentQueue, CurrentSlot, CurrentAnswers, Current, GivenUp
<1>8. LastInv' /\ OnceAnswers' /\ OncePend'
    BY <1>q, <1>s, <1>b, <1>p DEF LastInv, OnceAnswers, OncePend, GivenUp
<1>9. QueueOrder' /\ QueueOps' /\ SlotAhead' /\ DevAhead' /\ SlotOps' /\ BootOps'
    BY <1>q, <1>s, <1>d, <1>h, <1>n
    DEF QueueOrder, QueueOps, SlotAhead, DevAhead, SlotOps, BootOps, GivenUp, Live, Active, Pieces
<1>10. OwnQueue' /\ OwnSlot' /\ OwnOrder' /\ OwnAhead'
    BY <1>q, <1>s, <1>d, <1>n
    DEF OwnQueue, OwnSlot, OwnOrder, OwnAhead, GivenUp, Live, Active, Owned, Pieces
<1>11. AskedQueue' /\ AskedSlot' /\ AskedRan' /\ AskedAnswers' /\ AskedPend' /\ ConfirmInv' /\ JobInv'
    BY <1>h DEF AskedQueue, AskedSlot, AskedRan, AskedAnswers, AskedPend, ConfirmInv, JobInv,
       HasBegun
<1>12. SelectedAnswers' /\ SelectedPend' /\ SelectedSlot' /\ SelectedDev' /\ SelectedResult'
    BY <1>s, <1>b, <1>p, <1>d, <1>n, <1>r
    DEF SelectedAnswers, SelectedPend, SelectedSlot, SelectedDev, SelectedResult, Selected, Pieces
<1>13. WrittenInv' /\ BoundaryInv' /\ ImageInv'
    BY <1>d, <1>k, <1>s DEF WrittenInv, BoundaryInv, ImageInv, Image, Active, GivenUp, Pieces
<1>14. BegunInv' /\ OursInv'
  <2>1. ~HasBegun'
    BY <1>h DEF HasBegun
  <2>2. freed => NoBegin /\ (Active => dev.op = host.op)
    BY DEF Pieces, BegunInv, OursInv
  <2>3. NoBegin => NoBegin'
    BY <1>q, <1>s, <1>n DEF NoBegin, GivenUp, Live
  <2> QED BY <2>1, <2>2, <2>3, <1>r, <1>d, <1>h DEF BegunInv, OursInv, Active
<1>15. CommitInv'
  <2>1. NoCommit => NoCommit'
    BY <1>q, <1>s, <1>n, <1>d, <1>h DEF NoCommit, IsCommit, GivenUp, Live
  <2> QED BY <2>1, <1>h, <1>r DEF CommitInv
<1>16. FreedInv'
    BY <1>h, <1>r, <1>d, <1>s DEF FreedInv, Active
<1> QED BY <1>1, <1>2, <1>3, <1>4, <1>5, <1>6, <1>7, <1>8, <1>9, <1>10, <1>11, <1>12, <1>13,
       <1>14, <1>15, <1>16, Zenon DEF Pieces

\* A call that ends before its BEGIN is answered.
LEMMA EndEarlyKeeps ==
    ASSUME Typed, Pieces, Shapes, Shapes', EndEarly
    PROVE  Pieces'
<1>1. PICK how \in {"failed", "unknown"} : Ends(how, FALSE)
    BY DEF EndEarly
<1>2. host.at \in {"begin", "begin2", "begin_status"} /\ host \in HostSet /\ how \in Hows
    BY DEF EndEarly, Typed, HostTyped, Hows
<1>3. NoCommit
    BY <1>2 DEF Pieces, CommitInv
<1> QED BY <1>1, <1>2, <1>3, EndsKeep

\* What is told of an operation that is not younger than the selected one.
LEMMA SelectedIs ==
    ASSUME Pieces, Shapes, NEW i \in 1 .. Len(pend), pend[i].op = host.op,
           pend[i].phase \in {"committed", "succeeded"}
    PROVE  boot.op = host.op
<1>1. host.op <= boot.op /\ boot.op <= host.op
    BY DEF Pieces, SelectedPend, Selected, BootOps
<1>2. host.op \in Nat /\ boot.op \in Nat
    BY DEF Shapes, Numbers
<1> QED BY <1>1, <1>2

\* The answer of the COMMIT tells what it did.
LEMMA EndAnsweredKeeps ==
    ASSUME Typed, Pieces, Shapes, Shapes', EndAnswered
    PROVE  Pieces'
<1> DEFINE n == Len(pend)
           how == IF pend[n].phase = "committed" THEN "answer" ELSE "failed"
<1>1. host.at = "commit" /\ n >= 1 /\ pend[n].ok /\ Ends(how, FALSE)
    BY DEF EndAnswered
<1>2. n \in Nat
    BY DEF Shapes, Lengths
<1>3. n \in 1 .. Len(pend)
    BY <1>1, <1>2
<1>4. pend[n].phase # "waiting"
    BY <1>1, <1>3 DEF Pieces, PendGood, GoodBody
<1>5. CommitOk(pend[n])
    BY <1>1, <1>3, <1>4 DEF Pieces, AskedPend
<1> HIDE DEF n
<1>6. how = "failed" => NoCommit
    BY <1>5 DEF CommitOk
<1>7. how \in {"answer", "status"} => boot.op = host.op
    BY <1>3, <1>5, SelectedIs DEF CommitOk
<1>8. how \in Hows /\ host \in HostSet /\ host.at # "idle"
    BY <1>1 DEF Hows, Typed, HostTyped
<1> HIDE DEF how
<1> QED BY <1>1, <1>6, <1>7, <1>8, EndsKeep

\* The job or the status confirms the end.
LEMMA EndConfirmedKeeps ==
    ASSUME Typed, Pieces, Shapes, Shapes', EndConfirmed
    PROVE  Pieces'
<1>1. host.at = "confirm" /\ Len(pend) >= 1 /\ Confirms(pend[Len(pend)]) /\ Ends("status", FALSE)
    BY DEF EndConfirmed
<1>2. Len(pend) \in Nat
    BY DEF Shapes, Lengths
<1>3. Len(pend) \in 1 .. Len(pend)
    BY <1>1, <1>2
<1>4. boot.op = host.op
    BY <1>1, <1>3, SelectedIs DEF Confirms
<1>5. "status" \in Hows /\ host \in HostSet
    BY DEF Hows, Typed, HostTyped
<1> QED BY <1>1, <1>4, <1>5, EndsKeep

\* The CANCEL is acknowledged or not.
LEMMA EndCancelledKeeps ==
    ASSUME Typed, Pieces, Shapes, Shapes', EndCancelled
    PROVE  Pieces'
<1>1. PICK freed \in BOOLEAN :
          Ends(host.error, freed) /\ (freed => pend[Len(pend)].ok /\ Len(pend) >= 1)
    BY DEF EndCancelled
<1>2. host.at = "cancel" /\ host \in HostSet /\ host.error \in {"none", "failed", "unknown"}
    BY DEF EndCancelled, Typed, HostTyped, HostSet
<1>3. host.error \in Hows /\ host.error \notin {"answer", "status"}
    BY <1>2 DEF Hows
<1>4. host.error = "failed" => NoCommit
    BY <1>2 DEF Pieces, CommitInv
<1>5. ASSUME freed
      PROVE  HasBegun /\ (Active => cancel /\ slot.stage \in {"queued", "boundary", "ran"})
  <2>1. Len(pend) \in Nat
    BY DEF Shapes, Lengths
  <2>2. Len(pend) \in 1 .. Len(pend) /\ pend[Len(pend)].ok
    BY <1>1, <1>5, <2>1
  <2>3. OkAnswer
    BY <2>2 DEF OkAnswer
  <2> QED BY <1>2, <2>3 DEF HasBegun, FreedInv, Pieces
<1> QED BY <1>1, <1>2, <1>3, <1>4, <1>5, EndsKeep

\* The session is closed.
LEMMA EndBrokenKeeps ==
    ASSUME Typed, Pieces, Shapes, Shapes', EndBroken
    PROVE  Pieces'
<1>1. PICK how \in {"unknown", "session_close", "failed"} :
          Ends(how, FALSE) /\ (how = "failed" => host.at \in {"data", "data_status"})
    BY DEF EndBroken
<1>2. host.at # "idle" /\ host \in HostSet /\ how \in Hows
    BY DEF EndBroken, Typed, HostTyped, Hows
<1>3. how = "failed" => NoCommit
    BY <1>1 DEF Pieces, CommitInv
<1> QED BY <1>1, <1>2, <1>3, EndsKeep

\* p holds elements of q only, in their order.
Fewer(q, p) ==
    /\ \A i \in 1 .. Len(p) :
           \E a \in 1 .. Len(q) : p[i] = q[a] /\ (a = Len(q) => i = Len(p))
    /\ \A i, j \in 1 .. Len(p) :
           i < j => \E a, b \in 1 .. Len(q) : a < b /\ p[i] = q[a] /\ p[j] = q[b]

\* A queue whose head was taken has fewer entries, in the same order (Drain, receive).
LEMMA ShorterFewer ==
    ASSUME NEW q, NEW p, Len(q) \in Nat, Len(p) \in Nat, Shorter(q, p)
    PROVE  Fewer(q, p)
<1>1. \A i \in 1 .. Len(p) : /\ i + 1 \in 1 .. Len(q) /\ p[i] = q[i + 1]
                             /\ i + 1 = Len(q) => i = Len(p)
    BY DEF Shorter
<1>2. \A i, j \in 1 .. Len(p) : i < j => i + 1 < j + 1
    OBVIOUS
<1> QED BY <1>1, <1>2 DEF Fewer

\* A queue from which the link lost one frame has fewer entries, in the same order (Lose).
LEMMA LacksFewer ==
    ASSUME NEW q, NEW p, Len(q) \in Nat, Len(p) \in Nat, Lacks(q, p)
    PROVE  Fewer(q, p)
<1>1. PICK k \in 1 .. Len(q) :
          /\ Len(p) = Len(q) - 1
          /\ \A i \in 1 .. Len(p) : p[i] = IF i < k THEN q[i] ELSE q[i + 1]
    BY DEF Lacks
<1> DEFINE s(i) == IF i < k THEN i ELSE i + 1
<1>2. \A i \in 1 .. Len(p) : s(i) \in 1 .. Len(q) /\ (s(i) = Len(q) => i = Len(p))
    BY <1>1
<1>3. \A i \in 1 .. Len(p) : p[i] = q[s(i)]
    BY <1>1
<1>4. \A i, j \in 1 .. Len(p) : i < j => s(i) < s(j)
    OBVIOUS
<1> HIDE DEF s
<1> QED BY <1>2, <1>3, <1>4 DEF Fewer

\* What the queue keeps when it loses requests.
LEMMA FewerQueue ==
    ASSUME Pieces, Shapes, Shapes', Fewer(h2d, h2d'),
           kind' = kind, host' = host, Len(pend') = Len(pend), dev' = dev, boot' = boot
    PROVE  /\ RequestsGood' /\ CurrentQueue' /\ QueueOrder' /\ QueueOps' /\ DevAhead'
           /\ OwnQueue' /\ OwnOrder' /\ AskedQueue'
<1>k. Parts' = Parts
    BY DEF Parts
<1>q. \A i \in 1 .. Len(h2d') : \E a \in 1 .. Len(h2d) : h2d'[i] = h2d[a]
    BY DEF Fewer
<1>o. \A i, j \in 1 .. Len(h2d') :
          i < j => \E a, b \in 1 .. Len(h2d) : a < b /\ h2d'[i] = h2d[a] /\ h2d'[j] = h2d[b]
    BY DEF Fewer
<1>1. RequestsGood'
    BY <1>q, <1>k DEF RequestsGood, GoodRequest, Pieces
<1>2. CurrentQueue'
    BY <1>q DEF CurrentQueue, Current, Suits, Pieces
<1>3. QueueOrder'
    BY <1>o DEF QueueOrder, Pieces
<1>4. QueueOps'
    BY <1>q DEF QueueOps, Pieces
<1>5. DevAhead'
    BY <1>q DEF DevAhead, Active, Pieces
<1>6. OwnQueue'
    BY <1>q DEF OwnQueue, Active, Owned, Pieces
<1>7. OwnOrder'
  <2>1. SUFFICES ASSUME NEW i \in 1 .. Len(h2d'), NEW j \in 1 .. Len(h2d'),
                        h2d'[i].type = "BEGIN", i < j
                 PROVE  ~Owned(h2d'[j])
    BY DEF OwnOrder, Owned
  <2>2. PICK a \in 1 .. Len(h2d), b \in 1 .. Len(h2d) :
            a < b /\ h2d'[i] = h2d[a] /\ h2d'[j] = h2d[b]
    BY <1>o, <2>1
  <2> QED BY <2>1, <2>2 DEF OwnOrder, Pieces
<1>8. AskedQueue'
    BY <1>q DEF AskedQueue, IsCommit, Pieces
<1> QED BY <1>1, <1>2, <1>3, <1>4, <1>5, <1>6, <1>7, <1>8

\* And what is known of the queue and the slot together.
LEMMA FewerSlot ==
    ASSUME Pieces, Shapes, Shapes', Fewer(h2d, h2d'), host' = host, slot' = slot, boot' = boot
    PROVE  /\ LastInv' /\ SlotAhead' /\ OwnAhead'
           /\ (NoneAsked => NoneAsked') /\ (NoBegin => NoBegin') /\ (NoCommit => NoCommit')
           /\ \A b : CommitOk(b) => (CommitOk(b))'
<1>n. Len(h2d) \in Nat /\ Len(h2d') \in Nat
    BY DEF Shapes, Lengths
<1>q. \A i \in 1 .. Len(h2d') :
          \E a \in 1 .. Len(h2d) : h2d'[i] = h2d[a] /\ (a = Len(h2d) => i = Len(h2d'))
    BY DEF Fewer
<1>1. LastInv'
  <2>1. ASSUME Len(h2d) = 0 PROVE Len(h2d') = 0
    <3>1. \A i \in 1 .. Len(h2d') : FALSE
      BY <1>q, <2>1
    <3>2. Len(h2d') # 0 => 1 \in 1 .. Len(h2d')
      BY <1>n
    <3> QED BY <3>1, <3>2
  <2> QED BY <1>q, <2>1 DEF LastInv, Pieces
<1>2. SlotAhead' /\ OwnAhead'
    BY <1>q DEF SlotAhead, OwnAhead, Live, Owned, Pieces
<1>3. (NoneAsked => NoneAsked') /\ (NoBegin => NoBegin')
    BY <1>q DEF NoneAsked, NoBegin, Live
<1>4. NoCommit => NoCommit'
    BY <1>q DEF NoCommit, IsCommit, Live
<1>5. \A b : CommitOk(b) => (CommitOk(b))'
    BY <1>4 DEF CommitOk
<1> QED BY <1>1, <1>2, <1>3, <1>4, <1>5

\* The protocol task answers: the request leaves the queue as its answer joins the others.
LEMMA RepliesKeep ==
    ASSUME Pieces, Shapes, Shapes', NEW body \in BodySet, Replies(body),
           GoodBody(body), body.phase # "waiting", Selected(body.op, body.phase),
           cancel => cancel',
           body.ok => h2d[1].type \in {"JOB", "STATUS", "CANCEL"},
           ~body.ok => h2d[1].type # "STATUS" /\ (h2d[1].type = "JOB" => job.op # h2d[1].op),
           body.phase = "error" <=> ~body.ok,
           body.ok /\ h2d[1].type = "CANCEL" => cancel' /\ slot.stage \in {"queued", "boundary", "ran"}
    PROVE  Pieces'
<1>k. /\ kind' = kind /\ Parts' = Parts /\ window' = window /\ alive' = alive
      /\ host' = host /\ pend' = pend /\ result' = result
    BY DEF Replies, SessionStays, HostStays, Parts
<1>d. dev' = dev /\ job' = job /\ boot' = boot /\ abandoned' = abandoned /\ slot' = slot
    BY DEF Replies
<1>n. /\ Len(h2d) \in Nat /\ Len(h2d') \in Nat /\ Len(h2d) >= 1 /\ Len(h2d') = Len(h2d) - 1
      /\ Len(d2h) \in Nat /\ Len(d2h') = Len(d2h) + 1 /\ Len(pend) \in Nat
    BY DEF Shapes, Lengths, Replies, Shorter, Longer
<1>e. 1 \in 1 .. Len(h2d) /\ h2d[1].id \in Nat
    BY <1>n DEF Shapes, Contents
<1>q. Fewer(h2d, h2d')
    BY <1>n, ShorterFewer DEF Replies
<1>b. \A i \in 1 .. Len(d2h') : \/ i \in 1 .. Len(d2h) /\ d2h'[i] = d2h[i]
                                \/ d2h'[i].id = h2d[1].id /\ d2h'[i].body = body
    BY <1>n DEF Replies, Longer
<1>a. alive
    BY <1>n DEF Pieces, Closed
<1>c. h2d[1].id # 0 => /\ h2d[1].id <= Len(pend) /\ h2d[1].op = host.op
                       /\ Suits(host.at, h2d[1].type)
    BY <1>e DEF Pieces, CurrentQueue, Current
<1>l. ASSUME h2d[1].id # 0, host.at # "data" PROVE Len(h2d) = 1 /\ Len(h2d') = 0 /\ slot.req.id = 0
  <2>1. 1 = Len(h2d) /\ slot.req.id = 0
    BY <1>e, <1>l DEF Pieces, LastInv
  <2> QED BY <2>1, <1>n
<1>f. /\ LastInv' /\ SlotAhead' /\ OwnAhead'
      /\ (NoneAsked => NoneAsked') /\ (NoBegin => NoBegin') /\ (NoCommit => NoCommit')
      /\ \A b : CommitOk(b) => (CommitOk(b))'
    BY <1>q, <1>k, <1>d, FewerSlot
<1>1. /\ RequestsGood' /\ CurrentQueue' /\ QueueOrder' /\ QueueOps' /\ DevAhead'
      /\ OwnQueue' /\ OwnOrder' /\ AskedQueue'
    BY <1>q, <1>k, <1>d, FewerQueue
<1>2. HostRange' /\ PendRange' /\ PendGood' /\ ResultRange'
    BY <1>k DEF HostRange, PendRange, PendGood, GoodBody, ResultRange, Pieces
<1>3. SlotGood' /\ DevInv' /\ CurrentSlot' /\ SlotOps' /\ BootOps' /\ OwnSlot' /\ AskedSlot'
    BY <1>k, <1>d DEF SlotGood, GoodRequest, GoodBody, DevInv, Active, CurrentSlot, Current,
       Suits,
       SlotOps, BootOps, OwnSlot, Live, Owned, AskedSlot, IsCommit, Pieces
<1>4. /\ SelectedPend' /\ SelectedSlot' /\ SelectedDev' /\ SelectedResult'
      /\ WrittenInv' /\ BoundaryInv' /\ ImageInv'
    BY <1>k, <1>d DEF SelectedPend, SelectedSlot, SelectedDev, SelectedResult, Selected,
       WrittenInv,
       BoundaryInv, ImageInv, Image, Active, Pieces
<1>5. AnswersGood'
    BY <1>b, <1>k DEF AnswersGood, GoodBody, Pieces
<1>6. Closed'
    BY <1>a, <1>k DEF Closed
<1>7. CurrentAnswers'
  <2>1. h2d[1].id <= Len(pend)
    BY <1>c, <1>e, <1>n
  <2> QED BY <2>1, <1>b, <1>k DEF CurrentAnswers, Pieces
<1>8. OnceAnswers'
  <2>1. SUFFICES ASSUME host.at # "data", NEW i \in 1 .. Len(d2h'), d2h'[i].id # 0
                 PROVE  NoneAsked'
    BY <1>k DEF OnceAnswers
  <2>2. CASE i \in 1 .. Len(d2h) /\ d2h'[i] = d2h[i]
    BY <2>1, <2>2, <1>f DEF OnceAnswers, Pieces
  <2>3. CASE d2h'[i].id = h2d[1].id
    BY <2>1, <2>3, <1>l, <1>d DEF NoneAsked
  <2> QED BY <1>b, <2>2, <2>3
<1>9. OncePend'
    BY <1>k, <1>f DEF OncePend, Pieces
<1>10. ASSUME OkAnswer' PROVE OkAnswer \/ (h2d[1].id # 0 /\ body.ok)
    BY <1>10, <1>b, <1>k, <1>d DEF OkAnswer, SlotAnswers
<1>11. HasBegun' => HasBegun
    BY <1>10, <1>c, <1>k DEF HasBegun, Suits
<1>12. BegunInv' /\ OursInv' /\ JobInv'
    BY <1>11, <1>f, <1>k, <1>d DEF BegunInv, OursInv, JobInv, Active, Pieces
<1>13. CommitInv' /\ AskedRan' /\ AskedPend'
  <2>1. CommitInv'
    BY <1>f, <1>k DEF CommitInv, Pieces
  <2>2. AskedRan'
    BY <1>f, <1>k, <1>d DEF AskedRan, SlotAnswers, Pieces
  <2>3. AskedPend'
    BY <1>f, <1>k, <1>d DEF AskedPend, Pieces
  <2> QED BY <2>1, <2>2, <2>3
<1>14. AskedAnswers'
  <2>1. SUFFICES ASSUME host.at = "commit", NEW i \in 1 .. Len(d2h'), d2h'[i].id # 0
                 PROVE  (CommitOk(d2h[i].body))'
    BY <1>k DEF AskedAnswers
  <2>2. CASE i \in 1 .. Len(d2h) /\ d2h'[i] = d2h[i]
    BY <2>1, <2>2, <1>f DEF AskedAnswers, Pieces
  <2>3. CASE d2h'[i].id = h2d[1].id /\ d2h'[i].body = body
    <3>1. h2d[1].type = "COMMIT" /\ h2d[1].op = host.op
      BY <2>1, <2>3, <1>c DEF Suits
    <3>2. body.phase # "committed"
      BY <3>1
    <3>3. boot.op # host.op
      BY <3>1, <2>1, <1>e DEF Pieces, AskedQueue, IsCommit
    <3>4. Len(h2d) = 1 /\ Len(h2d') = 0 /\ slot.req.id = 0
      BY <2>1, <2>3, <1>l
    <3>5. Live => ~IsCommit(slot.req)
      BY <3>4, <2>1, <1>a DEF Pieces, AskedSlot
    <3>6. NoCommit'
      BY <3>3, <3>4, <3>5, <1>k, <1>d DEF NoCommit, IsCommit, Live
    <3> QED BY <3>2, <3>6, <2>3 DEF CommitOk
  <2> QED BY <1>b, <2>2, <2>3
<1>15. ConfirmInv'
  <2>1. SUFFICES ASSUME host.at = "confirm", NEW i \in 1 .. Len(d2h'), d2h'[i].id # 0
                 PROVE  d2h'[i].body.phase # "error"
    BY <1>k, <1>d DEF ConfirmInv, Pieces
  <2>2. CASE i \in 1 .. Len(d2h) /\ d2h'[i] = d2h[i]
    BY <2>1, <2>2 DEF ConfirmInv, Pieces
  <2>3. CASE d2h'[i].id = h2d[1].id /\ d2h'[i].body = body
    <3>1. h2d[1].type \in {"JOB", "STATUS"} /\ h2d[1].op = host.op
      BY <2>1, <2>3, <1>c DEF Suits
    <3>2. job.op = host.op
      BY <2>1, <1>a DEF Pieces, JobInv, HasBegun
    <3> QED BY <3>1, <3>2, <2>3
  <2> QED BY <1>b, <2>2, <2>3
<1>16. SelectedAnswers'
    BY <1>b, <1>d DEF SelectedAnswers, Selected, Pieces
<1>17. FreedInv'
    BY <1>10, <1>c, <1>k, <1>d DEF FreedInv, Active, Suits, Pieces
<1> QED BY <1>f, <1>1, <1>2, <1>3, <1>4, <1>5, <1>6, <1>7, <1>8, <1>9, <1>12, <1>13, <1>14, <1>15,
       <1>16, <1>17, Zenon DEF Pieces

\* A refusal is a good answer, and so is the status of the device.
LEMMA RefusedGood ==
    ASSUME Shapes
    PROVE  GoodBody(Refused) /\ Selected(Refused.op, Refused.phase)
<1>1. Parts \in Nat /\ MaxOps \in Nat /\ Chunks \in Nat
    BY DEF Shapes, Numbers
<1> QED BY <1>1, RefusedIs DEF GoodBody, Selected

\* STATUS answers with the record of the update as it is, which is a good answer.
LEMMA StatusGood ==
    ASSUME Typed, Pieces, Shapes
    PROVE  /\ Body(dev) \in BodySet /\ GoodBody(Body(dev)) /\ Body(dev).ok
           /\ Body(dev).phase \notin {"waiting", "error"} /\ Body(dev).phase = dev.phase
           /\ Selected(Body(dev).op, Body(dev).phase)
<1>1. /\ Body(dev).ok = TRUE /\ Body(dev).op = dev.op /\ Body(dev).phase = dev.phase
      /\ Body(dev).comp = dev.comp /\ Body(dev).received = dev.received
    BY DEF Body
<1>2. dev.phase \in DevPhases
    BY DEF Shapes, Words
<1>3. dev.phase \notin {"waiting", "error"}
    BY <1>2 DEF DevPhases
<1>4. dev.op <= MaxOps
  <2>1. dev.op <= host.op /\ host.op <= MaxOps
    BY DEF Pieces, DevInv, HostRange
  <2>2. dev.op \in Nat /\ host.op \in Nat /\ MaxOps \in Nat
    BY DEF Shapes, Numbers
  <2> QED BY <2>1, <2>2
<1>5. dev.comp <= Parts /\ dev.received <= Chunks /\ Selected(dev.op, dev.phase)
    BY DEF Pieces, DevInv, SelectedDev
<1>6. Body(dev) \in BodySet
    BY BodyTypes
<1> QED BY <1>1, <1>3, <1>4, <1>5, <1>6 DEF GoodBody

\* The job is told from its record, also while the executor works.
LEMMA ReplyJobKeeps ==
    ASSUME Typed, Pieces, Shapes, Shapes', ReplyJob
    PROVE  Pieces'
<1>1. PICK body \in BodySet :
          /\ Replies(body) /\ body.ok /\ body.op = job.op /\ body.phase = job.state
          /\ body.comp = 0 /\ body.received = 0
    BY DEF ReplyJob
<1>2. h2d[1].type = "JOB" /\ cancel' = cancel /\ job.state \in {"none", "running", "failed", "succeeded"}
    BY DEF ReplyJob, Typed, DeviceTyped, JobSet
<1>3. job.op <= MaxOps
  <2>1. job.op <= host.op /\ host.op <= MaxOps
    BY DEF Pieces, DevInv, HostRange
  <2>2. job.op \in Nat /\ host.op \in Nat /\ MaxOps \in Nat
    BY DEF Shapes, Numbers
  <2> QED BY <2>1, <2>2
<1>4. 0 <= Parts /\ 0 <= Chunks
    BY DEF Shapes, Numbers
<1>5. GoodBody(body) /\ body.phase \notin {"waiting", "error"}
    BY <1>1, <1>2, <1>3, <1>4 DEF GoodBody
<1>6. Selected(body.op, body.phase)
    BY <1>1 DEF Pieces, SelectedDev
<1> QED BY <1>1, <1>2, <1>5, <1>6, RepliesKeep

\* The status is told while the executor works.
LEMMA ReplyStatusKeeps ==
    ASSUME Typed, Pieces, Shapes, Shapes', ReplyStatus
    PROVE  Pieces'
<1>1. Replies(Body(dev)) /\ h2d[1].type = "STATUS" /\ cancel' = cancel
    BY DEF ReplyStatus
<1>2. /\ Body(dev) \in BodySet /\ GoodBody(Body(dev)) /\ Body(dev).ok
      /\ Body(dev).phase \notin {"waiting", "error"} /\ Selected(Body(dev).op, Body(dev).phase)
    BY StatusGood
<1> QED BY <1>1, <1>2, RepliesKeep

\* A cancel is acknowledged while the executor works, which will see it.
LEMMA ReplyCancelKeeps ==
    ASSUME Typed, Pieces, Shapes, Shapes', ReplyCancel
    PROVE  Pieces'
<1>1. Replies(Body(dev)) /\ h2d[1].type = "CANCEL" /\ cancel'
    BY DEF ReplyCancel
<1>2. slot.stage \in {"queued", "boundary", "ran"}
    BY DEF ReplyCancel, Shapes, Words, Stages
<1>3. /\ Body(dev) \in BodySet /\ GoodBody(Body(dev)) /\ Body(dev).ok
      /\ Body(dev).phase \notin {"waiting", "error"} /\ Selected(Body(dev).op, Body(dev).phase)
    BY StatusGood
<1> QED BY <1>1, <1>2, <1>3, RepliesKeep

\* A request is refused.
LEMMA ReplyRefusedKeeps ==
    ASSUME Typed, Pieces, Shapes, Shapes', ReplyRefused
    PROVE  Pieces'
<1>1. /\ Replies(Refused) /\ h2d[1].type # "STATUS" /\ cancel' = cancel
      /\ h2d[1].type = "JOB" => job.op # h2d[1].op
    BY DEF ReplyRefused
<1>2. /\ Refused \in BodySet /\ GoodBody(Refused) /\ ~Refused.ok
      /\ Refused.phase = "error" /\ Selected(Refused.op, Refused.phase)
    BY RefusedGood, RefusedIs
<1> QED BY <1>1, <1>2, RepliesKeep

\* What does not speak of the link and of the answers.
LEMMA StillParts ==
    ASSUME Pieces, kind' = kind, window' = window, host' = host, result' = result,
           dev' = dev, job' = job, slot' = slot, boot' = boot, Len(pend') = Len(pend)
    PROVE  /\ HostRange' /\ PendRange' /\ ResultRange' /\ SlotGood' /\ DevInv' /\ CurrentSlot'
           /\ SlotOps' /\ BootOps' /\ OwnSlot' /\ SelectedSlot' /\ SelectedDev' /\ SelectedResult'
           /\ WrittenInv' /\ BoundaryInv' /\ ImageInv'
<1>1. Parts' = Parts
    BY DEF Parts
<1>2. HostRange' /\ PendRange' /\ ResultRange' /\ SlotGood' /\ DevInv' /\ CurrentSlot'
    BY <1>1 DEF HostRange, PendRange, ResultRange, SlotGood, GoodRequest, GoodBody, DevInv,
       Active,
       CurrentSlot, Current, Suits, Pieces
<1>3. SlotOps' /\ BootOps' /\ OwnSlot' /\ SelectedSlot' /\ SelectedDev' /\ SelectedResult'
    BY DEF SlotOps, BootOps, OwnSlot, Live, Active, Owned, SelectedSlot, SelectedDev,
       SelectedResult,
       Selected, Pieces
<1>4. WrittenInv' /\ BoundaryInv' /\ ImageInv'
    BY <1>1 DEF WrittenInv, BoundaryInv, ImageInv, Image, Active, Pieces
<1> QED BY <1>2, <1>3, <1>4

\* What speaks of the requests on their way, when they stay.
LEMMA SameQueue ==
    ASSUME Pieces, kind' = kind, host' = host, dev' = dev, slot' = slot, boot' = boot, h2d' = h2d,
           Len(pend') = Len(pend)
    PROVE  /\ RequestsGood' /\ CurrentQueue' /\ QueueOrder' /\ QueueOps' /\ DevAhead'
           /\ OwnQueue' /\ OwnOrder' /\ AskedQueue' /\ LastInv' /\ SlotAhead' /\ OwnAhead'
           /\ (NoneAsked => NoneAsked') /\ (NoBegin => NoBegin') /\ (NoCommit => NoCommit')
           /\ \A b : CommitOk(b) => (CommitOk(b))'
<1>1. Parts' = Parts
    BY DEF Parts
<1>2. RequestsGood' /\ CurrentQueue' /\ QueueOrder' /\ QueueOps' /\ DevAhead'
    BY <1>1 DEF RequestsGood, GoodRequest, CurrentQueue, Current, Suits, QueueOrder, QueueOps,
       DevAhead, Active, Pieces
<1>3. OwnQueue' /\ OwnOrder' /\ AskedQueue' /\ LastInv' /\ SlotAhead' /\ OwnAhead'
    BY DEF OwnQueue, OwnOrder, AskedQueue, IsCommit, LastInv, SlotAhead, OwnAhead, Owned, Live,
       Active, Pieces
<1>4. (NoneAsked => NoneAsked') /\ (NoBegin => NoBegin')
    BY DEF NoneAsked, NoBegin, Live
<1>5. NoCommit => NoCommit'
    BY DEF NoCommit, IsCommit, Live
<1>6. \A b : CommitOk(b) => (CommitOk(b))'
    BY <1>5 DEF CommitOk
<1> QED BY <1>2, <1>3, <1>4, <1>5, <1>6

\* An answer reaches the request it belongs to.
LEMMA ReceivesKeeps ==
    ASSUME Pieces, Shapes, Shapes', Receives
    PROVE  Pieces'
<1>k. /\ kind' = kind /\ Parts' = Parts /\ window' = window /\ alive' = alive
      /\ host' = host /\ result' = result /\ h2d' = h2d /\ slot' = slot /\ Len(pend') = Len(pend)
      /\ dev' = dev /\ job' = job /\ boot' = boot /\ abandoned' = abandoned /\ cancel' = cancel
    BY DEF Receives, SessionStays, DeviceStays, Parts
<1>n. Len(d2h) \in Nat /\ Len(d2h) >= 1 /\ Len(d2h') = Len(d2h) - 1 /\ Len(pend) \in Nat
    BY DEF Receives, Shorter, Shapes, Lengths
<1>e. 1 \in 1 .. Len(d2h)
    BY <1>n
<1>b. \A i \in 1 .. Len(d2h') : i + 1 \in 1 .. Len(d2h) /\ d2h'[i] = d2h[i + 1]
    BY <1>n DEF Receives, Shorter
<1>p. \A i \in 1 .. Len(pend') : \/ i \in 1 .. Len(pend) /\ pend'[i] = pend[i]
                                 \/ d2h[1].id # 0 /\ pend'[i] = d2h[1].body
    BY <1>k, <1>n DEF Receives
<1>1. /\ HostRange' /\ PendRange' /\ ResultRange' /\ SlotGood' /\ DevInv' /\ CurrentSlot'
      /\ SlotOps' /\ BootOps' /\ OwnSlot' /\ SelectedSlot' /\ SelectedDev' /\ SelectedResult'
      /\ WrittenInv' /\ BoundaryInv' /\ ImageInv'
    BY <1>k, StillParts
<1>2. /\ RequestsGood' /\ CurrentQueue' /\ QueueOrder' /\ QueueOps' /\ DevAhead'
      /\ OwnQueue' /\ OwnOrder' /\ AskedQueue' /\ LastInv' /\ SlotAhead' /\ OwnAhead'
      /\ (NoneAsked => NoneAsked') /\ (NoBegin => NoBegin') /\ (NoCommit => NoCommit')
      /\ \A b : CommitOk(b) => (CommitOk(b))'
    BY <1>k, SameQueue
<1>3. PendGood' /\ AnswersGood'
    BY <1>k, <1>e, <1>b, <1>p DEF PendGood, AnswersGood, GoodBody, Pieces
<1>4. Closed'
  <2>1. alive
    BY <1>n DEF Closed, Pieces
  <2> QED BY <2>1, <1>k DEF Closed
<1>5. CurrentAnswers' /\ AskedSlot'
    BY <1>b, <1>k DEF CurrentAnswers, AskedSlot, IsCommit, Live, Pieces
<1>6. OnceAnswers' /\ OncePend'
    BY <1>b, <1>e, <1>p, <1>2, <1>k DEF OnceAnswers, OncePend, Pieces
<1>7. OkAnswer' => OkAnswer
    BY <1>b, <1>e, <1>p, <1>k DEF OkAnswer, SlotAnswers
<1>8. BegunInv' /\ OursInv' /\ JobInv'
    BY <1>7, <1>2, <1>k DEF BegunInv, OursInv, JobInv, HasBegun, Active, Pieces
<1>9. CommitInv'
    BY <1>2, <1>k DEF CommitInv, Pieces
<1>10. AskedRan'
    BY <1>2, <1>k DEF AskedRan, SlotAnswers, Pieces
<1>11. AskedAnswers'
    BY <1>2, <1>b, <1>k DEF AskedAnswers, Pieces
<1>12. AskedPend'
  <2>1. SUFFICES ASSUME host.at = "commit", NEW i \in 1 .. Len(pend'), pend'[i].phase # "waiting"
                 PROVE  CommitOk(pend'[i])
    BY <1>2, <1>k DEF AskedPend
  <2> QED BY <1>p, <1>e, <2>1 DEF AskedPend, AskedAnswers, Pieces
<1>13. ConfirmInv'
    BY <1>b, <1>e, <1>p, <1>k DEF ConfirmInv, Pieces
<1>14. SelectedAnswers' /\ SelectedPend'
    BY <1>b, <1>e, <1>p, <1>k DEF SelectedAnswers, SelectedPend, Selected, Pieces
<1>15. FreedInv'
    BY <1>7, <1>k DEF FreedInv, Active, Pieces
<1> QED BY <1>1, <1>2, <1>3, <1>4, <1>5, <1>6, <1>8, <1>9, <1>10, <1>11, <1>12, <1>13, <1>14,
       <1>15, Zenon DEF Pieces

\* A request is lost.
LEMMA LoseRequestKeeps ==
    ASSUME Pieces, Shapes, Shapes', LoseRequest
    PROVE  Pieces'
<1>k. /\ kind' = kind /\ Parts' = Parts /\ window' = window /\ alive' = alive
      /\ host' = host /\ pend' = pend /\ result' = result /\ d2h' = d2h /\ slot' = slot
      /\ dev' = dev /\ job' = job /\ boot' = boot /\ abandoned' = abandoned /\ cancel' = cancel
    BY DEF LoseRequest, SessionStays, HostStays, DeviceStays, Parts
<1>n. Len(h2d) \in Nat /\ Len(h2d') \in Nat /\ Len(h2d) # 0
  <2>1. Len(h2d) \in Nat /\ Len(h2d') \in Nat
    BY DEF Shapes, Lengths
  <2> QED BY <2>1 DEF LoseRequest, Lacks
<1>q. Fewer(h2d, h2d')
    BY <1>n, LacksFewer DEF LoseRequest
<1>1. /\ HostRange' /\ PendRange' /\ ResultRange' /\ SlotGood' /\ DevInv' /\ CurrentSlot'
      /\ SlotOps' /\ BootOps' /\ OwnSlot' /\ SelectedSlot' /\ SelectedDev' /\ SelectedResult'
      /\ WrittenInv' /\ BoundaryInv' /\ ImageInv'
    BY <1>k, StillParts
<1>2. /\ RequestsGood' /\ CurrentQueue' /\ QueueOrder' /\ QueueOps' /\ DevAhead'
      /\ OwnQueue' /\ OwnOrder' /\ AskedQueue'
    BY <1>q, <1>k, FewerQueue
<1>f. /\ LastInv' /\ SlotAhead' /\ OwnAhead'
      /\ (NoneAsked => NoneAsked') /\ (NoBegin => NoBegin') /\ (NoCommit => NoCommit')
      /\ \A b : CommitOk(b) => (CommitOk(b))'
    BY <1>q, <1>k, FewerSlot
<1>3. PendGood' /\ AnswersGood' /\ CurrentAnswers' /\ AskedSlot' /\ ConfirmInv'
    BY <1>k DEF PendGood, AnswersGood, GoodBody, CurrentAnswers, AskedSlot, IsCommit, Live,
       ConfirmInv, Pieces
<1>4. SelectedAnswers' /\ SelectedPend' /\ Closed'
    BY <1>k, <1>n DEF SelectedAnswers, SelectedPend, Selected, Closed, Pieces
<1>5. OnceAnswers' /\ OncePend'
    BY <1>f, <1>k DEF OnceAnswers, OncePend, Pieces
<1>6. OkAnswer' => OkAnswer
    BY <1>k DEF OkAnswer, SlotAnswers
<1>7. BegunInv' /\ OursInv' /\ JobInv'
    BY <1>6, <1>f, <1>k DEF BegunInv, OursInv, JobInv, HasBegun, Active, Pieces
<1>8. CommitInv'
    BY <1>f, <1>k DEF CommitInv, Pieces
<1>9. AskedRan'
    BY <1>f, <1>k DEF AskedRan, SlotAnswers, Pieces
<1>10. AskedAnswers' /\ AskedPend'
    BY <1>f, <1>k DEF AskedAnswers, AskedPend, Pieces
<1>11. FreedInv'
    BY <1>6, <1>k DEF FreedInv, Active, Pieces
<1> QED BY <1>1, <1>2, <1>f, <1>3, <1>4, <1>5, <1>7, <1>8, <1>9, <1>10, <1>11, Zenon DEF Pieces

\* An answer is lost.
LEMMA LoseAnswerKeeps ==
    ASSUME Pieces, Shapes, Shapes', LoseAnswer
    PROVE  Pieces'
<1>k. /\ kind' = kind /\ Parts' = Parts /\ window' = window /\ alive' = alive
      /\ host' = host /\ pend' = pend /\ result' = result /\ h2d' = h2d /\ slot' = slot
      /\ dev' = dev /\ job' = job /\ boot' = boot /\ abandoned' = abandoned /\ cancel' = cancel
    BY DEF LoseAnswer, SessionStays, HostStays, DeviceStays, Parts
<1>n. Len(d2h) \in Nat /\ Len(d2h') \in Nat /\ Len(d2h) # 0
  <2>1. Len(d2h) \in Nat /\ Len(d2h') \in Nat
    BY DEF Shapes, Lengths
  <2> QED BY <2>1 DEF LoseAnswer, Lacks
<1>q. Fewer(d2h, d2h')
    BY <1>n, LacksFewer DEF LoseAnswer
<1>b. \A i \in 1 .. Len(d2h') : \E a \in 1 .. Len(d2h) : d2h'[i] = d2h[a]
    BY <1>q DEF Fewer
<1>1. /\ HostRange' /\ PendRange' /\ ResultRange' /\ SlotGood' /\ DevInv' /\ CurrentSlot'
      /\ SlotOps' /\ BootOps' /\ OwnSlot' /\ SelectedSlot' /\ SelectedDev' /\ SelectedResult'
      /\ WrittenInv' /\ BoundaryInv' /\ ImageInv'
    BY <1>k, StillParts
<1>2. /\ RequestsGood' /\ CurrentQueue' /\ QueueOrder' /\ QueueOps' /\ DevAhead'
      /\ OwnQueue' /\ OwnOrder' /\ AskedQueue' /\ LastInv' /\ SlotAhead' /\ OwnAhead'
      /\ (NoneAsked => NoneAsked') /\ (NoBegin => NoBegin') /\ (NoCommit => NoCommit')
      /\ \A b : CommitOk(b) => (CommitOk(b))'
    BY <1>k, SameQueue
<1>3. PendGood' /\ AskedSlot' /\ SelectedPend' /\ Closed'
    BY <1>k, <1>n DEF PendGood, GoodBody, AskedSlot, IsCommit, Live, SelectedPend, Selected,
       Closed,
       Pieces
<1>4. AnswersGood' /\ CurrentAnswers' /\ SelectedAnswers' /\ ConfirmInv'
    BY <1>b, <1>k DEF AnswersGood, GoodBody, CurrentAnswers, SelectedAnswers, Selected,
       ConfirmInv,
       Pieces
<1>5. OnceAnswers' /\ OncePend'
    BY <1>b, <1>2, <1>k DEF OnceAnswers, OncePend, Pieces
<1>6. OkAnswer' => OkAnswer
    BY <1>b, <1>k DEF OkAnswer, SlotAnswers
<1>7. BegunInv' /\ OursInv' /\ JobInv'
    BY <1>6, <1>2, <1>k DEF BegunInv, OursInv, JobInv, HasBegun, Active, Pieces
<1>8. CommitInv'
    BY <1>2, <1>k DEF CommitInv, Pieces
<1>9. AskedRan'
    BY <1>2, <1>k DEF AskedRan, SlotAnswers, Pieces
<1>10. AskedAnswers' /\ AskedPend'
    BY <1>2, <1>b, <1>k DEF AskedAnswers, AskedPend, Pieces
<1>11. FreedInv'
    BY <1>6, <1>k DEF FreedInv, Active, Pieces
<1> QED BY <1>1, <1>2, <1>3, <1>4, <1>5, <1>7, <1>8, <1>9, <1>10, <1>11, Zenon DEF Pieces

\* What speaks of the caller, the device and the answers, when they stay.
LEMMA StillHost ==
    ASSUME Pieces, kind' = kind, window' = window, host' = host, pend' = pend, result' = result,
           dev' = dev, job' = job, boot' = boot
    PROVE  /\ HostRange' /\ PendRange' /\ PendGood' /\ ResultRange' /\ DevInv' /\ BootOps'
           /\ SelectedPend' /\ SelectedDev' /\ SelectedResult' /\ WrittenInv' /\ ImageInv'
<1>1. Parts' = Parts
    BY DEF Parts
<1>2. HostRange' /\ PendRange' /\ PendGood' /\ ResultRange' /\ DevInv' /\ BootOps'
    BY <1>1 DEF HostRange, PendRange, PendGood, GoodBody, ResultRange, DevInv, BootOps, Active,
       Pieces
<1>3. SelectedPend' /\ SelectedDev' /\ SelectedResult' /\ WrittenInv' /\ ImageInv'
    BY <1>1 DEF SelectedPend, SelectedDev, SelectedResult, Selected, WrittenInv, ImageInv, Image,
       Active, Pieces
<1> QED BY <1>2, <1>3

\* A request fills the slot.
LEMMA EnqueuesKeeps ==
    ASSUME Pieces, Shapes, Shapes', Enqueues
    PROVE  Pieces'
<1>k. /\ kind' = kind /\ Parts' = Parts /\ window' = window /\ alive' = alive
      /\ host' = host /\ pend' = pend /\ result' = result /\ d2h' = d2h
      /\ dev' = dev /\ job' = job /\ boot' = boot /\ abandoned' = abandoned
    BY DEF Enqueues, SessionStays, HostStays, Parts
<1>s. /\ slot'.stage = "queued" /\ slot'.req = h2d[1] /\ slot'.answer = Refused /\ slot.stage = "idle"
      /\ h2d[1].type # "JOB" /\ (h2d[1].type = "STATUS" => kind = "ota")
    BY DEF Enqueues
<1>n. /\ Len(h2d) \in Nat /\ Len(h2d') \in Nat /\ Len(h2d) >= 1 /\ Len(h2d') = Len(h2d) - 1
    BY DEF Shapes, Lengths, Enqueues, Shorter
<1>e. 1 \in 1 .. Len(h2d)
    BY <1>n
<1>m. \A i \in 1 .. Len(h2d') : /\ i + 1 \in 1 .. Len(h2d) /\ h2d'[i] = h2d[i + 1] /\ 1 < i + 1
                                /\ i + 1 # 1 /\ (i + 1 = Len(h2d) => i = Len(h2d'))
    BY <1>n DEF Enqueues, Shorter
<1>q. Fewer(h2d, h2d')
    BY <1>n, ShorterFewer DEF Enqueues
<1>a. alive
    BY <1>n DEF Pieces, Closed
<1>1. /\ HostRange' /\ PendRange' /\ PendGood' /\ ResultRange' /\ DevInv' /\ BootOps'
      /\ SelectedPend' /\ SelectedDev' /\ SelectedResult' /\ WrittenInv' /\ ImageInv'
    BY <1>k, StillHost
<1>2. /\ RequestsGood' /\ CurrentQueue' /\ QueueOrder' /\ QueueOps' /\ DevAhead'
      /\ OwnQueue' /\ OwnOrder' /\ AskedQueue'
    BY <1>q, <1>k, FewerQueue
<1>3. SlotGood'
  <2>1. GoodBody(Refused) /\ Refused.phase = "error"
    BY RefusedGood, RefusedIs
  <2>2. GoodRequest(h2d[1]) /\ h2d[1].type # "none"
    BY <1>e DEF Pieces, RequestsGood
  <2> QED BY <2>1, <2>2, <1>s, <1>k DEF SlotGood, GoodBody, GoodRequest
<1>4. AnswersGood' /\ CurrentAnswers' /\ SelectedAnswers' /\ SelectedSlot' /\ Closed' /\ BoundaryInv'
    BY <1>a, <1>k, <1>s, RefusedIs DEF AnswersGood, GoodBody, CurrentAnswers, SelectedAnswers,
       SelectedSlot, Selected, Closed, BoundaryInv, Pieces
<1>5. CurrentSlot'
  <2>1. Current(h2d[1])
    BY <1>e DEF Pieces, CurrentQueue
  <2> QED BY <2>1, <1>k, <1>s DEF CurrentSlot, Current, Suits
<1>6. LastInv'
  <2>1. SUFFICES ASSUME host.at # "data"
                 PROVE  /\ \A i \in 1 .. Len(h2d') : h2d'[i].id # 0 => i = Len(h2d') /\ h2d[1].id = 0
                        /\ h2d[1].id # 0 => Len(h2d') = 0
    BY <1>k, <1>s DEF LastInv
  <2>2. h2d[1].id # 0 => 1 = Len(h2d)
    BY <1>e, <2>1 DEF Pieces, LastInv
  <2>3. h2d[1].id # 0 => Len(h2d') = 0
    BY <2>2, <1>n
  <2>4. ASSUME NEW i \in 1 .. Len(h2d'), h2d'[i].id # 0 PROVE i = Len(h2d') /\ h2d[1].id = 0
    <3>1. i + 1 = Len(h2d) /\ i + 1 # 1
      BY <1>m, <2>1, <2>4 DEF Pieces, LastInv
    <3> QED BY <3>1, <1>m, <2>2
  <2> QED BY <2>3, <2>4
<1>7. NoneAsked => NoneAsked'
    BY <1>e, <1>m, <1>s DEF NoneAsked
<1>8. OnceAnswers' /\ OncePend'
    BY <1>7, <1>k DEF OnceAnswers, OncePend, Pieces
<1>9. SlotAhead'
  <2>1. \A i \in 1 .. Len(h2d') : h2d[1].op <= h2d'[i].op
    BY <1>e, <1>m DEF Pieces, QueueOrder
  <2> QED BY <2>1, <1>s DEF SlotAhead
<1>10. SlotOps'
    BY <1>e, <1>s, <1>k DEF SlotOps, Active, QueueOps, DevAhead, Pieces
<1>11. OwnSlot'
    BY <1>e, <1>s, <1>k DEF OwnSlot, OwnQueue, Active, Owned, Pieces
<1>12. OwnAhead'
  <2>1. h2d[1].type = "BEGIN" => \A i \in 1 .. Len(h2d') : ~Owned(h2d'[i])
    BY <1>e, <1>m DEF Pieces, OwnOrder
  <2> QED BY <2>1, <1>s DEF OwnAhead, Owned
<1>13. NoBegin => NoBegin'
    BY <1>e, <1>m, <1>s DEF NoBegin
<1>14. NoCommit => NoCommit'
    BY <1>e, <1>m, <1>s, <1>k DEF NoCommit, IsCommit
<1>15. OkAnswer' => OkAnswer
    BY <1>k, <1>s DEF OkAnswer, SlotAnswers
<1>16. BegunInv' /\ OursInv' /\ JobInv' /\ CommitInv'
  <2>1. BegunInv' /\ OursInv' /\ JobInv'
    BY <1>15, <1>13, <1>k DEF BegunInv, OursInv, JobInv, HasBegun, Active, Pieces
  <2>2. CommitInv'
    BY <1>14, <1>k DEF CommitInv, Pieces
  <2> QED BY <2>1, <2>2
<1>17. AskedSlot'
    BY <1>e, <1>s, <1>k DEF AskedSlot, AskedQueue, IsCommit, Pieces
<1>18. AskedRan'
    BY <1>s DEF AskedRan, SlotAnswers
<1>19. AskedAnswers' /\ AskedPend'
  <2>1. \A b : CommitOk(b) => (CommitOk(b))'
    BY <1>14, <1>k DEF CommitOk
  <2> QED BY <2>1, <1>k DEF AskedAnswers, AskedPend, Pieces
<1>20. ConfirmInv'
  <2>1. host.at = "confirm" => h2d[1].id = 0
    BY <1>e, <1>s DEF Pieces, CurrentQueue, Current, Suits
  <2> QED BY <2>1, <1>s, <1>k DEF ConfirmInv, Pieces
<1>21. FreedInv'
    BY <1>15, <1>s, <1>k DEF FreedInv, Active, Pieces
<1> QED BY <1>1, <1>2, <1>3, <1>4, <1>5, <1>6, <1>8, <1>9, <1>10, <1>11, <1>12, <1>16, <1>17,
       <1>18, <1>19, <1>20, <1>21, Zenon DEF Pieces

\* What the free slot holds.
LEMMA FreeSlotIs ==
    /\ FreeSlot.stage = "idle" /\ FreeSlot.req = NoRequest /\ FreeSlot.answer = Refused
    /\ NoRequest.id = 0 /\ NoRequest.type = "none" /\ NoRequest.op = 0 /\ NoRequest.comp = 0
    /\ NoRequest.offset = 0
BY DEF FreeSlot, NoRequest

\* A slot without a request is good.
LEMMA NoRequestGood ==
    ASSUME Shapes
    PROVE  GoodRequest(NoRequest) /\ GoodBody(Refused) /\ Refused.phase = "error"
<1>1. 0 < Parts /\ 0 <= Chunks
    BY DEF Shapes, Numbers
<1> QED BY <1>1, FreeSlotIs, RefusedGood, RefusedIs DEF GoodRequest

\* The executor's answer goes on its way.
LEMMA DrainsKeeps ==
    ASSUME Pieces, Shapes, Shapes', Drains
    PROVE  Pieces'
<1>k. /\ kind' = kind /\ Parts' = Parts /\ window' = window /\ alive' = alive
      /\ host' = host /\ pend' = pend /\ result' = result /\ h2d' = h2d /\ cancel' = cancel
      /\ dev' = dev /\ job' = job /\ boot' = boot /\ abandoned' = abandoned
    BY DEF Drains, SessionStays, HostStays, DeviceStays, Parts
<1>s. /\ slot'.stage = "idle" /\ slot'.req = NoRequest /\ slot'.answer = Refused
      /\ slot'.req.id = 0 /\ slot'.req.type = "none" /\ slot.stage = "done"
    BY FreeSlotIs DEF Drains
<1>n. Len(d2h) \in Nat /\ Len(d2h') = Len(d2h) + 1
    BY DEF Shapes, Lengths, Drains, Longer
<1>b. \A i \in 1 .. Len(d2h') : \/ i \in 1 .. Len(d2h) /\ d2h'[i] = d2h[i]
                                \/ d2h'[i].id = slot.req.id /\ d2h'[i].body = slot.answer
    BY <1>n DEF Drains, Longer
<1>a. alive
    BY <1>s DEF Pieces, Closed
<1>1. /\ HostRange' /\ PendRange' /\ PendGood' /\ ResultRange' /\ DevInv' /\ BootOps'
      /\ SelectedPend' /\ SelectedDev' /\ SelectedResult' /\ WrittenInv' /\ ImageInv'
    BY <1>k, StillHost
<1>2. RequestsGood' /\ CurrentQueue' /\ QueueOrder' /\ QueueOps' /\ DevAhead'
    BY <1>k DEF RequestsGood, GoodRequest, CurrentQueue, Current, Suits, QueueOrder, QueueOps,
       DevAhead, Active, Pieces
<1>3. OwnQueue' /\ OwnOrder' /\ AskedQueue'
    BY <1>k DEF OwnQueue, OwnOrder, AskedQueue, IsCommit, Active, Owned, Pieces
<1>4. SlotGood'
    BY <1>s, <1>k, NoRequestGood DEF SlotGood, GoodRequest, GoodBody
<1>5. /\ LastInv' /\ SlotAhead' /\ SlotOps' /\ OwnSlot' /\ OwnAhead' /\ AskedSlot' /\ AskedRan'
      /\ CurrentSlot' /\ BoundaryInv'
    BY <1>s, <1>k DEF LastInv, SlotAhead, SlotOps, OwnSlot, OwnAhead, AskedSlot, AskedRan,
       SlotAnswers, CurrentSlot, Current, BoundaryInv, Live, Pieces
<1>6. AnswersGood' /\ SelectedAnswers' /\ SelectedSlot' /\ Closed'
    BY <1>a, <1>b, <1>k, <1>s, RefusedIs DEF AnswersGood, SlotGood, GoodBody, SelectedAnswers,
       SelectedSlot, Selected, Closed, Pieces
<1>7. CurrentAnswers'
  <2>1. slot.req.id <= Len(pend)
    <3>1. slot.req.id \in Nat /\ Len(pend) \in Nat
      BY DEF Shapes, Numbers, Lengths
    <3> QED BY <3>1 DEF Pieces, CurrentSlot, Current
  <2> QED BY <2>1, <1>b, <1>k DEF CurrentAnswers, Pieces
<1>8. OnceAnswers'
  <2>1. SUFFICES ASSUME host.at # "data", NEW i \in 1 .. Len(d2h'), d2h'[i].id # 0
                 PROVE  NoneAsked'
    BY <1>k DEF OnceAnswers
  <2>2. CASE i \in 1 .. Len(d2h) /\ d2h'[i] = d2h[i]
    BY <2>1, <2>2, <1>k, <1>s DEF OnceAnswers, NoneAsked, Pieces
  <2>3. CASE d2h'[i].id = slot.req.id
    BY <2>1, <2>3, <1>k, <1>s DEF LastInv, NoneAsked, Pieces
  <2> QED BY <1>b, <2>2, <2>3
<1>9. OncePend'
    BY <1>k, <1>s DEF OncePend, NoneAsked, Pieces
<1>10. (NoBegin => NoBegin') /\ (NoCommit => NoCommit')
    BY <1>k, <1>s DEF NoBegin, NoCommit, IsCommit, Live
<1>11. OkAnswer' => OkAnswer
    BY <1>b, <1>k, <1>s DEF OkAnswer, SlotAnswers
<1>12. BegunInv' /\ OursInv' /\ JobInv' /\ CommitInv'
  <2>1. BegunInv' /\ OursInv' /\ JobInv'
    BY <1>10, <1>11, <1>k DEF BegunInv, OursInv, JobInv, HasBegun, Active, Pieces
  <2>2. CommitInv'
    BY <1>10, <1>k DEF CommitInv, Pieces
  <2> QED BY <2>1, <2>2
<1>13. \A b : CommitOk(b) => (CommitOk(b))'
    BY <1>10, <1>k DEF CommitOk
<1>14. AskedPend'
    BY <1>13, <1>k DEF AskedPend, Pieces
<1>15. AskedAnswers'
  <2>1. SUFFICES ASSUME host.at = "commit", NEW i \in 1 .. Len(d2h'), d2h'[i].id # 0
                 PROVE  CommitOk(d2h'[i].body)
    BY <1>13, <1>k DEF AskedAnswers
  <2> QED BY <2>1, <1>b, <1>s DEF AskedAnswers, AskedRan, SlotAnswers, Pieces
<1>16. ConfirmInv'
    BY <1>b, <1>k, <1>s DEF ConfirmInv, Pieces
<1>17. FreedInv'
    BY <1>11, <1>s, <1>k DEF FreedInv, Active, Pieces
<1> QED BY <1>1, <1>2, <1>3, <1>4, <1>5, <1>6, <1>7, <1>8, <1>9, <1>12, <1>14, <1>15, <1>16,
       <1>17, Zenon DEF Pieces

\* An update that is over leaves a device in its ranges.
LEMMA OverKeeps ==
    ASSUME Pieces, Shapes, Shapes', kind' = kind, host' = host, boot' = boot, Over
    PROVE  ~Active' /\ DevInv' /\ SelectedDev'
<1>k. Parts' = Parts
    BY DEF Parts
<1>n. /\ dev.op \in Nat /\ dev.comp \in Nat /\ dev.received \in Nat /\ host.op \in Nat
      /\ dev'.op \in Nat /\ dev'.comp \in Nat /\ dev'.received \in Nat
      /\ Parts \in Nat /\ Chunks \in Nat
    BY DEF Shapes, Numbers
<1>o. /\ dev'.phase \in {"idle", "failed", "cancelled"} /\ (kind = "ota" => dev'.phase = "idle")
      /\ dev'.op <= dev.op /\ dev'.comp <= dev.comp /\ dev'.received <= dev.received
      /\ job'.op = job.op /\ job'.state \in {job.state, "failed"}
    BY DEF Over
<1>1. ~Active'
    BY <1>o DEF Active
<1>2. dev'.op <= host.op /\ dev'.comp <= Parts /\ dev'.received <= Chunks
  <2>1. dev.op <= host.op /\ dev.comp <= Parts /\ dev.received <= Chunks
    BY DEF Pieces, DevInv
  <2> QED BY <2>1, <1>n, <1>o
<1>3. kind = "ota" => dev'.comp = 0
  <2>1. kind = "ota" => dev.comp = 0
    BY DEF Pieces, DevInv
  <2> QED BY <2>1, <1>n, <1>o
<1>4. DevInv'
    BY <1>1, <1>2, <1>3, <1>o, <1>k DEF DevInv, Pieces
<1>5. SelectedDev'
    BY <1>o DEF SelectedDev, Selected, Pieces
<1> QED BY <1>1, <1>4, <1>5

\* An update that is ended, or was over, leaves the record of the device consistent
\* (executor_abandon and the cleanup of the executor).
LEMMA OverIfActiveKeeps ==
    ASSUME Pieces, Shapes, Shapes', kind' = kind, host' = host, boot' = boot, OverIfActive
    PROVE  ~Active' /\ DevInv' /\ SelectedDev'
<1>1. CASE Over
    BY <1>1, OverKeeps
<1>2. CASE ~Active /\ dev' = dev /\ job' = job
  <2>1. Parts' = Parts
    BY DEF Parts
  <2> QED BY <1>2, <2>1 DEF DevInv, SelectedDev, Selected, Active, Pieces
<1> QED BY <1>1, <1>2 DEF OverIfActive

\* The end of a session keeps the invariant when the slot is given up and the device goes on or
\* is cleaned up.
LEMMA BreaksKeep ==
    ASSUME Pieces, Shapes, Shapes', Breaks, SlotGood', DevInv', SelectedDev', SelectedSlot',
           slot'.req.id = 0, slot'.stage # "done", slot'.stage # "idle" => abandoned',
           \/ slot'.req.type = "none" /\ slot'.stage # "boundary"
           \/ /\ slot'.stage = slot.stage /\ slot'.req.type = slot.req.type
              /\ slot'.req.op = slot.req.op,
           Active' => dev' = dev /\ cancel' /\ slot'.stage \in {"queued", "boundary", "ran"},
           slot'.stage = "boundary" => dev' = dev
    PROVE  Pieces'
<1>k. /\ kind' = kind /\ Parts' = Parts /\ window' = window /\ host' = host /\ pend' = pend
      /\ result' = result /\ boot' = boot /\ alive' = FALSE /\ h2d' = <<>> /\ d2h' = <<>>
    BY DEF Breaks, HostStays, Parts
<1>n. Len(h2d') = 0 /\ Len(d2h') = 0
    BY <1>k
<1>q. (\A i \in 1 .. Len(h2d') : FALSE) /\ (\A i \in 1 .. Len(d2h') : FALSE)
    BY <1>n
<1>a. Active' => Active
    BY DEF Active
<1>1. HostRange' /\ PendRange' /\ PendGood' /\ ResultRange'
    BY <1>k DEF HostRange, PendRange, PendGood, GoodBody, ResultRange, Pieces
<1>2. RequestsGood' /\ AnswersGood' /\ CurrentQueue' /\ CurrentAnswers' /\ SelectedAnswers'
    BY <1>q DEF RequestsGood, AnswersGood, CurrentQueue, CurrentAnswers, SelectedAnswers
<1>3. QueueOrder' /\ QueueOps' /\ SlotAhead' /\ DevAhead' /\ OwnQueue' /\ OwnOrder' /\ OwnAhead'
    BY <1>q DEF QueueOrder, QueueOps, SlotAhead, DevAhead, OwnQueue, OwnOrder, OwnAhead
<1>4. AskedQueue' /\ AskedAnswers' /\ OnceAnswers' /\ LastInv'
    BY <1>q, <1>n DEF AskedQueue, AskedAnswers, OnceAnswers, LastInv
<1>5. Closed' /\ CurrentSlot' /\ OncePend' /\ AskedRan' /\ JobInv'
    BY <1>k, <1>n, <1>q DEF Closed, CurrentSlot, Current, OncePend, NoneAsked, AskedRan,
       SlotAnswers,
       JobInv
<1>6. SlotOps' /\ OwnSlot' /\ BootOps'
    BY <1>k, <1>a DEF SlotOps, OwnSlot, BootOps, Live, Active, Owned, Pieces
<1>7. NoBegin => NoBegin'
    BY <1>q DEF NoBegin, Live
<1>8. NoCommit => NoCommit'
    BY <1>q, <1>k DEF NoCommit, IsCommit, Live
<1>9. OkAnswer' => OkAnswer
    BY <1>k, <1>q DEF OkAnswer, SlotAnswers
<1>10. BegunInv' /\ OursInv'
    BY <1>7, <1>9, <1>k, <1>a DEF BegunInv, OursInv, HasBegun, Pieces
<1>11. CommitInv'
    BY <1>8, <1>k DEF CommitInv, Pieces
<1>12. AskedSlot'
    BY <1>k DEF AskedSlot, IsCommit, Live, Pieces
<1>13. AskedPend'
  <2>1. \A b : CommitOk(b) => (CommitOk(b))'
    BY <1>8, <1>k DEF CommitOk
  <2> QED BY <2>1, <1>k DEF AskedPend, Pieces
<1>14. ConfirmInv' /\ SelectedPend' /\ SelectedResult'
    BY <1>k, <1>q DEF ConfirmInv, SelectedPend, SelectedResult, Selected, Pieces
<1>15. FreedInv'
    BY DEF FreedInv
<1>16. WrittenInv' /\ BoundaryInv' /\ ImageInv'
  <2>1. WrittenInv'
    BY <1>a DEF WrittenInv, Pieces
  <2>2. BoundaryInv'
    BY <1>k DEF BoundaryInv, Active, Pieces
  <2>3. ImageInv'
    BY <1>k DEF ImageInv, Image, Pieces
  <2> QED BY <2>1, <2>2, <2>3
<1> QED BY <1>1, <1>2, <1>3, <1>4, <1>5, <1>6, <1>10, <1>11, <1>12, <1>13, <1>14, <1>15, <1>16,
       Zenon DEF Pieces

\* The link goes while the executor works.
LEMMA BreakAbandonsKeeps ==
    ASSUME Pieces, Shapes, Shapes', BreakAbandons
    PROVE  Pieces'
<1>1. /\ Breaks /\ dev' = dev /\ job' = job /\ cancel' = TRUE /\ abandoned' = TRUE
      /\ kind' = kind /\ host' = host /\ boot' = boot
    BY DEF BreakAbandons, Breaks, HostStays
<1>2. /\ slot'.stage = slot.stage /\ slot'.answer = slot.answer /\ GivenUp(slot.req, slot'.req)
      /\ slot.stage \in {"queued", "boundary", "ran"}
    BY DEF BreakAbandons, SlotGivenUp
<1>3. Parts' = Parts
    BY <1>1 DEF Parts
<1>4. SlotGood' /\ SelectedSlot'
    BY <1>1, <1>2, <1>3 DEF SlotGood, SelectedSlot, Selected, GoodRequest, GoodBody, GivenUp,
       Pieces
<1>5. DevInv' /\ SelectedDev'
    BY <1>1, <1>3 DEF DevInv, SelectedDev, Selected, Active, Pieces
<1>6. slot'.req.id = 0 /\ slot'.req.type = slot.req.type /\ slot'.req.op = slot.req.op
    BY <1>2 DEF GivenUp
<1> QED BY <1>1, <1>2, <1>4, <1>5, <1>6, BreaksKeep

\* The link goes and the executor is given the cleaning up.
LEMMA BreakQueuesKeeps ==
    ASSUME Pieces, Shapes, Shapes', BreakQueues
    PROVE  Pieces'
<1>1. /\ Breaks /\ dev' = dev /\ job' = job /\ cancel' = TRUE /\ abandoned' = TRUE
      /\ kind' = kind /\ host' = host /\ boot' = boot
    BY DEF BreakQueues, Breaks, HostStays
<1>2. /\ slot'.stage = "queued" /\ slot'.answer = Refused /\ slot'.req = NoRequest
      /\ slot'.req.id = 0 /\ slot'.req.type = "none"
    BY FreeSlotIs DEF BreakQueues
<1>3. Parts' = Parts
    BY <1>1 DEF Parts
<1>4. SlotGood' /\ SelectedSlot'
    BY <1>1, <1>2, <1>3, NoRequestGood DEF SlotGood, SelectedSlot, Selected, GoodRequest, GoodBody
<1>5. DevInv' /\ SelectedDev'
    BY <1>1, <1>3 DEF DevInv, SelectedDev, Selected, Active, Pieces
<1> QED BY <1>1, <1>2, <1>4, <1>5, BreaksKeep

\* The link goes and the update is aborted at once.
LEMMA BreakIdleKeeps ==
    ASSUME Pieces, Shapes, Shapes', BreakIdle
    PROVE  Pieces'
<1>1. /\ Breaks /\ OverIfActive /\ slot.stage = "idle" /\ slot' = slot
      /\ kind' = kind /\ host' = host /\ boot' = boot
    BY DEF BreakIdle, Breaks, HostStays
<1>2. ~Active' /\ DevInv' /\ SelectedDev'
    BY <1>1, OverIfActiveKeeps
<1>3. Parts' = Parts
    BY <1>1 DEF Parts
<1>4. SlotGood' /\ SelectedSlot'
    BY <1>1, <1>3 DEF SlotGood, SelectedSlot, Selected, GoodRequest, GoodBody, Pieces
<1>5. slot.req.id = 0
    BY <1>1 DEF SlotGood, Pieces
<1> QED BY <1>1, <1>2, <1>4, <1>5, BreaksKeep

\* The device restarts.
LEMMA BreakRebootKeeps ==
    ASSUME Pieces, Shapes, Shapes', BreakReboot
    PROVE  Pieces'
<1>1. /\ Breaks /\ dev' = Off /\ job' = [op |-> 0, state |-> "none"] /\ slot' = FreeSlot
      /\ kind' = kind /\ host' = host /\ boot' = boot
    BY DEF BreakReboot, Breaks, HostStays
<1>2. /\ dev'.op = 0 /\ dev'.phase = "idle" /\ dev'.comp = 0 /\ dev'.received = 0
      /\ job'.op = 0 /\ job'.state = "none"
    BY <1>1 DEF Off
<1>3. /\ slot'.stage = "idle" /\ slot'.answer = Refused /\ slot'.req = NoRequest
      /\ slot'.req.id = 0 /\ slot'.req.type = "none"
    BY <1>1, FreeSlotIs
<1>4. Parts' = Parts /\ 0 <= host.op /\ 0 <= Parts /\ 0 <= Chunks
    BY <1>1 DEF Parts, Shapes, Numbers
<1>5. SlotGood' /\ SelectedSlot'
    BY <1>1, <1>3, <1>4, NoRequestGood DEF SlotGood, SelectedSlot, Selected, GoodRequest, GoodBody
<1>6. ~Active'
    BY <1>2 DEF Active
<1>7. DevInv' /\ SelectedDev'
    BY <1>1, <1>2, <1>4, <1>6 DEF DevInv, SelectedDev, Selected
<1> QED BY <1>1, <1>3, <1>5, <1>6, <1>7, BreaksKeep

\* A new session.
LEMMA ReconnectsKeeps ==
    ASSUME Pieces, Shapes, Shapes', Reconnects
    PROVE  Pieces'
<1>k. /\ kind' = kind /\ Parts' = Parts /\ window' = window /\ alive' = TRUE
      /\ host' = host /\ pend' = pend /\ result' = result /\ h2d' = h2d /\ d2h' = d2h
      /\ slot' = slot /\ cancel' = cancel /\ host.at = "idle"
      /\ dev' = dev /\ job' = job /\ boot' = boot /\ abandoned' = abandoned
    BY DEF Reconnects, HostStays, DeviceStays, Parts
<1>1. /\ HostRange' /\ PendRange' /\ ResultRange' /\ SlotGood' /\ DevInv' /\ CurrentSlot'
      /\ SlotOps' /\ BootOps' /\ OwnSlot' /\ SelectedSlot' /\ SelectedDev' /\ SelectedResult'
      /\ WrittenInv' /\ BoundaryInv' /\ ImageInv'
    BY <1>k, StillParts
<1>2. /\ RequestsGood' /\ CurrentQueue' /\ QueueOrder' /\ QueueOps' /\ DevAhead'
      /\ OwnQueue' /\ OwnOrder' /\ AskedQueue' /\ LastInv' /\ SlotAhead' /\ OwnAhead'
      /\ (NoneAsked => NoneAsked') /\ (NoBegin => NoBegin') /\ (NoCommit => NoCommit')
      /\ \A b : CommitOk(b) => (CommitOk(b))'
    BY <1>k, SameQueue
<1>3. PendGood' /\ AnswersGood' /\ CurrentAnswers' /\ SelectedAnswers' /\ SelectedPend'
    BY <1>k DEF PendGood, AnswersGood, GoodBody, CurrentAnswers, SelectedAnswers, SelectedPend,
       Selected, Pieces
<1>4. OnceAnswers' /\ OncePend'
    BY <1>2, <1>k DEF OnceAnswers, OncePend, Pieces
<1>5. /\ Closed' /\ JobInv' /\ AskedSlot' /\ AskedRan' /\ AskedAnswers' /\ AskedPend'
      /\ ConfirmInv'
    BY <1>k DEF Closed, JobInv, HasBegun, AskedSlot, AskedRan, AskedAnswers, AskedPend, ConfirmInv
<1>6. BegunInv' /\ OursInv'
    BY <1>2, <1>k DEF BegunInv, OursInv, HasBegun, Active, Pieces
<1>7. CommitInv' /\ FreedInv'
    BY <1>2, <1>k DEF CommitInv, FreedInv, Active, Pieces
<1> QED BY <1>1, <1>2, <1>3, <1>4, <1>5, <1>6, <1>7, Zenon DEF Pieces

\* What speaks of the caller and the link, when they and what is selected stay.
LEMMA StillLink ==
    ASSUME Pieces, kind' = kind, window' = window, host' = host, pend' = pend, result' = result,
           h2d' = h2d, d2h' = d2h
    PROVE  /\ HostRange' /\ PendRange' /\ PendGood' /\ ResultRange' /\ RequestsGood' /\ AnswersGood'
           /\ CurrentQueue' /\ CurrentAnswers' /\ QueueOrder' /\ OwnOrder'
<1>1. Parts' = Parts
    BY DEF Parts
<1>2. HostRange' /\ PendRange' /\ PendGood' /\ ResultRange' /\ RequestsGood' /\ AnswersGood'
    BY <1>1 DEF HostRange, PendRange, PendGood, GoodBody, ResultRange, RequestsGood, GoodRequest,
       AnswersGood, Pieces
<1>3. CurrentQueue' /\ CurrentAnswers' /\ QueueOrder' /\ OwnOrder'
    BY DEF CurrentQueue, Current, Suits, CurrentAnswers, QueueOrder, OwnOrder, Owned, Pieces
<1> QED BY <1>2, <1>3

\* The executor carries out a request: what it answers and what it makes of the update fit.
LEMMA RunsKeep ==
    ASSUME Pieces, Shapes, Shapes', slot \in SlotSet, NEW body \in BodySet, Runs(body),
           GoodBody(body), body.phase # "waiting", Selected(body.op, body.phase),
           DevInv', SelectedDev', WrittenInv',
           \/ (Active' => Active /\ dev'.op = dev.op) /\ job'.op = job.op
           \/ slot.req.type = "BEGIN" /\ dev'.op = slot.req.op,
           slot.req.type = "BEGIN" /\ body.ok => Active' /\ dev'.op = slot.req.op,
           slot.req.type = "COMMIT" => body.phase # "committed",
           slot.req.type = "CANCEL" /\ body.ok => ~Active'
    PROVE  Pieces'
<1>k. /\ kind' = kind /\ Parts' = Parts /\ window' = window /\ alive' = alive
      /\ host' = host /\ pend' = pend /\ result' = result /\ h2d' = h2d /\ d2h' = d2h
      /\ cancel' = cancel /\ abandoned' = abandoned /\ boot' = boot
    BY DEF Runs, SessionStays, HostStays, Parts
<1>s. /\ slot.stage = "queued" /\ slot'.stage = "ran" /\ slot'.req = slot.req /\ slot'.answer = body
    BY DEF Runs, SlotSet
<1>1. /\ HostRange' /\ PendRange' /\ PendGood' /\ ResultRange' /\ RequestsGood' /\ AnswersGood'
      /\ CurrentQueue' /\ CurrentAnswers' /\ QueueOrder' /\ OwnOrder'
    BY <1>k, StillLink
<1>2. SlotGood'
    BY <1>s, <1>k DEF SlotGood, GoodRequest, GoodBody, Pieces
<1>3. Closed' /\ CurrentSlot' /\ LastInv' /\ OnceAnswers' /\ OncePend'
    BY <1>s, <1>k DEF Closed, CurrentSlot, Current, Suits, LastInv, OnceAnswers, OncePend,
       NoneAsked,
       Pieces
<1>4. QueueOps' /\ SlotAhead' /\ SlotOps' /\ OwnSlot' /\ OwnAhead' /\ AskedSlot' /\ BoundaryInv'
    BY <1>s, <1>k DEF QueueOps, SlotAhead, SlotOps, OwnSlot, OwnAhead, AskedSlot, BoundaryInv,
       Live,
       Pieces
<1>5. DevAhead'
    BY <1>s, <1>k DEF DevAhead, SlotAhead, Live, Pieces
<1>6. BootOps'
    BY <1>s, <1>k DEF BootOps, SlotOps, Live, Pieces
<1>7. OwnQueue'
    BY <1>s, <1>k DEF OwnQueue, OwnAhead, Owned, Live, Pieces
<1>8. (NoBegin => NoBegin') /\ (NoCommit => NoCommit')
    BY <1>s, <1>k DEF NoBegin, NoCommit, IsCommit, Live
<1>9. NoBegin => slot.req.type # "BEGIN"
    BY <1>s DEF NoBegin, Live
<1>10. OkAnswer' => OkAnswer \/ (slot.req.id # 0 /\ body.ok)
    BY <1>s, <1>k DEF OkAnswer, SlotAnswers
<1>11. slot.req.id # 0 => /\ slot.req.op = host.op /\ Suits(host.at, slot.req.type)
                          /\ host.at # "data" => Len(h2d) = 0
    BY DEF Pieces, CurrentSlot, Current, LastInv
<1>12. ASSUME HasBegun', ~HasBegun
       PROVE  /\ slot.req.id # 0 /\ body.ok /\ slot.req.type = "BEGIN" /\ slot.req.op = host.op
              /\ Len(h2d) = 0
    BY <1>10, <1>11, <1>12, <1>k DEF HasBegun, Suits
<1>13. BegunInv'
  <2>1. Len(h2d) = 0 => NoBegin'
    BY <1>s, <1>k DEF NoBegin, Live
  <2> QED BY <2>1, <1>8, <1>12, <1>k DEF BegunInv, Pieces
<1>14. OursInv'
    BY <1>9, <1>12, <1>k DEF OursInv, BegunInv, Pieces
<1>15. JobInv'
  <2>1. Active' => job'.op = dev'.op
    BY DEF DevInv
  <2> QED BY <2>1, <1>9, <1>12, <1>k DEF JobInv, BegunInv, Pieces
<1>16. CommitInv' /\ AskedQueue'
    BY <1>8, <1>k DEF CommitInv, AskedQueue, IsCommit, Pieces
<1>17. AskedRan'
  <2>1. SUFFICES ASSUME host.at = "commit", slot.req.id # 0
                 PROVE  (CommitOk(body))'
    BY <1>s, <1>k DEF AskedRan, SlotAnswers
  <2>2. slot.req.type = "COMMIT" /\ slot.req.op = host.op /\ Len(h2d) = 0
    BY <2>1, <1>11 DEF Suits
  <2>3. boot.op # host.op
    BY <2>1, <2>2, <1>s DEF Pieces, AskedSlot, IsCommit, Live
  <2>4. NoCommit'
    BY <2>2, <2>3, <1>s, <1>k DEF NoCommit, Live
  <2> QED BY <2>2, <2>4 DEF CommitOk
<1>18. AskedAnswers' /\ AskedPend'
  <2>1. \A b : CommitOk(b) => (CommitOk(b))'
    BY <1>8, <1>k DEF CommitOk
  <2> QED BY <2>1, <1>k DEF AskedAnswers, AskedPend, Pieces
<1>19. ConfirmInv' /\ SelectedAnswers' /\ SelectedPend' /\ SelectedResult' /\ ImageInv'
    BY <1>s, <1>k DEF ConfirmInv, SelectedAnswers, SelectedPend, SelectedResult, Selected,
       ImageInv,
       Image, Pieces
<1>20. SelectedSlot'
    BY <1>s, <1>k DEF SelectedSlot, Selected
<1>21. FreedInv'
  <2>1. SUFFICES ASSUME (host.at = "cancel" /\ OkAnswer') \/ result.freed, Active'
                 PROVE  cancel
    BY <1>s, <1>k DEF FreedInv
  <2>2. NoBegin
    BY <2>1 DEF Pieces, BegunInv, HasBegun
  <2>3. Active
    BY <2>1, <2>2, <1>9
  <2>4. (host.at = "cancel" /\ OkAnswer) \/ result.freed
    BY <2>1, <1>10, <1>11 DEF Suits
  <2> QED BY <2>3, <2>4 DEF FreedInv, Pieces
<1> QED BY <1>1, <1>2, <1>3, <1>4, <1>5, <1>6, <1>7, <1>13, <1>14, <1>15, <1>16, <1>17, <1>18,
       <1>19, <1>20, <1>21, Zenon DEF Pieces

\* The status after a step is a good answer.
LEMMA StatusGoodNext ==
    ASSUME Typed', Shapes', kind' = kind, boot' = boot, HostRange', DevInv', SelectedDev'
    PROVE  /\ Body(dev') \in BodySet /\ GoodBody(Body(dev')) /\ Body(dev').ok
           /\ Body(dev').phase \notin {"waiting", "error"} /\ Body(dev').phase = dev'.phase
           /\ Selected(Body(dev').op, Body(dev').phase)
<1>1. /\ Body(dev').ok = TRUE /\ Body(dev').op = dev'.op /\ Body(dev').phase = dev'.phase
      /\ Body(dev').comp = dev'.comp /\ Body(dev').received = dev'.received
    BY DEF Body
<1>2. dev'.phase \in DevPhases
    BY DEF Shapes, Words
<1>3. dev'.phase \notin {"waiting", "error"} /\ dev'.phase \in Phases
    BY <1>2 DEF DevPhases, Phases
<1>4. /\ dev'.op \in Nat /\ host'.op \in Nat /\ MaxOps \in Nat /\ dev'.comp \in Nat
      /\ dev'.received \in Nat
    BY DEF Shapes, Numbers
<1>5. dev'.op <= MaxOps
  <2>1. dev'.op <= host'.op /\ host'.op <= MaxOps
    BY DEF DevInv, HostRange
  <2> QED BY <2>1, <1>4
<1>6. dev'.comp <= Parts /\ dev'.received <= Chunks /\ Selected(dev'.op, dev'.phase)
    BY DEF DevInv, SelectedDev, Selected, Parts
<1>7. Body(dev') \in BodySet
    BY <1>3, <1>4 DEF Body, BodySet
<1> QED BY <1>1, <1>3, <1>5, <1>6, <1>7 DEF GoodBody

\* A request is refused by its handler.
LEMMA RunRefusedKeeps ==
    ASSUME Typed, Pieces, Shapes, Shapes', RunRefused
    PROVE  Pieces'
<1>1. Runs(Refused) /\ dev' = dev /\ job' = job /\ kind' = kind /\ host' = host /\ boot' = boot
    BY DEF RunRefused, Runs, SessionStays, HostStays
<1>2. Parts' = Parts /\ slot \in SlotSet
    BY <1>1 DEF Parts, Typed, DeviceTyped
<1>3. DevInv' /\ SelectedDev' /\ WrittenInv'
    BY <1>1, <1>2 DEF DevInv, SelectedDev, Selected, WrittenInv, Active, Pieces
<1>4. (Active' => Active) /\ dev'.op = dev.op /\ job'.op = job.op
    BY <1>1 DEF Active
<1>5. /\ Refused \in BodySet /\ GoodBody(Refused) /\ ~Refused.ok
      /\ Refused.phase = "error" /\ Selected(Refused.op, Refused.phase)
    BY RefusedGood, RefusedIs
<1> QED BY <1>1, <1>2, <1>3, <1>4, <1>5, RunsKeep

\* The status is told, or a repeated BEGIN is answered again.
LEMMA RunToldKeeps ==
    ASSUME Typed, Pieces, Shapes, Shapes', RunTold
    PROVE  Pieces'
<1>1. /\ Runs(Body(dev)) /\ dev' = dev /\ job' = job /\ kind' = kind /\ host' = host /\ boot' = boot
      /\ slot.req.type \in {"BEGIN", "STATUS"}
      /\ slot.req.type = "BEGIN" => Active /\ dev.op = slot.req.op
    BY DEF RunTold, Runs, SessionStays, HostStays
<1>2. Parts' = Parts /\ slot \in SlotSet
    BY <1>1 DEF Parts, Typed, DeviceTyped
<1>3. DevInv' /\ SelectedDev' /\ WrittenInv'
    BY <1>1, <1>2 DEF DevInv, SelectedDev, Selected, WrittenInv, Active, Pieces
<1>4. Active' = Active /\ dev'.op = dev.op /\ job'.op = job.op
    BY <1>1 DEF Active
<1>5. /\ Body(dev) \in BodySet /\ GoodBody(Body(dev)) /\ Body(dev).ok
      /\ Body(dev).phase \notin {"waiting", "error"} /\ Selected(Body(dev).op, Body(dev).phase)
    BY StatusGood
<1> QED BY <1>1, <1>2, <1>3, <1>4, <1>5, RunsKeep

\* An update begins.
LEMMA RunBeginKeeps ==
    ASSUME Typed, Typed', Pieces, Shapes, Shapes', RunBegin
    PROVE  Pieces'
<1>1. /\ Runs(Body(dev')) /\ slot.req.type = "BEGIN" /\ dev'.op = slot.req.op /\ dev'.comp = 0
      /\ dev'.received = 0 /\ dev'.phase = (IF kind = "ota" THEN "receiving" ELSE "prepared")
      /\ Len(dev'.written) = 0 /\ job'.op = slot.req.op /\ job'.state = "running"
    BY DEF RunBegin
<1>2. /\ kind' = kind /\ host' = host /\ boot' = boot /\ slot.stage = "queued" /\ slot \in SlotSet
      /\ Parts' = Parts
    BY <1>1 DEF Runs, SessionStays, HostStays, Typed, DeviceTyped, Parts
<1>3. slot.req.op <= host.op /\ slot.req.op >= 1
    BY <1>1, <1>2 DEF Pieces, SlotOps, SlotGood, GoodRequest, Live
<1>4. 0 < Parts /\ 0 <= Parts /\ 0 <= Chunks /\ slot.req.op \in Nat /\ Chunks \in Nat
    BY DEF Shapes, Numbers
<1>5. Active' /\ dev'.phase \in {"receiving", "prepared"}
    BY <1>1 DEF Active
<1>6. DevInv'
    BY <1>1, <1>2, <1>3, <1>4, <1>5 DEF DevInv
<1>7. SelectedDev'
    BY <1>1, <1>5 DEF SelectedDev, Selected
<1>8. WrittenInv'
  <2>1. Len(dev'.written) = dev'.comp * Chunks + dev'.received
    BY <1>1, <1>4
  <2>2. \A i \in 1 .. Len(dev'.written) : FALSE
    BY <1>1
  <2> QED BY <2>1, <2>2 DEF WrittenInv
<1>9. HostRange'
    BY <1>2 DEF HostRange, Pieces, RunBegin, Runs, SessionStays
<1>10. /\ Body(dev') \in BodySet /\ GoodBody(Body(dev')) /\ Body(dev').ok
       /\ Body(dev').phase \notin {"waiting", "error"} /\ Selected(Body(dev').op, Body(dev').phase)
    BY <1>2, <1>6, <1>7, <1>9, StatusGoodNext
<1> QED BY <1>1, <1>2, <1>5, <1>6, <1>7, <1>8, <1>10, RunsKeep

\* A step of the update that goes on.
LEMMA RunOnKeeps ==
    ASSUME Typed, Typed', Pieces, Shapes, Shapes', Runs(Body(dev')), Active,
           slot.req.type \in {"OPEN", "DATA", "CLOSE"}, dev'.op = dev.op, job' = job,
           DevInv', WrittenInv', dev'.phase \notin {"committed", "succeeded"}
    PROVE  Pieces'
<1>1. kind' = kind /\ host' = host /\ boot' = boot /\ slot \in SlotSet
    BY DEF Runs, SessionStays, HostStays, Typed, DeviceTyped
<1>2. SelectedDev'
    BY <1>1 DEF SelectedDev, Selected, Pieces
<1>3. HostRange'
  <2>1. Parts' = Parts /\ window' = window
    BY <1>1 DEF Parts, Runs, SessionStays
  <2> QED BY <1>1, <2>1 DEF HostRange, Pieces
<1>4. /\ Body(dev') \in BodySet /\ GoodBody(Body(dev')) /\ Body(dev').ok
      /\ Body(dev').phase \notin {"waiting", "error"} /\ Selected(Body(dev').op, Body(dev').phase)
    BY <1>1, <1>2, <1>3, StatusGoodNext
<1> QED BY <1>1, <1>2, <1>4, RunsKeep

\* A component is opened.
LEMMA RunOpenKeeps ==
    ASSUME Typed, Typed', Pieces, Shapes, Shapes', RunOpen
    PROVE  Pieces'
<1>1. /\ Runs(Body(dev')) /\ slot.req.type = "OPEN" /\ dev.phase = "prepared" /\ job' = job
      /\ dev' = [dev EXCEPT !.phase = "receiving", !.received = 0] /\ dev \in DevSet
    BY DEF RunOpen, Typed, DeviceTyped
<1>2. /\ dev'.op = dev.op /\ dev'.phase = "receiving" /\ dev'.comp = dev.comp /\ dev'.received = 0
      /\ dev'.written = dev.written
    BY <1>1 DEF DevSet
<1>3. kind' = kind /\ host' = host /\ Parts' = Parts
    BY <1>1 DEF Runs, SessionStays, HostStays, Parts
<1>4. Active /\ Active' /\ 0 <= Chunks
    BY <1>1, <1>2 DEF Active, Shapes, Numbers
<1>5. DevInv'
    BY <1>1, <1>2, <1>3, <1>4 DEF DevInv, Pieces
<1>6. WrittenInv'
    BY <1>1, <1>2, <1>4 DEF WrittenInv, DevInv, Pieces
<1> QED BY <1>1, <1>2, <1>4, <1>5, <1>6, RunOnKeeps

\* The chunk that is written is the next one of the image.
LEMMA RunDataKeeps ==
    ASSUME Typed, Typed', Pieces, Shapes, Shapes', RunData
    PROVE  Pieces'
<1> DEFINE chunk == <<slot.req.op, slot.req.comp, dev.received>>
           w == Append(dev.written, chunk)
<1>1. /\ Runs(Body(dev')) /\ slot.req.type = "DATA" /\ dev.phase = "receiving" /\ job' = job
      /\ dev.received < Chunks /\ (kind = "system" => dev.comp = slot.req.comp)
      /\ dev' = [dev EXCEPT !.received = dev.received + 1, !.written = w] /\ dev \in DevSet
    BY DEF RunData, Typed, DeviceTyped
<1> HIDE DEF w
<1>2. /\ dev'.op = dev.op /\ dev'.phase = dev.phase /\ dev'.comp = dev.comp
      /\ dev'.received = dev.received + 1 /\ dev'.written = w
    BY <1>1 DEF DevSet
<1>3. kind' = kind /\ host' = host /\ Parts' = Parts /\ slot.stage = "queued"
    BY <1>1 DEF Runs, SessionStays, HostStays, Parts
<1>4. Active /\ Active'
    BY <1>1, <1>2 DEF Active
<1>5. /\ dev.received \in Nat /\ dev.comp \in Nat /\ Chunks \in Nat \ {0} /\ Parts \in Nat
      /\ slot.req.comp \in Nat /\ kind \in {"ota", "system"}
    BY DEF Shapes, Numbers, Words
<1>6. dev.received + 1 <= Chunks
    BY <1>1, <1>5
<1>7. DevInv'
    BY <1>1, <1>2, <1>3, <1>4, <1>6 DEF DevInv, Pieces
<1>8. slot.req.op = dev.op
    BY <1>1, <1>3, <1>4 DEF Pieces, OwnSlot, Live, Owned
<1>9. slot.req.comp = dev.comp
  <2>1. CASE kind = "ota"
    <3>1. dev.comp = 0 /\ slot.req.comp < 1
      BY <2>1 DEF Pieces, DevInv, SlotGood, GoodRequest, Parts
    <3> QED BY <3>1, <1>5
  <2>2. CASE kind = "system"
    BY <1>1, <2>2
  <2> QED BY <1>5, <2>1, <2>2
<1>10. WrittenInv'
  <2> DEFINE n == Len(dev.written)
  <2>1. dev.written \in Seq(ChunkSet) /\ n \in Nat
    BY <1>1, LenProperties DEF DevSet
  <2>2. /\ n = dev.comp * Chunks + dev.received
        /\ \A i \in 1 .. n : dev.written[i] = <<dev.op, (i - 1) \div Chunks, (i - 1) % Chunks>>
    BY <1>4 DEF WrittenInv, Pieces
  <2>3. Len(w) = n + 1 /\ w[n + 1] = chunk /\ \A i \in 1 .. n : w[i] = dev.written[i]
    BY <2>1 DEF w
  <2> HIDE DEF n
  <2>4. n + 1 - 1 = dev.comp * Chunks + dev.received
    BY <2>1, <2>2, <1>5
  <2>5. (n + 1 - 1) \div Chunks = dev.comp /\ (n + 1 - 1) % Chunks = dev.received
    BY <2>4, <1>1, <1>5, PlaceOf
  <2>6. w[n + 1] = <<dev.op, (n + 1 - 1) \div Chunks, (n + 1 - 1) % Chunks>>
    BY <2>3, <2>5, <1>8, <1>9
  <2>7. \A i \in 1 .. Len(w) : i \in 1 .. n \/ i = n + 1
    BY <2>1, <2>3
  <2>8. \A i \in 1 .. Len(w) : w[i] = <<dev.op, (i - 1) \div Chunks, (i - 1) % Chunks>>
    BY <2>2, <2>3, <2>6, <2>7
  <2>9. Len(w) = dev.comp * Chunks + (dev.received + 1)
    <3>1. dev.comp * Chunks \in Nat
      BY <1>5
    <3> QED BY <3>1, <2>1, <2>2, <2>3, <1>5
  <2> QED BY <2>8, <2>9, <1>2 DEF WrittenInv
<1> QED BY <1>1, <1>2, <1>4, <1>7, <1>10, RunOnKeeps

\* A component is complete.
LEMMA RunCloseKeeps ==
    ASSUME Typed, Typed', Pieces, Shapes, Shapes', RunClose
    PROVE  Pieces'
<1> DEFINE phase == IF dev.comp + 1 < Parts THEN "prepared" ELSE "verified"
<1>1. /\ Runs(Body(dev')) /\ slot.req.type = "CLOSE" /\ dev.phase = "receiving" /\ job' = job
      /\ dev.received = Chunks
      /\ dev' = [dev EXCEPT !.comp = dev.comp + 1, !.received = 0, !.phase = phase] /\ dev \in DevSet
    BY DEF RunClose, Typed, DeviceTyped
<1>2. /\ dev.comp \in Nat /\ Parts \in Nat /\ Chunks \in Nat
    BY DEF Shapes, Numbers
<1>3. dev.comp < Parts /\ kind = "system"
    BY <1>1 DEF Pieces, DevInv, SlotGood, GoodRequest
<1>4. /\ phase \in {"prepared", "verified"} /\ dev.comp + 1 <= Parts
      /\ phase = "prepared" => dev.comp + 1 < Parts
      /\ phase = "verified" => dev.comp + 1 = Parts
    BY <1>2, <1>3
<1> HIDE DEF phase
<1>5. /\ dev'.op = dev.op /\ dev'.phase = phase /\ dev'.comp = dev.comp + 1
      /\ dev'.received = 0 /\ dev'.written = dev.written
    BY <1>1 DEF DevSet
<1>6. kind' = kind /\ host' = host /\ Parts' = Parts
    BY <1>1 DEF Runs, SessionStays, HostStays, Parts
<1>7. Active /\ Active' /\ 0 <= Chunks
    BY <1>1, <1>2, <1>4, <1>5 DEF Active
<1>8. DevInv'
    BY <1>1, <1>3, <1>4, <1>5, <1>6, <1>7 DEF DevInv, Pieces
<1>9. WrittenInv'
  <2>1. dev.comp * Chunks + Chunks = (dev.comp + 1) * Chunks /\ dev.comp * Chunks \in Nat
    BY <1>2, NextPlace
  <2>2. (dev.comp + 1) * Chunks + 0 = dev.comp * Chunks + Chunks
    BY <2>1, <1>2
  <2> QED BY <2>2, <1>1, <1>5, <1>7 DEF WrittenInv, Pieces
<1> QED BY <1>1, <1>4, <1>5, <1>7, <1>8, <1>9, RunOnKeeps

\* A failing step, a failing end or a cancel ends the update.
LEMMA RunEndsKeeps ==
    ASSUME Typed, Pieces, Shapes, Shapes', RunEnds
    PROVE  Pieces'
<1>1. PICK body \in BodySet :
          /\ Runs(body) /\ body.phase \in {"error", "failed", "cancelled"}
          /\ body.ok <=> body.phase # "error"
          /\ body.op <= dev.op /\ body.comp <= dev.comp /\ body.received <= dev.received
    BY DEF RunEnds
<1>2. slot.req.type \in {"OPEN", "DATA", "CLOSE", "COMMIT", "CANCEL"} /\ Active /\ Over
    BY DEF RunEnds
<1>3. kind' = kind /\ host' = host /\ boot' = boot /\ slot \in SlotSet /\ job'.op = job.op
    BY <1>1, <1>2 DEF Runs, SessionStays, HostStays, Typed, DeviceTyped, Over
<1>4. ~Active' /\ DevInv' /\ SelectedDev'
    BY <1>2, <1>3, OverKeeps
<1>5. WrittenInv'
    BY <1>4 DEF WrittenInv
<1>6. body.op <= MaxOps /\ body.comp <= Parts /\ body.received <= Chunks
  <2>1. /\ dev.op <= host.op /\ host.op <= MaxOps /\ dev.comp <= Parts /\ dev.received <= Chunks
    BY DEF Pieces, DevInv, HostRange
  <2>2. /\ dev.op \in Nat /\ host.op \in Nat /\ MaxOps \in Nat /\ dev.comp \in Nat /\ Parts \in Nat
        /\ dev.received \in Nat /\ Chunks \in Nat
    BY DEF Shapes, Numbers
  <2>3. body.op \in Nat /\ body.comp \in Nat /\ body.received \in Nat
    BY DEF BodySet
  <2> QED BY <1>1, <2>1, <2>2, <2>3
<1>7. GoodBody(body) /\ body.phase # "waiting" /\ Selected(body.op, body.phase)
    BY <1>1, <1>6 DEF GoodBody, Selected
<1> QED BY <1>1, <1>2, <1>3, <1>4, <1>5, <1>7, RunsKeep

\* The commit reaches its boundary with the whole image.
LEMMA RunBoundaryKeeps ==
    ASSUME Typed, Pieces, Shapes, Shapes', RunBoundary
    PROVE  Pieces'
<1>k. /\ kind' = kind /\ Parts' = Parts /\ window' = window /\ alive' = alive
      /\ host' = host /\ pend' = pend /\ result' = result /\ h2d' = h2d /\ d2h' = d2h
      /\ cancel' = cancel /\ abandoned' = abandoned /\ boot' = boot /\ job' = job
    BY DEF RunBoundary, SessionStays, HostStays, Parts
<1>s. /\ slot.stage = "queued" /\ slot'.stage = "boundary" /\ slot'.req = slot.req
      /\ slot'.answer = slot.answer /\ slot.req.type = "COMMIT"
    BY DEF RunBoundary, Typed, DeviceTyped, SlotSet
<1>d. /\ dev'.op = dev.op /\ dev'.comp = dev.comp /\ dev'.received = dev.received
      /\ dev'.written = dev.written
      /\ \/ kind = "ota" /\ dev'.phase = "receiving" /\ dev.phase = "receiving" /\ dev.received = Chunks
         \/ kind = "system" /\ dev'.phase = "committing" /\ dev.phase = "verified"
    BY DEF RunBoundary, Typed, DeviceTyped, DevSet
<1>a. Active /\ Active' /\ Live /\ Live'
    BY <1>d, <1>s DEF Active, Live
<1>1. /\ HostRange' /\ PendRange' /\ PendGood' /\ ResultRange' /\ RequestsGood' /\ AnswersGood'
      /\ CurrentQueue' /\ CurrentAnswers' /\ QueueOrder' /\ OwnOrder'
    BY <1>k, StillLink
<1>2. SlotGood' /\ Closed'
    BY <1>s, <1>k DEF SlotGood, GoodRequest, GoodBody, Closed, Pieces
<1>3. DevInv'
    BY <1>a, <1>d, <1>k DEF DevInv, Pieces
<1>4. CurrentSlot' /\ LastInv' /\ OnceAnswers' /\ OncePend'
    BY <1>s, <1>k DEF CurrentSlot, Current, Suits, LastInv, OnceAnswers, OncePend, NoneAsked,
       Pieces
<1>5. QueueOps' /\ SlotAhead' /\ DevAhead' /\ SlotOps' /\ BootOps'
    BY <1>a, <1>s, <1>d, <1>k DEF QueueOps, SlotAhead, DevAhead, SlotOps, BootOps, Pieces
<1>6. OwnQueue' /\ OwnSlot' /\ OwnAhead'
    BY <1>a, <1>s, <1>d, <1>k DEF OwnQueue, OwnSlot, OwnAhead, Owned, Pieces
<1>7. (NoBegin => NoBegin') /\ (NoCommit => NoCommit')
    BY <1>a, <1>s, <1>k DEF NoBegin, NoCommit, IsCommit
<1>8. OkAnswer' => OkAnswer
    BY <1>s, <1>k DEF OkAnswer, SlotAnswers
<1>9. BegunInv' /\ OursInv' /\ JobInv'
    BY <1>7, <1>8, <1>a, <1>d, <1>k DEF BegunInv, OursInv, JobInv, HasBegun, Pieces
<1>10. CommitInv' /\ AskedQueue' /\ AskedSlot' /\ AskedRan'
    BY <1>7, <1>a, <1>s, <1>k DEF CommitInv, AskedQueue, AskedSlot, AskedRan, SlotAnswers,
       IsCommit,
       Pieces
<1>11. AskedAnswers' /\ AskedPend'
  <2>1. \A b : CommitOk(b) => (CommitOk(b))'
    BY <1>7, <1>k DEF CommitOk
  <2> QED BY <2>1, <1>k DEF AskedAnswers, AskedPend, Pieces
<1>12. ConfirmInv' /\ SelectedAnswers' /\ SelectedPend' /\ SelectedResult' /\ ImageInv'
    BY <1>s, <1>k DEF ConfirmInv, SelectedAnswers, SelectedPend, SelectedResult, Selected,
       ImageInv,
       Image, Pieces
<1>13. SelectedSlot' /\ SelectedDev'
    BY <1>s, <1>d, <1>k DEF SelectedSlot, SelectedDev, Selected, Pieces
<1>14. FreedInv'
    BY <1>8, <1>a, <1>s, <1>k DEF FreedInv, Pieces
<1>15. WrittenInv'
    BY <1>a, <1>d DEF WrittenInv, Pieces
<1>16. BoundaryInv'
  <2>1. dev.op = slot.req.op
    BY <1>a, <1>s DEF Pieces, OwnSlot, Owned
  <2> QED BY <2>1, <1>a, <1>s, <1>d, <1>k DEF BoundaryInv
<1> QED BY <1>1, <1>2, <1>3, <1>4, <1>5, <1>6, <1>9, <1>10, <1>11, <1>12, <1>13, <1>14, <1>15,
       <1>16, Zenon DEF Pieces

\* At the boundary the whole image is written.
LEMMA BoundaryImage ==
    ASSUME Typed, Pieces, Shapes, slot.stage = "boundary"
    PROVE  dev.written = Image(dev.op)
<1>1. Active /\ (IF kind = "ota" THEN dev.received = Chunks ELSE dev.phase = "committing")
    BY DEF Pieces, BoundaryInv
<1>2. Chunks \in Nat /\ Parts \in Nat /\ kind \in {"ota", "system"}
    BY DEF Shapes, Numbers, Words
<1>3. dev.comp * Chunks + dev.received = Parts * Chunks
  <2>1. CASE kind = "ota"
    <3>1. dev.comp = 0 /\ Parts = 1 /\ dev.received = Chunks
      BY <1>1, <2>1 DEF Pieces, DevInv, Parts
    <3> QED BY <3>1, <1>2
  <2>2. CASE kind = "system"
    <3>1. dev.comp = Parts /\ dev.received = 0
      BY <1>1, <2>2 DEF Pieces, DevInv
    <3> QED BY <3>1, <1>2
  <2> QED BY <1>2, <2>1, <2>2
<1> DEFINE n == Parts * Chunks
           e(i) == <<dev.op, (i - 1) \div Chunks, (i - 1) % Chunks>>
<1>4. Len(dev.written) = n /\ \A i \in 1 .. n : dev.written[i] = e(i)
    BY <1>1, <1>3 DEF Pieces, WrittenInv
<1>5. dev.written \in [1 .. Len(dev.written) -> ChunkSet]
  <2>1. dev.written \in Seq(ChunkSet)
    BY DEF Typed, DeviceTyped, DevSet
  <2> QED BY <2>1, LenProperties
<1>6. Image(dev.op) = [i \in 1 .. n |-> e(i)]
    BY DEF Image
<1> HIDE DEF n, e
<1> QED BY <1>4, <1>5, <1>6

\* The image is selected: the newest one yet, and whole.
LEMMA SelectsKeeps ==
    ASSUME Typed, Pieces, Shapes, Shapes', Selects
    PROVE  Pieces'
<1>k. /\ kind' = kind /\ Parts' = Parts /\ window' = window /\ alive' = alive
      /\ host' = host /\ pend' = pend /\ result' = result /\ h2d' = h2d /\ d2h' = d2h
      /\ cancel' = cancel /\ abandoned' = abandoned
    BY DEF Selects, SessionStays, HostStays, Parts
<1>s. PICK body \in BodySet :
          /\ slot' = [slot EXCEPT !.stage = "ran", !.answer = body]
          /\ body.ok /\ body.op = dev.op /\ body.phase = "committed"
          /\ body.comp = dev.comp /\ body.received = dev.received
    BY DEF Selects
<1>t. slot.stage = "boundary" /\ slot'.stage = "ran" /\ slot'.req = slot.req /\ slot'.answer = body
    BY <1>s DEF Selects, Typed, DeviceTyped, SlotSet
<1>u. boot'.op = dev.op /\ boot'.written = dev.written
    BY DEF Selects
<1>b. slot.req.type = "COMMIT" /\ Active /\ dev.op = slot.req.op
    BY <1>t DEF Pieces, BoundaryInv
<1>n. /\ dev.op \in Nat /\ dev.comp \in Nat /\ dev.received \in Nat /\ host.op \in Nat
      /\ dev'.op \in Nat /\ dev'.comp \in Nat /\ dev'.received \in Nat /\ boot.op \in Nat
      /\ Parts \in Nat /\ Chunks \in Nat /\ MaxOps \in Nat
    BY DEF Shapes, Numbers
<1>d. /\ dev'.phase \in {"idle", "committed"} /\ (kind = "ota" => dev'.phase = "idle")
      /\ dev'.op <= dev.op /\ dev'.comp <= dev.comp /\ dev'.received <= dev.received
      /\ job'.op = job.op /\ job'.state = IF job.op = dev.op THEN "succeeded" ELSE job.state
    BY DEF Selects
<1>j. job.op = dev.op /\ job'.state = "succeeded"
    BY <1>b, <1>d DEF Pieces, DevInv
<1>a. ~Active'
    BY <1>d DEF Active
<1>o. boot.op <= dev.op /\ dev.op <= host.op /\ dev.op <= MaxOps
  <2>1. boot.op <= dev.op /\ dev.op <= host.op /\ host.op <= MaxOps
    BY <1>b DEF Pieces, BootOps, DevInv, HostRange
  <2> QED BY <2>1, <1>n
<1>1. /\ HostRange' /\ PendRange' /\ PendGood' /\ ResultRange' /\ RequestsGood' /\ AnswersGood'
      /\ CurrentQueue' /\ CurrentAnswers' /\ QueueOrder' /\ OwnOrder'
    BY <1>k, StillLink
<1>2. SlotGood' /\ Closed'
  <2>1. GoodBody(body)
    BY <1>s, <1>o DEF GoodBody, Pieces, DevInv
  <2> QED BY <2>1, <1>s, <1>t, <1>k DEF SlotGood, GoodRequest, GoodBody, Closed, Pieces
<1>3. DevInv'
  <2>1. dev.op <= host.op /\ dev.comp <= Parts /\ dev.received <= Chunks /\ (kind = "ota" => dev.comp = 0)
    BY DEF Pieces, DevInv
  <2>2. /\ dev'.op <= host.op /\ dev'.comp <= Parts /\ dev'.received <= Chunks
        /\ kind = "ota" => dev'.comp = 0
    BY <2>1, <1>d, <1>n
  <2> QED BY <2>2, <1>a, <1>d, <1>j, <1>o, <1>k DEF DevInv
<1>4. CurrentSlot' /\ LastInv' /\ OnceAnswers' /\ OncePend'
    BY <1>t, <1>k DEF CurrentSlot, Current, Suits, LastInv, OnceAnswers, OncePend, NoneAsked,
       Pieces
<1>5. QueueOps'
    BY <1>b, <1>u, <1>k DEF QueueOps, DevAhead, Pieces
<1>6. SlotAhead' /\ SlotOps' /\ OwnSlot' /\ OwnAhead' /\ AskedSlot' /\ BoundaryInv'
    BY <1>t DEF SlotAhead, SlotOps, OwnSlot, OwnAhead, AskedSlot, BoundaryInv, Live
<1>7. DevAhead' /\ OwnQueue' /\ BootOps' /\ WrittenInv' /\ FreedInv'
    BY <1>a, <1>o, <1>u, <1>k DEF DevAhead, OwnQueue, BootOps, WrittenInv, FreedInv
<1>8. NoBegin => NoBegin'
    BY <1>t, <1>k DEF NoBegin, Live
<1>9. NoCommit => NoCommit'
  <2>1. NoCommit => dev.op # host.op
    BY <1>b, <1>t DEF NoCommit, IsCommit, Live
  <2> QED BY <2>1, <1>t, <1>u, <1>k DEF NoCommit, IsCommit, Live
<1>10. slot.req.id # 0 => slot.req.op = host.op /\ Suits(host.at, "COMMIT")
    BY <1>b DEF Pieces, CurrentSlot, Current
<1>11. HasBegun' => HasBegun
  <2>1. OkAnswer' => OkAnswer \/ slot.req.id # 0
    BY <1>t, <1>k DEF OkAnswer, SlotAnswers
  <2> QED BY <2>1, <1>10, <1>k DEF HasBegun, Suits
<1>12. BegunInv' /\ OursInv' /\ JobInv'
    BY <1>8, <1>11, <1>a, <1>d, <1>k DEF BegunInv, OursInv, JobInv, Pieces
<1>13. CommitInv'
    BY <1>9, <1>k DEF CommitInv, Pieces
<1>14. AskedQueue'
  <2>1. SUFFICES ASSUME host.at = "commit", NEW i \in 1 .. Len(h2d), IsCommit(h2d[i])
                 PROVE  h2d[i].id # 0 /\ dev.op # host.op
    BY <1>k, <1>u DEF AskedQueue, IsCommit
  <2>2. h2d[i].id # 0
    BY <2>1 DEF Pieces, AskedQueue
  <2>3. Len(h2d) # 0
    <3>1. Len(h2d) \in Nat
      BY DEF Shapes, Lengths
    <3> QED BY <3>1
  <2>4. ASSUME dev.op = host.op PROVE FALSE
    <3>1. slot.req.id # 0
      BY <2>1, <2>3, <2>4, <1>b, <1>t DEF Pieces, AskedSlot, Closed, IsCommit, Live
    <3> QED BY <3>1, <2>1, <2>3 DEF Pieces, LastInv
  <2> QED BY <2>2, <2>4
<1>15. AskedRan'
    BY <1>s, <1>t, <1>b, <1>10, <1>k DEF AskedRan, SlotAnswers, CommitOk
<1>16. AskedAnswers' /\ AskedPend'
  <2>1. \A b : CommitOk(b) => (CommitOk(b))'
    BY <1>9, <1>k DEF CommitOk
  <2> QED BY <2>1, <1>k DEF AskedAnswers, AskedPend, Pieces
<1>17. ConfirmInv'
    BY <1>t, <1>k DEF ConfirmInv, Pieces
<1>18. SelectedAnswers' /\ SelectedPend'
  <2>1. /\ \A i \in 1 .. Len(d2h) : d2h[i].body.op \in Nat
        /\ \A i \in 1 .. Len(pend) : pend[i].op \in Nat
    BY DEF Shapes, Contents
  <2>2. \A o \in Nat : o <= boot.op => o <= boot'.op
    BY <1>n, <1>o, <1>u
  <2> QED BY <2>1, <2>2, <1>k DEF SelectedAnswers, SelectedPend, Selected, Pieces
<1>19. SelectedSlot' /\ SelectedDev'
  <2>1. dev.op <= boot'.op /\ dev'.op <= boot'.op
    BY <1>n, <1>d, <1>u
  <2> QED BY <2>1, <1>s, <1>t, <1>d, <1>j DEF SelectedSlot, SelectedDev, Selected
<1>20. SelectedResult'
  <2>1. SUFFICES ASSUME result.how \in {"answer", "status"} PROVE dev.op = result.op
    BY <1>k, <1>u DEF SelectedResult
  <2>2. boot.op = result.op /\ result.op = host.op
    BY <2>1 DEF Pieces, SelectedResult, ResultRange
  <2> QED BY <2>2, <1>o, <1>n
<1>21. ImageInv'
  <2>1. dev.written = Image(dev.op)
    BY <1>t, BoundaryImage
  <2> QED BY <2>1, <1>u, <1>k DEF ImageInv, Image
<1> QED BY <1>1, <1>2, <1>3, <1>4, <1>5, <1>6, <1>7, <1>12, <1>13, <1>14, <1>15, <1>16, <1>17,
       <1>18, <1>19, <1>20, <1>21, Zenon DEF Pieces

\* The loop after a step keeps the invariant when the update is over, or no cancel was asked.
LEMMA ClearsKeep ==
    ASSUME Pieces, Shapes, Shapes', Clears, SlotGood', Closed', slot'.answer = slot.answer,
           slot'.stage \in {"ran", "done", "idle"},
           (slot'.req = slot.req /\ slot'.stage # "idle") \/ slot'.req.id = 0,
           DevInv', SelectedDev', job'.op = job.op,
           ~Active' \/ (dev' = dev /\ ~cancel)
    PROVE  Pieces'
<1>k. /\ kind' = kind /\ Parts' = Parts /\ window' = window /\ alive' = alive
      /\ host' = host /\ pend' = pend /\ result' = result /\ h2d' = h2d /\ d2h' = d2h
      /\ boot' = boot /\ slot.stage = "ran"
    BY DEF Clears, SessionStays, HostStays, Parts
<1>a. ~Live' /\ ~Live /\ (Active' => Active)
    BY <1>k DEF Live, Active
<1>1. /\ HostRange' /\ PendRange' /\ PendGood' /\ ResultRange' /\ RequestsGood' /\ AnswersGood'
      /\ CurrentQueue' /\ CurrentAnswers' /\ QueueOrder' /\ OwnOrder'
    BY <1>k, StillLink
<1>2. CurrentSlot' /\ LastInv' /\ OnceAnswers' /\ OncePend'
    BY <1>k DEF CurrentSlot, Current, Suits, LastInv, OnceAnswers, OncePend, NoneAsked, Pieces
<1>3. QueueOps' /\ SlotAhead' /\ SlotOps' /\ OwnSlot' /\ OwnAhead' /\ AskedSlot' /\ BoundaryInv'
    BY <1>a, <1>k DEF QueueOps, SlotAhead, SlotOps, OwnSlot, OwnAhead, AskedSlot, BoundaryInv,
       Pieces
<1>4. DevAhead' /\ OwnQueue' /\ BootOps' /\ WrittenInv'
    BY <1>a, <1>k DEF DevAhead, OwnQueue, Owned, BootOps, WrittenInv, Pieces
<1>5. (NoBegin => NoBegin') /\ (NoCommit => NoCommit')
    BY <1>a, <1>k DEF NoBegin, NoCommit, IsCommit
<1>6. (SlotAnswers' => SlotAnswers) /\ (OkAnswer' => OkAnswer)
    BY <1>k DEF OkAnswer, SlotAnswers
<1>7. BegunInv' /\ OursInv' /\ JobInv'
    BY <1>5, <1>6, <1>a, <1>k DEF BegunInv, OursInv, JobInv, HasBegun, Pieces
<1>8. CommitInv' /\ AskedQueue'
    BY <1>5, <1>k DEF CommitInv, AskedQueue, IsCommit, Pieces
<1>9. AskedRan' /\ AskedAnswers' /\ AskedPend'
  <2>1. \A b : CommitOk(b) => (CommitOk(b))'
    BY <1>5, <1>k DEF CommitOk
  <2> QED BY <2>1, <1>6, <1>k DEF AskedRan, AskedAnswers, AskedPend, Pieces
<1>10. ConfirmInv' /\ SelectedAnswers' /\ SelectedPend' /\ SelectedResult' /\ ImageInv' /\ SelectedSlot'
    BY <1>k DEF ConfirmInv, SelectedAnswers, SelectedPend, SelectedResult, SelectedSlot, Selected,
       ImageInv, Image, Pieces
<1>11. FreedInv'
    BY <1>6, <1>a, <1>k DEF FreedInv, Pieces
<1> QED BY <1>1, <1>2, <1>3, <1>4, <1>7, <1>8, <1>9, <1>10, <1>11, Zenon DEF Pieces

\* Nothing was asked for meanwhile.
LEMMA ClearDoneKeeps ==
    ASSUME Typed, Pieces, Shapes, Shapes', ClearDone
    PROVE  Pieces'
<1>1. /\ Clears /\ ~cancel /\ ~abandoned /\ dev' = dev /\ job' = job /\ kind' = kind /\ host' = host
      /\ boot' = boot /\ alive' = alive /\ abandoned' = FALSE /\ slot.stage = "ran"
    BY DEF ClearDone, Clears, SessionStays, HostStays
<1>2. slot'.stage = "done" /\ slot'.req = slot.req /\ slot'.answer = slot.answer
    BY DEF ClearDone, Typed, DeviceTyped, SlotSet
<1>3. Parts' = Parts
    BY <1>1 DEF Parts
<1>4. SlotGood'
    BY <1>1, <1>2, <1>3 DEF SlotGood, GoodRequest, GoodBody, Pieces
<1>5. Closed'
    BY <1>1 DEF Closed, Pieces
<1>6. DevInv' /\ SelectedDev'
    BY <1>1, <1>3 DEF DevInv, SelectedDev, Selected, Active, Pieces
<1> QED BY <1>1, <1>2, <1>4, <1>5, <1>6, ClearsKeep

\* A cancel that came meanwhile ends the update.
LEMMA ClearCancelledKeeps ==
    ASSUME Typed, Pieces, Shapes, Shapes', ClearCancelled
    PROVE  Pieces'
<1>1. /\ Clears /\ ~abandoned /\ OverIfActive /\ slot' = slot /\ kind' = kind /\ host' = host
      /\ boot' = boot /\ alive' = alive /\ abandoned' = FALSE /\ slot.stage = "ran"
      /\ h2d' = h2d /\ d2h' = d2h
    BY DEF ClearCancelled, Clears, SessionStays, HostStays
<1>2. ~Active' /\ DevInv' /\ SelectedDev'
    BY <1>1, OverIfActiveKeeps
<1>3. Parts' = Parts /\ job'.op = job.op
    BY <1>1 DEF Parts, OverIfActive, Over
<1>4. SlotGood'
    BY <1>1, <1>3 DEF SlotGood, GoodRequest, GoodBody, Pieces
<1>5. Closed'
    BY <1>1 DEF Closed, Pieces
<1> QED BY <1>1, <1>2, <1>3, <1>4, <1>5, ClearsKeep

\* The end of the session that came meanwhile ends the update and frees the slot.
LEMMA ClearAbandonedKeeps ==
    ASSUME Typed, Pieces, Shapes, Shapes', ClearAbandoned
    PROVE  Pieces'
<1>1. /\ Clears /\ OverIfActive /\ kind' = kind /\ host' = host
      /\ boot' = boot /\ alive' = alive /\ slot.stage = "ran" /\ h2d' = h2d /\ d2h' = d2h
    BY DEF ClearAbandoned, Clears, SessionStays, HostStays
<1>2. /\ slot'.stage = "idle" /\ slot'.req = NoRequest /\ slot'.answer = slot.answer
      /\ slot'.req.id = 0 /\ slot'.req.type = "none"
    BY FreeSlotIs DEF ClearAbandoned, Typed, DeviceTyped, SlotSet
<1>3. ~Active' /\ DevInv' /\ SelectedDev'
    BY <1>1, OverIfActiveKeeps
<1>4. Parts' = Parts /\ job'.op = job.op
    BY <1>1 DEF Parts, OverIfActive, Over
<1>5. SlotGood'
    BY <1>1, <1>2, <1>4, NoRequestGood DEF SlotGood, GoodRequest, GoodBody, Pieces
<1>6. Closed'
    BY <1>1, <1>2 DEF Closed, Pieces
<1> QED BY <1>1, <1>2, <1>3, <1>4, <1>5, <1>6, ClearsKeep

-----------------------------------------------------------------------------
(* The theorems *)

\* Every effect keeps the invariant.
LEMMA MovesKeep ==
    ASSUME TransferInv, Moves
    PROVE  TransferInv'
<1>1. Typed /\ Pieces
    BY DEF TransferInv
<1>2. Typed'
    BY MovesTyped
<1>3. Shapes /\ Shapes'
    BY <1>1, <1>2, TypedShapes, TypedShapesNext
<1>4. ASSUME HostMoves PROVE Pieces'
  <2>1. CASE AskBegin BY <1>1, <1>3, <2>1, AskBeginKeeps
  <2>2. CASE AskAgain BY <1>1, <1>3, <2>2, AskAgainKeeps
  <2>3. CASE AskFirst BY <1>1, <1>3, <2>3, AskFirstKeeps
  <2>4. CASE AskNext BY <1>1, <1>3, <2>4, AskNextKeeps
  <2>5. CASE AskConfirm BY <1>1, <1>3, <2>5, AskConfirmKeeps
  <2>6. CASE AskCancel BY <1>1, <1>3, <2>6, AskCancelKeeps
  <2>7. CASE EndEarly BY <1>1, <1>3, <2>7, EndEarlyKeeps
  <2>8. CASE EndAnswered BY <1>1, <1>3, <2>8, EndAnsweredKeeps
  <2>9. CASE EndConfirmed BY <1>1, <1>3, <2>9, EndConfirmedKeeps
  <2>10. CASE EndCancelled BY <1>1, <1>3, <2>10, EndCancelledKeeps
  <2>11. CASE EndBroken BY <1>1, <1>3, <2>11, EndBrokenKeeps
  <2> QED BY <1>4, <2>1, <2>2, <2>3, <2>4, <2>5, <2>6, <2>7, <2>8, <2>9, <2>10,
     <2>11 DEF HostMoves
<1>5. ASSUME LinkMoves PROVE Pieces'
  <2>1. CASE Receives BY <1>1, <1>3, <2>1, ReceivesKeeps
  <2>2. CASE LoseRequest BY <1>1, <1>3, <2>2, LoseRequestKeeps
  <2>3. CASE LoseAnswer BY <1>1, <1>3, <2>3, LoseAnswerKeeps
  <2>4. CASE BreakAbandons BY <1>1, <1>3, <2>4, BreakAbandonsKeeps
  <2>5. CASE BreakQueues BY <1>1, <1>3, <2>5, BreakQueuesKeeps
  <2>6. CASE BreakIdle BY <1>1, <1>3, <2>6, BreakIdleKeeps
  <2>7. CASE BreakReboot BY <1>1, <1>3, <2>7, BreakRebootKeeps
  <2>8. CASE Reconnects BY <1>1, <1>3, <2>8, ReconnectsKeeps
  <2> QED BY <1>5, <2>1, <2>2, <2>3, <2>4, <2>5, <2>6, <2>7, <2>8 DEF LinkMoves
<1>6. ASSUME DeviceMoves PROVE Pieces'
  <2>1. CASE ReplyJob BY <1>1, <1>3, <2>1, ReplyJobKeeps
  <2>2. CASE ReplyStatus BY <1>1, <1>3, <2>2, ReplyStatusKeeps
  <2>3. CASE ReplyCancel BY <1>1, <1>3, <2>3, ReplyCancelKeeps
  <2>4. CASE ReplyRefused BY <1>1, <1>3, <2>4, ReplyRefusedKeeps
  <2>5. CASE Enqueues BY <1>1, <1>3, <2>5, EnqueuesKeeps
  <2>6. CASE RunRefused BY <1>1, <1>3, <2>6, RunRefusedKeeps
  <2>7. CASE RunTold BY <1>1, <1>3, <2>7, RunToldKeeps
  <2>8. CASE RunBegin BY <1>1, <1>2, <1>3, <2>8, RunBeginKeeps
  <2>9. CASE RunOpen BY <1>1, <1>2, <1>3, <2>9, RunOpenKeeps
  <2>10. CASE RunData BY <1>1, <1>2, <1>3, <2>10, RunDataKeeps
  <2>11. CASE RunClose BY <1>1, <1>2, <1>3, <2>11, RunCloseKeeps
  <2>12. CASE RunBoundary BY <1>1, <1>3, <2>12, RunBoundaryKeeps
  <2>13. CASE RunEnds BY <1>1, <1>3, <2>13, RunEndsKeeps
  <2>14. CASE Selects BY <1>1, <1>3, <2>14, SelectsKeeps
  <2>15. CASE ClearDone BY <1>1, <1>3, <2>15, ClearDoneKeeps
  <2>16. CASE ClearCancelled BY <1>1, <1>3, <2>16, ClearCancelledKeeps
  <2>17. CASE ClearAbandoned BY <1>1, <1>3, <2>17, ClearAbandonedKeeps
  <2>18. CASE Drains BY <1>1, <1>3, <2>18, DrainsKeeps
  <2> QED BY <1>6, <2>1, <2>2, <2>3, <2>4, <2>5, <2>6, <2>7, <2>8, <2>9, <2>10, <2>11, <2>12,
     <2>13,
         <2>14, <2>15, <2>16, <2>17, <2>18 DEF DeviceMoves
<1> QED BY <1>2, <1>4, <1>5, <1>6 DEF Moves, TransferInv

\* The first states.
LEMMA InitTyped ==
    ASSUME Init
    PROVE  Typed
<1>1. kind \in {"ota", "system"} /\ window \in Nat \ {0}
    BY TransferAssumption DEF Init
<1>2. /\ host \in HostSet /\ result \in ResultSet /\ alive \in BOOLEAN
    BY DEF Init, HostSet, Places, ResultSet, Hows
<1>3. pend \in Seq(BodySet) /\ h2d \in Seq(RequestSet) /\ d2h \in Seq(AnswerSet)
    BY DEF Init
<1>4. \A S : <<>> \in Seq(S)
    OBVIOUS
<1>5. dev \in DevSet
    BY <1>4 DEF Init, Off, DevSet, DevPhases
<1>6. boot \in BootSet /\ job \in JobSet /\ cancel \in BOOLEAN /\ abandoned \in BOOLEAN
    BY <1>4 DEF Init, BootSet, JobSet
<1>7. slot \in SlotSet
  <2>1. NoRequest \in RequestSet
    BY DEF NoRequest, RequestSet, RequestTypes
  <2> QED BY <2>1, RefusedIs DEF Init, FreeSlot, SlotSet, Stages
<1> QED BY <1>1, <1>2, <1>3, <1>5, <1>6, <1>7 DEF Typed, HostTyped, LinkTyped, DeviceTyped

\* The invariant holds before the first update.
LEMMA InitPieces ==
    ASSUME Init
    PROVE  TransferInv
<1>t. Typed
    BY InitTyped
<1>s. Shapes
    BY <1>t, TypedShapes
<1>h. /\ host.at = "idle" /\ host.op = 0 /\ host.comp = 0 /\ host.offset = 0
      /\ pend = <<>> /\ result.op = 0 /\ result.how = "none" /\ result.freed = FALSE
      /\ alive = TRUE /\ h2d = <<>> /\ d2h = <<>> /\ boot.op = 0
      /\ kind \in Kinds /\ window \in IF kind = "ota" THEN Windows ELSE {1}
    BY DEF Init
<1>d. /\ dev.op = 0 /\ dev.phase = "idle" /\ dev.comp = 0 /\ dev.received = 0
      /\ job.op = 0 /\ job.state = "none"
    BY DEF Init, Off
<1>f. /\ slot.stage = "idle" /\ slot.req = NoRequest /\ slot.answer = Refused
      /\ slot.req.id = 0 /\ slot.req.type = "none"
    BY FreeSlotIs DEF Init
<1>n. Len(h2d) = 0 /\ Len(d2h) = 0 /\ Len(pend) = 0
    BY <1>h
<1>q. /\ \A i \in 1 .. Len(h2d) : FALSE
      /\ \A i \in 1 .. Len(d2h) : FALSE
      /\ \A i \in 1 .. Len(pend) : FALSE
    BY <1>n
<1>a. ~Active /\ ~Live
    BY <1>d, <1>f DEF Active, Live
<1>o. ~OkAnswer /\ ~HasBegun
    BY <1>h, <1>q, <1>f DEF OkAnswer, SlotAnswers, HasBegun
<1>m. /\ 0 < Parts /\ 0 <= Parts /\ 0 <= Chunks /\ 0 <= MaxOps /\ 0 <= window /\ 0 <= 0
    BY <1>s DEF Shapes, Numbers
<1>1. HostRange /\ ResultRange
  <2>1. kind = "system" => window = 1
    BY <1>h
  <2> QED BY <2>1, <1>h, <1>m DEF HostRange, ResultRange
<1>2. PendRange /\ PendGood /\ RequestsGood /\ AnswersGood /\ Closed
  <2>1. PendRange
    BY <1>h, <1>n, <1>m DEF PendRange
  <2> QED BY <2>1, <1>h, <1>q DEF PendGood, RequestsGood, AnswersGood, Closed
<1>3. SlotGood
    BY <1>f, <1>s, NoRequestGood DEF SlotGood
<1>4. DevInv
    BY <1>a, <1>d, <1>h, <1>m DEF DevInv
<1>5. CurrentQueue /\ CurrentSlot /\ CurrentAnswers /\ LastInv /\ OnceAnswers /\ OncePend
    BY <1>f, <1>n, <1>q DEF CurrentQueue, CurrentSlot, Current, CurrentAnswers, LastInv,
       OnceAnswers,
       OncePend
<1>6. QueueOrder /\ QueueOps /\ SlotAhead /\ DevAhead /\ SlotOps /\ BootOps
    BY <1>a, <1>h, <1>m, <1>q DEF QueueOrder, QueueOps, SlotAhead, DevAhead, SlotOps, BootOps
<1>7. OwnQueue /\ OwnSlot /\ OwnOrder /\ OwnAhead
    BY <1>a, <1>q DEF OwnQueue, OwnSlot, OwnOrder, OwnAhead
<1>8. BegunInv /\ OursInv /\ JobInv /\ FreedInv
    BY <1>o, <1>h DEF BegunInv, OursInv, JobInv, FreedInv
<1>9. CommitInv /\ AskedQueue /\ AskedSlot /\ AskedRan /\ AskedAnswers /\ AskedPend /\ ConfirmInv
    BY <1>h DEF CommitInv, AskedQueue, AskedSlot, AskedRan, AskedAnswers, AskedPend, ConfirmInv
<1>10. SelectedAnswers /\ SelectedPend /\ SelectedSlot /\ SelectedDev /\ SelectedResult
    BY <1>q, <1>f, <1>d, <1>h, RefusedIs
    DEF SelectedAnswers, SelectedPend, SelectedSlot, SelectedDev, SelectedResult, Selected
<1>11. WrittenInv /\ BoundaryInv /\ ImageInv
    BY <1>a, <1>f, <1>h DEF WrittenInv, BoundaryInv, ImageInv
<1> QED BY <1>t, <1>1, <1>2, <1>3, <1>4, <1>5, <1>6, <1>7, <1>8, <1>9, <1>10, <1>11, Zenon
       DEF Pieces, TransferInv

\* Nothing changes.
LEMMA StutterKeeps ==
    ASSUME TransferInv, UNCHANGED vars
    PROVE  TransferInv'
<1>k. /\ kind' = kind /\ window' = window /\ alive' = alive
      /\ host' = host /\ pend' = pend /\ result' = result /\ h2d' = h2d /\ d2h' = d2h
      /\ slot' = slot /\ cancel' = cancel
      /\ dev' = dev /\ job' = job /\ boot' = boot /\ abandoned' = abandoned
    BY DEF vars, hostVars, devVars
<1>p. Pieces /\ Typed /\ Parts' = Parts
    BY <1>k DEF TransferInv, Parts
<1>t. Typed'
    BY <1>k, <1>p DEF Typed, HostTyped, LinkTyped, DeviceTyped
<1>1. /\ HostRange' /\ PendRange' /\ ResultRange' /\ SlotGood' /\ DevInv' /\ CurrentSlot'
      /\ SlotOps' /\ BootOps' /\ OwnSlot' /\ SelectedSlot' /\ SelectedDev' /\ SelectedResult'
      /\ WrittenInv' /\ BoundaryInv' /\ ImageInv'
    BY <1>k, <1>p, StillParts
<1>2. /\ RequestsGood' /\ CurrentQueue' /\ QueueOrder' /\ QueueOps' /\ DevAhead'
      /\ OwnQueue' /\ OwnOrder' /\ AskedQueue' /\ LastInv' /\ SlotAhead' /\ OwnAhead'
      /\ (NoneAsked => NoneAsked') /\ (NoBegin => NoBegin') /\ (NoCommit => NoCommit')
      /\ \A b : CommitOk(b) => (CommitOk(b))'
    BY <1>k, <1>p, SameQueue
<1>3. PendGood' /\ AnswersGood' /\ CurrentAnswers' /\ SelectedAnswers' /\ SelectedPend' /\ ConfirmInv'
    BY <1>k, <1>p DEF PendGood, AnswersGood, GoodBody, CurrentAnswers, SelectedAnswers,
       SelectedPend,
       Selected, ConfirmInv, Pieces
<1>4. OnceAnswers' /\ OncePend' /\ Closed'
    BY <1>2, <1>k, <1>p DEF OnceAnswers, OncePend, Closed, Pieces
<1>5. OkAnswer' => OkAnswer
    BY <1>k DEF OkAnswer, SlotAnswers
<1>6. BegunInv' /\ OursInv' /\ JobInv'
    BY <1>5, <1>2, <1>k, <1>p DEF BegunInv, OursInv, JobInv, HasBegun, Active, Pieces
<1>7. CommitInv' /\ FreedInv'
    BY <1>5, <1>2, <1>k, <1>p DEF CommitInv, FreedInv, Active, Pieces
<1>8. AskedRan' /\ AskedSlot'
    BY <1>2, <1>k, <1>p DEF AskedRan, AskedSlot, SlotAnswers, IsCommit, Live, Pieces
<1>9. AskedAnswers' /\ AskedPend'
    BY <1>2, <1>k, <1>p DEF AskedAnswers, AskedPend, Pieces
<1> QED BY <1>t, <1>1, <1>2, <1>3, <1>4, <1>6, <1>7, <1>8, <1>9, Zenon DEF Pieces, TransferInv

\* The invariant holds in every state of the transfer.
THEOREM TransferInvariant == Spec => []TransferInv
<1>1. Init => TransferInv
    BY InitPieces
<1>2. TransferInv /\ [Next]_vars => TransferInv'
    BY NextMoves, MovesKeep, StutterKeeps
<1> QED BY <1>1, <1>2, PTL DEF Spec

\* What an active update has written is a prefix of its image.
LEMMA WrittenPrefix ==
    ASSUME Typed, Pieces, Shapes, Active
    PROVE  dev.written = SubSeq(Image(dev.op), 1, dev.comp * Chunks + dev.received)
<1> DEFINE m == dev.comp * Chunks + dev.received
           n == Parts * Chunks
           e(i) == <<dev.op, (i - 1) \div Chunks, (i - 1) % Chunks>>
           img == Image(dev.op)
<1>1. /\ Chunks \in Nat \ {0} /\ Parts \in Nat /\ dev.comp \in Nat /\ dev.received \in Nat
      /\ dev.op \in Nat
    BY DEF Shapes, Numbers
<1>2. m \in Nat /\ n \in Nat /\ m <= n
  <2>1. dev.comp * Chunks \in Nat /\ n \in Nat
    BY <1>1
  <2>2. CASE dev.comp < Parts
    <3>1. dev.comp * Chunks + Chunks = (dev.comp + 1) * Chunks
      BY <1>1, NextPlace
    <3>2. (dev.comp + 1) * Chunks <= Parts * Chunks
      BY <1>1, <2>2
    <3>3. dev.received <= Chunks
      BY DEF Pieces, DevInv
    <3> QED BY <1>1, <2>1, <3>1, <3>2, <3>3
  <2>3. CASE ~(dev.comp < Parts)
    <3>1. dev.comp = Parts /\ dev.received = 0
      BY <2>3 DEF Pieces, DevInv, Active
    <3> QED BY <1>1, <2>1, <3>1
  <2> QED BY <2>2, <2>3
<1>3. Len(dev.written) = m /\ \A i \in 1 .. m : dev.written[i] = e(i)
    BY DEF Pieces, WrittenInv
<1>4. dev.written \in Seq(ChunkSet)
    BY DEF Typed, DeviceTyped, DevSet
<1>5. img = [i \in 1 .. n |-> e(i)]
    BY DEF Image
<1>6. \A i \in 1 .. n : e(i) \in ChunkSet
  <2>1. SUFFICES ASSUME NEW i \in 1 .. n PROVE e(i) \in ChunkSet
    OBVIOUS
  <2>2. i - 1 \in Nat
    BY <1>2
  <2>3. (i - 1) \div Chunks \in Nat /\ (i - 1) % Chunks \in Nat
    BY <1>1, <2>2
  <2> QED BY <1>1, <2>3 DEF ChunkSet
<1> HIDE DEF m, n, e, img
<1>7. img \in Seq(ChunkSet) /\ Len(img) = n /\ \A i \in 1 .. n : img[i] = e(i)
    BY <1>2, <1>5, <1>6
<1>8. 1 \in 1 .. Len(img) + 1 /\ m \in 1 - 1 .. Len(img)
    BY <1>2, <1>7
<1>9. /\ SubSeq(img, 1, m) \in Seq(ChunkSet) /\ Len(SubSeq(img, 1, m)) = m
      /\ \A i \in 1 .. m : SubSeq(img, 1, m)[i] = img[i]
    BY <1>2, <1>7, <1>8, SubSeqProperties
<1>10. \A i \in 1 .. m : SubSeq(img, 1, m)[i] = dev.written[i]
    BY <1>2, <1>3, <1>7, <1>9
<1>11. dev.written = SubSeq(img, 1, m)
    BY <1>3, <1>4, <1>9, <1>10, SeqEqual
<1> QED BY <1>11 DEF m, img

\* The state of the host and of the device is in its ranges.
LEMMA TypesHold ==
    ASSUME Typed, Pieces, Shapes
    PROVE  TypeOK
<1>1. /\ host.at \in Places /\ host.op \in Nat /\ host.comp \in Nat /\ host.offset \in Nat
      /\ dev.op \in Nat /\ dev.comp \in Nat /\ dev.received \in Nat /\ Parts \in Nat
      /\ MaxOps \in Nat /\ Chunks \in Nat /\ slot.stage \in Stages
    BY DEF Shapes, Numbers, Words
<1>2. host.op \in 0 .. MaxOps /\ host.comp \in 0 .. Parts - 1 /\ host.offset \in 0 .. Chunks
  <2>1. host.op <= MaxOps /\ host.comp < Parts /\ host.offset <= Chunks
    BY DEF Pieces, HostRange
  <2> QED BY <1>1, <2>1
<1>3. dev.op \in 0 .. MaxOps /\ dev.comp \in 0 .. Parts /\ dev.received \in 0 .. Chunks
  <2>1. dev.op <= host.op /\ dev.comp <= Parts /\ dev.received <= Chunks
    BY DEF Pieces, DevInv
  <2> QED BY <1>1, <1>2, <2>1
<1>4. Len(pend) <= window
    BY DEF Pieces, PendRange
<1>5. DOMAIN pend = 1 .. Len(pend) /\ DOMAIN h2d = 1 .. Len(h2d)
  <2>1. pend \in Seq(BodySet) /\ h2d \in Seq(RequestSet)
    BY DEF Typed, HostTyped, LinkTyped
  <2> QED BY <2>1, LenProperties
<1>6. ASSUME NEW i \in 1 .. Len(pend) PROVE pend[i] \in Bodies
  <2>1. pend[i] \in BodySet
    BY ElementOfSeq DEF Typed, HostTyped
  <2>2. pend[i].op <= MaxOps /\ pend[i].comp <= Parts /\ pend[i].received <= Chunks
    BY DEF Pieces, PendGood, GoodBody
  <2>3. /\ pend[i].op \in Nat /\ pend[i].comp \in Nat /\ pend[i].received \in Nat
    BY <2>1 DEF BodySet
  <2>4. pend[i].op \in 0 .. MaxOps /\ pend[i].comp \in 0 .. Parts /\ pend[i].received \in 0 .. Chunks
    BY <1>1, <2>2, <2>3
  <2> QED BY <2>1, <2>4 DEF BodySet, Bodies, Phases
<1>7. ASSUME NEW i \in 1 .. Len(h2d), h2d[i].type = "DATA" PROVE h2d[i].offset \in 0 .. Chunks - 1
  <2>1. h2d[i].offset \in Nat
    BY DEF Shapes, Contents
  <2>2. h2d[i].offset < Chunks
    BY <1>7 DEF Pieces, RequestsGood, GoodRequest
  <2> QED BY <1>1, <2>1, <2>2
<1>8. result.how \in Hows
    BY DEF Typed, HostTyped, ResultSet
<1> QED BY <1>1, <1>2, <1>3, <1>4, <1>5, <1>6, <1>7, <1>8 DEF TypeOK, Places, Stages, Hows

\* handle_ota, handle_data: for every window, image size and number of faults, the offsets stay in
\* their ranges and what is written is a prefix of the image of the operation.
THEOREM WritesSound == Spec => []WritesAreSound
<1>1. TransferInv => WritesAreSound
    BY TypedShapes, TypesHold, WrittenPrefix DEF TransferInv, WritesAreSound, WrittenIsPrefix
<1> QED BY <1>1, TransferInvariant, PTL

\* ota_update, perform_system_update: a completion that is reported with evidence is one, and so is
\* a definite failure.
THEOREM ResultsAreTrue == Spec => []ResultIsTrue
<1>1. ASSUME TransferInv PROVE ResultIsTrue
  <2>1. Typed /\ Pieces
    BY <1>1 DEF TransferInv
  <2>2. EvidenceIsTrue
    <3>1. SUFFICES ASSUME result.how \in {"answer", "status"}
                   PROVE  boot = [op |-> result.op, written |-> Image(result.op)]
      BY DEF EvidenceIsTrue
    <3>2. boot.op = result.op /\ result.op = host.op /\ host.op >= 1
      BY <2>1, <3>1 DEF Pieces, SelectedResult, ResultRange
    <3>3. boot.op # 0
      BY <3>2
    <3>4. boot.written = Image(boot.op)
      BY <2>1, <3>3 DEF Pieces, ImageInv
    <3>5. boot \in BootSet
      BY <2>1 DEF Typed, DeviceTyped
    <3>6. boot = [op |-> boot.op, written |-> boot.written]
      BY <3>5 DEF BootSet
    <3> QED BY <3>2, <3>4, <3>6
  <2>3. FailureIsDefinite
    BY <2>1 DEF FailureIsDefinite, Pieces, ResultRange, CommitInv, NoCommit
  <2> QED BY <2>2, <2>3 DEF ResultIsTrue
<1> QED BY <1>1, TransferInvariant, PTL

\* A CANCEL that the device acknowledged frees it, also when it met a running step: the update is
\* over once the executor is idle.
THEOREM CancelsRelease == Spec => []AckedCancelReleases
<1>1. TransferInv => AckedCancelReleases
    BY DEF TransferInv, Pieces, FreedInv, AckedCancelReleases, Busy
<1> QED BY <1>1, TransferInvariant, PTL
=============================================================================

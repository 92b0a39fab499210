------------------------- MODULE FileTransferProofs -------------------------
(***************************************************************************)
(* Proofs about FileTransfer, for any size of the file and any number of   *)
(* operations, reads, retries and faults: what an upload or a delete       *)
(* reports is true, an upload leaves nothing behind, and COMMIT's check    *)
(* lets pass only what the upload was allowed to replace.                  *)
(***************************************************************************)
EXTENDS FileTransfer, TLAPS

-----------------------------------------------------------------------------
(* The inductive invariant. *)

\* The slot of the file task and the request of the session: a request the host still
\* waits for is the one in the slot, and only a timeout parts the two.
SlotInv ==
    /\ call.by = "nobody" => call = NoCall
    /\ job.stage = "none" => job = NoJob
    /\ job.stage = "done" => job.st # "none"
    /\ job.mine => /\ job.stage # "none" /\ call.by # "nobody" /\ call.st = "none"
                   /\ call.type = job.type /\ call.stream = job.stream /\ call.off = job.off
    /\ call.st \notin {"none", "busy"} => job.stage = "none"
    /\ (used.late = 0 /\ job.stage # "none") => job.mine

\* A request is the one its caller is at.
CallerInv ==
    /\ call.by = "op" => /\ op.pc \in Asking /\ call.type = TypeOf(op.pc)
                         /\ call.stream = op.stream /\ call.off = op.sent
    /\ call.by = "reader" => reader.pc # "idle" /\ call.type = reader.pc
    /\ call.st # "none" => call.by # "nobody"

\* Every chunk that is asked for lies inside the file.
OffsetInv ==
    /\ (job.stage = "queued" /\ job.type = "write") => job.off < N
    /\ op.pc \in {"open", "write", "check"} => op.sent < N

\* The kind and the stream of an operation follow from where it is, and only one that is
\* done has succeeded.
PlaceInv ==
    /\ op.kind = "delete" => op.stream = 0 /\ op.pc \in {"delete", "done"}
    /\ op.pc \in {"idle", "open"} =>
           op.stream = 0 /\ op.kind = "upload" /\ op.sent = 0 /\ op.again = FALSE
    /\ op.pc = "delete" => op.kind = "delete"
    /\ op.pc \in Asking \ {"open", "delete"} => op.stream # 0
    /\ op.out = "success" => op.pc = "done" /\ (op.kind = "upload" => op.stream # 0)

\* A fresh handle, as WRITE_OPEN leaves it.
FreshHandle(got) ==
    /\ got # 0 /\ handle.kind = "write" /\ handle.stream = got /\ handle.got = 0
    /\ receipt.stream = 0

\* A write handle belongs to the upload that knows its stream: no OPEN and no DELETE of an
\* earlier operation is left in the slot when an upload learns its stream.
StreamInv ==
    /\ (job.stage = "queued" /\ job.type \in {"open", "delete"}) => op.stream = 0
    /\ (op.stream # 0 /\ handle.kind = "write") => handle.stream = op.stream
    /\ (job.stage = "done" /\ job.type = "open" /\ job.st = "ok") => FreshHandle(job.got)
    /\ (call.type = "open" /\ call.st = "ok") => FreshHandle(call.got)

\* One temporary file per write handle, and one per deleted task.
TempsInv == temps = used.killed + IF handle.kind = "write" THEN 1 ELSE 0

\* A write handle was opened on a file that its terms allow to replace.
TermsInv ==
    handle.kind = "write" =>
        /\ handle.existed => handle.terms.over
        /\ handle.terms.match # -1 => handle.existed /\ handle.base = handle.terms.match

\* A request of two steps is a COMMIT that has found its target as WRITE_OPEN left it.
RenamingInv ==
    job.stage = "renaming" =>
        /\ job.type = "commit" /\ Owns("write")
        /\ file.version = handle.seen => Unchanged

\* As long as no etag comes twice, every version has its own.
EtagInv ==
    ~file.weak => /\ file.etag = file.version
                  /\ handle.kind = "write" => handle.base = handle.version

\* No handle knows a version to come.
SeenInv == handle.seen <= file.version

\* The answers that tell the host that its data is in place.
Tells(type, st) == (type = "commit" /\ st = "ok") \/ (type = "status" /\ st = "committed")

\* Nobody but an edit of the application removes what an upload committed.
SuccessInv ==
    (used.edits = 0 /\ op.kind = "upload" /\ op.stream # 0) =>
        \/ file.data = "new"
        \/ /\ ~(receipt.stream = op.stream /\ receipt.state = "committed")
           /\ ~(job.mine /\ job.stage = "done" /\ Tells(job.type, job.st))
           /\ ~(call.by = "op" /\ Tells(call.type, call.st))
           /\ op.pc # "stat" /\ ~(op.pc = "done" /\ op.out = "success")

\* The answer of a request, in the slot or with the host.
Answered(st) ==
    \/ job.stage = "done" /\ job.mine /\ job.st = st
    \/ call.st = st /\ st # "none"
Settled(good) == \A st \in Statuses \ {good} : ~Answered(st)

\* No request outlived its timeout, no session broke, no edit and no hidden file.
Calm == used.late = 0 /\ used.breaks = 0 /\ used.edits = 0 /\ used.blind = 0

Moved == op.pc # "idle" /\ file.version # op.from

\* With nothing but losses and write errors, an operation that changed the file is on
\* its way to success, or to unknown.
MovedInv ==
    (Calm /\ Moved) =>
        /\ op.kind = "upload" => /\ receipt.stream = op.stream /\ receipt.state = "committed"
                                 /\ op.stream # 0 /\ handle.kind # "write"
        /\ \/ /\ op.pc \in {"commit", "commit_again", "delete"}
              /\ call.by = "op" /\ job.stage \notin {"queued", "renaming"} /\ Settled("ok")
           \/ op.pc = "recheck" /\ (call.by = "op" => Settled("committed"))
           \/ op.pc = "stat" /\ (call.by = "op" => Settled("ok"))
           \/ op.pc = "abort" /\ op.out = "unknown"
           \/ op.pc = "done" /\ op.out \in {"unknown", "success"}

\* The losses it takes to get to a place with the handle still open.
Least ==
    IF op.pc = "done" THEN 3
    ELSE IF op.pc = "abort" \/ (op.pc = "check" /\ op.again) THEN 2
    ELSE IF op.pc \in {"check", "recheck", "commit_again"} \/ (op.pc = "write" /\ op.again) THEN 1
    ELSE 0
LostCall == IF call.by = "op" /\ call.st = "none" /\ job.stage = "none" THEN 1 ELSE 0

\* What an answer says of a handle that is still open.
Reports(type, st, got) ==
    /\ type \in {"write", "status"}
    /\ type = "write" => st = "ok" /\ handle.got = op.sent + 1
    /\ type = "status" => st = "active" /\ got = handle.got

\* While no request outlives its timeout, the open handle of an upload is at most one
\* chunk ahead of the host, every answer is true of it, and it is left only by losses.
OpenInv ==
    (used.late = 0 /\ op.stream # 0 /\ handle.kind = "write") =>
        /\ op.pc # "stat"
        /\ op.pc = "write" => \/ handle.got = op.sent
                              \/ /\ handle.got = op.sent + 1
                                 /\ call.by = "op" /\ job.stage # "queued"
        /\ op.pc = "check" => handle.got \in {op.sent, op.sent + 1}
        /\ used.loss >= Least + LostCall
        /\ (call.by = "op" /\ job.stage = "done") => Reports(job.type, job.st, job.got)
        /\ (call.by = "op" /\ call.st # "none") => Reports(call.type, call.st, call.got)

FilesInv ==
    /\ TypeOK /\ SlotInv /\ CallerInv /\ OffsetInv /\ PlaceInv /\ StreamInv
    /\ TempsInv /\ TermsInv /\ RenamingInv /\ EtagInv /\ SeenInv
    /\ SuccessInv /\ MovedInv /\ OpenInv

-----------------------------------------------------------------------------
(* What the steps do to the records. *)

\* Answer: the state, the status and the offset of the request change.
LEMMA AnswerEffect ==
    ASSUME job \in Jobs, NEW st \in Statuses, NEW got \in Nat, Answer(st, got)
    PROVE  /\ job' \in Jobs /\ job'.stage = "done" /\ job'.st = st /\ job'.got = got
           /\ job'.mine = job.mine /\ job'.type = job.type /\ job'.stream = job.stream
           /\ job'.off = job.off
<1>1. job' \in Jobs
    BY Zenon DEF Answer, Jobs
<1>2. job'.stage = "done" /\ job'.st = st /\ job'.got = got /\ job'.mine = job.mine
    BY DEF Answer, Jobs
<1>3. job'.type = job.type /\ job'.stream = job.stream /\ job'.off = job.off
    BY DEF Answer, Jobs
<1> QED BY <1>1, <1>2, <1>3

\* Write: a chunk makes the handle longer.
LEMMA ChunkEffect ==
    ASSUME handle \in Handles, handle.got < N, ChunksAssumption,
           handle' = [handle EXCEPT !.got = @ + 1]
    PROVE  /\ handle' \in Handles /\ handle'.got = handle.got + 1
           /\ handle'.kind = handle.kind /\ handle'.stream = handle.stream
           /\ handle'.base = handle.base /\ handle'.existed = handle.existed
           /\ handle'.terms = handle.terms
           /\ handle'.version = handle.version /\ handle'.seen = handle.seen
<1>1. handle.got + 1 \in 0 .. N
    BY DEF Handles, ChunksAssumption
<1>2. handle' \in Handles
    BY <1>1, Zenon DEF Handles
<1>3. handle'.got = handle.got + 1 /\ handle'.kind = handle.kind /\ handle'.stream = handle.stream
    BY DEF Handles
<1>4. /\ handle'.base = handle.base /\ handle'.existed = handle.existed
      /\ handle'.terms = handle.terms
    BY DEF Handles
<1>5. handle'.version = handle.version /\ handle'.seen = handle.seen
    BY DEF Handles
<1> QED BY <1>2, <1>3, <1>4, <1>5

\* CommitCheck: the request goes on to its rename, and the handle remembers the version.
LEMMA CheckedEffect ==
    ASSUME handle \in Handles, job \in Jobs, file \in Files,
           handle' = [handle EXCEPT !.seen = file.version],
           job' = [job EXCEPT !.stage = "renaming"]
    PROVE  /\ handle' \in Handles /\ handle'.seen = file.version
           /\ handle'.kind = handle.kind /\ handle'.stream = handle.stream
           /\ handle'.got = handle.got /\ handle'.base = handle.base
           /\ handle'.existed = handle.existed /\ handle'.terms = handle.terms
           /\ handle'.version = handle.version
           /\ job' \in Jobs /\ job'.stage = "renaming" /\ job'.mine = job.mine
           /\ job'.type = job.type /\ job'.stream = job.stream /\ job'.off = job.off
           /\ job'.st = job.st
<1>1. file.version \in Nat
    BY DEF Files
<1>2. handle' \in Handles
    BY <1>1, Zenon DEF Handles
<1>3. job' \in Jobs
    BY Zenon DEF Jobs
<1>4. handle'.seen = file.version /\ handle'.kind = handle.kind /\ handle'.stream = handle.stream
    BY DEF Handles
<1>5. handle'.got = handle.got /\ handle'.base = handle.base /\ handle'.existed = handle.existed
    BY DEF Handles
<1>6. handle'.terms = handle.terms /\ handle'.version = handle.version
    BY DEF Handles
<1>7. job'.stage = "renaming" /\ job'.mine = job.mine /\ job'.type = job.type
    BY DEF Jobs
<1>8. job'.stream = job.stream /\ job'.off = job.off /\ job'.st = job.st
    BY DEF Jobs
<1> QED BY <1>2, <1>3, <1>4, <1>5, <1>6, <1>7, <1>8

\* Becomes: a change makes the next version.
LEMMA BecomesEffect ==
    ASSUME file \in Files, NEW data \in {"absent", "local", "new"}, Becomes(data)
    PROVE  /\ file' \in Files /\ file'.data = data /\ file'.version = file.version + 1
           /\ ~file'.weak => ~file.weak /\ file'.etag = file'.version
<1>1. PICK etag \in Etags :
          file' = [data |-> data, etag |-> etag, version |-> file.version + 1,
                   weak |-> file.weak \/ etag # file.version + 1]
    BY DEF Becomes, Etags, Files
<1>2. etag \in Nat /\ file.version + 1 \in Nat
    BY DEF Etags, Files
<1> QED BY <1>1, <1>2 DEF Files

\* Drain: the host has the answer.
LEMMA DeliverEffect ==
    ASSUME call \in Requests, job \in Jobs, call' = [call EXCEPT !.st = job.st, !.got = job.got]
    PROVE  /\ call' \in Requests /\ call'.st = job.st /\ call'.got = job.got
           /\ call'.by = call.by /\ call'.type = call.type /\ call'.stream = call.stream
           /\ call'.off = call.off
<1>1. job.st \in Statuses /\ job.got \in Nat
    BY DEF Jobs
<1>2. call' \in Requests
    BY <1>1, Zenon DEF Requests
<1>3. call'.st = job.st /\ call'.got = job.got /\ call'.by = call.by /\ call'.type = call.type
    BY DEF Requests
<1>4. call'.stream = call.stream /\ call'.off = call.off
    BY DEF Requests
<1> QED BY <1>2, <1>3, <1>4

\* TimesOut: nobody waits for the request that is still in the slot.
LEMMA DropEffect ==
    ASSUME job \in Jobs, job' = [job EXCEPT !.mine = FALSE]
    PROVE  /\ job' \in Jobs /\ job'.mine = FALSE /\ job'.stage = job.stage
           /\ job'.type = job.type /\ job'.stream = job.stream /\ job'.off = job.off
           /\ job'.st = job.st /\ job'.got = job.got
<1>1. job' \in Jobs
    BY Zenon DEF Jobs
<1>2. job'.mine = FALSE /\ job'.stage = job.stage /\ job'.type = job.type
    BY DEF Jobs
<1>3. /\ job'.stream = job.stream /\ job'.off = job.off
      /\ job'.st = job.st /\ job'.got = job.got
    BY DEF Jobs
<1> QED BY <1>1, <1>2, <1>3

\* What stays of an operation while it runs.
SameOp == op'.kind = op.kind /\ op'.from = op.from

\* End, Fails and Sent.
LEMMA EndEffect ==
    ASSUME op \in Ops, NEW outcome \in {"none", "success", "failed", "unknown"}, End(outcome)
    PROVE  /\ op' \in Ops /\ SameOp /\ op'.pc = "done" /\ op'.out = outcome
           /\ op'.stream = op.stream /\ op'.sent = op.sent
<1>1. op' \in Ops
    BY Zenon DEF End, Ops
<1>2. SameOp /\ op'.pc = "done" /\ op'.out = outcome
    BY DEF End, Ops, SameOp
<1>3. op'.stream = op.stream /\ op'.sent = op.sent
    BY DEF End, Ops
<1> QED BY <1>1, <1>2, <1>3

LEMMA FailsEffect ==
    ASSUME op \in Ops, NEW outcome \in {"failed", "unknown"}, Fails(outcome)
    PROVE  /\ op' \in Ops /\ SameOp /\ op'.pc = "abort" /\ op'.out = outcome
           /\ op'.stream = op.stream /\ op'.sent = op.sent
<1>0. "abort" \in Asking
    BY DEF Asking
<1>1. op' \in Ops
    BY <1>0, Zenon DEF Fails, Ops
<1>2. SameOp /\ op'.pc = "abort" /\ op'.out = outcome
    BY DEF Fails, Ops, SameOp
<1>3. op'.stream = op.stream /\ op'.sent = op.sent
    BY DEF Fails, Ops
<1> QED BY <1>1, <1>2, <1>3

LEMMA SentEffect ==
    ASSUME op \in Ops, op.sent < N, Sent
    PROVE  /\ op' \in Ops /\ SameOp /\ op'.out = op.out /\ op'.stream = op.stream
           /\ op'.sent = op.sent + 1 /\ op'.again = FALSE
           /\ \/ op.sent + 1 = N /\ op'.pc = "commit"
              \/ op.sent + 1 < N /\ op'.pc = "write"
<1>1. 0 \in 0 .. MaxTries - 1 /\ op.sent + 1 \in 0 .. N
    BY ChunksAssumption, TriesAssumption DEF Ops
<1>2. (IF op.sent + 1 = N THEN "commit" ELSE "write") \in Asking
    BY DEF Asking
<1>3. op' \in Ops
    BY <1>1, <1>2, Zenon DEF Sent, Ops
<1>4. SameOp /\ op'.out = op.out /\ op'.stream = op.stream
    BY DEF Sent, Ops, SameOp
<1>5. op'.sent = op.sent + 1 /\ op'.again = FALSE
    BY DEF Sent, Ops
<1>6. op'.pc = IF op.sent + 1 = N THEN "commit" ELSE "write"
    BY DEF Sent, Ops
<1> QED BY <1>3, <1>4, <1>5, <1>6, ChunksAssumption DEF Ops

\* An operation goes on to another request: pc, tries and again change, nothing else.
Goes(pc) ==
    /\ op' \in Ops /\ SameOp /\ op'.out = op.out /\ op'.stream = op.stream /\ op'.sent = op.sent
    /\ op'.pc = pc

LEMMA GoesEffect ==
    ASSUME op \in Ops, NEW pc \in Asking
    PROVE  /\ op' = [op EXCEPT !.pc = pc] => Goes(pc) /\ op'.again = op.again
           /\ op' = [op EXCEPT !.pc = pc, !.tries = 0] => Goes(pc) /\ op'.again = op.again
           /\ op' = [op EXCEPT !.pc = pc, !.again = TRUE, !.tries = 0] => Goes(pc) /\ op'.again
<1>0. 0 \in 0 .. MaxTries - 1
    BY TriesAssumption
<1>1. ASSUME op' = [op EXCEPT !.pc = pc] PROVE Goes(pc) /\ op'.again = op.again
  <2>1. op' \in Ops
    BY <1>1, Zenon DEF Ops
  <2>2. SameOp /\ op'.pc = pc /\ op'.out = op.out /\ op'.again = op.again
    BY <1>1 DEF Ops, SameOp
  <2>3. op'.stream = op.stream /\ op'.sent = op.sent
    BY <1>1 DEF Ops
  <2> QED BY <2>1, <2>2, <2>3 DEF Goes
<1>2. ASSUME op' = [op EXCEPT !.pc = pc, !.tries = 0] PROVE Goes(pc) /\ op'.again = op.again
  <2>1. op' \in Ops
    BY <1>0, <1>2, Zenon DEF Ops
  <2>2. SameOp /\ op'.pc = pc /\ op'.out = op.out /\ op'.again = op.again
    BY <1>2 DEF Ops, SameOp
  <2>3. op'.stream = op.stream /\ op'.sent = op.sent
    BY <1>2 DEF Ops
  <2> QED BY <2>1, <2>2, <2>3 DEF Goes
<1>3. ASSUME op' = [op EXCEPT !.pc = pc, !.again = TRUE, !.tries = 0]
      PROVE  Goes(pc) /\ op'.again
  <2>1. op' \in Ops
    BY <1>0, <1>3, Zenon DEF Ops
  <2>2. SameOp /\ op'.pc = pc /\ op'.out = op.out /\ op'.again = TRUE
    BY <1>3 DEF Ops, SameOp
  <2>3. op'.stream = op.stream /\ op'.sent = op.sent
    BY <1>3 DEF Ops
  <2> QED BY <2>1, <2>2, <2>3 DEF Goes
<1> QED BY <1>1, <1>2, <1>3

\* BusyAgain: another try, or the end.
LEMMA BusyEffect ==
    ASSUME op \in Ops, BusyAgain
    PROVE  /\ op' \in Ops /\ SameOp /\ op'.stream = op.stream /\ op'.sent = op.sent
           /\ \/ op'.pc = op.pc /\ op'.out = op.out /\ op'.again = op.again
              \/ op'.pc = "abort" /\ op'.out = "failed"
<1>1. CASE op.tries + 1 = MaxTries
    BY <1>1, FailsEffect DEF BusyAgain
<1>2. CASE op.tries + 1 # MaxTries
  <2>1. op' = [op EXCEPT !.tries = @ + 1]
    BY <1>2 DEF BusyAgain
  <2>2. op.tries + 1 \in 0 .. MaxTries - 1
    BY <1>2, TriesAssumption DEF Ops
  <2>3. op' \in Ops
    BY <2>1, <2>2, Zenon DEF Ops
  <2>4. SameOp /\ op'.pc = op.pc /\ op'.out = op.out /\ op'.again = op.again
    BY <2>1 DEF Ops, SameOp
  <2>5. op'.stream = op.stream /\ op'.sent = op.sent
    BY <2>1 DEF Ops
  <2> QED BY <2>3, <2>4, <2>5
<1> QED BY <1>1, <1>2

\* Reply: what an operation does about the answer of its request.
Replied(st, got) ==
    /\ op' \in Ops /\ SameOp
    /\ op.pc # "open" => op'.stream = op.stream
    /\ \/ op.pc = "open" /\ st = "ok" /\ op'.pc = "write" /\ op'.stream = got
          /\ op'.sent = op.sent /\ op'.again = op.again /\ op'.out = op.out
       \/ /\ op.pc = "open" /\ st # "ok" /\ op'.stream = op.stream /\ op'.sent = op.sent
          /\ op'.pc = "done" /\ op'.out = "failed"
       \/ /\ \/ op.pc = "write" /\ st = "ok"
             \/ op.pc = "check" /\ st \notin {"busy", "error"} /\ got = op.sent + 1
          /\ op'.sent = op.sent + 1 /\ op'.again = FALSE /\ op'.out = op.out
          /\ \/ op.sent + 1 = N /\ op'.pc = "commit"
             \/ op.sent + 1 < N /\ op'.pc = "write"
       \/ /\ op'.sent = op.sent
          /\ \/ op.pc = "write" /\ st # "ok" /\ op'.pc = "abort" /\ op'.out = "failed"
             \/ /\ op.pc \in {"check", "recheck"} /\ st = "busy"
                /\ \/ op'.pc = op.pc /\ op'.out = op.out /\ op'.again = op.again
                   \/ op'.pc = "abort" /\ op'.out = "failed"
             \/ op.pc = "check" /\ st = "error" /\ op'.pc = "abort" /\ op'.out = "failed"
             \/ op.pc = "check" /\ st \notin {"busy", "error"} /\ got = op.sent /\ ~op.again
                /\ op'.pc = "write" /\ op'.again /\ op'.out = op.out
             \/ /\ op.pc = "check" /\ st \notin {"busy", "error"}
                /\ got # op.sent + 1 /\ (got = op.sent => op.again)
                /\ op'.pc = "abort" /\ op'.out = "unknown"
             \/ op.pc \in {"commit", "commit_again"} /\ st = "ok"
                /\ op'.pc = "done" /\ op'.out = "success"
             \/ op.pc \in {"commit", "commit_again"} /\ st # "ok"
                /\ op'.pc = "abort" /\ op'.out = "failed"
             \/ op.pc = "recheck" /\ st = "committed" /\ op'.pc = "stat" /\ op'.out = op.out
             \/ op.pc = "recheck" /\ st = "active" /\ op'.pc = "commit_again"
                /\ op'.out = op.out
             \/ op.pc = "recheck" /\ st \notin {"busy", "committed", "active"}
                /\ op'.pc = "abort" /\ op'.out = "failed"
             \/ op.pc \in {"stat", "delete"} /\ op'.pc = "done"
                /\ op'.out = (IF st = "ok" THEN "success" ELSE "failed")
             \/ op.pc = "abort" /\ op'.pc = "done" /\ op'.out = op.out

LEMMA ReplyEffect ==
    ASSUME op \in Ops, NEW st \in Statuses, NEW got \in Nat, Reply(st, got),
           op.pc \in {"write", "check"} => op.sent < N
    PROVE  Replied(st, got)
<1>o. /\ op.out \in {"none", "success", "failed", "unknown"} /\ op.sent \in Nat
      /\ op.again \in BOOLEAN
    BY DEF Ops
<1>1. CASE op.pc = "open"
  <2>1. CASE st = "ok"
    <3>1. op' = [op EXCEPT !.pc = "write", !.stream = got]
        BY <1>1, <2>1 DEF Reply
    <3>2. "write" \in Asking
        BY DEF Asking
    <3>3. op' \in Ops
        BY <3>1, <3>2, Zenon DEF Ops
    <3>4. SameOp /\ op'.pc = "write" /\ op'.stream = got /\ op'.sent = op.sent
          /\ op'.again = op.again /\ op'.out = op.out
        BY <3>1 DEF Ops, SameOp
    <3> QED BY <1>1, <2>1, <3>3, <3>4 DEF Replied
  <2>2. CASE st # "ok"
    <3>1. End("failed")
        BY <1>1, <2>2 DEF Reply
    <3> QED BY <1>1, <2>2, <3>1, EndEffect DEF Replied
  <2> QED BY <2>1, <2>2
<1>2. CASE op.pc = "write"
    BY <1>2, SentEffect, FailsEffect DEF Reply, Replied
<1>3. CASE op.pc = "check"
  <2>1. CASE st = "busy"
    <3>1. BusyAgain
        BY <1>3, <2>1 DEF Reply
    <3> QED BY <1>3, <2>1, <3>1, BusyEffect DEF Replied
  <2>2. CASE st = "error"
    <3>1. Fails("failed")
        BY <1>3, <2>2 DEF Reply
    <3> QED BY <1>3, <2>2, <3>1, FailsEffect DEF Replied
  <2>3. CASE st \notin {"busy", "error"}
    <3>2. CASE got = op.sent + 1
      <4>1. Sent
        BY <1>o, <1>3, <2>3, <3>2 DEF Reply
      <4> QED BY <1>3, <2>3, <3>2, <4>1, SentEffect DEF Replied
    <3>3. CASE got = op.sent /\ ~op.again
      <4>0. got # op.sent + 1
        BY <1>o, <3>3
      <4>1. op' = [op EXCEPT !.pc = "write", !.again = TRUE, !.tries = 0]
        BY <1>3, <2>3, <3>3, <4>0 DEF Reply
      <4>2. Goes("write") /\ op'.again
        BY <4>1, GoesEffect DEF Asking
      <4> QED BY <1>3, <2>3, <3>3, <4>2 DEF Replied, Goes
    <3>4. CASE got # op.sent + 1 /\ ~(got = op.sent /\ ~op.again)
      <4>1. Fails("unknown")
        BY <1>o, <1>3, <2>3, <3>4 DEF Reply
      <4> QED BY <1>3, <2>3, <3>4, <4>1, FailsEffect DEF Replied
    <3> QED BY <3>2, <3>3, <3>4
  <2> QED BY <2>1, <2>2, <2>3
<1>4. CASE op.pc \in {"commit", "commit_again"}
    BY <1>4, EndEffect, FailsEffect DEF Reply, Replied
<1>5. CASE op.pc = "recheck"
  <2>1. CASE st = "busy"
    <3>1. BusyAgain
        BY <1>5, <2>1 DEF Reply, Committed
    <3> QED BY <1>5, <2>1, <3>1, BusyEffect DEF Replied
  <2>2. CASE st = "committed"
    <3>1. op' = [op EXCEPT !.pc = "stat"]
        BY <1>5, <2>2 DEF Reply, Committed
    <3>2. Goes("stat")
        BY <3>1, GoesEffect DEF Asking
    <3> QED BY <1>5, <2>2, <3>2 DEF Replied, Goes
  <2>3. CASE st = "active"
    <3>1. op' = [op EXCEPT !.pc = "commit_again"]
        BY <1>5, <2>3 DEF Reply, Committed
    <3>2. Goes("commit_again")
        BY <3>1, GoesEffect DEF Asking
    <3> QED BY <1>5, <2>3, <3>2 DEF Replied, Goes
  <2>4. CASE st \notin {"busy", "committed", "active"}
    <3>1. Fails("failed")
        BY <1>5, <2>4 DEF Reply, Committed
    <3> QED BY <1>5, <2>4, <3>1, FailsEffect DEF Replied
  <2> QED BY <2>1, <2>2, <2>3, <2>4
<1>6. CASE op.pc \in {"stat", "delete"}
    BY <1>6, EndEffect DEF Reply, Replied
<1>7. CASE op.pc = "abort"
    BY <1>7, <1>o, EndEffect DEF Reply, Replied
<1> QED BY <1>1, <1>2, <1>3, <1>4, <1>5, <1>6, <1>7 DEF Reply

\* AfterTimeout: what an operation does about a request that was not answered.
TimedOut ==
    /\ op' \in Ops /\ SameOp /\ op'.stream = op.stream /\ op'.sent = op.sent
    /\ \/ op.pc = "write" /\ op'.pc = "check" /\ op'.out = op.out /\ op'.again = op.again
       \/ op.pc = "commit" /\ op'.pc = "recheck" /\ op'.out = op.out
       \/ op.pc \in {"check", "recheck", "commit_again"} /\ op'.pc = "abort"
          /\ op'.out = "unknown"
       \/ op.pc = "abort" /\ op'.pc = "done" /\ op'.out = op.out
       \/ op.pc \in {"open", "stat", "delete", "idle", "done"} /\ op'.pc = "done"
          /\ op'.out = "unknown"

LEMMA TimeoutEffect ==
    ASSUME op \in Ops, AfterTimeout
    PROVE  TimedOut
<1>o. op.out \in {"none", "success", "failed", "unknown"}
      /\ op.pc \in Asking \union {"idle", "done"}
    BY DEF Ops
<1>1. CASE op.pc = "write"
  <2>1. op' = [op EXCEPT !.pc = "check", !.tries = 0]
    BY <1>1 DEF AfterTimeout
  <2>2. Goes("check") /\ op'.again = op.again
    BY <2>1, GoesEffect DEF Asking
  <2> QED BY <1>1, <2>2 DEF TimedOut, Goes
<1>2. CASE op.pc = "commit"
  <2>1. op' = [op EXCEPT !.pc = "recheck", !.tries = 0]
    BY <1>2 DEF AfterTimeout
  <2>2. Goes("recheck")
    BY <2>1, GoesEffect DEF Asking
  <2> QED BY <1>2, <2>2 DEF TimedOut, Goes
<1>3. CASE op.pc \in {"check", "recheck", "commit_again"}
  <2>1. Fails("unknown")
    BY <1>3 DEF AfterTimeout
  <2> QED BY <1>3, <2>1, FailsEffect DEF TimedOut
<1>4. CASE op.pc = "abort"
  <2>1. End(op.out)
    BY <1>4 DEF AfterTimeout
  <2> QED BY <1>4, <1>o, <2>1, EndEffect DEF TimedOut
<1>5. CASE op.pc \in {"open", "stat", "delete", "idle", "done"}
  <2>1. End("unknown")
    BY <1>5 DEF AfterTimeout
  <2> QED BY <1>5, <2>1, EndEffect DEF TimedOut
<1> QED BY <1>o, <1>1, <1>2, <1>3, <1>4, <1>5 DEF Asking

\* The records that stand for nothing.
LEMMA NothingIsTyped ==
    /\ NoTerms \in Terms /\ NoHandle \in Handles /\ NoReceipt \in Receipts
    /\ NoJob \in Jobs /\ NoCall \in Requests /\ NoReader \in Readers
<1>1. NoTerms \in Terms
    BY DEF NoTerms, Terms
<1>2. NoHandle \in Handles
    BY <1>1, ChunksAssumption DEF NoHandle, Handles
<1>3. NoJob \in Jobs
    BY <1>1, ChunksAssumption DEF NoJob, Jobs, Types, Statuses
<1>4. NoReceipt \in Receipts /\ NoCall \in Requests /\ NoReader \in Readers
    BY ChunksAssumption DEF NoReceipt, Receipts, NoCall, Requests, NoReader, Readers, Types,
       Statuses
<1> QED BY <1>1, <1>2, <1>3, <1>4

\* Break: an operation that waits fails, and the counters of faults go on.
LEMMA BreakEffect ==
    ASSUME op \in Ops, used \in [Counters -> Nat], Break
    PROVE  /\ op' \in Ops /\ SameOp /\ op'.stream = op.stream
           /\ used' \in [Counters -> Nat] /\ used'.breaks = used.breaks + 1
           /\ used'.edits = used.edits /\ used'.late = used.late
           /\ op.pc \notin Asking => op' = op
           /\ op.pc \in Asking => op'.pc = "done" /\ op'.out = LostSession
           /\ \/ /\ used'.killed = used.killed
                 /\ temps' = IF handle.kind = "write" THEN temps - 1 ELSE temps
              \/ /\ used'.killed = used.killed + IF handle.kind = "write" THEN 1 ELSE 0
                 /\ temps' = temps
<1>1. LostSession \in {"none", "success", "failed", "unknown"}
    BY DEF LostSession, Ops
<1>2. op.pc \in Asking => op' = [op EXCEPT !.pc = "done", !.out = LostSession]
    BY DEF Break
<1>3. op.pc \notin Asking => op' = op
    BY DEF Break
<1>4. op' \in Ops
    BY <1>1, <1>2, <1>3, ZenonT(60) DEF Ops
<1>5. op.pc \in Asking => op'.pc = "done" /\ op'.out = LostSession
    BY <1>2 DEF Ops
<1>6. SameOp /\ op'.stream = op.stream
    BY <1>2, <1>3 DEF Ops, SameOp
<1>7. CASE /\ Fault("breaks")
           /\ temps' = IF handle.kind = "write" THEN temps - 1 ELSE temps
  <2>1. used' = [used EXCEPT !["breaks"] = @ + 1]
    BY <1>7 DEF Fault
  <2>2. /\ used' \in [Counters -> Nat] /\ used'.breaks = used.breaks + 1
        /\ used'.edits = used.edits /\ used'.late = used.late /\ used'.killed = used.killed
    BY <2>1 DEF Counters
  <2> QED BY <1>3, <1>4, <1>5, <1>6, <1>7, <2>2
<1>8. CASE /\ used' = [used EXCEPT !.breaks = @ + 1,
                                  !.killed = IF handle.kind = "write" THEN @ + 1 ELSE @]
           /\ temps' = temps
  <2>1. /\ used'.breaks = used.breaks + 1 /\ used'.edits = used.edits /\ used'.late = used.late
        /\ used'.killed = used.killed + IF handle.kind = "write" THEN 1 ELSE 0
    BY <1>8 DEF Counters
  <2> DEFINE u == [used EXCEPT !.breaks = @ + 1]
  <2>3. u \in [Counters -> Nat] /\ u.killed = used.killed /\ used.killed \in Nat
    BY DEF Counters
  <2>4. used' = [u EXCEPT !.killed = IF handle.kind = "write" THEN used.killed + 1
                                                              ELSE used.killed]
    BY <1>8 DEF Counters
  <2> HIDE DEF u
  <2>2. used' \in [Counters -> Nat]
    BY <2>3, <2>4 DEF Counters
  <2> QED BY <1>3, <1>4, <1>5, <1>6, <1>8, <2>1, <2>2
<1> QED BY <1>7, <1>8 DEF Break

\* Ask, WRITE_OPEN and READ_OPEN, and a submission write a record anew.
LEMMA QueuedIsTyped ==
    ASSUME NEW type \in Types, NEW stream \in Nat, NEW off \in 0 .. N, NEW terms \in Terms
    PROVE  [stage |-> "queued", mine |-> TRUE, type |-> type, stream |-> stream, off |-> off,
            st |-> "none", got |-> 0, terms |-> terms] \in Jobs
    BY DEF Jobs, Statuses

LEMMA OpenedIsTyped ==
    ASSUME NEW kind \in {"read", "write"}, opens \in Nat, NEW base \in Nat,
           NEW existed \in BOOLEAN, NEW terms \in Terms, NEW version \in Nat
    PROVE  [kind |-> kind, stream |-> opens + 1, got |-> 0, base |-> base,
            existed |-> existed, terms |-> terms, version |-> version, seen |-> version]
               \in Handles
    BY ChunksAssumption DEF Handles

LEMMA SubmitsIsTyped ==
    ASSUME file \in Files, NEW pc \in Asking, NEW kind \in {"upload", "delete"},
           NEW terms \in Terms, Submits(pc, kind, terms)
    PROVE  op' \in Ops
    BY ChunksAssumption, TriesAssumption DEF Submits, Ops, Files

\* Every action keeps every part of the invariant.
LEMMA FilesStep == FilesInv /\ [Next]_vars => FilesInv'
<1> SUFFICES ASSUME FilesInv, [Next]_vars PROVE FilesInv'
    OBVIOUS
<1>i. /\ file \in Files /\ handle \in Handles /\ receipt \in Receipts
      /\ job \in Jobs /\ call \in Requests /\ op \in Ops /\ reader \in Readers
      /\ temps \in Nat /\ opens \in Nat /\ used \in [Counters -> Nat]
      /\ SlotInv /\ CallerInv /\ OffsetInv /\ PlaceInv /\ StreamInv
      /\ TempsInv /\ TermsInv /\ RenamingInv /\ EtagInv /\ SeenInv
      /\ SuccessInv /\ MovedInv /\ OpenInv
    BY DEF FilesInv, TypeOK
<1> USE <1>i
<1>1. CASE AskOp
  <2>1. (file \in Files)' /\ (handle \in Handles)' /\ (receipt \in Receipts)' /\ (op \in
     Ops)' /\ (reader \in Readers)' /\ (temps \in Nat /\ opens \in Nat)' /\ PlaceInv' /\
     TermsInv'
    BY <1>1 DEF AskOp, Ask, Calls, Accepted, TypeOf, Fault, MayFail, device, host, NoCall,
       NoJob, PlaceInv, Asking, TermsInv
  <2>2. (job \in Jobs)'
    <3>1. op.terms \in Terms /\ op.stream \in Nat /\ op.sent \in 0 .. N
        BY DEF Ops
    <3>2. TypeOf(op.pc) \in Types
        BY <1>1 DEF AskOp, TypeOf, Types, Asking
    <3>3. \/ job' = job
          \/ job' = [stage |-> "queued", mine |-> TRUE, type |-> TypeOf(op.pc),
                     stream |-> op.stream, off |-> op.sent, st |-> "none", got |-> 0,
                     terms |-> op.terms]
        BY <1>1 DEF AskOp, Ask
    <3> QED BY <3>1, <3>2, <3>3, QueuedIsTyped
  <2>3. (call \in Requests)'
    BY <1>1 DEF AskOp, Ask, Calls, TypeOf, device, host, Types, Statuses, Requests, Ops,
       Asking
  <2>4. (used \in [Counters -> Nat])'
    BY <1>1 DEF AskOp, Ask, Fault, device, host
  <2>5. SlotInv'
    BY <1>1 DEF AskOp, Ask, Calls, Fault, device, host, NoCall, SlotInv, Counters
  <2>6. CallerInv'
    BY <1>1 DEF AskOp, Ask, Calls, device, host, CallerInv
  <2>7. OffsetInv'
    BY <1>1 DEF AskOp, Ask, TypeOf, device, host, OffsetInv
  <2>8. StreamInv'
    BY <1>1 DEF AskOp, Ask, Calls, TypeOf, device, host, StreamInv, FreshHandle, PlaceInv
  <2>9. TempsInv'
    BY <1>1 DEF AskOp, Ask, Fault, device, host, TempsInv, Counters
  <2>10. SuccessInv'
    BY <1>1 DEF AskOp, Ask, Calls, Fault, device, host, SuccessInv, Tells, Counters
  <2>11. MovedInv'
    BY <1>1 DEF AskOp, Ask, Calls, Accepted, Fault, device, host, NoCall, MovedInv, Calm,
       Moved, Settled, Answered, SlotInv, Counters
  <2>12. OpenInv'
    BY <1>1 DEF AskOp, Ask, Calls, Accepted, Fault, device, host, NoCall, OpenInv, Least,
       LostCall, SlotInv, Counters
  <2>r. RenamingInv'
    BY <1>1 DEF AskOp, Ask, device, RenamingInv, Owns, Unchanged, Exists
  <2>t. EtagInv' /\ SeenInv'
    BY <1>1 DEF AskOp, Ask, device, EtagInv, SeenInv
  <2> QED BY <2>r, <2>t, <2>1, <2>2, <2>3, <2>4, <2>5, <2>6, <2>7, <2>8, <2>9, <2>10, <2>11,
     <2>12 DEF
     FilesInv, TypeOK
<1>2. CASE AskReader
  <2>1. (file \in Files)' /\ (handle \in Handles)' /\ (receipt \in Receipts)' /\ (op \in
     Ops)' /\ (reader \in Readers)' /\ (temps \in Nat /\ opens \in Nat)' /\ PlaceInv' /\
     TermsInv'
    BY <1>2 DEF AskReader, Ask, Calls, Accepted, TypeOf, Fault, MayFail, device, host,
       NoCall, NoJob, PlaceInv, Asking, TermsInv
  <2>2. (job \in Jobs)'
    <3>1. op.terms \in Terms /\ reader.stream \in Nat /\ 0 \in 0 .. N
        BY ChunksAssumption DEF Ops, Readers
    <3>2. reader.pc \in Types
        BY <1>2 DEF AskReader, Types, Readers
    <3>3. \/ job' = job
          \/ job' = [stage |-> "queued", mine |-> TRUE, type |-> reader.pc,
                     stream |-> reader.stream, off |-> 0, st |-> "none", got |-> 0,
                     terms |-> op.terms]
        BY <1>2 DEF AskReader, Ask
    <3> QED BY <3>1, <3>2, <3>3, QueuedIsTyped
  <2>3. (call \in Requests)'
    BY <1>2 DEF AskReader, Ask, Calls, device, host, NoCall, Types, Statuses, Requests,
       Readers
  <2>4. (used \in [Counters -> Nat])'
    BY <1>2 DEF AskReader, Ask, Fault, device, host
  <2>5. SlotInv'
    BY <1>2 DEF AskReader, Ask, Calls, Fault, device, host, NoCall, SlotInv, Counters
  <2>6. CallerInv'
    BY <1>2 DEF AskReader, Ask, Calls, device, host, CallerInv
  <2>7. OffsetInv'
    BY <1>2, ChunksAssumption DEF AskReader, Ask, device, host, OffsetInv
  <2>8. StreamInv'
    BY <1>2 DEF AskReader, Ask, Calls, device, host, StreamInv, FreshHandle, Readers
  <2>9. TempsInv'
    BY <1>2 DEF AskReader, Ask, Fault, device, host, TempsInv, Counters
  <2>10. SuccessInv'
    BY <1>2 DEF AskReader, Ask, Calls, Fault, device, host, SuccessInv, Counters
  <2>11. MovedInv'
    BY <1>2 DEF AskReader, Ask, Calls, Fault, device, host, NoCall, MovedInv, Calm, Moved,
       Counters
  <2>12. OpenInv'
    BY <1>2 DEF AskReader, Ask, Calls, Fault, device, host, NoCall, OpenInv, Least,
       LostCall, Counters
  <2>r. RenamingInv'
    BY <1>2 DEF AskReader, Ask, device, RenamingInv, Owns, Unchanged, Exists
  <2>t. EtagInv' /\ SeenInv'
    BY <1>2 DEF AskReader, Ask, device, EtagInv, SeenInv
  <2> QED BY <2>r, <2>t, <2>1, <2>2, <2>3, <2>4, <2>5, <2>6, <2>7, <2>8, <2>9, <2>10, <2>11,
     <2>12 DEF
     FilesInv, TypeOK
<1>3. CASE FileTask /\ job.stage = "queued" /\ WriteOpen
  <2>1. (file \in Files)' /\ (call \in Requests)' /\ (op \in Ops)' /\ (reader \in Readers)'
     /\ (used \in [Counters -> Nat])' /\ CallerInv' /\ PlaceInv'
    BY <1>3 DEF FileTask, WriteOpen, HandleFree, Meets, Exists, NoReceipt, device, host,
       CallerInv, TypeOf, Asking, PlaceInv
  <2>2. (handle \in Handles)'
    <3>1. \/ handle' = handle
          \/ handle' = [kind |-> "write", stream |-> opens + 1, got |-> 0,
                        base |-> file.etag, existed |-> Exists, terms |-> job.terms,
                        version |-> file.version, seen |-> file.version]
        BY <1>3 DEF WriteOpen, device
    <3>2. job.terms \in Terms /\ file.etag \in Nat /\ Exists \in BOOLEAN /\ file.version \in Nat
        BY DEF Jobs, Files, Exists
    <3> QED BY <3>1, <3>2, OpenedIsTyped
  <2>3. (receipt \in Receipts)'
    BY <1>3, ChunksAssumption DEF WriteOpen, NoReceipt, device, host, Receipts
  <2>4. (job \in Jobs)'
    BY <1>3, AnswerEffect DEF WriteOpen, device, host, Statuses
  <2>5. (temps \in Nat /\ opens \in Nat)'
    BY <1>3 DEF WriteOpen, device, host
  <2>6. SlotInv'
    BY <1>3, AnswerEffect DEF FileTask, WriteOpen, device, host, SlotInv, Statuses
  <2>7. OffsetInv'
    BY <1>3, AnswerEffect DEF FileTask, WriteOpen, device, host, OffsetInv, Statuses
  <2>8. StreamInv'
    BY <1>3, AnswerEffect DEF FileTask, WriteOpen, HandleFree, NoReceipt, device, host,
       StreamInv, FreshHandle, Statuses
  <2>9. TempsInv'
    BY <1>3 DEF WriteOpen, HandleFree, device, host, TempsInv, Counters
  <2>10. TermsInv'
    BY <1>3 DEF WriteOpen, Meets, device, host, TermsInv, Terms, Jobs
  <2>11. SuccessInv'
    BY <1>3, AnswerEffect DEF FileTask, WriteOpen, NoReceipt, device, host, SuccessInv,
       Tells, Statuses
  <2>12. MovedInv'
    BY <1>3 DEF FileTask, WriteOpen, device, host, MovedInv, Calm, Moved, Asking, PlaceInv,
       StreamInv
  <2>13. OpenInv'
    BY <1>3 DEF FileTask, WriteOpen, device, host, OpenInv, StreamInv
  <2>r. RenamingInv'
    BY <1>3, AnswerEffect DEF FileTask, WriteOpen, RenamingInv, Owns, Unchanged, Exists,
       SeenInv, device, host, Statuses, Handles, Files
  <2>t. EtagInv'
    BY <1>3, AnswerEffect DEF FileTask, WriteOpen, EtagInv, HandleFree, device, host, Statuses,
       Handles, Files
  <2>v. SeenInv'
    BY <1>3, AnswerEffect DEF FileTask, WriteOpen, SeenInv, device, host, Statuses, Handles, Files
  <2> QED BY <2>r, <2>t, <2>v, <2>1, <2>2, <2>3, <2>4, <2>5, <2>6, <2>7, <2>8, <2>9, <2>10,
     <2>11, <2>12,
     <2>13 DEF FilesInv, TypeOK
<1>4. CASE FileTask /\ job.stage = "queued" /\ Write
  <2>1. (file \in Files)' /\ (call \in Requests)' /\ (op \in Ops)' /\ (reader \in Readers)'
     /\ CallerInv' /\ PlaceInv'
    BY <1>4 DEF FileTask, Write, Refuse, Owns, InOrder, Receipt, CloseHandle, NoHandle,
       Fault, MayFail, device, host, CallerInv, TypeOf, Asking, PlaceInv
  <2>2. (handle \in Handles)'
    <3>1. \/ handle' = handle \/ handle' = NoHandle
          \/ handle.got < N /\ handle' = [handle EXCEPT !.got = @ + 1]
        BY <1>4 DEF Write, Refuse, InOrder, CloseHandle, device, OffsetInv
    <3> QED BY <3>1, ChunksAssumption, ChunkEffect, NothingIsTyped
  <2>3. (receipt \in Receipts)'
    BY <1>4 DEF Write, Refuse, Owns, InOrder, Receipt, device, host, Receipts, Jobs
  <2>4. (job \in Jobs)'
    BY <1>4, AnswerEffect DEF Write, Refuse, InOrder, device, host, Jobs, Statuses
  <2>5. (temps \in Nat /\ opens \in Nat)'
    BY <1>4 DEF Write, Refuse, Owns, device, host, TempsInv, Counters
  <2>6. (used \in [Counters -> Nat])'
    BY <1>4 DEF Write, Refuse, Fault, device, host
  <2>7. SlotInv'
    BY <1>4, AnswerEffect DEF FileTask, Write, Refuse, InOrder, Fault, device, host,
       SlotInv, Jobs, Statuses, Counters
  <2>8. OffsetInv'
    BY <1>4, AnswerEffect DEF FileTask, Write, Refuse, InOrder, device, host, OffsetInv,
       Jobs, Statuses
  <2>9. StreamInv'
    BY <1>4, AnswerEffect DEF FileTask, Write, Refuse, CloseHandle, NoHandle, device, host,
       StreamInv, SlotInv, Handles, Statuses
  <2>10. TempsInv'
    BY <1>4 DEF Write, Refuse, Owns, CloseHandle, NoHandle, Fault, device, host, TempsInv,
       Handles, Counters
  <2>11. TermsInv'
    BY <1>4 DEF Write, Refuse, CloseHandle, NoHandle, device, host, TermsInv, Handles
  <2>12. SuccessInv'
    BY <1>4, AnswerEffect DEF FileTask, Write, Refuse, InOrder, Receipt, Fault, device,
       host, SuccessInv, Tells, Jobs, Statuses, Counters
  <2>13. MovedInv'
    BY <1>4 DEF FileTask, Write, Refuse, Owns, Fault, device, host, MovedInv, Calm, Moved,
       SlotInv, CallerInv, TypeOf, Counters
  <2>14. OpenInv'
    BY <1>4, AnswerEffect DEF FileTask, Write, Refuse, Owns, InOrder, CloseHandle, NoHandle,
       device, host, OpenInv, Least, LostCall, Reports, SlotInv, CallerInv, TypeOf,
       StreamInv, Handles, Statuses, Requests, Readers
  <2>r. RenamingInv'
    BY <1>4, AnswerEffect, ChunkEffect DEF FileTask, Write, Refuse, CloseHandle, NoHandle,
       RenamingInv, Owns, Unchanged, Exists, SeenInv, device, host, Statuses, Handles, Files
  <2>t. EtagInv'
    BY <1>4, AnswerEffect, ChunkEffect DEF FileTask, Write, Refuse, CloseHandle, NoHandle,
       EtagInv, HandleFree, device, host, Statuses, Handles, Files
  <2>v. SeenInv'
    BY <1>4, AnswerEffect, ChunkEffect DEF FileTask, Write, Refuse, CloseHandle, NoHandle,
       SeenInv, device, host, Statuses, Handles, Files
  <2> QED BY <2>r, <2>t, <2>v, <2>1, <2>2, <2>3, <2>4, <2>5, <2>6, <2>7, <2>8, <2>9, <2>10,
     <2>11, <2>12,
     <2>13, <2>14 DEF FilesInv, TypeOK
<1>5. CASE FileTask /\ job.stage = "queued" /\ CommitCheck
  <2>1. (call \in Requests)' /\ (op \in Ops)' /\ (reader \in Readers)' /\ CallerInv' /\
     PlaceInv'
    BY <1>5 DEF FileTask, CommitCheck, Owns, Complete, Unchanged, Exists, Receipt,
       CloseHandle, NoHandle, device, host, CallerInv, TypeOf, Asking,
       PlaceInv
  <2>2. (file \in Files)'
    BY <1>5 DEF CommitCheck, device, host, Files
  <2>3. (handle \in Handles)'
    <3>1. handle' = handle \/ handle' = NoHandle \/ handle' = [handle EXCEPT !.seen = file.version]
        BY <1>5 DEF CommitCheck, CloseHandle, device
    <3> QED BY <1>5, <3>1, NothingIsTyped, CheckedEffect DEF CommitCheck, CloseHandle, device
  <2>4. (receipt \in Receipts)'
    BY <1>5 DEF CommitCheck, Receipt, device, host, Handles, Receipts
  <2>5. (job \in Jobs)'
    BY <1>5, AnswerEffect, CheckedEffect DEF CommitCheck, device, host, Statuses
  <2>6. (temps \in Nat /\ opens \in Nat)'
    BY <1>5 DEF CommitCheck, Owns, device, host, TempsInv, Counters
  <2>7. (used \in [Counters -> Nat])'
    BY <1>5 DEF CommitCheck, device, host
  <2>8. SlotInv'
    BY <1>5, AnswerEffect, CheckedEffect DEF FileTask, CommitCheck, device, host, SlotInv,
       Statuses, Counters
  <2>9. OffsetInv'
    BY <1>5, AnswerEffect, CheckedEffect DEF FileTask, CommitCheck, device, host, OffsetInv,
       Statuses
  <2>10. StreamInv'
    BY <1>5, AnswerEffect, CheckedEffect DEF FileTask, CommitCheck, CloseHandle, NoHandle,
       device, host,
       StreamInv, SlotInv, Statuses
  <2>11. TempsInv'
    BY <1>5, CheckedEffect DEF CommitCheck, Owns, CloseHandle,
       NoHandle, device, host, TempsInv, Counters
  <2>12. TermsInv'
    BY <1>5, CheckedEffect DEF CommitCheck, CloseHandle, NoHandle, device, host, TermsInv
  <2>13. SuccessInv'
    BY <1>5, AnswerEffect, CheckedEffect DEF FileTask, CommitCheck, Receipt, device,
       host, SuccessInv, Tells, Statuses, Counters
  <2>14. MovedInv'
    BY <1>5, AnswerEffect, CheckedEffect DEF FileTask, CommitCheck, Owns, Receipt, CloseHandle,
       NoHandle, device, host, MovedInv, Calm, Moved, Settled, Answered, Statuses,
       SlotInv, CallerInv, TypeOf, PlaceInv, Requests, Readers, Counters
  <2>15. OpenInv'
    BY <1>5, CheckedEffect DEF FileTask, CommitCheck, Owns, CloseHandle, NoHandle, device, host,
       OpenInv, Least, LostCall, SlotInv, CallerInv, StreamInv
  <2>r. RenamingInv'
    BY <1>5, AnswerEffect, CheckedEffect DEF FileTask, CommitCheck, CloseHandle, NoHandle,
       Complete, RenamingInv, Owns, Unchanged, Exists, SeenInv, device, host, Statuses, Handles,
       Files
  <2>t. EtagInv'
    BY <1>5, AnswerEffect, CheckedEffect DEF FileTask, CommitCheck, CloseHandle, NoHandle,
       Complete, EtagInv, HandleFree, device, host, Statuses, Handles, Files
  <2>v. SeenInv'
    BY <1>5, AnswerEffect, CheckedEffect DEF FileTask, CommitCheck, CloseHandle, NoHandle,
       Complete, SeenInv, device, host, Statuses, Handles, Files
  <2> QED BY <2>r, <2>t, <2>v, <2>1, <2>2, <2>3, <2>4, <2>5, <2>6, <2>7, <2>8, <2>9, <2>10,
     <2>11, <2>12,
     <2>13, <2>14, <2>15 DEF FilesInv, TypeOK
<1>6. CASE FileTask /\ job.stage = "queued" /\ Abort
  <2>1. (file \in Files)' /\ (call \in Requests)' /\ (op \in Ops)' /\ (reader \in Readers)'
     /\ (used \in [Counters -> Nat])' /\ CallerInv' /\ PlaceInv'
    BY <1>6 DEF FileTask, Abort, Refuse, Owns, Receipt, CloseHandle, NoHandle, device, host,
       CallerInv, TypeOf, Asking, PlaceInv
  <2>2. (handle \in Handles)'
    BY <1>6, NothingIsTyped DEF Abort, Refuse, CloseHandle, device
  <2>3. (receipt \in Receipts)'
    BY <1>6 DEF Abort, Refuse, Receipt, device, host, Handles, Receipts
  <2>4. (job \in Jobs)'
    BY <1>6, AnswerEffect DEF Abort, Refuse, device, host, Statuses
  <2>5. (temps \in Nat /\ opens \in Nat)'
    BY <1>6 DEF Abort, Refuse, Owns, device, host, TempsInv, Counters
  <2>6. SlotInv'
    BY <1>6, AnswerEffect DEF FileTask, Abort, Refuse, device, host, SlotInv, Statuses
  <2>7. OffsetInv'
    BY <1>6, AnswerEffect DEF FileTask, Abort, Refuse, device, host, OffsetInv, Statuses
  <2>8. StreamInv'
    BY <1>6, AnswerEffect DEF FileTask, Abort, Refuse, CloseHandle, NoHandle, device, host,
       StreamInv, SlotInv, Statuses
  <2>9. TempsInv'
    BY <1>6 DEF Abort, Refuse, Owns, CloseHandle, NoHandle, device, host, TempsInv, Counters
  <2>10. TermsInv'
    BY <1>6 DEF Abort, Refuse, CloseHandle, NoHandle, device, host, TermsInv
  <2>11. SuccessInv'
    BY <1>6, AnswerEffect DEF FileTask, Abort, Refuse, Receipt, device, host, SuccessInv,
       Tells, Statuses
  <2>12. MovedInv'
    BY <1>6 DEF FileTask, Abort, Refuse, Owns, device, host, MovedInv, Calm, Moved, SlotInv,
       CallerInv, TypeOf
  <2>13. OpenInv'
    BY <1>6 DEF FileTask, Abort, Refuse, Owns, CloseHandle, NoHandle, device, host, OpenInv,
       Least, LostCall, SlotInv, CallerInv, StreamInv
  <2>r. RenamingInv'
    BY <1>6, AnswerEffect DEF FileTask, Abort, Refuse, CloseHandle, NoHandle, RenamingInv, Owns,
       Unchanged, Exists, SeenInv, device, host, Statuses, Handles, Files
  <2>t. EtagInv'
    BY <1>6, AnswerEffect DEF FileTask, Abort, Refuse, CloseHandle, NoHandle, EtagInv,
       HandleFree, device, host, Statuses, Handles, Files
  <2>v. SeenInv'
    BY <1>6, AnswerEffect DEF FileTask, Abort, Refuse, CloseHandle, NoHandle, SeenInv, device,
       host, Statuses, Handles, Files
  <2> QED BY <2>r, <2>t, <2>v, <2>1, <2>2, <2>3, <2>4, <2>5, <2>6, <2>7, <2>8, <2>9, <2>10,
     <2>11, <2>12,
     <2>13 DEF FilesInv, TypeOK
<1>7. CASE FileTask /\ job.stage = "queued" /\ WriteStatus
  <2>1. (file \in Files)' /\ (handle \in Handles)' /\ (receipt \in Receipts)' /\ (call \in
     Requests)' /\ (op \in Ops)' /\ (reader \in Readers)' /\ (temps \in Nat /\ opens \in
     Nat)' /\ (used \in [Counters -> Nat])' /\ CallerInv' /\ PlaceInv' /\ TempsInv' /\
     TermsInv'
    BY <1>7 DEF FileTask, WriteStatus, Owns, device, host, CallerInv, TypeOf, Asking,
       PlaceInv, TempsInv, TermsInv
  <2>2. (job \in Jobs)'
    BY <1>7, AnswerEffect DEF WriteStatus, device, host, Handles, Receipts, Statuses
  <2>3. SlotInv'
    BY <1>7, AnswerEffect DEF FileTask, WriteStatus, device, host, SlotInv, Handles,
       Receipts, Statuses
  <2>4. OffsetInv'
    BY <1>7, AnswerEffect DEF FileTask, WriteStatus, device, host, OffsetInv, Handles,
       Receipts, Statuses
  <2>5. StreamInv'
    BY <1>7, AnswerEffect DEF FileTask, WriteStatus, device, host, StreamInv, FreshHandle,
       Handles, Receipts, Statuses
  <2>6. SuccessInv'
    BY <1>7, AnswerEffect DEF FileTask, WriteStatus, device, host, SuccessInv, Tells,
       SlotInv, CallerInv, Handles, Receipts, Statuses, Requests, Readers
  <2>7. MovedInv'
    BY <1>7, AnswerEffect DEF FileTask, WriteStatus, Owns, device, host, MovedInv, Calm,
       Moved, Settled, Answered, Statuses, SlotInv, CallerInv, TypeOf, PlaceInv, Receipts,
       Ops
  <2>8. OpenInv'
    BY <1>7, AnswerEffect DEF FileTask, WriteStatus, Owns, device, host, OpenInv, Least,
       LostCall, Reports, SlotInv, CallerInv, StreamInv, Handles, Statuses
  <2>r. RenamingInv'
    BY <1>7, AnswerEffect DEF FileTask, WriteStatus, device, RenamingInv, Owns, Unchanged,
       Exists, Statuses, Handles, Receipts
  <2>t. EtagInv' /\ SeenInv'
    BY <1>7 DEF FileTask, WriteStatus, device, EtagInv, SeenInv
  <2> QED BY <2>r, <2>t, <2>1, <2>2, <2>3, <2>4, <2>5, <2>6, <2>7, <2>8 DEF FilesInv, TypeOK
<1>8. CASE FileTask /\ job.stage = "queued" /\ Delete
  <2>1. (handle \in Handles)' /\ (receipt \in Receipts)' /\ (call \in Requests)' /\ (op \in
     Ops)' /\ (reader \in Readers)' /\ (temps \in Nat /\ opens \in Nat)' /\ (used \in
     [Counters -> Nat])' /\ CallerInv' /\ PlaceInv' /\ TempsInv' /\ TermsInv'
    BY <1>8 DEF FileTask, Delete, HandleFree, Exists, device, host, CallerInv, TypeOf,
       Asking, PlaceInv, TempsInv, TermsInv
  <2>2. (file \in Files)'
    BY <1>8, BecomesEffect DEF Delete, device, host
  <2>3. (job \in Jobs)'
    BY <1>8, AnswerEffect DEF Delete, device, host, Statuses
  <2>4. SlotInv'
    BY <1>8, AnswerEffect DEF FileTask, Delete, device, host, SlotInv, Statuses
  <2>5. OffsetInv'
    BY <1>8, AnswerEffect DEF FileTask, Delete, device, host, OffsetInv, Statuses
  <2>6. StreamInv'
    BY <1>8, AnswerEffect DEF FileTask, Delete, device, host, StreamInv, FreshHandle,
       Statuses
  <2>7. SuccessInv'
    BY <1>8 DEF FileTask, Delete, device, host, SuccessInv, StreamInv
  <2>8. MovedInv'
    BY <1>8, AnswerEffect DEF FileTask, Delete, device, host, MovedInv, Calm, Moved,
       Settled, Answered, Statuses, SlotInv, CallerInv, TypeOf, PlaceInv, Requests, Readers
  <2>9. OpenInv'
    BY <1>8 DEF FileTask, Delete, device, host, OpenInv, StreamInv
  <2>r. RenamingInv'
    BY <1>8, AnswerEffect, BecomesEffect DEF FileTask, Delete, RenamingInv, Owns, Unchanged,
       Exists, SeenInv, device, host, Statuses, Handles, Files
  <2>t. EtagInv'
    BY <1>8, AnswerEffect, BecomesEffect DEF FileTask, Delete, EtagInv, HandleFree, device,
       host, Statuses, Handles, Files
  <2>v. SeenInv'
    BY <1>8, AnswerEffect, BecomesEffect DEF FileTask, Delete, SeenInv, device, host, Statuses,
       Handles, Files
  <2> QED BY <2>r, <2>t, <2>v, <2>1, <2>2, <2>3, <2>4, <2>5, <2>6, <2>7, <2>8,
     <2>9 DEF FilesInv, TypeOK
<1>9. CASE FileTask /\ job.stage = "queued" /\ Stat
  <2>1. (file \in Files)' /\ (handle \in Handles)' /\ (receipt \in Receipts)' /\ (call \in
     Requests)' /\ (op \in Ops)' /\ (reader \in Readers)' /\ (temps \in Nat /\ opens \in
     Nat)' /\ (used \in [Counters -> Nat])' /\ CallerInv' /\ PlaceInv' /\ TempsInv' /\
     TermsInv'
    BY <1>9 DEF FileTask, Stat, Exists, device, host, CallerInv, TypeOf, Asking, PlaceInv,
       TempsInv, TermsInv
  <2>2. (job \in Jobs)'
    BY <1>9, AnswerEffect DEF Stat, device, host, Statuses
  <2>3. SlotInv'
    BY <1>9, AnswerEffect DEF FileTask, Stat, device, host, SlotInv, Statuses
  <2>4. OffsetInv'
    BY <1>9, AnswerEffect DEF FileTask, Stat, device, host, OffsetInv, Statuses
  <2>5. StreamInv'
    BY <1>9, AnswerEffect DEF FileTask, Stat, device, host, StreamInv, FreshHandle, Statuses
  <2>6. SuccessInv'
    BY <1>9, AnswerEffect DEF FileTask, Stat, device, host, SuccessInv, Tells, Statuses
  <2>7. MovedInv'
    BY <1>9, AnswerEffect DEF FileTask, Stat, Exists, device, host, MovedInv, Calm, Moved,
       Settled, Answered, Statuses, SlotInv, CallerInv, TypeOf, PlaceInv, SuccessInv, Ops
  <2>8. OpenInv'
    BY <1>9 DEF FileTask, Stat, device, host, OpenInv, Least, LostCall, SlotInv, CallerInv,
       TypeOf
  <2>r. RenamingInv'
    BY <1>9, AnswerEffect DEF FileTask, Stat, device, RenamingInv, Owns, Unchanged, Exists,
       Statuses
  <2>t. EtagInv' /\ SeenInv'
    BY <1>9 DEF FileTask, Stat, device, EtagInv, SeenInv
  <2> QED BY <2>r, <2>t, <2>1, <2>2, <2>3, <2>4, <2>5, <2>6, <2>7, <2>8 DEF FilesInv, TypeOK
<1>10. CASE FileTask /\ job.stage = "queued" /\ Read
  <2>1. (file \in Files)' /\ (receipt \in Receipts)' /\ (call \in Requests)' /\ (op \in
     Ops)' /\ (reader \in Readers)' /\ (used \in [Counters -> Nat])' /\ CallerInv' /\
     PlaceInv'
    BY <1>10 DEF FileTask, Read, Refuse, HandleFree, Exists, Owns, CloseHandle, NoHandle,
       device, host, CallerInv, TypeOf, Asking, PlaceInv
  <2>2. (handle \in Handles)'
    <3>1. \/ handle' = handle \/ handle' = NoHandle
          \/ handle' = [kind |-> "read", stream |-> opens + 1, got |-> 0, base |-> 0,
                        existed |-> FALSE, terms |-> NoTerms, version |-> 0, seen |-> 0]
        BY <1>10 DEF Read, CloseHandle, Refuse, device
    <3> QED BY <3>1, NothingIsTyped, OpenedIsTyped
  <2>3. (job \in Jobs)'
    BY <1>10, AnswerEffect DEF Read, Refuse, device, host, Statuses
  <2>4. (temps \in Nat /\ opens \in Nat)'
    BY <1>10 DEF Read, Refuse, device, host
  <2>5. SlotInv'
    BY <1>10, AnswerEffect DEF FileTask, Read, Refuse, device, host, SlotInv, Statuses
  <2>6. OffsetInv'
    BY <1>10, AnswerEffect DEF FileTask, Read, Refuse, device, host, OffsetInv, Statuses
  <2>7. StreamInv'
    BY <1>10, AnswerEffect DEF FileTask, Read, Refuse, HandleFree, Owns, CloseHandle,
       NoHandle, device, host, StreamInv, FreshHandle, Statuses
  <2>8. TempsInv'
    BY <1>10 DEF Read, Refuse, HandleFree, Owns, CloseHandle, NoHandle, device, host,
       TempsInv
  <2>9. TermsInv'
    BY <1>10 DEF Read, Refuse, CloseHandle, NoHandle, device, host, TermsInv
  <2>10. SuccessInv'
    BY <1>10, AnswerEffect DEF FileTask, Read, Refuse, device, host, SuccessInv, Tells,
       Statuses
  <2>11. MovedInv'
    BY <1>10 DEF FileTask, Read, Refuse, CloseHandle, NoHandle, device, host, MovedInv,
       Calm, Moved, SlotInv, CallerInv, TypeOf
  <2>12. OpenInv'
    BY <1>10 DEF FileTask, Read, Refuse, CloseHandle, NoHandle, device, host, OpenInv,
       Least, LostCall, SlotInv, CallerInv, TypeOf, Asking
  <2>r. RenamingInv'
    BY <1>10, AnswerEffect DEF FileTask, Read, Refuse, CloseHandle, NoHandle, RenamingInv, Owns,
       Unchanged, Exists, SeenInv, device, host, Statuses, Handles, Files
  <2>t. EtagInv'
    BY <1>10, AnswerEffect DEF FileTask, Read, Refuse, CloseHandle, NoHandle, EtagInv,
       HandleFree, device, host, Statuses, Handles, Files
  <2>v. SeenInv'
    BY <1>10, AnswerEffect DEF FileTask, Read, Refuse, CloseHandle, NoHandle, SeenInv, device,
       host, Statuses, Handles, Files
  <2> QED BY <2>r, <2>t, <2>v, <2>1, <2>2, <2>3, <2>4, <2>5, <2>6, <2>7, <2>8, <2>9, <2>10,
     <2>11, <2>12 DEF
     FilesInv, TypeOK
<1>11. CASE Drain
  <2>1. (file \in Files)' /\ (handle \in Handles)' /\ (receipt \in Receipts)' /\ (op \in
     Ops)' /\ (reader \in Readers)' /\ (temps \in Nat /\ opens \in Nat)' /\ PlaceInv' /\
     TermsInv'
    BY <1>11 DEF Drain, NoJob, Fault, MayFail, device, host, PlaceInv, Asking, TermsInv
  <2>2. (job \in Jobs)'
    BY <1>11, ChunksAssumption DEF Drain, NoJob, device, host, Jobs, Types, Statuses, Terms,
       NoTerms
  <2>3. (call \in Requests)'
    BY <1>11, DeliverEffect DEF Drain, device, host
  <2>4. (used \in [Counters -> Nat])'
    BY <1>11 DEF Drain, Fault, device, host
  <2>5. SlotInv'
    BY <1>11, DeliverEffect DEF Drain, NoJob, device, host, SlotInv
  <2>6. CallerInv'
    BY <1>11, DeliverEffect DEF Drain, device, host, CallerInv, SlotInv
  <2>7. OffsetInv'
    BY <1>11 DEF Drain, NoJob, device, host, OffsetInv
  <2>8. StreamInv'
    BY <1>11, DeliverEffect DEF Drain, NoJob, device, host, StreamInv, FreshHandle, SlotInv
  <2>9. TempsInv'
    BY <1>11 DEF Drain, Fault, device, host, TempsInv, Counters
  <2>10. SuccessInv'
    BY <1>11, DeliverEffect DEF Drain, NoJob, Fault, device, host, SuccessInv, SlotInv,
       Counters
  <2>11. MovedInv'
    BY <1>11, ChunksAssumption, DeliverEffect DEF Drain, NoJob, Fault, device, host,
       MovedInv, Calm, Moved, Settled, Answered, Counters
  <2>12. OpenInv'
    BY <1>11, DeliverEffect DEF Drain, NoJob, Fault, device, host, OpenInv, Least, LostCall,
       Reports, SlotInv, Counters
  <2>r. RenamingInv'
    BY <1>11 DEF Drain, device, RenamingInv, Owns, Unchanged, Exists, NoJob
  <2>t. EtagInv' /\ SeenInv'
    BY <1>11 DEF Drain, device, EtagInv, SeenInv
  <2> QED BY <2>r, <2>t, <2>1, <2>2, <2>3, <2>4, <2>5, <2>6, <2>7, <2>8, <2>9, <2>10, <2>11,
     <2>12 DEF
     FilesInv, TypeOK
<1>12. CASE LocalEdit
  <2>1. (handle \in Handles)' /\ (receipt \in Receipts)' /\ (job \in Jobs)' /\ (call \in
     Requests)' /\ (op \in Ops)' /\ (reader \in Readers)' /\ (temps \in Nat /\ opens \in
     Nat)' /\ CallerInv' /\ OffsetInv' /\ PlaceInv' /\ StreamInv' /\ TermsInv'
    BY <1>12 DEF LocalEdit, Fault, MayFail, device, host, CallerInv, TypeOf, Asking,
       OffsetInv, PlaceInv, StreamInv, FreshHandle, TermsInv
  <2>2. (file \in Files)'
    BY <1>12, BecomesEffect DEF LocalEdit
  <2>3. (used \in [Counters -> Nat])'
    BY <1>12 DEF LocalEdit, Fault, device, host, Counters
  <2>4. SlotInv'
    BY <1>12 DEF LocalEdit, Fault, device, host, SlotInv
  <2>5. TempsInv'
    BY <1>12 DEF LocalEdit, Fault, device, host, TempsInv
  <2>6. SuccessInv'
    BY <1>12 DEF LocalEdit, Fault, device, host, SuccessInv, Counters
  <2>7. MovedInv'
    BY <1>12 DEF LocalEdit, Fault, device, host, MovedInv, Calm, Counters
  <2>8. OpenInv'
    BY <1>12 DEF LocalEdit, Fault, device, host, OpenInv, Least, LostCall, Reports
  <2>r. RenamingInv'
    BY <1>12, BecomesEffect DEF LocalEdit, RenamingInv, Owns, Unchanged, Exists, SeenInv,
       device, host, Statuses, Handles, Files
  <2>t. EtagInv'
    BY <1>12, BecomesEffect DEF LocalEdit, EtagInv, HandleFree, device, host, Statuses, Handles,
       Files
  <2>v. SeenInv'
    BY <1>12, BecomesEffect DEF LocalEdit, SeenInv, device, host, Statuses, Handles, Files
  <2> QED BY <2>r, <2>t, <2>v, <2>1, <2>2, <2>3, <2>4, <2>5, <2>6, <2>7, <2>8 DEF FilesInv, TypeOK
<1>13. CASE SubmitUpload
  <2>1. (file \in Files)' /\ (handle \in Handles)' /\ (receipt \in Receipts)' /\ (job \in
     Jobs)' /\ (call \in Requests)' /\ (reader \in Readers)' /\ (temps \in Nat /\ opens \in
     Nat)' /\ TermsInv'
    BY <1>13 DEF SubmitUpload, Idle, Begins, Submits, device, host, TermsInv
  <2>2. (op \in Ops)'
    <3>1. PICK over \in BOOLEAN, match \in {-1, 0} :
              Submits("open", "upload", [over |-> over, match |-> match])
        BY <1>13 DEF SubmitUpload
    <3>2. [over |-> over, match |-> match] \in Terms
        BY DEF Terms
    <3> QED BY <3>1, <3>2, SubmitsIsTyped DEF Asking
  <2>3. (used \in [Counters -> Nat])'
    BY <1>13 DEF SubmitUpload, Begins, device, host, Counters
  <2>4. SlotInv'
    BY <1>13 DEF SubmitUpload, Begins, device, host, SlotInv
  <2>5. CallerInv'
    BY <1>13 DEF SubmitUpload, Idle, device, host, CallerInv, Asking
  <2>6. OffsetInv'
    BY <1>13, ChunksAssumption DEF SubmitUpload, Submits, device, host, OffsetInv
  <2>7. PlaceInv'
    BY <1>13 DEF SubmitUpload, Submits, device, host, PlaceInv
  <2>8. StreamInv'
    BY <1>13 DEF SubmitUpload, Submits, device, host, StreamInv, FreshHandle
  <2>9. TempsInv'
    BY <1>13 DEF SubmitUpload, Begins, device, host, TempsInv
  <2>10. SuccessInv'
    BY <1>13 DEF SubmitUpload, Submits, device, host, SuccessInv
  <2>11. MovedInv'
    BY <1>13 DEF SubmitUpload, Submits, device, host, MovedInv, Moved
  <2>12. OpenInv'
    BY <1>13 DEF SubmitUpload, Submits, device, host, OpenInv
  <2>r. RenamingInv'
    BY <1>13 DEF SubmitUpload, device, RenamingInv, Owns, Unchanged, Exists
  <2>t. EtagInv' /\ SeenInv'
    BY <1>13 DEF SubmitUpload, device, EtagInv, SeenInv
  <2> QED BY <2>r, <2>t, <2>1, <2>2, <2>3, <2>4, <2>5, <2>6, <2>7, <2>8, <2>9, <2>10, <2>11,
     <2>12 DEF
     FilesInv, TypeOK
<1>14. CASE SubmitDelete
  <2>1. (file \in Files)' /\ (handle \in Handles)' /\ (receipt \in Receipts)' /\ (job \in
     Jobs)' /\ (call \in Requests)' /\ (reader \in Readers)' /\ (temps \in Nat /\ opens \in
     Nat)' /\ TermsInv'
    BY <1>14 DEF SubmitDelete, Idle, Begins, Submits, device, host, TermsInv
  <2>2. (op \in Ops)'
    BY <1>14, NothingIsTyped, SubmitsIsTyped DEF SubmitDelete, Asking
  <2>3. (used \in [Counters -> Nat])'
    BY <1>14 DEF SubmitDelete, Begins, device, host, Counters
  <2>4. SlotInv'
    BY <1>14 DEF SubmitDelete, Begins, device, host, SlotInv
  <2>5. CallerInv'
    BY <1>14 DEF SubmitDelete, Idle, device, host, CallerInv, Asking
  <2>6. OffsetInv'
    BY <1>14 DEF SubmitDelete, Submits, device, host, OffsetInv
  <2>7. PlaceInv'
    BY <1>14 DEF SubmitDelete, Submits, device, host, PlaceInv
  <2>8. StreamInv'
    BY <1>14 DEF SubmitDelete, Submits, device, host, StreamInv, FreshHandle
  <2>9. TempsInv'
    BY <1>14 DEF SubmitDelete, Begins, device, host, TempsInv
  <2>10. SuccessInv'
    BY <1>14 DEF SubmitDelete, Submits, device, host, SuccessInv
  <2>11. MovedInv'
    BY <1>14 DEF SubmitDelete, Submits, device, host, MovedInv, Moved
  <2>12. OpenInv'
    BY <1>14 DEF SubmitDelete, Submits, device, host, OpenInv
  <2>r. RenamingInv'
    BY <1>14 DEF SubmitDelete, device, RenamingInv, Owns, Unchanged, Exists
  <2>t. EtagInv' /\ SeenInv'
    BY <1>14 DEF SubmitDelete, device, EtagInv, SeenInv
  <2> QED BY <2>r, <2>t, <2>1, <2>2, <2>3, <2>4, <2>5, <2>6, <2>7, <2>8, <2>9, <2>10, <2>11,
     <2>12 DEF
     FilesInv, TypeOK
<1>15. CASE Returns
  <2>e. Replied(call.st, call.got)
    BY <1>15, ReplyEffect DEF Returns, Requests, OffsetInv
  <2>1. (file \in Files)' /\ (handle \in Handles)' /\ (receipt \in Receipts)' /\ (job \in
     Jobs)' /\ (reader \in Readers)' /\ (temps \in Nat /\ opens \in Nat)' /\ (used \in
     [Counters -> Nat])' /\ TempsInv' /\ TermsInv'
    BY <1>15 DEF Returns, NoCall, device, host, TempsInv, TermsInv
  <2>2. (call \in Requests)'
    BY <1>15, ChunksAssumption DEF Returns, NoCall, device, host, Requests, Types, Statuses
  <2>3. (op \in Ops)'
    BY <1>15, <2>e DEF Returns, device, host, Replied
  <2>4. SlotInv'
    BY <1>15 DEF Returns, NoCall, device, host, SlotInv
  <2>5. CallerInv'
    BY <1>15 DEF Returns, NoCall, device, host, CallerInv
  <2>6. OffsetInv'
    BY <1>15, <2>e DEF Returns, device, host, OffsetInv, Replied
  <2>7. PlaceInv'
    BY <1>15, <2>e DEF Returns, device, host, PlaceInv, Asking, CallerInv, TypeOf,
       StreamInv, FreshHandle, Replied, SameOp
  <2>8. StreamInv'
    BY <1>15, <2>e DEF Returns, NoCall, device, host, StreamInv, FreshHandle, SlotInv,
       CallerInv, TypeOf, Replied
  <2>9. SuccessInv'
    <3>1. /\ call'.by = "nobody" /\ job' = job /\ used' = used /\ file' = file /\ receipt' = receipt
          /\ call.by = "op" /\ call.st # "none" 
        BY <1>15 DEF Returns, NoCall, device
    <3> QED BY <3>1, <2>e DEF SuccessInv, Replied, SameOp, Tells, CallerInv, TypeOf, StreamInv,
       FreshHandle, PlaceInv, SlotInv, Ops
  <2>10. MovedInv'
    BY <1>15, <2>e DEF Returns, NoCall, device, host, MovedInv, Calm, Moved, Settled,
       Answered, Requests, Replied, SameOp
  <2>11. OpenInv'
    <3>1. /\ call'.by = "nobody" /\ call'.st = "none" /\ job' = job /\ used' = used
          /\ handle' = handle /\ call.by = "op" /\ call.st # "none" /\ op.pc \in Asking
          /\ call.type = TypeOf(op.pc) /\ LostCall' = 0 /\ LostCall = 0
        BY <1>15 DEF Returns, NoCall, device, CallerInv, LostCall
    <3>2. op.sent \in Nat /\ handle.got \in Nat /\ used.loss \in Nat
        BY DEF Ops, Handles, Counters
    <3>3. CASE op.pc = "open"
        BY <3>1, <3>2, <3>3, <2>e DEF OpenInv, Replied, Least, TypeOf, StreamInv, FreshHandle,
           PlaceInv
    <3>4. CASE op.pc = "write"
        BY <3>1, <3>2, <3>4, <2>e DEF OpenInv, Replied, Least, TypeOf, Reports
    <3>5. CASE op.pc = "check"
        BY <3>1, <3>2, <3>5, <2>e DEF OpenInv, Replied, Least, TypeOf, Reports
    <3>6. CASE op.pc = "recheck"
        BY <3>1, <3>2, <3>6, <2>e DEF OpenInv, Replied, Least, TypeOf, Reports
    <3>7. CASE op.pc \in {"commit", "commit_again", "stat", "delete", "abort"}
        BY <3>1, <3>2, <3>7, <2>e DEF OpenInv, Replied, Least, TypeOf, Reports
    <3> QED BY <3>1, <3>3, <3>4, <3>5, <3>6, <3>7 DEF Asking
  <2>r. RenamingInv'
    BY <1>15 DEF Returns, device, RenamingInv, Owns, Unchanged, Exists
  <2>t. EtagInv' /\ SeenInv'
    BY <1>15 DEF Returns, device, EtagInv, SeenInv
  <2> QED BY <2>r, <2>t, <2>1, <2>2, <2>3, <2>4, <2>5, <2>6, <2>7, <2>8, <2>9, <2>10, <2>11 DEF
     FilesInv, TypeOK
<1>16. CASE TimesOut
  <2>1. (file \in Files)' /\ (handle \in Handles)' /\ (receipt \in Receipts)' /\ (temps \in
     Nat /\ opens \in Nat)' /\ TermsInv'
    BY <1>16 DEF TimesOut, Gone, NoCall, NoReader, Fault, MayFail, device, host, TermsInv
  <2>2. (job \in Jobs)'
    BY <1>16, ChunksAssumption, TriesAssumption, TimeoutEffect, DropEffect DEF TimesOut,
       Gone, NoCall, NoReader, Fault, MayFail, device, host, Jobs, Types, Statuses, Terms,
       NoTerms, Requests, Ops, Asking, Readers, Counters
  <2>3. (call \in Requests)'
    BY <1>16, ChunksAssumption DEF TimesOut, NoCall, device, host, Types, Requests
  <2>4. (op \in Ops)'
    BY <1>16, TimeoutEffect DEF TimesOut, device, host, TimedOut
  <2>5. (reader \in Readers)'
    BY <1>16 DEF TimesOut, NoReader, device, host, Readers
  <2>6. (used \in [Counters -> Nat])'
    BY <1>16 DEF TimesOut, Fault, device, host
  <2>7. SlotInv'
    BY <1>16 DEF TimesOut, Gone, NoCall, Fault, device, host, SlotInv, Jobs, Counters
  <2>8. CallerInv'
    BY <1>16 DEF TimesOut, NoCall, device, host, CallerInv
  <2>9. OffsetInv'
    BY <1>16, TimeoutEffect DEF TimesOut, device, host, OffsetInv, Jobs, TimedOut
  <2>10. PlaceInv'
    BY <1>16, TimeoutEffect DEF TimesOut, device, host, PlaceInv, Asking, TimedOut, SameOp
  <2>11. StreamInv'
    BY <1>16, TimeoutEffect DEF TimesOut, NoCall, device, host, StreamInv, FreshHandle,
       Jobs, TimedOut
  <2>12. TempsInv'
    BY <1>16 DEF TimesOut, Fault, device, host, TempsInv, Counters
  <2>13. SuccessInv'
    <3>1. /\ call'.by = "nobody" /\ file' = file /\ receipt' = receipt /\ (job'.mine => job' = job)
        BY <1>16, DropEffect DEF TimesOut, NoCall, device
    <3>2. used'.edits = used.edits
        BY <1>16 DEF TimesOut, Fault, Counters
    <3>3. op' = op \/ TimedOut
        BY <1>16, TimeoutEffect DEF TimesOut
    <3> QED BY <3>1, <3>2, <3>3 DEF SuccessInv, PlaceInv, TimedOut, SameOp
  <2>14. MovedInv'
    BY <1>16, TimeoutEffect DEF TimesOut, NoCall, Fault, device, host, MovedInv, Calm,
       Moved, CallerInv, Asking, TimedOut, SameOp
  <2>15. OpenInv'
    BY <1>16, TimeoutEffect DEF TimesOut, Gone, NoCall, Fault, device, host, OpenInv, Least,
       LostCall, SlotInv, PlaceInv, Counters, TimedOut
  <2>r. RenamingInv'
    BY <1>16, DropEffect DEF TimesOut, device, RenamingInv, Owns, Unchanged, Exists
  <2>t. EtagInv' /\ SeenInv'
    BY <1>16 DEF TimesOut, device, EtagInv, SeenInv
  <2> QED BY <2>r, <2>t, <2>1, <2>2, <2>3, <2>4, <2>5, <2>6, <2>7, <2>8, <2>9, <2>10, <2>11,
     <2>12,
     <2>13, <2>14, <2>15 DEF FilesInv, TypeOK
<1>17. CASE StartReading
  <2>1. (file \in Files)' /\ (handle \in Handles)' /\ (receipt \in Receipts)' /\ (job \in
     Jobs)' /\ (call \in Requests)' /\ (op \in Ops)' /\ (temps \in Nat /\ opens \in Nat)' /\
     OffsetInv' /\ PlaceInv' /\ StreamInv' /\ TermsInv'
    BY <1>17 DEF StartReading, Begins, device, host, OffsetInv, PlaceInv, Asking, StreamInv,
       FreshHandle, TermsInv
  <2>2. (reader \in Readers)'
    BY <1>17 DEF StartReading, device, host, Readers
  <2>3. (used \in [Counters -> Nat])'
    BY <1>17 DEF StartReading, Begins, device, host, Counters
  <2>4. SlotInv'
    BY <1>17 DEF StartReading, Begins, device, host, SlotInv
  <2>5. CallerInv'
    BY <1>17 DEF StartReading, device, host, CallerInv
  <2>6. TempsInv'
    BY <1>17 DEF StartReading, Begins, device, host, TempsInv
  <2>7. SuccessInv'
    BY <1>17 DEF StartReading, Begins, device, host, SuccessInv
  <2>8. MovedInv'
    BY <1>17 DEF StartReading, Begins, device, host, MovedInv, Calm, Moved, Settled,
       Answered
  <2>9. OpenInv'
    BY <1>17 DEF StartReading, Begins, device, host, OpenInv, Least, LostCall, Reports
  <2>r. RenamingInv'
    BY <1>17 DEF StartReading, device, RenamingInv, Owns, Unchanged, Exists
  <2>t. EtagInv' /\ SeenInv'
    BY <1>17 DEF StartReading, device, EtagInv, SeenInv
  <2> QED BY <2>r, <2>t, <2>1, <2>2, <2>3, <2>4, <2>5, <2>6, <2>7, <2>8, <2>9 DEF FilesInv, TypeOK
<1>18. CASE ReaderReturns
  <2>1. (file \in Files)' /\ (handle \in Handles)' /\ (receipt \in Receipts)' /\ (job \in
     Jobs)' /\ (op \in Ops)' /\ (temps \in Nat /\ opens \in Nat)' /\ (used \in [Counters ->
     Nat])' /\ OffsetInv' /\ PlaceInv' /\ TempsInv' /\ TermsInv'
    BY <1>18 DEF ReaderReturns, NoCall, NoReader, Shrunk, device, host, OffsetInv, PlaceInv,
       Asking, TempsInv, TermsInv
  <2>2. (call \in Requests)'
    BY <1>18, ChunksAssumption DEF ReaderReturns, NoCall, device, host, Requests, Types,
       Statuses
  <2>3. (reader \in Readers)'
    BY <1>18 DEF ReaderReturns, NoReader, Shrunk, device, host, Requests, Readers
  <2>4. SlotInv'
    BY <1>18 DEF ReaderReturns, NoCall, device, host, SlotInv
  <2>5. CallerInv'
    BY <1>18 DEF ReaderReturns, NoCall, device, host, CallerInv
  <2>6. StreamInv'
    BY <1>18 DEF ReaderReturns, NoCall, device, host, StreamInv, FreshHandle
  <2>7. SuccessInv'
    BY <1>18 DEF ReaderReturns, NoCall, device, host, SuccessInv
  <2>8. MovedInv'
    BY <1>18 DEF ReaderReturns, NoCall, device, host, MovedInv, Calm, Moved
  <2>9. OpenInv'
    BY <1>18 DEF ReaderReturns, NoCall, device, host, OpenInv, Least, LostCall
  <2>r. RenamingInv'
    BY <1>18 DEF ReaderReturns, device, RenamingInv, Owns, Unchanged, Exists
  <2>t. EtagInv' /\ SeenInv'
    BY <1>18 DEF ReaderReturns, device, EtagInv, SeenInv
  <2> QED BY <2>r, <2>t, <2>1, <2>2, <2>3, <2>4, <2>5, <2>6, <2>7, <2>8, <2>9 DEF FilesInv, TypeOK
<1>19. CASE Break
  <2>1. (file \in Files)'
    BY <1>19 DEF Break, NoJob, NoHandle, NoReceipt, NoReader, NoCall, Fault, MayFail
  <2>2. (handle \in Handles)'
    BY <1>19, NothingIsTyped DEF Break
  <2>3. (receipt \in Receipts)'
    BY <1>19, NothingIsTyped DEF Break
  <2>4. (job \in Jobs)'
    BY <1>19, NothingIsTyped DEF Break
  <2>5. (call \in Requests)'
    BY <1>19, NothingIsTyped DEF Break
  <2>6. (op \in Ops)'
    BY <1>19, BreakEffect DEF Break
  <2>7. (reader \in Readers)'
    BY <1>19, NothingIsTyped DEF Break
  <2>8. (temps \in Nat /\ opens \in Nat)'
    BY <1>19 DEF Break, TempsInv, Counters
  <2>9. (used \in [Counters -> Nat])'
    BY <1>19, BreakEffect DEF Break
  <2>10. SlotInv'
    BY <1>19 DEF Break, NoJob, SlotInv
  <2>11. CallerInv'
    BY <1>19 DEF Break, NoCall, CallerInv
  <2>12. OffsetInv'
    BY <1>19 DEF Break, NoJob, OffsetInv
  <2>13. PlaceInv'
    <3>1. op.pc \in Asking \union {"idle", "done"} /\ op.kind \in {"upload", "delete"}
        BY DEF Ops
    <3>2. CASE op.pc \notin Asking
        BY <3>2, <1>19, BreakEffect DEF PlaceInv
    <3>3. CASE op.pc \in Asking
        BY <3>3, <1>19, BreakEffect DEF PlaceInv, SameOp, LostSession, Asking
    <3> QED BY <3>2, <3>3
  <2>14. StreamInv'
    BY <1>19 DEF Break, NoJob, NoHandle, NoCall, StreamInv
  <2>15. TempsInv'
    BY <1>19, BreakEffect DEF Break, NoHandle, TempsInv, Counters
  <2>16. TermsInv'
    BY <1>19 DEF Break, NoHandle, TermsInv
  <2>17. SuccessInv'
    <3>1. file' = file /\ job'.mine = FALSE /\ receipt'.stream = 0 /\ call'.by = "nobody"
        BY <1>19 DEF Break, NoJob, NoReceipt, NoCall
    <3>2. CASE op.pc \notin Asking
        BY <3>1, <3>2, <1>19, BreakEffect DEF SuccessInv
    <3>3. CASE op.pc \in Asking
        BY <3>1, <3>3, <1>19, BreakEffect DEF SuccessInv, PlaceInv, SameOp, LostSession
    <3> QED BY <3>2, <3>3
  <2>18. MovedInv'
    BY <1>19, BreakEffect DEF Break, MovedInv, Calm, Counters
  <2>19. OpenInv'
    BY <1>19 DEF Break, NoHandle, OpenInv
  <2>r. RenamingInv'
    BY <1>19 DEF Break, NoHandle, NoJob, RenamingInv, Owns, Unchanged, Exists, SeenInv, device,
       host, Statuses, Handles, Files
  <2>t. EtagInv'
    BY <1>19 DEF Break, NoHandle, NoJob, EtagInv, HandleFree, device, host, Statuses, Handles,
       Files
  <2>v. SeenInv'
    BY <1>19 DEF Break, NoHandle, NoJob, SeenInv, device, host, Statuses, Handles, Files
  <2> QED BY <2>r, <2>t, <2>v, <2>1, <2>2, <2>3, <2>4, <2>5, <2>6, <2>7, <2>8, <2>9, <2>10,
     <2>11, <2>12,
     <2>13, <2>14, <2>15, <2>16, <2>17, <2>18, <2>19 DEF FilesInv, TypeOK
<1>21. CASE FileTask /\ job.stage = "renaming" /\ CommitRename
  <2>1. (call \in Requests)' /\ (op \in Ops)' /\ (reader \in Readers)' /\ CallerInv' /\
     PlaceInv'
    BY <1>21 DEF FileTask, CommitRename, RenamingInv, Owns, Exists, Receipt,
       CloseHandle, NoHandle, Fault, MayFail, device, host, CallerInv, TypeOf, Asking,
       PlaceInv
  <2>2. (file \in Files)'
    BY <1>21, BecomesEffect DEF CommitRename
  <2>3. (handle \in Handles)'
    BY <1>21, NothingIsTyped DEF CommitRename, CloseHandle
  <2>4. (receipt \in Receipts)'
    BY <1>21 DEF CommitRename, Receipt, device, host, Handles, Receipts
  <2>5. (job \in Jobs)'
    BY <1>21, AnswerEffect, BecomesEffect DEF CommitRename, device, host, Statuses
  <2>6. (temps \in Nat /\ opens \in Nat)'
    BY <1>21 DEF CommitRename, RenamingInv, Owns, device, host, TempsInv, Counters
  <2>7. (used \in [Counters -> Nat])'
    BY <1>21 DEF CommitRename, Fault, device, host
  <2>8. SlotInv'
    BY <1>21, AnswerEffect, BecomesEffect DEF FileTask, CommitRename, Fault, device, host,
       SlotInv,
       Statuses, Counters
  <2>9. OffsetInv'
    BY <1>21, AnswerEffect, BecomesEffect DEF FileTask, CommitRename, device, host, OffsetInv,
       Statuses
  <2>10. StreamInv'
    BY <1>21, AnswerEffect, BecomesEffect DEF FileTask, CommitRename, CloseHandle, NoHandle,
       device, host,
       StreamInv, SlotInv, RenamingInv, Statuses
  <2>11. TempsInv'
    BY <1>21, ChunksAssumption, TriesAssumption DEF CommitRename, RenamingInv, Owns, CloseHandle,
       NoHandle, Fault, device, host, TempsInv, Counters
  <2>12. TermsInv'
    BY <1>21 DEF CommitRename, CloseHandle, NoHandle, device, host, TermsInv
  <2>13. SuccessInv'
    BY <1>21, AnswerEffect, BecomesEffect DEF FileTask, CommitRename, Receipt, Fault, device,
       host, SuccessInv, Tells, Statuses, Counters
  <2>14. MovedInv'
    BY <1>21, AnswerEffect, BecomesEffect DEF FileTask, CommitRename, RenamingInv, Owns,
       Receipt, CloseHandle,
       NoHandle, Fault, device, host, MovedInv, Calm, Moved, Settled, Answered, Statuses,
       SlotInv, CallerInv, TypeOf, PlaceInv, Requests, Readers, Counters
  <2>15. OpenInv'
    BY <1>21 DEF FileTask, CommitRename, RenamingInv, Owns, CloseHandle, NoHandle, device, host,
       OpenInv, Least, LostCall, SlotInv, CallerInv, StreamInv
  <2>r. RenamingInv'
    BY <1>21, AnswerEffect, BecomesEffect DEF FileTask, CommitRename, CloseHandle, NoHandle,
       RenamingInv, Owns, Unchanged, Exists, SeenInv, device, host, Statuses, Handles, Files
  <2>t. EtagInv'
    BY <1>21, AnswerEffect, BecomesEffect DEF FileTask, CommitRename, CloseHandle, NoHandle,
       EtagInv, HandleFree, device, host, Statuses, Handles, Files
  <2>v. SeenInv'
    BY <1>21, AnswerEffect, BecomesEffect DEF FileTask, CommitRename, CloseHandle, NoHandle,
       SeenInv, device, host, Statuses, Handles, Files
  <2> QED BY <2>r, <2>t, <2>v, <2>1, <2>2, <2>3, <2>4, <2>5, <2>6, <2>7, <2>8, <2>9, <2>10,
     <2>11, <2>12,
     <2>13, <2>14, <2>15 DEF FilesInv, TypeOK
<1>20. CASE UNCHANGED vars
    BY <1>20 DEF vars, FilesInv, TypeOK, SlotInv, NoCall, NoJob, CallerInv, TypeOf, Asking,
       OffsetInv, PlaceInv, StreamInv, FreshHandle, TempsInv, TermsInv, SuccessInv, Tells,
       MovedInv, Calm, Moved, Settled, Answered, Statuses, OpenInv, Least, LostCall, Reports,
       RenamingInv, EtagInv, SeenInv, Owns, Unchanged, Exists
<1> QED BY <1>1, <1>2, <1>3, <1>4, <1>5, <1>6, <1>7, <1>8, <1>9, <1>10, <1>11, <1>12, <1>13,
   <1>14, <1>15, <1>16, <1>17, <1>18, <1>19, <1>20, <1>21 DEF Next, FileTask

\* Nothing has happened yet.
LEMMA FilesInit == Init => FilesInv
<1> SUFFICES ASSUME Init PROVE FilesInv
    OBVIOUS
<1>1. file \in Files /\ file.etag = 0 /\ file.version = 0 /\ temps = 0 /\ opens = 0
  <2>1. PICK data \in {"old", "absent"} :
            file = [data |-> data, etag |-> 0, version |-> 0, weak |-> FALSE]
    BY DEF Init
  <2> QED BY <2>1 DEF Init, Files
<1>2. /\ handle = NoHandle /\ receipt = NoReceipt /\ job = NoJob /\ call = NoCall
      /\ reader = NoReader /\ op = NoOp /\ used = Unused
    BY DEF Init
<1>3. NoOp \in Ops
    BY NothingIsTyped, ChunksAssumption, TriesAssumption DEF NoOp, Ops, Asking
<1>4. Unused \in [Counters -> Nat]
    BY DEF Unused, Counters
<1>5. TypeOK
    BY <1>1, <1>2, <1>3, <1>4, NothingIsTyped DEF TypeOK
<1>6. SlotInv /\ CallerInv /\ OffsetInv /\ PlaceInv
    BY <1>2 DEF SlotInv, CallerInv, OffsetInv, PlaceInv, NoCall, NoJob, NoOp, Asking
<1>7. StreamInv /\ TempsInv /\ TermsInv /\ SuccessInv /\ MovedInv /\ OpenInv
    BY <1>1, <1>2 DEF StreamInv, TempsInv, TermsInv, SuccessInv, MovedInv, OpenInv, Moved,
       NoCall, NoJob, NoOp, NoHandle, Unused
<1>8. RenamingInv /\ EtagInv /\ SeenInv
    BY <1>1, <1>2 DEF RenamingInv, EtagInv, SeenInv, NoJob, NoHandle
<1> QED BY <1>5, <1>6, <1>7, <1>8 DEF FilesInv

\* The parts of the invariant hold in every state of every behaviour.
THEOREM FilesInvariant == Spec => []FilesInv
<1>1. Init => FilesInv
    BY FilesInit
<1>2. FilesInv /\ [Next]_vars => FilesInv'
    BY FilesStep
<1> QED BY <1>1, <1>2, PTL DEF Spec

\* Slot, handle, receipt and operation stay well formed: no offset passes the end of the
\* file and no WRITE_STATUS is retried past its limit.
THEOREM FilesTypeCorrect == Spec => []TypeOK
<1>1. FilesInv => TypeOK
    BY DEF FilesInv
<1> QED BY <1>1, FilesInvariant, PTL

\* The faults that keep a failed operation from changing the file are the ones Calm names.
LEMMA OnlyIsCalm == Only({"loss", "io"}) => Calm
    BY DEF Only, Calm, Faults

\* upload, delete: a success is in place, and a failure has changed nothing while the
\* session holds and no request outlives its timeout.
THEOREM OutcomesAreTrue == Spec => []OutcomeIsTrue
<1>1. ASSUME FilesInv PROVE OutcomeIsTrue
  <2>1. TypeOK /\ PlaceInv /\ SuccessInv /\ MovedInv
    BY <1>1 DEF FilesInv
  <2>2. SuccessIsTrue
    BY <2>1 DEF SuccessIsTrue, Ended, SuccessInv, PlaceInv
  <2>3. FailedIsUntouched
    BY <2>1, OnlyIsCalm DEF FailedIsUntouched, Ended, MovedInv, Moved
  <2> QED BY <2>1, <2>2, <2>3 DEF OutcomeIsTrue
<1> QED BY <1>1, FilesInvariant, PTL

\* upload's finally: an upload that knows its stream leaves neither handle nor temporary
\* file while no request outlives its timeout, fewer than three frames are lost and no file
\* task is deleted in mid-request.
THEOREM NothingIsLeft == Spec => []LeavesNothing
<1>1. ASSUME FilesInv PROVE LeavesNothing
  <2>1. TypeOK /\ TempsInv /\ OpenInv
    BY <1>1 DEF FilesInv
  <2>2. used.loss \in Nat
    BY <2>1 DEF TypeOK, Counters
  <2> QED BY <2>1, <2>2 DEF LeavesNothing, TempsInv, OpenInv, Least, LostCall
<1> QED BY <1>1, FilesInvariant, PTL

\* handle_commit: a rename that no edit parted from its check replaces no file without
\* overwrite, with If-Match only one with the etag it names, and, where no etag came twice,
\* only the version that WRITE_OPEN saw.
THEOREM NoUpdateIsLost == Spec => NoLostUpdate
<1> DEFINE Kept ==
      (file' # file /\ file'.data = "new" /\ file.version = handle.seen) =>
        /\ file.data # "absent" => handle.terms.over
        /\ handle.terms.match # -1 => file.etag = handle.terms.match
        /\ (file.data # "absent" /\ ~file.weak) => file.version = handle.version
<1>1. ASSUME FilesInv, [Next]_vars PROVE [Kept]_vars
  <2>1. /\ file \in Files /\ TermsInv /\ RenamingInv /\ EtagInv
    BY <1>1 DEF FilesInv, TypeOK
  <2>2. CASE FileTask /\ job.stage = "renaming" /\ CommitRename
    BY <2>1, <2>2 DEF RenamingInv, Owns, Unchanged, Exists, TermsInv, EtagInv
  <2>3. CASE ~(FileTask /\ job.stage = "renaming" /\ CommitRename)
    <3>1. ASSUME NEW data \in {"absent", "local"}, Becomes(data) PROVE file'.data = data
      BY <2>1, <3>1, BecomesEffect
    <3>2. file' = file \/ file'.data \in {"local", "absent"}
      BY <1>1, <2>3, <3>1 DEF Next, FileTask, AskOp, AskReader, Ask, Drain, LocalEdit,
         SubmitUpload, SubmitDelete, Returns, TimesOut, StartReading, ReaderReturns, Break,
         WriteOpen, Write, CommitCheck, Refuse, Abort, WriteStatus, Delete, Stat, Read, device,
         vars
    <3> QED BY <3>2
  <2> QED BY <2>2, <2>3
<1>2. Spec => [][Kept]_vars
    BY <1>1, FilesInvariant, PTL DEF Spec
<1> QED BY <1>2 DEF NoLostUpdate
=============================================================================

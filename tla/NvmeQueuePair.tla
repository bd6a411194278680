---------------------------- MODULE NvmeQueuePair ---------------------------
(***************************************************************************)
(* One queue pair of lib/nvme.c (struct nvme_qp): the submission ring, the *)
(* completion ring, the pool of requests, and the two entry points an      *)
(* application calls on it, nvme_submit_io and nvme_poll.                  *)
(*                                                                         *)
(* The library is single threaded; the controller is not under src/ and    *)
(* runs concurrently, sharing the two rings and the two doorbells.  Every  *)
(* library function is cut where shared memory is touched, so that the     *)
(* controller may act between two such accesses.  A completion callback is *)
(* application code run in the middle of nvme_poll_cq: it may submit again *)
(* and may poll again, so the callbacks in progress form a stack.          *)
(*                                                                         *)
(* Definitions named Fault... are not part of the model: each is a wrong   *)
(* version of the definition that follows it, there to show that the       *)
(* properties notice.                                                      *)
(***************************************************************************)
EXTENDS Integers, Sequences, FiniteSets

CONSTANTS
  QueueSize,   \* NVME_QUEUE_SIZE
  Io,          \* the application's I/O handles (the opaque argument)
  NoIo,        \* no handle: a request or ring entry never used
  Status,      \* status fields (without the phase bit) a CQE may carry
  BadCid,      \* command identifiers nvme_poll_cq rejects
  MaxBadCqe,   \* bound: completions with a rejected identifier
  MaxNest      \* bound: completion callbacks in progress at a time

ASSUME QueueSizeAssumption == QueueSize \in Nat /\ QueueSize >= 2
ASSUME NoIoAssumption == NoIo \notin Io
ASSUME StatusAssumption == Status \subseteq Nat
ASSUME BadCidAssumption == BadCid \subseteq {c \in Nat : c = 0 \/ c >= QueueSize}
ASSUME BoundAssumption == MaxBadCqe \in Nat /\ MaxNest \in Nat

FaultNumReqs == QueueSize
NumReqs == QueueSize - 1        \* NVME_NUM_REQS: one ring slot stays empty
Slot == 0 .. QueueSize - 1
Cid == 1 .. NumReqs

VARIABLES
  \* struct nvme_qp
  sqTail,      \* sq.tail
  cqHead,      \* cq.head
  cqPhase,     \* cq_phase
  reqNext,     \* req_next, modulo NumReqs
  isUsed,      \* reqs[cid - 1].is_used
  reqIo,       \* reqs[cid - 1].opaque, and the contents of its PRP list page
  needKick,    \* need_kick
  inflight,    \* inflight
  \* the thread that runs the library
  pc,          \* application code, or a point inside a library function
  cur,         \* identifier being submitted, or completion slot being read
  stack,       \* identifiers whose callbacks are running, innermost first
  \* memory and registers shared with the controller
  sq, cq,      \* the two rings
  sqDoorbell, cqDoorbell,
  \* the controller (external)
  devHead,     \* next submission slot to fetch
  executing,   \* commands fetched and not completed
  cqTail,      \* next completion slot to post
  devPhase,    \* phase tag of the next completion
  badCqe,      \* completions posted with a rejected identifier
  verdict,     \* what the controller reported for each handle
  \* the application (external)
  told         \* what the application knows of each handle

pool == <<reqNext, isUsed, reqIo>>
submission == <<sqTail, needKick, sq, sqDoorbell>>
completion == <<cqHead, cqPhase, cqDoorbell>>
controller == <<cq, devHead, executing, cqTail, devPhase, badCqe>>
handles == <<verdict, told>>
driver == <<pool, submission, completion, inflight, pc, cur, stack>>
vars == <<driver, controller, handles>>

NoStatus == -1
Sqe == [cid : Cid \cup {0}, io : Io \cup {NoIo}]
Cqe == [cid : Cid \cup BadCid \cup {0}, status : Status \cup {0}, phase : {0, 1}]

FaultAdvance(slot) == slot + 1
Advance(slot) == (slot + 1) % QueueSize

(* Slot k lies in the part of a ring from head up to, excluding, tail. *)
Between(k, head, tail) ==
  IF head <= tail THEN head <= k /\ k < tail ELSE head <= k \/ k < tail

(* nvme_translate_error: only the low byte of the status field decides. *)
Translate(status) ==
  CASE status % 256 = 0 -> "0"
    [] status % 256 = 1 -> "-ENOSYS"
    [] status % 256 = 2 -> "-EINVAL"
    [] OTHER -> "-EIO"

Rc == {"0", "-ENOSYS", "-EINVAL", "-EIO"}

Init ==
  /\ sqTail = 0 /\ cqHead = 0 /\ cqPhase = 0 /\ reqNext = 0
  /\ isUsed = [c \in Cid |-> FALSE]
  /\ reqIo = [c \in Cid |-> NoIo]
  /\ needKick = 0 /\ inflight = 0
  /\ pc = "app" /\ cur = 0 /\ stack = <<>>
  /\ sq = [k \in Slot |-> [cid |-> 0, io |-> NoIo]]
  /\ cq = [k \in Slot |-> [cid |-> 0, status |-> 0, phase |-> 0]]
  /\ sqDoorbell = 0 /\ cqDoorbell = 0
  /\ devHead = 0 /\ executing = {} /\ cqTail = 0 /\ devPhase = 1
  /\ badCqe = 0
  /\ verdict = [io \in Io |-> NoStatus]
  /\ told = [io \in Io |-> "idle"]

-----------------------------------------------------------------------------
(* nvme_submit_io, called by the application or by one of its callbacks.   *)

(* The i-th request nvme_get_free_req looks at, and its test of it. *)
FaultProbe(i) == ((reqNext + i) % (NumReqs - 1)) + 1
Probe(i) == ((reqNext + i) % NumReqs) + 1

FaultFree(c) == TRUE
Free(c) == ~ isUsed[c]

(* nvme_get_free_req finds a request; its PRP list page, callback and      *)
(* opaque are filled in.  The application does not reuse a handle whose    *)
(* callback has not run.                                                   *)
SubmitBegin(io) ==
  /\ pc = "app"
  /\ told[io] # "waiting"
  /\ \E i \in 0 .. NumReqs - 1 :
       /\ Free(Probe(i))
       /\ \A j \in 0 .. i - 1 : ~ Free(Probe(j))
       /\ isUsed' = [isUsed EXCEPT ![Probe(i)] = TRUE]
       /\ reqIo' = [reqIo EXCEPT ![Probe(i)] = io]
       /\ reqNext' = (reqNext + i + 1) % NumReqs
       /\ cur' = Probe(i)
  /\ pc' = "sqe"
  /\ told' = [told EXCEPT ![io] = "waiting"]
  /\ verdict' = [verdict EXCEPT ![io] = NoStatus]
  /\ UNCHANGED <<submission, completion, inflight, stack, controller>>

(* nvme_get_free_req returns NULL and assert(req) ends the process. *)
SubmitAbort(io) ==
  /\ pc = "app"
  /\ told[io] # "waiting"
  /\ \A i \in 0 .. NumReqs - 1 : ~ Free(Probe(i))
  /\ pc' = "aborted"
  /\ UNCHANGED <<pool, submission, completion, inflight, cur, stack,
                 controller, handles>>

(* nvme_submit_command copies the command into the ring. *)
SubmitCommand ==
  /\ pc = "sqe"
  /\ sq' = [sq EXCEPT ![sqTail] = [cid |-> cur, io |-> reqIo[cur]]]
  /\ sqTail' = Advance(sqTail)
  /\ needKick' = needKick + 1
  /\ pc' = "kick"
  /\ UNCHANGED <<pool, sqDoorbell, completion, inflight, cur, stack,
                 controller, handles>>

FaultKick ==
  /\ pc = "kick"
  /\ sqDoorbell' = sqTail
  /\ inflight' = inflight + needKick
  /\ pc' = "app"
  /\ UNCHANGED <<pool, sqTail, needKick, sq, completion, cur, stack,
                 controller, handles>>

(* nvme_kick rings the submission doorbell. *)
Kick ==
  /\ pc = "kick"
  /\ sqDoorbell' = sqTail
  /\ inflight' = inflight + needKick
  /\ needKick' = 0
  /\ pc' = "app"
  /\ UNCHANGED <<pool, sqTail, sq, completion, cur, stack, controller,
                 handles>>

-----------------------------------------------------------------------------
(* nvme_poll_cq, called through nvme_poll.                                 *)

(* The phase test at the head of the completion ring. *)
NewCqe == cq[cqHead].phase # cqPhase

FaultNextPhase == IF Advance(cqHead) = QueueSize - 1 THEN 1 - cqPhase ELSE cqPhase
NextPhase == IF Advance(cqHead) = 0 THEN 1 - cqPhase ELSE cqPhase

(* A new entry: the head moves past it and the expected phase flips when   *)
(* the ring wraps.  Without one the function returns 0, changing nothing.  *)
PollBegin ==
  /\ pc = "app"
  /\ Len(stack) < MaxNest
  /\ NewCqe
  /\ cur' = cqHead
  /\ cqHead' = Advance(cqHead)
  /\ cqPhase' = NextPhase
  /\ pc' = "reap"
  /\ UNCHANGED <<pool, submission, cqDoorbell, inflight, stack, controller,
                 handles>>

(* The entry being reaped, read again after the head has moved. *)
FaultCqeRead == cq[cqHead]
CqeRead == cq[cur]

(* The entry names no request: the function returns 0 at once. *)
PollReject ==
  /\ pc = "reap"
  /\ \/ CqeRead.cid = 0
     \/ CqeRead.cid >= QueueSize
  /\ pc' = "app"
  /\ UNCHANGED <<pool, submission, completion, inflight, cur, stack,
                 controller, handles>>

FaultPollCallback ==
  /\ pc = "reap"
  /\ CqeRead.cid # 0
  /\ CqeRead.cid < QueueSize
  /\ inflight' = inflight - 1
  /\ isUsed' = [isUsed EXCEPT ![CqeRead.cid] = FALSE]
  /\ told' = [told EXCEPT ![reqIo[CqeRead.cid]] = Translate(CqeRead.status)]
  /\ stack' = <<CqeRead.cid>> \o stack
  /\ pc' = "app"
  /\ UNCHANGED <<reqNext, reqIo, submission, completion, cur, controller,
                 verdict>>

(* The entry names a request: its callback starts. *)
PollCallback ==
  /\ pc = "reap"
  /\ CqeRead.cid # 0
  /\ CqeRead.cid < QueueSize
  /\ inflight' = inflight - 1
  /\ told' = [told EXCEPT ![reqIo[CqeRead.cid]] = Translate(CqeRead.status)]
  /\ stack' = <<CqeRead.cid>> \o stack
  /\ pc' = "app"
  /\ UNCHANGED <<pool, submission, completion, cur, controller, verdict>>

(* What the completion doorbell gives back: the entries polled so far (and *)
(* not all those that have arrived).                                       *)
FaultReleased == cqTail
Released == cqHead

FaultCallbackReturn ==
  /\ pc = "app"
  /\ stack # <<>>
  /\ isUsed' = [isUsed EXCEPT ![Head(stack)] = FALSE]
  /\ stack' = Tail(stack)
  /\ UNCHANGED <<reqNext, reqIo, submission, completion, inflight, pc, cur,
                 controller, handles>>

(* The innermost callback returns: the request is freed and the completion *)
(* doorbell gets the head as it is now, past every entry polled meanwhile. *)
CallbackReturn ==
  /\ pc = "app"
  /\ stack # <<>>
  /\ isUsed' = [isUsed EXCEPT ![Head(stack)] = FALSE]
  /\ cqDoorbell' = Released
  /\ stack' = Tail(stack)
  /\ UNCHANGED <<reqNext, reqIo, submission, cqHead, cqPhase, inflight, pc,
                 cur, controller, handles>>

-----------------------------------------------------------------------------
(* The controller (external), as the library relies on it: it fetches from *)
(* the submission ring up to the doorbell, completes commands in any       *)
(* order, and posts a completion only into a slot the library gave back.   *)

DevFetch ==
  /\ devHead # sqDoorbell
  /\ executing' = executing \cup {sq[devHead]}
  /\ devHead' = Advance(devHead)
  /\ UNCHANGED <<driver, cq, cqTail, devPhase, badCqe, handles>>

CqFull == Advance(cqTail) = cqDoorbell

Post(cid, status) ==
  /\ ~ CqFull
  /\ cq' = [cq EXCEPT ![cqTail] = [cid |-> cid, status |-> status, phase |-> devPhase]]
  /\ cqTail' = Advance(cqTail)
  /\ devPhase' = IF Advance(cqTail) = 0 THEN 1 - devPhase ELSE devPhase

DevComplete(cmd, status) ==
  /\ cmd \in executing
  /\ Post(cmd.cid, status)
  /\ executing' = executing \ {cmd}
  /\ verdict' = [verdict EXCEPT ![cmd.io] = status]
  /\ UNCHANGED <<driver, devHead, badCqe, told>>

(* A completion whose identifier names no request. *)
DevPostBad(cid) ==
  /\ badCqe < MaxBadCqe
  /\ Post(cid, 0)
  /\ badCqe' = badCqe + 1
  /\ UNCHANGED <<driver, devHead, executing, handles>>

-----------------------------------------------------------------------------
Submit == \E io \in Io : SubmitBegin(io) \/ SubmitAbort(io)
Poll == PollBegin \/ PollReject \/ PollCallback \/ CallbackReturn
Device ==
  \/ DevFetch
  \/ \E cmd \in executing, s \in Status : DevComplete(cmd, s)
  \/ \E c \in BadCid : DevPostBad(c)

Next == Submit \/ SubmitCommand \/ Kick \/ Poll \/ Device

Spec == Init /\ [][Next]_vars

(* The scheduling assumed by the liveness properties: the application goes *)
(* on polling, its callbacks return, and the controller serves its queue.  *)
Fairness ==
  /\ WF_vars(SubmitCommand) /\ WF_vars(Kick)
  /\ WF_vars(PollBegin) /\ WF_vars(PollReject) /\ WF_vars(PollCallback)
  /\ WF_vars(CallbackReturn)
  /\ WF_vars(DevFetch)
  /\ \A c \in Cid :
       WF_vars(\E cmd \in executing, s \in Status :
                 cmd.cid = c /\ DevComplete(cmd, s))

FairSpec == Spec /\ Fairness

-----------------------------------------------------------------------------
(* Slots written by nvme_submit_command that the controller has yet to     *)
(* fetch, and slots it has posted that nvme_poll_cq has yet to consume.    *)
Unfetched == {k \in Slot : Between(k, devHead, sqTail)}
Posted == {k \in Slot : Between(k, cqHead, cqTail)}

(* Every variable keeps its type. *)
TypeOK ==
  /\ sqTail \in Slot /\ cqHead \in Slot /\ cqPhase \in {0, 1}
  /\ reqNext \in 0 .. NumReqs - 1
  /\ isUsed \in [Cid -> BOOLEAN]
  /\ reqIo \in [Cid -> Io \cup {NoIo}]
  /\ needKick \in Nat /\ inflight \in Int
  /\ pc \in {"app", "sqe", "kick", "reap", "aborted"}
  /\ cur \in Slot /\ (pc = "sqe" => cur \in Cid)
  /\ stack \in Seq(Cid)
  /\ sq \in [Slot -> Sqe] /\ cq \in [Slot -> Cqe]
  /\ sqDoorbell \in Slot /\ cqDoorbell \in Slot
  /\ devHead \in Slot /\ executing \subseteq Sqe
  /\ cqTail \in Slot /\ devPhase \in {0, 1} /\ badCqe \in Nat
  /\ verdict \in [Io -> Status \cup {NoStatus}]
  /\ told \in [Io -> Rc \cup {"idle", "waiting"}]

(* nvme_submit_command writes at sq.tail without looking whether the ring  *)
(* is full.  The bound on requests alone must keep one slot free, or the   *)
(* new tail would reach the controller's head and a full ring read empty.  *)
SqNeverOverrun == pc = "sqe" => Advance(sqTail) # devHead

(* A request, with its PRP list page and callback, is not recycled while   *)
(* the controller may still use it: every command in the ring or executing *)
(* finds its request in use and still describing that command's I/O.       *)
DeviceOwnsRequest ==
  \A cmd \in executing \cup {sq[k] : k \in Unfetched} :
    /\ cmd.cid \in Cid /\ isUsed[cmd.cid]
    /\ reqIo[cmd.cid] = cmd.io
    /\ told[cmd.io] = "waiting"

(* The controller never holds two commands with one identifier.            *)
NoCidConflict ==
  /\ \A j, k \in Unfetched : j # k => sq[j].cid # sq[k].cid
  /\ \A k \in Unfetched, cmd \in executing : sq[k].cid # cmd.cid
  /\ \A a, b \in executing : a # b => a.cid # b.cid

(* The one-bit test of nvme_poll_cq tells a new completion from a stale    *)
(* one left by an earlier pass, over every wrap of the ring.               *)
PhaseTagExact == NewCqe <=> cqHead # cqTail

(* The controller never finds the completion ring full when it has a       *)
(* command to complete: the library returns slots fast enough although it  *)
(* rings the doorbell only after the callback.                             *)
CqHasRoom == executing # {} => ~ CqFull

(* inflight counts the requests in use whose callback has not begun.       *)
InflightExact ==
  pc = "app" =>
    inflight + Len(stack) = Cardinality({c \in Cid : isUsed[c]})

(* assert(req) in nvme_submit_io holds.                                    *)
NoAbort == pc # "aborted"

(* A completion entry does not change between being posted and its last    *)
(* read by nvme_poll_cq, which reads it again after moving the head.       *)
CqeStable ==
  [][\A k \in Slot :
       cq'[k] # cq[k] => k \notin Posted /\ ~ (pc = "reap" /\ cur = k)]_vars

(* assert(req) in nvme_submit_io fails only if the I/Os without an answer  *)
(* and the callbacks in progress account for every request: the round      *)
(* robin search misses none, and no request is lost over any history.      *)
AbortOnlyWhenFull ==
  pc = "aborted" =>
    Cardinality({io \in Io : told[io] = "waiting"}) + Len(stack) >= NumReqs

(* Every I/O the library accepts is answered by its callback, unless       *)
(* assert(req) ends the process first, or as many rejected completions as  *)
(* the ring holds have used it up: poll_cq rings no doorbell for those, so *)
(* the controller waits for room and the library for a completion.         *)
Stalled == CqFull /\ cqHead = cqTail /\ stack = <<>>

EveryIoAnswered ==
  \A io \in Io :
    told[io] = "waiting" ~> \/ told[io] # "waiting"
                            \/ pc = "aborted"
                            \/ Stalled /\ badCqe >= QueueSize - 1

(* The queue pair implements the service of NvmeIo.                        *)
Service == INSTANCE NvmeIo WITH
  phase <- [io \in Io |->
              IF told[io] # "waiting" THEN "idle"
              ELSE IF verdict[io] = NoStatus THEN "pending" ELSE "executed"]

ServiceSpec == Service!Spec

=============================================================================

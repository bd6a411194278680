-------------------------- MODULE NvmeServiceProofs -------------------------
(***************************************************************************)
(* What a queue pair guarantees its user, from the whereabouts of requests *)
(* that NvmeRequestProofs establishes: it implements the service of NvmeIo,*)
(* the controller always finds room for a completion, the counter inflight *)
(* is exact, and assert(req) fails only when every request is taken.       *)
(***************************************************************************)
EXTENDS NvmeRequestProofs

LEMMA PoolFinite ==
  /\ IsFiniteSet(Cid) /\ Cardinality(Cid) = NumReqs
  /\ IsFiniteSet(Slot) /\ Cardinality(Slot) = QueueSize
BY FS_Interval, QueueSizeAssumption DEF Cid, Slot, NumReqs

-----------------------------------------------------------------------------
(* The queue pair implements NvmeIo.  nvme_translate_error looks at the    *)
(* low byte of a status only, so the statuses must be those it can tell    *)
(* from success: run qp_status shows what happens otherwise.               *)
StatusesDistinguished == \A s \in Status : s % 256 = 0 => s = 0

LEMMA TranslateExact ==
  ASSUME StatusesDistinguished, NEW s \in Status
  PROVE  /\ Translate(s) = "0" <=> s = 0
         /\ Translate(s) \in Rc /\ Translate(s) # "waiting"
<1>1. s \in Nat
  BY StatusAssumption
<1> QED
  BY <1>1 DEF Translate, Rc, StatusesDistinguished

Phase ==
  [io \in Io |-> IF told[io] # "waiting" THEN "idle"
                 ELSE IF verdict[io] = NoStatus THEN "pending" ELSE "executed"]

(* Every step of the queue pair and of the controller is one of NvmeIo's   *)
(* three steps or changes nothing NvmeIo speaks of.                        *)
LEMMA ServiceStep ==
  ASSUME StatusesDistinguished, RequestInv, [Next]_vars
  PROVE  [Service!Next]_(Service!vars)
<1>0. /\ TypeOK /\ Places /\ Described /\ Waits /\ Verdicts
      /\ told \in [Io -> Rc \cup {"idle", "waiting"}]
      /\ verdict \in [Io -> Status \cup {NoStatus}]
  BY DEF RequestInv, CqInv, TypeOK
<1>1. ASSUME UNCHANGED handles PROVE UNCHANGED Service!vars
  BY <1>1 DEF handles, Service!vars
<1>2. ASSUME NEW io \in Io, SubmitBegin(io) PROVE Service!Submit(io)
  <2>1. /\ told[io] # "waiting"
        /\ told' = [told EXCEPT ![io] = "waiting"]
        /\ verdict' = [verdict EXCEPT ![io] = NoStatus]
    BY <1>2 DEF SubmitBegin
  <2>2. Phase' = [Phase EXCEPT ![io] = "pending"]
    BY <1>0, <2>1 DEF Phase
  <2> QED
    BY <2>1, <2>2 DEF Service!Submit, Service!NoStatus, NoStatus, Phase
<1>3. ASSUME NEW cmd \in executing, NEW s \in Status, DevComplete(cmd, s)
      PROVE  cmd.io \in Io /\ Service!Execute(cmd.io, s)
  <2> DEFINE io == cmd.io
  <2>1. cmd.cid \in Executing /\ cmd.cid \in Outstanding /\ io = reqIo[cmd.cid]
    BY <1>0 DEF Executing, Outstanding, Described
  <2>2. io \in Io /\ told[io] = "waiting" /\ verdict[io] = NoStatus
    BY <1>0, <2>1 DEF Waits, Verdicts
  <2>3. verdict' = [verdict EXCEPT ![io] = s] /\ told' = told
    BY <1>3 DEF DevComplete
  <2>4. s # NoStatus
    BY StatusAssumption DEF NoStatus
  <2> HIDE DEF io
  <2>5. Phase[io] = "pending" /\ Phase' = [Phase EXCEPT ![io] = "executed"]
    BY <1>0, <2>2, <2>3, <2>4 DEF Phase
  <2> QED
    BY <2>2, <2>3, <2>5 DEF Service!Execute, Phase, io
<1>4. ASSUME PollCallback
      PROVE  \E io \in Io, rc \in Rc : Service!Deliver(io, rc)
  <2>1. cur \in Answered /\ cq[cur].cid \in Cid /\ cq[cur].cid \in Outstanding
    BY <1>4, CallbackStarts DEF Outstanding, Completed
  <2>2. PICK io \in Io, s \in Status : io = reqIo[cq[cur].cid] /\ s = cq[cur].status
    BY <1>0, <2>1 DEF Waits, Verdicts
  <2>3. told[io] = "waiting" /\ verdict[io] = s
    BY <1>0, <2>1, <2>2 DEF Waits, Verdicts
  <2>4. told' = [told EXCEPT ![io] = Translate(s)] /\ verdict' = verdict
    BY <1>4, <2>2, CallbackStarts DEF PollCallback
  <2>5. s # NoStatus
    BY StatusAssumption DEF NoStatus
  <2>6. Translate(s) \in Rc /\ Translate(s) # "waiting" /\ (Translate(s) = "0" <=> s = 0)
    BY TranslateExact
  <2>7. Phase[io] = "executed" /\ Phase' = [Phase EXCEPT ![io] = "idle"]
    BY <1>0, <2>3, <2>4, <2>5, <2>6 DEF Phase
  <2>8. Service!Deliver(io, Translate(s))
    BY <2>3, <2>4, <2>6, <2>7 DEF Service!Deliver, Service!Success, Phase
  <2> QED
    BY <2>6, <2>8
<1>5. ASSUME \/ SubmitCommand \/ Kick \/ PollBegin \/ PollReject \/ CallbackReturn
             \/ DevFetch \/ (\E c \in BadCid : DevPostBad(c))
             \/ (\E io \in Io : SubmitAbort(io)) \/ UNCHANGED vars
      PROVE  UNCHANGED handles
  BY <1>5 DEF SubmitAbort, SubmitCommand, Kick, PollBegin, PollReject, CallbackReturn,
     DevFetch, DevPostBad, vars
<1> QED
  BY <1>1, <1>2, <1>3, <1>4, <1>5 DEF Next, Submit, Poll, Device, Service!Next

(* Each accepted I/O is executed once and answered by one callback, which  *)
(* reports success exactly when the controller did.                        *)
THEOREM ImplementsService ==
  ASSUME StatusesDistinguished
  PROVE  Spec => ServiceSpec
<1>1. Init => Service!Init
  BY DEF Init, Service!Init, Service!NoStatus, NoStatus
<1>2. RequestInv /\ [Next]_vars => [Service!Next]_(Service!vars)
  BY ServiceStep
<1> QED
  BY <1>1, <1>2, RequestInvariant, PTL DEF Spec, ServiceSpec, Service!Spec

-----------------------------------------------------------------------------
(* Completions consumed by nvme_poll_cq whose slot is not given back yet.  *)
(* As long as none was rejected, each belongs to a callback in progress,   *)
(* so those and the ones waiting account for different requests.           *)
Consumed ==
  {k \in Slot : Between(k, cqDoorbell, cqHead) /\ ~ (pc = "reap" /\ k = cur)}

RoomInv ==
  badCqe = 0 =>
    /\ \A k \in Answered : cq[k].cid \in Cid
    /\ \A k \in Consumed : cq[k].cid \in Calling
    /\ \A j, k \in Consumed : cq[j].cid = cq[k].cid => j = k

LEMMA RoomInit == Init => RoomInv
<1> SUFFICES ASSUME Init PROVE RoomInv
  OBVIOUS
<1>1. Answered = {} /\ Consumed = {}
  BY QueueSizeAssumption DEF Init, Answered, Consumed, Between, Slot
<1> QED
  BY <1>1 DEF RoomInv

(* Reading an entry changes neither set: it is in neither part of the ring.*)
LEMMA HeadMoves ==
  ASSUME RequestInv, PollBegin
  PROVE  Answered' = Answered /\ Consumed' = Consumed
<1>1. /\ pc = "app" /\ pc' = "reap" /\ NewCqe
      /\ cur' = cqHead /\ cqHead' = Advance(cqHead)
      /\ UNCHANGED <<cqDoorbell, cqTail>>
  BY DEF PollBegin, controller
<1>2. /\ CqTypes /\ CqOrder /\ cqHead \in Slot /\ cqTail \in Slot /\ cqDoorbell \in Slot
      /\ cqHead # cqTail
  <2>1. TypeOK /\ CqTypes /\ CqOrder /\ PassPhase /\ HeadPhase
    BY CqTyped DEF RequestInv, CqInv
  <2> QED
    BY <1>1, <2>1 DEF TypeOK, CqTypes, PassPhase, HeadPhase, NewCqe, Slot
<1>3. Answered' = Answered
  BY <1>1, <1>2, RingShrinks DEF Answered
<1>4. Advance(cqHead) # cqDoorbell
  <2>1. Advance(cqHead) = IF cqHead = QueueSize - 1 THEN 0 ELSE cqHead + 1
    BY <1>2, AdvanceWraps
  <2> QED
    BY <1>2, <2>1, QueueSizeAssumption DEF CqTypes, CqOrder
<1>5. Consumed' = Consumed
  BY <1>1, <1>2, <1>4, RingGrows DEF Consumed
<1> QED
  BY <1>3, <1>5

LEMMA RoomStep == RequestInv /\ RoomInv /\ [Next]_vars => RoomInv'
<1> SUFFICES ASSUME RequestInv, RoomInv, [Next]_vars, badCqe' = 0 PROVE RoomInv'
  BY DEF RoomInv
<1> USE DEF vars, driver, pool, submission, completion, controller
<1>0. TypeOK /\ CqTypes /\ CqOrder /\ badCqe \in Nat
  BY CqTyped DEF RequestInv, CqInv, TypeOK
<1>1. CASE /\ UNCHANGED <<cqHead, cqDoorbell, cqTail, cq, badCqe, stack>>
           /\ (pc # "reap" /\ pc' # "reap") \/ UNCHANGED <<pc, cur>>
  <2>1. UNCHANGED <<Answered, Consumed, Calling>>
    BY <1>1 DEF Answered, Consumed, Calling
  <2> QED
    BY <1>1, <2>1 DEF RoomInv
<1>2. CASE PollBegin
  <2>1. UNCHANGED <<Answered, Consumed, Calling, cq, badCqe>>
    BY <1>2, HeadMoves DEF PollBegin, Calling
  <2> QED
    BY <2>1 DEF RoomInv
<1>3. CASE PollReject
  <2>1. badCqe = 0 /\ cur \in Answered
    BY <1>0, <1>3 DEF PollReject, Answered, TypeOK
  <2>2. cq[cur].cid \in Cid
    BY <2>1 DEF RoomInv
  <2> QED
    BY <1>3, <2>2, QueueSizeAssumption DEF PollReject, CqeRead, Cid, NumReqs
<1>4. CASE PollCallback
  <2>1. UNCHANGED <<cq, cqHead, cqDoorbell, cqTail, cur, badCqe>> /\ pc = "reap" /\ pc' = "app"
    BY <1>4 DEF PollCallback
  <2>2. /\ Answered' = Answered \ {cur}
        /\ cq[cur].cid \in Completed
        /\ Calling' = Calling \cup {cq[cur].cid}
    BY <1>4, CallbackStarts
  <2>3. Consumed' \subseteq Consumed \cup {cur}
    BY <2>1 DEF Consumed
  <2>4. cq[cur].cid \notin Calling
    BY <2>2 DEF RequestInv, Places, Disjoint
  <2> QED
    BY <2>1, <2>2, <2>3, <2>4 DEF RoomInv
<1>5. CASE CallbackReturn
  <2>1. UNCHANGED <<cq, cqHead, cqTail, pc, cur, badCqe>> /\ cqDoorbell' = cqHead
    BY <1>5 DEF CallbackReturn, Released
  <2>2. Answered' = Answered /\ Consumed' = {}
    BY <1>0, <2>1 DEF Answered, Consumed, Between, CqTypes, Slot
  <2> QED
    BY <2>1, <2>2 DEF RoomInv
<1>6. ASSUME NEW cmd \in executing, NEW s \in Status, DevComplete(cmd, s)
      PROVE  RoomInv'
  <2>1. /\ Post(cmd.cid, s) /\ UNCHANGED driver /\ UNCHANGED badCqe
        /\ UNCHANGED <<cqDoorbell, cqHead, pc, cur, stack>>
    BY <1>6 DEF DevComplete
  <2>2. /\ Answered' = Answered \cup {cqTail}
        /\ \A k \in Answered : cq'[k] = cq[k]
        /\ cq'[cqTail].cid = cmd.cid
    BY <2>1, PostAdds
  <2>3. cmd.cid \in Cid
    BY <1>0, PlacesTyped DEF RequestInv
  <2>4. UNCHANGED <<Consumed, Calling>>
    BY <2>1 DEF Consumed, Calling
  <2>5. cqTail \notin Consumed
    BY <1>0 DEF Consumed, Between, CqTypes, CqOrder
  <2>6. \A k \in Consumed : cq'[k] = cq[k]
    BY <1>0, <2>1, <2>5 DEF Post, Consumed, TypeOK
  <2> QED
    BY <2>1, <2>2, <2>3, <2>4, <2>6 DEF RoomInv
<1>7. ASSUME NEW c \in BadCid, DevPostBad(c) PROVE FALSE
  BY <1>0, <1>7 DEF DevPostBad
<1>8. ASSUME \/ \E io \in Io : SubmitBegin(io) \/ SubmitAbort(io)
             \/ SubmitCommand \/ Kick \/ DevFetch \/ UNCHANGED vars
      PROVE  RoomInv'
  BY <1>1, <1>8 DEF SubmitBegin, SubmitAbort, SubmitCommand, Kick, DevFetch
<1> QED
  BY <1>2, <1>3, <1>4, <1>5, <1>6, <1>7, <1>8 DEF Next, Submit, Poll, Device

(* The pigeonholes again: with a command still executing, the completions  *)
(* waiting or not given back cannot fill the ring but for one slot.        *)
LEMMA RoomToComplete ==
  ASSUME RequestInv, RoomInv, badCqe = 0, NEW cmd \in executing
  PROVE  ~ CqFull
<1> SUFFICES ASSUME CqFull PROVE FALSE
  OBVIOUS
<1>0. TypeOK /\ CqTypes /\ CqOrder /\ Places
  BY CqTyped DEF RequestInv, CqInv
<1>1. cqTail \in Slot /\ cqDoorbell \in Slot /\ Advance(cqTail) = cqDoorbell
  BY <1>0 DEF TypeOK, CqFull
<1> DEFINE Taken == Slot \ {cqTail}
           f == [k \in Taken |-> cq[k].cid]
<1>2. \A k \in Taken : k \in Answered \/ k \in Consumed
  <2> SUFFICES ASSUME NEW k \in Taken PROVE k \in Answered \/ k \in Consumed
    OBVIOUS
  <2>1. Between(k, cqDoorbell, cqTail)
    BY <1>1, RingFull
  <2>2. Between(k, cqDoorbell, cqHead) \/ Between(k, cqHead, cqTail)
    BY <1>0, <2>1 DEF Between, CqOrder, CqTypes, Slot
  <2> QED
    BY <2>2 DEF Answered, Consumed
<1>3. cmd.cid \in Executing /\ cmd.cid \in Cid
  BY <1>0, PlacesTyped DEF Executing
<1>4. /\ \A k \in Answered : cq[k].cid \in Completed
      /\ \A k \in Consumed : cq[k].cid \in Calling
  BY DEF RoomInv, Completed
<1>5. Executing \cap (Completed \cup Calling) = {} /\ Completed \cap Calling = {}
  BY <1>0 DEF Places, Disjoint
<1>6. f \in [Taken -> Cid \ {cmd.cid}]
  BY <1>0, <1>2, <1>3, <1>4, <1>5, PlacesTyped
<1>7. \A j, k \in Taken : f[j] = f[k] => j = k
  <2> SUFFICES ASSUME NEW j \in Taken, NEW k \in Taken, cq[j].cid = cq[k].cid
               PROVE  j = k
    OBVIOUS
  <2>1. CASE j \in Answered /\ k \in Answered
    BY <1>0, <2>1 DEF RoomInv, Places, Distinct, CqDistinct
  <2>2. CASE j \in Consumed /\ k \in Consumed
    BY <2>2 DEF RoomInv
  <2> QED
    BY <1>2, <1>4, <1>5, <2>1, <2>2
<1>8. IsFiniteSet(Taken) /\ Cardinality(Taken) = QueueSize - 1
  BY <1>1, PoolFinite, FS_RemoveElement
<1>9. IsFiniteSet(Cid \ {cmd.cid}) /\ Cardinality(Cid \ {cmd.cid}) = QueueSize - 2
  BY <1>3, PoolFinite, FS_RemoveElement, QueueSizeAssumption DEF NumReqs
<1>10. Cardinality(Cid \ {cmd.cid}) < Cardinality(Taken)
  BY <1>8, <1>9, QueueSizeAssumption
<1> HIDE DEF f, Taken
<1> QED
  BY <1>6, <1>7, <1>8, <1>9, <1>10, FS_PigeonHole

(* Until a completion has been rejected, the controller always has room    *)
(* for the completion of a command it executes, although nvme_poll_cq      *)
(* gives a slot back only after its callback has returned.                 *)
THEOREM RoomForCompletions == Spec => [](badCqe = 0 => CqHasRoom)
<1>1. RequestInv /\ RoomInv => (badCqe = 0 => CqHasRoom)
  BY RoomToComplete DEF CqHasRoom
<1>2. Spec => []RoomInv
  BY RoomInit, RoomStep, RequestInvariant, PTL DEF Spec
<1> QED
  BY <1>1, <1>2, RequestInvariant, PTL

-----------------------------------------------------------------------------
(* The counters: a request in use is one being submitted, one counted by   *)
(* need_kick or inflight, or one whose callback runs.                      *)
Used == {c \in Cid : isUsed[c]}

CountInv ==
  /\ needKick = IF pc = "kick" THEN 1 ELSE 0
  /\ inflight + needKick + Len(stack) + (IF pc = "sqe" THEN 1 ELSE 0)
       = Cardinality(Used)

LEMMA CountInit == Init => CountInv
<1> SUFFICES ASSUME Init PROVE CountInv
  OBVIOUS
<1>1. Used = {}
  BY DEF Init, Used
<1> QED
  BY <1>1, FS_EmptySet DEF Init, CountInv

LEMMA CountStep == RequestInv /\ CountInv /\ [Next]_vars => CountInv'
<1> SUFFICES ASSUME RequestInv, CountInv, [Next]_vars PROVE CountInv'
  OBVIOUS
<1> USE DEF CountInv
<1>0. /\ TypeOK /\ inflight \in Int /\ needKick \in Nat /\ Len(stack) \in Nat
      /\ IsFiniteSet(Used) /\ Cardinality(Used) \in Nat
  <2>1. TypeOK
    BY DEF RequestInv, CqInv
  <2>2. IsFiniteSet(Used)
    BY PoolFinite, FS_Subset DEF Used
  <2> QED
    BY <2>1, <2>2, FS_CardinalityType DEF TypeOK
<1>1. ASSUME NEW io \in Io, SubmitBegin(io) PROVE CountInv'
  <2>1. PICK i \in 0 .. NumReqs - 1 :
          Free(Probe(i)) /\ isUsed' = [isUsed EXCEPT ![Probe(i)] = TRUE]
    BY <1>1 DEF SubmitBegin
  <2>2. Probe(i) \in Cid /\ Probe(i) \notin Used
    BY <1>0, <2>1, ProbeInPool DEF TypeOK, Free, Used
  <2> DEFINE c == Probe(i)
  <2> HIDE DEF c
  <2>3. Used' = Used \cup {c}
    BY <1>0, <2>1, <2>2 DEF TypeOK, Used, c
  <2>4. Cardinality(Used') = Cardinality(Used) + 1
    BY <1>0, <2>2, <2>3, FS_AddElement DEF c
  <2> QED
    BY <1>0, <1>1, <2>4 DEF SubmitBegin, submission
<1>2. CASE CallbackReturn
  <2>1. /\ pc = "app" /\ pc' = pc /\ stack # <<>> /\ stack' = Tail(stack)
        /\ isUsed' = [isUsed EXCEPT ![stack[1]] = FALSE]
        /\ UNCHANGED <<inflight, needKick>>
    BY <1>0, <1>2 DEF CallbackReturn, submission, TypeOK
  <2>2. Len(stack') = Len(stack) - 1 /\ 1 \in 1 .. Len(stack)
    BY <1>0, <2>1 DEF TypeOK
  <2>3. stack[1] \in Used
    BY <1>0, <2>2, PlacesTyped DEF RequestInv, Calling, Used
  <2>4. Used' = Used \ {stack[1]}
    BY <1>0, <2>1 DEF TypeOK, Used
  <2>5. Cardinality(Used') = Cardinality(Used) - 1
    BY <1>0, <2>3, <2>4, FS_RemoveElement
  <2> QED
    BY <1>0, <2>1, <2>2, <2>5
<1>3. CASE PollCallback
  <2>1. Len(stack') = Len(stack) + 1
    BY <1>3, CallbackStarts
  <2>2. /\ pc = "reap" /\ pc' = "app" /\ inflight' = inflight - 1
        /\ UNCHANGED <<isUsed, needKick>>
    BY <1>3 DEF PollCallback, pool, submission
  <2>3. Used' = Used
    BY <2>2 DEF Used
  <2> QED
    BY <1>0, <2>1, <2>2, <2>3
<1>4. CASE SubmitCommand
  <2>1. Used' = Used
    BY <1>4 DEF SubmitCommand, pool, Used
  <2> QED
    BY <1>0, <1>4, <2>1 DEF SubmitCommand
<1>5. CASE Kick
  <2>1. Used' = Used
    BY <1>5 DEF Kick, pool, Used
  <2> QED
    BY <1>0, <1>5, <2>1 DEF Kick
<1>6. ASSUME \/ PollBegin \/ PollReject \/ \E io \in Io : SubmitAbort(io)
      PROVE  CountInv'
  <2>1. Used' = Used
    BY <1>6 DEF SubmitAbort, PollBegin, PollReject, pool, Used
  <2> QED
    BY <1>0, <1>6, <2>1 DEF SubmitAbort, PollBegin, PollReject, submission
<1>7. ASSUME Device \/ UNCHANGED vars PROVE CountInv'
  <2>1. UNCHANGED <<isUsed, inflight, needKick, stack, pc>>
    BY <1>7 DEF Device, DevFetch, DevComplete, DevPostBad, vars, driver, pool, submission
  <2> QED
    BY <2>1 DEF Used
<1>8. ASSUME NEW io \in Io, SubmitBegin(io) \/ SubmitAbort(io) PROVE CountInv'
  BY <1>1, <1>6, <1>8
<1> QED
  BY <1>2, <1>3, <1>4, <1>5, <1>6, <1>7, <1>8 DEF Next, Submit, Poll

(* While the library is not inside a call, inflight plus the callbacks in  *)
(* progress is the number of requests in use.                              *)
THEOREM InflightCounts == Spec => []InflightExact
<1>1. RequestInv /\ CountInv => InflightExact
  BY DEF RequestInv, CqInv, TypeOK, CountInv, InflightExact, Used
<1>2. Spec => []CountInv
  BY CountInit, CountStep, RequestInvariant, PTL DEF Spec
<1> QED
  BY <1>1, <1>2, RequestInvariant, PTL

-----------------------------------------------------------------------------
(* nvme_get_free_req looks at every request of the pool.                   *)
LEMMA ProbeCovers ==
  ASSUME reqNext \in 0 .. NumReqs - 1, NEW c \in Cid
  PROVE  \E i \in 0 .. NumReqs - 1 : Probe(i) = c
<1>1. NumReqs \in Nat \ {0} /\ c \in 1 .. NumReqs
  BY QueueSizeAssumption DEF NumReqs, Cid
<1> HIDE DEF NumReqs
<1>2. CASE c - 1 >= reqNext
  <2>1. (c - 1 - reqNext) \in 0 .. NumReqs - 1
    BY <1>1, <1>2
  <2>2. (reqNext + (c - 1 - reqNext)) % NumReqs = c - 1
    BY <1>1, <1>2
  <2> QED
    BY <1>1, <2>1, <2>2 DEF Probe
<1>3. CASE c - 1 < reqNext
  <2>1. (c - 1 - reqNext + NumReqs) \in 0 .. NumReqs - 1
    BY <1>1, <1>3
  <2>2. reqNext + (c - 1 - reqNext + NumReqs) = c - 1 + NumReqs
    BY <1>1
  <2>3. (c - 1 + NumReqs) % NumReqs = c - 1
    BY <1>1
  <2> QED
    BY <1>1, <2>1, <2>2, <2>3 DEF Probe
<1> QED
  BY <1>1, <1>2, <1>3

(* Once assert(req) has failed every request is in use, and stays so.      *)
FullInv == pc = "aborted" => \A c \in Cid : isUsed[c]

LEMMA FullStep == TypeOK /\ FullInv /\ [Next]_vars => FullInv'
<1> SUFFICES ASSUME TypeOK, FullInv, [Next]_vars PROVE FullInv'
  OBVIOUS
<1>1. ASSUME NEW io \in Io, SubmitAbort(io) PROVE FullInv'
  <2>1. \A i \in 0 .. NumReqs - 1 : isUsed[Probe(i)]
    BY <1>1 DEF SubmitAbort, Free
  <2>2. \A c \in Cid : isUsed[c]
    BY <2>1, ProbeCovers DEF TypeOK
  <2> QED
    BY <1>1, <2>2 DEF SubmitAbort, pool, FullInv
<1>2. ASSUME NEW io \in Io, SubmitBegin(io) PROVE FullInv'
  BY <1>2 DEF SubmitBegin, FullInv
<1>3. ASSUME SubmitCommand \/ Kick \/ Poll \/ Device \/ UNCHANGED vars PROVE FullInv'
  BY <1>3 DEF SubmitCommand, Kick, Poll, PollBegin, PollReject, PollCallback,
     CallbackReturn, Device, DevFetch, DevComplete, DevPostBad, vars, driver, pool, FullInv
<1> QED
  BY <1>1, <1>2, <1>3 DEF Next, Submit

(* assert(req) in nvme_submit_io fails only if the I/Os without an answer  *)
(* and the callbacks in progress hold every request of the pool.           *)
THEOREM AbortsOnlyWhenFull == Spec => []AbortOnlyWhenFull
<1>1. ASSUME RequestInv, FullInv PROVE AbortOnlyWhenFull
  <2> SUFFICES ASSUME pc = "aborted"
               PROVE  Cardinality({io \in Io : told[io] = "waiting"}) + Len(stack) >= NumReqs
    BY DEF AbortOnlyWhenFull
  <2> DEFINE Waiting == {io \in Io : told[io] = "waiting"}
             asks == [c \in Outstanding |-> reqIo[c]]
             calls == [i \in 1 .. Len(stack) |-> stack[i]]
  <2>0. TypeOK /\ Places /\ Waits /\ Len(stack) \in Nat
    BY <1>1 DEF RequestInv, CqInv, TypeOK
  <2>1. Cid = Outstanding \cup Calling /\ Outstanding \cap Calling = {}
    BY <1>1, <2>0 DEF FullInv, Places, Located, Disjoint, Outstanding
  <2>2. IsFiniteSet(Outstanding) /\ IsFiniteSet(Calling)
    BY <2>1, PoolFinite, FS_Subset
  <2>3. Cardinality(Outstanding) + Cardinality(Calling) = NumReqs
    <3>1. Cardinality(Outstanding \cup Calling)
            = Cardinality(Outstanding) + Cardinality(Calling)
              - Cardinality(Outstanding \cap Calling)
      BY <2>2, FS_Union
    <3>2. Cardinality(Outstanding \cup Calling) = NumReqs
      BY <2>1, PoolFinite
    <3>3. Cardinality(Outstanding \cap Calling) = 0
      BY <2>1, FS_EmptySet
    <3>4. Cardinality(Outstanding) \in Nat /\ Cardinality(Calling) \in Nat
      BY <2>2, FS_CardinalityType
    <3> QED
      BY <3>1, <3>2, <3>3, <3>4
  <2>4. Cardinality(Outstanding) = Cardinality(Waiting)
    <3>1. asks \in Surjection(Outstanding, Waiting) /\ asks \in Injection(Outstanding, Waiting)
      BY <2>0 DEF Waits, Surjection, Injection, IsInjective
    <3> QED
      BY <2>2, <3>1, FS_Surjection
  <2>5. Cardinality(Calling) <= Len(stack)
    <3>1. calls \in Surjection(1 .. Len(stack), Calling)
      BY DEF Calling, Surjection
    <3>2. IsFiniteSet(1 .. Len(stack)) /\ Cardinality(1 .. Len(stack)) = Len(stack)
      BY <2>0, FS_Interval
    <3> QED
      BY <3>1, <3>2, FS_Surjection
  <2> QED
    BY <2>0, <2>2, <2>3, <2>4, <2>5, FS_CardinalityType DEF NumReqs
<1>2. Init => FullInv
  BY DEF Init, FullInv
<1>3. Spec => []FullInv
  BY <1>2, FullStep, TypeCorrect, PTL DEF Spec
<1> QED
  BY <1>1, <1>3, RequestInvariant, PTL

=============================================================================

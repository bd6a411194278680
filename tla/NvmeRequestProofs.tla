-------------------------- MODULE NvmeRequestProofs -------------------------
(***************************************************************************)
(* What becomes of the requests of a queue pair, for every queue size,     *)
(* number of handles, statuses, rejected completions and nested callbacks. *)
(*                                                                         *)
(* A request that is in use is in exactly one of five places: a call of    *)
(* nvme_submit_io that has not written its command yet, the submission     *)
(* ring, the controller, the completion ring, or a callback in progress.   *)
(* Every step moves at most one request from one place to the next.        *)
(***************************************************************************)
EXTENDS NvmeQueuePairProofs, FiniteSetTheorems, SequenceTheorems

(* Completions posted and not consumed by nvme_poll_cq, with the one it is *)
(* reading.                                                                *)
Answered == {k \in Slot : Between(k, cqHead, cqTail) \/ (pc = "reap" /\ k = cur)}

Building == {c \in Cid : pc = "sqe" /\ c = cur}
Queued == {sq[k].cid : k \in Unfetched}
Executing == {cmd.cid : cmd \in executing}
Completed == {c \in Cid : \E k \in Answered : cq[k].cid = c}
Calling == {stack[i] : i \in 1 .. Len(stack)}

Outstanding == Building \cup Queued \cup Executing \cup Completed

(* The submission doorbell is behind the tail only between the writing of  *)
(* a command and nvme_kick, and by that command.                           *)
SqBell ==
  IF pc = "kick" THEN sqTail = Advance(sqDoorbell) /\ sqTail # devHead
                 ELSE sqDoorbell = sqTail

(* No place holds a request twice ... *)
SqDistinct == \A j, k \in Unfetched : sq[j].cid = sq[k].cid => j = k
ExecDistinct == \A a, b \in executing : a.cid = b.cid => a = b
CqDistinct ==
  \A j, k \in Answered : cq[j].cid \in Cid /\ cq[j].cid = cq[k].cid => j = k
StackDistinct == \A i, j \in 1 .. Len(stack) : stack[i] = stack[j] => i = j
Distinct == SqDistinct /\ ExecDistinct /\ CqDistinct /\ StackDistinct

(* ... nor do two of them. *)
Disjoint ==
  /\ Building \cap (Queued \cup Executing \cup Completed \cup Calling) = {}
  /\ Queued \cap (Executing \cup Completed \cup Calling) = {}
  /\ Executing \cap (Completed \cup Calling) = {}
  /\ Completed \cap Calling = {}

(* The requests in use are those in some place. *)
Located == {c \in Cid : isUsed[c]} = Outstanding \cup Calling

Places == SqBell /\ Distinct /\ Disjoint /\ Located

(* A command carries the handle its request describes. *)
Described ==
  /\ \A k \in Unfetched : sq[k].io = reqIo[sq[k].cid]
  /\ \A cmd \in executing : cmd.io = reqIo[cmd.cid]

(* Outstanding requests and handles without an answer are one to one. *)
Waits ==
  /\ \A c \in Outstanding : reqIo[c] \in Io /\ told[reqIo[c]] = "waiting"
  /\ \A c, d \in Outstanding : reqIo[c] = reqIo[d] => c = d
  /\ \A io \in Io : told[io] = "waiting" => \E c \in Outstanding : reqIo[c] = io

(* A completion carries the status its command was executed with, and one  *)
(* not executed yet has none.                                              *)
Verdicts ==
  /\ \A c \in Building \cup Queued \cup Executing : verdict[reqIo[c]] = NoStatus
  /\ \A k \in Answered :
       cq[k].cid \in Cid =>
         cq[k].status \in Status /\ verdict[reqIo[cq[k].cid]] = cq[k].status

RequestInv == CqInv /\ Places /\ Described /\ Waits /\ Verdicts

-----------------------------------------------------------------------------
(* Writing at the tail of a ring that keeps a slot free adds that slot.    *)
LEMMA RingGrows ==
  ASSUME NEW h \in Slot, NEW t \in Slot, Advance(t) # h, NEW k \in Slot
  PROVE  /\ Between(k, h, Advance(t)) <=> Between(k, h, t) \/ k = t
         /\ ~ Between(t, h, t)
<1>1. Advance(t) \in Slot /\ Advance(t) = IF t = QueueSize - 1 THEN 0 ELSE t + 1
  BY AdvanceWraps
<1> QED
  BY <1>1, QueueSizeAssumption DEF Between, Slot

(* Taking the slot at the head of a ring that is not empty removes it.     *)
LEMMA RingShrinks ==
  ASSUME NEW h \in Slot, NEW t \in Slot, h # t, NEW k \in Slot
  PROVE  /\ Between(k, Advance(h), t) <=> Between(k, h, t) /\ k # h
         /\ Between(h, h, t)
<1>1. Advance(h) \in Slot /\ Advance(h) = IF h = QueueSize - 1 THEN 0 ELSE h + 1
  BY AdvanceWraps
<1> QED
  BY <1>1, QueueSizeAssumption DEF Between, Slot

(* A ring with one free slot left has one fewer full than slots.           *)
LEMMA RingFull ==
  ASSUME NEW h \in Slot, NEW t \in Slot, Advance(t) = h, NEW k \in Slot
  PROVE  Between(k, h, t) <=> k # t
<1>1. Advance(t) = IF t = QueueSize - 1 THEN 0 ELSE t + 1
  BY AdvanceWraps
<1> QED
  BY <1>1, QueueSizeAssumption DEF Between, Slot

(* What the invariant says of the type of every place.                     *)
LEMMA PlacesTyped ==
  ASSUME TypeOK, Places
  PROVE  /\ Unfetched \subseteq Slot /\ Answered \subseteq Slot
         /\ Building \subseteq Cid /\ Queued \subseteq Cid /\ Executing \subseteq Cid
         /\ Completed \subseteq Cid /\ Calling \subseteq Cid
         /\ \A k \in Unfetched : sq[k].cid \in Cid
         /\ \A cmd \in executing : cmd.cid \in Cid
         /\ \A c \in Outstanding \cup Calling : c \in Cid /\ isUsed[c]
<1>1. Outstanding \cup Calling = {c \in Cid : isUsed[c]}
  BY DEF Places, Located
<1>2. Queued \subseteq Cid /\ Executing \subseteq Cid /\ Calling \subseteq Cid
  BY <1>1 DEF Outstanding
<1>3. /\ \A k \in Unfetched : sq[k].cid \in Queued
      /\ \A cmd \in executing : cmd.cid \in Executing
  BY DEF Queued, Executing
<1> QED
  BY <1>1, <1>2, <1>3 DEF Unfetched, Answered, Building, Completed

(* The pigeonholes: a request is being submitted and every other slot of   *)
(* the submission ring but one would hold another.                         *)
LEMMA RoomToSubmit ==
  ASSUME TypeOK, Places, pc = "sqe"
  PROVE  Advance(sqTail) # devHead
<1> SUFFICES ASSUME Advance(sqTail) = devHead PROVE FALSE
  OBVIOUS
<1>1. sqTail \in Slot /\ devHead \in Slot /\ cur \in Cid
  BY DEF TypeOK
<1>2. Unfetched = Slot \ {sqTail}
  BY <1>1, RingFull DEF Unfetched
<1>3. IsFiniteSet(Slot) /\ Cardinality(Slot) = QueueSize
  BY FS_Interval, QueueSizeAssumption DEF Slot
<1>4. IsFiniteSet(Unfetched) /\ Cardinality(Unfetched) = QueueSize - 1
  BY <1>1, <1>2, <1>3, FS_RemoveElement
<1>5. IsFiniteSet(Cid) /\ Cardinality(Cid) = QueueSize - 1
  BY FS_Interval, QueueSizeAssumption DEF Cid, NumReqs
<1>6. IsFiniteSet(Cid \ {cur}) /\ Cardinality(Cid \ {cur}) = QueueSize - 2
  BY <1>1, <1>5, FS_RemoveElement, QueueSizeAssumption
<1> DEFINE f == [k \in Unfetched |-> sq[k].cid]
<1>7. cur \in Building
  BY <1>1 DEF Building
<1>8. f \in [Unfetched -> Cid \ {cur}]
  BY <1>7, PlacesTyped DEF Places, Disjoint, Queued
<1>9. Cardinality(Cid \ {cur}) < Cardinality(Unfetched)
  BY <1>4, <1>6, QueueSizeAssumption
<1> HIDE DEF f
<1>10. \E j, k \in Unfetched : j # k /\ f[j] = f[k]
  BY <1>4, <1>6, <1>8, <1>9, FS_PigeonHole
<1> QED
  BY <1>10 DEF f, Places, Distinct, SqDistinct

-----------------------------------------------------------------------------
LEMMA RequestInit == Init => RequestInv
<1> SUFFICES ASSUME Init PROVE RequestInv
  OBVIOUS
<1>1. CqInv /\ TypeOK
  BY CqInit DEF CqInv
<1>2. Unfetched = {} /\ Answered = {}
  BY QueueSizeAssumption DEF Init, Unfetched, Answered, Between, Slot
<1>3. Outstanding = {} /\ Calling = {} /\ Building = {} /\ Queued = {}
      /\ Executing = {} /\ Completed = {}
  BY <1>2 DEF Init, Outstanding, Building, Queued, Executing, Completed, Calling
<1>4. Places
  BY <1>2, <1>3 DEF Init, Places, SqBell, Distinct, SqDistinct, ExecDistinct,
     CqDistinct, StackDistinct, Disjoint, Located
<1> QED
  BY <1>1, <1>2, <1>3, <1>4
  DEF Init, RequestInv, Described, Waits, Verdicts

(* A new I/O takes a request that is in no place.                          *)
LEMMA SubmitBeginKeeps ==
  ASSUME RequestInv, CqInv', NEW io \in Io, SubmitBegin(io)
  PROVE  RequestInv'
<1>0. TypeOK /\ TypeOK' /\ Places /\ Described /\ Waits /\ Verdicts
  BY DEF RequestInv, CqInv
<1>1. PICK i \in 0 .. NumReqs - 1 :
        /\ Free(Probe(i))
        /\ isUsed' = [isUsed EXCEPT ![Probe(i)] = TRUE]
        /\ reqIo' = [reqIo EXCEPT ![Probe(i)] = io]
        /\ cur' = Probe(i)
  BY DEF SubmitBegin
<1> DEFINE c == Probe(i)
<1>2. c \in Cid /\ ~ isUsed[c]
  BY <1>0, <1>1, ProbeInPool DEF TypeOK, Free
<1> HIDE DEF c
<1>3. /\ pc = "app" /\ pc' = "sqe" /\ told[io] # "waiting"
      /\ isUsed' = [isUsed EXCEPT ![c] = TRUE]
      /\ reqIo' = [reqIo EXCEPT ![c] = io]
      /\ cur' = c
      /\ told' = [told EXCEPT ![io] = "waiting"]
      /\ verdict' = [verdict EXCEPT ![io] = NoStatus]
      /\ UNCHANGED <<submission, completion, controller, stack>>
  BY <1>1 DEF SubmitBegin, c
<1>4. /\ UNCHANGED <<Unfetched, Answered, Queued, Executing, Completed, Calling>>
      /\ Building = {} /\ Building' = {c}
  BY <1>2, <1>3 DEF submission, completion, controller, Unfetched, Answered,
     Queued, Executing, Completed, Calling, Building
<1>5. c \notin Outstanding /\ c \notin Calling
  BY <1>0, <1>2, PlacesTyped
<1>6. Outstanding' = Outstanding \cup {c}
  BY <1>4 DEF Outstanding
<1>7. Places'
  <2>1. SqBell' /\ Distinct'
    BY <1>0, <1>3, <1>4 DEF Places, SqBell, Distinct, SqDistinct, ExecDistinct,
       CqDistinct, StackDistinct, submission, completion, controller
  <2>2. Disjoint'
    BY <1>0, <1>4, <1>5 DEF Places, Disjoint, Outstanding
  <2>3. {d \in Cid : isUsed'[d]} = {d \in Cid : isUsed[d]} \cup {c}
    BY <1>0, <1>2, <1>3 DEF TypeOK
  <2>4. Located'
    BY <1>0, <1>4, <1>6, <2>3 DEF Places, Located
  <2> QED
    BY <2>1, <2>2, <2>4 DEF Places
<1>8. \A d \in Outstanding : d # c /\ reqIo'[d] = reqIo[d] /\ reqIo[d] # io
  BY <1>0, <1>3, <1>5, PlacesTyped DEF Waits, TypeOK
<1>9. reqIo'[c] = io /\ told'[io] = "waiting" /\ verdict'[io] = NoStatus
  BY <1>0, <1>2, <1>3 DEF TypeOK
<1>10. Described'
  BY <1>0, <1>3, <1>4, <1>8
  DEF Described, Outstanding, Queued, Executing, submission, controller
<1>11. Waits'
  BY <1>0, <1>3, <1>6, <1>8, <1>9 DEF Waits, TypeOK
<1>12. Verdicts'
  <2>1. \A d \in Outstanding : verdict'[reqIo'[d]] = verdict[reqIo[d]]
    BY <1>0, <1>3, <1>8 DEF Waits, TypeOK
  <2>2. ASSUME NEW k \in Answered, cq[k].cid \in Cid
        PROVE  cq[k].cid \in Outstanding
    BY <2>2 DEF Outstanding, Completed
  <2>3. UNCHANGED cq
    BY <1>3 DEF controller
  <2> QED
    BY <1>0, <1>4, <1>9, <2>1, <2>2, <2>3 DEF Verdicts, Outstanding
<1> QED
  BY <1>7, <1>10, <1>11, <1>12 DEF RequestInv

(* The command goes from the call of nvme_submit_io into the ring.         *)
LEMMA SubmitCommandKeeps ==
  ASSUME RequestInv, CqInv', SubmitCommand
  PROVE  RequestInv'
<1>0. TypeOK /\ TypeOK' /\ Places /\ Described /\ Waits /\ Verdicts
  BY DEF RequestInv, CqInv
<1>1. /\ pc = "sqe" /\ pc' = "kick"
      /\ sq' = [sq EXCEPT ![sqTail] = [cid |-> cur, io |-> reqIo[cur]]]
      /\ sqTail' = Advance(sqTail)
      /\ UNCHANGED <<pool, sqDoorbell, completion, cur, stack, controller, handles>>
  BY DEF SubmitCommand
<1>2. sqTail \in Slot /\ devHead \in Slot /\ cur \in Cid /\ Advance(sqTail) # devHead
  BY <1>0, <1>1, RoomToSubmit DEF TypeOK
<1>3. Unfetched' = Unfetched \cup {sqTail} /\ sqTail \notin Unfetched
  BY <1>1, <1>2, RingGrows DEF Unfetched, controller
<1>4. /\ sq'[sqTail].cid = cur /\ sq'[sqTail].io = reqIo[cur]
      /\ \A k \in Unfetched : sq'[k] = sq[k]
  BY <1>0, <1>1, <1>2, <1>3, PlacesTyped DEF TypeOK
<1>5. /\ UNCHANGED <<Answered, Executing, Completed, Calling>>
      /\ Building = {cur} /\ Building' = {}
      /\ Queued' = Queued \cup {cur}
  <2>1. UNCHANGED <<Answered, Executing, Completed, Calling>>
    BY <1>1 DEF completion, controller, Answered, Executing, Completed, Calling
  <2>2. Building = {cur} /\ Building' = {}
    BY <1>1, <1>2 DEF Building
  <2>3. Queued' = Queued \cup {cur}
    BY <1>3, <1>4 DEF Queued
  <2> QED
    BY <2>1, <2>2, <2>3
<1>6. cur \notin Queued
  BY <1>0, <1>5 DEF Places, Disjoint
<1>7. Outstanding' = Outstanding
  BY <1>5 DEF Outstanding
<1>8. Places'
  <2>1. SqBell'
    BY <1>0, <1>1, <1>2 DEF Places, SqBell, controller
  <2>2. SqDistinct'
    BY <1>0, <1>3, <1>4, <1>6 DEF Places, Distinct, SqDistinct, Queued
  <2>3. ExecDistinct' /\ CqDistinct' /\ StackDistinct'
    BY <1>0, <1>1, <1>5 DEF Places, Distinct, ExecDistinct, CqDistinct,
       StackDistinct, controller
  <2>4. Disjoint'
    BY <1>0, <1>5 DEF Places, Disjoint
  <2>5. Located'
    BY <1>0, <1>1, <1>5, <1>7 DEF Places, Located, pool
  <2> QED
    BY <2>1, <2>2, <2>3, <2>4, <2>5 DEF Places, Distinct
<1>9. Described'
  BY <1>0, <1>1, <1>3, <1>4 DEF Described, pool, controller
<1>10. Waits' /\ Verdicts'
  BY <1>0, <1>1, <1>5, <1>7 DEF Waits, Verdicts, pool, controller, handles
<1> QED
  BY <1>8, <1>9, <1>10 DEF RequestInv

(* Steps that leave every request where it is and the rings as they are.   *)
LEMMA SamePlacesKeep ==
  ASSUME RequestInv, CqInv', SqBell', UNCHANGED <<isUsed, reqIo, executing, handles>>,
         UNCHANGED <<sq, cq, stack>>,
         UNCHANGED <<Unfetched, Building, Completed>>,
         Answered' \subseteq Answered
  PROVE  RequestInv'
<1>1. UNCHANGED <<Queued, Executing, Calling>>
  BY DEF Queued, Executing, Calling
<1>2. UNCHANGED Outstanding
  BY <1>1 DEF Outstanding
<1>3. Places'
  BY <1>1, <1>2 DEF RequestInv, Places, Distinct, SqDistinct, ExecDistinct, CqDistinct,
     StackDistinct, Disjoint, Located
<1>4. Described' /\ Waits'
  BY <1>2 DEF RequestInv, Described, Waits, handles
<1>5. Verdicts'
  BY <1>1 DEF RequestInv, Verdicts, handles
<1> QED
  BY <1>3, <1>4, <1>5 DEF RequestInv

(* The doorbell reaches the tail. *)
LEMMA KickKeeps ==
  ASSUME RequestInv, CqInv', Kick
  PROVE  RequestInv'
<1>1. SqBell'
  BY DEF Kick, SqBell
<1>2. UNCHANGED <<Unfetched, Building, Answered>>
  BY DEF Kick, Unfetched, Building, Answered, completion, controller
<1>3. UNCHANGED Completed
  BY <1>2 DEF Kick, Completed, controller
<1> QED
  BY <1>1, <1>2, <1>3, SamePlacesKeep DEF Kick, pool, controller

LEMMA SubmitAbortKeeps ==
  ASSUME RequestInv, CqInv', NEW io \in Io, SubmitAbort(io)
  PROVE  RequestInv'
<1>1. SqBell'
  BY DEF SubmitAbort, SqBell, submission, controller, RequestInv, Places
<1>2. UNCHANGED <<Unfetched, Building, Answered>>
  BY DEF SubmitAbort, Unfetched, Building, Answered, completion, controller, submission
<1>3. UNCHANGED Completed
  BY <1>2 DEF SubmitAbort, Completed, controller
<1> QED
  BY <1>1, <1>2, <1>3, SamePlacesKeep DEF SubmitAbort, pool, controller, submission

(* The entry that is read leaves the ring but is still being read.         *)
LEMMA PollBeginKeeps ==
  ASSUME RequestInv, CqInv', PollBegin
  PROVE  RequestInv'
<1>1. /\ TypeOK /\ pc = "app" /\ pc' = "reap" /\ NewCqe
      /\ cur' = cqHead /\ cqHead' = Advance(cqHead)
      /\ UNCHANGED <<pool, submission, stack, controller, handles>>
  BY DEF PollBegin, RequestInv, CqInv
<1>2. cqHead \in Slot /\ cqTail \in Slot /\ cqHead # cqTail
  <2>1. CqTypes /\ PassPhase /\ HeadPhase
    BY CqTyped DEF RequestInv, CqInv
  <2> QED
    BY <1>1, <2>1 DEF CqTypes, PassPhase, HeadPhase, NewCqe, Slot
<1>3. Answered' = Answered
  BY <1>1, <1>2, RingShrinks DEF Answered, controller
<1>4. SqBell'
  BY <1>1 DEF SqBell, submission, controller, RequestInv, Places
<1>5. UNCHANGED <<Unfetched, Building, Completed>>
  BY <1>1, <1>3 DEF Unfetched, Building, Completed, submission, controller
<1> QED
  BY <1>1, <1>3, <1>4, <1>5, SamePlacesKeep DEF pool, controller, submission

(* An entry that is rejected named no request.                             *)
LEMMA PollRejectKeeps ==
  ASSUME RequestInv, CqInv', PollReject
  PROVE  RequestInv'
<1>1. /\ pc = "reap" /\ pc' = "app" /\ cq[cur].cid \notin Cid
      /\ UNCHANGED <<pool, submission, completion, cur, stack, controller, handles>>
  BY QueueSizeAssumption DEF PollReject, CqeRead, Cid, NumReqs
<1>2. Answered' \subseteq Answered /\ Answered \ {cur} \subseteq Answered'
  BY <1>1 DEF Answered, completion, controller
<1>3. SqBell'
  BY <1>1 DEF SqBell, submission, controller, RequestInv, Places
<1>4. UNCHANGED <<Unfetched, Building, Completed>>
  BY <1>1, <1>2 DEF Unfetched, Building, Completed, submission, controller
<1> QED
  BY <1>1, <1>2, <1>3, <1>4, SamePlacesKeep DEF pool, controller, submission

(* When a callback starts, the entry that was read is consumed and its     *)
(* request joins those whose callbacks run.                                *)
LEMMA CallbackStarts ==
  ASSUME RequestInv, PollCallback
  PROVE  /\ cur \in Answered /\ cq[cur].cid \in Completed
         /\ told' = [told EXCEPT ![reqIo[cq[cur].cid]] = Translate(cq[cur].status)]
         /\ Answered' = Answered \ {cur}
         /\ Len(stack) \in Nat /\ Len(stack') = Len(stack) + 1
         /\ stack'[1] = cq[cur].cid
         /\ \A i \in 1 .. Len(stack) : stack'[i + 1] = stack[i]
         /\ \A i \in 1 .. Len(stack') :
              i = 1 \/ (i - 1 \in 1 .. Len(stack) /\ stack'[i] = stack[i - 1])
         /\ Calling' = Calling \cup {cq[cur].cid}
<1>0. TypeOK
  BY DEF RequestInv, CqInv
<1> DEFINE c == cq[cur].cid
<1>1. /\ pc = "reap" /\ pc' = "app" /\ c \in Cid
      /\ told' = [told EXCEPT ![reqIo[c]] = Translate(cq[cur].status)]
      /\ stack' = <<c>> \o stack
      /\ UNCHANGED <<completion, cur, controller>>
  <2>1. CqeRead.cid \in Cid
    BY <1>0, AcceptedCid DEF PollCallback, CqeRead, Cqe, TypeOK
  <2> QED
    BY <2>1 DEF PollCallback, CqeRead
<1>2. cur \in Answered /\ c \in Completed
  BY <1>0, <1>1 DEF Answered, Completed, TypeOK
<1>3. Answered' = Answered \ {cur}
  <2>1. ~ Between(cur, cqHead, cqTail)
    <3>1. CqTypes /\ CqOrder /\ Between(cur, cqDoorbell, cqHead) /\ Advance(cur) = cqHead
      BY <1>1, CqTyped DEF RequestInv, CqInv, ReapedHeld
    <3>2. cqHead = IF cur = QueueSize - 1 THEN 0 ELSE cur + 1
      BY <1>0, <3>1, AdvanceWraps DEF TypeOK
    <3> QED
      BY <3>1, <3>2, QueueSizeAssumption DEF CqTypes, CqOrder, Between
  <2> QED
    BY <1>1, <2>1 DEF Answered, completion, controller
<1>4. /\ Len(stack') = Len(stack) + 1 /\ Len(stack) \in Nat
      /\ stack'[1] = c
      /\ \A i \in 1 .. Len(stack) : stack'[i + 1] = stack[i]
      /\ \A i \in 1 .. Len(stack') : i = 1 \/ (i - 1 \in 1 .. Len(stack) /\ stack'[i] = stack[i - 1])
  BY <1>0, <1>1 DEF TypeOK
<1>5. Calling' = Calling \cup {c}
  <2>1. Calling' \subseteq Calling \cup {c}
    BY <1>4 DEF Calling
  <2>2. Calling \subseteq Calling'
    <3> SUFFICES ASSUME NEW i \in 1 .. Len(stack) PROVE stack[i] \in Calling'
      BY DEF Calling
    <3>1. i + 1 \in 1 .. Len(stack') /\ stack'[i + 1] = stack[i]
      BY <1>4
    <3> QED
      BY <3>1 DEF Calling
  <2>3. c \in Calling'
    BY <1>4 DEF Calling
  <2> QED
    BY <2>1, <2>2, <2>3
<1> QED
  BY <1>1, <1>2, <1>3, <1>4, <1>5

(* The request goes from the completion ring to its callback.              *)
LEMMA PollCallbackKeeps ==
  ASSUME RequestInv, CqInv', PollCallback
  PROVE  RequestInv'
<1>0. TypeOK /\ TypeOK' /\ Places /\ Described /\ Waits /\ Verdicts
  BY DEF RequestInv, CqInv
<1> DEFINE c == cq[cur].cid
           io == reqIo[c]
<1>1. /\ pc = "reap" /\ pc' = "app"
      /\ told' = [told EXCEPT ![io] = Translate(cq[cur].status)]
      /\ UNCHANGED <<pool, submission, completion, cur, controller, verdict>>
  BY CallbackStarts DEF PollCallback
<1>2. cur \in Answered /\ c \in Completed /\ Answered' = Answered \ {cur}
  BY CallbackStarts
<1>3. c \in Cid
  BY <1>2 DEF Completed
<1>4. /\ Len(stack') = Len(stack) + 1 /\ Len(stack) \in Nat
      /\ stack'[1] = c
      /\ \A i \in 1 .. Len(stack') : i = 1 \/ (i - 1 \in 1 .. Len(stack) /\ stack'[i] = stack[i - 1])
  BY CallbackStarts
<1>5. /\ UNCHANGED <<Unfetched, Building, Queued, Executing>>
      /\ Completed' = Completed \ {c}
      /\ Calling' = Calling \cup {c}
  <2>1. UNCHANGED <<Unfetched, Queued, Executing>> /\ Building' = {} /\ Building = {}
    BY <1>1 DEF Unfetched, Building, Queued, Executing, submission, controller
  <2>2. Completed' = Completed \ {c}
    BY <1>0, <1>1, <1>2 DEF Completed, Places, Distinct, CqDistinct, controller
  <2> QED
    BY <2>1, <2>2, CallbackStarts
<1>6. c \notin Calling
  BY <1>0, <1>2 DEF Places, Disjoint
<1>7. Outstanding' = Outstanding \ {c}
  BY <1>0, <1>2, <1>5 DEF Outstanding, Places, Disjoint
<1> HIDE DEF c, io
<1>8. Places'
  <2>1. SqBell'
    BY <1>0, <1>1 DEF Places, SqBell, submission, controller
  <2>2. SqDistinct' /\ ExecDistinct'
    BY <1>0, <1>1, <1>5 DEF Places, Distinct, SqDistinct, ExecDistinct,
       submission, controller
  <2>3. CqDistinct'
    BY <1>0, <1>1, <1>2 DEF Places, Distinct, CqDistinct, controller
  <2>4. StackDistinct'
    <3>1. StackDistinct /\ \A i \in 1 .. Len(stack) : stack[i] # c
      BY <1>0, <1>6 DEF Places, Distinct, Calling
    <3>2. SUFFICES ASSUME NEW i \in 1 .. Len(stack'), NEW j \in 1 .. Len(stack'),
                          stack'[i] = stack'[j]
                   PROVE  i = j
      BY DEF StackDistinct
    <3>3. CASE i = 1 \/ j = 1
      BY <1>4, <3>1, <3>2, <3>3
    <3>4. CASE i # 1 /\ j # 1
      <4>1. i - 1 = j - 1
        BY <1>4, <3>1, <3>2, <3>4 DEF StackDistinct
      <4> QED
        BY <4>1
    <3> QED
      BY <3>3, <3>4
  <2>5. Disjoint'
    BY <1>0, <1>2, <1>5 DEF Places, Disjoint
  <2>6. Located'
    BY <1>0, <1>1, <1>2, <1>5, <1>7 DEF Places, Located, pool, Outstanding
  <2> QED
    BY <2>1, <2>2, <2>3, <2>4, <2>5, <2>6 DEF Places, Distinct
<1>9. Described'
  BY <1>0, <1>1, <1>5 DEF Described, pool, submission, controller
<1>10. c \in Outstanding /\ io = reqIo[c] /\ UNCHANGED reqIo
  BY <1>1, <1>2 DEF Outstanding, pool, io
<1>11. \A other \in Io : other # io => told'[other] = told[other]
  BY <1>0, <1>1 DEF TypeOK
<1>12. told'[io] # "waiting"
  <2>1. told'[io] = Translate(cq[cur].status)
    BY <1>0, <1>1, <1>10 DEF TypeOK, Waits
  <2> QED
    BY <2>1 DEF Translate
<1>13. Waits'
  BY <1>0, <1>7, <1>10, <1>11, <1>12 DEF Waits
<1>14. Verdicts'
  BY <1>0, <1>1, <1>2, <1>5 DEF Verdicts, pool, controller
<1> QED
  BY <1>8, <1>9, <1>13, <1>14 DEF RequestInv

(* The innermost callback returns and its request leaves the last place.   *)
LEMMA CallbackReturnKeeps ==
  ASSUME RequestInv, CqInv', CallbackReturn
  PROVE  RequestInv'
<1>0. TypeOK /\ TypeOK' /\ Places /\ Described /\ Waits /\ Verdicts
  BY DEF RequestInv, CqInv
<1> DEFINE c == stack[1]
<1>1. /\ pc = "app" /\ stack # <<>> /\ c \in Cid
      /\ isUsed' = [isUsed EXCEPT ![c] = FALSE]
      /\ stack' = Tail(stack)
      /\ UNCHANGED <<reqNext, reqIo, submission, cqHead, cqPhase, pc, cur,
                     controller, handles>>
  BY <1>0 DEF CallbackReturn, TypeOK
<1>2. /\ Len(stack) \in Nat \ {0} /\ Len(stack') = Len(stack) - 1
      /\ \A i \in 1 .. Len(stack') : i + 1 \in 1 .. Len(stack) /\ stack'[i] = stack[i + 1]
  BY <1>0, <1>1 DEF TypeOK
<1>3. UNCHANGED <<Unfetched, Answered, Building, Queued, Executing, Completed>>
  BY <1>1 DEF Unfetched, Answered, Building, Queued, Executing, Completed, submission,
     controller
<1>4. c \in Calling /\ c \notin Outstanding
  BY <1>0, <1>2 DEF Calling, Places, Disjoint, Outstanding
<1>5. Calling' = Calling \ {c}
  <2>1. \A i \in 1 .. Len(stack') : stack'[i] \in Calling /\ stack'[i] # c
    BY <1>0, <1>2 DEF Calling, Places, Distinct, StackDistinct
  <2>2. ASSUME NEW i \in 1 .. Len(stack), stack[i] # c PROVE stack[i] \in Calling'
    <3>1. i # 1 /\ i - 1 \in 1 .. Len(stack') /\ (i - 1) + 1 = i
      BY <1>2, <2>2
    <3>2. stack'[i - 1] = stack[i]
      BY <1>2, <3>1
    <3> QED
      BY <3>1, <3>2 DEF Calling
  <2> QED
    BY <2>1, <2>2 DEF Calling
<1>6. UNCHANGED Outstanding
  BY <1>3 DEF Outstanding
<1> HIDE DEF c
<1>7. Places'
  <2>1. SqBell'
    BY <1>0, <1>1 DEF Places, SqBell, submission, controller
  <2>2. SqDistinct' /\ ExecDistinct' /\ CqDistinct'
    BY <1>0, <1>1, <1>3 DEF Places, Distinct, SqDistinct, ExecDistinct, CqDistinct,
       submission, controller
  <2>3. StackDistinct'
    <3> SUFFICES ASSUME NEW i \in 1 .. Len(stack'), NEW j \in 1 .. Len(stack'),
                        stack'[i] = stack'[j]
                 PROVE  i = j
      BY DEF StackDistinct
    <3>1. i + 1 = j + 1
      BY <1>0, <1>2 DEF Places, Distinct, StackDistinct
    <3> QED
      BY <3>1
  <2>4. Disjoint'
    BY <1>0, <1>3, <1>5 DEF Places, Disjoint
  <2>5. {d \in Cid : isUsed'[d]} = {d \in Cid : isUsed[d]} \ {c}
    BY <1>0, <1>1 DEF TypeOK
  <2>6. Located'
    BY <1>0, <1>4, <1>5, <1>6, <2>5 DEF Places, Located
  <2> QED
    BY <2>1, <2>2, <2>3, <2>4, <2>6 DEF Places, Distinct
<1>8. Described' /\ Waits' /\ Verdicts'
  BY <1>0, <1>1, <1>3, <1>6 DEF Described, Waits, Verdicts, submission, controller,
     handles
<1> QED
  BY <1>7, <1>8 DEF RequestInv

(* The controller takes a command out of the submission ring.              *)
LEMMA DevFetchKeeps ==
  ASSUME RequestInv, CqInv', DevFetch
  PROVE  RequestInv'
<1>0. TypeOK /\ TypeOK' /\ Places /\ Described /\ Waits /\ Verdicts
  BY DEF RequestInv, CqInv
<1> DEFINE cmd == sq[devHead]
<1>1. /\ devHead # sqDoorbell
      /\ executing' = executing \cup {cmd}
      /\ devHead' = Advance(devHead)
      /\ UNCHANGED <<driver, cq, cqTail, devPhase, badCqe, handles>>
  BY DEF DevFetch
<1>2. devHead \in Slot /\ sqTail \in Slot /\ sqDoorbell \in Slot /\ devHead # sqTail
  BY <1>0, <1>1 DEF TypeOK, Places, SqBell
<1>3. Unfetched' = Unfetched \ {devHead} /\ devHead \in Unfetched
  BY <1>1, <1>2, RingShrinks DEF Unfetched, driver, submission
<1>4. /\ UNCHANGED <<Building, Answered, Completed, Calling>>
      /\ Queued' = Queued \ {cmd.cid}
      /\ Executing' = Executing \cup {cmd.cid}
  <2>1. UNCHANGED <<Building, Answered, Completed, Calling>>
    BY <1>1 DEF Building, Answered, Completed, Calling, driver, completion
  <2>2. Queued' = Queued \ {cmd.cid}
    BY <1>0, <1>1, <1>3 DEF Queued, driver, submission, Places, Distinct, SqDistinct
  <2>3. Executing' = Executing \cup {cmd.cid}
    BY <1>1 DEF Executing
  <2> QED
    BY <2>1, <2>2, <2>3
<1>5. cmd.cid \in Queued /\ cmd.cid \notin Executing
  BY <1>0, <1>3 DEF Queued, Places, Disjoint
<1>6. UNCHANGED Outstanding
  BY <1>4, <1>5 DEF Outstanding
<1> HIDE DEF cmd
<1>7. Places'
  <2>1. SqBell'
    <3>1. Advance(devHead) \in Slot /\ Advance(sqDoorbell) \in Slot
          /\ Advance(devHead) = (IF devHead = QueueSize - 1 THEN 0 ELSE devHead + 1)
          /\ Advance(sqDoorbell) = (IF sqDoorbell = QueueSize - 1 THEN 0 ELSE sqDoorbell + 1)
      BY <1>2, AdvanceWraps
    <3>2. Advance(devHead) # Advance(sqDoorbell)
      BY <1>1, <1>2, <3>1, QueueSizeAssumption DEF Slot
    <3> QED
      BY <1>0, <1>1, <3>2 DEF Places, SqBell, driver, submission
  <2>2. SqDistinct' /\ CqDistinct' /\ StackDistinct'
    BY <1>0, <1>1, <1>3, <1>4 DEF Places, Distinct, SqDistinct, CqDistinct,
       StackDistinct, driver, submission
  <2>3. ExecDistinct'
    BY <1>0, <1>1, <1>5 DEF Places, Distinct, ExecDistinct, Executing
  <2>4. Disjoint'
    BY <1>0, <1>4, <1>5 DEF Places, Disjoint
  <2>5. Located'
    BY <1>0, <1>1, <1>4, <1>6 DEF Places, Located, driver, pool
  <2> QED
    BY <2>1, <2>2, <2>3, <2>4, <2>5 DEF Places, Distinct
<1>8. Described'
  BY <1>0, <1>1, <1>3 DEF Described, driver, pool, submission, cmd
<1>9. Waits'
  BY <1>0, <1>1, <1>6 DEF Waits, driver, pool, handles
<1>10. Verdicts'
  BY <1>0, <1>1, <1>4, <1>5 DEF Verdicts, driver, pool, handles
<1> QED
  BY <1>7, <1>8, <1>9, <1>10 DEF RequestInv

(* A completion is added to the ring and changes no entry waiting there.   *)
LEMMA PostAdds ==
  ASSUME RequestInv, NEW cid, NEW s, Post(cid, s), UNCHANGED driver
  PROVE  /\ Answered' = Answered \cup {cqTail}
         /\ cqTail \notin Answered
         /\ \A k \in Answered : cq'[k] = cq[k]
         /\ cq'[cqTail].cid = cid /\ cq'[cqTail].status = s
<1>1. TypeOK /\ CqTypes /\ CqOrder /\ ReapedHeld
  BY CqTyped DEF RequestInv, CqInv
<1>2. /\ cqTail \in Slot /\ cqHead \in Slot
      /\ cq' = [cq EXCEPT ![cqTail] = [cid |-> cid, status |-> s, phase |-> devPhase]]
      /\ cqTail' = Advance(cqTail) /\ Advance(cqTail) # cqDoorbell
      /\ UNCHANGED <<cqHead, pc, cur>>
  BY <1>1 DEF Post, CqFull, TypeOK, driver, completion
<1>3. Advance(cqTail) = IF cqTail = QueueSize - 1 THEN 0 ELSE cqTail + 1
  BY <1>2, AdvanceWraps
<1>4. Advance(cqTail) # cqHead /\ ~ (pc = "reap" /\ cur = cqTail)
  BY <1>1, <1>2, <1>3, QueueSizeAssumption DEF CqTypes, CqOrder, ReapedHeld, Between
<1>5. \A k \in Slot : Between(k, cqHead, cqTail') <=> Between(k, cqHead, cqTail) \/ k = cqTail
  BY <1>2, <1>4, RingGrows
<1>6. ~ Between(cqTail, cqHead, cqTail)
  BY <1>2, <1>4, RingGrows
<1>7. Answered' = Answered \cup {cqTail} /\ cqTail \notin Answered
  BY <1>2, <1>4, <1>5, <1>6 DEF Answered
<1>8. Answered \subseteq Slot
  BY DEF Answered
<1> QED
  BY <1>1, <1>2, <1>7, <1>8 DEF TypeOK

(* The controller completes a command.                                     *)
LEMMA DevCompleteKeeps ==
  ASSUME RequestInv, CqInv', NEW cmd \in executing, NEW s \in Status,
         DevComplete(cmd, s)
  PROVE  RequestInv'
<1>0. TypeOK /\ TypeOK' /\ Places /\ Described /\ Waits /\ Verdicts
  BY DEF RequestInv, CqInv
<1> DEFINE c == cmd.cid
           io == reqIo[c]
<1>1. /\ Post(c, s)
      /\ executing' = executing \ {cmd}
      /\ verdict' = [verdict EXCEPT ![cmd.io] = s]
      /\ UNCHANGED <<driver, devHead, badCqe, told>>
  BY DEF DevComplete
<1>2. /\ Answered' = Answered \cup {cqTail} /\ cqTail \notin Answered
      /\ \A k \in Answered : cq'[k] = cq[k]
      /\ cq'[cqTail].cid = c /\ cq'[cqTail].status = s
  BY <1>1, PostAdds
<1>3. c \in Cid /\ c \in Executing /\ cmd.io = io
  BY <1>0, PlacesTyped DEF Executing, Described
<1>4. /\ UNCHANGED <<Unfetched, Building, Queued, Calling>>
      /\ Executing' = Executing \ {c}
      /\ Completed' = Completed \cup {c}
  <2>1. UNCHANGED <<Unfetched, Building, Queued, Calling>>
    BY <1>1 DEF Unfetched, Building, Queued, Calling, driver, submission
  <2>2. Executing' = Executing \ {c}
    BY <1>0, <1>1 DEF Executing, Places, Distinct, ExecDistinct
  <2>3. Completed' = Completed \cup {c}
    BY <1>2, <1>3 DEF Completed
  <2> QED
    BY <2>1, <2>2, <2>3
<1>5. c \notin Completed
  BY <1>0, <1>3 DEF Places, Disjoint
<1>6. UNCHANGED Outstanding
  BY <1>3, <1>4 DEF Outstanding
<1>7. UNCHANGED <<reqIo, isUsed, sq, sqTail, sqDoorbell, devHead, pc, stack, told>>
  BY <1>1 DEF driver, pool, submission
<1> HIDE DEF c, io
<1>8. Places'
  <2>1. SqBell' /\ SqDistinct' /\ StackDistinct' /\ ExecDistinct'
    BY <1>0, <1>1, <1>4, <1>7 DEF Places, SqBell, Distinct, SqDistinct, StackDistinct,
       ExecDistinct
  <2>2. CqDistinct'
    BY <1>0, <1>2, <1>3, <1>5 DEF Places, Distinct, CqDistinct, Completed
  <2>3. Disjoint'
    BY <1>0, <1>3, <1>4 DEF Places, Disjoint
  <2>4. Located'
    BY <1>0, <1>4, <1>6, <1>7 DEF Places, Located
  <2> QED
    BY <2>1, <2>2, <2>3, <2>4 DEF Places, Distinct
<1>9. Described' /\ Waits'
  BY <1>0, <1>1, <1>4, <1>6, <1>7 DEF Described, Waits
<1>10. c \in Outstanding /\ io = reqIo[c] /\ io \in Io
  BY <1>0, <1>3 DEF Outstanding, Waits, io
<1>11. \A d \in Outstanding : d # c => verdict'[reqIo[d]] = verdict[reqIo[d]]
  BY <1>0, <1>1, <1>3, <1>10 DEF Waits, TypeOK
<1>12. verdict'[io] = s
  BY <1>0, <1>1, <1>3, <1>10 DEF TypeOK
<1>13. Verdicts'
  <2>1. \A d \in Building' \cup Queued' \cup Executing' :
          verdict'[reqIo'[d]] = NoStatus
    BY <1>0, <1>3, <1>4, <1>7, <1>11 DEF Verdicts, Places, Disjoint, Outstanding
  <2>2. ASSUME NEW k \in Answered, cq[k].cid \in Cid
        PROVE  cq[k].cid \in Completed /\ cq[k].cid # c
    BY <1>5, <2>2 DEF Completed
  <2>3. \A k \in Answered :
          cq'[k].cid \in Cid =>
            cq'[k].status \in Status /\ verdict'[reqIo'[cq'[k].cid]] = cq'[k].status
    BY <1>0, <1>2, <1>7, <1>11, <2>2 DEF Verdicts, Outstanding
  <2> QED
    BY <1>2, <1>7, <1>10, <1>12, <2>1, <2>3 DEF Verdicts
<1> QED
  BY <1>8, <1>9, <1>13 DEF RequestInv

(* A completion with a rejected identifier moves no request.               *)
LEMMA DevPostBadKeeps ==
  ASSUME RequestInv, CqInv', NEW c \in BadCid, DevPostBad(c)
  PROVE  RequestInv'
<1>0. TypeOK /\ TypeOK' /\ Places /\ Described /\ Waits /\ Verdicts
  BY DEF RequestInv, CqInv
<1>1. Post(c, 0) /\ UNCHANGED <<driver, devHead, executing, handles>>
  BY DEF DevPostBad
<1>2. /\ Answered' = Answered \cup {cqTail} /\ cqTail \notin Answered
      /\ \A k \in Answered : cq'[k] = cq[k]
      /\ cq'[cqTail].cid = c
  BY <1>1, PostAdds
<1>3. c \notin Cid
  BY BadCidAssumption, QueueSizeAssumption DEF Cid, NumReqs
<1>4. UNCHANGED <<Unfetched, Building, Queued, Executing, Completed, Calling>>
  BY <1>1, <1>2, <1>3 DEF Unfetched, Building, Queued, Executing, Completed, Calling,
     driver, submission
<1>5. UNCHANGED Outstanding
  BY <1>4 DEF Outstanding
<1>6. UNCHANGED <<reqIo, isUsed, sq, sqTail, sqDoorbell, pc, stack, told, verdict>>
  BY <1>1 DEF driver, pool, submission, handles
<1>7. Places'
  BY <1>0, <1>1, <1>2, <1>3, <1>4, <1>5, <1>6 DEF Places, SqBell, Distinct, SqDistinct,
     StackDistinct, ExecDistinct, CqDistinct, Disjoint, Located
<1>8. Described' /\ Waits'
  BY <1>0, <1>1, <1>4, <1>5, <1>6 DEF Described, Waits
<1>9. Verdicts'
  BY <1>0, <1>2, <1>3, <1>4, <1>6 DEF Verdicts
<1> QED
  BY <1>7, <1>8, <1>9 DEF RequestInv

LEMMA RequestStep == RequestInv /\ [Next]_vars => RequestInv'
<1> SUFFICES ASSUME RequestInv, [Next]_vars PROVE RequestInv'
  OBVIOUS
<1>1. CqInv'
  BY CqStep DEF RequestInv
<1>2. CASE UNCHANGED vars
  <2>1. UNCHANGED <<Unfetched, Building, Answered, Completed>>
    BY <1>2 DEF vars, driver, pool, submission, completion, controller, Unfetched,
       Building, Answered, Completed
  <2>2. SqBell'
    BY <1>2 DEF vars, driver, submission, controller, RequestInv, Places, SqBell
  <2> QED
    BY <1>1, <1>2, <2>1, <2>2, SamePlacesKeep DEF vars, driver, pool, submission,
       controller
<1> QED
  BY <1>1, <1>2, SubmitBeginKeeps, SubmitAbortKeeps, SubmitCommandKeeps, KickKeeps,
     PollBeginKeeps, PollRejectKeeps, PollCallbackKeeps, CallbackReturnKeeps,
     DevFetchKeeps, DevCompleteKeeps, DevPostBadKeeps DEF Next, Submit, Poll, Device

LEMMA RequestInvariant == Spec => []RequestInv
BY RequestInit, RequestStep, PTL DEF Spec

-----------------------------------------------------------------------------
(* nvme_submit_command may write without looking at the controller's head: *)
(* with QueueSize - 1 requests the new tail never reaches it.              *)
THEOREM RingNeverOverrun == Spec => []SqNeverOverrun
<1>1. RequestInv => SqNeverOverrun
  BY RoomToSubmit DEF RequestInv, CqInv, SqNeverOverrun
<1> QED
  BY <1>1, RequestInvariant, PTL

(* A command in the ring or in the controller has its request, with the    *)
(* callback and the PRP list page, to itself.                              *)
THEOREM RequestsOwned == Spec => []DeviceOwnsRequest
<1>1. ASSUME RequestInv PROVE DeviceOwnsRequest
  <2>1. TypeOK /\ Places /\ Described /\ Waits
    BY <1>1 DEF RequestInv, CqInv
  <2>2. ASSUME NEW k \in Unfetched PROVE sq[k].cid \in Outstanding
    BY DEF Outstanding, Queued
  <2>3. ASSUME NEW cmd \in executing PROVE cmd.cid \in Outstanding
    BY DEF Outstanding, Executing
  <2> QED
    BY <2>1, <2>2, <2>3, PlacesTyped DEF DeviceOwnsRequest, Described, Waits
<1> QED
  BY <1>1, RequestInvariant, PTL

(* Recycling requests round robin never gives the controller two commands  *)
(* with one identifier.                                                    *)
THEOREM NoConflict == Spec => []NoCidConflict
<1>1. ASSUME RequestInv PROVE NoCidConflict
  <2>1. SqDistinct /\ ExecDistinct /\ Queued \cap Executing = {}
    BY <1>1 DEF RequestInv, Places, Distinct, Disjoint
  <2> QED
    BY <2>1 DEF NoCidConflict, SqDistinct, ExecDistinct, Queued, Executing
<1> QED
  BY <1>1, RequestInvariant, PTL

=============================================================================

------------------------ MODULE NvmeQueuePairProofs ------------------------
(***************************************************************************)
(* What NvmeQueuePair guarantees for every queue size, every set of I/O    *)
(* handles and statuses, any number of rejected completions and any depth  *)
(* of nested callbacks.                                                    *)
(***************************************************************************)
EXTENDS NvmeQueuePair, TLAPS

(* A ring index stays in the ring, and wraps exactly after the last slot.  *)
LEMMA AdvanceWraps ==
  ASSUME NEW k \in Slot
  PROVE  /\ Advance(k) \in Slot
         /\ Advance(k) = IF k = QueueSize - 1 THEN 0 ELSE k + 1
BY QueueSizeAssumption DEF Slot, Advance

(* nvme_get_free_req only looks at requests of the pool.                   *)
LEMMA ProbeInPool ==
  ASSUME reqNext \in 0 .. NumReqs - 1, NEW i \in 0 .. NumReqs - 1
  PROVE  /\ Probe(i) \in Cid
         /\ (reqNext + i + 1) % NumReqs \in 0 .. NumReqs - 1
BY QueueSizeAssumption DEF Probe, Cid, NumReqs

(* The identifier test of nvme_poll_cq admits only requests of the pool.   *)
LEMMA AcceptedCid ==
  ASSUME NEW cid \in Cid \cup BadCid \cup {0}, cid # 0, cid < QueueSize
  PROVE  cid \in Cid
BY QueueSizeAssumption, BadCidAssumption DEF Cid, NumReqs

LEMMA TypeInit == Init => TypeOK
<1> SUFFICES ASSUME Init PROVE TypeOK
  OBVIOUS
<1>1. 0 \in Slot /\ 0 \in 0 .. NumReqs - 1
  BY QueueSizeAssumption DEF Slot, NumReqs
<1>2. sq \in [Slot -> Sqe] /\ cq \in [Slot -> Cqe]
  BY DEF Init, Sqe, Cqe
<1> QED
  BY <1>1, <1>2 DEF Init, TypeOK

LEMMA TypeStep == TypeOK /\ [Next]_vars => TypeOK'
<1> SUFFICES ASSUME TypeOK, [Next]_vars PROVE TypeOK'
  OBVIOUS
<1> USE DEF TypeOK, vars, driver, pool, submission, completion, controller,
            handles
<1>1. ASSUME NEW io \in Io, SubmitBegin(io) PROVE TypeOK'
  <2>1. PICK i \in 0 .. NumReqs - 1 :
          /\ isUsed' = [isUsed EXCEPT ![Probe(i)] = TRUE]
          /\ reqIo' = [reqIo EXCEPT ![Probe(i)] = io]
          /\ reqNext' = (reqNext + i + 1) % NumReqs
          /\ cur' = Probe(i)
    BY <1>1 DEF SubmitBegin
  <2>2. Probe(i) \in Cid /\ reqNext' \in 0 .. NumReqs - 1
    BY <2>1, ProbeInPool
  <2>3. Cid \subseteq Slot
    BY QueueSizeAssumption DEF Cid, NumReqs, Slot
  <2> QED
    BY <1>1, <2>1, <2>2, <2>3 DEF SubmitBegin
<1>2. ASSUME NEW io \in Io, SubmitAbort(io) PROVE TypeOK'
  BY <1>2 DEF SubmitAbort
<1>3. CASE SubmitCommand
  <2>1. [cid |-> cur, io |-> reqIo[cur]] \in Sqe
    BY <1>3 DEF SubmitCommand, Sqe
  <2>2. Advance(sqTail) \in Slot
    BY AdvanceWraps
  <2> QED
    BY <1>3, <2>1, <2>2 DEF SubmitCommand
<1>4. CASE Kick
  BY <1>4 DEF Kick
<1>5. CASE PollBegin
  <2>1. Advance(cqHead) \in Slot /\ NextPhase \in {0, 1}
    BY AdvanceWraps DEF NextPhase
  <2> QED
    BY <1>5, <2>1 DEF PollBegin
<1>6. CASE PollReject
  BY <1>6 DEF PollReject
<1>7. CASE PollCallback
  <2> DEFINE c == CqeRead.cid
  <2>1. c \in Cid
    BY <1>7, AcceptedCid DEF PollCallback, CqeRead, Cqe
  <2>2. stack' \in Seq(Cid)
    BY <1>7, <2>1 DEF PollCallback
  <2>3. Translate(CqeRead.status) \in Rc
    BY DEF Translate, Rc
  <2>4. told' \in [Io -> Rc \cup {"idle", "waiting"}]
    BY <1>7, <2>3 DEF PollCallback
  <2> QED
    BY <1>7, <2>2, <2>4 DEF PollCallback
<1>8. CASE CallbackReturn
  <2>1. Tail(stack) \in Seq(Cid)
    BY <1>8 DEF CallbackReturn
  <2> QED
    BY <1>8, <2>1 DEF CallbackReturn, Released
<1>9. CASE DevFetch
  <2>1. Advance(devHead) \in Slot
    BY AdvanceWraps
  <2> QED
    BY <1>9, <2>1 DEF DevFetch
<1>10. ASSUME NEW cid \in Cid \cup BadCid \cup {0}, NEW s \in Status \cup {0},
              Post(cid, s)
       PROVE  cq' \in [Slot -> Cqe] /\ cqTail' \in Slot /\ devPhase' \in {0, 1}
  <2>1. [cid |-> cid, status |-> s, phase |-> devPhase] \in Cqe
    BY DEF Cqe
  <2>2. Advance(cqTail) \in Slot
    BY AdvanceWraps
  <2> QED
    BY <1>10, <2>1, <2>2 DEF Post
<1>11. ASSUME NEW cmd \in executing, NEW s \in Status, DevComplete(cmd, s)
       PROVE  TypeOK'
  <2>1. cmd.cid \in Cid \cup BadCid \cup {0}
    BY DEF Sqe
  <2>2. cq' \in [Slot -> Cqe] /\ cqTail' \in Slot /\ devPhase' \in {0, 1}
    BY <1>10, <1>11, <2>1 DEF DevComplete
  <2> QED
    BY <1>11, <2>2 DEF DevComplete
<1>12. ASSUME NEW c \in BadCid, DevPostBad(c) PROVE TypeOK'
  <2>1. cq' \in [Slot -> Cqe] /\ cqTail' \in Slot /\ devPhase' \in {0, 1}
    BY <1>10, <1>12 DEF DevPostBad
  <2> QED
    BY <1>12, <2>1 DEF DevPostBad
<1>13. CASE UNCHANGED vars
  BY <1>13
<1> QED
  BY <1>1, <1>2, <1>3, <1>4, <1>5, <1>6, <1>7, <1>8, <1>9, <1>11, <1>12, <1>13
  DEF Next, Submit, Poll, Device

(* Type correctness: indices stay in their rings, identifiers in the pool. *)
THEOREM TypeCorrect == Spec => []TypeOK
BY TypeInit, TypeStep, PTL DEF Spec

-----------------------------------------------------------------------------
(* The completion ring.  Going round from the doorbell one meets the head  *)
(* and then the tail; the controller's phase bit marks the slots of its    *)
(* current pass, and the driver's is the opposite one until the controller *)
(* is a pass ahead.  The entry being reaped is the last before the head    *)
(* and has not been given back.                                            *)
CqOrder ==
  \/ cqDoorbell <= cqHead /\ cqHead <= cqTail
  \/ cqHead <= cqTail /\ cqTail < cqDoorbell
  \/ cqTail < cqDoorbell /\ cqDoorbell <= cqHead

PassPhase ==
  \A k \in Slot : cq[k].phase = IF k < cqTail THEN devPhase ELSE 1 - devPhase

HeadPhase == cqPhase = IF cqHead <= cqTail THEN 1 - devPhase ELSE devPhase

ReapedHeld ==
  pc = "reap" => Between(cur, cqDoorbell, cqHead) /\ Advance(cur) = cqHead

CqTypes ==
  /\ cqHead \in 0 .. QueueSize - 1 /\ cqTail \in 0 .. QueueSize - 1
  /\ cqDoorbell \in 0 .. QueueSize - 1 /\ cur \in 0 .. QueueSize - 1
  /\ cqPhase \in {0, 1} /\ devPhase \in {0, 1}
  /\ cq \in [Slot -> Cqe]

LEMMA CqTyped == TypeOK => CqTypes
BY DEF TypeOK, CqTypes, Slot

CqInv == TypeOK /\ CqOrder /\ PassPhase /\ HeadPhase /\ ReapedHeld

LEMMA CqInit == Init => CqInv
<1> SUFFICES ASSUME Init PROVE CqInv
  OBVIOUS
<1>1. TypeOK
  BY TypeInit
<1> QED
  BY <1>1, QueueSizeAssumption
  DEF Init, CqInv, CqOrder, PassPhase, HeadPhase, ReapedHeld, Slot

(* Posting a completion keeps the invariant: the slot is outside the part  *)
(* the driver has yet to read or to give back.                             *)
LEMMA PostKeepsCq ==
  ASSUME CqInv, TypeOK', NEW cid, NEW s, Post(cid, s),
         UNCHANGED <<cqHead, cqPhase, cqDoorbell, pc, cur>>
  PROVE  CqInv'
<1>0. CqTypes /\ CqTypes' /\ CqOrder /\ PassPhase /\ HeadPhase /\ ReapedHeld
  BY CqTyped DEF CqInv, CqTypes, TypeOK, Slot
<1>1. /\ cqTail \in Slot /\ cqTail' = Advance(cqTail)
      /\ cqTail' = IF cqTail = QueueSize - 1 THEN 0 ELSE cqTail + 1
      /\ cqTail' # cqDoorbell
      /\ devPhase' = IF cqTail' = 0 THEN 1 - devPhase ELSE devPhase
      /\ cq' = [cq EXCEPT ![cqTail] =
                  [cid |-> cid, status |-> s, phase |-> devPhase]]
  BY <1>0, AdvanceWraps DEF Post, CqFull, CqTypes, Slot
<1> USE QueueSizeAssumption DEF CqTypes
<1>2. CqOrder'
  BY <1>0, <1>1 DEF CqOrder
<1>3. PassPhase'
  <2> SUFFICES ASSUME NEW k \in Slot
               PROVE  cq'[k].phase = IF k < cqTail' THEN devPhase' ELSE 1 - devPhase'
    BY DEF PassPhase
  <2>1. cq'[k].phase = IF k = cqTail THEN devPhase ELSE cq[k].phase
    BY <1>0, <1>1
  <2>2. cq[k].phase = IF k < cqTail THEN devPhase ELSE 1 - devPhase
    BY <1>0 DEF PassPhase
  <2>3. k \in 0 .. QueueSize - 1
    BY DEF Slot
  <2>4. CASE cqTail = QueueSize - 1
    <3>1. cqTail' = 0 /\ devPhase' = 1 - devPhase
      BY <1>1, <2>4
    <3> QED
      BY <1>0, <2>1, <2>2, <2>3, <2>4, <3>1
  <2>5. CASE cqTail # QueueSize - 1
    <3>1. cqTail' = cqTail + 1 /\ devPhase' = devPhase
      BY <1>0, <1>1, <2>5
    <3> QED
      BY <1>0, <2>1, <2>2, <2>3, <2>5, <3>1
  <2> QED
    BY <2>4, <2>5
<1>4. HeadPhase'
  BY <1>0, <1>1 DEF HeadPhase, CqOrder
<1>5. ReapedHeld'
  BY <1>0 DEF ReapedHeld, Between, Advance
<1> QED
  BY <1>2, <1>3, <1>4, <1>5 DEF CqInv

LEMMA CqStep == CqInv /\ [Next]_vars => CqInv'
<1> SUFFICES ASSUME CqInv, [Next]_vars PROVE CqInv'
  OBVIOUS
<1> USE DEF vars, driver, pool, submission, completion, controller, handles
<1>0. /\ TypeOK /\ TypeOK' /\ CqTypes /\ CqTypes'
      /\ CqOrder /\ PassPhase /\ HeadPhase /\ ReapedHeld
  BY TypeStep, CqTyped DEF CqInv, TypeOK, CqTypes, Slot
<1> DEFINE Ring == <<cq, cqHead, cqPhase, cqTail, devPhase, cqDoorbell>>
<1>1. ASSUME UNCHANGED Ring, pc' # "reap" \/ UNCHANGED <<pc, cur>> PROVE CqInv'
  BY <1>0, <1>1 DEF CqInv, CqOrder, PassPhase, HeadPhase, ReapedHeld
<1>2. ASSUME NEW io \in Io, SubmitBegin(io) \/ SubmitAbort(io) PROVE CqInv'
  BY <1>1, <1>2 DEF SubmitBegin, SubmitAbort
<1>3. CASE SubmitCommand \/ Kick
  BY <1>1, <1>3 DEF SubmitCommand, Kick
<1>4. CASE PollBegin
  <2>1. /\ UNCHANGED <<cq, cqTail, devPhase, cqDoorbell>>
        /\ cur' = cqHead /\ cqHead' = Advance(cqHead)
        /\ cqHead' = IF cqHead = QueueSize - 1 THEN 0 ELSE cqHead + 1
        /\ cqPhase' = IF cqHead' = 0 THEN 1 - cqPhase ELSE cqPhase
        /\ cq[cqHead].phase # cqPhase
    BY <1>0, <1>4, AdvanceWraps DEF PollBegin, NextPhase, NewCqe, CqTypes, Slot
  <2> USE QueueSizeAssumption DEF CqTypes
  <2>2. cqHead # cqTail
    BY <1>0, <2>1 DEF PassPhase, HeadPhase, Slot
  <2>3. CqOrder'
    BY <1>0, <2>1, <2>2 DEF CqOrder
  <2>4. PassPhase'
    BY <1>0, <2>1 DEF PassPhase
  <2>5. HeadPhase'
    BY <1>0, <2>1, <2>2 DEF HeadPhase, CqOrder
  <2>6. ReapedHeld'
    BY <1>0, <2>1, <2>2 DEF CqOrder, ReapedHeld, Between, Advance
  <2> QED
    BY <1>0, <2>3, <2>4, <2>5, <2>6 DEF CqInv
<1>5. CASE PollReject
  BY <1>1, <1>5 DEF PollReject
<1>6. CASE PollCallback
  BY <1>1, <1>6 DEF PollCallback
<1>7. CASE CallbackReturn
  <2>1. /\ UNCHANGED <<cq, cqHead, cqPhase, cqTail, devPhase, pc>>
        /\ pc = "app" /\ cqDoorbell' = cqHead
    BY <1>7 DEF CallbackReturn, Released
  <2>2. CqOrder'
    BY <1>0, <2>1 DEF CqOrder, CqTypes
  <2>3. PassPhase' /\ HeadPhase' /\ ReapedHeld'
    BY <1>0, <2>1 DEF PassPhase, HeadPhase, ReapedHeld
  <2> QED
    BY <1>0, <2>2, <2>3 DEF CqInv
<1>8. CASE DevFetch
  BY <1>1, <1>8 DEF DevFetch
<1>9. ASSUME NEW cmd \in executing, NEW s \in Status, DevComplete(cmd, s)
      PROVE  CqInv'
  BY <1>0, <1>9, PostKeepsCq DEF DevComplete
<1>10. ASSUME NEW c \in BadCid, DevPostBad(c) PROVE CqInv'
  BY <1>0, <1>10, PostKeepsCq DEF DevPostBad
<1>11. CASE UNCHANGED vars
  BY <1>1, <1>11
<1> QED
  BY <1>2, <1>3, <1>4, <1>5, <1>6, <1>7, <1>8, <1>9, <1>10, <1>11
  DEF Next, Submit, Poll, Device

LEMMA CqInvariant == Spec => []CqInv
BY CqInit, CqStep, PTL DEF Spec

(* nvme_poll_cq's phase test never takes a stale entry for a new one nor   *)
(* overlooks a new one, however often the ring has wrapped.                *)
THEOREM PhaseTagCorrect == Spec => []PhaseTagExact
<1>1. CqInv => PhaseTagExact
  BY CqTyped DEF CqInv, CqTypes, PassPhase, HeadPhase, PhaseTagExact, NewCqe, Slot
<1> QED
  BY <1>1, CqInvariant, PTL

(* A completion stays as posted until nvme_poll_cq has read it.            *)
THEOREM CompletionsStable == Spec => CqeStable
<1>1. CqInv /\ [Next]_vars =>
        [\A k \in Slot :
           cq'[k] # cq[k] => k \notin Posted /\ ~ (pc = "reap" /\ cur = k)]_vars
  <2> SUFFICES ASSUME CqInv, Next, NEW k \in Slot, cq'[k] # cq[k]
               PROVE  k \notin Posted /\ ~ (pc = "reap" /\ cur = k)
    BY DEF vars
  <2>1. \E cid, s : Post(cid, s)
    <3>1. ~ (Submit \/ SubmitCommand \/ Kick \/ Poll \/ DevFetch)
      BY DEF Submit, SubmitBegin, SubmitAbort, SubmitCommand, Kick, Poll, PollBegin,
             PollReject, PollCallback, CallbackReturn, DevFetch, driver, controller
    <3> QED
      BY <3>1 DEF Next, Device, DevComplete, DevPostBad
  <2>2. k = cqTail /\ Advance(cqTail) # cqDoorbell
    BY <2>1 DEF Post, CqFull, CqInv, TypeOK
  <2>3. Advance(cqTail) = IF cqTail = QueueSize - 1 THEN 0 ELSE cqTail + 1
    BY AdvanceWraps DEF CqInv, TypeOK
  <2> USE QueueSizeAssumption, CqTyped DEF CqInv, CqTypes
  <2>4. k \notin Posted
    BY <2>2 DEF Posted, Between
  <2>5. ~ (pc = "reap" /\ cur = k)
    BY <2>2, <2>3 DEF ReapedHeld, CqOrder, Between
  <2> QED
    BY <2>4, <2>5
<1> QED
  BY <1>1, CqInvariant, PTL DEF Spec, CqeStable

=============================================================================

---------------------------- MODULE IoatChannel -----------------------------
(***************************************************************************)
(* One DMA channel of lib/ioat.c (struct propig_ioat_chan) from the return *)
(* of ioat_channel_init on: the descriptor ring, the calls that fill it    *)
(* (build_copy, build_fill, submit_copy, submit_fill, flush), and          *)
(* process_events, which walks it after the engine.                        *)
(*                                                                         *)
(* The library is single threaded; the DMA engine is not under src/ and    *)
(* runs concurrently, so a call is cut between its accesses to the memory  *)
(* and the register the engine shares.  A callback is application code run *)
(* in the middle of process_events: it may build, submit and flush.  It    *)
(* does not call process_events itself: that call would find ring[tail]    *)
(* not yet retired and run the same callback again, without end.           *)
(*                                                                         *)
(* A request is a number of descriptors, the chunks of at most             *)
(* max_xfer_size bytes; only the last one carries the callback.            *)
(*                                                                         *)
(* Definitions named Fault... are not part of the model: each is a wrong   *)
(* version of the definition that follows it, there to show that the       *)
(* properties notice.                                                      *)
(***************************************************************************)
EXTENDS Integers

CONSTANTS
  RingSize,    \* 1 << ring_size_order
  CountMod,    \* 2^32: head and tail are uint32_t
  DmaMod,      \* 2^16: dmacount is 16 bits wide
  Req,         \* the caller's requests (the callback argument)
  NoReq,       \* no callback, or a descriptor of no request
  NoSlot,      \* no process_events in progress
  CopyParts,   \* descriptors of a copy; zero bytes take one null descriptor
  FillParts    \* descriptors of a fill; zero bytes take none

ASSUME RingSizeAssumption == RingSize \in Nat /\ RingSize >= 2
ASSUME CounterAssumption ==
  /\ DmaMod \in Nat /\ DmaMod > RingSize /\ DmaMod % RingSize = 0
  /\ CountMod \in Nat /\ CountMod > 0 /\ CountMod % DmaMod = 0
ASSUME NoReqAssumption == NoReq \notin Req
ASSUME PartsAssumption == CopyParts \subseteq Nat \ {0} /\ FillParts \subseteq Nat

Slot == 0 .. RingSize - 1
ASSUME NoSlotAssumption == NoSlot \notin Slot

VARIABLES
  \* struct propig_ioat_chan
  head, tail,  \* free-running counts of descriptors prepared and retired
  lastSeen,    \* last_seen, as a slot
  cb,          \* ring[slot].callback_arg, NoReq for a null callback_fn
  \* the thread that runs the library
  pc,
  req,         \* the request being built
  left,        \* descriptors it still needs
  origHead,    \* orig_head
  flushToo,    \* the call is submit_..., not build_...
  completed,   \* completed_descriptor of the process_events in progress
  \* memory and registers shared with the engine
  hw,          \* hw_ring: whose descriptor, and its completion_update bit
  dmacount,    \* regs->dmacount
  compSlot,    \* *comp_update: the completed descriptor ...
  halted,      \* ... and whether the channel status is halted
  \* the engine (external)
  executed,    \* descriptors executed since the reset, modulo DmaMod
  \* the application (external)
  told         \* what the caller knows of each request

driver == <<head, tail, lastSeen, cb>>
build == <<req, left, origHead, flushToo>>
engine == <<compSlot, halted, executed>>
vars == <<driver, pc, build, completed, hw, dmacount, engine, told>>

FaultSucc(count) == count + 1
Succ(count) == (count + 1) % CountMod
Index(count) == count % RingSize           \* ioat_get_ring_index
Active == ((head - tail) % CountMod) % RingSize

FaultRingSpace == RingSize - Active
RingSpace == RingSize - Active - 1         \* ioat_get_ring_space

Waiting == {"built", "submitted"}

(* ioat_channel_init returns after the engine has executed its null        *)
(* descriptor and process_events has retired it.                           *)
Init ==
  /\ head = 1 /\ tail = 1 /\ lastSeen = 0
  /\ cb = [s \in Slot |-> NoReq]
  /\ pc = "app"
  /\ req = NoReq /\ left = 0 /\ origHead = 0 /\ flushToo = FALSE
  /\ completed = NoSlot
  /\ hw = [s \in Slot |-> [req |-> NoReq, update |-> s = 0]]
  /\ dmacount = 1 /\ executed = 1 /\ compSlot = 0 /\ halted = FALSE
  /\ told = [r \in Req |-> "idle"]

-----------------------------------------------------------------------------
(* build_copy, build_fill and, when flushToo, submit_copy and submit_fill. *)
(* The application does not reuse a request that waits for its callback.   *)
BuildBegin(r, n, andFlush) ==
  /\ pc = "app"
  /\ told[r] \notin Waiting
  /\ req' = r /\ left' = n /\ origHead' = head /\ flushToo' = andFlush
  /\ told' = [told EXCEPT ![r] = "building"]
  /\ pc' = "prep"
  /\ UNCHANGED <<driver, completed, hw, dmacount, engine>>

(* ioat_prep_copy, ioat_prep_fill, ioat_prep_null: one descriptor. *)
Prep ==
  /\ pc = "prep" /\ left > 0 /\ RingSpace >= 1
  /\ hw' = [hw EXCEPT ![Index(head)] = [req |-> req, update |-> FALSE]]
  /\ cb' = [cb EXCEPT ![Index(head)] = NoReq]
  /\ head' = Succ(head)
  /\ left' = left - 1
  /\ UNCHANGED <<tail, lastSeen, pc, req, origHead, flushToo, completed,
                 dmacount, engine, told>>

(* last_desc is NULL: for want of a free descriptor or, in build_fill with *)
(* no bytes, because the loop never ran.                                   *)
NoDescriptor == (left > 0 /\ RingSpace = 0) \/ (left = 0 /\ head = origHead)

(* The call gives its descriptors back and returns -ENOMEM. *)
Refuse ==
  /\ pc = "prep" /\ NoDescriptor
  /\ head' = origHead
  /\ told' = [told EXCEPT ![req] = "refused"]
  /\ pc' = "app"
  /\ UNCHANGED <<tail, lastSeen, cb, build, completed, hw, dmacount, engine>>

(* The last descriptor gets the callback. *)
FaultCallbackSlot == Index(head)
CallbackSlot == Index(head - 1)

BuildEnd ==
  /\ pc = "prep" /\ left = 0 /\ head # origHead
  /\ cb' = [cb EXCEPT ![CallbackSlot] = req]
  /\ told' = [told EXCEPT ![req] = "built"]
  /\ pc' = IF flushToo THEN "flush" ELSE "app"
  /\ UNCHANGED <<head, tail, lastSeen, build, completed, hw, dmacount, engine>>

-----------------------------------------------------------------------------
(* propig_ioat_flush: mark the last descriptor, then tell the engine.      *)
FlushBegin ==
  /\ pc = "app"
  /\ pc' = "flush"
  /\ UNCHANGED <<driver, build, completed, hw, dmacount, engine, told>>

FaultFlushMark ==
  /\ pc = "flush"
  /\ pc' = "ring"
  /\ UNCHANGED <<driver, build, completed, hw, dmacount, engine, told>>

FlushMark ==
  /\ pc = "flush"
  /\ hw' = [hw EXCEPT ![Index(head - 1)].update = TRUE]
  /\ pc' = "ring"
  /\ UNCHANGED <<driver, build, completed, dmacount, engine, told>>

FlushRing ==
  /\ pc = "ring"
  /\ dmacount' = head % DmaMod
  /\ told' = [r \in Req |-> IF told[r] = "built" THEN "submitted" ELSE told[r]]
  /\ pc' = "app"
  /\ UNCHANGED <<driver, build, completed, hw, engine>>

-----------------------------------------------------------------------------
(* propig_ioat_process_events.                                             *)

(* The completion word names a descriptor not seen before. *)
PollBegin ==
  /\ pc = "app" /\ completed = NoSlot
  /\ head # tail
  /\ ~ halted
  /\ compSlot # lastSeen
  /\ completed' = compSlot
  /\ pc' = "walk"
  /\ UNCHANGED <<driver, build, hw, dmacount, engine, told>>

FaultRetire ==
  /\ tail' = Succ(tail)
  /\ IF Index(tail) = completed
     THEN UNCHANGED lastSeen /\ completed' = NoSlot /\ pc' = "app"
     ELSE UNCHANGED <<lastSeen, completed>> /\ pc' = "walk"

(* The walk retires the descriptor at the tail, and ends with the one the  *)
(* completion word named.                                                  *)
Retire ==
  /\ tail' = Succ(tail)
  /\ IF Index(tail) = completed
     THEN lastSeen' = completed /\ completed' = NoSlot /\ pc' = "app"
     ELSE UNCHANGED <<lastSeen, completed>> /\ pc' = "walk"

(* A descriptor without a callback. *)
WalkSkip ==
  /\ pc = "walk" /\ cb[Index(tail)] = NoReq
  /\ Retire
  /\ UNCHANGED <<head, cb, build, hw, dmacount, engine, told>>

(* A descriptor with one: the callback starts ... *)
WalkCallback ==
  /\ pc = "walk" /\ cb[Index(tail)] # NoReq
  /\ told' = [told EXCEPT ![cb[Index(tail)]] = "done"]
  /\ pc' = "app"
  /\ UNCHANGED <<driver, build, completed, hw, dmacount, engine>>

(* ... and returns. *)
CallbackReturn ==
  /\ pc = "app" /\ completed # NoSlot
  /\ Retire
  /\ UNCHANGED <<head, cb, build, hw, dmacount, engine, told>>

-----------------------------------------------------------------------------
(* The engine (external) executes descriptors in ring order up to          *)
(* dmacount, and writes the completion word after one that asks for it.    *)
EngineExecute ==
  /\ ~ halted /\ executed # dmacount
  /\ executed' = (executed + 1) % DmaMod
  /\ compSlot' = IF hw[Index(executed)].update THEN Index(executed) ELSE compSlot
  /\ UNCHANGED <<driver, pc, build, completed, hw, dmacount, halted, told>>

(* An error stops the channel (CHANCTRL_ANY_ERR_ABORT_EN). *)
EngineHalt ==
  /\ ~ halted /\ executed # dmacount
  /\ halted' = TRUE
  /\ UNCHANGED <<driver, pc, build, completed, hw, dmacount, compSlot, executed,
                 told>>

-----------------------------------------------------------------------------
Build ==
  \/ \E r \in Req, andFlush \in BOOLEAN :
       \E n \in CopyParts \cup FillParts : BuildBegin(r, n, andFlush)
  \/ Prep \/ Refuse \/ BuildEnd
Flush == FlushBegin \/ FlushMark \/ FlushRing
Poll == PollBegin \/ WalkSkip \/ WalkCallback \/ CallbackReturn
Engine == EngineExecute \/ EngineHalt

Next == Build \/ Flush \/ Poll \/ Engine

Spec == Init /\ [][Next]_vars

(* The scheduling assumed by the liveness property: library calls and      *)
(* callbacks return, the application polls again and again whatever else   *)
(* it does, and the engine works until it halts.                           *)
Fairness ==
  /\ WF_vars(Prep) /\ WF_vars(Refuse) /\ WF_vars(BuildEnd)
  /\ WF_vars(FlushMark) /\ WF_vars(FlushRing)
  /\ SF_vars(PollBegin) /\ SF_vars(CallbackReturn)
  /\ WF_vars(WalkSkip) /\ WF_vars(WalkCallback)
  /\ WF_vars(EngineExecute)

FairSpec == Spec /\ Fairness

-----------------------------------------------------------------------------
(* Descriptors the engine has executed and process_events not retired, and *)
(* descriptors handed over that the engine has still to execute.           *)
Ahead == (executed - tail) % DmaMod
ToExecute == (dmacount - executed) % DmaMod
EngineOwned == {Index(executed + k) : k \in 0 .. ToExecute - 1}

(* Every variable keeps its type. *)
TypeOK ==
  /\ head \in 0 .. CountMod - 1 /\ tail \in 0 .. CountMod - 1
  /\ lastSeen \in Slot
  /\ cb \in [Slot -> Req \cup {NoReq}]
  /\ pc \in {"app", "prep", "flush", "ring", "walk"}
  /\ req \in Req \cup {NoReq} /\ (pc = "prep" => req \in Req)
  /\ left \in Nat /\ origHead \in 0 .. CountMod - 1 /\ flushToo \in BOOLEAN
  /\ completed \in Slot \cup {NoSlot}
  /\ hw \in [Slot -> [req : Req \cup {NoReq}, update : BOOLEAN]]
  /\ dmacount \in 0 .. DmaMod - 1 /\ executed \in 0 .. DmaMod - 1
  /\ compSlot \in Slot /\ halted \in BOOLEAN
  /\ told \in [Req -> {"idle", "building", "built", "submitted", "done", "refused"}]

(* A descriptor does not change under the engine: filling a ring that the  *)
(* application believes to have room, rolling back a call that ran out of  *)
(* room and marking the last descriptor again leave alone every descriptor *)
(* handed over and not yet executed.                                       *)
DescriptorStable == [][\A s \in EngineOwned : hw'[s] = hw[s]]_vars

(* process_events compares the completion word with the last one seen, by  *)
(* address: it finds work exactly when the engine has finished a           *)
(* descriptor marked by flush.  A full turn of the ring would look like    *)
(* no progress; the slot the ring keeps empty excludes it.                 *)
CompletionExact ==
  completed = NoSlot =>
    (compSlot # lastSeen <=> \E k \in 0 .. Ahead - 1 : hw[Index(tail + k)].update)

(* The do-while loop of process_events meets the descriptor it stops at,   *)
(* and retires none that the engine has not executed.                      *)
WalkBehindEngine ==
  completed # NoSlot => \E k \in 0 .. Ahead - 1 : Index(tail + k) = completed

(* A call is refused for lack of descriptors only: "Ran out of descriptors *)
(* in the ring".                                                           *)
RefusedOnlyWhenFull ==
  [][(pc = "prep" /\ told'[req] = "refused") => RingSpace = 0]_vars

(* Every submitted request is answered, unless the channel halts. *)
EveryRequestAnswered ==
  \A r \in Req : told[r] = "submitted" ~> (told[r] = "done" \/ halted)

(* The channel implements IoatDma.  A call under construction is not yet   *)
(* accepted, and a callback that has begun counts as answered.             *)
InCallback == completed # NoSlot /\ pc # "walk"
Accepted == IF pc = "prep" THEN origHead ELSE head
First == IF InCallback THEN tail + 1 ELSE tail

(* The descriptors with a callback, counted from the tail. *)
Caller(k) == cb[Index(First + k)]
Calls == {k \in 0 .. ((Accepted - First) % CountMod) - 1 : Caller(k) # NoReq}

Finished(r) ==
  \A k \in 0 .. ((Accepted - executed) % DmaMod) - 1 : hw[Index(executed + k)].req # r

InOrder ==
  {<<Caller(p[1]), Caller(p[2])>> : p \in {q \in Calls \X Calls : q[1] < q[2]}}

Service == INSTANCE IoatDma WITH
  waiting <- {r \in Req : told[r] \in Waiting},
  earlier <- InOrder,
  carriedOut <- {r \in Req : told[r] \in Waiting /\ Finished(r)}

ServiceSpec == Service!Spec

=============================================================================

------------------------------ MODULE IoatStart -----------------------------
(***************************************************************************)
(* ioat_channel_init of lib/ioat.c: VFIO, registers, memory, ioat_reset_hw,*)
(* the null descriptor that starts the channel, and the call of            *)
(* process_events that retires it.  IoatChannel takes over from the state  *)
(* a returned channel is in.                                               *)
(*                                                                         *)
(* The engine (external) comes from an earlier owner, in any status and    *)
(* perhaps with a chain to execute.  It obeys chancmd in its own time, if  *)
(* at all.  A reset halts it; it then becomes idle only by executing what  *)
(* it is given, and writes the completion word before it says so.          *)
(***************************************************************************)
EXTENDS VfioSetup

CONSTANTS
  RingSize, CountMod, DmaMod, NoReq, NoSlot,    \* see IoatChannel
  Tries,       \* 20 sleeps in the waits of ioat_reset_hw, 100 for the start
  NullAddr,    \* the address zero
  Junk         \* an address that is no descriptor of the ring

ASSUME TriesAssumption == Tries \in Nat \ {0}
(* Neither is the address of the first descriptor, slot 0. *)
ASSUME AddressAssumption == 0 \notin {NullAddr, Junk}

VARIABLES
  pc,          \* where ioat_channel_init is; ready and failed are its returns
  tries,       \* sleeps left
  resetRc,     \* the result of ioat_reset_hw, which nobody looks at
  head, tail, lastSeen,
  marked,      \* completion_update of the null descriptor
  dmacount,    \* regs->dmacount
  compSlot, halted,   \* *comp_update: descriptor and whether it says halted
  sts,         \* status in regs->chansts
  asked,       \* regs->chancmd, until the engine has obeyed it
  chain,       \* the chain the engine has
  executed     \* descriptors executed since the reset

thread == <<pc, tries, resetRc, head, tail, lastSeen, marked>>
engine == <<dmacount, compSlot, halted, sts, asked, chain, executed>>
start == <<thread, engine>>

StartInit ==
  /\ pc = "out" /\ tries = 0 /\ resetRc = "none"
  /\ head = 0 /\ tail = 0 /\ lastSeen = NullAddr /\ marked = FALSE
  /\ dmacount = 0 /\ compSlot = NullAddr /\ halted = FALSE
  /\ sts = "halted" /\ asked = "none" /\ chain = "none" /\ executed = 0

-----------------------------------------------------------------------------
(* The call, with the engine an earlier owner left and a page for the      *)
(* completion word that may hold anything.                                 *)
StartBegin(d) ==
  /\ dev' = d /\ at' = "container" /\ rc' = "running" /\ info' = "null" /\ files' = {}
  /\ pc' = "vfio" /\ resetRc' = "none"
  /\ sts' \in {"active", "idle", "suspended", "halted"}
  /\ chain' \in IF sts' = "active" THEN {"old"} ELSE {"old", "none"}
  /\ compSlot' \in {NullAddr, Junk} /\ halted' \in IF compSlot' = Junk THEN BOOLEAN ELSE {FALSE}
  /\ head' = 0 /\ tail' = 0 /\ lastSeen' = NullAddr /\ marked' = FALSE
  /\ asked' = "none" /\ dmacount' = 0 /\ executed' = 0 /\ tries' = 0
  /\ UNCHANGED <<held, broken>>

VfioReturns ==
  /\ pc = "vfio" /\ rc \in {"ok", "failed"}
  /\ pc' = IF rc = "ok" THEN "map" ELSE "failed"
  /\ UNCHANGED <<setup, tries, resetRc, head, tail, lastSeen, marked, engine>>

(* A step before the reset; the goto leaves VFIO and the memory as it is. *)
Prepare(step, next) ==
  /\ pc = step
  /\ \/ pc' = next /\ UNCHANGED broken
     \/ pc' = "failed" /\ broken' = broken \cup {dev}
  /\ UNCHANGED <<dev, at, rc, info, files, held, tries, resetRc, head, tail,
                 lastSeen, marked, engine>>

MapRegs == Prepare("map", "limits")
CheckLimits == Prepare("limits", "memory")       \* cbver and xfercap
Allocate == Prepare("memory", "reset")

FaultSleeps == Tries + 1
Sleeps == Tries
FaultSlept == tries
Slept == tries - 1

Moving == sts \in {"active", "idle"}

(* ioat_reset_hw: suspend a channel that is active or idle. *)
ReadStatus ==
  /\ pc = "reset"
  /\ pc' = IF Moving THEN "suspend" ELSE "clear"
  /\ asked' = IF Moving THEN "suspend" ELSE asked
  /\ tries' = Sleeps
  /\ UNCHANGED <<setup, resetRc, head, tail, lastSeen, marked, dmacount,
                 compSlot, halted, sts, chain, executed>>

(* One turn of a wait loop.  Running out of sleeps comes before the next   *)
(* look at the register.                                                   *)
SuspendWait ==
  /\ pc = "suspend"
  /\ tries' = Slept
  /\ resetRc' = IF Slept = 0 THEN "failed" ELSE resetRc
  /\ pc' = CASE Slept = 0 -> "start"
             [] Slept # 0 /\ ~ Moving -> "clear"
             [] OTHER -> pc
  /\ UNCHANGED <<setup, head, tail, lastSeen, marked, engine>>

(* The errors are cleared, for old versions in configuration space too,    *)
(* whose read may fail; then the reset is asked for.                       *)
ClearErrors ==
  /\ pc = "clear"
  /\ \/ pc' = "resetWait" /\ asked' = "reset" /\ UNCHANGED resetRc
     \/ pc' = "start" /\ resetRc' = "failed" /\ UNCHANGED asked
  /\ tries' = Sleeps
  /\ UNCHANGED <<setup, head, tail, lastSeen, marked, dmacount, compSlot,
                 halted, sts, chain, executed>>

FaultResetPending == FALSE
ResetPending == asked = "reset"

ResetWait ==
  /\ pc = "resetWait"
  /\ tries' = IF ResetPending THEN Slept ELSE tries
  /\ resetRc' = CASE ~ ResetPending -> "ok"
                  [] ResetPending /\ Slept = 0 -> "failed"
                  [] OTHER -> resetRc
  /\ pc' = IF ResetPending /\ Slept # 0 THEN pc ELSE "start"
  /\ UNCHANGED <<setup, head, tail, lastSeen, marked, engine>>

(* Whatever the reset returned: completion address, chain address, the     *)
(* null descriptor (ioat_prep_null) and propig_ioat_flush.                 *)
StartChain ==
  /\ pc = "start"
  /\ chain' = "mine" /\ head' = head + 1 /\ marked' = TRUE /\ dmacount' = head + 1
  /\ pc' = "startWait" /\ tries' = Sleeps
  /\ UNCHANGED <<setup, resetRc, tail, lastSeen, compSlot, halted, sts, asked, executed>>

Idle == sts = "idle"

StartWait ==
  /\ pc = "startWait"
  /\ tries' = tries - 1
  /\ pc' = CASE Idle -> "events"
             [] ~ Idle /\ tries = 1 -> "failed"
             [] OTHER -> pc
  /\ broken' = IF pc' = "failed" THEN broken \cup {dev} ELSE broken
  /\ UNCHANGED <<dev, at, rc, info, files, held, resetRc, head, tail, lastSeen, marked, engine>>

(* propig_ioat_process_events on one descriptor without a callback.  A     *)
(* completion word that names no descriptor is never met: the walk goes    *)
(* round the ring for ever.                                                *)
Events ==
  /\ pc = "events"
  /\ LET work == ~ halted /\ compSlot # lastSeen IN
       /\ pc' = IF work /\ compSlot = Junk THEN "walk" ELSE "ready"
       /\ tail' = IF work /\ compSlot # Junk THEN tail + 1 ELSE tail
       /\ lastSeen' = IF work /\ compSlot # Junk THEN compSlot ELSE lastSeen
  /\ UNCHANGED <<setup, tries, resetRc, head, marked, engine>>

-----------------------------------------------------------------------------
(* The engine obeys chancmd. *)
EngineObeys ==
  /\ asked # "none"
  /\ asked' = "none"
  /\ \/ asked = "suspend" /\ sts' = "suspended" /\ UNCHANGED <<chain, dmacount, executed>>
     \/ /\ asked = "reset" /\ sts' = "halted" /\ chain' = "none"
        /\ dmacount' = 0 /\ executed' = 0
  /\ UNCHANGED <<setup, thread, compSlot, halted>>

(* It ends what it was doing for the earlier owner.  If it was not reset   *)
(* that may be after the completion address has become ours.               *)
EngineOld ==
  /\ sts = "active"
  /\ sts' \in {"idle", "halted"}
  /\ compSlot' = IF chain = "mine" THEN Junk ELSE compSlot
  /\ UNCHANGED <<setup, thread, dmacount, halted, asked, chain, executed>>

(* It executes the null descriptor, or halts on an error. *)
EngineStarts ==
  /\ chain = "mine" /\ dmacount # executed /\ sts \in {"idle", "halted"}
  /\ \/ /\ compSlot' = executed /\ halted' = FALSE /\ sts' = "idle"
        /\ executed' = executed + 1 /\ UNCHANGED chain
     \/ halted' = TRUE /\ sts' = "halted" /\ chain' = "none" /\ UNCHANGED <<compSlot, executed>>
  /\ UNCHANGED <<setup, thread, dmacount, asked>>

StartStep ==
  \/ pc = "vfio" /\ SetupStep /\ UNCHANGED start
  \/ VfioReturns \/ MapRegs \/ CheckLimits \/ Allocate \/ ReadStatus \/ SuspendWait \/ ClearErrors
  \/ ResetWait \/ StartChain \/ StartWait \/ Events
EngineStep == pc \notin {"out", "vfio"} /\ (EngineObeys \/ EngineOld \/ EngineStarts)

-----------------------------------------------------------------------------
StartTypeOK ==
  /\ pc \in {"out", "vfio", "map", "limits", "memory", "reset", "suspend", "clear", "resetWait", "start",
             "startWait", "events", "walk", "ready", "failed"}
  /\ tries \in 0 .. Tries /\ resetRc \in {"none", "ok", "failed"}
  /\ head \in {0, 1} /\ tail \in {0, 1} /\ lastSeen \in {NullAddr, 0} /\ marked \in BOOLEAN
  /\ dmacount \in {0, 1} /\ executed \in {0, 1} /\ chain \in {"none", "old", "mine"}
  /\ compSlot \in {NullAddr, Junk, 0} /\ halted \in BOOLEAN
  /\ sts \in {"active", "idle", "suspended", "halted"} /\ asked \in {"none", "suspend", "reset"}

(* A channel that was reset and then returned is in the state IoatChannel  *)
(* starts from, whatever the earlier owner and the memory for the          *)
(* completion word looked like; and process_events meets its end.          *)
Channel == INSTANCE IoatChannel WITH
  Req <- {}, CopyParts <- {1}, FillParts <- {1},
  cb <- [s \in 0 .. RingSize - 1 |-> NoReq],
  hw <- [s \in 0 .. RingSize - 1 |-> [req |-> NoReq, update |-> s = 0 /\ marked]],
  pc <- "app", req <- NoReq, left <- 0, origHead <- 0, flushToo <- FALSE,
  completed <- NoSlot, told <- [r \in {} |-> "idle"]

StartsChannel ==
  pc \in {"ready", "walk"} /\ resetRc = "ok" => pc = "ready" /\ Channel!Init

=============================================================================

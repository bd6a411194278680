--------------------------- MODULE IoatLoadProofs --------------------------
(***************************************************************************)
(* What channel_load guarantees for any set of devices, any directory, any *)
(* number of sleeps and any number of loads: what a failed propig_vfio_init*)
(* leaves behind, the state of a channel whose engine was reset, and which *)
(* devices become channels.                                                *)
(***************************************************************************)
EXTENDS IoatLoad, TLAPS, SequenceTheorems, WellFoundedInduction

ListTyped ==
  /\ load \in {"idle", "scan", "init", "returned", "exited"}
  /\ dir \in Listings
  /\ table \in Seq(Device) /\ channels \in Seq(Device)
  /\ tried \in 0 .. Len(table) /\ limit \in Limits \cup {0} /\ loads \in 0 .. MaxLoads

(* propig_vfio_init has opened and allocated what its step says. *)
Opened ==
  CASE at = "container"           -> {}
    [] at \in {"check", "group"}  -> {"container"}
    [] at \in {"status", "attach", "setIommu", "getInfo", "getAll", "getDevice"}
                                  -> {"container", "group"}
    [] OTHER                      -> File
Information ==
  CASE at \in {"container", "check", "group", "status", "attach", "setIommu"} -> "null"
    [] at \in {"getInfo", "getAll"}                                           -> "live"
    [] OTHER                                                                  -> "freed"
Progress == rc = "running" => files = Opened /\ info = Information

(* Points of ioat_channel_init. *)
Resetting == {"vfio", "map", "limits", "memory", "reset", "suspend", "clear", "resetWait"}
Starting == {"startWait", "events"}

(* The channel it has filled in so far, and the sleeps it has left. *)
Thread ==
  /\ pc # "out" => rc # "out"
  /\ pc \in {"suspend", "resetWait", "startWait"} => tries # 0
  /\ pc \in Resetting => resetRc = "none"
  /\ pc \in Resetting \cup {"start"} =>
       head = 0 /\ tail = 0 /\ lastSeen = NullAddr /\ ~ marked
  /\ pc \in Starting => head = 1 /\ tail = 0 /\ lastSeen = NullAddr /\ marked

(* The engine executes nothing that was not announced. *)
Engine ==
  /\ executed <= dmacount
  /\ pc \in Resetting \cup {"start"} => dmacount = 0 /\ chain # "mine"

(* From the end of its reset on the engine does what the driver asked it   *)
(* for: it waits, it has executed the null descriptor, or it has failed.   *)
Quiet == asked = "none" /\ sts = "halted" /\ chain = "none" /\ executed = 0
Waits == sts = "halted" /\ chain = "mine" /\ executed = 0
Done == sts = "idle" /\ executed = 1 /\ compSlot = 0 /\ ~ halted
Failed == sts = "halted" /\ chain = "none"

WasReset ==
  /\ pc = "resetWait" /\ asked # "reset" => Quiet
  /\ resetRc = "ok" =>
       /\ pc = "start" => Quiet
       /\ pc = "startWait" => asked = "none" /\ dmacount = 1 /\ (Waits \/ Done \/ Failed)
       /\ pc \in {"events", "ready"} => asked = "none" /\ dmacount = 1 /\ Done
       /\ pc = "ready" => head = 1 /\ tail = 1 /\ lastSeen = 0 /\ marked
       /\ pc # "walk"

Scan ==
  /\ load = "scan" => tried = 0
  /\ load = "init" => tried < Len(table)

LoadInv ==
  /\ SetupTypeOK /\ StartTypeOK /\ ListTyped
  /\ Progress /\ FailureReleases
  /\ Thread /\ Engine /\ WasReset
  /\ Scan

-----------------------------------------------------------------------------
LEMMA LoadInit == Init => LoadInv
<1> SUFFICES ASSUME Init PROVE LoadInv
  OBVIOUS
<1>1. SetupTypeOK /\ Progress /\ FailureReleases
  BY DEF Init, SetupInit, SetupTypeOK, Step, Progress, FailureReleases
<1>2. StartTypeOK
  <2>1. 0 \in 0 .. Tries
    BY TriesAssumption
  <2>2. marked \in BOOLEAN /\ halted \in BOOLEAN
    BY DEF Init, StartInit
  <2> QED
    BY <2>1, <2>2 DEF Init, StartInit, StartTypeOK
<1>3. ListTyped /\ Scan
  BY LimitsAssumption DEF Init, ListTyped, Scan
<1>4. Thread /\ Engine /\ WasReset
  BY DEF Init, StartInit, Thread, Engine, WasReset, Resetting, Starting
<1> QED
  BY <1>1, <1>2, <1>3, <1>4 DEF LoadInv

(* A step of propig_vfio_init; it knows nothing of the channel. *)
LEMMA SetupKeeps ==
  ASSUME SetupTypeOK, Progress, FailureReleases, SetupStep
  PROVE  (SetupTypeOK /\ Progress /\ FailureReleases)' /\ rc' # "out"
<1> USE DEF SetupTypeOK, Step, File, Progress, FailureReleases
<1>0. rc = "running" /\ dev \in Device
  BY DEF SetupStep, OpenContainer, CheckApi, OpenGroup, GroupStatus, AttachGroup, SetIommu,
     GetInfo, GetAllInfo, GetDevice, Describe, InitBars, ReadCommand, WriteCommand, Fail,
     Exit, Open, Ask, ParseInfo, Succeed
<1>1. CASE OpenContainer \/ OpenGroup \/ GetDevice
  BY <1>0, <1>1 DEF OpenContainer, OpenGroup, GetDevice, Open, Succeed, Opened, Information
<1>2. CASE CheckApi \/ GroupStatus \/ AttachGroup \/ Describe \/ InitBars \/ ReadCommand
           \/ Ask("getInfo", "getAll")
  BY <1>0, <1>2 DEF CheckApi, GroupStatus, AttachGroup, Describe, InitBars, ReadCommand,
     Ask, Succeed, Opened, Information
<1>3. CASE SetIommu \/ ParseInfo("getInfo") \/ ParseInfo("getAll")
  BY <1>0, <1>3 DEF SetIommu, ParseInfo, Freed, Succeed, Opened, Information
<1>4. CASE WriteCommand
  <2>1. held' \in [Device -> SUBSET File]
    BY <1>0, <1>4 DEF WriteCommand
  <2> QED
    BY <1>0, <1>4, <2>1 DEF WriteCommand
<1>5. CASE Fail
  <2>1. held' \in [Device -> SUBSET File] /\ files' \subseteq File
    BY <1>0, <1>5 DEF Fail
  <2>2. files' \cap {"container", "group"} = {}
    BY <1>0, <1>5 DEF Fail, Closed, BeforeFail, Opened
  <2>3. info' \in {"null", "freed", "twice"} /\ (info' = "twice" => at \in Late)
    BY <1>0, <1>5 DEF Fail, Freed, BeforeFail, Information, Late
  <2> QED
    BY <1>0, <1>5, <2>1, <2>2, <2>3 DEF Fail
<1>6. CASE Exit
  BY <1>0, <1>6 DEF Exit
<1> QED
  BY <1>1, <1>2, <1>3, <1>4, <1>5, <1>6 DEF SetupStep, GetInfo, GetAllInfo

LEMMA StartBeginKeeps ==
  ASSUME LoadInv, NEW d \in Device, StartBegin(d), UNCHANGED list
  PROVE  LoadInv'
<1>1. (SetupTypeOK /\ Progress /\ FailureReleases)'
  BY DEF LoadInv, StartBegin, SetupTypeOK, Step, Progress, FailureReleases, Opened, Information
<1>2. StartTypeOK'
  <2>1. 0 \in 0 .. Tries
    BY TriesAssumption
  <2>2. marked' \in BOOLEAN /\ halted' \in BOOLEAN
    BY DEF StartBegin
  <2>3. chain' \in {"none", "old"} /\ compSlot' \in {NullAddr, Junk}
    BY DEF StartBegin
  <2> QED
    BY <2>1, <2>2, <2>3 DEF StartBegin, StartTypeOK
<1>3. (Thread /\ Engine /\ WasReset)'
  BY DEF StartBegin, Thread, Engine, WasReset, Resetting, Starting
<1>4. (ListTyped /\ Scan)'
  BY DEF LoadInv, ListTyped, Scan, list
<1> QED
  BY <1>1, <1>2, <1>3, <1>4 DEF LoadInv

(* The conditions a step of ioat_channel_init or of the engine can disturb *)
(* when it leaves propig_vfio_init and the scan alone.                     *)
LEMMA ChannelOnly ==
  ASSUME LoadInv, UNCHANGED <<dev, at, rc, info, files, held, list>>,
         broken' \subseteq Device
  PROVE  (SetupTypeOK /\ Progress /\ FailureReleases /\ ListTyped /\ Scan)'
BY DEF LoadInv, SetupTypeOK, Progress, Opened, Information, FailureReleases, ListTyped, Scan, list

LEMMA ThreadKeeps ==
  ASSUME LoadInv, UNCHANGED list,
         \/ VfioReturns \/ MapRegs \/ CheckLimits \/ Allocate \/ ReadStatus \/ SuspendWait
         \/ ClearErrors \/ ResetWait \/ StartChain \/ StartWait \/ Events
  PROVE  LoadInv'
<1> USE DEF LoadInv, Thread, Engine, WasReset, Resetting, Starting, thread, engine, setup
<1>0. StartTypeOK /\ (pc # "out" => dev \in Device) /\ Tries \in Nat \ {0}
  BY TriesAssumption DEF SetupTypeOK
<1>1. ASSUME UNCHANGED <<dev, at, rc, info, files, held>>, broken' \subseteq Device,
             (StartTypeOK /\ Thread /\ Engine /\ WasReset)'
      PROVE  LoadInv'
  BY <1>1, ChannelOnly
<1>2. CASE VfioReturns
  <2>1. (StartTypeOK /\ Thread /\ Engine /\ WasReset)'
    BY <1>0, <1>2 DEF VfioReturns, StartTypeOK
  <2> QED
    BY <1>1, <1>2, <2>1 DEF VfioReturns, SetupTypeOK
<1>3. CASE MapRegs \/ CheckLimits \/ Allocate
  <2>1. (StartTypeOK /\ Thread /\ Engine /\ WasReset)'
    BY <1>0, <1>3 DEF MapRegs, CheckLimits, Allocate, Prepare, StartTypeOK
  <2> QED
    BY <1>0, <1>1, <1>3, <2>1 DEF MapRegs, CheckLimits, Allocate, Prepare, SetupTypeOK
<1>4. CASE ReadStatus
  <2>1. (StartTypeOK /\ Thread /\ Engine /\ WasReset)'
    BY <1>0, <1>4 DEF ReadStatus, Sleeps, StartTypeOK
  <2> QED
    BY <1>1, <1>4, <2>1 DEF ReadStatus, SetupTypeOK
<1>5. CASE SuspendWait
  <2>1. (StartTypeOK /\ Thread /\ Engine /\ WasReset)'
    BY <1>0, <1>5 DEF SuspendWait, Slept, StartTypeOK
  <2> QED
    BY <1>1, <1>5, <2>1 DEF SuspendWait, SetupTypeOK
<1>6. CASE ClearErrors
  <2>1. (StartTypeOK /\ Thread /\ Engine /\ WasReset)'
    BY <1>0, <1>6 DEF ClearErrors, Sleeps, StartTypeOK
  <2> QED
    BY <1>1, <1>6, <2>1 DEF ClearErrors, SetupTypeOK
<1>7. CASE ResetWait
  <2>1. (StartTypeOK /\ Thread /\ Engine /\ WasReset)'
    BY <1>0, <1>7 DEF ResetWait, ResetPending, Slept, Quiet, StartTypeOK
  <2> QED
    BY <1>1, <1>7, <2>1 DEF ResetWait, SetupTypeOK
<1>8. CASE StartChain
  <2>1. (StartTypeOK /\ Thread /\ Engine /\ WasReset)'
    BY <1>0, <1>8 DEF StartChain, Sleeps, StartTypeOK, Quiet, Waits
  <2> QED
    BY <1>1, <1>8, <2>1 DEF StartChain, SetupTypeOK
<1>9. CASE StartWait
  <2>1. (StartTypeOK /\ Thread /\ Engine /\ WasReset)'
    BY <1>0, <1>9 DEF StartWait, Idle, StartTypeOK, Waits, Done, Failed
  <2> QED
    BY <1>0, <1>1, <1>9, <2>1 DEF StartWait, SetupTypeOK
<1>10. CASE Events
  <2>1. (StartTypeOK /\ Thread /\ Engine /\ WasReset)'
    BY <1>0, <1>10, AddressAssumption DEF Events, StartTypeOK, Done
  <2> QED
    BY <1>1, <1>10, <2>1 DEF Events, SetupTypeOK
<1> QED
  BY <1>2, <1>3, <1>4, <1>5, <1>6, <1>7, <1>8, <1>9, <1>10

(* The engine moves while ioat_channel_init looks at it or waits. *)
LEMMA EngineKeeps ==
  ASSUME LoadInv, EngineStep, UNCHANGED list
  PROVE  LoadInv'
<1> USE DEF LoadInv, Thread, Engine, WasReset, Resetting, Starting, thread, engine, setup
<1>1. UNCHANGED setup /\ UNCHANGED thread
  BY DEF EngineStep, EngineObeys, EngineOld, EngineStarts
<1>2. SUFFICES (StartTypeOK /\ Thread /\ Engine /\ WasReset)'
  BY <1>1, ChannelOnly DEF SetupTypeOK
<1>3. Thread'
  BY <1>1
<1>4. CASE EngineObeys
  BY <1>1, <1>3, <1>4 DEF EngineObeys, StartTypeOK, Quiet
<1>5. CASE EngineOld
  BY <1>1, <1>3, <1>5 DEF EngineOld, StartTypeOK, Quiet, Waits, Done, Failed
<1>6. CASE EngineStarts
  <2>1. executed = 0 /\ dmacount = 1 /\ chain = "mine" /\ dmacount' = 1 /\ asked' = asked
    BY <1>6 DEF EngineStarts, StartTypeOK
  <2>2. CASE compSlot' = 0 /\ halted' = FALSE /\ sts' = "idle" /\ executed' = 1 /\ chain' = chain
    <3>1. StartTypeOK' /\ Engine'
      <4>1. Engine'
        BY <1>1, <2>1, <2>2
      <4>2. UNCHANGED <<pc, tries, resetRc, head, tail, lastSeen, marked>>
        BY <1>1
      <4>3. StartTypeOK'
        BY <2>1, <2>2, <4>2 DEF StartTypeOK
      <4> QED
        BY <4>1, <4>3
    <3>2. WasReset'
      BY <1>1, <2>1, <2>2 DEF Done
    <3> QED
      BY <1>3, <3>1, <3>2
  <2>3. CASE halted' = TRUE /\ sts' = "halted" /\ chain' = "none" /\ UNCHANGED <<compSlot, executed>>
    BY <1>1, <1>3, <1>6, <2>1, <2>3 DEF StartTypeOK, Quiet, Waits, Done, Failed
  <2> QED
    <3>1. executed + 1 = 1
      BY <2>1
    <3> QED
      BY <1>6, <2>1, <2>2, <2>3, <3>1 DEF EngineStarts
<1> QED
  BY <1>4, <1>5, <1>6 DEF EngineStep

(* The scan and the array of channels. *)
LEMMA ListKeeps ==
  ASSUME LoadInv,
         \/ \E max \in Limits : LoadBegin(max)
         \/ ReadEntry \/ ScanEnd \/ ChannelDone \/ ProcessExits \/ Unload
  PROVE  LoadInv'
<1> USE DEF LoadInv
<1>1. /\ UNCHANGED <<dev, at, rc, info, files, held>> /\ broken' \in {broken, {}}
      /\ UNCHANGED <<tries, resetRc, head, tail, lastSeen, marked, engine>>
      /\ pc' = pc \/ (pc' = "out" /\ pc \in {"ready", "failed"})
  BY DEF LoadBegin, ReadEntry, ScanEnd, ChannelDone, ProcessExits, Unload, setup, start, thread
<1>2. (SetupTypeOK /\ Progress /\ FailureReleases)'
  BY <1>1 DEF SetupTypeOK, Progress, Opened, Information, FailureReleases
<1>3. (StartTypeOK /\ Thread /\ Engine /\ WasReset)'
  BY <1>1 DEF StartTypeOK, Thread, Engine, WasReset, Resetting, Starting, engine, Quiet,
     Waits, Done, Failed
<1>4. (ListTyped /\ Scan)'
  <2>1. table \in Seq(Device) /\ channels \in Seq(Device) /\ Len(table) \in Nat
    BY DEF ListTyped
  <2>2. CASE \E max \in Limits : LoadBegin(max)
    BY <2>2, LimitsAssumption DEF LoadBegin, ListTyped, Scan
  <2>3. CASE ReadEntry
    <3>1. table' \in Seq(Device)
      BY <2>1, <2>3 DEF ReadEntry, Matches, IsAddress
    <3> QED
      BY <2>3, <3>1 DEF ReadEntry, ListTyped, Scan
  <2>4. CASE ScanEnd
    <3>1. table # <<>> => 0 < Len(table)
      BY <2>1
    <3> QED
      BY <2>4, <3>1 DEF ScanEnd, ListTyped, Scan
  <2>5. CASE ChannelDone
    <3>1. dev \in Device
      BY <2>5 DEF ChannelDone, Thread, SetupTypeOK
    <3>2. channels' \in Seq(Device)
      BY <2>1, <2>5, <3>1 DEF ChannelDone, Kept
    <3> QED
      BY <2>1, <2>5, <3>2 DEF ChannelDone, ListTyped, Scan
  <2>6. CASE ProcessExits
    BY <2>6 DEF ProcessExits, ListTyped, Scan
  <2>7. CASE Unload
    <3>1. channels' \in Seq(Device)
      BY <2>7 DEF Unload
    <3> QED
      BY <2>7, <3>1 DEF Unload, ListTyped, Scan
  <2> QED
    BY <2>2, <2>3, <2>4, <2>5, <2>6, <2>7
<1> QED
  BY <1>2, <1>3, <1>4

LEMMA LoadStep ==
  ASSUME LoadInv, [Next]_vars
  PROVE  LoadInv'
<1>1. CASE \E max \in Limits : LoadBegin(max)
  BY <1>1, ListKeeps
<1>2. CASE ReadEntry \/ ScanEnd \/ ChannelDone \/ ProcessExits \/ Unload
  BY <1>2, ListKeeps
<1>3. CASE InitChannel
  <2>1. table[tried + 1] \in Device
    BY <1>3 DEF InitChannel, LoadInv, ListTyped, Scan
  <2> QED
    BY <1>3, <2>1, StartBeginKeeps DEF InitChannel
<1>4. CASE StartStep /\ UNCHANGED list
  <2>1. CASE pc = "vfio" /\ SetupStep /\ UNCHANGED start
    <3>1. (SetupTypeOK /\ Progress /\ FailureReleases)' /\ rc' # "out"
      BY <2>1, SetupKeeps DEF LoadInv
    <3>2. (StartTypeOK /\ Thread /\ Engine /\ WasReset)'
      BY <2>1, <3>1 DEF LoadInv, StartTypeOK, Thread, Engine, WasReset, Resetting, Starting,
         start, thread, engine, Quiet, Waits, Done, Failed
    <3> QED
      BY <1>4, <3>1, <3>2 DEF LoadInv, ListTyped, Scan, list
  <2> QED
    BY <1>4, <2>1, ThreadKeeps DEF StartStep
<1>5. CASE EngineStep /\ UNCHANGED list
  BY <1>5, EngineKeeps
<1>6. CASE UNCHANGED vars
  BY <1>6 DEF vars, setup, start, thread, engine, list, LoadInv, SetupTypeOK, StartTypeOK,
     ListTyped, Progress, Opened, Information, FailureReleases, Thread, Engine, WasReset,
     Resetting, Starting, Quiet, Waits, Done, Failed, Scan
<1> QED
  BY <1>1, <1>2, <1>3, <1>4, <1>5, <1>6 DEF Next, Library, Stopped

LEMMA LoadAlways == Spec => []LoadInv
BY LoadInit, LoadStep, PTL DEF Spec

-----------------------------------------------------------------------------
(* Every variable keeps its type, for any devices, drivers and directories.*)
THEOREM TypeCorrect == Spec => []TypeOK
<1>1. ASSUME LoadInv PROVE TypeOK
  BY <1>1 DEF LoadInv, ListTyped, TypeOK
<1> QED
  BY <1>1, LoadAlways, PTL

(* Whichever call of propig_vfio_init fails, container and group are closed*)
(* again and the IOMMU information is freed - twice only after it had been *)
(* parsed.                                                                 *)
THEOREM FailuresRelease == Spec => []FailureReleases
<1>1. LoadInv => FailureReleases
  BY DEF LoadInv
<1> QED
  BY <1>1, LoadAlways, PTL

(* A channel whose engine was reset, and that ioat_channel_init returned,  *)
(* is where IoatChannel starts; its process_events came to an end.         *)
THEOREM ChannelsStart == Spec => []StartsChannel
<1>1. ASSUME LoadInv PROVE StartsChannel
  <2> SUFFICES ASSUME pc \in {"ready", "walk"}, resetRc = "ok"
               PROVE  pc = "ready" /\ Channel!Init
    BY DEF StartsChannel
  <2>1. /\ pc = "ready" /\ head = 1 /\ tail = 1 /\ lastSeen = 0 /\ marked = TRUE
        /\ dmacount = 1 /\ executed = 1 /\ compSlot = 0 /\ halted = FALSE
    BY <1>1 DEF LoadInv, WasReset, Done, StartTypeOK
  <2> QED
    BY <2>1 DEF Channel!Init, Channel!Slot
<1> QED
  BY <1>1, LoadAlways, PTL

-----------------------------------------------------------------------------
(* What the scan has found, and what became of each device it found: a     *)
(* device that was tried is available exactly if it has been put into the  *)
(* array, and stays so, because its group is then busy for the others.     *)
Matching == {d \in Device : Matches(d)}
Usable == {d \in Device : Available(d)}

Distinct(s) == \A i, j \in DOMAIN s : s[i] = s[j] => i = j

Listed ==
  /\ load = "scan" =>
       \E k \in 0 .. Len(dir) :
         /\ unread = SubSeq(dir, k + 1, Len(dir))
         /\ table = Selected(dir, Matching)[k]
         /\ \A i \in DOMAIN table : \E j \in 1 .. k : table[i] = dir[j]
  /\ load \in {"init", "returned"} /\ table # <<>> => table = Selected(dir, Matching)[Len(dir)]
  /\ Distinct(table)
  /\ \A i \in DOMAIN table : table[i] \in Matching

Phase ==
  /\ load \in {"idle", "scan", "returned"} => pc = "out"
  /\ load = "init" /\ pc # "out" => dev = table[tried + 1]
  /\ pc \notin {"out", "vfio", "failed"} => rc = "ok"

(* Files a device holds are never given back. *)
Holding ==
  \A d \in Device : held[d] \in {{}, {"device"}, File} /\ before[d] \subseteq held[d]

Untouched(d) == held[d] = before[d] /\ d \notin broken

Waiting ==
  /\ load = "scan" => held = before /\ broken = {} /\ channels = <<>>
  /\ load = "init" =>
       /\ \A i \in tried + 2 .. Len(table) : Untouched(table[i])
       /\ pc = "out" \/ (pc = "vfio" /\ rc = "running") => Untouched(table[tried + 1])

(* How far propig_vfio_init has come says what the kernel has not refused. *)
Opening == {"container", "check", "group"}
Described == {"describe", "bars", "readCommand", "writeCommand"}

Current ==
  load = "init" /\ pc # "out" =>
    /\ pc = "vfio" /\ rc = "running" =>
         /\ at \notin Opening => \A e \in Neighbours(dev) : held[e] = {}
         /\ at \notin Opening \cup {"status"} => Viable(dev)
         /\ at \in Described => DriverOf[dev] = "vfio-pci"
    /\ rc = "ok" /\ pc # "failed" => Available(dev) /\ held[dev] = File
    /\ pc = "failed" \/ rc = "failed" => ~ Available(dev)

Settled ==
  load \in {"init", "returned"} =>
    /\ channels = Selected(table, Usable)[tried]
    /\ \A i \in 1 .. tried : Available(table[i]) => held[table[i]] = File

Counting == load = "returned" /\ tried < Len(table) => Len(channels) = limit

ExactInv == Listed /\ Phase /\ Holding /\ Waiting /\ Current /\ Settled /\ Counting

-----------------------------------------------------------------------------
(* Induction up to n, for a set: the smallest number outside of it would   *)
(* have a predecessor inside.                                              *)
LEMMA Induction ==
  ASSUME NEW n \in Nat, NEW S, 0 \in S, \A i \in 0 .. n - 1 : i \in S => i + 1 \in S
  PROVE  0 .. n \subseteq S
<1> DEFINE Less == OpToRel(<, Nat)
           Missing == (0 .. n) \ S
<1>1. IsWellFoundedOn(Less, Nat)
  BY NatLessThanWellFounded, Zenon
<1>2. \A i \in Nat : <<i, i + 1>> \in Less
  BY SMT DEF OpToRel
<1> HIDE DEF Less
<1> SUFFICES ASSUME Missing # {} PROVE FALSE
  OBVIOUS
<1>3. PICK m \in Missing : \A i \in Missing : ~ (<<i, m>> \in Less)
  <2>1. Missing \subseteq Nat
    OBVIOUS
  <2> HIDE DEF Missing
  <2> QED
    BY <1>1, <2>1, WFMin
<1>4. m # 0 /\ m - 1 \in 0 .. n - 1 /\ m - 1 \in Nat /\ m - 1 + 1 = m
  OBVIOUS
<1>5. m - 1 \notin Missing
  BY <1>2, <1>3, <1>4
<1> QED
  BY <1>3, <1>4, <1>5

(* The equation of the function that collects the elements of T.           *)
Collect(T, t, e) == IF e \in T THEN Append(t, e) ELSE t
Collects(f, s, T, m) ==
  f = [i \in 0 .. m |-> IF i = 0 THEN <<>> ELSE Collect(T, f[i - 1], s[i])]

LEMMA CollectsExists ==
  ASSUME NEW s, NEW T, NEW n \in Nat
  PROVE  \E f : Collects(f, s, T, n)
<1> DEFINE S == {m \in Nat : \E f : Collects(f, s, T, m)}
<1>1. 0 \in S
  <2>1. Collects([i \in 0 .. 0 |-> <<>>], s, T, 0)
    BY DEF Collects
  <2> QED
    BY <2>1
<1>2. ASSUME NEW m \in 0 .. n - 1, m \in S PROVE m + 1 \in S
  <2>1. PICK f : Collects(f, s, T, m)
    BY <1>2
  <2> DEFINE g == [i \in 0 .. m + 1 |-> IF i = m + 1 THEN Collect(T, f[m], s[i]) ELSE f[i]]
  <2>2. Collects(g, s, T, m + 1)
    <3>1. \A i \in 0 .. m + 1 : g[i] = IF i = 0 THEN <<>> ELSE Collect(T, g[i - 1], s[i])
      BY <2>1 DEF Collects
    <3>2. g = [i \in 0 .. m + 1 |-> g[i]]
      OBVIOUS
    <3> HIDE DEF g
    <3> QED
      BY <3>1, <3>2 DEF Collects
  <2> HIDE DEF g
  <2> QED
    BY <2>2
<1> HIDE DEF S
<1>3. n \in S
  BY <1>1, <1>2, Induction
<1> QED
  BY <1>3 DEF S

LEMMA SelectedEquation ==
  ASSUME NEW s, NEW T, Len(s) \in Nat
  PROVE  /\ Selected(s, T)[0] = <<>>
         /\ \A i \in 1 .. Len(s) : Selected(s, T)[i] = Collect(T, Selected(s, T)[i - 1], s[i])
<1>1. \E f : Collects(f, s, T, Len(s))
  BY CollectsExists
<1>2. Selected(s, T) = CHOOSE f : Collects(f, s, T, Len(s))
  BY DEF Selected, Collects, Collect
<1>3. Collects(Selected(s, T), s, T, Len(s))
  BY <1>1, <1>2
<1>4. ASSUME NEW g, Collects(g, s, T, Len(s))
      PROVE  /\ g[0] = <<>>
             /\ \A i \in 1 .. Len(s) : g[i] = Collect(T, g[i - 1], s[i])
  BY <1>4 DEF Collects
<1> QED
  BY <1>3, <1>4

(* Only the elements up to n matter to what is selected up to there.       *)
LEMMA SelectedAgree ==
  ASSUME NEW s, Len(s) \in Nat, NEW n \in 0 .. Len(s), NEW T, NEW U,
         \A i \in 1 .. n : s[i] \in T <=> s[i] \in U
  PROVE  Selected(s, T)[n] = Selected(s, U)[n]
<1> DEFINE S == {i \in 0 .. n : Selected(s, T)[i] = Selected(s, U)[i]}
<1>1. 0 \in S
  BY SelectedEquation
<1>2. ASSUME NEW i \in 0 .. n - 1, i \in S PROVE i + 1 \in S
  <2>1. i + 1 \in 1 .. Len(s) /\ i + 1 - 1 = i /\ i + 1 \in 1 .. n
    OBVIOUS
  <2>2. Selected(s, T)[i + 1] = Collect(T, Selected(s, T)[i], s[i + 1])
    BY <2>1, SelectedEquation
  <2>3. Selected(s, U)[i + 1] = Collect(U, Selected(s, U)[i], s[i + 1])
    BY <2>1, SelectedEquation
  <2>4. Selected(s, T)[i] = Selected(s, U)[i] /\ (s[i + 1] \in T <=> s[i + 1] \in U)
    BY <1>2, <2>1
  <2> QED
    BY <2>1, <2>2, <2>3, <2>4 DEF Collect
<1> HIDE DEF S
<1>3. n \in Nat
  OBVIOUS
<1>4. 0 .. n \subseteq S
  BY <1>1, <1>2, <1>3, Induction
<1> QED
  BY <1>3, <1>4 DEF S

-----------------------------------------------------------------------------
LEMMA DirTyped ==
  ASSUME dir \in Listings
  PROVE  /\ Len(dir) \in Nat /\ DOMAIN dir = 1 .. Len(dir) /\ Distinct(dir)
         /\ \E D : dir \in Seq(D)
<1> DEFINE D == {dir[i] : i \in DOMAIN dir}
<1>1. dir \in Seq(D) /\ Distinct(dir)
  BY ListingsAssumption DEF Distinct
<1> HIDE DEF D
<1> QED
  BY <1>1

LEMMA ExactInit == Init => ExactInv
<1> SUFFICES ASSUME Init PROVE ExactInv
  OBVIOUS
<1>1. /\ load = "idle" /\ table = <<>> /\ tried = 0 /\ pc = "out" /\ before = held
      /\ held = [d \in Device |-> {}]
  BY DEF Init, SetupInit, StartInit
<1> QED
  BY <1>1 DEF ExactInv, Listed, Distinct, Phase, Holding, Waiting, Current, Settled, Counting

(* readdir returns the next name: it is added to the table if it matches.  *)
LEMMA ReadListed ==
  ASSUME ListTyped, Listed, ReadEntry
  PROVE  Listed'
<1>1. PICK k \in 0 .. Len(dir) :
        /\ unread = SubSeq(dir, k + 1, Len(dir))
        /\ table = Selected(dir, Matching)[k]
        /\ \A i \in DOMAIN table : \E j \in 1 .. k : table[i] = dir[j]
  BY DEF ReadEntry, Listed
<1>2. Len(dir) \in Nat /\ DOMAIN dir = 1 .. Len(dir) /\ Distinct(dir)
  BY DirTyped DEF ListTyped
<1>3. /\ k + 1 \in 1 .. Len(dir) /\ Head(unread) = dir[k + 1]
      /\ Tail(unread) = SubSeq(dir, k + 1 + 1, Len(dir))
  <2>1. PICK D : dir \in Seq(D)
    BY DirTyped DEF ListTyped
  <2>2. k < Len(dir)
    BY <1>1, <1>2, <2>1, SubSeqEmpty DEF ReadEntry
  <2>3. k + 1 \in 1 .. Len(dir) /\ Len(dir) \in k + 1 .. Len(dir)
    BY <1>2, <2>2
  <2> QED
    BY <1>1, <2>1, <2>3, HeadTailOfSubSeq
<1>4. /\ table' = Collect(Matching, table, dir[k + 1]) /\ load = "scan" /\ load' = "scan"
      /\ unread' = SubSeq(dir, k + 1 + 1, Len(dir)) /\ dir' = dir
  BY <1>3 DEF ReadEntry, Collect, Matching, Matches, IsAddress
<1>5. table' = Selected(dir, Matching)[k + 1]
  <2>1. k + 1 - 1 = k
    OBVIOUS
  <2> QED
    BY <1>1, <1>2, <1>3, <1>4, <2>1, SelectedEquation
<1>6. table \in Seq(Device) /\ Distinct(table) /\ \A i \in DOMAIN table : table[i] \in Matching
  BY DEF ListTyped, Listed
<1>7. ASSUME NEW e, e = dir[k + 1], e \in Matching, table' = Append(table, e)
      PROVE  /\ Distinct(table') /\ \A i \in DOMAIN table' : table'[i] \in Matching
             /\ \A i \in DOMAIN table' : \E j \in 1 .. k + 1 : table'[i] = dir[j]
  <2>1. \A i \in DOMAIN table : table[i] # e
    <3> SUFFICES ASSUME NEW i \in DOMAIN table, table[i] = e PROVE FALSE
      OBVIOUS
    <3>1. PICK j \in 1 .. k : table[i] = dir[j]
      BY <1>1
    <3>2. j \in DOMAIN dir /\ k + 1 \in DOMAIN dir /\ j # k + 1 /\ dir[j] = dir[k + 1]
      BY <1>2, <1>3, <1>7, <3>1
    <3> QED
      BY <1>2, <3>2 DEF Distinct
  <2>2. e \in Device
    BY <1>7 DEF Matching
  <2>3. \A i \in DOMAIN table' : (i \in DOMAIN table /\ table'[i] = table[i])
                                 \/ (i = Len(table) + 1 /\ table'[i] = e)
    BY <1>6, <1>7, <2>2
  <2>4. Distinct(table')
    BY <1>6, <2>1, <2>3 DEF Distinct
  <2>5. \A i \in DOMAIN table' : table'[i] \in Matching
    BY <1>6, <1>7, <2>3
  <2>6. \A i \in DOMAIN table' : \E j \in 1 .. k + 1 : table'[i] = dir[j]
    BY <1>1, <1>3, <1>7, <2>3
  <2> QED
    BY <2>4, <2>5, <2>6
<1>8. /\ Distinct(table') /\ \A i \in DOMAIN table' : table'[i] \in Matching
      /\ \A i \in DOMAIN table' : \E j \in 1 .. k + 1 : table'[i] = dir[j]
  <2>1. CASE dir[k + 1] \in Matching
    BY <1>4, <1>7, <2>1 DEF Collect
  <2>2. CASE dir[k + 1] \notin Matching
    BY <1>1, <1>4, <1>6, <2>2 DEF Collect
  <2> QED
    BY <2>1, <2>2
<1>9. Matching' = Matching /\ k + 1 \in 0 .. Len(dir)
  BY <1>3 DEF Matching, Matches, Readable, IsAddress, HasDriver
<1>10. Selected(dir, Matching)' = Selected(dir, Matching)
  BY <1>4, <1>9 DEF Selected
<1> QED
  BY <1>4, <1>5, <1>8, <1>9, <1>10 DEF Listed, Distinct

LEMMA SameAvailable ==
  ASSUME UNCHANGED <<held, before, broken>>
  PROVE  Usable' = Usable /\ \A d : Available(d)' <=> Available(d)
<1>1. \A d : Available(d)' <=> Available(d)
  BY DEF Available, Matches, Readable, IsAddress, HasDriver, Viable, Neighbours, Free
<1> QED
  BY <1>1 DEF Usable

LEMMA SameListed ==
  ASSUME Listed, UNCHANGED <<dir, table>>,
         (load' = load /\ unread' = unread) \/ (load' \in {"init", "returned"} /\ load = "init")
           \/ load' \in {"idle", "exited"}
  PROVE  Listed'
<1>1. Matching' = Matching
  BY DEF Matching, Matches, Readable, IsAddress, HasDriver
<1>2. Selected(dir, Matching)' = Selected(dir, Matching)
  BY <1>1 DEF Selected
<1> QED
  BY <1>1, <1>2 DEF Listed, Distinct

LEMMA BeginExact ==
  ASSUME LoadInv, ExactInv, NEW max \in Limits, LoadBegin(max)
  PROVE  ExactInv'
<1> USE DEF ExactInv
<1>1. /\ load = "idle" /\ pc = "out" /\ UNCHANGED <<pc, dev, at, rc, held, dir>>
      /\ before' = held /\ broken' = {} /\ table' = <<>> /\ tried' = 0 /\ channels' = <<>>
      /\ (load' = "scan" /\ unread' = dir) \/ load' = "returned"
  BY DEF LoadBegin, Phase, start, thread
<1>2. Listed'
  <2>1. Len(dir) \in Nat /\ \E D : dir \in Seq(D)
    BY DirTyped DEF LoadInv, ListTyped
  <2>2. SubSeq(dir, 0 + 1, Len(dir)) = dir
    <3>1. PICK D : dir \in Seq(D)
      BY <2>1
    <3> QED
      BY <3>1, SubSeqFull
  <2>3. Selected(dir, Matching')[0] = <<>>
    BY <2>1, SelectedEquation
  <2>4. Selected(dir, Matching)' = Selected(dir, Matching')
    BY <1>1 DEF Selected
  <2>5. 0 \in 0 .. Len(dir)
    BY <2>1
  <2>6. Distinct(table') /\ DOMAIN table' = {}
    BY <1>1 DEF Distinct
  <2> QED
    BY <1>1, <2>2, <2>3, <2>4, <2>5, <2>6 DEF Listed, Distinct
<1>3. Settled'
  <2>1. Selected(table', Usable')[0] = <<>>
    BY <1>1, SelectedEquation
  <2>2. Selected(table, Usable)' = Selected(table', Usable')
    BY DEF Selected
  <2> QED
    BY <1>1, <2>1, <2>2 DEF Settled
<1>4. (Phase /\ Holding /\ Waiting /\ Current /\ Counting)'
  BY <1>1 DEF Phase, Holding, Waiting, Current, Counting
<1> QED
  BY <1>2, <1>3, <1>4

LEMMA ScanExact ==
  ASSUME LoadInv, ExactInv, ReadEntry \/ ScanEnd
  PROVE  ExactInv'
<1> USE DEF ExactInv
<1>1. /\ load = "scan" /\ pc = "out" /\ tried = 0 /\ held = before /\ broken = {}
      /\ channels = <<>>
      /\ UNCHANGED <<pc, dev, at, rc, held, broken, dir, tried, channels, limit, before>>
      /\ \A d \in Device : Untouched(d)
  BY DEF ReadEntry, ScanEnd, LoadInv, Scan, Phase, Waiting, Untouched, setup, start, thread
<1>2. Phase' /\ Holding'
  BY <1>1 DEF Phase, Holding, ReadEntry, ScanEnd
<1>3. CASE ReadEntry
  <2>1. Listed' /\ load' = "scan"
    BY <1>3, ReadListed DEF LoadInv, ReadEntry
  <2> QED
    BY <1>1, <1>2, <2>1 DEF Waiting, Current, Settled, Counting
<1>4. CASE ScanEnd
  <2>1. /\ table' = table /\ table \in Seq(Device) /\ load' \in {"init", "returned"}
        /\ unread = <<>> /\ load' = IF table = <<>> THEN "returned" ELSE "init"
    BY <1>4 DEF ScanEnd, LoadInv, ListTyped
  <2>2. Listed'
    <3>1. PICK k \in 0 .. Len(dir) :
            unread = SubSeq(dir, k + 1, Len(dir)) /\ table = Selected(dir, Matching)[k]
      BY <1>1 DEF Listed
    <3>2. k = Len(dir)
      <4>1. Len(dir) \in Nat
        BY DirTyped DEF LoadInv, ListTyped
      <4>2. PICK D : dir \in Seq(D)
        BY DirTyped DEF LoadInv, ListTyped
      <4>3. ASSUME k < Len(dir) PROVE FALSE
        <5>1. \A i \in k + 1 .. Len(dir) : dir[i] \in D
          BY <4>1, <4>2
        <5>2. Len(unread) = IF k + 1 <= Len(dir) THEN Len(dir) - (k + 1) + 1 ELSE 0
          BY <3>1, <4>1, <5>1, SubSeqProperties
        <5>3. Len(unread) = 0
          BY <2>1
        <5> QED
          BY <4>1, <4>3, <5>2, <5>3
      <4> QED
        BY <4>1, <4>3
    <3>3. Matching' = Matching
      BY DEF Matching, Matches, Readable, IsAddress, HasDriver
    <3>4. Selected(dir, Matching)' = Selected(dir, Matching)
      BY <1>1, <3>3 DEF Selected
    <3> QED
      BY <1>1, <2>1, <3>1, <3>2, <3>3, <3>4 DEF Listed, Distinct
  <2>3. Settled'
    <3>1. Selected(table, Usable)[0] = <<>>
      BY <2>1, SelectedEquation
    <3>2. Selected(table, Usable)' = Selected(table, Usable)
      BY <1>1, <2>1, SameAvailable DEF Selected
    <3> QED
      BY <1>1, <2>1, <3>1, <3>2 DEF Settled
  <2>4. Waiting'
    <3>1. \A i \in 1 .. Len(table) : Untouched(table[i])'
      BY <1>1, <2>1 DEF Untouched
    <3>2. load' = "init" => 0 < Len(table)
      BY <2>1
    <3> QED
      BY <1>1, <2>1, <3>1, <3>2 DEF Waiting
  <2>5. Counting' /\ Current'
    BY <1>1, <2>1 DEF Counting, Current
  <2> QED
    BY <1>2, <2>2, <2>3, <2>4, <2>5
<1> QED
  BY <1>3, <1>4

(* A call of ioat_channel_init begins, or the process or the caller ends   *)
(* the channel_load.                                                       *)
LEMMA CallExact ==
  ASSUME LoadInv, ExactInv, InitChannel \/ ProcessExits \/ Unload
  PROVE  ExactInv'
<1> USE DEF ExactInv
<1>1. UNCHANGED <<held, before, broken, dir, table, tried, limit>>
  BY DEF InitChannel, StartBegin, ProcessExits, Unload, list, setup
<1>2. Listed'
  BY <1>1, SameListed DEF InitChannel, ProcessExits, Unload, list
<1>3. Holding'
  BY <1>1 DEF Holding
<1>4. Usable' = Usable /\ \A d : Available(d)' <=> Available(d)
  BY <1>1, SameAvailable
<1>5. CASE InitChannel
  <2>1. /\ load = "init" /\ load' = "init" /\ pc = "out" /\ pc' = "vfio" /\ dev' = table[tried + 1]
        /\ at' = "container" /\ rc' = "running" /\ channels' = channels
    BY <1>5 DEF InitChannel, StartBegin, list
  <2>2. Waiting'
    BY <1>1, <2>1 DEF Waiting, Untouched
  <2>3. Selected(table, Usable)' = Selected(table, Usable)
    BY <1>1, <1>4 DEF Selected
  <2>4. Settled'
    BY <1>1, <1>4, <2>1, <2>3 DEF Settled
  <2>5. (Phase /\ Current /\ Counting)'
    BY <1>1, <2>1 DEF Phase, Current, Counting, Opening, Described
  <2> QED
    BY <1>2, <1>3, <2>2, <2>4, <2>5
<1>6. CASE ProcessExits \/ Unload
  <2>1. /\ load' = "exited" \/ (load = "returned" /\ load' = "idle")
        /\ UNCHANGED <<pc, dev, at, rc>>
    BY <1>6 DEF ProcessExits, Unload, setup, start, thread
  <2> QED
    BY <1>2, <1>3, <2>1 DEF Phase, Waiting, Current, Settled, Counting
<1> QED
  BY <1>5, <1>6

(* ioat_channel_init has returned for the device tried: it is put into the *)
(* array if it is available, and not otherwise.                            *)
LEMMA DoneExact ==
  ASSUME LoadInv, ExactInv, ChannelDone
  PROVE  ExactInv'
<1> USE DEF ExactInv
<1>1. /\ load = "init" /\ pc \in {"ready", "failed"} /\ pc' = "out" /\ tried' = tried + 1
      /\ UNCHANGED <<held, before, broken, dir, unread, table, limit, dev, at, rc>>
      /\ channels' = IF pc = "ready" THEN Append(channels, dev) ELSE channels
      /\ load' = IF Enough \/ tried' = Len(table) THEN "returned" ELSE "init"
  BY DEF ChannelDone, Kept, setup
<1>2. /\ dev = table[tried + 1] /\ table \in Seq(Device) /\ tried \in Nat /\ tried < Len(table)
      /\ tried + 1 \in 1 .. Len(table) /\ Len(table) \in Nat /\ dev \in Device
  BY <1>1 DEF Phase, LoadInv, Scan, ListTyped
<1>3. (pc = "ready" <=> Available(dev)) /\ (Available(dev) => held[dev] = File)
  BY <1>1 DEF Current, Phase
<1>4. Usable' = Usable /\ \A d : Available(d)' <=> Available(d)
  BY <1>1, SameAvailable
<1>5. Settled'
  <2>1. channels' = Collect(Usable, channels, dev)
    BY <1>1, <1>2, <1>3 DEF Collect, Usable
  <2>2. channels' = Selected(table, Usable)[tried + 1]
    <3>1. tried + 1 - 1 = tried
      BY <1>2
    <3> QED
      <4>1. channels = Selected(table, Usable)[tried]
        BY <1>1 DEF Settled
      <4>2. Selected(table, Usable)[tried + 1] = Collect(Usable, Selected(table, Usable)[tried + 1 - 1], table[tried + 1])
        BY <1>2, SelectedEquation
      <4> QED
        BY <1>2, <2>1, <3>1, <4>1, <4>2
  <2>3. Selected(table, Usable)' = Selected(table, Usable)
    BY <1>1, <1>4 DEF Selected
  <2>4. \A i \in 1 .. tried + 1 : Available(table[i]) => held[table[i]] = File
    <3> SUFFICES ASSUME NEW i \in 1 .. tried + 1, Available(table[i])
                 PROVE  held[table[i]] = File
      OBVIOUS
    <3>1. CASE i \in 1 .. tried
      BY <1>1, <3>1 DEF Settled
    <3>2. CASE i = tried + 1
      BY <1>2, <1>3, <3>2
    <3> QED
      BY <1>2, <3>1, <3>2
  <2> QED
    BY <1>1, <1>4, <2>2, <2>3, <2>4 DEF Settled
<1>6. Waiting'
  <2>1. load' = "init" => tried + 2 \in tried + 2 .. Len(table)
    BY <1>1, <1>2
  <2>2. \A i \in tried + 2 .. Len(table) : Untouched(table[i])
    BY <1>1 DEF Waiting
  <2>3. tried' + 1 = tried + 2 /\ \A i \in tried' + 2 .. Len(table) : i \in tried + 2 .. Len(table)
    BY <1>1, <1>2
  <2>4. \A i \in tried' + 2 .. Len(table) : held[table[i]] = before[table[i]] /\ table[i] \notin broken
    BY <2>2, <2>3 DEF Untouched
  <2>5. load' = "init" => held[table[tried' + 1]] = before[table[tried' + 1]] /\ table[tried' + 1] \notin broken
    BY <2>1, <2>2, <2>3 DEF Untouched
  <2>6. load' # "scan" /\ UNCHANGED <<table, held, before, broken>>
    BY <1>1
  <2> QED
    BY <2>4, <2>5, <2>6 DEF Waiting, Untouched
<1>7. Counting'
  BY <1>1, <1>2 DEF Counting, Enough
<1>8. Listed'
  BY <1>1, SameListed
<1>9. (Phase /\ Holding /\ Current)'
  BY <1>1 DEF Phase, Holding, Current
<1> QED
  BY <1>5, <1>6, <1>7, <1>8, <1>9

(* The device being tried takes its group only when no neighbour holds it, *)
(* so it does not disturb what was settled for the devices before.         *)
LEMMA SettledStays ==
  ASSUME LoadInv, ExactInv, load = "init", pc # "out", UNCHANGED list,
         broken \subseteq broken', broken' \subseteq broken \cup {dev},
         \A e \in Device : held[e] \subseteq held'[e] /\ (e # dev => held'[e] = held[e]),
         "device" \in held'[dev] => "device" \in held[dev] \/ \A e \in Neighbours(dev) : held[e] = {}
  PROVE  Settled' /\ Listed' /\ Counting' /\ \A i \in tried + 2 .. Len(table) : Untouched(table[i])'
<1> USE DEF ExactInv
<1>1. /\ UNCHANGED <<load, dir, unread, table, tried, channels, limit, before>>
      /\ dev = table[tried + 1] /\ table \in Seq(Device) /\ Len(table) \in Nat
      /\ tried \in Nat /\ tried + 1 \in 1 .. Len(table) /\ tried \in 0 .. Len(table)
      /\ DOMAIN table = 1 .. Len(table) /\ dev \in Device
  BY DEF list, Phase, LoadInv, Scan, ListTyped
<1>2. ASSUME NEW i \in 1 .. Len(table), i # tried + 1
      PROVE  table[i] \in Device /\ table[i] # dev
  BY <1>1, <1>2 DEF Listed, Distinct
<1>3. ASSUME NEW i \in 1 .. tried
      PROVE  /\ Available(table[i])' <=> Available(table[i])
             /\ Available(table[i])' => held'[table[i]] = File
  <2> DEFINE d == table[i]
  <2>1. d \in Device /\ d # dev /\ (Available(d) => held[d] = File) /\ d' = d
    BY <1>1, <1>2, <1>3 DEF Settled
  <2> HIDE DEF d
  <2>2. Matches(d)' = Matches(d) /\ Viable(d)' = Viable(d)
    BY <2>1 DEF Matches, Readable, IsAddress, HasDriver, Viable, Neighbours
  <2>3. Available(d) => Free(d)'
    <3> SUFFICES ASSUME Available(d), NEW e \in Neighbours(d)
                 PROVE  before[e] = {} /\ (e # d => "device" \notin held'[e])
      BY <1>1, <2>1 DEF Free, Neighbours
    <3>1. before[e] = {} /\ (e # d => "device" \notin held[e]) /\ e \in Device
      BY DEF Available, Free, Neighbours
    <3>2. CASE e = dev
      <4>1. d \in Neighbours(dev) /\ held[d] # {}
        BY <2>1, <3>2 DEF Neighbours, File
      <4> QED
        BY <2>1, <3>1, <3>2, <4>1
    <3>3. CASE e # dev
      BY <3>1, <3>3
    <3> QED
      BY <3>2, <3>3
  <2>4. Free(d)' => Free(d)
    <3>1. \A e \in Neighbours(d) : e \in Device
      BY DEF Neighbours
    <3> QED
      BY <1>1, <2>1, <3>1 DEF Free, Neighbours
  <2>5. d \in broken' <=> d \in broken
    BY <2>1
  <2>6. Available(d)' <=> Available(d)
    BY <2>1, <2>2, <2>3, <2>4, <2>5 DEF Available
  <2>7. Available(d)' => held'[d] = File
    BY <2>1, <2>6
  <2> QED
    BY <2>6, <2>7 DEF d
<1>4. Settled'
  <2>1. \A i \in 1 .. tried : table[i] \in Usable' <=> table[i] \in Usable
    <3> SUFFICES ASSUME NEW i \in 1 .. tried
                 PROVE  table[i] \in Usable' <=> table[i] \in Usable
      OBVIOUS
    <3>1. table'[i] = table[i] /\ table[i] \in Device
      BY <1>1, <1>2
    <3> QED
      BY <1>3, <3>1 DEF Usable
  <2>2. Selected(table, Usable')[tried] = Selected(table, Usable)[tried]
    BY <1>1, <2>1, SelectedAgree
  <2>3. Selected(table, Usable)' = Selected(table, Usable')
    BY <1>1 DEF Selected
  <2> QED
    BY <1>1, <1>3, <2>2, <2>3 DEF Settled
<1>5. Listed'
  BY <1>1, SameListed
<1>6. Counting'
  BY <1>1 DEF Counting
<1>7. \A i \in tried + 2 .. Len(table) : Untouched(table[i])'
  BY <1>1, <1>2 DEF Waiting, Untouched
<1> QED
  BY <1>4, <1>5, <1>6, <1>7

LEMMA SetupExact ==
  ASSUME LoadInv, ExactInv, load = "init", pc = "vfio", SetupStep, UNCHANGED <<start, list>>
  PROVE  ExactInv'
<1> USE DEF ExactInv
<1>1. /\ rc = "running" /\ UNCHANGED <<dev, pc, load, dir, unread, table, tried, channels, limit, before>>
      /\ dev = table[tried + 1] /\ dev \in Device /\ dev \in Matching
      /\ held \in [Device -> SUBSET File] /\ files = Opened
      /\ Untouched(dev)
  <2>1. rc = "running" /\ dev' = dev
    BY DEF SetupStep, OpenContainer, CheckApi, OpenGroup, GroupStatus, AttachGroup, SetIommu,
       GetInfo, GetAllInfo, GetDevice, Describe, InitBars, ReadCommand, WriteCommand, Fail,
       Exit, Open, Ask, ParseInfo, Succeed
  <2>2. tried + 1 \in DOMAIN table
    BY DEF LoadInv, Scan, ListTyped
  <2> QED
    BY <2>1, <2>2 DEF start, thread, list, Phase, Listed, LoadInv, SetupTypeOK, Progress, Waiting
<1> DEFINE Clear == \A e \in Neighbours(dev) : held[e] = {}
<1>2. /\ at \notin Opening => Clear
      /\ at \notin Opening \cup {"status"} => Viable(dev)
      /\ at \in Described => DriverOf[dev] = "vfio-pci"
  BY <1>1 DEF Current
<1>3. dev \in Neighbours(dev) /\ \A e \in Neighbours(dev) : e \in Device
  BY <1>1 DEF Neighbours
<1> HIDE DEF Clear
<1>4. ASSUME UNCHANGED <<held, broken>>, rc' = "running",
             /\ at' \notin Opening => Clear
             /\ at' \notin Opening \cup {"status"} => Viable(dev)
             /\ at' \in Described => DriverOf[dev] = "vfio-pci"
      PROVE  ExactInv'
  <2>1. (Settled /\ Listed /\ Counting)' /\ \A i \in tried + 2 .. Len(table) : Untouched(table[i])'
    BY <1>1, <1>4, SettledStays
  <2>2. Waiting'
    BY <1>1, <1>4, <2>1 DEF Waiting, Untouched
  <2>3. Current' /\ Phase' /\ Holding'
    <3>1. Clear' /\ Viable(dev)' <=> Clear /\ Viable(dev)
      BY <1>1, <1>4 DEF Clear, Viable, Neighbours
    <3>2. Clear' <=> Clear
      BY <1>1, <1>4 DEF Clear, Neighbours
    <3>3. Viable(dev)' <=> Viable(dev)
      BY <1>1, <1>4 DEF Viable, Neighbours
    <3>4. Current'
      BY <1>1, <1>4, <3>2, <3>3 DEF Current, Clear
    <3> QED
      BY <1>1, <1>4, <3>4 DEF Phase, Holding
  <2> QED
    BY <2>1, <2>2, <2>3
<1>5. CASE OpenGroup
  <2>1. /\ UNCHANGED <<held, broken>> /\ rc' = "running" /\ at' = "status" /\ ~ GroupBusy(dev)
    BY <1>1, <1>5 DEF OpenGroup, Open, Succeed, Refused
  <2>2. Clear
    BY <1>1, <1>3, <2>1 DEF GroupBusy, Clear, Holding, File
  <2> QED
    BY <1>4, <2>1, <2>2 DEF Opening, Described
<1>6. CASE GroupStatus
  <2>1. /\ UNCHANGED <<held, broken>> /\ rc' = "running" /\ at = "status" /\ at' = "attach" /\ Viable(dev)
    BY <1>1, <1>6 DEF GroupStatus, Ask, Succeed, Refused
  <2> QED
    BY <1>2, <1>4, <2>1 DEF Opening, Described
<1>7. CASE GetDevice
  <2>1. /\ UNCHANGED <<held, broken>> /\ rc' = "running" /\ at = "getDevice" /\ at' = "describe"
        /\ DriverOf[dev] = "vfio-pci"
    BY <1>1, <1>7 DEF GetDevice, Open, Succeed, Refused
  <2> QED
    BY <1>2, <1>4, <2>1 DEF Opening, Described
<1>8. CASE \/ OpenContainer \/ CheckApi \/ AttachGroup \/ SetIommu \/ GetInfo \/ GetAllInfo
           \/ Describe \/ InitBars \/ ReadCommand
  <2>1. /\ UNCHANGED <<held, broken>> /\ rc' = "running"
        /\ at' \in Opening \/ at \notin Opening \cup {"status"}
        /\ at' \in Described => at \in Described
    BY <1>1, <1>8 DEF OpenContainer, CheckApi, AttachGroup, SetIommu, GetInfo, GetAllInfo,
       Describe, InitBars, ReadCommand, Open, Ask, ParseInfo, Succeed, Opening, Described
  <2> QED
    BY <1>2, <1>4, <2>1 DEF Opening, Described
<1>9. CASE WriteCommand
  <2>1. /\ at = "writeCommand" /\ rc' = "ok" /\ held' = [held EXCEPT ![dev] = @ \cup files]
        /\ broken' = broken
    BY <1>9 DEF WriteCommand
  <2>2. Clear /\ Viable(dev) /\ DriverOf[dev] = "vfio-pci" /\ files = File
    BY <1>1, <1>2, <2>1 DEF Opening, Described, Opened
  <2>3. held'[dev] = File /\ \A e \in Device : e # dev => held'[e] = held[e]
    BY <1>1, <1>3, <2>1, <2>2 DEF Clear
  <2>4. (Settled /\ Listed /\ Counting)' /\ \A i \in tried + 2 .. Len(table) : Untouched(table[i])'
    BY <1>1, <2>1, <2>2, <2>3, SettledStays DEF Clear
  <2>5. Waiting'
    BY <1>1, <2>1, <2>4 DEF Waiting, Untouched
  <2>6. Holding'
    BY <1>1, <2>3 DEF Holding
  <2>7. Available(dev)'
    <3>1. Free(dev)'
      BY <1>1, <1>3, <2>2, <2>3 DEF Free, Neighbours, Clear, Holding
    <3>2. Matches(dev)' /\ Viable(dev)'
      BY <1>1, <2>2 DEF Matching, Matches, Readable, IsAddress, HasDriver, Viable, Neighbours
    <3>3. dev' \notin broken' /\ DriverOf[dev'] = "vfio-pci"
      BY <1>1, <2>1, <2>2 DEF Untouched
    <3> QED
      BY <3>1, <3>2, <3>3 DEF Available
  <2>8. Current' /\ Phase'
    BY <1>1, <2>1, <2>3, <2>7 DEF Current, Phase
  <2> QED
    BY <2>4, <2>5, <2>6, <2>8
<1>10. CASE Fail
  <2>1. /\ held' = [held EXCEPT ![dev] = @ \cup files'] /\ rc' \in {"failed", "exited"}
        /\ broken' = IF Refused THEN broken ELSE broken \cup {dev}
        /\ files' = files \ Closed
    BY <1>10 DEF Fail
  <2>2. files' = IF at \in Described THEN {"device"} ELSE {}
    <3>1. at \in Step
      BY DEF LoadInv, SetupTypeOK
    <3> QED
      BY <1>1, <2>1, <3>1 DEF Step, Described, Opened, Closed, BeforeFail, File
  <2>3. /\ held'[dev] = IF at \in Described THEN {"device"} ELSE held[dev]
        /\ \A e \in Device : e # dev => held'[e] = held[e]
        /\ at \in Described => Clear /\ held[dev] = {}
    <3>1. at \in Described => Clear /\ held[dev] = {}
      BY <1>2, <1>3 DEF Opening, Described, Clear
    <3> QED
      BY <1>1, <2>1, <2>2, <3>1
  <2>4. (Settled /\ Listed /\ Counting)' /\ \A i \in tried + 2 .. Len(table) : Untouched(table[i])'
    <3>1. \A e \in Device : held[e] \subseteq held'[e] /\ (e # dev => held'[e] = held[e])
      BY <2>3
    <3> QED
      BY <1>1, <2>1, <2>3, <3>1, SettledStays DEF Clear
  <2>5. Waiting'
    BY <1>1, <2>1, <2>4 DEF Waiting, Untouched
  <2>6. Holding'
    BY <1>1, <2>3 DEF Holding
  <2>7. ~ Available(dev)'
    <3>1. CASE ~ Refused
      BY <1>1, <2>1, <3>1 DEF Available
    <3>2. CASE at = "group" /\ GroupBusy(dev)
      <4>1. PICK e \in Neighbours(dev) : held[e] \cap {"group", "device"} # {}
        BY <3>2 DEF GroupBusy
      <4>2. e \in Device /\ e \in Neighbours(dev)' /\ "device" \in held[e] /\ before' = before
        BY <1>1, <1>3, <4>1 DEF Neighbours, Holding, File
      <4>3. CASE e = dev
        <5>1. before[dev] # {}
          BY <1>1, <4>2, <4>3 DEF Untouched
        <5> QED
          BY <4>2, <4>3, <5>1 DEF Available, Free
      <4>4. CASE e # dev
        <5>1. "device" \in held'[e] /\ e # dev'
          BY <1>1, <2>3, <4>2, <4>4
        <5> QED
          BY <4>2, <5>1 DEF Available, Free
      <4> QED
        BY <4>3, <4>4
    <3>3. CASE at = "status" /\ ~ Viable(dev)
      BY <1>1, <3>3 DEF Available, Viable, Neighbours
    <3>4. CASE at = "getDevice" /\ DriverOf[dev] # "vfio-pci"
      BY <1>1, <3>4 DEF Available
    <3> QED
      BY <3>1, <3>2, <3>3, <3>4 DEF Refused
  <2>8. Current' /\ Phase'
    BY <1>1, <2>1, <2>7 DEF Current, Phase
  <2> QED
    BY <2>4, <2>5, <2>6, <2>8
<1>11. CASE Exit
  <2>1. UNCHANGED <<held, broken>> /\ rc' = "exited"
    BY <1>11 DEF Exit
  <2>2. (Settled /\ Listed /\ Counting)' /\ \A i \in tried + 2 .. Len(table) : Untouched(table[i])'
    BY <1>1, <2>1, SettledStays
  <2> QED
    BY <1>1, <2>1, <2>2 DEF Waiting, Untouched, Current, Phase, Holding
<1> QED
  BY <1>5, <1>6, <1>7, <1>8, <1>9, <1>10, <1>11 DEF SetupStep

(* The rest of ioat_channel_init: a step of it that fails marks the device,*)
(* and no step of it but propig_vfio_init opens anything.                  *)
LEMMA ThreadExact ==
  ASSUME LoadInv, ExactInv, load = "init", UNCHANGED list,
         \/ VfioReturns \/ MapRegs \/ CheckLimits \/ Allocate \/ ReadStatus \/ SuspendWait
         \/ ClearErrors \/ ResetWait \/ StartChain \/ StartWait \/ Events
  PROVE  ExactInv'
<1> USE DEF ExactInv
<1>1. /\ UNCHANGED <<dev, at, rc, held>>
      /\ pc' \notin {"out", "vfio"}
      /\ \/ /\ pc = "vfio" /\ broken' = broken
            /\ (rc = "ok" /\ pc' = "map") \/ (rc = "failed" /\ pc' = "failed")
         \/ /\ pc \notin {"out", "vfio", "failed"}
            /\ \/ pc' # "failed" /\ broken' = broken
               \/ pc' = "failed" /\ broken' = broken \cup {dev}
  <2>1. CASE VfioReturns
    BY <2>1 DEF VfioReturns, setup
  <2>2. CASE MapRegs \/ CheckLimits \/ Allocate
    BY <2>2 DEF MapRegs, CheckLimits, Allocate, Prepare
  <2>3. CASE ReadStatus \/ SuspendWait \/ ClearErrors \/ ResetWait \/ StartChain \/ Events
    BY <2>3 DEF ReadStatus, SuspendWait, ClearErrors, ResetWait, StartChain, Events, setup
  <2>4. CASE StartWait
    BY <2>4 DEF StartWait
  <2> QED
    BY <2>1, <2>2, <2>3, <2>4
<1>2. /\ pc # "out" /\ broken \subseteq broken' /\ broken' \subseteq broken \cup {dev}
      /\ UNCHANGED <<load, dir, unread, table, tried, channels, limit, before>>
      /\ dev = table[tried + 1]
  BY <1>1 DEF list, Phase
<1>3. (Settled /\ Listed /\ Counting)' /\ \A i \in tried + 2 .. Len(table) : Untouched(table[i])'
  BY <1>1, <1>2, SettledStays
<1>4. Waiting'
  BY <1>1, <1>2, <1>3 DEF Waiting, Untouched
<1>5. Phase' /\ Holding'
  BY <1>1, <1>2 DEF Phase, Holding
<1>6. Current'
  <2>1. CASE broken' = broken /\ (pc = "vfio" \/ pc' # "failed")
    <3>1. Available(dev)' <=> Available(dev)
      BY <1>1, <1>2, <2>1, SameAvailable
    <3>2. Current
      OBVIOUS
    <3>3. /\ rc' = "ok" /\ pc' # "failed" => Available(dev) /\ held[dev] = File
          /\ pc' = "failed" \/ rc' = "failed" => ~ Available(dev)
      BY <1>1, <1>2, <2>1, <3>2 DEF Current, Phase
    <3> QED
      BY <1>1, <1>2, <3>1, <3>3 DEF Current
  <2>2. CASE pc' = "failed" /\ broken' = broken \cup {dev}
    BY <1>1, <2>2 DEF Current, Available
  <2> QED
    BY <1>1, <2>1, <2>2
<1> QED
  BY <1>3, <1>4, <1>5, <1>6

(* The engine, and a step that changes nothing, leave all of it alone.     *)
LEMMA SameExact ==
  ASSUME ExactInv, UNCHANGED <<setup, thread, list>>
  PROVE  ExactInv'
<1> USE DEF ExactInv
<1>1. /\ UNCHANGED <<dev, at, rc, held, broken, pc>>
      /\ UNCHANGED <<load, dir, unread, table, tried, channels, limit, before>>
  BY DEF setup, thread, list
<1>2. Usable' = Usable /\ \A d : Available(d)' <=> Available(d)
  BY <1>1, SameAvailable
<1>3. Listed'
  BY <1>1, SameListed
<1>4. Settled'
  <2>1. Selected(table, Usable)' = Selected(table, Usable)
    BY <1>1, <1>2 DEF Selected
  <2> QED
    BY <1>1, <1>2, <2>1 DEF Settled
<1>5. (Phase /\ Holding /\ Waiting /\ Counting)'
  BY <1>1 DEF Phase, Holding, Waiting, Untouched, Counting
<1>6. Current'
  BY <1>1, <1>2 DEF Current, Viable, Neighbours
<1> QED
  BY <1>3, <1>4, <1>5, <1>6

LEMMA ExactStep ==
  ASSUME LoadInv, ExactInv, [Next]_vars
  PROVE  ExactInv'
<1>1. CASE \E max \in Limits : LoadBegin(max)
  BY <1>1, BeginExact
<1>2. CASE ReadEntry \/ ScanEnd
  BY <1>2, ScanExact
<1>3. CASE InitChannel \/ ProcessExits \/ Unload
  BY <1>3, CallExact
<1>4. CASE ChannelDone
  BY <1>4, DoneExact
<1>5. CASE load = "init" /\ StartStep /\ UNCHANGED list
  <2>1. CASE pc = "vfio" /\ SetupStep /\ UNCHANGED start
    BY <1>5, <2>1, SetupExact
  <2> QED
    BY <1>5, <2>1, ThreadExact DEF StartStep
<1>6. CASE EngineStep /\ UNCHANGED list
  <2>1. UNCHANGED <<setup, thread>>
    BY <1>6 DEF EngineStep, EngineObeys, EngineOld, EngineStarts
  <2> QED
    BY <1>6, <2>1, SameExact
<1>7. CASE UNCHANGED vars
  BY <1>7, SameExact DEF vars, start
<1> QED
  BY <1>1, <1>2, <1>3, <1>4, <1>5, <1>6, <1>7 DEF Next, Library, Stopped

(* channel_load hands out exactly the supported engines it can have, in    *)
(* the order of the directory, for any sysfs tree, drivers and groups.     *)
THEOREM LoadsExactly == Spec => []LoadExact
<1>1. ExactInv => LoadExact
  BY DEF ExactInv, Listed, Settled, Counting, LoadExact, Matching, Usable
<1>2. Spec => []ExactInv
  <2>1. Init => ExactInv
    BY ExactInit
  <2>2. LoadInv /\ ExactInv /\ [Next]_vars => ExactInv'
    BY ExactStep
  <2> QED
    BY <2>1, <2>2, LoadAlways, PTL DEF Spec
<1> QED
  BY <1>1, <1>2, PTL

=============================================================================

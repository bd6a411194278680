------------------------------ MODULE VfioSetup -----------------------------
(***************************************************************************)
(* propig_vfio_init of lib/vfio-helper.c: the calls that take one device   *)
(* from sysfs to a bus master behind an IOMMU, and the two labels that     *)
(* clean up when one of them fails.                                        *)
(*                                                                         *)
(* The kernel (external) opens a VFIO group once: not while it, or a       *)
(* device of it, is open.  What it refuses for the way the devices are     *)
(* bound to drivers follows from the constants; any other failure is a     *)
(* choice, and is recorded in broken.                                      *)
(*                                                                         *)
(* Definitions named Fault... are wrong versions of the definition that    *)
(* follows them, there to show that the properties notice.                 *)
(***************************************************************************)
EXTENDS Integers

CONSTANTS
  Device,     \* PCI functions
  GroupOf,    \* their IOMMU groups
  DriverOf,   \* the kernel drivers they are bound to, "none" for none
  NoDevice

ASSUME NoDeviceAssumption == NoDevice \notin Device
ASSUME DomainAssumption == DOMAIN GroupOf = Device /\ DOMAIN DriverOf = Device

VARIABLES
  dev,      \* the device of the last call of propig_vfio_init
  at,       \* the step of that call
  rc,       \* "out" of a call, "running", or what the last call returned
  info,     \* the memory iommu_info points to; "twice" is freed once more
  files,    \* file descriptors in s: open, of the last call
  held,     \* those that the calls which have returned left open
  broken    \* devices that something failed for in this channel_load

setup == <<dev, at, rc, info, files, held, broken>>

File == {"container", "group", "device"}

Step == {"container", "check", "group", "status", "attach", "setIommu", "getInfo",
         "getAll", "getDevice", "describe", "bars", "readCommand", "writeCommand"}
Late == {"getDevice", "describe", "bars", "readCommand", "writeCommand"}

SetupInit ==
  /\ dev = NoDevice /\ at = "container" /\ rc = "out" /\ info = "null" /\ files = {}
  /\ held = [d \in Device |-> {}]
  /\ broken = {}

Neighbours(d) == {e \in Device : GroupOf[e] = GroupOf[d]}
GroupBusy(d) == \E e \in Neighbours(d) : held[e] \cap {"group", "device"} # {}
Viable(d) == \A e \in Neighbours(d) : DriverOf[e] \in {"vfio-pci", "none"}

(* What the kernel refuses without anything having gone wrong. *)
Refused ==
  \/ at = "group" /\ GroupBusy(dev)
  \/ at = "status" /\ ~ Viable(dev)
  \/ at = "getDevice" /\ DriverOf[dev] # "vfio-pci"

-----------------------------------------------------------------------------
(* A step that succeeds; one that opens a file stores the descriptor in s. *)
Succeed(step, next) ==
  /\ rc = "running" /\ at = step /\ ~ Refused
  /\ at' = next
  /\ UNCHANGED <<dev, rc, held, broken>>

Open(step, next, file) ==
  Succeed(step, next) /\ files' = files \cup {file} /\ UNCHANGED info
Ask(step, next) == Succeed(step, next) /\ UNCHANGED <<files, info>>

OpenContainer == Open("container", "check", "container")
CheckApi == Ask("check", "group")
OpenGroup == Open("group", "status", "group")
GroupStatus == Ask("status", "attach")
AttachGroup == Ask("attach", "setIommu")
SetIommu == Succeed("setIommu", "getInfo") /\ info' = "live" /\ UNCHANGED files

Freed == CASE info = "live"  -> "freed"
           [] info = "freed" -> "twice"
           [] OTHER          -> info

(* A kernel with more to say than the structure holds makes the code free  *)
(* it and ask again.  Then the ranges are copied and it is freed.          *)
ParseInfo(step) == Succeed(step, "getDevice") /\ info' = Freed /\ UNCHANGED files
GetInfo == Ask("getInfo", "getAll") \/ ParseInfo("getInfo")
GetAllInfo == ParseInfo("getAll")

GetDevice == Open("getDevice", "describe", "device")
Describe == Ask("describe", "bars")
InitBars == Ask("bars", "readCommand")
ReadCommand == Ask("readCommand", "writeCommand")
WriteCommand ==
  /\ rc = "running" /\ at = "writeCommand"
  /\ rc' = "ok"
  /\ held' = [held EXCEPT ![dev] = @ \cup files]
  /\ UNCHANGED <<dev, at, info, files, broken>>

(* Where a failed step goes: fail_container closes the container only,     *)
(* fail frees iommu_info and closes the group before.  Freed once more, it *)
(* ends the process where free() notices.                                  *)
FaultBeforeFail == {"check", "group", "status"}
BeforeFail == {"check", "group"}

Closed == CASE at = "container"    -> {}
            [] at \in BeforeFail   -> {"container"}
            [] OTHER               -> {"container", "group"}

Fail ==
  /\ rc = "running"
  /\ files' = files \ Closed
  /\ held' = [held EXCEPT ![dev] = @ \cup files']
  /\ info' = IF at \in BeforeFail \cup {"container"} THEN info ELSE Freed
  /\ broken' = IF Refused THEN broken ELSE broken \cup {dev}
  /\ rc' = "failed" \/ (info' = "twice" /\ rc' = "exited")
  /\ UNCHANGED <<dev, at>>

(* open_vfio_group ends the process for a device outside of any group. *)
Exit ==
  /\ rc = "running" /\ at = "group"
  /\ rc' = "exited"
  /\ UNCHANGED <<dev, at, info, files, held, broken>>

SetupStep ==
  \/ OpenContainer \/ CheckApi \/ OpenGroup \/ GroupStatus \/ AttachGroup \/ SetIommu
  \/ GetInfo \/ GetAllInfo \/ GetDevice \/ Describe \/ InitBars
  \/ ReadCommand \/ WriteCommand \/ Fail \/ Exit

-----------------------------------------------------------------------------
SetupTypeOK ==
  /\ dev \in Device \cup {NoDevice}
  /\ at \in Step
  /\ rc \in {"out", "running", "ok", "failed", "exited"}
  /\ rc # "out" => dev \in Device
  /\ info \in {"null", "live", "freed", "twice"}
  /\ files \subseteq File /\ held \in [Device -> SUBSET File]
  /\ broken \subseteq Device

(* Every failure leaves nothing of the container and the group open, and   *)
(* the IOMMU information is never lost.  It is not freed twice either,     *)
(* unless the failure comes after it was parsed (vfio-helper.c:207).       *)
FailureReleases ==
  rc = "failed" =>
    /\ files \cap {"container", "group"} = {}
    /\ info # "live"
    /\ info = "twice" => at \in Late

=============================================================================

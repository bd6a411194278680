--------------------------- MODULE NvmeController --------------------------
(***************************************************************************)
(* nvme_init of lib/nvme.c: it takes a controller in whatever state an     *)
(* earlier owner left it, resets and enables it, identifies it over the    *)
(* admin queue pair and asks it for one I/O queue pair.                    *)
(*                                                                         *)
(* The controller (external) follows CC.EN in its own time, if at all, and *)
(* answers admin commands as NvmeIo says, which NvmeQueuePair implements.  *)
(* wait_for_reset and wait_for_ready are cut between the read of CSTS.RDY  *)
(* and the comparison of the time with the deadline.                       *)
(*                                                                         *)
(* Definitions named Fault... are wrong versions of the definition that    *)
(* follows them, there to show that the properties notice.                 *)
(***************************************************************************)
EXTENDS Integers

CONSTANTS
  Status,    \* status fields of a completion; those that fail have a low byte
  Rc         \* values of rc an admin command may end with

ASSUME StatusAssumption == Status \subseteq {s \in Nat : s = 0 \/ s % 256 # 0}
ASSUME RcAssumption == "0" \in Rc /\ Rc \cap {"idle", "waiting"} = {}

Command == {"identifyCtrl", "identifyNs", "createCq", "createSq"}
Queue == {"admin", "cq", "sq"}

VARIABLES
  pc,         \* where nvme_init is; device, null and exited are its ends
  late,       \* the deadline of the wait loop has passed
  stale,      \* CSTS.RDY was read and did not have the awaited value
  qpCnt,      \* qp_cnt
  accepted,   \* queue identifiers nvme_submit_io accepted an I/O for
  enabled,    \* CC.EN
  ready,      \* CSTS.RDY
  queues,     \* who owns the memory of the queues the controller has
  phase, verdict, told   \* the admin commands, see NvmeIo

host == <<pc, late, stale, qpCnt, accepted>>
controller == <<enabled, ready, queues>>
commands == <<phase, verdict, told>>
vars == <<host, controller, commands>>

Admin == INSTANCE NvmeIo WITH Io <- Command

End == {"device", "null", "exited"}
Step == {"attach", "disable", "waitReset", "adminQueue", "program", "enable",
         "waitReady", "initIrq", "buffer", "ioQueue"} \cup Command \cup End

(* An earlier owner may have left the controller running with its queues.  *)
Init ==
  /\ pc = "attach" /\ late = FALSE /\ stale = FALSE
  /\ qpCnt = 0 /\ accepted = {}
  /\ enabled \in BOOLEAN /\ ready \in BOOLEAN
  /\ queues \in [Queue -> {"none", "other"}]
  /\ queues["sq"] = "other" => queues["cq"] = "other"
  /\ queues["cq"] = "other" => ready
  /\ ready => queues["admin"] = "other"
  /\ Admin!Init

-----------------------------------------------------------------------------
(* VFIO is set up, the registers are mapped, the command set is supported. *)
(* A device in no IOMMU group ends the process.                            *)
Attach ==
  /\ pc = "attach"
  /\ pc' \in {"disable", "null", "exited"}
  /\ UNCHANGED <<late, stale, qpCnt, accepted, controller, commands>>

(* CC.EN is written and the deadline of the following wait computed. *)
WriteEnable(at, value, wait) ==
  /\ pc = at
  /\ enabled' = value
  /\ pc' = wait
  /\ late' = FALSE
  /\ UNCHANGED <<stale, qpCnt, accepted, ready, queues, commands>>

Disable == WriteEnable("disable", FALSE, "waitReset")
Enable == WriteEnable("enable", TRUE, "waitReady")

AfterWait == [waitReset |-> "adminQueue", waitReady |-> "initIrq"]
Waiting == pc \in DOMAIN AfterWait

(* The condition of the while loop: CSTS.RDY is read. *)
ReadStatus ==
  /\ Waiting /\ ~ stale
  /\ LET settled == ready = (pc = "waitReady") IN
       /\ stale' = ~ settled
       /\ pc' = IF settled THEN AfterWait[pc] ELSE pc
  /\ UNCHANGED <<late, qpCnt, accepted, controller, commands>>

FaultExpired == FALSE
Expired == late

FaultAfterTimeout == AfterWait[pc]
AfterTimeout == "null"

(* Its body: the deadline is tested, without another look at CSTS.RDY. *)
CheckDeadline ==
  /\ Waiting /\ stale
  /\ stale' = FALSE
  /\ pc' = IF Expired THEN AfterTimeout ELSE pc
  /\ UNCHANGED <<late, qpCnt, accepted, controller, commands>>

Clock ==
  /\ Waiting /\ ~ late
  /\ late' = TRUE
  /\ UNCHANGED <<pc, stale, qpCnt, accepted, controller, commands>>

FaultCounted == qpCnt + 2
Counted == qpCnt + 1

(* nvme_create_queue_pair counts the queue pair only when all of it exists. *)
CreateQueuePair(at, next, failed) ==
  /\ pc = at
  /\ \/ pc' = next /\ qpCnt' = Counted
     \/ pc' \in failed /\ UNCHANGED qpCnt
  /\ UNCHANGED <<late, stale, accepted, controller, commands>>

(* A failure to map the doorbells returns NULL; FAIL_Z exits the process. *)
AdminQueuePair == CreateQueuePair("adminQueue", "program", {"null", "exited"})
IoQueuePair == CreateQueuePair("ioQueue", "createCq", {"device"})

(* AQA, ASQ and ACQ. *)
Program ==
  /\ pc = "program"
  /\ queues' = [queues EXCEPT !["admin"] = "mine"]
  /\ pc' = "enable"
  /\ UNCHANGED <<late, stale, qpCnt, accepted, enabled, ready, commands>>

(* The event file of the one interrupt, which may not be supported. *)
InitIrq ==
  /\ pc = "initIrq"
  /\ pc' \in {"buffer", "null"}
  /\ UNCHANGED <<late, stale, qpCnt, accepted, controller, commands>>

(* The buffer for the identify data is allocated and mapped. *)
IdentifyBuffer ==
  /\ pc = "buffer"
  /\ pc' \in {"identifyCtrl", "null"}
  /\ UNCHANGED <<late, stale, qpCnt, accepted, controller, commands>>

(* nvme_admin_cmd_sync submits; the admin pool always has a free request. *)
Issue(command) ==
  /\ pc = command
  /\ Admin!Submit(command)
  /\ UNCHANGED <<host, controller>>

(* Where a command that succeeded leads.  Identify may report too few      *)
(* namespaces, or a namespace with metadata.                               *)
OnSuccess(command) ==
  CASE command = "identifyCtrl" -> {"identifyNs", "null"}
    [] command = "identifyNs" -> {"ioQueue", "null"}
    [] command = "createCq" -> {"createSq"}
    [] command = "createSq" -> {"device"}

(* nvme_init goes on without the I/O queue pair it could not create. *)
FaultAfter(command, rc) == OnSuccess(command)
After(command, rc) ==
  IF rc = "0" THEN OnSuccess(command)
  ELSE IF command \in {"createCq", "createSq"} THEN {"device"} ELSE {"null"}

(* nvme_admin_cmd_sync has polled the completion. *)
Answered(command) ==
  /\ pc = command
  /\ \E rc \in Rc :
       /\ Admin!Deliver(command, rc)
       /\ pc' \in After(command, rc)
  /\ UNCHANGED <<late, stale, qpCnt, accepted, controller>>

(* nvme_submit_io accepts an I/O: its test of qpid. *)
SubmitIo(qpid) ==
  /\ pc = "device"
  /\ qpid # 0 /\ qpid < qpCnt
  /\ accepted' = accepted \cup {qpid}
  /\ UNCHANGED <<pc, late, stale, qpCnt, controller, commands>>

-----------------------------------------------------------------------------
(* The controller (external). *)

(* It notices CC.EN = 0, forgets the I/O queues and lowers CSTS.RDY. *)
Reset ==
  /\ ~ enabled /\ ready
  /\ ready' = FALSE
  /\ queues' = [queues EXCEPT !["cq"] = "none", !["sq"] = "none"]
  /\ UNCHANGED <<host, enabled, commands>>

BecomeReady ==
  /\ enabled /\ ~ ready
  /\ ready' = TRUE
  /\ UNCHANGED <<host, enabled, queues, commands>>

(* It executes an admin command; a submission queue needs its completion   *)
(* queue.                                                                  *)
Creates == [createCq |-> "cq", createSq |-> "sq"]

Execute(command, s) ==
  /\ enabled /\ ready /\ queues["admin"] = "mine"
  /\ command = "createSq" /\ s = 0 => queues["cq"] = "mine"
  /\ Admin!Execute(command, s)
  /\ queues' = IF s = 0 /\ command \in DOMAIN Creates
               THEN [queues EXCEPT ![Creates[command]] = "mine"]
               ELSE queues
  /\ UNCHANGED <<host, enabled, ready>>

-----------------------------------------------------------------------------
Library ==
  \/ Attach \/ Disable \/ Enable \/ ReadStatus \/ CheckDeadline
  \/ AdminQueuePair \/ IoQueuePair \/ Program \/ InitIrq \/ IdentifyBuffer
  \/ \E command \in Command : Issue(command) \/ Answered(command)

Answer == \E command \in Command, s \in Status : Execute(command, s)

Stopped ==
  /\ pc \in End
  /\ UNCHANGED vars

Next ==
  \/ Library \/ Clock \/ Reset \/ BecomeReady \/ Answer
  \/ \E qpid \in 0 .. 2 : SubmitIo(qpid)
  \/ Stopped

Spec == Init /\ [][Next]_vars

(* The thread runs, time passes, and a controller that accepted an admin   *)
(* command answers it.  Nothing obliges it to follow CC.EN.                *)
FairSpec == Spec /\ WF_vars(Library) /\ WF_vars(Clock) /\ WF_vars(Answer)

-----------------------------------------------------------------------------
(* What nvme_init, its admin commands and the controller's registers range *)
(* over; qp_cnt never exceeds the two queue pairs nvme_init creates.       *)
TypeOK ==
  /\ pc \in Step
  /\ late \in BOOLEAN /\ stale \in BOOLEAN
  /\ qpCnt \in 0 .. 2 /\ accepted \subseteq {1, 2}
  /\ enabled \in BOOLEAN /\ ready \in BOOLEAN
  /\ queues \in [Queue -> {"none", "other", "mine"}]
  /\ Admin!TypeOK

(* The admin queue registers (nvme.c:475-479) change only while the        *)
(* controller is off: CC.EN is 0 and the reset has been seen to be over.   *)
ProgrammedWhileOff ==
  [][queues'["admin"] # queues["admin"] => ~ enabled /\ ~ ready]_vars

(* Once nvme_init has enabled the controller on its own admin queue        *)
(* (nvme.c:484), no queue in the memory of an earlier owner is left.       *)
OnlyMyQueues ==
  enabled /\ queues["admin"] = "mine" =>
    \A q \in Queue : queues[q] # "other"

(* An admin command is in the queue only while the controller is ready,    *)
(* and one that creates the submission queue (nvme.c:411) only when the    *)
(* controller has its completion queue.                                    *)
CommandWhileReady ==
  \A command \in Command :
    told[command] = "waiting" =>
      /\ enabled /\ ready
      /\ command = "createSq" => queues["cq"] = "mine"

(* A device nvme_init returns (nvme.c:518) is ready and identified, and    *)
(* its I/O queues exist in the controller unless a command that creates    *)
(* one, or the memory for them, failed.                                    *)
DeviceUsable ==
  pc = "device" =>
    /\ enabled /\ ready
    /\ told["identifyCtrl"] = "0" /\ told["identifyNs"] = "0"
    /\ \/ qpCnt = 2 /\ queues["cq"] = "mine" /\ queues["sq"] = "mine"
       \/ qpCnt = 2 /\ \E c \in DOMAIN Creates : verdict[c] > 0
       \/ qpCnt = 1

(* nvme_init returns or exits even if the controller never follows CC.EN:  *)
(* the deadlines end both wait loops.                                      *)
InitReturns == <>(pc \in End)

(* nvme_submit_io accepts a qpid (nvme.c:550) only if the controller has   *)
(* the two queues of that pair.                                            *)
AcceptedHasQueue ==
  accepted # {} => queues["cq"] = "mine" /\ queues["sq"] = "mine"

=============================================================================

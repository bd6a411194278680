------------------------ MODULE NvmeControllerProofs -----------------------
(***************************************************************************)
(* What nvme_init guarantees of the controller it takes over, whatever     *)
(* state an earlier owner left it in and whatever statuses it answers.     *)
(***************************************************************************)
EXTENDS NvmeController, TLAPS

Off == ~ enabled /\ ~ ready
Running == {"initIrq", "buffer", "ioQueue", "device"} \cup Command

(* What each point of nvme_init knows of the registers: between the end of *)
(* the first wait and the write of CC.EN the controller is off, after the  *)
(* second wait it is ready.                                                *)
Registers ==
  /\ pc = "waitReset" => ~ enabled
  /\ pc \in {"adminQueue", "program", "enable"} => Off
  /\ pc = "waitReady" => enabled
  /\ pc \in Running => enabled /\ ready

(* A controller that is not ready has no I/O queue; one that has this      *)
(* process's admin queue has no queue of an earlier owner.                 *)
Owners ==
  /\ ~ ready => queues["cq"] = "none" /\ queues["sq"] = "none"
  /\ queues["admin"] = "mine" => queues["cq"] # "other" /\ queues["sq"] # "other"

(* At most the command nvme_init is waiting for is in the admin queue.  A  *)
(* completion queue exists from the execution of its command on.           *)
Commands ==
  /\ \A c \in Command :
       /\ phase[c] = "idle" <=> told[c] # "waiting"
       /\ phase[c] # "idle" => pc = c
  /\ phase["createCq"] = "executed" /\ verdict["createCq"] = 0 => queues["cq"] = "mine"
  /\ pc = "createSq" => queues["cq"] = "mine"

Types ==
  /\ pc \in Step
  /\ late \in BOOLEAN /\ stale \in BOOLEAN
  /\ enabled \in BOOLEAN /\ ready \in BOOLEAN
  /\ queues \in [Queue -> {"none", "other", "mine"}]
  /\ Admin!TypeOK

TakenOver == Types /\ Registers /\ Owners /\ Commands

(* Every state nvme_init may find the controller in satisfies TakenOver.   *)
LEMMA TakenOverInit == Init => TakenOver
<1> SUFFICES ASSUME Init PROVE TakenOver
  OBVIOUS
<1> USE DEF Init
<1>1. Types
  BY DEF Types, Step, Admin!Init, Admin!TypeOK, Admin!NoStatus
<1>2. Registers
  BY DEF Registers, Running, Command
<1>3. Owners
  BY DEF Owners, Queue
<1>4. Commands
  BY DEF Commands, Command, Admin!Init
<1> QED
  BY <1>1, <1>2, <1>3, <1>4 DEF TakenOver

(* No step of the library, of the clock or of the controller breaks it.    *)
LEMMA TakenOverStep == TakenOver /\ [Next]_vars => TakenOver'
<1> SUFFICES ASSUME TakenOver, [Next]_vars PROVE TakenOver'
  OBVIOUS
<1> USE DEF TakenOver, Types, Registers, Owners, Commands, Off, Running, Step,
        Command, Queue, End
<1>1. CASE Attach
  BY <1>1 DEF Attach, controller, commands, Admin!TypeOK
<1>2. CASE Disable
  BY <1>2 DEF Disable, WriteEnable, commands, Admin!TypeOK
<1>3. CASE Enable
  BY <1>3 DEF Enable, WriteEnable, commands, Admin!TypeOK
<1>4. CASE ReadStatus
  BY <1>4 DEF ReadStatus, Waiting, AfterWait, controller, commands, Admin!TypeOK
<1>5. CASE CheckDeadline
  BY <1>5 DEF CheckDeadline, Waiting, AfterWait, AfterTimeout, controller,
     commands, Admin!TypeOK
<1>6. CASE Clock
  BY <1>6 DEF Clock, controller, commands, Admin!TypeOK
<1>7. CASE AdminQueuePair
  BY <1>7 DEF AdminQueuePair, CreateQueuePair, controller, commands, Admin!TypeOK
<1>8. CASE IoQueuePair
  BY <1>8 DEF IoQueuePair, CreateQueuePair, controller, commands, Admin!TypeOK
<1>9. CASE Program
  BY <1>9 DEF Program, commands, Admin!TypeOK
<1>10. CASE InitIrq
  BY <1>10 DEF InitIrq, controller, commands, Admin!TypeOK
<1>18. CASE IdentifyBuffer
  BY <1>18 DEF IdentifyBuffer, controller, commands, Admin!TypeOK
<1>11. ASSUME NEW command \in Command, Issue(command)
       PROVE TakenOver'
  BY <1>11 DEF Issue, host, controller, Admin!Submit, Admin!TypeOK, Admin!NoStatus
<1>12. ASSUME NEW command \in Command, Answered(command)
       PROVE TakenOver'
  BY <1>12, RcAssumption DEF Answered, After, OnSuccess, controller,
     Admin!Deliver, Admin!TypeOK, Admin!Success
<1>13. CASE Reset
  BY <1>13 DEF Reset, host, commands, Admin!TypeOK
<1>14. CASE BecomeReady
  BY <1>14 DEF BecomeReady, host, commands, Admin!TypeOK
<1>15. ASSUME NEW command \in Command, NEW s \in Status, Execute(command, s)
       PROVE TakenOver'
  BY <1>15, StatusAssumption DEF Execute, Creates, host, Admin!Execute, Admin!TypeOK
<1>16. ASSUME NEW qpid \in 0 .. 2, SubmitIo(qpid)
       PROVE TakenOver'
  BY <1>16 DEF SubmitIo, controller, commands, Admin!TypeOK
<1>17. CASE UNCHANGED vars
  BY <1>17 DEF vars, host, controller, commands, Admin!TypeOK
<1> QED
  BY <1>1, <1>2, <1>3, <1>4, <1>5, <1>6, <1>7, <1>8, <1>9, <1>10, <1>11, <1>12,
     <1>13, <1>14, <1>15, <1>16, <1>17, <1>18
     DEF Next, Library, Answer, Stopped

(* TakenOver holds in every reachable state.                               *)
LEMMA TakenOverAlways == Spec => []TakenOver
BY TakenOverInit, TakenOverStep, PTL DEF Spec

(* Once enabled on this process's admin queue, the controller has no queue *)
(* in memory of an earlier owner, so it writes no completion there.        *)
THEOREM OnlyMine == Spec => []OnlyMyQueues
<1>1. TakenOver => OnlyMyQueues
  BY DEF TakenOver, Owners, OnlyMyQueues, Queue
<1> QED
  BY <1>1, TakenOverAlways, PTL

(* No admin command reaches a controller that is not ready, and no         *)
(* submission queue is asked for before its completion queue exists.       *)
THEOREM CommandsReachReady == Spec => []CommandWhileReady
<1>1. TakenOver => CommandWhileReady
  BY DEF TakenOver, Registers, Commands, Running, CommandWhileReady
<1> QED
  BY <1>1, TakenOverAlways, PTL

(* The addresses of the admin queues change only while the controller is   *)
(* off, however long it takes to notice CC.EN.                             *)
THEOREM ProgramsOff == Spec => ProgrammedWhileOff
<1>1. ASSUME TakenOver, [Next]_vars
      PROVE queues'["admin"] # queues["admin"] => ~ enabled /\ ~ ready
  <2> SUFFICES ASSUME queues'["admin"] # queues["admin"]
               PROVE Off
    BY DEF Off
  <2> USE DEF TakenOver, Types, Queue
  <2>1. CASE Program
    BY <1>1, <2>1 DEF Program, Registers
  <2>2. CASE Reset
    BY <1>1, <2>2 DEF Reset
  <2>3. ASSUME NEW command \in Command, NEW s \in Status, Execute(command, s)
        PROVE FALSE
    BY <1>1, <2>3 DEF Execute, Creates
  <2>4. QED
    BY <1>1, <2>1, <2>2, <2>3
       DEF Next, Library, Attach, Disable, Enable, WriteEnable, ReadStatus,
       CheckDeadline, Clock, AdminQueuePair, IoQueuePair, CreateQueuePair,
       InitIrq, IdentifyBuffer, Issue, Answered, BecomeReady, Answer, SubmitIo, Stopped, vars,
       controller
<1> QED
  BY <1>1, TakenOverAlways, PTL DEF Spec, ProgrammedWhileOff

-----------------------------------------------------------------------------
(* The queue pairs counted so far at each point of nvme_init.              *)
QueuePairs ==
  /\ qpCnt \in 0 .. 2 /\ accepted \subseteq {1, 2}
  /\ pc \in {"attach", "disable", "waitReset", "adminQueue"} => qpCnt = 0
  /\ pc \in {"program", "enable", "waitReady", "initIrq", "buffer", "identifyCtrl",
             "identifyNs", "ioQueue"} => qpCnt = 1
  /\ pc \in {"createCq", "createSq"} => qpCnt = 2
  /\ pc = "device" => qpCnt \in {1, 2}

(* What has been achieved at each point: nvme_init goes past an identify   *)
(* command only when it succeeded, and the queues of a device with two     *)
(* queue pairs exist or one of the commands that create them failed.       *)
Achieved ==
  /\ pc \in {"identifyNs", "ioQueue", "createCq", "createSq", "device"} =>
       told["identifyCtrl"] = "0"
  /\ pc \in {"ioQueue", "createCq", "createSq", "device"} => told["identifyNs"] = "0"
  /\ \A c \in Command : phase[c] = "executed" => verdict[c] \in Status
  /\ phase["createSq"] = "executed" /\ verdict["createSq"] = 0 => queues["sq"] = "mine"
  /\ pc = "device" /\ qpCnt = 2 =>
       \/ queues["cq"] = "mine" /\ queues["sq"] = "mine"
       \/ \E c \in DOMAIN Creates : verdict[c] > 0

LEMMA BuiltInit == Init => QueuePairs /\ Achieved
BY DEF Init, QueuePairs, Achieved, Admin!Init, Command

LEMMA BuiltStep ==
  TakenOver /\ QueuePairs /\ Achieved /\ [Next]_vars => QueuePairs' /\ Achieved'
<1> SUFFICES ASSUME TakenOver, QueuePairs, Achieved, [Next]_vars
             PROVE  QueuePairs' /\ Achieved'
  OBVIOUS
<1> USE DEF QueuePairs, Achieved, Command, Creates
<1>0. Types /\ Registers /\ Commands
  BY DEF TakenOver
<1>1. CASE \/ Attach \/ Disable \/ Enable \/ CheckDeadline \/ Clock
           \/ InitIrq \/ IdentifyBuffer \/ Program
  BY <1>0, <1>1 DEF Attach, Disable, Enable, WriteEnable, CheckDeadline, Waiting,
     AfterWait, AfterTimeout, Clock, InitIrq, IdentifyBuffer, Program, Types, Queue,
     controller, commands
<1>2. CASE ReadStatus
  BY <1>2 DEF ReadStatus, Waiting, AfterWait, controller, commands
<1>3. CASE AdminQueuePair
  BY <1>3 DEF AdminQueuePair, CreateQueuePair, Counted, controller, commands
<1>11. CASE IoQueuePair
  <2>1. /\ pc = "ioQueue" /\ qpCnt = 1
        /\ UNCHANGED <<accepted, queues, phase, verdict, told>>
        /\ \/ pc' = "createCq" /\ qpCnt' = 2
           \/ pc' = "device" /\ qpCnt' = 1
    BY <1>11 DEF IoQueuePair, CreateQueuePair, Counted, controller, commands
  <2>2. QueuePairs'
    BY <2>1
  <2>3. phase["createSq"] = "idle"
    BY <1>0, <2>1 DEF Commands, Types, Admin!TypeOK
  <2>4. Achieved'
    BY <2>1, <2>3
  <2> QED
    BY <2>2, <2>4
<1>4. ASSUME NEW command \in Command, Issue(command)
      PROVE  QueuePairs' /\ Achieved'
  BY <1>0, <1>4 DEF Issue, host, controller, Admin!Submit, Types, Admin!TypeOK
<1>5. ASSUME NEW command \in Command, Answered(command)
      PROVE  QueuePairs' /\ Achieved'
  <2>1. PICK rc \in Rc : Admin!Deliver(command, rc) /\ pc' \in After(command, rc)
    BY <1>5 DEF Answered
  <2>2. /\ pc = command /\ phase[command] = "executed"
        /\ phase' = [phase EXCEPT ![command] = "idle"]
        /\ told' = [told EXCEPT ![command] = rc]
        /\ (rc = "0") <=> (verdict[command] = 0)
        /\ UNCHANGED <<verdict, queues, qpCnt, accepted>>
    BY <1>5, <2>1 DEF Answered, Admin!Deliver, Admin!Success, controller
  <2>3. /\ told'[command] = rc
        /\ \A c \in Command : c # command => told'[c] = told[c]
        /\ \A c \in Command : phase'[c] = "executed" => phase[c] = "executed"
    BY <1>0, <2>2 DEF Types, Admin!TypeOK
  <2>4. rc # "0" => verdict[command] > 0
    <3>1. verdict[command] \in Status
      BY <2>2
    <3>2. verdict[command] \in Nat
      BY <3>1, StatusAssumption
    <3> QED
      BY <2>2, <3>2
  <2>5. phase["createSq"] # "idle" => pc = "createSq" /\ queues["cq"] = "mine"
    BY <1>0 DEF Commands
  <2> QED
    BY <2>1, <2>2, <2>3, <2>4, <2>5 DEF After, OnSuccess
<1>6. CASE Reset
  BY <1>0, <1>6 DEF Reset, Registers, Running, Commands, host, commands
<1>7. CASE BecomeReady
  BY <1>7 DEF BecomeReady, host, commands
<1>8. ASSUME NEW command \in Command, NEW s \in Status, Execute(command, s)
      PROVE  QueuePairs' /\ Achieved'
  BY <1>0, <1>8 DEF Execute, host, Admin!Execute, Types, Admin!TypeOK, Commands, Queue
<1>9. ASSUME NEW qpid \in 0 .. 2, SubmitIo(qpid)
      PROVE  QueuePairs' /\ Achieved'
  BY <1>9 DEF SubmitIo, controller, commands
<1>10. CASE UNCHANGED vars
  BY <1>10 DEF vars, host, controller, commands
<1> QED
  BY <1>1, <1>2, <1>3, <1>4, <1>5, <1>6, <1>7, <1>8, <1>9, <1>10, <1>11
     DEF Next, Library, Answer, Stopped

LEMMA BuiltAlways == Spec => [](TakenOver /\ QueuePairs /\ Achieved)
BY BuiltInit, BuiltStep, TakenOverAlways, PTL DEF Spec

(* Type correctness: qp_cnt never exceeds the two queue pairs a device has *)
(* room for, and an I/O is accepted for those only.                        *)
THEOREM TypeCorrect == Spec => []TypeOK
<1>1. TakenOver /\ QueuePairs /\ Achieved => TypeOK
  BY DEF TakenOver, Types, QueuePairs, TypeOK
<1> QED
  BY <1>1, BuiltAlways, PTL

(* A device that nvme_init returns is ready and identified, whatever the   *)
(* controller answered, and lacks I/O queues only if creating them failed. *)
THEOREM ReturnsUsable == Spec => []DeviceUsable
<1>1. TakenOver /\ QueuePairs /\ Achieved => DeviceUsable
  BY DEF TakenOver, Registers, Running, QueuePairs, Achieved, DeviceUsable
<1> QED
  BY <1>1, BuiltAlways, PTL

=============================================================================

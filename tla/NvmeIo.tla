------------------------------- MODULE NvmeIo -------------------------------
(***************************************************************************)
(* What an NVMe queue pair of libvfio promises to the application that     *)
(* calls nvme_submit_io and nvme_poll: each accepted I/O is executed once  *)
(* by the controller and then answered by exactly one callback, which      *)
(* reports success exactly when the controller did.                        *)
(***************************************************************************)

EXTENDS Integers

CONSTANTS
  Io,       \* the application's I/O handles (the opaque argument)
  Status,   \* status codes a controller may put in a completion
  Rc        \* values a callback may receive as its rc argument

VARIABLES
  phase,    \* phase[io]: where the last submission of io is
  verdict,  \* verdict[io]: the status the controller reported for it
  told      \* told[io]: what the application knows of it

vars == <<phase, verdict, told>>

Success == 0        \* NVME_SUCCESS
NoStatus == -1

TypeOK ==
  /\ phase \in [Io -> {"idle", "pending", "executed"}]
  /\ verdict \in [Io -> Status \cup {NoStatus}]
  /\ told \in [Io -> Rc \cup {"idle", "waiting"}]

Init ==
  /\ phase = [io \in Io |-> "idle"]
  /\ verdict = [io \in Io |-> NoStatus]
  /\ told = [io \in Io |-> "idle"]

(* The library accepts an I/O. *)
Submit(io) ==
  /\ phase[io] = "idle"
  /\ phase' = [phase EXCEPT ![io] = "pending"]
  /\ verdict' = [verdict EXCEPT ![io] = NoStatus]
  /\ told' = [told EXCEPT ![io] = "waiting"]

(* The controller carries it out, once, with some status. *)
Execute(io, s) ==
  /\ phase[io] = "pending"
  /\ phase' = [phase EXCEPT ![io] = "executed"]
  /\ verdict' = [verdict EXCEPT ![io] = s]
  /\ UNCHANGED told

(* The callback runs: rc is zero exactly for a command that succeeded. *)
Deliver(io, rc) ==
  /\ phase[io] = "executed"
  /\ (rc = "0") <=> (verdict[io] = Success)
  /\ phase' = [phase EXCEPT ![io] = "idle"]
  /\ told' = [told EXCEPT ![io] = rc]
  /\ UNCHANGED verdict

Next ==
  \E io \in Io :
    \/ Submit(io)
    \/ \E s \in Status : Execute(io, s)
    \/ \E rc \in Rc : Deliver(io, rc)

Spec == Init /\ [][Next]_vars

=============================================================================

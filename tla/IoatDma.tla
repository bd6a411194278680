------------------------------ MODULE IoatDma -------------------------------
(***************************************************************************)
(* What an I/OAT channel of libvfio promises to its caller: the copies and *)
(* fills it accepts are carried out in the order of their acceptance, and  *)
(* each is answered by one callback, in that order, after it was carried   *)
(* out.                                                                    *)
(***************************************************************************)
CONSTANT Req   \* the caller's requests (the callback argument)

VARIABLES
  waiting,     \* requests accepted whose caller has yet to be called back
  earlier,     \* <<r, s>> of them: r was accepted before s
  carriedOut   \* those that the engine has carried out

vars == <<waiting, earlier, carriedOut>>

Init == waiting = {} /\ earlier = {} /\ carriedOut = {}

(* The channel accepts a request: build_copy or build_fill returns 0. *)
Accept(r) ==
  /\ r \notin waiting
  /\ waiting' = waiting \cup {r}
  /\ earlier' = earlier \cup (waiting \X {r})
  /\ UNCHANGED carriedOut

(* The engine finishes the oldest request it has not carried out. *)
CarryOut(r) ==
  /\ r \in waiting \ carriedOut
  /\ \A s \in waiting \ carriedOut : <<s, r>> \notin earlier
  /\ carriedOut' = carriedOut \cup {r}
  /\ UNCHANGED <<waiting, earlier>>

(* The oldest request is answered, having been carried out. *)
Answer(r) ==
  /\ r \in carriedOut
  /\ \A s \in waiting : <<s, r>> \notin earlier
  /\ waiting' = waiting \ {r}
  /\ earlier' = earlier \ ({r} \X waiting)
  /\ carriedOut' = carriedOut \ {r}

Next == \E r \in Req : Accept(r) \/ CarryOut(r) \/ Answer(r)

Spec == Init /\ [][Next]_vars

=============================================================================

------------------------- MODULE IoatServiceProofs -------------------------
(***************************************************************************)
(* The channel implements IoatDma: whatever the ring size, the widths of   *)
(* the counters, the requests and their descriptors, and however calls,    *)
(* callbacks and the engine interleave, requests are carried out and       *)
(* answered once each, in the order of their acceptance.                   *)
(***************************************************************************)
EXTENDS IoatChannelProofs

(* The descriptors, by their counts. *)
Call(j) == cb[Index(j)]
Of(j) == hw[Index(j)].req

(* A callback that has begun has taken its descriptor off the queue. *)
Base(T) == IF InCallback THEN T + 1 ELSE T

(* O descriptors belong to calls that were accepted, the ones up to H to   *)
(* the call under construction, which has not set its callback.            *)
Taken(D, H, O) ==
  /\ D <= O /\ O <= H
  /\ pc = "prep" => origHead = O % CountMod /\ told[req] = "building"
  /\ pc # "prep" => O = H
  /\ \A j \in Int : O <= j /\ j < H => Of(j) = req /\ Call(j) = NoReq

(* The requests waiting are those with a callback between F and O, each    *)
(* with one; every descriptor there is of a request whose callback comes   *)
(* with it or after it.                                                    *)
Queued(F, O) ==
  /\ \A c \in Int : F <= c /\ c < O /\ Call(c) # NoReq =>
       told[Call(c)] \in Waiting /\ Of(c) = Call(c)
  /\ \A c, d \in Int : F <= c /\ c < d /\ d < O /\ Call(c) = Call(d) => Call(c) = NoReq
  /\ \A j \in Int : F <= j /\ j < O =>
       Of(j) # NoReq /\ \E c \in Int : j <= c /\ c < O /\ Call(c) = Of(j)
  /\ \A r \in Req : told[r] \in Waiting => \E c \in Int : F <= c /\ c < O /\ Call(c) = r

(* The counts of a state. *)
Point == [F : Int, T : Int, E : Int, D : Int, H : Int, L : Int, O : Int]

Whole(n) ==
  /\ At(n.T, n.E, n.D, n.H, n.L)
  /\ Taken(n.D, n.H, n.O)
  /\ n.F = Base(n.T) /\ Queued(n.F, n.O)

ServiceInv == TypeOK /\ \E n \in Point : Whole(n)

(* The state of IoatDma in terms of the counts. *)
Waits == {r \in Req : told[r] \in Waiting}
Pairs(F, O) ==
  {p \in Req \X Req :
     \E c, d \in Int : F <= c /\ c < d /\ d < O /\ Call(c) = p[1] /\ Call(d) = p[2]}
Carried == {r \in Req : told[r] \in Waiting /\ Finished(r)}
Out(E, O) == {r \in Waits : \A j \in Int : E <= j /\ j < O => Of(j) # r}

-----------------------------------------------------------------------------
LEMMA Fields ==
  ASSUME TypeOK, NEW j \in Int
  PROVE  /\ Index(j) \in Slot
         /\ Call(j) \in Req \cup {NoReq}
         /\ Of(j) \in Req \cup {NoReq}
BY IndexTyped DEF TypeOK, Call, Of

(* What was executed was not all retired when a callback runs. *)
LEMMA BaseBehind ==
  ASSUME NEW T \in Int, NEW E \in Int, NEW D \in Int, NEW H \in Int, NEW L \in Int,
         At(T, E, D, H, L)
  PROVE  /\ Base(T) \in Int /\ T <= Base(T) /\ Base(T) <= E
         /\ completed # NoSlot => T + 1 <= E
BY DEF At, Counts, Seen, Base, InCallback

(* Pairs, Out and what Queued says depend on the descriptors between F and *)
(* O and on who waits.                                                     *)
LEMMA SameQueue ==
  ASSUME TypeOK, NEW F \in Int, NEW E \in Int, NEW O \in Int, F <= E, Queued(F, O),
         \A j \in Int : F <= j /\ j < O => Call(j)' = Call(j) /\ Of(j)' = Of(j),
         \A r \in Req : told'[r] \in Waiting <=> told[r] \in Waiting
  PROVE  /\ Queued(F, O)'
         /\ UNCHANGED <<Waits, Pairs(F, O), Out(E, O)>>
<1>1. UNCHANGED Waits
  BY DEF Waits
<1>2. \A j \in Int : Call(j) \in Req \cup {NoReq}
  BY Fields
<1>3. Queued(F, O)'
  <2>1. \A c \in Int : F <= c /\ c < O /\ Call(c)' # NoReq =>
          told'[Call(c)'] \in Waiting /\ Of(c)' = Call(c)'
    BY <1>2 DEF Queued
  <2>2. \A c, d \in Int : F <= c /\ c < d /\ d < O /\ Call(c)' = Call(d)' => Call(c)' = NoReq
    BY DEF Queued
  <2>3. \A j \in Int : F <= j /\ j < O =>
          Of(j)' # NoReq /\ \E c \in Int : j <= c /\ c < O /\ Call(c)' = Of(j)'
    BY DEF Queued
  <2>4. \A r \in Req : told'[r] \in Waiting =>
          \E c \in Int : F <= c /\ c < O /\ Call(c)' = r
    BY DEF Queued
  <2> QED
    BY <2>1, <2>2, <2>3, <2>4 DEF Queued
<1>4. UNCHANGED Pairs(F, O)
  BY DEF Pairs
<1>5. UNCHANGED Out(E, O)
  BY <1>1 DEF Out
<1> QED
  BY <1>1, <1>3, <1>4, <1>5

-----------------------------------------------------------------------------
(* The refinement mapping, which counts modulo the widths, in terms of the *)
(* counts.                                                                 *)
LEMMA Measured ==
  ASSUME NEW T \in Int, NEW E \in Int, NEW D \in Int, NEW H \in Int, NEW O \in Int,
         Counts(T, E, D, H), Taken(D, H, O), Base(T) <= O
  PROVE  /\ (Accepted - First) % CountMod = O - Base(T)
         /\ (Accepted - executed) % DmaMod = O - E
         /\ \A k \in Int : Index(First + k) = Index(Base(T) + k)
         /\ \A k \in Int : Index(executed + k) = Index(E + k)
<1>1. Accepted = O % CountMod
  BY DEF Accepted, Taken, Counts
<1>2. /\ tail = T % CountMod /\ executed = E % DmaMod
      /\ O - Base(T) \in 0 .. CountMod - 1 /\ O - E \in 0 .. DmaMod - 1
      /\ Base(T) \in Int
  BY Widths DEF Counts, Taken, Base
<1>3. /\ CountMod \in Nat \ {0} /\ DmaMod \in Nat \ {0}
      /\ CountMod % CountMod = 0 /\ CountMod % DmaMod = 0 /\ DmaMod % DmaMod = 0
  BY Widths
<1>4. (Accepted - executed) % DmaMod = O - E
  <2>1. (Accepted - executed) % DmaMod = (O - E) % DmaMod
    <3>1. ((O % CountMod) - (E % DmaMod)) % DmaMod = (O - E) % DmaMod
      BY Distances
    <3> QED
      BY <1>1, <1>2, <3>1
  <2> QED
    BY <1>2, <1>3, <2>1, ModSmall
<1>5. (Accepted - First) % CountMod = O - Base(T)
  <2> DEFINE a == O % CountMod
             b == T % CountMod
  <2>1. PICK p \in Int : O = CountMod * p + a
    BY <1>3, Quotient
  <2>2. PICK q \in Int : T = CountMod * q + b
    BY <1>3, Quotient
  <2>3. a \in Int /\ b \in Int /\ Accepted = a /\ tail = b
    BY <1>1, <1>2, <1>3, Quotient
  <2> HIDE DEF a, b
  <2>4. Accepted = O - CountMod * p /\ tail = T - CountMod * q /\ Accepted \in Int
    BY <1>3, <2>1, <2>2, <2>3
  <2>5. First = Base(T) - CountMod * q /\ First \in Int
    BY <1>2, <1>3, <2>3, <2>4 DEF First, Base
  <2>6. Accepted - First = (O - Base(T)) + CountMod * (q - p)
    <3>1. CountMod * q - CountMod * p = CountMod * (q - p)
      BY <1>3
    <3>2. CountMod * q \in Int /\ CountMod * p \in Int
      BY <1>3
    <3> QED
      BY <1>2, <2>4, <2>5, <3>1, <3>2
  <2> DEFINE z == q - p
             u == O - Base(T)
             v == Accepted - First
  <2>7. z \in Int /\ u \in Int /\ v \in Int /\ v = u + CountMod * z
    BY <1>2, <2>4, <2>5, <2>6
  <2> HIDE DEF z, u, v
  <2>8. v % CountMod = u % CountMod
    BY <1>3, <2>7, ModShift
  <2> QED
    BY <1>2, <1>3, <2>8, ModSmall DEF u, v
<1>6. ASSUME NEW k \in Int PROVE Index(First + k) = Index(Base(T) + k)
  <2>1. tail \in Int
    BY <1>2, <1>3, Quotient
  <2>2. CASE InCallback
    <3>1. First + k = tail + (k + 1) /\ Base(T) + k = T + (k + 1)
      BY <2>1, <2>2 DEF First, Base
    <3> QED
      BY <3>1, Measures
  <2>3. CASE ~ InCallback
    <3>1. First = tail /\ Base(T) = T
      BY <2>3 DEF First, Base
    <3> QED
      BY <3>1, Measures
  <2> QED
    BY <2>2, <2>3
<1> QED
  BY <1>4, <1>5, <1>6, Measures

LEMMA LinkedCounts ==
  ASSUME TypeOK, NEW F \in Int, NEW T \in Int, NEW E \in Int, NEW D \in Int,
         NEW H \in Int, NEW O \in Int,
         Counts(T, E, D, H), Taken(D, H, O), F = Base(T), F <= O
  PROVE  InOrder = Pairs(F, O) /\ Carried = Out(E, O)
<1>1. F = Base(T) /\ F <= O /\ E <= O
  BY DEF Counts, Taken
<1>2. /\ (Accepted - First) % CountMod = O - F
      /\ (Accepted - executed) % DmaMod = O - E
      /\ \A k \in Int : Index(First + k) = Index(F + k)
      /\ \A k \in Int : Index(executed + k) = Index(E + k)
  BY <1>1, Measured
<1>3. Calls = {k \in 0 .. O - F - 1 : Call(F + k) # NoReq}
  BY <1>1, <1>2 DEF Calls, Caller, Call
<1>4. \A k \in Int : Caller(k) = Call(F + k)
  BY <1>2 DEF Caller, Call
<1>5. InOrder = Pairs(F, O)
  <2>1. ASSUME NEW p \in InOrder PROVE p \in Pairs(F, O)
    <3>1. PICK q \in Calls \X Calls : q[1] < q[2] /\ p = <<Caller(q[1]), Caller(q[2])>>
      BY DEF InOrder
    <3>2. /\ q[1] \in Int /\ q[2] \in Int /\ F <= F + q[1] /\ F + q[1] < F + q[2]
          /\ F + q[2] < O /\ Call(F + q[1]) # NoReq /\ Call(F + q[2]) # NoReq
      BY <1>1, <1>3, <3>1
    <3>3. Call(F + q[1]) \in Req /\ Call(F + q[2]) \in Req
      BY <3>2, <1>1, Fields
    <3>4. p \in Req \X Req /\ p[1] = Call(F + q[1]) /\ p[2] = Call(F + q[2])
      BY <1>4, <3>1, <3>2, <3>3
    <3> QED
      BY <1>1, <3>2, <3>4 DEF Pairs
  <2>2. ASSUME NEW p \in Pairs(F, O) PROVE p \in InOrder
    <3>1. PICK c, d \in Int : /\ F <= c /\ c < d /\ d < O
                              /\ Call(c) = p[1] /\ Call(d) = p[2]
      BY DEF Pairs
    <3>2. p \in Req \X Req
      BY DEF Pairs
    <3>3. F + (c - F) = c /\ F + (d - F) = d /\ c - F \in 0 .. O - F - 1 /\ d - F \in 0 .. O - F - 1
      BY <1>1, <3>1
    <3>4. c - F \in Calls /\ d - F \in Calls /\ Caller(c - F) = p[1] /\ Caller(d - F) = p[2]
      BY <1>3, <1>4, <3>1, <3>2, <3>3, NoReqAssumption
    <3>5. <<c - F, d - F>> \in {q \in Calls \X Calls : q[1] < q[2]}
      BY <1>1, <3>1, <3>4
    <3>6. p = <<Caller(<<c - F, d - F>>[1]), Caller(<<c - F, d - F>>[2])>>
      BY <3>2, <3>4
    <3> QED
      BY <3>5, <3>6 DEF InOrder
  <2> QED
    BY <2>1, <2>2
<1>6. ASSUME NEW r \in Req
      PROVE  Finished(r) <=> \A j \in Int : E <= j /\ j < O => Of(j) # r
  <2>1. ASSUME Finished(r), NEW j \in Int, E <= j, j < O PROVE Of(j) # r
    <3>1. j - E \in 0 .. (O - E) - 1 /\ E + (j - E) = j /\ j - E \in Int
      BY <2>1
    <3>2. Index(executed + (j - E)) = Index(j)
      BY <1>2, <3>1
    <3> QED
      BY <1>2, <2>1, <3>1, <3>2 DEF Finished, Of
  <2>2. ASSUME \A j \in Int : E <= j /\ j < O => Of(j) # r PROVE Finished(r)
    <3> SUFFICES ASSUME NEW k \in 0 .. (O - E) - 1 PROVE hw[Index(executed + k)].req # r
      BY <1>2 DEF Finished
    <3>1. E + k \in Int /\ E <= E + k /\ E + k < O /\ k \in Int
      OBVIOUS
    <3> QED
      BY <1>2, <2>2, <3>1 DEF Of
  <2> QED
    BY <2>1, <2>2
<1>7. Carried = Out(E, O)
  BY <1>6 DEF Out, Waits, Carried
<1> QED
  BY <1>5, <1>7

LEMMA Linked ==
  ASSUME TypeOK, NEW n \in Point, Whole(n)
  PROVE  InOrder = Pairs(n.F, n.O) /\ Carried = Out(n.E, n.O)
<1>1. /\ n.F \in Int /\ n.T \in Int /\ n.E \in Int /\ n.D \in Int /\ n.H \in Int
      /\ n.L \in Int /\ n.O \in Int
  BY DEF Point
<1>2. At(n.T, n.E, n.D, n.H, n.L) /\ Taken(n.D, n.H, n.O) /\ n.F = Base(n.T)
  BY DEF Whole
<1>3. Counts(n.T, n.E, n.D, n.H) /\ n.E <= n.O
  BY <1>1, <1>2 DEF At, Counts, Taken
<1>4. n.F <= n.E
  BY <1>1, <1>2, BaseBehind
<1> QED
  BY <1>1, <1>2, <1>3, <1>4, LinkedCounts

LinkedHere ==
  \A n \in Point : TypeOK /\ Whole(n) =>
    InOrder = Pairs(n.F, n.O) /\ Carried = Out(n.E, n.O)

LEMMA LinkedAlways == LinkedHere
BY Linked DEF LinkedHere

(* The same of the next state. *)
LEMMA LinkedNext ==
  ASSUME TypeOK', NEW n \in Point, Whole(n)'
  PROVE  InOrder' = Pairs(n.F, n.O)' /\ Carried' = Out(n.E, n.O)'
<1>1. LinkedHere'
  BY LinkedAlways, PTL
<1> QED
  BY <1>1 DEF LinkedHere

-----------------------------------------------------------------------------
(* Most steps leave the queue and who waits in it alone. *)
LEMMA SameStep ==
  ASSUME TypeOK, TypeOK', NEW n \in Point, NEW m \in Point, Whole(n),
         At(m.T, m.E, m.D, m.H, m.L)', Taken(m.D, m.H, m.O)', m.F = Base(m.T)',
         m.F = n.F, m.E = n.E, m.O = n.O,
         \A j \in Int : n.F <= j /\ j < n.O => Call(j)' = Call(j) /\ Of(j)' = Of(j),
         \A r \in Req : told'[r] \in Waiting <=> told[r] \in Waiting
  PROVE  Whole(m)' /\ UNCHANGED Service!vars
<1>0. n.F \in Int /\ n.T \in Int /\ n.E \in Int /\ n.D \in Int /\ n.H \in Int
      /\ n.L \in Int /\ n.O \in Int
  BY DEF Point
<1>1. n.F <= n.E
  BY <1>0, BaseBehind DEF Whole
<1>2. Queued(n.F, n.O)' /\ UNCHANGED <<Waits, Pairs(n.F, n.O), Out(n.E, n.O)>>
  BY <1>0, <1>1, SameQueue DEF Whole
<1>3. Whole(m)'
  BY <1>2 DEF Whole
<1>4. InOrder' = InOrder
  BY <1>2, <1>3, Linked, LinkedNext
<1>5. UNCHANGED Carried
  BY <1>2, <1>3, Linked, LinkedNext
<1>6. UNCHANGED {r \in Req : told[r] \in Waiting}
  BY <1>2 DEF Waits
<1> QED
  BY <1>3, <1>4, <1>5, <1>6 DEF Service!vars, Carried

LEMMA Parts ==
  ASSUME NEW n \in Point, Whole(n)
  PROVE  /\ n.F \in Int /\ n.T \in Int /\ n.E \in Int /\ n.D \in Int /\ n.H \in Int
         /\ n.L \in Int /\ n.O \in Int
         /\ At(n.T, n.E, n.D, n.H, n.L) /\ Counts(n.T, n.E, n.D, n.H)
         /\ Taken(n.D, n.H, n.O) /\ n.F = Base(n.T) /\ Queued(n.F, n.O)
         /\ n.T <= n.F /\ n.F <= n.E /\ n.E <= n.D /\ n.D <= n.O /\ n.O <= n.H
         /\ n.H < n.T + RingSize
         /\ pc = "walk" => completed # NoSlot
         /\ completed # NoSlot => n.T + 1 <= n.E
<1>1. /\ n.F \in Int /\ n.T \in Int /\ n.E \in Int /\ n.D \in Int /\ n.H \in Int
      /\ n.L \in Int /\ n.O \in Int
  BY DEF Point
<1>2. /\ At(n.T, n.E, n.D, n.H, n.L) /\ Counts(n.T, n.E, n.D, n.H)
      /\ Taken(n.D, n.H, n.O) /\ n.F = Base(n.T) /\ Queued(n.F, n.O)
      /\ pc = "walk" => completed # NoSlot
  BY DEF Whole, At, Seen
<1>3. n.T <= n.F /\ n.F <= n.E /\ (completed # NoSlot => n.T + 1 <= n.E)
  BY <1>1, <1>2, BaseBehind
<1> QED
  BY <1>1, <1>2, <1>3 DEF Counts, Taken

(* Preparing a descriptor writes a slot beyond those of accepted calls.    *)
LEMMA PrepServes ==
  ASSUME TypeOK, TypeOK', NEW n \in Point, Whole(n), Prep
  PROVE  \E m \in Point : Whole(m)' /\ UNCHANGED Service!vars
<1> DEFINE m == [n EXCEPT !.H = n.H + 1]
<1>1. m \in Point /\ m.F = n.F /\ m.T = n.T /\ m.E = n.E /\ m.D = n.D
      /\ m.H = n.H + 1 /\ m.L = n.L /\ m.O = n.O
  BY DEF Point
<1> HIDE DEF m
<1>2. /\ At(n.T, n.E, n.D, n.H + 1, n.L)'
      /\ \A j \in Int : n.T - 1 <= j /\ j < n.H => hw'[Index(j)] = hw[Index(j)]
  BY Parts, PrepKeeps
<1>3. /\ pc = "prep" /\ pc' = "prep" /\ n.D <= n.O /\ n.O <= n.H /\ n.T <= n.F
      /\ n.H \in Int /\ n.T \in Int /\ n.F \in Int /\ n.O \in Int /\ n.D \in Int
      /\ UNCHANGED <<origHead, req, completed, told>>
  BY Parts DEF Prep
<1>4. Index(head) = Index(n.H) /\ Index(n.H) \in Slot /\ n.H + 1 < n.T + RingSize
  <2>1. Index(head) = Index(n.H) /\ Index(n.H) \in Slot
    BY Parts, Measures, IndexTyped
  <2>2. RingSpace = RingSize - 1 - (n.H - n.T)
    <3>1. Counts(n.T, n.E, n.D, n.H) /\ n.T \in Int /\ n.E \in Int /\ n.D \in Int /\ n.H \in Int
      BY Parts
    <3> QED
      BY <3>1, Measures
  <2> QED
    BY <1>3, <2>1, <2>2, Widths DEF Prep
<1>5. /\ hw' = [hw EXCEPT ![Index(n.H)] = [req |-> req, update |-> FALSE]]
      /\ cb' = [cb EXCEPT ![Index(n.H)] = NoReq]
  BY <1>4 DEF Prep
<1>6. ASSUME NEW j \in Int, n.T <= j, j < n.H
      PROVE  Call(j)' = Call(j) /\ Of(j)' = Of(j)
  <2>1. Index(j) # Index(n.H) /\ Index(j) \in Slot
    BY <1>3, <1>4, <1>6, IndexWindow, IndexTyped, Widths
  <2> QED
    BY <1>5, <2>1 DEF Call, Of, TypeOK
<1>7. Call(n.H)' = NoReq /\ Of(n.H)' = req
  BY <1>4, <1>5 DEF Call, Of, TypeOK
<1>8. Taken(n.D, n.H + 1, n.O)'
  <2>1. ASSUME NEW j \in Int, n.O <= j, j < n.H + 1 PROVE Of(j)' = req' /\ Call(j)' = NoReq
    <3>1. CASE j = n.H
      BY <1>3, <1>7, <3>1
    <3>2. CASE j < n.H
      <4>1. n.T <= j
        BY <2>1, Parts
      <4>2. Of(j) = req /\ Call(j) = NoReq
        BY <2>1, <3>2, Parts DEF Taken
      <4> QED
        BY <1>3, <1>6, <3>2, <4>1, <4>2
    <3> QED
      BY <1>3, <2>1, <3>1, <3>2
  <2>2. origHead = n.O % CountMod /\ told[req] = "building"
    BY <1>3, Parts DEF Taken
  <2> QED
    BY <1>3, <2>1, <2>2 DEF Taken
<1>9. n.F = Base(n.T)'
  BY <1>3, Parts DEF Base, InCallback
<1>10. \A j \in Int : n.F <= j /\ j < n.O => Call(j)' = Call(j) /\ Of(j)' = Of(j)
  BY <1>3, <1>6
<1> QED
  BY <1>1, <1>2, <1>3, <1>8, <1>9, <1>10, SameStep

(* A refused call gives its descriptors back; it never waited.             *)
LEMMA RefuseServes ==
  ASSUME TypeOK, TypeOK', NEW n \in Point, Whole(n), Refuse
  PROVE  \E m \in Point : Whole(m)' /\ UNCHANGED Service!vars
<1>1. PICK o \in Int : At(n.T, n.E, n.D, o, n.L)'
  BY Parts, RefuseKeeps
<1>2. o = n.O
  <2>1. head' = o % CountMod /\ n.D <= o /\ o < n.T + RingSize
    BY <1>1, Parts DEF At, Counts, Refuse
  <2>2. head' = n.O % CountMod /\ n.D <= n.O /\ n.O < n.T + RingSize /\ n.T <= n.D
    BY Parts, Widths DEF Refuse, Taken
  <2>3. o - n.O < CountMod /\ n.O - o < CountMod
    BY <2>1, <2>2, Parts, Widths
  <2>4. o % CountMod = n.O % CountMod /\ n.O \in Int /\ CountMod \in Nat \ {0}
    BY <2>1, <2>2, Parts, Widths
  <2> QED
    BY <2>3, <2>4, ModWindow
<1> DEFINE m == [n EXCEPT !.H = n.O]
<1>3. m \in Point /\ m.F = n.F /\ m.T = n.T /\ m.E = n.E /\ m.D = n.D
      /\ m.H = n.O /\ m.L = n.L /\ m.O = n.O
  BY DEF Point
<1> HIDE DEF m
<1>4. /\ pc = "prep" /\ pc' = "app" /\ told' = [told EXCEPT ![req] = "refused"]
      /\ UNCHANGED <<cb, hw, completed, origHead, req>> /\ n.D <= n.O /\ n.O \in Int
  BY Parts DEF Refuse, build
<1>5. \A r \in Req : told'[r] \in Waiting <=> told[r] \in Waiting
  BY <1>4, Parts DEF Taken, TypeOK, Waiting
<1>6. Taken(n.D, n.O, n.O)'
  BY <1>4 DEF Taken
<1>7. n.F = Base(n.T)'
  BY <1>4, Parts DEF Base, InCallback
<1>8. \A j \in Int : Call(j)' = Call(j) /\ Of(j)' = Of(j)
  BY <1>4 DEF Call, Of
<1> QED
  BY <1>1, <1>2, <1>3, <1>5, <1>6, <1>7, <1>8, SameStep

(* flush marks a descriptor and announces those prepared.                  *)
LEMMA FlushServes ==
  ASSUME TypeOK, TypeOK', NEW n \in Point, Whole(n), FlushMark \/ FlushRing
  PROVE  \E m \in Point : Whole(m)' /\ UNCHANGED Service!vars
<1>1. n.O = n.H /\ pc \notin {"prep", "walk"} /\ pc' \notin {"prep", "walk"}
  BY Parts DEF Taken, FlushMark, FlushRing
<1>2. UNCHANGED <<cb, completed>>
  BY DEF FlushMark, FlushRing, driver
<1>3. n.F = Base(n.T)'
  BY <1>1, <1>2, Parts DEF Base, InCallback
<1>4. \A j \in Int : Call(j)' = Call(j) /\ Of(j)' = Of(j)
  <2>1. \A j \in Int : Of(j)' = Of(j)
    BY IndexTyped DEF FlushMark, FlushRing, Of, TypeOK
  <2> QED
    BY <1>2, <2>1 DEF Call
<1>5. \A r \in Req : told'[r] \in Waiting <=> told[r] \in Waiting
  BY DEF FlushMark, FlushRing, TypeOK, Waiting
<1>6. Taken(n.D, n.H, n.O)' /\ Taken(n.H, n.H, n.O)'
  BY <1>1, Parts DEF Taken
<1>7. CASE FlushMark
  <2>1. At(n.T, n.E, n.D, n.H, n.L)'
    BY <1>7, Parts, FlushMarkKeeps
  <2> QED
    BY <1>3, <1>4, <1>5, <1>6, <2>1, SameStep
<1>8. CASE FlushRing
  <2> DEFINE m == [n EXCEPT !.D = n.H]
  <2>1. m \in Point /\ m.F = n.F /\ m.T = n.T /\ m.E = n.E /\ m.D = n.H
        /\ m.H = n.H /\ m.L = n.L /\ m.O = n.O
    BY DEF Point
  <2> HIDE DEF m
  <2>2. At(n.T, n.E, n.H, n.H, n.L)'
    BY <1>8, Parts, FlushRingKeeps
  <2> QED
    BY <1>3, <1>4, <1>5, <1>6, <2>1, <2>2, SameStep
<1> QED
  BY <1>7, <1>8

(* A call begins and takes nothing yet; flush begins; the engine halts.    *)
LEMMA StillServes ==
  ASSUME TypeOK, TypeOK', NEW n \in Point, Whole(n),
         \/ \E r \in Req, andFlush \in BOOLEAN :
              \E k \in CopyParts \cup FillParts : BuildBegin(r, k, andFlush)
         \/ FlushBegin \/ EngineHalt \/ UNCHANGED vars
  PROVE  \E m \in Point : Whole(m)' /\ UNCHANGED Service!vars
<1> USE DEF driver, build, engine, vars
<1>1. At(n.T, n.E, n.D, n.H, n.L)'
  BY Parts, StillKeeps DEF Still
<1>2. UNCHANGED <<cb, hw, completed>> /\ (pc' = "walk" <=> pc = "walk")
  BY DEF BuildBegin, FlushBegin, EngineHalt
<1>3. n.F = Base(n.T)'
  BY <1>2, Parts DEF Base, InCallback
<1>4. \A j \in Int : Call(j)' = Call(j) /\ Of(j)' = Of(j)
  BY <1>2 DEF Call, Of
<1>5. \A r \in Req : told'[r] \in Waiting <=> told[r] \in Waiting
  BY DEF BuildBegin, FlushBegin, EngineHalt, TypeOK, Waiting
<1>6. Taken(n.D, n.H, n.O)'
  <2>1. CASE \E r \in Req, andFlush \in BOOLEAN :
               \E k \in CopyParts \cup FillParts : BuildBegin(r, k, andFlush)
    <3>1. pc = "app" /\ pc' = "prep" /\ origHead' = head /\ told'[req'] = "building"
      BY <2>1 DEF BuildBegin, TypeOK
    <3>2. n.O = n.H /\ head = n.H % CountMod
      BY <3>1, Parts DEF Taken, Counts
    <3> QED
      BY <3>1, <3>2, Parts DEF Taken
  <2>2. CASE FlushBegin
    BY <1>4, <2>2, Parts DEF FlushBegin, Taken
  <2>3. CASE EngineHalt \/ UNCHANGED vars
    <3>1. UNCHANGED <<pc, req, origHead, told>>
      BY <2>3 DEF EngineHalt
    <3> QED
      BY <1>4, <3>1, Parts DEF Taken
  <2> QED
    BY <2>1, <2>2, <2>3
<1> QED
  BY <1>1, <1>3, <1>4, <1>5, <1>6, SameStep

(* A walk begins with the descriptor at the tail still queued.             *)
LEMMA PollServes ==
  ASSUME TypeOK, TypeOK', NEW n \in Point, Whole(n), PollBegin
  PROVE  \E m \in Point : Whole(m)' /\ UNCHANGED Service!vars
<1>1. At(n.T, n.E, n.D, n.H, n.L)'
  BY Parts, PollBeginKeeps
<1>2. /\ pc = "app" /\ pc' = "walk" /\ completed = NoSlot
      /\ UNCHANGED <<cb, hw, told>>
  BY DEF PollBegin, driver
<1>3. n.F = Base(n.T)'
  BY <1>2, Parts DEF Base, InCallback
<1>4. \A j \in Int : Call(j)' = Call(j) /\ Of(j)' = Of(j)
  BY <1>2 DEF Call, Of
<1>5. Taken(n.D, n.H, n.O)'
  BY <1>2, <1>4, Parts DEF Taken
<1> QED
  BY <1>1, <1>2, <1>3, <1>4, <1>5, SameStep

(* The callback that returns had been taken off the queue before.          *)
LEMMA ReturnServes ==
  ASSUME TypeOK, TypeOK', NEW n \in Point, Whole(n), CallbackReturn
  PROVE  \E m \in Point : Whole(m)' /\ UNCHANGED Service!vars
<1> DEFINE m == [n EXCEPT !.T = n.T + 1]
<1>1. m \in Point /\ m.F = n.F /\ m.T = n.T + 1 /\ m.E = n.E /\ m.D = n.D
      /\ m.H = n.H /\ m.L = n.L /\ m.O = n.O
  BY DEF Point
<1> HIDE DEF m
<1>2. /\ Retire /\ pc = "app" /\ completed # NoSlot
      /\ UNCHANGED <<head, cb, hw, dmacount, engine, told>>
  BY DEF CallbackReturn
<1>3. At(n.T + 1, n.E, n.D, n.H, n.L)'
  BY <1>2, Parts, RetireKeeps
<1>4. (completed' = NoSlot /\ pc' = "app") \/ pc' = "walk"
  BY <1>2 DEF Retire
<1>5. n.F = n.T + 1 /\ Base(n.T + 1)' = n.T + 1
  BY <1>2, <1>4, Parts DEF Base, InCallback
<1>6. \A j \in Int : Call(j)' = Call(j) /\ Of(j)' = Of(j)
  BY <1>2 DEF Call, Of
<1>7. Taken(n.D, n.H, n.O)'
  BY <1>2, <1>4, <1>6, Parts DEF Taken
<1> QED
  BY <1>1, <1>2, <1>3, <1>5, <1>6, <1>7, SameStep

(* A descriptor without a callback is retired.                             *)
LEMMA SkipServes ==
  ASSUME TypeOK, TypeOK', NEW n \in Point, Whole(n), WalkSkip
  PROVE  \E m \in Point : Whole(m)' /\ UNCHANGED Service!vars
<1> DEFINE m == [F |-> n.T + 1, T |-> n.T + 1, E |-> n.E, D |-> n.D, H |-> n.H,
                 L |-> n.L, O |-> n.O]
<1>1. m \in Point /\ m.F = n.T + 1 /\ m.T = n.T + 1 /\ m.E = n.E /\ m.D = n.D
      /\ m.H = n.H /\ m.L = n.L /\ m.O = n.O
  BY Parts DEF Point
<1> HIDE DEF m
<1>2. /\ Retire /\ pc = "walk" /\ completed # NoSlot /\ cb[Index(tail)] = NoReq
      /\ UNCHANGED <<head, cb, hw, dmacount, engine, told>>
  BY Parts DEF WalkSkip
<1>3. At(n.T + 1, n.E, n.D, n.H, n.L)'
  BY <1>2, Parts, RetireKeeps
<1>4. (completed' = NoSlot /\ pc' = "app") \/ pc' = "walk"
  BY <1>2 DEF Retire
<1>5. n.F = n.T /\ Base(n.T + 1)' = n.T + 1
  BY <1>2, <1>4, Parts DEF Base, InCallback
<1>6. \A j \in Int : Call(j)' = Call(j) /\ Of(j)' = Of(j)
  BY <1>2 DEF Call, Of
<1>7. Taken(n.D, n.H, n.O)'
  BY <1>2, <1>4, <1>6, Parts DEF Taken
<1>8. Call(n.F) = NoReq
  BY <1>2, <1>5, Parts, Measures DEF Call
<1>9. Queued(n.F + 1, n.O)' /\ Pairs(n.F + 1, n.O)' = Pairs(n.F, n.O)
  <2>1. n.F \in Int /\ n.O \in Int /\ Queued(n.F, n.O)
    BY Parts
  <2>2. Queued(n.F + 1, n.O)
    BY <1>8, <2>1, NoReqAssumption DEF Queued
  <2>3. Queued(n.F + 1, n.O)'
    BY <1>2, <1>6, <2>2 DEF Queued
  <2>4. Pairs(n.F + 1, n.O)' = Pairs(n.F, n.O)
    BY <1>6, <1>8, <2>1, NoReqAssumption DEF Pairs
  <2> QED
    BY <2>3, <2>4
<1>10. Whole(m)'
  BY <1>1, <1>3, <1>5, <1>7, <1>9 DEF Whole
<1>11. UNCHANGED <<Waits, Out(n.E, n.O)>>
  BY <1>2, <1>6 DEF Waits, Out
<1>12. InOrder' = InOrder /\ Carried' = Carried
  BY <1>1, <1>5, <1>9, <1>10, <1>11, Linked, LinkedNext
<1> QED
  BY <1>1, <1>10, <1>11, <1>12 DEF Service!vars, Carried, Waits

(* The callback that begins belongs to the oldest request, which the engine *)
(* has finished.                                                           *)
LEMMA CallServes ==
  ASSUME TypeOK, TypeOK', NEW n \in Point, Whole(n), WalkCallback
  PROVE  Service!Next /\ \E m \in Point : Whole(m)'
<1> DEFINE m == [F |-> n.F + 1, T |-> n.T, E |-> n.E, D |-> n.D, H |-> n.H,
                 L |-> n.L, O |-> n.O]
           r == Call(n.F)
<1>1. m \in Point /\ m.F = n.F + 1 /\ m.T = n.T /\ m.E = n.E /\ m.D = n.D
      /\ m.H = n.H /\ m.L = n.L /\ m.O = n.O
  BY Parts DEF Point
<1> HIDE DEF m
<1>2. /\ pc = "walk" /\ pc' = "app" /\ completed # NoSlot
      /\ cb[Index(tail)] # NoReq /\ told' = [told EXCEPT ![cb[Index(tail)]] = "done"]
      /\ UNCHANGED <<cb, hw, completed>>
  BY Parts DEF WalkCallback, driver
<1>3. At(n.T, n.E, n.D, n.H, n.L)'
  BY Parts, StillKeeps DEF Still
<1>4. /\ n.F = n.T /\ n.F + 1 = Base(n.T)' /\ n.F < n.E /\ n.E <= n.O
      /\ n.F \in Int /\ n.E \in Int /\ n.O \in Int /\ Queued(n.F, n.O)
  BY <1>2, Parts DEF Base, InCallback
<1>5. r # NoReq /\ r \in Req /\ told' = [told EXCEPT ![r] = "done"]
  <2>1. Index(tail) = Index(n.F)
    BY <1>4, Parts, Measures
  <2>2. Call(n.F) \in Req \cup {NoReq}
    BY <1>4, Fields
  <2> QED
    BY <1>2, <2>1, <2>2 DEF Call
<1> HIDE DEF r
<1>6. \A j \in Int : Call(j)' = Call(j) /\ Of(j)' = Of(j)
  BY <1>2 DEF Call, Of
<1>7. Taken(n.D, n.H, n.O)'
  BY <1>2, <1>6, Parts DEF Taken
<1>8. /\ told[r] \in Waiting
      /\ \A c \in Int : n.F < c /\ c < n.O => Call(c) # r
  BY <1>4, <1>5 DEF Queued, r
<1>9. \A j \in Int : n.F < j /\ j < n.O => Of(j) # r
  BY <1>4, <1>8 DEF Queued
<1>10. /\ told'[r] \notin Waiting
       /\ \A s \in Req : s # r => told'[s] = told[s]
  BY <1>5 DEF TypeOK, Waiting
<1>11. Queued(n.F + 1, n.O)'
  <2>1. \A c \in Int : Call(c) \in Req \cup {NoReq}
    BY Fields
  <2>2. \A c \in Int : n.F + 1 <= c /\ c < n.O /\ Call(c)' # NoReq =>
          told'[Call(c)'] \in Waiting /\ Of(c)' = Call(c)'
    BY <1>4, <1>6, <1>8, <1>10, <2>1 DEF Queued
  <2>3. \A c, d \in Int :
          n.F + 1 <= c /\ c < d /\ d < n.O /\ Call(c)' = Call(d)' => Call(c)' = NoReq
    BY <1>4, <1>6 DEF Queued
  <2>4. \A j \in Int : n.F + 1 <= j /\ j < n.O =>
          Of(j)' # NoReq /\ \E c \in Int : j <= c /\ c < n.O /\ Call(c)' = Of(j)'
    BY <1>4, <1>6 DEF Queued
  <2>5. ASSUME NEW s \in Req, told'[s] \in Waiting
        PROVE  \E c \in Int : n.F + 1 <= c /\ c < n.O /\ Call(c)' = s
    <3>1. s # r /\ told[s] \in Waiting
      BY <1>10, <2>5
    <3>2. PICK c \in Int : n.F <= c /\ c < n.O /\ Call(c) = s
      BY <1>4, <3>1 DEF Queued
    <3>3. c # n.F
      BY <3>1, <3>2 DEF r
    <3> QED
      BY <1>4, <1>6, <3>2, <3>3
  <2> QED
    BY <2>2, <2>3, <2>4, <2>5 DEF Queued
<1>12. Whole(m)'
  BY <1>1, <1>3, <1>4, <1>7, <1>11 DEF Whole
<1>13. Waits' = Waits \ {r}
  BY <1>5, <1>10 DEF Waits
<1>14. Pairs(n.F + 1, n.O)' = Pairs(n.F, n.O) \ ({r} \X Waits)
  <2>1. ASSUME NEW p \in Req \X Req, NEW c \in Int, NEW d \in Int,
               n.F + 1 <= c, c < d, d < n.O, Call(c) = p[1], Call(d) = p[2]
        PROVE  p \in Pairs(n.F, n.O) \ ({r} \X Waits)
    BY <1>4, <1>8, <2>1 DEF Pairs
  <2>2. ASSUME NEW p \in Req \X Req, NEW c \in Int, NEW d \in Int,
               n.F <= c, c < d, d < n.O, Call(c) = p[1], Call(d) = p[2],
               p \notin {r} \X Waits
        PROVE  p \in Pairs(n.F + 1, n.O)'
    <3>1. p[2] \in Req /\ p[2] # NoReq /\ p = <<p[1], p[2]>>
      BY NoReqAssumption
    <3>2. p[2] \in Waits
      BY <1>4, <2>2, <3>1 DEF Queued, Waits
    <3>3. c # n.F
      BY <2>2, <3>1, <3>2 DEF r
    <3> QED
      BY <1>4, <1>6, <2>2, <3>3 DEF Pairs
  <2>3. \A p \in Pairs(n.F + 1, n.O)' : p \in Pairs(n.F, n.O) \ ({r} \X Waits)
    BY <1>6, <2>1 DEF Pairs
  <2>4. \A p \in Pairs(n.F, n.O) \ ({r} \X Waits) : p \in Pairs(n.F + 1, n.O)'
    BY <2>2 DEF Pairs
  <2> QED
    BY <2>3, <2>4
<1>15. Out(n.E, n.O)' = Out(n.E, n.O) \ {r} /\ r \in Out(n.E, n.O)
  BY <1>4, <1>5, <1>6, <1>8, <1>9, <1>13 DEF Out, Waits
<1>16. \A s \in Waits : <<s, r>> \notin Pairs(n.F, n.O)
  <2> SUFFICES ASSUME NEW s \in Waits, NEW c \in Int, NEW d \in Int, n.F <= c, c < d,
                      d < n.O, Call(c) = <<s, r>>[1], Call(d) = <<s, r>>[2]
               PROVE  FALSE
    BY DEF Pairs
  <2> QED
    BY <1>4, <1>8
<1>17. /\ InOrder = Pairs(n.F, n.O) /\ Carried = Out(n.E, n.O)
       /\ InOrder' = Pairs(n.F + 1, n.O)' /\ Carried' = Out(n.E, n.O)'
  BY <1>1, <1>12, Linked, LinkedNext
<1>18. /\ r \in Carried /\ \A s \in Waits : <<s, r>> \notin InOrder
       /\ Waits' = Waits \ {r} /\ InOrder' = InOrder \ ({r} \X Waits)
       /\ Carried' = Carried \ {r}
  BY <1>13, <1>14, <1>15, <1>16, <1>17
<1>19. PICK q \in Req : q = r
  BY <1>5
<1>20. Service!Answer(q)
  BY <1>18, <1>19 DEF Service!Answer, Waits, Carried
<1>21. Service!Next
  BY <1>20 DEF Service!Next
<1> QED
  BY <1>1, <1>12, <1>21

(* A call that ends sets its callback and is accepted, after all others.   *)
LEMMA BuildEndServes ==
  ASSUME TypeOK, TypeOK', NEW n \in Point, Whole(n), BuildEnd
  PROVE  Service!Next /\ \E m \in Point : Whole(m)'
<1> DEFINE m == [n EXCEPT !.O = n.H]
<1>1. m \in Point /\ m.F = n.F /\ m.T = n.T /\ m.E = n.E /\ m.D = n.D
      /\ m.H = n.H /\ m.L = n.L /\ m.O = n.H
  BY DEF Point
<1> HIDE DEF m
<1>2. /\ pc = "prep" /\ pc' \notin {"prep", "walk"} /\ head # origHead
      /\ cb' = [cb EXCEPT ![CallbackSlot] = req] /\ told' = [told EXCEPT ![req] = "built"]
      /\ UNCHANGED <<hw, completed>>
  BY DEF BuildEnd
<1>3. At(n.T, n.E, n.D, n.H, n.L)'
  BY Parts, StillKeeps DEF Still
<1>4. /\ n.T <= n.F /\ n.F <= n.E /\ n.E <= n.O /\ n.D <= n.O /\ n.O < n.H
      /\ n.H < n.T + RingSize /\ n.T \in Int
      /\ n.F \in Int /\ n.E \in Int /\ n.O \in Int /\ n.H \in Int /\ Queued(n.F, n.O)
  <2>1. n.O # n.H
    BY <1>2, Parts DEF Taken, Counts
  <2>2. /\ n.T <= n.F /\ n.F <= n.E /\ n.E <= n.D /\ n.D <= n.O /\ n.O <= n.H
        /\ n.H < n.T + RingSize /\ n.T \in Int /\ n.D \in Int
        /\ n.F \in Int /\ n.E \in Int /\ n.O \in Int /\ n.H \in Int /\ Queued(n.F, n.O)
    BY Parts
  <2> QED
    BY <2>1, <2>2
<1>5. n.F = Base(n.T)'
  BY <1>2, Parts DEF Base, InCallback
<1>6. /\ req \in Req /\ req # NoReq /\ told[req] \notin Waiting /\ told'[req] \in Waiting
      /\ \A s \in Req : s # req => told'[s] = told[s]
      /\ \A j \in Int : n.O <= j /\ j < n.H => Of(j) = req /\ Call(j) = NoReq
  BY <1>2, Parts, NoReqAssumption DEF TypeOK, Waiting, Taken
<1>7. \A j \in Int : Of(j)' = Of(j)
  BY <1>2 DEF Of
<1>8. /\ Call(n.H - 1)' = req /\ n.H - 1 \in Int
      /\ \A j \in Int : n.F <= j /\ j < n.H - 1 => Call(j)' = Call(j)
  <2>1. cb' = [cb EXCEPT ![Index(n.H - 1)] = req]
    <3>1. Counts(n.T, n.E, n.D, n.H) /\ n.T \in Int /\ n.E \in Int /\ n.D \in Int /\ n.H \in Int
      BY Parts
    <3>2. ASSUME NEW T \in Int, NEW E \in Int, NEW D \in Int, NEW H \in Int,
                 Counts(T, E, D, H)
          PROVE  Index(head - 1) = Index(H - 1)
      BY <3>2, Measures
    <3>3. Index(head - 1) = Index(n.H - 1)
      BY <3>1, <3>2
    <3> QED
      BY <1>2, <3>3 DEF CallbackSlot
  <2>2. ASSUME NEW j \in Int, n.F <= j, j < n.H - 1 PROVE Index(j) # Index(n.H - 1)
    BY <1>4, <2>2, IndexWindow, Widths
  <2> QED
    BY <1>4, <2>1, <2>2, IndexTyped DEF Call, TypeOK
<1>9. Taken(n.D, n.H, n.H)'
  BY <1>2, <1>4, Parts DEF Taken
<1>10. ASSUME NEW c \in Int, n.F <= c, c < n.H
       PROVE  \/ c < n.O /\ Call(c)' = Call(c) /\ Call(c) # req
              \/ n.O <= c /\ c < n.H - 1 /\ Call(c)' = NoReq
              \/ c = n.H - 1 /\ Call(c)' = req
  <2>1. CASE c < n.O
    BY <1>4, <1>6, <1>8, <1>10, <2>1 DEF Queued
  <2>2. CASE n.O <= c /\ c < n.H - 1
    BY <1>4, <1>6, <1>8, <1>10, <2>2
  <2>3. CASE c = n.H - 1
    BY <1>8, <2>3
  <2> QED
    BY <1>4, <1>10, <2>1, <2>2, <2>3
<1>11. Queued(n.F, n.H)'
  <2>1. \A c \in Int : Call(c) \in Req \cup {NoReq}
    BY Fields
  <2>2. ASSUME NEW c \in Int, n.F <= c, c < n.H, Call(c)' # NoReq
        PROVE  told'[Call(c)'] \in Waiting /\ Of(c)' = Call(c)'
    <3>1. CASE c < n.O /\ Call(c)' = Call(c) /\ Call(c) # req
      BY <1>4, <1>6, <1>7, <2>1, <2>2, <3>1 DEF Queued
    <3>2. CASE c = n.H - 1 /\ Call(c)' = req
      BY <1>4, <1>6, <1>7, <3>2
    <3> QED
      BY <1>10, <2>2, <3>1, <3>2
  <2>3. ASSUME NEW c \in Int, NEW d \in Int, n.F <= c, c < d, d < n.H,
               Call(c)' = Call(d)'
        PROVE  Call(c)' = NoReq
    <3>1. CASE d < n.O
      BY <1>4, <1>8, <2>3, <3>1 DEF Queued
    <3>2. CASE n.O <= d
      BY <1>4, <1>10, <2>3, <3>2
    <3> QED
      BY <1>4, <2>3, <3>1, <3>2
  <2>4. ASSUME NEW j \in Int, n.F <= j, j < n.H
        PROVE  Of(j)' # NoReq /\ \E c \in Int : j <= c /\ c < n.H /\ Call(c)' = Of(j)'
    <3>1. CASE j < n.O
      <4>1. Of(j) # NoReq
        BY <1>4, <2>4, <3>1 DEF Queued
      <4>2. PICK c \in Int : j <= c /\ c < n.O /\ Call(c) = Of(j)
        BY <1>4, <2>4, <3>1 DEF Queued
      <4>3. Call(c)' = Call(c) /\ c < n.H
        BY <1>4, <1>8, <2>4, <4>2
      <4> QED
        BY <1>7, <4>1, <4>2, <4>3
    <3>2. CASE n.O <= j
      BY <1>4, <1>6, <1>7, <1>8, <2>4, <3>2
    <3> QED
      BY <1>4, <3>1, <3>2
  <2>5. ASSUME NEW s \in Req, told'[s] \in Waiting
        PROVE  \E c \in Int : n.F <= c /\ c < n.H /\ Call(c)' = s
    <3>1. CASE s = req
      BY <1>4, <1>8, <3>1
    <3>2. CASE s # req
      <4>1. PICK c \in Int : n.F <= c /\ c < n.O /\ Call(c) = s
        BY <1>4, <1>6, <2>5, <3>2 DEF Queued
      <4> QED
        BY <1>4, <1>8, <4>1
    <3> QED
      BY <3>1, <3>2
  <2> QED
    BY <2>2, <2>3, <2>4, <2>5 DEF Queued
<1>12. Whole(m)'
  BY <1>1, <1>3, <1>5, <1>9, <1>11 DEF Whole
<1>13. Waits' = Waits \cup {req} /\ req \notin Waits
  BY <1>6 DEF Waits
<1>14. Pairs(n.F, n.H)' = Pairs(n.F, n.O) \cup (Waits \X {req})
  <2>1. ASSUME NEW p \in Req \X Req, NEW c \in Int, NEW d \in Int,
               n.F <= c, c < d, d < n.H, Call(c)' = p[1], Call(d)' = p[2]
        PROVE  p \in Pairs(n.F, n.O) \cup (Waits \X {req})
    <3>1. p[1] \in Req /\ p[1] # NoReq /\ p[2] # NoReq /\ p = <<p[1], p[2]>>
      BY NoReqAssumption
    <3>2. c < n.O /\ Call(c) = p[1]
      BY <1>4, <1>10, <2>1, <3>1
    <3>3. p[1] \in Waits
      BY <1>4, <2>1, <3>1, <3>2 DEF Queued, Waits
    <3>4. (d < n.O /\ Call(d) = p[2]) \/ p[2] = req
      BY <1>4, <1>10, <2>1, <3>1
    <3> QED
      BY <2>1, <3>1, <3>2, <3>3, <3>4 DEF Pairs
  <2>2. ASSUME NEW p \in Req \X Req, NEW c \in Int, NEW d \in Int,
               n.F <= c, c < d, d < n.O, Call(c) = p[1], Call(d) = p[2]
        PROVE  p \in Pairs(n.F, n.H)'
    <3>1. Call(c)' = Call(c) /\ Call(d)' = Call(d) /\ d < n.H
      BY <1>4, <1>8, <2>2
    <3> QED
      BY <2>2, <3>1 DEF Pairs
  <2>3. ASSUME NEW p \in Waits \X {req} PROVE p \in Pairs(n.F, n.H)'
    <3>1. /\ p \in Req \X Req /\ p[1] \in Req /\ told[p[1]] \in Waiting
          /\ p[2] = req
      BY <1>6 DEF Waits
    <3>2. PICK c \in Int : n.F <= c /\ c < n.O /\ Call(c) = p[1]
      BY <1>4, <3>1 DEF Queued
    <3>3. Call(c)' = Call(c) /\ c < n.H - 1 /\ n.H - 1 < n.H
      BY <1>4, <1>8, <3>2
    <3> QED
      BY <1>8, <3>1, <3>2, <3>3 DEF Pairs
  <2>4. \A p \in Pairs(n.F, n.H)' : p \in Pairs(n.F, n.O) \cup (Waits \X {req})
    BY <2>1 DEF Pairs
  <2>5. \A p \in Pairs(n.F, n.O) : p \in Pairs(n.F, n.H)'
    BY <2>2 DEF Pairs
  <2> QED
    BY <2>3, <2>4, <2>5
<1>15. Out(n.E, n.H)' = Out(n.E, n.O)
  <2>1. ASSUME NEW s \in Out(n.E, n.H)' PROVE s \in Out(n.E, n.O)
    <3>1. s \in Waits' /\ \A j \in Int : n.E <= j /\ j < n.H => Of(j)' # s
      BY DEF Out
    <3>2. Of(n.H - 1)' = req /\ n.E <= n.H - 1
      BY <1>4, <1>6, <1>7
    <3>3. s # req
      BY <1>4, <1>8, <3>1, <3>2
    <3> QED
      BY <1>4, <1>7, <1>13, <3>1, <3>3 DEF Out
  <2>2. ASSUME NEW s \in Out(n.E, n.O) PROVE s \in Out(n.E, n.H)'
    <3>1. s \in Waits /\ \A j \in Int : n.E <= j /\ j < n.O => Of(j) # s
      BY DEF Out
    <3>2. \A j \in Int : n.E <= j /\ j < n.H => Of(j)' # s
      BY <1>4, <1>6, <1>7, <1>13, <3>1
    <3> QED
      BY <1>13, <3>1, <3>2 DEF Out
  <2> QED
    BY <2>1, <2>2
<1>16. /\ InOrder = Pairs(n.F, n.O) /\ Carried = Out(n.E, n.O)
       /\ InOrder' = Pairs(n.F, n.H)' /\ Carried' = Out(n.E, n.H)'
  BY <1>1, <1>12, Linked, LinkedNext
<1>17. /\ req \notin Waits /\ Waits' = Waits \cup {req}
       /\ InOrder' = InOrder \cup (Waits \X {req}) /\ Carried' = Carried
  BY <1>13, <1>14, <1>15, <1>16
<1>18. PICK q \in Req : q = req
  BY <1>6
<1>19. Service!Accept(q)
  BY <1>17, <1>18 DEF Service!Accept, Waits, Carried
<1>20. Service!Next
  BY <1>19 DEF Service!Next
<1> QED
  BY <1>1, <1>12, <1>20

(* The engine finishes a request with the last descriptor of it, the one   *)
(* with the callback, and the requests before it had theirs before.        *)
LEMMA ExecuteServes ==
  ASSUME TypeOK, TypeOK', NEW n \in Point, Whole(n), EngineExecute
  PROVE  [Service!Next]_(Service!vars) /\ \E m \in Point : Whole(m)'
<1>1. PICK M \in Int : At(n.T, n.E + 1, n.D, n.H, M)'
  BY Parts, EngineExecuteKeeps
<1> DEFINE m == [F |-> n.F, T |-> n.T, E |-> n.E + 1, D |-> n.D, H |-> n.H,
                 L |-> M, O |-> n.O]
           r == Of(n.E)
<1>2. m \in Point /\ m.F = n.F /\ m.T = n.T /\ m.E = n.E + 1 /\ m.D = n.D
      /\ m.H = n.H /\ m.L = M /\ m.O = n.O
  BY Parts DEF Point
<1> HIDE DEF m
<1>3. /\ executed # dmacount
      /\ UNCHANGED <<pc, build, completed, cb, hw, told>>
  BY DEF EngineExecute, driver
<1>4. /\ n.F <= n.E /\ n.E < n.O
      /\ n.F \in Int /\ n.E \in Int /\ n.O \in Int /\ Queued(n.F, n.O)
  <2>1. n.E # n.D
    BY <1>3, Parts, Widths DEF Counts
  <2>2. n.E <= n.D /\ n.D <= n.O /\ n.D \in Int /\ n.E \in Int /\ n.O \in Int
    BY Parts
  <2> QED
    BY <2>1, <2>2, Parts
<1>5. \A j \in Int : Call(j)' = Call(j) /\ Of(j)' = Of(j)
  BY <1>3 DEF Call, Of
<1>6. Taken(n.D, n.H, n.O)' /\ n.F = Base(n.T)'
  BY <1>3, <1>5, Parts DEF Taken, Base, InCallback, build
<1>7. Queued(n.F, n.O)' /\ Pairs(n.F, n.O)' = Pairs(n.F, n.O) /\ Waits' = Waits
  <2>1. \A s \in Req : told'[s] \in Waiting <=> told[s] \in Waiting
    BY <1>3
  <2> QED
    BY <1>4, <1>5, <2>1, SameQueue
<1>8. Whole(m)'
  BY <1>1, <1>2, <1>6, <1>7 DEF Whole
<1>9. /\ InOrder = Pairs(n.F, n.O) /\ Carried = Out(n.E, n.O)
      /\ InOrder' = Pairs(n.F, n.O)' /\ Carried' = Out(n.E + 1, n.O)'
  BY <1>2, <1>8, Linked, LinkedNext
<1>10. r # NoReq /\ r \in Req
  <2>1. Of(n.E) \in Req \cup {NoReq}
    BY <1>4, Fields
  <2> QED
    BY <1>4, <2>1 DEF Queued
<1>11. CASE \E j \in Int : n.E + 1 <= j /\ j < n.O /\ Of(j) = r
  <2>1. Out(n.E + 1, n.O)' = Out(n.E, n.O)
    <3>1. \A s \in Req : (\A j \in Int : n.E + 1 <= j /\ j < n.O => Of(j) # s)
                           <=> (\A j \in Int : n.E <= j /\ j < n.O => Of(j) # s)
      BY <1>4, <1>11
    <3> QED
      BY <1>5, <1>7, <3>1 DEF Out, Waits
  <2>2. UNCHANGED <<Waits, InOrder, Carried>>
    BY <1>7, <1>9, <2>1
  <2> QED
    BY <1>2, <1>8, <2>2 DEF Service!vars, Waits, Carried
<1>12. CASE \A j \in Int : n.E + 1 <= j /\ j < n.O => Of(j) # r
  <2>1. PICK c \in Int : n.E <= c /\ c < n.O /\ Call(c) = r
    BY <1>4 DEF Queued
  <2>2. Of(c) = r /\ told[r] \in Waiting
    BY <1>4, <1>10, <2>1 DEF Queued
  <2>3. c = n.E /\ Call(n.E) = r
    BY <1>4, <1>12, <2>1, <2>2
  <2>4. r \in Waits /\ r \notin Out(n.E, n.O)
    BY <1>4, <1>10, <2>2 DEF Waits, Out
  <2>5. Out(n.E + 1, n.O)' = Out(n.E, n.O) \cup {r}
    <3>1. \A s \in Req : s # r =>
            ((\A j \in Int : n.E + 1 <= j /\ j < n.O => Of(j) # s)
               <=> (\A j \in Int : n.E <= j /\ j < n.O => Of(j) # s))
      BY <1>4
    <3> QED
      BY <1>5, <1>7, <1>12, <2>4, <3>1 DEF Out, Waits
  <2>6. ASSUME NEW s \in Waits \ Out(n.E, n.O) PROVE <<s, r>> \notin Pairs(n.F, n.O)
    <3> SUFFICES ASSUME NEW b \in Int, NEW d \in Int, n.F <= b, b < d, d < n.O,
                        Call(b) = <<s, r>>[1], Call(d) = <<s, r>>[2]
                 PROVE  FALSE
      BY DEF Pairs
    <3>1. Call(b) = s /\ Call(d) = r /\ s # NoReq
      BY NoReqAssumption DEF Waits
    <3>2. d = n.E
      BY <1>4, <1>10, <2>3, <3>1 DEF Queued
    <3>3. PICK j \in Int : n.E <= j /\ j < n.O /\ Of(j) = s
      BY DEF Out
    <3>4. PICK k \in Int : j <= k /\ k < n.O /\ Call(k) = s
      BY <1>4, <3>3 DEF Queued
    <3> QED
      BY <1>4, <3>1, <3>2, <3>3, <3>4 DEF Queued
  <2>7. /\ r \in Waits \ Carried /\ \A s \in Waits \ Carried : <<s, r>> \notin InOrder
        /\ Carried' = Carried \cup {r} /\ Waits' = Waits /\ InOrder' = InOrder
    BY <1>7, <1>9, <2>4, <2>5, <2>6
  <2>8. PICK q \in Req : q = r
    BY <1>10
  <2>9. Service!CarryOut(q)
    BY <2>7, <2>8 DEF Service!CarryOut, Waits, Carried
  <2>10. Service!Next
    BY <2>9 DEF Service!Next
  <2> QED
    BY <1>2, <1>8, <2>10
<1> QED
  BY <1>4, <1>11, <1>12

-----------------------------------------------------------------------------
LEMMA ServiceInit == Init => ServiceInv /\ Service!Init
<1> SUFFICES ASSUME Init PROVE ServiceInv /\ Service!Init
  OBVIOUS
<1> DEFINE n == [F |-> 1, T |-> 1, E |-> 1, D |-> 1, H |-> 1, L |-> 0, O |-> 1]
<1>1. n \in Point /\ n.F = 1 /\ n.T = 1 /\ n.E = 1 /\ n.D = 1 /\ n.H = 1
      /\ n.L = 0 /\ n.O = 1
  BY DEF Point
<1> HIDE DEF n
<1>2. TypeOK
  BY TypeInit
<1>3. At(1, 1, 1, 1, 0)
  BY CountsInit
<1>4. /\ pc = "app" /\ completed = NoSlot /\ \A r \in Req : told[r] \notin Waiting
  BY DEF Init, Waiting
<1>5. Taken(1, 1, 1) /\ 1 = Base(1) /\ Queued(1, 1)
  BY <1>4 DEF Taken, Base, InCallback, Queued
<1>6. Whole(n)
  BY <1>1, <1>3, <1>5 DEF Whole
<1>7. InOrder = Pairs(1, 1) /\ Carried = Out(1, 1)
  BY <1>1, <1>2, <1>6, Linked
<1>8. Pairs(1, 1) = {} /\ Waits = {} /\ Out(1, 1) = {}
  BY <1>4 DEF Pairs, Waits, Out
<1> QED
  BY <1>1, <1>2, <1>6, <1>7, <1>8 DEF ServiceInv, Service!Init, Waits, Carried

LEMMA ServiceStep ==
  ServiceInv /\ [Next]_vars => ServiceInv' /\ [Service!Next]_(Service!vars)
<1> SUFFICES ASSUME ServiceInv, [Next]_vars
             PROVE  ServiceInv' /\ [Service!Next]_(Service!vars)
  OBVIOUS
<1>1. TypeOK /\ TypeOK'
  BY TypeStep DEF ServiceInv
<1>2. PICK n \in Point : Whole(n)
  BY DEF ServiceInv
<1>3. SUFFICES [Service!Next]_(Service!vars) /\ \E m \in Point : Whole(m)'
  BY <1>1 DEF ServiceInv
<1>4. CASE Prep
  BY <1>1, <1>2, <1>4, PrepServes
<1>5. CASE Refuse
  BY <1>1, <1>2, <1>5, RefuseServes
<1>6. CASE BuildEnd
  BY <1>1, <1>2, <1>6, BuildEndServes
<1>7. CASE FlushMark \/ FlushRing
  BY <1>1, <1>2, <1>7, FlushServes
<1>8. CASE PollBegin
  BY <1>1, <1>2, <1>8, PollServes
<1>9. CASE WalkSkip
  BY <1>1, <1>2, <1>9, SkipServes
<1>10. CASE WalkCallback
  BY <1>1, <1>2, <1>10, CallServes
<1>11. CASE CallbackReturn
  BY <1>1, <1>2, <1>11, ReturnServes
<1>12. CASE EngineExecute
  BY <1>1, <1>2, <1>12, ExecuteServes
<1>13. CASE \/ \E r \in Req, andFlush \in BOOLEAN :
                 \E k \in CopyParts \cup FillParts : BuildBegin(r, k, andFlush)
            \/ FlushBegin \/ EngineHalt \/ UNCHANGED vars
  BY <1>1, <1>2, <1>13, StillServes
<1> QED
  BY <1>4, <1>5, <1>6, <1>7, <1>8, <1>9, <1>10, <1>11, <1>12, <1>13
  DEF Next, Build, Flush, Poll, Engine

(* Every accepted request is carried out before it is answered, and        *)
(* answered once, in the order of acceptance: the channel implements       *)
(* IoatDma for every ring size and every width of its counters.            *)
THEOREM ImplementsDma == Spec => ServiceSpec
BY ServiceInit, ServiceStep, PTL DEF Spec, ServiceSpec, Service!Spec

=============================================================================

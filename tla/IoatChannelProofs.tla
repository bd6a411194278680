-------------------------- MODULE IoatChannelProofs -------------------------
(***************************************************************************)
(* What a DMA channel guarantees for every ring size, every width of its   *)
(* counters (multiples of the ring size), every set of requests and every  *)
(* number of descriptors per request.                                      *)
(*                                                                         *)
(* head and tail are counts modulo 2^32, dmacount and the engine's own     *)
(* count modulo 2^16, slots counts modulo the ring size.  The proofs speak *)
(* of the counts themselves, integers that only grow but for a call that   *)
(* gives its descriptors back, of which all of these are remainders.       *)
(***************************************************************************)
EXTENDS IoatChannel, TLAPS

(* What % computes, for any modulus: the remainder of a division ...        *)
LEMMA Quotient ==
  ASSUME NEW b \in Nat \ {0}, NEW a \in Int
  PROVE  a % b \in 0 .. b - 1 /\ \E q \in Int : a = b * q + (a % b)
<1>1. a = b * (a \div b) + (a % b) /\ a % b \in 0 .. b-1 /\ a \div b \in Int
  OBVIOUS
<1> QED
  BY <1>1

LEMMA Multiple ==
  ASSUME NEW b \in Nat \ {0}, NEW a \in Int, a % b = 0
  PROVE  \E q \in Int : a = b * q
<1>1. PICK q \in Int : a = b * q + (a % b)
  BY Quotient
<1>2. a = b * q
  BY <1>1
<1> QED
  BY <1>2

(* ... which is unique ...                                                  *)
LEMMA Remainder ==
  ASSUME NEW b \in Nat \ {0}, NEW a \in Int, NEW q \in Int, NEW r \in 0 .. b - 1,
         a = b * q + r
  PROVE  a % b = r
<1>1. PICK p \in Int : a = b * p + (a % b)
  BY Quotient
<1>2. a % b \in 0 .. b - 1
  BY Quotient
<1>3. b * (p - q) = r - (a % b)
  BY <1>1, <1>2
<1>4. p - q = 0
  <2>1. CASE p - q >= 1
    <3>1. b * (p - q) >= b
      BY <2>1
    <3> QED
      BY <1>2, <1>3, <3>1
  <2>2. CASE p - q <= -1
    <3>1. b * (p - q) <= -b
      BY <2>2
    <3> QED
      BY <1>2, <1>3, <3>1
  <2> QED
    BY <2>1, <2>2
<1> QED
  BY <1>2, <1>3, <1>4

(* ... so numbers less than the modulus apart have different ones ...        *)
LEMMA ModWindow ==
  ASSUME NEW b \in Nat \ {0}, NEW i \in Int, NEW j \in Int, i % b = j % b,
         j - i < b, i - j < b
  PROVE  i = j
<1>1. PICK p \in Int : i = b * p + (i % b)
  BY Quotient
<1>2. PICK q \in Int : j = b * q + (j % b)
  BY Quotient
<1>3. b * (p - q) = i - j
  <2>1. i % b \in Int /\ j % b \in Int
   BY Quotient
  <2> QED
   BY <1>1, <1>2, <2>1
<1>4. p - q = 0
  <2>1. CASE p - q >= 1
    <3>1. b * (p - q) >= b
      BY <2>1
    <3> QED
      BY <1>3, <3>1
  <2>2. CASE p - q <= -1
    <3>1. b * (p - q) <= -b
      BY <2>2
    <3> QED
      BY <1>3, <3>1
  <2> QED
    BY <2>1, <2>2
<1> QED
  BY <1>3, <1>4

(* ... and adding a multiple of the modulus does not change it.             *)
LEMMA ModShift ==
  ASSUME NEW b \in Nat \ {0}, NEW a \in Int, NEW c \in Int, NEW q \in Int,
         c = a + b * q
  PROVE  c % b = a % b
<1>1. PICK p \in Int : a = b * p + (a % b)
  BY Quotient
<1>2. a % b \in 0 .. b - 1
  BY Quotient
<1> DEFINE r == a % b
<1> HIDE DEF r
<1>3. r \in 0 .. b - 1 /\ a = b * p + r
  BY <1>1, <1>2 DEF r
<1>4. c = b * (p + q) + r
  BY <1>3
<1>5. c % b = r
  BY <1>3, <1>4, Remainder
<1> QED
  BY <1>5 DEF r

(* A count kept modulo a multiple of b is exact modulo b.                  *)
LEMMA ModMod ==
  ASSUME NEW b \in Nat \ {0}, NEW m \in Nat \ {0}, m % b = 0, NEW x \in Int, NEW k \in Int
  PROVE  ((x % m) + k) % b = (x + k) % b
<1>1. PICK n \in Int : m = b * n
  BY Multiple
<1>2. PICK q \in Int : x = m * q + (x % m)
  BY Quotient
<1>3. x % m \in Int
  BY Quotient
<1> DEFINE y == x % m
           s == n * q
<1>4. y \in Int /\ s \in Int /\ m * q = b * s /\ x = m * q + y
  BY <1>1, <1>2, <1>3
<1> HIDE DEF y, s
<1> DEFINE u == y + k
           v == x + k
<1>5. u \in Int /\ v \in Int /\ v = u + b * s
  BY <1>4
<1> HIDE DEF u, v
<1>6. v % b = u % b
  BY <1>4, <1>5, ModShift
<1> QED
  BY <1>6 DEF u, v, y
(* The difference of two counts, each kept modulo a multiple of b.         *)
LEMMA ModDifference ==
  ASSUME NEW b \in Nat \ {0}, NEW m \in Nat \ {0}, NEW n \in Nat \ {0},
         m % b = 0, n % b = 0, NEW x \in Int, NEW y \in Int
  PROVE  ((x % m) - (y % n)) % b = (x - y) % b
<1>0. PICK p \in Int : n = b * p
  <2>1. n \in Int
    OBVIOUS
  <2> QED
    BY ONLY n % b = 0, <2>1, b \in Nat \ {0}, Multiple
<1> DEFINE z == y % n
<1>1. z \in Int
  BY Quotient
<1>2. PICK q \in Int : y = n * q + z
  BY Quotient
<1> HIDE DEF z
<1> DEFINE s == p * q
           u == x - y
           v == x + (- z)
           w == - z
<1>4. s \in Int /\ u \in Int /\ v \in Int /\ w \in Int /\ n * q = b * s
  BY <1>1, <1>0
<1> HIDE DEF s
<1>5. v = u + b * s
  BY <1>1, <1>2, <1>4
<1> HIDE DEF u, v
<1>6. v % b = u % b
  BY <1>4, <1>5, ModShift
<1> HIDE DEF w
<1>7. ((x % m) + w) % b = (x + w) % b
  <2>1. w \in Int
    BY <1>4
  <2> QED
    BY <2>1, ModMod
<1>8. (x % m) + w = (x % m) - z
  <2>1. x % m \in Int
    BY Quotient
  <2> QED
    BY <1>1, <2>1 DEF w
<1> QED
  BY <1>6, <1>7, <1>8 DEF u, v, w, z

(* A remainder that needs no division. *)
LEMMA ModSmall ==
  ASSUME NEW b \in Nat \ {0}, NEW x \in 0 .. b - 1
  PROVE  x % b = x
BY Remainder

LEMMA Widths ==
  /\ RingSize \in Nat \ {0} /\ DmaMod \in Nat \ {0} /\ CountMod \in Nat \ {0}
  /\ RingSize % RingSize = 0 /\ DmaMod % DmaMod = 0 /\ CountMod % CountMod = 0
  /\ DmaMod % RingSize = 0 /\ CountMod % DmaMod = 0 /\ CountMod % RingSize = 0
  /\ 2 <= RingSize /\ RingSize < DmaMod /\ DmaMod <= CountMod
<1>1. /\ RingSize \in Nat \ {0} /\ DmaMod \in Nat \ {0} /\ CountMod \in Nat \ {0}
      /\ DmaMod % RingSize = 0 /\ CountMod % DmaMod = 0
      /\ 2 <= RingSize /\ RingSize < DmaMod
  BY RingSizeAssumption, CounterAssumption
<1>2. ASSUME NEW b \in Nat \ {0} PROVE b % b = 0
  <2>1. b = b * 1 + 0 /\ 0 \in 0 .. b - 1
    OBVIOUS
  <2> QED
    BY <2>1, Remainder
<1>3. PICK n \in Int : CountMod = DmaMod * n
  BY <1>1, Multiple
<1>4. DmaMod <= CountMod
  <2>1. n >= 1
    <3>1. CASE n <= 0
      <4>1. DmaMod * n <= 0
        BY <1>1, <3>1
      <4> QED
        BY <1>1, <1>3, <4>1
    <3> QED
      BY <3>1
  <2>2. DmaMod * n >= DmaMod
    BY <1>1, <2>1
  <2> QED
    BY <1>3, <2>2
<1>5. CountMod % RingSize = 0
  <2>1. PICK k \in Int : DmaMod = RingSize * k
    BY <1>1, Multiple
  <2>2. CountMod = 0 + RingSize * (k * n) /\ k * n \in Int
    BY <1>1, <1>3, <2>1
  <2>3. 0 \in 0 .. RingSize - 1
    BY <1>1
  <2> DEFINE q == k * n
  <2> HIDE DEF q
  <2>4. CountMod = RingSize * q + 0 /\ q \in Int
    BY <1>1, <2>2 DEF q
  <2> QED
    BY <1>1, <2>3, <2>4, Remainder
<1> QED
  BY <1>1, <1>2, <1>4, <1>5

(* The counters of a channel are exact modulo every smaller width.         *)
LEMMA Congruent ==
  ASSUME NEW x \in Int, NEW k \in Int
  PROVE  /\ ((x % CountMod) + k) % RingSize = (x + k) % RingSize
         /\ ((x % DmaMod) + k) % RingSize = (x + k) % RingSize
         /\ ((x % CountMod) + k) % CountMod = (x + k) % CountMod
         /\ ((x % CountMod) + k) % DmaMod = (x + k) % DmaMod
         /\ ((x % DmaMod) + k) % DmaMod = (x + k) % DmaMod
<1>1. /\ RingSize \in Nat \ {0} /\ DmaMod \in Nat \ {0} /\ CountMod \in Nat \ {0}
      /\ DmaMod % DmaMod = 0 /\ CountMod % CountMod = 0
      /\ DmaMod % RingSize = 0 /\ CountMod % DmaMod = 0 /\ CountMod % RingSize = 0
  BY Widths
<1>2. ((x % CountMod) + k) % RingSize = (x + k) % RingSize
  BY <1>1, ModMod
<1>3. ((x % DmaMod) + k) % RingSize = (x + k) % RingSize
  BY <1>1, ModMod
<1>4. ((x % CountMod) + k) % CountMod = (x + k) % CountMod
  BY <1>1, ModMod
<1>5. ((x % CountMod) + k) % DmaMod = (x + k) % DmaMod
  BY <1>1, ModMod
<1>6. ((x % DmaMod) + k) % DmaMod = (x + k) % DmaMod
  BY <1>1, ModMod
<1> QED
  BY <1>2, <1>3, <1>4, <1>5, <1>6

LEMMA Distances ==
  ASSUME NEW x \in Int, NEW y \in Int
  PROVE  /\ ((x % CountMod) - (y % CountMod)) % CountMod = (x - y) % CountMod
         /\ ((x % DmaMod) - (y % CountMod)) % DmaMod = (x - y) % DmaMod
         /\ ((x % CountMod) - (y % DmaMod)) % DmaMod = (x - y) % DmaMod
         /\ ((x % DmaMod) - (y % DmaMod)) % DmaMod = (x - y) % DmaMod
<1>1. /\ DmaMod \in Nat \ {0} /\ CountMod \in Nat \ {0}
      /\ DmaMod % DmaMod = 0 /\ CountMod % CountMod = 0 /\ CountMod % DmaMod = 0
  BY Widths
<1>2. ((x % CountMod) - (y % CountMod)) % CountMod = (x - y) % CountMod
  BY <1>1, ModDifference
<1>3. ((x % DmaMod) - (y % CountMod)) % DmaMod = (x - y) % DmaMod
  BY <1>1, ModDifference
<1>4. ((x % CountMod) - (y % DmaMod)) % DmaMod = (x - y) % DmaMod
  BY <1>1, ModDifference
<1>5. ((x % DmaMod) - (y % DmaMod)) % DmaMod = (x - y) % DmaMod
  BY <1>1, ModDifference
<1> QED
  BY <1>2, <1>3, <1>4, <1>5

LEMMA IndexTyped ==
  ASSUME NEW n \in Int
  PROVE  Index(n) \in Slot
BY Widths, Quotient DEF Index, Slot

(* Counts less than the ring size apart name different slots.              *)
LEMMA IndexWindow ==
  ASSUME NEW i \in Int, NEW j \in Int, Index(i) = Index(j),
         i - j < RingSize, j - i < RingSize
  PROVE  i = j
BY Widths, ModWindow DEF Index

-----------------------------------------------------------------------------
(* Type correctness. *)
LEMMA TypeInit == Init => TypeOK
<1> SUFFICES ASSUME Init PROVE TypeOK
  OBVIOUS
<1>1. 0 \in Slot /\ 0 \in 0 .. CountMod - 1 /\ 1 \in 0 .. CountMod - 1 /\ 1 \in 0 .. DmaMod - 1
  BY Widths DEF Slot
<1>2. hw \in [Slot -> [req : Req \cup {NoReq}, update : BOOLEAN]]
  <2>1. \A s \in Slot : (s = 0) \in BOOLEAN
    OBVIOUS
  <2>2. \A s \in Slot : [req |-> NoReq, update |-> s = 0]
                          \in [req : Req \cup {NoReq}, update : BOOLEAN]
    BY <2>1
  <2> QED
    BY <2>2 DEF Init
<1> QED
  BY <1>1, <1>2 DEF Init, TypeOK

LEMMA TypeStep == TypeOK /\ [Next]_vars => TypeOK'
<1> SUFFICES ASSUME TypeOK, [Next]_vars PROVE TypeOK'
  OBVIOUS
<1> USE DEF TypeOK, driver, build, engine, vars
<1>1. /\ Index(head) \in Slot /\ Index(head - 1) \in Slot
      /\ Succ(head) \in 0 .. CountMod - 1 /\ Succ(tail) \in 0 .. CountMod - 1
      /\ Index(executed) \in Slot
      /\ (executed + 1) % DmaMod \in 0 .. DmaMod - 1 /\ head % DmaMod \in 0 .. DmaMod - 1
  <2>1. /\ head \in Int /\ tail \in Int /\ executed \in Int
        /\ head + 1 \in Int /\ tail + 1 \in Int /\ executed + 1 \in Int /\ head - 1 \in Int
    BY Widths
  <2>2. CountMod \in Nat \ {0} /\ DmaMod \in Nat \ {0}
    BY Widths
  <2> QED
    BY <2>1, <2>2, IndexTyped, Quotient DEF Succ
<1>2. ASSUME NEW r \in Req, NEW andFlush \in BOOLEAN, NEW n \in CopyParts \cup FillParts,
             BuildBegin(r, n, andFlush)
      PROVE  TypeOK'
  BY <1>2, PartsAssumption DEF BuildBegin
<1>3. CASE Prep
  BY <1>1, <1>3 DEF Prep
<1>4. CASE Refuse
  BY <1>4 DEF Refuse
<1>5. CASE BuildEnd
  BY <1>1, <1>5 DEF BuildEnd, CallbackSlot
<1>6. CASE FlushBegin
  BY <1>6 DEF FlushBegin
<1>7. CASE FlushMark
  BY <1>1, <1>7 DEF FlushMark
<1>8. CASE FlushRing
  BY <1>1, <1>8 DEF FlushRing
<1>9. CASE PollBegin
  BY <1>9 DEF PollBegin
<1>10. ASSUME Retire, UNCHANGED <<head, cb, build, hw, dmacount, engine>>,
              told' = told
       PROVE  TypeOK'
  BY <1>1, <1>10, NoSlotAssumption, IndexTyped DEF Retire
<1>11. CASE WalkSkip
  BY <1>10, <1>11 DEF WalkSkip
<1>12. CASE WalkCallback
  BY <1>12 DEF WalkCallback
<1>13. CASE CallbackReturn
  BY <1>10, <1>13 DEF CallbackReturn
<1>14. CASE EngineExecute
  BY <1>1, <1>14 DEF EngineExecute
<1>15. CASE EngineHalt
  BY <1>15 DEF EngineHalt
<1>16. CASE UNCHANGED vars
  BY <1>16
<1> QED
  BY <1>2, <1>3, <1>4, <1>5, <1>6, <1>7, <1>8, <1>9, <1>11, <1>12, <1>13, <1>14,
     <1>15, <1>16 DEF Next, Build, Flush, Poll, Engine

(* Counts stay in their widths, slots in the ring.                         *)
THEOREM TypeCorrect == Spec => []TypeOK
BY TypeInit, TypeStep, PTL DEF Spec

-----------------------------------------------------------------------------
(* T descriptors have been retired, E executed, D announced to the engine  *)
(* and H prepared; one slot of the ring stays empty.                       *)
Counts(T, E, D, H) ==
  /\ T <= E /\ E <= D /\ D <= H /\ H < T + RingSize
  /\ tail = T % CountMod /\ head = H % CountMod
  /\ executed = E % DmaMod /\ dmacount = D % DmaMod

(* A call that runs out of descriptors gives back none that was announced, *)
(* and flush marks the last descriptor before it announces it.             *)
Marks(D, H) ==
  /\ pc = "prep" => \E O \in Int : D <= O /\ O <= H /\ origHead = O % CountMod
  /\ hw[Index(D - 1)].update
  /\ pc = "ring" => hw[Index(H - 1)].update

(* L is the last descriptor the completion word was written for: no later  *)
(* one that was executed is marked.  process_events has seen the word when *)
(* it names the last descriptor retired; otherwise it walks up to one not  *)
(* after L.                                                                *)
Seen(T, E, L) ==
  /\ T - 1 <= L /\ L <= E - 1
  /\ compSlot = Index(L)
  /\ L >= T => hw[Index(L)].update
  /\ \A j \in Int : L < j /\ j < E => ~ hw[Index(j)].update
  /\ completed = NoSlot => lastSeen = Index(T - 1)
  /\ completed # NoSlot => \E C \in Int : T <= C /\ C <= L /\ completed = Index(C)
  /\ pc = "walk" => completed # NoSlot

At(T, E, D, H, L) == Counts(T, E, D, H) /\ Marks(D, H) /\ Seen(T, E, L)

ChannelInv == TypeOK /\ \E T, E, D, H, L \in Int : At(T, E, D, H, L)

(* What the fields of the channel say of the counts.                       *)
LEMMA Measures ==
  ASSUME NEW T \in Int, NEW E \in Int, NEW D \in Int, NEW H \in Int,
         Counts(T, E, D, H)
  PROVE  /\ Index(tail) = Index(T)
         /\ \A k \in Int : Index(tail + k) = Index(T + k)
         /\ Index(head) = Index(H) /\ Index(head - 1) = Index(H - 1)
         /\ Index(executed) = Index(E)
         /\ \A k \in Int : Index(executed + k) = Index(E + k)
         /\ RingSpace = RingSize - 1 - (H - T)
         /\ Ahead = E - T /\ ToExecute = D - E
         /\ Succ(tail) = (T + 1) % CountMod /\ Succ(head) = (H + 1) % CountMod
         /\ (executed + 1) % DmaMod = (E + 1) % DmaMod
         /\ head % DmaMod = H % DmaMod
<1>1. /\ tail = T % CountMod /\ head = H % CountMod
      /\ executed = E % DmaMod /\ dmacount = D % DmaMod
      /\ H - T \in 0 .. RingSize - 1 /\ E - T \in 0 .. DmaMod - 1
      /\ D - E \in 0 .. DmaMod - 1 /\ H - T \in 0 .. CountMod - 1
  BY Widths DEF Counts
<1>2. /\ RingSize \in Nat \ {0} /\ DmaMod \in Nat \ {0} /\ CountMod \in Nat \ {0}
      /\ RingSize % RingSize = 0 /\ DmaMod % DmaMod = 0 /\ CountMod % CountMod = 0
      /\ DmaMod % RingSize = 0 /\ CountMod % DmaMod = 0 /\ CountMod % RingSize = 0
  BY Widths
<1>3. /\ tail \in Int /\ head \in Int /\ executed \in Int /\ dmacount \in Int
  BY <1>1, <1>2, Quotient
<1>4. ASSUME NEW k \in Int
      PROVE  /\ Index(tail + k) = Index(T + k) /\ Index(head + k) = Index(H + k)
             /\ Index(executed + k) = Index(E + k)
  BY <1>1, Congruent DEF Index
<1>5. Index(tail) = Index(T) /\ Index(head) = Index(H) /\ Index(executed) = Index(E)
  <2>1. /\ tail + 0 = tail /\ T + 0 = T /\ head + 0 = head /\ H + 0 = H
        /\ executed + 0 = executed /\ E + 0 = E
    BY <1>3
  <2>2. /\ Index(tail + 0) = Index(T + 0) /\ Index(head + 0) = Index(H + 0)
        /\ Index(executed + 0) = Index(E + 0)
    BY <1>4
  <2> QED
    BY <2>1, <2>2
<1>6. Index(head - 1) = Index(H - 1)
  <2>1. head + (-1) = head - 1 /\ H + (-1) = H - 1
    BY <1>3
  <2>2. Index(head + (-1)) = Index(H + (-1))
    BY <1>4
  <2> QED
    BY <2>1, <2>2
<1>7. (head - tail) % CountMod = H - T
  <2>1. (head - tail) % CountMod = (H - T) % CountMod
    BY <1>1, Distances
  <2> QED
    BY <1>1, <1>2, <2>1, ModSmall
<1>8. RingSpace = RingSize - 1 - (H - T)
  <2>1. (H - T) % RingSize = H - T
    BY <1>1, <1>2, ModSmall
  <2> QED
    BY <1>1, <1>2, <1>7, <2>1 DEF RingSpace, Active
<1>9. Ahead = E - T
  <2>1. (executed - tail) % DmaMod = (E - T) % DmaMod
    BY <1>1, Distances
  <2> QED
    BY <1>1, <1>2, <2>1, ModSmall DEF Ahead
<1>10. ToExecute = D - E
  <2>1. (dmacount - executed) % DmaMod = (D - E) % DmaMod
    BY <1>1, Distances
  <2> QED
    BY <1>1, <1>2, <2>1, ModSmall DEF ToExecute
<1>11. Succ(tail) = (T + 1) % CountMod /\ Succ(head) = (H + 1) % CountMod
  BY <1>1, Congruent DEF Succ
<1>12. (executed + 1) % DmaMod = (E + 1) % DmaMod
  BY <1>1, Congruent
<1>13. head % DmaMod = H % DmaMod
  <2>1. ((H % CountMod) + 0) % DmaMod = (H + 0) % DmaMod
    BY Congruent
  <2>2. (H % CountMod) + 0 = head /\ H + 0 = H
    BY <1>1, <1>3
  <2> QED
    BY <2>1, <2>2
<1> QED
  BY <1>4, <1>5, <1>6, <1>8, <1>9, <1>10, <1>11, <1>12, <1>13

LEMMA CountsInit == Init => At(1, 1, 1, 1, 0)
<1> SUFFICES ASSUME Init PROVE At(1, 1, 1, 1, 0)
  OBVIOUS
<1>1. 1 % CountMod = 1 /\ 1 % DmaMod = 1 /\ 0 % RingSize = 0
  BY Widths, ModSmall
<1>2. 0 \in Slot /\ Index(0) = 0 /\ hw[0].update
  <2>1. 0 \in Slot /\ Index(0) = 0
    BY <1>1, Widths DEF Index, Slot
  <2>2. hw[0] = [req |-> NoReq, update |-> TRUE]
    <3>1. hw[0] = [req |-> NoReq, update |-> 0 = 0]
      BY <2>1, Zenon DEF Init
    <3>2. (0 = 0) = TRUE
      OBVIOUS
    <3> QED
      BY <3>1, <3>2, Zenon
  <2>3. hw[0].update
    BY <2>2
  <2> QED
    BY <2>1, <2>3
<1>3. Counts(1, 1, 1, 1)
  BY <1>1, Widths DEF Init, Counts
<1>4. Marks(1, 1) /\ Seen(1, 1, 0)
  BY <1>2 DEF Init, Marks, Seen
<1> QED
  BY <1>3, <1>4 DEF At

(* A new descriptor is written outside the slots from the last one retired *)
(* on: those keep their marks.                                             *)
LEMMA PrepKeeps ==
  ASSUME TypeOK, NEW T \in Int, NEW E \in Int, NEW D \in Int, NEW H \in Int,
         NEW L \in Int, At(T, E, D, H, L), Prep
  PROVE  /\ At(T, E, D, H + 1, L)'
         /\ \A j \in Int : T - 1 <= j /\ j < H => hw'[Index(j)] = hw[Index(j)]
<1>0. Counts(T, E, D, H) /\ Marks(D, H) /\ Seen(T, E, L)
  BY DEF At
<1>1. /\ Index(head) = Index(H) /\ RingSpace = RingSize - 1 - (H - T)
      /\ Succ(head) = (H + 1) % CountMod
  BY <1>0, Measures
<1>2. /\ pc = "prep" /\ H + 1 < T + RingSize
      /\ hw' = [hw EXCEPT ![Index(H)] = [req |-> req, update |-> FALSE]]
      /\ head' = (H + 1) % CountMod
      /\ UNCHANGED <<tail, lastSeen, pc, origHead, completed, dmacount, engine>>
  BY <1>1, Widths DEF Prep
<1>3. /\ T <= E /\ E <= D /\ D <= H
      /\ tail = T % CountMod /\ executed = E % DmaMod /\ dmacount = D % DmaMod
  BY <1>0 DEF Counts
<1>4. ASSUME NEW j \in Int, T - 1 <= j, j < H
      PROVE  hw'[Index(j)] = hw[Index(j)]
  <2>1. Index(j) # Index(H)
    BY <1>2, <1>4, IndexWindow, Widths
  <2>2. Index(j) \in Slot
    BY IndexTyped
  <2> QED
    BY <1>2, <2>1, <2>2 DEF TypeOK
<1>5. Counts(T, E, D, H + 1)'
  BY <1>2, <1>3 DEF Counts, engine
<1>6. Marks(D, H + 1)'
  <2>1. hw'[Index(D - 1)].update
    BY <1>0, <1>3, <1>4 DEF Marks
  <2>2. PICK O \in Int : D <= O /\ O <= H /\ origHead = O % CountMod
    BY <1>0, <1>2 DEF Marks
  <2>3. D <= O /\ O <= H + 1 /\ origHead' = O % CountMod
    BY <1>2, <2>2
  <2> QED
    BY <1>2, <2>1, <2>3 DEF Marks
<1>7. Seen(T, E, L)'
  <2>1. T - 1 <= L /\ L <= E - 1 /\ E - 1 < H
    BY <1>0, <1>3 DEF Seen
  <2>2. hw'[Index(L)] = hw[Index(L)]
    BY <1>3, <1>4, <2>1
  <2>3. \A j \in Int : L < j /\ j < E => hw'[Index(j)] = hw[Index(j)]
    BY <1>3, <1>4, <2>1
  <2> QED
    BY <1>0, <1>2, <2>2, <2>3 DEF Seen, engine
<1> QED
  BY <1>4, <1>5, <1>6, <1>7 DEF At

(* The call gives back what it prepared, down to its orig_head.            *)
LEMMA RefuseKeeps ==
  ASSUME NEW T \in Int, NEW E \in Int, NEW D \in Int, NEW H \in Int,
         NEW L \in Int, At(T, E, D, H, L), Refuse
  PROVE  \E O \in Int : At(T, E, D, O, L)'
<1>1. PICK O \in Int : D <= O /\ O <= H /\ origHead = O % CountMod
  BY DEF At, Marks, Refuse
<1>2. /\ head' = origHead /\ pc' = "app"
      /\ UNCHANGED <<hw, tail, executed, dmacount, lastSeen, completed, compSlot>>
  BY DEF Refuse, engine
<1>3. Counts(T, E, D, O)'
  BY <1>1, <1>2, Widths DEF At, Counts
<1>4. Marks(D, O)'
  BY <1>2 DEF At, Marks
<1>5. Seen(T, E, L)'
  BY <1>2 DEF At, Seen
<1> QED
  BY <1>3, <1>4, <1>5 DEF At

(* Marking the last descriptor marks none that was executed unmarked.      *)
LEMMA FlushMarkKeeps ==
  ASSUME TypeOK, NEW T \in Int, NEW E \in Int, NEW D \in Int, NEW H \in Int,
         NEW L \in Int, At(T, E, D, H, L), FlushMark
  PROVE  /\ At(T, E, D, H, L)'
         /\ \A j \in Int : T <= j /\ j < D => hw'[Index(j)] = hw[Index(j)]
<1>0. Counts(T, E, D, H) /\ Marks(D, H) /\ Seen(T, E, L)
  BY DEF At
<1>1. Index(head - 1) = Index(H - 1)
  BY <1>0, Measures
<1>2. /\ hw' = [hw EXCEPT ![Index(H - 1)].update = TRUE]
      /\ pc' = "ring"
      /\ UNCHANGED <<head, tail, executed, dmacount, lastSeen, completed, compSlot>>
  BY <1>1 DEF FlushMark, driver, engine
<1>3. T <= E /\ E <= D /\ D <= H /\ H < T + RingSize
  BY <1>0 DEF Counts
<1>4. ASSUME NEW j \in Int
      PROVE  /\ hw'[Index(j)].update <=> hw[Index(j)].update \/ Index(j) = Index(H - 1)
             /\ Index(j) # Index(H - 1) => hw'[Index(j)] = hw[Index(j)]
  BY <1>2, IndexTyped DEF TypeOK
<1>5. ASSUME NEW j \in Int, T <= j, j < D
      PROVE  hw'[Index(j)] = hw[Index(j)]
  <2>1. CASE j = H - 1
    <3>1. D = H
      BY <1>3, <1>5, <2>1
    <3>2. hw[Index(j)].update /\ Index(j) \in Slot
      BY <1>0, <2>1, <3>1, IndexTyped DEF Marks
    <3>3. hw[Index(j)] = [hw[Index(j)] EXCEPT !.update = TRUE]
      BY <3>2 DEF TypeOK
    <3> QED
      BY <1>2, <2>1, <3>2, <3>3 DEF TypeOK
  <2>2. CASE j # H - 1
    <3>1. Index(j) # Index(H - 1)
      BY <1>3, <1>5, <2>2, IndexWindow, Widths
    <3> QED
      BY <1>4, <3>1
  <2> QED
    BY <2>1, <2>2
<1>6. Counts(T, E, D, H)'
  BY <1>0, <1>2 DEF Counts
<1>7. Marks(D, H)'
  BY <1>0, <1>2, <1>4 DEF Marks
<1>8. Seen(T, E, L)'
  <2>1. \A j \in Int : L < j /\ j < E => hw'[Index(j)] = hw[Index(j)]
    BY <1>0, <1>3, <1>5 DEF Seen
  <2> QED
    BY <1>0, <1>2, <1>4, <2>1 DEF Seen
<1> QED
  BY <1>5, <1>6, <1>7, <1>8 DEF At

(* The walk retires one more descriptor, that the engine has executed; at  *)
(* the descriptor the completion word named it has seen that word.         *)
LEMMA RetireKeeps ==
  ASSUME TypeOK, NEW T \in Int, NEW E \in Int, NEW D \in Int, NEW H \in Int,
         NEW L \in Int, At(T, E, D, H, L), Retire, completed # NoSlot, pc # "prep",
         pc # "ring", UNCHANGED <<head, hw, dmacount, engine>>
  PROVE  At(T + 1, E, D, H, L)'
<1>0. Counts(T, E, D, H) /\ Marks(D, H) /\ Seen(T, E, L)
  BY DEF At
<1>1. Index(tail) = Index(T) /\ Succ(tail) = (T + 1) % CountMod
  BY <1>0, Measures
<1>2. PICK C \in Int : T <= C /\ C <= L /\ completed = Index(C)
  BY <1>0 DEF Seen
<1>3. T <= E /\ E <= D /\ D <= H /\ H < T + RingSize /\ L <= E - 1
  BY <1>0 DEF Counts, Seen
<1>4. Index(T) = completed <=> T = C
  BY <1>2, <1>3, IndexWindow, Widths
<1>5. Counts(T + 1, E, D, H)'
  <2>1. tail' = (T + 1) % CountMod
    BY <1>1 DEF Retire
  <2> QED
    BY <1>0, <1>2, <1>3, <2>1, Widths DEF Counts, engine
<1>6. Marks(D, H)'
  BY <1>0 DEF Retire, Marks
<1>7. Seen(T + 1, E, L)'
  <2>1. (T + 1) - 1 <= L /\ (T + 1) - 1 = T /\ L >= T
    BY <1>2
  <2>2. CASE T = C
    <3>1. lastSeen' = Index(T) /\ completed' = NoSlot /\ pc' = "app"
      BY <1>1, <1>2, <1>4, <2>2 DEF Retire
    <3> QED
      BY <1>0, <2>1, <3>1 DEF Seen, engine
  <2>3. CASE T # C
    <3>1. completed' = completed /\ T + 1 <= C
      BY <1>1, <1>2, <1>4, <2>3 DEF Retire
    <3> QED
      BY <1>0, <1>2, <2>1, <3>1 DEF Seen, engine
  <2> QED
    BY <2>2, <2>3
<1> QED
  BY <1>5, <1>6, <1>7 DEF At

(* process_events starts a walk only if the completion word names a        *)
(* descriptor that was not retired.                                        *)
LEMMA PollBeginKeeps ==
  ASSUME NEW T \in Int, NEW E \in Int, NEW D \in Int, NEW H \in Int,
         NEW L \in Int, At(T, E, D, H, L), PollBegin, TypeOK
  PROVE  At(T, E, D, H, L)'
<1>1. /\ completed = NoSlot /\ compSlot # lastSeen /\ completed' = compSlot
      /\ pc' = "walk" /\ completed' # NoSlot
      /\ UNCHANGED <<driver, build, hw, dmacount, engine>>
  BY NoSlotAssumption DEF PollBegin, TypeOK
<1>2. T <= L /\ compSlot = Index(L)
  BY <1>1 DEF At, Seen
<1>3. Counts(T, E, D, H)' /\ Marks(D, H)'
  BY <1>1 DEF At, Counts, Marks, driver, engine
<1>4. Seen(T, E, L)'
  BY <1>1, <1>2 DEF At, Seen, engine
<1> QED
  BY <1>3, <1>4 DEF At

(* The engine executes one more descriptor.                                *)
LEMMA EngineExecuteKeeps ==
  ASSUME NEW T \in Int, NEW E \in Int, NEW D \in Int, NEW H \in Int,
         NEW L \in Int, At(T, E, D, H, L), EngineExecute
  PROVE  \E M \in Int : At(T, E + 1, D, H, M)'
<1>0. Counts(T, E, D, H) /\ Marks(D, H) /\ Seen(T, E, L)
  BY DEF At
<1>1. /\ executed' = (E + 1) % DmaMod
      /\ compSlot' = IF hw[Index(E)].update THEN Index(E) ELSE compSlot
      /\ UNCHANGED <<driver, pc, build, completed, hw, dmacount>>
  BY <1>0, Measures DEF EngineExecute
<1>2. E < D
  BY <1>0, Widths DEF EngineExecute, Counts
<1>3. Counts(T, E + 1, D, H)' /\ Marks(D, H)'
  BY <1>0, <1>1, <1>2 DEF Counts, Marks, driver, build
<1>4. T - 1 <= L /\ L <= E - 1 /\ T <= E
  BY <1>0 DEF Seen, Counts
<1>5. CASE hw[Index(E)].update
  <2>1. Seen(T, E + 1, E)'
    BY <1>0, <1>1, <1>4, <1>5 DEF Seen, driver
  <2> QED
    BY <1>3, <2>1 DEF At
<1>6. CASE ~ hw[Index(E)].update
  <2>1. \A j \in Int : L < j /\ j < E + 1 => ~ hw[Index(j)].update
    <3> SUFFICES ASSUME NEW j \in Int, L < j, j < E + 1 PROVE ~ hw[Index(j)].update
      OBVIOUS
    <3>1. j = E \/ j < E
      OBVIOUS
    <3> QED
      BY <1>0, <1>6, <3>1 DEF Seen
  <2>2. Seen(T, E + 1, L)'
    BY <1>0, <1>1, <1>4, <1>6, <2>1 DEF Seen, driver
  <2> QED
    BY <1>3, <2>2 DEF At
<1> QED
  BY <1>5, <1>6

(* flush announces everything that was prepared.                           *)
LEMMA FlushRingKeeps ==
  ASSUME NEW T \in Int, NEW E \in Int, NEW D \in Int, NEW H \in Int,
         NEW L \in Int, At(T, E, D, H, L), FlushRing
  PROVE  At(T, E, H, H, L)'
<1>0. Counts(T, E, D, H) /\ Marks(D, H) /\ Seen(T, E, L)
  BY DEF At
<1> USE DEF driver, build, engine
<1>1. dmacount' = H % DmaMod
  BY <1>0, Measures DEF FlushRing
<1>2. Counts(T, E, H, H)' /\ Marks(H, H)'
  BY <1>0, <1>1 DEF FlushRing, Counts, Marks
<1>3. Seen(T, E, L)'
  BY <1>0 DEF FlushRing, Seen
<1> QED
  BY <1>2, <1>3 DEF At

(* The other steps leave the counts alone.                                 *)
Still ==
  \/ \E r \in Req, andFlush \in BOOLEAN :
       \E n \in CopyParts \cup FillParts : BuildBegin(r, n, andFlush)
  \/ BuildEnd \/ FlushBegin \/ WalkCallback \/ EngineHalt \/ UNCHANGED vars

LEMMA StillKeeps ==
  ASSUME NEW T \in Int, NEW E \in Int, NEW D \in Int, NEW H \in Int,
         NEW L \in Int, At(T, E, D, H, L), Still
  PROVE  At(T, E, D, H, L)'
<1>0. Counts(T, E, D, H) /\ Marks(D, H) /\ Seen(T, E, L)
  BY DEF At
<1>1. /\ UNCHANGED <<head, tail, executed, dmacount, hw, compSlot, lastSeen, completed>>
      /\ pc' # "walk" \/ pc = "walk"
      /\ pc' # "ring" \/ pc = "ring"
      /\ pc' = "prep" => \/ origHead' = head
                         \/ pc = "prep" /\ origHead' = origHead
  BY DEF Still, BuildBegin, BuildEnd, FlushBegin, WalkCallback, EngineHalt, driver, build,
     engine, vars
<1>2. Counts(T, E, D, H)' /\ Seen(T, E, L)'
  BY <1>0, <1>1 DEF Counts, Seen
<1>3. D <= H /\ head = H % CountMod
  BY <1>0 DEF Counts
<1>4. Marks(D, H)'
  BY <1>0, <1>1, <1>3 DEF Marks
<1> QED
  BY <1>2, <1>4 DEF At

LEMMA ChannelStep == ChannelInv /\ [Next]_vars => ChannelInv'
<1> SUFFICES ASSUME ChannelInv, [Next]_vars PROVE ChannelInv'
  OBVIOUS
<1>0. TypeOK /\ TypeOK'
  BY TypeStep DEF ChannelInv
<1>1. PICK T, E, D, H, L \in Int : At(T, E, D, H, L)
  BY DEF ChannelInv
<1>2. SUFFICES \E t, e, d, h, l \in Int : At(t, e, d, h, l)'
  BY <1>0 DEF ChannelInv
<1>3. Counts(T, E, D, H) /\ Marks(D, H) /\ Seen(T, E, L)
  BY <1>1 DEF At
<1> USE DEF driver, build, engine, vars
<1>4. CASE Prep
  BY <1>0, <1>1, <1>4, PrepKeeps
<1>5. CASE Refuse
  BY <1>1, <1>5, RefuseKeeps
<1>6. CASE FlushMark
  BY <1>0, <1>1, <1>6, FlushMarkKeeps
<1>7. CASE FlushRing
  BY <1>1, <1>7, FlushRingKeeps
<1>8. CASE PollBegin
  BY <1>0, <1>1, <1>8, PollBeginKeeps
<1>9. CASE WalkSkip \/ CallbackReturn
  <2>1. /\ Retire /\ UNCHANGED <<head, hw, dmacount, engine>>
        /\ completed # NoSlot /\ pc # "prep" /\ pc # "ring"
    BY <1>3, <1>9 DEF WalkSkip, CallbackReturn, Seen
  <2>2. T + 1 \in Int /\ At(T + 1, E, D, H, L)'
    BY <1>0, <1>1, <2>1, RetireKeeps
  <2> QED
    BY <2>2
<1>10. CASE EngineExecute
  <2>1. E + 1 \in Int /\ \E M \in Int : At(T, E + 1, D, H, M)'
    BY <1>1, <1>10, EngineExecuteKeeps
  <2> QED
    BY <2>1
<1>11. CASE Still
  BY <1>1, <1>11, StillKeeps
<1> QED
  BY <1>4, <1>5, <1>6, <1>7, <1>8, <1>9, <1>10, <1>11
  DEF Next, Build, Flush, Poll, Engine, Still

LEMMA ChannelInvariant == Spec => []ChannelInv
<1>1. Init => ChannelInv
  BY TypeInit, CountsInit DEF ChannelInv
<1> QED
  BY <1>1, ChannelStep, PTL DEF Spec

-----------------------------------------------------------------------------
(* No descriptor changes between its announcement to the engine and its    *)
(* execution: not when the ring fills up, not when a call that ran out of  *)
(* room gives descriptors back, not when flush marks the last one again.   *)
THEOREM DescriptorsStable == Spec => DescriptorStable
<1>1. ChannelInv /\ [Next]_vars => [\A s \in EngineOwned : hw'[s] = hw[s]]_vars
  <2> SUFFICES ASSUME ChannelInv, Next, NEW s \in EngineOwned
               PROVE  hw'[s] = hw[s]
    OBVIOUS
  <2>1. PICK T, E, D, H, L \in Int : At(T, E, D, H, L)
    BY DEF ChannelInv
  <2>2. Counts(T, E, D, H) /\ TypeOK
    BY <2>1 DEF At, ChannelInv
  <2>3. PICK j \in Int : E <= j /\ j < D /\ s = Index(j)
    <3>1. ToExecute = D - E /\ \A k \in Int : Index(executed + k) = Index(E + k)
      BY <2>2, Measures
    <3>2. PICK k \in 0 .. ToExecute - 1 : s = Index(executed + k)
      BY DEF EngineOwned
    <3>3. E + k \in Int /\ E <= E + k /\ E + k < D /\ s = Index(E + k)
      BY <3>1, <3>2
    <3> QED
      BY <3>3
  <2>4. T <= j /\ j < D /\ D <= H
    BY <2>2, <2>3 DEF Counts
  <2>5. CASE Prep
    <3>1. \A i \in Int : T - 1 <= i /\ i < H => hw'[Index(i)] = hw[Index(i)]
      BY <2>1, <2>2, <2>5, PrepKeeps
    <3>2. T - 1 <= j /\ j < H
      BY <2>4
    <3> QED
      BY <2>3, <3>1, <3>2
  <2>6. CASE FlushMark
    BY <2>1, <2>2, <2>3, <2>4, <2>6, FlushMarkKeeps
  <2>7. CASE hw' = hw
    BY <2>7
  <2>8. Prep \/ FlushMark \/ hw' = hw
    BY DEF Next, Build, BuildBegin, Refuse, BuildEnd, Flush, FlushBegin, FlushRing, Poll,
       PollBegin, WalkSkip, WalkCallback, CallbackReturn, Engine, EngineExecute, EngineHalt
  <2> QED
    BY <2>5, <2>6, <2>7, <2>8
<1> QED
  BY <1>1, ChannelInvariant, PTL DEF Spec, DescriptorStable

(* process_events finds work exactly when the engine has finished a        *)
(* descriptor that flush had marked.                                       *)
THEOREM CompletionsExact == Spec => []CompletionExact
<1>1. ASSUME ChannelInv PROVE CompletionExact
  <2> SUFFICES ASSUME completed = NoSlot
               PROVE  compSlot # lastSeen
                        <=> \E k \in 0 .. Ahead - 1 : hw[Index(tail + k)].update
    BY DEF CompletionExact
  <2>1. PICK T, E, D, H, L \in Int : At(T, E, D, H, L)
    BY <1>1 DEF ChannelInv
  <2>2. Counts(T, E, D, H) /\ Seen(T, E, L)
    BY <2>1 DEF At
  <2>3. Ahead = E - T /\ \A k \in Int : Index(tail + k) = Index(T + k)
    BY <2>2, Measures
  <2>4. T - 1 <= L /\ L <= E - 1 /\ L - (T - 1) < RingSize
    BY <2>2, Widths DEF Counts, Seen
  <2>5. compSlot = Index(L) /\ lastSeen = Index(T - 1)
    BY <2>2 DEF Seen
  <2>6. CASE L = T - 1
    <3>1. ASSUME NEW k \in 0 .. Ahead - 1 PROVE ~ hw[Index(tail + k)].update
      <4>1. T + k \in Int /\ L < T + k /\ T + k < E /\ Index(tail + k) = Index(T + k)
        BY <2>3, <2>6
      <4> QED
        BY <2>2, <4>1 DEF Seen
    <3> QED
      BY <2>5, <2>6, <3>1
  <2>7. CASE L >= T
    <3>1. compSlot # lastSeen
      BY <2>4, <2>5, <2>7, IndexWindow, Widths
    <3>2. L - T \in 0 .. Ahead - 1 /\ Index(tail + (L - T)) = Index(L)
      <4>1. T + (L - T) = L /\ L - T \in Int
        OBVIOUS
      <4> QED
        BY <2>3, <2>4, <2>7, <4>1
    <3>3. hw[Index(tail + (L - T))].update
      BY <2>2, <2>7, <3>2 DEF Seen
    <3> QED
      BY <3>1, <3>2, <3>3
  <2> QED
    BY <2>4, <2>6, <2>7
<1> QED
  BY <1>1, ChannelInvariant, PTL

(* The walk of process_events meets the descriptor it stops at, and        *)
(* retires none that the engine has not executed.                          *)
THEOREM WalkStops == Spec => []WalkBehindEngine
<1>1. ASSUME ChannelInv PROVE WalkBehindEngine
  <2> SUFFICES ASSUME completed # NoSlot
               PROVE  \E k \in 0 .. Ahead - 1 : Index(tail + k) = completed
    BY DEF WalkBehindEngine
  <2>1. PICK T, E, D, H, L \in Int : At(T, E, D, H, L)
    BY <1>1 DEF ChannelInv
  <2>2. Counts(T, E, D, H) /\ Seen(T, E, L)
    BY <2>1 DEF At
  <2>3. Ahead = E - T /\ \A k \in Int : Index(tail + k) = Index(T + k)
    BY <2>2, Measures
  <2>4. PICK C \in Int : T <= C /\ C <= L /\ completed = Index(C)
    BY <2>2 DEF Seen
  <2>5. C - T \in 0 .. Ahead - 1 /\ T + (C - T) = C
    BY <2>2, <2>3, <2>4 DEF Seen
  <2> QED
    BY <2>3, <2>4, <2>5
<1> QED
  BY <1>1, ChannelInvariant, PTL

=============================================================================

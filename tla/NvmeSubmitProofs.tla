-------------------------- MODULE NvmeSubmitProofs -------------------------
(***************************************************************************)
(* The hand-over of a command by nvme_submit_io and nvme_kick, for any     *)
(* vectors and any number of commands.  On a processor that keeps its      *)
(* stores in order the doorbell is the last of the three to become visible.*)
(* A page of the command is unmapped only if its own map has failed.  The  *)
(* list page holds the entries of the command, and the controller transfers*)
(* the blocks of the vector, or fails if one of its pages is not mapped.   *)
(***************************************************************************)
EXTENDS NvmeSubmit, TLAPS, WellFoundedInduction

(* The stores of the last command of which the first n are visible. *)
Waiting(n) ==
  CASE n = 0 -> <<Store("list", list), Store("sqe", cmd), Store("bell", tail)>>
    [] n = 1 -> <<Store("sqe", cmd), Store("bell", tail)>>
    [] n = 2 -> <<Store("bell", tail)>>
    [] OTHER -> <<>>

Visible(n) ==
  /\ n >= 1 => memory.list = list
  /\ n >= 2 => memory.sqe = cmd
  /\ memory.bell = IF n = 3 THEN tail ELSE tail - 1

(* What the controller sees lags behind the thread by at most the stores   *)
(* of one command, and only after nvme_kick.  Until the controller has     *)
(* fetched it no other is built: cmd and list are those of the stores.     *)
InOrder ==
  /\ tail \in Nat
  /\ memory = [list |-> memory.list, sqe |-> memory.sqe, bell |-> memory.bell]
  /\ \/ pc = "sent" /\ \E n \in 0 .. 3 : stores = Waiting(n) /\ Visible(n)
     \/ pc # "sent" /\ stores = <<>> /\ memory.bell = tail

LEMMA OrderInit == Init => InOrder
  BY DEF Init, InOrder

(* nvme_kick adds its three stores to none. *)
LEMMA KickKeeps ==
  ASSUME InOrder, Kick
  PROVE  InOrder'
<1>1. stores' = <<Store("list", list), Store("sqe", cmd), Store("bell", tail + 1)>>
  BY DEF InOrder, Kick, HandOver, loop
<1>2. stores' = Waiting(0)'
  BY <1>1 DEF Kick, Waiting, Store, loop
<1>3. Visible(0)'
  BY DEF InOrder, Kick, Visible, loop
<1> QED
  BY <1>2, <1>3 DEF InOrder, Kick

(* In order, only the oldest store can become visible. *)
LEMMA DrainKeeps ==
  ASSUME Ordered, InOrder, NEW i \in DOMAIN stores, Drain(i)
  PROVE  InOrder'
<1>1. PICK n \in 0 .. 3 : pc = "sent" /\ stores = Waiting(n) /\ Visible(n)
  BY DEF InOrder
<1>2. i = 1
  <2>1. i \in 1 .. Len(stores)
    BY <1>1 DEF Waiting
  <2> QED
    BY <2>1 DEF Drain
<1>3. n # 3
  BY <1>1 DEF Waiting
<1>4. stores' = Waiting(n + 1)'
  <2>1. stores' = SubSeq(stores, 1, 0) \o SubSeq(stores, 2, Len(stores))
    BY <1>2 DEF Drain, RemoveAt
  <2>2. CASE n = 0
    BY <1>1, <2>1, <2>2 DEF Waiting, Drain, Store
  <2>3. CASE n = 1
    BY <1>1, <2>1, <2>3 DEF Waiting, Drain, Store
  <2>4. CASE n = 2
    BY <1>1, <2>1, <2>4 DEF Waiting, Drain, Store
  <2> QED
    BY <1>3, <2>2, <2>3, <2>4
<1>5. memory' = [memory EXCEPT ![stores[1].loc] = stores[1].val] /\ UNCHANGED <<pc, list, cmd, tail>>
  BY <1>2 DEF Drain, loop
<1>6. Visible(n + 1)' /\ memory' = [list |-> memory'.list, sqe |-> memory'.sqe, bell |-> memory'.bell]
  <2>1. CASE n = 0
    <3>1. stores[1] = [loc |-> "list", val |-> list]
      BY <1>1, <2>1 DEF Waiting, Store
    <3>2. memory' = [list |-> list, sqe |-> memory.sqe, bell |-> memory.bell]
      <4>1. memory' = [memory EXCEPT !["list"] = list]
        BY <1>5, <3>1
      <4>2. memory = [list |-> memory.list, sqe |-> memory.sqe, bell |-> memory.bell]
        BY DEF InOrder
      <4> QED
        BY <4>1, <4>2
    <3>3. memory'.list = list /\ memory'.sqe = memory.sqe /\ memory'.bell = memory.bell
      BY <3>2
    <3>4. Visible(n + 1)'
      BY <1>1, <1>5, <2>1, <3>3 DEF Visible
    <3> QED
      BY <3>2, <3>3, <3>4
  <2>2. CASE n = 1
    <3>1. stores[1] = [loc |-> "sqe", val |-> cmd]
      BY <1>1, <2>2 DEF Waiting, Store
    <3>2. memory' = [list |-> memory.list, sqe |-> cmd, bell |-> memory.bell]
      <4>1. memory' = [memory EXCEPT !["sqe"] = cmd]
        BY <1>5, <3>1
      <4>2. memory = [list |-> memory.list, sqe |-> memory.sqe, bell |-> memory.bell]
        BY DEF InOrder
      <4> QED
        BY <4>1, <4>2
    <3>3. memory'.list = memory.list /\ memory'.sqe = cmd /\ memory'.bell = memory.bell
      BY <3>2
    <3>4. Visible(n + 1)'
      BY <1>1, <1>5, <2>2, <3>3 DEF Visible
    <3> QED
      BY <3>2, <3>3, <3>4
  <2>3. CASE n = 2
    <3>1. stores[1] = [loc |-> "bell", val |-> tail]
      BY <1>1, <2>3 DEF Waiting, Store
    <3>2. memory' = [list |-> memory.list, sqe |-> memory.sqe, bell |-> tail]
      <4>1. memory' = [memory EXCEPT !["bell"] = tail]
        BY <1>5, <3>1
      <4>2. memory = [list |-> memory.list, sqe |-> memory.sqe, bell |-> memory.bell]
        BY DEF InOrder
      <4> QED
        BY <4>1, <4>2
    <3>3. memory'.list = memory.list /\ memory'.sqe = memory.sqe /\ memory'.bell = tail
      BY <3>2
    <3>4. Visible(n + 1)'
      BY <1>1, <1>5, <2>3, <3>3 DEF Visible
    <3> QED
      BY <3>2, <3>3, <3>4
  <2> QED
    BY <1>3, <2>1, <2>2, <2>3
<1>7. n + 1 \in 0 .. 3
  BY <1>3
<1> QED
  BY <1>1, <1>4, <1>5, <1>6, <1>7 DEF InOrder

(* The controller that sees the doorbell of a command sees all of it. *)
LEMMA BellIsLast ==
  ASSUME InOrder, pc = "sent", memory.bell = tail
  PROVE  stores = <<>> /\ memory.list = list /\ memory.sqe = cmd
<1>1. PICK n \in 0 .. 3 : stores = Waiting(n) /\ Visible(n)
  BY DEF InOrder
<1>2. n = 3
  BY <1>1 DEF InOrder, Visible
<1> QED
  BY <1>1, <1>2 DEF Waiting, Visible

LEMMA OrderStep ==
  ASSUME Ordered, InOrder, [Next]_vars
  PROVE  InOrder'
<1>1. CASE \E v \in Vectors, b \in {0} \cup {Size(w) : w \in Vectors} : SubmitIo(v, b)
  BY <1>1 DEF InOrder, SubmitIo, hardware
<1>2. CASE \E v \in Vectors : Abort(v)
  BY <1>2 DEF InOrder, Abort, hardware
<1>3. CASE Kick
  BY <1>3, KickKeeps
<1>4. CASE \E i \in DOMAIN stores : Drain(i)
  BY <1>4, DrainKeeps
<1>5. CASE DevFetch
  BY <1>5, BellIsLast DEF InOrder, DevFetch
<1>6. CASE UNCHANGED vars
  BY <1>6 DEF InOrder, Waiting, Visible, Store, vars, loop, hardware
<1>7. CASE MapElement \/ Build \/ NoEntry
  BY <1>7 DEF InOrder, MapElement, Build, NoEntry, hardware
<1> QED
  BY <1>1, <1>2, <1>3, <1>4, <1>5, <1>6, <1>7 DEF Next, Stopped

(* On a processor that keeps stores in order the controller fetches the    *)
(* entry and the page list that were written last: the compiler barrier in *)
(* nvme_kick and before the doorbell is enough there, however many         *)
(* commands have used the same request and the same list page before.      *)
THEOREM FetchesFresh == ASSUME Ordered PROVE Spec => FetchFresh
<1>1. InOrder /\ [Next]_vars => [pc = "sent" /\ pc' = "app" => memory.sqe = cmd /\ memory.list = list]_vars
  <2>1. ASSUME InOrder, Next, pc = "sent", pc' = "app" PROVE DevFetch
    BY <2>1 DEF Next, SubmitIo, Abort, MapElement, Build, NoEntry, Kick, Drain, Stopped, vars
  <2> QED
    BY <2>1, BellIsLast DEF DevFetch
<1> QED
  BY <1>1, OrderInit, OrderStep, PTL DEF Spec, FetchFresh

-----------------------------------------------------------------------------
(* The pages mapped are those of whole extents submitted.  The loop has    *)
(* been through the elements up to next: each is mapped, or its map has    *)
(* failed, or it was turned down for having a page that is mapped already. *)
(* In the last case that page belongs to an extent mapped as a whole: if   *)
(* the extents submitted are equal or apart, to the same one.              *)
Reached ==
  /\ vec \in Vectors \cup {<<>>} /\ next \in 0 .. Len(vec)
  /\ refused \subseteq 1 .. next
  /\ pc \in {"kick", "sent"} => next = Len(vec)
  /\ pc \in {"map", "kick", "sent"} => \A i \in DOMAIN vec : vec[i] \in used

Held ==
  \A p \in mapped : \E e \in used : p \in PagesOf(e) /\ PagesOf(e) \subseteq mapped

Through ==
  pc \in {"map", "kick", "sent"} /\ Stable =>
    \A i \in 1 .. next : i \in refused \/ PagesOf(vec[i]) \subseteq mapped

MapInv == Reached /\ Held /\ Through

LEMMA VectorTyped ==
  ASSUME NEW v \in Vectors \cup {<<>>}
  PROVE  /\ Len(v) \in Nat /\ DOMAIN v = 1 .. Len(v)
         /\ \A i \in 1 .. Len(v) : v[i] \in [base : Nat \ {0}, len : Nat]
<1> DEFINE Element == [base : Nat \ {0}, len : Nat]
<1>1. <<>> \in Seq(Element)
  <2> HIDE DEF Element
  <2> QED
    OBVIOUS
<1>2. Vectors \subseteq Seq(Element)
  BY VectorsAssumption
<1> HIDE DEF Element
<1>3. v \in Seq(Element)
  BY <1>1, <1>2
<1>4. Len(v) \in Nat /\ DOMAIN v = 1 .. Len(v) /\ \A i \in 1 .. Len(v) : v[i] \in Element
  BY <1>3
<1> QED
  BY <1>4 DEF Element

(* What the answer to the map of an element leaves: an element that was    *)
(* there already is left to what is mapped.                                *)
LEMMA Answers ==
  ASSUME NEW e, e.len \in Nat, NEW answer \in DmaMap(e)
  PROVE  /\ Mapped(e, answer) \in {mapped, mapped \cup PagesOf(e)}
         /\ \/ answer = "failed"
            \/ answer = "exists" /\ PagesOf(e) \cap mapped # {}
            \/ answer = "mapped" /\ Mapped(e, answer) = mapped \cup PagesOf(e)
<1>1. answer \in {"failed", "exists", "mapped"} /\ (answer = "exists" => PagesOf(e) \cap mapped # {})
  <2>1. CASE ~ Whole(e) \/ e.len = 0
    BY <2>1 DEF DmaMap
  <2>2. CASE Whole(e) /\ e.len > 0
    BY <2>2 DEF DmaMap
  <2> QED
    BY <2>1, <2>2
<1> QED
  BY <1>1 DEF Mapped

(* One turn of the loop, and what the IOMMU does with the element. *)
LEMMA MapElementKeeps ==
  ASSUME MapInv, MapElement
  PROVE  MapInv'
<1> DEFINE e == vec[next + 1]
<1>1. /\ pc = "map" /\ pc' = "map" /\ next \in Nat /\ next < Len(vec) /\ next' = next + 1
      /\ UNCHANGED <<vec, used>> /\ refused \subseteq 1 .. next
      /\ Len(vec) \in Nat /\ DOMAIN vec = 1 .. Len(vec)
  BY VectorTyped DEF MapInv, Reached, MapElement, call
<1>2. e \in used /\ e.len \in Nat
  BY <1>1, VectorTyped DEF MapInv, Reached
<1>3. PICK answer \in DmaMap(e) :
        /\ mapped' = Mapped(e, answer)
        /\ refused' = IF answer = "failed" THEN refused \cup {next + 1} ELSE refused
  BY DEF MapElement
<1> HIDE DEF e
<1>4. /\ mapped' \in {mapped, mapped \cup PagesOf(e)}
      /\ \/ answer = "failed"
         \/ answer = "exists" /\ PagesOf(e) \cap mapped # {}
         \/ answer = "mapped" /\ mapped' = mapped \cup PagesOf(e)
  BY <1>2, <1>3, Answers
<1>5. Reached'
  BY <1>1, <1>3 DEF MapInv, Reached
<1>6. Held'
  BY <1>1, <1>2, <1>4 DEF MapInv, Held
<1>7. Through'
  <2> SUFFICES ASSUME Stable, NEW i \in 1 .. next + 1
               PROVE  i \in refused' \/ PagesOf(vec[i]) \subseteq mapped'
    BY <1>1 DEF Through, Stable
  <2>1. CASE i # next + 1
    <3>1. i \in 1 .. next
      BY <1>1, <2>1
    <3>2. i \in refused \/ PagesOf(vec[i]) \subseteq mapped
      BY <1>1, <3>1 DEF MapInv, Through
    <3> QED
      BY <1>3, <1>4, <3>2
  <2>2. CASE i = next + 1
    <3>1. vec[i] = e
      BY <2>2 DEF e
    <3>2. CASE answer = "failed"
      BY <1>3, <2>2, <3>2
    <3>3. CASE PagesOf(e) \cap mapped # {}
      <4>1. PICK p : p \in PagesOf(e) /\ p \in mapped
        BY <3>3
      <4>2. PICK f \in used : p \in PagesOf(f) /\ PagesOf(f) \subseteq mapped
        BY <4>1 DEF MapInv, Held
      <4>3. f = e
        BY <1>2, <4>1, <4>2 DEF Stable
      <4> QED
        BY <1>4, <3>1, <4>2, <4>3
    <3>4. CASE mapped' = mapped \cup PagesOf(e)
      BY <3>1, <3>4
    <3> QED
      BY <1>4, <3>2, <3>3, <3>4
  <2> QED
    BY <2>1, <2>2
<1> QED
  BY <1>5, <1>6, <1>7 DEF MapInv

LEMMA MapInit == Init => MapInv
<1> SUFFICES ASSUME Init PROVE MapInv
  OBVIOUS
<1>1. pc = "app" /\ vec = <<>> /\ next = 0 /\ mapped = {} /\ refused = {}
  BY DEF Init
<1> QED
  BY <1>1 DEF MapInv, Reached, Held, Through

LEMMA MapStep == MapInv /\ [Next]_vars => MapInv'
<1> SUFFICES ASSUME MapInv, [Next]_vars PROVE MapInv'
  OBVIOUS
<1> USE DEF MapInv, call, loop
<1>1. ASSUME NEW v \in Vectors, NEW b \in {0} \cup {Size(w) : w \in Vectors}, SubmitIo(v, b)
      PROVE  MapInv'
  <2>1. /\ pc' = "map" /\ next' = 0 /\ vec' = v /\ mapped' = mapped /\ refused' = {}
        /\ used' = used \cup {v[i] : i \in DOMAIN v} /\ Len(v) \in Nat
    BY <1>1, VectorTyped DEF SubmitIo
  <2>2. Reached'
    BY <2>1 DEF Reached
  <2>3. Held'
    BY <2>1 DEF Held
  <2>4. Through'
    BY <2>1 DEF Through
  <2> QED
    BY <2>2, <2>3, <2>4
<1>2. CASE MapElement
  BY <1>2, MapElementKeeps
<1>3. ASSUME UNCHANGED <<vec, used, next, mapped, refused>>,
             pc' \in {"app", "aborted"} \/ pc' = pc \/ (pc = "map" /\ next = Len(vec))
                \/ (pc \in {"map", "kick"} /\ pc' = "sent" /\ next = Len(vec))
      PROVE  MapInv'
  BY <1>3 DEF Reached, Held, Through, Stable
<1>4. CASE (\E v \in Vectors : Abort(v)) \/ Build \/ NoEntry \/ DevFetch \/ UNCHANGED vars
  BY <1>3, <1>4 DEF Abort, Build, NoEntry, DevFetch, vars
<1>5. CASE Kick
  BY <1>3, <1>5 DEF Kick, Reached
<1>6. CASE \E i \in DOMAIN stores : Drain(i)
  BY <1>3, <1>6 DEF Drain
<1> QED
  BY <1>1, <1>2, <1>4, <1>5, <1>6 DEF Next, Stopped

(* propig_vfio_dma_map may fail for any element and nobody looks; but if   *)
(* the controller cannot reach a page of the command, then the map of its  *)
(* element failed in this call.  Being mapped already is never the reason, *)
(* whatever was submitted before and however often maps have failed, as    *)
(* long as the extents submitted are each the same as another or apart.    *)
THEOREM CommandMapped == Spec => []PagesMapped
<1>1. ASSUME MapInv PROVE PagesMapped
  <2> SUFFICES ASSUME pc = "sent", Stable, NEW i \in DOMAIN vec
               PROVE  i \in refused \/ PagesOf(vec[i]) \subseteq mapped
    BY DEF PagesMapped
  <2>1. next = Len(vec) /\ DOMAIN vec = 1 .. Len(vec)
    BY <1>1, VectorTyped DEF MapInv, Reached
  <2> QED
    BY <1>1, <2>1 DEF MapInv, Through
<1> QED
  BY <1>1, MapInit, MapStep, PTL DEF Spec

-----------------------------------------------------------------------------
(* Induction up to n, for a set: the smallest number outside of it would   *)
(* have a predecessor inside.                                              *)
LEMMA Induction ==
  ASSUME NEW n \in Nat, NEW S, 0 \in S, \A i \in 0 .. n - 1 : i \in S => i + 1 \in S
  PROVE  0 .. n \subseteq S
<1> DEFINE Less == OpToRel(<, Nat)
           Missing == (0 .. n) \ S
<1>1. IsWellFoundedOn(Less, Nat)
  BY NatLessThanWellFounded, Zenon
<1>2. \A i \in Nat : <<i, i + 1>> \in Less
  BY SMT DEF OpToRel
<1> HIDE DEF Less
<1> SUFFICES ASSUME Missing # {} PROVE FALSE
  OBVIOUS
<1>3. PICK m \in Missing : \A i \in Missing : ~ (<<i, m>> \in Less)
  <2>1. Missing \subseteq Nat
    OBVIOUS
  <2> HIDE DEF Missing
  <2> QED
    BY <1>1, <2>1, WFMin
<1>4. m # 0 /\ m - 1 \in 0 .. n - 1 /\ m - 1 \in Nat /\ m - 1 + 1 = m
  OBVIOUS
<1>5. m - 1 \notin Missing
  BY <1>2, <1>3, <1>4
<1> QED
  BY <1>3, <1>4, <1>5

LEMMA DivMod ==
  ASSUME NEW n \in Int, NEW p \in Nat \ {0}
  PROVE  n \div p \in Int /\ n % p \in 0 .. p - 1 /\ n = p * (n \div p) + (n % p)
OBVIOUS

LEMMA DivUnique ==
  ASSUME NEW p \in Nat \ {0}, NEW q \in Int, NEW r \in 0 .. p - 1
  PROVE  (p * q + r) \div p = q /\ (p * q + r) % p = r
BY SMTT(30)

LEMMA Cancel ==
  ASSUME NEW p \in Nat \ {0}, NEW x \in Int, NEW y \in Int
  PROVE  /\ p * x \in Int
         /\ p * x <= p * y => x <= y
         /\ p * x < p * y => x < y
         /\ p * x = p * y => x = y
BY SMTT(30)

(* The equation of a function that adds up the elements of v.              *)
Adds(f, v, m) == f = [i \in 0 .. m |-> IF i = 0 THEN 0 ELSE f[i - 1] + v[i].len]

LEMMA SizesExists ==
  ASSUME NEW v, NEW n \in Nat
  PROVE  \E f : Adds(f, v, n)
<1> DEFINE S == {m \in Nat : \E f : Adds(f, v, m)}
<1>1. 0 \in S
  <2>1. Adds([i \in 0 .. 0 |-> 0], v, 0)
    BY DEF Adds
  <2> QED
    BY <2>1
<1>2. ASSUME NEW m \in 0 .. n - 1, m \in S PROVE m + 1 \in S
  <2>1. PICK f : Adds(f, v, m)
    BY <1>2
  <2> DEFINE g == [i \in 0 .. m + 1 |-> IF i = m + 1 THEN f[m] + v[i].len ELSE f[i]]
  <2>2. Adds(g, v, m + 1)
    <3>1. \A i \in 0 .. m + 1 : g[i] = IF i = 0 THEN 0 ELSE g[i - 1] + v[i].len
      BY <2>1 DEF Adds
    <3>2. g = [i \in 0 .. m + 1 |-> g[i]]
      OBVIOUS
    <3> HIDE DEF g
    <3> QED
      BY <3>1, <3>2 DEF Adds
  <2> HIDE DEF g
  <2> QED
    BY <2>2
<1> HIDE DEF S
<1>3. n \in S
  BY <1>1, <1>2, Induction
<1> QED
  BY <1>3 DEF S

LEMMA SizesEquation ==
  ASSUME NEW v, Len(v) \in Nat
  PROVE  Adds(Sizes(v), v, Len(v))
<1>1. \E f : Adds(f, v, Len(v))
  BY SizesExists
<1>2. Sizes(v) = CHOOSE f : Adds(f, v, Len(v))
  BY DEF Sizes, Adds
<1> QED
  BY <1>1, <1>2

(* What the elements of a vector have: their sums, and whole pages if each *)
(* of them has.                                                            *)
LEMMA SizesTyped ==
  ASSUME NEW v \in Vectors \cup {<<>>}
  PROVE  /\ DOMAIN Sizes(v) = 0 .. Len(v)
         /\ Sizes(v)[0] = 0
         /\ \A i \in 1 .. Len(v) : Sizes(v)[i] = Sizes(v)[i - 1] + v[i].len
         /\ \A i \in 0 .. Len(v) : Sizes(v)[i] \in Nat
<1> DEFINE S == {i \in 0 .. Len(v) : Sizes(v)[i] \in Nat}
<1>1. Len(v) \in Nat /\ \A i \in 1 .. Len(v) : v[i].len \in Nat
  BY VectorTyped
<1>2. Adds(Sizes(v), v, Len(v))
  BY <1>1, SizesEquation
<1>3. /\ DOMAIN Sizes(v) = 0 .. Len(v) /\ Sizes(v)[0] = 0
      /\ \A i \in 1 .. Len(v) : Sizes(v)[i] = Sizes(v)[i - 1] + v[i].len
  <2>1. ASSUME NEW g, Adds(g, v, Len(v))
        PROVE  /\ DOMAIN g = 0 .. Len(v) /\ g[0] = 0
               /\ \A i \in 1 .. Len(v) : g[i] = g[i - 1] + v[i].len
    BY <1>1, <2>1 DEF Adds
  <2> QED
    BY <1>2, <2>1
<1>4. 0 \in S
  BY <1>1, <1>3
<1>5. ASSUME NEW i \in 0 .. Len(v) - 1, i \in S PROVE i + 1 \in S
  <2>1. Sizes(v)[i + 1] = Sizes(v)[i + 1 - 1] + v[i + 1].len /\ i + 1 - 1 = i
    BY <1>1, <1>3
  <2> QED
    BY <1>1, <1>5, <2>1
<1> HIDE DEF S
<1>6. 0 .. Len(v) \subseteq S
  BY <1>1, <1>4, <1>5, Induction
<1> QED
  BY <1>3, <1>6 DEF S

LEMMA SizesGrow ==
  ASSUME NEW v \in Vectors \cup {<<>>}, NEW i \in 0 .. Len(v), NEW k \in i .. Len(v)
  PROVE  Sizes(v)[i] <= Sizes(v)[k]
<1> DEFINE S == {d \in 0 .. Len(v) - i : Sizes(v)[i] <= Sizes(v)[i + d]}
<1>1. Len(v) \in Nat /\ (\A j \in 1 .. Len(v) : v[j].len \in Nat)
  BY VectorTyped
<1>2. 0 \in S
  BY <1>1, SizesTyped
<1>3. ASSUME NEW d \in 0 .. Len(v) - i - 1, d \in S PROVE d + 1 \in S
  <2>1. i + d + 1 \in 1 .. Len(v) /\ i + d + 1 - 1 = i + d /\ i + (d + 1) = i + d + 1
    BY <1>1
  <2>2. Sizes(v)[i + d + 1] = Sizes(v)[i + d] + v[i + d + 1].len
    BY <2>1, SizesTyped
  <2>3. Sizes(v)[i + d] \in Nat /\ Sizes(v)[i] \in Nat /\ v[i + d + 1].len \in Nat
    BY <1>1, <2>1, SizesTyped
  <2> QED
    BY <1>1, <1>3, <2>1, <2>2, <2>3
<1> HIDE DEF S
<1>4. Len(v) - i \in Nat /\ k - i \in 0 .. Len(v) - i /\ i + (k - i) = k
  BY <1>1
<1>5. 0 .. Len(v) - i \subseteq S
  BY <1>2, <1>3, <1>4, Induction
<1> QED
  BY <1>4, <1>5 DEF S

LEMMA SizesWhole ==
  ASSUME NEW v \in Vectors \cup {<<>>}, \A i \in DOMAIN v : Whole(v[i])
  PROVE  \A i \in 0 .. Len(v) : Sizes(v)[i] % PageBlocks = 0
<1> DEFINE S == {i \in 0 .. Len(v) : Sizes(v)[i] % PageBlocks = 0}
<1>1. /\ Len(v) \in Nat /\ DOMAIN v = 1 .. Len(v)
      /\ \A j \in 1 .. Len(v) : v[j].len \in Nat
  BY VectorTyped
<1>2. 0 \in S
  BY <1>1, SizesTyped, SizesAssumption
<1>3. ASSUME NEW i \in 0 .. Len(v) - 1, i \in S PROVE i + 1 \in S
  <2>1. i + 1 \in 1 .. Len(v) /\ i + 1 - 1 = i
    BY <1>1
  <2> DEFINE a == Sizes(v)[i]
             b == v[i + 1].len
  <2>2. Sizes(v)[i + 1] = a + b /\ a \in Int /\ b \in Int
    <3>1. Sizes(v)[i + 1] = Sizes(v)[i + 1 - 1] + v[i + 1].len
      BY <2>1, SizesTyped
    <3> QED
      BY <1>1, <2>1, <3>1, SizesTyped
  <2>3. a % PageBlocks = 0 /\ b % PageBlocks = 0
    BY <1>1, <1>3, <2>1 DEF Whole
  <2> HIDE DEF a, b
  <2>4. PageBlocks \in Nat \ {0} /\ a \div PageBlocks \in Int /\ b \div PageBlocks \in Int
    BY <2>2, DivMod, SizesAssumption
  <2>5. a = PageBlocks * (a \div PageBlocks) + (a % PageBlocks)
    BY <2>2, <2>4, DivMod, Zenon
  <2>6. b = PageBlocks * (b \div PageBlocks) + (b % PageBlocks)
    BY <2>2, <2>4, DivMod, Zenon
  <2>7. (a + b) % PageBlocks = 0
    <3> DEFINE q == a \div PageBlocks + b \div PageBlocks
    <3>1. a + b = PageBlocks * q + 0 /\ q \in Int /\ 0 \in 0 .. PageBlocks - 1
      BY <2>2, <2>3, <2>4, <2>5, <2>6
    <3> HIDE DEF q
    <3>2. (PageBlocks * q + 0) % PageBlocks = 0
      BY <2>4, <3>1, DivUnique, Zenon
    <3> QED
      BY <3>1, <3>2
  <2> QED
    BY <2>1, <2>2, <2>7
<1> HIDE DEF S
<1>4. 0 .. Len(v) \subseteq S
  BY <1>1, <1>2, <1>3, Induction
<1> QED
  BY <1>4 DEF S

-----------------------------------------------------------------------------
(* The loop has written as many entries as the elements it has been through*)
(* have whole pages, and for elements of whole pages they name their pages *)
(* and no others.                                                          *)
(* A command is built from the complete list.                              *)
Lists == [0 .. MaxEntries - 1 -> Nat]
Commands == [prp1 : Nat, prp2 : Nat, nlb : 0 .. NlbMod - 1]
Places == {"list", "sqe", "bell"}

Typed ==
  /\ pc \in {"app", "map", "kick", "sent", "aborted"}
  /\ bytes \in Nat /\ tail \in 0 .. MaxCommands
  /\ pc \in {"map", "kick"} => tail < MaxCommands
  /\ list \in Lists /\ cmd \in Commands /\ mapped \subseteq Nat \ {0}
  /\ DOMAIN memory = Places
  /\ stores \in Seq([loc : Places, val : Lists \cup Commands \cup Nat])

AllWhole == \A i \in DOMAIN vec : Whole(vec[i])

Counted ==
  /\ Accepted(vec) /\ entries \in Nat
  /\ PageBlocks * entries <= Sizes(vec)[next]
  /\ AllWhole => PageBlocks * entries = Sizes(vec)[next]

Written ==
  AllWhole => \A i \in 1 .. next : \A j \in 0 .. Entries(vec[i]) - 1 :
                list[Sizes(vec)[i - 1] \div PageBlocks + j] = vec[i].base + j

Covered ==
  AllWhole => \A p \in 0 .. entries - 1 : \E i \in 1 .. next : list[p] \in PagesOf(vec[i])

Built ==
  pc \in {"kick", "sent"} \/ (pc = "app" /\ tail > 0) =>
    /\ next = Len(vec) /\ entries > 0
    /\ cmd = [prp1 |-> list[0], prp2 |-> Prp2, nlb |-> Nlb(bytes)]

DataInv == Reached /\ Typed /\ Counted /\ Written /\ Covered /\ Built

(* The list page has room for the entries of the elements up to n. *)
LEMMA EntriesFit ==
  ASSUME NEW v \in Vectors \cup {<<>>}, Accepted(v), NEW n \in 0 .. Len(v),
         NEW k \in Nat, PageBlocks * k <= Sizes(v)[n]
  PROVE  k \in 0 .. MaxEntries
<1> DEFINE s == Size(v)
<1>1. Sizes(v)[n] <= s /\ s \in Int /\ Sizes(v)[n] \in Nat
  <2>1. Len(v) \in n .. Len(v) /\ Len(v) \in 0 .. Len(v)
    BY VectorTyped
  <2> QED
    BY <2>1, SizesGrow, SizesTyped DEF Size
<1>2. s % PageBlocks = 0 /\ s \div PageBlocks <= MaxEntries
  BY DEF Accepted
<1> HIDE DEF s
<1>3. PageBlocks \in Nat \ {0} /\ MaxEntries \in Nat
  BY SizesAssumption
<1>4. s \div PageBlocks \in Int /\ s = PageBlocks * (s \div PageBlocks) + (s % PageBlocks)
  BY <1>1, <1>3, DivMod, Zenon
<1>5. PageBlocks * k <= PageBlocks * (s \div PageBlocks)
  BY <1>1, <1>2, <1>3, <1>4
<1>6. k <= s \div PageBlocks
  <2>1. k \in Int
    OBVIOUS
  <2> QED
    BY <1>3, <1>4, <1>5, <2>1, Cancel, Zenon
<1> QED
  BY <1>2, <1>3, <1>4, <1>6

(* The entries of an element of whole pages are in the list page where the *)
(* pages before them end.                                                  *)
LEMMA ElementAt ==
  ASSUME NEW v \in Vectors \cup {<<>>}, \A i \in DOMAIN v : Whole(v[i]),
         NEW i \in 1 .. Len(v)
  PROVE  /\ Sizes(v)[i] \div PageBlocks = Sizes(v)[i - 1] \div PageBlocks + Entries(v[i])
         /\ Sizes(v)[i - 1] \div PageBlocks \in Nat /\ Entries(v[i]) \in Nat
         /\ Sizes(v)[i - 1] = PageBlocks * (Sizes(v)[i - 1] \div PageBlocks)
         /\ v[i].len = PageBlocks * Entries(v[i])
<1> DEFINE a == Sizes(v)[i - 1]
           b == v[i].len
<1>1. /\ Len(v) \in Nat /\ DOMAIN v = 1 .. Len(v) /\ b \in Nat
      /\ i - 1 \in 0 .. Len(v)
  BY VectorTyped
<1>2. a \in Nat /\ Sizes(v)[i] = a + b
  BY <1>1, SizesTyped
<1>3. a % PageBlocks = 0 /\ b % PageBlocks = 0
  BY <1>1, SizesWhole DEF Whole
<1> HIDE DEF a, b
<1>4. PageBlocks \in Nat \ {0} /\ a \in Int /\ b \in Int
  BY <1>1, <1>2, SizesAssumption
<1>5. a \div PageBlocks \in Int /\ a = PageBlocks * (a \div PageBlocks) + (a % PageBlocks)
  BY <1>4, DivMod, Zenon
<1>6. b \div PageBlocks \in Int /\ b = PageBlocks * (b \div PageBlocks) + (b % PageBlocks)
  BY <1>4, DivMod, Zenon
<1> DEFINE q == a \div PageBlocks
           r == b \div PageBlocks
<1>7. /\ q \in Int /\ r \in Int /\ a = PageBlocks * q /\ b = PageBlocks * r
      /\ a + b = PageBlocks * (q + r) + 0 /\ 0 \in 0 .. PageBlocks - 1 /\ q + r \in Int
  BY <1>3, <1>4, <1>5, <1>6
<1> HIDE DEF q, r
<1>8. (PageBlocks * (q + r) + 0) \div PageBlocks = q + r
  BY <1>4, <1>7, DivUnique, Zenon
<1>9. q \in Nat /\ r \in Nat
  BY <1>1, <1>2, <1>4, <1>7
<1> QED
  BY <1>2, <1>7, <1>8, <1>9 DEF Entries, a, b, q, r

LEMMA EntriesBound ==
  ASSUME NEW e, e.len \in Nat
  PROVE  Entries(e) \in Nat /\ PageBlocks * Entries(e) <= e.len
<1> DEFINE n == e.len
           q == n \div PageBlocks
<1>1. PageBlocks \in Nat \ {0} /\ n \in Int /\ n >= 0
  BY SizesAssumption
<1>2. q \in Int /\ n = PageBlocks * q + (n % PageBlocks) /\ n % PageBlocks \in 0 .. PageBlocks - 1
  BY <1>1, DivMod, Zenon
<1> HIDE DEF n, q
<1>3. q \in Nat /\ PageBlocks * q <= n
  <2>1. PageBlocks * q <= n
    BY <1>1, <1>2
  <2>2. q >= 0
    BY <1>1, <1>2
  <2> QED
    BY <1>2, <2>1, <2>2
<1> QED
  BY <1>3 DEF Entries, n, q

(* An element of whole pages has the pages its entries name. *)
LEMMA WholePages ==
  ASSUME NEW e, e.len \in Nat, Whole(e)
  PROVE  PagesOf(e) = {e.base + j : j \in 0 .. Entries(e) - 1}
<1> DEFINE n == e.len
           q == n \div PageBlocks
<1>1. PageBlocks \in Nat \ {0} /\ n \in Int
  BY SizesAssumption
<1>2. q \in Int /\ n = PageBlocks * q + (n % PageBlocks)
  BY <1>1, DivMod, Zenon
<1>3. n % PageBlocks = 0
  BY DEF Whole
<1> HIDE DEF n, q
<1>4. n + PageBlocks - 1 = PageBlocks * q + (PageBlocks - 1) /\ PageBlocks - 1 \in 0 .. PageBlocks - 1
  BY <1>1, <1>2, <1>3
<1>5. (PageBlocks * q + (PageBlocks - 1)) \div PageBlocks = q
  BY <1>1, <1>2, <1>4, DivUnique, Zenon
<1>6. (n + PageBlocks - 1) \div PageBlocks = q
  BY <1>4, <1>5
<1> QED
  BY <1>6 DEF PagesOf, Entries, n, q

(* One turn of the loop: the entries of the earlier elements are below     *)
(* entries and stay, those of this element are put above.                  *)
LEMMA MapElementWrites ==
  ASSUME DataInv, MapElement, Reached'
  PROVE  DataInv'
<1> DEFINE e == vec[next + 1]
           E == Entries(e)
<1>1. /\ pc = "map" /\ pc' = "map" /\ next \in Nat /\ next + 1 \in 1 .. Len(vec) /\ next' = next + 1
      /\ UNCHANGED <<vec, bytes, cmd, tail, stores, memory>> /\ entries' = entries + E
      /\ list' = [i \in DOMAIN list |-> IF entries <= i /\ i < entries + E
                                       THEN e.base + (i - entries) ELSE list[i]]
      /\ Len(vec) \in Nat /\ DOMAIN vec = 1 .. Len(vec) /\ vec \in Vectors \cup {<<>>}
      /\ next \in 0 .. Len(vec)
  BY VectorTyped DEF DataInv, Reached, MapElement, call, hardware
<1>2. /\ e.base \in Nat \ {0} /\ e.len \in Nat
      /\ mapped' \in {mapped, mapped \cup PagesOf(e)}
  <2>1. e.base \in Nat \ {0} /\ e.len \in Nat
    BY <1>1, VectorTyped
  <2> QED
    BY <2>1, Answers DEF MapElement
<1>3. E \in Nat /\ PageBlocks * E <= e.len
  BY <1>2, EntriesBound
<1>4. entries \in Nat /\ PageBlocks \in Nat \ {0} /\ MaxEntries \in Nat
  BY SizesAssumption DEF DataInv, Counted
<1>5. Sizes(vec)[next + 1] = Sizes(vec)[next] + e.len /\ Sizes(vec)[next] \in Nat
  <2>1. Sizes(vec)[next + 1] = Sizes(vec)[next + 1 - 1] + vec[next + 1].len /\ next + 1 - 1 = next
    BY <1>1, SizesTyped
  <2> QED
    BY <1>1, <2>1, SizesTyped
<1>6. AllWhole => e.len = PageBlocks * E
  BY <1>1, ElementAt DEF AllWhole
<1> HIDE DEF E, e
<1>7. PageBlocks * (entries + E) = PageBlocks * entries + PageBlocks * E
  BY <1>3, <1>4
<1>8. Counted'
  <2>1. PageBlocks * entries' <= Sizes(vec)[next + 1]
    BY <1>1, <1>2, <1>3, <1>4, <1>5, <1>7 DEF DataInv, Counted
  <2>2. AllWhole => PageBlocks * entries' = Sizes(vec)[next + 1]
    BY <1>1, <1>5, <1>6, <1>7 DEF DataInv, Counted
  <2>3. Accepted(vec)' /\ AllWhole' = AllWhole /\ Sizes(vec)' = Sizes(vec)
    BY <1>1 DEF DataInv, Counted, Accepted, Size, Sizes, AllWhole, Whole
  <2> QED
    BY <1>1, <1>3, <1>4, <2>1, <2>2, <2>3 DEF Counted
<1>9. Typed'
  <2>1. list' \in Lists
    <3>1. \A i \in DOMAIN list : entries <= i => e.base + (i - entries) \in Nat
      BY <1>2, <1>4 DEF DataInv, Typed, Lists
    <3> QED
      BY <1>1, <3>1 DEF DataInv, Typed, Lists
  <2>2. mapped' \subseteq Nat \ {0}
    <3>1. PagesOf(e) \subseteq Nat \ {0}
      BY <1>2 DEF PagesOf
    <3> QED
      BY <1>2, <3>1 DEF DataInv, Typed
  <2> QED
    BY <1>1, <2>1, <2>2 DEF DataInv, Typed
<1>10. Built'
  BY <1>1 DEF Built
<1>11. \A k \in DOMAIN list : list'[k] = IF entries <= k /\ k < entries + E
                                         THEN e.base + (k - entries) ELSE list[k]
  BY <1>1
<1>12. Written'
  <2> SUFFICES ASSUME AllWhole, NEW i \in 1 .. next + 1, NEW j \in 0 .. Entries(vec[i]) - 1
               PROVE  list'[Sizes(vec)[i - 1] \div PageBlocks + j] = vec[i].base + j
    BY <1>1 DEF Written, AllWhole, Whole, Sizes, Entries
  <2> DEFINE q == Sizes(vec)[i - 1] \div PageBlocks
  <2>1. /\ i \in 1 .. Len(vec) /\ q \in Nat /\ Entries(vec[i]) \in Nat
        /\ Sizes(vec)[i - 1] = PageBlocks * q /\ vec[i].len = PageBlocks * Entries(vec[i])
        /\ Sizes(vec)[i] = Sizes(vec)[i - 1] + vec[i].len /\ Sizes(vec)[i] \in Nat
    BY <1>1, ElementAt, SizesTyped DEF AllWhole
  <2>2. entries' \in 0 .. MaxEntries /\ DOMAIN list = 0 .. MaxEntries - 1
    <3>1. entries' \in Nat /\ PageBlocks * entries' <= Sizes(vec)[next + 1] /\ Accepted(vec)
      BY <1>1, <1>8 DEF Counted, DataInv, Sizes
    <3> QED
      BY <1>1, <3>1, EntriesFit DEF DataInv, Typed, Lists
  <2> HIDE DEF q
  <2>3. CASE i \in 1 .. next
    <3>1. Sizes(vec)[i] <= Sizes(vec)[next]
      <4>1. i \in 0 .. Len(vec) /\ next \in i .. Len(vec)
        BY <1>1, <2>3
      <4> QED
        BY <1>1, <4>1, SizesGrow
    <3>2. PageBlocks * (q + Entries(vec[i])) <= PageBlocks * entries
      BY <1>4, <2>1, <3>1 DEF DataInv, Counted
    <3>3. q + Entries(vec[i]) <= entries
      <4>1. q + Entries(vec[i]) \in Int /\ entries \in Int
        BY <1>4, <2>1
      <4> QED
        BY <1>4, <3>2, <4>1, Cancel, Zenon
    <3>4. q + j \in DOMAIN list /\ q + j < entries
      BY <1>1, <1>3, <1>4, <2>1, <2>2, <3>3
    <3>5. list'[q + j] = list[q + j]
      <4> DEFINE k == q + j
      <4>1. k \in DOMAIN list /\ ~ (entries <= k)
        BY <1>4, <2>1, <3>4
      <4> HIDE DEF k
      <4>2. list'[k] = list[k]
        BY <1>11, <4>1
      <4> QED
        BY <4>2 DEF k
    <3> QED
      BY <2>3, <3>5 DEF DataInv, Written, q
  <2>4. CASE i = next + 1
    <3>1. vec[i] = e /\ Entries(vec[i]) = E /\ i - 1 = next
      BY <1>1, <2>4 DEF e, E
    <3>2. PageBlocks * q = PageBlocks * entries
      BY <2>1, <3>1 DEF DataInv, Counted
    <3>3. q = entries
      <4>1. q \in Int /\ entries \in Int
        BY <1>4, <2>1
      <4> QED
        BY <1>4, <3>2, <4>1, Cancel, Zenon
    <3>4. q + j \in DOMAIN list /\ entries <= q + j /\ q + j < entries + E /\ (q + j) - entries = j
      BY <1>1, <1>3, <1>4, <2>1, <2>2, <3>1, <3>3
    <3>5. list'[q + j] = e.base + j
      <4> DEFINE k == q + j
      <4>1. k \in DOMAIN list /\ entries <= k /\ k < entries + E /\ k - entries = j
        BY <3>4
      <4> HIDE DEF k
      <4>2. list'[k] = e.base + j
        BY <1>11, <4>1
      <4> QED
        BY <4>2 DEF k
    <3> QED
      BY <3>1, <3>5 DEF q
  <2> QED
    BY <1>1, <2>3, <2>4
<1>13. Covered'
  <2> SUFFICES ASSUME AllWhole, NEW p \in 0 .. entries + E - 1
               PROVE  \E i \in 1 .. next + 1 : list'[p] \in PagesOf(vec[i])
    <3>1. Covered' <=> (AllWhole => \A p \in 0 .. entries' - 1 : \E i \in 1 .. next' :
                                      list'[p] \in PagesOf(vec[i]))
      BY <1>1 DEF Covered, AllWhole, Whole, PagesOf
    <3> QED
      BY <1>1, <1>3, <1>4, <3>1
  <2>1. entries' \in 0 .. MaxEntries /\ DOMAIN list = 0 .. MaxEntries - 1
    <3>1. entries' \in Nat /\ PageBlocks * entries' <= Sizes(vec)[next + 1] /\ Accepted(vec)
      BY <1>1, <1>8 DEF Counted, DataInv, Sizes
    <3> QED
      BY <1>1, <3>1, EntriesFit DEF DataInv, Typed, Lists
  <2>2. p \in DOMAIN list
    BY <1>1, <1>3, <1>4, <2>1
  <2>3. CASE p < entries
    <3>1. p \in 0 .. entries - 1 /\ list'[p] = list[p]
      BY <1>4, <1>11, <2>2, <2>3
    <3>2. \E i \in 1 .. next : list[p] \in PagesOf(vec[i])
      BY <3>1 DEF DataInv, Covered
    <3> QED
      BY <1>1, <3>1, <3>2
  <2>4. CASE ~ (p < entries)
    <3>1. list'[p] = e.base + (p - entries) /\ p - entries \in 0 .. E - 1
      BY <1>3, <1>4, <1>11, <2>2, <2>4
    <3>2. Whole(e)
      BY <1>1 DEF AllWhole, e
    <3>3. list'[p] \in PagesOf(e)
      BY <1>2, <3>1, <3>2, WholePages DEF E
    <3> QED
      BY <1>1, <3>3 DEF e
  <2> QED
    BY <2>3, <2>4
<1> QED
  BY <1>8, <1>9, <1>10, <1>12, <1>13 DEF DataInv

LEMMA BuildKeeps ==
  ASSUME DataInv, Build, Reached'
  PROVE  DataInv'
<1>1. /\ UNCHANGED <<vec, bytes, next, entries, mapped, list, tail, stores, memory>>
      /\ next = Len(vec) /\ entries > 0 /\ pc' = "kick"
      /\ cmd' = [prp1 |-> list[0], prp2 |-> Prp2, nlb |-> Nlb(bytes)]
  BY DEF Build, call, loop, hardware
<1>2. cmd' \in Commands
  <2>1. list[0] \in Nat /\ list[1] \in Nat /\ ListPage \in Nat
    BY SizesAssumption DEF DataInv, Typed, Lists
  <2>2. Nlb(bytes) \in 0 .. NlbMod - 1
    <3>1. bytes - 1 \in Int /\ NlbMod \in Nat \ {0}
      BY SizesAssumption DEF DataInv, Typed
    <3> QED
      BY <3>1, DivMod DEF Nlb
  <2>3. Prp2 \in Nat
    BY <2>1 DEF Prp2
  <2> QED
    BY <1>1, <2>1, <2>2, <2>3 DEF Commands
<1>3. (Counted /\ Written /\ Covered)'
  <2>1. (Counted /\ Written)'
    BY <1>1 DEF DataInv, Counted, Written, Accepted, Size, Sizes, AllWhole, Whole, Entries
  <2>2. Covered'
    BY <1>1 DEF DataInv, Covered, AllWhole, Whole, PagesOf
  <2> QED
    BY <2>1, <2>2
<1>4. Typed'
  BY <1>1, <1>2 DEF DataInv, Typed, Build
<1>5. Built'
  BY <1>1 DEF Built, Prp2, Nlb
<1> QED
  BY <1>2, <1>3, <1>4, <1>5 DEF DataInv

LEMMA StoresKeep ==
  ASSUME DataInv, Kick \/ \E i \in DOMAIN stores : Drain(i), Reached'
  PROVE  DataInv'
<1> DEFINE Item == [loc : Places, val : Lists \cup Commands \cup Nat]
<1>1. /\ UNCHANGED <<vec, bytes, next, entries, mapped, list, cmd>>
      /\ pc' = pc \/ (pc = "kick" /\ pc' = "sent")
  BY DEF Kick, Drain, call, loop
<1>2. /\ pc' \in {"app", "map", "kick", "sent", "aborted"}
      /\ pc' = "app" => pc = "app" /\ tail' = tail
      /\ pc' \in {"map", "kick"} => tail' = tail
  BY <1>1 DEF DataInv, Typed, Kick, Drain
<1>3. (Counted /\ Written /\ Covered)'
  <2>1. (Counted /\ Written)'
    BY <1>1 DEF DataInv, Counted, Written, Accepted, Size, Sizes, AllWhole, Whole, Entries
  <2>2. Covered'
    BY <1>1 DEF DataInv, Covered, AllWhole, Whole, PagesOf
  <2> QED
    BY <2>1, <2>2
<1>4. Built'
  BY <1>1, <1>2 DEF DataInv, Built, Prp2, Nlb
<1>5. stores' \in Seq(Item) /\ DOMAIN memory' = Places /\ tail' \in 0 .. MaxCommands
  <2>1. CASE Kick
    <3>1. HandOver \in Seq(Item)
      <4>1. Store("list", list) \in Item /\ Store("sqe", cmd) \in Item /\ Store("bell", tail + 1) \in Item
        BY DEF Store, DataInv, Typed, Places
      <4> HIDE DEF Item
      <4> QED
        BY <4>1 DEF HandOver
    <3>2. stores' = stores \o HandOver /\ tail' = tail + 1 /\ pc = "kick" /\ memory' = memory
      BY <2>1 DEF Kick
    <3>3. stores \in Seq(Item) /\ DOMAIN memory = Places /\ tail \in 0 .. MaxCommands
          /\ tail < MaxCommands /\ MaxCommands \in Nat
      BY <3>2, SizesAssumption DEF DataInv, Typed
    <3> HIDE DEF Item
    <3> QED
      BY <3>1, <3>2, <3>3
  <2>2. ASSUME NEW i \in DOMAIN stores, Drain(i)
        PROVE  stores' \in Seq(Item) /\ DOMAIN memory' = Places /\ tail' = tail
    <3>1. stores \in Seq(Item) /\ DOMAIN memory = Places
      BY DEF DataInv, Typed
    <3> HIDE DEF Item
    <3>2. stores' \in Seq(Item)
      BY <2>2, <3>1 DEF Drain, RemoveAt
    <3> QED
      BY <2>2, <3>1, <3>2 DEF Drain
  <2> QED
    BY <2>1, <2>2 DEF DataInv, Typed
<1> QED
  BY <1>1, <1>2, <1>3, <1>4, <1>5 DEF DataInv, Typed

LEMMA SubmitKeeps ==
  ASSUME DataInv, NEW v \in Vectors, NEW b \in {0} \cup {Size(w) : w \in Vectors}, SubmitIo(v, b),
         Reached'
  PROVE  DataInv'
<1>1. /\ pc = "app" /\ pc' = "map" /\ tail < MaxCommands /\ Accepted(v)
      /\ vec' = v /\ bytes' = b /\ next' = 0 /\ entries' = 0
      /\ UNCHANGED <<mapped, list, cmd, tail, stores, memory>>
  BY DEF SubmitIo, hardware
<1>2. b \in Nat
  <2>1. \A w \in Vectors : Size(w) \in Nat
    <3> SUFFICES ASSUME NEW w \in Vectors PROVE Size(w) \in Nat
      OBVIOUS
    <3>1. w \in Vectors \cup {<<>>}
      OBVIOUS
    <3>2. Len(w) \in 0 .. Len(w)
      BY <3>1, VectorTyped
    <3> QED
      BY <3>1, <3>2, SizesTyped DEF Size
  <2> QED
    BY <2>1
<1>3. Sizes(v)[0] = 0
  BY SizesTyped
<1>4. Counted'
  <2>1. Accepted(vec)' /\ Sizes(vec)' = Sizes(v)
    BY <1>1 DEF Accepted, Size, Sizes
  <2>2. PageBlocks * 0 = 0
    BY SizesAssumption
  <2> QED
    BY <1>1, <1>3, <2>1, <2>2 DEF Counted
<1>5. Typed'
  BY <1>1, <1>2 DEF DataInv, Typed
<1>6. Written' /\ Covered' /\ Built'
  BY <1>1 DEF Written, Covered, Built
<1> QED
  BY <1>4, <1>5, <1>6 DEF DataInv

LEMMA DataInit == Init => DataInv
<1> SUFFICES ASSUME Init PROVE DataInv
  OBVIOUS
<1>1. /\ pc = "app" /\ vec = <<>> /\ bytes = 0 /\ next = 0 /\ entries = 0 /\ tail = 0
      /\ mapped = {} /\ refused = {} /\ list = [i \in 0 .. MaxEntries - 1 |-> 0] /\ cmd = NoCommand
      /\ stores = <<>> /\ memory = [list |-> list, sqe |-> cmd, bell |-> 0]
  BY DEF Init
<1>2. Len(vec) = 0 /\ Sizes(vec)[0] = 0 /\ Size(vec) = 0
  BY <1>1, SizesTyped DEF Size
<1>3. Reached
  BY <1>1 DEF Reached
<1>4. Typed
  <2>1. cmd \in Commands
    BY <1>1, SizesAssumption DEF NoCommand, Commands
  <2>2. list \in Lists /\ DOMAIN memory = Places
    BY <1>1 DEF Lists, Places
  <2> HIDE DEF Commands, Lists, Places
  <2>3. stores \in Seq([loc : Places, val : Lists \cup Commands \cup Nat])
    BY <1>1
  <2> QED
    BY <1>1, <2>1, <2>2, <2>3, SizesAssumption DEF Typed
<1>5. Counted
  <2>1. 0 % PageBlocks = 0 /\ 0 \div PageBlocks = 0 /\ PageBlocks * 0 = 0
    BY SizesAssumption
  <2> QED
    BY <1>1, <1>2, <2>1, SizesAssumption DEF Counted, Accepted
<1>6. Written /\ Covered /\ Built
  BY <1>1 DEF Written, Covered, Built
<1> QED
  BY <1>3, <1>4, <1>5, <1>6 DEF DataInv

LEMMA DataStep ==
  ASSUME DataInv, [Next]_vars, Reached'
  PROVE  DataInv'
<1>1. ASSUME NEW v \in Vectors, NEW b \in {0} \cup {Size(w) : w \in Vectors}, SubmitIo(v, b)
      PROVE  DataInv'
  BY <1>1, SubmitKeeps
<1>2. CASE MapElement
  BY <1>2, MapElementWrites
<1>3. CASE Build
  BY <1>3, BuildKeeps
<1>4. CASE Kick \/ \E i \in DOMAIN stores : Drain(i)
  BY <1>4, StoresKeep
<1>5. ASSUME UNCHANGED <<vec, bytes, next, entries, mapped, list, cmd, tail, stores, memory>>,
             \/ pc' = "aborted" \/ pc' = pc
             \/ pc = "sent" /\ pc' = "app"
      PROVE  DataInv'
  <2>1. (Counted /\ Written /\ Covered)'
    BY <1>5 DEF DataInv, Counted, Written, Covered, Accepted, Size, Sizes, AllWhole, Whole, Entries,
                PagesOf
  <2>2. Typed' /\ Built'
    BY <1>5 DEF DataInv, Typed, Built, Prp2, Nlb
  <2> QED
    BY <2>1, <2>2 DEF DataInv
<1>6. CASE (\E v \in Vectors : Abort(v)) \/ NoEntry \/ DevFetch \/ UNCHANGED vars
  BY <1>5, <1>6 DEF Abort, NoEntry, DevFetch, vars, call, loop, hardware
<1> QED
  BY <1>1, <1>2, <1>3, <1>4, <1>6 DEF Next, Stopped

(* Reached is a part of MapInv, which is inductive by itself. *)
LEMMA DataAlways == Spec => [](MapInv /\ DataInv)
<1>1. Init => MapInv /\ DataInv
  BY MapInit, DataInit
<1>2. MapInv /\ DataInv /\ [Next]_vars => (MapInv /\ DataInv)'
  BY MapStep, DataStep DEF MapInv
<1> QED
  BY <1>1, <1>2, PTL DEF Spec

(* Every variable keeps its type; in particular the entries never exceed   *)
(* the list page, although what is asserted before the loop is the size of *)
(* the vector.                                                             *)
THEOREM TypeCorrect == Spec => []TypeOK
<1>1. ASSUME MapInv, DataInv PROVE TypeOK
  <2>1. entries \in 0 .. MaxEntries
    BY <1>1, EntriesFit DEF DataInv, Reached, Counted
  <2>2. \A i \in DOMAIN stores : stores[i].loc \in DOMAIN memory
    <3> DEFINE Item == [loc : Places, val : Lists \cup Commands \cup Nat]
    <3>1. stores \in Seq(Item) /\ DOMAIN memory = Places
      BY <1>1 DEF DataInv, Typed
    <3> HIDE DEF Item
    <3>2. \A i \in DOMAIN stores : stores[i] \in Item
      BY <3>1
    <3> QED
      BY <3>1, <3>2 DEF Item
  <2> QED
    BY <1>1, <2>1, <2>2 DEF DataInv, Reached, Typed, Lists, Commands, TypeOK
<1> QED
  BY <1>1, DataAlways, PTL

-----------------------------------------------------------------------------
(* The block count of a full list fits its 16 bits, as it does for pages   *)
(* of 4, 8 and 16 KB and any block size.                                   *)
CountFits == PageBlocks * MaxEntries <= NlbMod

(* What the controller did last is to execute the last command: until the  *)
(* next call of nvme_submit_io neither that command nor what is mapped has *)
(* changed.                                                                *)
Fetched == pc = "app" /\ tail > 0 => fetched = Executed(cmd, list)

LEMMA FetchedStep ==
  ASSUME InOrder, Fetched, [Next]_vars
  PROVE  Fetched'
<1>1. CASE DevFetch
  <2>1. fetched' = Executed(cmd, list)
    BY <1>1, BellIsLast DEF DevFetch
  <2>2. UNCHANGED <<cmd, list, mapped>>
    BY <1>1 DEF DevFetch, loop
  <2>3. Executed(cmd, list)' = Executed(cmd, list)
    BY <2>2 DEF Executed, Pages, Parts, Transfer, PrpPage
  <2> QED
    BY <2>1, <2>3 DEF Fetched
<1>2. CASE \E i \in DOMAIN stores : Drain(i)
  BY <1>2 DEF Drain, Fetched, Executed, Pages, Parts, Transfer, PrpPage, loop
<1>3. CASE UNCHANGED vars
  BY <1>3 DEF vars, hardware, Fetched, Executed, Pages, Parts, Transfer, PrpPage, loop
<1>4. ASSUME pc' # "app" PROVE Fetched'
  BY <1>4 DEF Fetched
<1> QED
  BY <1>1, <1>2, <1>3, <1>4 DEF Next, Stopped, SubmitIo, Abort, MapElement, Build, NoEntry, Kick

(* The page of the k-th part of a transfer of n pages whose list is full   *)
(* up to n is entry k of the list, wherever the controller finds it.       *)
LEMMA PageOfPart ==
  ASSUME NEW l \in Lists, NEW c, NEW n \in 1 .. MaxEntries, NEW k \in 1 .. n,
         c.prp1 = l[0],
         c.prp2 = CASE n = 1 -> 0 [] n = 2 -> l[1] [] OTHER -> ListPage
  PROVE  PrpPage(c, l, k, n) = l[k - 1]
<1>1. MaxEntries \in Nat /\ k - 1 \in DOMAIN l
  BY SizesAssumption DEF Lists
<1>2. CASE k = 1
  BY <1>2 DEF PrpPage
<1>3. CASE k = 2 /\ n = 2
  BY <1>3 DEF PrpPage
<1>4. CASE k # 1 /\ n > 2
  BY <1>1, <1>4 DEF PrpPage
<1> QED
  BY <1>2, <1>3, <1>4

(* A command of a whole vector and of as many bytes has a page for each    *)
(* entry of the list.                                                      *)
LEMMA PagesOfCommand ==
  ASSUME CountFits, DataInv, Built, pc = "app", tail > 0, Proper
  PROVE  /\ cmd.nlb + 1 = Size(vec) /\ Size(vec) = PageBlocks * entries
         /\ entries \in 1 .. MaxEntries /\ Parts(cmd) = entries
<1>1. /\ next = Len(vec) /\ entries > 0 /\ cmd.nlb = (bytes - 1) % NlbMod /\ bytes = Size(vec)
      /\ entries \in 0 .. MaxEntries /\ Size(vec) = PageBlocks * entries
  BY EntriesFit DEF DataInv, Reached, Built, Nlb, Counted, Proper, AllWhole, Size
<1>2. PageBlocks \in Nat \ {0} /\ MaxEntries \in Nat /\ NlbMod \in Nat \ {0} /\ entries \in Nat
  BY <1>1, SizesAssumption
<1>3. PageBlocks * entries <= PageBlocks * MaxEntries
  BY <1>1, <1>2
<1>4. PageBlocks * entries - 1 = PageBlocks * (entries - 1) + (PageBlocks - 1)
  BY <1>2
<1>5. PageBlocks * entries \in Nat /\ PageBlocks * entries >= 1
  BY <1>1, <1>2
<1> DEFINE n == PageBlocks * entries
<1>6. n - 1 \in 0 .. NlbMod - 1
  BY <1>2, <1>3, <1>5 DEF CountFits
<1>7. (n - 1) % NlbMod = n - 1
  <2>1. n - 1 = NlbMod * 0 + (n - 1)
    BY <1>2, <1>6
  <2> HIDE DEF n
  <2> QED
    BY <1>2, <1>6, <2>1, DivUnique
<1>8. (n - 1) \div PageBlocks = entries - 1
  <2>1. PageBlocks - 1 \in 0 .. PageBlocks - 1 /\ entries - 1 \in Int
    BY <1>2
  <2>2. (PageBlocks * (entries - 1) + (PageBlocks - 1)) \div PageBlocks = entries - 1
    BY <1>2, <2>1, DivUnique, Zenon
  <2> QED
    BY <1>4, <2>2
<1> HIDE DEF n
<1> QED
  BY <1>1, <1>2, <1>6, <1>7, <1>8 DEF n, Parts

(* Block j of an element: the page it is in, and where the list has it.    *)
LEMMA BlockOfElement ==
  ASSUME DataInv, AllWhole, next = Len(vec), Size(vec) = PageBlocks * entries,
         entries \in 1 .. MaxEntries,
         NEW i \in DOMAIN vec, NEW j \in 0 .. vec[i].len - 1
  PROVE  \E p \in 0 .. entries - 1, b \in 0 .. PageBlocks - 1 :
           /\ Sizes(vec)[i - 1] + j = PageBlocks * p + b
           /\ list[p] * PageBlocks + b = vec[i].base * PageBlocks + j
<1> DEFINE q == Sizes(vec)[i - 1] \div PageBlocks
           E == Entries(vec[i])
           a == j \div PageBlocks
           b == j % PageBlocks
<1>1. /\ vec \in Vectors \cup {<<>>} /\ Len(vec) \in Nat /\ DOMAIN vec = 1 .. Len(vec)
      /\ i \in 1 .. Len(vec) /\ vec[i].base \in Nat /\ vec[i].len \in Nat
  BY VectorTyped DEF DataInv, Reached
<1>2. /\ q \in Nat /\ E \in Nat /\ Sizes(vec)[i - 1] = PageBlocks * q
      /\ vec[i].len = PageBlocks * E /\ Sizes(vec)[i] \div PageBlocks = q + E
  BY <1>1, ElementAt DEF AllWhole
<1>3. PageBlocks \in Nat \ {0} /\ j \in Int /\ j >= 0 /\ j < PageBlocks * E
  BY <1>1, <1>2, SizesAssumption
<1>4. a \in Int /\ b \in 0 .. PageBlocks - 1 /\ j = PageBlocks * a + b
  BY <1>3, DivMod, Zenon
<1>5. Sizes(vec)[i] <= PageBlocks * entries /\ Sizes(vec)[i] \in Nat
      /\ Sizes(vec)[i] = Sizes(vec)[i - 1] + vec[i].len
  <2>1. i \in 0 .. Len(vec) /\ Len(vec) \in i .. Len(vec)
    BY <1>1
  <2> QED
    BY <1>1, <2>1, SizesGrow, SizesTyped DEF Size
<1>6. list[q + a] = vec[i].base + a
  <2>1. a \in 0 .. E - 1
    <3> HIDE DEF a, b, E
    <3>1. PageBlocks * a < PageBlocks * E
      <4>1. PageBlocks * a \in Int /\ PageBlocks * E \in Int
        <5>1. E \in Int
          BY <1>2
        <5> QED
          BY <1>3, <1>4, <5>1, Cancel, Zenon
      <4>2. j = PageBlocks * a + b /\ j < PageBlocks * E /\ b >= 0 /\ b \in Int
        BY <1>3, <1>4
      <4> QED
        BY <4>1, <4>2
    <3>2. a < E
      <4>1. E \in Int
        BY <1>2
      <4> QED
        BY <1>3, <1>4, <3>1, <4>1, Cancel, Zenon
    <3>3. a >= 0
      BY <1>3, <1>4
    <3> QED
      BY <1>2, <1>4, <3>2, <3>3
  <2>2. i \in 1 .. next
    BY <1>1
  <2> HIDE DEF a
  <2> QED
    BY <2>1, <2>2 DEF DataInv, Written
<1> HIDE DEF q, E, a, b
<1>7. q + a \in 0 .. entries - 1
  <2>1. a >= 0
    BY <1>3, <1>4
  <2>2. PageBlocks * q + j < PageBlocks * entries
    BY <1>2, <1>3, <1>5
  <2>3. PageBlocks * (q + a) < PageBlocks * entries
    BY <1>2, <1>3, <1>4, <2>2
  <2>4. q + a < entries
    <3>1. q + a \in Int /\ entries \in Int
      BY <1>2, <1>4
    <3> QED
      BY <1>3, <2>3, <3>1, Cancel, Zenon
  <2> QED
    BY <1>2, <1>4, <2>1, <2>4
<1>8. Sizes(vec)[i - 1] + j = PageBlocks * (q + a) + b
  BY <1>2, <1>3, <1>4
<1>9. list[q + a] * PageBlocks + b = vec[i].base * PageBlocks + j
  BY <1>1, <1>3, <1>4, <1>6
<1> QED
  BY <1>4, <1>7, <1>8, <1>9

(* The controller looks for part k of the transfer in entry k of the list. *)
LEMMA PagesOfList ==
  ASSUME CountFits, DataInv, pc = "app", tail > 0, Proper
  PROVE  \A k \in 1 .. entries : PrpPage(cmd, list, k, entries) = list[k - 1]
<1>1. cmd = [prp1 |-> list[0], prp2 |-> Prp2, nlb |-> Nlb(bytes)] /\ list \in Lists
  BY DEF DataInv, Typed, Built
<1>2. entries \in 1 .. MaxEntries
  BY PagesOfCommand DEF DataInv
<1>3. cmd.prp1 = list[0]
      /\ cmd.prp2 = CASE entries = 1 -> 0 [] entries = 2 -> list[1] [] OTHER -> ListPage
  BY <1>1 DEF Prp2
<1> QED
  BY <1>1, <1>2, <1>3, PageOfPart, Zenon

(* The controller reaches the pages of the command if they are those of    *)
(* elements that are mapped, and only then.                                *)
LEMMA ReachesVector ==
  ASSUME CountFits, DataInv, pc = "app", tail > 0, Proper
  PROVE  Pages(cmd, list) \subseteq mapped <=> Reachable(vec)
<1>1. /\ next = Len(vec) /\ AllWhole /\ vec \in Vectors \cup {<<>>}
      /\ Len(vec) \in Nat /\ DOMAIN vec = 1 .. Len(vec)
  BY VectorTyped DEF DataInv, Reached, Built, Proper, AllWhole
<1>2. Size(vec) = PageBlocks * entries /\ entries \in 1 .. MaxEntries /\ Parts(cmd) = entries
  BY PagesOfCommand DEF DataInv
<1>3. Pages(cmd, list) = {list[p] : p \in 0 .. entries - 1}
  <2>1. Pages(cmd, list) = {list[k - 1] : k \in 1 .. entries}
    BY <1>2, PagesOfList DEF Pages
  <2>2. \A k \in 1 .. entries : k - 1 \in 0 .. entries - 1
    BY <1>2
  <2>3. \A p \in 0 .. entries - 1 : p + 1 \in 1 .. entries /\ (p + 1) - 1 = p
    BY <1>2
  <2> QED
    BY <2>1, <2>2, <2>3
<1>4. ASSUME Reachable(vec), NEW p \in 0 .. entries - 1
      PROVE  list[p] \in mapped
  <2>1. PICK i \in 1 .. next : list[p] \in PagesOf(vec[i])
    BY <1>1 DEF DataInv, Covered
  <2> QED
    BY <1>1, <1>4, <2>1 DEF Reachable
<1>5. ASSUME NEW i \in DOMAIN vec, NEW page \in PagesOf(vec[i])
      PROVE  \E p \in 0 .. entries - 1 : list[p] = page
  <2>1. vec[i].base \in Nat /\ vec[i].len \in Nat /\ PageBlocks \in Nat \ {0} /\ Whole(vec[i])
    BY <1>1, VectorTyped, SizesAssumption DEF AllWhole
  <2>2. PICK k \in 0 .. Entries(vec[i]) - 1 : page = vec[i].base + k
    BY <2>1, WholePages
  <2> DEFINE j == PageBlocks * k
             b == vec[i].base
  <2>3. j \in 0 .. vec[i].len - 1
    <3>1. Entries(vec[i]) \in Nat /\ PageBlocks * Entries(vec[i]) <= vec[i].len
      BY <2>1, EntriesBound
    <3>2. PageBlocks * (k + 1) <= PageBlocks * Entries(vec[i])
      <4>1. k + 1 <= Entries(vec[i])
        BY <3>1
      <4> QED
        BY <2>1, <3>1, <4>1
    <3>3. PageBlocks * k \in Nat /\ PageBlocks * (k + 1) = PageBlocks * k + PageBlocks
      BY <2>1, <3>1
    <3> QED
      BY <2>1, <3>1, <3>2, <3>3
  <2>4. PICK p \in 0 .. entries - 1, r \in 0 .. PageBlocks - 1 :
          list[p] * PageBlocks + r = vec[i].base * PageBlocks + j
    <3> HIDE DEF j
    <3> QED
      BY <1>1, <1>2, <2>3, BlockOfElement
  <2>5. list[p] \in Int /\ page \in Int
    BY <1>2, <2>1, <2>2, SizesAssumption DEF DataInv, Typed, Lists
  <2>6. PageBlocks * list[p] + r = PageBlocks * page + 0
    <3>1. PageBlocks * (b + k) = PageBlocks * b + PageBlocks * k
      BY <2>1
    <3>2. page = b + k /\ list[p] * PageBlocks + r = b * PageBlocks + PageBlocks * k
      BY <2>2, <2>4
    <3>3. list[p] * PageBlocks = PageBlocks * list[p] /\ b * PageBlocks = PageBlocks * b
      BY <2>1, <2>5
    <3> HIDE DEF b
    <3> QED
      BY <2>1, <2>5, <3>1, <3>2, <3>3
  <2>7. (PageBlocks * list[p] + r) \div PageBlocks = list[p]
    BY <2>1, <2>5, DivUnique, Zenon
  <2>8. (PageBlocks * page + 0) \div PageBlocks = page
    <3>1. 0 \in 0 .. PageBlocks - 1
      BY <2>1
    <3> QED
      BY <2>1, <2>5, <3>1, DivUnique, Zenon
  <2> QED
    BY <2>6, <2>7, <2>8
<1>6. Reachable(vec) => Pages(cmd, list) \subseteq mapped
  BY <1>3, <1>4
<1>7. Pages(cmd, list) \subseteq mapped => Reachable(vec)
  BY <1>3, <1>5 DEF Reachable
<1> QED
  BY <1>6, <1>7

LEMMA FetchesVector ==
  ASSUME CountFits, DataInv, pc = "app", tail > 0, Proper, fetched = Transfer(cmd, list)
  PROVE  Transferred(vec)
<1>1. /\ cmd = [prp1 |-> list[0], prp2 |-> Prp2, nlb |-> Nlb(bytes)]
      /\ next = Len(vec) /\ list \in Lists /\ AllWhole
  BY DEF DataInv, Typed, Built, Proper, AllWhole
<1>2. /\ cmd.nlb + 1 = Size(vec) /\ Size(vec) = PageBlocks * entries
      /\ entries \in 1 .. MaxEntries /\ Parts(cmd) = entries
  BY PagesOfCommand DEF DataInv
<1>3. fetched = [x \in 1 .. Size(vec) |->
                   PrpPage(cmd, list, (x - 1) \div PageBlocks + 1, entries) * PageBlocks
                     + ((x - 1) % PageBlocks)]
  BY <1>1, <1>2 DEF Transfer
<1>4. ASSUME NEW i \in DOMAIN vec, NEW j \in 0 .. vec[i].len - 1
      PROVE  fetched[Sizes(vec)[i - 1] + j + 1] = vec[i].base * PageBlocks + j
  <2>1. PICK p \in 0 .. entries - 1, b \in 0 .. PageBlocks - 1 :
          /\ Sizes(vec)[i - 1] + j = PageBlocks * p + b
          /\ list[p] * PageBlocks + b = vec[i].base * PageBlocks + j
    BY <1>1, <1>2, BlockOfElement
  <2>2. PageBlocks \in Nat \ {0} /\ MaxEntries \in Nat
    BY SizesAssumption
  <2> DEFINE x == PageBlocks * p + b + 1
  <2>3. x \in 1 .. Size(vec) /\ x - 1 = PageBlocks * p + b
    <3>1. PageBlocks * p + PageBlocks <= PageBlocks * entries
      <4>1. p + 1 <= entries
        BY <1>2
      <4> QED
        BY <1>2, <2>2, <4>1
    <3>2. PageBlocks * p \in Nat
      BY <2>2
    <3> QED
      BY <1>2, <2>2, <3>1, <3>2
  <2>4. (x - 1) \div PageBlocks = p /\ (x - 1) % PageBlocks = b
    <3>1. (PageBlocks * p + b) \div PageBlocks = p /\ (PageBlocks * p + b) % PageBlocks = b
      <4>1. p \in Int
        BY <1>2
      <4> QED
        BY <2>2, <4>1, DivUnique, Zenon
    <3> QED
      BY <2>3, <3>1
  <2> HIDE DEF x
  <2>5. PrpPage(cmd, list, p + 1, entries) = list[p]
    <3>1. p + 1 \in 1 .. entries /\ (p + 1) - 1 = p
      BY <1>2
    <3> QED
      BY <3>1, PagesOfList
  <2>6. fetched[x] = list[p] * PageBlocks + b
    BY <1>3, <2>3, <2>4, <2>5
  <2> QED
    BY <2>1, <2>6 DEF x
<1> QED
  BY <1>3, <1>4 DEF Transferred

(* The controller transfers the blocks of the vector and no others, in its *)
(* order, whatever earlier commands left in the list page, and fails the   *)
(* command if and only if some page of the vector is not mapped: on a      *)
(* processor that keeps stores in order, with a count that fits, from a    *)
(* vector of whole pages and as many bytes as it has.                      *)
THEOREM VectorTransferred == ASSUME Ordered, CountFits PROVE Spec => []TransfersVector
<1>1. Init => InOrder /\ Fetched
  BY OrderInit DEF Init, Fetched
<1>2. InOrder /\ Fetched /\ [Next]_vars => (InOrder /\ Fetched)'
  BY OrderStep, FetchedStep
<1>3. ASSUME DataInv, Fetched PROVE TransfersVector
  <2> SUFFICES ASSUME pc = "app", tail > 0, Proper
               PROVE  IF Reachable(vec) THEN Transferred(vec) ELSE fetched = <<>>
    BY DEF TransfersVector
  <2>1. fetched = Executed(cmd, list)
    BY <1>3 DEF Fetched
  <2>2. Pages(cmd, list) \subseteq mapped <=> Reachable(vec)
    BY <1>3, ReachesVector
  <2>3. CASE Reachable(vec)
    <3>1. fetched = Transfer(cmd, list)
      BY <2>1, <2>2, <2>3 DEF Executed
    <3> QED
      BY <1>3, <2>3, <3>1, FetchesVector
  <2>4. CASE ~ Reachable(vec)
    BY <2>1, <2>2, <2>4 DEF Executed
  <2> QED
    BY <2>3, <2>4
<1> QED
  BY <1>1, <1>2, <1>3, DataAlways, PTL DEF Spec

=============================================================================

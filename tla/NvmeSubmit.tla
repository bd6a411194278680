----------------------------- MODULE NvmeSubmit -----------------------------
(***************************************************************************)
(* The data of one I/O in nvme_submit_io of lib/nvme.c: the vector that is *)
(* mapped for the IOMMU and turned into a PRP list, the block count, and   *)
(* the three stores that hand the command over (PRP list page, submission  *)
(* queue entry, doorbell).  NvmeQueuePair has the rings and the requests;  *)
(* here one command at a time uses the same request and the same list page.*)
(*                                                                         *)
(* Memory is counted in blocks, pages have numbers, and page 0 is the      *)
(* address zero.  The processor (external) makes stores visible one at a   *)
(* time; wmb() is a compiler barrier, so if the processor does not keep    *)
(* its own stores in order only those to the same place are.  The kernel   *)
(* (external) may refuse to map any extent.  The controller (external)     *)
(* finds the pages of a transfer from the block count alone, and fails a   *)
(* command one of whose pages the IOMMU does not let it reach.             *)
(*                                                                         *)
(* Elements begin at a page, as propig_vfio_dma_map asks of its callers    *)
(* ("host, iova, size must align to 4k", vfio-helper.c:318).               *)
(*                                                                         *)
(* Definitions named Fault... are wrong versions of the definition that    *)
(* follows them, there to show that the properties notice.                 *)
(***************************************************************************)
EXTENDS Integers, SequencesExt

CONSTANTS
  PageBlocks,   \* blocks in a page: page_size >> blkshift
  MaxEntries,   \* page_size / sizeof(uint64_t)
  NlbMod,       \* 2^16: the block count less one is 16 bits wide
  ListPage,     \* number of the page that holds the PRP list
  Vectors,      \* the vectors the application submits: <<[base, len], ...>>
  MaxCommands,  \* bound: commands submitted
  Ordered       \* whether the processor keeps stores in order, as x86 does

ASSUME SizesAssumption ==
  /\ PageBlocks \in Nat \ {0} /\ MaxEntries \in Nat \ {0, 1} /\ NlbMod \in Nat \ {0}
  /\ ListPage \in Nat \ {0} /\ MaxCommands \in Nat /\ Ordered \in BOOLEAN
ASSUME VectorsAssumption == Vectors \subseteq Seq([base : Nat \ {0}, len : Nat])

VARIABLES
  pc,        \* app, map, kick, sent, or aborted
  vec, bytes,    \* arguments of the last nvme_submit_io
  next,      \* elements of vec the loop has been through
  entries,   \* entries it has written
  used,      \* extents submitted so far
  mapped,    \* pages the IOMMU lets the controller reach
  refused,   \* elements of vec whose map failed though none of their pages was mapped
  list,      \* req->prp_list_page as the thread sees it
  cmd,       \* the command built last
  tail,      \* sq.tail, without wrapping
  stores,    \* stores not yet visible, oldest first
  memory,    \* what the controller sees: list, sqe, bell
  fetched    \* the blocks of the last command, none if it failed

call == <<vec, bytes, used>>
loop == <<next, entries, mapped, refused, list>>
hardware == <<stores, memory, fetched>>
vars == <<pc, call, loop, cmd, tail, hardware>>

(* get_iovec_size: what the elements up to each one have, and all of them. *)
Sizes(v) == LET n[i \in 0 .. Len(v)] == IF i = 0 THEN 0 ELSE n[i - 1] + v[i].len IN n
Size(v) == Sizes(v)[Len(v)]

Whole(e) == e.len % PageBlocks = 0
PagesOf(e) == {e.base + j : j \in 0 .. (e.len + PageBlocks - 1) \div PageBlocks - 1}

NoCommand == [prp1 |-> 0, prp2 |-> 0, nlb |-> 0]

Init ==
  /\ pc = "app" /\ vec = <<>> /\ bytes = 0 /\ next = 0 /\ entries = 0
  /\ used = {} /\ mapped = {} /\ refused = {}
  /\ list = [i \in 0 .. MaxEntries - 1 |-> 0] /\ cmd = NoCommand /\ tail = 0
  /\ stores = <<>> /\ memory = [list |-> list, sqe |-> cmd, bell |-> 0]
  /\ fetched = <<>>

-----------------------------------------------------------------------------
(* What VFIO_IOMMU_MAP_DMA answers for an element: the size is looked at   *)
(* first, then whether a page is mapped already.  What passes may fail all *)
(* the same: for memory that may not be locked, too many maps (nothing is  *)
(* ever unmapped) or addresses that are not valid.                         *)
DmaMap(e) ==
  CASE ~ Whole(e) \/ e.len = 0                                   -> {"failed"}
    [] Whole(e) /\ e.len > 0 /\ PagesOf(e) \cap mapped # {}      -> {"exists"}
    [] Whole(e) /\ e.len > 0 /\ PagesOf(e) \cap mapped = {}      -> {"mapped", "failed"}

FaultMapped(e, answer) == IF answer = "mapped" THEN mapped \cup PagesOf(vec[1]) ELSE mapped
Mapped(e, answer) == IF answer = "mapped" THEN mapped \cup PagesOf(e) ELSE mapped

(* The part of an element after its last whole page gets no entry. *)
Entries(e) == e.len \div PageBlocks

FaultNlbWidth(b) == b - 1
FaultNlb(b) == b % NlbMod
Nlb(b) == (b - 1) % NlbMod

(* The assertions of nvme_submit_io. *)
Accepted(v) ==
  /\ Size(v) % PageBlocks = 0
  /\ Size(v) \div PageBlocks <= MaxEntries

Store(where, value) == [loc |-> where, val |-> value]

SubmitIo(v, b) ==
  /\ pc = "app" /\ tail < MaxCommands
  /\ Accepted(v)
  /\ vec' = v /\ bytes' = b /\ next' = 0 /\ entries' = 0
  /\ used' = used \cup {v[i] : i \in DOMAIN v}
  /\ refused' = {} /\ pc' = "map"
  /\ UNCHANGED <<mapped, list, cmd, tail, hardware>>

Abort(v) ==
  /\ pc = "app" /\ tail < MaxCommands
  /\ ~ Accepted(v)
  /\ pc' = "aborted"
  /\ UNCHANGED <<call, loop, cmd, tail, hardware>>

(* One turn of the loop over the vector.  What propig_vfio_dma_map returns *)
(* is not looked at.  The list page is not cleared: entries of the last    *)
(* command stay behind the new ones.                                       *)
MapElement ==
  /\ pc = "map" /\ next < Len(vec)
  /\ LET e == vec[next + 1] IN
       /\ \E answer \in DmaMap(e) :
            /\ mapped' = Mapped(e, answer)
            /\ refused' = IF answer = "failed" THEN refused \cup {next + 1} ELSE refused
       /\ list' = [i \in DOMAIN list |->
                     IF entries <= i /\ i < entries + Entries(e)
                     THEN e.base + (i - entries) ELSE list[i]]
       /\ entries' = entries + Entries(e)
  /\ next' = next + 1
  /\ UNCHANGED <<pc, call, cmd, tail, hardware>>

(* One entry, two, or the list page from its second entry on. *)
Prp2 ==
  CASE entries = 1 -> 0
    [] entries = 2 -> list[1]
    [] OTHER       -> ListPage

Build ==
  /\ pc = "map" /\ next = Len(vec) /\ entries > 0
  /\ cmd' = [prp1 |-> list[0], prp2 |-> Prp2, nlb |-> Nlb(bytes)]
  /\ pc' = "kick"
  /\ UNCHANGED <<call, loop, tail, hardware>>

(* abort() without a whole page. *)
NoEntry ==
  /\ pc = "map" /\ next = Len(vec) /\ entries = 0
  /\ pc' = "aborted"
  /\ UNCHANGED <<call, loop, cmd, tail, hardware>>

FaultHandOver == <<Store("bell", tail + 1), Store("list", list), Store("sqe", cmd)>>
HandOver == <<Store("list", list), Store("sqe", cmd), Store("bell", tail + 1)>>

(* nvme_submit_command and nvme_kick; the page list was written before. *)
Kick ==
  /\ pc = "kick"
  /\ stores' = stores \o HandOver
  /\ tail' = tail + 1
  /\ pc' = "sent"
  /\ UNCHANGED <<call, loop, cmd, memory, fetched>>

-----------------------------------------------------------------------------
(* A store becomes visible. *)
Drain(i) ==
  /\ i \in DOMAIN stores
  /\ \A j \in 1 .. i - 1 : ~ Ordered /\ stores[j].loc # stores[i].loc
  /\ memory' = [memory EXCEPT ![stores[i].loc] = stores[i].val]
  /\ stores' = RemoveAt(stores, i)
  /\ UNCHANGED <<pc, call, loop, cmd, tail, fetched>>

(* The page of the k-th part of a transfer over n pages. *)
PrpPage(c, l, k, n) ==
  CASE k = 1 -> c.prp1
    [] k = 2 /\ n = 2 -> c.prp2
    [] OTHER -> IF c.prp2 = ListPage /\ k - 1 \in DOMAIN l THEN l[k - 1] ELSE 0

Parts(c) == c.nlb \div PageBlocks + 1

Transfer(c, l) ==
  [i \in 1 .. c.nlb + 1 |->
     PrpPage(c, l, (i - 1) \div PageBlocks + 1, Parts(c)) * PageBlocks + ((i - 1) % PageBlocks)]

Pages(c, l) == {PrpPage(c, l, k, Parts(c)) : k \in 1 .. Parts(c)}

(* The controller sees the doorbell, fetches and completes the command:    *)
(* with an error, if the IOMMU does not let it reach every page.           *)
Executed(c, l) == IF Pages(c, l) \subseteq mapped THEN Transfer(c, l) ELSE <<>>

DevFetch ==
  /\ pc = "sent" /\ memory.bell = tail
  /\ fetched' = Executed(memory.sqe, memory.list)
  /\ pc' = "app"
  /\ UNCHANGED <<call, loop, cmd, tail, stores, memory>>

(* The process has aborted, or the modelled commands are used up. *)
Stopped ==
  /\ pc = "aborted" \/ (pc = "app" /\ tail = MaxCommands)
  /\ UNCHANGED vars

Next ==
  \/ \E v \in Vectors, b \in {0} \cup {Size(w) : w \in Vectors} : SubmitIo(v, b)
  \/ \E v \in Vectors : Abort(v)
  \/ MapElement \/ Build \/ NoEntry
  \/ Kick
  \/ \E i \in DOMAIN stores : Drain(i)
  \/ DevFetch
  \/ Stopped

Spec == Init /\ [][Next]_vars

-----------------------------------------------------------------------------
(* Every variable keeps its type. *)
TypeOK ==
  /\ pc \in {"app", "map", "kick", "sent", "aborted"}
  /\ vec \in Vectors \cup {<<>>} /\ bytes \in Nat /\ tail \in 0 .. MaxCommands
  /\ next \in 0 .. Len(vec) /\ entries \in 0 .. MaxEntries
  /\ DOMAIN list = 0 .. MaxEntries - 1
  /\ mapped \subseteq Nat \ {0} /\ refused \subseteq 1 .. next
  /\ cmd.nlb \in 0 .. NlbMod - 1 /\ cmd.prp2 \in Nat
  /\ \A i \in DOMAIN stores : stores[i].loc \in DOMAIN memory

(* What the caller has to see to: elements of whole pages, and as many     *)
(* bytes as the vector has.                                                *)
Proper == Size(vec) = bytes /\ \A i \in DOMAIN vec : Whole(vec[i])

(* Block j of an element comes after the elements before it. *)
Transferred(v) ==
  /\ DOMAIN fetched = 1 .. Size(v)
  /\ \A i \in DOMAIN v : \A j \in 0 .. v[i].len - 1 :
       fetched[Sizes(v)[i - 1] + j + 1] = v[i].base * PageBlocks + j

Reachable(v) == \A i \in DOMAIN v : PagesOf(v[i]) \subseteq mapped

(* The controller transfers exactly the blocks of the vector, in order:    *)
(* for one page, two, or a list, and whatever earlier commands left in the *)
(* list page.  It fails the command exactly if a page of the vector is not *)
(* mapped.                                                                 *)
TransfersVector ==
  pc = "app" /\ tail > 0 /\ Proper =>
    IF Reachable(vec) THEN Transferred(vec) ELSE fetched = <<>>

(* A page of the command is unmapped only if propig_vfio_dma_map has       *)
(* failed for its element, and not because it is mapped already: although  *)
(* nothing is ever unmapped or looked up, an element submitted again needs *)
(* no map of its own, and one whose map failed gets another chance - as    *)
(* long as the extents submitted so far are the same or apart.             *)
Stable == \A e, f \in used : e = f \/ PagesOf(e) \cap PagesOf(f) = {}

PagesMapped ==
  pc = "sent" /\ Stable =>
    \A i \in DOMAIN vec : i \in refused \/ PagesOf(vec[i]) \subseteq mapped

(* The controller fetches the command and the list written last: the       *)
(* doorbell does not overtake them ("Fence the write to submission queue   *)
(* entry before notifying the device", nvme.c:255).                        *)
FetchFresh ==
  [][pc = "sent" /\ pc' = "app" => memory.sqe = cmd /\ memory.list = list]_vars

=============================================================================

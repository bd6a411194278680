# libvfio in TLA+

libvfio is a C library with two user-space drivers on top of Linux VFIO: an
NVMe driver (`lib/nvme.c`) and an Intel I/OAT DMA driver (`lib/ioat.c`), and
the VFIO calls they share (`lib/vfio-helper.c`). The library runs in the
caller's thread and has no thread, lock or interrupt handler of its own; what is
concurrent is the hardware, which shares rings in memory and doorbell registers
with it. This directory holds models of the drivers, TLC runs on small
instances, and proofs checked by TLAPS.

## Inventory

| Component | State | Operations | Hard behaviour | What makes it correct |
|---|---|---|---|---|
| NVMe queue pair (`nvme.c` 236-272, 535-722) | `struct nvme_qp`: two rings, phase bit, 127 requests, `req_next`, counters | `nvme_submit_io`, `nvme_poll` | controller fetches and completes concurrently and in any order; callbacks re-enter the library | no ring overrun, no request recycled under the controller, each I/O answered once with its own status |
| NVMe commands (`nvme.c` 523-606) | none (PRP list page of a request) | PRP list, `cdw12`, doorbell addresses | alignment, overflow and zero boundaries | the command names exactly the pages of the vector |
| NVMe controller (`nvme.c` 207-234, 274-521) | `struct nvme_device`, registers | `nvme_init`: reset, enable, identify, create queues | polling with deadlines, synchronous admin commands, failures half way | the device is returned only when usable |
| NVMe store ordering (`nvme.c` 250-263, `vfio-helper.h` 30-34) | ring entry, doorbell | `nvme_kick` | compiler barrier only | the controller never sees the doorbell before the entry |
| I/OAT channel (`ioat.c` 48-164, 222-259, 619-755) | `struct propig_ioat_chan`: ring, `head`, `tail`, `last_seen` | build, submit, flush, process_events | engine executes concurrently; counters of 32 and 16 bits; completion by address | callbacks in order, each once, none early, none lost |
| I/OAT start (`ioat.c` 166-220, 273-397) | registers, ring | `ioat_channel_init`, `ioat_reset_hw` | time-outs, ignored results, memory not cleared | the channel starts clean or not at all |
| I/OAT discovery (`ioat.c` 406-617) | table of addresses | `ioat_channel_load`, `ioat_channel_unload` | bounds of the table, partial failure | every returned channel is started |
| VFIO helper (`vfio-helper.c`) | `struct propig_vfio`, descriptors, heap blocks | `propig_vfio_init`, `map_bar`, `init_irq`, `dma_map`, config space access | every call can fail | nothing leaked, nothing freed twice |
| MMIO accessors, register layouts, hex dump, build files | none | | | not modelled: single accesses, declarations, text |

The components interact by calls: the drivers call the VFIO helper to reach the
device and to make memory visible to it, the application calls the drivers, and
the drivers call the application's callbacks from inside `nvme_poll` and
`propig_ioat_process_events`. With the hardware they share memory and registers.

`PROJECT.json` lists the hazards of this code line by line, with the properties
that cover them or the module that is to.

## Plan

1. `NvmeIo`, `NvmeQueuePair` (done): the core of the NVMe driver, its abstract
   service, the proofs of its ring invariants in `NvmeQueuePairProofs`.
2. `IoatDma`, `IoatChannel` (done): the channel and its abstract FIFO service.
3. `NvmeController` (done): `nvme_init` with reset and ready deadlines, the
   admin queue (the service `NvmeIo`), identify and queue creation, failures at
   each step, and the proofs in `NvmeControllerProofs`.
4. `VfioSetup`, `IoatStart`, `IoatLoad` (done): `propig_vfio_init` with its
   clean-up, `ioat_channel_init` with `ioat_reset_hw` and an engine an earlier
   owner left in any status, and the loop over the devices sysfs lists. Each
   extends the one before, so the run covers the chain from a directory to
   running channels, and `StartsChannel` ties its end to the beginning of
   `IoatChannel`.
5. `NvmeSubmit` (done): PRP list, block count, DMA maps and the order of the
   stores that hand a command over.
6. Proofs of what the runs check, for every value of the constants (done: all
   but the liveness properties): the queue pair in
   `NvmeQueuePairProofs`, `NvmeRequestProofs` and `NvmeServiceProofs`, the
   controller in `NvmeControllerProofs`, the data of a command and its hand-over
   in `NvmeSubmitProofs`, the channel in `IoatChannelProofs` and
   `IoatServiceProofs`, loading and start in `IoatLoadProofs`.

## Modules

### NvmeIo

What the queue pair promises: an I/O handle is `idle`, `pending` or `executed`;
the controller executes it once with some status, and one callback delivers an
`rc` that is zero exactly when that status is `NVME_SUCCESS`.

### NvmeQueuePair

State: the fields of `struct nvme_qp` under their own names (`sqTail`,
`cqHead`, `cqPhase`, `reqNext`, `isUsed`, `needKick`, `inflight`; `reqIo` stands
for a request's `opaque`, callback and PRP list page); `pc`, `cur` and `stack`
for the place of the one thread, `stack` holding the callbacks in progress; the
two rings and doorbells; and the controller (external).

| Action | Code |
|---|---|
| `SubmitBegin`, `SubmitAbort` | `nvme_submit_io` up to the call of `nvme_submit_command`, with `nvme_get_free_req`; `assert(req)` failing |
| `SubmitCommand`, `Kick` | `nvme_submit_command`; `nvme_kick` |
| `PollBegin`, `PollReject`, `PollCallback`, `CallbackReturn` | `nvme_poll_cq`: phase test and head, bad identifier, callback, free and doorbell |
| `DevFetch`, `DevComplete`, `DevPostBad` | the controller |

A library function is cut wherever it touches memory or registers the controller
shares, so the controller may act in between. Callbacks are application code:
between `PollCallback` and `CallbackReturn` the application may submit and poll.
The application does not reuse a handle before its callback; the controller
completes a fetched command once, in any order, and posts only into free slots;
it may also post completions whose identifier names no request. `reqNext` is
kept modulo the pool size. `nvme_poll` over several queue pairs is this model
per pair, since pairs share nothing.

### IoatDma

What the channel promises: requests are accepted, carried out by the engine in
the order of their acceptance, and answered by callbacks in that order, never
before they were carried out. Its state is the set of requests `waiting`, the
order `earlier` of their acceptance as a set of pairs, and those of them that
are `carriedOut`. A relation says the same as a queue would and needs no
filtering of a sequence, which the provers cannot reason about.

### IoatChannel

State: `head`, `tail` (modulo `CountMod`, 2^32), `lastSeen`, the callbacks `cb`
of `ring`, the hardware descriptors `hw` (whose request, and the completion
update bit), `dmacount` (modulo `DmaMod`, 2^16), the completion word `compSlot`
and `halted`, and the engine's own count `executed`. Descriptor addresses are
slots: the code compares them after masking the low six bits, and only callocs the
ring ("TODO: Align to 64", `ioat.c:349`). That identifies slots if the ring begins
at a multiple of 64 bytes, and a ring that does not cannot be mapped and never
starts. The initial state is the one in which `ioat_channel_init` returns. The
refinement mapping to `IoatDma` reads everything off the ring: who waits is in
`told`, the order of acceptance is the order of the callbacks in `cb` between
`First` and `Accepted` (`Caller`, `Calls`, `InOrder`), and a request is carried
out when no descriptor of it is between `executed` and `Accepted` (`Finished`).

| Action | Code |
|---|---|
| `BuildBegin`, `Prep`, `Refuse`, `BuildEnd` | `propig_ioat_build_copy`, `propig_ioat_build_fill`, the `prep` functions; with `flushToo` the `submit` functions |
| `FlushBegin`, `FlushMark`, `FlushRing` | `propig_ioat_flush`: completion bit, then `dmacount` |
| `PollBegin`, `WalkSkip`, `WalkCallback`, `CallbackReturn` | `propig_ioat_process_events` |
| `EngineExecute`, `EngineHalt` | the engine (external) |

A request is a number of descriptors: a copy of zero bytes takes one (a null
descriptor), a fill of zero bytes none. A callback may build, submit and flush;
it does not call `process_events`, which the code does not support (the tail has
not moved yet, so the same callback would run again). Stores reach the engine in
program order, above all the mark of `FlushMark` before the count of `FlushRing`:
`propig_ioat_flush` has no barrier between them (`ioat.c:77`), not even one for the
compiler, so this is an assumption on both compiler and processor, as it is for
the rings of the queue pair.

### NvmeController

State: `pc`, the place in `nvme_init`; `late`, whether the deadline of the
current wait has passed, and `stale`, whether the last read of CSTS.RDY was in
vain; `qpCnt` (`qp_cnt`) and the queue identifiers `nvme_submit_io` `accepted`;
CC.EN (`enabled`), CSTS.RDY (`ready`) and, for each queue the controller has,
who owns its memory. The four admin commands are handles of an instance of
`NvmeIo`, the service that `NvmeQueuePair` implements, so the rings of the admin
queue are not modelled again. Initially the controller is as an earlier owner
left it: on or off, ready or not, with or without I/O queues.

| Action | Code |
|---|---|
| `Attach` | `nvme_init` up to the check of the command set; a failure returns NULL, or ends the process for a device outside of any IOMMU group |
| `Disable`, `Enable` | the writes of CC |
| `ReadStatus`, `CheckDeadline`, `Clock` | `wait_for_reset`, `wait_for_ready`: the loop condition, its body, the time |
| `AdminQueuePair`, `IoQueuePair` | `nvme_create_queue_pair`, with the mapping of the doorbells; `FAIL_Z` |
| `Program` | AQA, ASQ, ACQ |
| `InitIrq`, `IdentifyBuffer` | `propig_vfio_pci_init_irq`; the buffer of `nvme_identify` |
| `Issue`, `Answered` | `nvme_admin_cmd_sync` in `nvme_identify` and `nvme_add_io_queue`, and where each result leads |
| `SubmitIo` | the check of `qpid` in `nvme_submit_io` |
| `Reset`, `BecomeReady`, `Execute` | the controller (external) |

Time is only whether the deadline has passed, so the model covers every length
of the time-outs, zero included. That a failing status has a non-zero low byte
is assumed (`StatusAssumption`): otherwise the masking that run `qp_status` shows
would make a refused command look successful here as well.

### NvmeSubmit

The data of one command, which `NvmeQueuePair` leaves out. State: `pc`, the
arguments `vec` and `bytes` of the last call, the loop over the vector (`next`
element, `entries` written), the extents `used` so far, the pages the IOMMU has
`mapped`, the elements of the vector whose map was `refused` for another reason
than being mapped already, the PRP `list` page and the command `cmd` as the
thread sees them, `tail` (not wrapped), the processor's `stores` that are not yet
visible, `memory` as the controller sees it, and the blocks it `fetched`. Memory
is counted in blocks; a page has `PageBlocks` of them and an element of a vector
is a page number and a length. `Sizes` is the running sum of `get_iovec_size`;
it also says where in a transfer the blocks of an element belong (`Transferred`).

| Definition | Code |
|---|---|
| `SubmitIo`, `Abort` | `nvme_submit_io` up to its assertions on the size |
| `MapElement` | one turn of the loop over the vector: `dma_map`, and an entry for each whole page |
| `Build`, `NoEntry` | the command (`Prp2`, the count `Nlb`); `abort()` without an entry |
| `Kick` | `nvme_submit_command`, `nvme_kick`: list page, queue entry, doorbell |
| `Drain` | a store becomes visible (processor, external); with `Ordered` in program order, otherwise only stores to one place are |
| `DmaMap`, `Mapped` | what `propig_vfio_dma_map` may return for an element, and what is mapped then |
| `DevFetch`, `Executed`, `Transfer` | the controller (external): pages found from the block count, as NVMe defines PRPs; the command fails if the IOMMU does not let it reach all of them |

One command at a time uses one request, which is the worst case for its list
page: whatever the last command left there stands behind the new entries.

`propig_vfio_dma_map` fails for an extent that is not whole pages and for one that
overlaps what is mapped; and it may fail for any other, since the kernel may be
out of lockable memory or of map entries (nothing is ever unmapped), or not like
the address. `nvme_submit_io` looks at none of these results, and does the right
thing with one of them: a buffer submitted again is refused and reachable.
After the others the command is sent all the same, and the controller fails it.
Whether a page is reachable and why not is what `PagesMapped` is about, and what
becomes of the command `TransfersVector`.

Elements begin at a page, which the comment above `propig_vfio_dma_map` asks of
its callers ("host, iova, size must align to 4k", `vfio-helper.c:318`) and nothing
in `nvme_submit_io` checks. The memory of the rings and of the list page was
mapped when the queue pair was made.

### VfioSetup

One call of `propig_vfio_init`. State: the device `dev`, the step `at`, the
result `rc`, the memory of `iommu_info`, the open `files` of the call, the files
`held` by calls that have returned, and `broken`, the devices for which something
has failed that the way the devices are bound to drivers does not explain.

| Action | Code |
|---|---|
| `OpenContainer` ... `WriteCommand` | the calls in their order; `GetInfo` and `GetAllInfo` are the two rounds of `VFIO_IOMMU_GET_INFO` |
| `Fail` | `fail`, `fail_container`: what each failing step closes and frees; the second free of `iommu_info` may end the process |
| `Exit` | `open_vfio_group` for a device outside of any group |

Every step may fail. The kernel (external) refuses a group that is open, or one
of whose devices is (`GroupBusy`; that the code never closes a device descriptor
is visible in `held`), a group with a device of another driver (`Viable`), and
the descriptor of a device that is not bound to vfio-pci. An access to
configuration space is whole or fails. When a failure after line 207 frees
`iommu_info` a second time the C library normally notices and aborts; nothing
guarantees it, so `Fail` has both outcomes: the process ends, or the set-up
returns NULL and `channel_load` goes on to the next device.

### IoatStart

`ioat_channel_init` after `propig_vfio_init`. State: `pc`, the sleeps left in the
current wait (`tries`), the result of the reset (`resetRc`, which the code drops),
the fields of the channel, and the engine's status, command register, chain,
completion word and count.

| Action | Code |
|---|---|
| `StartBegin`, `VfioReturns` | the call, and the result of `propig_vfio_init` |
| `MapRegs`, `CheckLimits`, `Allocate` | `propig_vfio_pci_map_bar`; version and transfer capability; memory and DMA maps |
| `ReadStatus`, `SuspendWait`, `ClearErrors`, `ResetWait` | `ioat_reset_hw` |
| `StartChain`, `StartWait` | the null descriptor and its flush, the wait for an idle engine |
| `Events` | `propig_ioat_process_events` on that descriptor |
| `EngineObeys`, `EngineOld`, `EngineStarts` | the engine (external) |

The engine comes in any status, perhaps with an earlier owner's chain, and need
not obey the command register. A reset halts it; it becomes idle again only by
executing what it is given, and writes the completion word before it says so.
The page of the completion word is not cleared by the code, so it begins as
anything (`Junk` stands for every value that names no descriptor of the ring).
The results of the two DMA maps (`ioat.c:338`, `ioat.c:355`) are ignored; when one
has failed, as it does for a ring that does not begin at a page, the engine halts
on its first access, which `EngineStarts` allows.

### IoatLoad

`ioat_channel_load` and `ioat_channel_unload`. State: `load`, where the call is;
the directory `dir` and its `unread` entries; the `table` of addresses found,
how many were `tried`, the `channels` kept, the `limit` asked for; `loads` and
`before`, the number of calls and the files held when the last one began.

| Action | Code |
|---|---|
| `LoadBegin`, `ReadEntry`, `ScanEnd` | the scan: names, vendor and device, driver |
| `InitChannel`, `ChannelDone` | the loop over the table; a failure leaves its slot of the array to the next device |
| `ProcessExits` | `exit` or abort inside `propig_vfio_init` |
| `Unload` | `ioat_channel_unload` |

Names are canonical PCI addresses or no addresses, so parsing and printing give
the name back, and a directory has each name once (`ListingsAssumption`).
`LoadExact` describes the result independently of the loops: the elements of the
directory that match, and of those tried the ones available (`Selected`).

### MCNvmeQueuePair, MCIoatChannel, MCNvmeController, MCIoatLoad, MCNvmeSubmit

The instances for TLC: the symmetry of I/O handles and of requests, the statuses
of admin commands, groups and drivers of the devices, the vectors submitted.

## Runs

| Run | Question | Bounds |
|---|---|---|
| `qp_safety` | ring and request invariants, `assert(req)` fails only when every request is taken, refinement of `NvmeIo` | 3 slots, 2 requests, 3 I/Os, 2 statuses, 2 nested callbacks |
| `qp_service` | phase test, stability of completions, refinement of `NvmeIo`, every I/O answered | 3 slots, 2 requests, 2 I/Os, 1 status, 2 rejected completions, 1 nested callback |
| `qp_abort` | `assert(req)` fails with as many I/Os as requests | 4 slots, 3 I/Os |
| `qp_status` | a status whose low byte is zero | 3 slots, 1 I/O, statuses 0 and 0x100 |
| `ioat_ring` | descriptors stable under the engine, completions exact, walk bounded | 4 slots, counters modulo 8 and 16, 3 requests of 1 or 2 descriptors, fills of none |
| `ioat_service` | refinement of `IoatDma`, every submitted request answered | 4 slots, counters modulo 8, 2 requests |
| `ioat_fill` | a fill of zero bytes | 1 request |
| `nvme_init` | registers written only while off, queues of an earlier owner gone, commands only when ready, the device usable, an end | statuses 0, 2 and 0x101; no bound on anything else |
| `nvme_init_queue` | I/O accepted for queues the controller refused | as `nvme_init` |
| `ioat_load` | clean-up of a failed set-up, a started channel in the state `IoatChannel` begins in, exactly the devices that can be had, an end | two directories of 5 entries, 2 sleeps for each wait, 2 calls, limits none and 1 |
| `nvme_submit` | the blocks transferred or the command failed, why a page may be unmapped, nothing stale fetched | pages of 2 blocks, lists of 4 entries, counts modulo 16, 3 commands from 10 vectors, any map may fail |
| `nvme_weak` | the same order on a processor that reorders stores | 2 vectors, `Ordered` false |

Why the bounds are enough. Queue pair: three slots are the smallest completion
ring with a full, an empty and a partly filled state and two requests that
complete out of order; the runs go round the rings without limit, so every
alignment of head, tail, doorbell and phase occurs. `MaxBadCqe` bounds rejected
completions; in `qp_service` there are as many as the ring holds, so the case in
which they use it up for good occurs: that path never rings the doorbell, and
`EveryIoAnswered` excepts exactly the stalled ring with no slot left. `MaxNest`
bounds callbacks within callbacks. Channel: four slots hold two requests of
different sizes, and the counters wrap at twice and four times the ring, as 2^16
and 2^32 do at twice and 2^17 times 2^15. Loading: the directories hold two
engines of one group, an engine whose group has a device without driver, devices
of other drivers, another function and one that cannot be read; a second call
meets what the first left open. Two sleeps separate the first look at a register
from the one that comes too late. Submission: the vectors have one page, two and
a list of them, up to the last entry and one beyond; some overlap, are not whole
pages or resubmit a buffer, and three commands are enough for a buffer to be
mapped, to grow and to be used again, and for a map to fail before or after it
worked for another buffer or the same. `CHECK_DEADLOCK FALSE` is set only where
`assert(req)` may really end the program.

### Where code and text disagree

- `qp_abort`: a request is freed after its callback, so an application that
  keeps all requests busy and resubmits from a callback fails `assert(req)`.
- `qp_status`: `nvme_translate_error` masks the status to a byte, so
  `NVME_INVALID_CQID` (0x0100) is delivered as success.
- `ioat_fill`: `propig_ioat_build_fill` with zero bytes returns `-ENOMEM` on an
  empty ring, in the branch commented "Ran out of descriptors in the ring".
- `nvme_init_queue`: when a queue creation command fails, `nvme_init` sets
  `ret = -EIO` and returns the device all the same; the pair is already counted
  in `qp_cnt`, so `nvme_submit_io` accepts I/O that nothing will answer.
- `nvme_weak`: the comment before `wmb()` in `nvme_kick` asks for the entry to be
  visible before the doorbell, but `wmb()` is a compiler barrier: on a processor
  that reorders stores the controller fetches an old entry. On x86 it is enough.

What the passing runs except, and why, is part of the same picture: a failure
after the IOMMU information was parsed frees it twice, which normally aborts the
process (`FailureReleases`), a
device descriptor is never closed, so the group of a failed or unloaded channel
stays busy (`Free` in `LoadExact`), a channel started although its reset failed
may keep `process_events` walking for ever (`LoadReturns`), and a command with an
element whose map failed is sent and fails (`PagesMapped`, `TransfersVector`).

### Seeded faults

Definitions named `Fault...` in the modules are wrong versions of the definition
they precede. No specification uses them; `PROJECT.json` says which property
each of them breaks when put in its place.

## Fairness

`NvmeQueuePair!FairSpec`: steps inside a library function happen (the code has
no blocking call there), the application goes on polling, callbacks return, and
the controller fetches and completes every command. Without the last three the
library can promise nothing, as it has no thread of its own. A program that
`assert(req)` has ended is excepted from `EveryIoAnswered`. Weak fairness is
enough because handles are finite: the application cannot keep the thread busy
with submissions. `IoatChannel!FairSpec` is the same for the channel, with
strong fairness of polling and of the return of callbacks, since an application
may flush without end in between. Neither assumes that the engine does not halt.

`NvmeController!FairSpec`: the thread runs, time passes, and an admin command is
answered, because `nvme_admin_cmd_sync` has no deadline. The controller need not
follow CC.EN: the deadlines have to end those waits. `IoatLoad!FairSpec` assumes
only that the calling thread runs; the engine may do nothing at all.
`NvmeSubmit` states no liveness.

## Proofs

Every theorem below is about all values of the constants that satisfy the named
assumptions of the module concerned; the assumptions restate the code's
constants (sizes, widths) or say that markers like `NoReq` are no values. TLC
checked each invariant on a run's instance before it was proved.

### Queue pair: `NvmeQueuePairProofs`, `NvmeRequestProofs`, `NvmeServiceProofs`

For every queue size, any handles and statuses, any number of rejected
completions and any nesting of callbacks.

- `TypeCorrect`: `TypeOK` is inductive; the two facts it needs are that indices
  advance within the ring (`AdvanceWraps`) and that the identifier test of
  `nvme_poll_cq` admits only requests of the pool (`AcceptedCid`).
- `PhaseTagCorrect` and `CompletionsStable`: neither property is inductive.
  `CqInv` adds the cyclic order doorbell, head, tail (`CqOrder`), the phase of
  every slot as a function of the controller's tail (`PassPhase`), the relation
  of the two phase bits (`HeadPhase`) and the fact that the entry being reaped
  lies just before the head and has not been given back (`ReapedHeld`).
- `RingNeverOverrun` (`SqNeverOverrun`), `RequestsOwned` (`DeviceOwnsRequest`),
  `NoConflict` (`NoCidConflict`). The invariant `RequestInv` says where a
  request in use is: being built, in the submission ring, in the controller, in
  the completion ring or in a callback. `Places` makes the five places disjoint
  and each free of duplicates; `Described`, `Waits` and `Verdicts` tie each
  request to its I/O handle, and the handle to its status, all the way round.
  None of it is optional: that a ring entry is not duplicated depends on
  `get_free_req` handing out unused requests, which depends on requests in the
  controller being marked used, which depends on completions naming each request
  once. The ring is not overrun because its entries, and the request being
  written, are different requests of a pool with one fewer than the ring has
  slots: the pigeonhole theorem (`FS_PigeonHole`) excludes a full ring.
- `ImplementsService` (`ServiceSpec`): from `RequestInv` each step of the pair
  is a step of `NvmeIo` or changes nothing of it. Its hypothesis
  `StatusesDistinguished` excludes statuses other than success with a zero low
  byte; without it the theorem is false, which is the finding of `qp_status`.
- `RoomForCompletions`: `CqHasRoom` as long as no completion was rejected
  (`badCqe = 0`, which the state says of itself). A rejected completion takes a
  slot that no doorbell gives back in time, and then the property is false; it is
  the case in which `EveryIoAnswered` excepts a stalled ring. `RoomInv` maps the
  slots waiting and the slots consumed to different requests, and the
  pigeonholes exclude a full ring again, by two slots.
- `InflightCounts` (`InflightExact`) and `AbortsOnlyWhenFull`
  (`AbortOnlyWhenFull`): cardinalities of the same sets. The second needs that
  the round robin search of `get_free_req` visits every request.

### Controller: `NvmeControllerProofs`

For any statuses and result codes. The invariant `TakenOver` adds to the
properties what each point of `nvme_init` knows of CC.EN and CSTS.RDY
(`Registers`), who owns the queues when (`Owners`), and that only the command
being waited for is in the admin queue (`Commands`).

- `OnlyMine`, `CommandsReachReady`, `ProgramsOff`: the properties
  `OnlyMyQueues`, `CommandWhileReady` and `ProgrammedWhileOff`.
- `TypeCorrect` (`TypeOK`) and `ReturnsUsable` (`DeviceUsable`) need two further
  parts: the queue pairs counted at each point (`QueuePairs`; without it `qp_cnt`
  has no bound) and what each point has achieved (`Achieved`: the identify
  commands behind it succeeded, and the I/O queues exist or a command that
  creates them failed).

### A command and its hand-over: `NvmeSubmitProofs`

For any vectors, any page and list sizes and any number of commands.

- `FetchesFresh` (`FetchFresh`), with the hypothesis `Ordered`: the processor
  makes stores visible in program order. `nvme_weak` refutes it otherwise.
  The invariant `InOrder` says that the stores not yet visible are a suffix of
  the last command's three, the doorbell being the last; so when the controller
  sees the doorbell it sees all of them.
- `CommandMapped` (`PagesMapped`) holds on any processor. It does not say that
  the pages of a command are mapped, which is false when a map fails and nobody
  looks. It says that this is the only way: being refused as mapped already never
  leaves a page unmapped, whatever maps failed before. Its invariant `MapInv` says
  that the pages mapped are those of whole extents submitted (`Held`), so an
  element that is refused for overlapping one of them is, where extents are equal
  or apart, that same extent; and that the loop has mapped what it went through or
  seen its map fail (`Through`).
- `TypeCorrect` (`TypeOK`), on any processor. That the entries stay in the list
  page is not evident: the assertion compares the size of the whole vector, the
  loop counts the whole pages of each element. `DataInv` relates the two at every
  turn (`Counted`: the entries written have no more blocks than the elements
  behind the loop, and as many if these are whole pages).
- `VectorTransferred` (`TransfersVector`), with `Ordered` and `CountFits`, that a
  full list has a block count of 16 bits. `DataInv` says where in the list the
  pages of each element are (`Written`), that the list has no others (`Covered`)
  and that the command was built from the complete list (`Built`); `Fetched` that
  what the controller did last is the last command. What remains is that the
  controller, which knows only the block count, divides it into the same pages as
  the vector (`PagesOfCommand`, `BlockOfElement`), so it reaches all of them
  exactly if every element is mapped (`ReachesVector`). `CountFits` holds for pages of 4, 8 and 16 KB and any block
  size; with 32 KB pages, lists of 4096 entries and blocks of 512 bytes the
  assertions let a command through whose count wraps.

Sums over a vector are recursive functions, and facts about them are proved by
induction. The induction theorems of the library take an operator and cannot be
used, but a least element of a set of numbers serves as well: `Induction` derives
from well-foundedness that a set which contains 0 and successors contains
`0 .. n`. A function defined by recursion is what its equation says once such an
induction has shown that some function satisfies it (`SizesExists`,
`SizesEquation`).

### Channel: `IoatChannelProofs`, `IoatServiceProofs`

For every ring size, all counter widths that are multiples of each other as
2^32, 2^16 and the ring size are, any requests and any numbers of descriptors.

The difficulty is that head and tail are kept modulo 2^32, the engine's counts
modulo 2^16 and slots modulo the ring size. The invariant `ChannelInv` speaks of
the unbounded counts of which all these are remainders: T descriptors retired, E
executed, D announced, H prepared, with T <= E <= D <= H < T + RingSize
(`Counts`); the last descriptor announced is marked (`Marks`); and L, the last one
the completion word was written for, lies between T - 1 and E - 1 with no mark
between L and E (`Seen`). A few lemmas on remainders (`ModWindow`, `ModMod`,
`ModDifference`) carry this over to the fields the code computes with
(`Measures`): numbers less than a modulus apart have different remainders, and a
count kept modulo a multiple is exact modulo the divisor.

- `TypeCorrect` (`TypeOK`), `DescriptorsStable` (`DescriptorStable`),
  `CompletionsExact` (`CompletionExact`), `WalkStops` (`WalkBehindEngine`). The
  slot the ring keeps empty is what makes `CompletionExact` true: L and T - 1 are
  less than a ring apart.
- `ImplementsDma` (`ServiceSpec`): the channel implements `IoatDma`. Two more
  counts: O, the descriptors of accepted calls (`Taken`), and F, the first whose
  callback has not begun (`Base`). `Queued` says that between F and O the
  callbacks are exactly those of the requests waiting, each once, and that every
  descriptor there is followed by the callback of its request. From this: a
  callback begins only for the oldest request, which was carried out, because F <
  E; the engine finishes a request with the descriptor that carries the callback,
  and finished all earlier ones before; a call that ends is after all others.
  `Linked` translates the refinement mapping, which counts modulo the widths,
  into these counts; then there is one lemma per step.

### Loading and start: `IoatLoadProofs`

For any devices, drivers and directories, any number of sleeps and of loads.
`LoadInv` ties the files and the memory of a set-up to its step (`Opened`,
`Information`), the channel's fields to the point of `ioat_channel_init`
(`Thread`), the engine to what was announced to it (`Engine`), and says what
the engine can do once its reset is complete (`WasReset`: it waits, has executed
the null descriptor, or has failed).

- `TypeCorrect` (`TypeOK`), `FailuresRelease` (`FailureReleases`) and
  `ChannelsStart` (`StartsChannel`). The last says that `IoatChannel` begins
  where the start ends, so the theorems about the channel apply to what
  `ioat_channel_load` returns after a completed reset.
- `LoadsExactly` (`LoadExact`). `ExactInv` says how far the scan is (`Listed`:
  the table is what matches among the entries read, each once), what is known of
  a device not yet tried (`Waiting`: nothing of it failed or was opened) and of
  the one being tried (`Current`: what the kernel would have refused by now), and
  what became of those tried before (`Settled`). The difficulty is that whether a
  device is available changes while the loop runs, since the devices share groups:
  `SettledStays` shows that it never does for a device already tried. One that
  was put into the array keeps its group busy, so no neighbour can be opened; one
  that was not stays unavailable because nothing is ever closed (`Holding`).
  `Selected` is a recursive function, with `SelectedEquation` and `SelectedAgree`
  (what is selected up to a place depends only on the elements up to it) proved by
  `Induction` as above.

The assumptions the module adds to its constants name what the model already
meant: `AddressAssumption`, that neither the null pointer nor what an
uninitialised page holds (`Junk`) is the address of the first descriptor;
`LimitsAssumption`, that limits and numbers of loads are numbers; and
`ListingsAssumption`, that a directory lists each name once. Without the last
the theorem is false: a device listed twice would be found busy by itself.

### Model-checked only

- Liveness (`EveryIoAnswered`, `EveryRequestAnswered`, `InitReturns`,
  `LoadReturns`): the installed provers do not handle fairness and ENABLED.
- The runs that expect a violation are counterexamples, which need no proof.

Every invariant and action property of the other runs, and both refinements, are
theorems.

## Not modelled

- Sizes in bytes of I/OAT transfers and their limits, and `max_transfer` of the
  NVMe driver: a request is a number of descriptors, a command any vector the
  assertions accept. The doorbell stride, and with it the addresses of the
  doorbells.
- The table of 128 found devices when there are more, and the signed overflow of
  `req_next`: what follows is undefined.
- The copy of the IOVA ranges, which nothing reads; memory leaked by failed
  calls; IOMMU entries that outlive their memory (nothing is ever unmapped).
- Directory entries that parse as an address but print differently, and accesses
  to configuration space that transfer fewer bytes than asked.
- Within `nvme_init`: the `fork` check (it ends the process before any change of
  state), `-EBUSY` of admin commands (there is one at a time), a controller that
  fails once it is ready, memory and descriptors leaked by a failure.
- Stores out of order inside the queue pair and the channel: `NvmeQueuePair` and
  `IoatChannel` assume program order, which `NvmeSubmit` examines for the hand-over
  of an NVMe command only.
- Vectors whose elements do not begin at a page. They pass the assertions of
  `nvme_submit_io`, the map fails, and the list gets addresses the controller does
  not accept in a list.
- The contents of data buffers; MMIO accessors, register layouts, debugging
  output and build files, which have no behaviour of their own.

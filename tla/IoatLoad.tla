------------------------------ MODULE IoatLoad ------------------------------
(***************************************************************************)
(* ioat_channel_load and ioat_channel_unload of lib/ioat.c: the scan of    *)
(* /sys/bus/pci/devices for the supported engine, ioat_channel_init of     *)
(* each one found, and the array of channels that is handed out.  It is    *)
(* the whole chain from sysfs to a running channel: the modules it extends *)
(* do the work of one device.                                              *)
(*                                                                         *)
(* A directory entry is a hidden name, a name that is no PCI address, or a *)
(* function of Device; of a function's files the scan reads the identity   *)
(* and the driver, and skips it if it cannot.                              *)
(***************************************************************************)
EXTENDS IoatStart, Sequences

CONSTANTS
  Listings,   \* what readdir may return, in its order
  IdOf,       \* vendor and device of a function: "ioat", "other", "unreadable"
  Limits,     \* values of *cnt: 0 is no limit
  MaxLoads    \* bound: calls of ioat_channel_load

ASSUME IdAssumption == DOMAIN IdOf = Device
(* A directory has every name once. *)
ASSUME ListingsAssumption ==
  \A l \in Listings : /\ l \in Seq({l[i] : i \in DOMAIN l})
                      /\ \A i, j \in DOMAIN l : l[i] = l[j] => i = j
ASSUME LimitsAssumption == Limits \subseteq Nat /\ MaxLoads \in Nat

VARIABLES
  load,       \* idle, scan, init, or how the call ended
  dir,        \* the directory
  unread,     \* entries readdir has not returned
  table,      \* addr[0 .. ioat_cnt - 1]
  tried,      \* devices of the table given to ioat_channel_init
  channels,   \* ioats[0 .. j - 1]
  limit,      \* *cnt on entry
  loads,      \* calls begun
  before      \* held, when the call began

list == <<load, dir, unread, table, tried, channels, limit, loads, before>>
vars == <<setup, start, list>>

Init ==
  /\ SetupInit /\ StartInit
  /\ load = "idle" /\ dir \in Listings /\ unread = <<>> /\ table = <<>>
  /\ tried = 0 /\ channels = <<>> /\ limit = 0 /\ loads = 0 /\ before = held

-----------------------------------------------------------------------------
(* opendir; without the directory there is nothing to try. *)
LoadBegin(max) ==
  /\ load = "idle" /\ loads < MaxLoads
  /\ \/ load' = "scan" /\ unread' = dir
     \/ load' = "returned" /\ unread' = <<>>
  /\ limit' = max /\ loads' = loads + 1
  /\ table' = <<>> /\ tried' = 0 /\ channels' = <<>>
  /\ before' = held /\ broken' = {}
  /\ UNCHANGED <<dev, at, rc, info, files, held, dir, start>>

(* Names of functions parse and print as themselves.  A function whose     *)
(* files cannot be read is skipped, one without a driver is not, and one   *)
(* of a kernel driver is.                                                  *)
IsAddress(e) == e \in Device
HasDriver(d) == DriverOf[d] # "none"
Readable(d) ==
  /\ IdOf[d] # "unreadable"
  /\ HasDriver(d) => DriverOf[d] \in {"vfio-pci", "igb_uio", "uio_pci_generic"}

Matches(e) == IsAddress(e) /\ Readable(e) /\ IdOf[e] = "ioat"

ReadEntry ==
  /\ load = "scan" /\ unread # <<>>
  /\ unread' = Tail(unread)
  /\ table' = IF Matches(Head(unread)) THEN Append(table, Head(unread)) ELSE table
  /\ UNCHANGED <<setup, start, load, dir, tried, channels, limit, loads, before>>

ScanEnd ==
  /\ load = "scan" /\ unread = <<>>
  /\ load' = IF table = <<>> THEN "returned" ELSE "init"
  /\ UNCHANGED <<setup, start, dir, unread, table, tried, channels, limit, loads, before>>

InitChannel ==
  /\ load = "init" /\ pc = "out"
  /\ StartBegin(table[tried + 1])
  /\ UNCHANGED list

FaultKept == Append(channels, dev)
Kept == IF pc = "ready" THEN Append(channels, dev) ELSE channels

Enough == pc = "ready" /\ Len(channels') = limit

(* A device that failed leaves its slot of the array to the next one. *)
ChannelDone ==
  /\ load = "init" /\ pc \in {"ready", "failed"}
  /\ pc' = "out"
  /\ channels' = Kept
  /\ tried' = tried + 1
  /\ load' = IF Enough \/ tried' = Len(table) THEN "returned" ELSE load
  /\ UNCHANGED <<setup, tries, resetRc, head, tail, lastSeen, marked, engine,
                 dir, unread, table, limit, loads, before>>

ProcessExits ==
  /\ load = "init" /\ rc = "exited"
  /\ load' = "exited"
  /\ UNCHANGED <<setup, start, dir, unread, table, tried, channels, limit, loads, before>>

(* Only the array is freed: the devices stay open. *)
Unload ==
  /\ load = "returned"
  /\ load' = "idle" /\ channels' = <<>>
  /\ UNCHANGED <<setup, start, dir, unread, table, tried, limit, loads, before>>

(* After the last modelled call, in an exited process, and in a walk       *)
(* without end, nothing happens any more.                                  *)
Stopped ==
  /\ load = "exited" \/ pc = "walk" \/ (load = "idle" /\ loads = MaxLoads)
  /\ UNCHANGED vars

Library ==
  \/ ReadEntry \/ ScanEnd \/ InitChannel \/ ChannelDone \/ ProcessExits
  \/ load = "init" /\ StartStep /\ UNCHANGED list

Next ==
  \/ \E max \in Limits : LoadBegin(max)
  \/ Library
  \/ EngineStep /\ UNCHANGED list
  \/ Unload
  \/ Stopped

Spec == Init /\ [][Next]_vars

(* The thread that called the library runs on; the engine may do nothing. *)
FairSpec == Spec /\ WF_vars(Library)

-----------------------------------------------------------------------------
(* Every variable keeps its type. *)
TypeOK ==
  /\ SetupTypeOK /\ StartTypeOK
  /\ load \in {"idle", "scan", "init", "returned", "exited"}
  /\ dir \in Listings
  /\ {table[i] : i \in DOMAIN table} \subseteq Device
  /\ tried \in 0 .. Len(table) /\ limit \in Limits \cup {0} /\ loads \in 0 .. MaxLoads
  /\ {channels[i] : i \in DOMAIN channels} \subseteq Device

(* The group of d was taken neither before the call (unload gives nothing  *)
(* back) nor by another engine of it: one in the array, or one whose start *)
(* failed after its device was opened.                                     *)
Free(d) ==
  \A e \in Neighbours(d) : before[e] = {} /\ (e # d => "device" \notin held[e])

(* A supported engine bound to vfio-pci in a viable, free group, for which *)
(* nothing has failed.                                                     *)
Available(d) ==
  Matches(d) /\ DriverOf[d] = "vfio-pci" /\ Viable(d) /\ d \notin broken /\ Free(d)

(* The elements of s that are in T, up to each place in s. *)
Selected(s, T) ==
  LET t[i \in 0 .. Len(s)] ==
        IF i = 0 THEN <<>> ELSE IF s[i] \in T THEN Append(t[i - 1], s[i]) ELSE t[i - 1]
  IN t

(* channel_load hands out exactly the supported engines it can have, in    *)
(* the order of the directory, and stops early only with the number of     *)
(* channels it was asked for.                                              *)
LoadExact ==
  load = "returned" /\ table # <<>> =>
    /\ table = Selected(dir, {d \in Device : Matches(d)})[Len(dir)]
    /\ channels = Selected(table, {d \in Device : Available(d)})[tried]
    /\ tried < Len(table) => Len(channels) = limit

(* channel_load comes back, however the engines behave: every wait is      *)
(* bounded, and only a channel started although its reset failed can keep  *)
(* process_events walking for ever.                                        *)
LoadReturns ==
  load = "scan" ~> load \in {"returned", "exited"} \/ (pc = "walk" /\ resetRc = "failed")

=============================================================================

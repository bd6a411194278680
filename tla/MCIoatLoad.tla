----------------------------- MODULE MCIoatLoad -----------------------------
(* Instance for TLC of IoatLoad: two engines in one group, one of its own  *)
(* that shares it with a device of no driver, and entries the scan skips.  *)
EXTENDS IoatLoad

MCDevice == {"a1", "a2", "b1", "b2", "k", "n", "u", "x"}
MCGroupOf == [d \in MCDevice |-> CASE d \in {"a1", "a2"} -> "A"
                                   [] d \in {"b1", "b2"} -> "B"
                                   [] OTHER -> d]
MCDriverOf == [d \in MCDevice |-> CASE d = "b2" -> "none"
                                    [] d = "k"  -> "ioatdma"
                                    [] d = "u"  -> "igb_uio"
                                    [] OTHER    -> "vfio-pci"]
MCIdOf == [d \in MCDevice |-> CASE d = "n" -> "other" [] d = "x" -> "unreadable" [] OTHER -> "ioat"]
MCListings == {<<".", "a1", "k", "a2", "b1">>, <<"x", "u", "b2", "a1", "n">>}
=============================================================================

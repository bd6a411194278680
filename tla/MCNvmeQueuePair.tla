-------------------------- MODULE MCNvmeQueuePair --------------------------
(* Small instances of NvmeQueuePair for TLC. *)
EXTENDS NvmeQueuePair, TLC

IoSymmetry == Permutations(Io)

=============================================================================

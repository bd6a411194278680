--------------------------- MODULE MCIoatChannel ---------------------------
(* Small instances of IoatChannel for TLC. *)
EXTENDS IoatChannel, TLC

ReqSymmetry == Permutations(Req)

=============================================================================

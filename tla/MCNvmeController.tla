-------------------------- MODULE MCNvmeController -------------------------
(* Instance for TLC of NvmeController. *)
EXTENDS NvmeController

MCStatus == {0, 2, 257}
MCRc == {"0", "-EINVAL"}
=============================================================================

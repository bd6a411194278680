---------------------------- MODULE MCNvmeSubmit ----------------------------
(* Instances for TLC of NvmeSubmit: pages of two blocks, vectors of up to  *)
(* four pages, extents that overlap, and one that is half a page.          *)
EXTENDS NvmeSubmit

Extent(base, len) == [base |-> base, len |-> len]

MCVectors ==
  { <<Extent(1, 2)>>, <<Extent(1, 4)>>, <<Extent(3, 2), Extent(1, 2)>>,
    <<Extent(1, 2), Extent(3, 4)>>, <<Extent(3, 4), Extent(1, 4)>>,
    <<Extent(5, 2), Extent(1, 4), Extent(3, 2)>>,
    <<Extent(1, 1), Extent(3, 3)>>, <<Extent(5, 1), Extent(6, 1)>>,
    <<Extent(1, 8), Extent(5, 2)>>, <<Extent(1, 1)>> }
MCFewVectors == { <<Extent(1, 2)>>, <<Extent(3, 4), Extent(1, 2)>> }
=============================================================================

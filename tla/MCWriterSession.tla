--------------------------- MODULE MCWriterSession ---------------------------
(***************************************************************************)
(* Small cards for WriterSession: a window of 4 blocks of 4 units, with    *)
(* two-unit boot sectors.  The sizes are the extents at and next to every  *)
(* boundary the source compares with: the block, the selective list's      *)
(* second block, each window, the tiny tail's two limits and the mapped    *)
(* half windows.                                                           *)
(***************************************************************************)
EXTENDS WriterRefinement

MCSizes == {4, 5, 8, 9, 15, 16, 17, 24, 31, 32, 33, 34, 35, 36, 37, 40, 47,
            48, 49, 56, 63, 64}
=============================================================================

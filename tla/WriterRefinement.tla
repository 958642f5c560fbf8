-------------------------- MODULE WriterRefinement ---------------------------
(***************************************************************************)
(* The writer session implements the contract of CardWriteContract.  The   *)
(* refinement mapping forgets where in the card a unit is and which bank a *)
(* mark is in, and reads the contract's outcome and claim off the result.  *)
(***************************************************************************)
EXTENDS WriterSession

FlashView ==
    IF \A u \in Units : flash[u] = "old" THEN "intact"
    ELSE IF \A u \in ImageUnits : flash[u] = "image" THEN "whole"
    ELSE "torn"

SavesView ==
    IF \A b \in Banks : saves[b] = "user" THEN "kept"
    ELSE IF \A b \in Banks : saves[b] = "zero" THEN "zero"
    ELSE "touched"

Contract == INSTANCE CardWriteContract WITH
    flash <- FlashView, saves <- SavesView, primed <- need,
    claim <- verdict, outcome <- status

\* Every behaviour of the session, faults included, is one the contract
\* allows: the order clear, flash, claim, clear, return that CardWriter::write
\* keeps on each of its paths.
MeetsContract == Contract!Spec
=============================================================================

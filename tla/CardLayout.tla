----------------------------- MODULE CardLayout -----------------------------
(***************************************************************************)
(* What the image builder and the readers of a card agree on: the card,    *)
(* the size classes of a ROM, the two forms of the loader, the cells of an *)
(* image and the extent a catalog entry gives a ROM.                       *)
(*                                                                         *)
(* A unit stands for a number of bytes that divides every length of the    *)
(* source.  On the real card CardLen is 0x2000000 bytes, ProgramBlock      *)
(* 0x10000, Align 16, Page 0x100, Header 0xC0, SingleLoader 0x660,         *)
(* TwoRomLoader 0x6F80 and MultiLoader 0x7080.                             *)
(***************************************************************************)
EXTENDS Integers, Sequences

CONSTANTS
    CardLen, CardHalf,
    ProgramBlock,   \* the smallest size class
    SizeClasses,    \* the powers of two from ProgramBlock to CardLen
    Align,          \* boundary a loader starts on
    Page,           \* boundary a programmed extent ends on
    Header,         \* a ROM has at least its header and entry area
    SingleLoader, TwoRomLoader, MultiLoader

ASSUME LayoutAssumption ==
    /\ CardHalf \in Nat \ {0} /\ CardLen = 2 * CardHalf
    /\ ProgramBlock \in SizeClasses /\ CardLen \in SizeClasses
    /\ \A c \in SizeClasses :
        /\ c \in Nat \ {0} /\ ProgramBlock =< c /\ c =< CardLen
        /\ CardLen % c = 0 /\ c % ProgramBlock = 0
    /\ Align \in Nat \ {0} /\ CardHalf % Align = 0
    /\ Page \in Nat \ {0} /\ CardLen % Page = 0
    /\ Header \in 1..(ProgramBlock - 1)
    /\ SingleLoader \in Nat \ {0} /\ SingleLoader =< MultiLoader
    /\ MultiLoader \in Nat
    /\ TwoRomLoader \in Nat \ {0} /\ TwoRomLoader =< MultiLoader
    /\ Align + MultiLoader =< CardHalf

Units == 0..(CardLen - 1)

AlignUp(x, a) == ((x + a - 1) \div a) * a

\* Minimum of the two ends an extent can have.
Lower(a, b) == IF a < b THEN a ELSE b
Higher(a, b) == IF a < b THEN b ELSE a

-----------------------------------------------------------------------------
(* Cells.  An erased byte is FF; a unit of the k-th ROM in physical order;   *)
(* a unit of the loader; the first unit of a ROM whose entry branch goes to  *)
(* the loader at l; the zero fill of the second half; what the card held     *)
(* before.                                                                   *)

Erased == <<"erased", 0, 0>>
RomCell(k, j) == <<"rom", k, j>>
LoaderCell(j) == <<"loader", j, 0>>
PatchedCell(l) == <<"patched", l, 0>>
ZeroCell == <<"zero", 0, 0>>
OldCell == <<"old", 0, 0>>
Cells == {"erased", "rom", "loader", "patched", "zero", "old"} \X Nat \X Nat

-----------------------------------------------------------------------------
(* Size classes: RomAnalyzer's entryType, which the catalog stores, and      *)
(* the placement allocator's multi_rom_size_class_alignment are the same     *)
(* class, and CatalogEntry::storedEnd takes it back to an extent.            *)

IsSizeClass(size, c) ==
    /\ c \in SizeClasses /\ size =< c
    /\ \A d \in SizeClasses : size =< d => c =< d

SizeClass(size) == CHOOSE c \in SizeClasses : IsSizeClass(size, c)

\* An entry of the catalog, its mapping flag and name left out.
Entry(start, extent) == [start |-> start, extent |-> extent]

HasStoredExtent(e) == e.start + e.extent =< CardLen

\* Mutant: the next ROM does not end the allocation of this one.
AllocationEndStored(entries, k, loader) ==
    LET e == entries[k]  stored == e.start + e.extent IN
    IF ~HasStoredExtent(e) THEN e.start
    ELSE IF k = Len(entries) /\ loader > e.start /\ loader < stored
      THEN loader ELSE stored

\* Ez3CatalogLayout::allocationEnd; an entry without an allocation ends where
\* it starts.
AllocationEnd(entries, k, loader) ==
    LET e == entries[k]  stored == e.start + e.extent IN
    IF ~HasStoredExtent(e) THEN e.start
    ELSE IF k < Len(entries)
      THEN Higher(e.start, Lower(stored, entries[k + 1].start))
    ELSE IF loader > e.start /\ loader < stored THEN loader
    ELSE stored

\* boundedSaveScanSpan
Span(entries, k, loader) ==
    AllocationEnd(entries, k, loader) - entries[k].start

-----------------------------------------------------------------------------
(* reconstructEz3Rom: what the card reader returns for the k-th entry of a   *)
(* catalog with n entries, the loader's extent given back as erased units    *)
(* and the entry branch of the first ROM restored.                           *)

\* Mutant: the single-ROM length for every layout.
BlankedLengthSingle(n) == SingleLoader

BlankedLength(n) == IF n = 1 THEN SingleLoader ELSE MultiLoader

Restored(k, cell) ==
    IF k = 1 /\ cell[1] = "patched" THEN RomCell(1, 0) ELSE cell

Extracted(card, e, k, n, loader) ==
    [j \in 0..(e.extent - 1) |->
        IF e.start + j \in loader..(loader + BlankedLength(n) - 1)
        THEN Erased
        ELSE Restored(k, card[e.start + j])]
=============================================================================

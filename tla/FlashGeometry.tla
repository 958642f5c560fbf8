---------------------------- MODULE FlashGeometry ----------------------------
(***************************************************************************)
(* The address arithmetic of the EZ3 flash as the writer uses it: which    *)
(* sectors the erase lists name, in which window a programmed byte goes,   *)
(* and which read-back mode an image extent gets.                          *)
(*                                                                         *)
(* A card is four windows of WindowLen units.  A unit stands for any       *)
(* number of bytes that divides the small sector, so that images ending    *)
(* inside a sector exist.  On the real card SectorLen is 0x2000 bytes,     *)
(* BlockLen 0x10000 (PROGRAM_BLOCK) and WindowLen 0x800000                 *)
(* (FLASH_WINDOW_SIZE).                                                    *)
(***************************************************************************)
EXTENDS Integers

CONSTANTS SectorLen, BlockLen, WindowLen

ASSUME GeometryAssumption ==
    /\ SectorLen \in Nat \ {0}
    /\ BlockLen \in Nat \ {0}
    /\ WindowLen \in Nat \ {0}
    /\ SectorLen < BlockLen
    /\ 2 * BlockLen < WindowLen
    /\ BlockLen % SectorLen = 0
    /\ WindowLen % (2 * BlockLen) = 0

Windows == 0..3
CardHalf == 2 * WindowLen
CardLen == 4 * WindowLen
Units == 0..(CardLen - 1)

\* The constructed image is at least one block and at most the card.
ImageSizes == BlockLen..CardLen

WindowOf(x) == x \div WindowLen
Local(x) == x % WindowLen

-----------------------------------------------------------------------------
(* Erase lists.  A list is walked by its address: a loop of the source that  *)
(* pushes a, a + step, ... is EraseStep, and its end is EraseMore.           *)

TinyWindow2Tail(size) == size > CardHalf /\ size =< CardHalf + SectorLen

\* Mutants: a group too many at the end of the card, and a group for a window
\* the image only touches with its end.
LastEraseWindowOneMore(size) ==
    IF size = CardLen THEN 4 ELSE IF size > CardHalf THEN 2 ELSE 1
LastEraseWindowInclusive(size) ==
    IF size >= CardHalf + WindowLen THEN 3
    ELSE IF size >= CardHalf THEN 2
    ELSE IF size > WindowLen THEN 1
    ELSE 0

\* The last entry of `groups`; a size within one window has no groups but
\* one selective list for window 0.
LastEraseWindow(size) ==
    IF size > CardHalf + WindowLen THEN 3
    ELSE IF size > CardHalf THEN 2
    ELSE IF size > WindowLen THEN 1
    ELSE 0

EvenEraseStep(a) == IF a < BlockLen THEN SectorLen ELSE BlockLen
OddEraseStep(a) == IF a < WindowLen - BlockLen THEN BlockLen ELSE SectorLen
EraseStep(w, a) == IF w \in {0, 2} THEN EvenEraseStep(a) ELSE OddEraseStep(a)

\* Mutant: the loop stops at the last block that lies whole in the image.
SelectiveMoreShort(size, a) == a =< BlockLen \/ a + BlockLen =< size

\* The boot sectors and the block after them are always in the selective
\* list; the other blocks only while they start below the image's end.
SelectiveMore(size, a) == a =< BlockLen \/ a < size

EraseMore(size, w, a) ==
    IF size =< WindowLen THEN SelectiveMore(size, a)
    ELSE IF w = 2 /\ TinyWindow2Tail(size) THEN a = 0
    ELSE a < WindowLen

-----------------------------------------------------------------------------
(* Verification policy. *)

HalfWindow == WindowLen \div 2

\* The seven extents whose whole read-back mapping is capture-proven: 8, 12,
\* 16, 20, 24, 28 and 32 MiB.
FullyMappedSizes == {WindowLen + k * HalfWindow : k \in 0..6}

Mode(size) ==
    IF size = WindowLen THEN "exact_8_mib"
    ELSE IF size \in FullyMappedSizes THEN "exact_linear"
    ELSE IF size < WindowLen THEN "partial_first_window"
    ELSE IF size > CardHalf /\ size =< CardHalf + BlockLen
      THEN "tiny_tail_above_16_mib"
    ELSE "unsupported_partial_higher_window"

RoundUpToBlock(size) == ((size + BlockLen - 1) \div BlockLen) * BlockLen

\* Mutant: the read-back leaves the image's partial last block out.
VerifyExtentRoundedDown(size) == (size \div BlockLen) * BlockLen

VerifyExtent(size) ==
    IF Mode(size) \in {"partial_first_window", "tiny_tail_above_16_mib"}
    THEN RoundUpToBlock(size) ELSE size

-----------------------------------------------------------------------------
(* The device: window 0 and 2 are bottom-boot, 1 and 3 top-boot.  An erase   *)
(* command clears the sector that starts at the given local address.         *)

SectorSpan(w, a) ==
    LET boot == IF w \in {0, 2} THEN a < BlockLen
                ELSE a >= WindowLen - BlockLen
    IN  IF boot THEN SectorLen ELSE BlockLen

SectorUnits(w, a) ==
    {u \in Units : /\ w * WindowLen + a =< u
                   /\ u < w * WindowLen + a + SectorSpan(w, a)}
=============================================================================

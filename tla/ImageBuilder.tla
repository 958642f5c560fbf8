---------------------------- MODULE ImageBuilder ----------------------------
(***************************************************************************)
(* CartridgeImageBuilder::build: a list of ROM files becomes the image of  *)
(* a card.  Several ROMs are sorted, placed and copied one after another   *)
(* and a loader is fitted into erased space; a single ROM gets its loader  *)
(* by rules of its own; a direct-boot image is the ROM.                    *)
(*                                                                         *)
(* A ROM file is its size and the units that are not FF throughout; the    *)
(* first unit holds the entry branch and never is.  An image is a card     *)
(* whose units from `len` on are erased, as the resizes of the source      *)
(* leave them.                                                             *)
(***************************************************************************)
EXTENDS CardLayout

CONSTANT RomFiles       \* the ROM files that may be given

ASSUME RomAssumption ==
    \A r \in RomFiles :
        /\ r.size \in (Header + 1)..CardLen
        /\ r.data \subseteq 0..(r.size - 1)
        /\ 0 \in r.data

VARIABLES
    input, direct,      \* the ROMs in the order given, direct_boot_single_rom
    bpc,
    order,              \* the ROMs in physical order
    cursor,             \* meaningful_cursor
    starts,             \* the starts of the ROMs placed so far
    copied,             \* how many ROMs the image holds
    image, len,
    occupied,           \* occupied_non_ff
    loader,             \* loader_start, 0 while there is none
    reason              \* why the image was rejected

build == <<input, direct, bpc, order, cursor, starts, copied, image, len,
           occupied, loader, reason>>
layout == <<order, cursor, starts>>

-----------------------------------------------------------------------------
RomCount == Len(order)

\* meaningful_rom_end
IsMeaningfulEnd(r, e) ==
    /\ e \in Header..r.size
    /\ \A u \in r.data : u < e
    /\ e = Header \/ e - 1 \in r.data

MeaningfulEnd(r) == CHOOSE e \in Header..r.size : IsMeaningfulEnd(r, e)

Blank == [u \in Units |-> Erased]

\* std::copy of a ROM file, its FF included.
Overlaid(base, k, r, start) ==
    [u \in Units |->
        IF u >= start /\ u < start + r.size
        THEN IF u - start \in r.data THEN RomCell(k, u - start) ELSE Erased
        ELSE base[u]]

\* The loader and the branch to it.
Loaded(base, at, length) ==
    [u \in Units |->
        IF u >= at /\ u < at + length THEN LoaderCell(u - at)
        ELSE IF u = 0 THEN PatchedCell(at)
        ELSE base[u]]

\* Mutant: a gap is large enough although aligning the start shortens it.
SlotUnaligned(gap, pad, need, at) ==
    \E s \in gap :
        /\ s = Header \/ s - 1 \notin gap
        /\ at = ((s + pad) \div Align) * Align
        /\ s..(s + need - 1) \subseteq gap

\* at is a loader slot: the aligned start of a run of erased units, `gap`
\* being those behind the header.
SlotAt(gap, pad, need, at) ==
    \E s \in gap :
        /\ s = Header \/ s - 1 \notin gap
        /\ at = ((s + pad) \div Align) * Align
        /\ s..(at + need - 1) \subseteq gap

\* The first one.
IsFirstSlot(gap, pad, need, at) ==
    /\ SlotAt(gap, pad, need, at)
    /\ \A b \in Units : SlotAt(gap, pad, need, b) => at =< b

HasSlot(gap, pad, need) ==
    \E at \in Units : SlotAt(gap, pad, need, at)

-----------------------------------------------------------------------------
BuildTypeOK ==
    /\ input \in Seq(RomFiles) /\ direct \in BOOLEAN
    /\ bpc \in {"off", "start", "place", "copy", "loader", "finish", "built",
                "rejected"}
    /\ order \in Seq(RomFiles) /\ starts \in Seq(Units)
    /\ cursor \in 0..CardLen /\ copied \in 0..Len(order)
    /\ Len(starts) =< Len(order)
    /\ image \in [Units -> Cells] /\ len \in 0..CardLen
    /\ occupied \subseteq Units
    /\ loader \in Units
    /\ reason \in {"none", "no room", "overlap"}

BuildInit ==
    /\ input \in Seq(RomFiles) /\ Len(input) > 0
    /\ direct \in BOOLEAN /\ (direct => Len(input) = 1)
    /\ bpc = "start"
    /\ order = <<>> /\ cursor = 0 /\ starts = <<>> /\ copied = 0
    /\ image = Blank /\ len = 0 /\ occupied = {} /\ loader = 0
    /\ reason = "none"

Reject(why) == bpc' = "rejected" /\ reason' = why

-----------------------------------------------------------------------------
(* build_multi_image *)

\* stable_sort by descending file size: the one permutation that is in this
\* order.
SortRoms ==
    /\ bpc = "start" /\ Len(input) > 1
    /\ \E f \in [DOMAIN input -> DOMAIN input] :
        /\ \A p, q \in DOMAIN input : p < q =>
            \/ input[f[p]].size > input[f[q]].size
            \/ input[f[p]].size = input[f[q]].size /\ f[p] < f[q]
        /\ order' = [p \in DOMAIN input |-> input[f[p]]]
    /\ bpc' = "place"
    /\ UNCHANGED <<input, direct, cursor, starts, copied, image, len, occupied,
                   loader, reason>>

CursorAfter(start, r) == Higher(cursor, start + MeaningfulEnd(r))
NextStart(r) == IF starts = <<>> THEN 0 ELSE AlignUp(cursor, SizeClass(r.size))

PlaceRom ==
    /\ bpc = "place" /\ Len(starts) < RomCount
    /\ UNCHANGED <<input, direct, order, copied, image, len, occupied, loader>>
    /\ LET r == order[Len(starts) + 1]  start == NextStart(r) IN
       IF start + r.size > CardLen
       THEN Reject("no room") /\ UNCHANGED <<cursor, starts>>
       ELSE /\ starts' = Append(starts, start)
            /\ cursor' = CursorAfter(start, r)
            /\ UNCHANGED <<bpc, reason>>

\* base_image_size
IsImageEnd(e) ==
    /\ \A k \in 1..RomCount : starts[k] + order[k].size =< e
    /\ \E k \in 1..RomCount : starts[k] + order[k].size = e

AllPlaced ==
    /\ bpc = "place" /\ Len(starts) = RomCount
    /\ bpc' = "copy"
    /\ \E e \in 1..CardLen : IsImageEnd(e) /\ len' = e
    /\ UNCHANGED <<input, direct, layout, copied, image, occupied, loader, reason>>

\* One ROM of the copy loop; meaningful data on meaningful data is an error.
CopyRom ==
    /\ bpc = "copy" /\ copied < RomCount
    /\ UNCHANGED <<input, direct, layout, len, loader>>
    /\ LET k == copied + 1  r == order[k]
           target == {starts[k] + j : j \in r.data}
       IN  IF target \cap occupied # {}
           THEN Reject("overlap") /\ UNCHANGED <<copied, image, occupied>>
           ELSE /\ image' = Overlaid(image, k, r, starts[k])
                /\ occupied' = occupied \cup target
                /\ copied' = k
                /\ UNCHANGED <<bpc, reason>>

\* loader_copy_len
MultiLength == IF RomCount = 2 THEN TwoRomLoader ELSE MultiLoader

ErasedBelow(limit) ==
    {u \in Header..(limit - 1) : image[u] = Erased}

\* find_ff_slot_in_image rounds up to the boundary.
UpPad == Align - 1

\* The loader goes to the first slot or behind the image.
MultiLoaderAt(at) ==
    IF HasSlot(ErasedBelow(len), UpPad, MultiLength)
    THEN IsFirstSlot(ErasedBelow(len), UpPad, MultiLength, at)
    ELSE at = AlignUp(len, Align)

PlaceLoader ==
    /\ bpc = "copy" /\ copied = RomCount
    /\ UNCHANGED <<input, direct, layout, copied, occupied>>
    /\ \E at \in 0..(CardLen + Align) :
        /\ MultiLoaderAt(at)
        /\ IF at + MultiLength > CardLen
           THEN Reject("no room") /\ UNCHANGED <<image, len, loader>>
           ELSE IF at..(at + MultiLength - 1) \cap occupied # {}
           THEN Reject("overlap") /\ UNCHANGED <<image, len, loader>>
           ELSE /\ loader' = at
                /\ len' = Higher(len, at + MultiLength)
                /\ image' = Loaded(image, at, MultiLength)
                /\ bpc' = "finish" /\ UNCHANGED reason

-----------------------------------------------------------------------------
(* build_single_image and build_direct_boot_image *)

RomErased(r) == {u \in Header..(r.size - 1) : u \notin r.data}

\* find_internal_ff_loader_slot goes to the boundary after the start of the
\* run and reserves the footprint of a multi-ROM loader.
NextPad == Align

InternalSlot(r) == HasSlot(RomErased(r), NextPad, MultiLoader)

PaddedStart(r) == AlignUp(MeaningfulEnd(r), Align)
FitsPadding(r) == PaddedStart(r) + MultiLoader =< r.size

InSecondHalf(r) ==
    ~FitsPadding(r) /\ r.size = CardHalf /\ ~InternalSlot(r)

BehindRom(r) == AlignUp(r.size, Align)

\* Where the single-ROM loader goes: trailing padding, for a ROM of half the
\* card an internal gap or the second half, else behind the ROM or, if that
\* is beyond the card, an internal gap.
SingleLoaderAt(r, at) ==
    IF FitsPadding(r) THEN at = PaddedStart(r)
    ELSE IF InSecondHalf(r) THEN at = CardHalf + Align
    ELSE IF r.size # CardHalf /\ BehindRom(r) + SingleLoader =< CardLen
      THEN at = BehindRom(r)
    ELSE IsFirstSlot(RomErased(r), NextPad, MultiLoader, at)

ZeroFilled(base, at) ==
    [u \in Units |-> IF u >= CardHalf /\ u < at THEN ZeroCell ELSE base[u]]

OnlyRom == order' = input /\ starts' = <<0>> /\ copied' = 1

BuildSingle ==
    /\ bpc = "start" /\ Len(input) = 1 /\ ~direct
    /\ UNCHANGED <<input, direct, cursor, occupied>>
    /\ OnlyRom
    /\ LET r == input[1]  plain == Overlaid(Blank, 1, r, 0) IN
       \/ \E at \in Units :
            /\ SingleLoaderAt(r, at)
            /\ loader' = at
            /\ image' = Loaded(IF InSecondHalf(r) THEN ZeroFilled(plain, at)
                               ELSE plain, at, SingleLoader)
            /\ len' = IF InSecondHalf(r) THEN AlignUp(at + SingleLoader, Page)
                      ELSE Higher(r.size, at + SingleLoader)
            /\ bpc' = "finish" /\ UNCHANGED reason
       \/ /\ ~\E at \in Units : SingleLoaderAt(r, at)
          /\ Reject("no room") /\ UNCHANGED <<image, len, loader>>

BuildDirect ==
    /\ bpc = "start" /\ direct
    /\ UNCHANGED <<input, direct, cursor, occupied, loader, reason>>
    /\ OnlyRom
    /\ image' = Overlaid(Blank, 1, input[1], 0)
    /\ len' = input[1].size
    /\ bpc' = "finish"

-----------------------------------------------------------------------------
ProgrammedSize == AlignUp(Higher(ProgramBlock, len), Page)

FinishImage ==
    /\ bpc = "finish"
    /\ UNCHANGED <<input, direct, layout, copied, image, occupied, loader>>
    /\ IF ProgrammedSize > CardLen
       THEN Reject("no room") /\ UNCHANGED len
       ELSE len' = ProgrammedSize /\ bpc' = "built" /\ UNCHANGED reason

BuildNext ==
    \/ SortRoms \/ PlaceRom \/ AllPlaced \/ CopyRom \/ PlaceLoader
    \/ BuildSingle \/ BuildDirect \/ FinishImage

BuildSpec == BuildInit /\ [][BuildNext]_build

-----------------------------------------------------------------------------
\* The catalog the loader holds.
Extent(k) == SizeClass(order[k].size)
Catalog == [k \in 1..RomCount |-> Entry(starts[k], Extent(k))]
LoaderLength ==
    IF RomCount = 1 THEN SingleLoader ELSE MultiLength

(* A built image holds every unit of every ROM that is not FF at the place   *)
(* its catalog entry names, except for the entry branch of the first; the    *)
(* whole loader, which begins behind the first header; nothing beyond its    *)
(* programmed extent and that within the card.  Catalog entries ascend on    *)
(* block boundaries and their extents end within the card, as the readers    *)
(* require.  The two overlap checks of the builder never fire.               *)
LayoutSound ==
    /\ reason # "overlap"
    /\ bpc = "built" =>
        /\ \A k \in 1..RomCount : \A j \in order[k].data :
            image[starts[k] + j] =
                IF k = 1 /\ j = 0 /\ ~direct THEN PatchedCell(loader)
                ELSE RomCell(k, j)
        /\ ~direct =>
            /\ Header =< loader /\ loader + LoaderLength =< len
            /\ \A j \in 0..(LoaderLength - 1) : image[loader + j] = LoaderCell(j)
        /\ ProgramBlock =< len /\ len =< CardLen /\ len % Page = 0
        /\ \A u \in Units : u >= len => image[u] = Erased
        /\ \A k \in 1..RomCount :
            /\ starts[k] % ProgramBlock = 0 /\ HasStoredExtent(Catalog[k])
            /\ k > 1 => starts[k - 1] < starts[k]
=============================================================================

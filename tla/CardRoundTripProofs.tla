------------------------- MODULE CardRoundTripProofs -------------------------
(***************************************************************************)
(* The properties of CardRoundTrip for every card geometry, every list of  *)
(* ROM files and every failure of the device.  BuildInv of                 *)
(* ImageBuilderProofs says where the data of the ROMs is; Traced is the    *)
(* converse, where every cell of an image comes from, for what is found in *)
(* place of FF is decided by the cells that are no data.  UsbInv and       *)
(* ScanInv are the invariants of the device and of the search.             *)
(***************************************************************************)
EXTENDS CardRoundTrip, ImageBuilderProofs, MarkerScanProofs

-----------------------------------------------------------------------------
(* Where the cells of an image come from. *)

\* A cell of a finished image that no ROM is answerable for: the branch, the
\* loader, or what lies behind the only ROM.
LoaderArea(u) ==
    /\ bpc \in {"finish", "built"} /\ direct = FALSE
    /\ image[u][1] \in {"patched", "loader", "zero"}
    /\ \/ u = 0
       \/ loader =< u /\ u < loader + LoaderLength
       \/ Len(order) = 1 /\ order[1].size =< u

RomData(u) ==
    \E k \in 1..copied : \E j \in order[k].data :
        u = starts[k] + j /\ image[u] = RomCell(k, j)

Owned(u) == image[u] = Erased \/ RomData(u) \/ LoaderArea(u)

CellsOwned ==
    bpc \in {"copy", "finish", "built"} => \A u \in Units : Owned(u)

FilesInside ==
    bpc \in {"finish", "built"} =>
        /\ \A k \in 1..Len(order) : starts[k] + order[k].size =< len
        /\ direct = TRUE => order = input

Traced == CellsOwned /\ FilesInside

\* Before the copying begins and after a rejection there is nothing to show.
LEMMA NothingToTrace ==
    ASSUME bpc' \notin {"copy", "finish", "built"}
    PROVE  Traced'
  BY DEF Traced, CellsOwned, FilesInside

LEMMA AllPlacedTraced ==
    ASSUME BuildInv, AllPlaced
    PROVE  Traced'
  <1>1. bpc = "place" /\ bpc' = "copy" /\ image' = image
    BY Zenon DEF AllPlaced
  <1>2. image = Blank
    BY <1>1, InvParts, Zenon DEF Fresh
  <1>3. \A u \in Units : image'[u] = Erased
    BY <1>1, <1>2 DEF Blank
  <1>. QED
    BY <1>1, <1>3 DEF Traced, CellsOwned, FilesInside, Owned

\* What copying a ROM puts into a cell.
LEMMA OverlaidOrigin ==
    ASSUME NEW base, NEW k, NEW r \in RomFiles, NEW start \in Nat,
           NEW u \in Units
    PROVE  \/ Overlaid(base, k, r, start)[u] = Erased
           \/ \E j \in r.data : /\ u = start + j
                                /\ Overlaid(base, k, r, start)[u] = RomCell(k, j)
           \/ /\ Overlaid(base, k, r, start)[u] = base[u]
              /\ u < start \/ start + r.size =< u
  <1>1. u \in Nat /\ r.size \in Nat
    BY Geometry, RomTypes DEF Units
  <1>2. CASE u >= start /\ u < start + r.size /\ u - start \in r.data
    <2>1. Overlaid(base, k, r, start)[u] = RomCell(k, u - start)
      BY <1>2 DEF Overlaid
    <2>2. u = start + (u - start)
      BY <1>1
    <2>. QED
      BY <1>2, <2>1, <2>2
  <1>3. CASE u >= start /\ u < start + r.size /\ u - start \notin r.data
    BY <1>3 DEF Overlaid
  <1>4. CASE ~(u >= start /\ u < start + r.size)
    <2>1. Overlaid(base, k, r, start)[u] = base[u]
      BY <1>4 DEF Overlaid
    <2>2. u < start \/ start + r.size =< u
      BY <1>1, <1>4
    <2>. QED
      BY <2>1, <2>2
  <1>. QED
    BY <1>2, <1>3, <1>4

LEMMA CopyTraced ==
    ASSUME BuildInv, Traced, CopyRom
    PROVE  Traced'
  <1>. DEFINE k == copied + 1
              r == order[k]
  <1>1. BuildTypeOK /\ PlacedSound /\ CopiedSound
    BY InvParts
  <1>2. /\ bpc = "copy" /\ copied < Len(order)
        /\ order' = order /\ starts' = starts
    BY Zenon DEF CopyRom, RomCount, layout
  <1>3. \/ bpc' = "rejected"
        \/ /\ image' = Overlaid(image, k, r, starts[k])
           /\ copied' = k /\ bpc' = bpc
    BY DEF CopyRom, Reject
  <1>4. copied \in Nat /\ k \in 1..Len(starts)
    <2>1. copied \in 0..Len(order) /\ Len(starts) = Len(order)
      BY <1>1, <1>2, Zenon DEF BuildTypeOK, CopiedSound
    <2>. QED
      BY <1>1, <1>2, <2>1, Sequences
  <1>5. CASE bpc' = "rejected"
    BY <1>5, NothingToTrace
  <1>6. CASE /\ image' = Overlaid(image, k, r, starts[k])
             /\ copied' = k /\ bpc' = bpc
    <2>1. r \in RomFiles /\ starts[k] \in Nat
      BY <1>1, <1>4, PlacedRom
    <2>2. k \in 1..copied' /\ 1..copied \subseteq 1..copied'
      BY <1>4, <1>6
    <2>. HIDE DEF k
    <2>3. ASSUME NEW u \in Units PROVE Owned(u)'
      <3>1. image[u] = Erased \/ RomData(u)
        BY <1>2, Zenon DEF Traced, CellsOwned, Owned, LoaderArea
      <3>2. \/ image'[u] = Erased
            \/ \E j \in r.data : u = starts[k] + j /\ image'[u] = RomCell(k, j)
            \/ image'[u] = image[u]
        BY <1>6, <2>1, OverlaidOrigin
      <3>3. CASE \E j \in r.data : u = starts[k] + j /\ image'[u] = RomCell(k, j)
        BY <1>2, <2>2, <3>3, Zenon DEF Owned, RomData
      <3>4. CASE image'[u] = image[u]
        <4>1. RomData(u) => RomData(u)'
          BY <1>2, <2>2, <3>4, Zenon DEF RomData
        <4>. QED
          BY <3>1, <3>4, <4>1, Zenon DEF Owned
      <3>. QED
        BY <3>2, <3>3, <3>4, Zenon DEF Owned
    <2>. QED
      BY <1>2, <1>6, <2>3 DEF Traced, CellsOwned, FilesInside
  <1>. QED
    BY <1>3, <1>5, <1>6

\* What placing the loader leaves in a cell.
LEMMA LoadedOrigin ==
    ASSUME NEW base, NEW at \in Nat, NEW length \in Nat, NEW u \in Units
    PROVE  \/ Loaded(base, at, length)[u] = base[u]
           \/ /\ Loaded(base, at, length)[u][1] \in {"patched", "loader"}
              /\ u = 0 \/ (at =< u /\ u < at + length)
  <1>1. u \in Nat
    BY Geometry DEF Units
  <1>2. CASE u >= at /\ u < at + length
    <2>1. Loaded(base, at, length)[u] = LoaderCell(u - at)
      BY <1>2 DEF Loaded
    <2>. QED
      BY <1>1, <1>2, <2>1 DEF LoaderCell
  <1>3. CASE ~(u >= at /\ u < at + length) /\ u = 0
    <2>1. Loaded(base, at, length)[u] = PatchedCell(at)
      BY <1>3 DEF Loaded
    <2>. QED
      BY <1>3, <2>1 DEF PatchedCell
  <1>4. CASE ~(u >= at /\ u < at + length) /\ u # 0
    BY <1>4 DEF Loaded
  <1>. QED
    BY <1>2, <1>3, <1>4

LEMMA LoaderTraced ==
    ASSUME BuildInv, Traced, PlaceLoader
    PROVE  Traced'
  <1>1. BuildTypeOK /\ PlacedSound /\ CopiedSound /\ Several
    BY InvParts
  <1>2. /\ bpc = "copy" /\ copied = Len(order)
        /\ order' = order /\ starts' = starts /\ copied' = copied
        /\ direct' = direct
    BY Zenon DEF PlaceLoader, RomCount, layout
  <1>3. PICK at \in 0..(CardLen + Align) :
            \/ bpc' = "rejected"
            \/ /\ loader' = at
               /\ len' = Higher(len, at + MultiLength)
               /\ image' = Loaded(image, at, MultiLength)
               /\ bpc' = "finish"
    BY DEF PlaceLoader, Reject
  <1>4. CASE bpc' = "rejected"
    BY <1>4, NothingToTrace
  <1>5. CASE /\ loader' = at
             /\ len' = Higher(len, at + MultiLength)
             /\ image' = Loaded(image, at, MultiLength)
             /\ bpc' = "finish"
    <2>1. at \in Nat /\ MultiLength \in Nat /\ len \in Nat
      <3>1. len \in 0..CardLen
        BY <1>1, Zenon DEF BuildTypeOK
      <3>. QED
        BY <3>1, Geometry, MultiLengthSound
    <2>2. direct' = FALSE /\ LoaderLength' = MultiLength
      <3>. DEFINE n == Len(order)
      <3>1. n \in Nat /\ n > 1 /\ direct = FALSE
        BY <1>1, <1>2, Sequences, Zenon DEF Several
      <3>. HIDE DEF n
      <3>2. n # 1
        BY <3>1
      <3>. QED
        BY <1>2, <3>1, <3>2, Zenon DEF LoaderLength, MultiLength, RomCount, n
    <2>3. ASSUME NEW u \in Units PROVE Owned(u)'
      <3>1. image[u] = Erased \/ RomData(u)
        BY <1>2, Zenon DEF Traced, CellsOwned, Owned, LoaderArea
      <3>2. \/ image'[u] = image[u]
            \/ /\ image'[u][1] \in {"patched", "loader"}
               /\ u = 0 \/ (at =< u /\ u < at + MultiLength)
        BY <1>5, <2>1, LoadedOrigin
      <3>3. CASE image'[u] = image[u]
        <4>1. RomData(u) => RomData(u)'
          BY <1>2, <3>3, Zenon DEF RomData
        <4>. QED
          BY <3>1, <3>3, <4>1, Zenon DEF Owned
      <3>4. CASE /\ image'[u][1] \in {"patched", "loader"}
                 /\ u = 0 \/ (at =< u /\ u < at + MultiLength)
        <4>1. LoaderArea(u)'
          BY <1>5, <2>2, <3>4, Zenon DEF LoaderArea
        <4>. QED
          BY <4>1, Zenon DEF Owned
      <3>. QED
        BY <3>2, <3>3, <3>4
    <2>4. ASSUME NEW k \in 1..Len(order)
          PROVE  starts[k] + order[k].size =< len'
      <3>1. k \in 1..Len(starts)
        BY <1>1, <1>2, Zenon DEF CopiedSound
      <3>2. /\ starts[k] \in Nat /\ order[k].size \in Nat
            /\ starts[k] + order[k].size =< len
        BY <1>1, <1>2, <3>1, PlacedRom, RomTypes DEF CopiedSound
      <3>3. len =< len' /\ len' \in Nat
        BY <1>5, <2>1 DEF Higher
      <3>. QED
        BY <2>1, <3>2, <3>3
    <2>5. CellsOwned'
      BY <2>3, Zenon DEF CellsOwned
    <2>6. FilesInside'
      BY <1>2, <2>2, <2>4, Zenon DEF FilesInside
    <2>. QED
      BY <2>5, <2>6, Zenon DEF Traced
  <1>. QED
    BY <1>3, <1>4, <1>5

\* The image of a direct boot, and of a single ROM before its loader.
LEMMA PlainOrigin ==
    ASSUME NEW r \in RomFiles, NEW u \in Units
    PROVE  \/ Overlaid(Blank, 1, r, 0)[u] = Erased
           \/ /\ u \in r.data
              /\ Overlaid(Blank, 1, r, 0)[u] = RomCell(1, u)
  <1>1. 0 \in Nat /\ Blank[u] = Erased
    BY DEF Blank
  <1>2. CASE Overlaid(Blank, 1, r, 0)[u] = Blank[u]
    BY <1>1, <1>2
  <1>3. ASSUME NEW j \in r.data, u = 0 + j,
               Overlaid(Blank, 1, r, 0)[u] = RomCell(1, j)
        PROVE  /\ u \in r.data
               /\ Overlaid(Blank, 1, r, 0)[u] = RomCell(1, u)
    <2>1. u = j
      BY <1>3, RomTypes
    <2>. QED
      BY <1>3, <2>1, Zenon
  <1>. QED
    BY <1>1, <1>2, <1>3, OverlaidOrigin, Zenon

\* A cell of the one ROM of an image.
LEMMA OnlyRomData ==
    ASSUME BuildTypeOK, Len(input) = 1, OnlyRom, NEW u \in input[1].data,
           image'[u] = RomCell(1, u)
    PROVE  RomData(u)'
  <1>1. /\ order' = input /\ starts'[1] = 0 /\ copied' = 1
        /\ input[1] \in RomFiles
    BY OnlyPlaced DEF OnlyRom
  <1>2. u = 0 + u /\ 1 \in 1..1
    BY <1>1, RomTypes
  <1>. QED
    BY <1>1, <1>2, Zenon DEF RomData

LEMMA DirectTraced ==
    ASSUME BuildInv, BuildDirect
    PROVE  Traced'
  <1>. DEFINE r == input[1]
  <1>1. /\ BuildTypeOK /\ InputSound
        /\ bpc' = "finish" /\ OnlyRom /\ direct' = direct /\ input' = input
        /\ image' = Overlaid(Blank, 1, r, 0) /\ len' = r.size /\ direct
    BY InvParts, Zenon DEF BuildDirect
  <1>2. Len(input) = 1
    <2>1. direct \in BOOLEAN
      BY <1>1, Zenon DEF BuildTypeOK
    <2>. QED
      BY <1>1, <2>1, TrueOrFalse, Zenon DEF InputSound
  <1>3. /\ order' = input /\ r \in RomFiles /\ starts'[1] = 0
        /\ \A k \in 1..Len(order') : k = 1
    BY <1>1, <1>2, OnlyPlaced
  <1>4. ASSUME NEW u \in Units PROVE Owned(u)'
    <2>1. \/ image'[u] = Erased
          \/ u \in r.data /\ image'[u] = RomCell(1, u)
      BY <1>1, <1>3, PlainOrigin, Zenon
    <2>2. CASE u \in r.data /\ image'[u] = RomCell(1, u)
      BY <1>1, <1>2, <2>2, OnlyRomData, Zenon DEF Owned
    <2>. QED
      BY <2>1, <2>2, Zenon DEF Owned
  <1>5. ASSUME NEW k \in 1..Len(order')
        PROVE  starts'[k] + order'[k].size =< len'
    <2>1. r.size \in Nat /\ k = 1
      BY <1>3, <1>5, RomTypes
    <2>2. 0 + r.size =< r.size
      BY <2>1
    <2>. QED
      BY <1>1, <1>3, <2>1, <2>2, Zenon
  <1>6. CellsOwned'
    BY <1>4, Zenon DEF CellsOwned
  <1>7. FilesInside'
    BY <1>1, <1>3, <1>5, Zenon DEF FilesInside
  <1>. QED
    BY <1>6, <1>7, Zenon DEF Traced

LEMMA SingleTraced ==
    ASSUME BuildInv, BuildSingle
    PROVE  Traced'
  <1>. DEFINE r == input[1]
              plain == Overlaid(Blank, 1, r, 0)
  <1>1. /\ BuildTypeOK /\ direct \in BOOLEAN
        /\ Len(input) = 1 /\ ~direct /\ OnlyRom /\ direct' = direct
    BY InvParts, Zenon DEF BuildSingle, BuildTypeOK
  <1>2. direct' = FALSE
    BY <1>1, TrueOrFalse, Zenon
  <1>3. /\ order' = input /\ r \in RomFiles /\ starts'[1] = 0
        /\ Len(order') = 1
        /\ \A k \in 1..Len(order') : k = 1
    BY <1>1, OnlyPlaced
  <1>4. \/ bpc' = "rejected"
        \/ \E at \in Units :
            /\ SingleLoaderAt(r, at)
            /\ loader' = at
            /\ image' = Loaded(IF InSecondHalf(r) THEN ZeroFilled(plain, at)
                               ELSE plain, at, SingleLoader)
            /\ len' = IF InSecondHalf(r) THEN AlignUp(at + SingleLoader, Page)
                      ELSE Higher(r.size, at + SingleLoader)
            /\ bpc' = "finish"
    BY Zenon DEF BuildSingle, Reject
  <1>5. CASE bpc' = "rejected"
    BY <1>5, NothingToTrace
  <1>6. ASSUME NEW at \in Units,
               SingleLoaderAt(r, at),
               loader' = at,
               image' = Loaded(IF InSecondHalf(r) THEN ZeroFilled(plain, at)
                               ELSE plain, at, SingleLoader),
               len' = (IF InSecondHalf(r) THEN AlignUp(at + SingleLoader, Page)
                       ELSE Higher(r.size, at + SingleLoader)),
               bpc' = "finish"
        PROVE  Traced'
    <2>. DEFINE base == IF InSecondHalf(r) THEN ZeroFilled(plain, at) ELSE plain
    <2>1. /\ loader' = at /\ bpc' = "finish"
          /\ image' = Loaded(base, at, SingleLoader)
      BY <1>6, Zenon
    <2>2. /\ at \in Nat /\ SingleLoader \in Nat \ {0} /\ CardHalf \in Nat
          /\ Align \in Nat \ {0} /\ Page \in Nat \ {0} /\ r.size \in Nat
          /\ InSecondHalf(r) => at = CardHalf + Align /\ r.size = CardHalf
      BY <1>3, <1>6, SingleSlotSound, Geometry, RomTypes
    <2>3. LoaderLength' = SingleLoader
      BY <1>3, Zenon DEF LoaderLength, RomCount
    <2>. HIDE DEF base, plain, r
    <2>4. ASSUME NEW u \in Units PROVE Owned(u)'
      <3>1. \/ image'[u] = base[u]
            \/ /\ image'[u][1] \in {"patched", "loader"}
               /\ u = 0 \/ (at =< u /\ u < at + SingleLoader)
        BY <2>1, <2>2, LoadedOrigin
      <3>2. CASE /\ image'[u][1] \in {"patched", "loader"}
                 /\ u = 0 \/ (at =< u /\ u < at + SingleLoader)
        <4>1. LoaderArea(u)'
          BY <1>2, <2>1, <2>3, <3>2, Zenon DEF LoaderArea
        <4>. QED
          BY <4>1, Zenon DEF Owned
      <3>3. CASE image'[u] = base[u]
        <4>1. \/ base[u] = plain[u]
              \/ InSecondHalf(r) /\ CardHalf =< u /\ base[u] = ZeroCell
          <5>1. u \in Nat
            BY Geometry DEF Units
          <5>. QED
            BY <2>2, <5>1 DEF base, ZeroFilled
        <4>2. CASE InSecondHalf(r) /\ CardHalf =< u /\ base[u] = ZeroCell
          <5>1. r.size =< u /\ image'[u][1] = "zero"
            BY <2>2, <3>3, <4>2 DEF ZeroCell
          <5>2. LoaderArea(u)'
            BY <1>2, <1>3, <2>1, <5>1, Zenon DEF LoaderArea, r
          <5>. QED
            BY <5>2, Zenon DEF Owned
        <4>3. CASE base[u] = plain[u]
          <5>1. \/ image'[u] = Erased
                \/ u \in r.data /\ image'[u] = RomCell(1, u)
            BY <1>3, <3>3, <4>3, PlainOrigin, Zenon DEF plain
          <5>2. CASE u \in r.data /\ image'[u] = RomCell(1, u)
            BY <1>1, <5>2, OnlyRomData, Zenon DEF Owned, r
          <5>. QED
            BY <5>1, <5>2, Zenon DEF Owned
        <4>. QED
          BY <4>1, <4>2, <4>3
      <3>. QED
        BY <3>1, <3>2, <3>3
    <2>5. r.size =< len'
      <3>1. CASE InSecondHalf(r)
        <4>1. len' = AlignUp(at + SingleLoader, Page)
          BY <1>6, <3>1 DEF r
        <4>2. at + SingleLoader =< AlignUp(at + SingleLoader, Page)
              /\ AlignUp(at + SingleLoader, Page) \in Nat
          <5>1. at + SingleLoader \in Nat
            BY <2>2
          <5>. QED
            BY <2>2, <5>1, AlignUpFacts
        <4>. QED
          BY <2>2, <3>1, <4>1, <4>2
      <3>2. CASE ~InSecondHalf(r)
        <4>1. len' = Higher(r.size, at + SingleLoader)
          BY <1>6, <3>2 DEF r
        <4>. QED
          BY <2>2, <4>1 DEF Higher
      <3>. QED
        BY <3>1, <3>2
    <2>6. ASSUME NEW k \in 1..Len(order')
          PROVE  starts'[k] + order'[k].size =< len'
      <3>1. k = 1
        BY <1>3, <2>6
      <3>2. 0 + r.size =< len'
        BY <2>2, <2>5
      <3>. QED
        BY <1>3, <3>1, <3>2, Zenon DEF r
    <2>7. CellsOwned'
      BY <2>4, Zenon DEF CellsOwned
    <2>8. FilesInside'
      BY <1>2, <2>6, Zenon DEF FilesInside
    <2>. QED
      BY <2>7, <2>8, Zenon DEF Traced
  <1>. QED
    BY <1>4, <1>5, <1>6, Zenon

LEMMA FinishTraced ==
    ASSUME BuildInv, Traced, FinishImage
    PROVE  Traced'
  <1>1. /\ bpc = "finish"
        /\ input' = input /\ direct' = direct /\ order' = order
        /\ starts' = starts /\ copied' = copied /\ image' = image
        /\ loader' = loader
    BY Zenon DEF FinishImage, layout
  <1>2. \/ bpc' = "rejected"
        \/ bpc' = "built" /\ len' = ProgrammedSize
    BY Zenon DEF FinishImage, Reject
  <1>3. CASE bpc' = "rejected"
    BY <1>3, NothingToTrace
  <1>4. CASE bpc' = "built" /\ len' = ProgrammedSize
    <2>1. BuildTypeOK /\ PlacedSound /\ FinishedSound
      BY InvParts
    <2>2. len =< len' /\ len \in Nat /\ len' \in Nat
      <3>1. len \in 0..CardLen
        BY <2>1, Zenon DEF BuildTypeOK
      <3>. DEFINE h == Higher(ProgramBlock, len)
      <3>2. /\ len \in Nat /\ h \in Nat /\ len =< h /\ Page \in Nat \ {0}
        BY <3>1, Geometry DEF Higher
      <3>. HIDE DEF h
      <3>3. AlignUp(h, Page) \in Nat /\ h =< AlignUp(h, Page)
        BY <3>2, AlignUpFacts
      <3>4. len' = AlignUp(h, Page)
        BY <1>4, Zenon DEF ProgrammedSize, h
      <3>. QED
        BY <3>2, <3>3, <3>4
    <2>3. ASSUME NEW u \in Units PROVE Owned(u)'
      <3>1. Owned(u)
        BY <1>1, Zenon DEF Traced, CellsOwned
      <3>. QED
        BY <1>1, <1>4, <3>1, Zenon DEF Owned, RomData, LoaderArea,
           LoaderLength, MultiLength, RomCount
    <2>4. ASSUME NEW k \in 1..Len(order)
          PROVE  starts[k] + order[k].size =< len'
      <3>1. k \in 1..Len(starts)
        BY <1>1, <2>1, Zenon DEF FinishedSound
      <3>2. /\ starts[k] \in Nat /\ order[k].size \in Nat
            /\ starts[k] + order[k].size =< len
        BY <1>1, <2>1, <3>1, PlacedRom, RomTypes DEF Traced, FilesInside
      <3>. QED
        BY <2>2, <3>2
    <2>5. CellsOwned'
      BY <2>3, Zenon DEF CellsOwned
    <2>6. FilesInside'
      BY <1>1, <2>4, Zenon DEF Traced, FilesInside
    <2>. QED
      BY <2>5, <2>6, Zenon DEF Traced
  <1>. QED
    BY <1>2, <1>3, <1>4

LEMMA TraceStep ==
    ASSUME BuildInv, Traced, BuildNext
    PROVE  Traced'
  <1>1. CASE SortRoms
    BY <1>1, NothingToTrace DEF SortRoms
  <1>2. CASE PlaceRom
    <2>1. bpc' = "place" \/ bpc' = "rejected"
      BY <1>2 DEF PlaceRom, Reject
    <2>. QED
      BY <2>1, NothingToTrace
  <1>3. CASE AllPlaced
    BY <1>3, AllPlacedTraced
  <1>4. CASE CopyRom
    BY <1>4, CopyTraced
  <1>5. CASE PlaceLoader
    BY <1>5, LoaderTraced
  <1>6. CASE BuildSingle
    BY <1>6, SingleTraced
  <1>7. CASE BuildDirect
    BY <1>7, DirectTraced
  <1>8. CASE FinishImage
    BY <1>8, FinishTraced
  <1>. QED
    BY <1>1, <1>2, <1>3, <1>4, <1>5, <1>6, <1>7, <1>8, Zenon DEF BuildNext

LEMMA TraceStutter ==
    ASSUME Traced, UNCHANGED build
    PROVE  Traced'
  <1>1. /\ input' = input /\ direct' = direct /\ bpc' = bpc /\ order' = order
        /\ starts' = starts /\ copied' = copied /\ image' = image /\ len' = len
        /\ loader' = loader
    BY Zenon DEF build
  <1>2. ASSUME NEW u \in Units, Owned(u) PROVE Owned(u)'
    BY <1>1, <1>2, Zenon DEF Owned, RomData, LoaderArea, LoaderLength,
       MultiLength, RomCount
  <1>3. CellsOwned'
    BY <1>1, <1>2, Zenon DEF Traced, CellsOwned
  <1>4. FilesInside'
    BY <1>1, Zenon DEF Traced, FilesInside
  <1>. QED
    BY <1>3, <1>4, Zenon DEF Traced

-----------------------------------------------------------------------------
(* The invariant of the writer and the save tool: before the ROMs are loaded *)
(* there is no image; afterwards it is the builder's; a claim is made of a   *)
(* built image only, and "verified" only where the flash holds it whole.     *)

Unbuilt ==
    /\ input = <<>> /\ direct = FALSE /\ bpc = "off"
    /\ order = <<>> /\ cursor = 0 /\ starts = <<>> /\ copied = 0
    /\ image = Blank /\ len = 0 /\ occupied = {} /\ loader = 0
    /\ reason = "none"

Prepared == bpc # "off" /\ BuildInv /\ Traced

ImageInv ==
    \/ Unbuilt /\ pc \in {"load", "done"}
    \/ Prepared /\ pc # "load"

\* What only happens to a built image.
AfterBuild ==
    {"open", "write", "leave", "open again", "catalog", "scan", "leave again"}

ClaimInv ==
    /\ pc \in AfterBuild => bpc = "built"
    /\ claim # "none" => bpc = "built"
    /\ claim = "verified" => flash = "whole"

TripInv == ImageInv /\ ClaimInv

LEMMA TripInit == Init => TripInv
  BY DEF Init, TripInv, ImageInv, Unbuilt, ClaimInv, AfterBuild, CardWrite!Init

\* A step that leaves the builder alone.
LEMMA ImageKept ==
    ASSUME ImageInv, UNCHANGED build, pc # "load", pc' # "load",
           Unbuilt => pc' = "done"
    PROVE  ImageInv'
  <1>1. CASE Unbuilt
    BY <1>1 DEF Unbuilt, build, ImageInv
  <1>2. CASE Prepared
    <2>1. BuildInv' /\ Traced'
      BY <1>2, StutterStep, TraceStutter DEF Prepared
    <2>2. bpc' = bpc
      BY Zenon DEF build
    <2>. QED
      BY <1>2, <2>1, <2>2, Zenon DEF Prepared, ImageInv
  <1>. QED
    BY <1>1, <1>2, Zenon DEF ImageInv

LEMMA BuilderRuns ==
    ASSUME BuildNext
    PROVE  bpc \notin {"off", "built"} /\ bpc' # "off"
  <1>1. CASE SortRoms
    BY <1>1 DEF SortRoms
  <1>2. CASE PlaceRom
    BY <1>2 DEF PlaceRom, Reject
  <1>3. CASE AllPlaced
    BY <1>3 DEF AllPlaced
  <1>4. CASE CopyRom
    BY <1>4 DEF CopyRom, Reject
  <1>5. CASE PlaceLoader
    BY <1>5 DEF PlaceLoader, Reject
  <1>6. CASE BuildSingle
    BY <1>6 DEF BuildSingle, Reject
  <1>7. CASE BuildDirect
    BY <1>7 DEF BuildDirect
  <1>8. CASE FinishImage
    BY <1>8 DEF FinishImage, Reject
  <1>. QED
    BY <1>1, <1>2, <1>3, <1>4, <1>5, <1>6, <1>7, <1>8, Zenon DEF BuildNext

\* What the loaded ROMs give the builder is what its own specification begins
\* with.
LEMMA LoadIsBuildInit ==
    ASSUME command \in Commands, Unbuilt, LoadRoms, bpc' = "start"
    PROVE  BuildInit'
  <1>1. PICK consent \in BOOLEAN :
            /\ command.roms # <<>>
            /\ command.direct => Len(command.roms) = 1
            /\ \A k \in DOMAIN command.roms : Loads(command.roms[k], consent)
            /\ TotalSize(command.roms) =< CardLen
            /\ input' = command.roms /\ direct' = command.direct
    BY DEF LoadRoms, Unbuilt
  <1>2. /\ order' = order /\ cursor' = cursor /\ starts' = starts
        /\ copied' = copied /\ image' = image /\ len' = len
        /\ occupied' = occupied /\ loader' = loader /\ reason' = reason
    BY Zenon DEF LoadRoms, layout
  <1>3. command.roms \in Seq(RomFiles) /\ command.direct \in BOOLEAN
    BY <1>1, CommandAssumption, Zenon DEF Loads
  <1>4. Len(command.roms) > 0
    BY <1>1, <1>3
  <1>5. (input \in Seq(RomFiles) /\ Len(input) > 0
         /\ direct \in BOOLEAN /\ (direct => Len(input) = 1))'
    BY <1>1, <1>3, <1>4, Zenon
  <1>. QED
    BY <1>2, <1>5, Zenon DEF BuildInit, Unbuilt

LEMMA LoadStep ==
    ASSUME command \in Commands, TripInv, LoadRoms
    PROVE  TripInv'
  <1>1. /\ pc = "load" /\ Unbuilt /\ bpc = "off" /\ claim = "none"
        /\ claim' = claim
    BY DEF LoadRoms, TripInv, ImageInv, Unbuilt, ClaimInv, contract
  <1>2. \/ bpc' = "start" /\ pc' = "build"
        \/ pc' = "done" /\ input' = input /\ direct' = direct
           /\ bpc' = bpc /\ order' = order /\ cursor' = cursor
           /\ starts' = starts
           /\ copied' = copied /\ image' = image /\ len' = len
           /\ occupied' = occupied /\ loader' = loader /\ reason' = reason
    BY Zenon DEF LoadRoms, Goto, Exit, layout
  <1>3. ClaimInv'
    BY <1>1, <1>2 DEF ClaimInv, AfterBuild
  <1>4. CASE bpc' = "start" /\ pc' = "build"
    <2>1. BuildInit'
      BY <1>1, <1>4, LoadIsBuildInit
    <2>2. BuildInit' => BuildInv'
      BY InitStep, PTL
    <2>3. Traced'
      BY <1>4, NothingToTrace
    <2>. QED
      BY <1>3, <1>4, <2>1, <2>2, <2>3 DEF TripInv, ImageInv, Prepared
  <1>5. CASE /\ pc' = "done" /\ input' = input /\ direct' = direct
             /\ bpc' = bpc /\ order' = order /\ cursor' = cursor
             /\ starts' = starts
             /\ copied' = copied /\ image' = image /\ len' = len
             /\ occupied' = occupied /\ loader' = loader /\ reason' = reason
    BY <1>1, <1>3, <1>5 DEF TripInv, ImageInv, Unbuilt
  <1>. QED
    BY <1>2, <1>4, <1>5

LEMMA BuildStep ==
    ASSUME TripInv, BuildImage
    PROVE  TripInv'
  <1>1. /\ pc = "build" /\ BuildNext /\ pc' = pc /\ claim' = claim
    BY Zenon DEF BuildImage, main, contract
  <1>2. BuildInv /\ Traced
    BY <1>1 DEF TripInv, ImageInv, Prepared
  <1>3. BuildInv' /\ Traced'
    BY <1>1, <1>2, NextStep, TraceStep
  <1>4. bpc \notin {"off", "built"} /\ bpc' # "off"
    BY <1>1, BuilderRuns
  <1>5. claim = "none"
    BY <1>4 DEF TripInv, ClaimInv
  <1>. QED
    BY <1>1, <1>3, <1>4, <1>5 DEF TripInv, ImageInv, Prepared, ClaimInv, AfterBuild

LEMMA WriteStep ==
    ASSUME TripInv, WriteCard
    PROVE  TripInv'
  <1>1. /\ pc = "write" /\ CardWrite!Next /\ pc' = pc /\ bpc' = bpc
        /\ UNCHANGED build
    BY Zenon DEF WriteCard, main, build
  <1>2. bpc = "built"
    BY <1>1 DEF TripInv, ClaimInv, AfterBuild
  <1>3. ImageInv'
    <2>1. ~Unbuilt
      BY <1>2 DEF Unbuilt
    <2>. QED
      BY <1>1, <2>1, ImageKept DEF TripInv
  <1>4. claim' = "verified" => flash' = "whole"
    <2>1. claim = "verified" => flash = "whole"
      BY DEF TripInv, ClaimInv
    <2>2. CASE CardWrite!TouchSaves
      BY <2>1, <2>2 DEF CardWrite!TouchSaves
    <2>3. CASE CardWrite!Prime
      BY <2>1, <2>3 DEF CardWrite!Prime
    <2>4. CASE CardWrite!ModifyFlash
      BY <2>1, <2>4 DEF CardWrite!ModifyFlash
    <2>5. ASSUME NEW c \in CardWrite!Skips \cup {"verified"}, CardWrite!Claim(c)
          PROVE  claim' = "verified" => flash' = "whole"
      BY <2>1, <2>5 DEF CardWrite!Claim
    <2>6. ASSUME NEW o, CardWrite!Return(o)
          PROVE  claim' = "verified" => flash' = "whole"
      BY <2>1, <2>6 DEF CardWrite!Return
    <2>. QED
      BY <1>1, <2>2, <2>3, <2>4, <2>5, <2>6 DEF CardWrite!Next
  <1>. QED
    BY <1>1, <1>2, <1>3, <1>4 DEF TripInv, ClaimInv

\* Every other step leaves the image, the flash and the claim alone, or starts
\* over with no claim.
LEMMA OtherStep ==
    ASSUME TripInv, UNCHANGED build, pc # "load", pc' # "load",
           bpc = "off" => pc' = "done",
           pc' \in AfterBuild => bpc = "built",
           \/ claim' = claim /\ flash' = flash
           \/ claim' = "none"
    PROVE  TripInv'
  <1>1. bpc' = bpc
    BY Zenon DEF build
  <1>2. ImageInv'
    BY ImageKept DEF TripInv, Unbuilt
  <1>. QED
    BY <1>1, <1>2 DEF TripInv, ClaimInv

LEMMA NextKeeps ==
    ASSUME command \in Commands, TripInv, [Next]_vars
    PROVE  TripInv'
  <1>1. /\ pc # "load" /\ bpc = "off" => pc = "done"
        /\ pc \in AfterBuild => bpc = "built"
    BY DEF TripInv, ImageInv, Prepared, ClaimInv
  <1>2. CASE LoadRoms
    BY <1>2, LoadStep
  <1>3. CASE BuildImage
    BY <1>3, BuildStep
  <1>4. CASE ImageRejected
    BY <1>4, OtherStep DEF ImageRejected, Exit, contract, AfterBuild
  <1>5. CASE DryRun
    BY <1>5, OtherStep DEF DryRun, Exit, contract, AfterBuild
  <1>6. CASE OpenForWrite
    BY <1>1, <1>6, OtherStep DEF OpenForWrite, Goto, contract, AfterBuild
  <1>7. CASE UsbCall
    <2>1. /\ UNCHANGED build /\ pc' = pc /\ claim' = claim /\ flash' = flash
          /\ bpc' = bpc
      BY <1>7, Zenon DEF UsbCall, main, contract, build
    <2>2. CASE pc # "load"
      BY <1>1, <2>1, <2>2, OtherStep DEF TripInv, ClaimInv, AfterBuild
    <2>3. CASE pc = "load"
      <3>1. Unbuilt
        BY <2>3 DEF TripInv, ImageInv
      <3>2. Unbuilt'
        BY <2>1, <3>1 DEF Unbuilt, build
      <3>. QED
        BY <2>1, <2>3, <3>2 DEF TripInv, ImageInv, ClaimInv
    <2>. QED
      BY <2>2, <2>3
  <1>8. CASE WriterOpened
    <2>1. pc = "open" /\ bpc = "built"
      BY <1>8 DEF WriterOpened, TripInv, ClaimInv, AfterBuild
    <2>. QED
      BY <1>8, <2>1, OtherStep DEF WriterOpened, Goto, Exit, contract, AfterBuild
  <1>9. CASE WriteCard
    BY <1>9, WriteStep
  <1>10. CASE WriterReturns
    BY <1>1, <1>10, OtherStep DEF WriterReturns, Exit, contract, AfterBuild
  <1>11. CASE StartSaveTool
    BY <1>1, <1>11, OtherStep DEF StartSaveTool, Exit, AfterBuild
  <1>12. CASE SaveToolOpened
    BY <1>1, <1>12, OtherStep DEF SaveToolOpened, Goto, Exit, contract, AfterBuild
  <1>13. CASE ReadCatalog
    BY <1>1, <1>13, OtherStep DEF ReadCatalog, Goto, Exit, contract, AfterBuild
  <1>14. CASE ScanCard
    BY <1>1, <1>14, OtherStep DEF ScanCard, main, contract, AfterBuild
  <1>15. CASE ScanReturns
    BY <1>1, <1>15, OtherStep DEF ScanReturns, Exit, contract, AfterBuild
  <1>16. CASE SaveToolLeaves
    BY <1>1, <1>16, OtherStep DEF SaveToolLeaves, Goto, contract, AfterBuild
  <1>17. CASE Exited \/ UNCHANGED vars
    <2>1. /\ UNCHANGED build /\ pc' = pc /\ claim' = claim /\ flash' = flash
          /\ bpc' = bpc
      BY <1>17, Zenon DEF Exited, vars, main, contract, build
    <2>2. CASE pc # "load"
      BY <1>1, <2>1, <2>2, OtherStep DEF TripInv, ClaimInv, AfterBuild
    <2>3. CASE pc = "load"
      <3>1. Unbuilt
        BY <2>3 DEF TripInv, ImageInv
      <3>2. Unbuilt'
        BY <2>1, <3>1 DEF Unbuilt, build
      <3>. QED
        BY <2>1, <2>3, <3>2 DEF TripInv, ImageInv, ClaimInv
    <2>. QED
      BY <2>2, <2>3
  <1>. QED
    BY <1>2, <1>3, <1>4, <1>5, <1>6, <1>7, <1>8, <1>9, <1>10, <1>11, <1>12,
       <1>13, <1>14, <1>15, <1>16, <1>17, Zenon DEF Next

-----------------------------------------------------------------------------
(* The device, over any number of calls of open() and in both tools.         *)

\* What the object believes it holds is what libusb has given it.
Counted ==
    /\ live.context = IF context = TRUE THEN 1 ELSE 0
    /\ live.handle = IF handle = TRUE THEN 1 ELSE 0
    /\ live.claim = IF claimed = TRUE THEN 1 ELSE 0

\* What is held before each call.
HeldAt ==
    /\ claimed = TRUE => handle = TRUE
    /\ handle = TRUE => context = TRUE
    /\ upc \in {"close", "exit", "init", "gone", "open", "claim"} => claimed = FALSE
    /\ upc \in {"exit", "init", "gone", "open"} => handle = FALSE
    /\ upc \in {"init", "gone"} => context = FALSE
    /\ upc = "open" => context = TRUE
    /\ upc = "claim" => handle = TRUE
    /\ upc = "idle" => (opened = "success" <=> claimed = TRUE)

UsbInv == UsbTypeOK /\ Counted /\ HeldAt

LEMMA UsbInvInit == UsbInit => UsbInv
  <1>. SUFFICES ASSUME UsbInit PROVE UsbInv
    OBVIOUS
  <1>1. UsbTypeOK
    BY DEF UsbInit, UsbTypeOK, Nothing
  <1>2. Counted
    BY DEF UsbInit, Counted, Nothing
  <1>3. HeldAt
    BY DEF UsbInit, HeldAt
  <1>. QED
    BY <1>1, <1>2, <1>3 DEF UsbInv

LEMMA UsbInvStep == UsbInv /\ [UsbNext]_usb => UsbInv'
  <1>. SUFFICES ASSUME UsbInv, [UsbNext]_usb PROVE UsbInv'
    OBVIOUS
  <1>. USE DEF UsbInv
  <1>1. CASE StartOpen
    <2>1. UsbTypeOK'
      BY <1>1 DEF StartOpen, UsbTypeOK, Counted
    <2>2. Counted'
      BY <1>1 DEF StartOpen, UsbTypeOK, Counted, HeldAt
    <2>3. HeldAt'
      BY <1>1 DEF StartOpen, UsbTypeOK, HeldAt
    <2>. QED
      BY <2>1, <2>2, <2>3
  <1>2. CASE Destroy
    <2>1. UsbTypeOK'
      BY <1>2 DEF Destroy, UsbTypeOK, Counted
    <2>2. Counted'
      BY <1>2 DEF Destroy, UsbTypeOK, Counted, HeldAt
    <2>3. HeldAt'
      BY <1>2 DEF Destroy, UsbTypeOK, HeldAt
    <2>. QED
      BY <2>1, <2>2, <2>3
  <1>3. CASE ReleaseInterface
    <2>1. UsbTypeOK'
      <3>1. live' \in [context : Nat, handle : Nat, claim : Nat]
        BY <1>3 DEF ReleaseInterface, UsbTypeOK, Counted
      <3>2. context' \in BOOLEAN /\ handle' \in BOOLEAN /\ claimed' \in BOOLEAN
        BY <1>3 DEF ReleaseInterface, UsbTypeOK
      <3>. QED
        BY <1>3, <3>1, <3>2 DEF ReleaseInterface, UsbTypeOK
    <2>2. Counted'
      BY <1>3 DEF ReleaseInterface, UsbTypeOK, Counted, HeldAt
    <2>3. HeldAt'
      BY <1>3 DEF ReleaseInterface, UsbTypeOK, HeldAt
    <2>. QED
      BY <2>1, <2>2, <2>3
  <1>4. CASE CloseHandle
    <2>1. UsbTypeOK'
      <3>1. live' \in [context : Nat, handle : Nat, claim : Nat]
        BY <1>4 DEF CloseHandle, UsbTypeOK, Counted
      <3>2. context' \in BOOLEAN /\ handle' \in BOOLEAN /\ claimed' \in BOOLEAN
        BY <1>4 DEF CloseHandle, UsbTypeOK
      <3>. QED
        BY <1>4, <3>1, <3>2 DEF CloseHandle, UsbTypeOK
    <2>2. Counted'
      BY <1>4 DEF CloseHandle, UsbTypeOK, Counted, HeldAt
    <2>3. HeldAt'
      BY <1>4 DEF CloseHandle, UsbTypeOK, HeldAt
    <2>. QED
      BY <2>1, <2>2, <2>3
  <1>5. CASE ExitContext
    <2>1. UsbTypeOK'
      <3>1. live' \in [context : Nat, handle : Nat, claim : Nat]
        BY <1>5 DEF ExitContext, UsbTypeOK, Counted
      <3>2. context' \in BOOLEAN /\ handle' \in BOOLEAN /\ claimed' \in BOOLEAN
        BY <1>5 DEF ExitContext, UsbTypeOK
      <3>. QED
        BY <1>5, <3>1, <3>2 DEF ExitContext, UsbTypeOK
    <2>2. Counted'
      BY <1>5 DEF ExitContext, UsbTypeOK, Counted, HeldAt
    <2>3. HeldAt'
      BY <1>5 DEF ExitContext, UsbTypeOK, HeldAt
    <2>. QED
      BY <2>1, <2>2, <2>3
  <1>6. CASE InitLibrary
    <2>1. UsbTypeOK'
      <3>1. live' \in [context : Nat, handle : Nat, claim : Nat]
        BY <1>6 DEF InitLibrary, UsbTypeOK, Counted
      <3>2. context' \in BOOLEAN /\ handle' \in BOOLEAN /\ claimed' \in BOOLEAN
        BY <1>6 DEF InitLibrary, UsbTypeOK
      <3>. QED
        BY <1>6, <3>1, <3>2 DEF InitLibrary, UsbTypeOK
    <2>2. Counted'
      BY <1>6 DEF InitLibrary, UsbTypeOK, Counted, HeldAt
    <2>3. HeldAt'
      BY <1>6 DEF InitLibrary, UsbTypeOK, HeldAt
    <2>. QED
      BY <2>1, <2>2, <2>3
  <1>7. CASE OpenHandle
    <2>1. UsbTypeOK'
      <3>1. live' \in [context : Nat, handle : Nat, claim : Nat]
        BY <1>7 DEF OpenHandle, UsbTypeOK, Counted
      <3>2. context' \in BOOLEAN /\ handle' \in BOOLEAN /\ claimed' \in BOOLEAN
        BY <1>7 DEF OpenHandle, UsbTypeOK
      <3>. QED
        BY <1>7, <3>1, <3>2 DEF OpenHandle, UsbTypeOK
    <2>2. Counted'
      BY <1>7 DEF OpenHandle, UsbTypeOK, Counted, HeldAt
    <2>3. HeldAt'
      BY <1>7 DEF OpenHandle, UsbTypeOK, HeldAt
    <2>. QED
      BY <2>1, <2>2, <2>3
  <1>8. CASE ClaimInterface
    <2>1. UsbTypeOK'
      <3>1. live' \in [context : Nat, handle : Nat, claim : Nat]
        BY <1>8 DEF ClaimInterface, UsbTypeOK, Counted
      <3>2. context' \in BOOLEAN /\ handle' \in BOOLEAN /\ claimed' \in BOOLEAN
        BY <1>8 DEF ClaimInterface, UsbTypeOK
      <3>. QED
        BY <1>8, <3>1, <3>2 DEF ClaimInterface, UsbTypeOK
    <2>2. Counted'
      BY <1>8 DEF ClaimInterface, UsbTypeOK, Counted, HeldAt
    <2>3. HeldAt'
      BY <1>8 DEF ClaimInterface, UsbTypeOK, HeldAt
    <2>. QED
      BY <2>1, <2>2, <2>3
  <1>9. CASE UNCHANGED usb
    BY <1>9 DEF usb, UsbTypeOK, Counted, HeldAt
  <1>. QED
    BY <1>1, <1>2, <1>3, <1>4, <1>5, <1>6, <1>7, <1>8, <1>9 DEF UsbNext, UsbStep

LEMMA UsbInvReleased == UsbInv => UsbReleased
  BY DEF UsbInv, UsbTypeOK, Counted, HeldAt, UsbReleased, Nothing

(* For any number of calls of open() and a failure at any of the three calls *)
(* of libusb, what is held is nested, reported and given back.               *)
THEOREM ReleasedOnce == UsbSpec => []UsbReleased
  <1>. QED
    BY UsbInvInit, UsbInvStep, UsbInvReleased, PTL DEF UsbSpec

\* The calls of libusb are made while a tool opens its device or leaves.
Opening == {"open", "leave", "open again", "leave again"}

UsbTrip == UsbInv /\ (upc \notin {"idle", "gone"} => pc \in Opening)

\* The save tool has an object of its own, with nothing held.
LEMMA SecondObject ==
    ASSUME UsbInv, StartSaveTool
    PROVE  UsbInv'
  <1>1. /\ upc = "gone" /\ upc' = "release" /\ uthen' = "init"
        /\ opened' = "none" /\ context' = context /\ handle' = handle
        /\ claimed' = claimed /\ live' = live
    BY DEF StartSaveTool
  <1>2. UsbTypeOK'
    BY <1>1 DEF UsbInv, UsbTypeOK
  <1>3. Counted' /\ HeldAt'
    BY <1>1 DEF UsbInv, Counted, HeldAt
  <1>. QED
    BY <1>2, <1>3 DEF UsbInv

LEMMA UsbTripNext ==
    ASSUME UsbTrip, [Next]_vars
    PROVE  UsbTrip'
  <1>1. UsbInv /\ (UNCHANGED usb \/ StartOpen \/ Destroy \/ UsbStep => UsbInv')
    BY UsbInvStep DEF UsbTrip, UsbNext
  <1>2. CASE LoadRoms \/ BuildImage \/ WriteCard \/ ScanCard
    <2>1. UNCHANGED usb /\ upc' = upc /\ pc \notin Opening
      BY <1>2 DEF LoadRoms, BuildImage, WriteCard, ScanCard, Opening, usb
    <2>. QED
      BY <1>1, <2>1 DEF UsbTrip
  <1>3. CASE ImageRejected \/ DryRun
    <2>1. UNCHANGED usb /\ upc' = upc /\ pc \notin Opening
      BY <1>3 DEF ImageRejected, DryRun, Opening, usb
    <2>. QED
      BY <1>1, <2>1 DEF UsbTrip
  <1>4. CASE OpenForWrite
    BY <1>1, <1>4 DEF OpenForWrite, Goto, Opening, UsbTrip
  <1>5. CASE UsbCall
    <2>1. UsbStep /\ pc' = pc
      BY <1>5 DEF UsbCall, main
    <2>2. upc \notin {"idle", "gone"}
      BY <2>1 DEF UsbStep, ReleaseInterface, CloseHandle, ExitContext,
                  InitLibrary, OpenHandle, ClaimInterface
    <2>. QED
      BY <1>1, <2>1, <2>2 DEF UsbTrip
  <1>6. CASE WriterOpened
    <2>1. \/ UNCHANGED usb /\ upc = "idle" /\ upc' = upc
          \/ Destroy /\ pc' = "leave"
      BY <1>6 DEF WriterOpened, Exit, usb
    <2>. QED
      BY <1>1, <2>1 DEF UsbTrip, Opening
  <1>7. CASE WriterReturns \/ ScanReturns
    <2>1. Destroy /\ pc' \in {"leave", "leave again"}
      BY <1>7 DEF WriterReturns, ScanReturns, Exit
    <2>. QED
      BY <1>1, <2>1 DEF UsbTrip, Opening
  <1>8. CASE StartSaveTool
    <2>1. pc' = "open again"
      BY <1>8 DEF StartSaveTool, Exit
    <2>. QED
      BY <1>1, <1>8, <2>1, SecondObject DEF UsbTrip, Opening
  <1>9. CASE SaveToolOpened
    <2>1. \/ UNCHANGED usb /\ upc = "idle" /\ upc' = upc
          \/ Destroy /\ pc' = "leave again"
      BY <1>9 DEF SaveToolOpened, Exit, usb
    <2>. QED
      BY <1>1, <2>1 DEF UsbTrip, Opening
  <1>10. CASE ReadCatalog
    <2>1. \/ UNCHANGED usb /\ upc' = upc /\ pc \notin Opening
          \/ Destroy /\ pc' = "leave again"
      BY <1>10 DEF ReadCatalog, Exit, usb, Opening
    <2>. QED
      BY <1>1, <2>1 DEF UsbTrip, Opening
  <1>11. CASE SaveToolLeaves
    <2>1. UNCHANGED usb /\ upc' = upc /\ upc = "gone"
      BY <1>11 DEF SaveToolLeaves, usb
    <2>. QED
      BY <1>1, <2>1 DEF UsbTrip
  <1>12. CASE Exited \/ UNCHANGED vars
    <2>1. UNCHANGED usb /\ upc' = upc /\ pc' = pc
      BY <1>12 DEF Exited, vars, main, usb
    <2>. QED
      BY <1>1, <2>1 DEF UsbTrip
  <1>. QED
    BY <1>2, <1>3, <1>4, <1>5, <1>6, <1>7, <1>8, <1>9, <1>10, <1>11, <1>12,
       Zenon DEF Next

-----------------------------------------------------------------------------
(* The save tool's analysis of the card the writer left.                     *)

ScanIdle ==
    /\ entries = <<>> /\ loaderAt = 0 /\ loaderEnd = 0 /\ occ = {}
    /\ analyzed = 0 /\ spc = "off" /\ shows = 0
    /\ rom = 1 /\ position = 0 /\ carry = 0 /\ found = <<>>

\* What was read of the card is what is on it, and that is the image.
Mapped ==
    /\ entries = Catalog /\ loaderAt = loader /\ occ = Occurrences
    /\ flash = "whole" /\ bpc = "built" /\ direct = FALSE

Analyzing ==
    /\ spc # "off" /\ ScanInv /\ Mapped
    /\ pc \in {"scan", "leave again", "done"}

ScanTrip == ScanIdle \/ Analyzing

\* Neither the card nor what occurs on it changes without the writer.
LEMMA OccurrencesStay ==
    ASSUME UNCHANGED build, flash' = flash, rest' = rest
    PROVE  Occurrences' = Occurrences
  <1>1. /\ image' = image /\ len' = len /\ order' = order /\ starts' = starts
    BY Zenon DEF build
  <1>2. Card' = Card
    BY <1>1 DEF Card
  <1>3. RomCount' = RomCount
    BY <1>1 DEF RomCount
  <1>4. \A p, a : Occurs(p, a)' <=> Occurs(p, a)
    BY <1>1, <1>2, <1>3, Zenon DEF Occurs
  <1>. QED
    BY <1>4 DEF Occurrences

LEMMA MappedStays ==
    ASSUME Mapped, UNCHANGED build, flash' = flash, rest' = rest,
           UNCHANGED catalog
    PROVE  Mapped'
  <1>1. /\ order' = order /\ starts' = starts /\ loader' = loader
        /\ bpc' = bpc /\ direct' = direct
        /\ entries' = entries /\ loaderAt' = loaderAt /\ occ' = occ
    BY Zenon DEF build, catalog
  <1>2. Catalog' = Catalog
    BY <1>1 DEF Catalog, Extent, RomCount
  <1>. QED
    BY <1>1, <1>2, OccurrencesStay, Zenon DEF Mapped

LEMMA ScanKept ==
    ASSUME ScanTrip, UNCHANGED scan,
           spc # "off" => /\ UNCHANGED build /\ flash' = flash /\ rest' = rest
                          /\ pc' \in {"scan", "leave again", "done"}
    PROVE  ScanTrip'
  <1>1. CASE ScanIdle
    BY <1>1 DEF ScanIdle, ScanTrip, scan
  <1>2. CASE Analyzing
    <2>1. UNCHANGED catalog /\ spc' = spc
      BY DEF scan, catalog
    <2>2. Mapped'
      BY <1>2, <2>1, MappedStays DEF Analyzing
    <2>3. ScanInv'
      BY <1>2, ScanInvStep DEF Analyzing
    <2>. QED
      BY <1>2, <2>1, <2>2, <2>3 DEF Analyzing, ScanTrip
  <1>. QED
    BY <1>1, <1>2 DEF ScanTrip

\* The catalog of a built image, as the analysis takes it.
LEMMA CatalogTypes ==
    ASSUME BuildInv, bpc = "built"
    PROVE  /\ Catalog \in Seq([start : Nat, extent : Nat \ {0}])
           /\ Len(Catalog) = RomCount /\ RomCount \in Nat
           /\ \A k \in 1..RomCount :
                /\ Catalog[k].start = starts[k] /\ Catalog[k].extent = Extent(k)
                /\ starts[k] \in Nat /\ Extent(k) \in Nat \ {0}
  <1>1. BuildTypeOK /\ PlacedSound /\ Len(starts) = Len(order)
    BY InvParts, Zenon DEF FinishedSound
  <1>2. RomCount \in Nat
    BY <1>1, Sequences DEF RomCount
  <1>3. ASSUME NEW k \in 1..RomCount
        PROVE  starts[k] \in Nat /\ Extent(k) \in Nat \ {0}
    <2>1. k \in 1..Len(starts)
      BY <1>1, <1>3 DEF RomCount
    <2>2. starts[k] \in Nat /\ order[k] \in RomFiles
      BY <1>1, <2>1, PlacedRom
    <2>3. order[k].size \in Nat /\ order[k].size =< CardLen
      BY <2>2, RomTypes
    <2>. QED
      BY <2>2, <2>3, SizeClassSound DEF Extent
  <1>4. \A k \in 1..RomCount :
            /\ Catalog[k].start = starts[k] /\ Catalog[k].extent = Extent(k)
            /\ Catalog[k] \in [start : Nat, extent : Nat \ {0}]
    BY <1>3 DEF Catalog, Entry
  <1>5. Catalog = [k \in 1..RomCount |-> Entry(starts[k], Extent(k))]
    BY DEF Catalog
  <1>6. Len(Catalog) = RomCount /\ Catalog \in Seq([start : Nat, extent : Nat \ {0}])
    BY <1>2, <1>4, <1>5
  <1>. QED
    BY <1>2, <1>3, <1>4, <1>6

LEMMA ReadStep ==
    ASSUME TripInv, ScanTrip, ReadCatalog
    PROVE  ScanTrip'
  <1>1. /\ pc = "catalog" /\ ScanIdle /\ UNCHANGED build /\ flash' = flash
        /\ rest' = rest
        /\ UNCHANGED <<shows, rom, position, carry, found>>
    BY DEF ReadCatalog, ScanTrip, Analyzing, contract, Goto, Exit
  <1>2. CASE UNCHANGED catalog /\ spc' = spc
    <2>1. UNCHANGED scan
      BY <1>1, <1>2 DEF scan, catalog
    <2>2. spc = "off"
      BY <1>1 DEF ScanIdle
    <2>. QED
      BY <2>1, <2>2, ScanKept
  <1>3. CASE /\ HasCatalog /\ RomCount =< CapturedRoms
             /\ entries' = Catalog /\ loaderAt' = loader
             /\ loaderEnd' = Lower(loader + MultiLoader, CardLen) - 1
             /\ occ' = Occurrences
             /\ analyzed' \in 1..RomCount
             /\ spc' = "prepare" /\ pc' = "scan"
    <2>1. bpc = "built" /\ flash = "whole" /\ BuildInv
      BY <1>1, <1>3 DEF TripInv, ImageInv, Prepared, Unbuilt, ClaimInv, AfterBuild,
                        HasCatalog
    <2>2. BuildTypeOK /\ direct = FALSE
      <3>1. BuildTypeOK /\ direct \in BOOLEAN /\ ~direct
        BY <1>3, <2>1, InvParts, Zenon DEF BuildTypeOK, HasCatalog
      <3>. QED
        BY <3>1, TrueOrFalse, Zenon
    <2>3. (Mapped)'
      <3>1. /\ order' = order /\ starts' = starts /\ loader' = loader
            /\ bpc' = bpc /\ direct' = direct
        BY <1>1, Zenon DEF build
      <3>2. Catalog' = Catalog
        BY <3>1 DEF Catalog, Extent, RomCount
      <3>3. Occurrences' = Occurrences
        BY <1>1, OccurrencesStay
      <3>. QED
        BY <1>1, <1>3, <2>1, <2>2, <3>1, <3>2, <3>3, Zenon DEF Mapped
    <2>4. /\ Catalog \in Seq([start : Nat, extent : Nat \ {0}])
          /\ Len(Catalog) = RomCount /\ RomCount \in Nat
      BY <2>1, CatalogTypes
    <2>5. loader \in Units /\ loaderEnd' \in Units
      <3>1. loader \in Units
        BY <2>2, Zenon DEF BuildTypeOK
      <3>2. Lower(loader + MultiLoader, CardLen) - 1 \in Units
        BY <3>1, Geometry DEF Units, Lower
      <3>. QED
        BY <1>3, <3>1, <3>2
    <2>6. analyzed' \in 0..Len(entries')
      BY <1>3, <2>4
    <2>7. occ' \in SUBSET (Patterns \X Units)
      BY <1>3 DEF Occurrences
    <2>8. ScanInit'
      BY <1>1, <1>3, <2>4, <2>5, <2>6, <2>7 DEF ScanInit, ScanIdle
    <2>9. ScanInit' => ScanInv'
      BY ScanInvInit, PTL
    <2>. QED
      BY <1>3, <2>3, <2>8, <2>9 DEF ScanTrip, Analyzing
  <1>. QED
    BY <1>2, <1>3, Zenon DEF ReadCatalog, Goto

LEMMA ScanRuns ==
    ASSUME ScanNext
    PROVE  spc \notin {"off", "done", "failed"} /\ spc' # "off" /\ UNCHANGED catalog
  BY DEF ScanNext, PrepareScan, ScanHeader, ScanChunk, ScanDone, Report

LEMMA ScanStep ==
    ASSUME ScanTrip, ScanCard
    PROVE  ScanTrip'
  <1>1. /\ pc = "scan" /\ pc' = pc /\ ScanNext /\ UNCHANGED build
        /\ flash' = flash /\ rest' = rest
    BY DEF ScanCard, main, contract
  <1>2. spc # "off" /\ spc' # "off" /\ UNCHANGED catalog
    BY <1>1, ScanRuns
  <1>3. ScanInv /\ Mapped
    BY <1>2 DEF ScanTrip, ScanIdle, Analyzing
  <1>4. ScanInv'
    BY <1>1, <1>3, ScanInvStep
  <1>5. Mapped'
    BY <1>1, <1>2, <1>3, MappedStays
  <1>. QED
    BY <1>1, <1>2, <1>4, <1>5 DEF ScanTrip, Analyzing

LEMMA ScanTripNext ==
    ASSUME TripInv, ScanTrip, [Next]_vars
    PROVE  ScanTrip'
  <1>1. spc # "off" => pc \in {"scan", "leave again", "done"}
    BY DEF ScanTrip, ScanIdle, Analyzing
  <1>2. CASE ReadCatalog
    BY <1>2, ReadStep
  <1>3. CASE ScanCard
    BY <1>3, ScanStep
  <1>4. CASE LoadRoms \/ BuildImage \/ WriteCard
    <2>1. UNCHANGED scan /\ pc \notin {"scan", "leave again", "done"}
      BY <1>4 DEF LoadRoms, BuildImage, WriteCard
    <2>. QED
      BY <1>1, <2>1, ScanKept
  <1>5. CASE ImageRejected \/ DryRun \/ OpenForWrite
    <2>1. UNCHANGED scan /\ pc \notin {"scan", "leave again", "done"}
      BY <1>5 DEF ImageRejected, DryRun, OpenForWrite
    <2>. QED
      BY <1>1, <2>1, ScanKept
  <1>6. CASE WriterOpened \/ WriterReturns \/ StartSaveTool \/ SaveToolOpened
    <2>1. UNCHANGED scan /\ pc \notin {"scan", "leave again", "done"}
      BY <1>6 DEF WriterOpened, WriterReturns, StartSaveTool, SaveToolOpened
    <2>. QED
      BY <1>1, <2>1, ScanKept
  <1>7. CASE UsbCall \/ Exited \/ UNCHANGED vars
    <2>1. /\ UNCHANGED scan /\ UNCHANGED build /\ flash' = flash
          /\ rest' = rest /\ pc' = pc
      BY <1>7, Zenon DEF UsbCall, Exited, vars, main, contract
    <2>. QED
      BY <1>1, <2>1, ScanKept
  <1>8. CASE ScanReturns \/ SaveToolLeaves
    <2>1. /\ UNCHANGED scan /\ UNCHANGED build /\ flash' = flash
          /\ rest' = rest /\ pc' \in {"leave again", "done"}
      BY <1>8, Zenon DEF ScanReturns, SaveToolLeaves, contract, Exit, Goto
    <2>. QED
      BY <2>1, ScanKept
  <1>. QED
    BY <1>2, <1>3, <1>4, <1>5, <1>6, <1>7, <1>8, Zenon DEF Next

-----------------------------------------------------------------------------
(* The invariant implies the round trip. *)

\* Which unit of the card a cell of the ROM is, and what of it is recovered.
LEMMA ReturnedCell ==
    ASSUME BuildTypeOK, PlacedSound, Len(starts) = Len(order),
           NEW k \in 1..RomCount, NEW j \in 0..(order[k].size - 1)
    PROVE  /\ starts[k] \in Nat /\ j \in Nat /\ starts[k] + j \in Units
           /\ starts[k] + j < starts[k] + order[k].size
           /\ order[k] \in RomFiles
           /\ Returned(k)[j] =
                IF starts[k] + j \in loader..(loader + BlankedLength(RomCount) - 1)
                THEN Erased ELSE Restored(k, Card[starts[k] + j])
  <1>1. k \in 1..Len(starts)
    BY Zenon DEF RomCount
  <1>2. /\ order[k] \in RomFiles /\ starts[k] \in Nat
        /\ starts[k] + order[k].size =< CardLen
    BY <1>1, PlacedRom DEF PlacedSound
  <1>3. /\ order[k].size \in Nat /\ order[k].size =< CardLen /\ CardLen \in Nat
        /\ order[k].size =< SizeClass(order[k].size)
        /\ SizeClass(order[k].size) \in Nat
    BY <1>2, RomTypes, Geometry, SizeClassSound
  <1>4. j \in 0..(Extent(k) - 1)
    BY <1>3 DEF Extent
  <1>5. Catalog[k].start = starts[k] /\ Catalog[k].extent = Extent(k)
    BY DEF Catalog, Entry
  <1>6. Returned(k)[j] =
            IF starts[k] + j \in loader..(loader + BlankedLength(RomCount) - 1)
            THEN Erased ELSE Restored(k, Card[starts[k] + j])
    BY <1>4, <1>5, Zenon DEF Returned, Extracted
  <1>. QED
    BY <1>2, <1>3, <1>6 DEF Units

\* The card holds the image where the image is.
LEMMA CardIsImage ==
    ASSUME flash = "whole", NEW u \in Units, u < len
    PROVE  Card[u] = image[u]
  BY DEF Card

LEMMA RestoredErased ==
    ASSUME NEW k
    PROVE  Restored(k, Erased) = Erased
  BY DEF Restored, Erased

LEMMA RestoredRom ==
    ASSUME NEW k, NEW l, NEW i
    PROVE  Restored(k, RomCell(l, i)) = RomCell(l, i)
  BY DEF Restored, RomCell

LEMMA RestoredBranch ==
    ASSUME NEW a
    PROVE  Restored(1, PatchedCell(a)) = RomCell(1, 0)
  BY DEF Restored, PatchedCell

LEMMA RomCellParts ==
    ASSUME NEW c, NEW l, NEW i, c = RomCell(l, i)
    PROVE  c[1] = "rom" /\ c[2] = l
  BY DEF RomCell

LEMMA LoaderCellKind ==
    ASSUME NEW c, NEW j, c = LoaderCell(j)
    PROVE  c[1] = "loader"
  BY DEF LoaderCell

\* What an extraction blanks is the loader, unless there are two ROMs.
LEMMA BlankedIsLoader ==
    ASSUME RomCount # 2
    PROVE  BlankedLength(RomCount) = LoaderLength
  BY DEF BlankedLength, LoaderLength, MultiLength

LEMMA LoaderLengthSound == LoaderLength \in Nat \ {0}
  BY Geometry, MultiLengthSound DEF LoaderLength

LEMMA BuiltRecovers ==
    ASSUME BuildInv, Traced, bpc = "built", flash = "whole", direct = FALSE,
           RomCount # 2, NEW k \in 1..RomCount
    PROVE  Recovers(k)
  <1>1. /\ BuildTypeOK /\ PlacedSound /\ FinishedSound
        /\ Len(starts) = Len(order) /\ LoaderWhole(LoaderLength)
        /\ \A p \in 1..Len(order) : \A i \in order[p].data :
            image[starts[p] + i] = Kept(p, i)
    BY InvParts, Zenon DEF FinishedSound
  <1>2. /\ LoaderLength \in Nat \ {0} /\ loader \in Nat /\ len \in Nat
        /\ BlankedLength(RomCount) = LoaderLength
    <2>1. loader \in Units /\ len \in 0..CardLen
      BY <1>1, Zenon DEF BuildTypeOK
    <2>. QED
      BY <2>1, LoaderLengthSound, BlankedIsLoader, Geometry DEF Units
  <1>3. SUFFICES ASSUME NEW j \in 0..(order[k].size - 1)
                 PROVE  IF j \in order[k].data
                        THEN Returned(k)[j] = RomCell(k, j)
                        ELSE \/ Returned(k)[j] = Erased
                             \/ Returned(k)[j][1] = "rom" /\ Returned(k)[j][2] > k
    BY DEF Recovers
  <1>. DEFINE u == starts[k] + j
              InLoader == u \in loader..(loader + LoaderLength - 1)
  <1>4. /\ starts[k] \in Nat /\ j \in Nat /\ u \in Units
        /\ u < starts[k] + order[k].size /\ order[k] \in RomFiles
        /\ Returned(k)[j] = IF InLoader THEN Erased ELSE Restored(k, Card[u])
    BY <1>1, <1>2, ReturnedCell
  <1>5. k \in 1..Len(order) /\ k \in 1..Len(starts) /\ k \in Nat
    BY <1>1 DEF RomCount
  <1>6. u < len /\ order[k].size \in Nat
    <2>1. starts[k] + order[k].size =< len /\ order[k].size \in Nat
      BY <1>4, <1>5, RomTypes DEF Traced, FilesInside
    <2>. QED
      BY <1>2, <1>4, <2>1
  <1>7. Card[u] = image[u]
    BY <1>4, <1>6, CardIsImage
  <1>8. CASE j \in order[k].data
    <2>1. image[u] = IF k = 1 /\ j = 0 THEN PatchedCell(loader) ELSE RomCell(k, j)
      BY <1>1, <1>5, <1>8, Zenon DEF Kept
    <2>2. Restored(k, Card[u]) = RomCell(k, j)
      <3>1. CASE k = 1 /\ j = 0
        BY <1>7, <2>1, <3>1, RestoredBranch, Zenon
      <3>2. CASE ~(k = 1 /\ j = 0)
        BY <1>7, <2>1, <3>2, RestoredRom, Zenon
      <3>. QED
        BY <3>1, <3>2
    <2>3. ~InLoader
      <3>1. SUFFICES ASSUME InLoader PROVE FALSE
        OBVIOUS
      <3>. DEFINE i == u - loader
      <3>2. i \in 0..(LoaderLength - 1) /\ u = loader + i
        BY <1>2, <1>4, <3>1
      <3>. HIDE DEF i, u
      <3>3. image[u] = LoaderCell(i)
        BY <1>1, <3>2, Zenon DEF LoaderWhole
      <3>. QED
        <4>1. image[u][1] = "loader"
          BY <3>3, LoaderCellKind, Zenon
        <4>. QED
          BY <2>1, <4>1 DEF PatchedCell, RomCell
    <2>. QED
      BY <1>4, <1>8, <2>2, <2>3, Zenon
  <1>9. CASE j \notin order[k].data
    <2>. SUFFICES \/ Returned(k)[j] = Erased
                  \/ Returned(k)[j][1] = "rom" /\ Returned(k)[j][2] > k
      BY <1>9, Zenon
    <2>1. CASE InLoader
      BY <1>4, <2>1, Zenon
    <2>2. CASE ~InLoader
      <3>1. Returned(k)[j] = Restored(k, image[u])
        BY <1>4, <1>7, <2>2, Zenon
      <3>2. Owned(u)
        BY <1>4, Zenon DEF Traced, CellsOwned
      <3>3. CASE image[u] = Erased
        BY <3>1, <3>3, RestoredErased, Zenon
      <3>4. CASE RomData(u)
        <4>. PICK l \in 1..copied : \E i \in order[l].data :
                 u = starts[l] + i /\ image[u] = RomCell(l, i)
          BY <3>4, Zenon DEF RomData
        <4>1. PICK i \in order[l].data :
                  u = starts[l] + i /\ image[u] = RomCell(l, i)
          OBVIOUS
        <4>2. Returned(k)[j] = RomCell(l, i)
          BY <3>1, <4>1, RestoredRom, Zenon
        <4>3. l \in 1..Len(starts) /\ l \in Nat
          <5>1. copied \in 0..Len(order) /\ Len(order) \in Nat
            BY <1>1, Sequences, Zenon DEF BuildTypeOK
          <5>. QED
            BY <1>1, <5>1
        <4>4. /\ starts[l] \in Nat /\ i \in Nat /\ order[l] \in RomFiles
              /\ u < starts[l] + MeaningfulEnd(order[l])
          BY <1>1, <4>1, <4>3, PlacedRom
        <4>5. MeaningfulEnd(order[l]) \in Nat
          BY <4>4, MeaningfulEndSound
        <4>6. l # k
          BY <1>4, <1>9, <4>1, <4>4
        <4>7. ~(l < k)
          <5>1. SUFFICES ASSUME l < k PROVE FALSE
            OBVIOUS
          <5>2. starts[l] + MeaningfulEnd(order[l]) =< starts[k]
            BY <1>1, <1>5, <4>3, <5>1 DEF PlacedSound
          <5>. QED
            BY <1>4, <4>4, <4>5, <5>2
        <4>8. l > k
          BY <1>5, <4>3, <4>6, <4>7
        <4>9. Returned(k)[j][1] = "rom" /\ Returned(k)[j][2] = l
          BY <4>2, RomCellParts, Zenon
        <4>. QED
          BY <4>8, <4>9, Zenon
      <3>5. CASE LoaderArea(u)
        <4>1. CASE u = 0
          <5>1. starts[k] = 0 /\ j = 0
            BY <1>4, <4>1
          <5>. QED
            BY <1>4, <1>9, <5>1, RomTypes
        <4>2. CASE loader =< u /\ u < loader + LoaderLength
          <5>1. InLoader
            BY <1>2, <1>4, <4>2
          <5>. QED
            BY <2>2, <5>1
        <4>3. CASE Len(order) = 1 /\ order[1].size =< u
          <5>1. k = 1
            BY <1>5, <4>3
          <5>2. starts[k] = 0
            BY <1>1, <1>5, <5>1, PlacedRom
          <5>. QED
            BY <1>4, <1>6, <4>3, <5>1, <5>2
        <4>. QED
          BY <3>5, <4>1, <4>2, <4>3, Zenon DEF LoaderArea
      <3>. QED
        BY <3>2, <3>3, <3>4, <3>5, Zenon DEF Owned
    <2>. QED
      BY <2>1, <2>2
  <1>. QED
    BY <1>8, <1>9

LEMMA BuiltDirect ==
    ASSUME BuildInv, Traced, bpc = "built", flash = "whole", direct = TRUE,
           NEW j \in input[1].data
    PROVE  Card[j] = RomCell(1, j)
  <1>1. /\ BuildTypeOK /\ PlacedSound /\ FinishedSound /\ InputSound
        /\ Len(starts) = Len(order) /\ order = input /\ Len(input) = 1
        /\ \A p \in 1..Len(order) : \A i \in order[p].data :
            image[starts[p] + i] = Kept(p, i)
    BY InvParts, Zenon DEF FinishedSound, InputSound, Traced, FilesInside
  <1>2. 1 \in 1..Len(order) /\ 1 \in 1..Len(starts)
    BY <1>1
  <1>3. /\ starts[1] = 0 /\ j \in Nat /\ starts[1] + j \in Units
        /\ starts[1] + j < starts[1] + order[1].size /\ order[1] \in RomFiles
    BY <1>1, <1>2, PlacedRom
  <1>4. starts[1] + order[1].size =< len
    BY <1>2 DEF Traced, FilesInside
  <1>5. order[1].size \in Nat /\ len \in Nat
    <2>1. len \in 0..CardLen
      BY <1>1, Zenon DEF BuildTypeOK
    <2>. QED
      BY <1>3, <2>1, RomTypes, Geometry
  <1>6. starts[1] + j = j /\ j \in Units /\ j < len
    BY <1>3, <1>4, <1>5
  <1>7. image[j] = RomCell(1, j)
    <2>1. image[starts[1] + j] = Kept(1, j)
      BY <1>1, <1>2, Zenon
    <2>2. direct # FALSE
      OBVIOUS
    <2>. QED
      BY <1>6, <2>1, <2>2, Zenon DEF Kept
  <1>. QED
    BY <1>6, <1>7, CardIsImage, Zenon

LEMMA TripRecovers == TripInv => RoundTrip
  <1>. SUFFICES ASSUME TripInv, Verified
                PROVE  IF direct
                       THEN \A j \in input[1].data : Card[j] = RomCell(1, j)
                       ELSE RomCount # 2 => \A k \in 1..RomCount : Recovers(k)
    BY Zenon DEF RoundTrip
  <1>1. bpc = "built" /\ flash = "whole"
    BY DEF Verified, TripInv, ClaimInv
  <1>2. BuildInv /\ Traced
    BY <1>1 DEF TripInv, ImageInv, Unbuilt, Prepared
  <1>3. direct = TRUE \/ direct = FALSE
    <2>1. direct \in BOOLEAN
      BY <1>2, InvParts, Zenon DEF BuildTypeOK
    <2>. QED
      BY <2>1, TrueOrFalse
  <1>4. direct = TRUE => \A j \in input[1].data : Card[j] = RomCell(1, j)
    BY <1>1, <1>2, BuiltDirect
  <1>5. direct = FALSE /\ RomCount # 2 => \A k \in 1..RomCount : Recovers(k)
    BY <1>1, <1>2, BuiltRecovers
  <1>. QED
    BY <1>3, <1>4, <1>5, Zenon

\* The layout the readers rely on, for whatever has been built so far.
LEMMA TripLayout == TripInv => LayoutSound
  <1>1. Unbuilt => LayoutSound
    BY DEF Unbuilt, LayoutSound
  <1>2. Prepared => LayoutSound
    BY InvIsSound, Zenon DEF Prepared
  <1>. QED
    BY <1>1, <1>2, Zenon DEF TripInv, ImageInv

-----------------------------------------------------------------------------
(* The markers found are those of the ROM they are reported of.              *)

\* Where the search of a ROM ends: within its stored extent and before the
\* next ROM, and behind all of its data unless the loader is in the middle.
SearchEnd(k) == starts[k] + RomSpan(k)

LEMMA SearchEnds ==
    ASSUME BuildInv, Mapped, NEW k \in 1..RomCount
    PROVE  /\ SearchEnd(k) \in Nat /\ RomSpan(k) \in Int /\ Start(k) = starts[k]
           /\ SearchEnd(k) =< starts[k] + Extent(k)
           /\ k < RomCount => SearchEnd(k) =< starts[k + 1]
           /\ starts[k] + MeaningfulEnd(order[k]) > SearchEnd(k) =>
                k = RomCount /\ loader > starts[k] /\ SearchEnd(k) = loader
  <1>1. /\ entries = Catalog /\ loaderAt = loader /\ bpc = "built"
        /\ BuildTypeOK /\ PlacedSound /\ LayoutSound
        /\ Len(starts) = Len(order)
    BY InvParts, InvIsSound, Zenon DEF Mapped, FinishedSound
  <1>2. /\ Len(entries) = RomCount /\ RomCount \in Nat
        /\ entries[k].start = starts[k] /\ entries[k].extent = Extent(k)
        /\ starts[k] \in Nat /\ Extent(k) \in Nat \ {0}
        /\ k < RomCount => entries[k + 1].start = starts[k + 1]
                           /\ starts[k + 1] \in Nat
    <2>1. /\ Len(Catalog) = RomCount /\ RomCount \in Nat
          /\ \A n \in 1..RomCount :
                /\ Catalog[n].start = starts[n] /\ Catalog[n].extent = Extent(n)
                /\ starts[n] \in Nat /\ Extent(n) \in Nat \ {0}
      BY <1>1, CatalogTypes, Zenon
    <2>2. k < RomCount => k + 1 \in 1..RomCount
      BY <2>1
    <2>. QED
      BY <1>1, <2>1, <2>2, Zenon
  <1>3. /\ HasStoredExtent(entries[k]) /\ loader \in Nat
        /\ k < RomCount => starts[k] < starts[k + 1]
    <2>1. HasStoredExtent(entries[k])
      BY <1>1, Zenon DEF LayoutSound
    <2>2. loader \in Nat
      <3>1. loader \in Units
        BY <1>1, Zenon DEF BuildTypeOK
      <3>. QED
        BY <3>1, Geometry DEF Units
    <2>3. ASSUME k < RomCount PROVE starts[k] < starts[k + 1]
      <3>. DEFINE n == k + 1
      <3>1. n \in 1..RomCount /\ n > 1 /\ n - 1 = k
        BY <1>2, <2>3
      <3>. HIDE DEF n
      <3>2. starts[n - 1] < starts[n]
        BY <1>1, <3>1 DEF LayoutSound
      <3>. QED
        BY <3>1, <3>2 DEF n
    <2>. QED
      BY <2>1, <2>2, <2>3
  <1>4. k \in 1..Len(starts) /\ (k < RomCount => k + 1 \in 1..Len(starts))
    BY <1>1, <1>2 DEF RomCount
  <1>5. /\ MeaningfulEnd(order[k]) \in Nat
        /\ MeaningfulEnd(order[k]) =< Extent(k)
        /\ k < RomCount => starts[k] + MeaningfulEnd(order[k]) =< starts[k + 1]
    <2>1. order[k] \in RomFiles
      BY <1>1, <1>4, PlacedRom
    <2>2. /\ MeaningfulEnd(order[k]) \in Nat
          /\ MeaningfulEnd(order[k]) =< order[k].size
          /\ order[k].size \in Nat /\ order[k].size =< Extent(k)
      BY <2>1, MeaningfulEndSound, RomTypes, SizeClassSound DEF Extent
    <2>3. ASSUME k < RomCount
          PROVE  starts[k] + MeaningfulEnd(order[k]) =< starts[k + 1]
      <3>1. k < k + 1
        OBVIOUS
      <3>. QED
        BY <1>1, <1>4, <2>3, <3>1 DEF PlacedSound
    <2>. QED
      BY <1>2, <2>2, <2>3
  <1>6. RomSpan(k) = AllocationEnd(entries, k, loader) - starts[k]
    BY <1>1, <1>2 DEF RomSpan, Span
  <1>7. Start(k) = starts[k]
    BY <1>2 DEF Start
  <1>8. AllocationEnd(entries, k, loader) =
            IF k < RomCount
            THEN Higher(starts[k], Lower(starts[k] + Extent(k), starts[k + 1]))
            ELSE IF loader > starts[k] /\ loader < starts[k] + Extent(k)
            THEN loader ELSE starts[k] + Extent(k)
    BY <1>2, <1>3 DEF AllocationEnd
  <1>9. CASE k < RomCount
    <2>1. AllocationEnd(entries, k, loader) = Lower(starts[k] + Extent(k), starts[k + 1])
      BY <1>2, <1>3, <1>8, <1>9 DEF Higher, Lower
    <2>2. SearchEnd(k) = Lower(starts[k] + Extent(k), starts[k + 1])
      BY <1>2, <1>6, <1>9, <2>1 DEF SearchEnd, Lower
    <2>. QED
      BY <1>2, <1>3, <1>5, <1>6, <1>7, <1>9, <2>1, <2>2 DEF Lower
  <1>10. CASE ~(k < RomCount)
    <2>1. k = RomCount
      BY <1>2, <1>10
    <2>2. SearchEnd(k) = IF loader > starts[k] /\ loader < starts[k] + Extent(k)
                         THEN loader ELSE starts[k] + Extent(k)
      BY <1>2, <1>3, <1>6, <1>8, <1>10 DEF SearchEnd
    <2>. QED
      BY <1>2, <1>3, <1>5, <1>6, <1>7, <1>8, <1>10, <2>1, <2>2
  <1>. QED
    BY <1>9, <1>10

\* A unit of a ROM on the card is where the image has it.
LEMMA RomUnitOnCard ==
    ASSUME BuildInv, Traced, bpc = "built", flash = "whole",
           rest \in {Erased, OldCell},
           NEW u \in Units, NEW l, NEW i, Card[u] = RomCell(l, i)
    PROVE  /\ l \in 1..Len(starts) /\ i \in order[l].data /\ u = starts[l] + i
  <1>1. Card[u] = IF u < len THEN image[u] ELSE rest
    BY DEF Card
  <1>2. Card[u][1] = "rom" /\ Card[u][2] = l /\ Card[u][3] = i
    BY DEF RomCell
  <1>3. u < len /\ image[u] = Card[u]
    BY <1>1, <1>2 DEF Erased, OldCell
  <1>4. Owned(u)
    BY Zenon DEF Traced, CellsOwned
  <1>5. image[u] # Erased /\ ~LoaderArea(u)
    BY <1>2, <1>3 DEF Erased, LoaderArea
  <1>6. PICK k \in 1..copied :
            \E j \in order[k].data : u = starts[k] + j /\ image[u] = RomCell(k, j)
    BY <1>4, <1>5, Zenon DEF Owned, RomData
  <1>7. PICK j \in order[k].data : u = starts[k] + j /\ image[u] = RomCell(k, j)
    BY <1>6
  <1>8. k = l /\ j = i
    BY <1>2, <1>3, <1>7 DEF RomCell
  <1>9. k \in 1..Len(starts)
    <2>1. /\ copied \in 0..Len(order) /\ Len(order) \in Nat
          /\ Len(starts) = Len(order)
      BY InvParts, Sequences, Zenon DEF BuildTypeOK, FinishedSound
    <2>. QED
      BY <2>1
  <1>. QED
    BY <1>7, <1>8, <1>9

\* What the card held before is nowhere in the image.
LEMMA OldUnitOnCard ==
    ASSUME Traced, bpc = "built", flash = "whole",
           NEW u \in Units, Card[u] = OldCell
    PROVE  ~(u < len) /\ rest = OldCell
  <1>1. Card[u] = IF u < len THEN image[u] ELSE rest
    BY DEF Card
  <1>2. Owned(u)
    BY Zenon DEF Traced, CellsOwned
  <1>3. image[u] # OldCell
    <2>1. CASE image[u] = Erased
      BY <2>1 DEF Erased, OldCell
    <2>2. CASE RomData(u)
      BY <2>2 DEF RomData, RomCell, OldCell
    <2>3. CASE LoaderArea(u)
      BY <2>3 DEF LoaderArea, OldCell
    <2>. QED
      BY <1>2, <2>1, <2>2, <2>3 DEF Owned
  <1>. QED
    BY <1>1, <1>3

\* No two ROMs have data in what is searched of one of them.
LEMMA SearchedIsOwn ==
    ASSUME BuildInv, Mapped, NEW k \in 1..RomCount, NEW l \in 1..Len(starts),
           NEW i \in order[l].data, starts[k] =< starts[l] + i,
           starts[l] + i < SearchEnd(k)
    PROVE  l = k
  <1>1. /\ BuildTypeOK /\ PlacedSound /\ Len(starts) = RomCount
        /\ RomCount \in Nat
    BY InvParts, Sequences, Zenon DEF Mapped, FinishedSound, RomCount
  <1>2. k \in 1..Len(starts) /\ k \in Nat /\ l \in Nat
    BY <1>1
  <1>3. /\ starts[l] \in Nat /\ i \in Nat /\ starts[k] \in Nat
        /\ starts[l] + i < starts[l] + MeaningfulEnd(order[l])
        /\ MeaningfulEnd(order[l]) \in Nat
    BY <1>1, <1>2, PlacedRom, MeaningfulEndSound
  <1>4. ~(l < k)
    <2>1. SUFFICES ASSUME l < k PROVE FALSE
      OBVIOUS
    <2>2. starts[l] + MeaningfulEnd(order[l]) =< starts[k]
      BY <1>1, <1>2, <2>1 DEF PlacedSound
    <2>. QED
      BY <1>3, <2>2
  <1>5. ~(k < l)
    <2>1. SUFFICES ASSUME k < l PROVE FALSE
      OBVIOUS
    <2>. DEFINE n == k + 1
    <2>2. n \in 1..Len(starts) /\ k < RomCount /\ (n = l \/ n < l)
      BY <1>1, <1>2, <2>1
    <2>3. SearchEnd(k) =< starts[n] /\ SearchEnd(k) \in Nat
      BY <2>2, SearchEnds
    <2>. HIDE DEF n
    <2>4. /\ starts[n] \in Nat /\ MeaningfulEnd(order[n]) \in Nat
      BY <1>1, <2>2, PlacedRom, MeaningfulEndSound
    <2>5. starts[n] =< starts[l]
      <3>1. CASE n = l
        BY <2>4, <3>1
      <3>2. CASE n < l
        <4>1. starts[n] + MeaningfulEnd(order[n]) =< starts[l]
          BY <1>1, <2>2, <3>2 DEF PlacedSound
        <4>. QED
          BY <1>3, <2>4, <4>1
      <3>. QED
        BY <2>2, <3>1, <3>2
    <2>. QED
      BY <1>3, <2>3, <2>4, <2>5
  <1>. QED
    BY <1>2, <1>4, <1>5

LEMMA FirstOfIn ==
    ASSUME NEW S \in SUBSET Patterns
    PROVE  /\ S = {} => FirstOf(S) = 0
           /\ S # {} => FirstOf(S) \in S /\ FirstOf(S) # 0
  <1>1. S = {} => FirstOf(S) = 0
    BY DEF FirstOf
  <1>2. ASSUME S # {} PROVE FirstOf(S) \in S /\ FirstOf(S) # 0
    <2>1. S \subseteq Nat \ {0}
      BY PatternTypes
    <2>2. \E p \in S : \A q \in S : p =< q
      BY <1>2, <2>1, LeastOfSet
    <2>3. FirstOf(S) \in S
      BY <1>2, <2>2 DEF FirstOf
    <2>. QED
      BY <2>1, <2>3
  <1>. QED
    BY <1>1, <1>2

LEMMA FoundAreOwn ==
    ASSUME TripInv, ScanTrip, rest \in {Erased, OldCell},
           NEW k \in 1..Len(found), found[k].marker # 0,
           rest = Erased \/ starts[k] + Extent(k) =< len
    PROVE  \E m \in order[k].marks : m[2] = found[k].marker
  <1>. DEFINE f == found[k]
              p == f.marker
  <1>1. /\ ScanInv /\ Mapped /\ Agrees(f, k) /\ BuildInv /\ Traced
        /\ bpc = "built" /\ flash = "whole"
    <2>1. Analyzing
      BY DEF ScanTrip, ScanIdle
    <2>. QED
      BY <2>1 DEF Analyzing, ScanInv, Mapped, TripInv, ImageInv, Unbuilt, Prepared
  <1>2. k \in 1..RomCount /\ f.end \in Nat /\ RomCount = Len(starts)
    <2>1. /\ Len(entries) = RomCount /\ RomCount \in Nat
      BY <1>1, CatalogTypes DEF Mapped
    <2>2. Len(found) = rom - 1 /\ rom \in 1..(Len(entries) + 1)
      BY <1>1 DEF ScanInv, ScanTypeOK
    <2>3. k \in 1..RomCount
      BY <2>1, <2>2
    <2>4. RomCount = Len(starts)
      BY <1>1, InvParts, Zenon DEF FinishedSound, RomCount
    <2>. DEFINE R == [marker : {0} \cup Patterns, begin : Nat, end : Nat,
                      cut : BOOLEAN]
    <2>5. found \in Seq(R)
      BY <1>1, Zenon DEF ScanInv, ScanTypeOK
    <2>. HIDE DEF R
    <2>6. found[k] \in R
      BY <2>5
    <2>7. f.end \in Nat
      BY <2>6 DEF R
    <2>. QED
      BY <2>3, <2>4, <2>7
  <1>3. /\ Start(k) = starts[k] /\ SearchEnd(k) \in Nat
        /\ SearchEnd(k) =< starts[k] + Extent(k)
        /\ starts[k] \in Nat /\ Extent(k) \in Nat
    BY <1>1, <1>2, SearchEnds, CatalogTypes
  <1>4. f.end =< SearchEnd(k) /\ p = FirstOf(FoundIn(starts[k], f.end))
    BY <1>1, <1>3 DEF Agrees, SearchEnd
  <1>5. p \in FoundIn(starts[k], f.end)
    <2>1. FoundIn(starts[k], f.end) \in SUBSET Patterns
      BY DEF FoundIn
    <2>. QED
      BY <1>4, <2>1, FirstOfIn
  <1>6. PICK a \in starts[k]..(f.end - PatternLen[p]) : <<p, a>> \in Occurrences
    BY <1>1, <1>5 DEF FoundIn, Mapped
  <1>7. /\ p \in Patterns /\ a \in Units /\ a \in Nat /\ Occurs(p, a)
        /\ PatternLen[p] \in Nat \ {0}
    <2>1. p \in Patterns /\ a \in Units /\ Occurs(p, a)
      BY <1>6 DEF Occurrences
    <2>2. PatternLen[p] \in Nat \ {0}
      BY <2>1, PatternTypes
    <2>. QED
      BY <2>1, <2>2, Geometry DEF Units
  <1>8. starts[k] =< a /\ a < SearchEnd(k)
    BY <1>2, <1>3, <1>4, <1>6, <1>7
  <1>9. CASE \E l \in 1..RomCount : \E m \in order[l].marks :
                /\ m[2] = p /\ a = starts[l] + m[1]
                /\ \A i \in 0..(PatternLen[p] - 1) :
                    Card[a + i] = RomCell(l, m[1] + i)
    <2>1. PICK l \in 1..RomCount : \E m \in order[l].marks :
                /\ m[2] = p /\ a = starts[l] + m[1]
                /\ \A i \in 0..(PatternLen[p] - 1) :
                    Card[a + i] = RomCell(l, m[1] + i)
      BY <1>9, Zenon
    <2>2. PICK m \in order[l].marks :
                /\ m[2] = p /\ a = starts[l] + m[1]
                /\ \A i \in 0..(PatternLen[p] - 1) :
                    Card[a + i] = RomCell(l, m[1] + i)
      BY <2>1, Zenon
    <2>3. Card[a] = RomCell(l, m[1] + 0)
      <3>1. 0 \in 0..(PatternLen[p] - 1) /\ a + 0 = a
        BY <1>7
      <3>2. Card[a + 0] = RomCell(l, m[1] + 0)
        BY <2>2, <3>1, Zenon
      <3>. QED
        BY <3>1, <3>2, Zenon
    <2>4. m[1] + 0 \in order[l].data /\ a = starts[l] + (m[1] + 0)
      BY <1>1, <1>7, <2>1, <2>2, <2>3, RomUnitOnCard
    <2>5. l = k
      BY <1>1, <1>2, <1>8, <2>4, SearchedIsOwn, Zenon
    <2>. QED
      BY <2>2, <2>5, Zenon
  <1>10. CASE a..(a + PatternLen[p] - 1) \subseteq {u \in Units : Card[u] = OldCell}
    <2>1. Card[a] = OldCell
      BY <1>7, <1>10
    <2>2. ~(a < len) /\ rest = OldCell
      BY <1>1, <1>7, <2>1, OldUnitOnCard
    <2>3. rest # Erased
      BY <2>2 DEF Erased, OldCell
    <2>4. len \in Nat
      <3>1. len \in 0..CardLen
        BY <1>1, InvParts, Zenon DEF BuildTypeOK
      <3>. QED
        BY <3>1, Geometry
    <2>. QED
      BY <1>3, <1>7, <1>8, <2>2, <2>3, <2>4
  <1>. QED
    BY <1>7, <1>9, <1>10, Zenon DEF Occurs

\* A marker of a ROM is on the card where the ROM is.
LEMMA MarkOccurs ==
    ASSUME BuildInv, Traced, bpc = "built", flash = "whole",
           NEW k \in 1..RomCount, NEW m \in order[k].marks
    PROVE  /\ m[2] \in Patterns /\ m[1] \in Nat /\ starts[k] \in Nat
           /\ starts[k] + m[1] \in Units
           /\ <<m[2], starts[k] + m[1]>> \in Occurrences
           /\ m[1] + PatternLen[m[2]] =< MeaningfulEnd(order[k])
           /\ PatternLen[m[2]] \in Nat \ {0} /\ MeaningfulEnd(order[k]) \in Nat
  <1>1. /\ BuildTypeOK /\ PlacedSound /\ FinishedSound
        /\ Len(starts) = RomCount
    BY InvParts, Zenon DEF FinishedSound, RomCount
  <1>2. k \in 1..Len(starts) /\ k \in 1..Len(order)
    BY <1>1 DEF RomCount
  <1>. DEFINE r == order[k]
              p == m[2]
              a == starts[k] + m[1]
  <1>3. r \in RomFiles
    BY <1>1, <1>2, PlacedRom
  <1>4. /\ p \in Patterns /\ m[1] \in Nat \ {0}
        /\ m[1]..(m[1] + PatternLen[p] - 1) \subseteq r.data
        /\ PatternLen[p] \in Nat \ {0}
    BY <1>3, MarkAssumption, PatternTypes
  <1>5. ASSUME NEW i \in 0..(PatternLen[p] - 1)
        PROVE  /\ m[1] + i \in r.data /\ starts[k] + (m[1] + i) \in Units
               /\ Card[a + i] = RomCell(k, m[1] + i)
    <2>. DEFINE j == m[1] + i
    <2>1. j \in r.data /\ j # 0
      BY <1>4
    <2>2. /\ starts[k] \in Nat /\ starts[k] + j \in Units /\ j \in Nat
          /\ starts[k] + j < starts[k] + r.size
      BY <1>1, <1>2, <2>1, PlacedRom
    <2>3. starts[k] + r.size =< len /\ r.size \in Nat /\ len \in Nat
      <3>1. starts[k] + r.size =< len
        BY <1>2 DEF Traced, FilesInside
      <3>2. len \in 0..CardLen
        BY <1>1, Zenon DEF BuildTypeOK
      <3>. QED
        BY <1>3, <3>1, <3>2, RomTypes, Geometry
    <2>4. image[starts[k] + j] = RomCell(k, j)
      <3>1. image[starts[k] + j] = Kept(k, j)
        BY <1>1, <1>2, <2>1 DEF FinishedSound
      <3>. QED
        BY <2>1, <3>1, Zenon DEF Kept
    <2>5. Card[starts[k] + j] = image[starts[k] + j]
      BY <2>2, <2>3, CardIsImage
    <2>6. a + i = starts[k] + j
      BY <1>4, <2>2
    <2>. QED
      BY <2>1, <2>2, <2>4, <2>5, <2>6, Zenon
  <1>6. starts[k] \in Nat
    BY <1>1, <1>2, PlacedRom
  <1>7. a \in Units
    <2>1. 0 \in 0..(PatternLen[p] - 1) /\ m[1] + 0 = m[1]
      BY <1>4
    <2>. QED
      BY <1>5, <2>1
  <1>8. Occurs(p, a)
    BY <1>5, Zenon DEF Occurs
  <1>9. <<p, a>> \in Occurrences
    BY <1>4, <1>7, <1>8 DEF Occurrences
  <1>10. m[1] + PatternLen[p] =< MeaningfulEnd(r) /\ MeaningfulEnd(r) \in Nat
    <2>1. PatternLen[p] - 1 \in 0..(PatternLen[p] - 1)
      BY <1>4
    <2>2. m[1] + (PatternLen[p] - 1) \in r.data
      BY <1>5, <2>1
    <2>3. m[1] + (PatternLen[p] - 1) < MeaningfulEnd(r) /\ MeaningfulEnd(r) \in Nat
      BY <1>3, <2>2, MeaningfulEndSound
    <2>. QED
      BY <1>4, <2>3
  <1>. QED
    BY <1>4, <1>6, <1>7, <1>9, <1>10

LEMMA MissedIsBehindLoader ==
    ASSUME TripInv, ScanTrip, NEW k \in 1..Len(found),
           found[k].marker = 0, order[k].marks # {}, ~found[k].cut
    PROVE  /\ k = RomCount /\ loader > starts[k]
           /\ \A m \in order[k].marks : starts[k] + m[1] + PatternLen[m[2]] > loader
  <1>. DEFINE f == found[k]
  <1>1. /\ ScanInv /\ Mapped /\ Agrees(f, k) /\ BuildInv /\ Traced
        /\ bpc = "built" /\ flash = "whole"
    <2>1. Analyzing
      BY DEF ScanTrip, ScanIdle
    <2>. QED
      BY <2>1 DEF Analyzing, ScanInv, Mapped, TripInv, ImageInv, Unbuilt, Prepared
  <1>2. k \in 1..RomCount
    <2>1. /\ Len(entries) = RomCount /\ RomCount \in Nat
      BY <1>1, CatalogTypes DEF Mapped
    <2>2. /\ Len(found) = rom - 1 /\ rom \in 1..(Len(entries) + 1)
      BY <1>1 DEF ScanInv, ScanTypeOK
    <2>. QED
      BY <2>1, <2>2
  <1>3. /\ Start(k) = starts[k] /\ SearchEnd(k) \in Nat
        /\ starts[k] + MeaningfulEnd(order[k]) > SearchEnd(k) =>
             k = RomCount /\ loader > starts[k] /\ SearchEnd(k) = loader
    BY <1>1, <1>2, SearchEnds
  <1>4. FoundIn(starts[k], SearchEnd(k)) = {}
    <2>1. FoundIn(starts[k], f.end) \in SUBSET Patterns
      BY DEF FoundIn
    <2>2. FoundIn(starts[k], f.end) = {}
      BY <1>1, <1>3, <2>1, FirstOfIn DEF Agrees
    <2>3. f.end = SearchEnd(k)
      BY <1>1, <1>3, <2>2 DEF Agrees, SearchEnd
    <2>. QED
      BY <2>2, <2>3
  <1>5. ASSUME NEW m \in order[k].marks
        PROVE  /\ k = RomCount /\ loader > starts[k]
               /\ starts[k] + m[1] + PatternLen[m[2]] > loader
    <2>. DEFINE p == m[2]
                a == starts[k] + m[1]
    <2>1. /\ p \in Patterns /\ m[1] \in Nat /\ starts[k] \in Nat
          /\ <<p, a>> \in occ
          /\ m[1] + PatternLen[p] =< MeaningfulEnd(order[k])
          /\ PatternLen[p] \in Nat \ {0} /\ MeaningfulEnd(order[k]) \in Nat
      BY <1>1, <1>2, MarkOccurs DEF Mapped
    <2>2. a \notin starts[k]..(SearchEnd(k) - PatternLen[p])
      BY <1>4, <2>1 DEF FoundIn
    <2>3. a + PatternLen[p] > SearchEnd(k)
      BY <1>3, <2>1, <2>2
    <2>4. starts[k] + MeaningfulEnd(order[k]) > SearchEnd(k)
      BY <1>3, <2>1, <2>3
    <2>. QED
      BY <1>3, <2>3, <2>4
  <1>6. PICK m \in order[k].marks : TRUE
    OBVIOUS
  <1>. QED
    BY <1>5, <1>6

LEMMA TripMarkers ==
    ASSUME TripInv, ScanTrip, rest \in {Erased, OldCell}
    PROVE  MarkersAreOwn
  <1>. SUFFICES ASSUME NEW k \in 1..Len(found)
                PROVE  /\ found[k].marker # 0
                            /\ (rest = Erased \/ starts[k] + Extent(k) =< len) =>
                            \E m \in order[k].marks : m[2] = found[k].marker
                       /\ found[k].marker = 0 /\ order[k].marks # {}
                            /\ ~found[k].cut =>
                            /\ k = RomCount /\ loader > starts[k]
                            /\ \A m \in order[k].marks :
                                starts[k] + m[1] + PatternLen[m[2]] > loader
    BY Zenon DEF MarkersAreOwn
  <1>. QED
    BY FoundAreOwn, MissedIsBehindLoader, Zenon

-----------------------------------------------------------------------------
(* The theorems of the composition. *)

Phases == {"load", "build", "open", "write", "leave", "open again",
           "catalog", "scan", "leave again", "done"}

MainTypes ==
    /\ command \in Commands /\ rest \in {Erased, OldCell}
    /\ pc \in Phases /\ exit \in -1..3

LEMMA MainTypesKept ==
    ASSUME MainTypes, [Next]_vars
    PROVE  MainTypes'
  <1>1. UNCHANGED <<command, rest>>
    BY DEF Next, LoadRoms, BuildImage, ImageRejected, DryRun, OpenForWrite,
           UsbCall, WriterOpened, WriteCard, WriterReturns, StartSaveTool,
           SaveToolOpened, ReadCatalog, ScanCard, ScanReturns, SaveToolLeaves,
           Exited, Goto, Exit, main, vars
  <1>2. \/ UNCHANGED <<pc, exit>>
        \/ pc' \in Phases /\ (exit' = exit \/ exit' \in {-1, 0, 1, 2, 3})
    <2>1. CASE LoadRoms \/ ImageRejected \/ DryRun \/ OpenForWrite
      BY <2>1, Zenon DEF LoadRoms, ImageRejected, DryRun, OpenForWrite, Goto, Exit,
                         Phases
    <2>2. CASE WriterOpened \/ StartSaveTool \/ SaveToolOpened \/ SaveToolLeaves
      BY <2>2, Zenon DEF WriterOpened, StartSaveTool, SaveToolOpened, SaveToolLeaves,
                         Goto, Exit, Phases
    <2>3. CASE WriterReturns \/ ScanReturns
      <3>1. pc' \in {"leave", "leave again"} /\ exit' \in {0, 2}
        BY <2>3 DEF WriterReturns, ScanReturns, Exit
      <3>. QED
        BY <3>1, Zenon DEF Phases
    <2>4. CASE ReadCatalog
      <3>1. /\ pc' \in {"scan", "leave again"}
            /\ exit' = exit \/ exit' \in 2..3
        BY <2>4, Zenon DEF ReadCatalog, Goto, Exit
      <3>2. exit' \in 2..3 => exit' = 2 \/ exit' = 3
        OBVIOUS
      <3>. QED
        BY <3>1, <3>2, Zenon DEF Phases
    <2>5. CASE \/ BuildImage \/ UsbCall \/ WriteCard \/ ScanCard
               \/ Exited \/ UNCHANGED vars
      BY <2>5, Zenon DEF BuildImage, UsbCall, WriteCard, ScanCard, Exited, vars, main
    <2>. QED
      BY <2>1, <2>2, <2>3, <2>4, <2>5, Zenon DEF Next
  <1>3. pc' \in Phases
    BY <1>2 DEF MainTypes
  <1>4. exit' \in -1..3
    BY <1>2 DEF MainTypes
  <1>5. command' \in Commands /\ (rest \in {Erased, OldCell})'
    BY <1>1 DEF MainTypes, Erased, OldCell
  <1>. QED
    BY <1>3, <1>4, <1>5, Zenon DEF MainTypes, Phases

CompositionInv == MainTypes /\ TripInv /\ UsbTrip /\ ScanTrip

LEMMA CompositionInductive == Spec => []CompositionInv
  <1>1. Init => CompositionInv
    <2>. SUFFICES ASSUME Init PROVE CompositionInv
      OBVIOUS
    <2>1. MainTypes
      <3>1. /\ command \in Commands /\ rest \in {Erased, OldCell}
            /\ pc = "load" /\ exit = -1
        BY DEF Init
      <3>2. exit \in -1..3
        BY <3>1
      <3>. QED
        BY <3>1, <3>2, Zenon DEF MainTypes, Phases
    <2>2. TripInv
      BY TripInit
    <2>3. UsbTrip
      BY UsbInvInit DEF Init, UsbInit, UsbTrip
    <2>4. ScanTrip
      BY DEF Init, ScanIdle, ScanTrip
    <2>. QED
      BY <2>1, <2>2, <2>3, <2>4 DEF CompositionInv
  <1>2. CompositionInv /\ [Next]_vars => CompositionInv'
    <2>. SUFFICES ASSUME CompositionInv, [Next]_vars PROVE CompositionInv'
      OBVIOUS
    <2>1. MainTypes /\ TripInv /\ UsbTrip /\ ScanTrip /\ command \in Commands
      BY DEF CompositionInv, MainTypes
    <2>2. MainTypes'
      BY <2>1, MainTypesKept
    <2>3. TripInv'
      BY <2>1, NextKeeps
    <2>4. UsbTrip'
      BY <2>1, UsbTripNext
    <2>5. ScanTrip'
      BY <2>1, ScanTripNext
    <2>. QED
      BY <2>2, <2>3, <2>4, <2>5 DEF CompositionInv
  <1>. QED
    BY <1>1, <1>2, PTL DEF Spec

(* Whatever ROMs are loaded and wherever their data, the padding and the     *)
(* loader come to lie, a write that claims verification leaves a card from   *)
(* which the card reader gets every ROM back.                                *)
THEOREM EveryRomReturns == Spec => []RoundTrip
  <1>1. CompositionInv => RoundTrip
    BY TripRecovers DEF CompositionInv
  <1>. QED
    BY <1>1, CompositionInductive, PTL

(* In the writer's main too, the image handed to the card is the one its     *)
(* catalog describes: nothing the main checks before the builder runs is     *)
(* needed for it but that the files are ROM files.                           *)
THEOREM LoadedLayoutIsSound == Spec => []LayoutSound
  <1>1. CompositionInv => LayoutSound
    BY TripLayout DEF CompositionInv
  <1>. QED
    BY <1>1, CompositionInductive, PTL

(* Both tools' device objects hold nothing once they are gone, and after     *)
(* open() all or nothing: however the tools end and wherever their opening   *)
(* of the device failed.                                                     *)
THEOREM BothToolsRelease == Spec => []UsbReleased
  <1>1. CompositionInv => UsbReleased
    BY UsbInvReleased DEF CompositionInv, UsbTrip
  <1>. QED
    BY <1>1, CompositionInductive, PTL

(* On the card the writer left, the save tool's chunked search finds what a  *)
(* search of the whole ROM would.                                            *)
THEOREM WrittenCardSearch == Spec => []ScanAgrees
  <1>1. CompositionInv => ScanAgrees
    <2>1. ScanIdle => ScanAgrees
      BY DEF ScanIdle, ScanAgrees
    <2>2. Analyzing => ScanAgrees
      BY ScanInvAgrees DEF Analyzing
    <2>. QED
      BY <2>1, <2>2 DEF CompositionInv, ScanTrip
  <1>. QED
    BY <1>1, CompositionInductive, PTL

(* The save tool reports a marker of a ROM only where it is that ROM's own,  *)
(* whatever else was packed into its extent, and misses one only behind a    *)
(* loader in the middle of the last ROM.                                     *)
THEOREM MarkersStayOwn == Spec => []MarkersAreOwn
  <1>1. CompositionInv => MarkersAreOwn
    BY TripMarkers DEF CompositionInv, MainTypes
  <1>. QED
    BY <1>1, CompositionInductive, PTL

LEMMA BuildTyped == ImageInv => BuildTypeOK
  <1>1. Unbuilt => BuildTypeOK
    <2>. SUFFICES ASSUME Unbuilt PROVE BuildTypeOK
      OBVIOUS
    <2>1. 0 \in Units /\ 0 \in 0..CardLen
      BY Geometry DEF Units
    <2>2. image \in [Units -> Cells]
      BY BlankCells DEF Unbuilt
    <2>. QED
      BY <2>1, <2>2 DEF Unbuilt, BuildTypeOK
  <1>2. Prepared => BuildTypeOK
    BY InvParts, Zenon DEF Prepared
  <1>. QED
    BY <1>1, <1>2 DEF ImageInv

(* Type correctness of the composition: of the writer's main, the image it   *)
(* builds, the device, and the save tool's analysis of what was written.     *)
THEOREM TripTypeCorrect == Spec => []TypeOK
  <1>1. CompositionInv => TypeOK
    <2>. SUFFICES ASSUME CompositionInv PROVE TypeOK
      OBVIOUS
    <2>1. BuildTypeOK
      BY BuildTyped DEF CompositionInv, TripInv
    <2>2. /\ UsbTypeOK
          /\ upc \notin {"idle", "gone"} =>
               pc \in {"open", "leave", "open again", "leave again"}
      BY DEF CompositionInv, UsbTrip, UsbInv, Opening
    <2>3. ScanTypeOK
      <3>1. ScanIdle => ScanTypeOK
        BY DEF ScanIdle, ScanTypeOK
      <3>2. Analyzing => ScanTypeOK
        BY DEF Analyzing, ScanInv
      <3>. QED
        BY <3>1, <3>2 DEF CompositionInv, ScanTrip
    <2>. QED
      BY <2>1, <2>2, <2>3 DEF TypeOK, CompositionInv, MainTypes, Phases
  <1>. QED
    BY <1>1, CompositionInductive, PTL
=============================================================================

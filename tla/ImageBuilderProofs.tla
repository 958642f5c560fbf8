------------------------- MODULE ImageBuilderProofs -------------------------
(***************************************************************************)
(* The image builder loses no ROM data, for every card geometry that meets *)
(* LayoutAssumption, every set of ROM files and every list of them.        *)
(***************************************************************************)
EXTENDS ImageBuilder, TLAPS, WellFoundedInduction, FiniteSetTheorems

-----------------------------------------------------------------------------
(* Arithmetic. *)

LEMMA DivMod ==
    ASSUME NEW x \in Nat, NEW m \in Nat \ {0}
    PROVE  /\ x \div m \in Nat
           /\ x % m \in Nat
           /\ x % m < m
           /\ x = m * (x \div m) + (x % m)
  BY Z3

LEMMA ProductMod ==
    ASSUME NEW k \in Nat, NEW m \in Nat \ {0}
    PROVE  (m * k) % m = 0
  <1>. DEFINE x == m * k
  <1>1. x \in Nat
    BY Z3
  <1>2. /\ x \div m \in Nat /\ x % m \in Nat /\ x % m < m
        /\ x = m * (x \div m) + (x % m)
    BY <1>1, DivMod
  <1>3. k =< x \div m
    <2>1. CASE x \div m < k
      <3>1. m * (x \div m) + m =< m * k
        BY <1>2, <2>1, Z3
      <3>. QED
        BY <1>2, <3>1
    <2>. QED
      BY <1>2, <2>1
  <1>4. m * k =< m * (x \div m)
    BY <1>2, <1>3, Z3
  <1>. QED
    BY <1>2, <1>4

\* Multiples of a length, one below the other, lie that length apart.
LEMMA MultipleGap ==
    ASSUME NEW x \in Nat, NEW y \in Nat, NEW m \in Nat \ {0},
           x % m = 0, y % m = 0, x < y
    PROVE  x + m =< y
  <1>1. x = m * (x \div m) /\ y = m * (y \div m)
    BY DivMod
  <1>2. x \div m \in Nat /\ y \div m \in Nat
    BY DivMod
  <1>3. x \div m < y \div m
    BY <1>1, <1>2, Z3
  <1>4. m * (x \div m) + m =< m * (y \div m)
    BY <1>2, <1>3, Z3
  <1>. QED
    BY <1>1, <1>4

\* A multiple of a multiple.
LEMMA MultipleOfMultiple ==
    ASSUME NEW x \in Nat, NEW c \in Nat \ {0}, NEW b \in Nat \ {0},
           x % c = 0, c % b = 0
    PROVE  x % b = 0
  <1>1. x = c * (x \div c) /\ c = b * (c \div b)
    BY DivMod
  <1>2. x \div c \in Nat /\ c \div b \in Nat
    BY DivMod
  <1>. DEFINE k == (c \div b) * (x \div c)
  <1>3. k \in Nat
    BY <1>2, Z3
  <1>4. x = b * k
    BY <1>1, <1>2, Z3
  <1>5. (b * k) % b = 0
    BY <1>3, ProductMod
  <1>. QED
    BY <1>4, <1>5

\* Division rounds down by less than the divisor.
LEMMA RoundedDown ==
    ASSUME NEW y \in Nat, NEW a \in Nat \ {0}
    PROVE  /\ (y \div a) * a \in Nat
           /\ (y \div a) * a =< y /\ y < (y \div a) * a + a
           /\ ((y \div a) * a) % a = 0
  <1>1. /\ y \div a \in Nat /\ y % a \in Nat /\ y % a < a
        /\ y = a * (y \div a) + (y % a)
    BY DivMod
  <1>2. (y \div a) * a = a * (y \div a) /\ a * (y \div a) \in Nat
    BY <1>1, Z3
  <1>3. (a * (y \div a)) % a = 0
    BY <1>1, ProductMod
  <1>. QED
    BY <1>1, <1>2, <1>3

LEMMA AlignUpFacts ==
    ASSUME NEW x \in Nat, NEW a \in Nat \ {0}
    PROVE  /\ AlignUp(x, a) \in Nat
           /\ x =< AlignUp(x, a) /\ AlignUp(x, a) < x + a
           /\ AlignUp(x, a) % a = 0
  <1>1. x + a - 1 \in Nat
    OBVIOUS
  <1>. DEFINE d == ((x + a - 1) \div a) * a
  <1>2. d \in Nat /\ d =< x + a - 1 /\ x + a - 1 < d + a /\ d % a = 0
    BY <1>1, RoundedDown
  <1>. HIDE DEF d
  <1>3. AlignUp(x, a) = d
    BY DEF AlignUp, d
  <1>. QED
    BY <1>2, <1>3

\* Rounding up does not pass a multiple.
LEMMA AlignUpBelow ==
    ASSUME NEW x \in Nat, NEW y \in Nat, NEW a \in Nat \ {0},
           x =< y, y % a = 0
    PROVE  AlignUp(x, a) =< y
  <1>1. /\ AlignUp(x, a) \in Nat /\ AlignUp(x, a) < x + a
        /\ AlignUp(x, a) % a = 0
    BY AlignUpFacts
  <1>2. CASE y < AlignUp(x, a)
    <2>1. y + a =< AlignUp(x, a)
      BY <1>1, <1>2, MultipleGap
    <2>. QED
      BY <1>1, <2>1
  <1>. QED
    BY <1>1, <1>2

-----------------------------------------------------------------------------
(* The operators. *)

\* A nonempty set of numbers below a bound has a highest one.
LEMMA HighestExists ==
    ASSUME NEW n \in Nat, NEW T \in SUBSET (0..n), T # {}
    PROVE  \E x \in T : \A y \in T : y =< x
  <1>. DEFINE Above(x) == x..n
              Sets == {Above(x) : x \in T}
  <1>1. Sets \subseteq FiniteSubsetsOf(0..n) /\ Sets # {}
    <2>1. FiniteSubsetsOf(0..n) = SUBSET (0..n)
      <3>1. IsFiniteSet(0..n)
        BY FS_Interval
      <3>. QED
        BY <3>1, FS_FiniteSubsetsOfFinite
    <2>2. \A x \in T : Above(x) \subseteq 0..n
      OBVIOUS
    <2>3. Sets \subseteq SUBSET (0..n)
      BY <2>2
    <2>4. Sets # {}
      <3>1. PICK x \in T : TRUE
        OBVIOUS
      <3>. QED
        BY <3>1
    <2>. QED
      BY <2>1, <2>3, <2>4
  <1>. HIDE DEF Sets
  <1>2. PICK s \in Sets :
            \A t \in Sets : ~(<<t, s>> \in StrictSubsetOrdering(0..n))
    BY <1>1, FS_StrictSubsetOrderingWellFounded, WFMin
  <1>3. PICK x \in T : s = Above(x)
    BY <1>2 DEF Sets
  <1>4. ASSUME NEW y \in T, x < y PROVE FALSE
    <2>1. Above(y) \in Sets
      BY DEF Sets
    <2>2. /\ Above(y) \subseteq Above(x) /\ Above(x) \subseteq 0..n
          /\ x \in Above(x) /\ x \notin Above(y)
      BY <1>4
    <2>3. <<Above(y), s>> \in StrictSubsetOrdering(0..n)
      BY <2>2, <1>3 DEF StrictSubsetOrdering
    <2>. QED
      BY <2>1, <2>3, <1>2
  <1>. QED
    BY <1>4

Less == {ss \in Nat \X Nat : ss[1] < ss[2]}

\* A nonempty set of numbers has a least one.
LEMMA LeastElement ==
    ASSUME NEW S \in SUBSET Nat, S # {}
    PROVE  \E x \in S : \A y \in S : x =< y
  <1>1. IsWellFoundedOn(Less, Nat)
    <2>1. Less = OpToRel(<, Nat)
      BY DEF Less, OpToRel
    <2>. QED
      BY <2>1, NatLessThanWellFounded
  <1>2. PICK x \in S : \A y \in S : <<y, x>> \notin Less
    BY <1>1, WFMin
  <1>3. \A y \in S : x =< y
    <2>. TAKE y \in S
    <2>1. y \in Nat /\ x \in Nat
      OBVIOUS
    <2>2. y < x => <<y, x>> \in Less
      BY <2>1 DEF Less
    <2>. QED
      BY <1>2, <2>1, <2>2
  <1>. QED
    BY <1>3

LEMMA SeqElement ==
    ASSUME NEW S, NEW s \in Seq(S), NEW k \in 1..Len(s)
    PROVE  s[k] \in S
  OBVIOUS

\* What LayoutAssumption says, in the form the steps use.
LEMMA Geometry ==
    /\ CardLen \in Nat \ {0} /\ CardHalf \in Nat \ {0}
    /\ CardLen = CardHalf + CardHalf
    /\ ProgramBlock \in Nat \ {0} /\ ProgramBlock =< CardLen
    /\ Align \in Nat \ {0} /\ Page \in Nat \ {0} /\ CardLen % Page = 0
    /\ Header \in Nat \ {0} /\ Header < ProgramBlock
    /\ SingleLoader \in Nat \ {0} /\ SingleLoader =< MultiLoader
    /\ TwoRomLoader \in Nat \ {0} /\ TwoRomLoader =< MultiLoader
    /\ MultiLoader \in Nat \ {0}
    /\ CardHalf + Align + MultiLoader =< CardLen
  BY LayoutAssumption

LEMMA RomTypes ==
    ASSUME NEW r \in RomFiles
    PROVE  /\ r.size \in Nat /\ Header < r.size /\ r.size =< CardLen
           /\ \A u \in r.data : u \in Nat /\ u < r.size
           /\ 0 \in r.data
  BY RomAssumption, Geometry

\* All data of a ROM lies below its meaningful end.
LEMMA MeaningfulEndSound ==
    ASSUME NEW r \in RomFiles
    PROVE  /\ MeaningfulEnd(r) \in Nat
           /\ Header =< MeaningfulEnd(r) /\ MeaningfulEnd(r) =< r.size
           /\ \A u \in r.data : u < MeaningfulEnd(r)
  <1>. DEFINE T == {e \in Header..r.size : e = Header \/ e - 1 \in r.data}
  <1>1. Header \in Nat \ {0} /\ r.size \in Nat /\ Header < r.size
        /\ \A u \in r.data : u \in Nat /\ u < r.size
    BY Geometry, RomTypes
  <1>2. T \in SUBSET (0..r.size) /\ Header \in T
    BY <1>1
  <1>3. T # {}
    BY <1>2
  <1>4. PICK x \in T : \A y \in T : y =< x
    BY <1>1, <1>2, <1>3, HighestExists
  <1>5. ASSUME NEW u \in r.data PROVE u < x
    <2>1. x \in Nat /\ Header =< x
      BY <1>1, <1>4
    <2>2. CASE u + 1 < Header
      BY <1>1, <2>1, <2>2
    <2>3. CASE ~(u + 1 < Header)
      <3>1. u + 1 \in T
        BY <1>1, <2>3
      <3>2. u + 1 =< x
        BY <1>4, <3>1
      <3>. QED
        BY <1>1, <2>1, <3>2
    <2>. QED
      BY <2>2, <2>3
  <1>6. IsMeaningfulEnd(r, x) /\ x \in Header..r.size
    BY <1>4, <1>5 DEF IsMeaningfulEnd
  <1>7. IsMeaningfulEnd(r, MeaningfulEnd(r))
    BY <1>6 DEF MeaningfulEnd
  <1>. QED
    BY <1>1, <1>7 DEF IsMeaningfulEnd

\* The size class of a ROM is one of the card's.
LEMMA SizeClassSound ==
    ASSUME NEW size \in Nat, size =< CardLen
    PROVE  /\ SizeClass(size) \in Nat \ {0}
           /\ size =< SizeClass(size) /\ SizeClass(size) =< CardLen
           /\ CardLen % SizeClass(size) = 0
           /\ SizeClass(size) % ProgramBlock = 0
  <1>. DEFINE T == {c \in SizeClasses : size =< c}
  <1>1. T \in SUBSET Nat /\ CardLen \in T
    BY LayoutAssumption
  <1>2. T # {}
    BY <1>1
  <1>3. PICK x \in T : \A y \in T : x =< y
    BY <1>1, <1>2, LeastElement
  <1>4. IsSizeClass(size, x) /\ x \in SizeClasses
    BY <1>3 DEF IsSizeClass
  <1>5. IsSizeClass(size, SizeClass(size))
    BY <1>4 DEF SizeClass
  <1>. QED
    BY <1>5, LayoutAssumption DEF IsSizeClass

\* A loader slot lies in erased space behind the header.
LEMMA SlotSound ==
    ASSUME NEW gap \in SUBSET Nat, \A u \in gap : Header =< u,
           NEW pad \in Nat, Align =< pad + 1,
           NEW need \in Nat \ {0}, NEW at, SlotAt(gap, pad, need, at)
    PROVE  /\ at \in Nat /\ Header =< at
           /\ \A u \in Nat : at =< u /\ u < at + need => u \in gap
  <1>1. PICK s \in gap :
            /\ at = ((s + pad) \div Align) * Align
            /\ s..(at + need - 1) \subseteq gap
    BY DEF SlotAt
  <1>2. s \in Nat /\ Header =< s /\ Header \in Nat /\ Align \in Nat \ {0}
    BY Geometry
  <1>. DEFINE d == ((s + pad) \div Align) * Align
  <1>3. s + pad \in Nat
    BY <1>2
  <1>4. d \in Nat /\ s + pad < d + Align
    BY <1>2, <1>3, RoundedDown
  <1>. HIDE DEF d
  <1>5. at = d
    BY <1>1 DEF d
  <1>6. s =< at
    BY <1>2, <1>4, <1>5
  <1>. QED
    BY <1>1, <1>2, <1>4, <1>5, <1>6

\* Copying a ROM changes only its extent, where its data can be read.
LEMMA OverlaidCells ==
    ASSUME NEW base \in [Units -> Cells], NEW k \in Nat, NEW r \in RomFiles,
           NEW start \in Nat, start + r.size =< CardLen
    PROVE  /\ Overlaid(base, k, r, start) \in [Units -> Cells]
           /\ \A j \in r.data :
                Overlaid(base, k, r, start)[start + j] = RomCell(k, j)
           /\ \A u \in Units : u < start \/ start + r.size =< u =>
                Overlaid(base, k, r, start)[u] = base[u]
  <1>1. /\ r.size \in Nat /\ CardLen \in Nat
        /\ \A j \in r.data : j \in Nat /\ j < r.size
    BY RomTypes, Geometry
  <1>2. \A j \in r.data : RomCell(k, j) \in Cells
    BY <1>1 DEF RomCell, Cells
  <1>3. Erased \in Cells
    BY DEF Erased, Cells
  <1>4. Overlaid(base, k, r, start) \in [Units -> Cells]
    BY <1>2, <1>3 DEF Overlaid
  <1>5. ASSUME NEW j \in r.data
        PROVE  Overlaid(base, k, r, start)[start + j] = RomCell(k, j)
    <2>1. start + j \in Units /\ start + j >= start
          /\ start + j < start + r.size /\ (start + j) - start = j
      BY <1>1 DEF Units
    <2>2. Overlaid(base, k, r, start)[start + j] =
            IF (start + j) - start \in r.data
            THEN RomCell(k, (start + j) - start) ELSE Erased
      BY <2>1, Zenon DEF Overlaid
    <2>. QED
      BY <2>1, <2>2, Zenon
  <1>6. ASSUME NEW u \in Units, u < start \/ start + r.size =< u
        PROVE  Overlaid(base, k, r, start)[u] = base[u]
    <2>1. ~(u >= start /\ u < start + r.size)
      BY <1>1, <1>6 DEF Units
    <2>. QED
      BY <2>1 DEF Overlaid
  <1>. QED
    BY <1>4, <1>5, <1>6

\* Placing the loader changes only its extent and the entry branch.
LEMMA LoadedCells ==
    ASSUME NEW base \in [Units -> Cells], NEW at \in Nat \ {0},
           NEW length \in Nat \ {0}, at + length =< CardLen
    PROVE  /\ Loaded(base, at, length) \in [Units -> Cells]
           /\ \A j \in 0..(length - 1) :
                Loaded(base, at, length)[at + j] = LoaderCell(j)
           /\ Loaded(base, at, length)[0] = PatchedCell(at)
           /\ \A u \in Units \ {0} : u < at \/ at + length =< u =>
                Loaded(base, at, length)[u] = base[u]
  <1>1. CardLen \in Nat
    BY Geometry
  <1>2. \A j \in Nat : LoaderCell(j) \in Cells /\ PatchedCell(j) \in Cells
    BY DEF LoaderCell, PatchedCell, Cells
  <1>3. Loaded(base, at, length) \in [Units -> Cells]
    <2>1. \A u \in Units : u >= at => u - at \in Nat
      BY <1>1 DEF Units
    <2>. QED
      BY <1>2, <2>1 DEF Loaded
  <1>4. ASSUME NEW j \in 0..(length - 1)
        PROVE  Loaded(base, at, length)[at + j] = LoaderCell(j)
    <2>1. at + j \in Units /\ at + j >= at /\ at + j < at + length
          /\ at + j - at = j
      BY <1>1 DEF Units
    <2>. QED
      BY <2>1 DEF Loaded
  <1>5. Loaded(base, at, length)[0] = PatchedCell(at)
    <2>1. 0 \in Units /\ ~(0 >= at)
      BY <1>1 DEF Units
    <2>. QED
      BY <2>1 DEF Loaded
  <1>6. ASSUME NEW u \in Units \ {0}, u < at \/ at + length =< u
        PROVE  Loaded(base, at, length)[u] = base[u]
    <2>1. ~(u >= at /\ u < at + length) /\ u # 0
      BY <1>1, <1>6 DEF Units
    <2>. QED
      BY <2>1 DEF Loaded
  <1>. QED
    BY <1>3, <1>4, <1>5, <1>6

LEMMA BlankCells == Blank \in [Units -> Cells]
  BY DEF Blank, Erased, Cells

-----------------------------------------------------------------------------
(* The invariant: what each phase of the builder may rely on. *)

InputSound ==
    /\ Len(input) > 0
    /\ direct = TRUE => Len(input) = 1

\* Every ROM lies within the card on its class's boundary, and begins where
\* the data of those before it has ended.
PlacedSound ==
    /\ \A k \in 1..Len(starts) :
        /\ starts[k] + order[k].size =< CardLen
        /\ starts[k] % SizeClass(order[k].size) = 0
        /\ k = 1 => starts[k] = 0
    /\ \A k, l \in 1..Len(starts) :
        k < l => starts[k] + MeaningfulEnd(order[k]) =< starts[l]

CursorBehind ==
    bpc = "place" =>
        \A k \in 1..Len(starts) : starts[k] + MeaningfulEnd(order[k]) =< cursor

Fresh ==
    /\ bpc \in {"start", "place"} =>
        copied = 0 /\ image = Blank /\ occupied = {}
    /\ bpc = "start" => order = <<>> /\ starts = <<>> /\ cursor = 0

Several == bpc \in {"place", "copy"} => direct = FALSE /\ Len(order) > 1

CopiedSound ==
    bpc = "copy" =>
        /\ Len(starts) = Len(order)
        /\ \A k \in 1..Len(order) : starts[k] + order[k].size =< len
        /\ \A k \in 1..copied : \A j \in order[k].data :
            image[starts[k] + j] = RomCell(k, j)
        /\ \A u \in occupied : \E k \in 1..copied :
            \E j \in order[k].data : u = starts[k] + j
        /\ \A u \in Units : len =< u => image[u] = Erased

Kept(k, j) ==
    IF k = 1 /\ j = 0 /\ direct = FALSE THEN PatchedCell(loader)
    ELSE RomCell(k, j)

LoaderWhole(length) ==
    /\ Header =< loader /\ loader + length =< len
    /\ \A j \in 0..(length - 1) : image[loader + j] = LoaderCell(j)

FinishedSound ==
    bpc \in {"finish", "built"} =>
        /\ Len(starts) = Len(order)
        /\ \A k \in 1..Len(order) : \A j \in order[k].data :
            image[starts[k] + j] = Kept(k, j)
        /\ direct = FALSE => LoaderWhole(LoaderLength)
        /\ \A u \in Units : len =< u => image[u] = Erased

Programmed == bpc = "built" => ProgramBlock =< len /\ len % Page = 0

BuildInv ==
    /\ BuildTypeOK /\ InputSound /\ PlacedSound /\ CursorBehind /\ Fresh
    /\ Several /\ CopiedSound /\ FinishedSound /\ Programmed
    /\ reason # "overlap"

-----------------------------------------------------------------------------
(* What the invariant says of one ROM. *)

LEMMA TrueOrFalse ==
    ASSUME NEW b \in BOOLEAN
    PROVE  b = TRUE \/ b = FALSE
  OBVIOUS

LEMMA Sequences ==
    ASSUME BuildTypeOK
    PROVE  /\ input \in Seq(RomFiles) /\ Len(input) \in Nat
           /\ order \in Seq(RomFiles) /\ Len(order) \in Nat
           /\ starts \in Seq(Units) /\ Len(starts) \in Nat
           /\ Len(starts) =< Len(order)
           /\ \A k \in 1..Len(order) : order[k] \in RomFiles
           /\ \A k \in 1..Len(starts) : k \in 1..Len(order)
  <1>1. /\ input \in Seq(RomFiles) /\ order \in Seq(RomFiles)
        /\ starts \in Seq(Units) /\ Len(starts) =< Len(order)
    BY Zenon DEF BuildTypeOK
  <1>. QED
    BY <1>1, SeqElement

LEMMA InvParts ==
    ASSUME BuildInv
    PROVE  /\ BuildTypeOK /\ InputSound /\ PlacedSound /\ CursorBehind /\ Fresh
           /\ Several /\ CopiedSound /\ FinishedSound /\ Programmed
           /\ reason # "overlap"
  BY Zenon DEF BuildInv

LEMMA PlacedRom ==
    ASSUME BuildTypeOK, PlacedSound, NEW k \in 1..Len(starts)
    PROVE  /\ order[k] \in RomFiles /\ starts[k] \in Nat
           /\ starts[k] = 0 => k = 1
           /\ k = 1 => starts[k] = 0
           /\ \A j \in order[k].data :
                /\ j \in Nat /\ starts[k] + j \in Units
                /\ starts[k] + j < starts[k] + MeaningfulEnd(order[k])
                /\ starts[k] + j < starts[k] + order[k].size
  <1>1. order[k] \in RomFiles
    BY Sequences
  <1>2. starts[k] \in Nat /\ CardLen \in Nat
    <2>1. starts[k] \in Units
      BY Sequences, SeqElement
    <2>. QED
      BY <2>1, Geometry DEF Units
  <1>3. starts[k] + order[k].size =< CardLen /\ (k = 1 => starts[k] = 0)
    BY DEF PlacedSound
  <1>4. ASSUME k # 1 PROVE starts[k] # 0
    <2>1. 1 \in 1..Len(starts) /\ 1 < k
      BY <1>4
    <2>2. starts[1] = 0 /\ starts[1] + MeaningfulEnd(order[1]) =< starts[k]
      BY <2>1 DEF PlacedSound
    <2>3. order[1] \in RomFiles
      BY <2>1, Sequences
    <2>4. MeaningfulEnd(order[1]) \in Nat /\ Header \in Nat \ {0}
          /\ Header =< MeaningfulEnd(order[1])
      BY <2>3, MeaningfulEndSound, Geometry
    <2>. QED
      BY <1>2, <2>2, <2>4
  <1>5. ASSUME NEW j \in order[k].data
        PROVE  /\ j \in Nat /\ starts[k] + j \in Units
               /\ starts[k] + j < starts[k] + MeaningfulEnd(order[k])
               /\ starts[k] + j < starts[k] + order[k].size
    <2>1. /\ j \in Nat /\ j < order[k].size /\ j < MeaningfulEnd(order[k])
          /\ MeaningfulEnd(order[k]) \in Nat /\ order[k].size \in Nat
      BY <1>1, RomTypes, MeaningfulEndSound
    <2>. QED
      BY <1>2, <1>3, <2>1 DEF Units
  <1>. QED
    BY <1>1, <1>2, <1>3, <1>4, <1>5

-----------------------------------------------------------------------------
(* Every step keeps the invariant. *)

LEMMA InitStep == BuildInit => BuildInv
  <1>. SUFFICES ASSUME BuildInit PROVE BuildInv
    OBVIOUS
  <1>1. CardLen \in Nat \ {0}
    BY Geometry
  <1>2. BuildTypeOK
    <2>1. image \in [Units -> Cells]
      BY BlankCells DEF BuildInit
    <2>2. order = <<>> /\ starts = <<>> /\ loader = 0 /\ len = 0 /\ cursor = 0
          /\ copied = 0 /\ occupied = {} /\ bpc = "start" /\ reason = "none"
          /\ input \in Seq(RomFiles) /\ direct \in BOOLEAN
      BY DEF BuildInit
    <2>. QED
      BY <1>1, <2>1, <2>2 DEF BuildTypeOK, Units
  <1>3. InputSound
    BY Zenon DEF InputSound, BuildInit
  <1>4. /\ PlacedSound /\ CursorBehind /\ Fresh /\ Several /\ CopiedSound
        /\ FinishedSound /\ Programmed /\ reason # "overlap"
    BY DEF BuildInit, PlacedSound, CursorBehind, Fresh, Several, CopiedSound,
           FinishedSound, Programmed
  <1>. QED
    BY <1>2, <1>3, <1>4 DEF BuildInv

LEMMA SortStep ==
    ASSUME BuildInv, SortRoms
    PROVE  BuildInv'
  <1>1. /\ input \in Seq(RomFiles) /\ Len(input) \in Nat /\ Len(input) > 1
        /\ bpc = "start" /\ bpc' = "place" /\ BuildTypeOK /\ starts = <<>>
        /\ cursor = 0 /\ copied = 0 /\ image = Blank /\ occupied = {}
        /\ InputSound
    <2>1. BuildTypeOK /\ InputSound /\ Fresh
      BY InvParts
    <2>2. bpc = "start" /\ bpc' = "place" /\ Len(input) > 1
      BY Zenon DEF SortRoms
    <2>. QED
      BY <2>1, <2>2, Sequences DEF Fresh
  <1>2. /\ starts' = starts /\ cursor' = cursor /\ copied' = copied
        /\ image' = image /\ occupied' = occupied /\ input' = input
        /\ direct' = direct /\ len' = len /\ loader' = loader
        /\ reason' = reason
    BY DEF SortRoms
  <1>3. order' \in Seq(RomFiles) /\ Len(order') = Len(input)
    <2>1. PICK f \in [DOMAIN input -> DOMAIN input] :
              order' = [p \in DOMAIN input |-> input[f[p]]]
      BY DEF SortRoms
    <2>2. DOMAIN input = 1..Len(input)
      BY <1>1
    <2>3. \A p \in 1..Len(input) : input[f[p]] \in RomFiles
      BY <1>1, <2>1, <2>2
    <2>4. order' = [p \in 1..Len(input) |-> input[f[p]]]
      BY <2>1, <2>2
    <2>. QED
      BY <1>1, <2>3, <2>4
  <1>4. direct = FALSE
    <2>1. Len(input) # 1
      <3>. DEFINE n == Len(input)
      <3>1. n \in Nat /\ n > 1
        BY <1>1, Zenon
      <3>. HIDE DEF n
      <3>2. n # 1
        BY <3>1
      <3>. QED
        BY <3>2 DEF n
    <2>2. direct = TRUE => Len(input) = 1
      BY <1>1, Zenon DEF InputSound
    <2>3. direct \in BOOLEAN
      BY <1>1, Zenon DEF BuildTypeOK
    <2>. QED
      BY <2>1, <2>2, <2>3, TrueOrFalse, Zenon
  <1>5. BuildTypeOK'
    <2>1. (input \in Seq(RomFiles) /\ direct \in BOOLEAN)'
      BY <1>1, <1>2, Zenon DEF BuildTypeOK
    <2>2. /\ (cursor \in 0..CardLen)' /\ (starts \in Seq(Units))'
          /\ (image \in [Units -> Cells])' /\ (len \in 0..CardLen)'
          /\ (occupied \subseteq Units)' /\ (loader \in Units)'
          /\ (reason \in {"none", "no room", "overlap"})'
      BY <1>1, <1>2, Zenon DEF BuildTypeOK
    <2>3. /\ (copied \in 0..Len(order))' /\ (Len(starts) =< Len(order))'
          /\ bpc' \in {"off", "start", "place", "copy", "loader",
                       "finish", "built", "rejected"}
      BY <1>1, <1>2, <1>3
    <2>. QED
      BY <1>3, <2>1, <2>2, <2>3, Zenon DEF BuildTypeOK
  <1>6. (reason # "overlap")' /\ InputSound'
    BY <1>1, <1>2, InvParts, Zenon DEF InputSound
  <1>7. PlacedSound' /\ CursorBehind' /\ Fresh'
    BY <1>1, <1>2 DEF PlacedSound, CursorBehind, Fresh
  <1>8. Several' /\ CopiedSound' /\ FinishedSound' /\ Programmed'
    BY <1>1, <1>2, <1>3, <1>4 DEF Several, CopiedSound, FinishedSound, Programmed
  <1>. QED
    BY <1>5, <1>6, <1>7, <1>8 DEF BuildInv

\* A step that leaves the placement alone keeps what is known of it.
LEMMA PlacedKept ==
    ASSUME PlacedSound, starts' = starts, order' = order
    PROVE  PlacedSound'
  BY DEF PlacedSound

LEMMA InputKept ==
    ASSUME InputSound, input' = input, direct' = direct
    PROVE  InputSound'
  BY Zenon DEF InputSound

\* A rejected build has nothing left to show but its types.
LEMMA RejectedSound ==
    ASSUME bpc' = "rejected"
    PROVE  /\ CursorBehind' /\ Fresh' /\ Several' /\ CopiedSound'
           /\ FinishedSound' /\ Programmed'
  BY DEF CursorBehind, Fresh, Several, CopiedSound, FinishedSound, Programmed

LEMMA PlaceStep ==
    ASSUME BuildInv, PlaceRom
    PROVE  BuildInv'
  <1>. DEFINE n == Len(starts) + 1
              r == order[n]
              start == NextStart(r)
  <1>1. /\ BuildTypeOK /\ InputSound /\ PlacedSound /\ CursorBehind /\ Fresh
        /\ Several
    BY InvParts
  <1>2. /\ bpc = "place" /\ Len(starts) < Len(order)
        /\ input' = input /\ direct' = direct /\ order' = order
        /\ copied' = copied /\ image' = image /\ len' = len
        /\ occupied' = occupied /\ loader' = loader
    BY Zenon DEF PlaceRom, RomCount
  <1>3. \/ /\ start + r.size > CardLen
           /\ bpc' = "rejected" /\ reason' = "no room"
           /\ cursor' = cursor /\ starts' = starts
        \/ /\ ~(start + r.size > CardLen)
           /\ starts' = Append(starts, start)
           /\ cursor' = CursorAfter(start, r)
           /\ bpc' = bpc /\ reason' = reason
    BY DEF PlaceRom, Reject
  <1>4. /\ n \in 1..Len(order) /\ r \in RomFiles
        /\ Len(starts) \in Nat /\ Len(order) \in Nat
        /\ starts \in Seq(Units) /\ cursor \in 0..CardLen
    <2>1. cursor \in 0..CardLen
      BY <1>1, Zenon DEF BuildTypeOK
    <2>. QED
      BY <1>1, <1>2, <2>1, Sequences
  <1>5. /\ r.size \in Nat /\ Header < r.size /\ r.size =< CardLen
        /\ CardLen \in Nat /\ Header \in Nat
        /\ SizeClass(r.size) \in Nat \ {0}
        /\ MeaningfulEnd(r) \in Nat /\ MeaningfulEnd(r) =< r.size
    BY <1>4, RomTypes, Geometry, SizeClassSound, MeaningfulEndSound
  <1>. HIDE DEF r, n
  <1>6. /\ start \in Nat /\ start % SizeClass(r.size) = 0
        /\ starts # <<>> => cursor =< start
        /\ starts = <<>> => start = 0
    <2>1. CASE starts = <<>>
      <3>1. start = 0
        BY <2>1 DEF NextStart
      <3>2. (SizeClass(r.size) * 0) % SizeClass(r.size) = 0
        BY <1>5, ProductMod
      <3>3. SizeClass(r.size) * 0 = 0
        BY <1>5
      <3>. QED
        BY <2>1, <3>1, <3>2, <3>3
    <2>2. CASE starts # <<>>
      <3>. DEFINE c == SizeClass(r.size)
      <3>1. start = AlignUp(cursor, c)
        BY <2>2 DEF NextStart
      <3>2. cursor \in Nat /\ c \in Nat \ {0}
        BY <1>4, <1>5
      <3>. HIDE DEF c, start
      <3>3. /\ AlignUp(cursor, c) \in Nat /\ cursor =< AlignUp(cursor, c)
            /\ AlignUp(cursor, c) % c = 0
        BY <3>2, AlignUpFacts
      <3>. QED
        BY <2>2, <3>1, <3>3, Zenon DEF c
    <2>. QED
      BY <2>1, <2>2
  <1>. HIDE DEF start
  <1>7. \A k \in 1..Len(starts) :
            /\ starts[k] \in Nat /\ order[k] \in RomFiles
            /\ MeaningfulEnd(order[k]) \in Nat
            /\ starts[k] + MeaningfulEnd(order[k]) =< cursor
    BY <1>1, <1>2, PlacedRom, MeaningfulEndSound DEF CursorBehind
  <1>8. InputSound'
    BY <1>1, <1>2, InputKept
  <1>9. CASE start + r.size > CardLen
    <2>1. /\ bpc' = "rejected" /\ reason' = "no room"
          /\ cursor' = cursor /\ starts' = starts
      BY <1>3, <1>9
    <2>2. PlacedSound'
      BY <1>1, <1>2, <2>1, PlacedKept
    <2>3. BuildTypeOK'
      BY <1>1, <1>2, <2>1, Zenon DEF BuildTypeOK
    <2>. QED
      BY <1>8, <2>1, <2>2, <2>3, RejectedSound DEF BuildInv
  <1>10. CASE ~(start + r.size > CardLen)
    <2>1. /\ starts' = Append(starts, start) /\ cursor' = CursorAfter(start, r)
          /\ bpc' = bpc /\ reason' = reason
      BY <1>3, <1>10
    <2>2. /\ cursor' \in 0..CardLen /\ cursor =< cursor'
          /\ start + MeaningfulEnd(r) =< cursor'
      BY <1>4, <1>5, <1>6, <1>10, <2>1 DEF CursorAfter, Higher
    <2>3. /\ starts' \in Seq(Units) /\ Len(starts') = n
          /\ \A k \in 1..Len(starts) : starts'[k] = starts[k]
          /\ starts'[n] = start
      <3>1. start \in Units
        BY <1>5, <1>6, <1>10 DEF Units
      <3>. QED
        BY <1>4, <2>1, <3>1 DEF n
    <2>4. \A k \in 1..n : k \in 1..Len(starts) \/ k = n
      BY <1>4 DEF n
    <2>5. BuildTypeOK'
      <3>1. Len(starts') =< Len(order')
        BY <1>2, <1>4, <2>3
      <3>. QED
        BY <1>1, <1>2, <2>1, <2>2, <2>3, <3>1, Zenon DEF BuildTypeOK
    <2>6. PlacedSound'
      <3>1. ASSUME NEW k \in 1..n
            PROVE  /\ starts'[k] + order[k].size =< CardLen
                   /\ starts'[k] % SizeClass(order[k].size) = 0
                   /\ k = 1 => starts'[k] = 0
        <4>1. CASE k \in 1..Len(starts)
          BY <1>1, <2>3, <4>1 DEF PlacedSound
        <4>2. CASE k = n
          <5>1. n = 1 => starts = <<>>
            BY <1>4 DEF n
          <5>. QED
            BY <1>5, <1>6, <1>10, <2>3, <4>2, <5>1 DEF r
        <4>. QED
          BY <2>4, <4>1, <4>2
      <3>2. ASSUME NEW k \in 1..n, NEW l \in 1..n, k < l
            PROVE  starts'[k] + MeaningfulEnd(order[k]) =< starts'[l]
        <4>1. k \in 1..Len(starts) /\ starts # <<>>
          BY <1>4, <3>2 DEF n
        <4>2. CASE l \in 1..Len(starts)
          BY <1>1, <2>3, <3>2, <4>1, <4>2 DEF PlacedSound
        <4>3. CASE l = n
          BY <1>4, <1>6, <1>7, <2>3, <4>1, <4>3
        <4>. QED
          BY <2>4, <4>2, <4>3
      <3>. QED
        BY <1>2, <2>3, <3>1, <3>2 DEF PlacedSound
    <2>7. CursorBehind'
      <3>1. ASSUME NEW k \in 1..n
            PROVE  starts'[k] + MeaningfulEnd(order[k]) =< cursor'
        <4>1. CASE k \in 1..Len(starts)
          BY <1>4, <1>7, <2>2, <2>3, <4>1
        <4>2. CASE k = n
          BY <2>2, <2>3, <4>2 DEF r
        <4>. QED
          BY <2>4, <4>1, <4>2
      <3>. QED
        BY <1>2, <2>3, <3>1 DEF CursorBehind
    <2>8. Fresh' /\ Several'
      BY <1>1, <1>2, <2>1, Zenon DEF Fresh, Several
    <2>9. CopiedSound' /\ FinishedSound' /\ Programmed'
      BY <1>2, <2>1 DEF CopiedSound, FinishedSound, Programmed
    <2>. QED
      BY <1>8, <2>1, <2>5, <2>6, <2>7, <2>8, <2>9, InvParts, Zenon DEF BuildInv
  <1>. QED
    BY <1>9, <1>10

LEMMA AllPlacedStep ==
    ASSUME BuildInv, AllPlaced
    PROVE  BuildInv'
  <1>1. /\ BuildTypeOK /\ InputSound /\ PlacedSound /\ Fresh /\ Several
        /\ reason # "overlap"
    BY InvParts
  <1>2. /\ bpc = "place" /\ Len(starts) = Len(order) /\ bpc' = "copy"
        /\ input' = input /\ direct' = direct /\ order' = order
        /\ starts' = starts /\ cursor' = cursor /\ copied' = copied
        /\ image' = image /\ occupied' = occupied /\ loader' = loader
        /\ reason' = reason
    BY Zenon DEF AllPlaced, RomCount, layout
  <1>3. PICK e \in 1..CardLen : IsImageEnd(e) /\ len' = e
    BY Zenon DEF AllPlaced
  <1>4. copied = 0 /\ image = Blank /\ occupied = {}
    BY <1>1, <1>2, Zenon DEF Fresh
  <1>5. BuildTypeOK'
    <2>1. len' \in 0..CardLen
      BY <1>3, Geometry
    <2>. QED
      BY <1>1, <1>2, <2>1, Zenon DEF BuildTypeOK
  <1>6. InputSound' /\ PlacedSound'
    BY <1>1, <1>2, InputKept, PlacedKept
  <1>7. CursorBehind' /\ Fresh' /\ FinishedSound' /\ Programmed'
    BY <1>2 DEF CursorBehind, Fresh, FinishedSound, Programmed
  <1>8. Several'
    BY <1>1, <1>2, Zenon DEF Several
  <1>9. CopiedSound'
    <2>1. \A k \in 1..Len(order) : starts[k] + order[k].size =< len'
      BY <1>3 DEF IsImageEnd, RomCount
    <2>2. \A u \in Units : image[u] = Erased
      BY <1>4 DEF Blank
    <2>3. 1..0 = {}
      OBVIOUS
    <2>. QED
      BY <1>2, <1>4, <2>1, <2>2, <2>3, Zenon DEF CopiedSound
  <1>. QED
    BY <1>1, <1>2, <1>5, <1>6, <1>7, <1>8, <1>9, Zenon DEF BuildInv

LEMMA CopyStep ==
    ASSUME BuildInv, CopyRom
    PROVE  BuildInv'
  <1>. DEFINE k == copied + 1
              r == order[k]
              target == {starts[k] + j : j \in r.data}
  <1>1. /\ BuildTypeOK /\ InputSound /\ PlacedSound /\ Several /\ CopiedSound
        /\ reason # "overlap"
    BY InvParts
  <1>2. /\ bpc = "copy" /\ copied < Len(order)
        /\ input' = input /\ direct' = direct /\ order' = order
        /\ starts' = starts /\ cursor' = cursor /\ len' = len
        /\ loader' = loader
    BY Zenon DEF CopyRom, RomCount, layout
  <1>3. \/ target \cap occupied # {}
        \/ /\ image' = Overlaid(image, k, r, starts[k])
           /\ occupied' = occupied \cup target
           /\ copied' = k /\ bpc' = bpc /\ reason' = reason
    BY DEF CopyRom
  <1>4. /\ copied \in Nat /\ Len(starts) = Len(order) /\ Len(order) \in Nat
        /\ k \in 1..Len(starts) /\ k \in 1..Len(order) /\ k \in Nat
        /\ image \in [Units -> Cells] /\ occupied \subseteq Units
    <2>1. /\ copied \in 0..Len(order) /\ image \in [Units -> Cells]
          /\ occupied \subseteq Units
      BY <1>1, Zenon DEF BuildTypeOK
    <2>2. Len(starts) = Len(order)
      BY <1>1, <1>2, Zenon DEF CopiedSound
    <2>. QED
      BY <1>1, <1>2, <2>1, <2>2, Sequences
  <1>. HIDE DEF k
  <1>5. /\ r \in RomFiles /\ starts[k] \in Nat
        /\ \A j \in r.data :
            /\ j \in Nat /\ starts[k] + j \in Units
            /\ starts[k] + j < starts[k] + r.size
    BY <1>1, <1>4, PlacedRom
  <1>6. /\ starts[k] + r.size =< len /\ starts[k] + r.size =< CardLen
        /\ r.size \in Nat /\ len \in Nat /\ CardLen \in Nat
    <2>1. starts[k] + r.size =< len
      BY <1>1, <1>2, <1>4 DEF CopiedSound
    <2>2. starts[k] + r.size =< CardLen
      BY <1>1, <1>4 DEF PlacedSound
    <2>3. len \in 0..CardLen
      BY <1>1, Zenon DEF BuildTypeOK
    <2>. QED
      BY <1>5, <2>1, <2>2, <2>3, RomTypes, Geometry
  \* The data of the ROMs copied before ends where this one begins.
  <1>7. ASSUME NEW p \in 1..copied, NEW j \in order[p].data
        PROVE  starts[p] + j \in Units /\ starts[p] + j < starts[k]
    <2>1. p \in 1..Len(starts) /\ p < k
      BY <1>4 DEF k
    <2>2. /\ starts[p] + j \in Units /\ order[p] \in RomFiles
          /\ starts[p] \in Nat /\ j \in Nat
          /\ starts[p] + j < starts[p] + MeaningfulEnd(order[p])
      BY <1>1, <2>1, PlacedRom
    <2>3. starts[p] + MeaningfulEnd(order[p]) =< starts[k]
      BY <1>1, <1>4, <2>1 DEF PlacedSound
    <2>4. MeaningfulEnd(order[p]) \in Nat
      BY <2>2, MeaningfulEndSound
    <2>. QED
      BY <1>5, <2>2, <2>3, <2>4
  <1>. HIDE DEF r, target
  <1>8. target \cap occupied = {}
    <2>1. SUFFICES ASSUME NEW u \in target, u \in occupied PROVE FALSE
      OBVIOUS
    <2>2. PICK j \in r.data : u = starts[k] + j
      BY <2>1 DEF target
    <2>3. PICK p \in 1..copied : \E i \in order[p].data : u = starts[p] + i
      BY <1>1, <1>2, <2>1 DEF CopiedSound
    <2>4. u < starts[k] /\ u \in Nat
      BY <1>7, <2>3, Geometry DEF Units
    <2>. QED
      BY <1>5, <2>2, <2>4
  <1>9. /\ image' = Overlaid(image, k, r, starts[k])
        /\ occupied' = occupied \cup target
        /\ copied' = k /\ bpc' = bpc /\ reason' = reason
    BY <1>3, <1>8
  <1>10. /\ image' \in [Units -> Cells]
         /\ \A j \in r.data : image'[starts[k] + j] = RomCell(k, j)
         /\ \A u \in Units : u < starts[k] \/ starts[k] + r.size =< u =>
                image'[u] = image[u]
    BY <1>4, <1>5, <1>6, <1>9, OverlaidCells
  <1>11. BuildTypeOK'
    <2>1. occupied' \subseteq Units
      BY <1>4, <1>5, <1>9 DEF target
    <2>2. copied' \in 0..Len(order')
      BY <1>2, <1>4, <1>9
    <2>. QED
      BY <1>1, <1>2, <1>9, <1>10, <2>1, <2>2, Zenon DEF BuildTypeOK
  <1>12. InputSound' /\ PlacedSound'
    BY <1>1, <1>2, InputKept, PlacedKept
  <1>13. CursorBehind' /\ Fresh' /\ FinishedSound' /\ Programmed'
    BY <1>2, <1>9 DEF CursorBehind, Fresh, FinishedSound, Programmed
  <1>14. Several'
    BY <1>1, <1>2, <1>9, Zenon DEF Several
  <1>15. CopiedSound'
    <2>1. \A p \in 1..k : p \in 1..copied \/ p = k
      BY <1>4 DEF k
    <2>2. ASSUME NEW p \in 1..k, NEW j \in order[p].data
          PROVE  image'[starts[p] + j] = RomCell(p, j)
      <3>1. CASE p \in 1..copied
        BY <1>1, <1>2, <1>7, <1>10, <3>1 DEF CopiedSound
      <3>2. CASE p = k
        BY <1>10, <3>2 DEF r
      <3>. QED
        BY <2>1, <3>1, <3>2
    <2>3. ASSUME NEW u \in occupied'
          PROVE  \E p \in 1..k : \E j \in order[p].data : u = starts[p] + j
      <3>1. CASE u \in occupied
        <4>1. 1..copied \subseteq 1..k
          BY <1>4 DEF k
        <4>. QED
          BY <1>1, <1>2, <3>1, <4>1 DEF CopiedSound
      <3>2. CASE u \in target
        <4>1. k \in 1..k
          BY <1>4
        <4>. QED
          BY <3>2, <4>1 DEF target, r
      <3>. QED
        BY <1>9, <2>3, <3>1, <3>2
    <2>4. ASSUME NEW u \in Units, len =< u PROVE image'[u] = Erased
      <3>1. starts[k] + r.size =< u
        BY <1>5, <1>6, <2>4 DEF Units
      <3>. QED
        BY <1>1, <1>2, <1>10, <2>4, <3>1 DEF CopiedSound
    <2>5. \A p \in 1..Len(order) : starts[p] + order[p].size =< len
      BY <1>1, <1>2, Zenon DEF CopiedSound
    <2>. QED
      BY <1>2, <1>4, <1>9, <2>2, <2>3, <2>4, <2>5, Zenon DEF CopiedSound
  <1>. QED
    BY <1>1, <1>9, <1>11, <1>12, <1>13, <1>14, <1>15, Zenon DEF BuildInv

LEMMA CellsDiffer ==
    ASSUME NEW k, NEW j
    PROVE  RomCell(k, j) # Erased
  BY DEF RomCell, Erased

LEMMA MultiLengthSound ==
    MultiLength \in Nat \ {0} /\ MultiLength =< MultiLoader
  BY Geometry DEF MultiLength

\* Where the loader of several ROMs goes is erased, and behind the first header.
LEMMA MultiSlotSound ==
    ASSUME BuildTypeOK, Several, CopiedSound, bpc = "copy", copied = Len(order),
           NEW at \in 0..(CardLen + Align), MultiLoaderAt(at),
           at + MultiLength =< CardLen
    PROVE  /\ at \in Nat /\ Header =< at
           /\ \A u \in Units : at =< u /\ u < at + MultiLength => image[u] = Erased
  <1>. DEFINE gap == ErasedBelow(len)
  <1>1. /\ CardLen \in Nat /\ Align \in Nat \ {0} /\ Header \in Nat \ {0}
        /\ MultiLength \in Nat \ {0} /\ at \in Nat
    BY Geometry, MultiLengthSound
  <1>2. len \in Nat
    <2>1. len \in 0..CardLen
      BY Zenon DEF BuildTypeOK
    <2>. QED
      BY <2>1, <1>1
  <1>3. Header < len
    <2>1. 1 \in 1..Len(order) /\ 1 \in 1..Len(starts)
      <3>. DEFINE n == Len(order)
      <3>1. n > 1 /\ n = Len(starts) /\ n \in Nat
        BY Sequences, Zenon DEF Several, CopiedSound
      <3>. HIDE DEF n
      <3>2. 1 \in 1..n
        BY <3>1
      <3>. QED
        BY <3>1, <3>2 DEF n
    <2>2. starts[1] + order[1].size =< len
      BY <2>1 DEF CopiedSound
    <2>3. order[1] \in RomFiles /\ starts[1] \in Nat
      <3>1. starts[1] \in Units
        BY <2>1, Sequences, SeqElement
      <3>. QED
        BY <2>1, <3>1, <1>1, Sequences DEF Units
    <2>4. order[1].size \in Nat /\ Header < order[1].size
      BY <2>3, RomTypes
    <2>. QED
      BY <1>1, <1>2, <2>2, <2>3, <2>4
  <1>4. CASE HasSlot(gap, UpPad, MultiLength)
    <2>1. SlotAt(gap, UpPad, MultiLength, at)
      BY <1>4 DEF MultiLoaderAt, IsFirstSlot
    <2>2. gap \in SUBSET Nat /\ \A u \in gap : Header =< u /\ image[u] = Erased
      BY <1>1, <1>2 DEF ErasedBelow
    <2>3. UpPad \in Nat /\ Align =< UpPad + 1
      BY <1>1 DEF UpPad
    <2>. HIDE DEF gap
    <2>4. /\ Header =< at
          /\ \A u \in Nat : at =< u /\ u < at + MultiLength => u \in gap
      BY <1>1, <2>1, <2>2, <2>3, SlotSound
    <2>. QED
      BY <1>1, <2>2, <2>4 DEF Units
  <1>5. CASE ~HasSlot(gap, UpPad, MultiLength)
    <2>1. at = AlignUp(len, Align)
      BY <1>5 DEF MultiLoaderAt
    <2>2. AlignUp(len, Align) \in Nat /\ len =< AlignUp(len, Align)
      BY <1>1, <1>2, AlignUpFacts
    <2>3. len =< at
      BY <2>1, <2>2
    <2>4. \A u \in Units : at =< u => image[u] = Erased
      BY <1>1, <1>2, <2>3 DEF CopiedSound, Units
    <2>. QED
      BY <1>1, <1>2, <1>3, <2>3, <2>4
  <1>. QED
    BY <1>4, <1>5

LEMMA LoaderStep ==
    ASSUME BuildInv, PlaceLoader
    PROVE  BuildInv'
  <1>1. /\ BuildTypeOK /\ InputSound /\ PlacedSound /\ Several /\ CopiedSound
        /\ reason # "overlap"
    BY InvParts
  <1>2. /\ bpc = "copy" /\ copied = Len(order)
        /\ input' = input /\ direct' = direct /\ order' = order
        /\ starts' = starts /\ cursor' = cursor /\ copied' = copied
        /\ occupied' = occupied
    BY Zenon DEF PlaceLoader, RomCount, layout
  <1>3. PICK at \in 0..(CardLen + Align) :
            /\ MultiLoaderAt(at)
            /\ IF at + MultiLength > CardLen
               THEN Reject("no room") /\ UNCHANGED <<image, len, loader>>
               ELSE IF at..(at + MultiLength - 1) \cap occupied # {}
               THEN Reject("overlap") /\ UNCHANGED <<image, len, loader>>
               ELSE /\ loader' = at
                    /\ len' = Higher(len, at + MultiLength)
                    /\ image' = Loaded(image, at, MultiLength)
                    /\ bpc' = "finish" /\ UNCHANGED reason
    BY DEF PlaceLoader
  <1>4. InputSound' /\ PlacedSound'
    BY <1>1, <1>2, InputKept, PlacedKept
  <1>5. CASE at + MultiLength > CardLen
    <2>1. /\ bpc' = "rejected" /\ reason' = "no room"
          /\ image' = image /\ len' = len /\ loader' = loader
      BY <1>3, <1>5 DEF Reject
    <2>2. BuildTypeOK'
      BY <1>1, <1>2, <2>1, Zenon DEF BuildTypeOK
    <2>. QED
      BY <1>4, <2>1, <2>2, RejectedSound DEF BuildInv
  <1>6. CASE ~(at + MultiLength > CardLen)
    <2>1. /\ CardLen \in Nat /\ Header \in Nat \ {0}
          /\ MultiLength \in Nat \ {0} /\ at \in Nat /\ Align \in Nat
          /\ at + MultiLength =< CardLen
      <3>1. /\ CardLen \in Nat /\ Header \in Nat \ {0} /\ Align \in Nat
            /\ MultiLength \in Nat \ {0} /\ at \in Nat
        BY Geometry, MultiLengthSound
      <3>. QED
        BY <3>1, <1>6
    <2>2. /\ Header =< at
          /\ \A u \in Units : at =< u /\ u < at + MultiLength => image[u] = Erased
      BY <1>1, <1>2, <1>3, <2>1, MultiSlotSound
    <2>3. /\ image \in [Units -> Cells] /\ len \in 0..CardLen
          /\ occupied \subseteq Units
      BY <1>1, Zenon DEF BuildTypeOK
    <2>4. Len(starts) = Len(order) /\ Len(order) > 1 /\ direct = FALSE
      BY <1>1, <1>2, Zenon DEF CopiedSound, Several
    <2>5. ASSUME NEW k \in 1..Len(order), NEW j \in order[k].data
          PROVE  /\ starts[k] + j \in Units /\ j \in Nat
                 /\ starts[k] + j < at \/ at + MultiLength =< starts[k] + j
                 /\ starts[k] + j = 0 <=> k = 1 /\ j = 0
                 /\ image[starts[k] + j] = RomCell(k, j)
      <3>1. k \in 1..Len(starts) /\ k \in 1..copied
        BY <1>2, <2>4
      <3>2. /\ starts[k] + j \in Units /\ starts[k] \in Nat /\ j \in Nat
            /\ starts[k] = 0 <=> k = 1
        BY <1>1, <3>1, PlacedRom
      <3>3. image[starts[k] + j] = RomCell(k, j)
        BY <1>1, <1>2, <3>1 DEF CopiedSound
      <3>4. ~(at =< starts[k] + j /\ starts[k] + j < at + MultiLength)
        BY <2>2, <3>2, <3>3, CellsDiffer, Zenon
      <3>. QED
        BY <2>1, <3>2, <3>3, <3>4
    <2>6. at..(at + MultiLength - 1) \cap occupied = {}
      <3>1. SUFFICES ASSUME NEW u \in at..(at + MultiLength - 1), u \in occupied
                     PROVE  FALSE
        OBVIOUS
      <3>2. PICK k \in 1..copied : \E j \in order[k].data : u = starts[k] + j
        BY <1>1, <1>2, <3>1 DEF CopiedSound
      <3>3. u < at \/ at + MultiLength =< u
        BY <1>2, <2>5, <3>2
      <3>. QED
        BY <2>1, <3>1, <3>3
    <2>7. /\ loader' = at /\ len' = Higher(len, at + MultiLength)
          /\ image' = Loaded(image, at, MultiLength)
          /\ bpc' = "finish" /\ reason' = reason
      BY <1>3, <1>6, <2>6, Zenon
    <2>8. /\ image' \in [Units -> Cells]
          /\ \A j \in 0..(MultiLength - 1) : image'[at + j] = LoaderCell(j)
          /\ image'[0] = PatchedCell(at)
          /\ \A u \in Units \ {0} : u < at \/ at + MultiLength =< u =>
                image'[u] = image[u]
      <3>1. at \in Nat \ {0}
        BY <2>1, <2>2
      <3>. QED
        BY <2>1, <2>3, <2>7, <3>1, LoadedCells
    <2>9. /\ len' \in 0..CardLen /\ len =< len' /\ at + MultiLength =< len'
          /\ len \in Nat
      BY <2>1, <2>3, <2>7 DEF Higher
    <2>10. BuildTypeOK'
      <3>1. loader' \in Units
        BY <2>1, <2>7 DEF Units
      <3>. QED
        BY <1>1, <1>2, <2>7, <2>8, <2>9, <3>1, Zenon DEF BuildTypeOK
    <2>11. /\ CursorBehind' /\ Fresh' /\ Several' /\ CopiedSound' /\ Programmed'
      BY <2>7 DEF CursorBehind, Fresh, Several, CopiedSound, Programmed
    <2>12. FinishedSound'
      <3>1. ASSUME NEW k \in 1..Len(order), NEW j \in order[k].data
            PROVE  image'[starts[k] + j] =
                       IF k = 1 /\ j = 0 THEN PatchedCell(at) ELSE RomCell(k, j)
        BY <2>5, <2>8
      <3>2. LoaderLength' = MultiLength
        <4>. DEFINE n == Len(order)
        <4>1. n \in Nat /\ n > 1
          BY <1>1, <2>4, Sequences
        <4>. HIDE DEF n
        <4>2. n # 1
          BY <4>1
        <4>. QED
          BY <1>2, <4>2, Zenon DEF LoaderLength, MultiLength, RomCount, n
      <3>3. ASSUME NEW u \in Units, len' =< u PROVE image'[u] = Erased
        <4>1. u \in Units \ {0} /\ at + MultiLength =< u /\ len =< u
          BY <2>1, <2>9, <3>3 DEF Units
        <4>. QED
          BY <1>1, <1>2, <2>8, <4>1 DEF CopiedSound
      <3>4. Len(starts') = Len(order')
        BY <1>2, <2>4
      <3>5. LoaderWhole(LoaderLength)'
        BY <2>2, <2>7, <2>8, <2>9, <3>2, Zenon DEF LoaderWhole
      <3>6. \A k \in 1..Len(order') : \A j \in order'[k].data :
                image'[starts'[k] + j] = Kept(k, j)'
        BY <1>2, <2>4, <2>7, <3>1, Zenon DEF Kept
      <3>. QED
        BY <3>3, <3>4, <3>5, <3>6, Zenon DEF FinishedSound
    <2>. QED
      BY <1>1, <1>4, <2>7, <2>10, <2>11, <2>12, Zenon DEF BuildInv
  <1>. QED
    BY <1>5, <1>6

\* The one ROM of a single or direct image is placed at the start.
LEMMA OnlyPlaced ==
    ASSUME BuildTypeOK, Len(input) = 1, OnlyRom
    PROVE  /\ PlacedSound'
           /\ order' = input /\ input[1] \in RomFiles
           /\ Len(order') = 1 /\ Len(starts') = 1 /\ starts'[1] = 0
           /\ starts' \in Seq(Units) /\ copied' \in 0..Len(order')
           /\ \A k \in 1..Len(order') : k = 1
  <1>1. order' = input /\ starts' = <<0>> /\ copied' = 1
    BY DEF OnlyRom
  <1>. DEFINE r == input[1]
  <1>2. input \in Seq(RomFiles) /\ Len(input) = 1 /\ r \in RomFiles
    <2>1. input \in Seq(RomFiles)
      BY Sequences
    <2>2. 1 \in 1..1
      OBVIOUS
    <2>3. 1 \in 1..Len(input)
      BY <2>2, Zenon
    <2>. QED
      BY <2>1, <2>3, SeqElement, Zenon
  <1>3. /\ r.size \in Nat /\ r.size =< CardLen
        /\ CardLen \in Nat \ {0} /\ SizeClass(r.size) \in Nat \ {0}
    BY <1>2, RomTypes, Geometry, SizeClassSound
  <1>. HIDE DEF r
  <1>4. 0 % SizeClass(r.size) = 0
    <2>1. (SizeClass(r.size) * 0) % SizeClass(r.size) = 0
      BY <1>3, ProductMod
    <2>2. SizeClass(r.size) * 0 = 0
      BY <1>3
    <2>. QED
      BY <2>1, <2>2
  <1>5. /\ Len(starts') = 1 /\ starts'[1] = 0 /\ starts' \in Seq(Units)
        /\ 1..Len(starts') = {1}
    <2>1. 0 \in Units
      BY <1>3 DEF Units
    <2>. QED
      BY <1>1, <2>1
  <1>6. PlacedSound'
    <2>1. /\ 0 + r.size =< CardLen /\ ~(1 < 1)
      BY <1>3
    <2>2. order'[1] = r
      BY <1>1 DEF r
    <2>3. \A k \in 1..Len(starts') :
            /\ starts'[k] + order'[k].size =< CardLen
            /\ starts'[k] % SizeClass(order'[k].size) = 0
            /\ k = 1 => starts'[k] = 0
      BY <1>4, <1>5, <2>1, <2>2, Zenon
    <2>4. \A k, l \in 1..Len(starts') :
            k < l => starts'[k] + MeaningfulEnd(order'[k]) =< starts'[l]
      BY <1>5, <2>1, Zenon
    <2>. QED
      BY <2>3, <2>4, Zenon DEF PlacedSound
  <1>7. copied' \in 0..Len(order') /\ Len(order') = 1
    <2>1. Len(order') = 1
      BY <1>1, <1>2, Zenon
    <2>2. 1 \in 0..1
      OBVIOUS
    <2>. QED
      BY <1>1, <2>1, <2>2, Zenon
  <1>8. \A k \in 1..Len(order') : k = 1
    <2>1. \A k \in 1..1 : k = 1
      OBVIOUS
    <2>. QED
      BY <1>7, <2>1, Zenon
  <1>. QED
    BY <1>1, <1>2, <1>5, <1>6, <1>7, <1>8 DEF r

\* Where the loader of a single ROM goes: behind its header, clear of its
\* data and within the card.
LEMMA SingleSlotSound ==
    ASSUME NEW r \in RomFiles, NEW at \in Units, SingleLoaderAt(r, at)
    PROVE  /\ at \in Nat /\ Header =< at /\ at + SingleLoader =< CardLen
           /\ \A j \in r.data : j < at \/ at + SingleLoader =< j
           /\ InSecondHalf(r) => at = CardHalf + Align /\ r.size = CardHalf
  <1>1. /\ CardLen \in Nat /\ CardHalf \in Nat /\ CardLen = CardHalf + CardHalf
        /\ Align \in Nat \ {0} /\ Header \in Nat
        /\ SingleLoader \in Nat \ {0} /\ MultiLoader \in Nat \ {0}
        /\ SingleLoader =< MultiLoader
        /\ CardHalf + Align + MultiLoader =< CardLen
    BY Geometry
  <1>2. /\ r.size \in Nat /\ Header < r.size /\ r.size =< CardLen
        /\ \A j \in r.data : j \in Nat /\ j < r.size
    BY RomTypes
  <1>3. at \in Nat
    BY <1>1 DEF Units
  <1>4. CASE FitsPadding(r)
    <2>1. /\ MeaningfulEnd(r) \in Nat /\ Header =< MeaningfulEnd(r)
          /\ \A j \in r.data : j < MeaningfulEnd(r)
      BY MeaningfulEndSound
    <2>2. at = PaddedStart(r) /\ PaddedStart(r) + MultiLoader =< r.size
          /\ ~InSecondHalf(r)
      BY <1>4 DEF SingleLoaderAt, FitsPadding, InSecondHalf
    <2>3. PaddedStart(r) \in Nat /\ MeaningfulEnd(r) =< PaddedStart(r)
      BY <1>1, <2>1, AlignUpFacts DEF PaddedStart
    <2>4. Header =< at /\ at + SingleLoader =< CardLen
      BY <1>1, <1>2, <2>1, <2>2, <2>3
    <2>5. \A j \in r.data : j < at
      BY <1>2, <2>1, <2>2, <2>3
    <2>. QED
      BY <1>3, <2>2, <2>4, <2>5
  <1>5. CASE ~FitsPadding(r) /\ InSecondHalf(r)
    <2>1. at = CardHalf + Align /\ r.size = CardHalf
      BY <1>5 DEF SingleLoaderAt, InSecondHalf
    <2>2. \A j \in r.data : j < at
      BY <1>1, <1>2, <2>1
    <2>. QED
      BY <1>1, <1>2, <1>3, <2>1, <2>2
  <1>6. CASE /\ ~FitsPadding(r) /\ ~InSecondHalf(r)
             /\ r.size # CardHalf /\ BehindRom(r) + SingleLoader =< CardLen
    <2>1. at = BehindRom(r)
      BY <1>6 DEF SingleLoaderAt
    <2>2. BehindRom(r) \in Nat /\ r.size =< BehindRom(r)
      BY <1>1, <1>2, AlignUpFacts DEF BehindRom
    <2>3. \A j \in r.data : j < at
      BY <1>2, <2>1, <2>2
    <2>. QED
      BY <1>1, <1>2, <1>3, <1>6, <2>1, <2>2, <2>3
  <1>7. CASE /\ ~FitsPadding(r) /\ ~InSecondHalf(r)
             /\ ~(r.size # CardHalf /\ BehindRom(r) + SingleLoader =< CardLen)
    <2>. DEFINE gap == RomErased(r)
    <2>1. SlotAt(gap, NextPad, MultiLoader, at)
      BY <1>7 DEF SingleLoaderAt, IsFirstSlot
    <2>2. /\ gap \in SUBSET Nat
          /\ \A u \in gap : Header =< u /\ u < r.size /\ u \notin r.data
      BY <1>1, <1>2 DEF RomErased
    <2>3. NextPad \in Nat /\ Align =< NextPad + 1
      BY <1>1 DEF NextPad
    <2>. HIDE DEF gap
    <2>4. /\ Header =< at
          /\ \A u \in Nat : at =< u /\ u < at + MultiLoader => u \in gap
      BY <1>1, <2>1, <2>2, <2>3, SlotSound
    <2>5. at + MultiLoader - 1 \in gap
      BY <1>1, <1>3, <2>4
    <2>6. at + SingleLoader =< CardLen
      BY <1>1, <1>2, <1>3, <2>2, <2>5
    <2>7. ASSUME NEW j \in r.data PROVE j < at \/ at + SingleLoader =< j
      <3>1. CASE at =< j /\ j < at + MultiLoader
        BY <1>2, <2>2, <2>4, <3>1
      <3>2. CASE ~(at =< j /\ j < at + MultiLoader)
        BY <1>1, <1>2, <1>3, <3>2
      <3>. QED
        BY <3>1, <3>2
    <2>. QED
      BY <1>3, <1>7, <2>4, <2>6, <2>7
  <1>. QED
    BY <1>4, <1>5, <1>6, <1>7

LEMMA ZeroFilledCells ==
    ASSUME NEW base \in [Units -> Cells], NEW at \in Nat
    PROVE  /\ ZeroFilled(base, at) \in [Units -> Cells]
           /\ \A u \in Units : u < CardHalf \/ at =< u =>
                ZeroFilled(base, at)[u] = base[u]
  <1>1. ZeroCell \in Cells /\ CardHalf \in Nat /\ CardLen \in Nat
    BY Geometry DEF ZeroCell, Cells
  <1>2. ZeroFilled(base, at) \in [Units -> Cells]
    BY <1>1 DEF ZeroFilled
  <1>3. ASSUME NEW u \in Units, u < CardHalf \/ at =< u
        PROVE  ZeroFilled(base, at)[u] = base[u]
    <2>1. ~(u >= CardHalf /\ u < at)
      BY <1>1, <1>3 DEF Units
    <2>. QED
      BY <2>1 DEF ZeroFilled
  <1>. QED
    BY <1>2, <1>3

LEMMA SingleStep ==
    ASSUME BuildInv, BuildSingle
    PROVE  BuildInv'
  <1>. DEFINE r == input[1]
              plain == Overlaid(Blank, 1, r, 0)
  <1>1. BuildTypeOK /\ InputSound /\ reason # "overlap"
    BY InvParts
  <1>2. /\ Len(input) = 1 /\ ~direct /\ OnlyRom
        /\ input' = input /\ direct' = direct /\ cursor' = cursor
        /\ occupied' = occupied
    BY Zenon DEF BuildSingle
  <1>3. \/ /\ bpc' = "rejected" /\ reason' = "no room"
           /\ image' = image /\ len' = len /\ loader' = loader
        \/ \E at \in Units :
            /\ SingleLoaderAt(r, at)
            /\ loader' = at
            /\ image' = Loaded(IF InSecondHalf(r) THEN ZeroFilled(plain, at)
                               ELSE plain, at, SingleLoader)
            /\ len' = IF InSecondHalf(r) THEN AlignUp(at + SingleLoader, Page)
                      ELSE Higher(r.size, at + SingleLoader)
            /\ bpc' = "finish" /\ reason' = reason
    BY Zenon DEF BuildSingle, Reject
  <1>4. /\ PlacedSound' /\ order' = input /\ r \in RomFiles
        /\ Len(order') = 1 /\ Len(starts') = 1 /\ starts'[1] = 0
        /\ starts' \in Seq(Units) /\ copied' \in 0..Len(order')
        /\ \A k \in 1..Len(order') : k = 1
    BY <1>1, <1>2, OnlyPlaced
  <1>5. InputSound'
    BY <1>1, <1>2, InputKept
  <1>6. (Len(starts) =< Len(order))' /\ order' \in Seq(RomFiles)
    <2>1. 1 =< 1 /\ input \in Seq(RomFiles)
      BY <1>1, Sequences
    <2>. QED
      BY <1>4, <2>1, Zenon
  <1>7. CASE /\ bpc' = "rejected" /\ reason' = "no room"
             /\ image' = image /\ len' = len /\ loader' = loader
    <2>1. BuildTypeOK'
      BY <1>1, <1>2, <1>4, <1>6, <1>7, Zenon DEF BuildTypeOK
    <2>. QED
      BY <1>4, <1>5, <1>7, <2>1, RejectedSound DEF BuildInv
  <1>8. ASSUME NEW at \in Units,
               /\ SingleLoaderAt(r, at)
               /\ loader' = at
               /\ image' = Loaded(IF InSecondHalf(r) THEN ZeroFilled(plain, at)
                                  ELSE plain, at, SingleLoader)
               /\ len' = IF InSecondHalf(r) THEN AlignUp(at + SingleLoader, Page)
                         ELSE Higher(r.size, at + SingleLoader)
               /\ bpc' = "finish" /\ reason' = reason
        PROVE  BuildInv'
    <2>. DEFINE base == IF InSecondHalf(r) THEN ZeroFilled(plain, at) ELSE plain
    <2>1. /\ SingleLoaderAt(r, at) /\ loader' = at
          /\ image' = Loaded(base, at, SingleLoader)
          /\ bpc' = "finish" /\ reason' = reason
      BY <1>8, Zenon
    <2>. HIDE DEF r
    <2>2. /\ at \in Nat /\ Header =< at /\ at + SingleLoader =< CardLen
          /\ \A j \in r.data : j < at \/ at + SingleLoader =< j
          /\ InSecondHalf(r) => at = CardHalf + Align /\ r.size = CardHalf
      BY <1>4, <2>1, SingleSlotSound
    <2>3. /\ CardLen \in Nat \ {0} /\ CardHalf \in Nat
          /\ CardLen = CardHalf + CardHalf
          /\ Align \in Nat \ {0} /\ Header \in Nat \ {0}
          /\ Page \in Nat \ {0} /\ CardLen % Page = 0
          /\ SingleLoader \in Nat \ {0} /\ SingleLoader =< MultiLoader
          /\ MultiLoader \in Nat /\ CardHalf + Align + MultiLoader =< CardLen
      BY Geometry
    <2>4. /\ r.size \in Nat /\ Header < r.size /\ r.size =< CardLen
          /\ \A j \in r.data : j \in Nat /\ j < r.size
      BY <1>4, RomTypes
    <2>5. /\ len' \in 0..CardLen /\ at + SingleLoader =< len' /\ r.size =< len'
          /\ InSecondHalf(r) => at =< len'
      <3>1. CASE InSecondHalf(r)
        <4>1. len' = AlignUp(at + SingleLoader, Page)
          BY <1>8, <3>1 DEF r
        <4>2. /\ AlignUp(at + SingleLoader, Page) \in Nat
              /\ at + SingleLoader =< AlignUp(at + SingleLoader, Page)
              /\ AlignUp(at + SingleLoader, Page) =< CardLen
          <5>1. at + SingleLoader \in Nat
            BY <2>2, <2>3
          <5>. QED
            BY <2>2, <2>3, <5>1, AlignUpFacts, AlignUpBelow
        <4>. QED
          BY <2>2, <2>3, <2>4, <3>1, <4>1, <4>2
      <3>2. CASE ~InSecondHalf(r)
        <4>1. len' = Higher(r.size, at + SingleLoader)
          BY <1>8, <3>2 DEF r
        <4>. QED
          BY <2>2, <2>3, <2>4, <3>2, <4>1 DEF Higher
      <3>. QED
        BY <3>1, <3>2
    <2>6. /\ plain \in [Units -> Cells]
          /\ \A j \in r.data : plain[0 + j] = RomCell(1, j)
          /\ \A u \in Units : u < 0 \/ 0 + r.size =< u => plain[u] = Blank[u]
      <3>. HIDE DEF plain
      <3>1. PICK s \in Nat, k \in Nat : s = 0 /\ k = 1
        OBVIOUS
      <3>2. plain = Overlaid(Blank, k, r, s)
        BY <3>1, Zenon DEF plain
      <3>3. s + r.size =< CardLen
        BY <2>4, <3>1
      <3>4. r \in RomFiles
        BY <1>4
      <3>5. /\ plain \in [Units -> Cells]
            /\ \A j \in r.data : plain[s + j] = RomCell(k, j)
            /\ \A u \in Units : u < s \/ s + r.size =< u => plain[u] = Blank[u]
        BY <3>2, <3>3, <3>4, BlankCells, OverlaidCells
      <3>. QED
        BY <3>1, <3>5, Zenon
    <2>7. \A u \in Units : Blank[u] = Erased
      BY DEF Blank
    <2>8. base \in [Units -> Cells]
      BY <2>2, <2>6, ZeroFilledCells
    <2>9. \A j \in r.data : j \in Units /\ base[j] = RomCell(1, j)
      <3>1. ASSUME NEW j \in r.data PROVE j \in Units /\ base[j] = RomCell(1, j)
        <4>1. j \in Units /\ 0 + j = j
          BY <2>3, <2>4 DEF Units
        <4>2. plain[j] = RomCell(1, j)
          BY <2>6, <4>1, Zenon
        <4>3. CASE InSecondHalf(r)
          <5>1. j < CardHalf
            BY <2>2, <2>4, <4>3
          <5>2. base = ZeroFilled(plain, at)
            BY <4>3
          <5>. QED
            BY <2>2, <2>6, <4>1, <4>2, <5>1, <5>2, ZeroFilledCells
        <4>4. CASE ~InSecondHalf(r)
          BY <4>1, <4>2, <4>4
        <4>. QED
          BY <4>3, <4>4
      <3>. QED
        BY <3>1
    <2>10. \A u \in Units : len' =< u => base[u] = Erased
      <3>1. ASSUME NEW u \in Units, len' =< u PROVE base[u] = Erased
        <4>1. u \in Nat /\ 0 + r.size =< u
          BY <2>3, <2>4, <2>5, <3>1 DEF Units
        <4>2. plain[u] = Erased
          BY <2>6, <2>7, <4>1, Zenon
        <4>3. CASE InSecondHalf(r)
          <5>1. at =< u /\ base = ZeroFilled(plain, at)
            BY <2>2, <2>5, <3>1, <4>1, <4>3
          <5>. QED
            BY <2>2, <2>6, <4>2, <5>1, ZeroFilledCells
        <4>4. CASE ~InSecondHalf(r)
          BY <4>2, <4>4
        <4>. QED
          BY <4>3, <4>4
      <3>. QED
        BY <3>1
    <2>. HIDE DEF base, plain
    <2>11. at \in Nat \ {0}
      BY <2>2, <2>3
    <2>12. /\ image' \in [Units -> Cells]
           /\ \A j \in 0..(SingleLoader - 1) : image'[at + j] = LoaderCell(j)
           /\ image'[0] = PatchedCell(at)
           /\ \A u \in Units \ {0} : u < at \/ at + SingleLoader =< u =>
                 image'[u] = base[u]
      BY <2>1, <2>2, <2>3, <2>8, <2>11, LoadedCells
    <2>13. BuildTypeOK'
      BY <1>1, <1>2, <1>4, <1>6, <2>1, <2>5, <2>12, Zenon DEF BuildTypeOK
    <2>14. /\ CursorBehind' /\ Fresh' /\ Several' /\ CopiedSound' /\ Programmed'
      BY <2>1 DEF CursorBehind, Fresh, Several, CopiedSound, Programmed
    <2>15. FinishedSound'
      <3>1. \A j \in r.data :
                image'[0 + j] = IF j = 0 THEN PatchedCell(at) ELSE RomCell(1, j)
        <4>1. ASSUME NEW j \in r.data
              PROVE  image'[0 + j] = IF j = 0 THEN PatchedCell(at) ELSE RomCell(1, j)
          <5>1. /\ 0 + j = j
                /\ j # 0 => j \in Units \ {0}
                /\ base[j] = RomCell(1, j)
            BY <2>4, <2>9
          <5>. QED
            BY <2>2, <2>12, <5>1
        <4>. QED
          BY <4>1
      <3>2. direct' = FALSE
        <4>1. direct \in BOOLEAN
          BY <1>1, Zenon DEF BuildTypeOK
        <4>2. direct = FALSE
          BY <1>2, <4>1, TrueOrFalse, Zenon
        <4>. QED
          BY <1>2, <4>2, Zenon
      <3>3. \A k \in 1..Len(order') : \A j \in order'[k].data :
                image'[starts'[k] + j] = Kept(k, j)'
        BY <1>4, <2>1, <3>1, <3>2, Zenon DEF Kept, r
      <3>4. LoaderLength' = SingleLoader
        BY <1>4, Zenon DEF LoaderLength, RomCount
      <3>5. LoaderWhole(LoaderLength)'
        BY <2>1, <2>2, <2>5, <2>12, <3>4, Zenon DEF LoaderWhole
      <3>6. ASSUME NEW u \in Units, len' =< u PROVE image'[u] = Erased
        <4>1. u \in Units \ {0} /\ at + SingleLoader =< u
          BY <2>2, <2>3, <2>5, <3>6 DEF Units
        <4>. QED
          BY <2>10, <2>12, <3>6, <4>1
      <3>. QED
        BY <1>4, <3>3, <3>5, <3>6, Zenon DEF FinishedSound
    <2>. QED
      BY <1>1, <1>4, <1>5, <2>1, <2>13, <2>14, <2>15, Zenon DEF BuildInv
  <1>. QED
    BY <1>3, <1>7, <1>8, Zenon

LEMMA DirectStep ==
    ASSUME BuildInv, BuildDirect
    PROVE  BuildInv'
  <1>. DEFINE r == input[1]
  <1>1. BuildTypeOK /\ InputSound /\ reason # "overlap"
    BY InvParts
  <1>2. /\ direct /\ OnlyRom
        /\ input' = input /\ direct' = direct /\ cursor' = cursor
        /\ occupied' = occupied /\ loader' = loader /\ reason' = reason
        /\ image' = Overlaid(Blank, 1, r, 0) /\ len' = r.size
        /\ bpc' = "finish"
    BY Zenon DEF BuildDirect
  <1>3. direct = TRUE /\ Len(input) = 1
    <2>1. direct \in BOOLEAN
      BY <1>1, Zenon DEF BuildTypeOK
    <2>2. direct = TRUE
      BY <1>2, <2>1, TrueOrFalse, Zenon
    <2>. QED
      BY <1>1, <2>2, Zenon DEF InputSound
  <1>4. /\ PlacedSound' /\ order' = input /\ r \in RomFiles
        /\ Len(order') = 1 /\ Len(starts') = 1 /\ starts'[1] = 0
        /\ starts' \in Seq(Units) /\ copied' \in 0..Len(order')
        /\ \A k \in 1..Len(order') : k = 1
    BY <1>1, <1>2, <1>3, OnlyPlaced
  <1>5. InputSound'
    BY <1>1, <1>2, InputKept
  <1>6. (Len(starts) =< Len(order))' /\ order' \in Seq(RomFiles)
    <2>1. 1 =< 1 /\ input \in Seq(RomFiles)
      BY <1>1, Sequences
    <2>. QED
      BY <1>4, <2>1, Zenon
  <1>. HIDE DEF r
  <1>7. /\ r.size \in Nat /\ Header < r.size /\ r.size =< CardLen
        /\ CardLen \in Nat /\ len' \in 0..CardLen
        /\ \A j \in r.data : j \in Nat
    BY <1>2, <1>4, RomTypes, Geometry
  <1>8. /\ image' \in [Units -> Cells]
        /\ \A j \in r.data : image'[0 + j] = RomCell(1, j)
        /\ \A u \in Units : u < 0 \/ 0 + r.size =< u => image'[u] = Blank[u]
    BY <1>2, <1>4, <1>7, BlankCells, OverlaidCells
  <1>9. BuildTypeOK'
    BY <1>1, <1>2, <1>4, <1>6, <1>7, <1>8, Zenon DEF BuildTypeOK
  <1>10. /\ CursorBehind' /\ Fresh' /\ Several' /\ CopiedSound' /\ Programmed'
    BY <1>2 DEF CursorBehind, Fresh, Several, CopiedSound, Programmed
  <1>11. FinishedSound'
    <2>1. direct' = TRUE /\ TRUE # FALSE
      BY <1>2, <1>3, Zenon
    <2>2. \A k \in 1..Len(order') : \A j \in order'[k].data :
              image'[starts'[k] + j] = Kept(k, j)'
      BY <1>4, <1>8, <2>1, Zenon DEF Kept, r
    <2>3. ASSUME NEW u \in Units, len' =< u PROVE image'[u] = Erased
      <3>1. 0 + r.size =< u
        BY <1>2, <1>7, <2>3
      <3>. QED
        BY <1>8, <3>1 DEF Blank
    <2>. QED
      BY <1>4, <2>1, <2>2, <2>3, Zenon DEF FinishedSound
  <1>. QED
    BY <1>1, <1>2, <1>4, <1>5, <1>9, <1>10, <1>11, Zenon DEF BuildInv

LEMMA FinishStep ==
    ASSUME BuildInv, FinishImage
    PROVE  BuildInv'
  <1>1. /\ BuildTypeOK /\ InputSound /\ PlacedSound /\ FinishedSound
        /\ reason # "overlap"
    BY InvParts
  <1>2. /\ bpc = "finish"
        /\ input' = input /\ direct' = direct /\ order' = order
        /\ starts' = starts /\ cursor' = cursor /\ copied' = copied
        /\ image' = image /\ occupied' = occupied /\ loader' = loader
    BY Zenon DEF FinishImage, layout
  <1>3. \/ bpc' = "rejected" /\ reason' = "no room" /\ len' = len
        \/ /\ ~(ProgrammedSize > CardLen)
           /\ len' = ProgrammedSize /\ bpc' = "built" /\ reason' = reason
    BY DEF FinishImage, Reject
  <1>4. InputSound' /\ PlacedSound'
    BY <1>1, <1>2, InputKept, PlacedKept
  <1>5. CASE bpc' = "rejected" /\ reason' = "no room" /\ len' = len
    <2>1. BuildTypeOK'
      BY <1>1, <1>2, <1>5, Zenon DEF BuildTypeOK
    <2>. QED
      BY <1>4, <1>5, <2>1, RejectedSound DEF BuildInv
  <1>6. CASE /\ ~(ProgrammedSize > CardLen)
             /\ len' = ProgrammedSize /\ bpc' = "built" /\ reason' = reason
    <2>. DEFINE h == Higher(ProgramBlock, len)
    <2>1. len \in 0..CardLen
      BY <1>1, Zenon DEF BuildTypeOK
    <2>2. /\ ProgramBlock \in Nat /\ CardLen \in Nat /\ Page \in Nat \ {0}
          /\ len \in Nat
      BY <2>1, Geometry
    <2>3. h \in Nat /\ ProgramBlock =< h /\ len =< h
      BY <2>2 DEF Higher
    <2>. HIDE DEF h
    <2>4. /\ AlignUp(h, Page) \in Nat /\ h =< AlignUp(h, Page)
          /\ AlignUp(h, Page) % Page = 0
      BY <2>2, <2>3, AlignUpFacts
    <2>5. ProgrammedSize = AlignUp(h, Page)
      BY DEF ProgrammedSize, h
    <2>6. /\ len' \in 0..CardLen /\ len =< len' /\ ProgramBlock =< len'
          /\ len' % Page = 0
      <3>1. len' = AlignUp(h, Page) /\ ~(AlignUp(h, Page) > CardLen)
        BY <1>6, <2>5
      <3>. QED
        BY <2>2, <2>3, <2>4, <3>1
    <2>7. BuildTypeOK'
      BY <1>1, <1>2, <1>6, <2>6, Zenon DEF BuildTypeOK
    <2>8. /\ CursorBehind' /\ Fresh' /\ Several' /\ CopiedSound'
      BY <1>6 DEF CursorBehind, Fresh, Several, CopiedSound
    <2>9. Programmed'
      BY <2>6, Zenon DEF Programmed
    <2>10. FinishedSound'
      <3>1. \A u \in Units : len' =< u => len =< u
        BY <2>2, <2>6 DEF Units
      <3>2. \A u \in Units : len' =< u => image'[u] = Erased
        BY <1>1, <1>2, <3>1, Zenon DEF FinishedSound
      <3>3. LoaderLength' = LoaderLength
        BY <1>2, Zenon DEF LoaderLength, RomCount, MultiLength
      <3>4. direct = FALSE => LoaderWhole(LoaderLength)'
        <4>1. ASSUME direct = FALSE PROVE LoaderWhole(LoaderLength)'
          <5>1. LoaderWhole(LoaderLength)
            BY <1>1, <1>2, <4>1, Zenon DEF FinishedSound
          <5>2. loader + LoaderLength =< len'
            <6>1. LoaderLength \in Nat
              BY Geometry, MultiLengthSound DEF LoaderLength
            <6>2. loader \in Nat
              <7>1. loader \in Units
                BY <1>1, Zenon DEF BuildTypeOK
              <7>. QED
                BY <2>2, <7>1 DEF Units
            <6>3. loader + LoaderLength =< len
              BY <5>1, Zenon DEF LoaderWhole
            <6>. QED
              BY <2>2, <2>6, <6>1, <6>2, <6>3
          <5>. QED
            BY <1>2, <3>3, <5>1, <5>2, Zenon DEF LoaderWhole
        <4>. QED
          BY <4>1
      <3>5. \A k \in 1..Len(order') : \A j \in order'[k].data :
                image'[starts'[k] + j] = Kept(k, j)'
        BY <1>1, <1>2, Zenon DEF FinishedSound, Kept
      <3>6. Len(starts') = Len(order')
        BY <1>1, <1>2, Zenon DEF FinishedSound
      <3>. QED
        BY <1>2, <3>2, <3>4, <3>5, <3>6, Zenon DEF FinishedSound
    <2>. QED
      BY <1>1, <1>4, <1>6, <2>7, <2>8, <2>9, <2>10, Zenon DEF BuildInv
  <1>. QED
    BY <1>3, <1>5, <1>6

LEMMA StutterStep ==
    ASSUME BuildInv, UNCHANGED build
    PROVE  BuildInv'
  <1>1. /\ input' = input /\ direct' = direct /\ bpc' = bpc /\ order' = order
        /\ cursor' = cursor /\ starts' = starts /\ copied' = copied
        /\ image' = image /\ len' = len /\ occupied' = occupied
        /\ loader' = loader /\ reason' = reason
    BY Zenon DEF build
  <1>2. /\ BuildTypeOK /\ InputSound /\ PlacedSound /\ CursorBehind /\ Fresh
        /\ Several /\ CopiedSound /\ FinishedSound /\ Programmed
        /\ reason # "overlap"
    BY InvParts
  <1>3. BuildTypeOK' /\ InputSound' /\ (reason # "overlap")'
    BY <1>1, <1>2, Zenon DEF BuildTypeOK, InputSound
  <1>4. PlacedSound' /\ CursorBehind' /\ Fresh' /\ Several' /\ Programmed'
    BY <1>1, <1>2, Zenon DEF PlacedSound, CursorBehind, Fresh, Several, Programmed
  <1>5. CopiedSound'
    BY <1>1, <1>2, Zenon DEF CopiedSound
  <1>6. FinishedSound'
    BY <1>1, <1>2, Zenon DEF FinishedSound, Kept, LoaderWhole, LoaderLength,
                             MultiLength, RomCount
  <1>. QED
    BY <1>3, <1>4, <1>5, <1>6, Zenon DEF BuildInv

LEMMA NextStep == BuildInv /\ [BuildNext]_build => BuildInv'
  <1>. SUFFICES ASSUME BuildInv, [BuildNext]_build PROVE BuildInv'
    OBVIOUS
  <1>1. CASE SortRoms
    BY <1>1, SortStep
  <1>2. CASE PlaceRom
    BY <1>2, PlaceStep
  <1>3. CASE AllPlaced
    BY <1>3, AllPlacedStep
  <1>4. CASE CopyRom
    BY <1>4, CopyStep
  <1>5. CASE PlaceLoader
    BY <1>5, LoaderStep
  <1>6. CASE BuildSingle
    BY <1>6, SingleStep
  <1>7. CASE BuildDirect
    BY <1>7, DirectStep
  <1>8. CASE FinishImage
    BY <1>8, FinishStep
  <1>9. CASE UNCHANGED build
    BY <1>9, StutterStep
  <1>. QED
    BY <1>1, <1>2, <1>3, <1>4, <1>5, <1>6, <1>7, <1>8, <1>9, Zenon DEF BuildNext

-----------------------------------------------------------------------------
(* The invariant implies what the readers rely on. *)

LEMMA InvIsSound == BuildInv => LayoutSound
  <1>. SUFFICES ASSUME BuildInv, bpc = "built"
                PROVE  LayoutSound
    BY InvParts, Zenon DEF LayoutSound
  <1>1. /\ BuildTypeOK /\ PlacedSound /\ FinishedSound /\ Programmed
        /\ reason # "overlap"
    BY InvParts
  <1>2. /\ Len(starts) = Len(order) /\ ProgramBlock =< len /\ len % Page = 0
        /\ \A k \in 1..Len(order) : \A j \in order[k].data :
            image[starts[k] + j] = Kept(k, j)
        /\ direct = FALSE => LoaderWhole(LoaderLength)
        /\ \A u \in Units : len =< u => image[u] = Erased
    BY <1>1, Zenon DEF FinishedSound, Programmed
  <1>3. ~direct <=> direct = FALSE
    <2>1. direct \in BOOLEAN
      BY <1>1, Zenon DEF BuildTypeOK
    <2>. QED
      BY <2>1, TrueOrFalse, Zenon
  <1>4. \A k \in 1..RomCount : \A j \in order[k].data :
            image[starts[k] + j] =
                IF k = 1 /\ j = 0 /\ ~direct THEN PatchedCell(loader)
                ELSE RomCell(k, j)
    BY <1>2, <1>3, Zenon DEF Kept, RomCount
  <1>5. ~direct =>
            /\ Header =< loader /\ loader + LoaderLength =< len
            /\ \A j \in 0..(LoaderLength - 1) : image[loader + j] = LoaderCell(j)
    BY <1>2, <1>3, Zenon DEF LoaderWhole
  <1>6. /\ ProgramBlock =< len /\ len =< CardLen /\ len % Page = 0
        /\ \A u \in Units : u >= len => image[u] = Erased
    <2>1. len \in 0..CardLen
      BY <1>1, Zenon DEF BuildTypeOK
    <2>2. CardLen \in Nat
      BY Geometry
    <2>3. \A u \in Units : u >= len => len =< u
      BY <2>1, <2>2 DEF Units
    <2>. QED
      BY <1>2, <2>1, <2>2, <2>3
  <1>7. ASSUME NEW k \in 1..RomCount
        PROVE  /\ starts[k] % ProgramBlock = 0 /\ HasStoredExtent(Catalog[k])
               /\ k > 1 => starts[k - 1] < starts[k]
    <2>. DEFINE c == SizeClass(order[k].size)
    <2>1. k \in 1..Len(starts) /\ k \in 1..Len(order)
      BY <1>2, <1>7, Zenon DEF RomCount
    <2>2. /\ order[k] \in RomFiles /\ starts[k] \in Nat
          /\ order[k].size \in Nat /\ order[k].size =< CardLen
          /\ Header < order[k].size
      BY <1>1, <2>1, PlacedRom, RomTypes
    <2>3. /\ CardLen \in Nat \ {0} /\ ProgramBlock \in Nat \ {0}
          /\ Header \in Nat \ {0}
          /\ c \in Nat \ {0} /\ CardLen % c = 0 /\ c % ProgramBlock = 0
          /\ starts[k] % c = 0 /\ starts[k] + order[k].size =< CardLen
      BY <1>1, <2>1, <2>2, Geometry, SizeClassSound DEF PlacedSound
    <2>4. starts[k] % ProgramBlock = 0
      BY <2>2, <2>3, MultipleOfMultiple
    <2>5. starts[k] + c =< CardLen
      <3>1. starts[k] < CardLen
        BY <2>2, <2>3
      <3>. QED
        BY <2>2, <2>3, <3>1, MultipleGap
    <2>6. HasStoredExtent(Catalog[k])
      <3>1. Catalog[k] = Entry(starts[k], c)
        BY <1>7, Zenon DEF Catalog, Extent
      <3>. HIDE DEF c
      <3>2. Catalog[k].start = starts[k] /\ Catalog[k].extent = c
        BY <3>1 DEF Entry
      <3>. QED
        BY <2>5, <3>2, Zenon DEF HasStoredExtent
    <2>7. ASSUME k > 1 PROVE starts[k - 1] < starts[k]
      <3>. DEFINE p == k - 1
      <3>1. p \in 1..Len(starts) /\ p < k
        BY <2>1, <2>7
      <3>. HIDE DEF p
      <3>2. starts[p] + MeaningfulEnd(order[p]) =< starts[k]
        BY <1>1, <2>1, <3>1 DEF PlacedSound
      <3>3. starts[p] \in Nat /\ order[p] \in RomFiles
        BY <1>1, <3>1, PlacedRom
      <3>4. MeaningfulEnd(order[p]) \in Nat /\ Header =< MeaningfulEnd(order[p])
        BY <3>3, MeaningfulEndSound
      <3>5. starts[p] < starts[k]
        BY <2>2, <2>3, <3>2, <3>3, <3>4
      <3>. QED
        BY <3>5 DEF p
    <2>. QED
      BY <2>4, <2>6, <2>7
  <1>. QED
    BY <1>1, <1>4, <1>5, <1>6, <1>7, Zenon DEF LayoutSound

LEMMA Inductive == BuildSpec => []BuildInv
  <1>1. BuildInit => BuildInv
    BY InitStep
  <1>2. BuildInv /\ [BuildNext]_build => BuildInv'
    BY NextStep
  <1>. QED
    BY <1>1, <1>2, PTL DEF BuildSpec

(* The variables of the builder keep their types: in particular no start,   *)
(* length or loader ever leaves the card.                                   *)
THEOREM BuildTypeCorrect == BuildSpec => []BuildTypeOK
  <1>1. BuildInv => BuildTypeOK
    BY InvParts
  <1>. QED
    BY <1>1, Inductive, PTL

(* CartridgeImageBuilder::build never overlays ROM data or puts a loader on *)
(* it, and the image it returns is the one its catalog describes.           *)
THEOREM NothingOverlaid == BuildSpec => []LayoutSound
  <1>1. BuildInv => LayoutSound
    BY InvIsSound
  <1>. QED
    BY <1>1, Inductive, PTL
=============================================================================

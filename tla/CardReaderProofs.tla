--------------------------- MODULE CardReaderProofs ---------------------------
(***************************************************************************)
(* Safety of CardReader for every set of cartridges and command lines.     *)
(***************************************************************************)
EXTENDS CardReader, TLAPS, FiniteSetTheorems

-----------------------------------------------------------------------------
(* The operators. *)

\* A nonempty set of addresses has a highest one.
LEMMA HighestExists ==
    ASSUME NEW n \in Nat, NEW T \in SUBSET (0..n), T # {}
    PROVE  \E x \in T : \A y \in T : y =< x
  <1>. DEFINE Above(x) == x..n
              Sets == {Above(x) : x \in T}
  <1>1. Sets \subseteq FiniteSubsetsOf(0..n) /\ Sets # {}
    <2>1. FiniteSubsetsOf(0..n) = SUBSET (0..n)
      <3>1. IsFiniteSet(0..n)
        BY FS_Interval
      <3>. QED
        BY <3>1, FS_FiniteSubsetsOfFinite
    <2>2. \A x \in T : Above(x) \subseteq 0..n
      OBVIOUS
    <2>3. Sets \subseteq SUBSET (0..n)
      BY <2>2
    <2>4. Sets # {}
      <3>1. PICK x \in T : TRUE
        OBVIOUS
      <3>. QED
        BY <3>1
    <2>. QED
      BY <2>1, <2>3, <2>4
  <1>. HIDE DEF Sets
  <1>2. PICK s \in Sets :
            \A t \in Sets : ~(<<t, s>> \in StrictSubsetOrdering(0..n))
    BY <1>1, FS_StrictSubsetOrderingWellFounded, WFMin
  <1>3. PICK x \in T : s = Above(x)
    BY <1>2 DEF Sets
  <1>4. ASSUME NEW y \in T, x < y PROVE FALSE
    <2>1. Above(y) \in Sets
      BY DEF Sets
    <2>2. /\ Above(y) \subseteq Above(x) /\ Above(x) \subseteq 0..n
          /\ x \in Above(x) /\ x \notin Above(y)
      BY <1>4
    <2>3. <<Above(y), s>> \in StrictSubsetOrdering(0..n)
      BY <2>2, <1>3 DEF StrictSubsetOrdering
    <2>. QED
      BY <2>1, <2>3, <1>2
  <1>. QED
    BY <1>4

LEMMA SeqElement ==
    ASSUME NEW S, NEW s \in Seq(S), NEW k \in 1..Len(s)
    PROVE  s[k] \in S
  OBVIOUS

LEMMA CardTypes ==
    ASSUME NEW c \in Cards
    PROVE  /\ c.kind \in {"ez3", "blank", "official", "other"}
           /\ c.id \in BOOLEAN
           /\ c.loader \in Units /\ c.used \in 1..CardLen
           /\ Len(c.roms) \in Nat
           /\ c.kind = "ez3" => Len(c.roms) > 0
           /\ \A k \in 1..Len(c.roms) :
                /\ c.roms[k].start \in Units /\ c.roms[k].type \in Nat
                /\ c.roms[k].header \in BOOLEAN
                /\ c.roms[k].type =< 9 =>
                    SizeClass(c.roms[k].type) \in Nat \ {0}
  <1>1. /\ c.kind \in {"ez3", "blank", "official", "other"}
        /\ c.id \in BOOLEAN
        /\ c.loader \in Units /\ c.used \in 1..CardLen
        /\ c.roms \in Seq([start : Units, type : Nat, header : BOOLEAN])
        /\ c.kind = "ez3" => Len(c.roms) > 0
        /\ \A k \in DOMAIN c.roms :
            c.roms[k].type =< 9 => SizeClass(c.roms[k].type) \in Nat \ {0}
    BY ReaderAssumption
  <1>2. Len(c.roms) \in Nat /\ DOMAIN c.roms = 1..Len(c.roms)
    BY <1>1
  <1>3. \A k \in 1..Len(c.roms) :
            c.roms[k] \in [start : Units, type : Nat, header : BOOLEAN]
    BY <1>1, SeqElement
  <1>. QED
    BY <1>1, <1>2, <1>3

LEMMA RequestTypes ==
    ASSUME NEW r \in Requests
    PROVE  r.extract \in BOOLEAN /\ r.exists \in BOOLEAN /\ r.rom \in Nat
  BY ReaderAssumption

\* requiredLinearReadLimit never exceeds four windows, and covers its address.
LEMMA LimitCovers ==
    ASSUME NEW a \in Units
    PROVE  RequiredLimit(a) \in 1..4 /\ a < RequiredLimit(a) * Quarter
  <1>1. Quarter \in Nat \ {0} /\ a \in 0..(4 * Quarter - 1)
    BY ReaderAssumption DEF Units, CardLen
  <1>2. a \div Quarter \in 0..3 /\ a < (a \div Quarter + 1) * Quarter
    BY <1>1
  <1>. QED
    BY <1>2 DEF RequiredLimit

\* A higher mapping shows what a lower one does.
LEMMA HigherCovers ==
    ASSUME NEW a \in Units, NEW m \in Nat, RequiredLimit(a) =< m
    PROVE  a < m * Quarter
  <1>. DEFINE r == RequiredLimit(a)
  <1>1. Quarter \in Nat /\ a \in Nat
    BY ReaderAssumption DEF Units, CardLen
  <1>2. r \in Nat /\ a < r * Quarter
    BY LimitCovers
  <1>. HIDE DEF r
  <1>3. r =< m
    BY DEF r
  <1>4. r * Quarter =< m * Quarter
    BY <1>1, <1>2, <1>3
  <1>. QED
    BY <1>1, <1>2, <1>4

LEMMA LoaderEndOnCard == card \in Cards => LoaderEnd \in Units
  BY CardTypes, ReaderAssumption DEF LoaderEnd, Units, CardLen

LEMMA HighestStartOnCard ==
    ASSUME card \in Cards, card.kind = "ez3"
    PROVE  HighestStart \in Units
  <1>. DEFINE T == {card.roms[k].start : k \in 1..RomCount}
  <1>1. CardLen - 1 \in Nat
    BY ReaderAssumption DEF CardLen
  <1>2. T \in SUBSET Units /\ T # {}
    <2>1. RomCount \in Nat /\ RomCount > 0
      BY CardTypes DEF RomCount
    <2>2. \A k \in 1..RomCount : card.roms[k].start \in Units
      BY CardTypes DEF RomCount
    <2>3. card.roms[1].start \in T
      BY <2>1
    <2>. QED
      BY <2>2, <2>3
  <1>3. PICK x \in T : \A y \in T : y =< x
    BY <1>1, <1>2, HighestExists DEF Units
  <1>4. \A k \in 1..RomCount : card.roms[k].start =< x
    BY <1>3
  <1>5. HighestStart \in T
    BY <1>3, <1>4 DEF HighestStart
  <1>. QED
    BY <1>2, <1>5

\* The selected entry and its extent.
LEMMA SelectedExtent ==
    ASSUME card \in Cards, request \in Requests, InCatalog, HasStoredEnd(Selected)
    PROVE  /\ Selected.start \in Units /\ StoredEnd(Selected) \in Units
           /\ SizeClass(Selected.type) \in Nat \ {0}
           /\ StoredEnd(Selected) = Selected.start + SizeClass(Selected.type) - 1
           /\ RomUnits(Selected) \subseteq Units
  <1>1. RomIndex \in 1..RomCount
    BY CardTypes, RequestTypes DEF RomIndex, RomCount, InCatalog
  <1>2. Selected.start \in Units /\ SizeClass(Selected.type) \in Nat \ {0}
    BY <1>1, CardTypes DEF RomCount, Selected, HasStoredEnd
  <1>3. CardLen \in Nat
    BY ReaderAssumption DEF CardLen
  <1>. QED
    BY <1>2, <1>3 DEF StoredEnd, HasStoredEnd, RomUnits, Units

\* Trimming keeps all of the content.
LEMMA TrimmedKeeps ==
    ASSUME NEW used \in 1..CardLen
    PROVE  TrimmedSize(used) \in Nat /\ used =< TrimmedSize(used)
  <1>. DEFINE Fits(s) == used =< s /\ \A t \in SupportedSizes : used =< t => s =< t
  <1>1. CardLen \in Nat
    BY ReaderAssumption DEF CardLen
  <1>2. SupportedSizes \subseteq Nat /\ CardLen \in SupportedSizes
    BY <1>1 DEF SupportedSizes
  <1>3. \E s \in SupportedSizes : Fits(s)
    BY <1>1, <1>2 DEF SupportedSizes
  <1>4. TrimmedSize(used) \in SupportedSizes /\ Fits(TrimmedSize(used))
    BY <1>3 DEF TrimmedSize
  <1>. QED
    BY <1>2, <1>4

\* Nothing of a run changes its input.
LEMMA SameSelection ==
    ASSUME UNCHANGED input
    PROVE  /\ Selected' = Selected /\ InCatalog' = InCatalog
           /\ HasStoredEnd(Selected)' = HasStoredEnd(Selected)
           /\ StoredEnd(Selected)' = StoredEnd(Selected)
           /\ RomUnits(Selected)' = RomUnits(Selected)
           /\ LoaderOverlap' = LoaderOverlap
           /\ LoaderEnd' = LoaderEnd /\ HighestStart' = HighestStart
  <1>1. card' = card /\ request' = request
    BY DEF input
  <1>2. Selected' = Selected /\ InCatalog' = InCatalog
    BY <1>1 DEF Selected, InCatalog, RomIndex, RomCount
  <1>3. RomUnits(Selected)' = RomUnits(Selected)
    BY <1>2 DEF RomUnits, StoredEnd
  <1>4. LoaderEnd' = LoaderEnd /\ HighestStart' = HighestStart
    BY <1>1 DEF LoaderEnd, HighestStart, RomCount
  <1>. QED
    BY <1>1, <1>2, <1>3, <1>4
    DEF HasStoredEnd, StoredEnd, LoaderOverlap, RomCount

-----------------------------------------------------------------------------
(* How a step ends a run or moves it on. *)

LEMMA EndKeepsIInv ==
    ASSUME IInv, TypeOK', pc # "done", pc' = "done", UNCHANGED <<card, request, file>>,
           exit' # 0 \/ ~request.extract,
           step' = "inspect" => kind' = "ez3"
    PROVE  IInv'
  <1>1. FileInv'
    BY DEF IInv, FileInv, FileNeedsCleanup
  <1>2. MappingInv' /\ KindInv' /\ ImageInv'
    BY DEF MappingInv, MappingCoversExtent, KindInv, ImageInv, CatalogStages
  <1>3. ExtractionIsWhole'
    BY DEF ExtractionIsWhole, Stored
  <1>. QED
    BY <1>1, <1>2, <1>3 DEF IInv

LEMMA MoveKeepsIInv ==
    ASSUME IInv, TypeOK', pc # "done", pc' # "done", UNCHANGED <<card, request, file, exit>>,
           pc' = "store" => finished' = "ok",
           MappingInv', KindInv', ImageInv'
    PROVE  IInv'
  <1>1. FileInv'
    BY DEF IInv, FileInv, FileNeedsCleanup
  <1>2. ExtractionIsWhole'
    BY DEF IInv, FileInv, ExtractionIsWhole, Stored
  <1>. QED
    BY <1>1, <1>2 DEF IInv

Early == {"open", "branch", "loader_map", "loader", "header", "prime", "decide",
          "official", "starts_map", "headers", "select", "extent_map"}

\* Before the first block nothing has been read.
LEMMA EarlyKeepsIInv ==
    ASSUME IInv, TypeOK', UNCHANGED <<input, extraction, exit>>,
           pc \in Early, pc' \in Early \cup {"extract", "dump"},
           MappingInv', KindInv'
    PROVE  IInv'
  <1>1. off' = 0 /\ image' = {} /\ file' = file
    BY DEF IInv, ImageInv, extraction, Early
  <1>2. pc' = "extract" =>
            image' = {u \in RomUnits(Selected)' : u < Selected.start' + off'}
    <2>. SUFFICES ASSUME pc' = "extract"
                  PROVE  {u \in RomUnits(Selected) : u < Selected.start} = {}
      BY <1>1, SelectedExtent, SameSelection DEF KindInv, TypeOK, IInv, input, Units
    <2>1. Selected.start \in Units /\ StoredEnd(Selected) \in Units
      BY SelectedExtent, SameSelection DEF KindInv, TypeOK, IInv, input
    <2>. QED
      BY <2>1 DEF RomUnits, Units
  <1>3. {u \in Units : u < 0} = {}
    BY DEF Units
  <1>4. ImageInv'
    BY <1>1, <1>2, <1>3 DEF ImageInv, Early
  <1>. QED
    BY <1>1, <1>4, MoveKeepsIInv DEF input, Early

-----------------------------------------------------------------------------
(* The invariant across each action. *)

LEMMA InitIInv == Init => IInv
  <1>. SUFFICES ASSUME Init PROVE IInv
    OBVIOUS
  <1>1. TypeOK
    <2>1. faulted \in BOOLEAN
      BY DEF Init
    <2>. QED
      BY <2>1 DEF Init, TypeOK
  <1>2. FileInv /\ MappingInv /\ KindInv
    BY DEF Init, FileInv, FileNeedsCleanup, MappingInv, MappingCoversExtent,
           KindInv, CatalogStages
  <1>3. ImageInv /\ ExtractionIsWhole
    BY DEF Init, ImageInv, ExtractionIsWhole, Stored
  <1>. QED
    BY <1>1, <1>2, <1>3 DEF IInv

LEMMA OpenKeepsIInv == IInv /\ Open => IInv'
  <1>. SUFFICES ASSUME IInv, Open PROVE IInv'
    OBVIOUS
  <1>. USE DEF IInv
  <1>1. /\ pc = "open" /\ UNCHANGED <<card, request, off, image, file>>
        /\ UNCHANGED <<limit, step, finished>> /\ step = "classify"
    BY DEF Open, input, extraction, KindInv, TypeOK
  <1>2. TypeOK'
    <2>1. UNCHANGED <<card, request, limit, step, off, image, file, finished>>
      BY <1>1
    <2>2. map' \in 0..4 /\ kind' \in {"unknown", "ez3", "official"}
      BY DEF Open, TypeOK
    <2>3. pc' \in {"prime", "branch", "done"} /\ exit' \in -1..3
      BY DEF Open, TypeOK, Goto, Exit, FailWith
    <2>4. faulted' = faulted \/ faulted' = TRUE
      BY DEF Open, Goto, Exit, FailWith
    <2>5. faulted' \in BOOLEAN
      BY <2>4 DEF TypeOK
    <2>. QED
      BY <2>1, <2>2, <2>3, <2>5 DEF TypeOK
  <1>3. CASE pc' = "done"
    <2>1. exit' # 0
      BY <1>3 DEF Open, Goto, Exit, FailWith
    <2>. QED
      BY <1>1, <1>2, <1>3, <2>1, EndKeepsIInv
  <1>4. CASE pc' # "done"
    <2>1. pc' \in {"prime", "branch"} /\ map' = 1 /\ exit' = exit
      BY <1>4 DEF Open, Goto, Exit, FailWith
    <2>. QED
      BY <1>1, <1>2, <2>1, EarlyKeepsIInv
      DEF Early, MappingInv, MappingCoversExtent, KindInv, CatalogStages, input,
          extraction
  <1>. QED
    BY <1>3, <1>4

\* A step that leaves the mapping, the class and the blocks alone.
LEMMA PlainTypes ==
    ASSUME TypeOK, UNCHANGED <<input, limit, map, extraction>>,
           pc' \in Early \cup {"dump", "extract", "done"},
           kind' \in {"unknown", "ez3", "official"},
           step' \in {"classify", "inspect"},
           finished' \in {"no", "ok", "failed"},
           IF pc' = "done" THEN exit' \in 0..3 ELSE exit' = exit,
           faulted' = faulted \/ faulted' = TRUE
    PROVE  TypeOK'
  <1>1. faulted' \in BOOLEAN
    BY DEF TypeOK
  <1>2. exit' \in -1..3
    BY DEF TypeOK
  <1>. QED
    BY <1>1, <1>2 DEF TypeOK, Early, input, extraction

LEMMA ReadBranchKeepsIInv == IInv /\ ReadBranch => IInv'
  <1>. SUFFICES ASSUME IInv, ReadBranch PROVE IInv'
    OBVIOUS
  <1>. USE DEF IInv
  <1>1. /\ pc = "branch" /\ UNCHANGED <<input, extraction>>
        /\ UNCHANGED <<kind, limit, map, step, finished>>
    BY DEF ReadBranch
  <1>2. /\ pc' \in {"loader_map", "loader", "header", "done"}
        /\ pc' = "header" => step = "classify"
        /\ IF pc' = "done" THEN exit' \in {2, 3} ELSE exit' = exit
        /\ faulted' = faulted \/ faulted' = TRUE
    BY DEF ReadBranch, NoCatalog, CatalogReadFailed, Goto, Exit, FailWith
  <1>3. TypeOK'
    <2>1. /\ pc' \in Early \cup {"dump", "extract", "done"}
          /\ kind' \in {"unknown", "ez3", "official"}
          /\ step' \in {"classify", "inspect"}
          /\ finished' \in {"no", "ok", "failed"}
          /\ IF pc' = "done" THEN exit' \in 0..3 ELSE exit' = exit
      BY <1>1, <1>2 DEF TypeOK, Early
    <2>. QED
      BY <1>1, <1>2, <2>1, PlainTypes
  <1>4. CASE pc' = "done"
    BY <1>1, <1>2, <1>3, <1>4, EndKeepsIInv
    DEF MappingInv, KindInv, input, extraction
  <1>5. CASE pc' # "done"
    <2>1. pc' = "loader_map" => limit < RequiredLimit(LoaderEnd)
      <3>1. RequiredLimit(LoaderEnd) \in 1..4
        BY LoaderEndOnCard, LimitCovers DEF TypeOK
      <3>. QED
        BY <3>1 DEF ReadBranch, NoCatalog, CatalogReadFailed, Goto, Exit, FailWith,
                    TypeOK
    <2>2. MappingInv'
      <3>1. LoaderEnd' = LoaderEnd /\ limit' = limit /\ map' = map
        BY <1>1, SameSelection
      <3>. QED
        BY <1>1, <1>2, <1>5, <2>1, <3>1
        DEF MappingInv, MappingCoversExtent, CatalogStages, RequiredLimit
    <2>. QED
      BY <1>1, <1>2, <1>3, <1>5, <2>2, EarlyKeepsIInv
      DEF Early, KindInv, CatalogStages
  <1>. QED
    BY <1>4, <1>5

\* A mapping sequence, for an address of the card.
LEMMA PrepareOutcome ==
    ASSUME TypeOK, pc \notin {"open", "done"}, MappingInv, NEW a \in Units,
           RequiredLimit(a) > limit,
           Prepared(RequiredLimit(a)) \/ PrepareFails(RequiredLimit(a))
    PROVE  /\ limit' \in 1..4 /\ map' \in 0..4
           /\ map' = 0 \/ limit' =< map'
  BY LimitCovers DEF Prepared, PrepareFails, MappingInv, TypeOK

LEMMA PrepareForLoaderKeepsIInv == IInv /\ PrepareForLoader => IInv'
  <1>. SUFFICES ASSUME IInv, PrepareForLoader PROVE IInv'
    OBVIOUS
  <1>. USE DEF IInv
  <1>1. /\ pc = "loader_map" /\ UNCHANGED <<input, extraction>>
        /\ UNCHANGED <<kind, step, finished>>
    BY DEF PrepareForLoader
  <1>2. /\ pc' \in {"loader", "header", "done"}
        /\ pc' = "header" => step = "classify"
        /\ IF pc' = "done" THEN exit' = 2 ELSE exit' = exit
        /\ faulted' = faulted \/ faulted' = TRUE
    BY DEF PrepareForLoader, CatalogReadFailed, Goto, FailWith
  <1>3. /\ limit' \in 1..4 /\ map' \in 0..4
        /\ map' = 0 \/ limit' =< map'
    <2>1. LoaderEnd \in Units /\ limit < RequiredLimit(LoaderEnd)
      BY <1>1, LoaderEndOnCard DEF TypeOK, MappingInv
    <2>. QED
      BY <1>1, <2>1, PrepareOutcome DEF PrepareForLoader
  <1>4. TypeOK'
    <2>1. faulted' \in BOOLEAN
      BY <1>2 DEF TypeOK
    <2>. QED
      BY <1>1, <1>2, <1>3, <2>1 DEF TypeOK, input, extraction
  <1>5. CASE pc' = "done"
    BY <1>1, <1>2, <1>3, <1>4, <1>5, EndKeepsIInv DEF KindInv, input, extraction
  <1>6. CASE pc' # "done"
    BY <1>1, <1>2, <1>3, <1>4, <1>6, EarlyKeepsIInv
    DEF Early, MappingInv, MappingCoversExtent, KindInv, CatalogStages
  <1>. QED
    BY <1>5, <1>6

LEMMA ReadLoaderKeepsIInv == IInv /\ ReadLoader => IInv'
  <1>. SUFFICES ASSUME IInv, ReadLoader PROVE IInv'
    OBVIOUS
  <1>. USE DEF IInv
  <1>1. /\ pc = "loader" /\ UNCHANGED <<input, extraction>>
        /\ UNCHANGED <<limit, map, step, finished>>
    BY DEF ReadLoader
  <1>2. /\ pc' \in {"prime", "headers", "starts_map", "header", "done"}
        /\ IF pc' = "done" THEN exit' \in {2, 3} ELSE exit' = exit
        /\ faulted' = faulted \/ faulted' = TRUE
        /\ kind' = kind \/ kind' = "ez3"
        /\ step = "inspect" => kind' = kind
    BY DEF ReadLoader, CatalogFound, NoCatalog, CatalogReadFailed, Goto, Exit, FailWith
  <1>3. /\ pc' \in {"header", "prime"} => step = "classify"
        /\ pc' \in {"headers", "starts_map"} =>
            step # "classify" /\ card.kind = "ez3" /\ Shows(LoaderEnd)
    BY DEF ReadLoader, CatalogFound, NoCatalog, CatalogReadFailed, Goto, Exit, FailWith
  <1>4. TypeOK'
    <2>1. /\ pc' \in Early \cup {"dump", "extract", "done"}
          /\ kind' \in {"unknown", "ez3", "official"}
          /\ step' \in {"classify", "inspect"}
          /\ finished' \in {"no", "ok", "failed"}
          /\ IF pc' = "done" THEN exit' \in 0..3 ELSE exit' = exit
      BY <1>1, <1>2 DEF TypeOK, Early
    <2>. QED
      BY <1>1, <1>2, <2>1, PlainTypes
  <1>5. CASE pc' = "done"
    BY <1>1, <1>2, <1>4, <1>5, EndKeepsIInv DEF MappingInv, KindInv, input, extraction
  <1>6. CASE pc' # "done"
    <2>1. MappingInv'
      <3>1. pc' \in {"headers", "starts_map"} => map # 0
        BY <1>3, LoaderEndOnCard, ReaderAssumption DEF Shows, TypeOK, Units
      <3>. QED
        BY <1>1, <1>2, <1>6, <3>1
        DEF MappingInv, MappingCoversExtent, CatalogStages
    <2>2. KindInv'
      BY <1>1, <1>2, <1>3, <1>6 DEF KindInv, CatalogStages, TypeOK, input
    <2>. QED
      BY <1>1, <1>2, <1>4, <1>6, <2>1, <2>2, EarlyKeepsIInv DEF Early
  <1>. QED
    BY <1>5, <1>6

LEMMA ClassifyKeepsIInv == IInv /\ (ClassifyByHeader \/ Prime) => IInv'
  <1>. SUFFICES ASSUME IInv, ClassifyByHeader \/ Prime PROVE IInv'
    OBVIOUS
  <1>. USE DEF IInv
  <1>1. /\ pc \in {"header", "prime"} /\ UNCHANGED <<input, extraction>>
        /\ UNCHANGED <<limit, map, step, finished>>
    BY DEF ClassifyByHeader, Prime
  <1>2. /\ pc' \in {"decide", "prime", "done"}
        /\ IF pc' = "done" THEN exit' = 2 ELSE exit' = exit
        /\ faulted' = faulted \/ faulted' = TRUE
        /\ kind' \in {kind, "ez3", "official"}
    BY DEF ClassifyByHeader, Prime, Goto, Exit, FailWith
  <1>3. step # "inspect"
    BY <1>1 DEF KindInv
  <1>4. TypeOK'
    <2>1. /\ pc' \in Early \cup {"dump", "extract", "done"}
          /\ kind' \in {"unknown", "ez3", "official"}
          /\ step' \in {"classify", "inspect"}
          /\ finished' \in {"no", "ok", "failed"}
          /\ IF pc' = "done" THEN exit' \in 0..3 ELSE exit' = exit
      BY <1>1, <1>2 DEF TypeOK, Early
    <2>. QED
      BY <1>1, <1>2, <2>1, PlainTypes
  <1>5. CASE pc' = "done"
    BY <1>1, <1>2, <1>3, <1>4, <1>5, EndKeepsIInv DEF MappingInv, input, extraction
  <1>6. CASE pc' # "done"
    BY <1>1, <1>2, <1>3, <1>4, <1>6, EarlyKeepsIInv
    DEF Early, MappingInv, MappingCoversExtent, KindInv, CatalogStages
  <1>. QED
    BY <1>5, <1>6

LEMMA DecideKeepsIInv == IInv /\ Decide => IInv'
  <1>. SUFFICES ASSUME IInv, Decide PROVE IInv'
    OBVIOUS
  <1>. USE DEF IInv
  <1>1. /\ pc = "decide" /\ UNCHANGED <<input, extraction>>
        /\ UNCHANGED <<kind, limit, map>> /\ step # "inspect"
    BY DEF Decide, KindInv
  <1>2. /\ pc' \in {"branch", "dump", "official", "done"}
        /\ IF pc' = "done" THEN exit' \in {1, 2} ELSE exit' = exit
        /\ faulted' = faulted \/ faulted' = TRUE
        /\ finished' \in {finished, "ok", "failed"}
        /\ IF pc' = "branch" THEN step' = "inspect" /\ kind = "ez3"
           ELSE step' = step /\ kind = "official"
        /\ pc' = "official" => ~request.extract
    BY DEF Decide, Goto, FailWith, FinishThen
  <1>3. TypeOK'
    <2>1. /\ pc' \in Early \cup {"dump", "extract", "done"}
          /\ kind' \in {"unknown", "ez3", "official"}
          /\ step' \in {"classify", "inspect"}
          /\ finished' \in {"no", "ok", "failed"}
          /\ IF pc' = "done" THEN exit' \in 0..3 ELSE exit' = exit
      BY <1>1, <1>2 DEF TypeOK, Early
    <2>. QED
      BY <1>1, <1>2, <2>1, PlainTypes
  <1>4. CASE pc' = "done"
    BY <1>1, <1>2, <1>3, <1>4, EndKeepsIInv DEF MappingInv, input, extraction
  <1>5. CASE pc' # "done"
    BY <1>1, <1>2, <1>3, <1>5, EarlyKeepsIInv
    DEF Early, MappingInv, MappingCoversExtent, KindInv, CatalogStages, input
  <1>. QED
    BY <1>4, <1>5

LEMMA OfficialKeepsIInv == IInv /\ InspectOfficial => IInv'
  <1>. SUFFICES ASSUME IInv, InspectOfficial PROVE IInv'
    OBVIOUS
  <1>. USE DEF IInv
  <1>1. /\ pc = "official" /\ pc' = "done" /\ UNCHANGED <<input, extraction>>
        /\ UNCHANGED <<kind, limit, map, step>>
        /\ exit' \in {0, 2, 3} /\ finished' \in {"ok", "failed"}
        /\ faulted' = faulted \/ faulted' = TRUE
    BY DEF InspectOfficial, FinishThen, FailAfterCleanup, FailWith
  <1>2. TypeOK'
    <2>1. /\ pc' \in Early \cup {"dump", "extract", "done"}
          /\ kind' \in {"unknown", "ez3", "official"}
          /\ step' \in {"classify", "inspect"}
          /\ finished' \in {"no", "ok", "failed"}
          /\ IF pc' = "done" THEN exit' \in 0..3 ELSE exit' = exit
      BY <1>1 DEF TypeOK, Early
    <2>. QED
      BY <1>1, <2>1, PlainTypes
  <1>. QED
    BY <1>1, <1>2, EndKeepsIInv DEF MappingInv, KindInv, input, extraction

LEMMA PrepareForStartsKeepsIInv == IInv /\ PrepareForStarts => IInv'
  <1>. SUFFICES ASSUME IInv, PrepareForStarts PROVE IInv'
    OBVIOUS
  <1>. USE DEF IInv
  <1>1. /\ pc = "starts_map" /\ UNCHANGED <<input, extraction>>
        /\ UNCHANGED <<kind, step, finished>>
    BY DEF PrepareForStarts
  <1>2. \/ pc' = "headers" /\ limit' = map' /\ exit' = exit /\ faulted' = faulted
           /\ limit' = RequiredLimit(HighestStart)
        \/ pc' = "done" /\ exit' = 2 /\ faulted' = TRUE /\ limit' = limit
           /\ map' \in {map, RequiredLimit(HighestStart), 0}
    BY DEF PrepareForStarts, Prepared, PrepareFails, Goto, FailWith
  <1>3. RequiredLimit(HighestStart) \in 1..4
    BY <1>1, HighestStartOnCard, LimitCovers DEF KindInv, CatalogStages, TypeOK
  <1>4. TypeOK'
    <2>1. faulted' \in BOOLEAN
      BY <1>2 DEF TypeOK
    <2>2. limit' \in 1..4 /\ map' \in 0..4
      BY <1>2, <1>3 DEF TypeOK
    <2>. QED
      BY <1>1, <1>2, <2>1, <2>2 DEF TypeOK, input, extraction
  <1>5. CASE pc' = "done"
    BY <1>1, <1>2, <1>4, <1>5, EndKeepsIInv DEF KindInv, input, extraction
  <1>6. CASE pc' # "done"
    <2>1. limit' =< map'
      BY <1>2, <1>3, <1>6
    <2>2. MappingInv' /\ KindInv'
      BY <1>1, <1>2, <1>6, <2>1
      DEF MappingInv, MappingCoversExtent, KindInv, CatalogStages, input
    <2>. QED
      BY <1>1, <1>2, <1>4, <1>6, <2>2, EarlyKeepsIInv DEF Early
  <1>. QED
    BY <1>5, <1>6

LEMMA ReadHeadersKeepsIInv == IInv /\ ReadHeaders => IInv'
  <1>. SUFFICES ASSUME IInv, ReadHeaders PROVE IInv'
    OBVIOUS
  <1>. USE DEF IInv
  <1>1. /\ pc = "headers" /\ UNCHANGED <<input, extraction>>
        /\ UNCHANGED <<kind, limit, map, step>>
    BY DEF ReadHeaders
  <1>2. /\ \/ pc' = "select" /\ exit' = exit
           \/ pc' = "done" /\ exit' \in {0, 2} /\ ~request.extract
        /\ faulted' = faulted \/ faulted' = TRUE
        /\ finished' \in {finished, "ok", "failed"}
    BY DEF ReadHeaders, FinishThen, FailAfterCleanup, FailWith
  <1>3. TypeOK'
    <2>1. /\ pc' \in Early \cup {"dump", "extract", "done"}
          /\ kind' \in {"unknown", "ez3", "official"}
          /\ step' \in {"classify", "inspect"}
          /\ finished' \in {"no", "ok", "failed"}
          /\ IF pc' = "done" THEN exit' \in 0..3 ELSE exit' = exit
      BY <1>1, <1>2 DEF TypeOK, Early
    <2>. QED
      BY <1>1, <1>2, <2>1, PlainTypes
  <1>4. CASE pc' = "done"
    BY <1>1, <1>2, <1>3, <1>4, EndKeepsIInv DEF KindInv, input, extraction
  <1>5. CASE pc' # "done"
    BY <1>1, <1>2, <1>3, <1>5, EarlyKeepsIInv
    DEF Early, MappingInv, MappingCoversExtent, KindInv, CatalogStages, input
  <1>. QED
    BY <1>4, <1>5

LEMMA SelectRomKeepsIInv == IInv /\ SelectRom => IInv'
  <1>. SUFFICES ASSUME IInv, SelectRom PROVE IInv'
    OBVIOUS
  <1>. USE DEF IInv
  <1>1. /\ pc = "select" /\ UNCHANGED <<input, extraction>>
        /\ UNCHANGED <<kind, limit, map, step>>
    BY DEF SelectRom
  <1>2. /\ \/ /\ pc' \in {"extent_map", "extract"} /\ exit' = exit
              /\ InCatalog /\ HasStoredEnd(Selected)
           \/ pc' = "done" /\ exit' \in {1, 2, 3}
        /\ faulted' = faulted \/ faulted' = TRUE
        /\ finished' \in {finished, "ok", "failed"}
    BY DEF SelectRom, FinishThen, FailWith, Goto
  <1>3. TypeOK'
    <2>1. /\ pc' \in Early \cup {"dump", "extract", "done"}
          /\ kind' \in {"unknown", "ez3", "official"}
          /\ step' \in {"classify", "inspect"}
          /\ finished' \in {"no", "ok", "failed"}
          /\ IF pc' = "done" THEN exit' \in 0..3 ELSE exit' = exit
      BY <1>1, <1>2 DEF TypeOK, Early
    <2>. QED
      BY <1>1, <1>2, <2>1, PlainTypes
  <1>4. CASE pc' = "done"
    BY <1>1, <1>2, <1>3, <1>4, EndKeepsIInv DEF KindInv, input, extraction
  <1>5. CASE pc' # "done"
    <2>1. InCatalog /\ HasStoredEnd(Selected)
      BY <1>2, <1>5
    <2>2. RequiredLimit(StoredEnd(Selected)) \in 1..4
      BY <2>1, SelectedExtent, LimitCovers DEF TypeOK
    <2>3. limit =< map
      BY <1>1 DEF MappingInv, CatalogStages
    <2>4. pc' = "extract" => RequiredLimit(StoredEnd(Selected)) =< map
      <3>1. pc' = "extract" => ~(RequiredLimit(StoredEnd(Selected)) > limit)
        BY DEF SelectRom, FinishThen, FailWith, Goto, NeededForExtent
      <3>. QED
        BY <2>2, <2>3, <3>1 DEF TypeOK
    <2>5. StoredEnd(Selected)' = StoredEnd(Selected) /\ map' = map /\ limit' = limit
      BY <1>1, SameSelection
    <2>6. MappingInv'
      BY <1>2, <1>5, <2>3, <2>4, <2>5
      DEF MappingInv, MappingCoversExtent, RequiredLimit, CatalogStages
    <2>7. InCatalog' /\ HasStoredEnd(Selected)'
      BY <1>1, <2>1, SameSelection
    <2>8. KindInv'
      BY <1>1, <1>2, <1>5, <2>7 DEF KindInv, CatalogStages, input
    <2>. QED
      BY <1>1, <1>2, <1>3, <1>5, <2>6, <2>8, EarlyKeepsIInv DEF Early
  <1>. QED
    BY <1>4, <1>5

LEMMA PrepareForExtentKeepsIInv == IInv /\ PrepareForExtent => IInv'
  <1>. SUFFICES ASSUME IInv, PrepareForExtent PROVE IInv'
    OBVIOUS
  <1>. USE DEF IInv
  <1>1. /\ pc = "extent_map" /\ UNCHANGED <<input, extraction>>
        /\ UNCHANGED <<kind, step>>
    BY DEF PrepareForExtent
  <1>2. /\ \/ /\ pc' = "extract" /\ exit' = exit
              /\ map' = RequiredLimit(StoredEnd(Selected)) /\ limit' = map'
           \/ /\ pc' = "done" /\ exit' = 2 /\ limit' = limit
              /\ map' \in {map, RequiredLimit(StoredEnd(Selected)), 0}
        /\ faulted' = faulted \/ faulted' = TRUE
        /\ finished' \in {finished, "ok", "failed"}
    BY DEF PrepareForExtent, Prepared, PrepareFails, FailAfterCleanup, FailWith, Goto,
           NeededForExtent
  <1>3. RequiredLimit(StoredEnd(Selected)) \in 1..4
    BY <1>1, SelectedExtent, LimitCovers DEF KindInv, TypeOK
  <1>4. TypeOK'
    <2>1. faulted' \in BOOLEAN
      BY <1>2 DEF TypeOK
    <2>2. limit' \in 1..4 /\ map' \in 0..4
      BY <1>2, <1>3 DEF TypeOK
    <2>. QED
      BY <1>1, <1>2, <2>1, <2>2 DEF TypeOK, input, extraction
  <1>5. CASE pc' = "done"
    BY <1>1, <1>2, <1>4, <1>5, EndKeepsIInv DEF KindInv, input, extraction
  <1>6. CASE pc' # "done"
    <2>1. limit' =< map' /\ RequiredLimit(StoredEnd(Selected)) =< map'
      BY <1>2, <1>3, <1>6
    <2>2. MappingInv'
      <3>1. StoredEnd(Selected)' = StoredEnd(Selected)
        BY <1>1, SameSelection
      <3>. QED
        BY <1>2, <1>6, <2>1, <3>1
        DEF MappingInv, MappingCoversExtent, RequiredLimit, CatalogStages
    <2>3. KindInv'
      <3>1. InCatalog' /\ HasStoredEnd(Selected)'
        BY <1>1, SameSelection DEF KindInv
      <3>. QED
        BY <1>1, <1>2, <1>6, <3>1 DEF KindInv, CatalogStages, input
    <2>. QED
      BY <1>1, <1>2, <1>4, <1>6, <2>2, <2>3, EarlyKeepsIInv DEF Early
  <1>. QED
    BY <1>5, <1>6

LEMMA DumpBlockKeepsIInv == IInv /\ DumpBlock => IInv'
  <1>. SUFFICES ASSUME IInv, DumpBlock PROVE IInv'
    OBVIOUS
  <1>. USE DEF IInv
  <1>1. /\ pc = "dump" /\ UNCHANGED input
        /\ UNCHANGED <<kind, limit, map, step, file>>
    BY DEF DumpBlock
  <1>2. \/ /\ pc' = "dump" /\ exit' = exit /\ faulted' = faulted
           /\ finished' = finished
           /\ image' = Kept(0, CardLen) /\ off' = off + Block
        \/ /\ pc' = "done" /\ exit' \in {2, 3} /\ faulted' = TRUE
           /\ finished' \in {"ok", "failed"} /\ UNCHANGED <<off, image>>
    BY DEF DumpBlock, Goto, FailWith, NextOffset
  <1>3. Block \in Nat /\ CardLen \in Nat
    BY ReaderAssumption DEF CardLen
  <1>4. TypeOK'
    <2>1. faulted' \in BOOLEAN
      BY <1>2 DEF TypeOK
    <2>2. image' \in SUBSET Units /\ off' \in Nat
      BY <1>2, <1>3 DEF TypeOK, Kept, BlockUnits
    <2>. QED
      BY <1>1, <1>2, <2>1, <2>2 DEF TypeOK, input
  <1>5. CASE pc' = "done"
    BY <1>1, <1>2, <1>4, <1>5, EndKeepsIInv DEF KindInv, input
  <1>6. CASE pc' # "done"
    <2>1. /\ pc' = "dump" /\ exit' = exit /\ off' = off + Block
          /\ image' = Kept(0, CardLen)
      BY <1>2, <1>6
    <2>2. card.kind = "official" => image' = {u \in Units : u < off + Block}
      <3>. SUFFICES ASSUME card.kind = "official"
                    PROVE  Kept(0, CardLen) = {u \in Units : u < off + Block}
        BY <2>1
      <3>1. image = {u \in Units : u < off}
        BY <1>1 DEF ImageInv
      <3>2. Kept(0, CardLen) = image \cup BlockUnits(0, CardLen)
        BY DEF Kept, Shows, BlockUnits
      <3>3. off \in Nat /\ Units \subseteq Nat
        BY DEF TypeOK, Units
      <3>4. \A u \in Units : u \in BlockUnits(0, CardLen)
                              <=> off =< u /\ u < off + Block
        BY <1>3, <3>3 DEF BlockUnits, Units
      <3>5. BlockUnits(0, CardLen) \subseteq Units
        BY DEF BlockUnits
      <3>6. \A u \in Units : u \in Kept(0, CardLen) <=> u < off + Block
        BY <1>3, <3>1, <3>2, <3>3, <3>4
      <3>. QED
        BY <3>1, <3>2, <3>5, <3>6
    <2>3. MappingInv' /\ KindInv'
      BY <1>1, <2>1
      DEF MappingInv, MappingCoversExtent, KindInv, CatalogStages, input
    <2>4. ImageInv'
      BY <1>1, <2>1, <2>2 DEF ImageInv, input
    <2>. QED
      BY <1>1, <1>4, <2>1, <2>3, <2>4, MoveKeepsIInv DEF input
  <1>. QED
    BY <1>5, <1>6

LEMMA DumpDoneKeepsIInv == IInv /\ DumpDone => IInv'
  <1>. SUFFICES ASSUME IInv, DumpDone PROVE IInv'
    OBVIOUS
  <1>. USE DEF IInv
  <1>1. /\ pc = "dump" /\ pc' = "close" /\ UNCHANGED <<input, extraction>>
        /\ UNCHANGED <<kind, limit, map, step, finished, exit, faulted>>
        /\ off >= CardLen
    BY DEF DumpDone, Goto
  <1>2. TypeOK'
    BY <1>1 DEF TypeOK, input, extraction
  <1>3. MappingInv' /\ KindInv'
    BY <1>1 DEF MappingInv, MappingCoversExtent, KindInv, CatalogStages, input
  <1>4. ImageInv'
    <2>1. CardLen \in Nat
      BY ReaderAssumption DEF CardLen
    <2>2. card.kind = "official" => image = Units
      <3>1. card.kind = "official" => image = {u \in Units : u < off}
        BY <1>1 DEF ImageInv
      <3>2. \A u \in Units : u < off
        BY <1>1, <2>1 DEF Units, TypeOK
      <3>. QED
        BY <3>1, <3>2
    <2>. QED
      BY <1>1, <2>2 DEF ImageInv, KindInv, input, extraction
  <1>. QED
    BY <1>1, <1>2, <1>3, <1>4, MoveKeepsIInv DEF input, extraction

\* A block of the selected ROM is read through a mapping that shows it.
LEMMA BlockIsShown ==
    ASSUME TypeOK, MappingInv, KindInv, ImageInv, pc = "extract"
    PROVE  Kept(Selected.start, SizeClass(Selected.type))
             = {u \in RomUnits(Selected) : u < Selected.start + off + Block}
  <1>. DEFINE first == Selected.start
              len == SizeClass(Selected.type)
              end == StoredEnd(Selected)
  <1>1. /\ first \in Units /\ end \in Units /\ len \in Nat \ {0}
        /\ end = first + len - 1 /\ RomUnits(Selected) \subseteq Units
        /\ RomUnits(Selected) = first..end
    BY SelectedExtent DEF KindInv, TypeOK, RomUnits
  <1>2. image = {u \in RomUnits(Selected) : u < first + off}
    BY DEF ImageInv
  <1>3. \A u \in RomUnits(Selected) : Shows(u)
    <2>1. end < map * Quarter
      BY <1>1, HigherCovers DEF MappingInv, MappingCoversExtent, TypeOK
    <2>2. map * Quarter \in Nat
      BY ReaderAssumption DEF TypeOK
    <2>. HIDE DEF end
    <2>. QED
      BY <1>1, <2>1, <2>2 DEF Shows, Units
  <1>4. off \in Nat /\ Block \in Nat
    BY ReaderAssumption DEF TypeOK
  <1>. HIDE DEF first, len, end
  <1>5. BlockUnits(first, len)
          = {u \in RomUnits(Selected) : first + off =< u /\ u < first + off + Block}
    BY <1>1, <1>4 DEF BlockUnits, Units
  <1>6. Kept(first, len) = image \cup BlockUnits(first, len)
    BY <1>3, <1>5 DEF Kept
  <1>7. Kept(first, len) = {u \in RomUnits(Selected) : u < first + off + Block}
    BY <1>1, <1>2, <1>4, <1>5, <1>6 DEF Units
  <1>. QED
    BY <1>7 DEF first, len

LEMMA ExtractBlockKeepsIInv == IInv /\ ExtractBlock => IInv'
  <1>. SUFFICES ASSUME IInv, ExtractBlock PROVE IInv'
    OBVIOUS
  <1>. USE DEF IInv
  <1>1. /\ pc = "extract" /\ UNCHANGED input
        /\ UNCHANGED <<kind, limit, map, step, file>>
    BY DEF ExtractBlock
  <1>2. \/ /\ pc' = "extract" /\ exit' = exit /\ faulted' = faulted
           /\ finished' = finished /\ off' = off + Block
           /\ image' = Kept(Selected.start, SizeClass(Selected.type))
        \/ /\ pc' = "done" /\ exit' = 2 /\ faulted' = TRUE
           /\ finished' \in {"ok", "failed"} /\ UNCHANGED <<off, image>>
    BY DEF ExtractBlock, Goto, FailAfterCleanup, FailWith, NextOffset
  <1>3. Block \in Nat
    BY ReaderAssumption
  <1>4. TypeOK'
    <2>1. faulted' \in BOOLEAN
      BY <1>2 DEF TypeOK
    <2>2. image' \in SUBSET Units /\ off' \in Nat
      BY <1>2, <1>3 DEF TypeOK, Kept, BlockUnits
    <2>. QED
      BY <1>1, <1>2, <2>1, <2>2 DEF TypeOK, input
  <1>5. CASE pc' = "done"
    BY <1>1, <1>2, <1>4, <1>5, EndKeepsIInv DEF KindInv, input
  <1>6. CASE pc' # "done"
    <2>1. /\ pc' = "extract" /\ exit' = exit /\ off' = off + Block
          /\ image' = Kept(Selected.start, SizeClass(Selected.type))
      BY <1>2, <1>6
    <2>2. /\ Selected' = Selected /\ RomUnits(Selected)' = RomUnits(Selected)
          /\ StoredEnd(Selected)' = StoredEnd(Selected)
          /\ InCatalog' = InCatalog
          /\ HasStoredEnd(Selected)' = HasStoredEnd(Selected)
      BY <1>1, SameSelection
    <2>3. Selected.start \in Nat /\ off \in Nat
      BY <1>1, SelectedExtent DEF KindInv, TypeOK, Units
    <2>4. Selected.start + off + Block = Selected.start + off'
      BY <1>3, <2>1, <2>3
    <2>5. image' = {u \in RomUnits(Selected) : u < Selected.start + off'}
      BY <1>1, <2>1, <2>4, BlockIsShown
    <2>6. MappingInv' /\ KindInv'
      BY <1>1, <2>1, <2>2
      DEF MappingInv, MappingCoversExtent, KindInv, CatalogStages, input, RequiredLimit
    <2>7. ImageInv'
      BY <2>1, <2>2, <2>5 DEF ImageInv
    <2>. QED
      BY <1>1, <1>4, <2>1, <2>6, <2>7, MoveKeepsIInv DEF input
  <1>. QED
    BY <1>5, <1>6

LEMMA ExtractDoneKeepsIInv == IInv /\ ExtractDone => IInv'
  <1>. SUFFICES ASSUME IInv, ExtractDone PROVE IInv'
    OBVIOUS
  <1>. USE DEF IInv
  <1>1. /\ pc = "extract" /\ pc' = "reconstruct" /\ UNCHANGED <<input, extraction>>
        /\ UNCHANGED <<kind, limit, map, step, finished, exit, faulted>>
        /\ off >= SizeClass(Selected.type)
    BY DEF ExtractDone, Goto
  <1>2. TypeOK'
    BY <1>1 DEF TypeOK, input, extraction
  <1>3. /\ RomUnits(Selected)' = RomUnits(Selected) /\ InCatalog' = InCatalog
        /\ HasStoredEnd(Selected)' = HasStoredEnd(Selected)
    BY <1>1, SameSelection
  <1>4. MappingInv' /\ KindInv'
    BY <1>1, <1>3 DEF MappingInv, MappingCoversExtent, KindInv, CatalogStages, input
  <1>5. image = RomUnits(Selected)
    <2>1. /\ Selected.start \in Nat /\ SizeClass(Selected.type) \in Nat
          /\ StoredEnd(Selected) = Selected.start + SizeClass(Selected.type) - 1
      BY <1>1, SelectedExtent DEF KindInv, TypeOK, Units
    <2>2. image = {u \in RomUnits(Selected) : u < Selected.start + off}
      BY <1>1 DEF ImageInv
    <2>3. \A u \in RomUnits(Selected) : u < Selected.start + off
      BY <1>1, <2>1 DEF RomUnits, TypeOK
    <2>. QED
      BY <2>2, <2>3
  <1>6. ImageInv'
    BY <1>1, <1>3, <1>5 DEF ImageInv, extraction
  <1>. QED
    BY <1>1, <1>2, <1>4, <1>6, MoveKeepsIInv DEF input, extraction

LEMMA ReconstructKeepsIInv == IInv /\ Reconstruct => IInv'
  <1>. SUFFICES ASSUME IInv, Reconstruct PROVE IInv'
    OBVIOUS
  <1>. USE DEF IInv
  <1>1. /\ pc = "reconstruct" /\ UNCHANGED <<card, request, off, file>>
        /\ UNCHANGED <<kind, limit, map, step>>
        /\ image' = image \ LoaderOverlap
    BY DEF Reconstruct, input
  <1>2. /\ \/ pc' = "close" /\ exit' = exit
           \/ pc' = "done" /\ exit' \in {2, 3}
        /\ faulted' = faulted \/ faulted' = TRUE
        /\ finished' \in {finished, "ok", "failed"}
    BY DEF Reconstruct, Goto, FinishThen, FailWith
  <1>3. TypeOK'
    <2>1. faulted' \in BOOLEAN
      BY <1>2 DEF TypeOK
    <2>2. image' \in SUBSET Units
      BY <1>1 DEF TypeOK
    <2>. QED
      BY <1>1, <1>2, <2>1, <2>2 DEF TypeOK
  <1>4. CASE pc' = "done"
    BY <1>1, <1>2, <1>3, <1>4, EndKeepsIInv DEF KindInv
  <1>5. CASE pc' # "done"
    <2>1. /\ RomUnits(Selected)' = RomUnits(Selected)
          /\ LoaderOverlap' = LoaderOverlap
      BY <1>1, SameSelection DEF input
    <2>2. MappingInv' /\ KindInv'
      BY <1>1, <1>2, <1>5
      DEF MappingInv, MappingCoversExtent, KindInv, CatalogStages
    <2>3. image = RomUnits(Selected) /\ kind = "ez3"
      BY <1>1 DEF ImageInv, KindInv, CatalogStages
    <2>4. ImageInv'
      BY <1>1, <1>2, <1>5, <2>1, <2>3 DEF ImageInv
    <2>. QED
      BY <1>1, <1>2, <1>3, <1>5, <2>2, <2>4, MoveKeepsIInv
  <1>. QED
    BY <1>4, <1>5

LEMMA CloseKeepsIInv == IInv /\ Close => IInv'
  <1>. SUFFICES ASSUME IInv, Close PROVE IInv'
    OBVIOUS
  <1>. USE DEF IInv
  <1>1. /\ pc = "close" /\ UNCHANGED <<input, extraction>>
        /\ UNCHANGED <<kind, limit, map, step>>
    BY DEF Close
  <1>2. /\ \/ pc' = "store" /\ finished' = "ok" /\ exit' = exit
           \/ pc' = "done" /\ finished' = "failed" /\ exit' = 2
        /\ faulted' = faulted \/ faulted' = TRUE
    BY DEF Close, Goto, FailWith
  <1>3. TypeOK'
    <2>1. faulted' \in BOOLEAN
      BY <1>2 DEF TypeOK
    <2>. QED
      BY <1>1, <1>2, <2>1 DEF TypeOK, input, extraction
  <1>4. CASE pc' = "done"
    BY <1>1, <1>2, <1>3, <1>4, EndKeepsIInv DEF KindInv, input, extraction
  <1>5. CASE pc' # "done"
    <2>1. /\ RomUnits(Selected)' = RomUnits(Selected)
          /\ LoaderOverlap' = LoaderOverlap
      BY <1>1, SameSelection
    <2>2. MappingInv' /\ KindInv'
      BY <1>1, <1>2, <1>5
      DEF MappingInv, MappingCoversExtent, KindInv, CatalogStages
    <2>3. ImageInv'
      BY <1>1, <1>2, <1>5, <2>1 DEF ImageInv, input, extraction
    <2>. QED
      BY <1>1, <1>2, <1>3, <1>5, <2>2, <2>3, MoveKeepsIInv DEF input, extraction
  <1>. QED
    BY <1>4, <1>5

LEMMA StoreKeepsIInv == IInv /\ Store => IInv'
  <1>. SUFFICES ASSUME IInv, Store PROVE IInv'
    OBVIOUS
  <1>. USE DEF IInv
  <1>1. /\ pc = "store" /\ pc' = "done"
        /\ UNCHANGED <<card, request, off, finished, kind, limit, map, step>>
        /\ image' = IF kind = "official"
                    THEN {u \in image : u < TrimmedSize(card.used)} ELSE image
        /\ \/ file' = "whole" /\ exit' = 0
           \/ file' \in {"absent", "partial"} /\ exit' = 2
        /\ faulted' = faulted \/ faulted' = TRUE
    BY DEF Store, Exit, FailWith, input
  <1>2. TypeOK'
    <2>1. faulted' \in BOOLEAN
      BY <1>1 DEF TypeOK
    <2>2. image' \in SUBSET Units
      BY <1>1 DEF TypeOK
    <2>. QED
      BY <1>1, <2>1, <2>2 DEF TypeOK
  <1>3. FileInv'
    BY <1>1 DEF FileInv, FileNeedsCleanup
  <1>4. MappingInv' /\ KindInv' /\ ImageInv'
    BY <1>1 DEF MappingInv, MappingCoversExtent, KindInv, ImageInv, CatalogStages
  <1>5. ExtractionIsWhole'
    <2>1. exit' = 0 => file' = "whole"
      BY <1>1
    <2>2. kind = "ez3" => image' = RomUnits(Selected) \ LoaderOverlap
      BY <1>1 DEF ImageInv
    <2>3. RomUnits(Selected) \ LoaderOverlap =
            RomUnits(Selected)
              \ (card.loader..(card.loader +
                   (IF RomCount = 1 THEN SingleLoader ELSE LoaderRead) - 1))
      BY DEF LoaderOverlap, LoaderLength
    <2>4. RomUnits(Selected)' = RomUnits(Selected) /\ RomCount' = RomCount
      BY <1>1, SameSelection DEF input, RomCount
    <2>5. kind = "official" /\ card.kind = "official" =>
            0..(card.used - 1) \subseteq image'
      <3>1. card.used \in 1..CardLen /\ CardLen \in Nat
        BY CardTypes, ReaderAssumption DEF TypeOK, CardLen
      <3>2. TrimmedSize(card.used) \in Nat /\ card.used =< TrimmedSize(card.used)
        BY <3>1, TrimmedKeeps
      <3>3. kind = "official" /\ card.kind = "official" =>
              image' = {u \in Units : u < TrimmedSize(card.used)}
        BY <1>1 DEF ImageInv
      <3>4. \A u \in 0..(card.used - 1) : u \in Units /\ u < TrimmedSize(card.used)
        BY <3>1, <3>2 DEF Units
      <3>. QED
        BY <3>3, <3>4
    <2>. QED
      BY <1>1, <2>1, <2>2, <2>3, <2>4, <2>5 DEF ExtractionIsWhole, Stored
  <1>. QED
    BY <1>2, <1>3, <1>4, <1>5

LEMMA StutterKeepsIInv == IInv /\ UNCHANGED vars => IInv'
  <1>. SUFFICES ASSUME IInv, UNCHANGED vars PROVE IInv'
    OBVIOUS
  <1>. USE DEF IInv
  <1>1. /\ UNCHANGED <<card, request, pc, kind, limit, map, step, off>>
        /\ UNCHANGED <<image, finished, file, exit, faulted>>
    BY DEF vars
  <1>2. TypeOK' /\ FileInv'
    BY <1>1 DEF TypeOK, FileInv, FileNeedsCleanup
  <1>3. /\ Selected' = Selected /\ InCatalog' = InCatalog
        /\ HasStoredEnd(Selected)' = HasStoredEnd(Selected)
        /\ StoredEnd(Selected)' = StoredEnd(Selected)
        /\ RomUnits(Selected)' = RomUnits(Selected)
        /\ LoaderOverlap' = LoaderOverlap /\ LoaderEnd' = LoaderEnd
        /\ RomCount' = RomCount
    BY <1>1, SameSelection DEF input, RomCount
  <1>4. MappingInv' /\ KindInv'
    BY <1>1, <1>3 DEF MappingInv, MappingCoversExtent, KindInv, RequiredLimit
  <1>5. ImageInv'
    BY <1>1, <1>3 DEF ImageInv
  <1>6. ExtractionIsWhole'
    BY <1>1, <1>3 DEF ExtractionIsWhole, Stored
  <1>. QED
    BY <1>2, <1>4, <1>5, <1>6

LEMMA NextKeepsIInv == IInv /\ [Next]_vars => IInv'
  <1>. SUFFICES ASSUME IInv, [Next]_vars PROVE IInv'
    OBVIOUS
  <1>1. CASE Open \/ ReadBranch \/ PrepareForLoader \/ ReadLoader
    BY <1>1, OpenKeepsIInv, ReadBranchKeepsIInv, PrepareForLoaderKeepsIInv,
       ReadLoaderKeepsIInv
  <1>2. CASE ClassifyByHeader \/ Prime \/ Decide \/ InspectOfficial
    BY <1>2, ClassifyKeepsIInv, DecideKeepsIInv, OfficialKeepsIInv
  <1>3. CASE DumpBlock \/ DumpDone \/ PrepareForStarts \/ ReadHeaders
    BY <1>3, DumpBlockKeepsIInv, DumpDoneKeepsIInv, PrepareForStartsKeepsIInv,
       ReadHeadersKeepsIInv
  <1>4. CASE SelectRom \/ PrepareForExtent \/ ExtractBlock \/ ExtractDone
    BY <1>4, SelectRomKeepsIInv, PrepareForExtentKeepsIInv, ExtractBlockKeepsIInv,
       ExtractDoneKeepsIInv
  <1>5. CASE Reconstruct \/ Close \/ Store
    BY <1>5, ReconstructKeepsIInv, CloseKeepsIInv, StoreKeepsIInv
  <1>6. CASE Exited \/ UNCHANGED vars
    BY <1>6, StutterKeepsIInv DEF Exited
  <1>. QED
    BY <1>1, <1>2, <1>3, <1>4, <1>5, <1>6 DEF Next, Work

-----------------------------------------------------------------------------
(* The theorems. *)

(* The inductive invariant holds in every run.                               *)
THEOREM Invariance == Spec => []IInv
  BY InitIInv, NextKeepsIInv, PTL DEF Spec

(* Every variable keeps its type; in particular a required read limit is     *)
(* always one of the four mappings.                                          *)
THEOREM TypeCorrect == Spec => []TypeOK
  <1>1. IInv => TypeOK
    BY DEF IInv
  <1>. QED
    BY <1>1, Invariance, PTL

(* While the blocks of a ROM are read, the card shows the whole extent,      *)
(* whatever mapping sequences failed before.                                 *)
THEOREM MappingCovers == Spec => []MappingCoversExtent
  <1>1. IInv => MappingCoversExtent
    BY DEF IInv, MappingInv
  <1>. QED
    BY <1>1, Invariance, PTL

(* A run that reports success wrote the whole ROM, or all content of an      *)
(* official cartridge, in blocks of any length.                              *)
THEOREM ExtractsWhole == Spec => []ExtractionIsWhole
  <1>1. IInv => ExtractionIsWhole
    BY DEF IInv
  <1>. QED
    BY <1>1, Invariance, PTL

(* No output file appears unless the read session was finished.              *)
THEOREM CleanupBeforeFile == Spec => []FileNeedsCleanup
  <1>1. IInv => FileNeedsCleanup
    BY DEF IInv, FileInv
  <1>. QED
    BY <1>1, Invariance, PTL

(* Every way out of an extraction attempts finishSession.                    *)
THEOREM FinishesSession == Spec => ExtractionFinishesSession
  <1>. DEFINE Ends == pc' = "done"
              From == pc \in {"select", "extent_map", "extract", "reconstruct",
                              "close", "dump"}
  <1>1. [Next]_vars => [Ends /\ From => finished' # "no"]_vars
    <2>. SUFFICES ASSUME Next, Ends, From PROVE finished' # "no"
      OBVIOUS
    <2>1. CASE DumpBlock \/ SelectRom \/ PrepareForExtent \/ ExtractBlock
      BY <2>1 DEF DumpBlock, SelectRom, PrepareForExtent, ExtractBlock, Goto,
                  FinishThen, FailAfterCleanup
    <2>2. CASE DumpDone \/ ExtractDone \/ Reconstruct \/ Close
      BY <2>2 DEF DumpDone, ExtractDone, Reconstruct, Close, Goto, FinishThen
    <2>3. CASE Open \/ ReadBranch \/ PrepareForLoader \/ ReadLoader \/ ClassifyByHeader
      BY <2>3 DEF Open, ReadBranch, PrepareForLoader, ReadLoader, ClassifyByHeader
    <2>4. CASE Prime \/ Decide \/ InspectOfficial \/ PrepareForStarts \/ ReadHeaders
      BY <2>4 DEF Prime, Decide, InspectOfficial, PrepareForStarts, ReadHeaders
    <2>5. CASE Store \/ Exited
      BY <2>5 DEF Store, Exited
    <2>. QED
      BY <2>1, <2>2, <2>3, <2>4, <2>5 DEF Next, Work
  <1>. QED
    BY <1>1, PTL DEF Spec, ExtractionFinishesSession

-----------------------------------------------------------------------------
(* Why a run may fail. *)

\* While nothing has misbehaved and the request can be served, the cartridge
\* is taken for what it is and no failure code is set.
CauseInv ==
    Served /\ ~faulted =>
        /\ exit =< 0
        /\ pc = "open" => kind = "unknown"
        /\ pc \notin {"open", "done"} => map > 0
        /\ card.kind = "ez3" => kind # "official"
        /\ card.kind = "official" => kind # "ez3"
        /\ pc = "header" => card.kind = "official"
        /\ pc \in {"select", "extent_map", "extract", "reconstruct"} => request.extract

LEMMA ServedCard ==
    ASSUME Served
    PROVE  /\ card.kind \in {"official", "ez3"}
           /\ card.kind = "official" => request.rom = 0
           /\ card.kind = "ez3" /\ request.extract =>
                  /\ InCatalog /\ HasStoredEnd(Selected)
                  /\ Selected.header /\ Selected.start \notin LoaderOverlap
  BY DEF Served, InCatalog

LEMMA ServedUnchanged == UNCHANGED input => (Served' <=> Served)
  BY DEF input, Served, RomIndex, RomCount, HasStoredEnd, Selected, LoaderOverlap,
     RomUnits, StoredEnd

\* A fault explains everything that follows.
LEMMA FaultIsCause == faulted' = TRUE => CauseInv'
  BY DEF CauseInv

\* A step that only moves on, or ends with code 0.
LEMMA MoveKeepsCause ==
    ASSUME CauseInv, UNCHANGED <<input, kind, faulted>>,
           exit' = exit \/ exit' = 0,
           map' > 0 \/ pc' = "done",
           pc' \notin {"open", "header"},
           pc' \in {"select", "extent_map", "extract", "reconstruct"} => request.extract
    PROVE  CauseInv'
  BY ServedUnchanged DEF CauseInv, input

LEMMA FinishWithCode ==
    ASSUME NEW code, FinishThen(code)
    PROVE  \/ faulted' = TRUE
           \/ pc' = "done" /\ exit' = code /\ UNCHANGED faulted
  BY DEF FinishThen, FailWith

LEMMA AfterCleanupFaulted ==
    ASSUME NEW code, FailAfterCleanup(code)
    PROVE  faulted' = TRUE
  BY DEF FailAfterCleanup, FailWith

LEMMA OpenKeepsCause ==
    ASSUME IInv, CauseInv, Open, \A c \in Cards : c.kind = "official" => ~c.id
    PROVE  CauseInv'
  <1>1. UNCHANGED input /\ pc = "open" /\ card \in Cards /\ exit = -1
    BY DEF Open, IInv, TypeOK, FileInv
  <1>2. CASE faulted' = TRUE
    BY <1>2, FaultIsCause
  <1>3. CASE request.extract /\ request.exists
    <2>1. ~Served'
      BY <1>1, <1>3 DEF Served, input
    <2>. QED
      BY <2>1 DEF CauseInv
  <1>4. CASE /\ map' = 1 /\ UNCHANGED <<faulted, exit>>
             /\ \/ card.id /\ pc' = "prime" /\ kind' = "ez3"
                \/ ~card.id /\ pc' = "branch" /\ UNCHANGED kind
    BY <1>1, <1>4, ServedUnchanged DEF CauseInv, input
  <1>. QED
    BY <1>2, <1>3, <1>4 DEF Open, Goto, FailWith

LEMMA CatalogKeepsCause ==
    ASSUME IInv, CauseInv, ReadBranch \/ PrepareForLoader \/ ReadLoader
    PROVE  CauseInv'
  <1>. SUFFICES ASSUME faulted' # TRUE PROVE CauseInv'
    BY FaultIsCause
  <1>. SUFFICES ASSUME Served, ~faulted PROVE CauseInv'
    <2>1. UNCHANGED input /\ (faulted' = TRUE \/ faulted' = faulted)
      BY DEF ReadBranch, PrepareForLoader, ReadLoader, NoCatalog, CatalogReadFailed,
         CatalogFound, Goto, Exit, FailWith
    <2>. QED
      BY <2>1, ServedUnchanged DEF CauseInv
  <1>1. /\ UNCHANGED input /\ card.kind \in {"official", "ez3"}
        /\ map > 0 /\ map \in 0..4 /\ Shows(0)
        /\ exit = -1
        /\ step = "inspect" => card.kind = "ez3"
        /\ step \in {"classify", "inspect"}
    <2>1. UNCHANGED input /\ pc \in {"branch", "loader_map", "loader"}
      BY DEF ReadBranch, PrepareForLoader, ReadLoader
    <2>2. card.kind \in {"official", "ez3"}
      BY ServedCard
    <2>3. map \in 0..4 /\ map > 0 /\ exit = -1 /\ (step = "inspect" => kind = "ez3")
      BY <2>1 DEF IInv, TypeOK, FileInv, KindInv, CauseInv
    <2>4. map * Quarter > 0
      BY <2>3, ReaderAssumption
    <2>. QED
      BY <2>1, <2>2, <2>3, <2>4 DEF CauseInv, Shows, IInv, TypeOK
  <1>2. ~CatalogReadFailed
    BY DEF CatalogReadFailed, FailWith
  <1>3. CASE ReadBranch
    <2>1. UNCHANGED <<input, kind, map>>
      BY <1>3 DEF ReadBranch
    <2>2. CASE \E p \in {"loader_map", "loader"} : Goto(p)
      BY <1>1, <2>1, <2>2, MoveKeepsCause DEF Goto
    <2>3. CASE card.kind = "official" /\ NoCatalog
      BY <1>1, <2>1, <2>3, ServedUnchanged DEF NoCatalog, Goto, CauseInv, input
    <2>. QED
      BY <1>1, <1>2, <1>3, <2>2, <2>3 DEF ReadBranch
  <1>4. CASE PrepareForLoader
    <2>1. UNCHANGED <<input, kind>> /\ Prepared(RequiredLimit(LoaderEnd)) /\ Goto("loader")
      BY <1>2, <1>4 DEF PrepareForLoader
    <2>2. map' > 0
      <3>1. limit < RequiredLimit(LoaderEnd) /\ limit \in 1..4
        BY <1>4 DEF PrepareForLoader, IInv, MappingInv, TypeOK
      <3>2. LoaderEnd \in Units
        BY LoaderEndOnCard, <1>4 DEF IInv, TypeOK
      <3>3. RequiredLimit(LoaderEnd) \in Int
        BY <3>2, ReaderAssumption DEF RequiredLimit, Units, CardLen
      <3>. QED
        BY <2>1, <3>1, <3>3 DEF Prepared
    <2>. QED
      BY <2>1, <2>2, MoveKeepsCause DEF Goto
  <1>5. CASE ReadLoader
    <2>1. UNCHANGED <<input, map>> /\ pc = "loader"
      BY <1>5 DEF ReadLoader
    <2>2. CASE card.kind = "ez3" /\ CatalogFound
      <3>1. /\ pc' \in {"prime", "starts_map", "headers"} /\ UNCHANGED <<exit, faulted>>
            /\ kind' \in {kind, "ez3"}
        BY <2>2 DEF CatalogFound, Goto
      <3>. QED
        BY <1>1, <2>1, <2>2, <3>1, ServedUnchanged DEF CauseInv, input
    <2>3. CASE card.kind # "ez3" /\ NoCatalog /\ UNCHANGED kind
      <3>1. pc' = "header" /\ UNCHANGED <<exit, faulted>>
        BY <1>1, <2>3 DEF NoCatalog, Goto
      <3>. QED
        BY <1>1, <2>1, <2>3, <3>1, ServedUnchanged DEF CauseInv, input
    <2>. QED
      BY <1>2, <1>5, <2>2, <2>3 DEF ReadLoader
  <1>. QED
    BY <1>3, <1>4, <1>5

LEMMA ClassifyKeepsCause ==
    ASSUME IInv, CauseInv, ClassifyByHeader \/ Prime \/ Decide \/ InspectOfficial
    PROVE  CauseInv'
  <1>1. UNCHANGED <<input, map>> /\ map \in 0..4 /\ exit = -1
        /\ pc \in {"header", "prime", "decide", "official"}
    BY DEF ClassifyByHeader, Prime, Decide, InspectOfficial, IInv, TypeOK, FileInv
  <1>. SUFFICES ASSUME faulted' # TRUE PROVE CauseInv'
    BY FaultIsCause
  <1>2. UNCHANGED faulted
    BY DEF ClassifyByHeader, Prime, Decide, InspectOfficial, Goto, Exit, FailWith,
       FinishThen, FailAfterCleanup
  <1>. SUFFICES ASSUME Served, ~faulted PROVE CauseInv'
    BY <1>1, <1>2, ServedUnchanged DEF CauseInv
  <1>3. map > 0
    BY <1>1 DEF CauseInv
  <1>4. CASE ClassifyByHeader
    <2>1. card.kind = "official"
      BY <1>4 DEF ClassifyByHeader, CauseInv
    <2>2. HeaderLooks = {"gba"}
      BY <2>1 DEF HeaderLooks, Shows
    <2>3. kind' = "official" /\ pc' = "decide" /\ exit' = exit
      BY <1>4, <2>2 DEF ClassifyByHeader, Goto, FailWith
    <2>. QED
      BY <1>1, <1>2, <1>3, <2>1, <2>3, ServedUnchanged DEF CauseInv, input
  <1>5. CASE Prime
    <2>1. pc' = "decide" /\ UNCHANGED <<exit, kind>>
      BY <1>5 DEF Prime, Goto, FailWith
    <2>. QED
      BY <1>1, <1>2, <1>3, <2>1, MoveKeepsCause
  <1>6. CASE Decide
    <2>1. kind = "official" => card.kind = "official" /\ request.rom = 0
      BY ServedCard DEF CauseInv
    <2>2. UNCHANGED <<kind, exit>> /\ pc' \in {"branch", "dump", "official"}
      BY <1>6, <2>1 DEF Decide, Goto
    <2>. QED
      BY <1>1, <1>2, <1>3, <2>2, MoveKeepsCause
  <1>7. CASE InspectOfficial
    <2>1. kind' = kind /\ pc' = "done" /\ exit' = 0
      BY <1>7 DEF InspectOfficial, FinishThen, FailAfterCleanup, FailWith
    <2>. QED
      BY <1>1, <1>2, <2>1, MoveKeepsCause
  <1>. QED
    BY <1>4, <1>5, <1>6, <1>7

LEMMA InspectKeepsCause ==
    ASSUME IInv, CauseInv,
           \/ PrepareForStarts \/ ReadHeaders \/ SelectRom \/ PrepareForExtent
    PROVE  CauseInv'
  <1>1. UNCHANGED <<input, kind>> /\ exit = -1 /\ limit \in 1..4
        /\ pc \in {"starts_map", "headers", "select", "extent_map"}
        /\ card.kind = "ez3" /\ map \in 0..4 /\ limit =< map
    BY DEF PrepareForStarts, ReadHeaders, SelectRom, PrepareForExtent, IInv, TypeOK,
       FileInv, KindInv, MappingInv, CatalogStages
  <1>. SUFFICES ASSUME faulted' # TRUE PROVE CauseInv'
    BY FaultIsCause
  <1>2. faulted' = faulted
    BY DEF PrepareForStarts, ReadHeaders, SelectRom, PrepareForExtent, Goto, FailWith,
       FinishThen, FailAfterCleanup
  <1>. SUFFICES ASSUME Served, ~faulted PROVE CauseInv'
    BY <1>1, <1>2, ServedUnchanged DEF CauseInv
  <1>3. CASE PrepareForStarts
    <2>1. /\ Prepared(RequiredLimit(HighestStart)) /\ Goto("headers")
      BY <1>3 DEF PrepareForStarts, FailWith
    <2>2. map' \in 1..4
      <3>1. IInv'
        BY <1>3, PrepareForStartsKeepsIInv
      <3>2. limit' \in 1..4
        BY <3>1 DEF IInv, TypeOK
      <3>. QED
        BY <2>1, <3>2 DEF Prepared
    <2>. QED
      BY <1>1, <2>1, <2>2, MoveKeepsCause DEF Goto
  <1>4. CASE ReadHeaders
    <2>1. UNCHANGED map
      BY <1>4 DEF ReadHeaders
    <2>2. \/ request.extract /\ pc' = "select" /\ exit' = exit
          \/ pc' = "done" /\ exit' = 0
      BY <1>4 DEF ReadHeaders, FinishThen, FailAfterCleanup, FailWith
    <2>. QED
      BY <1>1, <1>2, <2>1, <2>2, MoveKeepsCause
  <1>5. CASE SelectRom
    <2>1. request.extract /\ InCatalog /\ HasStoredEnd(Selected)
      BY <1>1, <1>5, ServedCard DEF SelectRom, CauseInv
    <2>2. UNCHANGED <<map, exit>> /\ pc' \in {"extent_map", "extract"}
      BY <1>5, <2>1 DEF SelectRom, Goto
    <2>. QED
      BY <1>1, <1>2, <2>1, <2>2, MoveKeepsCause
  <1>6. CASE PrepareForExtent
    <2>1. Prepared(NeededForExtent(Selected)) /\ Goto("extract")
      BY <1>6, AfterCleanupFaulted DEF PrepareForExtent
    <2>2. request.extract
      BY <1>6 DEF PrepareForExtent, CauseInv
    <2>3. map' \in 1..4
      <3>1. IInv'
        BY <1>6, PrepareForExtentKeepsIInv
      <3>2. limit' \in 1..4
        BY <3>1 DEF IInv, TypeOK
      <3>. QED
        BY <2>1, <3>2 DEF Prepared
    <2>. QED
      BY <1>1, <2>1, <2>2, <2>3, MoveKeepsCause DEF Goto
  <1>. QED
    BY <1>3, <1>4, <1>5, <1>6

LEMMA ExtractKeepsCause ==
    ASSUME IInv, CauseInv,
           \/ DumpBlock \/ DumpDone \/ ExtractBlock \/ ExtractDone \/ Reconstruct
           \/ Close \/ Store
    PROVE  CauseInv'
  <1>1. UNCHANGED <<input, kind, map>> /\ exit = -1 /\ map \in 0..4
        /\ pc \in {"dump", "extract", "reconstruct", "close", "store"}
    BY DEF DumpBlock, DumpDone, ExtractBlock, ExtractDone, Reconstruct, Close, Store,
       IInv, TypeOK, FileInv
  <1>. SUFFICES ASSUME faulted' # TRUE PROVE CauseInv'
    BY FaultIsCause
  <1>2. faulted' = faulted
    BY DEF DumpBlock, DumpDone, ExtractBlock, ExtractDone, Reconstruct, Close, Store,
       Goto, Exit, FailWith, FinishThen, FailAfterCleanup
  <1>. SUFFICES ASSUME Served, ~faulted PROVE CauseInv'
    BY <1>1, <1>2, ServedUnchanged DEF CauseInv
  <1>3. map > 0
    BY <1>1 DEF CauseInv
  <1>4. CASE DumpBlock \/ DumpDone \/ Close \/ Store
    <2>1. \/ pc' \in {"dump", "close", "store"} /\ exit' = exit
          \/ pc' = "done" /\ exit' = 0
      BY <1>4 DEF DumpBlock, DumpDone, Close, Store, Goto, Exit, FailWith
    <2>. QED
      BY <1>1, <1>2, <1>3, <2>1, MoveKeepsCause
  <1>5. CASE ExtractBlock \/ ExtractDone
    <2>1. request.extract
      BY <1>5 DEF ExtractBlock, ExtractDone, CauseInv
    <2>2. pc' \in {"extract", "reconstruct"} /\ exit' = exit
      BY <1>5, AfterCleanupFaulted DEF ExtractBlock, ExtractDone, Goto
    <2>. QED
      BY <1>1, <1>2, <1>3, <2>1, <2>2, MoveKeepsCause
  <1>6. CASE Reconstruct
    <2>1. /\ request.extract /\ card.kind = "ez3"
          /\ image = RomUnits(Selected) /\ image' = image \ LoaderOverlap
          /\ InCatalog /\ HasStoredEnd(Selected)
      BY <1>6 DEF Reconstruct, CauseInv, IInv, KindInv, ImageInv, CatalogStages
    <2>2. Selected.header /\ Selected.start \notin LoaderOverlap
      BY <2>1, ServedCard
    <2>3. Selected.start \in RomUnits(Selected)
      <3>1. card \in Cards /\ request \in Requests
        BY DEF IInv, TypeOK
      <3>. QED
        BY <2>1, <3>1, SelectedExtent DEF RomUnits, StoredEnd, Units, CardLen
    <2>4. pc' = "close" /\ exit' = exit
      BY <1>6, <2>1, <2>2, <2>3 DEF Reconstruct, Goto
    <2>. QED
      BY <1>1, <1>2, <1>3, <2>4, MoveKeepsCause
  <1>. QED
    BY <1>4, <1>5, <1>6

LEMMA NextKeepsCause ==
    ASSUME IInv, CauseInv, [Next]_vars, \A c \in Cards : c.kind = "official" => ~c.id
    PROVE  CauseInv'
  <1>1. CASE UNCHANGED vars
    <2>1. UNCHANGED <<input, pc, kind, map, exit, faulted>>
      BY <1>1 DEF vars, input
    <2>. QED
      BY <2>1, ServedUnchanged DEF CauseInv, input
  <1>. QED
    BY <1>1, OpenKeepsCause, CatalogKeepsCause, ClassifyKeepsCause, InspectKeepsCause,
       ExtractKeepsCause
    DEF Next, Work, Exited

\* If no official cartridge answers the flash identification, a request for
\* something the cartridge has fails only after a fault.
THEOREM FailuresHaveCauses ==
    ASSUME \A c \in Cards : c.kind = "official" => ~c.id
    PROVE  Spec => []FailureHasCause
  <1>1. Init => CauseInv
    BY DEF Init, CauseInv
  <1>2. IInv /\ CauseInv /\ [Next]_vars => CauseInv'
    BY NextKeepsCause
  <1>3. CauseInv /\ IInv => FailureHasCause
    BY DEF CauseInv, FailureHasCause, IInv, TypeOK
  <1>. QED
    BY <1>1, <1>2, <1>3, InitIInv, NextKeepsIInv, PTL DEF Spec

-----------------------------------------------------------------------------
(* No run goes round in circles. *)

\* The work of a run in order.  The catalog is read twice, by the
\* classification and by the inspection.
Stage(s, p) ==
    CASE p = "open" -> 1
      [] p = "branch" -> IF s = "classify" THEN 2 ELSE 9
      [] p = "loader_map" -> IF s = "classify" THEN 3 ELSE 10
      [] p = "loader" -> IF s = "classify" THEN 4 ELSE 11
      [] p = "header" -> 5 [] p = "prime" -> 6 [] p = "decide" -> 7
      [] p = "official" -> 8 [] p = "starts_map" -> 12 [] p = "headers" -> 13
      [] p = "select" -> 14 [] p = "extent_map" -> 15 [] p = "extract" -> 16
      [] p = "dump" -> 17 [] p = "reconstruct" -> 18 [] p = "close" -> 19
      [] p = "store" -> 20 [] OTHER -> 21

LEMMA Stages ==
    ASSUME NEW s \in {"classify", "inspect"}
    PROVE  /\ Stage(s, "open") = 1
           /\ Stage(s, "branch") \in {2, 9} /\ Stage("inspect", "branch") = 9
           /\ Stage(s, "loader_map") = Stage(s, "branch") + 1
           /\ Stage(s, "loader") = Stage(s, "branch") + 2
           /\ Stage(s, "header") = 5 /\ Stage(s, "prime") = 6 /\ Stage(s, "decide") = 7
           /\ Stage(s, "official") = 8 /\ Stage(s, "starts_map") = 12
           /\ Stage(s, "headers") = 13 /\ Stage(s, "select") = 14
           /\ Stage(s, "extent_map") = 15 /\ Stage(s, "extract") = 16
           /\ Stage(s, "dump") = 17 /\ Stage(s, "reconstruct") = 18
           /\ Stage(s, "close") = 19 /\ Stage(s, "store") = 20 /\ Stage(s, "done") = 21
           /\ s = "classify" => Stage(s, "branch") = 2
  BY DEF Stage

\* A step enters later work, or reads the next block of the card.
Advances ==
    \/ Stage(step', pc') > Stage(step, pc)
    \/ Stage(step', pc') = Stage(step, pc) /\ off < CardLen /\ off' > off

LEMMA EndAdvances ==
    ASSUME IInv, IInv', pc # "done", pc' = "done"
    PROVE  Advances
  <1>1. step \in {"classify", "inspect"} /\ step' \in {"classify", "inspect"}
    BY DEF IInv, TypeOK
  <1>2. pc \in {"open", "branch", "loader_map", "loader", "header", "prime",
                "decide", "official", "dump", "starts_map", "headers",
                "select", "extent_map", "extract", "reconstruct", "close", "store"}
    BY DEF IInv, TypeOK
  <1>3. Stage(step', "done") = 21
    BY <1>1, Stages
  <1>4. Stage(step, pc) < 21
    BY <1>1, <1>2, Stages
  <1>. QED
    BY <1>3, <1>4 DEF Advances

\* Every step of a run that has not ended advances it: no failed transfer and
\* no catalog sends the tool back to work it has done, and the offset of the
\* block loops stays below one block past the card.  AlwaysExits rests on it.
THEOREM RunsAdvance == Spec => [][pc # "done" => Advances]_vars
  <1>1. IInv /\ IInv' /\ [Next]_vars => [pc # "done" => Advances]_vars
    <2>. SUFFICES ASSUME IInv, IInv', Next, pc # "done" PROVE Advances
      OBVIOUS
    <2>1. /\ step \in {"classify", "inspect"} /\ step' \in {"classify", "inspect"}
          /\ off \in Nat /\ card \in Cards /\ request \in Requests
      BY DEF IInv, TypeOK
    <2>2. step = "inspect" => pc \notin {"open", "header", "prime", "decide", "dump"}
      BY DEF IInv, KindInv
    <2>. SUFFICES ASSUME pc' # "done" PROVE Advances
      BY EndAdvances
    <2>3. CASE Open
      <3>1. pc = "open" /\ pc' \in {"prime", "branch"}
        BY <2>3 DEF Open, Goto, Exit, FailWith
      <3>2. Stage(step, pc) = 1
        BY <2>1, <3>1, Stages
      <3>3. Stage(step', pc') > 1
        BY <2>1, <3>1, Stages
      <3>. QED
        BY <3>2, <3>3 DEF Advances
    <2>4. CASE ReadBranch \/ PrepareForLoader \/ ReadLoader
      <3>1. /\ step' = step
            /\ \/ pc = "branch" /\ pc' \in {"loader_map", "loader"}
               \/ pc = "loader_map" /\ pc' = "loader"
               \/ /\ pc \in {"branch", "loader_map", "loader"} /\ step = "classify"
                  /\ pc' \in {"header", "prime"}
               \/ pc = "loader" /\ step = "inspect" /\ pc' \in {"starts_map", "headers"}
        BY <2>1, <2>4 DEF ReadBranch, PrepareForLoader, ReadLoader, NoCatalog,
           CatalogReadFailed, CatalogFound, Goto, Exit, FailWith
      <3>. QED
        BY <2>1, <3>1, Stages DEF Advances
    <2>5. CASE ClassifyByHeader \/ Prime
      <3>1. /\ step' = step
            /\ \/ pc = "header" /\ pc' \in {"prime", "decide"}
               \/ pc = "prime" /\ pc' = "decide"
        BY <2>5 DEF ClassifyByHeader, Prime, Goto, Exit, FailWith
      <3>. QED
        BY <2>1, <3>1, Stages DEF Advances
    <2>6. CASE Decide
      <3>1. /\ pc = "decide"
            /\ \/ pc' = "branch" /\ step' = "inspect"
               \/ pc' \in {"dump", "official"}
        BY <2>6 DEF Decide, Goto, FinishThen, FailWith
      <3>2. Stage(step, pc) = 7
        BY <2>1, <3>1, Stages
      <3>3. Stage(step', pc') > 7
        BY <2>1, <3>1, Stages
      <3>. QED
        BY <3>2, <3>3 DEF Advances
    <2>7. CASE DumpBlock \/ ExtractBlock
      <3>1. /\ step' = step /\ pc' = pc /\ off' = off + Block
            /\ \/ pc = "dump" /\ off < CardLen
               \/ pc = "extract" /\ off < SizeClass(Selected.type)
        BY <2>7 DEF DumpBlock, ExtractBlock, Goto, FailAfterCleanup, FailWith, NextOffset
      <3>2. Block \in Nat \ {0} /\ CardLen \in Nat
        BY ReaderAssumption DEF CardLen
      <3>3. pc = "extract" => SizeClass(Selected.type) =< CardLen
        <4>1. SUFFICES ASSUME pc = "extract"
                       PROVE  SizeClass(Selected.type) =< CardLen
          OBVIOUS
        <4>2. InCatalog /\ HasStoredEnd(Selected)
          BY <4>1 DEF IInv, KindInv
        <4>3. Selected.start \in Nat /\ SizeClass(Selected.type) \in Nat
          BY <2>1, <4>2, SelectedExtent, <3>2 DEF Units
        <4>. QED
          BY <3>2, <4>2, <4>3 DEF HasStoredEnd
      <3>4. pc = "extract" => SizeClass(Selected.type) \in Nat
        BY <2>1, SelectedExtent DEF IInv, KindInv
      <3>. QED
        BY <2>1, <3>1, <3>2, <3>3, <3>4 DEF Advances
    <2>8. CASE PrepareForStarts \/ ReadHeaders \/ SelectRom \/ PrepareForExtent
      <3>1. /\ step' = step
            /\ \/ pc = "starts_map" /\ pc' = "headers"
               \/ pc = "headers" /\ pc' = "select"
               \/ pc = "select" /\ pc' \in {"extent_map", "extract"}
               \/ pc = "extent_map" /\ pc' = "extract"
        BY <2>8 DEF PrepareForStarts, ReadHeaders, SelectRom, PrepareForExtent, Goto,
           FinishThen, FailAfterCleanup, FailWith
      <3>. QED
        BY <2>1, <3>1, Stages DEF Advances
    <2>9. CASE DumpDone \/ ExtractDone \/ Reconstruct \/ Close
      <3>1. /\ step' = step
            /\ \/ pc \in {"dump", "reconstruct"} /\ pc' = "close"
               \/ pc = "extract" /\ pc' = "reconstruct"
               \/ pc = "close" /\ pc' = "store"
        BY <2>9 DEF DumpDone, ExtractDone, Reconstruct, Close, Goto, FinishThen, FailWith
      <3>. QED
        BY <2>1, <3>1, Stages DEF Advances
    <2>10. CASE InspectOfficial \/ Store \/ Exited
      BY <2>10 DEF InspectOfficial, Store, Exited, FinishThen, FailAfterCleanup, Exit,
         FailWith
    <2>. QED
      BY <2>3, <2>4, <2>5, <2>6, <2>7, <2>8, <2>9, <2>10 DEF Next, Work
  <1>. QED
    BY <1>1, Invariance, PTL DEF Spec
=============================================================================

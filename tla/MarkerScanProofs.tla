-------------------------- MODULE MarkerScanProofs --------------------------
(***************************************************************************)
(* The search by chunks of MarkerScan is a search of the whole, for every  *)
(* catalog, every card, every chunk size and every overlap that is at most *)
(* one unit shorter than the longest pattern.                              *)
(***************************************************************************)
EXTENDS MarkerScan, TLAPS, WellFoundedInduction

-----------------------------------------------------------------------------
(* The operators. *)

NatOrder == {ss \in Nat \X Nat : ss[1] < ss[2]}

\* A nonempty set of numbers has a least one.
LEMMA LeastOfSet ==
    ASSUME NEW S \in SUBSET Nat, S # {}
    PROVE  \E x \in S : \A y \in S : x =< y
  <1>1. IsWellFoundedOn(NatOrder, Nat)
    <2>1. NatOrder = OpToRel(<, Nat)
      BY DEF NatOrder, OpToRel
    <2>. QED
      BY <2>1, NatLessThanWellFounded
  <1>2. PICK x \in S : \A y \in S : <<y, x>> \notin NatOrder
    BY <1>1, WFMin
  <1>3. \A y \in S : x =< y
    <2>. TAKE y \in S
    <2>1. y \in Nat /\ x \in Nat
      OBVIOUS
    <2>2. y < x => <<y, x>> \in NatOrder
      BY <2>1 DEF NatOrder
    <2>. QED
      BY <1>2, <2>1, <2>2
  <1>. QED
    BY <1>3

LEMMA ElementOf ==
    ASSUME NEW S, NEW s \in Seq(S), NEW k \in 1..Len(s)
    PROVE  s[k] \in S
  OBVIOUS

LEMMA PatternTypes ==
    ASSUME NEW p \in Patterns
    PROVE  /\ p \in Nat \ {0}
           /\ PatternLen[p] \in Nat \ {0}
           /\ PatternLen[p] =< Overlap + 1
  BY ScanAssumption DEF Patterns

\* The pattern reported is one of those found.
LEMMA FirstOfFound ==
    ASSUME NEW S \in SUBSET Patterns
    PROVE  FirstOf(S) \in {0} \cup Patterns
  <1>1. CASE S = {}
    BY <1>1 DEF FirstOf
  <1>2. CASE S # {}
    <2>1. S \subseteq Nat
      BY PatternTypes
    <2>2. \E p \in S : \A q \in S : p =< q
      BY <1>2, <2>1, LeastOfSet
    <2>. QED
      BY <1>2, <2>2 DEF FirstOf
  <1>. QED
    BY <1>1, <1>2

\* The span that is searched is a number.
LEMMA RomSpanType ==
    ASSUME entries \in Seq([start : Nat, extent : Nat \ {0}]),
           loaderAt \in Nat, NEW k \in 1..Len(entries)
    PROVE  Start(k) \in Nat /\ RomSpan(k) \in Nat
  <1>. DEFINE E == [start : Nat, extent : Nat \ {0}]
  <1>1. entries[k].start \in Nat /\ entries[k].extent \in Nat \ {0}
    <2>1. entries[k] \in E
      BY ElementOf
    <2>. QED
      BY <2>1
  <1>2. k < Len(entries) => entries[k + 1].start \in Nat
    <2>1. ASSUME k < Len(entries) PROVE entries[k + 1] \in E
      <3>1. Len(entries) \in Nat
        OBVIOUS
      <3>2. k + 1 \in 1..Len(entries)
        BY <2>1, <3>1
      <3>. QED
        BY <3>2, ElementOf
    <2>. QED
      BY <2>1
  <1>3. CardLen \in Nat
    BY LayoutAssumption
  <1>4. AllocationEnd(entries, k, loaderAt) \in Nat
        /\ AllocationEnd(entries, k, loaderAt) >= entries[k].start
    <2>. DEFINE s == entries[k].start
                stored == entries[k].start + entries[k].extent
    <2>1. s \in Nat /\ stored \in Nat /\ s < stored
      BY <1>1
    <2>2. CASE stored > CardLen
      BY <2>1, <2>2, <1>3 DEF AllocationEnd, HasStoredExtent
    <2>3. CASE stored =< CardLen /\ k < Len(entries)
      <3>1. AllocationEnd(entries, k, loaderAt)
              = Higher(s, Lower(stored, entries[k + 1].start))
        BY <2>1, <2>3, <1>3 DEF AllocationEnd, HasStoredExtent
      <3>2. Lower(stored, entries[k + 1].start) \in Nat
        BY <2>1, <2>3, <1>2 DEF Lower
      <3>. QED
        BY <2>1, <3>1, <3>2 DEF Higher
    <2>4. CASE stored =< CardLen /\ ~(k < Len(entries))
      BY <2>1, <2>4, <1>3 DEF AllocationEnd, HasStoredExtent
    <2>. QED
      BY <2>1, <2>2, <2>3, <2>4, <1>3
  <1>. QED
    BY <1>1, <1>4 DEF Start, RomSpan, Span

\* Nothing fits in no space.
LEMMA NothingInEmpty ==
    ASSUME NEW lo \in Nat
    PROVE  FoundIn(lo, lo) = {}
  <1>1. ASSUME NEW p \in Patterns, NEW a \in lo..(lo - PatternLen[p])
        PROVE  FALSE
    BY <1>1, PatternTypes
  <1>. QED
    BY <1>1 DEF FoundIn

\* With nothing found up to the chunk, the carry and the chunk show what the
\* whole from the start shows.
LEMMA CarrySuffices ==
    ASSUME NEW lo \in Nat, NEW begin \in Nat, NEW end \in Nat, NEW c \in Nat,
           lo =< begin, begin =< end, c = Lower(Overlap, begin - lo),
           FoundIn(lo, begin) = {}
    PROVE  FoundIn(begin - c, end) = FoundIn(lo, end)
  <1>1. c =< begin - lo /\ (c < begin - lo => c = Overlap)
    BY ScanAssumption DEF Lower
  <1>2. ASSUME NEW p \in Patterns,
               NEW a \in (begin - c)..(end - PatternLen[p])
        PROVE  a \in lo..(end - PatternLen[p])
    BY <1>1, PatternTypes
  <1>3. ASSUME NEW p \in Patterns,
               NEW a \in lo..(end - PatternLen[p]), <<p, a>> \in occ
        PROVE  a \in (begin - c)..(end - PatternLen[p])
    <2>1. PatternLen[p] \in Nat /\ PatternLen[p] =< Overlap + 1 /\ Overlap \in Nat
      BY PatternTypes, ScanAssumption
    <2>2. CASE a < begin - c
      <3>1. a + PatternLen[p] =< begin
        BY <1>1, <2>1, <2>2
      <3>2. a \in lo..(begin - PatternLen[p])
        BY <2>1, <3>1
      <3>3. p \in FoundIn(lo, begin)
        BY <1>3, <3>2 DEF FoundIn
      <3>. QED
        BY <3>3
    <2>3. CASE a >= begin - c
      BY <1>1, <2>1, <2>3
    <2>. QED
      BY <1>1, <2>1, <2>2, <2>3
  <1>4. ASSUME NEW p \in Patterns
        PROVE  (\E a \in (begin - c)..(end - PatternLen[p]) : <<p, a>> \in occ)
               <=> (\E a \in lo..(end - PatternLen[p]) : <<p, a>> \in occ)
    BY <1>2, <1>3
  <1>. QED
    BY <1>4 DEF FoundIn

-----------------------------------------------------------------------------
(* The inductive invariant. *)

\* What ScanAgrees says of one ROM, and that the search ends with its span.
Agrees(f, k) ==
    /\ f.marker = FirstOf(FoundIn(Start(k), f.end))
    /\ FoundIn(Start(k), f.begin) = {}
    /\ FoundIn(Start(k), f.end) = {} => f.cut \/ f.end = Start(k) + RomSpan(k)
    /\ f.end =< Start(k) + RomSpan(k)

\* The mapping shows all that will be read.
Shown ==
    \A k \in 1..analyzed : RomSpan(k) > 0 => Start(k) + RomSpan(k) =< shows

\* Before each chunk nothing was found and the carry is as long as it can be.
Searching ==
    /\ rom =< analyzed /\ position < RomSpan(rom)
    /\ carry = Lower(Overlap, position)
    /\ FoundIn(Start(rom), Start(rom) + position) = {}

ScanInv ==
    /\ ScanTypeOK
    /\ rom =< analyzed + 1 /\ Len(found) = rom - 1
    /\ spc \in {"header", "chunk"} => Shown
    /\ spc = "chunk" => Searching
    /\ \A k \in 1..Len(found) : Agrees(found[k], k)

LEMMA ScanInvInit == ScanInit => ScanInv
  <1>. SUFFICES ASSUME ScanInit PROVE ScanInv
    OBVIOUS
  <1>1. Units \subseteq Nat
    BY LayoutAssumption DEF Units
  <1>2. Len(entries) \in Nat /\ Len(found) = 0
    BY DEF ScanInit
  <1>3. occ \subseteq (Patterns \X Nat)
    <2>1. occ \subseteq Patterns \X Units
      BY DEF ScanInit
    <2>. QED
      BY <1>1, <2>1
  <1>4. ScanTypeOK
    BY <1>1, <1>2, <1>3 DEF ScanInit, ScanTypeOK
  <1>. QED
    BY <1>2, <1>4 DEF ScanInit, ScanInv, ScanTypeOK

\* The catalog and the card do not change.
LEMMA CatalogStays ==
    ASSUME UNCHANGED catalog
    PROVE  /\ analyzed' = analyzed /\ entries' = entries
           /\ \A k : Start(k)' = Start(k) /\ RomSpan(k)' = RomSpan(k)
           /\ \A lo, hi : FoundIn(lo, hi)' = FoundIn(lo, hi)
  BY DEF catalog, Start, RomSpan, FoundIn

LEMMA AgreementStays ==
    ASSUME ScanInv, UNCHANGED catalog, UNCHANGED found
    PROVE  (\A k \in 1..Len(found) : Agrees(found[k], k))'
  <1>. SUFFICES ASSUME NEW k \in 1..Len(found) PROVE Agrees(found[k], k)'
    OBVIOUS
  <1>1. Agrees(found[k], k)
    BY DEF ScanInv
  <1>. QED
    BY <1>1, CatalogStays DEF Agrees

\* A ROM is reported with what a search of the whole would say.
LEMMA ReportStep ==
    ASSUME ScanInv, rom =< analyzed, Shown, UNCHANGED <<catalog, shows>>,
           NEW marker \in {0} \cup Patterns, NEW begin \in Nat, NEW end \in Nat,
           NEW cut \in BOOLEAN,
           Agrees([marker |-> marker, begin |-> begin, end |-> end, cut |-> cut],
                  rom),
           Report(marker, begin, end, cut)
    PROVE  ScanInv'
  <1>. DEFINE r == [marker |-> marker, begin |-> begin, end |-> end, cut |-> cut]
              R == [marker : {0} \cup Patterns, begin : Nat, end : Nat,
                    cut : BOOLEAN]
  <1>1. /\ found' = Append(found, r) /\ rom' = rom + 1 /\ spc' = "header"
        /\ UNCHANGED <<position, carry>>
    BY DEF Report
  <1>2. r \in R /\ found \in Seq(R) /\ rom \in Nat /\ analyzed \in Nat
        /\ analyzed =< Len(entries) /\ Len(entries) \in Nat /\ Len(found) = rom - 1
    BY DEF ScanInv, ScanTypeOK
  <1>. HIDE DEF r, R
  <1>3. /\ found' \in Seq(R) /\ Len(found') = rom
        /\ found'[rom] = r
        /\ \A k \in 1..Len(found) : found'[k] = found[k]
    BY <1>1, <1>2
  <1>4. ScanTypeOK'
    <2>1. /\ (entries \in Seq([start : Nat, extent : Nat \ {0}]))'
          /\ (loaderAt \in Nat /\ loaderEnd \in Nat)'
          /\ (occ \subseteq (Patterns \X Nat))'
          /\ (analyzed \in 0..Len(entries))' /\ shows' \in Nat
          /\ position' \in Nat /\ carry' \in Nat
      BY <1>1 DEF ScanInv, ScanTypeOK, catalog
    <2>2. (rom \in 1..(Len(entries) + 1))'
      BY <1>1, <1>2, CatalogStays DEF ScanInv, ScanTypeOK
    <2>. QED
      BY <1>1, <1>3, <2>1, <2>2 DEF ScanTypeOK, R
  <1>5. Shown'
    BY CatalogStays DEF Shown
  <1>6. (\A k \in 1..Len(found) : Agrees(found[k], k))'
    <2>. SUFFICES ASSUME NEW k \in 1..Len(found') PROVE Agrees(found[k], k)'
      OBVIOUS
    <2>1. CASE k = rom
      <3>1. found'[k] = r /\ Agrees(r, k)
        BY <1>3, <2>1 DEF r
      <3>. QED
        BY <3>1, CatalogStays DEF Agrees
    <2>2. CASE k # rom
      <3>1. k \in 1..Len(found)
        BY <1>2, <1>3, <2>2
      <3>2. found'[k] = found[k] /\ Agrees(found[k], k)
        BY <3>1, <1>3 DEF ScanInv
      <3>. QED
        BY <3>2, CatalogStays DEF Agrees
    <2>. QED
      BY <2>1, <2>2
  <1>. QED
    BY <1>1, <1>2, <1>3, <1>4, <1>5, <1>6, CatalogStays DEF ScanInv

LEMMA PrepareStep ==
    ASSUME ScanInv, PrepareScan
    PROVE  ScanInv'
  <1>1. /\ spc = "prepare" /\ UNCHANGED <<catalog, rom, position, carry, found>>
        /\ \/ spc' = "header" /\ \E h \in Units : IsHighest(h) /\ shows' = h + 1
           \/ spc' = "failed" /\ UNCHANGED shows
    BY DEF PrepareScan
  <1>2. Units \subseteq Nat
    BY LayoutAssumption DEF Units
  <1>3. ScanTypeOK'
    BY <1>1, <1>2 DEF ScanInv, ScanTypeOK, catalog
  <1>4. spc' = "header" => Shown'
    <2>. SUFFICES ASSUME spc' = "header", NEW k \in 1..analyzed, RomSpan(k) > 0
                  PROVE  Start(k) + RomSpan(k) =< shows'
      BY <1>1, CatalogStays DEF Shown
    <2>1. PICK h \in Units : IsHighest(h) /\ shows' = h + 1
      BY <1>1
    <2>2. h >= LastNeeded(k)
      BY <2>1 DEF IsHighest
    <2>3. k \in 1..Len(entries)
      BY DEF ScanInv, ScanTypeOK
    <2>4. Start(k) \in Nat /\ RomSpan(k) \in Nat
      BY <2>3, RomSpanType DEF ScanInv, ScanTypeOK
    <2>. QED
      BY <1>2, <2>1, <2>2, <2>4 DEF LastNeeded
  <1>5. (\A k \in 1..Len(found) : Agrees(found[k], k))'
    BY <1>1, AgreementStays
  <1>. QED
    BY <1>1, <1>3, <1>4, <1>5, CatalogStays DEF ScanInv

LEMMA HeaderStep ==
    ASSUME ScanInv, ScanHeader
    PROVE  ScanInv'
  <1>1. /\ spc = "header" /\ rom =< analyzed /\ UNCHANGED <<catalog, shows>>
        /\ Shown
    BY DEF ScanHeader, ScanInv
  <1>2. rom \in 1..Len(entries) /\ rom \in Nat
    BY <1>1 DEF ScanInv, ScanTypeOK
  <1>3. Start(rom) \in Nat /\ RomSpan(rom) \in Nat
    BY <1>2, RomSpanType DEF ScanInv, ScanTypeOK
  <1>4. FoundIn(Start(rom), Start(rom)) = {}
    BY <1>3, NothingInEmpty
  <1>5. CASE RomSpan(rom) = 0
    <2>1. Report(0, Start(rom), Start(rom), FALSE)
      BY <1>5 DEF ScanHeader
    <2>2. Agrees([marker |-> 0, begin |-> Start(rom), end |-> Start(rom),
                  cut |-> FALSE], rom)
      BY <1>3, <1>4, <1>5 DEF Agrees, FirstOf
    <2>. QED
      BY <1>1, <1>3, <2>1, <2>2, ReportStep
  <1>6. CASE RomSpan(rom) # 0
    <2>1. /\ spc' = "chunk" /\ position' = 0 /\ carry' = 0
          /\ UNCHANGED <<rom, found>>
      BY <1>6 DEF ScanHeader
    <2>2. ScanTypeOK'
      BY <1>1, <2>1 DEF ScanInv, ScanTypeOK, catalog
    <2>3. Shown'
      BY <1>1, CatalogStays DEF Shown
    <2>4. Searching'
      <3>1. FoundIn(Start(rom), Start(rom) + 0) = {}
        BY <1>3, <1>4
      <3>2. Lower(Overlap, 0) = 0
        BY ScanAssumption DEF Lower
      <3>. QED
        BY <1>1, <1>3, <1>6, <2>1, <3>1, <3>2, CatalogStays DEF Searching
    <2>5. (\A k \in 1..Len(found) : Agrees(found[k], k))'
      BY <1>1, <2>1, AgreementStays
    <2>. QED
      BY <1>1, <2>1, <2>2, <2>3, <2>4, <2>5, CatalogStays DEF ScanInv
  <1>. QED
    BY <1>5, <1>6

LEMMA ChunkStep ==
    ASSUME ScanInv, ScanChunk
    PROVE  ScanInv'
  <1>. DEFINE begin == Start(rom) + position
              len == Lower(Chunk, RomSpan(rom) - position)
              end == begin + len
              hits == FoundIn(begin - carry, Lower(end, shows))
  <1>1. /\ spc = "chunk" /\ UNCHANGED <<catalog, shows>> /\ Shown /\ Searching
        /\ rom \in 1..Len(entries) /\ rom \in Nat /\ rom =< analyzed
        /\ position \in Nat /\ shows \in Nat
    BY DEF ScanChunk, ScanInv, ScanTypeOK, Searching
  <1>2. Start(rom) \in Nat /\ RomSpan(rom) \in Nat
    BY <1>1, RomSpanType DEF ScanInv, ScanTypeOK
  <1>3. /\ position < RomSpan(rom) /\ carry = Lower(Overlap, position)
        /\ FoundIn(Start(rom), begin) = {}
    BY <1>1 DEF Searching
  <1>4. len \in Nat \ {0} /\ position + len =< RomSpan(rom)
    BY <1>1, <1>2, <1>3, ScanAssumption DEF Lower
  <1>5. /\ \/ /\ hits # {} \/ position + len = RomSpan(rom)
              /\ Report(FirstOf(hits), begin, end, FALSE)
           \/ /\ hits = {} /\ position + len < RomSpan(rom)
              /\ position' = position + len /\ carry' = CarryAfter(carry, len)
              /\ UNCHANGED <<spc, rom, found>>
           \/ Report(0, begin, begin, TRUE)
    BY DEF ScanChunk
  <1>. HIDE DEF len
  <1>6. begin \in Nat /\ end \in Nat /\ begin =< end /\ carry \in Nat
    BY <1>1, <1>2, <1>3, <1>4, ScanAssumption DEF Lower
  <1>7. hits = FoundIn(Start(rom), end)
    <2>1. RomSpan(rom) > 0 /\ rom \in 1..analyzed
      BY <1>1, <1>2, <1>3 DEF ScanInv, ScanTypeOK
    <2>2. end =< shows
      BY <1>1, <1>2, <1>4, <2>1 DEF Shown
    <2>3. Lower(end, shows) = end
      BY <1>1, <1>6, <2>2 DEF Lower
    <2>4. begin - Start(rom) = position
      BY <1>1, <1>2
    <2>5. FoundIn(begin - carry, end) = FoundIn(Start(rom), end)
      BY <1>1, <1>2, <1>3, <1>6, <2>4, CarrySuffices
    <2>. QED
      BY <2>3, <2>5
  <1>. HIDE DEF hits, begin, end
  <1>8. CASE /\ hits # {} \/ position + len = RomSpan(rom)
             /\ Report(FirstOf(hits), begin, end, FALSE)
    <2>1. FirstOf(hits) \in {0} \cup Patterns
      BY <1>7, FirstOfFound DEF FoundIn
    <2>2. end = Start(rom) + (position + len)
      BY <1>1, <1>2, <1>4 DEF begin, end
    <2>3. end =< Start(rom) + RomSpan(rom)
      BY <1>1, <1>2, <1>4, <2>2
    <2>4. Agrees([marker |-> FirstOf(hits), begin |-> begin, end |-> end,
                  cut |-> FALSE], rom)
      BY <1>3, <1>7, <1>8, <2>2, <2>3 DEF Agrees
    <2>. QED
      BY <1>1, <1>6, <1>8, <2>1, <2>4, ReportStep
  <1>9. CASE Report(0, begin, begin, TRUE)
    <2>1. begin =< Start(rom) + RomSpan(rom)
      BY <1>1, <1>2, <1>3 DEF begin
    <2>2. Agrees([marker |-> 0, begin |-> begin, end |-> begin, cut |-> TRUE], rom)
      BY <1>3, <2>1 DEF Agrees, FirstOf
    <2>. QED
      BY <1>1, <1>6, <1>9, <2>2, ReportStep
  <1>10. CASE /\ hits = {} /\ position + len < RomSpan(rom)
              /\ position' = position + len /\ carry' = CarryAfter(carry, len)
              /\ UNCHANGED <<spc, rom, found>>
    <2>1. /\ position' \in Nat /\ carry' \in Nat
          /\ carry' = Lower(Overlap, position')
      <3>1. position' = position + len /\ carry' = Lower(Overlap, carry + len)
        BY <1>10 DEF CarryAfter
      <3>2. Overlap \in Nat /\ len \in Nat /\ position \in Nat
        BY <1>1, <1>4, ScanAssumption
      <3>3. Lower(Overlap, Lower(Overlap, position) + len)
              = Lower(Overlap, position + len)
        BY <3>2 DEF Lower
      <3>4. Lower(Overlap, position + len) \in Nat
        BY <3>2 DEF Lower
      <3>. QED
        BY <1>3, <3>1, <3>2, <3>3, <3>4
    <2>2. ScanTypeOK'
      BY <1>1, <1>10, <2>1 DEF ScanInv, ScanTypeOK, catalog
    <2>3. Shown'
      BY <1>1, CatalogStays DEF Shown
    <2>4. Searching'
      <3>1. Start(rom) + (position + len) = end
        BY <1>1, <1>2, <1>4 DEF begin, end
      <3>2. FoundIn(Start(rom), Start(rom) + (position + len)) = {}
        BY <1>7, <1>10, <3>1
      <3>. QED
        BY <1>1, <1>10, <2>1, <3>2, CatalogStays DEF Searching
    <2>5. (\A k \in 1..Len(found) : Agrees(found[k], k))'
      BY <1>1, <1>10, AgreementStays
    <2>. QED
      BY <1>1, <1>10, <2>2, <2>3, <2>4, <2>5, CatalogStays DEF ScanInv
  <1>. QED
    BY <1>5, <1>8, <1>9, <1>10 DEF begin, end, hits

LEMMA ScanInvStep == ScanInv /\ [ScanNext]_scan => ScanInv'
  <1>. SUFFICES ASSUME ScanInv, [ScanNext]_scan PROVE ScanInv'
    OBVIOUS
  <1>1. CASE ScanDone
    <2>1. /\ spc' = "done"
          /\ UNCHANGED <<catalog, shows, rom, position, carry, found>>
      BY <1>1 DEF ScanDone
    <2>2. ScanTypeOK'
      BY <2>1 DEF ScanInv, ScanTypeOK, catalog
    <2>3. (\A k \in 1..Len(found) : Agrees(found[k], k))'
      BY <2>1, AgreementStays
    <2>4. (rom =< analyzed + 1 /\ Len(found) = rom - 1)'
      BY <2>1, CatalogStays DEF ScanInv
    <2>. QED
      BY <2>1, <2>2, <2>3, <2>4 DEF ScanInv
  <1>2. CASE UNCHANGED scan
    <2>1. UNCHANGED <<catalog, spc, shows, rom, position, carry, found>>
      BY <1>2 DEF scan, catalog
    <2>2. ScanTypeOK'
      BY <2>1 DEF ScanInv, ScanTypeOK, catalog
    <2>3. Shown' <=> Shown
      BY <2>1, CatalogStays DEF Shown
    <2>4. Searching' <=> Searching
      BY <2>1, CatalogStays DEF Searching
    <2>5. (\A k \in 1..Len(found) : Agrees(found[k], k))'
      BY <2>1, AgreementStays
    <2>. QED
      BY <2>1, <2>2, <2>3, <2>4, <2>5, CatalogStays DEF ScanInv
  <1>. QED
    BY <1>1, <1>2, PrepareStep, HeaderStep, ChunkStep DEF ScanNext

LEMMA ScanInvAgrees == ScanInv => ScanAgrees
  BY DEF ScanInv, ScanAgrees, Agrees

\* The analysis of any catalog and any card, with reads that fail anywhere,
\* reports of every ROM what a search of the whole up to the last chunk read
\* would find.
THEOREM ChunkedSearchIsWhole == ScanSpec => []ScanAgrees
  <1>. QED
    BY ScanInvInit, ScanInvStep, ScanInvAgrees, PTL DEF ScanSpec

\* Type correctness of the analysis.
THEOREM ScanTypeCorrect == ScanSpec => []ScanTypeOK
  <1>1. ScanInv => ScanTypeOK
    BY DEF ScanInv
  <1>. QED
    BY <1>1, ScanInvInit, ScanInvStep, PTL DEF ScanSpec
=============================================================================

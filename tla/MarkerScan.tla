----------------------------- MODULE MarkerScan -----------------------------
(***************************************************************************)
(* SaveCatalogAnalyzer: the save tool's search of each catalogued ROM for  *)
(* a save-library marker, in chunks that carry the end of what was read    *)
(* over to the next.                                                       *)
(*                                                                         *)
(* Patterns are numbers in the order of the source's list; 0 is no marker. *)
(* `occ` says where on the card each of them occurs.  Any read may fail.   *)
(***************************************************************************)
EXTENDS CardLayout

CONSTANTS
    PatternLen,     \* the length of each pattern
    Chunk,          \* chunk_size, 64 KiB
    Overlap         \* overlap, 32 bytes

Patterns == DOMAIN PatternLen

ASSUME ScanAssumption ==
    /\ PatternLen \in Seq(Nat \ {0})
    /\ Chunk \in Nat \ {0} /\ Overlap \in Nat
    /\ \A p \in Patterns : PatternLen[p] =< Overlap + 1

VARIABLES
    entries, loaderAt, loaderEnd,   \* the catalog that was read
    occ,        \* external: <<pattern, address>> pairs on the card
    analyzed,   \* analyzed_count
    spc,
    shows,      \* external: units the prepared mapping shows
    rom,        \* index of the ROM in progress
    position, carry,    \* of detectSaveMarker; the carry by its length
    found       \* the markers so far, with where the search ended

scan == <<entries, loaderAt, loaderEnd, occ, analyzed, spc, shows, rom,
          position, carry, found>>
catalog == <<entries, loaderAt, loaderEnd, occ, analyzed>>

-----------------------------------------------------------------------------
Start(k) == entries[k].start
RomSpan(k) == Span(entries, k, loaderAt)

\* Patterns that occur within lo..hi-1.
FoundIn(lo, hi) ==
    {p \in Patterns : \E a \in lo..(hi - PatternLen[p]) : <<p, a>> \in occ}

\* The first pattern of the list among those.
FirstOf(S) == IF S = {} THEN 0 ELSE CHOOSE p \in S : \A q \in S : p =< q

\* The last address the analysis of ROM k will read.
LastNeeded(k) == Start(k) + RomSpan(k) - 1

\* highest_scan_address
IsHighest(h) ==
    /\ h >= loaderEnd
    /\ \A k \in 1..analyzed : RomSpan(k) > 0 => h >= LastNeeded(k)
    /\ h = loaderEnd \/ \E k \in 1..analyzed : RomSpan(k) > 0 /\ h = LastNeeded(k)

ScanTypeOK ==
    /\ entries \in Seq([start : Nat, extent : Nat \ {0}])
    /\ loaderAt \in Nat /\ loaderEnd \in Nat
    /\ occ \subseteq (Patterns \X Nat)
    /\ analyzed \in 0..Len(entries)
    /\ spc \in {"off", "prepare", "header", "chunk", "done", "failed"}
    /\ shows \in Nat
    /\ rom \in 1..(Len(entries) + 1)
    /\ position \in Nat /\ carry \in Nat
    /\ found \in Seq([marker : {0} \cup Patterns, begin : Nat, end : Nat,
                      cut : BOOLEAN])

-----------------------------------------------------------------------------
\* prepareLinearForAddress(highest_scan_address); the mapping shows at least
\* what it was prepared for.
PrepareScan ==
    /\ spc = "prepare"
    /\ UNCHANGED <<catalog, rom, position, carry, found>>
    /\ \/ /\ spc' = "header"
          /\ \E h \in Units : IsHighest(h) /\ shows' = h + 1
       \/ spc' = "failed" /\ UNCHANGED shows

Report(marker, begin, end, cut) ==
    /\ found' = Append(found, [marker |-> marker, begin |-> begin,
                               end |-> end, cut |-> cut])
    /\ rom' = rom + 1 /\ spc' = "header"
    /\ UNCHANGED <<position, carry>>

\* The header is read for display; one that cannot be read is left blank.  A
\* ROM without an allocation has no marker.
ScanHeader ==
    /\ spc = "header" /\ rom =< analyzed
    /\ UNCHANGED <<catalog, shows>>
    /\ IF RomSpan(rom) = 0 THEN Report(0, Start(rom), Start(rom), FALSE)
       ELSE /\ spc' = "chunk" /\ position' = 0 /\ carry' = 0
            /\ UNCHANGED <<rom, found>>

\* Mutant: nothing is carried.
CarryNothing(c, len) == 0

\* The length of the carry after a chunk, `joined` being the carry and it.
CarryAfter(c, len) == Lower(Overlap, c + len)

\* One pass of the loop of detectSaveMarker.
ScanChunk ==
    /\ spc = "chunk"
    /\ UNCHANGED <<catalog, shows>>
    /\ LET begin == Start(rom) + position
           len == Lower(Chunk, RomSpan(rom) - position)
           end == begin + len
           hits == FoundIn(begin - carry, Lower(end, shows))
       IN  \/ /\ hits # {} \/ position + len = RomSpan(rom)
              /\ Report(FirstOf(hits), begin, end, FALSE)
           \/ /\ hits = {} /\ position + len < RomSpan(rom)
              /\ position' = position + len
              /\ carry' = CarryAfter(carry, len)
              /\ UNCHANGED <<spc, rom, found>>
           \/ Report(0, begin, begin, TRUE)

ScanDone ==
    /\ spc = "header" /\ rom > analyzed
    /\ spc' = "done"
    /\ UNCHANGED <<catalog, shows, rom, position, carry, found>>

ScanNext == PrepareScan \/ ScanHeader \/ ScanChunk \/ ScanDone

\* The analysis of a catalog that was read, on any card.
ScanInit ==
    /\ entries \in Seq([start : Nat, extent : Nat \ {0}])
    /\ loaderAt \in Units /\ loaderEnd \in Units
    /\ occ \in SUBSET (Patterns \X Units)
    /\ analyzed \in 0..Len(entries)
    /\ spc = "prepare" /\ shows = 0
    /\ rom = 1 /\ position = 0 /\ carry = 0 /\ found = <<>>

ScanSpec == ScanInit /\ [][ScanNext]_scan

-----------------------------------------------------------------------------
(* The search by chunks is a search of the whole: what is reported is the    *)
(* first pattern of the list that occurs from the ROM's start to the end of  *)
(* the last chunk read, no pattern was complete before that chunk, and       *)
(* "none" is only reported of the ROM's whole span or of a read that failed. *)
(* So a marker across two chunks is found, but a longer pattern of which the *)
(* first chunk holds a whole shorter one is not.                             *)
ScanAgrees ==
    \A k \in 1..Len(found) :
        LET f == found[k] IN
        /\ f.marker = FirstOf(FoundIn(Start(k), f.end))
        /\ FoundIn(Start(k), f.begin) = {}
        /\ FoundIn(Start(k), f.end) = {} =>
             f.cut \/ f.end = Start(k) + RomSpan(k)
=============================================================================

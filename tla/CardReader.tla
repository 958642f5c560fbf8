----------------------------- MODULE CardReader -----------------------------
(***************************************************************************)
(* One run of the card reader tool: ReadOnlyCartridge::initialize and its  *)
(* classification, the linear read mappings, the catalog, and inspection   *)
(* or extraction with the exit code main returns.                          *)
(*                                                                         *)
(* Addresses are in units; a quarter of the card is 8 MiB.  A transfer may *)
(* fail at any step.  A mapping sequence that fails leaves the card with   *)
(* the old mapping, the new one, or one that shows no card content, while  *)
(* linear_read_limit_ keeps its value.                                     *)
(***************************************************************************)
EXTENDS Integers, Sequences

CONSTANTS
    Quarter,        \* units of 8 MiB, limit8 of requiredLinearReadLimit
    Block,          \* units of one extraction read, 64 KiB
    LoaderRead,     \* units of loader_read_size, 0x7080 bytes
    SingleLoader,   \* units of a single-ROM loader, 0x660 bytes
    Cards,          \* the cartridges that may be inserted
    Requests        \* the command lines

CardLen == 4 * Quarter
Units == 0..(CardLen - 1)

SizeClass(type) == CardLen \div 2^type

ASSUME ReaderAssumption ==
    /\ Quarter \in Nat \ {0} /\ Block \in Nat \ {0}
    /\ LoaderRead \in 1..Quarter /\ SingleLoader \in 1..LoaderRead
    /\ \A c \in Cards :
        /\ c.kind \in {"ez3", "blank", "official", "other"}
        /\ c.id \in BOOLEAN
        /\ c.loader \in Units /\ c.used \in 1..CardLen
        /\ c.roms \in Seq([start : Units, type : Nat, header : BOOLEAN])
        /\ \A k \in DOMAIN c.roms :
            c.roms[k].type =< 9 => SizeClass(c.roms[k].type) \in Nat \ {0}
        /\ c.kind = "ez3" => Len(c.roms) > 0
    /\ \A r \in Requests :
        /\ r.extract \in BOOLEAN /\ r.exists \in BOOLEAN
        /\ r.rom \in Nat            \* 0: no ROM number given

VARIABLES
    card, request,
    pc,
    kind,       \* kind_, the class the cartridge was given
    limit,      \* linear_read_limit_, in quarters
    map,        \* card: quarters that linear reads show
    step,       \* "classify" or "inspect": who reads the catalog
    off,        \* offset of the next extraction block
    image,      \* units of the image read from their own place on the card
    finished,   \* finishSession: "no", "ok" or "failed"
    file,       \* the output file
    exit,       \* the exit code, -1 while running
    faulted     \* whether a transfer or a file operation failed

vars == <<card, request, pc, kind, limit, map, step, off, image, finished,
          file, exit, faulted>>
input == <<card, request>>
extraction == <<off, image, file>>

-----------------------------------------------------------------------------
(* CartridgeFormat, CatalogEntry and Ez3CatalogReader *)

\* Mutant: the exclusive end of the extent.
RequiredLimitOfEnd(end) == (end + 1) \div Quarter + 1

\* requiredLinearReadLimit, in quarters
RequiredLimit(end) == end \div Quarter + 1

Shows(a) == card.kind = "official" \/ a < map * Quarter

RomCount == Len(card.roms)
RomIndex == IF request.rom = 0 THEN 1 ELSE request.rom

\* Mutant: an index compared as if it began at 0.
InCatalogFromZero == RomIndex < RomCount

InCatalog == RomIndex =< RomCount

\* storedEnd; an entry whose class is unknown or which leaves the card has none.
HasStoredEnd(e) == e.type =< 9 /\ e.start + SizeClass(e.type) =< CardLen
StoredEnd(e) == e.start + SizeClass(e.type) - 1

Selected == card.roms[RomIndex]
RomUnits(e) == e.start..StoredEnd(e)

LoaderEnd ==
    card.loader + (IF CardLen - card.loader < LoaderRead
                   THEN CardLen - card.loader ELSE LoaderRead) - 1

HighestStart ==
    CHOOSE s \in {card.roms[k].start : k \in 1..RomCount} :
        \A k \in 1..RomCount : card.roms[k].start =< s

\* Mutant: the single-ROM loader length for every layout.
LoaderLengthSingle(n) == SingleLoader

LoaderLength(n) == IF n = 1 THEN SingleLoader ELSE LoaderRead

\* What reconstructEz3Rom fills with FF.
LoaderOverlap ==
    RomUnits(Selected)
        \cap (card.loader..(card.loader + LoaderLength(RomCount) - 1))

\* trimmedGbaRomSize: the smallest supported size with all content in it.
SupportedSizes == {CardLen \div d : d \in {1, 2, 4, 8, 16, 32}}
TrimmedSize(used) ==
    CHOOSE s \in SupportedSizes :
        used =< s /\ \A t \in SupportedSizes : used =< t => s =< t

-----------------------------------------------------------------------------
TypeOK ==
    /\ card \in Cards /\ request \in Requests
    /\ pc \in {"open", "branch", "loader_map", "loader", "header", "prime",
               "decide", "official", "dump", "starts_map", "headers",
               "select", "extent_map", "extract", "reconstruct", "close",
               "store", "done"}
    /\ kind \in {"unknown", "ez3", "official"}
    /\ limit \in 1..4 /\ map \in 0..4
    /\ step \in {"classify", "inspect"}
    /\ off \in Nat
    /\ image \subseteq Units
    /\ finished \in {"no", "ok", "failed"}
    /\ file \in {"absent", "partial", "whole"}
    /\ exit \in -1..3
    /\ faulted \in BOOLEAN

Init ==
    /\ card \in Cards /\ request \in Requests
    /\ pc = "open" /\ kind = "unknown" /\ step = "classify"
    /\ limit = 1 /\ map \in 0..4
    /\ off = 0 /\ image = {} /\ file = "absent"
    /\ finished = "no" /\ exit = -1 /\ faulted = FALSE

Goto(p) == pc' = p /\ UNCHANGED <<exit, faulted>>
Exit(code) == pc' = "done" /\ exit' = code /\ UNCHANGED faulted
FailWith(code) == pc' = "done" /\ exit' = code /\ faulted' = TRUE

\* finishSession, then the exit code: the one given, or 2 if it fails.
FinishThen(code) ==
    \/ finished' = "ok" /\ pc' = "done" /\ exit' = code /\ UNCHANGED faulted
    \/ finished' = "failed" /\ FailWith(2)

\* Mutant: leave without finishing.
FailAtOnce(code) == FailWith(code) /\ UNCHANGED finished

\* fail_after_cleanup, when a transfer has failed already.
FailAfterCleanup(code) ==
    \/ finished' = "ok" /\ FailWith(code)
    \/ finished' = "failed" /\ FailWith(2)

-----------------------------------------------------------------------------
(* initialize *)

\* main refuses an existing output file and ends if the bridge cannot be
\* opened; then startup, the probes and the two flash IDs, which select the
\* lower 8 MiB.  An ID read as anything but the known ones leaves the decision
\* to the content.
Open ==
    /\ pc = "open"
    /\ UNCHANGED <<input, limit, step, extraction, finished>>
    /\ IF request.extract /\ request.exists
       THEN Exit(1) /\ UNCHANGED <<map, kind>>
       ELSE \/ /\ map' = 1
               /\ IF card.id THEN Goto("prime") /\ kind' = "ez3"
                  ELSE Goto("branch") /\ UNCHANGED kind
            \/ /\ card.id /\ map' = 1
               /\ pc' = "branch" /\ faulted' = TRUE /\ UNCHANGED <<exit, kind>>
            \/ FailWith(2) /\ map' \in {map, 1} /\ UNCHANGED kind
            \/ FailWith(1) /\ UNCHANGED <<map, kind>>

\* How the catalog reader's caller goes on: classification looks at the header
\* whatever went wrong, inspection returns.
CatalogReadFailed ==
    IF step = "classify"
    THEN pc' = "header" /\ faulted' = TRUE /\ UNCHANGED exit
    ELSE FailWith(2)
NoCatalog == IF step = "classify" THEN Goto("header") ELSE Exit(3)

\* readArmBranch(0).  Other ROMs start with a branch into their lower 8 MiB,
\* too; the loader read at its target shows no catalog.
ReadBranch ==
    /\ pc = "branch"
    /\ UNCHANGED <<input, kind, limit, map, step, extraction, finished>>
    /\ \/ /\ card.kind = "ez3" /\ Shows(0)
          /\ Goto(IF RequiredLimit(LoaderEnd) > limit
                  THEN "loader_map" ELSE "loader")
       \/ card.kind \in {"official", "other"} /\ Shows(0) /\ Goto("loader")
       \/ ~(card.kind = "ez3" /\ Shows(0)) /\ NoCatalog
       \/ CatalogReadFailed

\* prepareLinear16MiB, 24MiB and 32MiB
Prepared(l) == map' = l /\ limit' = l
PrepareFails(l) == map' \in {map, l, 0} /\ UNCHANGED limit

PrepareForLoader ==
    /\ pc = "loader_map"
    /\ UNCHANGED <<input, kind, step, extraction, finished>>
    /\ \/ Prepared(RequiredLimit(LoaderEnd)) /\ Goto("loader")
       \/ PrepareFails(RequiredLimit(LoaderEnd)) /\ CatalogReadFailed

\* The mapping is upgraded for the highest ROM start.
CatalogFound ==
    IF step = "classify" THEN kind' = "ez3" /\ Goto("prime")
    ELSE /\ UNCHANGED kind
         /\ Goto(IF RequiredLimit(HighestStart) > RequiredLimit(LoaderEnd)
                    /\ RequiredLimit(HighestStart) > limit
                 THEN "starts_map" ELSE "headers")

ReadLoader ==
    /\ pc = "loader"
    /\ UNCHANGED <<input, limit, map, step, extraction, finished>>
    /\ \/ card.kind = "ez3" /\ Shows(LoaderEnd) /\ CatalogFound
       \/ card.kind # "ez3" /\ NoCatalog /\ UNCHANGED kind
       \/ CatalogReadFailed /\ UNCHANGED kind

\* What the first 0xC0 bytes look like.  The image of an EZ3 card begins with
\* ROM 1 and therefore with a valid GBA header; a mapping that shows no card
\* content may show FF.
HeaderLooks ==
    IF ~Shows(0) THEN {"erased", "neither"}
    ELSE CASE card.kind = "official" -> {"gba"}
           [] card.kind = "ez3" /\ card.roms[1].header -> {"gba"}
           [] card.kind = "blank" -> {"erased"}
           [] OTHER -> {"neither"}

\* classifyContentHeader; an unknown kind ends the run without finishSession.
ClassifyByHeader ==
    /\ pc = "header"
    /\ UNCHANGED <<input, limit, map, step, extraction, finished>>
    /\ \/ "gba" \in HeaderLooks /\ kind' = "official" /\ Goto("decide")
       \/ "erased" \in HeaderLooks /\ kind' = "ez3" /\ Goto("prime")
       \/ "neither" \in HeaderLooks /\ Exit(2) /\ UNCHANGED kind
       \/ FailWith(2) /\ UNCHANGED kind

\* 0x95 and a header read, for EZ3 cards
Prime ==
    /\ pc = "prime"
    /\ UNCHANGED <<input, kind, limit, map, step, extraction, finished>>
    /\ Goto("decide") \/ FailWith(2)

-----------------------------------------------------------------------------
(* main, decideCardReaderAction *)

Decide ==
    /\ pc = "decide"
    /\ UNCHANGED <<input, kind, limit, map, extraction>>
    /\ \/ kind = "ez3" /\ Goto("branch") /\ step' = "inspect" /\ UNCHANGED finished
       \/ /\ kind = "official" /\ request.rom = 0
          /\ Goto(IF request.extract THEN "dump" ELSE "official")
          /\ UNCHANGED <<step, finished>>
       \/ kind = "official" /\ request.rom # 0 /\ FinishThen(1) /\ UNCHANGED step

\* The header is read again; a failed read and an invalid header are one.
InspectOfficial ==
    /\ pc = "official"
    /\ UNCHANGED <<input, kind, limit, map, step, extraction>>
    /\ FinishThen(0) \/ FailAfterCleanup(3)

-----------------------------------------------------------------------------
(* Blocks of an extraction *)

BlockUnits(first, len) ==
    {u \in Units : first + off =< u /\ u < first + off + Block
                   /\ u < first + len}

\* Mutant: the offset is kept within the card's address lines.
NextOffsetMasked == (off + Block) % CardLen

NextOffset == off + Block
Kept(first, len) == image \cup {u \in BlockUnits(first, len) : Shows(u)}

\* extract_official_cartridge: all of the address space.  A failed read, or a
\* first block without a valid header, ends it after finishSession, whose
\* result changes nothing then.
DumpBlock ==
    /\ pc = "dump" /\ off < CardLen
    /\ UNCHANGED <<input, kind, limit, map, step, file>>
    /\ \/ /\ image' = Kept(0, CardLen) /\ off' = NextOffset
          /\ Goto("dump") /\ UNCHANGED finished
       \/ /\ finished' \in {"ok", "failed"} /\ UNCHANGED <<off, image>>
          /\ FailWith(2) \/ (off = 0 /\ FailWith(3))

DumpDone ==
    /\ pc = "dump" /\ off >= CardLen
    /\ Goto("close")
    /\ UNCHANGED <<input, kind, limit, map, step, extraction, finished>>

-----------------------------------------------------------------------------
(* inspect_card and extract_ez3_rom *)

PrepareForStarts ==
    /\ pc = "starts_map"
    /\ UNCHANGED <<input, kind, step, extraction, finished>>
    /\ \/ Prepared(RequiredLimit(HighestStart)) /\ Goto("headers")
       \/ PrepareFails(RequiredLimit(HighestStart)) /\ FailWith(2)

\* Every ROM header is read for display; one that cannot be read is left out
\* and the run goes on.
ReadHeaders ==
    /\ pc = "headers"
    /\ UNCHANGED <<input, kind, limit, map, step, extraction>>
    /\ \/ request.extract /\ pc' = "select" /\ UNCHANGED <<exit, finished>>
          /\ faulted' \in {faulted, TRUE}
       \/ ~request.extract /\ FinishThen(0)
       \/ ~request.extract /\ FailAfterCleanup(0)

\* Mutant: the mapping is chosen for the start of the ROM, not its end.
NeededForStart(e) == RequiredLimit(e.start)

NeededForExtent(e) == RequiredLimit(StoredEnd(e))

SelectRom ==
    /\ pc = "select"
    /\ UNCHANGED <<input, kind, limit, map, step, extraction>>
    /\ \/ ~InCatalog /\ FinishThen(1)
       \/ InCatalog /\ ~HasStoredEnd(Selected) /\ FinishThen(3)
       \/ /\ InCatalog /\ HasStoredEnd(Selected)
          /\ Goto(IF NeededForExtent(Selected) > limit
                  THEN "extent_map" ELSE "extract")
          /\ UNCHANGED finished

PrepareForExtent ==
    /\ pc = "extent_map"
    /\ UNCHANGED <<input, kind, step, extraction>>
    /\ \/ /\ Prepared(NeededForExtent(Selected))
          /\ Goto("extract") /\ UNCHANGED finished
       \/ PrepareFails(NeededForExtent(Selected)) /\ FailAfterCleanup(2)

ExtractBlock ==
    /\ pc = "extract" /\ off < SizeClass(Selected.type)
    /\ UNCHANGED <<input, kind, limit, map, step, file>>
    /\ \/ /\ image' = Kept(Selected.start, SizeClass(Selected.type))
          /\ off' = NextOffset
          /\ Goto("extract") /\ UNCHANGED finished
       \/ FailAfterCleanup(2) /\ UNCHANGED <<off, image>>

ExtractDone ==
    /\ pc = "extract" /\ off >= SizeClass(Selected.type)
    /\ Goto("reconstruct")
    /\ UNCHANGED <<input, kind, limit, map, step, extraction, finished>>

\* reconstructEz3Rom and the header check of the result
Reconstruct ==
    /\ pc = "reconstruct"
    /\ image' = image \ LoaderOverlap
    /\ UNCHANGED <<input, kind, limit, map, step, off, file>>
    /\ IF Selected.header /\ Selected.start \in image'
       THEN Goto("close") /\ UNCHANGED finished
       ELSE FinishThen(3)

\* Mutant: the cleanup is reported, and the file is written all the same.
CloseAnyway ==
    /\ pc = "close"
    /\ UNCHANGED <<input, kind, limit, map, step, extraction>>
    /\ pc' = "store" /\ finished' \in {"ok", "failed"} /\ UNCHANGED <<exit, faulted>>

\* No output file is written when the session cannot be finished.
Close ==
    /\ pc = "close"
    /\ UNCHANGED <<input, kind, limit, map, step, extraction>>
    /\ \/ finished' = "ok" /\ Goto("store")
       \/ finished' = "failed" /\ FailWith(2)

\* An official image is trimmed first.  The file is closed before its state
\* is tested.
Store ==
    /\ pc = "store"
    /\ UNCHANGED <<input, kind, limit, map, step, off, finished>>
    /\ image' = IF kind = "official"
                THEN {u \in image : u < TrimmedSize(card.used)} ELSE image
    /\ \/ file' = "whole" /\ Exit(0)
       \/ file' \in {"absent", "partial"} /\ FailWith(2)

Exited == pc = "done" /\ UNCHANGED vars

Work ==
    \/ Open \/ ReadBranch \/ PrepareForLoader \/ ReadLoader \/ ClassifyByHeader
    \/ Prime \/ Decide \/ InspectOfficial \/ DumpBlock \/ DumpDone
    \/ PrepareForStarts \/ ReadHeaders \/ SelectRom \/ PrepareForExtent
    \/ ExtractBlock \/ ExtractDone \/ Reconstruct \/ Close \/ Store

Next == Work \/ Exited

Spec == Init /\ [][Next]_vars /\ WF_vars(Work)

-----------------------------------------------------------------------------
Stored == request.extract /\ exit = 0

(* A run that reports an extracted EZ3 ROM wrote all of its catalogued       *)
(* extent, each unit read through a mapping that shows it, except for the    *)
(* units of the loader; a dump of an official cartridge has all its content. *)
ExtractionIsWhole ==
    /\ Stored /\ kind = "ez3" =>
        /\ file = "whole"
        /\ image = RomUnits(Selected)
                   \ (card.loader..(card.loader +
                        (IF RomCount = 1 THEN SingleLoader ELSE LoaderRead) - 1))
    /\ Stored /\ kind = "official" /\ card.kind = "official" =>
        file = "whole" /\ 0..(card.used - 1) \subseteq image

(* While ROM blocks are read, the card shows the whole extent: the cached    *)
(* linear_read_limit_ that decides whether a mapping sequence is sent is     *)
(* what the card was left with, in spite of earlier failed sequences.        *)
MappingCoversExtent == pc = "extract" => RequiredLimit(StoredEnd(Selected)) =< map

(* Nothing is written to the output path before the read session was         *)
(* finished.                                                                 *)
FileNeedsCleanup == file # "absent" => finished = "ok"

(* Once a cartridge is accepted for extraction and its catalog is read,      *)
(* every way out attempts finishSession.                                     *)
ExtractionFinishesSession ==
    [][pc' = "done" /\ pc \in {"select", "extent_map", "extract",
                               "reconstruct", "close", "dump"}
       => finished' # "no"]_vars

(* What makes the safety properties inductive.                               *)
CatalogStages ==
    {"starts_map", "headers", "select", "extent_map", "extract", "reconstruct"}

FileInv ==
    /\ pc # "done" => file = "absent" /\ exit = -1
    /\ pc = "store" => finished = "ok"
    /\ FileNeedsCleanup

\* A cached limit may be too high only while the card shows nothing, and then
\* no catalog is found.
MappingInv ==
    /\ pc = "open" => limit = 1
    /\ pc \notin {"open", "done"} => map = 0 \/ limit =< map
    /\ pc = "loader_map" => limit < RequiredLimit(LoaderEnd)
    /\ pc \in CatalogStages => limit =< map
    /\ MappingCoversExtent

KindInv ==
    /\ step = "inspect" =>
        kind = "ez3" /\ pc \notin {"open", "header", "prime", "decide", "dump"}
    /\ pc \in CatalogStages => kind = "ez3" /\ card.kind = "ez3"
    /\ pc = "dump" => kind = "official"
    /\ pc = "official" => ~request.extract
    /\ pc \in {"extent_map", "extract", "reconstruct"} =>
        InCatalog /\ HasStoredEnd(Selected)

ImageInv ==
    /\ pc \notin {"dump", "extract", "reconstruct", "close", "store", "done"} =>
        off = 0 /\ image = {}
    /\ pc = "extract" =>
        image = {u \in RomUnits(Selected) : u < Selected.start + off}
    /\ pc = "reconstruct" => image = RomUnits(Selected)
    /\ pc = "dump" /\ card.kind = "official" => image = {u \in Units : u < off}
    /\ pc \in {"close", "store"} =>
        /\ kind = "ez3" => image = RomUnits(Selected) \ LoaderOverlap
        /\ kind = "official" /\ card.kind = "official" => image = Units

IInv == TypeOK /\ FileInv /\ MappingInv /\ KindInv /\ ImageInv /\ ExtractionIsWhole

(* A request for something the cartridge has fails only if a transfer or a   *)
(* file operation failed.                                                    *)
Served ==
    /\ ~(request.extract /\ request.exists)
    /\ \/ card.kind = "official" /\ request.rom = 0
       \/ /\ card.kind = "ez3" /\ (card.id \/ card.roms[1].header)
          /\ request.extract =>
               /\ RomIndex =< RomCount /\ HasStoredEnd(Selected)
               /\ Selected.header /\ Selected.start \notin LoaderOverlap
FailureHasCause == exit > 0 /\ Served => faulted

(* The run ends, whatever fails.                                             *)
AlwaysExits == <>(pc = "done")

(* Only an official cartridge is reported or dumped as one                   *)
(* (SOFTWARE_SPECIFICATION.md: classification "must be based on              *)
(* capture-observed probe behavior").                                        *)
OfficialIsOfficial == kind = "official" /\ exit = 0 => card.kind = "official"

(* An inspection of an EZ3 card attempts the readiness transition before it  *)
(* ends (SOFTWARE_SPECIFICATION.md, the bridge session).                     *)
InspectionFinishesSession ==
    pc = "done" /\ step = "inspect" => finished # "no"
=============================================================================

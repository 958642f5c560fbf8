---------------------------- MODULE CardRoundTrip ----------------------------
(***************************************************************************)
(* ROM files to a card and back: the writer's main builds an image, opens  *)
(* the device, and writes the card as far as the contract of CardWriter    *)
(* says; then the save tool opens the device, reads the catalog the writer *)
(* put there and looks for the ROMs' save markers; and what the card       *)
(* reader extracts of each ROM is compared with the file.                  *)
(***************************************************************************)
EXTENDS ImageBuilder, UsbDevice, MarkerScan

CONSTANTS
    Commands,       \* the writer's command lines, with what the files hold
    CatalogSlots,   \* catalog_slots, 120
    CapturedRoms,   \* MAX_CAPTURED_ROMS of the save tool, 8
    OldPatterns     \* patterns in what the card held before

VARIABLES
    command, pc, exit,
    rest,           \* the card behind the image: erased, or what it held
    flash, saves, primed, claim, outcome

contract == <<flash, saves, primed, claim, outcome>>
main == <<command, pc, exit, rest>>
vars == <<build, usb, scan, main, contract>>

CardWrite == INSTANCE CardWriteContract
F == INSTANCE Functions

TotalSize(roms) ==
    F!FoldFunction(+, 0, [k \in DOMAIN roms |-> roms[k].size])

\* Files that can be read, have an entry branch and fit on the card together
\* are ROM files the builder may be given.
ASSUME CommandAssumption ==
    \A c \in Commands :
        /\ c.direct \in BOOLEAN
        /\ TotalSize(c.roms) =< CardLen
           /\ (\A k \in DOMAIN c.roms : c.roms[k].opens /\ c.roms[k].branch)
               => c.roms \in Seq(RomFiles)

\* The markers of a ROM file lie in its data behind the entry branch.
ASSUME MarkAssumption ==
    \A r \in RomFiles : \A m \in r.marks :
        /\ m[2] \in Patterns /\ m[1] \in Nat \ {0}
        /\ m[1]..(m[1] + PatternLen[m[2]] - 1) \subseteq r.data

-----------------------------------------------------------------------------
(* The card *)

Card ==
    CASE flash = "whole" ->
           [u \in Units |-> IF u < len THEN image[u] ELSE rest]
      [] flash = "intact" -> [u \in Units |-> OldCell]
      [] OTHER -> Blank

\* A marker of a ROM is on the card where all of its units are; the loaders
\* hold none.
Occurs(p, a) ==
    \/ \E k \in 1..RomCount : \E m \in order[k].marks :
        /\ m[2] = p /\ a = starts[k] + m[1]
        /\ \A i \in 0..(PatternLen[p] - 1) :
            Card[a + i] = RomCell(k, m[1] + i)
    \/ /\ p \in OldPatterns
       /\ a..(a + PatternLen[p] - 1) \subseteq {u \in Units : Card[u] = OldCell}

Occurrences == {po \in Patterns \X Units : Occurs(po[1], po[2])}

\* The branch, the loader and its catalog are there.
HasCatalog == flash = "whole" /\ ~direct

-----------------------------------------------------------------------------
Init ==
    /\ command \in Commands /\ rest \in {Erased, OldCell}
    /\ pc = "load" /\ exit = -1
    /\ input = <<>> /\ direct = FALSE /\ bpc = "off"
    /\ order = <<>> /\ cursor = 0 /\ starts = <<>> /\ copied = 0
    /\ image = Blank /\ len = 0 /\ occupied = {} /\ loader = 0
    /\ reason = "none"
    /\ UsbInit
    /\ entries = <<>> /\ loaderAt = 0 /\ loaderEnd = 0 /\ occ = {}
    /\ analyzed = 0 /\ spc = "off" /\ shows = 0
    /\ rom = 1 /\ position = 0 /\ carry = 0 /\ found = <<>>
    /\ CardWrite!Init

Goto(p) == pc' = p /\ UNCHANGED <<command, exit, rest>>
Exit(p, code) == pc' = p /\ exit' = code /\ UNCHANGED <<command, rest>>

-----------------------------------------------------------------------------
(* The writer's main *)

\* RomAnalyzer: the library of a FLASH512, FLASH1M or EEPROM save; of the
\* latter the size is not always proven, and there is no map without it.
NeedsConsent(r) == r.save # "plain"
HasMapping(r) == command.mapped \/ r.save # "unproven"

\* RomInputLoader::load
Loads(r, consent) ==
    /\ r.opens /\ r.branch
    /\ NeedsConsent(r) => consent
    /\ HasMapping(r)

LoadRoms ==
    /\ pc = "load"
    /\ UNCHANGED <<usb, scan, contract, layout, copied, image, len, occupied,
                   loader, reason>>
    /\ \E consent \in BOOLEAN :
        IF /\ command.roms # <<>>
           /\ command.direct => Len(command.roms) = 1
           /\ Len(command.roms) =< CatalogSlots
           /\ \A k \in DOMAIN command.roms : Loads(command.roms[k], consent)
           /\ TotalSize(command.roms) =< CardLen
        THEN /\ input' = command.roms /\ direct' = command.direct
             /\ bpc' = "start" /\ Goto("build")
        ELSE Exit("done", 1) /\ UNCHANGED <<input, direct, bpc>>

BuildImage ==
    /\ pc = "build" /\ BuildNext
    /\ UNCHANGED <<usb, scan, main, contract>>

ImageRejected ==
    /\ pc = "build" /\ bpc = "rejected"
    /\ Exit("done", 1)
    /\ UNCHANGED <<build, usb, scan, contract>>

DryRun ==
    /\ pc = "build" /\ bpc = "built" /\ ~command.write
    /\ Exit("done", 0)
    /\ UNCHANGED <<build, usb, scan, contract>>

OpenForWrite ==
    /\ pc = "build" /\ bpc = "built" /\ command.write
    /\ StartOpen /\ Goto("open")
    /\ UNCHANGED <<build, scan, contract>>

UsbCall ==
    /\ UsbStep
    /\ UNCHANGED <<build, scan, main, contract>>

WriterOpened ==
    /\ pc = "open" /\ upc = "idle"
    /\ UNCHANGED <<build, scan, contract>>
    /\ \/ opened = "success" /\ Goto("write") /\ UNCHANGED usb
       \/ opened = "failed" /\ Exit("leave", 1) /\ Destroy

WriteCard ==
    /\ pc = "write" /\ CardWrite!Next
    /\ UNCHANGED <<build, usb, scan, main>>

WriterReturns ==
    /\ pc = "write" /\ outcome # "running"
    /\ Exit("leave", IF outcome = "success" THEN 0 ELSE 2)
    /\ Destroy
    /\ UNCHANGED <<build, scan, contract>>

-----------------------------------------------------------------------------
(* The save tool, on the card the writer left *)

\* A process of its own: it has its own device object, finds the flash as the
\* writer left it and knows nothing of what the writer did or claimed.
StartSaveTool ==
    /\ pc = "leave" /\ upc = "gone"
    /\ upc' = "release" /\ uthen' = "init" /\ opened' = "none"
    /\ saves' = "kept" /\ primed' = FALSE /\ claim' = "none"
    /\ outcome' = "running"
    /\ Exit("open again", -1)
    /\ UNCHANGED <<build, context, handle, claimed, live, scan, flash>>

SaveToolOpened ==
    /\ pc = "open again" /\ upc = "idle"
    /\ UNCHANGED <<build, scan, contract>>
    /\ \/ opened = "success" /\ Goto("catalog") /\ UNCHANGED usb
       \/ opened = "failed" /\ Exit("leave again", 1) /\ Destroy

\* Initialization and Ez3CatalogReader::read: any read may fail, and a card
\* without a catalog is no EZ3 card or one without a branch.  The last unit of
\* the loader that is read is cut off at the end of the card.  `analyzed` is
\* the ROM asked for, or all.
ReadCatalog ==
    /\ pc = "catalog"
    /\ UNCHANGED <<build, contract, shows, rom, position, carry, found>>
    /\ \/ /\ HasCatalog /\ RomCount =< CapturedRoms
          /\ entries' = Catalog /\ loaderAt' = loader
          /\ loaderEnd' = Lower(loader + MultiLoader, CardLen) - 1
          /\ occ' = Occurrences
          /\ analyzed' \in 1..RomCount
          /\ spc' = "prepare" /\ Goto("scan") /\ UNCHANGED usb
       \/ /\ \E code \in 2..3 :
              /\ HasCatalog /\ RomCount =< CapturedRoms => code = 2
              /\ Exit("leave again", code)
          /\ Destroy
          /\ UNCHANGED <<catalog, spc>>

ScanCard ==
    /\ pc = "scan" /\ ScanNext
    /\ UNCHANGED <<build, usb, main, contract>>

ScanReturns ==
    /\ pc = "scan" /\ spc \in {"done", "failed"}
    /\ Exit("leave again", IF spc = "done" THEN 0 ELSE 2)
    /\ Destroy
    /\ UNCHANGED <<build, scan, contract>>

SaveToolLeaves ==
    /\ pc = "leave again" /\ upc = "gone"
    /\ Goto("done")
    /\ UNCHANGED <<build, usb, scan, contract>>

Exited == pc = "done" /\ UNCHANGED vars

Next ==
    \/ LoadRoms \/ BuildImage \/ ImageRejected \/ DryRun \/ OpenForWrite
    \/ UsbCall \/ WriterOpened \/ WriteCard \/ WriterReturns
    \/ StartSaveTool \/ SaveToolOpened \/ ReadCatalog \/ ScanCard
    \/ ScanReturns \/ SaveToolLeaves \/ Exited

Spec == Init /\ [][Next]_vars

-----------------------------------------------------------------------------
TypeOK ==
    /\ BuildTypeOK /\ UsbTypeOK /\ ScanTypeOK
    /\ command \in Commands /\ rest \in {Erased, OldCell}
    /\ pc \in {"load", "build", "open", "write", "leave", "open again",
               "catalog", "scan", "leave again", "done"}
    /\ exit \in -1..3
    /\ upc \notin {"idle", "gone"} =>
        pc \in {"open", "leave", "open again", "leave again"}

Verified == outcome = "success" /\ claim = "verified"

Returned(k) == Extracted(Card, Catalog[k], k, RomCount, loader)

\* What may be where a ROM file has FF: erased units, or a smaller ROM.
Recovers(k) ==
    \A j \in 0..(order[k].size - 1) :
        IF j \in order[k].data THEN Returned(k)[j] = RomCell(k, j)
        ELSE \/ Returned(k)[j] = Erased
             \/ Returned(k)[j][1] = "rom" /\ Returned(k)[j][2] > k

(* A card written and verified gives every ROM back: an extraction returns   *)
(* each unit of the file, the entry branch included, and in place of FF only *)
(* FF or a later ROM of the catalog.  With one or more than two ROMs.        *)
RoundTrip ==
    Verified => IF direct
                THEN \A j \in input[1].data : Card[j] = RomCell(1, j)
                ELSE RomCount # 2 => \A k \in 1..RomCount : Recovers(k)

(* The same with two ROMs (SOFTWARE_SPECIFICATION.md: an intersection with   *)
(* "the known loader extent" is reconstructed, "the capture-exact two-ROM    *)
(* extent is 0x6F80").                                                       *)
TwoRomRoundTrip ==
    Verified /\ RomCount = 2 => \A k \in 1..RomCount : Recovers(k)

(* The markers found belong to the ROM they are reported of, whatever else   *)
(* is packed into its extent, unless the extent reaches behind the image to  *)
(* what the card held before; and a ROM with a marker is reported without    *)
(* one only if a read failed or, for the last ROM, its markers lie behind    *)
(* a loader in the middle of it.                                             *)
MarkersAreOwn ==
    \A k \in 1..Len(found) :
        LET f == found[k]  own == order[k].marks IN
        /\ f.marker # 0 /\ (rest = Erased \/ starts[k] + Extent(k) =< len) =>
             \E m \in own : m[2] = f.marker
        /\ f.marker = 0 /\ own # {} /\ ~f.cut =>
             /\ k = RomCount /\ loader > starts[k]
             /\ \A m \in own : starts[k] + m[1] + PatternLen[m[2]] > loader
=============================================================================

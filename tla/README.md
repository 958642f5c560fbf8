# Verification of ezfadvanceIII

TLA+ models, TLC configurations and TLAPS proofs for the four command-line tools of
ezfadvanceIII, which program and read EZF Advance III flash cartridges over USB.
The repository root is called `src/` below: `src/src/` holds the implementation,
`src/include/ezfadvance/` the headers, and the four programs' main files are in `src/`.

## 1. The system

| component | source | state | operations |
|---|---|---|---|
| image writer | `card_writer.cpp`, `libusb_writer_backend.cpp` | ok flag, need-final-clear flag, result; on the device: flash, window, save banks | `CardWriter::write` and the eleven backend calls it makes |
| verification | `verification_session.cpp`, `verification_policy.cpp` | offset, mapping | mode choice, mapping prefix, block compare |
| window selection | `flash_window_selector.cpp` | device window | `select`, `finishOperation` |
| save tool | `save_reader_application.cpp`, `save_bank_workflow.cpp` | request, buffers, exit code | parse, confirm, erase / direct / catalog workflow, finish |
| save geometry | `save_bank_selector.hpp`, `save_bank_layout.hpp`, `save_selection.hpp`, `save_access_planner.cpp` | none | accommodates, allocate, select, plan |
| save memory access | `save_memory_reader.cpp`, `save_memory_writer.cpp`, `save_bank_cleaner.cpp`, `save_bank_access.cpp` | bank loop | read, write, clear one range |
| save files | `save_file_store.cpp` | files | `write`, `writeNew` |
| card wipe | `card_wipe_workflow.cpp` | phase, sector | preflight, erase, check, finish |
| card reader | `ez3_card_workflow.cpp`, `ezfadvanceIII_card_reader.cpp` | catalog, output files | inspect, extract |
| read-only cartridge | `read_only_cartridge.cpp`, `read_session_transition.cpp` | kind, `linear_read_limit_` | initialize, map, read, finishSession |
| catalog | `ez3_catalog.cpp`, `ez3_catalog_reader.cpp` | none | find loader, parse, allocation ends |
| save markers | `save_catalog_analyzer.cpp` | chunk position, carried-over bytes, results | `analyze`, `detectSaveMarker` |
| image builder | `cartridge_image_builder.cpp`, `cartridge_format.cpp` | order, starts, image, loader | `build`: sort, place, copy, fit the loader, pad |
| protocol | `protocol.cpp` | pending answers on the bus | command-data-echo |
| USB device | `usb_device.cpp` | context, handle, claim | `open`, `close`, the destructor |
| writer's main | `ezfadvanceIII_multirom_writer.cpp`, `rom_input_loader.cpp`, `rom_analyzer.cpp` | exit code | load, build, dry run, open, write |
| the rest | argument text, EEPROM detection, presenters, progress bar, platform | none that outlives a call | |

The tools are sequential: no threads, no callbacks that outlive a call. The hard
behaviour comes from the device. Any transfer can fail, and a transfer that failed may
still have taken effect; acknowledged data may not have been stored; answers can be
late; device state (window, mapping, selected save bank, read session) outlives
every call; the process can die between any two steps. What goes right in each tool
is therefore a matter of order: back up before writing, erase before programming,
clear after the last transfer that dirties the saves, clean up on each of many early
returns, and agree on boundaries that are computed in several places.

What makes each component correct:

- writer: every programmed block was erased in the same run, windows above the image are
  not erased, "verified" means all of the image is on the card, a success leaves the
  save banks zero, a failure after the global setup still attempts the final clear,
  flash is untouched before setup is complete, a failure has a cause, the call returns;
- save tool: the backup holds the original before anything changes, writes stay in
  the selected range and go in order, exit code 0 is the truth, another ROM's save is
  never touched by a catalog write, ranges fit, the session is cleaned up;
- wipe: a completed wipe erased all four windows and left the save banks zero, nothing
  destructive is sent while an unread answer waits on the bridge, the readiness poll is
  bounded, a clean bridge is wiped in the end;
- reader: an extracted image is the whole extent read through a mapping that shows it,
  no file appears before the session is finished, a failure has a cause, the run ends;
- builder: no byte of a ROM and no byte of the loader is written over, the loader lies in
  erased space, everything lies inside the card;
- catalog, markers and extraction on a card the builder made: an extraction returns the
  file, the search by chunks finds what a search of the whole would, and a marker is
  reported of the ROM it belongs to;
- USB device: what was acquired is released, once and innermost first, wherever
  `open` failed.

The hazards of the code, each with its line and the properties that watch it, are in
`PROJECT.json`.

## 2. Modules

| module | what it is |
|---|---|
| `FlashGeometry` | windows, blocks and sectors of the flash, erase lists, verification modes and extents, as pure operators |
| `WriterSession` | one `CardWriter::write`, one action per backend call or loop pass |
| `CardWriteContract` | what a card write promises: touch the saves, prime, modify the flash, claim, return |
| `WriterRefinement` | the refinement mapping; `MeetsContract` says the session implements the contract |
| `MCWriterSession` | TLC instance of the writer |
| `FlashGeometryProofs`, `WriterSessionProofs` | TLAPS proofs about the writer, the refinement included |
| `SaveBanks` | save bank geometry, option rules and ranges |
| `SaveTool` | one run of the save tool, one action per call that can fail |
| `MCSaveTool` | TLC instance of the save tool |
| `SaveToolProofs` | TLAPS proofs about the save tool |
| `BridgeLink` | commands of the bridge, the packets of an answer, what one IN transfer returns and what a caller accepts |
| `CardWipe` | runs of the wipe tool one after another on a bridge that keeps unread answers; checked without an MC module |
| `CardWipeProofs` | TLAPS proofs about the wipe |
| `CardReader` | one run of the card reader with the read-only cartridge and the catalog reader |
| `MCCardReader` | TLC instance of the reader: cartridges and command lines |
| `CardReaderProofs` | TLAPS proofs about the reader |
| `CardLayout` | what lies where on a card: cells, size classes, allocation ends, spans, what an extraction makes of them; pure operators |
| `ImageBuilder` | one `CartridgeImageBuilder::build`, one action per ROM placed or copied, and per stage |
| `MarkerScan` | one marker analysis, one action per read |
| `UsbDevice` | the life of a device object, one action per libusb call |
| `CardRoundTrip` | the writer's main and after it the save tool, composed of the builder, the device, the writer's contract and the marker scan |
| `MCCardRoundTrip` | TLC instance: ROM files and command lines |
| `ImageBuilderProofs`, `MarkerScanProofs` | TLAPS proofs about the two |
| `CardRoundTripProofs` | TLAPS proofs about the device and about the composition |

`WriterSession` extends `FlashGeometry`, `SaveTool` extends `SaveBanks`, `CardWipe` extends
`BridgeLink`; `WriterRefinement` instantiates `CardWriteContract` over `WriterSession`.
`ImageBuilder` and `MarkerScan` extend `CardLayout`; `CardRoundTrip` extends these two and
`UsbDevice` and takes the write from `CardWriteContract`. So the composition is checked
against what the writer promises, and the promise is shown to be kept by the session.

Definitions ending in another name's mutation (`...Short`, `...Single`, commented
"Mutant") are plausible bugs of the operator that follows them. They are used by nobody;
`PROJECT.json` says which property notices each of them when it takes the place of the
real operator.

## 3. How the models correspond to the code

### Writer

`pc` is the backend call in progress and `n`, `grp`, `addr`, `off` are its loop variables;
`ok` and `need` are the two flags of `CardWriter::write`; `status` and `verdict` the
result. `win`, `map`, `flash`, `bank`, `saves` are the device. Every transfer can fail,
and a failing one has no effect, all of it, or a part of it. `EraseSector` takes one
address of the erase list, `ProgramBlock` and `VerifyBlock` one 64-KiB block. A programmed
block may be stored wrongly with no error (`bad`), at most `MaxBadBlocks` times. The
one-byte transfers of window selection overwrite save offsets 0 and 1, which makes
the selected bank `"marked"`.

The invariants hold in every state, so they also say what a process that dies there
leaves behind; no separate crash action is needed.

### Save tool

`req` is the parsed command line, `first` and `n` the selected range and `k` the bank
in progress. `buf`, `kept`, `dumped` are the last buffer read, the backup file's and the
output file's content. The three workflows (erase, direct, catalog) share the bank loop;
`Path(req)` says which of them runs. `session` records what was transferred since the last
readiness transition of a catalog run, nothing (`closed`), reads (`open`) or payloads
(`written`), so that leaving after a payload is told from leaving after a transition. A
bank the device acknowledged may be torn. With
`LossyClose` a file can lose its last bytes when the stream's destructor closes it, which
is what a standard library may do that leaves the tail in a buffer. Selectors 4 to 6
stand for what lies beyond `0x0930`.

### Wipe

`Script` is the list of commands `CardWipeWorkflow::execute` sends, in order; `i` is the
position in it. `q` holds the packets the bridge has not delivered yet and outlives a run.
`Answered`, `AnsweredLate`, `Unanswered`, `CommandLost`, `SendFails`, `Killed` are what
can happen to one transaction; `Receives` is the caller's comparison. A command and its
data half of which is delivered counts as lost. `shook` records what the bridge really
executed since the run began. Runs start with a full card, the worst case. A unit that
keeps its charge although the bridge reported status 00 goes into `weak`. Each of the two
reads that verify blankness is a sample: it may show any unit, because the source proves
no mapping for it, and the wipe goes on only when what it shows is erased (all FF). A weak
unit the samples miss goes unnoticed.

Answers are bytes, not tokens: 0x97 and 0x98 answer one byte each, every 0x92 echoes the
same 13 bytes. So an answer that belongs to an older command can be accepted. What the
model shows of this: leftovers can pass for a whole preflight (three packets 00, 01 and
an echo of 0x99), and a lost 0x97 can be masked by an older 00, but with fewer than twelve
faults (section 6) no leftover passes the echoes of a window selection as well, so nothing
is erased out of step. A bridge out of step stays so: each failing run takes one packet away and
leaves one, until it is replugged, as the tool's failure message says.

That nothing is erased out of step is a matter of how many faults there are, not of the
protocol. Fourteen runs killed without a replug between them, the k-th at its k-th command,
leave the answers to a whole preflight and a window selection behind, and the fifteenth
run erases on them. What the wipe withstands is proved (section 6), for any number of
runs, in any order:

| faults in the whole history | what holds | what one more can do |
|---|---|---|
| up to 3 | no unit is erased before 0x98 answered 01 and 0x99 was executed for this run | two killed runs leave 00 and 01, and the next one passes 0x97 and 0x98 on them although both are lost; TLC finds this with `MaxFaults = 4` |
| up to 5 | a completed wipe erased all windows, but for weak cells, and zeroed all banks | a run that starts four answers behind loses the selection of window 0, catches up and erases another window in its place |
| up to 11 | erases and payloads are sent with nothing unread | not known for 12; 14 are too many |
| any number | a run in step with its bridge stays so, and what it passes has been done | |

### Image builder

A ROM file is its size and the set of units that are not FF. A cell of the image is erased,
or names the ROM and the unit it comes from, or the unit of the loader; so an overlap is
a cell that names something else than the owner of its place. `SortRoms` is the stable
sort, `PlaceRom` the loop over the sorted ROMs with `meaningful_cursor`, `CopyRom` the copy
with its overlap test against `occupied`, `PlaceLoader` the search for a slot or the append,
`FinishImage` the last checks and the padding. `BuildSingle` has the rules of a single ROM
(the slot inside it, the padding, the second half, the zero fill), `BuildDirect` none.
`Blank` beyond `len` is what the vector's resizes fill in.

### Marker search

A pattern is a number and its length, `occ` the pairs of pattern and address on the card.
`position` and `carry` are the loop's variables, the carry by its length. `shows` is what
the prepared mapping shows; beyond it nothing is found. A chunk that cannot be read ends
the search of that ROM without a marker, as in the source (`cut`).

### USB device

`live` counts what libusb gave the process and has not got back, `context`, `handle` and
`claimed` are the object's members. `open` begins with `close`; a failure returns with
what was acquired still held, and the destructor releases it.

### Round trip

`LoadRoms` to `WriterReturns` is the writer's main, `WriteCard` any step of the contract:
the flash is intact, modified or whole, whatever the result. `StartSaveTool` is another process that
has its own device object and finds the card as it was left. `ReadCatalog` yields the
catalog of a whole, non-direct card or fails. `Card` is what a reader of the flash
finds, `rest` what lies behind the image: erased, or the old content. What an
extraction returns is `Extracted` of it, compared with the files in `RoundTrip`.

### Reader

`limit` is `linear_read_limit_` and `map` what the card really shows, both in quarters of
the card; a mapping sequence that fails leaves `map` old, new or 0, and `limit` unchanged.
`step` tells whether the catalog reader was called by classification or by inspection,
which treat its failures differently. `image` is the set of units read from their own
place through a mapping that shows them: a block read through a wrong mapping adds
nothing. `ClassifyByHeader` gives what the first 0xC0 bytes of each kind of cartridge
look like. `Decide`, the block loops, `Reconstruct`, `Close` and `Store` follow main and
the two workflows, with `exit` as the exit code.

## 4. Runs

| run | instance | states | shows |
|---|---|---|---|
| `writer_session` | window of 16 units, blocks of 4, boot sectors of 2, 22 image sizes, one bad block, a fault at every transfer | ~146 k | the erase lists, program loop and verification agree at every boundary; the result is truthful; the final clear is attempted; the session implements the contract |
| `writer_silent_clear` (violation) | a save bank acknowledges zeros it does not keep | | the writer reports success: the final clear is not read back, although SOFTWARE_SPECIFICATION.md:276-278 asks for it |
| `save_tool` | every well-formed request over 3 ROMs, 4 banks, input of up to 4 banks; 11 cards | ~103 k | backup first, writes in order and in range, exit codes, neighbours' saves, cleanup |
| `save_direct_range` (violation) | the same | | a direct write takes its length from the file and leaves the four banks |
| `save_rejection` (violation) | the same | | an unknown cartridge is left without the readiness transition |
| `save_lossy_backup` (violation) | `LossyClose` | | a backup that lost its tail at close does not stop the write |
| `card_wipe` | windows of 8 units, blocks of 2, boot sectors of 1, 2 faults | ~110 k | a completed wipe erased everything; nothing destructive out of step; the readiness poll ends; a clean bridge recovers |
| `card_reader` | card of 16 units, 21 cartridges, 11 command lines, a fault at every transfer | ~8.5 k | whole extraction through a mapping that covers it; no file before cleanup; failures have a cause |
| `reader_official` (violation) | the same | | one failed catalog read makes an EZ3 card with an unknown flash ID an official one |
| `reader_inspection` (violation) | the same | | an inspection that finds no catalog skips the readiness transition |
| `card_round_trip` | card of 32 units, blocks of 4, size classes 4 to 32, loaders of 1, 2 and 3 units, 15 kinds of ROM files alone and up to five together, chunks of 4, carry of 2, patterns of 3, 2 and 2 | ~183 k | nothing is overlaid, what is extracted is what was given, the search by chunks is a search of the whole, markers belong to their ROM, the device is released once by both processes |
| `two_rom_loader` (violation) | the same | | with two ROMs the extraction blanks more than the loader |

Why the bounds are enough. Sizes: the code compares extents with block, window, half-window
and tiny-tail boundaries; the instances keep the order of all of them and
contain each size at and next to every boundary. The card reader's layouts put a
loader or a last ROM in each quarter, across two quarters, on the last unit of the card,
beyond it, and give one an unknown size class. The wipe is checked with two faults per
history: the shortest way to put the bridge out of step takes one, to mask it another. For
the properties about destructive commands the bound is part of what is shown, see
section 3.
`MaxWarm` polls that answer 00 before 01 include one count over `ReadinessAttempts`, which
is an empty slot. The save tool's instance has every request its options can form, so
only the cards are chosen: each marker alone, pairs, layouts that fill and exceed four
banks, and cartridges of the other kinds. The round trip has ROMs of each size class
and between two, full, with a gap a loader fits in exactly, with one it fits in but for its
alignment, and without; pairs and triples of them, four that fill the slots of the
catalog and one more; the markers lie inside a chunk, across two, at the end of a ROM and in a gap
another ROM is packed into. The lengths keep the order of the source: patterns are at
most one longer than the carry, a chunk is longer than the carry, the loaders of one, two
and more ROMs differ. No state constraint and no symmetry is used.

Deadlock is checked in every run: `Returned`, `Exited` and the like let a finished run
stand still.

### Fairness

Writer, save tool and reader assume weak fairness of "take some step". It is justified:
the tools are sequential, every libusb transfer has a timeout, every loop of the
source is a step of its own, and success and failure are both open to a step, so fairness
never decides which. The wipe assumes it of `Answered` (a transaction without a fault
happens) and of `Start`, the user running the tool again; only `CleanBridgeRecovers` needs
the latter, and it asks in addition that the user stops replugging at some time.

## 5. What the violation runs found

Each is a disagreement of code and documentation, with the quotations in `PROJECT.json`:

1. `card_writer` does not verify the final clear of the save banks (`writer_silent_clear`).
2. A direct save write may address banks beyond `0x0930` (`save_direct_range`).
3. An unknown cartridge leaves the save tool without `finishSession` (`save_rejection`).
4. The backup is not checked after it is closed (`save_lossy_backup`).
5. A failed catalog read is taken for "no catalog" in the classification
   (`reader_official`).
6. An inspection's early returns skip `finishSession` (`reader_inspection`).
7. An extraction blanks 0x7080 bytes at the loader, a two-ROM image has 0x6F80 of them
   there, so up to 0x100 bytes of a ROM packed behind it come back as FF
   (`two_rom_loader`).

Met while modelling, and part of the models without a run of their own:

- `SRAM_V` is a prefix of `SRAM_V111`. If the chunk ends between the two, at offset 0xFFF8 to
  0xFFFA of it, `SRAM_V` is reported, because the search stops at the first chunk with a
  hit. `ScanAgrees` therefore asks that a marker is found when there is one, and that the
  one reported is there, not that it is the longest. `save_catalog_analyzer_test.cpp:56-91`
  splits a marker after four bytes, where this does not happen.
- A chunk that cannot be read is reported as "no marker"; the tool goes on.
- The allocation of the last ROM ends at a loader that lies inside it, so markers behind
  the loader are not found (`MarkersAreOwn` excepts this).
- Content behind an image whose last ROM has no power-of-two size is what the card held
  before; a search of that ROM's allocation may find a marker there.
- Smaller ROMs are packed into the padding of larger ones, and an extraction of the
  larger one contains them in place of FF (`Recovers` says so).

## 6. Proofs

Each proof module proves Init => IInv and IInv /\ [Next]_vars => IInv', one lemma per
action, then each property from IInv. They hold for every value of the constants that
satisfies the ASSUME of the module. Where a property needs a strengthening of its own,
that one is a second invariant, proved on top of the first.

`FlashGeometryProofs` proves that the erase lists cover what they should: between two
neighbouring erase addresses lies no unit the erased sector does not contain, and the
last one reaches the image's end. `WriterSessionProofs` uses it. The type
invariant alone is not inductive for any of the properties: `ProgramsErasedTarget` needs
that everything below the erase cursor is erased, and everything from the program offset
on still is (`EraseInv`, `ProgramInv`); `VerifiedMeansWhole` needs that all compared blocks
are right (`VerifyInv`); `SuccessLeavesSavesZero` that the final clear zeroed the banks
before its cursor (`SavesInv`). That last one assumes `SilentClearFault = FALSE`; with
TRUE the violation run shows it does not hold. `writer_session` checks `IInv` itself.
`HigherWindows` needs that a sector and a block lie in one window (`AlignInv`);
`FailuresHaveFaults` needs what a run without a fault knows of the card in each phase: all
banks and units a loop has passed are as it meant them, and the mapping is the one the
block needs (`CleanInv`, `ReadBack`).
`ImplementsContract` proves the refinement: the initial states map to the contract's, and
each step is one of the contract's or leaves its state alone (`ContractInv`). It too assumes
`SilentClearFault = FALSE`, since the contract promises zero banks.

`SaveToolProofs` carries what earlier phases established: the request's checks
(`RequestInv`), the range (`RangeInv`), that the buffer and the backup hold the first k
banks of the original (`BackupInv`), and that the read-back holds what is on the card
(`TruthInv`). `BackupComesFirst` and `SuccessIsTrue` assume ~LossyClose; the others assume
nothing. `SessionInv` says in which phases the read session is closed or only written through (`CleanupIsAttempted`,
`PayloadsAreReady`), `OrderInv` that exactly the banks below k were sent and at most the
last of them is torn (`WritesAreOrdered`), `HealthInv` what a run without a fault holds
(`FailuresAreReal`: its read-back is its input, so no comparison fails). For
`NeighboursAreKept` the layout of all saves is a recursive function (`FirstBanks`): that the
recursion has a solution, and that the saves of two ROMs lie apart, is proved from the least
list that would contradict it; `AllocationInv` says that the running bank of the allocation
loop is the first bank of the ROM it has reached.

`CardReaderProofs` rests on `MappingInv`: the cached limit exceeds what the card shows only
while the card shows nothing, and then no catalog is found and no ROM is read; so from
the catalog on the limit can be trusted. `ImageInv` then says that exactly the units below
the block offset were read, for every block length, also one that does not divide the
ROM. `HighestExists` (every nonempty set of addresses has a highest one) stands for the
max loop over the entries. `FinishesSession` is an action property and needs no
invariant. Its assumptions are those of `ReaderAssumption`: a loader read of at most a
quarter, at least one entry in a catalog, and size classes of at least one unit.
`FailuresHaveCauses` adds `CauseInv`, what a run without a fault has classified and read;
it assumes that no official cartridge has the EZ3 flash ID, for such a one is refused
although nothing failed.

`CardWipeProofs`: `WipeTypeCorrect` bounds every packet on the bridge (`TypeInv`).
`InStepIsKept` and `InStepIsDone` are action properties: a run whose bridge holds no
unread answer leaves none behind any step it goes on from, and what such a step passed
was carried out, but for weak cells. They are what the argument of the wipe rests on, for any
number of faults, and were checked by TLC on the instance of `card_wipe` before.

What holds for few faults needs a count of what a fault can do, over any number of runs.
Every answered command takes one packet off the bridge and leaves one there, so a packet too
many or too few has cost a fault. `Lag(L, n)` says so of a run that began with `L` unread
packets, `n` of them still in front: the packets behind those answer this run's own
commands, `LeastFaults(L)` faults were needed to leave `L` packets, one more for each packet
missing since, and a command that was passed without being executed was passed on one of
the `L`. From `i >= 15`, the first erase, nothing is unread. `LagInv` (some `L`
and `n` exist, while there were fewer than twelve faults) is inductive; `L` and
`n` are quantified because nothing in the program knows them. `FewFaultsInStep` and
`FewFaultsPreflight` follow. `FewFaultsWiped` needs that the commands a run has passed
were carried out where they were meant to be (`SoFar`: the window is the one of the
position, the selected bank too, the sectors and banks behind the position are done), which
asks that there are fewer than six: to pass a window selection the bridge did not execute
a run must be four answers behind, which takes two faults, and to catch up with them before
the first erase takes four more (`WipedInv`). Twelve is where fourteen packets can be
unread, one for each command before the first erase. Where in `Script` each window's and
each bank's commands are (`EraseBase`, `ClearBase`) is a lemma each, for every sector count. TLC checked `LagInv` and
`WipedInv` as invariants for 2 and 3 faults.

`HealthyRunsComplete` is the other half, a step of a run that began with nothing unread
and met no fault: it goes on as such a run (`Healthy`) and ends completed, or at the last
readiness poll of a card that is not ready.

`ImageBuilderProofs`: `BuildInv` says that the ROMs placed so far begin on their size
class's boundary and behind the data of those before (`PlacedSound`, `CursorBehind`), that
the image holds exactly the data of the ROMs copied so far and `occupied` is no more
than that (`CopiedSound`), and that the loader replaced erased units only (`FinishedSound`).
That the FF of a later ROM overwrites nothing of an earlier one follows from the order of
their data; that the builder's two overlap errors are unreachable is a part of the result.
The arithmetic it rests on (size classes divide one another, rounding up) are lemmas.

`MarkerScanProofs`: `ScanInv` says that before each chunk nothing was found from the ROM's
start on and that the carry is as long as the search so far allows. A carry of one
unit less than the longest pattern is enough (`CarrySuffices`), which is the assumption on
`Overlap`.

`CardRoundTripProofs` proves all six invariants of `card_round_trip`. `CompositionInv` joins
the invariants of the parts: `UsbTrip` is `UsbInv`, which ties the counts to the members
and says which member may be set before which call, for the writer's device and the save
tool's; `TripInv` is `BuildInv` from the loading on, with `ClaimInv`, that "verified" is
claimed only of a built image the flash holds whole; `ScanTrip` is `ScanInv` with `Mapped`,
that what the save tool read is what the builder made. `BuildInv` says where the data
of the ROMs is; for `RoundTrip` the converse is needed as well (`Traced`): every unit of
an image is erased, a unit of some ROM at its place, or of the loader. From it follows what
an extraction returns in place of FF, and that the loader and the 0x7080 bytes the reader
blanks agree unless there are two ROMs. `MarkersAreOwn` rests on `SearchedIsOwn`: between a
ROM's start and where its search ends there is no other ROM's data, because the next ROM
begins behind that end, and a marker begins with data. Two assumptions are added:
`CommandAssumption`, that files which open, have an entry branch and fit together are files
as the builder takes them, and `MarkAssumption`, that a marker lies in the file's data and
not in its first unit, which the loader's branch replaces.

Progress. `RunsAdvance` (wipe, save tool, reader) and `WriteAdvances` (writer) are action
properties: each step of a run that has not ended leaves for a later stage of the program or
moves a bounded cursor of the stage it is in. A run is therefore finite, whatever fails;
that it goes on at all is the fairness of section 4. `ReturnsThroughClear` is
`FinalClearAttempted` without that fairness. The measure is listed phase by phase
(`Stage`), so a retry added to the source without a bound breaks one of these proofs.

Model-checked only:

- liveness (`AlwaysReturns`, `AlwaysExits`, `FinalClearAttempted`, `EveryRunEnds`,
  `CleanBridgeRecovers`): TLAPS does not prove properties that rest on fairness. What they
  rest on apart from it is proved (progress, above);
- that the bounds on the faults of the wipe are exact: a counterexample, not a proof.

Every invariant and every action property of a passing run is stated by a theorem.

## 7. Not modelled

- Argument text, wording, progress bars and presenters; delays between commands; host
  platform differences. The option parser of each tool appears as its parsed request.
- The analysis of a ROM: `eeprom_mapping.cpp` searches the code for the EEPROM identification call and
  `rom_analyzer.cpp` reads header fields. Both are pure functions of the file's bytes; the
  round trip has their results (a save that needs consent, one of unproven size).
  `--type`, which overrides the result, and files shorter than a header are left out.
- The content of ROMs, saves and catalogs: it is abstracted to which unit is where. So the
  encoding of a branch, the header checksum, the byte offsets of the catalog and the counts
  the builder relocates are not modelled; neither is the parser's plausibility test.
  An entry branch whose target lies below 8, which the loader accepts and
  `CartridgeFormat` cannot encode again (`cartridge_format.cpp:98`), is therefore not in it.
  A card torn by a write that failed is taken to have no catalog.
- Copying and moving a `UsbDevice`: no tool does either.

## 8. Plan

1. The parser of the catalog (`ez3_catalog.cpp:33-107`) on bytes, against the writer of it
   (`cartridge_image_builder.cpp:721-759`), for which `CardLayout!Entry` stands now.
2. The search of `eeprom_mapping.cpp` against a definition of what it looks for.
3. Proofs: whether the wipe stays in step with twelve and with thirteen faults. `LagInv`
   counts the packets that are unread; it would have to say which runs left them.

------------------------------ MODULE SaveTool -------------------------------
(***************************************************************************)
(* One run of the save tool: option checks and confirmation, the erase,    *)
(* direct-bank and catalog workflows over the save banks, the backup and   *)
(* output files, and the read-session transition the tool leaves with.     *)
(*                                                                         *)
(* Each action is one call that can fail.  A failed save transfer may have *)
(* stored nothing, all or a part of the bank, and an acknowledged one may  *)
(* still have stored a torn bank.                                          *)
(***************************************************************************)
EXTENDS SaveBanks

CONSTANTS
    Commands,   \* the command lines to run, a subset of Requests
    Cards,      \* the cartridges to meet
    LossyClose  \* TRUE: a file's last bytes may be lost when it is closed

ASSUME ToolAssumption ==
    /\ Commands \subseteq {r \in Requests : WellFormed(r)}
    /\ \A c \in Cards : /\ c.kind \in {"ez3", "official", "unknown"}
                        /\ c.catalog \in BOOLEAN
                        /\ c.markers \in Seq(Markers)
    /\ LossyClose \in BOOLEAN

VARIABLES
    req,        \* the command line
    card,       \* the cartridge in the slot
    pc,         \* the call in progress
    kind,       \* ReadOnlyCartridge::kind_
    rom, bank,  \* rom and bank of the allocateSaveBanks loop
    first, n,   \* first bank and length of the selected range
    k,          \* bank of the range in progress
    buf,        \* the last range read from the cartridge
    saves,      \* device: content of the save memory behind each selector
    start,      \* the same before the run
    session,    \* the read session: what was transferred since it was closed
    backup,     \* the backup file
    kept,       \* what the backup file holds
    out,        \* the output file
    dumped,     \* what the output file holds
    exit,       \* exit code, "running" before the workflow has one
    faulted     \* whether the device, the bus or a file misbehaved

files == <<backup, kept, out, dumped>>
loop == <<rom, bank>>
range == <<first, n>>
vars == <<req, card, pc, kind, loop, range, k, buf, saves, start, session,
          files, exit, faulted>>

\* The cartridge, until initialize() looks at it.
Unseen == [kind |-> "none", catalog |-> FALSE, markers |-> <<>>]

Torn == <<"torn", 0>>
User(b) == <<"user", b>>

Content == {"user", "input", "zero", "torn"} \X Selectors
Ranges == [SaveBankSelectors -> Content]
Blank == [i \in SaveBankSelectors |-> Torn]

\* What the bank k of the range must hold when the operation is done.
Payload(i) == IF req.op = "erase" THEN <<"zero", 0>> ELSE <<"input", i>>

Sessions == {"untouched", "open", "written", "closed", "close_failed"}

TypeOK ==
    /\ req \in Commands /\ card \in Cards \cup {Unseen}
    /\ pc \in {"parse", "input", "confirm", "open", "initialize", "catalog",
               "allocate", "read", "size", "backup", "ready_before", "send",
               "ready_after", "read_back", "compare", "store", "finish", "done"}
    /\ kind \in {"none", "ez3", "official", "unknown"}
    /\ rom \in Nat /\ bank \in 0..4 /\ first \in Selectors /\ n \in 0..4 /\ k \in 0..4
    /\ buf \in Ranges /\ kept \in Ranges /\ dumped \in Ranges
    /\ saves \in [Selectors -> Content] /\ start \in [Selectors -> Content]
    /\ session \in Sessions
    /\ backup \in {"absent", "earlier", "partial", "complete"}
    /\ out \in {"absent", "partial", "complete"}
    /\ exit \in {"running", "0", "1", "2", "3", "4", "5", "6"}
    /\ faulted \in BOOLEAN

Init ==
    /\ req \in Commands /\ card = Unseen
    /\ pc = "parse" /\ kind = "none" /\ rom = 0 /\ bank = 0
    /\ first = 0 /\ n = 0 /\ k = 0 /\ buf = Blank
    /\ saves = [b \in Selectors |-> User(b)] /\ start = saves
    /\ session = "untouched"
    /\ backup \in {"absent", "earlier"} /\ kept = Blank
    /\ out = "absent" /\ dumped = Blank
    /\ exit = "running" /\ faulted = FALSE

-----------------------------------------------------------------------------
(* How a workflow ends: the catalog workflow is followed by finishSession. *)

Return(code) ==
    /\ exit' = code
    /\ pc' = IF Path(req) = "catalog" /\ kind # "none" THEN "finish" ELSE "done"

\* A read leaves an open read session behind, and a payload a session that
\* has been written through; the erase and direct workflows have none.
Transfer == session' = IF session = "untouched" THEN "untouched" ELSE "open"
PayloadTransfer ==
    session' = IF session = "untouched" THEN "untouched" ELSE "written"

-----------------------------------------------------------------------------
(* Before the device is opened. *)

ParseOptions ==
    /\ pc = "parse"
    /\ \/ Accepts(req) /\ pc' = "input" /\ UNCHANGED exit
       \/ ~Accepts(req) /\ pc' = "done" /\ exit' = "1"
    /\ UNCHANGED <<req, card, kind, loop, range, k, buf, saves, start, session,
                   files, faulted>>

CheckInput ==
    /\ pc = "input"
    /\ \/ InputFits(req) /\ pc' = "confirm" /\ UNCHANGED exit
       \/ ~InputFits(req) /\ pc' = "done" /\ exit' = "1"
    /\ UNCHANGED <<req, card, kind, loop, range, k, buf, saves, start, session,
                   files, faulted>>

\* Without a backup, a write or an erase asks first.
Confirm ==
    /\ pc = "confirm"
    /\ \/ pc' = "open" /\ UNCHANGED exit
       \/ /\ req.op \in {"write", "erase"} /\ req.backup = "none"
          /\ pc' = "done" /\ exit' = "1"
    /\ UNCHANGED <<req, card, kind, loop, range, k, buf, saves, start, session,
                   files, faulted>>

OpenDevice ==
    /\ pc = "open"
    /\ k' = 0
    /\ IF Path(req) = "catalog"
       THEN pc' = "initialize" /\ UNCHANGED range
       ELSE /\ first' = FirstBank(req) /\ n' = RangeLength(req)
            /\ pc' = IF Path(req) = "erase" /\ req.backup = "none"
                     THEN "send" ELSE "read"
    /\ UNCHANGED <<req, card, kind, loop, buf, saves, start, session, files,
                   exit, faulted>>

OpenFails ==
    /\ pc = "open"
    /\ pc' = "done" /\ exit' = "1" /\ faulted' = TRUE
    /\ UNCHANGED <<req, card, kind, loop, range, k, buf, saves, start, session,
                   files>>

-----------------------------------------------------------------------------
(* The catalog workflow up to the selection of the range. *)

\* initialize() classifies the cartridge; only EZ3 flash goes on, a known
\* other cartridge is rejected after finishSession, an unknown one at once.
Initialize ==
    /\ pc = "initialize"
    /\ card' \in Cards /\ session' = "open" /\ kind' = card'.kind
    /\ \/ kind' = "ez3" /\ pc' = "catalog" /\ UNCHANGED exit
       \/ kind' = "official" /\ pc' = "finish" /\ exit' = "2"
       \/ kind' = "unknown" /\ pc' = "done" /\ exit' = "2"
    /\ UNCHANGED <<req, loop, range, k, buf, saves, start, files, faulted>>

\* A failed transfer leaves the kind unknown; a failed catalog read can make
\* an EZ3 card pass for an official one; the prime read fails after ez3.
InitializeFails ==
    /\ pc = "initialize"
    /\ card' \in Cards /\ session' = "open" /\ faulted' = TRUE /\ exit' = "2"
    /\ kind' \in {"ez3", "official", "unknown"}
    /\ pc' = IF kind' = "unknown" THEN "done" ELSE "finish"
    /\ UNCHANGED <<req, loop, range, k, buf, saves, start, files>>

Selected == IF req.rom = 0 THEN 1 ELSE req.rom
Marker(r) == card.markers[r]

\* A ROM's save is supported and, with --save-bank, fits behind that bank.
Plannable ==
    /\ SupportedSaveSize(Marker(Selected)) # 0
    /\ req.bank # NoBank =>
           Accommodates(req.bank, SupportedSaveSize(Marker(Selected)))

Select(b) ==
    pc' = "read" /\ first' = b /\ n' = SupportedSaveSize(Marker(Selected))

ReadCatalog ==
    /\ pc = "catalog"
    /\ \/ ~card.catalog /\ Return("3") /\ UNCHANGED <<loop, range>>
       \/ /\ card.catalog /\ req.rom > Len(card.markers)
          /\ Return("1") /\ UNCHANGED <<loop, range>>
       \/ /\ card.catalog /\ req.rom = 0 /\ Len(card.markers) > 1
          /\ Return("4") /\ UNCHANGED <<loop, range>>
       \/ /\ card.catalog /\ Selected <= Len(card.markers)
          /\ req.rom = 0 => Len(card.markers) = 1
          /\ \/ ~Plannable /\ Return("4") /\ UNCHANGED <<loop, range>>
             \/ /\ Plannable /\ UNCHANGED exit
                /\ IF req.bank # NoBank
                   THEN Select(req.bank) /\ UNCHANGED loop
                   ELSE pc' = "allocate" /\ rom' = 1 /\ bank' = 0 /\ UNCHANGED range
    /\ UNCHANGED <<req, card, kind, k, buf, saves, start, session, files, faulted>>

\* A failed transfer ends the reading, or leaves a ROM without its marker.
ReadCatalogFails ==
    /\ pc = "catalog"
    /\ Return("2") \/ Return("4")
    /\ faulted' = TRUE
    /\ UNCHANGED <<req, card, kind, loop, range, k, buf, saves, start, session,
                   files>>

\* Mutant: the capacity of the four banks is not checked.
AllocateUnbounded ==
    /\ pc = "allocate"
    /\ LET count == SaveBankCount(Marker(rom)) IN
       \/ count = 0 /\ Return("4") /\ UNCHANGED <<loop, range>>
       \/ /\ count # 0 /\ UNCHANGED exit
          /\ IF rom = Selected THEN Select(bank) /\ UNCHANGED loop
             ELSE rom' = rom + 1 /\ bank' = bank + count /\ UNCHANGED <<pc, range>>
    /\ UNCHANGED <<req, card, kind, k, buf, saves, start, session, files, faulted>>

\* One pass of the allocateSaveBanks loop; bank is its running bank.
Allocate ==
    /\ pc = "allocate"
    /\ LET count == SaveBankCount(Marker(rom)) IN
       \/ (count = 0 \/ count > 4 - bank) /\ Return("4") /\ UNCHANGED <<loop, range>>
       \/ /\ count # 0 /\ count <= 4 - bank /\ UNCHANGED exit
          /\ IF rom = Selected THEN Select(bank) /\ UNCHANGED loop
             ELSE rom' = rom + 1 /\ bank' = bank + count /\ UNCHANGED <<pc, range>>
    /\ UNCHANGED <<req, card, kind, k, buf, saves, start, session, files, faulted>>

-----------------------------------------------------------------------------
(* Reading the range, checking its size and keeping a backup of it. *)

\* What follows the first reading of the range.
AfterRead ==
    CASE Path(req) = "erase" -> "backup"
      [] Path(req) = "direct" -> IF req.op # "write" THEN "store"
                                 ELSE IF req.backup = "file" THEN "backup" ELSE "send"
      [] OTHER -> IF req.op = "write" THEN "size" ELSE "store"

\* Mutant: the selector is not advanced.
FetchFirst(after) ==
    /\ buf' = [buf EXCEPT ![k] = saves[first]]
    /\ IF k + 1 < n THEN k' = k + 1 /\ UNCHANGED pc
       ELSE k' = 0 /\ pc' = after
    /\ Transfer

Fetch(after) ==
    /\ buf' = [buf EXCEPT ![k] = saves[first + k]]
    /\ IF k + 1 < n THEN k' = k + 1 /\ UNCHANGED pc
       ELSE k' = 0 /\ pc' = after
    /\ Transfer

ReadBank ==
    /\ pc = "read"
    /\ Fetch(AfterRead)
    /\ UNCHANGED <<req, card, kind, loop, range, saves, start, files, exit, faulted>>

\* Mutant: a failed read starts the range again.
ReadRestarts ==
    /\ pc \in {"read", "read_back"}
    /\ k' = 0 /\ Transfer /\ faulted' = TRUE
    /\ UNCHANGED <<req, card, kind, loop, range, pc, buf, saves, start, files, exit>>

ReadFails ==
    /\ pc \in {"read", "read_back"}
    /\ Return(IF pc = "read_back" /\ Path(req) = "erase" THEN "6" ELSE "2")
    /\ Transfer /\ faulted' = TRUE
    /\ UNCHANGED <<req, card, kind, loop, range, k, buf, saves, start, files>>

CheckSize ==
    /\ pc = "size"
    /\ \/ req.input # n /\ Return("4")
       \/ /\ req.input = n /\ UNCHANGED exit
          /\ pc' = IF req.backup = "file" THEN "backup" ELSE "ready_before"
    /\ UNCHANGED <<req, card, kind, loop, range, k, buf, saves, start, session,
                   files, faulted>>

\* A file the program believes written: the stream is tested after write(),
\* and not after the destructor flushes and closes it.
Written == IF LossyClose THEN {"complete", "partial"} ELSE {"complete"}

AfterBackup == IF Path(req) = "catalog" THEN "ready_before" ELSE "send"

\* Mutant: writeNew overwrites, and its failure is not noticed.
BackupUnchecked ==
    /\ pc = "backup"
    /\ pc' = AfterBackup /\ UNCHANGED exit
    /\ \/ backup' = "complete" /\ UNCHANGED faulted
       \/ backup' = "partial" /\ faulted' = TRUE
    /\ kept' = buf
    /\ UNCHANGED <<req, card, kind, loop, range, k, buf, saves, start, session,
                   out, dumped>>

\* writeNew: an existing file is refused.
Backup ==
    /\ pc = "backup"
    /\ \/ /\ backup = "earlier" /\ Return("5")
          /\ UNCHANGED <<backup, kept, faulted>>
       \/ /\ backup = "absent" /\ kept' = buf
          /\ \/ /\ pc' = AfterBackup /\ UNCHANGED exit
                /\ backup' \in Written
                /\ faulted' = (faulted \/ backup' = "partial")
             \/ Return("5") /\ backup' \in {"absent", "partial"} /\ faulted' = TRUE
    /\ UNCHANGED <<req, card, kind, loop, range, k, buf, saves, start, session,
                   out, dumped>>

-----------------------------------------------------------------------------
(* Writing the range: the input, or zeros for an erase. *)

Ready(after) ==
    \/ session' = "closed" /\ pc' = after /\ UNCHANGED <<exit, faulted>>
    \/ session' = "close_failed" /\ Return("2") /\ faulted' = TRUE

\* Mutant: the result of the first finishSession is dropped.
ReadyUnchecked ==
    /\ pc = "ready_before"
    /\ pc' = "send" /\ session' \in {"closed", "close_failed"}
    /\ UNCHANGED <<exit, faulted>>
    /\ UNCHANGED <<req, card, kind, loop, range, k, buf, saves, start, files>>

ReadyBefore ==
    /\ pc = "ready_before" /\ Ready("send")
    /\ UNCHANGED <<req, card, kind, loop, range, k, buf, saves, start, files>>

ReadyAfter ==
    /\ pc = "ready_after" /\ Ready("read_back")
    /\ UNCHANGED <<req, card, kind, loop, range, k, buf, saves, start, files>>

\* The last write of a catalog access is followed by finishSession.
SendLength == IF req.op = "write" THEN req.input ELSE n

AfterSend == IF Path(req) = "catalog" THEN "ready_after" ELSE "read_back"

SendBank ==
    /\ pc = "send"
    /\ \E content \in {Payload(k), Torn} :
           /\ saves' = [saves EXCEPT ![first + k] = content]
           /\ faulted' = (faulted \/ content = Torn)
    /\ IF k + 1 < SendLength THEN k' = k + 1 /\ UNCHANGED pc
       ELSE k' = 0 /\ pc' = AfterSend
    /\ PayloadTransfer
    /\ UNCHANGED <<req, card, kind, loop, range, buf, start, files, exit>>

\* Mutant: a bank that is not acknowledged is passed over.
SendContinues ==
    /\ pc = "send"
    /\ \E content \in {saves[first + k], Payload(k), Torn} :
           saves' = [saves EXCEPT ![first + k] = content]
    /\ IF k + 1 < SendLength THEN k' = k + 1 /\ UNCHANGED pc
       ELSE k' = 0 /\ pc' = AfterSend
    /\ PayloadTransfer /\ faulted' = TRUE
    /\ UNCHANGED <<req, card, kind, loop, range, buf, start, files, exit>>

\* Mutant: and returns from the program at once, past finishSession.
SendEndsRun ==
    /\ pc = "send"
    /\ \E content \in {saves[first + k], Payload(k), Torn} :
           saves' = [saves EXCEPT ![first + k] = content]
    /\ pc' = "done" /\ exit' = "2"
    /\ PayloadTransfer /\ faulted' = TRUE
    /\ UNCHANGED <<req, card, kind, loop, range, k, buf, start, files>>

\* A bank that is not acknowledged ends the write.
SendFails ==
    /\ pc = "send"
    /\ \E content \in {saves[first + k], Payload(k), Torn} :
           saves' = [saves EXCEPT ![first + k] = content]
    /\ Return("2") /\ PayloadTransfer /\ faulted' = TRUE
    /\ UNCHANGED <<req, card, kind, loop, range, k, buf, start, files>>

ReadBack ==
    /\ pc = "read_back"
    /\ Fetch("compare")
    /\ UNCHANGED <<req, card, kind, loop, range, saves, start, files, exit, faulted>>

\* Mutant: only the first bank is compared.
MatchesFirst == buf[0] = Payload(0)

Matches == \A i \in 0..n - 1 : buf[i] = Payload(i)

Compare ==
    /\ pc = "compare"
    /\ Return(IF Matches THEN "0" ELSE "6")
    /\ UNCHANGED <<req, card, kind, loop, range, k, buf, saves, start, session,
                   files, faulted>>

-----------------------------------------------------------------------------
(* Extraction, and the end of the run. *)

\* An existing output file is overwritten.
StoreDump ==
    /\ pc = "store" /\ dumped' = buf
    /\ \/ /\ Return("0") /\ out' \in Written
          /\ faulted' = (faulted \/ out' = "partial")
       \/ Return("5") /\ out' \in {"absent", "partial"} /\ faulted' = TRUE
    /\ UNCHANGED <<req, card, kind, loop, range, k, buf, saves, start, session,
                   backup, kept>>

\* finishSession after the workflow; a failure turns success into code 2.
FinishSession ==
    /\ pc = "finish" /\ pc' = "done"
    /\ \/ session' = "closed" /\ UNCHANGED <<exit, faulted>>
       \/ /\ session' = "close_failed" /\ faulted' = TRUE
          /\ exit' = IF exit = "0" THEN "2" ELSE exit
    /\ UNCHANGED <<req, card, kind, loop, range, k, buf, saves, start, files>>

\* The program has exited.
Exited == pc = "done" /\ UNCHANGED vars

Next ==
    \/ ParseOptions \/ CheckInput \/ Confirm \/ OpenDevice \/ OpenFails
    \/ Initialize \/ InitializeFails \/ ReadCatalog \/ ReadCatalogFails \/ Allocate
    \/ ReadBank \/ ReadFails \/ CheckSize \/ Backup
    \/ ReadyBefore \/ SendBank \/ SendFails \/ ReadyAfter \/ ReadBack \/ Compare
    \/ StoreDump \/ FinishSession \/ Exited

\* Every transfer has a timeout and the user answers or closes the input.
Spec == Init /\ [][Next]_vars /\ WF_vars(Next)

-----------------------------------------------------------------------------
(* Properties.  They are invariants of every state, so they also say what  *)
(* the program leaves behind when it dies between two steps.               *)

InRange(b) == b \in first..first + n - 1

\* When a backup was asked for, no save bank has changed unless the backup
\* file holds the whole range as it was before the run, at every moment of
\* the erase, direct and catalog paths.  A file that was already there, or
\* that could not be written, stops the run before the first payload
\* (save_bank_workflow.cpp:66-84, 165-183; save_reader_application.cpp:279-300).
BackupHoldsOriginal ==
    req.backup = "file" /\ saves # start =>
        /\ backup = "complete"
        /\ \A i \in 0..n - 1 : kept[i] = start[first + i]

\* Memory outside the selected range is never written, and inside it a
\* failed write or erase leaves a prefix of banks written in order, at most
\* one bank of unknown content, and the rest as it was
\* (save_memory_writer.cpp:57-77, save_bank_cleaner.cpp:33-48).
WritesInOrder ==
    /\ \A b \in Selectors : ~InRange(b) => saves[b] = start[b]
    /\ \A i, j \in 0..n - 1 :
           i < j /\ saves[first + j] # start[first + j]
               => saves[first + i] = Payload(i) \/ saves[first + i] = Torn
    /\ exit = "2" /\ pc = "done" =>
           \A i, j \in 0..n - 1 :
               i < j /\ saves[first + i] = start[first + i]
                   => saves[first + j] = start[first + j]

\* Exit code 0 is the truth: after a write or an erase every bank of the
\* range holds what was asked for, after an extraction the output file holds
\* the save and the cartridge is as it was; a catalog run has closed its
\* read session (save_bank_workflow.cpp:88-119, save_reader_application.cpp).
SuccessIsTruthful ==
    pc = "done" /\ exit = "0" =>
        /\ IF req.op \in {"write", "erase"}
           THEN \A i \in 0..n - 1 : saves[first + i] = Payload(i)
           ELSE /\ saves = start /\ out = "complete"
                /\ \A i \in 0..n - 1 : dumped[i] = start[first + i]
        /\ Path(req) = "catalog" => session = "closed"

\* Banks the catalog allocation gives a save with this marker.
Width(marker) ==
    CASE marker = "FLASH1M" -> 4
      [] marker \in {"FLASH512", "FLASH_V"} -> 2
      [] OTHER -> 1

\* The first bank of each save when every one is laid out behind the one
\* before it.
FirstBanks(markers) ==
    LET Before[i \in DOMAIN markers] ==
            IF i = 1 THEN 0 ELSE Before[i - 1] + Width(markers[i - 1])
    IN  Before

BanksOf(r) ==
    LET b == FirstBanks(card.markers)[r] IN b..(b + Width(Marker(r)) - 1)

\* Writing ROM N's save without --save-bank never touches the save of
\* another ROM of the card (save_bank_layout.hpp:48-73, the overwriting the
\* original manager was prone to).
NeighbourSavesKept ==
    Path(req) = "catalog" /\ req.bank = NoBank =>
        \A r \in 1..Len(card.markers) : \A b \in BanksOf(r) \cap Selectors :
            r # Selected => saves[b] = start[b]

\* A direct write whose length comes from the input file alone.
LengthFromInput == req.op = "write" /\ Path(req) = "direct" /\ req.count = 0

RangeFits == n > 0 => first + n - 1 \in SaveBankSelectors

\* Every range the tool checks, catalog allocation, --save-bank override,
\* --consecutive-bank, erase and plain reads, stays inside the four banks
\* (save_access_planner.cpp:50-84, save_reader_options.cpp:113-119).
CheckedRangeFits == ~LengthFromInput => RangeFits

\* Codes 2 and 6, device and verification failure, need a fault or a
\* cartridge that is not an EZ3 card: a healthy run is never refused late.
FaultCodesNeedFault ==
    pc = "done" /\ exit \in {"2", "6"} =>
        faulted \/ (Path(req) = "catalog" /\ card.kind # "ez3")

\* Once a cartridge is recognised, the run ends with a readiness transition
\* attempted after its last transfer, be it a read or a payload, acknowledged
\* or not, and whatever failed in between (save_reader_application.cpp:541-559).
CleanupAttempted ==
    pc = "done" /\ kind \in {"ez3", "official"} =>
        session \in {"closed", "close_failed"}

\* On the catalog path a payload is only sent, and only read back, across a
\* completed readiness transition, with nothing but earlier payloads in
\* between (save_reader_application.cpp:284-306).
PayloadAfterReadiness ==
    [][/\ Path(req) = "catalog" /\ saves' # saves => session \in {"closed", "written"}
       /\ Path(req) = "catalog" /\ pc # "read_back" /\ pc' = "read_back"
              => session' = "closed"]_vars

\* Every run ends: no failure leaves the tool waiting.
AlwaysReturns == <>(pc = "done")

\* What the user is told of a direct range: that it ends at or before 0x0930
\* (README.md:196-197).
StaysInSaveBanks == RangeFits

\* A cartridge that is not an EZ3 card is rejected and cleanup is attempted
\* (SOFTWARE_SPECIFICATION.md:313-314).
RejectionFinishesSession ==
    pc = "done" /\ kind \in {"official", "unknown"} /\ ~faulted =>
        session # "open"

-----------------------------------------------------------------------------
(* The inductive invariant behind the proofs. *)

Planning == {"parse", "input", "confirm", "open", "initialize", "catalog", "allocate"}
Reading == {"read", "size", "backup", "store"}
Writing == {"ready_before", "send", "ready_after", "read_back", "compare"}
Ended == {"finish", "done"}

\* What the earlier steps established about the request.
RequestInv ==
    /\ pc \notin {"parse"} \cup Ended => Accepts(req)
    /\ pc \notin {"parse", "input"} \cup Ended => InputFits(req)
    /\ pc \in {"initialize", "catalog", "allocate", "size", "ready_before",
                "ready_after", "finish"} => Path(req) = "catalog"
    /\ pc \notin {"parse", "input", "confirm", "open", "initialize", "done"}
           /\ Path(req) = "catalog" => kind # "none"
    /\ pc = "allocate" => SupportedSaveSize(Marker(Selected)) # 0
    /\ pc = "size" => req.op = "write"
    /\ pc \in {"backup"} \cup Writing => req.op \in {"write", "erase"}
    /\ pc = "store" => req.op \notin {"write", "erase"}
    /\ exit = "running" <=> pc \notin Ended

RangeInv ==
    /\ pc \in Planning => n = 0 /\ k = 0
    /\ pc \in Reading \cup Writing => n > 0 /\ k < n
    /\ pc \in {"size", "backup", "ready_before", "ready_after", "compare"} => k = 0
    /\ n > 0 => first \in SaveBankSelectors /\ (LengthFromInput \/ first + n <= 4)
    /\ req.op = "write" /\ (pc \in {"backup"} \cup Writing \/ (Path(req) = "direct" /\ pc \in Reading))
           => req.input = n

\* The first i banks of the range, as they are in the given memory.
HoldsRange(data, i, memory) == \A j \in 0..i - 1 : data[j] = memory[first + j]

BackupInv ==
    /\ pc \in Planning \cup Reading => saves = start
    /\ pc = "read" => HoldsRange(buf, k, start)
    /\ pc \in {"size", "backup", "store"} => HoldsRange(buf, n, start)
    /\ pc \in Writing /\ req.backup = "file" =>
           backup = "complete" /\ HoldsRange(kept, n, start)
    /\ BackupHoldsOriginal

TruthInv ==
    /\ pc = "read_back" => HoldsRange(buf, k, saves)
    /\ pc = "compare" => HoldsRange(buf, n, saves)
    /\ exit = "0" =>
           /\ IF req.op \in {"write", "erase"}
              THEN \A i \in 0..n - 1 : saves[first + i] = Payload(i)
              ELSE saves = start /\ out = "complete" /\ HoldsRange(dumped, n, start)
           /\ pc = "done" /\ Path(req) = "catalog" => session = "closed"

\* With files that keep what was written to them.
IInv ==
    /\ TypeOK /\ RequestInv /\ RangeInv
    /\ ~LossyClose => BackupInv /\ TruthInv
=============================================================================

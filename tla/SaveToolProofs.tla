---------------------------- MODULE SaveToolProofs ----------------------------
(***************************************************************************)
(* Safety of SaveTool for every set of command lines and cartridges.       *)
(***************************************************************************)
EXTENDS SaveTool, WellFoundedInduction, TLAPS

-----------------------------------------------------------------------------
(* The geometry operators. *)

\* The allocator never reserves less than the tool accesses.
LEMMA BankCounts ==
    ASSUME NEW m
    PROVE  /\ SaveBankCount(m) \in {0, 1, 2, 4}
           /\ SupportedSaveSize(m) \in {0, 1, 2}
           /\ SupportedSaveSize(m) =< SaveBankCount(m)
  BY DEF SaveBankCount, SupportedSaveSize

LEMMA RequestTypes ==
    ASSUME NEW r \in Requests
    PROVE  /\ r.op \in {"inspect", "dump", "write", "erase"}
           /\ r.rom \in 0..3 /\ r.count \in 0..4 /\ r.input \in 0..4
           /\ r.bank \in SaveBankSelectors \cup {NoBank}
  BY DEF Requests

\* The range of a direct access or an erase that passed the option rules.
LEMMA DirectRange ==
    ASSUME NEW r \in Requests, Accepts(r), InputFits(r), Path(r) # "catalog"
    PROVE  /\ FirstBank(r) \in SaveBankSelectors
           /\ RangeLength(r) \in 1..4
           /\ r.op = "write" => RangeLength(r) = r.input
           /\ \/ r.op = "write" /\ Path(r) = "direct" /\ r.count = 0
              \/ FirstBank(r) + RangeLength(r) =< 4
  <1>1. /\ r.op \in {"inspect", "dump", "write", "erase"}
        /\ r.count \in 0..4 /\ r.input \in 0..4
        /\ r.bank \in SaveBankSelectors \cup {NoBank}
    BY RequestTypes
  <1>2. r.count # 0 => /\ r.bank # NoBank /\ r.count > 0
                       /\ r.bank + (r.count - 1) =< 3
    BY DEF Accepts, Accommodates
  <1>3. r.op = "write" => r.input # 0 /\ (r.count # 0 => r.input = r.count)
    BY DEF InputFits
  <1>4. r.op # "erase" => r.bank # NoBank
    BY DEF Path
  <1>. QED
    BY <1>1, <1>2, <1>3, <1>4, NoBankAssumption
    DEF FirstBank, RangeLength, Given, SaveBankSelectors, Path

-----------------------------------------------------------------------------
(* Steps that leave the range, the saves, the buffer and the files alone. *)

Quiet == UNCHANGED <<req, range, k, buf, saves, start, files>>

\* What a quiet step must leave true of the new program counter.
LEMMA QuietTypes ==
    ASSUME TypeOK, Quiet,
           card' \in Cards \cup {Unseen}, rom' \in Nat, bank' \in 0..4,
           kind' \in {"none", "ez3", "official", "unknown"},
           pc' \in Planning \cup Reading \cup Writing \cup Ended,
           session' \in Sessions,
           exit' \in {"running", "0", "1", "2", "3", "4", "5", "6"},
           faulted' \in BOOLEAN
    PROVE  TypeOK'
  BY DEF TypeOK, Quiet, range, files, Planning, Reading, Writing, Ended

\* A run that ends early, with a code other than 0, keeps the invariant.
LEMMA EndingKeepsIInv ==
    ASSUME IInv, TypeOK', RequestInv', pc' \in Ended, exit' # "0",
           UNCHANGED <<req, range, saves, start>>,
           UNCHANGED <<backup, kept>> \/ saves = start
    PROVE  IInv'
  <1>1. RangeInv'
    BY DEF IInv, RangeInv, range, Ended, Planning, Reading, Writing, LengthFromInput
  <1>2. ~LossyClose => BackupInv'
    BY DEF IInv, BackupInv, BackupHoldsOriginal, range, Ended, Planning, Reading,
           Writing, HoldsRange
  <1>3. TruthInv'
    BY DEF TruthInv, Ended
  <1>. QED
    BY <1>1, <1>2, <1>3 DEF IInv

\* A quiet step inside the planning phases keeps it.
LEMMA PlanningKeepsIInv ==
    ASSUME IInv, TypeOK', RequestInv', Quiet, pc \in Planning, pc' \in Planning,
           exit' = exit
    PROVE  IInv'
  <1>1. RangeInv'
    BY DEF IInv, RangeInv, Quiet, range, Planning, Reading, Writing, LengthFromInput
  <1>2. ~LossyClose => BackupInv'
    BY DEF IInv, BackupInv, BackupHoldsOriginal, Quiet, range, files, Planning,
           Reading, Writing, HoldsRange
  <1>3. TruthInv'
    BY DEF IInv, TruthInv, Planning, RequestInv, Ended
  <1>. QED
    BY <1>1, <1>2, <1>3 DEF IInv

-----------------------------------------------------------------------------
(* The invariant across each action. *)

LEMMA InitIInv == Init => IInv
  <1>. SUFFICES ASSUME Init PROVE IInv
    OBVIOUS
  <1>1. TypeOK
    <2>1. Blank \in Ranges
      BY DEF Blank, Ranges, Torn, Content, Selectors
    <2>2. saves \in [Selectors -> Content] /\ start = saves
      BY DEF Init, User, Content
    <2>3. /\ req \in Commands /\ card \in Cards \cup {Unseen}
          /\ faulted \in BOOLEAN
      BY DEF Init
    <2>4. /\ pc = "parse" /\ kind = "none" /\ rom = 0 /\ bank = 0
          /\ first = 0 /\ n = 0 /\ k = 0 /\ buf = Blank /\ kept = Blank
          /\ dumped = Blank /\ session = "untouched"
          /\ backup \in {"absent", "earlier"} /\ out = "absent"
          /\ exit = "running"
      BY DEF Init
    <2>. QED
      BY <2>1, <2>2, <2>3, <2>4 DEF TypeOK, Selectors, Sessions
  <1>2. RequestInv /\ RangeInv
    BY DEF Init, RequestInv, RangeInv, Ended, Planning, Reading, Writing
  <1>3. BackupInv /\ TruthInv
    BY DEF Init, BackupInv, TruthInv, BackupHoldsOriginal, Planning, Reading, Writing
  <1>. QED
    BY <1>1, <1>2, <1>3 DEF IInv

\* Before the device is opened.
LEMMA OptionsKeepIInv ==
    ASSUME IInv, ParseOptions \/ CheckInput \/ Confirm \/ OpenFails
    PROVE  IInv'
  <1>1. /\ Quiet /\ UNCHANGED <<card, kind, loop, session>>
        /\ pc \in {"parse", "input", "confirm", "open"}
        /\ \/ pc' = "done" /\ exit' = "1"
           \/ exit' = exit /\ pc' \in {"input", "confirm", "open"}
    BY DEF ParseOptions, CheckInput, Confirm, OpenFails, Quiet
  <1>2. faulted' \in BOOLEAN
    BY DEF ParseOptions, CheckInput, Confirm, OpenFails, IInv, TypeOK
  <1>3. TypeOK'
    BY <1>1, <1>2, QuietTypes DEF IInv, TypeOK, loop, Planning, Reading, Writing, Ended
  <1>4. RequestInv'
    BY <1>1 DEF ParseOptions, CheckInput, Confirm, OpenFails, IInv, RequestInv, Quiet,
           Writing, Ended
  <1>5. CASE pc' = "done" /\ exit' = "1"
    BY <1>1, <1>3, <1>4, <1>5, EndingKeepsIInv DEF Quiet, files, Ended
  <1>6. CASE exit' = exit /\ pc' \in Planning
    BY <1>1, <1>3, <1>4, <1>6, PlanningKeepsIInv DEF Planning
  <1>. QED
    BY <1>1, <1>5, <1>6 DEF Planning

LEMMA OpenKeepsIInv ==
    ASSUME IInv, OpenDevice
    PROVE  IInv'
  <1>1. /\ pc = "open" /\ k' = 0 /\ exit' = exit /\ faulted' = faulted
        /\ UNCHANGED <<req, card, kind, loop, buf, saves, start, session, files>>
        /\ Accepts(req) /\ InputFits(req) /\ req \in Requests
        /\ n = 0 /\ exit = "running"
        /\ ~LossyClose => saves = start
    BY ToolAssumption DEF OpenDevice, IInv, RequestInv, RangeInv, BackupInv, TypeOK,
       Planning, Reading, Writing, Ended
  <1>2. CASE Path(req) = "catalog"
    <2>1. pc' = "initialize" /\ range' = range
      BY <1>2 DEF OpenDevice
    <2>2. TypeOK'
      BY <1>1, <2>1 DEF IInv, TypeOK, range, loop, files
    <2>3. RequestInv' /\ RangeInv'
      BY <1>1, <1>2, <2>1 DEF IInv, RequestInv, RangeInv, range, Planning, Reading,
         Writing, Ended
    <2>4. ~LossyClose => BackupInv' /\ TruthInv'
      BY <1>1, <2>1 DEF IInv, BackupInv, TruthInv, BackupHoldsOriginal, range, Planning,
         Reading, Writing, Ended
    <2>. QED
      BY <2>2, <2>3, <2>4 DEF IInv
  <1>3. CASE Path(req) # "catalog"
    <2>1. /\ first' = FirstBank(req) /\ n' = RangeLength(req)
          /\ pc' \in {"read", "send"}
          /\ pc' = "send" => Path(req) = "erase" /\ req.backup = "none"
      BY <1>3 DEF OpenDevice
    <2>2. /\ first' \in SaveBankSelectors /\ n' \in 1..4
          /\ req.op = "write" => n' = req.input
          /\ \/ req.op = "write" /\ Path(req) = "direct" /\ req.count = 0
             \/ first' + n' =< 4
      BY <1>1, <1>3, <2>1, DirectRange
    <2>3. TypeOK'
      BY <1>1, <2>1, <2>2 DEF IInv, TypeOK, loop, files, Selectors, SaveBankSelectors
    <2>4. RequestInv'
      BY <1>1, <1>3, <2>1 DEF IInv, RequestInv, Path, Writing, Ended
    <2>5. RangeInv'
      BY <1>1, <2>1, <2>2 DEF RangeInv, Planning, Reading, Writing, LengthFromInput
    <2>6. ~LossyClose => BackupInv'
      BY <1>1, <2>1, <2>2 DEF BackupInv, BackupHoldsOriginal, HoldsRange, Planning,
         Reading, Writing
    <2>7. TruthInv'
      BY <1>1, <2>1 DEF TruthInv
    <2>. QED
      BY <2>3, <2>4, <2>5, <2>6, <2>7 DEF IInv
  <1>. QED
    BY <1>2, <1>3

LEMMA InitializeKeepsIInv ==
    ASSUME IInv, Initialize \/ InitializeFails
    PROVE  IInv'
  <1>1. /\ Quiet /\ UNCHANGED loop /\ pc = "initialize" /\ session' = "open"
        /\ card' \in Cards /\ kind' \in {"ez3", "official", "unknown"}
        /\ \/ pc' = "catalog" /\ exit' = exit
           \/ pc' \in Ended /\ exit' = "2" /\ (pc' = "finish" => kind' # "unknown")
    BY DEF Initialize, InitializeFails, Quiet, Ended
  <1>2. faulted' \in BOOLEAN
    BY DEF Initialize, InitializeFails, IInv, TypeOK
  <1>3. TypeOK'
    BY <1>1, <1>2, QuietTypes DEF IInv, TypeOK, loop, Planning, Reading, Writing, Ended,
       Sessions
  <1>4. RequestInv'
    BY <1>1 DEF IInv, RequestInv, Quiet, Writing, Ended
  <1>5. CASE pc' \in Ended /\ exit' = "2"
    BY <1>1, <1>3, <1>4, <1>5, EndingKeepsIInv DEF Quiet, files, Ended
  <1>6. CASE pc' = "catalog" /\ exit' = exit
    BY <1>1, <1>3, <1>4, <1>6, PlanningKeepsIInv DEF Planning
  <1>. QED
    BY <1>1, <1>5, <1>6

\* The catalog plan has selected a range.
LEMMA SelectKeepsIInv ==
    ASSUME IInv, pc \in {"catalog", "allocate"}, NEW b \in SaveBankSelectors, Select(b),
           SupportedSaveSize(Marker(Selected)) # 0,
           b + SupportedSaveSize(Marker(Selected)) =< 4,
           UNCHANGED <<req, card, kind, loop, k, buf, saves, start, session, files,
                       exit, faulted>>
    PROVE  IInv'
  <1>1. /\ pc' = "read" /\ first' = b /\ n' \in 1..2 /\ first' + n' =< 4
    BY BankCounts DEF Select
  <1>2. k = 0 /\ Path(req) = "catalog" /\ kind # "none" /\ exit = "running"
        /\ Accepts(req) /\ InputFits(req)
    BY DEF IInv, RequestInv, RangeInv, Planning, Ended
  <1>3. TypeOK'
    BY <1>1 DEF IInv, TypeOK, Selectors, SaveBankSelectors, loop, files
  <1>4. RequestInv'
    BY <1>1, <1>2 DEF RequestInv, Writing, Ended
  <1>5. RangeInv'
    <2>1. Path(req)' = "catalog" /\ k' = 0 /\ pc' = "read"
      BY <1>1, <1>2
    <2>. QED
      BY <1>1, <2>1 DEF RangeInv, Planning, Reading, Writing
  <1>6. ~LossyClose => BackupInv'
    <2>1. ~LossyClose => saves' = start'
      BY DEF IInv, BackupInv, Planning
    <2>. QED
      BY <1>1, <1>2, <2>1 DEF BackupInv, BackupHoldsOriginal, HoldsRange, Reading,
         Writing
  <1>7. TruthInv'
    BY <1>1, <1>2 DEF TruthInv
  <1>. QED
    BY <1>3, <1>4, <1>5, <1>6, <1>7 DEF IInv

\* A catalog workflow that gives up before it writes.
LEMMA GiveUpKeepsIInv ==
    ASSUME IInv, NEW code \in {"1", "2", "3", "4", "5", "6"}, Return(code),
           UNCHANGED <<req, card, kind, loop, range, k, buf, saves, start, files>>,
           session' \in Sessions,
           faulted' \in BOOLEAN,
           pc \in {"catalog", "allocate"} \cup Reading \cup Writing
    PROVE  IInv'
  <1>1. pc' \in Ended /\ exit' = code /\ (pc' = "finish" => Path(req) = "catalog")
    BY DEF Return, Ended
  <1>2. TypeOK'
    BY <1>1, QuietTypes DEF Quiet, IInv, TypeOK, loop, Planning, Reading, Writing, Ended
  <1>3. RequestInv'
    BY <1>1 DEF IInv, RequestInv, Return, Writing, Reading, Ended
  <1>. QED
    BY <1>1, <1>2, <1>3, EndingKeepsIInv DEF files

LEMMA CatalogKeepsIInv ==
    ASSUME IInv, ReadCatalog \/ ReadCatalogFails
    PROVE  IInv'
  <1>1. /\ pc = "catalog"
        /\ UNCHANGED <<req, card, kind, k, buf, saves, start, session, files>>
        /\ req \in Requests
    BY ToolAssumption DEF ReadCatalog, ReadCatalogFails, IInv, TypeOK
  <1>2. faulted' \in BOOLEAN
    BY DEF ReadCatalog, ReadCatalogFails, IInv, TypeOK
  <1>3. CASE (\E code \in {"1", "2", "3", "4"} : Return(code))
             /\ UNCHANGED <<loop, range>>
    BY <1>1, <1>2, <1>3, GiveUpKeepsIInv DEF IInv, TypeOK
  <1>4. CASE /\ Plannable /\ req.bank # NoBank /\ Select(req.bank)
             /\ UNCHANGED <<loop, exit, faulted>>
    <2>1. req.bank \in SaveBankSelectors
      BY <1>1, <1>4, RequestTypes
    <2>2. /\ SupportedSaveSize(Marker(Selected)) # 0
          /\ req.bank + SupportedSaveSize(Marker(Selected)) =< 4
      BY <1>4, <2>1, BankCounts DEF Plannable, Accommodates, SaveBankSelectors
    <2>. QED
      BY <1>1, <1>4, <2>1, <2>2, SelectKeepsIInv
  <1>5. CASE /\ Plannable /\ pc' = "allocate" /\ rom' = 1 /\ bank' = 0
             /\ UNCHANGED <<range, exit, faulted>>
    <2>1. TypeOK'
      BY <1>1, <1>5, QuietTypes DEF Quiet, IInv, TypeOK, Planning
    <2>2. RequestInv'
      <3>1. SupportedSaveSize(Marker(Selected))' # 0
        BY <1>1, <1>5 DEF Plannable, Marker, Selected
      <3>. QED
        BY <1>1, <1>5, <3>1 DEF IInv, RequestInv, Writing, Ended
    <2>. QED
      BY <1>1, <1>5, <2>1, <2>2, PlanningKeepsIInv DEF Quiet, Planning
  <1>. QED
    BY <1>3, <1>4, <1>5 DEF ReadCatalog, ReadCatalogFails

LEMMA AllocateKeepsIInv ==
    ASSUME IInv, Allocate
    PROVE  IInv'
  <1>1. /\ pc = "allocate" /\ bank \in 0..4 /\ rom \in Nat
        /\ UNCHANGED <<req, card, kind, k, buf, saves, start, session, files, faulted>>
    BY DEF Allocate, IInv, TypeOK
  <1>2. CASE Return("4") /\ UNCHANGED <<loop, range>>
    BY <1>1, <1>2, GiveUpKeepsIInv DEF IInv, TypeOK
  <1>3. CASE /\ rom = Selected /\ Select(bank) /\ UNCHANGED <<loop, exit>>
             /\ SaveBankCount(Marker(rom)) # 0
             /\ SaveBankCount(Marker(rom)) =< 4 - bank
    <2>1. SupportedSaveSize(Marker(Selected)) # 0
      BY <1>1 DEF IInv, RequestInv
    <2>2. bank \in SaveBankSelectors /\ bank + SupportedSaveSize(Marker(Selected)) =< 4
      BY <1>1, <1>3, BankCounts DEF SaveBankSelectors
    <2>. QED
      BY <1>1, <1>3, <2>1, <2>2, SelectKeepsIInv
  <1>4. CASE /\ rom' = rom + 1 /\ bank' = bank + SaveBankCount(Marker(rom))
             /\ SaveBankCount(Marker(rom)) =< 4 - bank
             /\ UNCHANGED <<pc, range, exit>>
    <2>1. rom' \in Nat /\ bank' \in 0..4
      BY <1>1, <1>4, BankCounts
    <2>2. TypeOK'
      BY <1>1, <1>4, <2>1, QuietTypes DEF Quiet, IInv, TypeOK, Planning
    <2>3. RequestInv'
      BY <1>1, <1>4 DEF IInv, RequestInv, Marker, Selected
    <2>. QED
      BY <1>1, <1>4, <2>2, <2>3, PlanningKeepsIInv DEF Quiet, Planning
  <1>. QED
    BY <1>2, <1>3, <1>4 DEF Allocate

-----------------------------------------------------------------------------
(* Reading, backup and comparison. *)

\* Reading bank k of the range extends what the buffer holds by one bank.
LEMMA FetchExtends ==
    ASSUME TypeOK, n > 0, k < n, first \in SaveBankSelectors, NEW after,
           Fetch(after), NEW memory \in [Selectors -> Content],
           memory = saves, HoldsRange(buf, k, memory)
    PROVE  /\ buf' \in Ranges /\ k' \in 0..4
           /\ k' < n
           /\ pc' = pc => HoldsRange(buf', k + 1, memory)
           /\ k + 1 < n => pc' = pc /\ k' = k + 1
           /\ ~(k + 1 < n) => pc' = after /\ k' = 0
           /\ HoldsRange(buf', k + 1, memory)
  <1>1. /\ k \in 0..3 /\ n \in 1..4 /\ first + k \in Selectors
        /\ buf \in Ranges /\ saves[first + k] \in Content
    BY DEF TypeOK, SaveBankSelectors, Selectors
  <1>2. buf' = [buf EXCEPT ![k] = memory[first + k]]
    BY DEF Fetch
  <1>3. buf' \in Ranges
    BY <1>1, <1>2 DEF Ranges, SaveBankSelectors
  <1>4. HoldsRange(buf', k + 1, memory)
    BY <1>1, <1>2 DEF HoldsRange, Ranges, SaveBankSelectors
  <1>. QED
    BY <1>1, <1>3, <1>4 DEF Fetch

LEMMA TransferType ==
    ASSUME TypeOK, Transfer
    PROVE  session' \in Sessions
  BY DEF TypeOK, Transfer, Sessions

LEMMA PayloadTransferType ==
    ASSUME TypeOK, PayloadTransfer
    PROVE  session' \in Sessions
  BY DEF TypeOK, PayloadTransfer, Sessions

LEMMA ReadBankKeepsIInv ==
    ASSUME IInv, ReadBank
    PROVE  IInv'
  <1>1. /\ pc = "read" /\ Fetch(AfterRead) /\ TypeOK
        /\ UNCHANGED <<req, card, kind, rom, bank, first, n, saves, start, backup, kept,
                       out, dumped, exit, faulted>>
        /\ n > 0 /\ k < n /\ first \in SaveBankSelectors /\ exit = "running"
        /\ req \in Requests /\ n \in 1..4 /\ k \in Nat /\ saves \in [Selectors -> Content]
    BY ToolAssumption DEF ReadBank, IInv, TypeOK, RequestInv, RangeInv, Reading, Ended,
       loop, range, files
  <1>2. AfterRead \in {"backup", "store", "size", "send"}
    BY DEF AfterRead
  <1>3. /\ AfterRead = "store" => req.op \notin {"write", "erase"}
        /\ AfterRead = "size" => Path(req) = "catalog" /\ req.op = "write"
        /\ AfterRead = "send" => /\ Path(req) = "direct" /\ req.op = "write"
                                 /\ req.backup # "file"
        /\ AfterRead = "backup" =>
               req.op = "erase" \/ (Path(req) = "direct" /\ req.op = "write")
    BY DEF AfterRead, Path
  <1>4. buf' \in Ranges /\ k' \in 0..4 /\ k' < n
    <2>1. /\ k \in 0..3 /\ first + k \in Selectors /\ buf \in Ranges
      BY <1>1 DEF TypeOK, SaveBankSelectors, Selectors
    <2>. QED
      BY <1>1, <2>1 DEF Fetch, Ranges, SaveBankSelectors
  <1>5. TypeOK'
    <2>1. pc' \in {"read", "backup", "store", "size", "send"}
      BY <1>1, <1>2 DEF Fetch
    <2>2. session' \in Sessions
      BY <1>1, TransferType DEF Fetch
    <2>. QED
      BY <1>1, <1>4, <2>1, <2>2 DEF TypeOK
  <1>6. RequestInv'
    <2>1. pc' = "read" \/ pc' = AfterRead
      BY <1>1 DEF Fetch
    <2>. QED
      BY <1>1, <1>2, <1>3, <2>1 DEF IInv, RequestInv, Writing, Ended
  <1>7. RangeInv'
    <2>1. pc' \in {"read", "backup", "store", "size", "send"}
      BY <1>1, <1>2 DEF Fetch
    <2>2. req.op = "write" /\ pc' \in {"send", "backup"} => Path(req) = "direct"
      BY <1>1, <1>3 DEF Fetch
    <2>3. pc' # "read" => k' = 0
      BY <1>1 DEF Fetch
    <2>. QED
      BY <1>1, <1>4, <2>1, <2>2, <2>3 DEF IInv, RangeInv, Planning, Reading, Writing,
         LengthFromInput
  <1>8. ~LossyClose => BackupInv'
    <2>. SUFFICES ASSUME ~LossyClose PROVE BackupInv'
      OBVIOUS
    <2>1. saves = start /\ HoldsRange(buf, k, start) /\ BackupHoldsOriginal
      BY <1>1 DEF IInv, BackupInv, Reading
    <2>2. HoldsRange(buf', k + 1, start)
      BY <1>1, <2>1, FetchExtends
    <2>3. k + 1 < n => pc' = "read" /\ k' = k + 1
      BY <1>1 DEF Fetch
    <2>4. ~(k + 1 < n) => n = k + 1 /\ pc' = AfterRead
      BY <1>1 DEF Fetch
    <2>5. saves' = start'
      BY <1>1, <2>1
    <2>7. pc' = "read" => HoldsRange(buf, k, start)'
      BY <1>1, <1>2, <2>2, <2>3, <2>4 DEF HoldsRange
    <2>8. pc' \in {"size", "backup", "store"} => HoldsRange(buf, n, start)'
      BY <1>1, <1>2, <2>2, <2>3, <2>4 DEF HoldsRange
    <2>9. pc' \in Writing => req.backup # "file"
      BY <1>1, <1>2, <1>3, <2>3, <2>4 DEF Writing
    <2>. QED
      BY <1>1, <2>5, <2>7, <2>8, <2>9 DEF BackupInv, BackupHoldsOriginal
  <1>9. TruthInv'
    <2>1. pc' \in {"read", "backup", "store", "size", "send"}
      BY <1>1, <1>2 DEF Fetch
    <2>. QED
      BY <1>1, <2>1 DEF TruthInv
  <1>. QED
    BY <1>5, <1>6, <1>7, <1>8, <1>9 DEF IInv

LEMMA ReadBackKeepsIInv ==
    ASSUME IInv, ReadBack
    PROVE  IInv'
  <1>1. /\ pc = "read_back" /\ Fetch("compare") /\ TypeOK
        /\ UNCHANGED <<req, card, kind, rom, bank, first, n, saves, start, backup, kept,
                       out, dumped, exit, faulted>>
        /\ n > 0 /\ k < n /\ first \in SaveBankSelectors /\ exit = "running"
        /\ n \in 1..4 /\ k \in Nat /\ saves \in [Selectors -> Content]
        /\ pc' \in {"read_back", "compare"}
    BY DEF ReadBack, Fetch, IInv, TypeOK, RequestInv, RangeInv, Writing, Ended,
       loop, range, files
  <1>2. buf' \in Ranges /\ k' \in 0..4 /\ k' < n
    <2>1. /\ k \in 0..3 /\ first + k \in Selectors /\ buf \in Ranges
      BY <1>1 DEF TypeOK, SaveBankSelectors, Selectors
    <2>. QED
      BY <1>1, <2>1 DEF Fetch, Ranges, SaveBankSelectors
  <1>3. TypeOK'
    <2>1. session' \in Sessions
      BY <1>1, TransferType DEF Fetch
    <2>. QED
      BY <1>1, <1>2, <2>1 DEF TypeOK
  <1>4. RequestInv'
    BY <1>1 DEF IInv, RequestInv, Writing, Ended
  <1>5. RangeInv'
    <2>1. pc' # "read_back" => k' = 0
      BY <1>1 DEF Fetch
    <2>. QED
      BY <1>1, <1>2, <2>1 DEF IInv, RangeInv, Planning, Reading, Writing,
         LengthFromInput
  <1>6. ~LossyClose => BackupInv'
    BY <1>1 DEF IInv, BackupInv, BackupHoldsOriginal, HoldsRange, Planning, Reading,
       Writing
  <1>7. ~LossyClose => TruthInv'
    <2>. SUFFICES ASSUME ~LossyClose PROVE TruthInv'
      OBVIOUS
    <2>1. HoldsRange(buf, k, saves)
      BY <1>1 DEF IInv, TruthInv
    <2>2. HoldsRange(buf', k + 1, saves)
      BY <1>1, <2>1, FetchExtends
    <2>3. k + 1 < n => pc' = "read_back" /\ k' = k + 1
      BY <1>1 DEF Fetch
    <2>4. ~(k + 1 < n) => n = k + 1 /\ pc' = "compare"
      BY <1>1 DEF Fetch
    <2>5. pc' = "read_back" => HoldsRange(buf, k, saves)'
      BY <1>1, <2>2, <2>3, <2>4 DEF HoldsRange
    <2>6. pc' = "compare" => HoldsRange(buf, n, saves)'
      BY <1>1, <2>2, <2>3, <2>4 DEF HoldsRange
    <2>. QED
      BY <1>1, <2>5, <2>6 DEF TruthInv
  <1>. QED
    BY <1>3, <1>4, <1>5, <1>6, <1>7 DEF IInv

LEMMA ReadFailsKeepsIInv ==
    ASSUME IInv, ReadFails
    PROVE  IInv'
  <1>1. /\ pc \in Reading \cup Writing
        /\ \E code \in {"2", "6"} : Return(code)
        /\ UNCHANGED <<req, card, kind, loop, range, k, buf, saves, start, files>>
        /\ faulted' \in BOOLEAN
    BY DEF ReadFails, Reading, Writing
  <1>2. session' \in Sessions
    BY TransferType DEF ReadFails, IInv
  <1>. QED
    BY <1>1, <1>2, GiveUpKeepsIInv

\* A step that only moves the program counter on, before anything is written.
LEMMA AdvanceKeepsIInv ==
    ASSUME IInv, pc \in {"size", "ready_before", "ready_after"},
           \/ pc = "size" /\ pc' \in {"backup", "ready_before"} /\ req.input = n
                 /\ (pc' = "ready_before" => req.backup # "file")
           \/ pc = "ready_before" /\ pc' = "send"
           \/ pc = "ready_after" /\ pc' = "read_back",
           UNCHANGED <<req, card, kind, loop, range, k, buf, saves, start, files, exit,
                       faulted>>,
           session' \in Sessions
    PROVE  IInv'
  <1>1. TypeOK'
    BY DEF IInv, TypeOK, loop, range, files
  <1>2. RequestInv'
    BY DEF IInv, RequestInv, Writing, Ended, Marker, Selected
  <1>3. RangeInv'
    BY DEF IInv, RangeInv, range, Planning, Reading, Writing, LengthFromInput
  <1>4. ~LossyClose => BackupInv'
    BY DEF IInv, BackupInv, BackupHoldsOriginal, HoldsRange, range, files, Planning,
       Reading, Writing
  <1>5. ~LossyClose => TruthInv'
    <2>1. k \in Nat /\ (pc' = "read_back" => k' = 0) /\ exit = "running" /\ exit' = exit
      BY DEF IInv, TypeOK, RequestInv, RangeInv, Ended
    <2>. QED
      BY <2>1 DEF TruthInv, HoldsRange
  <1>. QED
    BY <1>1, <1>2, <1>3, <1>4, <1>5 DEF IInv

LEMMA CheckSizeKeepsIInv ==
    ASSUME IInv, CheckSize
    PROVE  IInv'
  <1>1. /\ pc = "size" /\ TypeOK
        /\ UNCHANGED <<req, card, kind, loop, range, k, buf, saves, start, session,
                       files, faulted>>
    BY DEF CheckSize, IInv
  <1>2. CASE Return("4")
    BY <1>1, <1>2, GiveUpKeepsIInv DEF TypeOK, Reading
  <1>3. CASE ~Return("4")
    <2>1. /\ req.input = n /\ exit' = exit
          /\ pc' = IF req.backup = "file" THEN "backup" ELSE "ready_before"
      BY <1>3 DEF CheckSize
    <2>. QED
      BY <1>1, <2>1, AdvanceKeepsIInv DEF TypeOK
  <1>. QED
    BY <1>2, <1>3

LEMMA BackupKeepsIInv ==
    ASSUME IInv, Backup
    PROVE  IInv'
  <1>1. /\ pc = "backup" /\ TypeOK
        /\ UNCHANGED <<req, card, kind, rom, bank, first, n, k, buf, saves, start,
                       session, out, dumped>>
    BY DEF Backup, IInv, loop, range
  <1>2. faulted' \in BOOLEAN
    BY DEF Backup, IInv, TypeOK
  <1>3. CASE Return("5") /\ UNCHANGED <<backup, kept>>
    BY <1>1, <1>2, <1>3, GiveUpKeepsIInv DEF TypeOK, Reading, loop, range, files
  <1>4. CASE Return("5") /\ kept' = buf /\ backup' \in {"absent", "partial"}
    <2>1. /\ pc' \in Ended /\ exit' = "5"
          /\ pc' = "finish" => Path(req) = "catalog"
      BY <1>4 DEF Return, Ended
    <2>2. TypeOK'
      BY <1>1, <1>2, <1>4, <2>1 DEF TypeOK, Ended
    <2>3. RequestInv'
      BY <1>1, <2>1 DEF IInv, RequestInv, Writing, Ended
    <2>4. CASE ~LossyClose
      <3>1. saves = start
        BY <1>1, <2>4 DEF IInv, BackupInv, Reading
      <3>. QED
        BY <1>1, <2>1, <2>2, <2>3, <3>1, EndingKeepsIInv DEF range
    <2>5. CASE LossyClose
      <3>1. RangeInv'
        BY <1>1, <2>1 DEF IInv, RangeInv, Ended, Planning, Reading, Writing,
           LengthFromInput
      <3>. QED
        BY <2>2, <2>3, <2>5, <3>1 DEF IInv
    <2>. QED
      BY <2>4, <2>5
  <1>5. CASE pc' = AfterBackup /\ exit' = exit /\ kept' = buf /\ backup' \in Written
    <2>1. /\ AfterBackup \in {"ready_before", "send"}
          /\ AfterBackup = "ready_before" => Path(req) = "catalog"
          /\ backup' \in {"complete", "partial"}
      BY <1>5 DEF AfterBackup, Written
    <2>2. TypeOK'
      BY <1>1, <1>2, <1>5, <2>1 DEF TypeOK
    <2>3. req.op \in {"write", "erase"}
      BY <1>1, RequestTypes DEF IInv, RequestInv
    <2>4. RequestInv' /\ RangeInv'
      <3>1. RequestInv'
        BY <1>1, <1>5, <2>1, <2>3 DEF IInv, RequestInv, Writing, Ended
      <3>2. RangeInv'
        BY <1>1, <1>5, <2>1 DEF IInv, RangeInv, Planning, Reading, Writing,
           LengthFromInput
      <3>. QED
        BY <3>1, <3>2
    <2>5. ~LossyClose => BackupInv'
      BY <1>1, <1>5, <2>1 DEF IInv, BackupInv, BackupHoldsOriginal, HoldsRange,
         Written, Planning, Reading, Writing
    <2>6. TruthInv'
      BY <1>1, <1>5, <2>1 DEF IInv, TruthInv, RequestInv, Ended
    <2>. QED
      BY <2>2, <2>4, <2>5, <2>6 DEF IInv
  <1>. QED
    BY <1>3, <1>4, <1>5 DEF Backup

-----------------------------------------------------------------------------
(* Writing, the verdict and the end. *)

LEMMA ReadyKeepsIInv ==
    ASSUME IInv, ReadyBefore \/ ReadyAfter
    PROVE  IInv'
  <1>1. /\ TypeOK /\ pc \in {"ready_before", "ready_after"}
        /\ UNCHANGED <<req, card, kind, loop, range, k, buf, saves, start, files>>
    BY DEF ReadyBefore, ReadyAfter, IInv
  <1>2. CASE session' = "close_failed" /\ Return("2") /\ faulted' = TRUE
    BY <1>1, <1>2, GiveUpKeepsIInv DEF Writing, Sessions
  <1>3. CASE /\ session' = "closed" /\ UNCHANGED <<exit, faulted>>
             /\ \/ pc = "ready_before" /\ pc' = "send"
                \/ pc = "ready_after" /\ pc' = "read_back"
    BY <1>1, <1>3, AdvanceKeepsIInv DEF Sessions
  <1>. QED
    BY <1>2, <1>3 DEF ReadyBefore, ReadyAfter, Ready

\* One bank of the range is overwritten while the backup, if one was asked
\* for, is complete.
LEMMA PayloadType ==
    ASSUME TypeOK, k \in 0..3
    PROVE  Payload(k) \in Content /\ Torn \in Content
  BY DEF Payload, Torn, Content, Selectors

LEMMA SendTypes ==
    ASSUME IInv, pc = "send",
           NEW content \in {saves[first + k], Payload(k), Torn},
           saves' = [saves EXCEPT ![first + k] = content]
    PROVE  saves' \in [Selectors -> Content]
  <1>1. k \in 0..3 /\ first + k \in Selectors /\ saves \in [Selectors -> Content]
    BY DEF IInv, TypeOK, RangeInv, Writing, SaveBankSelectors, Selectors
  <1>. QED
    BY <1>1, PayloadType DEF IInv

LEMMA SendBankKeepsIInv ==
    ASSUME IInv, SendBank
    PROVE  IInv'
  <1>1. /\ pc = "send" /\ TypeOK /\ k < n /\ n \in 1..4 /\ k \in Nat
        /\ UNCHANGED <<req, card, kind, rom, bank, first, n, buf, start, backup,
                       kept, out, dumped, exit>>
        /\ PayloadTransfer /\ exit = "running" /\ req.op \in {"write", "erase"}
        /\ req.op = "write" => req.input = n
    BY DEF SendBank, IInv, TypeOK, RequestInv, RangeInv, Writing, Ended, range, loop,
       files
  <1>2. SendLength = n
    BY <1>1 DEF SendLength
  <1>3. AfterSend \in {"ready_after", "read_back"}
        /\ (AfterSend = "ready_after" => Path(req) = "catalog")
    BY DEF AfterSend
  <1>4. \/ pc' = "send" /\ k' = k + 1 /\ k' < n
        \/ pc' = AfterSend /\ k' = 0
    BY <1>1, <1>2 DEF SendBank
  <1>5. faulted' \in BOOLEAN
    BY DEF SendBank
  <1>6. saves' \in [Selectors -> Content]
    BY <1>1, SendTypes DEF SendBank
  <1>7. TypeOK'
    BY <1>1, <1>3, <1>4, <1>5, <1>6, PayloadTransferType DEF TypeOK
  <1>8. RequestInv'
    BY <1>1, <1>3, <1>4 DEF IInv, RequestInv, Writing, Ended
  <1>9. RangeInv'
    BY <1>1, <1>3, <1>4 DEF IInv, RangeInv, Planning, Reading, Writing, LengthFromInput
  <1>10. ~LossyClose => BackupInv'
    BY <1>1, <1>3, <1>4 DEF IInv, BackupInv, BackupHoldsOriginal, HoldsRange,
       Planning, Reading, Writing
  <1>11. TruthInv'
    BY <1>1, <1>3, <1>4 DEF TruthInv, HoldsRange
  <1>. QED
    BY <1>7, <1>8, <1>9, <1>10, <1>11 DEF IInv

LEMMA SendFailsKeepsIInv ==
    ASSUME IInv, SendFails
    PROVE  IInv'
  <1>1. /\ pc = "send" /\ TypeOK /\ exit' = "2" /\ pc' \in Ended /\ faulted' = TRUE
        /\ pc' = "finish" => Path(req) = "catalog"
        /\ UNCHANGED <<req, card, kind, rom, bank, first, n, k, buf, start, backup,
                       kept, out, dumped>>
        /\ PayloadTransfer
    BY DEF SendFails, Return, Ended, IInv, range, loop, files
  <1>2. saves' \in [Selectors -> Content]
    BY <1>1, SendTypes DEF SendFails
  <1>3. TypeOK'
    BY <1>1, <1>2, PayloadTransferType DEF TypeOK, Ended
  <1>4. RequestInv'
    BY <1>1 DEF IInv, RequestInv, Writing, Ended
  <1>5. RangeInv'
    BY <1>1 DEF IInv, RangeInv, Planning, Reading, Writing, Ended, LengthFromInput
  <1>6. ~LossyClose => BackupInv'
    BY <1>1 DEF IInv, BackupInv, BackupHoldsOriginal, HoldsRange, Planning, Reading,
       Writing, Ended
  <1>7. TruthInv'
    BY <1>1 DEF TruthInv, Ended
  <1>. QED
    BY <1>3, <1>4, <1>5, <1>6, <1>7 DEF IInv

LEMMA CompareKeepsIInv ==
    ASSUME IInv, Compare
    PROVE  IInv'
  <1>1. /\ pc = "compare" /\ TypeOK /\ pc' \in Ended
        /\ exit' = IF Matches THEN "0" ELSE "6"
        /\ pc' = "finish" <=> (Path(req) = "catalog" /\ kind # "none")
        /\ UNCHANGED <<req, card, kind, rom, bank, first, n, k, buf, saves, start,
                       session, backup, kept, out, dumped, faulted>>
    BY DEF Compare, Return, Ended, IInv, range, loop, files
  <1>2. TypeOK'
    <2>1. exit' \in {"0", "6"}
      BY <1>1
    <2>. QED
      BY <1>1, <2>1 DEF TypeOK, Ended
  <1>3. RequestInv'
    BY <1>1 DEF IInv, RequestInv, Writing, Ended
  <1>4. RangeInv'
    BY <1>1 DEF IInv, RangeInv, Planning, Reading, Writing, Ended, LengthFromInput
  <1>5. ~LossyClose => BackupInv'
    BY <1>1 DEF IInv, BackupInv, BackupHoldsOriginal, HoldsRange, Planning, Reading,
       Writing, Ended
  <1>6. ~LossyClose => TruthInv'
    <2>. SUFFICES ASSUME ~LossyClose PROVE TruthInv'
      OBVIOUS
    <2>1. /\ HoldsRange(buf, n, saves) /\ req.op \in {"write", "erase"}
          /\ Path(req) = "catalog" => kind # "none"
      BY <1>1 DEF IInv, TruthInv, RequestInv, Writing
    <2>2. exit' = "0" => \A i \in 0..n - 1 : saves[first + i] = Payload(i)
      BY <1>1, <2>1 DEF Matches, HoldsRange
    <2>3. exit' = "0" => (\A i \in 0..n - 1 : saves[first + i] = Payload(i))'
      BY <1>1, <2>2 DEF Payload
    <2>4. pc' \in Ended /\ (Path(req)' = "catalog" => pc' # "done")
      BY <1>1, <2>1 DEF Ended
    <2>. QED
      BY <1>1, <2>1, <2>3, <2>4 DEF TruthInv, Ended
  <1>. QED
    BY <1>2, <1>3, <1>4, <1>5, <1>6 DEF IInv

LEMMA StoreKeepsIInv ==
    ASSUME IInv, StoreDump
    PROVE  IInv'
  <1>1. /\ pc = "store" /\ TypeOK /\ pc' \in Ended /\ exit' \in {"0", "5"}
        /\ pc' = "finish" <=> (Path(req) = "catalog" /\ kind # "none")
        /\ UNCHANGED <<req, card, kind, rom, bank, first, n, k, buf, saves, start,
                       session, backup, kept>>
        /\ dumped' = buf /\ out' \in {"absent", "partial", "complete"}
        /\ exit' = "0" => out' \in Written
    BY DEF StoreDump, Return, Ended, IInv, range, loop, Written
  <1>2. faulted' \in BOOLEAN
    BY DEF StoreDump, IInv, TypeOK
  <1>3. TypeOK'
    BY <1>1, <1>2 DEF TypeOK, Ended
  <1>4. RequestInv'
    BY <1>1 DEF IInv, RequestInv, Writing, Ended
  <1>5. RangeInv'
    BY <1>1 DEF IInv, RangeInv, Planning, Reading, Writing, Ended, LengthFromInput
  <1>6. ~LossyClose => BackupInv'
    BY <1>1 DEF IInv, BackupInv, BackupHoldsOriginal, HoldsRange, Planning, Reading,
       Writing, Ended
  <1>7. ~LossyClose => TruthInv'
    <2>. SUFFICES ASSUME ~LossyClose PROVE TruthInv'
      OBVIOUS
    <2>1. /\ saves = start /\ HoldsRange(buf, n, start)
          /\ req.op \notin {"write", "erase"}
          /\ Path(req) = "catalog" => kind # "none"
      BY <1>1 DEF IInv, BackupInv, RequestInv, Reading
    <2>2. saves' = start' /\ HoldsRange(dumped, n, start)'
      BY <1>1, <2>1 DEF HoldsRange
    <2>3. exit' = "0" => out' = "complete"
      BY <1>1 DEF Written
    <2>4. Path(req)' = "catalog" => pc' # "done"
      BY <1>1, <2>1
    <2>. QED
      BY <1>1, <2>1, <2>2, <2>3, <2>4 DEF TruthInv, Ended
  <1>. QED
    BY <1>3, <1>4, <1>5, <1>6, <1>7 DEF IInv

LEMMA FinishKeepsIInv ==
    ASSUME IInv, FinishSession
    PROVE  IInv'
  <1>1. /\ pc = "finish" /\ pc' = "done" /\ TypeOK
        /\ UNCHANGED <<req, card, kind, rom, bank, first, n, k, buf, saves, start,
                       backup, kept, out, dumped>>
        /\ session' \in {"closed", "close_failed"}
        /\ exit' \in {exit, "2"} /\ exit # "running"
        /\ exit' = "0" => exit = "0" /\ session' = "closed"
    BY DEF FinishSession, IInv, RequestInv, Ended, range, loop, files
  <1>2. faulted' \in BOOLEAN
    BY DEF FinishSession, IInv, TypeOK
  <1>3. TypeOK'
    BY <1>1, <1>2 DEF TypeOK, Sessions
  <1>4. RequestInv'
    BY <1>1 DEF IInv, RequestInv, Writing, Ended
  <1>5. RangeInv'
    BY <1>1 DEF IInv, RangeInv, Planning, Reading, Writing, LengthFromInput
  <1>6. ~LossyClose => BackupInv'
    BY <1>1 DEF IInv, BackupInv, BackupHoldsOriginal, HoldsRange, Planning, Reading,
       Writing
  <1>7. ~LossyClose => TruthInv'
    BY <1>1 DEF IInv, TruthInv, HoldsRange, Payload
  <1>. QED
    BY <1>3, <1>4, <1>5, <1>6, <1>7 DEF IInv

LEMMA StutterKeepsIInv ==
    ASSUME IInv, UNCHANGED vars
    PROVE  IInv'
  <1>1. TypeOK'
    BY DEF IInv, TypeOK, vars, loop, range, files
  <1>2. RequestInv'
    BY DEF IInv, RequestInv, vars, Marker, Selected
  <1>3. RangeInv'
    BY DEF IInv, RangeInv, LengthFromInput, vars, range
  <1>4. ~LossyClose => BackupInv'
    BY DEF IInv, BackupInv, BackupHoldsOriginal, HoldsRange, vars, range, files
  <1>5. ~LossyClose => TruthInv'
    BY DEF IInv, TruthInv, HoldsRange, Payload, vars, range, files
  <1>. QED
    BY <1>1, <1>2, <1>3, <1>4, <1>5 DEF IInv

\* Every step of a run keeps the invariant, whichever transfers fail.
LEMMA NextKeepsIInv == IInv /\ [Next]_vars => IInv'
  BY OptionsKeepIInv, OpenKeepsIInv, InitializeKeepsIInv, CatalogKeepsIInv,
     AllocateKeepsIInv, ReadBankKeepsIInv, ReadFailsKeepsIInv, CheckSizeKeepsIInv,
     BackupKeepsIInv, ReadyKeepsIInv, SendBankKeepsIInv, SendFailsKeepsIInv,
     ReadBackKeepsIInv, CompareKeepsIInv, StoreKeepsIInv, FinishKeepsIInv,
     StutterKeepsIInv
  DEF Next, Exited

\* The inductive invariant holds of every run, for every set of command
\* lines and cartridges.
THEOREM Invariance == Spec => []IInv
  BY InitIInv, NextKeepsIInv, PTL DEF Spec

\* Type correctness: no run computes a bank beyond the seven selectors.
THEOREM TypeCorrect == Spec => []TypeOK
  <1>1. IInv => TypeOK
    BY DEF IInv
  <1>. QED
    BY Invariance, <1>1, PTL

\* With files that keep what they were given, no save bank changes before
\* the requested backup holds the whole original range.
THEOREM BackupComesFirst ==
    ASSUME ~LossyClose
    PROVE  Spec => []BackupHoldsOriginal
  <1>1. IInv => BackupHoldsOriginal
    BY DEF IInv, BackupInv
  <1>. QED
    BY Invariance, <1>1, PTL

\* Exit code 0 is the truth about the cartridge, the output and the session.
THEOREM SuccessIsTrue ==
    ASSUME ~LossyClose
    PROVE  Spec => []SuccessIsTruthful
  <1>1. IInv => SuccessIsTruthful
    BY DEF IInv, TruthInv, SuccessIsTruthful, HoldsRange
  <1>. QED
    BY Invariance, <1>1, PTL

\* Every range the tool checks stays inside the four save banks; a direct
\* write whose length comes from the input is the exception.
THEOREM RangesFit == Spec => []CheckedRangeFits
  <1>1. IInv => CheckedRangeFits
    BY DEF IInv, TypeOK, RangeInv, CheckedRangeFits, RangeFits, SaveBankSelectors
  <1>. QED
    BY Invariance, <1>1, PTL

-----------------------------------------------------------------------------
(* The read session: who opened it, and when a payload may be sent. *)

Unopened == {"parse", "input", "confirm", "open", "initialize"}

SessionInv ==
    /\ pc \in Unopened => kind = "none"
    /\ Path(req) # "catalog" => kind = "none"
    /\ pc = "send" /\ Path(req) = "catalog" => session \in {"closed", "written"}
    /\ CleanupAttempted

\* A run that leaves through Return does so past finishSession.
LEMMA ReturnKeepsSession ==
    ASSUME IInv, SessionInv, NEW code, Return(code), UNCHANGED <<req, kind>>,
           pc \notin Unopened
    PROVE  SessionInv'
  <1>1. pc' = IF Path(req) = "catalog" /\ kind # "none" THEN "finish" ELSE "done"
    BY DEF Return
  <1>. QED
    BY <1>1 DEF SessionInv, CleanupAttempted, Unopened

LEMMA NextKeepsSession ==
    ASSUME IInv, SessionInv, [Next]_vars
    PROVE  SessionInv'
  <1>1. CASE ParseOptions \/ CheckInput \/ Confirm \/ OpenDevice \/ OpenFails
    <2>1. /\ pc \in Unopened /\ UNCHANGED <<req, kind>>
          /\ \/ pc' \in Unopened \cup {"read", "done"}
             \/ pc' = "send" /\ Path(req) # "catalog"
      BY <1>1 DEF ParseOptions, CheckInput, Confirm, OpenDevice, OpenFails, Unopened
    <2>. QED
      BY <2>1 DEF SessionInv, CleanupAttempted, Unopened
  <1>2. CASE Initialize \/ InitializeFails
    <2>1. /\ req' = req /\ Path(req) = "catalog" /\ pc' \in {"catalog", "finish", "done"}
          /\ pc' = "done" => kind' = "unknown"
      BY <1>2 DEF Initialize, InitializeFails, IInv, RequestInv
    <2>. QED
      BY <2>1 DEF SessionInv, CleanupAttempted, Unopened
  <1>3. CASE ReadCatalog \/ ReadCatalogFails \/ Allocate
    <2>1. pc \notin Unopened /\ UNCHANGED <<req, kind>>
      BY <1>3 DEF ReadCatalog, ReadCatalogFails, Allocate, Unopened
    <2>2. (\E code \in {"1", "2", "3", "4"} : Return(code)) \/ pc' \in {"read", "allocate"}
      BY <1>3 DEF ReadCatalog, ReadCatalogFails, Allocate, Select
    <2>. QED
      BY <2>1, <2>2, ReturnKeepsSession DEF SessionInv, CleanupAttempted, Unopened
  <1>4. CASE ReadBank \/ ReadBack
    <2>1. /\ pc \notin Unopened /\ UNCHANGED <<req, kind>>
          /\ pc' \in {"read", "read_back", "size", "backup", "store", "send", "compare"}
          /\ pc' = "send" => Path(req) # "catalog"
      BY <1>4 DEF ReadBank, ReadBack, Fetch, AfterRead, Unopened
    <2>. QED
      BY <2>1 DEF SessionInv, CleanupAttempted, Unopened
  <1>5. CASE ReadFails \/ CheckSize \/ SendFails \/ Compare \/ StoreDump
    <2>1. pc \notin Unopened /\ UNCHANGED <<req, kind>>
      BY <1>5 DEF ReadFails, CheckSize, SendFails, Compare, StoreDump, Unopened
    <2>2. (\E code \in {"0", "2", "4", "5", "6"} : Return(code))
            \/ pc' \in {"backup", "ready_before"}
      BY <1>5 DEF ReadFails, CheckSize, SendFails, Compare, StoreDump
    <2>. QED
      BY <2>1, <2>2, ReturnKeepsSession DEF SessionInv, CleanupAttempted, Unopened
  <1>6. CASE Backup
    <2>1. pc \notin Unopened /\ UNCHANGED <<req, kind>>
      BY <1>6 DEF Backup, Unopened
    <2>2. CASE Return("5")
      BY <2>1, <2>2, ReturnKeepsSession
    <2>3. CASE pc' = AfterBackup
      <3>1. pc' \in {"ready_before", "send"} /\ (Path(req) = "catalog" => pc' # "send")
        BY <2>3 DEF AfterBackup
      <3>. QED
        BY <2>1, <3>1 DEF SessionInv, CleanupAttempted, Unopened
    <2>. QED
      BY <1>6, <2>2, <2>3 DEF Backup
  <1>7. CASE ReadyBefore \/ ReadyAfter
    <2>1. pc \notin Unopened /\ UNCHANGED <<req, kind>>
      BY <1>7 DEF ReadyBefore, ReadyAfter, Unopened
    <2>2. Return("2") \/ (session' = "closed" /\ pc' \in {"send", "read_back"})
      BY <1>7 DEF ReadyBefore, ReadyAfter, Ready
    <2>. QED
      BY <2>1, <2>2, ReturnKeepsSession DEF SessionInv, CleanupAttempted, Unopened
  <1>8. CASE SendBank
    <2>1. /\ pc = "send" /\ UNCHANGED <<req, kind>>
          /\ pc' \in {"send", "ready_after", "read_back"}
          /\ session \in {"closed", "written"} => session' = "written"
      BY <1>8 DEF SendBank, AfterSend, PayloadTransfer
    <2>. QED
      BY <2>1 DEF SessionInv, CleanupAttempted, Unopened
  <1>9. CASE FinishSession
    <2>1. /\ pc = "finish" /\ pc' = "done" /\ UNCHANGED <<req, kind>>
          /\ session' \in {"closed", "close_failed"}
      BY <1>9 DEF FinishSession
    <2>. QED
      BY <2>1 DEF SessionInv, CleanupAttempted, Unopened
  <1>10. CASE UNCHANGED vars
    BY <1>10 DEF SessionInv, CleanupAttempted, vars
  <1>. QED
    BY <1>1, <1>2, <1>3, <1>4, <1>5, <1>6, <1>7, <1>8, <1>9, <1>10 DEF Next, Exited

LEMMA SessionInvariance == Spec => [](IInv /\ SessionInv)
  <1>1. Init => SessionInv
    BY DEF Init, SessionInv, CleanupAttempted, Unopened
  <1>. QED
    BY <1>1, InitIInv, NextKeepsIInv, NextKeepsSession, PTL DEF Spec

\* Every run that recognised its cartridge has attempted the readiness
\* transition before it exits, whatever failed.
THEOREM CleanupIsAttempted == Spec => []CleanupAttempted
  <1>1. SessionInv => CleanupAttempted
    BY DEF SessionInv
  <1>. QED
    BY SessionInvariance, <1>1, PTL

\* On the catalog path no payload is sent, and none is read back, except
\* across a completed readiness transition.
THEOREM PayloadsAreReady == Spec => PayloadAfterReadiness
  <1>. DEFINE A == /\ Path(req) = "catalog" /\ saves' # saves => session \in {"closed", "written"}
                   /\ Path(req) = "catalog" /\ pc # "read_back" /\ pc' = "read_back"
                          => session' = "closed"
  <1>1. SessionInv /\ [Next]_vars => [A]_vars
    <2>. SUFFICES ASSUME SessionInv, Next PROVE A
      OBVIOUS
    <2>1. saves' # saves => pc = "send"
      BY DEF Next, ParseOptions, CheckInput, Confirm, OpenDevice, OpenFails, Initialize,
         InitializeFails, ReadCatalog, ReadCatalogFails, Allocate, ReadBank, ReadFails,
         CheckSize, Backup, ReadyBefore, SendBank, SendFails, ReadyAfter, ReadBack,
         Compare, StoreDump, FinishSession, Exited, vars
    <2>2. pc # "read_back" /\ pc' = "read_back"
              => session' = "closed" \/ Path(req) # "catalog"
      <3>1. CASE ReadyAfter \/ ReadyBefore
        BY <3>1 DEF ReadyAfter, ReadyBefore, Ready, Return
      <3>2. CASE SendBank
        BY <3>2 DEF SendBank, AfterSend
      <3>3. CASE ReadBank \/ Backup
        BY <3>3 DEF ReadBank, Fetch, AfterRead, Backup, AfterBackup, Return
      <3>4. CASE \/ ParseOptions \/ CheckInput \/ Confirm \/ OpenDevice \/ OpenFails
                 \/ Initialize \/ InitializeFails \/ ReadCatalog \/ ReadCatalogFails
                 \/ Allocate
        BY <3>4 DEF ParseOptions, CheckInput, Confirm, OpenDevice, OpenFails,
           Initialize, InitializeFails, ReadCatalog, ReadCatalogFails, Allocate,
           Return, Select
      <3>5. CASE \/ ReadFails \/ CheckSize \/ SendFails \/ ReadBack \/ Compare
                 \/ StoreDump \/ FinishSession \/ Exited
        BY <3>5 DEF ReadFails, CheckSize, SendFails, ReadBack, Fetch, Compare, StoreDump,
           FinishSession, Exited, vars, Return
      <3>. QED
        BY <3>1, <3>2, <3>3, <3>4, <3>5 DEF Next
    <2>. QED
      BY <2>1, <2>2 DEF SessionInv
  <1>2. Spec => [][A]_vars
    BY SessionInvariance, <1>1, PTL DEF Spec
  <1>. QED
    BY <1>2 DEF PayloadAfterReadiness

-----------------------------------------------------------------------------
(* What a write leaves behind: the banks sent so far, in order. *)

\* The first j banks of the range were sent; the rest of the memory is as it
\* was before the run.
Sent(j) ==
    \A b \in Selectors :
        IF b \in first..first + j - 1
        THEN saves[b] \in {Payload(b - first), Torn}
        ELSE saves[b] = start[b]

BeforeSend == Planning \cup Reading \cup {"ready_before"}
AfterSending == {"ready_after", "read_back", "compare"}

OrderInv ==
    /\ start = [b \in Selectors |-> User(b)]
    /\ pc \in BeforeSend => Sent(0)
    /\ pc = "send" => Sent(k)
    /\ pc \in AfterSending => Sent(n)
    /\ \E j \in 0..n : Sent(j)

\* Sent only looks at the memory and the range.
LEMMA SentUnchanged ==
    ASSUME UNCHANGED <<req, first, saves, start>>, NEW j
    PROVE  Sent(j)' <=> Sent(j)
  BY DEF Sent, Payload

\* While nothing has been written the choice of the range does not matter.
LEMMA NothingSent ==
    ASSUME TypeOK, TypeOK', Sent(0), saves' = saves, start' = start
    PROVE  Sent(0)'
  <1>1. first \in Nat /\ first' \in Nat
    BY DEF TypeOK, Selectors
  <1>2. \A b \in Selectors : saves[b] = start[b]
    BY <1>1 DEF Sent
  <1>3. \A b : b \notin first'..first' + 0 - 1
    BY <1>1
  <1>. QED
    BY <1>2, <1>3 DEF Sent

\* Sending bank k, whatever it now holds, moves the frontier by one bank or
\* leaves it where it was.
LEMMA SendingExtends ==
    ASSUME IInv, pc = "send", NEW i, i = k, Sent(i),
           NEW content \in {saves[first + i], Payload(i), Torn},
           saves' = [saves EXCEPT ![first + i] = content],
           UNCHANGED <<req, first, n, start>>
    PROVE  /\ content \in {Payload(i), Torn} => Sent(i + 1)'
           /\ Sent(i)' \/ Sent(i + 1)'
           /\ i \in 0..n /\ i + 1 \in 0..n
  <1>1. /\ i \in 0..3 /\ i < n /\ n \in 1..4 /\ first \in SaveBankSelectors
        /\ saves \in [Selectors -> Content]
    BY DEF IInv, TypeOK, RangeInv, Writing
  <1>2. /\ first + i \in Selectors
        /\ saves'[first + i] = content
        /\ \A b \in Selectors : b # first + i => saves'[b] = saves[b]
    BY <1>1 DEF Selectors, SaveBankSelectors
  <1>3. ASSUME content \in {Payload(i), Torn}
        PROVE  Sent(i + 1)'
    <2>. SUFFICES ASSUME NEW b \in Selectors
                  PROVE  IF b \in first..first + (i + 1) - 1
                         THEN saves'[b] \in {Payload(b - first), Torn}
                         ELSE saves'[b] = start[b]
      BY DEF Sent, Payload
    <2>1. CASE b = first + i
      <3>1. b - first = i /\ b \in first..first + (i + 1) - 1
        BY <1>1, <2>1 DEF SaveBankSelectors
      <3>. QED
        BY <1>2, <1>3, <2>1, <3>1
    <2>2. CASE b # first + i
      <3>1. b \in first..first + (i + 1) - 1 <=> b \in first..first + i - 1
        BY <1>1, <2>2 DEF SaveBankSelectors, Selectors
      <3>2. saves'[b] = saves[b]
        BY <1>2, <2>2
      <3>. QED
        BY <3>1, <3>2 DEF Sent
    <2>. QED
      BY <2>1, <2>2
  <1>4. ASSUME content = saves[first + i]
        PROVE  Sent(i)'
    <2>1. saves' = saves
      BY <1>1, <1>4
    <2>. QED
      BY <2>1, SentUnchanged
  <1>. QED
    BY <1>1, <1>3, <1>4

\* A step that leaves memory and range alone and does not start or end a send.
LEMMA QuietKeepsOrder ==
    ASSUME OrderInv, UNCHANGED <<req, first, n, saves, start>>,
           \/ pc \in BeforeSend /\ pc' \in BeforeSend \cup Ended
           \/ pc \in BeforeSend /\ pc' = "send" /\ k' = 0
           \/ pc \in AfterSending /\ pc' \in AfterSending \cup Ended
           \/ pc \in Ended /\ pc' \in Ended
    PROVE  OrderInv'
  <1>1. \A j : Sent(j)' <=> Sent(j)
    BY SentUnchanged
  <1>2. \E j \in 0..n' : Sent(j)'
    <2>1. PICK j \in 0..n : Sent(j)
      BY DEF OrderInv
    <2>. QED
      BY <1>1, <2>1
  <1>3. /\ Sent(0)' <=> Sent(0)
        /\ Sent(n)' <=> Sent(n)
        /\ pc' = "send" => Sent(k)'
    <2>1. Sent(0)' <=> Sent(0)
      BY <1>1
    <2>2. Sent(n)' <=> Sent(n)
      BY SentUnchanged DEF Sent, Payload
    <2>3. ASSUME pc' = "send" PROVE Sent(k)'
      <3>1. Sent(0)' /\ k' = 0
        BY <2>1, <2>3 DEF OrderInv, BeforeSend, AfterSending, Ended, Planning, Reading
      <3>. QED
        BY <3>1 DEF Sent
    <2>. QED
      BY <2>1, <2>2, <2>3
  <1>. QED
    BY <1>2, <1>3 DEF OrderInv, BeforeSend, AfterSending, Ended, Planning, Reading

\* A run that leaves before or after the send.
LEMMA ReturnKeepsOrder ==
    ASSUME OrderInv, NEW code, Return(code), UNCHANGED <<req, range, saves, start>>,
           pc \in BeforeSend \cup AfterSending
    PROVE  OrderInv'
  <1>1. pc' \in Ended
    BY DEF Return, Ended
  <1>. QED
    BY <1>1, QuietKeepsOrder DEF range

\* Choosing a range before anything was written.
LEMMA RangeKeepsOrder ==
    ASSUME IInv, TypeOK', OrderInv, pc \in BeforeSend, UNCHANGED <<saves, start>>,
           \/ pc' \in BeforeSend
           \/ pc' = "send" /\ k' = 0
    PROVE  OrderInv'
  <1>1. Sent(0)'
    BY NothingSent DEF IInv, OrderInv
  <1>2. n' \in 0..4
    BY DEF TypeOK
  <1>3. pc' = "send" => Sent(k)'
    BY <1>1 DEF BeforeSend, Planning, Reading, Sent
  <1>. QED
    BY <1>1, <1>2, <1>3 DEF OrderInv, BeforeSend, AfterSending, Planning, Reading

LEMMA NextKeepsOrder ==
    ASSUME IInv, IInv', OrderInv, [Next]_vars
    PROVE  OrderInv'
  <1>1. CASE ParseOptions \/ CheckInput \/ Confirm \/ OpenFails \/ Initialize
             \/ InitializeFails \/ ReadCatalogFails
    <2>1. /\ UNCHANGED <<req, first, n, saves, start>> /\ pc \in BeforeSend
          /\ pc' \in BeforeSend \cup Ended
      BY <1>1 DEF ParseOptions, CheckInput, Confirm, OpenFails, Initialize,
         InitializeFails, ReadCatalogFails, Return, BeforeSend, Planning, Ended, range
    <2>. QED
      BY <2>1, QuietKeepsOrder
  <1>2. CASE OpenDevice
    <2>1. /\ UNCHANGED <<saves, start>> /\ pc \in BeforeSend /\ k' = 0
          /\ pc' \in BeforeSend \cup {"send"}
      BY <1>2 DEF OpenDevice, BeforeSend, Planning, Reading
    <2>. QED
      BY <2>1, RangeKeepsOrder DEF IInv
  <1>3. CASE ReadCatalog \/ Allocate
    <2>1. /\ UNCHANGED <<req, saves, start>> /\ pc \in BeforeSend
          /\ \/ \E code \in {"1", "3", "4"} : Return(code) /\ UNCHANGED range
             \/ pc' \in BeforeSend
      BY <1>3 DEF ReadCatalog, Allocate, Select, BeforeSend, Planning, Reading
    <2>. QED
      BY <2>1, ReturnKeepsOrder, RangeKeepsOrder DEF IInv
  <1>4. CASE ReadBank
    <2>1. /\ UNCHANGED <<req, first, n, saves, start>> /\ pc \in BeforeSend
          /\ pc' \in BeforeSend \/ (pc' = "send" /\ k' = 0)
      BY <1>4 DEF ReadBank, Fetch, AfterRead, BeforeSend, Reading, range
    <2>. QED
      BY <2>1, QuietKeepsOrder
  <1>5. CASE ReadFails \/ CheckSize \/ Compare \/ StoreDump
    <2>1. /\ UNCHANGED <<req, range, saves, start>>
          /\ pc \in BeforeSend \cup AfterSending
          /\ \/ \E code \in {"0", "2", "4", "5", "6"} : Return(code)
             \/ pc \in BeforeSend /\ pc' \in BeforeSend
      BY <1>5 DEF ReadFails, CheckSize, Compare, StoreDump, BeforeSend, AfterSending,
         Reading
    <2>. QED
      BY <2>1, ReturnKeepsOrder, QuietKeepsOrder DEF range
  <1>6. CASE Backup
    <2>1. /\ UNCHANGED <<req, range, saves, start, k>> /\ pc \in BeforeSend
          /\ \/ Return("5")
             \/ pc' \in BeforeSend \cup {"send"}
          /\ k = 0
      BY <1>6 DEF Backup, AfterBackup, BeforeSend, Reading, IInv, RangeInv
    <2>. QED
      BY <2>1, ReturnKeepsOrder, QuietKeepsOrder DEF range
  <1>7. CASE ReadyBefore \/ ReadyAfter
    <2>1. /\ UNCHANGED <<req, range, saves, start, k>>
          /\ k = 0
          /\ \/ Return("2") /\ pc \in BeforeSend \cup AfterSending
             \/ pc \in BeforeSend /\ pc' = "send"
             \/ pc \in AfterSending /\ pc' \in AfterSending
      BY <1>7 DEF ReadyBefore, ReadyAfter, Ready, BeforeSend, AfterSending, IInv, RangeInv
    <2>. QED
      BY <2>1, ReturnKeepsOrder, QuietKeepsOrder DEF range
  <1>8. CASE SendBank
    <2>. DEFINE i == k
    <2>1. /\ pc = "send" /\ Sent(i) /\ i < n /\ n \in 1..4 /\ i \in Nat
          /\ req.op = "write" => req.input = n
          /\ \E j \in 0..n : Sent(j)
      BY <1>8 DEF SendBank, OrderInv, IInv, TypeOK, RangeInv, Writing
    <2>2. PICK content \in {Payload(i), Torn} :
              saves' = [saves EXCEPT ![first + i] = content]
      BY <1>8 DEF SendBank
    <2>3. UNCHANGED <<req, first, n, start>>
      BY <1>8 DEF SendBank, range
    <2>4. PICK c \in Nat : c = k
      BY <2>1
    <2>5. Sent(c + 1)' /\ c + 1 \in 0..n
      <3>1. content \in {saves[first + c], Payload(c), Torn}
        BY <2>2, <2>4
      <3>2. Sent(c) /\ saves' = [saves EXCEPT ![first + c] = content]
        BY <2>1, <2>2, <2>4
      <3>3. content \in {Payload(c), Torn}
        BY <2>2, <2>4
      <3>. QED
        BY <2>1, <2>3, <2>4, <3>1, <3>2, <3>3, SendingExtends
    <2>6. \/ c + 1 < n /\ k' = c + 1 /\ pc' = "send"
          \/ ~(c + 1 < n) /\ pc' \in {"ready_after", "read_back"}
      BY <1>8, <2>1, <2>4 DEF SendBank, SendLength, AfterSend
    <2>7. pc' = "send" => Sent(k)'
      BY <2>5, <2>6 DEF Sent, Payload
    <2>8. pc' \in AfterSending => Sent(n)'
      <3>. SUFFICES ASSUME pc' \in AfterSending PROVE Sent(n)'
        OBVIOUS
      <3>1. c + 1 = n /\ n' = n
        BY <2>1, <2>3, <2>4, <2>6 DEF AfterSending
      <3>. QED
        BY <2>5, <3>1 DEF Sent, Payload
    <2>9. \E j \in 0..n' : Sent(j)'
      BY <2>3, <2>5
    <2>. QED
      BY <2>3, <2>6, <2>7, <2>8, <2>9
      DEF OrderInv, BeforeSend, AfterSending, Planning, Reading
  <1>9. CASE SendFails
    <2>1. /\ pc = "send" /\ Sent(k) /\ k \in Nat /\ n \in 1..4
          /\ pc' \in Ended /\ UNCHANGED <<req, first, n, start>>
      BY <1>9 DEF SendFails, OrderInv, IInv, TypeOK, RangeInv, Writing, Return, Ended, range
    <2>2. PICK c \in Nat : c = k
      BY <2>1
    <2>3. PICK content \in {saves[first + c], Payload(c), Torn} :
              saves' = [saves EXCEPT ![first + c] = content]
      BY <1>9, <2>2 DEF SendFails
    <2>4. Sent(c)
      BY <2>1, <2>2
    <2>5. /\ Sent(c)' \/ Sent(c + 1)'
          /\ c \in 0..n /\ c + 1 \in 0..n
      BY <2>1, <2>2, <2>3, <2>4, SendingExtends
    <2>6. \E j \in 0..n' : Sent(j)'
      BY <2>1, <2>5
    <2>. QED
      BY <2>1, <2>6 DEF OrderInv, BeforeSend, AfterSending, Planning, Reading, Ended
  <1>10. CASE ReadBack \/ FinishSession
    <2>1. /\ UNCHANGED <<req, first, n, saves, start>>
          /\ \/ pc \in AfterSending /\ pc' \in AfterSending
             \/ pc \in Ended /\ pc' \in Ended
      BY <1>10 DEF ReadBack, Fetch, FinishSession, AfterSending, Ended, range
    <2>. QED
      BY <2>1, QuietKeepsOrder
  <1>11. CASE UNCHANGED vars
    <2>1. UNCHANGED <<req, first, n, k, pc, saves, start>>
      BY <1>11 DEF vars, range
    <2>. QED
      BY <2>1 DEF OrderInv, Sent, Payload
  <1>. QED
    BY <1>1, <1>2, <1>3, <1>4, <1>5, <1>6, <1>7, <1>8, <1>9, <1>10, <1>11
    DEF Next, Exited

LEMMA InitOrder == Init => OrderInv
  <1>. SUFFICES ASSUME Init PROVE OrderInv
    OBVIOUS
  <1>1. Sent(0) /\ start = [b \in Selectors |-> User(b)]
    BY DEF Init, Sent, Selectors
  <1>. QED
    BY <1>1 DEF Init, OrderInv, BeforeSend, AfterSending, Planning

\* An ordered send leaves the memory the property describes; no payload is
\* ever what a user's bank held before.
LEMMA OrderedWrites == IInv /\ OrderInv => WritesInOrder
  <1>. SUFFICES ASSUME IInv, OrderInv PROVE WritesInOrder
    OBVIOUS
  <1>1. PICK j \in 0..n : Sent(j)
    BY DEF OrderInv
  <1>2. /\ first \in Selectors /\ n \in 0..4
        /\ n > 0 => first \in SaveBankSelectors
    BY DEF IInv, TypeOK, RangeInv
  <1>3. \A i \in 0..n - 1 :
            /\ first + i \in Selectors
            /\ i < j => saves[first + i] \in {Payload(i), Torn}
            /\ ~(i < j) => saves[first + i] = start[first + i]
    <2>. SUFFICES ASSUME NEW i \in 0..n - 1
                  PROVE  /\ first + i \in Selectors
                         /\ i < j => saves[first + i] \in {Payload(i), Torn}
                         /\ ~(i < j) => saves[first + i] = start[first + i]
      OBVIOUS
    <2>1. first + i \in Selectors /\ (first + i) - first = i
          /\ (first + i \in first..first + j - 1 <=> i < j)
      BY <1>1, <1>2 DEF Selectors, SaveBankSelectors
    <2>. QED
      BY <1>1, <2>1 DEF Sent
  <1>4. \A i \in 0..n - 1 : Payload(i) # start[first + i] /\ Torn # start[first + i]
    BY <1>3 DEF OrderInv, Payload, Torn, User
  <1>5. \A b \in Selectors : ~InRange(b) => saves[b] = start[b]
    BY <1>1, <1>2 DEF Sent, InRange, Selectors
  <1>. QED
    BY <1>1, <1>2, <1>3, <1>4, <1>5 DEF WritesInOrder

\* Memory outside the range is never written, and a write that fails leaves
\* a prefix of the range sent.
THEOREM WritesAreOrdered == Spec => []WritesInOrder
  <1>1. Spec => [](IInv /\ OrderInv)
    BY InitIInv, InitOrder, NextKeepsIInv, NextKeepsOrder, PTL DEF Spec
  <1>. QED
    BY <1>1, OrderedWrites, PTL

-----------------------------------------------------------------------------
(* Which runs may end with the code of a device failure. *)

HealthInv ==
    /\ ~faulted /\ pc = "send" => \A i \in 0..k - 1 : saves[first + i] = Payload(i)
    /\ ~faulted /\ pc \in AfterSending =>
           \A i \in 0..n - 1 : saves[first + i] = Payload(i)
    /\ pc = "read_back" => HoldsRange(buf, k, saves)
    /\ pc = "compare" => HoldsRange(buf, n, saves)
    /\ ~faulted /\ exit \in {"2", "6"} => Path(req) = "catalog" /\ card.kind # "ez3"

\* A step before the send, or one that ends the run for another reason.
LEMMA QuietKeepsHealth ==
    ASSUME HealthInv, UNCHANGED <<req, card>>,
           pc' \notin {"send"} \cup AfterSending,
           ~faulted' => (exit' \in {"2", "6"} => ~faulted /\ exit' = exit)
    PROVE  HealthInv'
  BY DEF HealthInv, AfterSending

\* A fault excuses every later exit code.
LEMMA FaultKeepsHealth ==
    ASSUME faulted' = TRUE, pc' \in Ended
    PROVE  HealthInv'
  BY DEF HealthInv, AfterSending, Ended

LEMMA NextKeepsHealth ==
    ASSUME IInv, IInv', HealthInv, [Next]_vars
    PROVE  HealthInv'
  <1>1. CASE ParseOptions \/ CheckInput \/ Confirm
    <2>1. /\ UNCHANGED <<req, card, faulted>>
          /\ pc' \in {"input", "confirm", "open", "done"} /\ exit' \in {exit, "1"}
      BY <1>1 DEF ParseOptions, CheckInput, Confirm
    <2>. QED
      BY <2>1, QuietKeepsHealth DEF AfterSending
  <1>2. CASE OpenDevice
    <2>1. /\ UNCHANGED <<req, card, faulted, exit>> /\ exit = "running"
          /\ pc' \in {"initialize", "send", "read"} /\ k' = 0
      BY <1>2 DEF OpenDevice, IInv, RequestInv, Ended
    <2>. QED
      BY <2>1 DEF HealthInv, AfterSending
  <1>3. CASE OpenFails \/ InitializeFails \/ ReadCatalogFails \/ ReadFails \/ SendFails
    <2>1. faulted' = TRUE
      BY <1>3 DEF OpenFails, InitializeFails, ReadCatalogFails, ReadFails, SendFails
    <2>2. pc' \in Ended
      BY <1>3 DEF OpenFails, InitializeFails, ReadCatalogFails, ReadFails, SendFails,
         Return, Ended
    <2>. QED
      BY <2>1, <2>2, FaultKeepsHealth
  <1>4. CASE Initialize
    <2>1. /\ req' = req /\ Path(req) = "catalog" /\ faulted' = faulted
          /\ pc' \in {"catalog", "finish", "done"} /\ exit = "running"
          /\ exit' = exit \/ (exit' = "2" /\ card'.kind # "ez3")
      BY <1>4 DEF Initialize, IInv, RequestInv, Ended
    <2>. QED
      BY <2>1 DEF HealthInv, AfterSending
  <1>5. CASE ReadCatalog \/ Allocate \/ ReadBank
    <2>1. /\ UNCHANGED <<req, card, faulted>>
          /\ exit' \in {exit, "1", "3", "4"}
          /\ pc' \in {"finish", "done", "allocate", "read", "size", "backup", "store"}
                \/ (pc' = "send" /\ k' = 0 /\ exit' = exit)
      BY <1>5 DEF ReadCatalog, Allocate, Return, Select, ReadBank, Fetch, AfterRead
    <2>. QED
      BY <2>1 DEF HealthInv, AfterSending
  <1>6. CASE CheckSize
    <2>1. /\ UNCHANGED <<req, card, faulted>> /\ exit' \in {exit, "4"}
          /\ pc' \in {"finish", "done", "backup", "ready_before"}
      BY <1>6 DEF CheckSize, Return
    <2>. QED
      BY <2>1, QuietKeepsHealth DEF AfterSending
  <1>7. CASE Backup
    <2>1. /\ UNCHANGED <<req, card, k>> /\ exit' \in {exit, "5"} /\ k = 0
          /\ pc' \in {"finish", "done", "ready_before", "send"}
          /\ faulted' = TRUE \/ faulted' = faulted
          /\ exit = "running"
      <3>1. faulted \in BOOLEAN /\ k = 0 /\ exit = "running"
        BY <1>7 DEF Backup, IInv, TypeOK, RequestInv, RangeInv, Ended
      <3>2. UNCHANGED <<req, card, k>>
        BY <1>7 DEF Backup
      <3>3. exit' \in {exit, "5"} /\ pc' \in {"finish", "done", "ready_before", "send"}
        BY <1>7 DEF Backup, Return, AfterBackup
      <3>4. faulted' = TRUE \/ faulted' = faulted
        <4>1. \/ faulted' = faulted
              \/ faulted' = TRUE
              \/ faulted' = (faulted \/ backup' = "partial")
          BY <1>7 DEF Backup
        <4>. QED
          BY <3>1, <4>1
      <3>. QED
        BY <3>1, <3>2, <3>3, <3>4
    <2>. QED
      BY <2>1 DEF HealthInv, AfterSending
  <1>8. CASE ReadyBefore
    <2>1. CASE Return("2") /\ faulted' = TRUE
      BY <2>1, FaultKeepsHealth DEF Return, Ended
    <2>2. CASE pc' = "send" /\ UNCHANGED <<exit, faulted>>
      <3>1. /\ UNCHANGED <<req, card, k>> /\ k = 0 /\ exit = "running"
        BY <1>8 DEF ReadyBefore, IInv, RequestInv, RangeInv, Ended
      <3>. QED
        BY <2>2, <3>1 DEF HealthInv, AfterSending
    <2>. QED
      BY <1>8, <2>1, <2>2 DEF ReadyBefore, Ready
  <1>9. CASE ReadyAfter
    <2>1. CASE Return("2") /\ faulted' = TRUE
      BY <2>1, FaultKeepsHealth DEF Return, Ended
    <2>2. CASE pc' = "read_back" /\ UNCHANGED <<exit, faulted>>
      <3>1. /\ UNCHANGED <<req, card, k, buf, saves, first, n>> /\ k = 0
            /\ exit = "running" /\ pc = "ready_after"
        BY <1>9 DEF ReadyAfter, IInv, RequestInv, RangeInv, Ended, range
      <3>2. HoldsRange(buf, k, saves)'
        BY <3>1 DEF HoldsRange
      <3>. QED
        BY <2>2, <3>1, <3>2 DEF HealthInv, AfterSending, Payload
    <2>. QED
      BY <1>9, <2>1, <2>2 DEF ReadyAfter, Ready
  <1>10. CASE SendBank
    <2>1. /\ pc = "send" /\ k \in 0..3 /\ k < n /\ n \in 1..4
          /\ first \in SaveBankSelectors /\ saves \in [Selectors -> Content]
          /\ req.op = "write" => req.input = n
          /\ UNCHANGED <<req, card, first, n, exit>> /\ exit = "running"
          /\ faulted \in BOOLEAN
      BY <1>10 DEF SendBank, IInv, TypeOK, RequestInv, RangeInv, Writing, Ended, range
    <2>2. PICK content \in {Payload(k), Torn} :
              /\ saves' = [saves EXCEPT ![first + k] = content]
              /\ faulted' = (faulted \/ content = Torn)
      BY <1>10 DEF SendBank
    <2>3. \/ k + 1 < n /\ k' = k + 1 /\ pc' = "send"
          \/ k + 1 = n /\ k' = 0 /\ pc' \in {"ready_after", "read_back"}
      BY <1>10, <2>1 DEF SendBank, SendLength, AfterSend
    <2>4. ~faulted' => \A i \in 0..(k + 1) - 1 : saves'[first + i] = Payload(i)
      <3>. SUFFICES ASSUME ~faulted', NEW i \in 0..(k + 1) - 1
                    PROVE  saves'[first + i] = Payload(i)
        OBVIOUS
      <3>1. ~faulted /\ content = Payload(k)
        BY <2>1, <2>2
      <3>2. first + i \in Selectors /\ first + k \in Selectors
        BY <2>1 DEF SaveBankSelectors, Selectors
      <3>3. CASE i = k
        BY <2>1, <2>2, <3>1, <3>2, <3>3
      <3>4. CASE i # k
        <4>1. i \in 0..k - 1 /\ first + i # first + k
          BY <2>1, <3>4 DEF SaveBankSelectors
        <4>2. saves'[first + i] = saves[first + i]
          BY <2>1, <2>2, <3>2, <4>1
        <4>. QED
          BY <2>1, <3>1, <4>1, <4>2 DEF HealthInv
      <3>. QED
        BY <3>3, <3>4
    <2>5. (\A i : Payload(i)' = Payload(i)) /\ exit' = "running"
      BY <2>1 DEF Payload
    <2>6. ~faulted' /\ pc' = "send" =>
              (\A i \in 0..k - 1 : saves[first + i] = Payload(i))'
      BY <2>1, <2>3, <2>4, <2>5
    <2>7. ~faulted' /\ pc' \in AfterSending =>
              (\A i \in 0..n - 1 : saves[first + i] = Payload(i))'
      BY <2>1, <2>3, <2>4, <2>5 DEF AfterSending
    <2>8. pc' = "read_back" => HoldsRange(buf, k, saves)'
      BY <2>1, <2>3 DEF HoldsRange
    <2>9. pc' # "compare" /\ exit' \notin {"2", "6"}
      BY <2>3, <2>5
    <2>. QED
      BY <2>6, <2>7, <2>8, <2>9 DEF HealthInv
  <1>11. CASE ReadBack
    <2>1. /\ pc = "read_back" /\ Fetch("compare") /\ TypeOK
          /\ UNCHANGED <<req, card, first, n, saves, exit, faulted>>
          /\ n > 0 /\ k < n /\ first \in SaveBankSelectors /\ exit = "running"
          /\ n \in 1..4 /\ k \in Nat /\ saves \in [Selectors -> Content]
          /\ pc' \in {"read_back", "compare"}
      BY <1>11 DEF ReadBack, Fetch, IInv, TypeOK, RequestInv, RangeInv, Writing, Ended,
         range
    <2>2. HoldsRange(buf, k, saves)
      BY <2>1 DEF HealthInv
    <2>3. HoldsRange(buf', k + 1, saves)
      BY <2>1, <2>2, FetchExtends
    <2>4. k + 1 < n => pc' = "read_back" /\ k' = k + 1
      BY <2>1 DEF Fetch
    <2>5. ~(k + 1 < n) => n = k + 1 /\ pc' = "compare"
      BY <2>1 DEF Fetch
    <2>6. pc' = "read_back" => HoldsRange(buf, k, saves)'
      BY <2>1, <2>3, <2>4, <2>5 DEF HoldsRange
    <2>7. pc' = "compare" => HoldsRange(buf, n, saves)'
      BY <2>1, <2>3, <2>4, <2>5 DEF HoldsRange
    <2>8. ~faulted' => (\A i \in 0..n - 1 : saves[first + i] = Payload(i))'
      BY <2>1 DEF HealthInv, AfterSending, Payload
    <2>. QED
      BY <2>1, <2>6, <2>7, <2>8 DEF HealthInv, AfterSending
  <1>12. CASE Compare
    <2>1. /\ pc = "compare" /\ pc' \in Ended /\ UNCHANGED <<req, card, faulted>>
          /\ exit' = IF Matches THEN "0" ELSE "6"
      BY <1>12 DEF Compare, Return, Ended
    <2>2. ~faulted => Matches
      BY <2>1 DEF HealthInv, AfterSending, HoldsRange, Matches
    <2>. QED
      BY <2>1, <2>2 DEF HealthInv, AfterSending, Ended
  <1>13. CASE StoreDump
    <2>1. /\ UNCHANGED <<req, card>> /\ exit' \in {"0", "5"} /\ pc' \in Ended
      BY <1>13 DEF StoreDump, Return, Ended
    <2>. QED
      BY <2>1 DEF HealthInv, AfterSending, Ended
  <1>14. CASE FinishSession
    <2>1. CASE faulted' = TRUE
      BY <1>14, <2>1, FaultKeepsHealth DEF FinishSession, Ended
    <2>2. CASE UNCHANGED <<exit, faulted>>
      BY <1>14, <2>2 DEF FinishSession, HealthInv, AfterSending
    <2>. QED
      BY <1>14, <2>1, <2>2 DEF FinishSession
  <1>15. CASE UNCHANGED vars
    BY <1>15 DEF vars, range, HealthInv, HoldsRange, Payload
  <1>. QED
    BY <1>1, <1>2, <1>3, <1>4, <1>5, <1>6, <1>7, <1>8, <1>9, <1>10, <1>11, <1>12,
       <1>13, <1>14, <1>15
    DEF Next, Exited

\* The codes of a device or verification failure mean that something
\* misbehaved, or that the cartridge is not an EZ3 card.
THEOREM FailuresAreReal == Spec => []FaultCodesNeedFault
  <1>1. Init => HealthInv
    BY DEF Init, HealthInv, AfterSending
  <1>2. Spec => [](IInv /\ HealthInv)
    BY <1>1, InitIInv, NextKeepsIInv, NextKeepsHealth, PTL DEF Spec
  <1>3. HealthInv => FaultCodesNeedFault
    BY DEF HealthInv, FaultCodesNeedFault
  <1>. QED
    BY <1>2, <1>3, PTL

-----------------------------------------------------------------------------
(* The catalog allocation: which banks belong to which ROM. *)

Less == {ss \in Nat \X Nat : ss[1] < ss[2]}

\* A nonempty set of numbers has a least one.
LEMMA LeastElement ==
    ASSUME NEW S \in SUBSET Nat, S # {}
    PROVE  \E x \in S : \A y \in S : x =< y
  <1>1. IsWellFoundedOn(Less, Nat)
    <2>1. Less = OpToRel(<, Nat)
      BY DEF Less, OpToRel
    <2>. QED
      BY <2>1, NatLessThanWellFounded
  <1>2. PICK x \in S : \A y \in S : <<y, x>> \notin Less
    BY <1>1, WFMin
  <1>3. \A y \in S : x =< y
    <2>. TAKE y \in S
    <2>1. y \in Nat /\ x \in Nat
      OBVIOUS
    <2>2. y < x => <<y, x>> \in Less
      BY <2>1 DEF Less
    <2>. QED
      BY <1>2, <2>1, <2>2
  <1>. QED
    BY <1>3

LEMMA WidthType ==
    ASSUME NEW m
    PROVE  /\ Width(m) \in {1, 2, 4}
           /\ SaveBankCount(m) # 0 => Width(m) = SaveBankCount(m)
           /\ SupportedSaveSize(m) =< Width(m)
  BY DEF Width, SaveBankCount, SupportedSaveSize

\* The recursion of FirstBanks has a solution for every list of markers.
LEMMA FirstBanksRule ==
    ASSUME NEW ms \in Seq(Markers)
    PROVE  \A i \in 1..Len(ms) :
               FirstBanks(ms)[i] = IF i = 1 THEN 0
                                   ELSE FirstBanks(ms)[i - 1] + Width(ms[i - 1])
  <1>. DEFINE Solves(f, l) ==
                  f = [i \in 1..l |-> IF i = 1 THEN 0
                                      ELSE f[i - 1] + Width(ms[i - 1])]
              Unsolved == {l \in Nat : ~\E f : Solves(f, l)}
  <1>1. Unsolved = {}
    <2>. SUFFICES ASSUME Unsolved # {} PROVE FALSE
      OBVIOUS
    <2>1. PICK l \in Unsolved : \A m \in Unsolved : l =< m
      BY LeastElement
    <2>2. l \in Nat /\ ~\E f : Solves(f, l)
      BY <2>1
    <2>3. l # 0
      <3>. DEFINE e == [i \in 1..0 |-> 0]
      <3>1. Solves(e, 0)
        OBVIOUS
      <3>2. \E f : Solves(f, 0)
        BY <3>1
      <3>. HIDE DEF Solves
      <3>. QED
        BY <2>2, <3>2
    <2>4. l - 1 \in Nat
      BY <2>2, <2>3
    <2>5. l - 1 \notin Unsolved
      <3>. HIDE DEF Unsolved
      <3>. QED
        BY <2>1, <2>2, <2>4
    <2>6. PICK f : Solves(f, l - 1)
      BY <2>4, <2>5
    <2>. DEFINE g == [i \in 1..l |-> IF i = 1 THEN 0
                                     ELSE f[i - 1] + Width(ms[i - 1])]
    <2>7. \A i \in 1..(l - 1) : f[i] = IF i = 1 THEN 0 ELSE f[i - 1] + Width(ms[i - 1])
      BY <2>6
    <2>8. \A i \in 1..(l - 1) : g[i] = f[i]
      BY <2>2, <2>7
    <2>9. \A i \in 1..l : i # 1 => i - 1 \in 1..(l - 1)
      BY <2>2
    <2>10. g = [i \in 1..l |-> IF i = 1 THEN 0 ELSE g[i - 1] + Width(ms[i - 1])]
      <3>. HIDE DEF g
      <3>1. \A i \in 1..l : i # 1 => g[i - 1] = f[i - 1]
        BY <2>8, <2>9
      <3>2. g = [i \in 1..l |-> IF i = 1 THEN 0 ELSE f[i - 1] + Width(ms[i - 1])]
        BY DEF g
      <3>3. \A i \in 1..l : (IF i = 1 THEN 0 ELSE f[i - 1] + Width(ms[i - 1]))
                            = (IF i = 1 THEN 0 ELSE g[i - 1] + Width(ms[i - 1]))
        BY <3>1
      <3>. QED
        BY <3>2, <3>3
    <2>. QED
      BY <2>2, <2>10
  <1>2. DOMAIN ms = 1..Len(ms) /\ Len(ms) \in Nat
    OBVIOUS
  <1>3. PICK f : Solves(f, Len(ms))
    BY <1>1, <1>2
  <1>4. FirstBanks(ms) =
            CHOOSE h : h = [i \in DOMAIN ms |-> IF i = 1 THEN 0
                                                ELSE h[i - 1] + Width(ms[i - 1])]
    BY DEF FirstBanks
  <1>5. Solves(FirstBanks(ms), Len(ms))
    BY <1>2, <1>3, <1>4
  <1>. HIDE DEF Unsolved
  <1>. QED
    BY <1>5

LEMMA FirstBanksType ==
    ASSUME NEW ms \in Seq(Markers), NEW i \in 1..Len(ms)
    PROVE  FirstBanks(ms)[i] \in Nat
  <1>. DEFINE Wrong == {j \in 1..Len(ms) : FirstBanks(ms)[j] \notin Nat}
  <1>1. Wrong = {}
    <2>. SUFFICES ASSUME Wrong # {} PROVE FALSE
      OBVIOUS
    <2>1. Wrong \in SUBSET Nat
      OBVIOUS
    <2>2. PICK j \in Wrong : \A m \in Wrong : j =< m
      BY <2>1, LeastElement
    <2>3. j \in 1..Len(ms) /\ FirstBanks(ms)[j] \notin Nat
      OBVIOUS
    <2>4. j # 1
      BY <2>3, FirstBanksRule
    <2>5. j - 1 \in 1..Len(ms) /\ j - 1 \notin Wrong
      BY <2>2, <2>3, <2>4
    <2>6. FirstBanks(ms)[j - 1] \in Nat
      BY <2>5
    <2>7. Width(ms[j - 1]) \in Nat
      BY WidthType
    <2>. QED
      BY <2>3, <2>4, <2>6, <2>7, FirstBanksRule
  <1>. QED
    BY <1>1

\* The saves of two ROMs do not meet.
LEMMA SavesApart ==
    ASSUME NEW ms \in Seq(Markers), NEW i \in 1..Len(ms), NEW j \in 1..Len(ms), i < j
    PROVE  FirstBanks(ms)[i] + Width(ms[i]) =< FirstBanks(ms)[j]
  <1>. DEFINE End == FirstBanks(ms)[i] + Width(ms[i])
              Wrong == {m \in 1..Len(ms) : i < m /\ ~(End =< FirstBanks(ms)[m])}
  <1>1. Wrong = {}
    <2>. SUFFICES ASSUME Wrong # {} PROVE FALSE
      OBVIOUS
    <2>1. Wrong \in SUBSET Nat
      OBVIOUS
    <2>2. PICK m \in Wrong : \A l \in Wrong : m =< l
      BY <2>1, LeastElement
    <2>3. m \in 1..Len(ms) /\ i < m /\ ~(End =< FirstBanks(ms)[m])
      OBVIOUS
    <2>4. FirstBanks(ms)[m] = FirstBanks(ms)[m - 1] + Width(ms[m - 1])
      BY <2>3, FirstBanksRule
    <2>5. /\ FirstBanks(ms)[i] \in Nat /\ FirstBanks(ms)[m] \in Nat
          /\ m - 1 \in 1..Len(ms) /\ FirstBanks(ms)[m - 1] \in Nat
          /\ Width(ms[m - 1]) \in Nat /\ Width(ms[i]) \in Nat
      <3>1. m - 1 \in 1..Len(ms)
        BY <2>3
      <3>2. /\ FirstBanks(ms)[i] \in Nat /\ FirstBanks(ms)[m] \in Nat
            /\ FirstBanks(ms)[m - 1] \in Nat
        BY <2>3, <3>1, FirstBanksType
      <3>3. Width(ms[m - 1]) \in Nat /\ Width(ms[i]) \in Nat
        BY WidthType
      <3>. QED
        BY <3>1, <3>2, <3>3
    <2>6. m - 1 # i
      BY <2>3, <2>4, <2>5
    <2>7. m - 1 \notin Wrong
      BY <2>2, <2>3
    <2>8. End =< FirstBanks(ms)[m - 1]
      BY <2>3, <2>5, <2>6, <2>7
    <2>. QED
      BY <2>3, <2>4, <2>5, <2>8
  <1>. QED
    BY <1>1

\* While the allocation runs, its running bank is the first bank of the ROM it
\* has reached; a range chosen by it lies in the banks of the selected ROM.
AllocationInv ==
    Path(req) = "catalog" /\ req.bank = NoBank =>
        /\ pc = "allocate" =>
            /\ rom \in 1..Selected /\ Selected =< Len(card.markers)
            /\ bank = FirstBanks(card.markers)[rom]
        /\ n > 0 =>
            /\ Selected \in 1..Len(card.markers)
            /\ first = FirstBanks(card.markers)[Selected]
            /\ n =< Width(Marker(Selected))

LEMMA MarkerList ==
    ASSUME TypeOK
    PROVE  card.markers \in Seq(Markers) /\ Len(card.markers) \in Nat
  <1>1. CASE card = Unseen
    <2>1. card.markers = <<>>
      BY <1>1 DEF Unseen
    <2>. QED
      BY <2>1
  <1>2. CASE card \in Cards
    <2>1. card.markers \in Seq(Markers)
      BY <1>2, ToolAssumption
    <2>. QED
      BY <2>1
  <1>. QED
    BY <1>1, <1>2 DEF TypeOK

LEMMA SelectedType ==
    ASSUME TypeOK
    PROVE  Selected \in 1..3
  BY RequestTypes, ToolAssumption DEF TypeOK, Selected

LEMMA NextKeepsAllocation ==
    ASSUME IInv, IInv', AllocationInv, [Next]_vars
    PROVE  AllocationInv'
  <1>. DEFINE F == FirstBanks(card.markers)
  <1>1. CASE \/ ParseOptions \/ CheckInput \/ Confirm \/ OpenFails \/ Initialize
             \/ InitializeFails \/ ReadCatalogFails
    <2>1. pc \in Planning /\ UNCHANGED <<n, req>> /\ pc' # "allocate"
      BY <1>1 DEF ParseOptions, CheckInput, Confirm, OpenFails, Initialize,
         InitializeFails, ReadCatalogFails, Planning, Return, range
    <2>. QED
      BY <2>1 DEF AllocationInv, IInv, RangeInv
  <1>2. CASE OpenDevice
    <2>1. pc \in Planning /\ UNCHANGED req /\ pc' # "allocate"
      BY <1>2 DEF OpenDevice, Planning
    <2>2. Path(req) = "catalog" => n' = n
      BY <1>2 DEF OpenDevice, range
    <2>. QED
      BY <2>1, <2>2 DEF AllocationInv, IInv, RangeInv
  <1>3. CASE ReadCatalog
    <2>1. UNCHANGED <<req, card>> /\ n = 0
      BY <1>3 DEF ReadCatalog, IInv, RangeInv, Planning
    <2>2. CASE UNCHANGED range /\ pc' # "allocate"
      BY <2>1, <2>2 DEF AllocationInv, range
    <2>3. CASE req.bank # NoBank
      BY <2>1, <2>3 DEF AllocationInv
    <2>4. CASE /\ pc' = "allocate" /\ rom' = 1 /\ bank' = 0 /\ UNCHANGED range
               /\ Selected =< Len(card.markers)
      <3>1. Selected \in 1..3 /\ Selected' = Selected /\ Len(card.markers) \in Nat
        BY <2>1, SelectedType, MarkerList DEF IInv, Selected
      <3>2. F[1] = 0
        BY <2>4, <3>1, MarkerList, FirstBanksRule DEF IInv
      <3>. QED
        BY <2>1, <2>4, <3>1, <3>2 DEF AllocationInv, range
    <2>. QED
      BY <1>3, <2>2, <2>3, <2>4 DEF ReadCatalog, Return
  <1>4. CASE Allocate
    <2>1. UNCHANGED <<req, card>> /\ n = 0 /\ pc = "allocate" /\ Path(req) = "catalog"
      BY <1>4 DEF Allocate, IInv, RangeInv, RequestInv, Planning
    <2>2. CASE UNCHANGED range /\ pc' # "allocate"
      BY <2>1, <2>2 DEF AllocationInv, range
    <2>3. CASE req.bank # NoBank
      BY <2>1, <2>3 DEF AllocationInv
    <2>4. CASE req.bank = NoBank /\ ~(UNCHANGED range /\ pc' # "allocate")
      <3>1. /\ rom \in 1..Selected /\ Selected =< Len(card.markers)
            /\ bank = F[rom] /\ Selected \in 1..3 /\ Selected' = Selected
            /\ Len(card.markers) \in Nat /\ Selected \in 1..Len(card.markers)
        BY <2>1, <2>4, SelectedType, MarkerList DEF AllocationInv, IInv, Selected
      <3>2. Width(Marker(rom)) = SaveBankCount(Marker(rom))
        BY <1>4, <2>4, WidthType DEF Allocate, Return
      <3>3. CASE rom = Selected
        <4>1. pc' = "read" /\ first' = bank /\ n' = SupportedSaveSize(Marker(Selected))
          BY <1>4, <2>4, <3>3 DEF Allocate, Select, Return
        <4>2. Marker(Selected)' = Marker(Selected)
          BY <2>1, <3>1 DEF Marker
        <4>3. n' =< Width(Marker(Selected)')
          BY <4>1, <4>2, WidthType
        <4>. QED
          BY <2>1, <3>1, <3>3, <4>1, <4>3 DEF AllocationInv
      <3>4. CASE rom # Selected
        <4>1. /\ pc' = "allocate" /\ rom' = rom + 1 /\ UNCHANGED range
              /\ bank' = bank + Width(Marker(rom))
          BY <1>4, <2>4, <3>2, <3>4 DEF Allocate, Return
        <4>2. rom + 1 \in 1..Selected /\ rom + 1 \in 1..Len(card.markers)
          BY <3>1, <3>4
        <4>3. F[rom + 1] = F[rom] + Width(Marker(rom))
          <5>1. card.markers \in Seq(Markers)
            BY MarkerList DEF IInv
          <5>2. rom + 1 # 1 /\ (rom + 1) - 1 = rom
            BY <3>1
          <5>. QED
            BY <4>2, <5>1, <5>2, FirstBanksRule DEF Marker
        <4>. QED
          BY <2>1, <3>1, <4>1, <4>2, <4>3 DEF AllocationInv, range
      <3>. QED
        BY <3>3, <3>4
    <2>. QED
      BY <2>2, <2>3, <2>4
  <1>5. CASE \/ ReadBank \/ ReadFails \/ CheckSize \/ Backup \/ ReadyBefore
             \/ SendBank \/ SendFails \/ ReadyAfter \/ ReadBack \/ Compare
             \/ StoreDump \/ FinishSession
    <2>1. UNCHANGED <<req, card, first, n>>
      BY <1>5 DEF ReadBank, ReadFails, CheckSize, Backup, ReadyBefore, SendBank,
         SendFails, ReadyAfter, ReadBack, Compare, StoreDump, FinishSession, range
    <2>2. pc' # "allocate"
      <3>1. CASE ReadBank \/ ReadBack
        BY <3>1 DEF ReadBank, ReadBack, Fetch, AfterRead
      <3>2. CASE ReadFails \/ CheckSize \/ Compare \/ StoreDump \/ FinishSession
        BY <3>2 DEF ReadFails, CheckSize, Compare, StoreDump, FinishSession, Return
      <3>3. CASE Backup \/ SendBank \/ SendFails
        BY <3>3 DEF Backup, AfterBackup, SendBank, AfterSend, SendFails, Return
      <3>4. CASE ReadyBefore \/ ReadyAfter
        BY <3>4 DEF ReadyBefore, ReadyAfter, Ready, Return
      <3>. QED
        BY <1>5, <3>1, <3>2, <3>3, <3>4
    <2>. QED
      BY <2>1, <2>2 DEF AllocationInv, Selected, Marker
  <1>6. CASE UNCHANGED vars
    BY <1>6 DEF vars, loop, range, AllocationInv, Selected, Marker
  <1>. QED
    BY <1>1, <1>2, <1>3, <1>4, <1>5, <1>6 DEF Next, Exited

\* A range inside one ROM's banks leaves the banks of every other ROM alone.
LEMMA RangeIsOwn ==
    ASSUME IInv, WritesInOrder, AllocationInv
    PROVE  NeighbourSavesKept
  <1>. SUFFICES ASSUME Path(req) = "catalog", req.bank = NoBank,
                       NEW r \in 1..Len(card.markers),
                       NEW b \in BanksOf(r) \cap Selectors, r # Selected
                PROVE  ~InRange(b)
    BY DEF NeighbourSavesKept, WritesInOrder
  <1>. DEFINE F == FirstBanks(card.markers)
  <1>1. n \in Nat /\ first \in Nat /\ b \in Nat /\ card.markers \in Seq(Markers)
    BY MarkerList DEF IInv, TypeOK, Selectors
  <1>2. CASE n = 0
    BY <1>1, <1>2 DEF InRange
  <1>3. CASE n > 0
    <2>. DEFINE s == Selected
    <2>1. /\ s \in 1..Len(card.markers) /\ first = F[s]
          /\ n =< Width(card.markers[s])
      BY <1>3 DEF AllocationInv, Marker
    <2>2. F[r] =< b /\ b =< F[r] + Width(card.markers[r]) - 1
      BY <1>1, FirstBanksType, WidthType DEF BanksOf, Marker
    <2>3. /\ F[s] \in Nat /\ F[r] \in Nat
          /\ Width(card.markers[s]) \in Nat /\ Width(card.markers[r]) \in Nat
      BY <1>1, <2>1, FirstBanksType, WidthType
    <2>. HIDE DEF s, F
    <2>4. CASE r < s
      <3>1. F[r] + Width(card.markers[r]) =< F[s]
        BY <1>1, <2>1, <2>4, SavesApart DEF F
      <3>. QED
        BY <1>1, <2>1, <2>2, <2>3, <3>1 DEF InRange
    <2>5. CASE s < r
      <3>1. F[s] + Width(card.markers[s]) =< F[r]
        BY <1>1, <2>1, <2>5, SavesApart DEF F
      <3>. QED
        BY <1>1, <2>1, <2>2, <2>3, <3>1 DEF InRange
    <2>. QED
      BY <2>1, <2>4, <2>5 DEF s
  <1>. QED
    BY <1>1, <1>2, <1>3

\* Without --save-bank a write never touches the save of another ROM of the
\* card, for every list of markers.
THEOREM NeighboursAreKept == Spec => []NeighbourSavesKept
  <1>1. Init => AllocationInv
    BY DEF Init, AllocationInv
  <1>2. Spec => [](IInv /\ AllocationInv)
    BY <1>1, InitIInv, NextKeepsIInv, NextKeepsAllocation, PTL DEF Spec
  <1>. QED
    BY <1>2, WritesAreOrdered, RangeIsOwn, PTL

-----------------------------------------------------------------------------
(* No run goes round in circles. *)

\* The calls of a run, in the order main and the workflows make them.
Stage(p) ==
    CASE p = "parse" -> 1 [] p = "input" -> 2 [] p = "confirm" -> 3 [] p = "open" -> 4
      [] p = "initialize" -> 5 [] p = "catalog" -> 6 [] p = "allocate" -> 7
      [] p = "read" -> 8 [] p = "size" -> 9 [] p = "backup" -> 10 [] p = "store" -> 11
      [] p = "ready_before" -> 12 [] p = "send" -> 13 [] p = "ready_after" -> 14
      [] p = "read_back" -> 15 [] p = "compare" -> 16 [] p = "finish" -> 17
      [] OTHER -> 18

LEMMA Stages ==
    /\ Stage("parse") = 1 /\ Stage("input") = 2 /\ Stage("confirm") = 3
    /\ Stage("open") = 4 /\ Stage("initialize") = 5 /\ Stage("catalog") = 6
    /\ Stage("allocate") = 7 /\ Stage("read") = 8 /\ Stage("size") = 9
    /\ Stage("backup") = 10 /\ Stage("store") = 11 /\ Stage("ready_before") = 12
    /\ Stage("send") = 13 /\ Stage("ready_after") = 14 /\ Stage("read_back") = 15
    /\ Stage("compare") = 16 /\ Stage("finish") = 17 /\ Stage("done") = 18
  BY DEF Stage

\* A step enters a later call, places the next save of the catalog in the
\* banks, or accesses the next bank of the range.
Advances ==
    \/ Stage(pc') > Stage(pc)
    \/ Stage(pc') = Stage(pc) /\ bank' > bank
    \/ Stage(pc') = Stage(pc) /\ bank' = bank /\ k' > k

LEMMA ReturnAdvances ==
    ASSUME NEW code, Return(code),
           pc \in {"catalog", "allocate", "read", "size", "backup", "store",
                   "ready_before", "send", "ready_after", "read_back", "compare"}
    PROVE  Advances
  <1>1. pc' \in {"finish", "done"}
    BY DEF Return
  <1>. QED
    BY <1>1, Stages DEF Advances

\* Every step of a run that has not ended advances it.  With TypeOK, which
\* bounds both cursors, this is what AlwaysReturns rests on: no failure and
\* no catalog sends the tool back to a call it has made.
THEOREM RunsAdvance == Spec => [][pc # "done" => Advances]_vars
  <1>1. IInv /\ [Next]_vars => [pc # "done" => Advances]_vars
    <2>. SUFFICES ASSUME IInv, Next, pc # "done" PROVE Advances
      OBVIOUS
    <2>1. k \in Nat /\ bank \in Nat
      BY DEF IInv, TypeOK
    <2>2. CASE ParseOptions \/ CheckInput \/ Confirm \/ OpenDevice \/ OpenFails
      BY <2>2, Stages DEF Advances, ParseOptions, CheckInput, Confirm, OpenDevice,
         OpenFails
    <2>3. CASE Initialize \/ InitializeFails
      BY <2>3, Stages DEF Advances, Initialize, InitializeFails
    <2>4. CASE ReadCatalog \/ ReadCatalogFails
      <3>1. pc = "catalog"
              /\ (pc' \in {"read", "allocate"} \/ \E code : Return(code))
        BY <2>4 DEF ReadCatalog, ReadCatalogFails, Select
      <3>. QED
        BY <3>1, Stages, ReturnAdvances DEF Advances
    <2>5. CASE Allocate
      <3>1. pc = "allocate"
        BY <2>5 DEF Allocate
      <3>2. CASE pc' = "read" \/ \E code : Return(code)
        BY <3>1, <3>2, Stages, ReturnAdvances DEF Advances
      <3>3. CASE /\ SaveBankCount(Marker(rom)) # 0
                 /\ bank' = bank + SaveBankCount(Marker(rom)) /\ pc' = pc
        BY <2>1, <3>3, BankCounts DEF Advances
      <3>. QED
        BY <2>5, <3>2, <3>3 DEF Allocate, Select
    <2>6. CASE ReadBank \/ ReadBack \/ SendBank
      <3>1. /\ pc \in {"read", "read_back", "send"} /\ bank' = bank
            /\ \/ k' = k + 1 /\ pc' = pc
               \/ /\ pc = "read"
                  /\ pc' \in {"size", "backup", "store", "send"}
               \/ pc = "read_back" /\ pc' = "compare"
               \/ pc = "send" /\ pc' \in {"ready_after", "read_back"}
        BY <2>6 DEF ReadBank, ReadBack, SendBank, Fetch, AfterRead, AfterSend, loop
      <3>. QED
        BY <2>1, <3>1, Stages DEF Advances
    <2>7. CASE ReadFails \/ SendFails \/ CheckSize \/ Compare \/ StoreDump
      <3>1. /\ pc \in {"read", "read_back", "send", "size", "compare", "store"}
            /\ \/ \E code : Return(code)
               \/ pc = "size" /\ pc' \in {"backup", "ready_before"}
        BY <2>7 DEF ReadFails, SendFails, CheckSize, Compare, StoreDump
      <3>. QED
        BY <3>1, Stages, ReturnAdvances DEF Advances
    <2>8. CASE Backup \/ ReadyBefore \/ ReadyAfter
      <3>1. \/ /\ pc \in {"backup", "ready_before", "ready_after"}
               /\ \E code : Return(code)
            \/ pc = "backup" /\ pc' \in {"ready_before", "send"}
            \/ pc = "ready_before" /\ pc' = "send"
            \/ pc = "ready_after" /\ pc' = "read_back"
        BY <2>8 DEF Backup, AfterBackup, ReadyBefore, ReadyAfter, Ready
      <3>. QED
        BY <3>1, Stages, ReturnAdvances DEF Advances
    <2>9. CASE FinishSession
      BY <2>9, Stages DEF Advances, FinishSession
    <2>. QED
      BY <2>2, <2>3, <2>4, <2>5, <2>6, <2>7, <2>8, <2>9 DEF Next, Exited
  <1>. QED
    BY <1>1, Invariance, PTL DEF Spec
=============================================================================

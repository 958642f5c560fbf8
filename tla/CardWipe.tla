------------------------------ MODULE CardWipe ------------------------------
(***************************************************************************)
(* Runs of the card wipe tool, one after the other, against a bridge that  *)
(* outlives them: the preflight, the erase of four windows, the clear of   *)
(* the save memory, the cleanup and the two blank reads, as the list of    *)
(* commands CardWipeWorkflow::execute sends, each followed by one IN.      *)
(*                                                                         *)
(* A command can be lost, answered late or never, refused, or be the last  *)
(* one before the process is killed.  The answer nobody read stays on the  *)
(* bridge and meets the next run's IN, unless the bridge is replugged.     *)
(***************************************************************************)
EXTENDS FlashGeometry, BridgeLink

CONSTANTS
    ReadinessAttempts,  \* readiness_attempts, 5 in the source
    MaxWarm,            \* bound: 00 answers of a card after the bridge is plugged in;
                        \* MaxWarm stands for an empty slot, which never answers 01
    MaxFaults           \* bound: faults of the link, the card or the process

ASSUME WipeAssumption ==
    /\ ReadinessAttempts \in Nat \ {0}
    /\ MaxWarm \in Nat \ {0}
    /\ MaxFaults \in Nat \ {0}

VARIABLES
    pc,      \* whether a wipe is running
    i,       \* the command of the script it is at
    polls,   \* failed readiness attempts so far
    result,  \* of the latest run
    q,       \* bridge: packets that wait for an IN
    setup,   \* bridge: 0x99 was executed since the last 0x97
    warm,    \* bridge: 00 answers still to come from the card
    win,     \* card: flash window of erase commands
    bank,    \* card: selected save bank
    flash,   \* card: the content of each flash unit
    saves,   \* card: the content of each save bank
    shook,   \* preflight commands the bridge executed for this run
    weak,    \* units that stayed old although the bridge reported status 00
    faults   \* number of faults so far

host == <<pc, i, polls, result>>
card == <<setup, warm, win, bank, flash, saves, shook, weak>>
vars == <<host, q, card, faults>>

Banks == 0..3

-----------------------------------------------------------------------------
(* The script of CardWipeWorkflow::execute *)

\* Mutants: the preflight of 0.7.12, which only polled, and one without 0x99.
PreflightPollOnly == <<Poll, Setup>>
PreflightNoSetup == <<Reset, Poll>>

Preflight == <<Reset, Poll, Setup>>

\* FlashWindowSelector::select and finishOperation
SelectWindow(w) ==
    <<Word, Word, WordTo("window", w), Word, Word, Word, Word, Word,
      Byte(0), Byte(0), Byte(1)>>
FinishOperation == <<Word, Byte(1), Byte(0), Byte(0)>>

\* The erase addresses, in ascending order, of a window with its boot sectors
\* at the bottom and of one with them at the top.
BootSectors == BlockLen \div SectorLen
WholeBlocks == WindowLen \div BlockLen - 1
BottomBootSectorAddresses ==
    [k \in 1..(BootSectors + WholeBlocks) |->
        IF k =< BootSectors THEN (k - 1) * SectorLen
        ELSE (k - BootSectors) * BlockLen]
TopBootSectorAddresses ==
    [k \in 1..(WholeBlocks + BootSectors) |->
        IF k =< WholeBlocks THEN (k - 1) * BlockLen
        ELSE WholeBlocks * BlockLen + (k - WholeBlocks - 1) * SectorLen]

\* Mutant: one sector map for all windows.
SectorAddressesOneMap(w) == BottomBootSectorAddresses

SectorAddresses(w) ==
    IF w \in {0, 2} THEN BottomBootSectorAddresses ELSE TopBootSectorAddresses

EraseBank(w) ==
    SelectWindow(w)
    \o [k \in DOMAIN SectorAddresses(w) |-> Erase(SectorAddresses(w)[k])]
    \o FinishOperation

\* SaveBankAccess::select and the payload of one bank, for all four banks.
ClearBank(b) ==
    <<Word, Word, Word, WordTo("bank", b), Word, Word, Word, Word, Payload>>
ClearAll == ClearBank(0) \o ClearBank(1) \o ClearBank(2) \o ClearBank(3)

FinalCleanup == <<Word, Word, Word, Word>>
VerifyBlank == <<Read(172), Read(32)>>

Script ==
    Preflight
    \o EraseBank(0) \o EraseBank(1) \o EraseBank(2) \o EraseBank(3)
    \o ClearAll \o FinalCleanup \o VerifyBlank

Current == Script[i]

-----------------------------------------------------------------------------
TypeOK ==
    /\ pc \in {"idle", "running"}
    /\ i \in 1..Len(Script)
    /\ polls \in 0..(ReadinessAttempts - 1)
    /\ result \in {"none", "completed", "failed", "killed"}
    /\ \A k \in 1..Len(q) : q[k].len \in 1..FullPacket
    /\ setup \in BOOLEAN
    /\ warm \in 0..MaxWarm
    /\ win \in Windows /\ bank \in Banks
    /\ flash \in [Units -> {"old", "erased"}]
    /\ saves \in [Banks -> {"user", "zero", "marked"}]
    /\ shook \subseteq {"reset", "poll", "setup"}
    /\ weak \subseteq Units
    /\ faults \in 0..MaxFaults

\* A full card: what a wipe has to erase, whoever wrote it.
FullCard ==
    /\ flash' = [u \in Units |-> "old"]
    /\ saves' = [b \in Banks |-> "user"]
    /\ shook' = {} /\ weak' = {}

\* What another tool may have left unread: nothing, or the answer to one
\* command it was interrupted in.
LeftBehind == {<<>>, Answer(Poll, 0), Answer(Poll, 1), Answer(Setup, 0),
               Answer(Word, 0), Answer(Read(172), 1)}

Init ==
    /\ pc = "idle" /\ i = 1 /\ polls = 0 /\ result = "none"
    /\ q \in LeftBehind
    /\ setup \in BOOLEAN
    /\ warm \in 0..MaxWarm
    /\ win = 0 /\ bank = 0
    /\ flash = [u \in Units |-> "old"]
    /\ saves = [b \in Banks |-> "user"]
    /\ shook = {} /\ weak = {}
    /\ faults = IF q = <<>> THEN 0 ELSE 1

-----------------------------------------------------------------------------
(* The bridge and the card *)

Cleared == SectorUnits(win, Current.val)

\* The command takes effect; `kept` are the units an erase fails to clear.
Executes(kept) ==
    LET c == Current
        erased == IF c.op = "erase" /\ setup THEN Cleared \ kept ELSE {}
    IN  /\ setup' = (c.op = "setup" \/ (c.op # "reset" /\ setup))
        /\ warm' = IF c.op = "poll" /\ warm \in 1..(MaxWarm - 1) THEN warm - 1 ELSE warm
        /\ win' = IF c.sel = "window" THEN c.val ELSE win
        /\ bank' = IF c.sel = "bank" THEN c.val ELSE bank
        /\ flash' = [u \in Units |-> IF u \in erased THEN "erased" ELSE flash[u]]
        /\ saves' = CASE c.op = "byte" -> [saves EXCEPT ![bank] = "marked"]
                      [] c.op = "payload" -> [saves EXCEPT ![bank] = "zero"]
                      [] OTHER -> saves
        /\ shook' = IF c.op \in {"reset", "setup"} \/ (c.op = "poll" /\ warm = 0)
                    THEN shook \cup {c.op} ELSE shook
        /\ weak' = (weak \ erased) \cup kept

\* Status bytes: an erase is refused before 0x99, and which unit a blank read
\* shows is not known, because its mapping is not.
Statuses ==
    CASE Current.op = "poll" -> {IF warm = 0 THEN 1 ELSE 0}
      [] Current.op = "erase" -> {IF setup THEN 0 ELSE 1}
      [] Current.op = "read" -> {IF flash[u] = "erased" THEN 0 ELSE 1 : u \in Units}
      [] OTHER -> {0}

-----------------------------------------------------------------------------
(* The tool *)

Ended(r) == pc' = "idle" /\ i' = 1 /\ polls' = 0 /\ result' = r

\* Mutants: the last attempt is not counted, and no attempt is.
PollAgainOnceMore ==
    /\ polls + 1 =< ReadinessAttempts
    /\ polls' = polls + 1 /\ UNCHANGED <<pc, i, result>>
PollAgainForever ==
    /\ TRUE
    /\ UNCHANGED <<pc, i, polls, result>>

\* cartridgeReadyPreflight: 00 is asked again while attempts are left.
PollAgain ==
    /\ polls + 1 < ReadinessAttempts
    /\ polls' = polls + 1 /\ UNCHANGED <<pc, i, result>>

\* The IN that follows the command, with `queue` on the bridge, and what
\* arrives after it has ended.
Receives(queue, late) ==
    LET in == BulkIn(queue, Buffer(Current))
        accepted == in.good /\ Accepts(Current, in.got)
        again == in.good /\ Current.op = "poll" /\ in.got = NotReady
    IN  /\ q' = in.rest \o late
        /\ \/ /\ accepted /\ i < Len(Script)
              /\ i' = i + 1 /\ polls' = 0 /\ UNCHANGED <<pc, result>>
           \/ accepted /\ i = Len(Script) /\ Ended("completed")
           \/ again /\ PollAgain
           \/ again /\ polls + 1 = ReadinessAttempts /\ Ended("failed")
           \/ ~accepted /\ ~again /\ Ended("failed")

Fault == faults < MaxFaults /\ faults' = faults + 1

-----------------------------------------------------------------------------
Start ==
    /\ pc = "idle"
    /\ pc' = "running" /\ i' = 1 /\ polls' = 0 /\ result' = "none"
    /\ FullCard
    /\ UNCHANGED <<q, setup, warm, win, bank, faults>>

\* The command is executed and its answer is there in time.
Answered ==
    /\ pc = "running"
    /\ \E st \in Statuses : Receives(q \o Answer(Current, st), <<>>)
    /\ Executes({})
    /\ UNCHANGED faults

\* The IN times out, or ends with an older answer; then the answer arrives.
AnsweredLate ==
    /\ pc = "running" /\ Fault
    /\ \E st \in Statuses : Receives(q, Answer(Current, st))
    /\ Executes({})

\* The answer is lost.
Unanswered ==
    /\ pc = "running" /\ Fault
    /\ Receives(q, <<>>)
    /\ Executes({})

\* The OUT succeeds and the bridge does nothing, or half of a command and data
\* pair is delivered.
CommandLost ==
    /\ pc = "running" /\ Fault
    /\ Receives(q, <<>>)
    /\ UNCHANGED card

\* The OUT fails; no IN follows.
SendFails ==
    /\ pc = "running" /\ Fault
    /\ Ended("failed")
    /\ UNCHANGED <<q, card>>

\* The process ends between the OUT and the IN.
Killed ==
    /\ pc = "running" /\ Fault
    /\ \E st \in Statuses : q' = q \o Answer(Current, st)
    /\ Executes({})
    /\ Ended("killed")

\* An erase that reports status 01, and one that reports 00 and kept a unit.
EraseRefused ==
    /\ pc = "running" /\ Fault
    /\ Current.op = "erase" /\ setup
    /\ Receives(q \o Answer(Current, 1), <<>>)
    /\ UNCHANGED card
EraseIneffective ==
    /\ pc = "running" /\ Fault
    /\ Current.op = "erase" /\ setup
    /\ Receives(q \o Answer(Current, 0), <<>>)
    /\ \E u \in Cleared : flash[u] = "old" /\ Executes({u})

\* Unplugging the bridge and plugging it in again.
Replug ==
    /\ pc = "idle"
    /\ q' = <<>> /\ setup' = FALSE /\ win' = 0 /\ bank' = 0
    /\ warm' \in 0..MaxWarm
    /\ UNCHANGED <<host, flash, saves, shook, weak, faults>>

Run == \/ Answered \/ AnsweredLate \/ Unanswered \/ CommandLost \/ SendFails
       \/ Killed \/ EraseRefused \/ EraseIneffective

Next == Start \/ Run \/ Replug

Spec == Init /\ [][Next]_vars /\ WF_vars(Answered) /\ WF_vars(Start)

-----------------------------------------------------------------------------
(* A completed wipe erased every unit of all four windows, but for cells     *)
(* that kept their charge although the bridge reported status 00, and left   *)
(* all four save banks zero.  execute() returns true only after every        *)
(* command was echoed; the echoes of most commands are the same bytes, so    *)
(* this depends on no answer ever being taken for another command's.         *)
SuccessMeansWiped ==
    result = "completed" =>
        /\ \A u \in Units : flash[u] = "erased" \/ u \in weak
        /\ \A b \in Banks : saves[b] = "zero"

(* When a wipe sends an erase or save data, it reads its own answers:        *)
(* nothing an earlier run left unread is in front of them.  Leftovers can    *)
(* pass for the answers of a whole preflight, because 0x97 and 0x98 answer   *)
(* with the same byte, but not for the echoes of a window selection too.     *)
DestructiveInStep ==
    pc = "running" /\ Current.op \in {"erase", "payload"} => q = <<>>

(* No flash unit is erased before the bridge has answered 01 to 0x98 and     *)
(* executed 0x99 for this very run, not for an earlier one                   *)
(* (SOFTWARE_SPECIFICATION.md, safety requirement 4).  A 0x97 that is lost   *)
(* can go unnoticed: its answer 00 is also that of an older 0x97 or 0x98.    *)
EraseOnlyAfterPreflight ==
    [][pc = "running" /\ flash' # flash => {"poll", "setup"} \subseteq shook]_vars

(* Every run ends: the readiness poll is bounded and nothing else loops.     *)
EveryRunEnds == pc = "running" ~> pc = "idle"

(* Once the link behaves, a wipe on a bridge with nothing left unread, as    *)
(* after the replug the failure summary asks for, is completed by some run,  *)
(* if a cartridge is inserted and the user does not replug for ever.         *)
CleanBridgeRecovers ==
    <>[][~Replug]_vars =>
        ((faults = MaxFaults /\ pc = "idle" /\ q = <<>>)
            ~> (result = "completed" \/ warm = MaxWarm))
=============================================================================

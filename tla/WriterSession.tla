---------------------------- MODULE WriterSession ----------------------------
(***************************************************************************)
(* One run of CardWriter::write over LibusbWriterBackend: the order of the *)
(* preflight, bridge, save clear, erase, program, verify and final clear   *)
(* phases, the loops inside them, and what each leaves on the cartridge    *)
(* when a USB transfer fails.                                              *)
(*                                                                         *)
(* A transfer that fails (timeout, short transfer, wrong echo) may or may  *)
(* not have reached the cartridge, so a failing step has every partial     *)
(* effect of its command as an outcome.  The program itself never retries, *)
(* except for the 0x98 readiness poll.                                     *)
(***************************************************************************)
EXTENDS FlashGeometry

CONSTANTS
    Sizes,              \* image extents to write, a subset of ImageSizes
    ReadinessAttempts,  \* READINESS_ATTEMPTS, 5 in the source
    BridgePolls,        \* polls of initialize_bridge, 3 in the source
    MaxBadBlocks,       \* bound: blocks the flash may silently corrupt
    SilentClearFault    \* TRUE: a save clear may be acknowledged and not kept

ASSUME SessionAssumption ==
    /\ Sizes \subseteq ImageSizes
    /\ ReadinessAttempts \in Nat \ {0}
    /\ BridgePolls \in Nat \ {0}
    /\ MaxBadBlocks \in Nat
    /\ SilentClearFault \in BOOLEAN

VARIABLES
    size,       \* image.size()
    skip,       \* skip_verification
    pc,         \* the backend call in progress
    n,          \* index of the readiness poll or of the save bank
    grp, addr,  \* erase group (its window) and the next erase address in it
    off,        \* offset of the next block to program or to verify
    ok, need,   \* ok and save_banks_need_final_clear
    status,     \* CardWriteResult::status, "running" until write() returns
    verdict,    \* which of the three verification flags is set
    win,        \* device: the flash window erase and program commands reach
    map,        \* device: what linear reads show, a window or Linear
    flash,      \* device: content of every flash unit
    bank,       \* device: the selected save bank
    saves,      \* device: content of every save bank
    bad,        \* number of blocks silently corrupted so far
    faulted     \* whether the device or the bus misbehaved in this run

ctl == <<pc, n, grp, addr, off, ok, need, status, verdict>>
mem == <<flash, bad>>
dev == <<win, map, flash, bank, saves, bad>>
vars == <<size, skip, ctl, dev, faulted>>

Banks == 0..3

\* The read mapping that shows the whole card at its card addresses.
Linear == 4

\* "image" is the image unit that belongs at this card address.
FlashContent == {"old", "erased", "image", "bad"}

\* "marked" is a bank whose offsets 0 and 1 a one-byte transfer overwrote.
SaveContent == {"user", "zero", "marked"}

Phases == {"startup", "ready", "probe", "bridge", "prepare", "select_erase",
           "erase", "select_program", "program", "switch_program", "finalize",
           "map_verify", "verify", "clear", "done"}

TypeOK ==
    /\ size \in Sizes /\ skip \in BOOLEAN
    /\ pc \in Phases
    /\ n \in Nat
    /\ grp \in Windows /\ addr \in Nat /\ off \in Nat
    /\ ok \in BOOLEAN /\ need \in BOOLEAN
    /\ status \in {"running", "success", "preflight_failed", "operation_failed"}
    /\ verdict \in {"none", "verified", "skipped_by_user", "skipped_unproven"}
    /\ win \in Windows
    /\ map \in Windows \cup {Linear}
    /\ flash \in [Units -> FlashContent]
    /\ bank \in Banks
    /\ saves \in [Banks -> SaveContent]
    /\ bad \in Nat
    /\ faulted \in BOOLEAN

Init ==
    /\ size \in Sizes /\ skip \in BOOLEAN
    /\ pc = "startup" /\ n = 0
    /\ grp = 0 /\ addr = 0 /\ off = 0
    /\ ok = TRUE /\ need = FALSE
    /\ status = "running" /\ verdict = "none"
    /\ win = 0 /\ map = Linear
    /\ flash = [u \in Units |-> "old"]
    /\ bank \in Banks
    /\ saves = [b \in Banks |-> "user"]
    /\ bad = 0 /\ faulted = FALSE

-----------------------------------------------------------------------------
(* Device effects. *)

\* The two-byte-command transactions alone never touch save memory; the
\* one-byte ones are save writes at offsets 0 and 1 of the selected bank.
Marked == [saves EXCEPT ![bank] = "marked"]

\* finishOperation: FFFF, then three one-byte transfers.
FinishOk == saves' = Marked /\ UNCHANGED <<win, map>>
FinishFails == saves' \in {saves, Marked} /\ UNCHANGED <<win, map>>

\* select(w): the window becomes visible to commands and to reads, and the
\* unlock tail is one-byte transfers.
SelectOk(w) == win' = w /\ map' = w /\ saves' = Marked
SelectFails(w) ==
    \/ UNCHANGED <<win, map, saves>>
    \/ win' = w /\ map' = w /\ saves' \in {saves, Marked}

-----------------------------------------------------------------------------
(* How write() leaves the straight path. *)

\* Mutant: a failing call returns at once.
FailWithoutClear ==
    /\ ok' = FALSE /\ faulted' = TRUE /\ n' = 0
    /\ pc' = "done" /\ status' = "operation_failed"
    /\ UNCHANGED <<size, skip, grp, addr, off, need, verdict>>

\* A failing call clears `ok`; every later phase but the final clear is
\* guarded by it.
Fail ==
    /\ ok' = FALSE /\ faulted' = TRUE
    /\ n' = 0
    /\ IF need THEN pc' = "clear" /\ UNCHANGED status
       ELSE pc' = "done" /\ status' = "operation_failed"
    /\ UNCHANGED <<size, skip, grp, addr, off, need, verdict>>

PreflightFail ==
    /\ pc' = "done" /\ status' = "preflight_failed" /\ faulted' = TRUE
    /\ UNCHANGED <<size, skip, n, grp, addr, off, ok, need, verdict>>

Goto(p) == pc' = p /\ UNCHANGED <<ok, need, status, verdict, faulted>>

-----------------------------------------------------------------------------
(* preflight: original_manager_initialize_and_check *)

\* 0x97 must answer 00.
Startup ==
    /\ pc = "startup"
    /\ UNCHANGED dev
    /\ \/ Goto("ready") /\ UNCHANGED <<size, skip, n, grp, addr, off>>
       \/ PreflightFail

\* Mutant: the last attempt starts the count again.
PollReadyForever ==
    /\ pc = "ready"
    /\ UNCHANGED dev
    /\ \/ Goto("probe") /\ n' = 0 /\ UNCHANGED <<size, skip, grp, addr, off>>
       \/ /\ Goto("ready") /\ n' = (n + 1) % ReadinessAttempts
          /\ UNCHANGED <<size, skip, grp, addr, off>>
       \/ PreflightFail

\* 0x98: 01 is ready, 00 is retried while attempts are left, anything else
\* and a failed transfer end the preflight.  0x99 follows the 01.
PollReady ==
    /\ pc = "ready"
    /\ UNCHANGED dev
    /\ \/ Goto("probe") /\ n' = 0 /\ UNCHANGED <<size, skip, grp, addr, off>>
       \/ /\ n + 1 < ReadinessAttempts
          /\ n' = n + 1
          /\ UNCHANGED <<size, skip, pc, grp, addr, off, ok, need, status,
                         verdict, faulted>>
       \/ PreflightFail

\* The manager probe selects all four windows with one-byte unlock tails and
\* ends on window 0 with the 0x95 read-prime and a header read.  A failure
\* leaves any of those windows selected.
Probe ==
    /\ pc = "probe"
    /\ UNCHANGED <<bank, mem>>
    /\ \/ /\ Goto("bridge") /\ n' = 0
          /\ win' = 0 /\ map' = Linear /\ saves' = Marked
          /\ UNCHANGED <<size, skip, grp, addr, off>>
       \/ /\ PreflightFail
          /\ saves' \in {saves, Marked}
          /\ \/ UNCHANGED <<win, map>>
             \/ \E w \in Windows : win' = w /\ map' = w

\* initialize_bridge: every one of the polls must answer 01.
BridgePoll ==
    /\ pc = "bridge"
    /\ UNCHANGED dev
    /\ \/ /\ IF n + 1 < BridgePolls
             THEN pc' = "bridge" /\ n' = n + 1
             ELSE pc' = "prepare" /\ n' = 0
          /\ UNCHANGED <<size, skip, grp, addr, off, ok, need, status, verdict,
                         faulted>>
       \/ Fail

-----------------------------------------------------------------------------
(* SaveBankCleaner::clearAll, called before the erase and at the very end *)

ClearedBank(b) == [saves EXCEPT ![b] = "zero"]

\* The select and the payload of one bank were echoed.  A cell that does not
\* keep the zeros goes unnoticed: clearAll reads nothing back.
BankEchoed ==
    /\ bank' = n
    /\ \/ saves' = ClearedBank(n) /\ UNCHANGED faulted
       \/ SilentClearFault /\ faulted' = TRUE /\ UNCHANGED saves

\* The first missing or wrong echo ends clearAll; later banks are not tried.
BankNotEchoed ==
    /\ faulted' = TRUE
    /\ bank' \in {bank, n}
    /\ saves' = saves \/ (bank' = n /\ saves' = ClearedBank(n))

\* Mutants: the flag is raised when the first bank is clear, and the result of
\* the clear is dropped.
PrepareFlagsEarly ==
    /\ pc = "prepare" /\ BankEchoed
    /\ need' = TRUE
    /\ IF n < 3 THEN n' = n + 1 /\ UNCHANGED pc
       ELSE n' = 0 /\ pc' = "select_erase"
    /\ UNCHANGED <<size, skip, grp, addr, off, ok, status, verdict, win, map, mem>>
PrepareResultDropped ==
    /\ pc = "prepare"
    /\ BankEchoed \/ BankNotEchoed
    /\ n' = 0 /\ pc' = "select_erase"
    /\ UNCHANGED <<size, skip, grp, addr, off, ok, need, status, verdict, win,
                   map, mem>>

\* prepareGlobalWrite
PrepareGlobalWrite ==
    /\ pc = "prepare"
    /\ UNCHANGED <<size, skip, grp, addr, off, verdict, win, map, mem>>
    /\ \/ /\ BankEchoed
          /\ UNCHANGED <<ok, status>>
          /\ IF n < 3 THEN n' = n + 1 /\ UNCHANGED <<pc, need>>
             ELSE n' = 0 /\ pc' = "select_erase" /\ need' = TRUE
       \/ /\ BankNotEchoed
          /\ ok' = FALSE /\ pc' = "done" /\ status' = "operation_failed"
          /\ UNCHANGED <<n, need>>

\* Mutant: the final clear does not join `ok`.
ClearResultDropped ==
    /\ pc = "clear"
    /\ BankEchoed \/ BankNotEchoed
    /\ IF n < 3 THEN n' = n + 1 /\ UNCHANGED <<pc, status>>
       ELSE /\ n' = 0 /\ pc' = "done"
            /\ status' = IF ok THEN "success" ELSE "operation_failed"
    /\ UNCHANGED <<size, skip, grp, addr, off, ok, need, verdict, win, map, mem>>

\* clearSaveBanks, reached on success and on every failure after the first
\* clear; its own result joins `ok`.
ClearSaveBanks ==
    /\ pc = "clear"
    /\ UNCHANGED <<size, skip, grp, addr, off, need, verdict, win, map, mem>>
    /\ \/ /\ BankEchoed
          /\ UNCHANGED ok
          /\ IF n < 3 THEN n' = n + 1 /\ UNCHANGED <<pc, status>>
             ELSE /\ n' = 0 /\ pc' = "done"
                  /\ status' = IF ok THEN "success" ELSE "operation_failed"
       \/ /\ BankNotEchoed
          /\ ok' = FALSE /\ pc' = "done" /\ status' = "operation_failed"
          /\ UNCHANGED n

-----------------------------------------------------------------------------
(* erase *)

SelectWindowZeroForErase ==
    /\ pc = "select_erase"
    /\ UNCHANGED <<bank, mem>>
    /\ \/ /\ SelectOk(0) /\ Goto("erase") /\ grp' = 0 /\ addr' = 0
          /\ UNCHANGED <<size, skip, n, off>>
       \/ SelectFails(0) /\ Fail

\* 0x96 at the next listed address.  Status 00 means the sector is erased;
\* on a failure it may or may not be.
EraseSector ==
    LET cleared == [u \in Units |-> IF u \in SectorUnits(win, addr)
                                    THEN "erased" ELSE flash[u]]
    IN  /\ pc = "erase" /\ EraseMore(size, grp, addr)
        /\ UNCHANGED <<win, map, bank, saves, bad>>
        /\ \/ /\ flash' = cleared
              /\ addr' = addr + EraseStep(grp, addr)
              /\ UNCHANGED <<size, skip, pc, n, grp, off, ok, need, status,
                             verdict, faulted>>
           \/ flash' \in {flash, cleared} /\ Fail

\* Between two groups: finishOperation, then select the group's window.
NextEraseGroup ==
    /\ pc = "erase" /\ ~EraseMore(size, grp, addr)
    /\ grp < LastEraseWindow(size)
    /\ UNCHANGED <<bank, mem>>
    /\ \/ /\ SelectOk(grp + 1) /\ grp' = grp + 1 /\ addr' = 0
          /\ UNCHANGED <<size, skip, pc, n, off, ok, need, status, verdict,
                         faulted>>
       \/ SelectFails(grp + 1) /\ Fail
       \/ FinishFails /\ Fail

\* The list is exhausted: finalizeFlashState.
EraseDone ==
    /\ pc = "erase" /\ ~EraseMore(size, grp, addr)
    /\ grp = LastEraseWindow(size)
    /\ UNCHANGED <<bank, mem>>
    /\ \/ FinishOk /\ Goto("select_program")
          /\ UNCHANGED <<size, skip, n, grp, addr, off>>
       \/ FinishFails /\ Fail

-----------------------------------------------------------------------------
(* program *)

SelectWindowZeroForProgram ==
    /\ pc = "select_program"
    /\ UNCHANGED <<bank, mem>>
    /\ \/ /\ SelectOk(0) /\ Goto("program") /\ off' = 0
          /\ UNCHANGED <<size, skip, n, grp, addr>>
       \/ SelectFails(0) /\ Fail

BlockLength(o) == IF size - o < BlockLen THEN size - o ELSE BlockLen

\* What a program command at local address Local(off) leaves: the image where
\* it lands on erased units at their own card address, corruption elsewhere.
Target == win * WindowLen + Local(off)
Programmed(good) ==
    [u \in Units |->
        IF u >= Target /\ u < Target + BlockLength(off)
        THEN IF good /\ flash[u] = "erased" /\ Target = off
             THEN "image" ELSE "bad"
        ELSE flash[u]]

\* Read-back follows unless the user declined it or the extent has no proven
\* mapping; then only the flash status is finalized.
AfterProgram ==
    IF skip \/ Mode(size) = "unsupported_partial_higher_window"
    THEN "finalize" ELSE "map_verify"

\* Where the loop goes from offset o: its end, a window boundary or a block.
ProgramFrom(o) ==
    IF o >= size THEN AfterProgram
    ELSE IF o % WindowLen = 0 THEN "switch_program"
    ELSE "program"

\* One 0x92 transaction.  The completion echo says nothing about the cells:
\* a weak flash may corrupt them unnoticed.
ProgramBlock ==
    /\ pc = "program"
    /\ UNCHANGED <<win, map, bank, saves>>
    /\ \/ /\ \/ flash' = Programmed(TRUE) /\ UNCHANGED <<bad, faulted>>
             \/ /\ bad < MaxBadBlocks /\ bad' = bad + 1
                /\ flash' = Programmed(FALSE) /\ faulted' = TRUE
          /\ off' = off + BlockLength(off)
          /\ pc' = ProgramFrom(off')
          /\ UNCHANGED <<size, skip, n, grp, addr, ok, need, status, verdict>>
       \/ /\ flash' \in {flash, Programmed(TRUE), Programmed(FALSE)}
          /\ UNCHANGED bad
          /\ Fail

\* At a window boundary: the window index is checked, then finishOperation
\* and select.
SwitchProgramWindow ==
    /\ pc = "switch_program"
    /\ UNCHANGED <<bank, mem>>
    /\ \/ /\ WindowOf(off) =< 3
          /\ SelectOk(WindowOf(off)) /\ Goto("program")
          /\ UNCHANGED <<size, skip, n, grp, addr, off>>
       \/ WindowOf(off) =< 3 /\ SelectFails(WindowOf(off)) /\ Fail
       \/ FinishFails /\ Fail

-----------------------------------------------------------------------------
(* after programming *)

\* The two paths without read-back differ only in the flag they set, and set
\* it only when the status sequence succeeded.
Finalize ==
    /\ pc = "finalize"
    /\ UNCHANGED <<bank, mem>>
    /\ \/ /\ FinishOk
          /\ verdict' = IF skip THEN "skipped_by_user" ELSE "skipped_unproven"
          /\ pc' = "clear" /\ n' = 0
          /\ UNCHANGED <<size, skip, grp, addr, off, ok, need, status, faulted>>
       \/ FinishFails /\ Fail

\* The status and mapping sequence of the mode.  Below 8 MiB only FFFF is
\* sent and window 0 stays visible; at 8 MiB the mapping uses two-byte
\* transfers only; every other mode sends one-byte transfers as well.
MapVerify ==
    LET mode == Mode(size)
        marks == mode \notin {"partial_first_window", "exact_8_mib"}
    IN  /\ pc = "map_verify"
        /\ UNCHANGED <<bank, mem, win>>
        /\ \/ /\ Goto("verify") /\ off' = 0
              /\ map' = IF mode = "partial_first_window" THEN map ELSE Linear
              /\ saves' = IF marks THEN Marked ELSE saves
              /\ UNCHANGED <<size, skip, n, grp, addr>>
           \/ /\ Fail
              /\ map' \in {map, Linear}
              /\ saves' \in IF marks THEN {saves, Marked} ELSE {saves}

\* The unit a linear read of address a returns.
Physical(a) == IF map = Linear THEN a ELSE map * WindowLen + Local(a)

\* Mutant: the tiny tail's padding is compared as well.
UnitMatchesPadded(a) ==
    IF a < size THEN Physical(a) = a /\ flash[a] = "image"
    ELSE flash[Physical(a)] = "erased"

\* compareBlock: image units must match; units past the image must be erased,
\* unless the mode leaves them alone.
UnitMatches(a) ==
    IF a < size THEN Physical(a) = a /\ flash[a] = "image"
    ELSE \/ Mode(size) = "tiny_tail_above_16_mib"
         \/ flash[Physical(a)] = "erased"

VerifyLength == LET left == VerifyExtent(size) - off
                IN  IF left < BlockLen THEN left ELSE BlockLen

VerifyBlock ==
    /\ pc = "verify" /\ off < VerifyExtent(size)
    /\ UNCHANGED dev
    /\ \/ /\ \A a \in off..(off + VerifyLength - 1) : UnitMatches(a)
          /\ off' = off + VerifyLength
          /\ UNCHANGED <<size, skip, pc, n, grp, addr, ok, need, status,
                         verdict, faulted>>
       \/ /\ \E a \in off..(off + VerifyLength - 1) : ~UnitMatches(a)
          /\ ok' = FALSE /\ pc' = "clear" /\ n' = 0
          /\ UNCHANGED <<size, skip, grp, addr, off, need, status, verdict,
                         faulted>>
       \/ Fail

\* Mutant: the loop ends one block early.
VerifyDoneEarly ==
    /\ pc = "verify" /\ off + BlockLen >= VerifyExtent(size)
    /\ verdict' = "verified" /\ pc' = "clear" /\ n' = 0
    /\ UNCHANGED <<size, skip, grp, addr, off, ok, need, status, dev, faulted>>

VerifyDone ==
    /\ pc = "verify" /\ off >= VerifyExtent(size)
    /\ verdict' = "verified" /\ pc' = "clear" /\ n' = 0
    /\ UNCHANGED <<size, skip, grp, addr, off, ok, need, status, dev, faulted>>

\* write() has returned.
Returned == pc = "done" /\ UNCHANGED vars

Step ==
    \/ Startup \/ PollReady \/ Probe \/ BridgePoll
    \/ PrepareGlobalWrite
    \/ SelectWindowZeroForErase \/ EraseSector \/ NextEraseGroup \/ EraseDone
    \/ SelectWindowZeroForProgram \/ ProgramBlock \/ SwitchProgramWindow
    \/ Finalize \/ MapVerify \/ VerifyBlock \/ VerifyDone
    \/ ClearSaveBanks

Next == Step \/ Returned

\* Every libusb transfer has a timeout and no call blocks on anything else, so
\* a step that can be taken is taken.
Spec == Init /\ [][Next]_vars /\ WF_vars(Step)

-----------------------------------------------------------------------------
(* Properties *)

Returns == pc = "done"
ImageUnits == 0..(size - 1)

\* No program command reaches a unit that this session's erase did not clear,
\* and every block lands in its own window: the erase lists, the window
\* switches of both loops and the block addresses agree at every boundary.
ProgramsErasedTarget ==
    pc = "program" =>
        /\ win = WindowOf(off)
        /\ \A i \in 0..(BlockLength(off) - 1) :
              /\ Local(off) + i < WindowLen
              /\ flash[off + i] = "erased"

\* "verified" is only reported for a card that holds the whole image, whatever
\* the bus and the cells did.
VerifiedMeansWhole ==
    verdict = "verified" => \A u \in ImageUnits : flash[u] = "image"

\* A successful write leaves the four save banks zero: every one-byte window
\* or status transfer that marked a bank came before the last clear of it.
\* SOFTWARE_SPECIFICATION.md 3.3 asks for more, a clear that is verified: with
\* SilentClearFault the property shows what the missing read-back lets by.
SuccessLeavesSavesZero ==
    status = "success" => \A b \in Banks : saves[b] = "zero"

\* The flash is not touched unless the preflight, the bridge polls and the
\* first save clear all succeeded.
FlashTouchedOnlyAfterSetup ==
    (\E u \in Units : flash[u] # "old") => need

\* When neither the bus, the card nor the cells misbehave, the write succeeds:
\* read-back never asks for erased units the erase lists left out, and never
\* reads through a stale window mapping.
FailureNeedsFault ==
    status \in {"operation_failed", "preflight_failed"} => faulted

\* A window the image does not reach keeps its content.
HigherWindowsKept ==
    \A u \in Units : WindowOf(u) > WindowOf(size - 1) => flash[u] = "old"

\* Every write() returns, and a session that got past the first save clear
\* reaches the final clear, whatever failed in between.
AlwaysReturns == <>Returns
FinalClearAttempted == (need /\ ~Returns) ~> pc = "clear"

-----------------------------------------------------------------------------
(* The inductive invariant behind the safety properties: what each phase    *)
(* knows of the flash, the save banks and the control variables.            *)

BeforeSetup == {"startup", "ready", "probe", "bridge", "prepare"}
FlashPhases == {"select_erase", "erase", "select_program", "program",
                "switch_program", "finalize", "map_verify", "verify"}

ControlInv ==
    /\ status = "running" <=> pc # "done"
    /\ pc \in BeforeSetup => ~need
    /\ pc \in FlashPhases \cup {"clear"} => need
    /\ pc \in BeforeSetup \cup FlashPhases => ok
    /\ ~need => flash = [u \in Units |-> "old"]
    /\ status = "success" => need
    /\ status = "preflight_failed" => ~need

ErasedBelow(limit) ==
    \A u \in Units : u < size /\ u < limit => flash[u] = "erased"

\* Everything below the next erase address is erased.
EraseInv ==
    /\ pc = "erase" =>
          /\ win = grp /\ grp =< LastEraseWindow(size)
          /\ addr = 0 \/ addr >= SectorLen
          /\ ErasedBelow(grp * WindowLen + addr)
    /\ pc = "select_program" => ErasedBelow(size)

\* The blocks still to program are erased, and the offset is block aligned.
ProgramInv ==
    pc \in {"program", "switch_program"} =>
        /\ off < size /\ off % BlockLen = 0
        /\ \A u \in Units : off =< u /\ u < size => flash[u] = "erased"
        /\ pc = "program" => win = WindowOf(off)

\* What read-back compared so far is the image.
VerifyInv ==
    /\ pc = "verify" =>
          \A u \in Units : u < size /\ u < off => flash[u] = "image"
    /\ pc \in BeforeSetup \cup FlashPhases => verdict = "none"
    /\ VerifiedMeansWhole

\* The final clear has zeroed the banks before its cursor.
SavesInv ==
    /\ pc \in {"prepare", "clear"} => n \in Banks
    /\ ~SilentClearFault =>
          /\ pc = "clear" => \A b \in Banks : b < n => saves[b] = "zero"
          /\ SuccessLeavesSavesZero

IInv ==
    /\ TypeOK
    /\ ControlInv
    /\ EraseInv
    /\ ProgramInv
    /\ VerifyInv
    /\ SavesInv
=============================================================================

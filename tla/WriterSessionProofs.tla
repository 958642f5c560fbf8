------------------------- MODULE WriterSessionProofs -------------------------
(***************************************************************************)
(* Safety of WriterSession, and that it implements CardWriteContract, for  *)
(* every card geometry, every set of image sizes and every number of polls *)
(* and of corrupted blocks.                                                *)
(***************************************************************************)
EXTENDS WriterRefinement, FlashGeometryProofs

\* What the proofs need of the assumptions on the constants.
LEMMA Constants ==
    /\ SectorLen \in Nat \ {0} /\ BlockLen \in Nat \ {0}
    /\ WindowLen \in Nat \ {0}
    /\ SectorLen < BlockLen /\ BlockLen < WindowLen
    /\ \A s \in Sizes : s \in Nat /\ s >= BlockLen /\ s =< 4 * WindowLen
    /\ CardHalf = 2 * WindowLen /\ CardLen = 4 * WindowLen
    /\ Units = 0..(4 * WindowLen - 1)
  BY GeometryAssumption, SessionAssumption
  DEF ImageSizes, CardHalf, CardLen, Units

\* The values a device effect may leave.
DeviceType ==
    /\ win \in Windows
    /\ map \in Windows \cup {Linear}
    /\ flash \in [Units -> FlashContent]
    /\ bank \in Banks
    /\ saves \in [Banks -> SaveContent]
    /\ bad \in Nat

LEMMA MarkedType ==
    ASSUME TypeOK
    PROVE  Marked \in [Banks -> SaveContent]
  BY DEF TypeOK, Marked, SaveContent, Banks

LEMMA ClearedType ==
    ASSUME TypeOK, NEW b \in Banks
    PROVE  /\ ClearedBank(b) \in [Banks -> SaveContent]
           /\ ClearedBank(b)[b] = "zero"
           /\ \A c \in Banks : c # b => ClearedBank(b)[c] = saves[c]
  BY DEF TypeOK, ClearedBank, SaveContent, Banks

\* Device effects keep the device's types.
LEMMA EffectTypes ==
    ASSUME TypeOK, NEW w \in Windows
    PROVE  /\ (SelectOk(w) \/ SelectFails(w) \/ FinishOk \/ FinishFails)
                => /\ win' \in Windows
                   /\ map' \in Windows \cup {Linear}
                   /\ saves' \in [Banks -> SaveContent]
  BY MarkedType DEF TypeOK, SelectOk, SelectFails, FinishOk, FinishFails

-----------------------------------------------------------------------------
(* A failing step keeps the invariant whatever it did to the device, because *)
(* it leaves for the final clear, or for the end while the flash is intact.  *)

LEMMA OutsideFlashPhases ==
    ASSUME IInv, TypeOK', ControlInv', SavesInv',
           UNCHANGED <<size, flash, verdict>>,
           pc' \notin FlashPhases,
           pc' \in BeforeSetup => verdict = "none"
    PROVE  IInv'
  <1>1. EraseInv' /\ ProgramInv'
    BY DEF EraseInv, ProgramInv, FlashPhases
  <1>2. VerifyInv'
    BY DEF IInv, VerifyInv, VerifiedMeansWhole, ImageUnits, FlashPhases
  <1>. QED
    BY <1>1, <1>2 DEF IInv

LEMMA FailKeepsIInv ==
    ASSUME IInv, Fail, DeviceType', pc \in {"bridge"} \cup FlashPhases,
           need \/ flash' = flash
    PROVE  IInv'
  <1>1. /\ n' = 0 /\ ok' = FALSE /\ faulted' = TRUE
        /\ size' = size /\ skip' = skip /\ grp' = grp /\ addr' = addr
        /\ off' = off /\ need' = need /\ verdict' = verdict
        /\ need => pc' = "clear" /\ status' = status
        /\ ~need => pc' = "done" /\ status' = "operation_failed"
    BY DEF Fail
  <1>2. TypeOK'
    BY <1>1 DEF IInv, TypeOK, DeviceType, Phases
  <1>3. ControlInv'
    BY <1>1 DEF IInv, TypeOK, ControlInv, FlashPhases, BeforeSetup
  <1>4. EraseInv' /\ ProgramInv'
    BY <1>1 DEF IInv, TypeOK, EraseInv, ProgramInv
  <1>5. VerifyInv'
    <2>1. verdict = "none"
      BY DEF IInv, VerifyInv, BeforeSetup
    <2>. QED
      BY <1>1, <2>1 DEF IInv, TypeOK, ControlInv, VerifyInv, VerifiedMeansWhole,
            ImageUnits, FlashPhases, BeforeSetup
  <1>6. SavesInv'
    BY <1>1 DEF IInv, TypeOK, ControlInv, SavesInv, SuccessLeavesSavesZero,
          FlashPhases, BeforeSetup, Banks
  <1>. QED
    BY <1>2, <1>3, <1>4, <1>5, <1>6 DEF IInv

-----------------------------------------------------------------------------
(* The invariant across each action. *)

\* Steps of the preflight and the bridge polls leave the flash alone and do
\* not reach a flash phase.
LEMMA SetupKeepsIInv ==
    ASSUME IInv, Startup \/ PollReady \/ Probe \/ BridgePoll
    PROVE  IInv'
  <1>1. CASE pc = "bridge" /\ Fail /\ UNCHANGED dev
    BY <1>1, FailKeepsIInv DEF DeviceType, IInv, TypeOK, dev
  <1>2. CASE ~(pc = "bridge" /\ Fail)
    <2>1. /\ pc \in {"startup", "ready", "probe", "bridge"}
          /\ verdict = "none" /\ ~need /\ status = "running"
      BY DEF Startup, PollReady, Probe, BridgePoll, IInv, ControlInv, VerifyInv,
             BeforeSetup
    <2>2. /\ UNCHANGED <<size, skip, grp, addr, off, ok, need, verdict, bank,
                         flash, bad>>
          /\ \/ /\ pc' \in {"ready", "probe", "bridge"}
                /\ UNCHANGED status
             \/ pc' = "prepare" /\ n' = 0 /\ UNCHANGED status
             \/ pc' = "done" /\ status' = "preflight_failed"
      BY <1>2 DEF Startup, PollReady, Probe, BridgePoll, Goto, PreflightFail,
                  dev, mem
    <2>7. n' \in {n, 0, n + 1}
      BY <1>2 DEF Startup, PollReady, Probe, BridgePoll, PreflightFail
    <2>8. n' \in Nat
      BY <2>7 DEF IInv, TypeOK
    <2>9. faulted' \in BOOLEAN
      BY <1>2, Zenon DEF Startup, PollReady, Probe, BridgePoll, Goto, PreflightFail,
                  IInv, TypeOK
    <2>3. /\ win' \in Windows /\ map' \in Windows \cup {Linear}
          /\ saves' \in [Banks -> SaveContent]
      BY MarkedType DEF Startup, PollReady, Probe, BridgePoll, dev, IInv, TypeOK,
                        Windows
    <2>4. TypeOK'
      BY <2>1, <2>2, <2>3, <2>8, <2>9 DEF IInv, TypeOK, Phases
    <2>5. ControlInv'
      BY <2>1, <2>2 DEF IInv, ControlInv, BeforeSetup, FlashPhases
    <2>6. SavesInv'
      BY <2>1, <2>2 DEF SavesInv, SuccessLeavesSavesZero, Banks
    <2>. QED
      BY <2>1, <2>2, <2>4, <2>5, <2>6, OutsideFlashPhases DEF FlashPhases
  <1>. QED
    BY <1>1, <1>2 DEF Startup, PollReady, Probe, BridgePoll, Goto

\* The first clear: the flash phases start from an intact card.
LEMMA PrepareKeepsIInv ==
    ASSUME IInv, PrepareGlobalWrite
    PROVE  IInv'
  <1>1. n \in Banks /\ pc = "prepare" /\ status = "running" /\ verdict = "none"
    BY DEF IInv, ControlInv, SavesInv, VerifyInv, PrepareGlobalWrite, BeforeSetup
  <1>2. ~need /\ ok
    BY <1>1 DEF IInv, ControlInv, BeforeSetup
  <1>3. UNCHANGED <<size, skip, grp, addr, off, verdict, win, map, flash, bad>>
    BY DEF PrepareGlobalWrite, mem
  <1>4. \/ pc' = "prepare" /\ status' = "running" /\ n < 3 /\ n' = n + 1
        \/ pc' = "select_erase" /\ status' = "running" /\ n' = 0
        \/ pc' = "done" /\ status' = "operation_failed" /\ n' = n
    BY <1>1 DEF PrepareGlobalWrite
  <1>5. n' \in Banks
    BY <1>1, <1>4 DEF Banks
  <1>6. /\ pc' = "prepare" => ok' /\ ~need'
        /\ pc' = "select_erase" => ok' /\ need'
        /\ pc' = "done" => ~need'
    <2>1. CASE UNCHANGED <<pc, need, ok>>
      BY <2>1, <1>1, <1>2
    <2>2. CASE UNCHANGED ok /\ pc' = "select_erase" /\ need' = TRUE
      BY <2>2, <1>2
    <2>3. CASE pc' = "done" /\ UNCHANGED need
      BY <2>3, <1>2
    <2>. QED
      BY <2>1, <2>2, <2>3 DEF PrepareGlobalWrite
  <1>7. ok' \in BOOLEAN /\ need' \in BOOLEAN /\ faulted' \in BOOLEAN
    BY Zenon DEF IInv, TypeOK, PrepareGlobalWrite, BankEchoed, BankNotEchoed
  <1>8. bank' \in Banks /\ saves' \in [Banks -> SaveContent]
    BY <1>1, ClearedType DEF IInv, TypeOK, PrepareGlobalWrite, BankEchoed,
       BankNotEchoed
  <1>9. TypeOK'
    BY <1>3, <1>4, <1>5, <1>7, <1>8 DEF IInv, TypeOK, Phases, Banks
  <1>10. ControlInv'
    BY <1>2, <1>3, <1>4, <1>6 DEF IInv, ControlInv, BeforeSetup, FlashPhases
  <1>11. EraseInv' /\ ProgramInv'
    BY <1>4 DEF EraseInv, ProgramInv
  <1>12. VerifyInv'
    BY <1>1, <1>3, <1>4 DEF VerifyInv, VerifiedMeansWhole
  <1>13. SavesInv'
    BY <1>4, <1>5 DEF SavesInv, SuccessLeavesSavesZero
  <1>. QED
    BY <1>9, <1>10, <1>11, <1>12, <1>13 DEF IInv

\* The final clear: a bank it passed stays zero until write() returns.
LEMMA ClearKeepsIInv ==
    ASSUME IInv, ClearSaveBanks
    PROVE  IInv'
  <1>1. n \in Banks /\ pc = "clear" /\ need /\ status = "running"
    BY DEF IInv, ControlInv, SavesInv, ClearSaveBanks
  <1>2. /\ bank' \in Banks /\ saves' \in [Banks -> SaveContent]
        /\ faulted' \in BOOLEAN
    BY <1>1, ClearedType DEF IInv, TypeOK, ClearSaveBanks, BankEchoed,
       BankNotEchoed
  <1>3. /\ UNCHANGED <<size, skip, grp, addr, off, need, verdict, win, map,
                       flash, bad>>
        /\ \/ n < 3 /\ n' = n + 1 /\ UNCHANGED <<pc, status>>
           \/ /\ n = 3 /\ n' = 0 /\ pc' = "done"
              /\ status' \in {"success", "operation_failed"}
           \/ pc' = "done" /\ status' = "operation_failed" /\ n' = n
    BY <1>1 DEF ClearSaveBanks, mem, Banks
  <1>4. SavesInv'
    <2>1. n' \in Banks
      BY <1>1, <1>3 DEF Banks
    <2>2. CASE SilentClearFault \/ (pc' = "done" /\ status' = "operation_failed")
      BY <2>1, <2>2 DEF SavesInv, SuccessLeavesSavesZero
    <2>3. CASE ~SilentClearFault /\ ~(pc' = "done" /\ status' = "operation_failed")
      <3>1. saves' = ClearedBank(n)
        BY <2>3 DEF ClearSaveBanks, BankEchoed
      <3>2. \A b \in Banks : b < n => saves[b] = "zero"
        BY <1>1, <2>3 DEF IInv, SavesInv
      <3>3. \A b \in Banks : b < n + 1 => saves'[b] = "zero"
        BY <1>1, <3>1, <3>2, ClearedType DEF IInv, Banks
      <3>. QED
        BY <1>1, <1>3, <2>1, <2>3, <3>3 DEF SavesInv, SuccessLeavesSavesZero, Banks
    <2>. QED
      BY <2>2, <2>3
  <1>8. ok' \in BOOLEAN
    BY Zenon DEF IInv, TypeOK, ClearSaveBanks
  <1>5. TypeOK'
    BY <1>1, <1>2, <1>3, <1>8 DEF IInv, TypeOK, Phases, Banks
  <1>6. ControlInv'
    BY <1>1, <1>3 DEF IInv, ControlInv, BeforeSetup, FlashPhases
  <1>7. pc' \notin BeforeSetup \cup FlashPhases
    BY <1>1, <1>3 DEF BeforeSetup, FlashPhases
  <1>. QED
    BY <1>3, <1>4, <1>5, <1>6, <1>7, OutsideFlashPhases

\* What a step inside the flash phases, or from them to the final clear, has
\* to show: the phases' own parts of the invariant.
LEMMA FlashStepKeepsIInv ==
    ASSUME IInv, pc \in FlashPhases, pc' \in FlashPhases \cup {"clear"},
           pc' \in FlashPhases => ok', pc' = "clear" => n' = 0,
           UNCHANGED <<size, skip, need, status>>,
           n' \in Nat, grp' \in Windows, addr' \in Nat, off' \in Nat,
           ok' \in BOOLEAN, faulted' \in BOOLEAN,
           verdict' \in {"none", "verified", "skipped_by_user",
                        "skipped_unproven"},
           DeviceType', EraseInv', ProgramInv', VerifyInv'
    PROVE  IInv'
  <1>1. need /\ status = "running" /\ pc' # "done"
    BY DEF IInv, ControlInv, FlashPhases
  <1>2. TypeOK'
    BY DEF IInv, TypeOK, DeviceType, Phases, FlashPhases
  <1>3. pc' \notin BeforeSetup
    BY DEF BeforeSetup, FlashPhases
  <1>4. need' /\ status' = "running"
    BY <1>1
  <1>5. ControlInv'
    BY <1>1, <1>3, <1>4 DEF ControlInv
  <1>6. SavesInv'
    BY <1>3, <1>4 DEF SavesInv, SuccessLeavesSavesZero, BeforeSetup,
                      FlashPhases, Banks
  <1>. QED
    BY <1>2, <1>5, <1>6 DEF IInv

\* The last case: a step that ended in Fail.
LEMMA FlashFailKeepsIInv ==
    ASSUME IInv, Fail, DeviceType', pc \in FlashPhases
    PROVE  IInv'
  <1>1. need
    BY DEF IInv, ControlInv, FlashPhases
  <1>. QED
    BY <1>1, FailKeepsIInv

LEMMA SelectEraseKeepsIInv ==
    ASSUME IInv, SelectWindowZeroForErase
    PROVE  IInv'
  <1>1. /\ pc = "select_erase" /\ pc \in FlashPhases /\ 0 \in Windows
        /\ verdict = "none"
    BY DEF SelectWindowZeroForErase, FlashPhases, Windows, IInv, VerifyInv
  <1>2. DeviceType'
    BY <1>1, EffectTypes DEF IInv, TypeOK, DeviceType, SelectWindowZeroForErase,
                             mem
  <1>3. CASE Fail
    BY <1>1, <1>2, <1>3, FlashFailKeepsIInv
  <1>4. CASE ~Fail
    <2>1. /\ pc' = "erase" /\ win' = 0 /\ grp' = 0 /\ addr' = 0
          /\ UNCHANGED <<size, skip, n, off, need, status, verdict, ok, faulted,
                         flash>>
      BY <1>4 DEF SelectWindowZeroForErase, SelectOk, Goto, mem
    <2>2. EraseInv'
      <3>1. ErasedBelow(0 * WindowLen + 0)'
        BY Constants DEF ErasedBelow, Units
      <3>. QED
        BY <2>1, <3>1, Constants DEF EraseInv, LastEraseWindow, ErasedBelow
    <2>3. ProgramInv' /\ VerifyInv'
      BY <1>1, <2>1 DEF ProgramInv, VerifyInv, VerifiedMeansWhole
    <2>. QED
      BY <1>1, <1>2, <2>1, <2>2, <2>3, FlashStepKeepsIInv
      DEF IInv, TypeOK, ControlInv, FlashPhases
  <1>. QED
    BY <1>3, <1>4

-----------------------------------------------------------------------------
(* Erase. *)

\* One erase command clears exactly the addresses the list skips over.
LEMMA StepSpans ==
    ASSUME NEW w \in Windows, NEW a \in Nat
    PROVE  /\ EraseStep(w, a) \in Nat /\ EraseStep(w, a) >= SectorLen
           /\ SectorSpan(w, a) = EraseStep(w, a)
  BY Constants DEF EraseStep, EvenEraseStep, OddEraseStep, SectorSpan, Windows

LEMMA EraseSectorKeepsIInv ==
    ASSUME IInv, EraseSector
    PROVE  IInv'
  <1>. DEFINE cleared == [u \in Units |-> IF u \in SectorUnits(win, addr)
                                         THEN "erased" ELSE flash[u]]
  <1>1. /\ pc = "erase" /\ pc \in FlashPhases /\ verdict = "none"
        /\ win = grp /\ grp =< LastEraseWindow(size)
        /\ ErasedBelow(grp * WindowLen + addr)
    BY DEF EraseSector, FlashPhases, IInv, VerifyInv, EraseInv
  <1>2. cleared \in [Units -> FlashContent]
    BY DEF IInv, TypeOK, FlashContent
  <1>3. flash' \in {flash, cleared}
    BY DEF EraseSector
  <1>4. DeviceType'
    BY <1>2, <1>3 DEF IInv, TypeOK, DeviceType, EraseSector
  <1>5. CASE Fail
    BY <1>1, <1>4, <1>5, FlashFailKeepsIInv
  <1>6. CASE ~Fail
    <2>1. /\ flash' = cleared /\ addr' = addr + EraseStep(grp, addr)
          /\ UNCHANGED <<size, skip, pc, n, grp, off, ok, need, status, verdict,
                         faulted, win>>
      BY <1>6 DEF EraseSector
    <2>2. /\ EraseStep(grp, addr) \in Nat /\ EraseStep(grp, addr) >= SectorLen
          /\ SectorSpan(grp, addr) = EraseStep(grp, addr)
          /\ grp \in Nat /\ addr \in Nat
      BY StepSpans DEF IInv, TypeOK, Windows
    <2>3. addr' \in Nat /\ addr' >= SectorLen
      BY <2>1, <2>2, Constants
    <2>4. ErasedBelow(grp * WindowLen + addr)'
      <3>. SUFFICES ASSUME NEW u \in Units, u < size',
                           u < grp' * WindowLen + addr'
                    PROVE  flash'[u] = "erased"
        BY DEF ErasedBelow
      <3>1. CASE u < grp * WindowLen + addr
        BY <3>1, <1>1, <2>1 DEF ErasedBelow
      <3>2. CASE ~(u < grp * WindowLen + addr)
        <4>1. u \in Nat /\ grp * WindowLen \in Nat
          BY <2>2, Constants DEF Units
        <4>2. /\ grp * WindowLen + addr =< u
              /\ u < grp * WindowLen + addr + SectorSpan(grp, addr)
          BY <3>2, <4>1, <2>1, <2>2
        <4>. QED
          BY <4>2, <1>1, <2>1 DEF SectorUnits
      <3>. QED
        BY <3>1, <3>2
    <2>5. EraseInv'
      BY <1>1, <2>1, <2>3, <2>4 DEF EraseInv
    <2>6. ProgramInv' /\ VerifyInv'
      BY <1>1, <2>1 DEF ProgramInv, VerifyInv, VerifiedMeansWhole
    <2>. QED
      BY <1>1, <1>4, <2>1, <2>3, <2>5, <2>6, FlashStepKeepsIInv
      DEF IInv, TypeOK, ControlInv, FlashPhases
  <1>. QED
    BY <1>5, <1>6

\* An exhausted list covered its window, as far as the image reaches into it.
LEMMA ExhaustedListCovers ==
    ASSUME TypeOK, ~EraseMore(size, grp, addr), grp =< LastEraseWindow(size),
           addr = 0 \/ addr >= SectorLen, NEW u \in Units, u < size,
           u < (grp + 1) * WindowLen
    PROVE  u < grp * WindowLen + addr
  <1>1. /\ size \in Nat /\ addr \in Nat /\ u \in Nat /\ grp \in {0, 1, 2, 3}
        /\ size =< 4 * WindowLen
    BY Constants DEF TypeOK, Windows, Units
  <1>2. CASE size =< WindowLen
    <2>1. addr >= size /\ grp = 0
      BY <1>1, <1>2, Constants DEF EraseMore, SelectiveMore, LastEraseWindow
    <2>. QED
      BY <1>1, <2>1, Constants
  <1>3. CASE size > WindowLen /\ grp = 2 /\ TinyWindow2Tail(size)
    <2>1. addr # 0 /\ size =< 2 * WindowLen + SectorLen
      BY <1>1, <1>3, Constants DEF EraseMore, TinyWindow2Tail
    <2>. QED
      BY <1>1, <1>3, <2>1, Constants
  <1>4. CASE size > WindowLen /\ ~(grp = 2 /\ TinyWindow2Tail(size))
    <2>1. addr >= WindowLen
      BY <1>1, <1>4, Constants DEF EraseMore
    <2>. QED
      BY <1>1, <2>1, Constants
  <1>. QED
    BY <1>1, <1>2, <1>3, <1>4, Constants

LEMMA NextEraseGroupKeepsIInv ==
    ASSUME IInv, NextEraseGroup
    PROVE  IInv'
  <1>1. /\ pc = "erase" /\ pc \in FlashPhases /\ verdict = "none"
        /\ grp < LastEraseWindow(size) /\ ~EraseMore(size, grp, addr)
        /\ addr = 0 \/ addr >= SectorLen
        /\ ErasedBelow(grp * WindowLen + addr)
    BY DEF NextEraseGroup, FlashPhases, IInv, VerifyInv, EraseInv
  <1>2. /\ grp \in {0, 1, 2, 3} /\ LastEraseWindow(size) \in {0, 1, 2, 3}
    BY DEF IInv, TypeOK, Windows, LastEraseWindow
  <1>3. grp + 1 \in Windows /\ grp + 1 =< LastEraseWindow(size)
    BY <1>1, <1>2 DEF Windows
  <1>4. DeviceType'
    BY <1>3, EffectTypes DEF IInv, TypeOK, DeviceType, NextEraseGroup, mem
  <1>5. CASE Fail
    BY <1>1, <1>4, <1>5, FlashFailKeepsIInv
  <1>6. CASE ~Fail
    <2>1. /\ win' = grp + 1 /\ grp' = grp + 1 /\ addr' = 0
          /\ UNCHANGED <<size, skip, pc, n, off, ok, need, status, verdict,
                         faulted, flash>>
      BY <1>6 DEF NextEraseGroup, SelectOk, mem
    <2>2. ErasedBelow(grp * WindowLen + addr)'
      <3>. SUFFICES ASSUME NEW u \in Units, u < size',
                           u < grp' * WindowLen + addr'
                    PROVE  flash'[u] = "erased"
        BY DEF ErasedBelow
      <3>1. u < (grp + 1) * WindowLen
        BY <2>1, <1>2, Constants DEF Units
      <3>2. grp =< LastEraseWindow(size) /\ u < size
        BY <1>2, <1>1, <2>1
      <3>3. u < grp * WindowLen + addr
        BY <1>1, <3>1, <3>2, ExhaustedListCovers DEF IInv
      <3>. QED
        BY <3>3, <1>1, <2>1 DEF ErasedBelow
    <2>3. EraseInv'
      BY <1>1, <1>3, <2>1, <2>2 DEF EraseInv
    <2>4. ProgramInv' /\ VerifyInv'
      BY <1>1, <2>1 DEF ProgramInv, VerifyInv, VerifiedMeansWhole
    <2>. QED
      BY <1>1, <1>3, <1>4, <2>1, <2>3, <2>4, FlashStepKeepsIInv
      DEF IInv, TypeOK, ControlInv, FlashPhases
  <1>. QED
    BY <1>5, <1>6

LEMMA EraseDoneKeepsIInv ==
    ASSUME IInv, EraseDone
    PROVE  IInv'
  <1>1. /\ pc = "erase" /\ pc \in FlashPhases /\ verdict = "none"
        /\ grp = LastEraseWindow(size) /\ ~EraseMore(size, grp, addr)
        /\ addr = 0 \/ addr >= SectorLen
        /\ ErasedBelow(grp * WindowLen + addr)
    BY DEF EraseDone, FlashPhases, IInv, VerifyInv, EraseInv
  <1>2. DeviceType'
    BY EffectTypes DEF IInv, TypeOK, DeviceType, EraseDone, mem, Windows
  <1>3. CASE Fail
    BY <1>1, <1>2, <1>3, FlashFailKeepsIInv
  <1>4. CASE ~Fail
    <2>1. /\ pc' = "select_program"
          /\ UNCHANGED <<size, skip, n, grp, addr, off, ok, need, status, verdict,
                         faulted, flash>>
      BY <1>4 DEF EraseDone, Goto, mem
    <2>2. ErasedBelow(size)'
      <3>. SUFFICES ASSUME NEW u \in Units, u < size
                    PROVE  flash[u] = "erased"
        BY <2>1 DEF ErasedBelow
      <3>1. u < (grp + 1) * WindowLen
        BY <1>1, Constants DEF LastEraseWindow, Units, IInv, TypeOK
      <3>2. grp =< LastEraseWindow(size)
        BY <1>1 DEF LastEraseWindow
      <3>3. u < grp * WindowLen + addr
        BY <1>1, <3>1, <3>2, ExhaustedListCovers DEF IInv
      <3>. QED
        BY <3>3, <1>1 DEF ErasedBelow
    <2>3. EraseInv' /\ ProgramInv' /\ VerifyInv'
      BY <1>1, <2>1, <2>2 DEF EraseInv, ProgramInv, VerifyInv, VerifiedMeansWhole
    <2>. QED
      BY <1>1, <1>2, <2>1, <2>3, FlashStepKeepsIInv
      DEF IInv, TypeOK, ControlInv, FlashPhases
  <1>. QED
    BY <1>3, <1>4

-----------------------------------------------------------------------------
(* Program. *)

LEMMA SelectProgramKeepsIInv ==
    ASSUME IInv, SelectWindowZeroForProgram
    PROVE  IInv'
  <1>1. /\ pc = "select_program" /\ pc \in FlashPhases /\ 0 \in Windows
        /\ verdict = "none" /\ ErasedBelow(size)
    BY DEF SelectWindowZeroForProgram, FlashPhases, Windows, IInv, VerifyInv,
           EraseInv
  <1>2. DeviceType'
    BY <1>1, EffectTypes
    DEF IInv, TypeOK, DeviceType, SelectWindowZeroForProgram, mem
  <1>3. CASE Fail
    BY <1>1, <1>2, <1>3, FlashFailKeepsIInv
  <1>4. CASE ~Fail
    <2>1. /\ pc' = "program" /\ win' = 0 /\ off' = 0
          /\ UNCHANGED <<size, skip, n, grp, addr, need, status, verdict, ok,
                         faulted, flash>>
      BY <1>4 DEF SelectWindowZeroForProgram, SelectOk, Goto, mem
    <2>2. WindowOf(0) = 0 /\ 0 % BlockLen = 0 /\ 0 < size
      BY Constants, Z3 DEF WindowOf, IInv, TypeOK
    <2>3. ProgramInv'
      BY <1>1, <2>1, <2>2 DEF ProgramInv, ErasedBelow
    <2>4. EraseInv' /\ VerifyInv'
      BY <1>1, <2>1 DEF EraseInv, VerifyInv, VerifiedMeansWhole
    <2>. QED
      BY <1>1, <1>2, <2>1, <2>3, <2>4, FlashStepKeepsIInv
      DEF IInv, TypeOK, ControlInv, FlashPhases
  <1>. QED
    BY <1>3, <1>4

\* A block of the program loop lies in the image, in its own window.
LEMMA BlockFacts ==
    ASSUME TypeOK, off < size, off % BlockLen = 0
    PROVE  /\ off \in Units /\ off \in Nat /\ size \in Nat
           /\ BlockLength(off) \in Nat \ {0}
           /\ BlockLength(off) =< BlockLen /\ off + BlockLength(off) =< size
           /\ off + BlockLength(off) < size => BlockLength(off) = BlockLen
           /\ WindowOf(off) \in Windows
           /\ off = WindowOf(off) * WindowLen + Local(off)
           /\ Local(off) + BlockLen =< WindowLen
           /\ (off + BlockLen) % BlockLen = 0
           /\ (off + BlockLen) % WindowLen # 0
                => WindowOf(off + BlockLen) = WindowOf(off)
  <1>1. off \in Units /\ off \in Nat /\ size \in Nat
    BY Constants DEF TypeOK
  <1>2. /\ BlockLength(off) \in Nat \ {0} /\ BlockLength(off) =< BlockLen
        /\ off + BlockLength(off) =< size
        /\ off + BlockLength(off) < size => BlockLength(off) = BlockLen
    BY <1>1, Constants DEF BlockLength
  <1>3. WindowOf(off) \in Windows /\ off = WindowOf(off) * WindowLen + Local(off)
    BY <1>1, WindowSplit
  <1>. QED
    BY <1>1, <1>2, <1>3, BlockStaysInWindow

LEMMA ProgramBlockKeepsIInv ==
    ASSUME IInv, ProgramBlock
    PROVE  IInv'
  <1>1. /\ pc = "program" /\ pc \in FlashPhases /\ verdict = "none"
        /\ off < size /\ off % BlockLen = 0 /\ win = WindowOf(off)
        /\ \A u \in Units : off =< u /\ u < size => flash[u] = "erased"
    BY DEF ProgramBlock, FlashPhases, IInv, VerifyInv, ProgramInv
  <1>2. \A good \in BOOLEAN : Programmed(good) \in [Units -> FlashContent]
    BY DEF IInv, TypeOK, Programmed, FlashContent
  <1>3. flash' \in {flash, Programmed(TRUE), Programmed(FALSE)}
    BY DEF ProgramBlock
  <1>4. bad' \in Nat
    <2>1. bad' = bad \/ bad' = bad + 1
      BY Zenon DEF ProgramBlock
    <2>. QED
      BY <2>1 DEF IInv, TypeOK
  <1>5. DeviceType'
    BY <1>2, <1>3, <1>4 DEF IInv, TypeOK, DeviceType, ProgramBlock
  <1>6. CASE Fail
    BY <1>1, <1>5, <1>6, FlashFailKeepsIInv
  <1>7. CASE ~Fail
    <2>1. /\ flash' \in {Programmed(TRUE), Programmed(FALSE)}
          /\ off' = off + BlockLength(off) /\ pc' = ProgramFrom(off')
          /\ UNCHANGED <<size, skip, n, grp, addr, status, verdict, win>>
      BY <1>7 DEF ProgramBlock
    <2>2. UNCHANGED <<ok, need>> /\ faulted' \in BOOLEAN
      BY <1>7, Zenon DEF ProgramBlock, IInv, TypeOK
    <2>3. TypeOK
      BY DEF IInv
    <2>4. /\ off \in Nat /\ off' \in Nat /\ size \in Nat
          /\ off' < size => off' = off + BlockLen
      BY <1>1, <2>1, <2>3, BlockFacts
    <2>5. pc' \in {"program", "switch_program"} => off' < size
      BY <2>1, <2>4 DEF ProgramFrom, AfterProgram
    <2>6. off' < size => off' % BlockLen = 0
      BY <1>1, <2>3, <2>4, BlockFacts
    <2>7. ASSUME NEW u \in Units, off' =< u, u < size
          PROVE  flash'[u] = "erased"
      <3>1. u \in Nat /\ ~(u < Target + BlockLength(off)) /\ off =< u
        <4>1. Target = off
          BY <1>1, <2>3, BlockFacts DEF Target
        <4>. QED
          BY <2>1, <2>3, <2>4, <2>7, <4>1, <1>1, BlockFacts, Constants
      <3>2. flash'[u] = flash[u]
        BY <2>1, <3>1 DEF Programmed
      <3>. QED
        BY <1>1, <2>7, <3>1, <3>2
    <2>8. pc' = "program" => win' = WindowOf(off')
      <3>1. SUFFICES ASSUME pc' = "program"
                     PROVE  WindowOf(off') = WindowOf(off)
        BY <1>1, <2>1
      <3>2. off' % WindowLen # 0 /\ off' < size
        BY <2>1, <2>5, <3>1 DEF ProgramFrom, AfterProgram
      <3>. QED
        BY <1>1, <2>3, <2>4, <3>2, BlockFacts
    <2>9. ProgramInv'
      BY <2>1, <2>5, <2>6, <2>7, <2>8 DEF ProgramInv
    <2>10. pc' \in {"program", "switch_program", "finalize", "map_verify"}
      BY <2>1 DEF ProgramFrom, AfterProgram
    <2>11. EraseInv' /\ VerifyInv'
      BY <1>1, <2>1, <2>10 DEF EraseInv, VerifyInv, VerifiedMeansWhole
    <2>12. ok
      BY <1>1 DEF IInv, ControlInv
    <2>13. /\ pc' \in FlashPhases /\ pc' # "clear"
           /\ n \in Nat /\ grp \in Windows /\ addr \in Nat /\ ok \in BOOLEAN
      BY <2>3, <2>10 DEF FlashPhases, TypeOK
    <2>. QED
      BY <1>1, <1>5, <2>1, <2>2, <2>4, <2>9, <2>11, <2>12, <2>13,
         FlashStepKeepsIInv
  <1>. QED
    BY <1>6, <1>7

LEMMA SwitchKeepsIInv ==
    ASSUME IInv, SwitchProgramWindow
    PROVE  IInv'
  <1>1. /\ pc = "switch_program" /\ pc \in FlashPhases /\ verdict = "none"
        /\ off < size /\ off % BlockLen = 0
        /\ \A u \in Units : off =< u /\ u < size => flash[u] = "erased"
    BY DEF SwitchProgramWindow, FlashPhases, IInv, VerifyInv, ProgramInv
  <1>2. WindowOf(off) \in Windows
    BY <1>1, BlockFacts DEF IInv
  <1>3. DeviceType'
    BY <1>2, EffectTypes DEF IInv, TypeOK, DeviceType, SwitchProgramWindow, mem
  <1>4. CASE Fail
    BY <1>1, <1>3, <1>4, FlashFailKeepsIInv
  <1>5. CASE ~Fail
    <2>1. /\ pc' = "program" /\ win' = WindowOf(off)
          /\ UNCHANGED <<size, skip, n, grp, addr, off, need, status, verdict, ok,
                         faulted, flash>>
      BY <1>5 DEF SwitchProgramWindow, SelectOk, Goto, mem
    <2>2. EraseInv' /\ ProgramInv' /\ VerifyInv'
      BY <1>1, <2>1
      DEF EraseInv, ProgramInv, VerifyInv, VerifiedMeansWhole, WindowOf
    <2>. QED
      BY <1>1, <1>3, <2>1, <2>2, FlashStepKeepsIInv
      DEF IInv, TypeOK, ControlInv, FlashPhases
  <1>. QED
    BY <1>4, <1>5

-----------------------------------------------------------------------------
(* Verify, and the paths without it. *)

LEMMA FinalizeKeepsIInv ==
    ASSUME IInv, Finalize
    PROVE  IInv'
  <1>1. pc = "finalize" /\ pc \in FlashPhases
    BY DEF Finalize, FlashPhases
  <1>2. DeviceType'
    BY EffectTypes DEF IInv, TypeOK, DeviceType, Finalize, mem, Windows
  <1>3. CASE Fail
    BY <1>1, <1>2, <1>3, FlashFailKeepsIInv
  <1>4. CASE ~Fail
    <2>1. /\ pc' = "clear" /\ n' = 0
          /\ verdict' \in {"skipped_by_user", "skipped_unproven"}
          /\ UNCHANGED <<size, skip, grp, addr, off, ok, need, status, faulted,
                         flash>>
      BY <1>4 DEF Finalize, mem
    <2>2. EraseInv' /\ ProgramInv' /\ VerifyInv'
      BY <2>1 DEF EraseInv, ProgramInv, VerifyInv, VerifiedMeansWhole,
                  BeforeSetup, FlashPhases
    <2>3. pc' \notin FlashPhases /\ pc' \in FlashPhases \cup {"clear"}
      BY <2>1 DEF FlashPhases
    <2>. QED
      BY <1>1, <1>2, <2>1, <2>2, <2>3, FlashStepKeepsIInv DEF IInv, TypeOK
  <1>. QED
    BY <1>3, <1>4

LEMMA MapVerifyKeepsIInv ==
    ASSUME IInv, MapVerify
    PROVE  IInv'
  <1>1. pc = "map_verify" /\ pc \in FlashPhases /\ verdict = "none"
    BY DEF MapVerify, FlashPhases, IInv, VerifyInv
  <1>2. DeviceType'
    BY MarkedType DEF IInv, TypeOK, DeviceType, MapVerify, mem
  <1>3. CASE Fail
    BY <1>1, <1>2, <1>3, FlashFailKeepsIInv
  <1>4. CASE ~Fail
    <2>1. /\ pc' = "verify" /\ off' = 0
          /\ UNCHANGED <<size, skip, n, grp, addr, ok, need, status, verdict,
                         faulted, flash>>
      BY <1>4 DEF MapVerify, Goto, mem
    <2>2. \A u \in Units : ~(u < 0)
      BY Constants DEF Units
    <2>3. EraseInv' /\ ProgramInv' /\ VerifyInv'
      BY <1>1, <2>1, <2>2 DEF EraseInv, ProgramInv, VerifyInv, VerifiedMeansWhole
    <2>. QED
      BY <1>1, <1>2, <2>1, <2>3, FlashStepKeepsIInv
      DEF IInv, TypeOK, ControlInv, FlashPhases
  <1>. QED
    BY <1>3, <1>4

\* The read-back extent covers the image.
LEMMA ExtentCovers ==
    ASSUME TypeOK
    PROVE  VerifyExtent(size) \in Nat /\ size =< VerifyExtent(size)
  <1>1. size \in Nat
    BY Constants DEF TypeOK
  <1>. QED
    BY <1>1, RoundUpCovers DEF VerifyExtent

LEMMA VerifyBlockKeepsIInv ==
    ASSUME IInv, VerifyBlock
    PROVE  IInv'
  <1>1. /\ pc = "verify" /\ pc \in FlashPhases /\ verdict = "none"
        /\ off < VerifyExtent(size)
        /\ \A u \in Units : u < size /\ u < off => flash[u] = "image"
    BY DEF VerifyBlock, FlashPhases, IInv, VerifyInv
  <1>2. DeviceType'
    BY DEF IInv, TypeOK, DeviceType, VerifyBlock, dev
  <1>3. CASE Fail
    BY <1>1, <1>2, <1>3, FlashFailKeepsIInv
  <1>4. CASE pc' = "clear" /\ ~Fail
    <2>1. /\ n' = 0
          /\ UNCHANGED <<size, skip, grp, addr, off, need, status, verdict, flash>>
      BY <1>1, <1>4 DEF VerifyBlock, dev
    <2>2. ok' \in BOOLEAN /\ faulted' \in BOOLEAN
      BY <1>4, Zenon DEF VerifyBlock, IInv, TypeOK
    <2>3. pc' \notin FlashPhases /\ pc' \in FlashPhases \cup {"clear"}
      BY <1>4 DEF FlashPhases
    <2>4. EraseInv' /\ ProgramInv' /\ VerifyInv'
      BY <1>1, <1>4, <2>1
      DEF EraseInv, ProgramInv, VerifyInv, VerifiedMeansWhole
    <2>. QED
      BY <1>1, <1>2, <2>1, <2>2, <2>3, <2>4, FlashStepKeepsIInv DEF IInv, TypeOK
  <1>5. CASE pc' # "clear" /\ ~Fail
    <2>1. /\ \A a \in off..(off + VerifyLength - 1) : UnitMatches(a)
          /\ off' = off + VerifyLength
          /\ UNCHANGED <<size, skip, pc, n, grp, addr, ok, need, status, verdict,
                         faulted, flash>>
      BY <1>5 DEF VerifyBlock, dev
    <2>2. off \in Nat /\ VerifyLength \in Nat /\ size \in Nat
      BY <1>1, ExtentCovers, Constants DEF IInv, TypeOK, VerifyLength
    <2>3. ASSUME NEW u \in Units, u < size, u < off'
          PROVE  flash[u] = "image"
      <3>1. CASE u < off
        BY <1>1, <2>3, <3>1
      <3>2. CASE ~(u < off)
        <4>1. u \in off..(off + VerifyLength - 1)
          BY <2>1, <2>2, <2>3, <3>2, Constants DEF Units
        <4>. QED
          BY <2>1, <2>3, <4>1 DEF UnitMatches
      <3>. QED
        BY <3>1, <3>2
    <2>4. VerifyInv'
      BY <1>1, <2>1, <2>3 DEF VerifyInv, VerifiedMeansWhole
    <2>5. EraseInv' /\ ProgramInv' /\ off' \in Nat
      BY <1>1, <2>1, <2>2 DEF EraseInv, ProgramInv
    <2>. QED
      BY <1>1, <1>2, <2>1, <2>4, <2>5, FlashStepKeepsIInv
      DEF IInv, TypeOK, ControlInv, FlashPhases
  <1>. QED
    BY <1>3, <1>4, <1>5

LEMMA VerifyDoneKeepsIInv ==
    ASSUME IInv, VerifyDone
    PROVE  IInv'
  <1>1. /\ pc = "verify" /\ pc \in FlashPhases
        /\ off >= VerifyExtent(size)
        /\ \A u \in Units : u < size /\ u < off => flash[u] = "image"
        /\ pc' = "clear" /\ n' = 0 /\ verdict' = "verified"
        /\ UNCHANGED <<size, skip, grp, addr, off, ok, need, status, faulted,
                       win, map, flash, bank, saves, bad>>
    BY DEF VerifyDone, FlashPhases, IInv, VerifyInv, dev
  <1>2. DeviceType'
    BY <1>1 DEF IInv, TypeOK, DeviceType
  <1>3. ASSUME NEW u \in 0..(size - 1)
        PROVE  flash[u] = "image"
    <2>1. u \in Units /\ u < size /\ off \in Nat
      BY Constants DEF IInv, TypeOK
    <2>2. u < off
      BY <1>1, <2>1, ExtentCovers, Constants DEF IInv, TypeOK
    <2>. QED
      BY <1>1, <2>1, <2>2
  <1>4. EraseInv' /\ ProgramInv'
    BY <1>1 DEF EraseInv, ProgramInv
  <1>5. VerifyInv'
    BY <1>1, <1>3 DEF VerifyInv, VerifiedMeansWhole, ImageUnits, BeforeSetup,
                      FlashPhases
  <1>6. pc' \notin FlashPhases /\ pc' \in FlashPhases \cup {"clear"}
    BY <1>1 DEF FlashPhases
  <1>. QED
    BY <1>1, <1>2, <1>4, <1>5, <1>6, FlashStepKeepsIInv DEF IInv, TypeOK

-----------------------------------------------------------------------------
(* Theorems. *)

LEMMA InitIInv == Init => IInv
  <1>. SUFFICES ASSUME Init PROVE IInv
    OBVIOUS
  <1>1. TypeOK
    <2>1. skip \in BOOLEAN /\ ok \in BOOLEAN /\ need \in BOOLEAN /\ faulted \in BOOLEAN
      BY Zenon DEF Init
    <2>2. flash \in [Units -> FlashContent] /\ saves \in [Banks -> SaveContent]
      BY DEF Init, FlashContent, SaveContent
    <2>3. /\ size \in Sizes /\ pc \in Phases /\ n \in Nat /\ grp \in Windows
          /\ addr \in Nat /\ off \in Nat /\ status = "running"
          /\ verdict = "none" /\ win \in Windows
          /\ map \in Windows \cup {Linear} /\ bank \in Banks /\ bad \in Nat
      BY DEF Init, Phases, Windows
    <2>. QED
      BY <2>1, <2>2, <2>3 DEF TypeOK
  <1>2. ControlInv
    BY DEF Init, ControlInv, BeforeSetup, FlashPhases
  <1>3. EraseInv /\ ProgramInv /\ VerifyInv /\ SavesInv
    BY DEF Init, EraseInv, ProgramInv, VerifyInv, SavesInv, VerifiedMeansWhole,
           SuccessLeavesSavesZero
  <1>. QED
    BY <1>1, <1>2, <1>3 DEF IInv

LEMMA StutterKeepsIInv ==
    ASSUME IInv, UNCHANGED vars
    PROVE  IInv'
  BY DEF IInv, TypeOK, ControlInv, EraseInv, ProgramInv, VerifyInv, SavesInv,
         VerifiedMeansWhole, SuccessLeavesSavesZero, ErasedBelow, ImageUnits,
         vars, ctl, dev

\* Every step of a session keeps the invariant, whichever transfers fail.
LEMMA NextKeepsIInv == IInv /\ [Next]_vars => IInv'
  BY SetupKeepsIInv, PrepareKeepsIInv, ClearKeepsIInv, SelectEraseKeepsIInv,
     EraseSectorKeepsIInv, NextEraseGroupKeepsIInv, EraseDoneKeepsIInv,
     SelectProgramKeepsIInv, ProgramBlockKeepsIInv, SwitchKeepsIInv,
     FinalizeKeepsIInv, MapVerifyKeepsIInv, VerifyBlockKeepsIInv,
     VerifyDoneKeepsIInv, StutterKeepsIInv
  DEF Next, Step, Returned

\* The inductive invariant holds of every session: for every geometry, image
\* size, number of polls and of silently corrupted blocks.
THEOREM Invariance == Spec => []IInv
  BY InitIInv, NextKeepsIInv, PTL DEF Spec

\* Type correctness.
THEOREM TypeCorrect == Spec => []TypeOK
  <1>1. IInv => TypeOK
    BY DEF IInv
  <1>. QED
    BY Invariance, <1>1, PTL

\* The erase lists clear every unit that the program loop reaches, in the
\* window and at the address it reaches it, whatever the image size.
THEOREM ErasedBeforeProgrammed == Spec => []ProgramsErasedTarget
  <1>1. IInv => ProgramsErasedTarget
    <2>. SUFFICES ASSUME IInv, pc = "program"
                  PROVE  /\ win = WindowOf(off)
                         /\ \A i \in 0..(BlockLength(off) - 1) :
                               /\ Local(off) + i < WindowLen
                               /\ flash[off + i] = "erased"
      BY DEF ProgramsErasedTarget
    <2>1. /\ TypeOK /\ off < size /\ off % BlockLen = 0 /\ win = WindowOf(off)
          /\ \A u \in Units : off =< u /\ u < size => flash[u] = "erased"
      BY DEF IInv, ProgramInv
    <2>2. ASSUME NEW i \in 0..(BlockLength(off) - 1)
          PROVE  Local(off) + i < WindowLen /\ flash[off + i] = "erased"
      <3>1. /\ i \in Nat /\ i < BlockLength(off) /\ BlockLength(off) =< BlockLen
            /\ off + BlockLength(off) =< size /\ off \in Nat /\ size \in Nat
            /\ BlockLength(off) \in Nat
        BY <2>1, <2>2, BlockFacts
      <3>2. /\ Local(off) + BlockLen =< WindowLen /\ Local(off) \in Nat
        BY <2>1, BlockFacts, WindowSplit
      <3>3. off + i \in Units /\ off =< off + i /\ off + i < size
        BY <3>1, <2>1, Constants DEF TypeOK
      <3>. QED
        BY <2>1, <3>1, <3>2, <3>3, Constants
    <2>. QED
      BY <2>1, <2>2
  <1>. QED
    BY Invariance, <1>1, PTL

\* A run that reports the image verified left the whole image on the card.
THEOREM VerifiedIsWhole == Spec => []VerifiedMeansWhole
  <1>1. IInv => VerifiedMeansWhole
    BY DEF IInv, VerifyInv
  <1>. QED
    BY Invariance, <1>1, PTL

\* The flash is still intact unless the first save clear succeeded.
THEOREM FlashAfterSetup == Spec => []FlashTouchedOnlyAfterSetup
  <1>1. IInv => FlashTouchedOnlyAfterSetup
    BY DEF IInv, ControlInv, FlashTouchedOnlyAfterSetup
  <1>. QED
    BY Invariance, <1>1, PTL

\* With save cells that keep what they acknowledged, success leaves the four
\* banks zero.
THEOREM SuccessIsClean ==
    ASSUME SilentClearFault = FALSE
    PROVE  Spec => []SuccessLeavesSavesZero
  <1>1. IInv => SuccessLeavesSavesZero
    BY DEF IInv, SavesInv
  <1>. QED
    BY Invariance, <1>1, PTL

-----------------------------------------------------------------------------
(* The windows above the image.  An erase command reaches the end of its     *)
(* window at most, because the boot sectors' list entries lie on sector      *)
(* boundaries and the others on block boundaries.                            *)

\* The addresses whose sector is a block.
BlockSector(w, a) ==
    IF w \in {0, 2} THEN a >= BlockLen ELSE a < WindowLen - BlockLen

AlignInv ==
    pc = "erase" =>
        /\ addr % SectorLen = 0
        /\ BlockSector(grp, addr) => addr % BlockLen = 0

KeepInv == AlignInv /\ HigherWindowsKept

LEMMA SumMultiple ==
    ASSUME NEW x \in Nat, NEW y \in Nat, NEW m \in Nat \ {0},
           x % m = 0, y % m = 0
    PROVE  (x + y) % m = 0
  <1>1. PICK j \in Nat : x = m * j
    BY Divisible
  <1>2. PICK k \in Nat : y = m * k
    BY Divisible
  <1>3. j + k \in Nat /\ x + y = m * (j + k)
    BY <1>1, <1>2, Z3
  <1>4. (m * (j + k)) % m = 0
    BY <1>3, ProductMod
  <1>. QED
    BY <1>3, <1>4, Zenon

\* A block is whole sectors and a window whole blocks.
LEMMA Boundaries ==
    /\ 0 % SectorLen = 0 /\ 0 % BlockLen = 0
    /\ BlockLen % SectorLen = 0 /\ BlockLen % BlockLen = 0
    /\ WindowLen % BlockLen = 0 /\ WindowLen % SectorLen = 0
    /\ (WindowLen - BlockLen) % BlockLen = 0
    /\ WindowLen - BlockLen \in Nat /\ BlockLen =< WindowLen - BlockLen
  <1>1. /\ BlockLen % SectorLen = 0 /\ 0 % SectorLen = 0 /\ 0 % BlockLen = 0
        /\ WindowLen - BlockLen \in Nat /\ BlockLen =< WindowLen - BlockLen
    BY Constants, GeometryAssumption, Z3
  <1>2. BlockLen % BlockLen = 0
    BY Constants, Z3
  <1>3. (1 * WindowLen) % BlockLen = 0
    BY WindowsHoldBlocks
  <1>4. WindowLen % BlockLen = 0
    BY <1>3, Constants, Z3
  <1>5. PICK j \in Nat : BlockLen = SectorLen * j
    BY <1>1, Constants, Divisible
  <1>6. PICK k \in Nat : WindowLen = BlockLen * k
    BY <1>4, Constants, Divisible
  <1>7. WindowLen % SectorLen = 0
    <2>1. j * k \in Nat /\ WindowLen = SectorLen * (j * k)
      BY <1>5, <1>6, Constants, Z3
    <2>2. (SectorLen * (j * k)) % SectorLen = 0
      BY <2>1, Constants, ProductMod
    <2>. QED
      BY <2>1, <2>2, Zenon
  <1>8. (WindowLen - BlockLen) % BlockLen = 0
    <2>1. k - 1 \in Nat /\ WindowLen - BlockLen = BlockLen * (k - 1)
      <3>1. k > 0
        BY <1>6, Constants
      <3>. QED
        BY <1>6, <3>1, Constants, Z3
    <2>2. (BlockLen * (k - 1)) % BlockLen = 0
      BY <2>1, Constants, ProductMod
    <2>. QED
      BY <2>1, <2>2, Zenon
  <1>. QED
    BY <1>1, <1>2, <1>4, <1>7, <1>8

\* One entry of an erase list on: aligned again, and not past the window.
LEMMA StepAligned ==
    ASSUME NEW w \in Windows, NEW a \in Nat, a < WindowLen, a % SectorLen = 0,
           BlockSector(w, a) => a % BlockLen = 0
    PROVE  /\ a + EraseStep(w, a) =< WindowLen
           /\ (a + EraseStep(w, a)) % SectorLen = 0
           /\ BlockSector(w, a + EraseStep(w, a))
                => (a + EraseStep(w, a)) % BlockLen = 0
  <1>1. CASE BlockSector(w, a)
    <2>1. EraseStep(w, a) = BlockLen
      BY <1>1, Constants DEF EraseStep, EvenEraseStep, OddEraseStep, BlockSector
    <2>2. a + BlockLen =< WindowLen
      BY <1>1, Boundaries, Constants, MultipleGap
    <2>3. (a + BlockLen) % SectorLen = 0
      BY Boundaries, Constants, SumMultiple
    <2>4. (a + BlockLen) % BlockLen = 0
      BY <1>1, Constants, NextMultiple
    <2>. QED
      BY <2>1, <2>2, <2>3, <2>4
  <1>2. CASE ~BlockSector(w, a)
    <2>1. EraseStep(w, a) = SectorLen
      BY <1>2, Constants DEF EraseStep, EvenEraseStep, OddEraseStep, BlockSector
    <2>2. a + SectorLen =< WindowLen
      BY Boundaries, Constants, MultipleGap
    <2>3. (a + SectorLen) % SectorLen = 0
      BY Constants, NextMultiple
    <2>4. BlockSector(w, a + SectorLen) => (a + SectorLen) % BlockLen = 0
      <3>1. CASE w \in {0, 2} /\ BlockSector(w, a + SectorLen)
        <4>1. a < BlockLen /\ a + SectorLen >= BlockLen
          BY <1>2, <3>1, Constants DEF BlockSector
        <4>2. a + SectorLen =< BlockLen
          BY <4>1, Boundaries, Constants, MultipleGap
        <4>3. a + SectorLen = BlockLen
          BY <4>1, <4>2, Constants
        <4>. QED
          BY <4>3, Boundaries
      <3>2. CASE w \notin {0, 2}
        BY <1>2, <3>2, Constants DEF BlockSector
      <3>. QED
        BY <3>1, <3>2
    <2>. QED
      BY <2>1, <2>2, <2>3, <2>4
  <1>. QED
    BY <1>1, <1>2

\* A listed address lies in its window.
LEMMA ListedInWindow ==
    ASSUME TypeOK, EraseMore(size, grp, addr)
    PROVE  addr < WindowLen
  BY Constants, GeometryAssumption
  DEF TypeOK, EraseMore, SelectiveMore, TinyWindow2Tail

LEMMA WindowMonotone ==
    ASSUME NEW x \in Nat, NEW y \in Nat, x =< y
    PROVE  WindowOf(x) =< WindowOf(y) /\ WindowOf(x) \in Nat /\ WindowOf(y) \in Nat
  BY Constants, Z3 DEF WindowOf

\* The last erased group is the window of the image's last unit.
LEMMA LastGroupReached ==
    ASSUME TypeOK
    PROVE  LastEraseWindow(size) =< WindowOf(size - 1)
  <1>1. size \in Nat /\ size >= 1
    BY Constants DEF TypeOK
  <1>2. \A k \in 1..3 : size > k * WindowLen => WindowOf(size - 1) >= k
    BY <1>1, Constants, Z3 DEF WindowOf
  <1>3. WindowOf(size - 1) \in Nat
    BY <1>1, Constants, Z3 DEF WindowOf
  <1>. QED
    BY <1>1, <1>2, <1>3, Constants, Z3 DEF LastEraseWindow

\* Both halves of the invariant survive a step that leaves the flash alone and
\* does not move the erase cursor.
LEMMA QuietKeeps ==
    ASSUME KeepInv, UNCHANGED <<size, flash>>,
           pc' = "erase" => pc = "erase" /\ UNCHANGED <<grp, addr>>
    PROVE  KeepInv'
  BY DEF KeepInv, AlignInv, HigherWindowsKept, BlockSector, WindowOf

LEMMA EraseSectorKeeps ==
    ASSUME IInv, KeepInv, EraseSector
    PROVE  KeepInv'
  <1>. DEFINE cleared == [u \in Units |-> IF u \in SectorUnits(win, addr)
                                         THEN "erased" ELSE flash[u]]
  <1>1. /\ pc = "erase" /\ EraseMore(size, grp, addr) /\ TypeOK
        /\ win = grp /\ grp =< LastEraseWindow(size)
        /\ addr \in Nat /\ grp \in Windows /\ grp \in Nat
        /\ size \in Nat /\ size >= 1
    BY Constants DEF EraseSector, IInv, EraseInv, TypeOK, Windows
  <1>2. addr < WindowLen
    BY <1>1, ListedInWindow
  <1>3. /\ addr % SectorLen = 0
        /\ BlockSector(grp, addr) => addr % BlockLen = 0
    BY <1>1 DEF KeepInv, AlignInv
  <1>4. /\ addr + EraseStep(grp, addr) =< WindowLen
        /\ (addr + EraseStep(grp, addr)) % SectorLen = 0
        /\ BlockSector(grp, addr + EraseStep(grp, addr))
             => (addr + EraseStep(grp, addr)) % BlockLen = 0
        /\ SectorSpan(grp, addr) = EraseStep(grp, addr)
        /\ EraseStep(grp, addr) \in Nat
    BY <1>1, <1>2, <1>3, StepAligned, StepSpans
  <1>5. UNCHANGED <<size, grp>> /\ flash' \in {flash, cleared}
    BY DEF EraseSector, Fail
  <1>6. AlignInv'
    <2>1. pc' = "erase" => addr' = addr + EraseStep(grp, addr)
      BY <1>1 DEF EraseSector, Fail
    <2>. QED
      BY <1>4, <1>5, <2>1 DEF AlignInv, BlockSector
  <1>7. HigherWindowsKept'
    <2>. SUFFICES ASSUME NEW u \in Units, WindowOf(u) > WindowOf(size - 1)
                  PROVE  flash'[u] = "old"
      BY <1>5 DEF HigherWindowsKept, WindowOf
    <2>1. flash[u] = "old"
      BY DEF KeepInv, HigherWindowsKept
    <2>2. u \notin SectorUnits(grp, addr)
      <3>. SUFFICES ASSUME u \in SectorUnits(grp, addr)
                    PROVE  FALSE
        OBVIOUS
      <3>1. grp * WindowLen \in Nat /\ u \in Nat
        BY <1>1, Constants
      <3>2. /\ grp * WindowLen =< u /\ u < grp * WindowLen + WindowLen
        BY <1>1, <1>4, <3>1, Constants DEF SectorUnits
      <3>3. /\ u - grp * WindowLen \in 0..(WindowLen - 1)
            /\ u = grp * WindowLen + (u - grp * WindowLen)
        BY <3>1, <3>2, Constants
      <3>4. WindowOf(u) = grp
        BY <1>1, <3>1, <3>3, WindowOfRange
      <3>5. LastEraseWindow(size) =< WindowOf(size - 1)
        BY <1>1, LastGroupReached
      <3>6. WindowOf(size - 1) \in Nat /\ LastEraseWindow(size) \in Nat
        <4>1. size - 1 \in Nat
          BY <1>1
        <4>. QED
          BY <4>1, WindowMonotone DEF LastEraseWindow
      <3>. QED
        BY <1>1, <3>4, <3>5, <3>6
    <2>. QED
      BY <1>1, <1>5, <2>1, <2>2
  <1>. QED
    BY <1>6, <1>7 DEF KeepInv

LEMMA ProgramBlockKeeps ==
    ASSUME IInv, KeepInv, ProgramBlock
    PROVE  KeepInv'
  <1>1. /\ pc = "program" /\ off < size /\ off % BlockLen = 0 /\ TypeOK
        /\ win = WindowOf(off)
    BY DEF ProgramBlock, IInv, ProgramInv
  <1>2. /\ off \in Nat /\ size \in Nat /\ BlockLength(off) \in Nat
        /\ off + BlockLength(off) =< size /\ Target = off
    BY <1>1, BlockFacts DEF Target
  <1>3. UNCHANGED size /\ flash' \in {flash, Programmed(TRUE), Programmed(FALSE)}
    BY DEF ProgramBlock, Fail
  <1>4. pc' # "erase"
    BY <1>1 DEF ProgramBlock, Fail, ProgramFrom, AfterProgram
  <1>5. HigherWindowsKept'
    <2>. SUFFICES ASSUME NEW u \in Units, WindowOf(u) > WindowOf(size - 1)
                  PROVE  flash'[u] = "old"
      BY <1>3 DEF HigherWindowsKept, WindowOf
    <2>1. flash[u] = "old" /\ u \in Nat
      BY Constants DEF KeepInv, HigherWindowsKept
    <2>2. ~(u < Target + BlockLength(off))
      <3>1. u =< size - 1 => WindowOf(u) =< WindowOf(size - 1)
        BY <1>1, <1>2, <2>1, WindowMonotone
      <3>2. WindowOf(u) \in Nat /\ WindowOf(size - 1) \in Nat
        BY <1>1, <1>2, <2>1, WindowMonotone
      <3>. QED
        BY <1>2, <2>1, <3>1, <3>2
    <2>3. \A good \in BOOLEAN : Programmed(good)[u] = flash[u]
      BY <2>2 DEF Programmed
    <2>. QED
      BY <1>3, <2>1, <2>3
  <1>. QED
    BY <1>4, <1>5 DEF KeepInv, AlignInv

LEMMA SelectEraseKeeps ==
    ASSUME IInv, KeepInv, SelectWindowZeroForErase \/ NextEraseGroup
    PROVE  KeepInv'
  <1>1. UNCHANGED <<size, flash>>
    BY DEF SelectWindowZeroForErase, NextEraseGroup, Fail, mem
  <1>2. pc' = "erase" => grp' \in Windows /\ addr' = 0
    <2>1. 0 \in Windows /\ (NextEraseGroup => grp + 1 \in Windows)
      BY DEF NextEraseGroup, IInv, TypeOK, Windows, LastEraseWindow
    <2>. QED
      BY <2>1 DEF SelectWindowZeroForErase, NextEraseGroup, Fail, Goto
  <1>3. 0 % SectorLen = 0 /\ 0 % BlockLen = 0
    BY Boundaries
  <1>. QED
    BY <1>1, <1>2, <1>3 DEF KeepInv, AlignInv, HigherWindowsKept, WindowOf

LEMMA NextKeepsKeepInv == IInv /\ KeepInv /\ [Next]_vars => KeepInv'
  <1>. SUFFICES ASSUME IInv, KeepInv, [Next]_vars
                PROVE  KeepInv'
    OBVIOUS
  <1>1. CASE EraseSector
    BY <1>1, EraseSectorKeeps
  <1>2. CASE ProgramBlock
    BY <1>2, ProgramBlockKeeps
  <1>3. CASE SelectWindowZeroForErase \/ NextEraseGroup
    BY <1>3, SelectEraseKeeps
  <1>4. CASE Startup \/ PollReady \/ Probe \/ BridgePoll
    <2>1. UNCHANGED <<size, flash>> /\ pc' # "erase"
      BY <1>4 DEF Startup, PollReady, Probe, BridgePoll, Goto, PreflightFail,
                  Fail, dev, mem
    <2>. QED
      BY <2>1, QuietKeeps
  <1>5. CASE PrepareGlobalWrite \/ ClearSaveBanks
    <2>1. UNCHANGED <<size, flash>> /\ pc' # "erase"
      BY <1>5 DEF PrepareGlobalWrite, ClearSaveBanks, mem
    <2>. QED
      BY <2>1, QuietKeeps
  <1>6. CASE EraseDone \/ SelectWindowZeroForProgram \/ SwitchProgramWindow
    <2>1. UNCHANGED <<size, flash>> /\ pc' # "erase"
      BY <1>6 DEF EraseDone, SelectWindowZeroForProgram, SwitchProgramWindow,
                  Goto, Fail, mem
    <2>. QED
      BY <2>1, QuietKeeps
  <1>7. CASE Finalize \/ MapVerify
    <2>1. UNCHANGED <<size, flash>> /\ pc' # "erase"
      BY <1>7 DEF Finalize, MapVerify, Goto, Fail, mem
    <2>. QED
      BY <2>1, QuietKeeps
  <1>8. CASE VerifyBlock \/ VerifyDone
    <2>1. UNCHANGED <<size, flash>> /\ pc' # "erase"
      BY <1>8 DEF VerifyBlock, VerifyDone, Fail, dev
    <2>. QED
      BY <2>1, QuietKeeps
  <1>9. CASE UNCHANGED vars
    BY <1>9, QuietKeeps DEF vars, ctl, dev
  <1>. QED
    BY <1>1, <1>2, <1>3, <1>4, <1>5, <1>6, <1>7, <1>8, <1>9
    DEF Next, Step, Returned

\* The windows above the image keep what they held, in every state of every
\* session, whichever commands fail: no list entry and no program command
\* reaches beyond the window of the image's last unit.
THEOREM HigherWindows == Spec => []HigherWindowsKept
  <1>1. Init => KeepInv
    BY DEF Init, KeepInv, AlignInv, HigherWindowsKept
  <1>2. IInv /\ KeepInv /\ [Next]_vars => KeepInv'
    BY NextKeepsKeepInv
  <1>3. KeepInv => HigherWindowsKept
    BY DEF KeepInv
  <1>. QED
    BY Invariance, <1>1, <1>2, <1>3, PTL DEF Spec

-----------------------------------------------------------------------------
(* A session without a fault.  The read-back of an image within the first    *)
(* window reaches to the end of its last block, and the erase list does too. *)

ReadBack(s) ==
    IF Mode(s) = "partial_first_window" THEN RoundUpToBlock(s) ELSE s

\* The units from `from` to the end of the read-back are erased, the image's
\* units below `limit` are written.
Untouched(from) ==
    \A u \in Units : (from =< u /\ u < ReadBack(size)) => flash[u] = "erased"
Written(limit) == \A u \in Units : u < limit => flash[u] = "image"

CleanErase ==
    /\ pc = "erase" =>
        \A u \in Units : (u < ReadBack(size) /\ u < grp * WindowLen + addr)
                            => flash[u] = "erased"
    /\ pc = "select_program" => Untouched(0)

CleanProgram ==
    /\ pc \in {"program", "switch_program"} => (Written(off) /\ Untouched(off))
    /\ pc \in {"map_verify", "verify"} => (Written(size) /\ Untouched(size))

CleanMap ==
    /\ (pc \in {"program", "switch_program", "map_verify"}
        /\ Mode(size) = "partial_first_window") => map = 0
    /\ pc = "verify" =>
        (map = Linear \/ (map = 0 /\ Mode(size) = "partial_first_window"))

Clean ==
    /\ status \in {"running", "success"}
    /\ pc = "clear" => ok = TRUE
    /\ CleanErase /\ CleanProgram /\ CleanMap

CleanInv == faulted = FALSE => Clean

LEMMA RoundUpLeast ==
    ASSUME NEW s \in Nat, NEW a \in Nat, s =< a, a % BlockLen = 0
    PROVE  RoundUpToBlock(s) =< a
  <1>. DEFINE q == (s + BlockLen - 1) \div BlockLen
  <1>1. PICK k \in Nat : a = BlockLen * k
    BY Constants, Divisible
  <1>2. s + BlockLen - 1 \in Nat
    BY Constants
  <1>3. /\ q \in Nat /\ BlockLen * q =< s + BlockLen - 1
    <2>1. /\ q \in Nat /\ (s + BlockLen - 1) % BlockLen \in Nat
          /\ s + BlockLen - 1 = BlockLen * q + ((s + BlockLen - 1) % BlockLen)
      BY <1>2, Constants, DivMod
    <2>2. BlockLen * q \in Nat
      BY <2>1, Constants, Z3
    <2>. QED
      BY <2>1, <2>2, Constants
  <1>. HIDE DEF q
  <1>4. BlockLen * q < BlockLen * (k + 1)
    <2>1. BlockLen * (k + 1) = BlockLen * k + BlockLen
      BY <1>1, Constants, Z3
    <2>2. BlockLen * k \in Nat /\ BlockLen * q \in Nat
      BY <1>1, <1>3, Constants, Z3
    <2>. QED
      BY <1>1, <1>3, <2>1, <2>2, Constants
  <1>5. q =< k
    BY <1>1, <1>3, <1>4, Constants, Z3
  <1>6. q * BlockLen =< BlockLen * k
    BY <1>1, <1>3, <1>5, Constants, Z3
  <1>. QED
    BY <1>1, <1>6 DEF RoundUpToBlock, q

\* What the read-back reaches, and where it leaves the image.
LEMMA ReadBackFacts ==
    ASSUME TypeOK
    PROVE  /\ size \in Nat /\ ReadBack(size) \in Nat /\ size =< ReadBack(size)
           /\ Mode(size) = "partial_first_window" =>
                size < WindowLen /\ ReadBack(size) =< WindowLen
           /\ Mode(size) # "partial_first_window" => ReadBack(size) = size
  <1>1. size \in Nat
    BY Constants DEF TypeOK
  <1>2. RoundUpToBlock(size) \in Nat /\ size =< RoundUpToBlock(size)
    BY <1>1, RoundUpCovers
  <1>3. ASSUME Mode(size) = "partial_first_window"
        PROVE  size < WindowLen /\ RoundUpToBlock(size) =< WindowLen
    <2>1. size < WindowLen
      BY <1>3 DEF Mode
    <2>. QED
      BY <1>1, <2>1, Boundaries, Constants, RoundUpLeast
  <1>. QED
    BY <1>1, <1>2, <1>3 DEF ReadBack

\* An exhausted list covered all of the read-back.
LEMMA ExhaustedListCoversReadBack ==
    ASSUME TypeOK, AlignInv, pc = "erase", ~EraseMore(size, grp, addr),
           grp =< LastEraseWindow(size), addr = 0 \/ addr >= SectorLen,
           NEW u \in Units, u < ReadBack(size), u < (grp + 1) * WindowLen
    PROVE  u < grp * WindowLen + addr
  <1>1. CASE Mode(size) = "partial_first_window"
    <2>1. /\ size \in Nat /\ addr \in Nat /\ u \in Nat /\ size < WindowLen
          /\ grp \in {0, 1, 2, 3}
      BY <1>1, ReadBackFacts, Constants DEF TypeOK, Windows
    <2>2. grp = 0 /\ addr > BlockLen /\ addr >= size
      BY <2>1, Constants DEF EraseMore, SelectiveMore, LastEraseWindow
    <2>3. addr % BlockLen = 0
      BY <2>1, <2>2, Constants DEF AlignInv, BlockSector
    <2>4. ReadBack(size) =< addr
      BY <1>1, <2>1, <2>2, <2>3, RoundUpLeast DEF ReadBack
    <2>. QED
      BY <2>1, <2>2, <2>4, ReadBackFacts, Constants
  <1>2. CASE Mode(size) # "partial_first_window"
    BY <1>2, ReadBackFacts, ExhaustedListCovers
  <1>. QED
    BY <1>1, <1>2

-----------------------------------------------------------------------------
(* The invariant of the fault-free session across each action. *)

\* Steps between phases of which the invariant says nothing.
LEMMA SetupClean ==
    ASSUME IInv, CleanInv, faulted' = FALSE,
           Startup \/ PollReady \/ Probe \/ BridgePoll \/ PrepareGlobalWrite
    PROVE  Clean'
  <1>1. /\ faulted = FALSE /\ status' = status
        /\ pc' \in {"ready", "probe", "bridge", "prepare", "select_erase"}
    BY DEF Startup, PollReady, Probe, BridgePoll, PrepareGlobalWrite, Goto,
           PreflightFail, Fail, BankEchoed, BankNotEchoed
  <1>. QED
    BY <1>1 DEF CleanInv, Clean, CleanErase, CleanProgram, CleanMap

LEMMA ClearClean ==
    ASSUME IInv, CleanInv, faulted' = FALSE, ClearSaveBanks
    PROVE  Clean'
  <1>1. /\ faulted = FALSE /\ pc = "clear" /\ UNCHANGED ok
        /\ \/ pc' = "clear" /\ UNCHANGED status
           \/ pc' = "done" /\ status' = IF ok THEN "success" ELSE "operation_failed"
    BY DEF ClearSaveBanks, BankEchoed, BankNotEchoed
  <1>2. ok = TRUE /\ status \in {"running", "success"}
    BY <1>1 DEF CleanInv, Clean
  <1>3. status' \in {"running", "success"} /\ pc' \in {"clear", "done"}
    BY <1>1, <1>2
  <1>4. ok' = TRUE
    BY <1>1, <1>2
  <1>. QED
    BY <1>3, <1>4 DEF Clean, CleanErase, CleanProgram, CleanMap

LEMMA EraseClean ==
    ASSUME IInv, CleanInv, AlignInv, faulted' = FALSE,
           \/ SelectWindowZeroForErase \/ EraseSector \/ NextEraseGroup
           \/ EraseDone
    PROVE  Clean'
  <1>1. ~Fail
    BY DEF Fail
  <1>2. /\ faulted = FALSE /\ UNCHANGED <<status, size>>
    BY <1>1 DEF SelectWindowZeroForErase, EraseSector, NextEraseGroup, EraseDone,
                Goto
  <1>3. /\ Clean /\ TypeOK
        /\ size \in Nat /\ addr \in Nat /\ grp \in Nat /\ grp \in Windows
        /\ ReadBack(size) \in Nat
    BY <1>2, ReadBackFacts DEF CleanInv, IInv, TypeOK, Windows
  <1>4. CASE SelectWindowZeroForErase
    <2>1. pc' = "erase" /\ grp' = 0 /\ addr' = 0
      BY <1>1, <1>4 DEF SelectWindowZeroForErase, Goto
    <2>2. \A u \in Units : ~(u < 0 * WindowLen + 0)
      BY Constants
    <2>. QED
      BY <1>2, <1>3, <2>1, <2>2 DEF Clean, CleanErase, CleanProgram, CleanMap
  <1>5. CASE EraseSector
    <2>. DEFINE cleared == [u \in Units |-> IF u \in SectorUnits(win, addr)
                                           THEN "erased" ELSE flash[u]]
    <2>1. /\ pc = "erase" /\ pc' = "erase" /\ win = grp
          /\ flash' = cleared /\ addr' = addr + EraseStep(grp, addr)
          /\ UNCHANGED grp
      BY <1>1, <1>5 DEF EraseSector, IInv, EraseInv
    <2>2. /\ EraseStep(grp, addr) \in Nat
          /\ SectorSpan(grp, addr) = EraseStep(grp, addr)
      BY <1>3, StepSpans
    <2>3. ASSUME NEW u \in Units, u < ReadBack(size), u < grp * WindowLen + addr'
          PROVE  flash'[u] = "erased"
      <3>1. CASE u < grp * WindowLen + addr
        BY <1>3, <2>1, <2>3, <3>1 DEF Clean, CleanErase
      <3>2. CASE ~(u < grp * WindowLen + addr)
        <4>1. u \in Nat /\ grp * WindowLen \in Nat
          BY <1>3, Constants
        <4>2. /\ grp * WindowLen + addr =< u
              /\ u < grp * WindowLen + addr + SectorSpan(grp, addr)
          BY <1>3, <2>1, <2>2, <2>3, <3>2, <4>1
        <4>. QED
          BY <2>1, <4>2 DEF SectorUnits
      <3>. QED
        BY <3>1, <3>2
    <2>4. ReadBack(size)' = ReadBack(size)
      BY <1>2 DEF ReadBack, Mode
    <2>. QED
      BY <1>2, <1>3, <2>1, <2>3, <2>4 DEF Clean, CleanErase, CleanProgram, CleanMap
  <1>6. CASE NextEraseGroup
    <2>1. /\ pc = "erase" /\ pc' = "erase" /\ grp' = grp + 1 /\ addr' = 0
          /\ ~EraseMore(size, grp, addr) /\ grp =< LastEraseWindow(size)
          /\ addr = 0 \/ addr >= SectorLen
          /\ UNCHANGED flash
      BY <1>1, <1>6 DEF NextEraseGroup, mem, IInv, EraseInv
    <2>2. ASSUME NEW u \in Units, u < ReadBack(size),
                 u < (grp + 1) * WindowLen + 0
          PROVE  flash[u] = "erased"
      <3>1. u < (grp + 1) * WindowLen
        BY <1>3, <2>2, Constants
      <3>2. u < grp * WindowLen + addr
        BY <1>3, <2>1, <2>2, <3>1, ExhaustedListCoversReadBack
      <3>. QED
        BY <1>3, <2>1, <2>2, <3>2 DEF Clean, CleanErase
    <2>3. ReadBack(size)' = ReadBack(size)
      BY <1>2 DEF ReadBack, Mode
    <2>. QED
      BY <1>2, <1>3, <2>1, <2>2, <2>3 DEF Clean, CleanErase, CleanProgram, CleanMap
  <1>7. CASE EraseDone
    <2>1. /\ pc = "erase" /\ pc' = "select_program" /\ UNCHANGED flash
          /\ ~EraseMore(size, grp, addr) /\ grp = LastEraseWindow(size)
          /\ grp =< LastEraseWindow(size)
          /\ addr = 0 \/ addr >= SectorLen
      BY <1>1, <1>7 DEF EraseDone, mem, Goto, IInv, EraseInv
    <2>2. ASSUME NEW u \in Units, u < ReadBack(size)
          PROVE  flash[u] = "erased"
      <3>1. u < (grp + 1) * WindowLen
        <4>1. CASE Mode(size) = "partial_first_window"
          BY <1>3, <2>1, <2>2, <4>1, ReadBackFacts, Constants
          DEF LastEraseWindow
        <4>2. CASE Mode(size) # "partial_first_window"
          <5>1. u < size /\ size =< 4 * WindowLen /\ u \in Nat
            BY <1>3, <2>2, <4>2, ReadBackFacts, Constants DEF TypeOK
          <5>. QED
            BY <1>3, <2>1, <5>1, Constants DEF LastEraseWindow
        <4>. QED
          BY <4>1, <4>2
      <3>2. u < grp * WindowLen + addr
        BY <1>3, <2>1, <2>2, <3>1, ExhaustedListCoversReadBack
      <3>. QED
        BY <1>3, <2>1, <2>2, <3>2 DEF Clean, CleanErase
    <2>3. ReadBack(size)' = ReadBack(size)
      BY <1>2 DEF ReadBack, Mode
    <2>4. Untouched(0)'
      BY <2>1, <2>2, <2>3 DEF Untouched
    <2>. QED
      BY <1>2, <1>3, <2>1, <2>4 DEF Clean, CleanErase, CleanProgram, CleanMap
  <1>. QED
    BY <1>4, <1>5, <1>6, <1>7

LEMMA ProgramClean ==
    ASSUME IInv, CleanInv, faulted' = FALSE,
           SelectWindowZeroForProgram \/ ProgramBlock \/ SwitchProgramWindow
    PROVE  Clean'
  <1>1. ~Fail
    BY DEF Fail
  <1>2. faulted = FALSE /\ UNCHANGED <<status, size>>
    BY <1>1 DEF SelectWindowZeroForProgram, ProgramBlock, SwitchProgramWindow,
                Goto
  <1>3. /\ Clean /\ TypeOK /\ size \in Nat /\ ReadBack(size) \in Nat
        /\ size =< ReadBack(size)
        /\ status' \in {"running", "success"}
    BY <1>2, ReadBackFacts DEF CleanInv, IInv, Clean
  <1>4. ReadBack(size)' = ReadBack(size) /\ Mode(size)' = Mode(size)
    BY <1>2 DEF ReadBack, Mode
  <1>5. CASE SelectWindowZeroForProgram
    <2>1. /\ pc = "select_program" /\ pc' = "program" /\ off' = 0 /\ map' = 0
          /\ UNCHANGED flash
      BY <1>1, <1>5 DEF SelectWindowZeroForProgram, SelectOk, Goto, mem
    <2>2. Untouched(0)
      BY <1>3, <2>1 DEF Clean, CleanErase
    <2>3. Untouched(0)' /\ Written(0)'
      BY <1>4, <2>1, <2>2, Constants DEF Untouched, Written
    <2>. QED
      BY <1>3, <2>1, <2>3
      DEF Clean, CleanErase, CleanProgram, CleanMap, Untouched, Written
  <1>6. CASE ProgramBlock
    <2>1. /\ pc = "program" /\ off < size /\ off % BlockLen = 0
          /\ win = WindowOf(off)
      BY <1>6 DEF ProgramBlock, IInv, ProgramInv
    <2>2. /\ flash' = Programmed(TRUE) /\ UNCHANGED map
          /\ off' = off + BlockLength(off) /\ pc' = ProgramFrom(off')
      BY <1>1, <1>2, <1>6 DEF ProgramBlock
    <2>3. /\ off \in Nat /\ BlockLength(off) \in Nat /\ off' \in Nat
          /\ off' =< size /\ Target = off
      BY <1>3, <2>1, <2>2, BlockFacts DEF Target
    <2>4. Written(off) /\ Untouched(off)
      BY <1>3, <2>1 DEF Clean, CleanProgram
    <2>5. \A u \in Units : /\ u < off' => flash'[u] = "image"
                           /\ (off' =< u /\ u < ReadBack(size)) => flash'[u] = "erased"
      <3>1. ASSUME NEW u \in Units
            PROVE  /\ u < off' => flash'[u] = "image"
                   /\ (off' =< u /\ u < ReadBack(size)) => flash'[u] = "erased"
        <4>1. u \in Nat /\ off =< off' /\ off \in Nat /\ off' \in Nat
          BY <2>2, <2>3, Constants
        <4>2. CASE u < off
          <5>1. flash'[u] = flash[u]
            BY <2>2, <2>3, <4>1, <4>2 DEF Programmed
          <5>2. flash[u] = "image"
            BY <2>4, <4>2 DEF Written
          <5>3. ~(off' =< u)
            BY <4>1, <4>2
          <5>. QED
            BY <5>1, <5>2, <5>3
        <4>3. CASE off =< u /\ u < off'
          <5>1. flash[u] = "erased"
            BY <1>3, <2>3, <2>4, <4>1, <4>3 DEF Untouched
          <5>2. flash'[u] = "image"
            BY <2>2, <2>3, <4>3, <5>1 DEF Programmed
          <5>. QED
            BY <2>3, <4>1, <4>3, <5>2
        <4>4. CASE off' =< u
          <5>1. flash'[u] = flash[u]
            BY <2>2, <2>3, <4>1, <4>4 DEF Programmed
          <5>2. off =< u /\ ~(u < off')
            BY <4>1, <4>4
          <5>3. u < ReadBack(size) => flash[u] = "erased"
            BY <2>4, <5>2 DEF Untouched
          <5>. QED
            BY <5>1, <5>2, <5>3
        <4>. QED
          BY <4>1, <4>2, <4>3, <4>4
      <3>. QED
        BY <3>1
    <2>6. pc' \in {"program", "switch_program", "finalize", "map_verify"}
      BY <2>2 DEF ProgramFrom, AfterProgram
    <2>7. pc' = "map_verify" => off' = size
      BY <1>3, <2>2, <2>3 DEF ProgramFrom, AfterProgram
    <2>8. CleanProgram'
      BY <1>2, <1>4, <2>5, <2>6, <2>7 DEF CleanProgram, Untouched, Written
    <2>9. CleanMap'
      BY <1>3, <1>4, <2>1, <2>2, <2>6 DEF Clean, CleanMap
    <2>. QED
      BY <1>3, <2>6, <2>8, <2>9 DEF Clean, CleanErase
  <1>7. CASE SwitchProgramWindow
    <2>1. /\ pc = "switch_program" /\ pc' = "program" /\ map' = WindowOf(off)
          /\ off < size /\ off \in Nat
          /\ UNCHANGED <<off, flash>>
      BY <1>1, <1>3, <1>7
      DEF SwitchProgramWindow, SelectOk, Goto, mem, IInv, ProgramInv, TypeOK
    <2>2. Written(off) /\ Untouched(off)
      BY <1>3, <2>1 DEF Clean, CleanProgram
    <2>3. Mode(size) = "partial_first_window" => WindowOf(off) = 0
      <3>1. SUFFICES ASSUME size < WindowLen
                     PROVE  WindowOf(off) = 0
        BY <1>3, ReadBackFacts
      <3>2. off \in 0..(WindowLen - 1) /\ off = 0 * WindowLen + off /\ 0 \in Nat
        BY <1>3, <2>1, <3>1, Constants
      <3>. QED
        BY <2>1, <3>2, WindowOfRange
    <2>4. CleanProgram'
      BY <1>2, <1>4, <2>1, <2>2 DEF CleanProgram, Untouched, Written
    <2>5. CleanMap'
      BY <1>4, <2>1, <2>3 DEF CleanMap
    <2>. QED
      BY <1>3, <2>1, <2>4, <2>5 DEF Clean, CleanErase
  <1>. QED
    BY <1>5, <1>6, <1>7

\* The read-back of a fault-free session finds what it expects.
LEMMA ReadBackMatches ==
    ASSUME TypeOK, Clean, pc = "verify", off < VerifyExtent(size),
           NEW a \in off..(off + VerifyLength - 1)
    PROVE  UnitMatches(a)
  <1>1. /\ size \in Nat /\ off \in Nat /\ VerifyExtent(size) \in Nat
        /\ size =< 4 * WindowLen /\ size =< VerifyExtent(size)
    BY ExtentCovers, Constants DEF TypeOK
  <1>2. a \in Nat /\ a < VerifyExtent(size)
    BY <1>1, Constants DEF VerifyLength
  <1>3. Written(size) /\ Untouched(size)
    BY DEF Clean, CleanProgram
  <1>4. CASE Mode(size) = "partial_first_window"
    <2>1. /\ VerifyExtent(size) = ReadBack(size) /\ size < WindowLen
          /\ ReadBack(size) =< WindowLen
      BY <1>4, ReadBackFacts DEF VerifyExtent, ReadBack
    <2>2. a \in Units /\ a < WindowLen
      BY <1>1, <1>2, <2>1, Constants
    <2>3. Physical(a) = a
      <3>1. map = Linear \/ map = 0
        BY DEF Clean, CleanMap
      <3>2. a \in 0..(WindowLen - 1) /\ a = 0 * WindowLen + a /\ 0 \in Nat
        BY <1>2, <2>2, Constants
      <3>3. Local(a) = a
        BY <1>2, <3>2, WindowOfRange
      <3>4. 0 * WindowLen + a = a
        BY <1>2, Constants
      <3>. QED
        BY <3>1, <3>3, <3>4 DEF Physical
    <2>4. a < size => flash[a] = "image"
      BY <1>3, <2>2 DEF Written
    <2>5. ~(a < size) => flash[a] = "erased"
      BY <1>1, <1>2, <1>3, <2>1, <2>2 DEF Untouched
    <2>. QED
      BY <2>3, <2>4, <2>5 DEF UnitMatches
  <1>5. CASE Mode(size) # "partial_first_window"
    <2>1. a < size => a \in Units /\ Physical(a) = a /\ flash[a] = "image"
      BY <1>1, <1>2, <1>3, <1>5, Constants
      DEF Clean, CleanMap, Physical, Written
    <2>2. ~(a < size) => Mode(size) = "tiny_tail_above_16_mib"
      BY <1>1, <1>2, <1>5 DEF VerifyExtent
    <2>. QED
      BY <2>1, <2>2 DEF UnitMatches
  <1>. QED
    BY <1>4, <1>5

LEMMA VerifyClean ==
    ASSUME IInv, CleanInv, faulted' = FALSE,
           Finalize \/ MapVerify \/ VerifyBlock \/ VerifyDone
    PROVE  Clean'
  <1>1. ~Fail
    BY DEF Fail
  <1>2. /\ faulted = FALSE /\ UNCHANGED <<status, size>>
    BY <1>1 DEF Finalize, MapVerify, VerifyBlock, VerifyDone, Goto
  <1>3. /\ Clean /\ TypeOK /\ status' \in {"running", "success"}
    BY <1>2 DEF CleanInv, IInv, Clean
  <1>4. ReadBack(size)' = ReadBack(size) /\ Mode(size)' = Mode(size)
    BY <1>2 DEF ReadBack, Mode
  <1>5. ok = TRUE
    <2>1. ok
      BY DEF Finalize, MapVerify, VerifyBlock, VerifyDone, IInv, ControlInv,
             FlashPhases
    <2>. QED
      BY <1>3, <2>1, Zenon DEF TypeOK
  <1>6. CASE Finalize \/ VerifyDone
    <2>1. pc' = "clear" /\ UNCHANGED ok
      BY <1>1, <1>6 DEF Finalize, VerifyDone
    <2>2. ok' = TRUE
      BY <1>5, <2>1
    <2>. QED
      BY <1>3, <2>1, <2>2 DEF Clean, CleanErase, CleanProgram, CleanMap
  <1>7. CASE MapVerify
    <2>1. /\ pc = "map_verify" /\ pc' = "verify" /\ UNCHANGED flash
          /\ map' = IF Mode(size) = "partial_first_window" THEN map ELSE Linear
      BY <1>1, <1>7 DEF MapVerify, Goto, mem
    <2>2. Written(size)' /\ Untouched(size)'
      BY <1>2, <1>3, <1>4, <2>1 DEF Clean, CleanProgram, Written, Untouched
    <2>3. CleanMap'
      BY <1>3, <1>4, <2>1 DEF Clean, CleanMap
    <2>. QED
      BY <1>3, <2>1, <2>2, <2>3 DEF Clean, CleanErase, CleanProgram
  <1>8. CASE VerifyBlock
    <2>1. /\ pc = "verify" /\ off < VerifyExtent(size)
          /\ UNCHANGED <<map, flash>>
      BY <1>8 DEF VerifyBlock, dev
    <2>2. \A a \in off..(off + VerifyLength - 1) : UnitMatches(a)
      BY <1>3, <2>1, ReadBackMatches
    <2>3. pc' = "verify"
      BY <1>1, <1>8, <2>1, <2>2 DEF VerifyBlock
    <2>4. Written(size)' /\ Untouched(size)'
      BY <1>2, <1>3, <1>4, <2>1 DEF Clean, CleanProgram, Written, Untouched
    <2>5. CleanMap'
      BY <1>3, <1>4, <2>1, <2>3 DEF Clean, CleanMap
    <2>. QED
      BY <1>3, <2>3, <2>4, <2>5 DEF Clean, CleanErase, CleanProgram
  <1>. QED
    BY <1>6, <1>7, <1>8

LEMMA NextKeepsClean ==
    IInv /\ KeepInv /\ CleanInv /\ [Next]_vars => CleanInv'
  <1>. SUFFICES ASSUME IInv, AlignInv, CleanInv, [Next]_vars, faulted' = FALSE
                PROVE  Clean'
    BY DEF KeepInv, CleanInv
  <1>1. CASE UNCHANGED vars
    BY <1>1 DEF vars, ctl, dev, CleanInv, Clean, CleanErase, CleanProgram,
                CleanMap, Untouched, Written, ReadBack, Mode
  <1>. QED
    BY <1>1, SetupClean, ClearClean, EraseClean, ProgramClean, VerifyClean
    DEF Next, Step, Returned

\* When neither the bus, the card nor the cells misbehave a write succeeds:
\* the read-back never asks for erased units that the erase lists left out,
\* never reads through a mapping of another window, and no check of the
\* protocol's order refuses a session in its right order.
THEOREM FailuresHaveFaults == Spec => []FailureNeedsFault
  <1>1. Init => KeepInv /\ CleanInv
    BY DEF Init, KeepInv, AlignInv, HigherWindowsKept, CleanInv, Clean,
           CleanErase, CleanProgram, CleanMap
  <1>2. IInv /\ KeepInv /\ [Next]_vars => KeepInv'
    BY NextKeepsKeepInv
  <1>3. IInv /\ KeepInv /\ CleanInv /\ [Next]_vars => CleanInv'
    BY NextKeepsClean
  <1>4. IInv /\ CleanInv => FailureNeedsFault
    <2>1. IInv => (faulted = FALSE \/ faulted = TRUE)
      BY Zenon DEF IInv, TypeOK
    <2>. QED
      BY <2>1 DEF CleanInv, Clean, FailureNeedsFault
  <1>. QED
    BY Invariance, <1>1, <1>2, <1>3, <1>4, PTL DEF Spec

-----------------------------------------------------------------------------
(* The session implements the contract.  Beyond the invariants above: the    *)
(* flash holds nothing of the image before programming, so erasing never     *)
(* takes a whole image away; the first clear zeroed the banks behind it; and *)
(* a run that reaches the final clear unfailed has made its claim.           *)

ContractInv ==
    /\ pc \in BeforeSetup \cup {"select_erase", "erase", "select_program"} =>
        \A u \in Units : flash[u] \in {"old", "erased"}
    /\ pc = "prepare" => \A b \in Banks : b < n => saves[b] = "zero"
    /\ (pc = "clear" /\ ok = TRUE) => verdict # "none"

\* An image is not empty and lies on the card.
LEMMA ImageUnitsAre ==
    ASSUME TypeOK
    PROVE  0 \in ImageUnits /\ ImageUnits \subseteq Units
  BY Constants DEF TypeOK, ImageUnits

LEMMA SavesViews ==
    /\ SavesView \in Contract!SaveViews
    /\ SavesView' \in Contract!SaveViews
    /\ (\A b \in Banks : saves[b] = "zero") => SavesView = "zero"
    /\ (\A b \in Banks : saves'[b] = "zero") => SavesView' = "zero"
  <1>1. 0 \in Banks
    BY DEF Banks
  <1>. QED
    BY <1>1 DEF SavesView, Contract!SaveViews

LEMMA SameFlashView ==
    ASSUME UNCHANGED <<flash, size>>
    PROVE  FlashView' = FlashView
  BY DEF FlashView, ImageUnits

\* A step that leaves the flash, the claim and the outcome alone.
LEMMA QuietStep ==
    ASSUME status = "running", UNCHANGED <<flash, size, need, verdict, status>>
    PROVE  [Contract!Next]_(Contract!contract)
  BY SameFlashView, SavesViews
  DEF Contract!Next, Contract!TouchSaves, Contract!Running, Contract!contract

\* A step that ends the run, and one that makes its claim.
LEMMA ReturnStep ==
    ASSUME status = "running", UNCHANGED <<flash, size, need, verdict>>,
           status' \in {"success", "preflight_failed", "operation_failed"},
           status' = "preflight_failed" => ~need,
           status' = "success" =>
               verdict # "none" /\ \A b \in Banks : saves'[b] = "zero"
    PROVE  Contract!Next
  <1>1. Contract!Return(status')
    BY SameFlashView, SavesViews DEF Contract!Return, Contract!Running
  <1>. QED
    BY <1>1 DEF Contract!Next

LEMMA ClaimStep ==
    ASSUME status = "running", need, verdict = "none",
           UNCHANGED <<flash, size, need, status>>,
           verdict' \in {"verified", "skipped_by_user", "skipped_unproven"},
           verdict' = "verified" => FlashView = "whole"
    PROVE  Contract!Next
  <1>1. Contract!Claim(verdict')
    BY SameFlashView, SavesViews DEF Contract!Claim, Contract!Running
  <1>2. verdict' \in Contract!Skips \cup {"verified"}
    BY DEF Contract!Skips
  <1>. QED
    BY <1>1, <1>2 DEF Contract!Next

\* A step on the flash.
LEMMA FlashStep ==
    ASSUME status = "running", need, verdict = "none",
           UNCHANGED <<size, saves, need, verdict, status>>,
           FlashView' # FlashView =>
              FlashView # "whole" /\ FlashView' \in {"torn", "whole"}
    PROVE  [Contract!Next]_(Contract!contract)
  <1>1. SavesView' = SavesView
    BY DEF SavesView
  <1>2. CASE FlashView' = FlashView
    BY <1>1, <1>2 DEF Contract!contract
  <1>3. CASE FlashView' # FlashView
    BY <1>1, <1>3 DEF Contract!Next, Contract!ModifyFlash, Contract!Running
  <1>. QED
    BY <1>2, <1>3

-----------------------------------------------------------------------------
(* Each action is a step of the contract. *)

LEMMA SetupMeets ==
    ASSUME IInv, Startup \/ PollReady \/ Probe \/ BridgePoll
    PROVE  [Contract!Next]_(Contract!contract)
  <1>1. /\ pc \in {"startup", "ready", "probe", "bridge"}
        /\ status = "running" /\ ~need
    BY DEF Startup, PollReady, Probe, BridgePoll, IInv, ControlInv, BeforeSetup
  <1>2. UNCHANGED <<size, flash, need, verdict>>
    BY DEF Startup, PollReady, Probe, BridgePoll, Goto, PreflightFail, Fail,
           dev, mem
  <1>3. status' = status \/ status' \in {"preflight_failed", "operation_failed"}
    BY DEF Startup, PollReady, Probe, BridgePoll, Goto, PreflightFail, Fail
  <1>4. CASE status' = status
    BY <1>1, <1>2, <1>4, QuietStep
  <1>5. CASE status' \in {"preflight_failed", "operation_failed"}
    BY <1>1, <1>2, <1>5, ReturnStep
  <1>. QED
    BY <1>3, <1>4, <1>5

LEMMA PrepareMeets ==
    ASSUME IInv, ContractInv, SilentClearFault = FALSE, PrepareGlobalWrite
    PROVE  [Contract!Next]_(Contract!contract)
  <1>1. /\ pc = "prepare" /\ status = "running" /\ ~need /\ n \in Banks
        /\ \A b \in Banks : b < n => saves[b] = "zero"
        /\ saves \in [Banks -> SaveContent]
    BY DEF PrepareGlobalWrite, IInv, ControlInv, BeforeSetup, SavesInv,
           ContractInv, TypeOK
  <1>2. UNCHANGED <<size, flash, verdict>>
    BY DEF PrepareGlobalWrite, mem
  <1>3. CASE BankEchoed /\ n < 3 /\ UNCHANGED <<pc, need, status>>
    BY <1>1, <1>2, <1>3, QuietStep
  <1>4. CASE BankEchoed /\ ~(n < 3) /\ need' = TRUE /\ UNCHANGED status
    <2>1. saves' = ClearedBank(n)
      BY <1>4 DEF BankEchoed
    <2>2. \A b \in Banks : saves'[b] = "zero"
      BY <1>1, <1>4, <2>1, ClearedType DEF IInv, Banks
    <2>3. SavesView' = "zero"
      BY <2>2, SavesViews
    <2>4. Contract!Prime
      BY <1>1, <1>2, <1>4, <2>3, SameFlashView
      DEF Contract!Prime, Contract!Running
    <2>. QED
      BY <2>4 DEF Contract!Next
  <1>5. CASE status' = "operation_failed" /\ UNCHANGED need
    BY <1>1, <1>2, <1>5, ReturnStep
  <1>. QED
    BY <1>3, <1>4, <1>5, Zenon DEF PrepareGlobalWrite

LEMMA ClearMeets ==
    ASSUME IInv, ContractInv, SilentClearFault = FALSE, ClearSaveBanks
    PROVE  [Contract!Next]_(Contract!contract)
  <1>1. /\ pc = "clear" /\ status = "running" /\ need /\ n \in Banks
        /\ \A b \in Banks : b < n => saves[b] = "zero"
    BY DEF ClearSaveBanks, IInv, ControlInv, SavesInv
  <1>2. UNCHANGED <<size, flash, verdict, need>>
    BY DEF ClearSaveBanks, mem
  <1>3. CASE UNCHANGED status
    BY <1>1, <1>2, <1>3, QuietStep
  <1>4. CASE BankEchoed /\ n = 3 /\ status' = "success" /\ ok
    <2>1. saves' = ClearedBank(n)
      BY <1>4 DEF BankEchoed
    <2>2. \A b \in Banks : saves'[b] = "zero"
      BY <1>1, <1>4, <2>1, ClearedType DEF IInv, Banks
    <2>3. ok = TRUE
      BY <1>4, Zenon DEF IInv, TypeOK
    <2>4. verdict # "none"
      BY <1>1, <2>3 DEF ContractInv
    <2>. QED
      BY <1>1, <1>2, <1>4, <2>2, <2>4, ReturnStep
  <1>5. CASE status' = "operation_failed"
    BY <1>1, <1>2, <1>5, ReturnStep
  <1>. QED
    BY <1>1, <1>3, <1>4, <1>5 DEF ClearSaveBanks, Banks

\* Steps between the commands that modify the flash.
LEMMA SelectMeets ==
    ASSUME IInv, \/ SelectWindowZeroForErase \/ NextEraseGroup \/ EraseDone
                 \/ SelectWindowZeroForProgram \/ SwitchProgramWindow
                 \/ MapVerify \/ VerifyBlock
    PROVE  [Contract!Next]_(Contract!contract)
  <1>1. pc \in FlashPhases
    BY DEF SelectWindowZeroForErase, NextEraseGroup, EraseDone,
           SelectWindowZeroForProgram, SwitchProgramWindow, MapVerify,
           VerifyBlock, FlashPhases
  <1>2. need /\ status = "running"
    BY <1>1 DEF IInv, ControlInv, FlashPhases
  <1>3. UNCHANGED <<size, flash, need, verdict, status>>
    BY <1>2 DEF SelectWindowZeroForErase, NextEraseGroup, EraseDone,
                SelectWindowZeroForProgram, SwitchProgramWindow, MapVerify,
                VerifyBlock, Goto, Fail, mem, dev
  <1>. QED
    BY <1>2, <1>3, QuietStep

LEMMA EraseMeets ==
    ASSUME IInv, ContractInv, EraseSector
    PROVE  [Contract!Next]_(Contract!contract)
  <1>. DEFINE cleared == [u \in Units |-> IF u \in SectorUnits(win, addr)
                                         THEN "erased" ELSE flash[u]]
  <1>1. /\ need /\ status = "running" /\ verdict = "none"
        /\ \A u \in Units : flash[u] \in {"old", "erased"}
        /\ 0 \in ImageUnits /\ ImageUnits \subseteq Units
    BY ImageUnitsAre DEF EraseSector, IInv, ControlInv, VerifyInv, FlashPhases,
                         BeforeSetup, ContractInv
  <1>2. /\ UNCHANGED <<size, saves, need, verdict, status>>
        /\ flash' \in {flash, cleared}
    BY <1>1 DEF EraseSector, Fail
  <1>3. FlashView # "whole" /\ FlashView' # "whole"
    BY <1>1, <1>2 DEF FlashView, ImageUnits
  <1>4. FlashView' = "intact" => FlashView = "intact"
    BY <1>1, <1>2 DEF FlashView
  <1>5. FlashView' \in {"intact", "torn", "whole"}
    BY DEF FlashView
  <1>. QED
    BY <1>1, <1>2, <1>3, <1>4, <1>5, FlashStep

LEMMA ProgramMeets ==
    ASSUME IInv, ProgramBlock
    PROVE  [Contract!Next]_(Contract!contract)
  <1>1. /\ need /\ status = "running" /\ verdict = "none" /\ TypeOK
        /\ off < size /\ off % BlockLen = 0 /\ win = WindowOf(off)
        /\ \A u \in Units : off =< u /\ u < size => flash[u] = "erased"
    BY DEF ProgramBlock, IInv, ControlInv, VerifyInv, ProgramInv, FlashPhases,
           BeforeSetup
  <1>2. /\ off \in Units /\ off \in Nat /\ size \in Nat /\ Target = off
        /\ BlockLength(off) \in Nat \ {0}
    BY <1>1, BlockFacts DEF Target
  <1>3. /\ UNCHANGED <<size, saves, need, verdict, status>>
        /\ flash' \in {flash, Programmed(TRUE), Programmed(FALSE)}
    BY <1>1 DEF ProgramBlock, Fail
  <1>4. flash[off] = "erased" /\ off \in ImageUnits
    BY <1>1, <1>2 DEF ImageUnits
  <1>5. flash'[off] \in {"erased", "image", "bad"}
    BY <1>2, <1>3, <1>4 DEF Programmed
  <1>6. FlashView # "whole"
    BY <1>4 DEF FlashView
  <1>7. FlashView' \in {"torn", "whole"}
    BY <1>2, <1>5 DEF FlashView
  <1>. QED
    BY <1>1, <1>3, <1>6, <1>7, FlashStep

LEMMA FinishMeets ==
    ASSUME IInv, Finalize \/ VerifyDone
    PROVE  [Contract!Next]_(Contract!contract)
  <1>1. need /\ status = "running" /\ verdict = "none"
    BY DEF Finalize, VerifyDone, IInv, ControlInv, VerifyInv, FlashPhases,
           BeforeSetup
  <1>2. UNCHANGED <<size, flash, need, status>>
    BY <1>1 DEF Finalize, VerifyDone, Fail, mem, dev
  <1>3. CASE Fail
    BY <1>1, <1>2, <1>3, QuietStep DEF Fail
  <1>4. CASE Finalize /\ ~Fail
    <2>1. verdict' \in {"skipped_by_user", "skipped_unproven"}
      BY <1>4 DEF Finalize
    <2>. QED
      BY <1>1, <1>2, <2>1, ClaimStep
  <1>5. CASE VerifyDone
    <2>1. IInv' /\ verdict' = "verified"
      BY <1>5, VerifyDoneKeepsIInv DEF VerifyDone
    <2>2. \A u \in ImageUnits : flash[u] = "image"
      BY <1>2, <2>1 DEF IInv, VerifyInv, VerifiedMeansWhole, ImageUnits
    <2>3. FlashView = "whole"
      BY <2>2, ImageUnitsAre DEF FlashView, IInv
    <2>. QED
      BY <1>1, <1>2, <2>1, <2>3, ClaimStep
  <1>. QED
    BY <1>3, <1>4, <1>5

-----------------------------------------------------------------------------
(* The contract's own invariant across each action. *)

\* Inside the flash phases and into the clear, the invariant is about the
\* phase that was entered.
LEMMA NextKeepsContractInv ==
    IInv /\ ContractInv /\ [Next]_vars /\ SilentClearFault = FALSE => ContractInv'
  <1>. SUFFICES ASSUME IInv, ContractInv, [Next]_vars, SilentClearFault = FALSE
                PROVE  ContractInv'
    OBVIOUS
  <1>. USE DEF ContractInv, BeforeSetup
  <1>1. CASE Startup \/ PollReady \/ Probe \/ BridgePoll
    <2>1. /\ pc \in {"startup", "ready", "probe", "bridge"} /\ UNCHANGED flash
          /\ pc' # "clear"
          /\ pc' = "prepare" => n' = 0
      BY <1>1 DEF Startup, PollReady, Probe, BridgePoll, Goto, PreflightFail,
                  Fail, dev, mem, IInv, ControlInv
    <2>2. \A b \in Banks : ~(b < 0)
      BY DEF Banks
    <2>. QED
      BY <2>1, <2>2
  <1>2. CASE PrepareGlobalWrite
    <2>1. /\ pc = "prepare" /\ UNCHANGED flash /\ n \in Banks
          /\ pc' \in {"prepare", "select_erase", "done"}
          /\ pc' = "prepare" => BankEchoed /\ n' = n + 1
      BY <1>2 DEF PrepareGlobalWrite, mem, IInv, SavesInv
    <2>2. ASSUME pc' = "prepare", NEW b \in Banks, b < n'
          PROVE  saves'[b] = "zero"
      <3>1. saves' = ClearedBank(n)
        BY <2>1, <2>2 DEF BankEchoed
      <3>. QED
        BY <2>1, <2>2, <3>1, ClearedType DEF IInv, Banks
    <2>. QED
      BY <2>1, <2>2
  <1>3. CASE ClearSaveBanks
    <2>1. /\ pc = "clear" /\ pc' \in {"clear", "done"} /\ UNCHANGED verdict
          /\ pc' = "clear" => UNCHANGED ok
      BY <1>3 DEF ClearSaveBanks
    <2>. QED
      BY <2>1
  <1>4. CASE EraseSector
    <2>1. /\ pc = "erase" /\ pc' \in {"erase", "clear", "done"}
          /\ pc' = "clear" => ok' = FALSE
          /\ flash' \in {flash, [u \in Units |-> IF u \in SectorUnits(win, addr)
                                               THEN "erased" ELSE flash[u]]}
      BY <1>4 DEF EraseSector, Fail
    <2>. QED
      BY <2>1
  <1>5. CASE SelectWindowZeroForErase \/ NextEraseGroup \/ EraseDone
    <2>1. /\ pc \in {"select_erase", "erase"} /\ UNCHANGED flash
          /\ pc' \in {"erase", "select_program", "clear", "done"}
          /\ pc' = "clear" => ok' = FALSE
      BY <1>5 DEF SelectWindowZeroForErase, NextEraseGroup, EraseDone, Goto,
                  Fail, mem
    <2>. QED
      BY <2>1
  <1>6. CASE SelectWindowZeroForProgram \/ ProgramBlock \/ SwitchProgramWindow
    <2>1. /\ pc' \in {"program", "switch_program", "finalize", "map_verify",
                      "clear", "done"}
          /\ pc' = "clear" => ok' = FALSE
      BY <1>6 DEF SelectWindowZeroForProgram, ProgramBlock, SwitchProgramWindow,
                  ProgramFrom, AfterProgram, Goto, Fail
    <2>. QED
      BY <2>1
  <1>7. CASE MapVerify \/ VerifyBlock
    <2>1. /\ pc' \in {"verify", "clear", "done"}
          /\ pc' = "clear" => ok' = FALSE
      BY <1>7 DEF MapVerify, VerifyBlock, Goto, Fail
    <2>. QED
      BY <2>1
  <1>8. CASE Finalize \/ VerifyDone
    <2>1. /\ pc' \in {"clear", "done"}
          /\ ok' = FALSE \/ verdict' \in {"verified", "skipped_by_user",
                                         "skipped_unproven"}
      BY <1>8 DEF Finalize, VerifyDone, Fail
    <2>. QED
      BY <2>1
  <1>9. CASE UNCHANGED vars
    BY <1>9 DEF vars, ctl, dev
  <1>. QED
    BY <1>1, <1>2, <1>3, <1>4, <1>5, <1>6, <1>7, <1>8, <1>9
    DEF Next, Step, Returned

LEMMA NextMeets ==
    IInv /\ ContractInv /\ [Next]_vars /\ SilentClearFault = FALSE
        => [Contract!Next]_(Contract!contract)
  <1>. SUFFICES ASSUME IInv, ContractInv, [Next]_vars, SilentClearFault = FALSE
                PROVE  [Contract!Next]_(Contract!contract)
    OBVIOUS
  <1>1. CASE UNCHANGED vars
    BY <1>1 DEF vars, ctl, dev, Contract!contract, FlashView, SavesView,
                ImageUnits
  <1>2. CASE Step
    BY <1>2, SetupMeets, PrepareMeets, ClearMeets, SelectMeets, EraseMeets,
       ProgramMeets, FinishMeets DEF Step
  <1>. QED
    BY <1>1, <1>2 DEF Next, Returned

\* With save cells that keep what they acknowledged, every session, however
\* many of its transfers fail, is one the contract allows: the flash is only
\* touched between two clears of the save memory, a whole image is not touched
\* again, "verified" is claimed of a whole image, and a success leaves the
\* saves zero.
THEOREM ImplementsContract ==
    ASSUME SilentClearFault = FALSE
    PROVE  Spec => MeetsContract
  <1>1. Init => ContractInv
    BY DEF Init, ContractInv
  <1>2. Init => Contract!Init
    <2>1. 0 \in Banks
      BY DEF Banks
    <2>. QED
      BY <2>1 DEF Init, Contract!Init, FlashView, SavesView
  <1>3. IInv /\ ContractInv /\ [Next]_vars => ContractInv'
    BY NextKeepsContractInv
  <1>4. IInv /\ ContractInv /\ [Next]_vars => [Contract!Next]_(Contract!contract)
    BY NextMeets
  <1>. QED
    BY Invariance, <1>1, <1>2, <1>3, <1>4, PTL DEF Spec, MeetsContract,
       Contract!Spec

-----------------------------------------------------------------------------
(* No write() goes round in circles, and none past the first save clear      *)
(* returns without the final one.                                            *)

\* The phases in the order write() goes through them.  Programming and the
\* switch of the window it programs are one loop.
Stage(p) ==
    CASE p = "startup" -> 1 [] p = "ready" -> 2 [] p = "probe" -> 3 [] p = "bridge" -> 4
      [] p = "prepare" -> 5 [] p = "select_erase" -> 6 [] p = "erase" -> 7
      [] p = "select_program" -> 8 [] p \in {"program", "switch_program"} -> 9
      [] p = "finalize" -> 10 [] p = "map_verify" -> 11 [] p = "verify" -> 12
      [] p = "clear" -> 13 [] OTHER -> 14

LEMMA Stages ==
    /\ Stage("startup") = 1 /\ Stage("ready") = 2 /\ Stage("probe") = 3
    /\ Stage("bridge") = 4 /\ Stage("prepare") = 5 /\ Stage("select_erase") = 6
    /\ Stage("erase") = 7 /\ Stage("select_program") = 8 /\ Stage("program") = 9
    /\ Stage("switch_program") = 9 /\ Stage("finalize") = 10
    /\ Stage("map_verify") = 11 /\ Stage("verify") = 12 /\ Stage("clear") = 13
    /\ Stage("done") = 14
  BY DEF Stage

\* The largest poll or bank index of a phase that counts one.
LastIndex ==
    CASE pc = "ready" -> ReadinessAttempts - 1
      [] pc = "bridge" -> BridgePolls - 1
      [] OTHER -> 3

\* The cursors of the loops inside a phase, each with its bound: the poll or
\* the save bank, the erase group, the address in it, the block, and the
\* window switch between two blocks.
CursorMoves ==
    \/ n < LastIndex /\ n' = n + 1
    \/ n' = n /\ grp < 3 /\ grp' = grp + 1
    \/ UNCHANGED <<n, grp>> /\ addr < WindowLen /\ addr' > addr
    \/ UNCHANGED <<n, grp, addr>> /\ off < CardLen /\ off' > off
    \/ UNCHANGED <<n, grp, addr, off>> /\ pc = "switch_program" /\ pc' = "program"

\* A step leaves for a later phase or moves the cursor of its phase's loop.
Advances == Stage(pc') > Stage(pc) \/ (Stage(pc') = Stage(pc) /\ CursorMoves)

\* A failure leaves for the final clear or the end, which come last.
LEMMA FailAdvances ==
    ASSUME pc \in BeforeSetup \cup FlashPhases, Fail \/ pc' \in {"clear", "done"}
    PROVE  Advances
  <1>1. pc' \in {"clear", "done"}
    BY DEF Fail
  <1>. QED
    BY <1>1, Stages DEF Advances, BeforeSetup, FlashPhases

\* The blocks to verify end with the card: a partial last block does, too.
LEMMA ExtentOnCard ==
    ASSUME TypeOK
    PROVE  VerifyExtent(size) \in Nat /\ VerifyExtent(size) =< CardLen
  <1>1. size \in Nat /\ size =< CardLen
    BY Constants DEF TypeOK
  <1>2. CASE Mode(size) = "partial_first_window"
    <2>1. size =< WindowLen
      BY <1>1, <1>2, Constants DEF Mode
    <2>2. RoundUpToBlock(size) =< WindowLen
      BY <1>1, <2>1, Boundaries, Constants, RoundUpLeast
    <2>. QED
      BY <1>1, <1>2, <2>2, ExtentCovers, Constants DEF VerifyExtent
  <1>3. CASE Mode(size) = "tiny_tail_above_16_mib"
    <2>1. size =< CardHalf + BlockLen
      BY <1>1, <1>3, Constants DEF Mode
    <2>2. (2 * WindowLen) % BlockLen = 0
      BY WindowsHoldBlocks
    <2>3. (CardHalf + BlockLen) % BlockLen = 0
      <3>1. CardHalf \in Nat /\ CardHalf % BlockLen = 0 /\ BlockLen \in Nat \ {0}
        BY <2>2, Constants
      <3>. HIDE DEF CardHalf
      <3>. QED
        BY <3>1, NextMultiple
    <2>4. RoundUpToBlock(size) =< CardHalf + BlockLen
      BY <1>1, <2>1, <2>3, Constants, RoundUpLeast
    <2>. QED
      BY <1>1, <1>3, <2>4, ExtentCovers, Constants DEF VerifyExtent
  <1>4. CASE Mode(size) \notin {"partial_first_window", "tiny_tail_above_16_mib"}
    BY <1>1, <1>4 DEF VerifyExtent
  <1>. QED
    BY <1>2, <1>3, <1>4

\* The polls and the two save clears.
LEMMA CountedAdvances ==
    ASSUME IInv, \/ Startup \/ PollReady \/ Probe \/ BridgePoll
                 \/ PrepareGlobalWrite \/ ClearSaveBanks
    PROVE  Advances
  <1>1. n \in Nat /\ (pc \in {"prepare", "clear"} => n \in 0..3)
    BY DEF IInv, TypeOK, SavesInv, Banks
  <1>2. ReadinessAttempts \in Nat /\ BridgePolls \in Nat
    BY SessionAssumption
  <1>3. CASE Startup \/ Probe
    BY <1>3, Stages DEF Startup, Probe, Goto, PreflightFail, Advances
  <1>4. CASE PollReady
    <2>1. /\ pc = "ready"
          /\ \/ pc' \in {"probe", "done"}
             \/ n + 1 < ReadinessAttempts /\ n' = n + 1 /\ pc' = pc
      BY <1>4 DEF PollReady, Goto, PreflightFail
    <2>. QED
      BY <1>1, <1>2, <2>1, Stages DEF Advances, CursorMoves, LastIndex
  <1>5. CASE BridgePoll
    <2>1. /\ pc = "bridge"
          /\ \/ pc' \in {"prepare", "clear", "done"}
             \/ n + 1 < BridgePolls /\ n' = n + 1 /\ pc' = pc
      BY <1>5 DEF BridgePoll, Fail
    <2>. QED
      BY <1>1, <1>2, <2>1, Stages DEF Advances, CursorMoves, LastIndex
  <1>6. CASE PrepareGlobalWrite \/ ClearSaveBanks
    <2>1. \/ pc = "prepare" /\ pc' \in {"select_erase", "done"}
          \/ pc = "clear" /\ pc' = "done"
          \/ pc \in {"prepare", "clear"} /\ n < 3 /\ n' = n + 1 /\ pc' = pc
      BY <1>1, <1>6 DEF PrepareGlobalWrite, ClearSaveBanks
    <2>. QED
      BY <1>1, <2>1, Stages DEF Advances, CursorMoves, LastIndex
  <1>. QED
    BY <1>3, <1>4, <1>5, <1>6

\* The erase lists.
LEMMA EraseAdvances ==
    ASSUME IInv, \/ SelectWindowZeroForErase \/ EraseSector \/ NextEraseGroup
                 \/ EraseDone
    PROVE  Advances
  <1>1. TypeOK /\ grp \in Windows /\ addr \in Nat
    BY DEF IInv, TypeOK
  <1>2. CASE Fail
    <2>1. pc \in FlashPhases
      BY DEF SelectWindowZeroForErase, EraseSector, NextEraseGroup, EraseDone,
         FlashPhases
    <2>. QED
      BY <1>2, <2>1, FailAdvances
  <1>3. CASE SelectWindowZeroForErase /\ ~Fail
    BY <1>3, Stages DEF SelectWindowZeroForErase, Goto, Advances
  <1>4. CASE EraseSector /\ ~Fail
    <2>1. /\ EraseMore(size, grp, addr) /\ addr' = addr + EraseStep(grp, addr)
          /\ UNCHANGED <<n, grp, pc>>
      BY <1>4 DEF EraseSector
    <2>2. EraseStep(grp, addr) \in Nat /\ EraseStep(grp, addr) > 0
      BY <1>1, StepSpans, Constants
    <2>3. addr < WindowLen
      BY <1>1, <2>1, ListedInWindow
    <2>. QED
      BY <1>1, <2>1, <2>2, <2>3 DEF Advances, CursorMoves
  <1>5. CASE NextEraseGroup /\ ~Fail
    <2>1. grp < LastEraseWindow(size) /\ grp' = grp + 1 /\ UNCHANGED <<n, pc>>
      BY <1>5 DEF NextEraseGroup
    <2>2. LastEraseWindow(size) \in 0..3
      BY DEF LastEraseWindow
    <2>. QED
      BY <1>1, <2>1, <2>2 DEF Advances, CursorMoves, Windows
  <1>6. CASE EraseDone /\ ~Fail
    BY <1>6, Stages DEF EraseDone, Goto, Advances
  <1>. QED
    BY <1>2, <1>3, <1>4, <1>5, <1>6

\* The block loops.
LEMMA BlocksAdvance ==
    ASSUME IInv, \/ SelectWindowZeroForProgram \/ ProgramBlock \/ SwitchProgramWindow
                 \/ Finalize \/ MapVerify \/ VerifyBlock \/ VerifyDone
    PROVE  Advances
  <1>1. TypeOK /\ off \in Nat /\ CardLen \in Nat
    BY Constants DEF IInv, TypeOK
  <1>2. CASE pc' \in {"clear", "done"}
    <2>1. pc \in FlashPhases
      BY DEF SelectWindowZeroForProgram, ProgramBlock, SwitchProgramWindow, Finalize,
         MapVerify, VerifyBlock, VerifyDone, FlashPhases
    <2>. QED
      BY <1>2, <2>1, FailAdvances
  <1>. SUFFICES ASSUME pc' \notin {"clear", "done"} PROVE Advances
    BY <1>2
  <1>3. ~Fail
    BY DEF Fail
  <1>4. CASE SelectWindowZeroForProgram \/ MapVerify \/ Finalize \/ VerifyDone
    BY <1>3, <1>4, Stages DEF SelectWindowZeroForProgram, MapVerify, Finalize,
       VerifyDone, Goto, Advances
  <1>5. CASE ProgramBlock
    <2>1. /\ pc = "program" /\ off' = off + BlockLength(off)
          /\ pc' = ProgramFrom(off') /\ UNCHANGED <<n, grp, addr>>
      BY <1>3, <1>5 DEF ProgramBlock
    <2>2. off < size /\ off % BlockLen = 0
      BY <2>1 DEF IInv, ProgramInv
    <2>3. /\ BlockLength(off) \in Nat \ {0} /\ size \in Nat /\ size =< CardLen
      BY <1>1, <2>2, BlockFacts, Constants DEF TypeOK
    <2>4. pc' \in {"finalize", "map_verify", "switch_program", "program"}
      BY <2>1 DEF ProgramFrom, AfterProgram
    <2>. QED
      BY <1>1, <2>1, <2>2, <2>3, <2>4, Stages DEF Advances, CursorMoves
  <1>6. CASE SwitchProgramWindow
    <2>1. /\ pc = "switch_program" /\ pc' = "program"
          /\ UNCHANGED <<n, grp, addr, off>>
      BY <1>3, <1>6 DEF SwitchProgramWindow, Goto
    <2>. QED
      BY <2>1, Stages DEF Advances, CursorMoves
  <1>7. CASE VerifyBlock
    <2>1. /\ off < VerifyExtent(size) /\ off' = off + VerifyLength
          /\ UNCHANGED <<pc, n, grp, addr>>
      BY <1>3, <1>7 DEF VerifyBlock
    <2>2. VerifyLength \in Nat /\ VerifyLength > 0
      BY <1>1, <2>1, ExtentOnCard, Constants DEF VerifyLength
    <2>. QED
      BY <1>1, <2>1, <2>2, ExtentOnCard DEF Advances, CursorMoves
  <1>. QED
    BY <1>4, <1>5, <1>6, <1>7

\* Every step of a write() that has not returned leaves for a later phase or
\* moves a bounded cursor, whatever fails.  AlwaysReturns rests on it.
THEOREM WriteAdvances == Spec => [][pc # "done" => Advances]_vars
  <1>1. IInv /\ [Next]_vars => [pc # "done" => Advances]_vars
    BY CountedAdvances, EraseAdvances, BlocksAdvance DEF Next, Step, Returned
  <1>. QED
    BY <1>1, Invariance, PTL DEF Spec

\* Once the first save clear has succeeded, write() only returns out of the
\* final clear.  With WriteAdvances this is FinalClearAttempted without its
\* fairness: the session can stop early, but not return early.
THEOREM ReturnsThroughClear ==
    Spec => [][need /\ pc # "done" /\ pc' = "done" => pc = "clear"]_vars
  <1>1. IInv /\ [Next]_vars
            => [need /\ pc # "done" /\ pc' = "done" => pc = "clear"]_vars
    <2>. SUFFICES ASSUME IInv, Next, need, pc # "done", pc' = "done"
                  PROVE  pc = "clear"
      OBVIOUS
    <2>1. pc \notin BeforeSetup
      BY DEF IInv, ControlInv
    <2>2. ~Fail
      BY DEF Fail
    <2>3. ~Startup /\ ~PollReady /\ ~Probe /\ ~BridgePoll /\ ~PrepareGlobalWrite
      BY <2>1 DEF Startup, PollReady, Probe, BridgePoll, PrepareGlobalWrite, BeforeSetup
    <2>4. ~SelectWindowZeroForErase /\ ~EraseSector /\ ~NextEraseGroup /\ ~EraseDone
      BY <2>2 DEF SelectWindowZeroForErase, EraseSector, NextEraseGroup, EraseDone, Goto
    <2>5. ASSUME ProgramBlock PROVE FALSE
      <3>1. pc' = ProgramFrom(off')
        BY <2>2, <2>5 DEF ProgramBlock
      <3>2. pc' # "done"
        BY <3>1 DEF ProgramFrom, AfterProgram
      <3>. QED
        BY <3>2
    <2>6. ~SelectWindowZeroForProgram /\ ~SwitchProgramWindow /\ ~Finalize /\ ~MapVerify
          /\ ~VerifyBlock /\ ~VerifyDone
      BY <2>2 DEF SelectWindowZeroForProgram, SwitchProgramWindow, Finalize, MapVerify,
         VerifyBlock, VerifyDone, Goto
    <2>7. ClearSaveBanks
      BY <2>3, <2>4, <2>5, <2>6 DEF Next, Step, Returned
    <2>. QED
      BY <2>7 DEF ClearSaveBanks
  <1>. QED
    BY <1>1, Invariance, PTL DEF Spec
=============================================================================

-------------------------- MODULE CardWriteContract --------------------------
(***************************************************************************)
(* What a run of the card writer promises, seen from outside: the flash is *)
(* intact, torn (being erased or programmed) or holds the whole image; the *)
(* save memory is kept, touched or zero; the run reports an outcome and a  *)
(* claim about the image.  The claims are the three verification flags of  *)
(* CardWriteResult, the outcomes its status.                               *)
(***************************************************************************)

VARIABLES flash, saves, primed, claim, outcome

contract == <<flash, saves, primed, claim, outcome>>

SaveViews == {"kept", "touched", "zero"}
Skips == {"skipped_by_user", "skipped_unproven"}

Init ==
    /\ flash = "intact" /\ saves = "kept" /\ primed = FALSE
    /\ claim = "none" /\ outcome = "running"

Running == outcome = "running"

\* Window setup, status transfers and clears write to the save memory.
TouchSaves ==
    /\ Running
    /\ saves' \in SaveViews
    /\ UNCHANGED <<flash, primed, claim, outcome>>

\* The save memory was zeroed: from here on the flash may be modified, and
\* the run ends with another attempt to zero it.
Prime ==
    /\ Running /\ ~primed
    /\ saves' = "zero" /\ primed' = TRUE
    /\ UNCHANGED <<flash, claim, outcome>>

\* A whole image is never modified again, nor is a claim outlived by a change.
ModifyFlash ==
    /\ Running /\ primed /\ claim = "none" /\ flash # "whole"
    /\ flash' \in {"torn", "whole"}
    /\ UNCHANGED <<saves, primed, claim, outcome>>

\* "verified" is claimed of a whole image only.
Claim(c) ==
    /\ Running /\ primed /\ claim = "none"
    /\ c = "verified" => flash = "whole"
    /\ claim' = c
    /\ saves' \in SaveViews
    /\ UNCHANGED <<flash, primed, outcome>>

\* Success needs a claim and save memory left zero; a preflight failure leaves
\* the flash intact.
Return(o) ==
    /\ Running
    /\ outcome' = o
    /\ saves' \in SaveViews
    /\ o = "success" => claim # "none" /\ saves' = "zero"
    /\ o = "preflight_failed" => ~primed
    /\ UNCHANGED <<flash, primed, claim>>

Next ==
    \/ TouchSaves \/ Prime \/ ModifyFlash
    \/ \E c \in Skips \cup {"verified"} : Claim(c)
    \/ \E o \in {"success", "preflight_failed", "operation_failed"} : Return(o)

Spec == Init /\ [][Next]_contract
=============================================================================

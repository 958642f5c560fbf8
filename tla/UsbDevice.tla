------------------------------ MODULE UsbDevice ------------------------------
(***************************************************************************)
(* UsbDevice: the libusb session each tool owns for as long as it runs.    *)
(* open() begins with close(); the destructor is close() alone.  `live`    *)
(* counts what libusb has given the process and not taken back.            *)
(***************************************************************************)
EXTENDS Integers

VARIABLES
    upc,        \* the libusb call in progress
    uthen,      \* what follows close(): the rest of open(), or the end
    context, handle, claimed,   \* context_, handle_, interface_claimed_
    opened,     \* UsbOpenResult: "none", "success" or "failed"
    live        \* external: contexts, handles and claims not released

usb == <<upc, uthen, context, handle, claimed, opened, live>>

Nothing == [context |-> 0, handle |-> 0, claim |-> 0]

UsbTypeOK ==
    /\ upc \in {"idle", "release", "close", "exit", "init", "open", "claim", "gone"}
    /\ uthen \in {"init", "gone"}
    /\ context \in BOOLEAN /\ handle \in BOOLEAN /\ claimed \in BOOLEAN
    /\ opened \in {"none", "success", "failed"}
    /\ live \in [context : Nat, handle : Nat, claim : Nat]

UsbInit ==
    /\ upc = "idle" /\ uthen = "init" /\ opened = "none"
    /\ context = FALSE /\ handle = FALSE /\ claimed = FALSE
    /\ live = Nothing

\* A call of open(), of the destructor.
StartOpen ==
    /\ upc = "idle" /\ upc' = "release" /\ uthen' = "init" /\ opened' = "none"
    /\ UNCHANGED <<context, handle, claimed, live>>

Destroy ==
    /\ upc = "idle" /\ upc' = "release" /\ uthen' = "gone"
    /\ UNCHANGED <<context, handle, claimed, opened, live>>

-----------------------------------------------------------------------------
(* close() *)

\* Mutants: a claim is given back that was never made; nothing is done without
\* a claim.
ReleaseUnclaimed ==
    /\ upc = "release" /\ upc' = "close"
    /\ live' = [live EXCEPT !.claim = IF handle THEN @ - 1 ELSE @]
    /\ claimed' = FALSE
    /\ UNCHANGED <<uthen, context, handle, opened>>

ReleaseOrLeave ==
    /\ upc = "release" /\ claimed' = FALSE
    /\ upc' = IF claimed THEN "close" ELSE uthen
    /\ live' = [live EXCEPT !.claim = IF handle /\ claimed THEN @ - 1 ELSE @]
    /\ UNCHANGED <<uthen, context, handle, opened>>

ReleaseInterface ==
    /\ upc = "release" /\ upc' = "close"
    /\ live' = [live EXCEPT !.claim = IF handle /\ claimed THEN @ - 1 ELSE @]
    /\ claimed' = FALSE
    /\ UNCHANGED <<uthen, context, handle, opened>>

CloseHandle ==
    /\ upc = "close" /\ upc' = "exit"
    /\ live' = [live EXCEPT !.handle = IF handle THEN @ - 1 ELSE @]
    /\ handle' = FALSE
    /\ UNCHANGED <<uthen, context, claimed, opened>>

ExitContext ==
    /\ upc = "exit" /\ upc' = uthen
    /\ live' = [live EXCEPT !.context = IF context THEN @ - 1 ELSE @]
    /\ context' = FALSE
    /\ UNCHANGED <<uthen, handle, claimed, opened>>

-----------------------------------------------------------------------------
(* open().  A failure returns at once and leaves what was acquired to the    *)
(* destructor.                                                               *)

InitLibrary ==
    /\ upc = "init"
    /\ UNCHANGED <<uthen, handle, claimed>>
    /\ \/ /\ context' = TRUE /\ live' = [live EXCEPT !.context = @ + 1]
          /\ upc' = "open" /\ UNCHANGED opened
       \/ /\ context' = FALSE /\ opened' = "failed" /\ upc' = "idle"
          /\ UNCHANGED live

OpenHandle ==
    /\ upc = "open"
    /\ UNCHANGED <<uthen, context, claimed>>
    /\ \/ /\ handle' = TRUE /\ live' = [live EXCEPT !.handle = @ + 1]
          /\ upc' = "claim" /\ UNCHANGED opened
       \/ /\ handle' = FALSE /\ opened' = "failed" /\ upc' = "idle"
          /\ UNCHANGED live

\* The auto-detach setup before it only warns when it fails.
ClaimInterface ==
    /\ upc = "claim" /\ upc' = "idle"
    /\ UNCHANGED <<uthen, context, handle>>
    /\ \/ /\ claimed' = TRUE /\ opened' = "success"
          /\ live' = [live EXCEPT !.claim = @ + 1]
       \/ opened' = "failed" /\ UNCHANGED <<claimed, live>>

UsbStep ==
    \/ ReleaseInterface \/ CloseHandle \/ ExitContext
    \/ InitLibrary \/ OpenHandle \/ ClaimInterface

\* The object's whole life: any number of calls of open(), then destruction.
UsbNext == StartOpen \/ Destroy \/ UsbStep

UsbSpec == UsbInit /\ [][UsbNext]_usb

-----------------------------------------------------------------------------
(* What the process holds of libusb is nested at every step: a claim belongs *)
(* to an open handle, a handle to a context, each held at most once (the     *)
(* order the header promises, usb_device.hpp:36-37); open() reports success  *)
(* exactly when all three are held; and when the destructor has run, nothing *)
(* is held, wherever open() failed.                                          *)
UsbReleased ==
    /\ live.claim =< live.handle /\ live.handle =< live.context
    /\ live.context =< 1
    /\ upc = "idle" => (opened = "success" <=> live.claim = 1)
    /\ upc = "gone" => live = Nothing
=============================================================================

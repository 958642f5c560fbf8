---------------------------- MODULE MCCardReader ----------------------------
(***************************************************************************)
(* Cartridges for CardReader on a card of 16 units: single and multi-ROM   *)
(* images whose loader or last ROM ends in each quarter or straddles two,  *)
(* ROMs with an unknown size class or an extent beyond the card, an erased *)
(* card, official cartridges of several sizes and one of an unknown kind.  *)
(***************************************************************************)
EXTENDS CardReader

Rom(start, type) == [start |-> start, type |-> type, header |-> TRUE]
BadRom(start, type) == [Rom(start, type) EXCEPT !.header = FALSE]
Ez3(id, loader, roms) ==
    [kind |-> "ez3", id |-> id, loader |-> loader, used |-> CardLen, roms |-> roms]
NotEz3(k, used) ==
    [kind |-> k, id |-> FALSE, loader |-> 0, used |-> used, roms |-> <<>>]

MCLayouts ==
    { <<2, <<Rom(0, 2)>>>>,
      <<9, <<Rom(0, 0)>>>>,
      <<3, <<Rom(0, 1), BadRom(8, 2), Rom(12, 10)>>>>,
      <<4, <<Rom(0, 2), Rom(6, 2), Rom(10, 3)>>>>,
      <<15, <<Rom(0, 1), Rom(8, 1)>>>>,
      <<1, <<Rom(0, 2), Rom(4, 3), Rom(14, 3)>>>>,
      <<5, <<Rom(0, 2), Rom(12, 1)>>>> }

MCCards ==
    {Ez3(id, l[1], l[2]) : id \in BOOLEAN, l \in MCLayouts}
    \cup {[NotEz3("blank", 1) EXCEPT !.id = id] : id \in BOOLEAN}
    \cup {NotEz3("official", n) : n \in {1, 5, 8, 16}}
    \cup {NotEz3("other", 16)}

MCRequests ==
    {[extract |-> FALSE, exists |-> FALSE, rom |-> 0]}
    \cup {[extract |-> TRUE, exists |-> e, rom |-> n] : e \in BOOLEAN, n \in 0..4}
=============================================================================

--------------------------- MODULE MCCardRoundTrip ---------------------------
(***************************************************************************)
(* ROM files for CardRoundTrip on a card of 32 units with blocks of 4: of  *)
(* every size class and between two, full, with gaps the loaders fit in    *)
(* exactly or just not, with trailing FF, and with markers at, across and  *)
(* next to a chunk boundary.                                               *)
(***************************************************************************)
EXTENDS CardRoundTrip

MCPatternLen == <<3, 2, 2>>     \* SRAM_V111, its prefix SRAM_V, FLASH512

File(size, data, marks) ==
    [size |-> size, data |-> data, marks |-> marks,
     opens |-> TRUE, branch |-> TRUE,
     save |-> IF \E m \in marks : m[2] = 3 THEN "flash512" ELSE "plain"]

Long(at) == {<<at, 1>>, <<at, 2>>}  \* an SRAM_V111, which holds an SRAM_V

Padded16 == File(16, 0..1 \cup 5..7, Long(5))
Gap16 == File(16, 0..3 \cup 8..15, Long(10))
Full16 == File(16, 0..15, Long(7))
Odd20 == File(20, 0..17, {<<3, 3>>})
Odd12 == File(12, 0..11, {<<10, 3>>})
Padded8 == File(8, 0..3, {})
TightGap8 == File(8, {0, 1} \cup 4..7, {<<6, 3>>})
OddGap8 == File(8, 0..2 \cup 6..7, {<<6, 3>>})
Full4 == File(4, 0..3, {<<1, 3>>})
Short3 == File(3, 0..2, {})
Card32 == File(32, 0..31 \ {9, 10, 11, 12, 13}, Long(3) \cup {<<20, 3>>})
Full32 == File(32, 0..31, {})
TooBig == File(33, 0..32, {})
Unproven == [Short3 EXCEPT !.save = "unproven"]
NoBranch == [Short3 EXCEPT !.branch = FALSE]

Library == {Padded16, Gap16, Full16, Odd12, Padded8, TightGap8, OddGap8, Full4,
            Short3}
MCRomFiles == Library \cup {Odd20, Card32, Full32, Unproven}
Small == {Padded16, Padded8, TightGap8, Full4}

Command(roms, write, asBoot, mapped) ==
    [roms |-> roms, write |-> write, direct |-> asBoot, mapped |-> mapped]

MCCommands ==
    {Command(<<r>>, w, d, FALSE) : r \in MCRomFiles, w \in BOOLEAN, d \in BOOLEAN}
    \cup {Command(<<Unproven>>, TRUE, FALSE, TRUE)}
    \cup {Command(<<r>>, TRUE, FALSE, FALSE) : r \in {TooBig, NoBranch}}
    \cup {Command(<<>>, TRUE, FALSE, FALSE)}
    \cup {Command(<<r, s>>, TRUE, FALSE, FALSE) : r \in Library, s \in Library}
    \cup {Command(<<r, s>>, TRUE, TRUE, FALSE) : r \in {Full4}, s \in {Short3}}
    \cup {Command(<<r, s, t>>, TRUE, FALSE, FALSE) :
            r \in Small, s \in Small, t \in Small \cup {Short3}}
    \cup {Command(<<Odd12, Odd20>>, TRUE, FALSE, FALSE),
          Command(<<Full4, OddGap8, Short3>>, TRUE, FALSE, FALSE)}
    \cup {Command(<<Padded8, Full4, Short3, Full4>>, TRUE, FALSE, FALSE)}
    \cup {Command(<<Full4, Full4, Full4, Full4, Full4>>, TRUE, FALSE, FALSE)}
=============================================================================

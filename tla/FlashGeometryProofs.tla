------------------------- MODULE FlashGeometryProofs -------------------------
(***************************************************************************)
(* Facts about the writer's address arithmetic, for every card geometry    *)
(* that meets GeometryAssumption.                                          *)
(***************************************************************************)
EXTENDS FlashGeometry, TLAPS

\* Division with remainder.
LEMMA DivMod ==
    ASSUME NEW x \in Nat, NEW m \in Nat \ {0}
    PROVE  /\ x \div m \in Nat
           /\ x % m \in Nat
           /\ x % m < m
           /\ x = m * (x \div m) + (x % m)
  BY Z3

\* A card address lies in one of the four windows, at its local address.
LEMMA WindowSplit ==
    ASSUME NEW x \in Units
    PROVE  /\ WindowOf(x) \in Windows
           /\ Local(x) \in 0..(WindowLen - 1)
           /\ x = WindowOf(x) * WindowLen + Local(x)
  <1>1. x \in Nat /\ WindowLen \in Nat \ {0} /\ x < 4 * WindowLen
    BY GeometryAssumption DEF Units, CardLen
  <1>2. /\ x \div WindowLen \in Nat
        /\ x % WindowLen \in Nat
        /\ x % WindowLen < WindowLen
        /\ x = WindowLen * (x \div WindowLen) + (x % WindowLen)
    BY <1>1, DivMod
  <1>3. x \div WindowLen < 4
    BY <1>1, <1>2, Z3
  <1>. QED
    BY <1>1, <1>2, <1>3 DEF WindowOf, Local, Windows

\* The quotient is the window whose range holds the address.
LEMMA WindowOfRange ==
    ASSUME NEW x \in Nat, NEW w \in Nat, NEW l \in 0..(WindowLen - 1),
           x = w * WindowLen + l
    PROVE  WindowOf(x) = w /\ Local(x) = l
  BY GeometryAssumption, Z3 DEF WindowOf, Local

\* Multiples of a length that lie below one of its multiples lie a length
\* below it.
LEMMA MultipleGap ==
    ASSUME NEW x \in Nat, NEW y \in Nat, NEW m \in Nat \ {0},
           x % m = 0, y % m = 0, x < y
    PROVE  x + m =< y
  <1>1. x = m * (x \div m) /\ y = m * (y \div m)
    BY DivMod
  <1>2. x \div m \in Nat /\ y \div m \in Nat
    BY DivMod
  <1>3. x \div m < y \div m
    BY <1>1, <1>2, Z3
  <1>4. m * (x \div m) + m =< m * (y \div m)
    BY <1>2, <1>3, Z3
  <1>. QED
    BY <1>1, <1>4

\* A product is a multiple of its factor.
LEMMA ProductMod ==
    ASSUME NEW m \in Nat \ {0}, NEW k \in Nat
    PROVE  (m * k) % m = 0
  <1>1. m * k \in Nat
    BY Z3
  <1>2. /\ (m * k) \div m \in Nat /\ (m * k) % m \in Nat /\ (m * k) % m < m
        /\ m * k = m * ((m * k) \div m) + ((m * k) % m)
    BY <1>1, DivMod
  <1>3. CASE (m * k) \div m < k
    <2>1. m * ((m * k) \div m) + m =< m * k
      BY <1>2, <1>3, Z3
    <2>. QED
      BY <1>1, <1>2, <2>1, Z3
  <1>4. CASE (m * k) \div m >= k
    <2>1. m * ((m * k) \div m) >= m * k
      BY <1>2, <1>4, Z3
    <2>. QED
      BY <1>1, <1>2, <2>1, Z3
  <1>. QED
    BY <1>2, <1>3, <1>4, Z3

\* A multiple is a product.
LEMMA Divisible ==
    ASSUME NEW x \in Nat, NEW m \in Nat \ {0}, x % m = 0
    PROVE  \E k \in Nat : x = m * k
  <1>1. x \div m \in Nat /\ x = m * (x \div m)
    BY DivMod
  <1>. QED
    BY <1>1

\* One length above a multiple lies a multiple.
LEMMA NextMultiple ==
    ASSUME NEW x \in Nat, NEW m \in Nat \ {0}, x % m = 0
    PROVE  (x + m) % m = 0
  <1>1. PICK k \in Nat : x = m * k
    BY Divisible
  <1>2. k + 1 \in Nat /\ x + m = m * (k + 1)
    BY <1>1, Z3
  <1>3. (m * (k + 1)) % m = 0
    BY <1>2, ProductMod
  <1>. QED
    BY <1>2, <1>3, Zenon

\* Blocks do not straddle windows: every window starts at a block.
LEMMA WindowsHoldBlocks ==
    ASSUME NEW w \in Nat
    PROVE  (w * WindowLen) % BlockLen = 0
  <1>1. BlockLen \in Nat \ {0} /\ WindowLen \in Nat /\ 2 * BlockLen \in Nat \ {0}
        /\ WindowLen % (2 * BlockLen) = 0
    BY GeometryAssumption
  <1>2. PICK k \in Nat : WindowLen = (2 * BlockLen) * k
    BY <1>1, Divisible
  <1>3. 2 * k * w \in Nat
    BY <1>2, Z3
  <1>4. w * WindowLen = BlockLen * (2 * k * w)
    BY <1>1, <1>2, Z3
  <1>. QED
    BY <1>1, <1>3, <1>4, ProductMod

\* Stepping a block from a block address inside the card stays in the window
\* or reaches the next window's start.
LEMMA BlockStaysInWindow ==
    ASSUME NEW x \in Units, x % BlockLen = 0
    PROVE  /\ Local(x) + BlockLen =< WindowLen
           /\ (x + BlockLen) % BlockLen = 0
           /\ (x + BlockLen) % WindowLen # 0 => WindowOf(x + BlockLen) = WindowOf(x)
  <1>. DEFINE w == WindowOf(x)
              l == Local(x)
  <1>1. /\ w \in Nat /\ l \in Nat /\ l < WindowLen /\ x = w * WindowLen + l
        /\ x \in Nat
    BY WindowSplit, GeometryAssumption DEF Windows, Units
  <1>2. BlockLen \in Nat \ {0} /\ WindowLen \in Nat \ {0}
    BY GeometryAssumption
  <1>3. /\ w * WindowLen \in Nat /\ (w + 1) * WindowLen \in Nat
        /\ (w + 1) * WindowLen = w * WindowLen + WindowLen
    BY <1>1, <1>2, Z3
  <1>4. ((w + 1) * WindowLen) % BlockLen = 0
    BY <1>1, WindowsHoldBlocks
  <1>5. x < (w + 1) * WindowLen
    BY <1>1, <1>2, <1>3, Z3
  <1>6. x + BlockLen =< (w + 1) * WindowLen
    BY <1>1, <1>2, <1>3, <1>4, <1>5, MultipleGap
  <1>7. l + BlockLen =< WindowLen
    BY <1>1, <1>2, <1>3, <1>6, Z3
  <1>8. ASSUME (x + BlockLen) % WindowLen # 0
        PROVE  WindowOf(x + BlockLen) = w
    <2>1. CASE l + BlockLen = WindowLen
      <3>1. w + 1 \in Nat /\ x + BlockLen = (w + 1) * WindowLen
        BY <1>1, <1>2, <1>3, <2>1
      <3>2. (w + 1) * WindowLen = WindowLen * (w + 1)
        BY <1>2, <3>1, Z3
      <3>3. (WindowLen * (w + 1)) % WindowLen = 0
        BY <1>2, <3>1, ProductMod
      <3>. QED
        BY <1>8, <3>1, <3>2, <3>3, Zenon
    <2>2. CASE l + BlockLen < WindowLen
      <3>1. /\ l + BlockLen \in 0..(WindowLen - 1) /\ x + BlockLen \in Nat
            /\ x + BlockLen = w * WindowLen + (l + BlockLen)
        BY <1>1, <1>2, <2>2, Z3
      <3>. QED
        BY <1>1, <3>1, WindowOfRange
    <2>. QED
      BY <1>1, <1>2, <1>7, <2>1, <2>2
  <1>. QED
    BY <1>1, <1>2, <1>7, <1>8, NextMultiple

\* Rounding up to a block covers the image.
LEMMA RoundUpCovers ==
    ASSUME NEW s \in Nat
    PROVE  RoundUpToBlock(s) \in Nat /\ s =< RoundUpToBlock(s)
  <1>1. BlockLen \in Nat \ {0} /\ s + BlockLen - 1 \in Nat
    BY GeometryAssumption
  <1>2. /\ (s + BlockLen - 1) \div BlockLen \in Nat
        /\ (s + BlockLen - 1) % BlockLen < BlockLen
        /\ s + BlockLen - 1 = BlockLen * ((s + BlockLen - 1) \div BlockLen)
                                + ((s + BlockLen - 1) % BlockLen)
        /\ (s + BlockLen - 1) % BlockLen \in Nat
    BY <1>1, DivMod
  <1>. QED
    BY <1>1, <1>2, Z3 DEF RoundUpToBlock
=============================================================================

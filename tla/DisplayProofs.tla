--------------------------- MODULE DisplayProofs ---------------------------
(* Theorems about Display, for any number of terminals and any screen.        *)
EXTENDS Display, SequenceTheorems, WellFoundedInduction, TLAPS

(* Rows and columns from zero, and the cell a row and a column are.           *)
Row == 0 .. NumRows - 1
Col == 0 .. NumCols - 1
Place(r, c) == NumCols * r + c

(* A place is one cell after the place on its left, and NumCols after the one *)
(* above; rows and places are ordered alike.                                  *)
LEMMA PlaceFacts ==
    ASSUME NEW r \in Nat, NEW c \in Col
    PROVE  /\ Place(r, c) \in Nat
           /\ Place(r + 1, c) = Place(r, c) + NumCols
           /\ Place(r, c) \in Cell <=> r \in Row
<1>1. NumCols * r \in Nat /\ NumCols * (r + 1) = NumCols * r + NumCols
  BY DisplayAssumption
<1>2. ASSUME r < NumRows
      PROVE  NumCols * r + NumCols <= NumRows * NumCols
  <2>1. PICK d \in Nat : NumRows = r + 1 + d
    <3>1. NumRows - r - 1 \in Nat /\ NumRows = r + 1 + (NumRows - r - 1)
      BY <1>2, DisplayAssumption
    <3> QED
      BY <3>1
  <2>2. NumRows * NumCols = NumCols * r + NumCols + NumCols * d /\ NumCols * d \in Nat
    BY <2>1, DisplayAssumption
  <2> QED
    BY <1>1, <2>2, DisplayAssumption
<1>3. ASSUME r >= NumRows
      PROVE  NumRows * NumCols <= NumCols * r
  <2>1. PICK d \in Nat : r = NumRows + d
    <3>1. r - NumRows \in Nat /\ r = NumRows + (r - NumRows)
      BY <1>3, DisplayAssumption
    <3> QED
      BY <3>1
  <2>2. NumCols * r = NumRows * NumCols + NumCols * d /\ NumCols * d \in Nat
    BY <2>1, DisplayAssumption
  <2>3. NumRows * NumCols \in Nat
    BY DisplayAssumption
  <2> QED
    BY <2>2, <2>3
<1>4. NumRows * NumCols \in Nat
  BY DisplayAssumption
<1>5. CASE r < NumRows
  <2>1. r \in Row
    BY <1>5, DisplayAssumption DEF Row
  <2>2. Place(r, c) \in Cell
    BY <1>1, <1>2, <1>4, <1>5, DisplayAssumption DEF Place, Cell, Col
  <2> QED
    BY <1>1, <2>1, <2>2, DisplayAssumption DEF Place, Col
<1>6. CASE r >= NumRows
  <2>1. r \notin Row
    BY <1>6, DisplayAssumption DEF Row
  <2>2. Place(r, c) \notin Cell
    BY <1>1, <1>3, <1>4, <1>6, DisplayAssumption DEF Place, Cell, Col
  <2> QED
    BY <1>1, <2>1, <2>2, DisplayAssumption DEF Place, Col
<1> QED
  BY <1>5, <1>6, DisplayAssumption

(* A place in a higher row comes first.                                       *)
LEMMA PlaceOrder ==
    ASSUME NEW r \in Nat, NEW c \in Col, NEW q \in Nat, NEW d \in Col, r < q
    PROVE  Place(r, c) < Place(q, d)
<1>1. PICK m \in Nat : q = r + 1 + m
  <2>1. q - r - 1 \in Nat /\ q = r + 1 + (q - r - 1)
    OBVIOUS
  <2> QED
    BY <2>1
<1>2. NumCols * q = NumCols * r + NumCols + NumCols * m /\ NumCols * m \in Nat
  BY <1>1, DisplayAssumption
<1>3. NumCols * r \in Nat
  BY DisplayAssumption
<1> QED
  BY <1>2, <1>3, DisplayAssumption DEF Place, Col

(* Two places are the same only if their rows and columns are.                *)
LEMMA PlacesDiffer ==
    ASSUME NEW r \in Nat, NEW c \in Col, NEW q \in Nat, NEW d \in Col,
           Place(r, c) = Place(q, d)
    PROVE  r = q /\ c = d
<1>1. Place(r, c) \in Nat /\ Place(q, d) \in Nat
  BY PlaceFacts
<1>2. r = q
  BY <1>1, PlaceOrder
<1>3. NumCols * r \in Nat
  BY DisplayAssumption
<1> QED
  BY <1>2, <1>3 DEF Place, Col

(* Division by a positive number: quotient and remainder.                     *)
LEMMA Division ==
    ASSUME NEW k \in Int, NEW d \in Int, d > 0
    PROVE  /\ k \div d \in Int
           /\ k % d \in 0 .. d - 1
           /\ k = d * (k \div d) + (k % d)
<1>1. k % d \in 0 .. d - 1
  OBVIOUS
<1>2. k \div d \in Int
  OBVIOUS
<1>3. k = d * (k \div d) + (k % d)
  OBVIOUS
<1> QED
  BY <1>1, <1>2, <1>3

(* The quotient of a number that is not negative is not negative.             *)
LEMMA QuotientIsNat ==
    ASSUME NEW k \in Nat, NEW d \in Nat, d > 0,
           NEW q \in Int, NEW r \in 0 .. d - 1, k = d * q + r
    PROVE  q \in Nat
<1>1. ASSUME q < 0
      PROVE  FALSE
  <2>1. PICK m \in Nat : q = -1 - m
    <3>1. -1 - q \in Nat /\ q = -1 - (-1 - q)
      BY <1>1
    <3> QED
      BY <3>1
  <2>2. d * q = - d - d * m /\ d * m \in Nat
    BY <2>1
  <2> QED
    BY <2>2
<1> QED
  BY <1>1

(* Every cell is a place of the screen: the one Glyphs computes.              *)
LEMMA CellIsPlace ==
    ASSUME NEW k \in Cell
    PROVE  /\ k \div NumCols \in Row
           /\ k % NumCols \in Col
           /\ k = Place(k \div NumCols, k % NumCols)
<1>1. k \in Nat
  BY DisplayAssumption DEF Cell
<1>2. /\ k \div NumCols \in Int
      /\ k % NumCols \in Col
      /\ k = Place(k \div NumCols, k % NumCols)
  <2>1. /\ k \div NumCols \in Int
        /\ k % NumCols \in 0 .. NumCols - 1
        /\ k = NumCols * (k \div NumCols) + (k % NumCols)
    <3>1. k \in Int /\ NumCols \in Int /\ NumCols > 0
      BY <1>1, DisplayAssumption
    <3> QED
      BY <3>1, Division
  <2> QED
    BY <2>1 DEF Place, Col
<1>3. k \div NumCols \in Nat
  <2> DEFINE q == k \div NumCols
             r == k % NumCols
  <2>1. /\ q \in Int /\ r \in 0 .. NumCols - 1 /\ k = NumCols * q + r
        /\ NumCols \in Nat /\ NumCols > 0
    BY <1>2, DisplayAssumption DEF Place, Col
  <2> HIDE DEF q, r
  <2>2. q \in Nat
    BY <1>1, <2>1, QuotientIsNat
  <2> QED
    BY <2>2 DEF q
<1>4. k \div NumCols \in Row
  BY <1>2, <1>3, PlaceFacts
<1> QED
  BY <1>2, <1>4
-----------------------------------------------------------------------------
(* A screen with its cursor anywhere at or below the top.                     *)
Screens == [cells : [Cell -> Glyph], x : Col, y : Nat]

(* Where the cursor of a screen is.                                           *)
At(s) == Place(s.y, s.x)

(* What drawing a glyph in a cell does to the cells.                          *)
LEMMA DrawFacts ==
    ASSUME NEW s \in Screens, NEW g \in Glyph
    PROVE  /\ Draw(s, g) \in Screens
           /\ Draw(s, g).x = s.x /\ Draw(s, g).y = s.y
           /\ \A r \in Row, c \in Col :
                  Draw(s, g).cells[Place(r, c)] =
                      IF r = s.y /\ c = s.x THEN g ELSE s.cells[Place(r, c)]
<1>1. s.y \in Nat /\ s.x \in Col /\ s.cells \in [Cell -> Glyph]
  BY DEF Screens
<1>2. NumCols * s.y + s.x = At(s)
  BY DEF At, Place
<1>3. \A r \in Row, c \in Col : Place(r, c) \in Cell
  BY PlaceFacts DEF Row
<1>4. CASE At(s) \in Cell
  <2>1. Draw(s, g) = [s EXCEPT !.cells[At(s)] = g]
    BY <1>2, <1>4 DEF Draw
  <2>2. /\ Draw(s, g) \in Screens
        /\ Draw(s, g).x = s.x /\ Draw(s, g).y = s.y
        /\ Draw(s, g).cells = [s.cells EXCEPT ![At(s)] = g]
    BY <2>1 DEF Screens
  <2>3. ASSUME NEW r \in Row, NEW c \in Col
        PROVE  Draw(s, g).cells[Place(r, c)] =
                   IF r = s.y /\ c = s.x THEN g ELSE s.cells[Place(r, c)]
    <3>1. Place(r, c) = At(s) <=> r = s.y /\ c = s.x
      BY <1>1, PlacesDiffer DEF At, Row
    <3> QED
      BY <1>1, <1>3, <1>4, <2>2, <3>1
  <2> QED
    BY <2>2, <2>3
<1>5. CASE At(s) \notin Cell
  <2>1. Draw(s, g) = s
    BY <1>2, <1>5 DEF Draw
  <2>2. s.y \notin Row
    BY <1>1, <1>5, PlaceFacts DEF At
  <2> QED
    BY <2>1, <2>2
<1> QED
  BY <1>4, <1>5

(* What the scroll of putc does: every row takes the one below.               *)
LEMMA ScrolledFacts ==
    ASSUME NEW s \in Screens
    PROVE  /\ Scrolled(s) \in Screens
           /\ s.y # NumRows => Scrolled(s) = s
           /\ s.y = NumRows =>
                  /\ Scrolled(s).x = 0
                  /\ Scrolled(s).y = NumRows - 1
                  /\ \A r \in Row, c \in Col :
                        Scrolled(s).cells[Place(r, c)] =
                            IF r + 1 \in Row THEN s.cells[Place(r + 1, c)] ELSE BLANK
<1>1. s.y \in Nat /\ s.x \in Col /\ s.cells \in [Cell -> Glyph]
  BY DEF Screens
<1>2. CASE s.y = NumRows
  <2> DEFINE cells == [k \in Cell |-> IF k + NumCols \in Cell THEN s.cells[k + NumCols] ELSE BLANK]
  <2>1. Scrolled(s) = [cells |-> cells, x |-> 0, y |-> NumRows - 1]
    BY <1>2 DEF Scrolled
  <2>2. cells \in [Cell -> Glyph]
    BY <1>1 DEF Glyph
  <2>3. 0 \in Col /\ NumRows - 1 \in Nat
    BY DisplayAssumption DEF Col
  <2>4. Scrolled(s) \in Screens
    BY <2>1, <2>2, <2>3 DEF Screens
  <2>5. ASSUME NEW r \in Row, NEW c \in Col
        PROVE  cells[Place(r, c)] = IF r + 1 \in Row THEN s.cells[Place(r + 1, c)] ELSE BLANK
    <3>1. r \in Nat /\ r + 1 \in Nat
      BY DEF Row
    <3>2. Place(r, c) \in Cell /\ Place(r + 1, c) = Place(r, c) + NumCols
      BY <3>1, PlaceFacts
    <3>3. Place(r + 1, c) \in Cell <=> r + 1 \in Row
      BY <3>1, PlaceFacts
    <3> QED
      BY <3>2, <3>3
  <2> QED
    BY <1>2, <2>1, <2>4, <2>5
<1> QED
  BY <1>2 DEF Scrolled

(* The cursor after a newline and after a glyph.                              *)
LEMMA MoveFacts ==
    ASSUME NEW s \in Screens, NEW g \in Glyph
    PROVE  /\ Newline(s) \in Screens
           /\ Newline(s).cells = s.cells /\ Newline(s).x = 0 /\ Newline(s).y = s.y + 1
           /\ PutGlyph(s, g) \in Screens
           /\ PutGlyph(s, g).cells = Draw(s, g).cells
           /\ PutGlyph(s, g).x = IF s.x + 1 = NumCols THEN 0 ELSE s.x + 1
           /\ PutGlyph(s, g).y = IF s.x + 1 = NumCols THEN s.y + 1 ELSE s.y
<1>1. 0 \in Col
  BY DisplayAssumption DEF Col
<1>2. ASSUME NEW d \in Screens
      PROVE  /\ Newline(d) \in Screens
             /\ Newline(d).cells = d.cells /\ Newline(d).x = 0 /\ Newline(d).y = d.y + 1
  <2>1. d.y + 1 \in Nat
    BY DEF Screens
  <2>2. Newline(d) \in Screens
    BY <1>1, <2>1 DEF Newline, Screens
  <2>3. Newline(d).cells = d.cells /\ Newline(d).x = 0 /\ Newline(d).y = d.y + 1
    BY DEF Newline, Screens
  <2> QED
    BY <2>2, <2>3
<1>3. s.x \in 0 .. NumCols - 1 /\ s.y \in Nat /\ NumCols \in Nat \ {0}
  BY DisplayAssumption DEF Screens, Col
<1> DEFINE d == Draw(s, g)
           p == PutGlyph(s, g)
           x == (s.x + 1) % NumCols
           y == d.y + (s.x + 1) \div NumCols
<1>4. d \in Screens /\ d.x = s.x /\ d.y = s.y
  BY DrawFacts
<1>5. p = [d EXCEPT !.x = x, !.y = y]
  BY DEF PutGlyph
<1>6. /\ x \in Col /\ y \in Nat
      /\ x = IF s.x + 1 = NumCols THEN 0 ELSE s.x + 1
      /\ y = IF s.x + 1 = NumCols THEN s.y + 1 ELSE s.y
  <2> HIDE DEF d, p
  <2>1. CASE s.x + 1 = NumCols
    <3>1. (s.x + 1) % NumCols = 0 /\ (s.x + 1) \div NumCols = 1
      BY <1>3, <2>1
    <3> QED
      BY <1>1, <1>3, <1>4, <2>1, <3>1
  <2>2. CASE s.x + 1 # NumCols
    <3>1. (s.x + 1) % NumCols = s.x + 1 /\ (s.x + 1) \div NumCols = 0
      BY <1>3, <2>2
    <3>2. s.x + 1 \in Col
      BY <1>3, <2>2 DEF Col
    <3> QED
      BY <1>3, <1>4, <2>2, <3>1, <3>2
  <2> QED
    BY <2>1, <2>2
<1> HIDE DEF d, p, x, y
<1>7. p \in Screens /\ p.cells = d.cells /\ p.x = x /\ p.y = y
  BY <1>4, <1>5, <1>6 DEF Screens
<1> QED
  BY <1>2, <1>6, <1>7 DEF d, p

(* A space of a tab, which does not wrap as a glyph does, does on the screen. *)
LEMMA SpaceIsGlyph ==
    ASSUME NEW s \in Screens
    PROVE  PutSpace(s) = PutGlyph(s, BLANK)
<1> DEFINE d == Draw(s, BLANK)
           p == PutGlyph(s, BLANK)
<1>1. BLANK \in Glyph
  BY DEF Glyph
<1>2. d \in Screens /\ d.x = s.x /\ d.y = s.y
  BY <1>1, DrawFacts
<1>3. /\ p \in Screens /\ p.cells = d.cells
      /\ p.x = IF s.x + 1 = NumCols THEN 0 ELSE s.x + 1
      /\ p.y = IF s.x + 1 = NumCols THEN s.y + 1 ELSE s.y
  BY <1>1, MoveFacts
<1> HIDE DEF d
<1>4. /\ PutSpace(s) \in Screens
      /\ PutSpace(s).cells = p.cells /\ PutSpace(s).x = p.x /\ PutSpace(s).y = p.y
  <2>1. CASE s.x + 1 = NumCols
    <3>1. PutSpace(s) = Newline(d)
      BY <2>1 DEF PutSpace, d
    <3>2. /\ Newline(d) \in Screens
          /\ Newline(d).cells = d.cells /\ Newline(d).x = 0 /\ Newline(d).y = d.y + 1
      BY <1>1, <1>2, MoveFacts
    <3> HIDE DEF p
    <3> QED
      BY <1>2, <1>3, <2>1, <3>1, <3>2
  <2>2. CASE s.x + 1 # NumCols
    <3>1. PutSpace(s) = [d EXCEPT !.x = d.x + 1]
      BY <2>2 DEF PutSpace, d
    <3>2. d.x + 1 \in Col
      BY <1>2, <2>2, DisplayAssumption DEF Screens, Col
    <3>3. /\ PutSpace(s) \in Screens
          /\ PutSpace(s).cells = d.cells /\ PutSpace(s).x = d.x + 1 /\ PutSpace(s).y = d.y
      BY <1>2, <3>1, <3>2 DEF Screens
    <3> HIDE DEF p
    <3> QED
      BY <1>2, <1>3, <2>2, <3>3
  <2> QED
    BY <2>1, <2>2
<1> HIDE DEF p
<1>5. PutSpace(s) = p
  BY <1>3, <1>4 DEF Screens
<1> QED
  BY <1>5 DEF p

(* The cursor after a backspace, which erases the cell it moves to.           *)
LEMMA EraseFacts ==
    ASSUME NEW s \in Screens, At(s) > 0
    PROVE  /\ Erase(s) \in Screens
           /\ Erase(s).x = IF s.x = 0 THEN NumCols - 1 ELSE s.x - 1
           /\ Erase(s).y = IF s.x = 0 THEN s.y - 1 ELSE s.y
           /\ \A r \in Row, c \in Col :
                  Erase(s).cells[Place(r, c)] =
                      IF r = Erase(s).y /\ c = Erase(s).x THEN BLANK ELSE s.cells[Place(r, c)]
<1>1. s.y \in Nat /\ s.x \in Col
  BY DEF Screens
<1>2. /\ Back(s) \in Screens
      /\ Back(s).cells = s.cells
      /\ Back(s).x = IF s.x = 0 THEN NumCols - 1 ELSE s.x - 1
      /\ Back(s).y = IF s.x = 0 THEN s.y - 1 ELSE s.y
  <2>1. CASE s.x = 0
    <3>1. s.y # 0
      BY <2>1, DisplayAssumption DEF At, Place
    <3>2. NumCols - 1 \in Col /\ s.y - 1 \in Nat
      BY <1>1, <3>1, DisplayAssumption DEF Col
    <3>3. Back(s) \in Screens
      BY <2>1, <3>2 DEF Back, Screens
    <3> QED
      BY <2>1, <3>3 DEF Back, Screens
  <2>2. CASE s.x # 0
    <3>1. s.x - 1 \in Col
      BY <1>1, <2>2, DisplayAssumption DEF Col
    <3> QED
      BY <2>2, <3>1 DEF Back, Screens
  <2> QED
    BY <2>1, <2>2
<1>3. BLANK \in Glyph
  BY DEF Glyph
<1> QED
  BY <1>2, <1>3, DrawFacts DEF Erase
-----------------------------------------------------------------------------
(* A set of natural numbers has a least element.                              *)
LEMMA LeastNatural ==
    ASSUME NEW S, S \subseteq Nat, S # {}
    PROVE  \E m \in S : \A k \in S : m <= k
<1> DEFINE Less == OpToRel(<, Nat)
<1>1. PICK m \in S : \A k \in S : ~(<<k, m>> \in Less)
  <2> HIDE DEF Less
  <2>1. IsWellFoundedOn(Less, Nat)
    BY NatLessThanWellFounded DEF Less
  <2> QED
    BY <2>1, WFMin
<1>2. \A k \in S : ~(k < m)
  BY <1>1 DEF OpToRel
<1> QED
  BY <1>2

(* Induction up to a bound, for the numbers in a set.                         *)
LEMMA InductionTo ==
    ASSUME NEW T \in Nat, NEW P, 0 \in P,
           \A n \in 1 .. T : n - 1 \in P => n \in P
    PROVE  \A n \in 0 .. T : n \in P
<1> DEFINE Rest == (0 .. T) \ P
<1>1. ASSUME Rest # {}
      PROVE  FALSE
  <2>1. Rest \subseteq Nat
    OBVIOUS
  <2>2. PICK m \in Rest : \A k \in Rest : m <= k
    <3> HIDE DEF Rest
    <3> QED
      BY <1>1, <2>1, LeastNatural
  <2>3. m \in 1 .. T /\ m \notin P
    BY <2>2
  <2>4. m - 1 \in 0 .. T /\ ~(m <= m - 1)
    BY <2>3
  <2>5. m - 1 \in P
    BY <2>2, <2>4
  <2> QED
    BY <2>3, <2>5
<1> QED
  BY <1>1

(* f takes a step n times from a point a of S, for n up to T.                 *)
Iterates(f, T, S, a, Step) ==
    /\ f \in [0 .. T -> S]
    /\ f[0] = a
    /\ \A n \in 1 .. T : f[n] = Step[f[n - 1]]

(* The function that a recursion on 0 .. T defines exists.                    *)
LEMMA Iteration ==
    ASSUME NEW S, NEW Step \in [S -> S], NEW a \in S, NEW T \in Nat
    PROVE  \E f : Iterates(f, T, S, a, Step)
<1> DEFINE P == {m \in Nat : \E f : Iterates(f, m, S, a, Step)}
<1>1. 0 \in P
  <2>1. Iterates([n \in 0 .. 0 |-> a], 0, S, a, Step)
    BY DEF Iterates
  <2> QED
    BY <2>1
<1>2. ASSUME NEW m \in 1 .. T, m - 1 \in P
      PROVE  m \in P
  <2>1. m \in Nat /\ m - 1 \in Nat /\ m # 0
    OBVIOUS
  <2>2. PICK f : Iterates(f, m - 1, S, a, Step)
    BY <1>2
  <2> DEFINE g == [n \in 0 .. m |-> IF n = m THEN Step[f[m - 1]] ELSE f[n]]
  <2>3. f[m - 1] \in S
    BY <2>1, <2>2 DEF Iterates
  <2>4. g \in [0 .. m -> S]
    BY <2>1, <2>2, <2>3 DEF Iterates
  <2>5. ASSUME NEW n \in 1 .. m
        PROVE  g[n] = Step[g[n - 1]]
    BY <2>1, <2>2 DEF Iterates
  <2>6. g[0] = a
    BY <2>1, <2>2 DEF Iterates
  <2>7. Iterates(g, m, S, a, Step)
    BY <2>4, <2>5, <2>6 DEF Iterates
  <2> QED
    BY <2>1, <2>7
<1>3. T \in P
  <2> HIDE DEF P
  <2> QED
    BY <1>1, <1>2, InductionTo
<1> QED
  BY <1>3

(* The tab of putc: TAB_SPACES spaces, one after the other.                   *)
LEMMA PutTabUnfolds ==
    ASSUME NEW s \in Screens
    PROVE  \E f \in [0 .. TabSpaces -> Screens] :
               /\ f[0] = s
               /\ \A n \in 1 .. TabSpaces : f[n] = PutGlyph(f[n - 1], BLANK)
               /\ PutTab(s) = f[TabSpaces]
<1> DEFINE Step == [d \in Screens |-> PutGlyph(d, BLANK)]
           Def(h) == [n \in 0 .. TabSpaces |-> IF n = 0 THEN s ELSE PutSpace(h[n - 1])]
           g == CHOOSE h : h = Def(h)
<1>1. TabSpaces \in Nat /\ BLANK \in Glyph
  BY DisplayAssumption DEF Glyph
<1>2. Step \in [Screens -> Screens]
  BY <1>1, MoveFacts
<1>3. PICK f : Iterates(f, TabSpaces, Screens, s, Step)
  <2> HIDE DEF Step
  <2> QED
    BY <1>1, <1>2, Iteration
<1>4. \A n \in 1 .. TabSpaces : f[n] = PutGlyph(f[n - 1], BLANK)
  <2> SUFFICES ASSUME NEW n \in 1 .. TabSpaces
               PROVE  f[n] = PutGlyph(f[n - 1], BLANK)
    OBVIOUS
  <2>1. n - 1 \in 0 .. TabSpaces
    BY <1>1
  <2>2. f[n - 1] \in Screens
    BY <1>3, <2>1 DEF Iterates
  <2>3. Step[f[n - 1]] = PutGlyph(f[n - 1], BLANK)
    BY <2>2
  <2>4. f[n] = Step[f[n - 1]]
    BY <1>3 DEF Iterates
  <2> QED
    BY <2>3, <2>4
<1>5. f = Def(f)
  <2>1. \A n \in 1 .. TabSpaces : n - 1 \in 0 .. TabSpaces /\ f[n - 1] \in Screens
    BY <1>1, <1>3 DEF Iterates
  <2>2. \A n \in 1 .. TabSpaces : f[n] = PutSpace(f[n - 1])
    BY <1>4, <2>1, SpaceIsGlyph
  <2> QED
    BY <1>1, <1>3, <2>2 DEF Iterates
<1>6. g = Def(g)
  <2> HIDE DEF Def
  <2> QED
    BY <1>5
<1>7. \A n \in 0 .. TabSpaces : g[n] = f[n]
  <2> DEFINE P == {n \in 0 .. TabSpaces : g[n] = f[n]}
  <2> HIDE DEF g
  <2>1. 0 \in P
    BY <1>1, <1>3, <1>6 DEF Iterates
  <2>2. ASSUME NEW n \in 1 .. TabSpaces, n - 1 \in P
        PROVE  n \in P
    <3>1. g[n] = PutSpace(g[n - 1])
      BY <1>1, <1>6
    <3>2. n - 1 \in 0 .. TabSpaces /\ f[n - 1] \in Screens
      BY <1>1, <1>3 DEF Iterates
    <3> QED
      BY <1>4, <2>2, <3>1, <3>2, SpaceIsGlyph
  <2>3. \A n \in 0 .. TabSpaces : n \in P
    <3> HIDE DEF P
    <3> QED
      BY <1>1, <2>1, <2>2, InductionTo
  <2> QED
    BY <2>3
<1>8. PutTab(s) = g[TabSpaces]
  BY DEF PutTab
<1> QED
  BY <1>1, <1>3, <1>4, <1>7, <1>8 DEF Iterates
-----------------------------------------------------------------------------
(* The lines a console may have: full lines above the cursor's, which is not  *)
(* full, and the line below the last row is empty.                            *)
Lines ==
    {lines \in Seq(Seq(Glyph)) :
        /\ Len(lines) \in 1 .. NumRows + 1
        /\ \A i \in 1 .. Len(lines) - 1 : Len(lines[i]) = NumCols
        /\ Len(lines[Len(lines)]) < NumCols
        /\ Len(lines) = NumRows + 1 => lines[Len(lines)] = <<>>}

(* What the lines have in a row and a column.                                 *)
GlyphAt(lines, r, c) ==
    IF r + 1 \in 1 .. Len(lines) /\ c + 1 \in 1 .. Len(lines[r + 1])
    THEN lines[r + 1][c + 1] ELSE BLANK

(* A screen shows lines: the same glyph in every cell, and the cursor at the  *)
(* end of the last line.                                                      *)
Shows(s, lines) ==
    /\ s \in Screens
    /\ lines \in Lines
    /\ s.y + 1 = Len(lines)
    /\ s.x = Len(lines[Len(lines)])
    /\ \A r \in Row, c \in Col : s.cells[Place(r, c)] = GlyphAt(lines, r, c)

(* Lines are sequences of sequences, of at least one line.                    *)
LEMMA LinesFacts ==
    ASSUME NEW lines \in Lines
    PROVE  /\ lines \in Seq(Seq(Glyph))
           /\ Len(lines) \in Nat \ {0}
           /\ Len(lines) <= NumRows + 1
           /\ Last(lines) = lines[Len(lines)]
           /\ lines # <<>>
           /\ \A i \in 1 .. Len(lines) :
                  /\ lines[i] \in Seq(Glyph)
                  /\ Len(lines[i]) \in Nat
                  /\ Len(lines[i]) <= NumCols
                  /\ i # Len(lines) => Len(lines[i]) = NumCols
           /\ Len(lines[Len(lines)]) < NumCols
           /\ Len(lines) = NumRows + 1 => lines[Len(lines)] = <<>>
<1>1. /\ lines \in Seq(Seq(Glyph))
      /\ Len(lines) \in 1 .. NumRows + 1
      /\ \A i \in 1 .. Len(lines) - 1 : Len(lines[i]) = NumCols
      /\ Len(lines[Len(lines)]) < NumCols
      /\ Len(lines) = NumRows + 1 => lines[Len(lines)] = <<>>
  BY DEF Lines
<1>2. \A i \in 1 .. Len(lines) : lines[i] \in Seq(Glyph) /\ Len(lines[i]) \in Nat
  BY <1>1, ElementOfSeq, LenProperties
<1>3. Len(lines) \in Nat \ {0} /\ Len(lines) <= NumRows + 1 /\ lines # <<>>
  BY <1>1, EmptySeq, DisplayAssumption
<1>4. ASSUME NEW i \in 1 .. Len(lines)
      PROVE  /\ Len(lines[i]) <= NumCols
             /\ i # Len(lines) => Len(lines[i]) = NumCols
  <2>1. i = Len(lines) \/ i \in 1 .. Len(lines) - 1
    BY <1>3
  <2>2. Len(lines) \in 1 .. Len(lines)
    BY <1>3
  <2> QED
    BY <1>1, <1>2, <2>1, <2>2, DisplayAssumption
<1> QED
  BY <1>1, <1>2, <1>3, <1>4 DEF Last

(* A screen that shows lines has the cells Glyphs computes.                   *)
LEMMA ShownCells ==
    ASSUME NEW s \in Screens, NEW lines \in Lines
    PROVE  s.cells = Glyphs(lines) <=>
               \A r \in Row, c \in Col : s.cells[Place(r, c)] = GlyphAt(lines, r, c)
<1>1. s.cells \in [Cell -> Glyph]
  BY DEF Screens
<1>2. DOMAIN lines = 1 .. Len(lines)
  BY LinesFacts, LenProperties
<1>3. \A i \in 1 .. Len(lines) : DOMAIN lines[i] = 1 .. Len(lines[i])
  BY LinesFacts, LenProperties
<1>4. ASSUME NEW k \in Cell
      PROVE  Glyphs(lines)[k] = GlyphAt(lines, k \div NumCols, k % NumCols)
  BY <1>2, <1>3 DEF Glyphs, GlyphAt
<1>5. Glyphs(lines) = [k \in Cell |-> Glyphs(lines)[k]]
  BY DEF Glyphs
<1>6. s.cells = Glyphs(lines) <=> \A k \in Cell : s.cells[k] = Glyphs(lines)[k]
  <2> HIDE DEF Glyphs
  <2> QED
    BY <1>1, <1>5
<1>7. ASSUME NEW r \in Row, NEW c \in Col
      PROVE  /\ Place(r, c) \in Cell
             /\ Place(r, c) \div NumCols = r
             /\ Place(r, c) % NumCols = c
  <2>1. r \in Nat /\ Place(r, c) \in Cell
    BY PlaceFacts DEF Row
  <2>2. /\ Place(r, c) \div NumCols \in Nat
        /\ Place(r, c) % NumCols \in Col
        /\ Place(r, c) = Place(Place(r, c) \div NumCols, Place(r, c) % NumCols)
    BY <2>1, CellIsPlace DEF Row
  <2> QED
    BY <2>1, <2>2, PlacesDiffer
<1>8. ASSUME \A r \in Row, c \in Col : s.cells[Place(r, c)] = GlyphAt(lines, r, c)
      PROVE  s.cells = Glyphs(lines)
  <2>1. ASSUME NEW k \in Cell
        PROVE  s.cells[k] = Glyphs(lines)[k]
    BY <1>4, <1>8, CellIsPlace
  <2> QED
    BY <1>6, <2>1
<1>9. ASSUME s.cells = Glyphs(lines)
      PROVE  \A r \in Row, c \in Col : s.cells[Place(r, c)] = GlyphAt(lines, r, c)
  BY <1>4, <1>7, <1>9
<1> QED
  BY <1>8, <1>9

(* The lines on the screen: all, or all but the first.                        *)
LEMMA VisibleFacts ==
    ASSUME NEW lines \in Lines
    PROVE  /\ Visible(lines) \in Lines
           /\ Len(lines) <= NumRows => Visible(lines) = lines
           /\ Len(lines) > NumRows =>
                 /\ Len(lines) = NumRows + 1
                 /\ Len(Visible(lines)) = NumRows
                 /\ \A i \in 1 .. NumRows : Visible(lines)[i] = lines[i + 1]
<1>1. CASE Len(lines) <= NumRows
  BY <1>1, LinesFacts, DisplayAssumption DEF Visible
<1>2. CASE Len(lines) > NumRows
  <2>1. Visible(lines) = Tail(lines) /\ Len(lines) = NumRows + 1
    BY <1>2, LinesFacts, DisplayAssumption DEF Visible
  <2>2. /\ Tail(lines) \in Seq(Seq(Glyph))
        /\ Len(Tail(lines)) = NumRows
        /\ \A i \in 1 .. NumRows : Tail(lines)[i] = lines[i + 1]
    BY <2>1, LinesFacts, HeadTailProperties, DisplayAssumption
  <2>3. \A i \in 1 .. NumRows - 1 : Len(Tail(lines)[i]) = NumCols
    <3>1. \A i \in 1 .. NumRows - 1 :
              i \in 1 .. NumRows /\ i + 1 \in 1 .. Len(lines) /\ i + 1 # Len(lines)
      BY <2>1, DisplayAssumption
    <3> QED
      BY <2>2, <3>1, LinesFacts
  <2>4. Tail(lines)[NumRows] = lines[Len(lines)]
    BY <2>1, <2>2, DisplayAssumption
  <2> DEFINE v == Tail(lines)
  <2>5. v \in Lines
    <3>1. Len(v) \in 1 .. NumRows + 1 /\ Len(v) # NumRows + 1
      BY <2>2, DisplayAssumption
    <3>2. \A i \in 1 .. Len(v) - 1 : Len(v[i]) = NumCols
      BY <2>2, <2>3
    <3>3. Len(v[Len(v)]) < NumCols
      BY <2>2, <2>4, LinesFacts
    <3>4. v \in Seq(Seq(Glyph))
      BY <2>2
    <3> HIDE DEF v
    <3> QED
      BY <3>1, <3>2, <3>3, <3>4 DEF Lines
  <2> QED
    BY <1>2, <2>1, <2>2, <2>5
<1> QED
  BY <1>1, <1>2, LinesFacts, DisplayAssumption

(* The scroll of putc shows the lines that are left on the screen.            *)
LEMMA ScrolledShows ==
    ASSUME NEW s, NEW lines, Shows(s, lines)
    PROVE  /\ Shows(Scrolled(s), Visible(lines))
           /\ Scrolled(s).y < NumRows
           /\ Len(Visible(lines)) <= NumRows
<1> DEFINE v == Visible(lines)
           z == Scrolled(s)
<1>1. s \in Screens /\ lines \in Lines /\ s.y \in Nat
  BY DEF Shows, Screens
<1>2. z \in Screens /\ v \in Lines
  BY <1>1, ScrolledFacts, VisibleFacts
<1>3. CASE Len(lines) <= NumRows
  <2>1. s.y < NumRows
    BY <1>1, <1>3, DisplayAssumption DEF Shows
  <2>2. z = s
    BY <1>1, <2>1, ScrolledFacts, DisplayAssumption
  <2>3. v = lines
    BY <1>1, <1>3, VisibleFacts
  <2> QED
    BY <1>3, <2>1, <2>2, <2>3
<1>4. CASE Len(lines) > NumRows
  <2>1. /\ Len(lines) = NumRows + 1
        /\ Len(v) = NumRows
        /\ \A i \in 1 .. NumRows : v[i] = lines[i + 1]
    BY <1>1, <1>4, VisibleFacts
  <2>2. s.y = NumRows
    BY <1>1, <2>1, DisplayAssumption DEF Shows
  <2>3. /\ z.x = 0 /\ z.y = NumRows - 1
        /\ \A r \in Row, c \in Col :
               z.cells[Place(r, c)] = IF r + 1 \in Row THEN s.cells[Place(r + 1, c)] ELSE BLANK
    BY <1>1, <2>2, ScrolledFacts
  <2>4. lines[NumRows + 1] = <<>> /\ v[NumRows] = <<>>
    <3>1. lines[NumRows + 1] = <<>>
      BY <1>1, <2>1, LinesFacts
    <3>2. NumRows \in 1 .. NumRows
      BY DisplayAssumption
    <3> QED
      BY <2>1, <3>1, <3>2
  <2>5. z.y + 1 = Len(v) /\ z.x = Len(v[Len(v)]) /\ z.y < NumRows
    BY <2>1, <2>3, <2>4, DisplayAssumption
  <2>6. ASSUME NEW r \in Row, NEW c \in Col
        PROVE  z.cells[Place(r, c)] = GlyphAt(v, r, c)
    <3>1. /\ r + 1 \in 1 .. Len(v)
          /\ v[r + 1] = lines[r + 2]
          /\ r + 2 \in 1 .. Len(lines)
      BY <2>1, DisplayAssumption DEF Row
    <3>2. GlyphAt(v, r, c) = GlyphAt(lines, r + 1, c)
      BY <3>1 DEF GlyphAt, Row
    <3>3. CASE r + 1 \in Row
      BY <2>3, <3>2, <3>3 DEF Shows
    <3>4. CASE r + 1 \notin Row
      <4>1. r + 1 = NumRows
        BY <3>4, DisplayAssumption DEF Row
      <4>2. GlyphAt(v, r, c) = BLANK
        BY <2>4, <4>1 DEF GlyphAt, Col
      <4> QED
        BY <2>3, <3>4, <4>2
    <3> QED
      BY <3>3, <3>4
  <2>7. Shows(z, v)
    BY <1>2, <2>5, <2>6 DEF Shows
  <2>8. Len(v) <= NumRows
    BY <2>1, DisplayAssumption
  <2> QED
    BY <2>5, <2>7, <2>8
<1> QED
  BY <1>1, <1>3, <1>4, LinesFacts, DisplayAssumption
-----------------------------------------------------------------------------
(* Other lines in place of the last one.                                      *)
LEMMA EndReplaced ==
    ASSUME NEW v \in Seq(Seq(Glyph)), NEW L \in Nat, L = Len(v), L >= 1,
           NEW end \in Seq(Seq(Glyph))
    PROVE  LET w == SubSeq(v, 1, L - 1) \o end
           IN  /\ w \in Seq(Seq(Glyph))
               /\ Len(w) = L - 1 + Len(end)
               /\ \A i \in 1 .. L - 1 : w[i] = v[i]
               /\ \A i \in 1 .. Len(end) : w[L - 1 + i] = end[i]
<1> DEFINE front == SubSeq(v, 1, L - 1)
           w == front \o end
           m == Len(end)
<1>1. /\ front \in Seq(Seq(Glyph))
      /\ Len(front) = L - 1
      /\ \A i \in 1 .. L - 1 : front[i] = v[i]
  <2>1. \A i \in 1 .. L - 1 : v[i] \in Seq(Glyph)
    BY ElementOfSeq
  <2>2. L - 1 \in Int /\ 1 \in Int /\ L - 1 >= 0
    OBVIOUS
  <2>3. /\ front \in Seq(Seq(Glyph))
        /\ Len(front) = IF 1 <= L - 1 THEN L - 1 - 1 + 1 ELSE 0
        /\ \A i \in 1 .. L - 1 - 1 + 1 : front[i] = v[1 + i - 1]
    BY <2>1, <2>2, SubSeqProperties
  <2> HIDE DEF front
  <2> QED
    BY <2>3
<1> HIDE DEF front
<1>2. m \in Nat
  BY LenProperties
<1>3. /\ w \in Seq(Seq(Glyph))
      /\ Len(w) = Len(front) + m
      /\ \A i \in 1 .. Len(front) + m : w[i] = IF i <= Len(front) THEN front[i] ELSE end[i - Len(front)]
  BY <1>1, ConcatProperties
<1> HIDE DEF w, m
<1>4. ASSUME NEW i \in 1 .. L - 1
      PROVE  w[i] = v[i]
  <2>1. i \in 1 .. L - 1 + m /\ i <= L - 1
    BY <1>2
  <2> QED
    BY <1>1, <1>3, <2>1
<1>5. ASSUME NEW i \in 1 .. m
      PROVE  w[L - 1 + i] = end[i]
  <2> DEFINE n == L - 1
             j == n + i
  <2>1. j \in 1 .. n + m /\ ~(j <= n) /\ j - n = i
    BY <1>2
  <2>2. Len(front) = n
    BY <1>1
  <2> HIDE DEF n, j
  <2>3. w[j] = end[j - n]
    BY <1>3, <2>1, <2>2
  <2>4. w[j] = end[i]
    BY <2>1, <2>3
  <2> QED
    BY <2>4 DEF j, n
<1> QED
  BY <1>1, <1>3, <1>4, <1>5 DEF w, m, front

(* A line that is filled with spaces.                                         *)
LEMMA FilledFacts ==
    ASSUME NEW l \in Seq(Glyph)
    PROVE  /\ Filled(l) \in Seq(Glyph)
           /\ Len(Filled(l)) = NumCols
           /\ \A j \in 1 .. NumCols : Filled(l)[j] = IF j \in 1 .. Len(l) THEN l[j] ELSE BLANK
<1>1. NumCols \in Nat /\ BLANK \in Glyph
  BY DisplayAssumption DEF Glyph
<1>2. DOMAIN l = 1 .. Len(l)
  BY LenProperties
<1>3. \A k \in 1 .. NumCols : (IF k \in DOMAIN l THEN l[k] ELSE BLANK) \in Glyph
  BY <1>1, <1>2, ElementOfSeq
<1>4. Filled(l) = [k \in 1 .. NumCols |-> IF k \in DOMAIN l THEN l[k] ELSE BLANK]
  BY DEF Filled
<1>5. Filled(l) \in Seq(Glyph) /\ Len(Filled(l)) = NumCols
  BY <1>1, <1>3, <1>4, IsASeq
<1> QED
  BY <1>2, <1>4, <1>5

(* Adding a line to a console fills the last line on the screen.              *)
LEMMA AddLineFacts ==
    ASSUME NEW lines \in Lines
    PROVE  LET v == Visible(lines)
               w == AddLine(lines)
               L == Len(v)
           IN  /\ w \in Seq(Seq(Glyph))
               /\ Len(w) = L + 1
               /\ \A i \in 1 .. L - 1 : w[i] = v[i]
               /\ w[L] = Filled(v[L])
               /\ w[L + 1] = <<>>
<1> DEFINE v == Visible(lines)
           L == Len(v)
           w == AddLine(lines)
           filled == Filled(v[L])
           end == <<filled, <<>>>>
<1>1. v \in Lines
  BY VisibleFacts
<1>2. w = SubSeq(v, 1, L - 1) \o end
  BY DEF AddLine, Front, Last
<1> HIDE DEF v, w
<1>3. L \in Nat \ {0} /\ v \in Seq(Seq(Glyph)) /\ v[L] \in Seq(Glyph)
  BY <1>1, LinesFacts
<1>4. filled \in Seq(Glyph) /\ <<>> \in Seq(Glyph)
  BY <1>3, FilledFacts, EmptySeq
<1> HIDE DEF filled
<1>5. end \in Seq(Seq(Glyph)) /\ Len(end) = 2 /\ end[1] = filled /\ end[2] = <<>>
  BY <1>4
<1>6. L \in Nat /\ L >= 1 /\ L = Len(v)
  BY <1>3
<1> HIDE DEF end, L
<1>7. /\ w \in Seq(Seq(Glyph))
      /\ Len(w) = L - 1 + 2
      /\ \A i \in 1 .. L - 1 : w[i] = v[i]
      /\ \A i \in 1 .. 2 : w[L - 1 + i] = end[i]
  <2> DEFINE x == SubSeq(v, 1, L - 1) \o end
  <2>1. /\ x \in Seq(Seq(Glyph))
        /\ Len(x) = L - 1 + Len(end)
        /\ \A i \in 1 .. L - 1 : x[i] = v[i]
        /\ \A i \in 1 .. Len(end) : x[L - 1 + i] = end[i]
    BY <1>3, <1>5, <1>6, EndReplaced
  <2>2. w = x
    BY <1>2
  <2> HIDE DEF x
  <2> QED
    BY <1>5, <2>1, <2>2
<1>8. w[L] = filled /\ w[L + 1] = <<>> /\ Len(w) = L + 1
  <2>1. L - 1 + 1 = L /\ L - 1 + 2 = L + 1 /\ 1 \in 1 .. 2 /\ 2 \in 1 .. 2
    BY <1>6
  <2>2. w[L - 1 + 1] = end[1] /\ w[L - 1 + 2] = end[2]
    BY <1>7, <2>1
  <2> QED
    BY <1>5, <1>7, <2>1, <2>2
<1> QED
  BY <1>7, <1>8 DEF v, w, L, filled

(* A new line is below the lines on the screen.                               *)
LEMMA NewlineShows ==
    ASSUME NEW s, NEW lines, Shows(s, lines)
    PROVE  Shows(Newline(Scrolled(s)), AddLine(lines))
<1> DEFINE v == Visible(lines)
           z == Scrolled(s)
           w == AddLine(lines)
           L == Len(v)
<1>1. Shows(z, v) /\ z.y < NumRows /\ Len(v) <= NumRows
  BY ScrolledShows
<1>2. z \in Screens /\ v \in Lines
  BY <1>1 DEF Shows
<1>3. Len(<<>>) = 0
  OBVIOUS
<1>4. /\ w \in Seq(Seq(Glyph))
      /\ Len(w) = L + 1
      /\ \A i \in 1 .. L - 1 : w[i] = v[i]
      /\ w[L] = Filled(v[L])
      /\ w[L + 1] = <<>>
  BY AddLineFacts DEF Shows
<1> HIDE DEF v, z, w
<1>5. /\ L \in Nat /\ L >= 1 /\ L <= NumRows
      /\ \A i \in 1 .. L : v[i] \in Seq(Glyph) /\ Len(v[i]) \in Nat
      /\ \A i \in 1 .. L : i # L => Len(v[i]) = NumCols
  BY <1>1, <1>2, LinesFacts
<1>6. /\ Len(w[L]) = NumCols
      /\ \A j \in 1 .. NumCols : w[L][j] = IF j \in 1 .. Len(v[L]) THEN v[L][j] ELSE BLANK
  <2>1. v[L] \in Seq(Glyph)
    BY <1>5
  <2>2. /\ Len(Filled(v[L])) = NumCols
        /\ \A j \in 1 .. NumCols : Filled(v[L])[j] = IF j \in 1 .. Len(v[L]) THEN v[L][j] ELSE BLANK
    BY <2>1, FilledFacts
  <2> QED
    BY <1>4, <2>2
<1>7. Len(v) = L
  OBVIOUS
<1> HIDE DEF L
<1>8. w \in Lines
  <2>1. L + 1 \in 1 .. NumRows + 1
    BY <1>5, DisplayAssumption
  <2>2. \A i \in 1 .. L : Len(w[i]) = NumCols
    <3> SUFFICES ASSUME NEW i \in 1 .. L
                 PROVE  Len(w[i]) = NumCols
      OBVIOUS
    <3>1. i = L \/ (i \in 1 .. L - 1 /\ i # L)
      BY <1>5
    <3> QED
      BY <1>4, <1>5, <1>6, <3>1
  <2>3. L + 1 - 1 = L /\ Len(w[L + 1]) < NumCols
    BY <1>3, <1>4, <1>5, DisplayAssumption
  <2>4. /\ Len(w) \in 1 .. NumRows + 1
        /\ \A i \in 1 .. Len(w) - 1 : Len(w[i]) = NumCols
        /\ Len(w[Len(w)]) < NumCols
        /\ Len(w) = NumRows + 1 => w[Len(w)] = <<>>
    <3> DEFINE m == L + 1
    <3>1. m \in 1 .. NumRows + 1 /\ m - 1 = L
      BY <1>5, <2>1
    <3>2. Len(w) = m /\ w[m] = <<>> /\ Len(w[m]) < NumCols
      BY <1>4, <2>3
    <3> HIDE DEF m
    <3> QED
      BY <2>2, <3>1, <3>2
  <2> QED
    BY <1>4, <2>4 DEF Lines
<1>9. /\ Newline(z) \in Screens
      /\ Newline(z).cells = z.cells /\ Newline(z).x = 0 /\ Newline(z).y = z.y + 1
  BY <1>2, MoveFacts DEF Glyph
<1>10. ASSUME NEW r \in Row, NEW c \in Col
       PROVE  GlyphAt(w, r, c) = GlyphAt(v, r, c)
  <2>0. r \in Nat /\ c \in Nat /\ c + 1 \in 1 .. NumCols
    BY DisplayAssumption DEF Row, Col
  <2>1. CASE r + 1 \in 1 .. L - 1
    <3>1. w[r + 1] = v[r + 1] /\ r + 1 \in 1 .. L /\ r + 1 \in 1 .. L + 1
      BY <1>4, <1>5, <2>1
    <3> QED
      BY <1>4, <1>7, <3>1 DEF GlyphAt
  <2>2. CASE r + 1 = L
    <3>1. r + 1 \in 1 .. L /\ r + 1 \in 1 .. L + 1
      BY <1>5, <2>2
    <3>2. GlyphAt(w, r, c) = w[L][c + 1]
      BY <1>4, <1>6, <2>0, <2>2, <3>1 DEF GlyphAt
    <3> QED
      BY <1>6, <1>7, <2>0, <2>2, <3>1, <3>2 DEF GlyphAt
  <2>3. CASE r + 1 > L
    <3>1. r + 1 \notin 1 .. L
      BY <1>5, <2>0, <2>3
    <3>2. GlyphAt(v, r, c) = BLANK
      BY <1>7, <3>1 DEF GlyphAt
    <3>3. r + 1 \in 1 .. L + 1 => w[r + 1] = <<>>
      BY <1>4, <1>5, <2>0, <2>3
    <3>4. GlyphAt(w, r, c) = BLANK
      BY <1>3, <1>4, <2>0, <3>3 DEF GlyphAt
    <3> QED
      BY <3>2, <3>4
  <2> QED
    BY <1>5, <2>0, <2>1, <2>2, <2>3
<1>11. Newline(z).y + 1 = Len(w) /\ Newline(z).x = Len(w[Len(w)])
  BY <1>1, <1>3, <1>4, <1>7, <1>9 DEF Shows
<1>12. Shows(Newline(z), w)
  BY <1>1, <1>8, <1>9, <1>10, <1>11 DEF Shows
<1> QED
  BY <1>12 DEF z, w

(* Adding a glyph to lines that are all on the screen: at the end of the last *)
(* line, and a new line below when that is full.                              *)
LEMMA AddGlyphFacts ==
    ASSUME NEW lines \in Lines, NEW g \in Glyph
    PROVE  LET v == Visible(lines)
               w == AddGlyph(lines, g)
               L == Len(v)
           IN  /\ w \in Seq(Seq(Glyph))
               /\ \A i \in 1 .. L - 1 : w[i] = v[i]
               /\ w[L] = Append(v[L], g)
               /\ Len(v[L]) + 1 # NumCols => Len(w) = L
               /\ Len(v[L]) + 1 = NumCols => Len(w) = L + 1 /\ w[L + 1] = <<>>
<1> DEFINE v == Visible(lines)
           w == AddGlyph(lines, g)
           L == Len(v)
           last == Append(v[L], g)
           end == IF Len(last) = NumCols THEN <<last, <<>>>> ELSE <<last>>
<1>1. v \in Lines
  BY VisibleFacts
<1>2. w = SubSeq(v, 1, L - 1) \o end
  BY DEF AddGlyph, Front, Last
<1> HIDE DEF v, w
<1>3. L \in Nat \ {0} /\ v \in Seq(Seq(Glyph)) /\ v[L] \in Seq(Glyph)
  BY <1>1, LinesFacts
<1>4. last \in Seq(Glyph) /\ Len(last) = Len(v[L]) + 1 /\ <<>> \in Seq(Glyph)
  BY <1>3, AppendProperties, EmptySeq
<1> HIDE DEF last
<1>5. end \in Seq(Seq(Glyph)) /\ end[1] = last
  BY <1>4
<1>6. /\ Len(last) # NumCols => Len(end) = 1
      /\ Len(last) = NumCols => Len(end) = 2 /\ end[2] = <<>>
  OBVIOUS
<1> HIDE DEF end
<1> DEFINE m == Len(end)
<1>7. L \in Nat /\ L >= 1 /\ L = Len(v) /\ m \in 1 .. 2
  BY <1>3, <1>6
<1> HIDE DEF L
<1>8. /\ w \in Seq(Seq(Glyph))
      /\ Len(w) = L - 1 + m
      /\ \A i \in 1 .. L - 1 : w[i] = v[i]
      /\ \A i \in 1 .. m : w[L - 1 + i] = end[i]
  <2> DEFINE x == SubSeq(v, 1, L - 1) \o end
  <2>1. /\ x \in Seq(Seq(Glyph))
        /\ Len(x) = L - 1 + Len(end)
        /\ \A i \in 1 .. L - 1 : x[i] = v[i]
        /\ \A i \in 1 .. Len(end) : x[L - 1 + i] = end[i]
    BY <1>3, <1>5, <1>7, EndReplaced
  <2>2. w = x
    BY <1>2
  <2> HIDE DEF x
  <2> QED
    BY <2>1, <2>2
<1> HIDE DEF m
<1>9. L - 1 + 1 = L /\ L - 1 + 2 = L + 1 /\ 1 \in 1 .. m
  BY <1>7
<1>10. w[L] = last
  <2>1. w[L - 1 + 1] = end[1]
    BY <1>8, <1>9
  <2> QED
    BY <1>5, <1>9, <2>1
<1>11. ASSUME Len(last) = NumCols
       PROVE  Len(w) = L + 1 /\ w[L + 1] = <<>>
  <2>0. Len(end) = 2 /\ end[2] = <<>>
    BY <1>6, <1>11
  <2>1. m = 2 /\ end[2] = <<>> /\ 2 \in 1 .. m
    BY <2>0 DEF m
  <2>2. w[L - 1 + 2] = end[2]
    BY <1>8, <2>1
  <2>3. w[L + 1] = <<>>
    BY <1>9, <2>1, <2>2
  <2>4. Len(w) = L + 1
    BY <1>8, <1>9, <2>1
  <2> QED
    BY <2>3, <2>4
<1>12. ASSUME Len(last) # NumCols
       PROVE  Len(w) = L
  <2>1. m = 1
    BY <1>6, <1>12 DEF m
  <2> QED
    BY <1>8, <1>9, <2>1
<1> QED
  BY <1>4, <1>8, <1>10, <1>11, <1>12 DEF v, w, L, last

(* A glyph added to lines of a console leaves lines of a console.             *)
LEMMA AddGlyphType ==
    ASSUME NEW lines \in Lines, NEW g \in Glyph
    PROVE  /\ AddGlyph(lines, g) \in Lines
           /\ LET v == Visible(lines)
                  w == AddGlyph(lines, g)
                  L == Len(v)
              IN  /\ L \in Nat /\ L >= 1 /\ L <= NumRows
                  /\ v[L] \in Seq(Glyph) /\ Len(v[L]) \in Nat /\ Len(v[L]) < NumCols
                  /\ Len(w[L]) = Len(v[L]) + 1
                  /\ \A i \in 1 .. Len(v[L]) : w[L][i] = v[L][i]
                  /\ w[L][Len(v[L]) + 1] = g
<1> DEFINE v == Visible(lines)
           w == AddGlyph(lines, g)
           L == Len(v)
<1>1. v \in Lines
  BY VisibleFacts
<1>2. /\ w \in Seq(Seq(Glyph))
      /\ \A i \in 1 .. L - 1 : w[i] = v[i]
      /\ w[L] = Append(v[L], g)
      /\ Len(v[L]) + 1 # NumCols => Len(w) = L
      /\ Len(v[L]) + 1 = NumCols => Len(w) = L + 1 /\ w[L + 1] = <<>>
  BY AddGlyphFacts
<1>3. L <= NumRows
  <2>1. Len(lines) <= NumRows => v = lines
    BY VisibleFacts
  <2>2. Len(lines) > NumRows => L = NumRows
    BY VisibleFacts
  <2>3. Len(lines) \in Nat
    BY LinesFacts
  <2> QED
    BY <2>1, <2>2, <2>3, DisplayAssumption
<1> HIDE DEF v, w
<1>4. L \in Nat /\ L >= 1 /\ v[L] \in Seq(Glyph) /\ Len(v[L]) \in Nat /\ Len(v[L]) < NumCols
  <2>1. L \in 1 .. L /\ L \in Nat
    BY <1>1, LinesFacts
  <2> QED
    BY <1>1, <2>1, LinesFacts
<1>5. \A i \in 1 .. L - 1 : Len(v[i]) = NumCols
  <2>1. \A i \in 1 .. L - 1 : i \in 1 .. L /\ i # L
    BY <1>4
  <2> QED
    BY <1>1, <2>1, LinesFacts
<1> HIDE DEF L
<1>6. /\ Len(w[L]) = Len(v[L]) + 1
      /\ \A i \in 1 .. Len(v[L]) : w[L][i] = v[L][i]
      /\ w[L][Len(v[L]) + 1] = g
  BY <1>2, <1>4, AppendProperties
<1>7. Len(<<>>) = 0
  OBVIOUS
<1>8. w \in Lines
  <2>1. Len(w) \in 1 .. NumRows + 1
    BY <1>2, <1>3, <1>4, DisplayAssumption
  <2>2. \A i \in 1 .. L - 1 : Len(w[i]) = NumCols
    BY <1>2, <1>5
  <2>4. \A i \in 1 .. Len(w) - 1 : Len(w[i]) = NumCols
    <3> SUFFICES ASSUME NEW i \in 1 .. Len(w) - 1
                 PROVE  Len(w[i]) = NumCols
      OBVIOUS
    <3>1. CASE Len(v[L]) + 1 = NumCols
      <4>1. i \in 1 .. L - 1 \/ i = L
        BY <1>2, <1>4, <3>1
      <4> QED
        BY <1>6, <2>2, <3>1, <4>1
    <3>2. CASE Len(v[L]) + 1 # NumCols
      BY <1>2, <2>2, <3>2
    <3> QED
      BY <3>1, <3>2
  <2>5. Len(w[Len(w)]) < NumCols
    BY <1>2, <1>4, <1>6, <1>7, DisplayAssumption
  <2>6. Len(w) = NumRows + 1 => w[Len(w)] = <<>>
    BY <1>2, <1>3, <1>4, DisplayAssumption
  <2> QED
    BY <1>2, <2>1, <2>4, <2>5, <2>6 DEF Lines
<1> QED
  BY <1>3, <1>4, <1>6, <1>8 DEF v, w, L

(* A glyph drawn on the screen is a glyph added to the lines.                 *)
LEMMA GlyphShows ==
    ASSUME NEW s, NEW lines \in Lines, NEW g \in Glyph,
           Shows(s, Visible(lines)), s.y < NumRows
    PROVE  Shows(PutGlyph(s, g), AddGlyph(lines, g))
<1> DEFINE v == Visible(lines)
           w == AddGlyph(lines, g)
           L == Len(v)
           p == PutGlyph(s, g)
<1>1. s \in Screens /\ v \in Lines /\ s.y \in Row /\ s.x \in Col /\ s.y + 1 = L /\ s.x = Len(v[L])
  BY DisplayAssumption DEF Shows, Screens, Row
<1>2. /\ w \in Seq(Seq(Glyph))
      /\ \A i \in 1 .. L - 1 : w[i] = v[i]
      /\ w[L] = Append(v[L], g)
      /\ Len(v[L]) + 1 # NumCols => Len(w) = L
      /\ Len(v[L]) + 1 = NumCols => Len(w) = L + 1 /\ w[L + 1] = <<>>
  BY AddGlyphFacts
<1>3. /\ p \in Screens
      /\ p.cells = Draw(s, g).cells
      /\ p.x = IF s.x + 1 = NumCols THEN 0 ELSE s.x + 1
      /\ p.y = IF s.x + 1 = NumCols THEN s.y + 1 ELSE s.y
  BY <1>1, MoveFacts
<1>4. \A r \in Row, c \in Col : s.cells[Place(r, c)] = GlyphAt(v, r, c)
  BY DEF Shows
<1>5. L \in Nat /\ L >= 1 /\ L <= NumRows /\ Len(v[L]) \in Nat /\ v[L] \in Seq(Glyph) /\ Len(v[L]) < NumCols
  BY AddGlyphType
<1>6. /\ Len(w[L]) = Len(v[L]) + 1
      /\ \A i \in 1 .. Len(v[L]) : w[L][i] = v[L][i]
      /\ w[L][Len(v[L]) + 1] = g
  BY AddGlyphType
<1>8. w \in Lines
  BY AddGlyphType
<1> HIDE DEF v, w, p, L
<1>7. Len(<<>>) = 0
  OBVIOUS
<1>9. p.y + 1 = Len(w) /\ p.x = Len(w[Len(w)])
  BY <1>1, <1>2, <1>3, <1>5, <1>6, <1>7, DisplayAssumption DEF Row
<1>10. ASSUME NEW r \in Row, NEW c \in Col
       PROVE  p.cells[Place(r, c)] = GlyphAt(w, r, c)
  <2>1. p.cells[Place(r, c)] = IF r = s.y /\ c = s.x THEN g ELSE GlyphAt(v, r, c)
    BY <1>1, <1>3, <1>4, DrawFacts
  <2>2. CASE r + 1 \in 1 .. L - 1
    <3> DEFINE n == Len(w)
    <3>1. n \in Nat /\ n >= L /\ Len(v) = L
      BY <1>2, <1>5 DEF L
    <3> HIDE DEF n
    <3>2. w[r + 1] = v[r + 1]
      BY <1>2, <2>2
    <3>3. r + 1 \in 1 .. L /\ r + 1 \in 1 .. n /\ r # s.y
      BY <1>1, <1>5, <2>2, <3>1 DEF Row
    <3> QED
      BY <2>1, <3>1, <3>2, <3>3 DEF GlyphAt, n
  <2>3. CASE r + 1 = L
    <3>1. r = s.y /\ r + 1 \in 1 .. Len(v) /\ r + 1 \in 1 .. Len(w)
      BY <1>1, <1>2, <1>5, <2>3 DEF Row, L
    <3>2. CASE c = s.x
      BY <1>1, <1>6, <2>1, <2>3, <3>1, <3>2 DEF GlyphAt, Col
    <3>3. CASE c # s.x
      BY <1>1, <1>5, <1>6, <2>1, <2>3, <3>1, <3>3 DEF GlyphAt, Col
    <3> QED
      BY <3>2, <3>3
  <2>4. CASE r + 1 > L
    <3>1. GlyphAt(v, r, c) = BLANK /\ r # s.y
      BY <1>1, <1>5, <2>4 DEF GlyphAt, Row, L
    <3>2. r + 1 \in 1 .. Len(w) => w[r + 1] = <<>>
      BY <1>2, <1>5, <2>4 DEF Row
    <3>3. GlyphAt(w, r, c) = BLANK
      BY <1>7, <3>2 DEF GlyphAt, Col
    <3> QED
      BY <2>1, <3>1, <3>3
  <2> QED
    BY <1>5, <2>2, <2>3, <2>4 DEF Row
<1>11. Shows(p, w)
  BY <1>3, <1>8, <1>9, <1>10 DEF Shows
<1> QED
  BY <1>11 DEF p, w

(* Lines whose last one loses its end.                                        *)
LEMMA EndCut ==
    ASSUME NEW v \in Seq(Seq(Glyph)), NEW L \in Nat, L = Len(v), L >= 1, v[L] # <<>>
    PROVE  LET w == Append(Front(v), Front(Last(v)))
           IN  /\ w \in Seq(Seq(Glyph))
               /\ Len(w) = L
               /\ \A i \in 1 .. L - 1 : w[i] = v[i]
               /\ Len(w[L]) = Len(v[L]) - 1
               /\ \A j \in 1 .. Len(v[L]) - 1 : w[L][j] = v[L][j]
<1> DEFINE n == Len(v[L])
           front == SubSeq(v, 1, L - 1)
           last == SubSeq(v[L], 1, n - 1)
           w == Append(front, last)
<1>1. Append(Front(v), Front(Last(v))) = w
  BY DEF Front, Last
<1>2. v[L] \in Seq(Glyph) /\ \A i \in 1 .. L - 1 : v[i] \in Seq(Glyph)
  BY ElementOfSeq
<1>3. n \in Nat /\ n >= 1
  BY <1>2, EmptySeq, LenProperties
<1>4. last \in Seq(Glyph) /\ Len(last) = n - 1 /\ \A j \in 1 .. n - 1 : last[j] = v[L][j]
  <2>1. \A j \in 1 .. n - 1 : v[L][j] \in Glyph
    BY <1>2, <1>3, ElementOfSeq
  <2> HIDE DEF n
  <2>2. /\ last \in Seq(Glyph)
        /\ Len(last) = IF 1 <= n - 1 THEN n - 1 - 1 + 1 ELSE 0
        /\ \A j \in 1 .. n - 1 - 1 + 1 : last[j] = v[L][1 + j - 1]
    <3>1. n - 1 \in Int
      BY <1>3
    <3> QED
      BY <2>1, <3>1, SubSeqProperties
  <2> HIDE DEF last
  <2> QED
    BY <1>3, <2>2
<1>5. front \in Seq(Seq(Glyph)) /\ Len(front) = L - 1 /\ \A i \in 1 .. L - 1 : front[i] = v[i]
  <2>1. L - 1 \in Int /\ 1 \in Int
    OBVIOUS
  <2>2. /\ front \in Seq(Seq(Glyph))
        /\ Len(front) = IF 1 <= L - 1 THEN L - 1 - 1 + 1 ELSE 0
        /\ \A i \in 1 .. L - 1 - 1 + 1 : front[i] = v[1 + i - 1]
    BY <1>2, <2>1, SubSeqProperties
  <2> HIDE DEF front
  <2> QED
    BY <2>2
<1> HIDE DEF front, last, n
<1>6. /\ w \in Seq(Seq(Glyph))
      /\ Len(w) = L - 1 + 1
      /\ \A i \in 1 .. L - 1 : w[i] = front[i]
      /\ w[L - 1 + 1] = last
  BY <1>4, <1>5, AppendProperties
<1>7. L - 1 + 1 = L
  OBVIOUS
<1> QED
  BY <1>1, <1>4, <1>5, <1>6, <1>7 DEF n

(* What a backspace leaves of lines that are all on the screen: the last line *)
(* without its end, or the line above it without its end.                     *)
LEMMA RemoveGlyphFacts ==
    ASSUME NEW lines \in Lines
    PROVE  LET v == Visible(lines)
               w == RemoveGlyph(lines)
               L == Len(v)
           IN  /\ v[L] # <<>> =>
                     /\ w \in Seq(Seq(Glyph))
                     /\ Len(w) = L
                     /\ \A i \in 1 .. L - 1 : w[i] = v[i]
                     /\ Len(w[L]) = Len(v[L]) - 1
                     /\ \A j \in 1 .. Len(v[L]) - 1 : w[L][j] = v[L][j]
               /\ v[L] = <<>> /\ L > 1 =>
                     /\ w \in Seq(Seq(Glyph))
                     /\ Len(w) = L - 1
                     /\ \A i \in 1 .. L - 2 : w[i] = v[i]
                     /\ Len(w[L - 1]) = NumCols - 1
                     /\ \A j \in 1 .. NumCols - 1 : w[L - 1][j] = v[L - 1][j]
<1> DEFINE v == Visible(lines)
           w == RemoveGlyph(lines)
           L == Len(v)
           cut(ls) == Append(Front(ls), Front(Last(ls)))
<1>1. v \in Lines
  BY VisibleFacts
<1>2. Last(v) = v[L] /\ Front(v) = SubSeq(v, 1, L - 1)
  BY DEF Front, Last
<1>3. /\ v[L] # <<>> => w = cut(v)
      /\ v[L] = <<>> /\ L > 1 => w = cut(SubSeq(v, 1, L - 1))
  BY <1>2 DEF RemoveGlyph
<1> HIDE DEF v, w
<1>4. /\ L \in Nat /\ L >= 1 /\ v \in Seq(Seq(Glyph))
      /\ \A i \in 1 .. L : i # L => v[i] \in Seq(Glyph) /\ Len(v[i]) = NumCols
  BY <1>1, LinesFacts
<1>5. L = Len(v)
  OBVIOUS
<1> HIDE DEF L
<1>6. ASSUME v[L] # <<>>
      PROVE  /\ w \in Seq(Seq(Glyph))
             /\ Len(w) = L
             /\ \A i \in 1 .. L - 1 : w[i] = v[i]
             /\ Len(w[L]) = Len(v[L]) - 1
             /\ \A j \in 1 .. Len(v[L]) - 1 : w[L][j] = v[L][j]
  <2> DEFINE x == Append(Front(v), Front(Last(v)))
  <2>1. /\ x \in Seq(Seq(Glyph))
        /\ Len(x) = L
        /\ \A i \in 1 .. L - 1 : x[i] = v[i]
        /\ Len(x[L]) = Len(v[L]) - 1
        /\ \A j \in 1 .. Len(v[L]) - 1 : x[L][j] = v[L][j]
    BY <1>4, <1>5, <1>6, EndCut
  <2>2. w = x
    BY <1>3, <1>6
  <2> HIDE DEF x
  <2> QED
    BY <2>1, <2>2
<1>7. ASSUME v[L] = <<>>, L > 1
      PROVE  /\ w \in Seq(Seq(Glyph))
             /\ Len(w) = L - 1
             /\ \A i \in 1 .. L - 2 : w[i] = v[i]
             /\ Len(w[L - 1]) = NumCols - 1
             /\ \A j \in 1 .. NumCols - 1 : w[L - 1][j] = v[L - 1][j]
  <2> DEFINE front == SubSeq(v, 1, L - 1)
             K == L - 1
  <2>1. K \in Nat /\ K >= 1 /\ K \in 1 .. L /\ K # L /\ K - 1 = L - 2
    BY <1>4, <1>7
  <2>2. /\ front \in Seq(Seq(Glyph))
        /\ Len(front) = K
        /\ \A i \in 1 .. K : front[i] = v[i]
    <3>1. \A i \in 1 .. K : v[i] \in Seq(Glyph)
      BY <1>4
    <3>2. K \in Int /\ 1 \in Int
      BY <2>1
    <3> HIDE DEF K
    <3>3. /\ SubSeq(v, 1, K) \in Seq(Seq(Glyph))
          /\ Len(SubSeq(v, 1, K)) = IF 1 <= K THEN K - 1 + 1 ELSE 0
          /\ \A i \in 1 .. K - 1 + 1 : SubSeq(v, 1, K)[i] = v[1 + i - 1]
      BY <3>1, <3>2, SubSeqProperties
    <3>4. /\ SubSeq(v, 1, K) \in Seq(Seq(Glyph))
          /\ Len(SubSeq(v, 1, K)) = K
          /\ \A i \in 1 .. K : SubSeq(v, 1, K)[i] = v[i]
      BY <2>1, <3>3
    <3> QED
      BY <3>4 DEF K
  <2>3. front[K] = v[K] /\ Len(v[K]) = NumCols /\ v[K] # <<>>
    <3>1. K \in 1 .. K
      BY <2>1
    <3>2. front[K] = v[K] /\ Len(v[K]) = NumCols
      BY <1>4, <2>1, <2>2, <3>1
    <3>3. Len(<<>>) = 0 /\ NumCols # 0
      BY DisplayAssumption
    <3> QED
      BY <3>2, <3>3
  <2>4. w = cut(front)
    BY <1>3, <1>7
  <2> HIDE DEF front, K
  <2>5. /\ w \in Seq(Seq(Glyph))
        /\ Len(w) = K
        /\ \A i \in 1 .. K - 1 : w[i] = front[i]
        /\ Len(w[K]) = Len(front[K]) - 1
        /\ \A j \in 1 .. Len(front[K]) - 1 : w[K][j] = front[K][j]
    BY <2>1, <2>2, <2>3, <2>4, EndCut
  <2>6. \A i \in 1 .. K - 1 : w[i] = v[i]
    BY <2>1, <2>2, <2>5
  <2> QED
    BY <2>1, <2>3, <2>5, <2>6 DEF K
<1> QED
  BY <1>6, <1>7 DEF v, w, L

(* Erasing on the screen is erasing in the lines.                             *)
LEMMA EraseShows ==
    ASSUME NEW s, NEW lines \in Lines, Shows(s, Visible(lines)), s.y < NumRows, At(s) > 0
    PROVE  Shows(Erase(s), RemoveGlyph(lines))
<1> DEFINE v == Visible(lines)
           w == RemoveGlyph(lines)
           L == Len(v)
           e == Erase(s)
<1>1. s \in Screens /\ v \in Lines /\ s.y \in Row /\ s.x \in Col /\ s.y + 1 = L /\ s.x = Len(v[L])
  BY DisplayAssumption DEF Shows, Screens, Row
<1>2. /\ e \in Screens
      /\ e.x = IF s.x = 0 THEN NumCols - 1 ELSE s.x - 1
      /\ e.y = IF s.x = 0 THEN s.y - 1 ELSE s.y
      /\ \A r \in Row, c \in Col :
             e.cells[Place(r, c)] = IF r = e.y /\ c = e.x THEN BLANK ELSE s.cells[Place(r, c)]
  BY <1>1, EraseFacts
<1>3. \A r \in Row, c \in Col : s.cells[Place(r, c)] = GlyphAt(v, r, c)
  BY DEF Shows
<1>4. /\ v[L] # <<>> =>
            /\ w \in Seq(Seq(Glyph))
            /\ Len(w) = L
            /\ \A i \in 1 .. L - 1 : w[i] = v[i]
            /\ Len(w[L]) = Len(v[L]) - 1
            /\ \A j \in 1 .. Len(v[L]) - 1 : w[L][j] = v[L][j]
      /\ v[L] = <<>> /\ L > 1 =>
            /\ w \in Seq(Seq(Glyph))
            /\ Len(w) = L - 1
            /\ \A i \in 1 .. L - 2 : w[i] = v[i]
            /\ Len(w[L - 1]) = NumCols - 1
            /\ \A j \in 1 .. NumCols - 1 : w[L - 1][j] = v[L - 1][j]
  BY RemoveGlyphFacts
<1>5. s.x = 0 => s.y # 0
  BY DisplayAssumption DEF At, Place
<1> HIDE DEF v, w, e
<1>6. L \in 1 .. L /\ L \in Nat
  BY <1>1, LinesFacts
<1>7. \A i \in 1 .. L : /\ Len(v[i]) \in Nat /\ v[i] \in Seq(Glyph)
                        /\ i # L => Len(v[i]) = NumCols
  BY <1>1, LinesFacts
<1>8. Len(v[L]) < NumCols
  BY <1>1, LinesFacts
<1>9. v[L] = <<>> <=> s.x = 0
  BY <1>1, <1>6, <1>7, EmptySeq
<1>10. Len(v) = L
  OBVIOUS
<1> HIDE DEF L
<1>11. L >= 1 /\ L <= NumRows
  BY <1>1, <1>6, DisplayAssumption DEF Row
<1>12. CASE s.x # 0
  <2>1. /\ w \in Seq(Seq(Glyph))
        /\ Len(w) = L
        /\ \A i \in 1 .. L - 1 : w[i] = v[i]
        /\ Len(w[L]) = s.x - 1
        /\ \A j \in 1 .. s.x - 1 : w[L][j] = v[L][j]
    BY <1>1, <1>4, <1>9, <1>12
  <2>2. e.x = s.x - 1 /\ e.y = s.y /\ s.x \in Nat /\ s.x < NumCols
    BY <1>1, <1>2, <1>8, <1>12 DEF Col
  <2>3. w \in Lines
    <3>1. \A i \in 1 .. L - 1 : Len(w[i]) = NumCols
      <4>1. \A i \in 1 .. L - 1 : i \in 1 .. L /\ i # L
        BY <1>6
      <4> QED
        BY <1>7, <2>1, <4>1
    <3>2. Len(w[L]) < NumCols
      BY <2>1, <2>2, DisplayAssumption
    <3>3. L \in 1 .. NumRows + 1 /\ L # NumRows + 1
      BY <1>6, <1>11, DisplayAssumption
    <3> QED
      BY <2>1, <3>1, <3>2, <3>3 DEF Lines
  <2>4. ASSUME NEW r \in Row, NEW c \in Col
        PROVE  e.cells[Place(r, c)] = GlyphAt(w, r, c)
    <3>1. e.cells[Place(r, c)] = IF r = s.y /\ c = s.x - 1 THEN BLANK ELSE GlyphAt(v, r, c)
      BY <1>2, <1>3, <2>2
    <3>2. CASE r + 1 = L
      <4>1. r = s.y /\ r + 1 \in 1 .. Len(v) /\ r + 1 \in 1 .. Len(w)
        BY <1>1, <1>6, <1>10, <2>1, <3>2 DEF Row
      <4>2. CASE c + 1 \in 1 .. s.x - 1
        <5>1. c # s.x - 1 /\ c + 1 \in 1 .. s.x
          BY <2>2, <4>2 DEF Col
        <5> QED
          BY <1>1, <2>1, <3>1, <3>2, <4>1, <4>2, <5>1 DEF GlyphAt
      <4>3. CASE c + 1 \notin 1 .. s.x - 1
        <5>1. c = s.x - 1 \/ c + 1 \notin 1 .. s.x
          BY <2>2, <4>3 DEF Col
        <5>2. GlyphAt(w, r, c) = BLANK
          BY <2>1, <3>2, <4>3 DEF GlyphAt
        <5> QED
          BY <1>1, <3>1, <3>2, <4>1, <5>1, <5>2 DEF GlyphAt
      <4> QED
        BY <4>2, <4>3
    <3>3. CASE r + 1 # L
      <4>1. r # s.y
        BY <1>1, <3>3
      <4>2. r + 1 \in 1 .. L => w[r + 1] = v[r + 1]
        BY <1>6, <2>1, <3>3 DEF Row
      <4> QED
        BY <1>10, <2>1, <3>1, <4>1, <4>2 DEF GlyphAt
    <3> QED
      BY <3>2, <3>3
  <2>5. e.y + 1 = Len(w) /\ e.x = Len(w[Len(w)])
    BY <1>1, <2>1, <2>2
  <2> QED
    BY <1>2, <2>3, <2>4, <2>5 DEF Shows, w, e
<1>13. CASE s.x = 0
  <2>0. L > 1 /\ s.y \in Nat /\ L - 1 \in 1 .. L
    BY <1>1, <1>5, <1>6, <1>13 DEF Row
  <2>1. /\ w \in Seq(Seq(Glyph))
        /\ Len(w) = L - 1
        /\ \A i \in 1 .. L - 2 : w[i] = v[i]
        /\ Len(w[L - 1]) = NumCols - 1
        /\ \A j \in 1 .. NumCols - 1 : w[L - 1][j] = v[L - 1][j]
    BY <1>4, <1>9, <1>13, <2>0
  <2>2. e.x = NumCols - 1 /\ e.y = s.y - 1
    BY <1>2, <1>13
  <2>3. w \in Lines
    <3>1. \A i \in 1 .. L - 1 - 1 : Len(w[i]) = NumCols
      <4>1. \A i \in 1 .. L - 1 - 1 : i \in 1 .. L /\ i # L /\ i \in 1 .. L - 2
        BY <1>6
      <4> QED
        BY <1>7, <2>1, <4>1
    <3>2. Len(w[L - 1]) < NumCols
      BY <2>1, DisplayAssumption
    <3>3. L - 1 \in 1 .. NumRows + 1 /\ L - 1 # NumRows + 1
      BY <1>6, <1>11, <2>0, DisplayAssumption
    <3> QED
      BY <2>1, <3>1, <3>2, <3>3 DEF Lines
  <2>4. ASSUME NEW r \in Row, NEW c \in Col
        PROVE  e.cells[Place(r, c)] = GlyphAt(w, r, c)
    <3>1. e.cells[Place(r, c)] = IF r = s.y - 1 /\ c = NumCols - 1 THEN BLANK ELSE GlyphAt(v, r, c)
      BY <1>2, <1>3, <2>2
    <3>2. CASE r + 1 = L - 1
      <4>1. r = s.y - 1 /\ r + 1 \in 1 .. L /\ r + 1 \in 1 .. L - 1
        BY <1>1, <1>6, <2>0, <3>2 DEF Row
      <4>2. CASE c + 1 \in 1 .. NumCols - 1
        <5>1. c # NumCols - 1 /\ c + 1 \in 1 .. NumCols
          BY <4>2, DisplayAssumption DEF Col
        <5>2. r + 1 # L /\ Len(v[r + 1]) = NumCols
          BY <1>6, <1>7, <3>2, <4>1
        <5> QED
          BY <1>10, <2>1, <3>1, <3>2, <4>1, <4>2, <5>1, <5>2 DEF GlyphAt
      <4>3. CASE c + 1 \notin 1 .. NumCols - 1
        <5>1. c = NumCols - 1
          BY <4>3, DisplayAssumption DEF Col
        <5>2. GlyphAt(w, r, c) = BLANK
          BY <2>1, <3>2, <4>3 DEF GlyphAt
        <5> QED
          BY <3>1, <4>1, <5>1, <5>2
      <4> QED
        BY <4>2, <4>3
    <3>3. CASE r + 1 < L - 1
      <4>1. r # s.y - 1 /\ r + 1 \in 1 .. L - 2 /\ r + 1 \in 1 .. L /\ r + 1 \in 1 .. L - 1
        BY <1>1, <1>6, <2>0, <3>3 DEF Row
      <4> QED
        BY <1>10, <2>1, <3>1, <4>1 DEF GlyphAt
    <3>4. CASE r + 1 > L - 1
      <4>1. r # s.y - 1 /\ r + 1 \notin 1 .. L - 1
        BY <1>1, <1>6, <2>0, <3>4 DEF Row
      <4>2. GlyphAt(w, r, c) = BLANK
        BY <2>1, <4>1 DEF GlyphAt
      <4>3. r + 1 \in 1 .. L => v[r + 1] = <<>>
        BY <1>6, <1>9, <1>13, <3>4 DEF Row
      <4>4. Len(<<>>) = 0
        OBVIOUS
      <4>5. GlyphAt(v, r, c) = BLANK
        BY <1>10, <4>3, <4>4 DEF GlyphAt, Col
      <4> QED
        BY <3>1, <4>1, <4>2, <4>5
    <3> QED
      BY <1>6, <3>2, <3>3, <3>4 DEF Row
  <2>5. e.y + 1 = Len(w) /\ e.x = Len(w[Len(w)])
    BY <1>1, <2>0, <2>1, <2>2
  <2> QED
    BY <1>2, <2>3, <2>4, <2>5 DEF Shows, w, e
<1> QED
  BY <1>12, <1>13

(* A cleared screen shows one empty line.                                     *)
LEMMA ClearShows ==
    Shows([cells |-> Cleared, x |-> 0, y |-> 0], <<<<>>>>)
<1> DEFINE s == [cells |-> Cleared, x |-> 0, y |-> 0]
           lines == <<<<>>>>
<1>1. s \in Screens
  BY DisplayAssumption DEF Screens, Cleared, Glyph, Col
<1>2. lines \in Seq(Seq(Glyph)) /\ Len(lines) = 1 /\ lines[1] = <<>> /\ Len(<<>>) = 0
  OBVIOUS
<1>3. lines \in Lines
  <2> HIDE DEF lines
  <2>1. Len(lines) \in 1 .. NumRows + 1 /\ Len(lines) # NumRows + 1
    BY <1>2, DisplayAssumption
  <2>2. \A i \in 1 .. Len(lines) - 1 : Len(lines[i]) = NumCols
    BY <1>2
  <2>3. Len(lines[Len(lines)]) < NumCols
    BY <1>2, DisplayAssumption
  <2> QED
    BY <1>2, <2>1, <2>2, <2>3 DEF Lines
<1>4. ASSUME NEW r \in Row, NEW c \in Col
      PROVE  s.cells[Place(r, c)] = GlyphAt(lines, r, c)
  <2>1. Place(r, c) \in Cell
    BY PlaceFacts DEF Row
  <2>2. GlyphAt(lines, r, c) = BLANK
    <3> HIDE DEF lines
    <3>1. ~(r + 1 \in 1 .. Len(lines) /\ c + 1 \in 1 .. Len(lines[r + 1]))
      BY <1>2 DEF Row, Col
    <3> QED
      BY <3>1 DEF GlyphAt
  <2> QED
    BY <2>1, <2>2 DEF Cleared
<1>5. s.y + 1 = Len(lines) /\ s.x = Len(lines[Len(lines)])
  BY <1>2
<1> QED
  BY <1>1, <1>3, <1>4, <1>5 DEF Shows
-----------------------------------------------------------------------------
(* The tab of the reference: TabSpaces spaces, one after the other.           *)
LEMMA AddTabUnfolds ==
    ASSUME NEW lines \in Lines
    PROVE  \E f \in [0 .. TabSpaces -> Lines] :
               /\ f[0] = lines
               /\ \A n \in 1 .. TabSpaces : f[n] = AddGlyph(f[n - 1], BLANK)
               /\ AddTab(lines) = f[TabSpaces]
<1> DEFINE Step == [l \in Lines |-> AddGlyph(l, BLANK)]
           Def(h) == [n \in 0 .. TabSpaces |-> IF n = 0 THEN lines ELSE AddGlyph(h[n - 1], BLANK)]
           g == CHOOSE h : h = Def(h)
<1>1. TabSpaces \in Nat /\ BLANK \in Glyph
  BY DisplayAssumption DEF Glyph
<1>2. Step \in [Lines -> Lines]
  BY <1>1, AddGlyphType
<1>3. PICK f : Iterates(f, TabSpaces, Lines, lines, Step)
  <2> HIDE DEF Step
  <2> QED
    BY <1>1, <1>2, Iteration
<1>4. \A n \in 1 .. TabSpaces : f[n] = AddGlyph(f[n - 1], BLANK)
  <2> SUFFICES ASSUME NEW n \in 1 .. TabSpaces
               PROVE  f[n] = AddGlyph(f[n - 1], BLANK)
    OBVIOUS
  <2>1. n - 1 \in 0 .. TabSpaces
    BY <1>1
  <2>2. f[n - 1] \in Lines
    BY <1>3, <2>1 DEF Iterates
  <2>3. Step[f[n - 1]] = AddGlyph(f[n - 1], BLANK)
    BY <2>2
  <2>4. f[n] = Step[f[n - 1]]
    BY <1>3 DEF Iterates
  <2> QED
    BY <2>3, <2>4
<1>5. f = Def(f)
  BY <1>1, <1>3, <1>4 DEF Iterates
<1>6. g = Def(g)
  <2> HIDE DEF Def
  <2> QED
    BY <1>5
<1>7. \A n \in 0 .. TabSpaces : g[n] = f[n]
  <2> DEFINE P == {n \in 0 .. TabSpaces : g[n] = f[n]}
  <2> HIDE DEF g
  <2>1. 0 \in P
    BY <1>1, <1>3, <1>6 DEF Iterates
  <2>2. ASSUME NEW n \in 1 .. TabSpaces, n - 1 \in P
        PROVE  n \in P
    <3>1. g[n] = AddGlyph(g[n - 1], BLANK)
      BY <1>1, <1>6
    <3> QED
      BY <1>4, <2>2, <3>1
  <2>3. \A n \in 0 .. TabSpaces : n \in P
    <3> HIDE DEF P
    <3> QED
      BY <1>1, <2>1, <2>2, InductionTo
  <2> QED
    BY <2>3
<1>8. AddTab(lines) = g[TabSpaces]
  BY DEF AddTab
<1> QED
  BY <1>1, <1>3, <1>4, <1>7, <1>8 DEF Iterates

(* A glyph moves the cursor by one place.                                     *)
LEMMA GlyphMovesOn ==
    ASSUME NEW s \in Screens, NEW g \in Glyph
    PROVE  /\ PutGlyph(s, g) \in Screens
           /\ At(s) \in Nat
           /\ At(PutGlyph(s, g)) = At(s) + 1
           /\ s.y < NumRows => PutGlyph(s, g).y <= NumRows
<1>1. s.y \in Nat /\ s.x \in Col
  BY DEF Screens
<1>2. Place(s.y + 1, 0) = NumCols * s.y + NumCols
  BY <1>1, DisplayAssumption DEF Place
<1>3. NumCols * s.y \in Nat
  BY <1>1, DisplayAssumption
<1>4. At(PutGlyph(s, g)) = IF s.x + 1 = NumCols THEN Place(s.y + 1, 0) ELSE Place(s.y, s.x + 1)
  BY MoveFacts DEF At
<1>5. At(s) \in Nat
  BY <1>1, PlaceFacts DEF At
<1>6. At(PutGlyph(s, g)) = At(s) + 1
  <2>1. CASE s.x + 1 = NumCols
    BY <1>1, <1>2, <1>3, <1>4, <2>1, DisplayAssumption DEF At, Place, Col
  <2>2. CASE s.x + 1 # NumCols
    BY <1>1, <1>3, <1>4, <2>2, DisplayAssumption DEF At, Place, Col
  <2> QED
    BY <2>1, <2>2
<1> QED
  BY <1>1, <1>5, <1>6, MoveFacts, DisplayAssumption

(* A tab moves the cursor by TabSpaces places, and at most one row.           *)
LEMMA TabMovesOn ==
    ASSUME NEW s \in Screens
    PROVE  /\ PutTab(s) \in Screens
           /\ At(PutTab(s)) = At(s) + TabSpaces
           /\ s.y < NumRows => PutTab(s).y <= NumRows
<1>1. TabSpaces \in Nat /\ TabSpaces <= NumCols /\ BLANK \in Glyph
  BY DisplayAssumption DEF Glyph
<1>2. PICK f \in [0 .. TabSpaces -> Screens] :
          /\ f[0] = s
          /\ \A n \in 1 .. TabSpaces : f[n] = PutGlyph(f[n - 1], BLANK)
          /\ PutTab(s) = f[TabSpaces]
  BY PutTabUnfolds
<1>3. At(s) \in Nat
  BY <1>1, GlyphMovesOn
<1>4. \A n \in 0 .. TabSpaces : At(f[n]) = At(s) + n
  <2> DEFINE P == {n \in 0 .. TabSpaces : At(f[n]) = At(s) + n}
  <2>1. 0 \in P
    BY <1>1, <1>2, <1>3
  <2>2. ASSUME NEW n \in 1 .. TabSpaces, n - 1 \in P
        PROVE  n \in P
    <3>1. At(f[n]) = At(f[n - 1]) + 1
      BY <1>1, <1>2, <2>2, GlyphMovesOn
    <3> QED
      BY <1>1, <1>3, <2>2, <3>1
  <2>3. \A n \in 0 .. TabSpaces : n \in P
    <3> HIDE DEF P
    <3> QED
      BY <1>1, <2>1, <2>2, InductionTo
  <2> QED
    BY <2>3
<1> DEFINE z == PutTab(s)
<1>5. z \in Screens /\ At(z) = At(s) + TabSpaces
  BY <1>1, <1>2, <1>4
<1> HIDE DEF z
<1>6. ASSUME s.y < NumRows, z.y > NumRows
      PROVE  FALSE
  <2>1. s.y \in Nat /\ s.x \in Col /\ z.y \in Nat /\ z.x \in Col /\ 0 \in Col
    BY <1>5, DisplayAssumption DEF Screens, Col
  <2>2. At(s) < Place(NumRows, 0)
    BY <1>6, <2>1, PlaceOrder, DisplayAssumption DEF At
  <2>3. Place(NumRows + 1, 0) = Place(NumRows, 0) + NumCols /\ Place(NumRows, 0) \in Nat
    BY <2>1, PlaceFacts, DisplayAssumption
  <2>4. Place(NumRows + 1, 0) <= At(z)
    <3>1. CASE z.y = NumRows + 1
      BY <2>1, <3>1, DisplayAssumption DEF At, Place, Col
    <3>2. CASE z.y # NumRows + 1
      <4>1. NumRows + 1 < z.y /\ NumRows + 1 \in Nat
        BY <1>6, <2>1, <3>2, DisplayAssumption
      <4>2. Place(NumRows + 1, 0) < At(z)
        BY <2>1, <4>1, PlaceOrder DEF At
      <4>3. Place(NumRows + 1, 0) \in Nat /\ At(z) \in Nat
        BY <2>1, <4>1, PlaceFacts DEF At
      <4> QED
        BY <4>2, <4>3
    <3> QED
      BY <3>1, <3>2
  <2> QED
    BY <1>1, <1>3, <1>5, <2>2, <2>3, <2>4, DisplayAssumption
<1> QED
  BY <1>5, <1>6, DisplayAssumption DEF z, Screens

(* A tab that does not wrap off the last row is a tab in the lines: a space   *)
(* scrolls nothing before the last one.                                       *)
LEMMA TabShows ==
    ASSUME NEW s, NEW lines \in Lines, Shows(s, Visible(lines)), s.y < NumRows,
           s.y = NumRows - 1 => s.x + TabSpaces <= NumCols
    PROVE  Shows(PutTab(s), AddTab(lines))
<1>1. TabSpaces \in Nat /\ TabSpaces >= 1 /\ TabSpaces <= NumCols /\ BLANK \in Glyph /\ s \in Screens
  BY DisplayAssumption DEF Glyph, Shows
<1>2. PICK f \in [0 .. TabSpaces -> Screens] :
          /\ f[0] = s
          /\ \A n \in 1 .. TabSpaces : f[n] = PutGlyph(f[n - 1], BLANK)
          /\ PutTab(s) = f[TabSpaces]
  BY <1>1, PutTabUnfolds
<1>3. PICK h \in [0 .. TabSpaces -> Lines] :
          /\ h[0] = lines
          /\ \A n \in 1 .. TabSpaces : h[n] = AddGlyph(h[n - 1], BLANK)
          /\ AddTab(lines) = h[TabSpaces]
  BY AddTabUnfolds
<1>4. At(s) \in Nat
  BY <1>1, GlyphMovesOn
<1>5. At(s) + TabSpaces <= Place(NumRows, 0)
  <2>1. s.y \in Nat /\ s.x \in Col /\ 0 \in Col
    BY <1>1, DisplayAssumption DEF Screens, Col
  <2>2. CASE s.y = NumRows - 1
    <3>1. Place(NumRows, 0) = Place(s.y, 0) + NumCols /\ Place(s.y, 0) \in Nat
      <4>1. s.y + 1 = NumRows
        BY <2>2, DisplayAssumption
      <4>2. Place(s.y + 1, 0) = Place(s.y, 0) + NumCols /\ Place(s.y, 0) \in Nat
        BY <2>1, PlaceFacts
      <4> QED
        BY <4>1, <4>2
    <3>2. At(s) = Place(s.y, 0) + s.x
      BY <2>1, DisplayAssumption DEF At, Place, Col
    <3> QED
      BY <1>1, <2>1, <2>2, <3>1, <3>2, DisplayAssumption DEF Col
  <2>3. CASE s.y # NumRows - 1
    <3>1. s.y < NumRows - 1 /\ NumRows - 1 \in Nat
      BY <2>1, <2>3, DisplayAssumption
    <3>2. At(s) < Place(NumRows - 1, 0)
      BY <2>1, <3>1, PlaceOrder DEF At
    <3>3. Place(NumRows - 1 + 1, 0) = Place(NumRows - 1, 0) + NumCols /\ Place(NumRows - 1, 0) \in Nat
      BY <2>1, <3>1, PlaceFacts
    <3>4. NumRows - 1 + 1 = NumRows
      BY DisplayAssumption
    <3> QED
      BY <1>1, <1>4, <3>2, <3>3, <3>4, DisplayAssumption
  <2> QED
    BY <2>2, <2>3
<1> DEFINE P == {n \in 0 .. TabSpaces : /\ At(f[n]) = At(s) + n
                                        /\ Shows(f[n], IF n = 0 THEN Visible(lines) ELSE h[n])}
<1>6. 0 \in P
  BY <1>1, <1>2, <1>4
<1>7. ASSUME NEW n \in 1 .. TabSpaces, n - 1 \in P
      PROVE  n \in P
  <2>1. n - 1 \in 0 .. TabSpaces /\ f[n - 1] \in Screens /\ h[n - 1] \in Lines
    BY <1>1, <1>7
  <2>2. At(f[n - 1]) = At(s) + (n - 1)
    BY <1>7
  <2>3. At(f[n]) = At(s) + n
    <3>1. At(f[n]) = At(f[n - 1]) + 1
      BY <1>1, <1>2, <2>1, GlyphMovesOn
    <3> QED
      BY <1>1, <1>4, <2>2, <3>1
  <2>4. f[n - 1].y < NumRows
    <3>1. At(f[n - 1]) < Place(NumRows, 0)
      <4>1. Place(NumRows, 0) \in Int
        BY DisplayAssumption DEF Place
      <4> QED
        BY <1>1, <1>4, <1>5, <2>2, <4>1
    <3>2. f[n - 1].y \in Nat /\ f[n - 1].x \in Col /\ 0 \in Col
      BY <2>1, DisplayAssumption DEF Screens, Col
    <3>3. ASSUME f[n - 1].y >= NumRows
          PROVE  Place(NumRows, 0) <= At(f[n - 1])
      <4>1. CASE f[n - 1].y = NumRows
        BY <3>2, <4>1, DisplayAssumption DEF At, Place, Col
      <4>2. CASE f[n - 1].y # NumRows
        <5>1. NumRows < f[n - 1].y
          BY <3>2, <3>3, <4>2, DisplayAssumption
        <5>2. Place(NumRows, 0) < At(f[n - 1])
          BY <3>2, <5>1, PlaceOrder, DisplayAssumption DEF At
        <5>3. Place(NumRows, 0) \in Nat /\ At(f[n - 1]) \in Nat
          BY <3>2, PlaceFacts, DisplayAssumption DEF At
        <5> QED
          BY <5>2, <5>3
      <4> QED
        BY <4>1, <4>2
    <3>4. Place(NumRows, 0) \in Nat /\ At(f[n - 1]) \in Nat
      BY <3>2, PlaceFacts, DisplayAssumption DEF At
    <3> QED
      BY <3>1, <3>2, <3>3, <3>4, DisplayAssumption
  <2>5. Shows(f[n - 1], Visible(h[n - 1]))
    <3>1. CASE n - 1 = 0
      BY <1>3, <1>7, <3>1
    <3>2. CASE n - 1 # 0
      <4>1. Shows(f[n - 1], h[n - 1])
        BY <1>7, <3>2
      <4>2. Len(h[n - 1]) <= NumRows
        <5>1. f[n - 1].y + 1 = Len(h[n - 1])
          BY <4>1 DEF Shows
        <5>2. f[n - 1].y \in Nat
          BY <2>1 DEF Screens
        <5> QED
          BY <2>4, <5>1, <5>2, DisplayAssumption
      <4> QED
        BY <2>1, <4>1, <4>2, VisibleFacts
    <3> QED
      BY <3>1, <3>2
  <2>6. Shows(f[n], h[n])
    BY <1>1, <1>2, <1>3, <2>1, <2>4, <2>5, GlyphShows
  <2> QED
    BY <2>3, <2>6
<1>8. TabSpaces \in P
  <2> HIDE DEF P
  <2>1. TabSpaces \in Nat /\ TabSpaces \in 0 .. TabSpaces
    BY <1>1
  <2>2. \A n \in 1 .. TabSpaces : n - 1 \in P => n \in P
    BY <1>7
  <2>3. \A n \in 0 .. TabSpaces : n \in P
    BY <2>1, <2>2, <1>6, InductionTo
  <2> QED
    BY <2>1, <2>3
<1> QED
  BY <1>1, <1>2, <1>3, <1>8
-----------------------------------------------------------------------------
(* What may have to be erased on terminal t: what the user may erase, and what*)
(* he may once the handler of a key under way has counted it.                 *)
Owed(t) ==
    {numchar[t]} \cup
    IF key.t = t /\ key.value # COUNTED THEN {key.value + 1, numchar[t] + 1} ELSE {}

(* The characters a key under way has still to count fit in the line, and the *)
(* terminal they are typed on is shown as long as some have not been echoed.  *)
KeyInv ==
    key \in AKey =>
        /\ key.left > 0 => key.t = terminal_shown
        /\ numchar[key.t] + key.left <= BufferSize
        /\ IF key.value = COUNTED THEN key.left > 0
           ELSE /\ key.value + 1 + key.left <= BufferSize
                /\ numchar[key.t] + 1 + key.left <= BufferSize

(* There are as many cells behind a cursor as may have to be erased: what     *)
(* TypeOK and EraseStaysOnScreen need to be inductive.                        *)
RoomInv ==
    /\ TypeOK
    /\ KeyInv
    /\ \A t \in Terminals : \A n \in Owed(t) : n <= At(cursor[t])

(* A page with the cursor of a terminal is a screen.                          *)
LEMMA ScreenType ==
    ASSUME TypeOK, NEW p \in Pages, NEW t \in Terminals
    PROVE  /\ Screen(p, t) \in Screens
           /\ Screen(p, t).cells = page[p]
           /\ Screen(p, t).x = cursor[t].x /\ Screen(p, t).y = cursor[t].y
           /\ Screen(p, t).y <= NumRows
<1>1. /\ page[p] \in [Cell -> Glyph]
      /\ cursor[t].x \in Col
      /\ cursor[t].y \in 0 .. NumRows
  BY DEF TypeOK, Col
<1>2. cursor[t].y \in Nat /\ cursor[t].y <= NumRows
  BY <1>1, DisplayAssumption
<1> QED
  BY <1>1, <1>2 DEF Screen, Screens

(* The terminals in use, their pages, and the counts of what can be erased.   *)
LEMMA IndexFacts ==
    ASSUME TypeOK
    PROVE  /\ terminal_shown \in Terminals /\ current_terminal \in Terminals
           /\ b8 \in Pages /\ 0 \in Pages
           /\ \A t \in Terminals : PageFor(t) \in Pages /\ t + 1 \in Pages
           /\ PageFor(terminal_shown) = 0
           /\ \A t, u \in Terminals : t # u => PageFor(t) # PageFor(u)
           /\ \A t \in Terminals : numchar[t] \in Nat /\ numchar[t] <= BufferSize
           /\ BLANK \in Glyph
           /\ \A g \in Chars : g \in Glyph
<1>1. BufferSize \in Nat
  BY DisplayAssumption
<1>2. \A t \in Terminals : numchar[t] \in Nat /\ numchar[t] <= BufferSize
  BY <1>1 DEF TypeOK
<1>3. terminal_shown \in Terminals /\ current_terminal \in Terminals /\ b8 \in Pages
  BY DEF TypeOK
<1>4. 0 \in Pages /\ \A t \in Terminals : t \in Nat /\ t + 1 \in Pages
  BY DisplayAssumption DEF Terminals, Pages
<1>5. \A t \in Terminals : PageFor(t) \in Pages
  BY <1>4 DEF PageFor
<1>6. PageFor(terminal_shown) = 0
  BY DEF PageFor
<1>7. ASSUME NEW t \in Terminals, NEW u \in Terminals, t # u
      PROVE  PageFor(t) # PageFor(u)
  BY <1>4, <1>7 DEF PageFor
<1>8. BLANK \in Glyph /\ \A g \in Chars : g \in Glyph
  BY DEF Glyph
<1> QED
  BY <1>2, <1>3, <1>4, <1>5, <1>6, <1>7, <1>8

(* What may have to be erased is no more than a line, and has its cells.      *)
LEMMA OwedFacts ==
    ASSUME RoomInv, NEW t \in Terminals
    PROVE  /\ \A n \in Owed(t) : n \in Nat /\ n <= BufferSize /\ n <= At(cursor[t])
           /\ numchar[t] \in Owed(t)
           /\ key = NoKey => Owed(t) = {numchar[t]}
           /\ At(cursor[t]) \in Nat
<1>1. TypeOK /\ KeyInv /\ \A n \in Owed(t) : n <= At(cursor[t])
  BY DEF RoomInv
<1>2. numchar[t] \in Nat /\ numchar[t] <= BufferSize /\ BufferSize \in Nat
  BY <1>1, IndexFacts, DisplayAssumption
<1>3. key = NoKey => Owed(t) = {numchar[t]}
  BY DisplayAssumption DEF Owed, NoKey, Terminals
<1>4. ASSUME NEW n \in Owed(t), n # numchar[t]
      PROVE  n \in Nat /\ n <= BufferSize
  <2>1. key.t = t /\ key.value # COUNTED /\ n \in {key.value + 1, numchar[t] + 1}
    BY <1>4 DEF Owed
  <2>2. key # NoKey
    BY <1>3, <1>4
  <2>3. key \in AKey
    BY <1>1, <2>2 DEF TypeOK
  <2>4. key.left \in Nat /\ key.value \in Nat
    BY <2>1, <2>3, DisplayAssumption DEF AKey, COUNTED
  <2>5. key.value + 1 + key.left <= BufferSize /\ numchar[t] + 1 + key.left <= BufferSize
    BY <1>1, <2>1, <2>3 DEF KeyInv
  <2> QED
    BY <1>2, <2>1, <2>4, <2>5
<1>5. numchar[t] \in Owed(t)
  BY DEF Owed
<1>6. At(cursor[t]) \in Nat
  <2>1. cursor[t].y \in Nat /\ cursor[t].x \in Nat
    BY <1>1, DisplayAssumption DEF TypeOK
  <2> QED
    BY <2>1, DisplayAssumption DEF At, Place
<1> QED
  BY <1>1, <1>2, <1>3, <1>4, <1>5, <1>6

(* A scroll leaves room for all that can be erased.                           *)
LEMMA ScrolledRoom ==
    ASSUME NEW s \in Screens, NEW n \in Nat, n <= BufferSize, n <= At(s), s.y <= NumRows
    PROVE  /\ Scrolled(s) \in Screens
           /\ Scrolled(s).y < NumRows
           /\ At(Scrolled(s)) \in Nat
           /\ n <= At(Scrolled(s))
<1>1. Scrolled(s) \in Screens /\ s.y \in Nat
  BY ScrolledFacts DEF Screens
<1>2. CASE s.y # NumRows
  <2>1. Scrolled(s) = s /\ s.y < NumRows
    BY <1>1, <1>2, ScrolledFacts, DisplayAssumption
  <2>2. At(s) \in Nat
    BY PlaceFacts DEF Screens, At
  <2> QED
    BY <1>1, <2>1, <2>2
<1>3. CASE s.y = NumRows
  <2>1. Scrolled(s).x = 0 /\ Scrolled(s).y = NumRows - 1
    BY <1>3, ScrolledFacts
  <2>2. At(Scrolled(s)) = (NumRows - 1) * NumCols /\ (NumRows - 1) * NumCols \in Nat
    BY <2>1, DisplayAssumption DEF At, Place
  <2>3. BufferSize \in Nat /\ BufferSize <= (NumRows - 1) * NumCols
    BY <2>2, DisplayAssumption
  <2>4. n <= (NumRows - 1) * NumCols
    <3> DEFINE m == (NumRows - 1) * NumCols
    <3> HIDE DEF m
    <3>1. m \in Nat /\ BufferSize \in Nat /\ BufferSize <= m
      BY <2>2, <2>3 DEF m
    <3>2. n <= m
      BY <3>1
    <3> QED
      BY <3>2 DEF m
  <2>5. NumRows - 1 < NumRows
    BY DisplayAssumption
  <2> QED
    BY <1>1, <2>1, <2>2, <2>4, <2>5
<1> QED
  BY <1>2, <1>3

(* A newline moves the cursor on.                                             *)
LEMMA NewlineRoom ==
    ASSUME NEW s \in Screens, NEW n \in Nat, n <= At(s), s.y < NumRows
    PROVE  /\ Newline(s) \in Screens
           /\ n <= At(Newline(s))
           /\ Newline(s).y <= NumRows
<1>1. s.y \in Nat /\ s.x \in Col /\ BLANK \in Glyph /\ 0 \in Col
  BY DisplayAssumption DEF Screens, Glyph, Col
<1>2. Newline(s) \in Screens /\ Newline(s).x = 0 /\ Newline(s).y = s.y + 1
  BY <1>1, MoveFacts
<1>3. At(s) < At(Newline(s))
  BY <1>1, <1>2, PlaceOrder DEF At
<1>4. At(s) \in Nat /\ At(Newline(s)) \in Nat
  BY <1>1, <1>2, PlaceFacts DEF At
<1>5. s.y + 1 <= NumRows
  BY <1>1, DisplayAssumption
<1> QED
  BY <1>2, <1>3, <1>4, <1>5

(* What a page and a cursor become when a screen is drawn on.                 *)
LEMMA BecomesFacts ==
    ASSUME TypeOK, NEW p \in Pages, NEW t \in Terminals, NEW s \in Screens, s.y <= NumRows,
           Becomes(p, t, s)
    PROVE  /\ page' \in [Pages -> [Cell -> Glyph]]
           /\ cursor' \in [Terminals -> [x : 0 .. NumCols - 1, y : 0 .. NumRows]]
           /\ page'[p] = s.cells
           /\ \A q \in Pages : q # p => page'[q] = page[q]
           /\ cursor'[t].x = s.x /\ cursor'[t].y = s.y
           /\ \A u \in Terminals : u # t => cursor'[u] = cursor[u]
<1>1. s.cells \in [Cell -> Glyph] /\ s.x \in 0 .. NumCols - 1 /\ s.y \in 0 .. NumRows
  BY DisplayAssumption DEF Screens, Col
<1>2. /\ page' = [page EXCEPT ![p] = s.cells]
      /\ cursor' = [cursor EXCEPT ![t] = [x |-> s.x, y |-> s.y]]
  BY DEF Becomes
<1> QED
  BY <1>1, <1>2 DEF TypeOK

(* A key under way keeps its promise while no key begins, counts or goes on   *)
(* and no count but falls to 0.                                               *)
LEMMA KeyKept ==
    ASSUME RoomInv, UNCHANGED <<terminal_shown, key>>, numchar' \in [Terminals -> 0 .. BufferSize],
           \A t \in Terminals : numchar'[t] \in {0, numchar[t]}
    PROVE  /\ KeyInv'
           /\ \A t \in Terminals : \A n \in Owed(t)' : n <= At(cursor[t])
<1>1. TypeOK /\ KeyInv
  BY DEF RoomInv
<1>2. \A t \in Terminals : numchar[t] \in Nat /\ numchar'[t] \in Nat /\ numchar'[t] <= numchar[t]
  BY <1>1, IndexFacts
<1>3. KeyInv'
  <2> SUFFICES ASSUME key \in AKey
               PROVE  KeyInv'
    BY DEF KeyInv, AKey
  <2>1. key.t \in Terminals /\ key.left \in Nat /\ (key.value # COUNTED => key.value \in Nat)
    BY DisplayAssumption DEF AKey
  <2> DEFINE t == key.t
             l == key.left
             v == key.value
  <2>2. /\ l > 0 => t = terminal_shown
        /\ numchar[t] + l <= BufferSize
        /\ IF v = COUNTED THEN l > 0
           ELSE v + 1 + l <= BufferSize /\ numchar[t] + 1 + l <= BufferSize
    BY <1>1 DEF KeyInv
  <2>3. numchar'[t] + l <= BufferSize /\ (v # COUNTED => numchar'[t] + 1 + l <= BufferSize)
    <3> HIDE DEF t, l, v
    <3>1. BufferSize \in Nat /\ l \in Nat /\ t \in Terminals
      BY <2>1, DisplayAssumption DEF l, t
    <3> QED
      BY <1>2, <2>2, <3>1
  <2> QED
    BY <2>2, <2>3 DEF KeyInv
<1>4. ASSUME NEW t \in Terminals, NEW n \in Owed(t)'
      PROVE  n <= At(cursor[t])
  <2>1. At(cursor[t]) \in Nat /\ \A m \in Owed(t) : m \in Nat /\ m <= At(cursor[t])
    BY OwedFacts
  <2>2. CASE n = numchar'[t]
    <3>1. numchar[t] \in Owed(t)
      BY DEF Owed
    <3> QED
      BY <1>2, <2>1, <2>2, <3>1
  <2>3. CASE n # numchar'[t]
    <3>1. key.t = t /\ key.value # COUNTED /\ n \in {key.value + 1, numchar'[t] + 1}
      BY <2>3 DEF Owed
    <3>2. key.value + 1 \in Owed(t) /\ numchar[t] + 1 \in Owed(t)
      BY <3>1 DEF Owed
    <3>3. CASE n = key.value + 1
      BY <2>1, <3>2, <3>3
    <3>4. CASE n = numchar'[t] + 1
      <4> DEFINE m == numchar[t] + 1
      <4>1. m \in Nat /\ m <= At(cursor[t])
        BY <2>1, <3>2
      <4>2. n \in Nat /\ n <= m
        BY <1>2, <3>4
      <4> HIDE DEF m
      <4> QED
        BY <2>1, <4>1, <4>2
    <3> QED
      BY <3>1, <3>3, <3>4
  <2> QED
    BY <2>2, <2>3
<1> QED
  BY <1>3, <1>4

(* Output of the running program leaves room for what may have to be erased.  *)
LEMMA PrintsRoom ==
    ASSUME RoomInv, NEW s \in Screens, NEW lines, s.y <= NumRows,
           \A n \in Owed(current_terminal) : n <= At(s), Prints(s, lines)
    PROVE  RoomInv'
<1>1. TypeOK
  BY DEF RoomInv
<1>2. /\ Becomes(b8, current_terminal, s)
      /\ UNCHANGED <<terminal_shown, current_terminal, b8, numchar, vidmap, key>>
  BY DEF Prints
<1>3. TypeOK'
  BY <1>1, <1>2, BecomesFacts, IndexFacts DEF TypeOK, AKey
<1>4. KeyInv'
  BY <1>1, <1>2, KeyKept DEF TypeOK
<1>5. ASSUME NEW t \in Terminals, NEW n \in Owed(t)'
      PROVE  n <= At(cursor'[t])
  <2>1. n \in Owed(t)
    BY <1>2 DEF Owed
  <2>2. CASE t = current_terminal
    <3>1. cursor'[t].x = s.x /\ cursor'[t].y = s.y
      BY <1>1, <1>2, <2>2, BecomesFacts, IndexFacts
    <3> QED
      BY <2>1, <2>2, <3>1 DEF At
  <2>3. CASE t # current_terminal
    <3>1. cursor'[t] = cursor[t]
      BY <1>1, <1>2, <2>3, BecomesFacts, IndexFacts
    <3> QED
      BY <2>1, <3>1 DEF RoomInv
  <2> QED
    BY <2>2, <2>3
<1> QED
  BY <1>3, <1>4, <1>5 DEF RoomInv

(* So does what the keyboard handler draws, for the count it leaves.          *)
LEMMA EchoesRoom ==
    ASSUME RoomInv, NEW s \in Screens, NEW lines, NEW n \in 0 .. BufferSize, s.y <= NumRows,
           n <= At(s), Echoes(s, lines, n)
    PROVE  RoomInv'
<1>1. TypeOK
  BY DEF RoomInv
<1>2. /\ Becomes(0, terminal_shown, s)
      /\ numchar' = [numchar EXCEPT ![terminal_shown] = n]
      /\ key = NoKey
      /\ UNCHANGED <<terminal_shown, current_terminal, b8, vidmap, key>>
  BY DEF Echoes
<1>3. TypeOK'
  BY <1>1, <1>2, BecomesFacts, IndexFacts DEF TypeOK, AKey
<1>4. NoKey \notin AKey /\ \A t \in Terminals : t # -1
  BY DisplayAssumption DEF NoKey, AKey, Terminals
<1>5. KeyInv'
  BY <1>2, <1>4 DEF KeyInv, AKey
<1>6. ASSUME NEW t \in Terminals, NEW m \in Owed(t)'
      PROVE  m <= At(cursor'[t])
  <2>1. m = numchar'[t]
    BY <1>2, <1>4 DEF Owed, NoKey
  <2>2. CASE t = terminal_shown
    <3>1. numchar'[t] = n
      BY <1>1, <1>2, <2>2 DEF TypeOK
    <3>2. cursor'[t].x = s.x /\ cursor'[t].y = s.y
      BY <1>1, <1>2, <2>2, BecomesFacts, IndexFacts
    <3> QED
      BY <2>1, <3>1, <3>2 DEF At
  <2>3. CASE t # terminal_shown
    <3>1. numchar'[t] = numchar[t]
      BY <1>1, <1>2, <2>3 DEF TypeOK
    <3>2. cursor'[t] = cursor[t]
      BY <1>1, <1>2, <2>3, BecomesFacts, IndexFacts
    <3> QED
      BY <2>1, <3>1, <3>2, OwedFacts
  <2> QED
    BY <2>2, <2>3
<1> QED
  BY <1>3, <1>5, <1>6 DEF RoomInv

(* The screen putc draws on for a program, and the one the keyboard handler   *)
(* draws on, once scrolled.                                                   *)
LEMMA DrawnScreens ==
    ASSUME RoomInv
    PROVE  /\ LET t == current_terminal
                  s == Scrolled(Screen(b8, t))
              IN  /\ s \in Screens /\ s.y < NumRows /\ At(s) \in Nat
                  /\ \A n \in Owed(t) : n \in Nat /\ n <= BufferSize /\ n <= At(s)
           /\ Shown \in Screens /\ Shown.y < NumRows
           /\ numchar[terminal_shown] \in Nat
           /\ numchar[terminal_shown] <= At(Shown) /\ At(Shown) \in Nat
<1>1. TypeOK
  BY DEF RoomInv
<1>2. ASSUME NEW p \in Pages, NEW t \in Terminals, NEW n \in Owed(t)
      PROVE  /\ Scrolled(Screen(p, t)) \in Screens /\ Scrolled(Screen(p, t)).y < NumRows
             /\ n \in Nat /\ n <= BufferSize
             /\ n <= At(Scrolled(Screen(p, t))) /\ At(Scrolled(Screen(p, t))) \in Nat
  <2> DEFINE s == Screen(p, t)
  <2>1. s \in Screens /\ s.y <= NumRows /\ s.x = cursor[t].x /\ s.y = cursor[t].y
    BY <1>1, ScreenType
  <2>2. n \in Nat /\ n <= BufferSize /\ n <= At(cursor[t])
    BY OwedFacts
  <2> HIDE DEF s
  <2>3. n <= At(s)
    BY <2>1, <2>2 DEF At
  <2>4. /\ Scrolled(s) \in Screens
        /\ Scrolled(s).y < NumRows
        /\ At(Scrolled(s)) \in Nat
        /\ n <= At(Scrolled(s))
    BY <2>1, <2>2, <2>3, ScrolledRoom
  <2> QED
    BY <2>2, <2>4 DEF s
<1>3. terminal_shown \in Terminals /\ current_terminal \in Terminals /\ b8 \in Pages /\ 0 \in Pages
  BY <1>1, IndexFacts
<1>4. \A t \in Terminals : numchar[t] \in Owed(t)
  BY DEF Owed
<1> QED
  BY <1>2, <1>3, <1>4 DEF Shown

(* The echo of a key leaves room for every count, and for the one it is about *)
(* to raise, on whichever terminal a line is started first.                   *)
LEMMA EchoRoom ==
    ASSUME RoomInv, NEW g \in Glyph, NEW t, NEW like, EchoOf(g, t, like)
    PROVE  /\ page' \in [Pages -> [Cell -> Glyph]]
           /\ cursor' \in [Terminals -> [x : 0 .. NumCols - 1, y : 0 .. NumRows]]
           /\ \A u \in Terminals : numchar[u] <= At(cursor'[u])
           /\ numchar[terminal_shown] + 1 <= At(cursor'[terminal_shown])
           /\ UNCHANGED <<terminal_shown, current_terminal, b8, numchar, vidmap>>
<1> DEFINE now    == current_terminal
           shown  == terminal_shown
           breaks == like /\ cursor[now].x # 0
           pages  == IF breaks THEN [page EXCEPT ![b8] = PromptLine.cells] ELSE page
           at     == IF breaks THEN [cursor EXCEPT ![now] = [x |-> PromptLine.x, y |-> PromptLine.y]]
                     ELSE cursor
           k      == [cells |-> pages[0], x |-> at[shown].x, y |-> at[shown].y]
           s      == PutGlyph(Scrolled(k), g)
           Cursors == [x : 0 .. NumCols - 1, y : 0 .. NumRows]
<1>1. /\ page' = [pages EXCEPT ![0] = s.cells]
      /\ cursor' = [at EXCEPT ![shown] = [x |-> s.x, y |-> s.y]]
      /\ UNCHANGED <<terminal_shown, current_terminal, b8, numchar, vidmap>>
  BY DEF EchoOf
<1>2. /\ TypeOK
      /\ page \in [Pages -> [Cell -> Glyph]] /\ cursor \in [Terminals -> Cursors]
      /\ b8 \in Pages /\ 0 \in Pages /\ now \in Terminals /\ shown \in Terminals
  BY IndexFacts DEF RoomInv, TypeOK
<1>3. \A u \in Terminals : numchar[u] \in Nat /\ numchar[u] <= BufferSize /\ numchar[u] <= At(cursor[u])
  BY OwedFacts
<1>4. /\ PromptLine \in Screens /\ PromptLine.y <= NumRows
      /\ numchar[now] <= At(PromptLine)
  <2> DEFINE z == Scrolled(Screen(b8, now))
  <2>1. /\ z \in Screens /\ z.y < NumRows
        /\ \A n \in Owed(now) : n \in Nat /\ n <= At(z)
    BY DrawnScreens
  <2>2. numchar[now] \in Owed(now)
    BY DEF Owed
  <2>3. PromptLine = Newline(z)
    BY DEF PromptLine
  <2> HIDE DEF z
  <2> QED
    BY <2>1, <2>2, <2>3, NewlineRoom
<1>5. /\ pages \in [Pages -> [Cell -> Glyph]]
      /\ at \in [Terminals -> Cursors]
      /\ \A u \in Terminals : numchar[u] <= At(at[u])
  <2>1. PromptLine.cells \in [Cell -> Glyph] /\ [x |-> PromptLine.x, y |-> PromptLine.y] \in Cursors
    BY <1>4, DisplayAssumption DEF Screens, Col
  <2>2. pages \in [Pages -> [Cell -> Glyph]] /\ at \in [Terminals -> Cursors]
    BY <1>2, <2>1
  <2>3. At([x |-> PromptLine.x, y |-> PromptLine.y]) = At(PromptLine)
    BY DEF At
  <2>4. ASSUME NEW u \in Terminals
        PROVE  numchar[u] <= At(at[u])
    <3>1. at[u] = cursor[u] \/ (u = now /\ at[u] = [x |-> PromptLine.x, y |-> PromptLine.y])
      BY <1>2
    <3> HIDE DEF at
    <3> QED
      BY <1>3, <1>4, <2>3, <3>1
  <2> QED
    BY <2>2, <2>4
<1> HIDE DEF pages, at
<1>6. /\ k \in Screens /\ k.y <= NumRows /\ numchar[shown] <= At(k)
  <2>1. pages[0] \in [Cell -> Glyph] /\ at[shown].x \in Col /\ at[shown].y \in 0 .. NumRows
    BY <1>2, <1>5 DEF Col
  <2>2. k \in Screens /\ k.y <= NumRows
    BY <2>1, DisplayAssumption DEF Screens
  <2>3. At(k) = At(at[shown])
    BY DEF At
  <2> QED
    BY <1>2, <1>5, <2>2, <2>3
<1> HIDE DEF k
<1>7. /\ Scrolled(k) \in Screens /\ Scrolled(k).y < NumRows
      /\ At(Scrolled(k)) \in Nat /\ numchar[shown] <= At(Scrolled(k))
  BY <1>2, <1>3, <1>6, ScrolledRoom
<1>8. /\ s \in Screens /\ s.y <= NumRows /\ At(s) = At(Scrolled(k)) + 1
  BY <1>7, GlyphMovesOn
<1>9. numchar[shown] + 1 <= At(s) /\ numchar[shown] <= At(s)
  <2> HIDE DEF s
  <2> QED
    BY <1>2, <1>3, <1>7, <1>8
<1> HIDE DEF s
<1>10. s.cells \in [Cell -> Glyph] /\ [x |-> s.x, y |-> s.y] \in Cursors
  BY <1>8, DisplayAssumption DEF Screens, Col
<1>11. At([x |-> s.x, y |-> s.y]) = At(s)
  BY DEF At
<1>12. page' \in [Pages -> [Cell -> Glyph]] /\ cursor' \in [Terminals -> Cursors]
  BY <1>1, <1>2, <1>5, <1>10
<1>13. /\ cursor'[shown] = [x |-> s.x, y |-> s.y]
       /\ \A u \in Terminals : u # shown => cursor'[u] = at[u]
  BY <1>1, <1>2, <1>5
<1>14. ASSUME NEW u \in Terminals
       PROVE  numchar[u] <= At(cursor'[u])
  BY <1>5, <1>9, <1>11, <1>13
<1> QED
  BY <1>1, <1>9, <1>11, <1>12, <1>13, <1>14

(* A key whose echo is drawn, and whose count is still to be raised, leaves   *)
(* room for it.                                                               *)
LEMMA EchoingRoom ==
    ASSUME RoomInv, NEW g \in Glyph, NEW like, EchoOf(g, terminal_shown, like),
           NEW f \in Terminals, NEW l \in 0 .. TabSpaces - 1,
           numchar[terminal_shown] + 1 + l <= BufferSize,
           key' = [flow |-> f, t |-> terminal_shown, left |-> l, value |-> numchar[terminal_shown]]
    PROVE  RoomInv'
<1> DEFINE t == terminal_shown
<1>1. /\ page' \in [Pages -> [Cell -> Glyph]]
      /\ cursor' \in [Terminals -> [x : 0 .. NumCols - 1, y : 0 .. NumRows]]
      /\ \A u \in Terminals : numchar[u] <= At(cursor'[u])
      /\ numchar[t] + 1 <= At(cursor'[t])
      /\ UNCHANGED <<terminal_shown, current_terminal, b8, numchar, vidmap>>
  BY EchoRoom
<1>2. /\ TypeOK /\ t \in Terminals /\ numchar[t] \in Nat
      /\ BufferSize \in Nat /\ l \in Nat
  BY IndexFacts, DisplayAssumption DEF RoomInv
<1>3. numchar[t] \in 0 .. BufferSize - 1 /\ numchar[t] + l <= BufferSize /\ numchar[t] # COUNTED
  BY <1>2 DEF COUNTED
<1>4. key' \in AKey
  BY <1>2, <1>3 DEF AKey
<1>5. TypeOK'
  BY <1>1, <1>2, <1>4 DEF TypeOK, AKey
<1>6. /\ key'.t = t /\ key'.left = l /\ key'.value = numchar[t]
      /\ terminal_shown' = t /\ numchar' = numchar
  BY <1>1
<1>7. KeyInv'
  BY <1>3, <1>6 DEF KeyInv
<1>8. ASSUME NEW u \in Terminals, NEW n \in Owed(u)'
      PROVE  n <= At(cursor'[u])
  <2>1. n = numchar[u] \/ (u = t /\ n = numchar[t] + 1)
    BY <1>6 DEF Owed
  <2> QED
    BY <1>1, <2>1
<1> QED
  BY <1>5, <1>7, <1>8 DEF RoomInv

(* The count of a key leaves room for what may be erased, and for the rest of *)
(* the key.                                                                   *)
LEMMA CountRoom ==
    ASSUME RoomInv, KeyCounts
    PROVE  RoomInv'
<1>1. /\ TypeOK /\ KeyInv /\ current_terminal \in Terminals
      /\ BufferSize \in Nat /\ TabSpaces \in Nat
  BY IndexFacts, DisplayAssumption DEF RoomInv
<1>2. key.value # COUNTED /\ key \in AKey
  <2>1. key # NoKey
    BY DEF KeyCounts, NoKey
  <2> QED
    BY <1>1, <2>1 DEF KeyCounts, TypeOK
<1> DEFINE t == key.t
           l == key.left
           v == key.value
<1>3. t \in Terminals /\ l \in 0 .. TabSpaces - 1 /\ l \in Nat /\ v \in Nat
  BY <1>1, <1>2 DEF AKey
<1>4. PICK n \in {v, numchar[t]} : numchar' = [numchar EXCEPT ![t] = n + 1]
  BY DEF KeyCounts
<1>5. /\ key' = IF l = 0 THEN NoKey ELSE [key EXCEPT !.value = COUNTED]
      /\ UNCHANGED <<terminal_shown, current_terminal, page, b8, cursor, vidmap, console>>
  BY DEF KeyCounts
<1>6. /\ l > 0 => t = terminal_shown
      /\ v + 1 + l <= BufferSize /\ numchar[t] + 1 + l <= BufferSize
  BY <1>1, <1>2 DEF KeyInv
<1>7. v + 1 \in Owed(t) /\ numchar[t] + 1 \in Owed(t)
  BY <1>2 DEF Owed
<1>8. n + 1 \in Nat /\ n + 1 + l <= BufferSize /\ n + 1 <= BufferSize /\ n + 1 <= At(cursor[t])
  <2>1. numchar[t] \in Nat
    BY <1>1, <1>3, IndexFacts
  <2>2. n \in Nat /\ n + 1 + l <= BufferSize
    BY <1>4, <1>6, <2>1, <1>3
  <2>3. n + 1 \in Owed(t)
    BY <1>4, <1>7
  <2>4. n + 1 <= At(cursor[t])
    BY <1>3, <2>3, OwedFacts
  <2> QED
    BY <1>1, <1>3, <2>2, <2>4
<1>9. key' \in AKey \cup {NoKey}
  <2>1. l # 0 => key' = [flow |-> key.flow, t |-> t, left |-> l, value |-> COUNTED]
    BY <1>2, <1>5 DEF AKey
  <2>2. key.flow \in Terminals
    BY <1>2 DEF AKey
  <2> QED
    BY <1>3, <1>5, <2>1, <2>2 DEF AKey
<1>10. numchar' \in [Terminals -> 0 .. BufferSize]
  BY <1>1, <1>3, <1>4, <1>8 DEF TypeOK
<1>11. TypeOK'
  BY <1>1, <1>5, <1>9, <1>10 DEF TypeOK, AKey
<1>12. NoKey \notin AKey /\ \A u \in Terminals : u # -1
  BY DisplayAssumption DEF NoKey, AKey, Terminals
<1>13. key' = NoKey \/ (key'.t = t /\ key'.left = l /\ l > 0 /\ key'.value = COUNTED)
  BY <1>2, <1>3, <1>5 DEF AKey
<1>14. numchar'[t] = n + 1 /\ \A u \in Terminals : u # t => numchar'[u] = numchar[u]
  BY <1>1, <1>3, <1>4 DEF TypeOK
<1>15. KeyInv'
  <2> HIDE DEF t, l, v
  <2>1. CASE key' = NoKey
    BY <1>12, <2>1 DEF KeyInv, AKey
  <2>2. CASE key' # NoKey
    BY <1>5, <1>6, <1>8, <1>13, <1>14, <2>2 DEF KeyInv
  <2> QED
    BY <2>1, <2>2
<1>16. ASSUME NEW u \in Terminals, NEW m \in Owed(u)'
       PROVE  m <= At(cursor'[u])
  <2>1. m = numchar'[u]
    BY <1>12, <1>13 DEF Owed, NoKey
  <2>2. u # t => numchar[u] <= At(cursor[u])
    BY OwedFacts
  <2> QED
    BY <1>5, <1>8, <1>14, <2>1, <2>2
<1> QED
  BY <1>11, <1>15, <1>16 DEF RoomInv

(* The prompt of the shell: what is drawn on after its newline.               *)
LEMMA PromptScreen ==
    ASSUME NEW s \in Screens, NEW n \in Nat, n <= BufferSize, n <= At(s), s.y < NumRows
    PROVE  LET z == Scrolled(Newline(s))
           IN  z \in Screens /\ z.y < NumRows /\ At(z) \in Nat /\ n <= At(z)
<1> DEFINE w == Newline(s)
<1>1. w \in Screens /\ n <= At(w) /\ w.y <= NumRows
  BY NewlineRoom
<1> HIDE DEF w
<1>2. /\ Scrolled(w) \in Screens
      /\ Scrolled(w).y < NumRows
      /\ At(Scrolled(w)) \in Nat
      /\ n <= At(Scrolled(w))
  BY <1>1, ScrolledRoom
<1> QED
  BY <1>2 DEF w

(* Every step leaves room for what may have to be erased.                     *)
LEMMA RoomStep ==
    ASSUME RoomInv, [Next]_vars, "back" \notin Hazards, "echo" \notin Hazards
    PROVE  RoomInv'
<1>1. TypeOK /\ KeyInv
  BY DEF RoomInv
<1> DEFINE t == current_terminal
           s == Scrolled(Screen(b8, t))
           k == numchar[terminal_shown]
<1>2. /\ s \in Screens /\ s.y < NumRows /\ At(s) \in Nat
      /\ \A n \in Owed(t) : n \in Nat /\ n <= BufferSize /\ n <= At(s)
      /\ Shown \in Screens /\ Shown.y < NumRows /\ k \in Nat /\ k <= At(Shown) /\ At(Shown) \in Nat
  BY DrawnScreens
<1>3. /\ t \in Terminals /\ terminal_shown \in Terminals
      /\ k <= BufferSize /\ BLANK \in Glyph /\ \A g \in Chars : g \in Glyph
  BY <1>1, IndexFacts
<1>4. BufferSize \in Nat
  BY DisplayAssumption
<1>5. s.y \in Nat /\ Shown.y \in Nat
  BY <1>2 DEF Screens
<1> HIDE DEF s, k
<1>6. ASSUME NEW g \in Glyph, PutChar(g)
      PROVE  RoomInv'
  <2>1. Prints(PutGlyph(s, g), AddGlyph(console[t], g))
    BY <1>6 DEF PutChar, s
  <2>2. /\ PutGlyph(s, g) \in Screens
        /\ At(PutGlyph(s, g)) = At(s) + 1
        /\ PutGlyph(s, g).y <= NumRows
    BY <1>2, <1>3, GlyphMovesOn
  <2>3. \A n \in Owed(t) : n <= At(PutGlyph(s, g))
    BY <1>2, <2>2
  <2> QED
    BY <2>1, <2>2, <2>3, PrintsRoom
<1>7. ASSUME NEW g \in Chars, PrintPrompt(g)
      PROVE  RoomInv'
  <2> DEFINE z == Scrolled(PromptLine)
             p == PutGlyph(z, g)
  <2>1. Prints(p, AddGlyph(AddLine(console[t]), g)) /\ PromptLine = Newline(s)
    BY <1>7 DEF PrintPrompt, PromptLine, s
  <2>2. ASSUME NEW n \in Owed(t)
        PROVE  z \in Screens /\ z.y < NumRows /\ At(z) \in Nat /\ n \in Nat /\ n <= At(z)
    BY <1>2, <2>1, PromptScreen
  <2>3. numchar[t] \in Owed(t)
    BY DEF Owed
  <2> HIDE DEF z
  <2>4. p \in Screens /\ At(p) = At(z) + 1 /\ p.y <= NumRows
    BY <1>3, <2>2, <2>3, GlyphMovesOn
  <2>5. \A n \in Owed(t) : n <= At(p)
    <3> HIDE DEF p
    <3> QED
      BY <2>2, <2>4
  <2> HIDE DEF p
  <2> QED
    BY <2>1, <2>4, <2>5, PrintsRoom
<1>8. ASSUME NEW g \in Glyph, NEW like, NEW l \in 0 .. TabSpaces - 1,
             Begins(g, like, l), k <= BufferSize - (l + 1)
      PROVE  RoomInv'
  <2>1. /\ EchoOf(g, terminal_shown, like)
        /\ key' = [flow |-> t, t |-> terminal_shown, left |-> l, value |-> numchar[terminal_shown]]
    BY <1>8 DEF Begins
  <2>2. numchar[terminal_shown] + 1 + l <= BufferSize
    BY <1>2, <1>4, <1>8, DisplayAssumption DEF k
  <2> QED
    BY <1>3, <2>1, <2>2, EchoingRoom
<1>9. ASSUME PrintNewline
      PROVE  RoomInv'
  <2>1. Prints(Newline(s), AddLine(console[t]))
    BY <1>9 DEF PrintNewline, s
  <2>2. \A n \in Owed(t) :
            Newline(s) \in Screens /\ n <= At(Newline(s)) /\ Newline(s).y <= NumRows
    BY <1>2, NewlineRoom
  <2>3. numchar[t] \in Owed(t)
    BY DEF Owed
  <2> QED
    BY <2>1, <2>2, <2>3, PrintsRoom
<1>10. ASSUME PrintTab
       PROVE  RoomInv'
  <2>1. Prints(PutTab(s), AddTab(console[t]))
    BY <1>10 DEF PrintTab, s
  <2>2. PutTab(s) \in Screens /\ At(PutTab(s)) = At(s) + TabSpaces /\ PutTab(s).y <= NumRows
    BY <1>2, TabMovesOn
  <2>3. \A n \in Owed(t) : n <= At(PutTab(s))
    BY <1>2, <2>2, DisplayAssumption
  <2> QED
    BY <2>1, <2>2, <2>3, PrintsRoom
<1>11. ASSUME TypeEnter
       PROVE  RoomInv'
  <2>1. Echoes(Newline(Shown), AddLine(console[terminal_shown]), k)
    BY <1>11 DEF TypeEnter, k
  <2>2. Newline(Shown) \in Screens /\ k <= At(Newline(Shown)) /\ Newline(Shown).y <= NumRows
    BY <1>2, NewlineRoom
  <2>3. k \in 0 .. BufferSize
    BY <1>2, <1>3, <1>4
  <2> QED
    BY <2>1, <2>2, <2>3, EchoesRoom
<1>12. ASSUME TypeBackspace
       PROVE  RoomInv'
  <2> DEFINE e == Erase(Shown)
  <2>1. Echoes(e, RemoveGlyph(console[terminal_shown]), k - 1) /\ k > 0
    BY <1>12 DEF TypeBackspace, k
  <2>2. At(Shown) > 0
    BY <1>2, <2>1
  <2>3. /\ e \in Screens
        /\ e.x = IF Shown.x = 0 THEN NumCols - 1 ELSE Shown.x - 1
        /\ e.y = IF Shown.x = 0 THEN Shown.y - 1 ELSE Shown.y
    BY <1>2, <2>2, EraseFacts
  <2> HIDE DEF e
  <2>4. Shown.x \in Nat
    BY <1>2 DEF Screens, Col
  <2>5. At(e) = At(Shown) - 1
    <3>1. CASE Shown.x = 0
      <4>1. NumCols * (Shown.y - 1) = NumCols * Shown.y - NumCols /\ NumCols * Shown.y \in Nat
        BY <1>5, DisplayAssumption
      <4> QED
        BY <2>3, <3>1, <4>1, DisplayAssumption DEF At, Place
    <3>2. CASE Shown.x # 0
      <4>1. NumCols * Shown.y \in Nat
        BY <1>5, DisplayAssumption
      <4> QED
        BY <2>3, <2>4, <3>2, <4>1 DEF At, Place
    <3> QED
      BY <3>1, <3>2
  <2>6. k - 1 \in 0 .. BufferSize /\ k - 1 <= At(e)
    BY <1>2, <1>3, <1>4, <2>1, <2>5
  <2>7. e.y <= NumRows
    BY <1>2, <1>5, <2>3, DisplayAssumption
  <2> QED
    BY <2>1, <2>3, <2>6, <2>7, EchoesRoom
<1>13. ASSUME TypeClear
       PROVE  RoomInv'
  <2> DEFINE z == [cells |-> Cleared, x |-> 0, y |-> 0]
  <2>1. Echoes(z, <<<<>>>>, 0)
    BY <1>13 DEF TypeClear, NumcharAfterClear
  <2>2. z \in Screens
    BY ClearShows DEF Shows
  <2>3. 0 <= At(z) /\ z.y <= NumRows /\ 0 \in 0 .. BufferSize
    BY <1>4, DisplayAssumption DEF At, Place
  <2> HIDE DEF z
  <2> QED
    BY <2>1, <2>2, <2>3, EchoesRoom
<1>14. ASSUME UNCHANGED <<terminal_shown, page, cursor, key>>,
              numchar' \in [Terminals -> 0 .. BufferSize],
              \A u \in Terminals : numchar'[u] \in {0, numchar[u]},
              current_terminal' \in Terminals, b8' \in Pages,
              vidmap' \in [Terminals -> Pages \cup {REMAPPED, UNMAPPED}]
       PROVE  RoomInv'
  <2>1. TypeOK'
    BY <1>1, <1>14 DEF TypeOK, AKey
  <2>2. /\ KeyInv'
        /\ \A u \in Terminals : \A n \in Owed(u)' : n <= At(cursor[u])
    BY <1>14, KeyKept
  <2>3. cursor' = cursor
    BY <1>14
  <2> QED
    BY <2>1, <2>2, <2>3 DEF RoomInv
<1>15. ASSUME TakeLine
       PROVE  RoomInv'
  BY <1>1, <1>4, <1>14, <1>15 DEF TakeLine, TypeOK
<1>16. ASSUME NEW u \in Terminals, terminal_swap(u)
       PROVE  RoomInv'
  <2>1. /\ page' = AfterSwap(u) /\ terminal_shown' = u /\ ~(key.left > 0)
        /\ UNCHANGED <<current_terminal, b8, cursor, numchar, vidmap, key>>
    BY <1>16 DEF terminal_swap
  <2>2. page' \in [Pages -> [Cell -> Glyph]]
    <3> DEFINE kept == IF Kept THEN page[u + 1] ELSE Cleared
    <3>1. page' = [page EXCEPT ![terminal_shown + 1] = page[0], ![0] = page[u + 1], ![u + 1] = kept]
      <4>1. 0 # u + 1 /\ terminal_shown # u /\ u \in Nat /\ terminal_shown \in Nat
        BY <1>3, <1>16, DisplayAssumption DEF terminal_swap, Terminals
      <4> QED
        BY <2>1, <4>1 DEF AfterSwap
    <3>2. /\ page \in [Pages -> [Cell -> Glyph]]
          /\ 0 \in Pages /\ u + 1 \in Pages /\ terminal_shown + 1 \in Pages
      BY <1>1, IndexFacts DEF TypeOK
    <3>3. kept \in [Cell -> Glyph]
      BY <3>2 DEF Cleared, Glyph
    <3> HIDE DEF kept
    <3> QED
      BY <3>1, <3>2, <3>3
  <2>3. TypeOK'
    BY <1>1, <2>1, <2>2 DEF TypeOK, AKey
  <2>4. KeyInv'
    BY <1>1, <2>1 DEF KeyInv, AKey
  <2>5. \A v \in Terminals : Owed(v)' = Owed(v)
    BY <2>1 DEF Owed
  <2> QED
    BY <2>1, <2>3, <2>4, <2>5 DEF RoomInv
<1>17. ASSUME PITTick
       PROVE  RoomInv'
  <2> DEFINE u == (current_terminal + 1) % NumTerminals
  <2>1. u \in Terminals
    BY <1>1, DisplayAssumption DEF TypeOK, Terminals
  <2>2. b8' = PageFor(u) /\ current_terminal' = u /\ UNCHANGED <<terminal_shown, page, cursor, numchar, vidmap, key>>
    BY <1>17 DEF PITTick
  <2>3. PageFor(u) \in Pages
    BY <1>1, <2>1, IndexFacts
  <2> HIDE DEF u
  <2> QED
    BY <1>1, <1>14, <2>1, <2>2, <2>3 DEF TypeOK
<1>18. ASSUME sys_vidmap
       PROVE  RoomInv'
  <2>1. VidmapOf(t) \in Pages \cup {REMAPPED, UNMAPPED}
    BY <1>1, IndexFacts DEF VidmapOf
  <2> QED
    BY <1>1, <1>14, <1>18, <2>1 DEF sys_vidmap, TypeOK
<1>19. ASSUME sys_halt
       PROVE  RoomInv'
  BY <1>1, <1>4, <1>14, <1>19 DEF sys_halt, TypeOK
<1>20. CASE UNCHANGED vars
  BY <1>1, <1>14, <1>20 DEF vars, TypeOK
<1>21. ASSUME PrintBackspace
       PROVE  RoomInv'
  <2>1. /\ Prints(PutBack(s), RemoveGlyph(console[t]))
        /\ s.x # 0 /\ ~(numchar[t] > 0) /\ key.t # t
    BY <1>21 DEF PrintBackspace, s
  <2>2. s.x \in Nat /\ At(s) > 0
    <3>1. s.x \in Nat /\ NumCols * s.y \in Nat
      BY <1>2, <1>5, DisplayAssumption DEF Screens, Col
    <3> QED
      BY <2>1, <3>1 DEF At, Place
  <2>3. PutBack(s) = Erase(s)
    BY <2>1 DEF PutBack, Erase, Back
  <2>4. Erase(s) \in Screens /\ Erase(s).y = s.y
    BY <1>2, <2>1, <2>2, EraseFacts
  <2>5. At(Erase(s)) \in Nat
    BY <2>4, PlaceFacts DEF Screens, At
  <2>6. \A n \in Owed(t) : n = 0
    <3>1. numchar[t] = 0
      BY <1>1, <1>3, <2>1, IndexFacts
    <3> QED
      BY <2>1, <3>1 DEF Owed
  <2>7. Erase(s).y <= NumRows
    BY <1>2, <1>5, <2>4, DisplayAssumption
  <2> QED
    BY <2>1, <2>3, <2>4, <2>5, <2>6, <2>7, PrintsRoom
<1>22. ASSUME NEW like, NEW g \in Glyph, Type(g, like)
       PROVE  RoomInv'
  <2>1. Begins(g, like, 0) /\ k < BufferSize
    BY <1>22 DEF Type, k
  <2>2. 0 \in 0 .. TabSpaces - 1 /\ k <= BufferSize - (0 + 1)
    BY <1>2, <1>4, <2>1, DisplayAssumption
  <2> QED
    BY <1>3, <1>8, <2>1, <2>2
<1>23. ASSUME NEW like, TypeTab(like)
       PROVE  RoomInv'
  <2> DEFINE l == TabSpaces - 1
  <2>1. Begins(BLANK, like, l) /\ k <= BufferSize - TabSpaces
    BY <1>23 DEF TypeTab, k
  <2>2. l \in 0 .. TabSpaces - 1 /\ TabSpaces = l + 1
    BY DisplayAssumption
  <2> HIDE DEF l
  <2> QED
    BY <1>3, <1>8, <2>1, <2>2
<1>24. ASSUME NEW like, NEW g \in Glyph, TabGoesOn(g, like)
       PROVE  RoomInv'
  <2>1. /\ key # NoKey /\ key.value = COUNTED
        /\ EchoOf(g, key.t, like)
        /\ key' = [key EXCEPT !.left = @ - 1, !.value = numchar[key.t]]
    <3>1. key.flow = t /\ t # -1
      BY <1>3, <1>24, DisplayAssumption DEF TabGoesOn, Free, Terminals
    <3>2. key # NoKey
      BY <3>1 DEF NoKey
    <3> QED
      BY <1>24, <3>2 DEF TabGoesOn
  <2>2. key \in AKey
    BY <1>1, <2>1 DEF TypeOK
  <2>3. /\ key.left > 0 /\ key.t = terminal_shown /\ k + key.left <= BufferSize
    BY <1>1, <2>1, <2>2 DEF KeyInv, k
  <2> DEFINE l == key.left - 1
  <2>4. l \in 0 .. TabSpaces - 1 /\ key.flow \in Terminals /\ key.left = l + 1
    BY <2>2, <2>3, DisplayAssumption DEF AKey
  <2>5. key' = [flow |-> key.flow, t |-> terminal_shown, left |-> l,
                value |-> numchar[terminal_shown]]
    BY <2>1, <2>2, <2>3 DEF AKey
  <2> HIDE DEF l
  <2>6. numchar[terminal_shown] + 1 + l <= BufferSize
    BY <1>2, <1>4, <2>3, <2>4 DEF k
  <2> QED
    BY <2>1, <2>3, <2>4, <2>5, <2>6, EchoingRoom
<1>25. ASSUME KeyCounts
       PROVE  RoomInv'
  BY <1>25, CountRoom
<1> QED
  BY <1>6, <1>7, <1>9, <1>10, <1>11, <1>12, <1>13, <1>15, <1>16, <1>17, <1>18, <1>19, <1>20,
     <1>21, <1>22, <1>23, <1>24, <1>25 DEF Next

(* The first state.                                                           *)
LEMMA RoomInit ==
    ASSUME Init
    PROVE  RoomInv
<1>1. /\ 0 \in Terminals /\ 0 \in Pages /\ BufferSize \in Nat
      /\ 0 \in 0 .. NumCols - 1 /\ 0 \in 0 .. NumRows /\ 0 \in 0 .. BufferSize
  BY DisplayAssumption DEF Terminals, Pages
<1>2. Cleared \in [Cell -> Glyph]
  BY DEF Cleared, Glyph
<1>3. TypeOK
  BY <1>1, <1>2 DEF Init, TypeOK
<1>4. NoKey \notin AKey /\ \A t \in Terminals : t # -1
  BY DisplayAssumption DEF NoKey, AKey, Terminals
<1>5. KeyInv
  BY <1>4 DEF Init, KeyInv
<1>6. NumCols * 0 + 0 = 0
  BY DisplayAssumption
<1>7. ASSUME NEW t \in Terminals, NEW n \in Owed(t)
      PROVE  n <= At(cursor[t])
  <2>1. n = 0
    BY <1>4 DEF Init, Owed, NoKey
  <2> QED
    BY <1>6, <2>1 DEF Init, At, Place
<1> QED
  BY <1>3, <1>5, <1>7 DEF RoomInv

(* There are cells enough behind every cursor for what the user may erase.    *)
LEMMA RoomInvIsRoom ==
    ASSUME RoomInv
    PROVE  TypeOK /\ EraseStaysOnScreen
<1>1. ASSUME NEW t \in Terminals
      PROVE  numchar[t] <= NumCols * cursor[t].y + cursor[t].x
  BY OwedFacts DEF At, Place
<1> QED
  BY <1>1 DEF RoomInv, EraseStaysOnScreen

(* Pages, cursors, counts and the key under way have their types, and an      *)
(* erasure never leaves the top of the page, whatever scrolls, clears, ticks, *)
(* output, prompts and reads come between a character and its erasure, and    *)
(* even while a key has been echoed and not counted: as long as no program    *)
(* takes back what the user typed, or goes up a row, and no swap comes between*)
(* the spaces of a tab.                                                       *)
THEOREM ErasesStayOnScreen ==
    ASSUME "back" \notin Hazards, "echo" \notin Hazards
    PROVE  Spec => [](TypeOK /\ EraseStaysOnScreen)
<1>1. Init => RoomInv
  BY RoomInit
<1>2. RoomInv /\ [Next]_vars => RoomInv'
  BY RoomStep
<1>3. RoomInv => TypeOK /\ EraseStaysOnScreen
  BY RoomInvIsRoom
<1> QED
  BY <1>1, <1>2, <1>3, PTL DEF Spec
-----------------------------------------------------------------------------
(* Every terminal's page, with its cursor, shows its console.                 *)
Pictures == \A t \in Terminals : Shows(Screen(PageFor(t), t), console[t])

PictureInv == RoomInv /\ Pictures /\ DOMAIN console = Terminals

(* What is drawn on a page with the cursor of a terminal is its new picture;  *)
(* the others keep theirs.                                                    *)
LEMMA DrawnPicture ==
    ASSUME PictureInv, NEW t \in Terminals, NEW s, NEW lines, Shows(s, lines),
           Becomes(PageFor(t), t, s), terminal_shown' = terminal_shown,
           console' = [console EXCEPT ![t] = lines]
    PROVE  Pictures' /\ DOMAIN console' = Terminals
<1>1. TypeOK /\ s \in Screens
  BY DEF PictureInv, RoomInv, Shows
<1>2. s.y <= NumRows
  BY LinesFacts, DisplayAssumption DEF Shows, Screens
<1>3. /\ page'[PageFor(t)] = s.cells
      /\ \A q \in Pages : q # PageFor(t) => page'[q] = page[q]
      /\ cursor'[t].x = s.x /\ cursor'[t].y = s.y
      /\ \A u \in Terminals : u # t => cursor'[u] = cursor[u]
  BY <1>1, <1>2, BecomesFacts, IndexFacts
<1>4. \A u \in Terminals : PageFor(u)' = PageFor(u)
  BY DEF PageFor
<1>5. ASSUME NEW u \in Terminals
      PROVE  Shows(Screen(PageFor(u), u)', console'[u])
  <2>1. CASE u = t
    <3>1. /\ Screen(PageFor(u), u)'.cells = s.cells
          /\ Screen(PageFor(u), u)'.x = s.x
          /\ Screen(PageFor(u), u)'.y = s.y
      BY <1>3, <1>4, <2>1 DEF Screen
    <3>2. Screen(PageFor(u), u)' = [cells |-> s.cells, x |-> s.x, y |-> s.y]
      BY <1>3, <1>4, <2>1 DEF Screen
    <3>3. s = [cells |-> s.cells, x |-> s.x, y |-> s.y]
      BY <1>1 DEF Screens
    <3>4. console'[u] = lines
      BY <2>1 DEF PictureInv
    <3> QED
      BY <3>2, <3>3, <3>4
  <2>2. CASE u # t
    <3>1. PageFor(u) \in Pages /\ PageFor(u) # PageFor(t)
      BY <1>1, <2>2, IndexFacts
    <3>2. Screen(PageFor(u), u)' = Screen(PageFor(u), u)
      BY <1>3, <1>4, <2>2, <3>1 DEF Screen
    <3>3. console'[u] = console[u]
      BY <2>2 DEF PictureInv
    <3> QED
      BY <3>2, <3>3 DEF PictureInv, Pictures
  <2> QED
    BY <2>1, <2>2
<1> QED
  BY <1>5 DEF Pictures, PictureInv

(* Steps that draw nothing.                                                   *)
LEMMA NothingDrawn ==
    ASSUME PictureInv, UNCHANGED <<terminal_shown, page, cursor, console>>
    PROVE  Pictures' /\ DOMAIN console' = Terminals
<1>1. ASSUME NEW t \in Terminals
      PROVE  Shows(Screen(PageFor(t), t), console[t])' <=> Shows(Screen(PageFor(t), t), console[t])
  <2>1. Screen(PageFor(t), t)' = Screen(PageFor(t), t)
    BY DEF Screen, PageFor
  <2> QED
    BY <2>1
<1> QED
  BY <1>1 DEF PictureInv, Pictures

(* What a program prints is the picture of its terminal: a tick has remapped  *)
(* B8 since the last swap.                                                    *)
LEMMA PrintedPicture ==
    ASSUME PictureInv, "stale" \notin Hazards, NEW s, NEW lines, Shows(s, lines), Prints(s, lines)
    PROVE  Pictures' /\ DOMAIN console' = Terminals
<1>1. /\ Becomes(PageFor(current_terminal), current_terminal, s)
      /\ console' = [console EXCEPT ![current_terminal] = lines]
      /\ terminal_shown' = terminal_shown
  BY DEF Prints, MayPrint
<1>2. current_terminal \in Terminals
  BY DEF PictureInv, RoomInv, TypeOK
<1> QED
  BY <1>1, <1>2, DrawnPicture

(* What the keyboard handler draws is the picture of the terminal on screen.  *)
LEMMA EchoedPicture ==
    ASSUME PictureInv, NEW s, NEW lines, NEW n, Shows(s, lines), Echoes(s, lines, n)
    PROVE  Pictures' /\ DOMAIN console' = Terminals
<1>1. terminal_shown \in Terminals /\ PageFor(terminal_shown) = 0
  BY IndexFacts DEF PictureInv, RoomInv
<1>2. /\ Becomes(PageFor(terminal_shown), terminal_shown, s)
      /\ console' = [console EXCEPT ![terminal_shown] = lines]
      /\ terminal_shown' = terminal_shown
  BY <1>1 DEF Echoes
<1> QED
  BY <1>1, <1>2, DrawnPicture

(* So is the echo of a character, unless the line begins like the prompt.     *)
LEMMA EchoPicture ==
    ASSUME PictureInv, "prompt" \notin Hazards, NEW g \in Glyph, NEW like,
           EchoOf(g, terminal_shown, like),
           Shows(PutGlyph(Shown, g), AddGlyph(console[terminal_shown], g))
    PROVE  Pictures' /\ DOMAIN console' = Terminals
<1>1. terminal_shown \in Terminals /\ PageFor(terminal_shown) = 0
  BY IndexFacts DEF PictureInv, RoomInv
<1>2. ~like
  BY DEF EchoOf
<1>3. /\ Becomes(0, terminal_shown, PutGlyph(Shown, g))
      /\ console' = [console EXCEPT ![terminal_shown] = AddGlyph(@, g)]
      /\ terminal_shown' = terminal_shown
  BY <1>2 DEF EchoOf, Becomes, Shown, Screen
<1>4. console' = [console EXCEPT ![terminal_shown] = AddGlyph(console[terminal_shown], g)]
  BY <1>3
<1> QED
  BY <1>1, <1>3, <1>4, DrawnPicture

(* A screen that shows the lines of a console shows, once scrolled, those that*)
(* are visible.                                                               *)
LEMMA ScrollShows ==
    ASSUME NEW s, NEW lines, Shows(s, lines)
    PROVE  Shows(Scrolled(s), Visible(lines)) /\ Scrolled(s).y < NumRows /\ lines \in Lines
<1>1. lines \in Lines
  BY DEF Shows
<1> QED
  BY <1>1, ScrolledShows

(* Lines of a console, added to, are the lines the next drawing shows.        *)
LEMMA ShownDrawn ==
    ASSUME NEW s, NEW lines, Shows(s, lines), NEW g \in Glyph
    PROVE  /\ lines \in Lines
           /\ Scrolled(s) \in Screens
           /\ Shows(PutGlyph(Scrolled(s), g), AddGlyph(lines, g))
           /\ Shows(Newline(Scrolled(s)), AddLine(lines))
<1>1. lines \in Lines
  BY DEF Shows
<1>2. Shows(Scrolled(s), Visible(lines)) /\ Scrolled(s).y < NumRows
  BY ScrolledShows
<1>3. Scrolled(s) \in Screens
  BY <1>2 DEF Shows
<1>4. Shows(PutGlyph(Scrolled(s), g), AddGlyph(lines, g))
  BY <1>1, <1>2, GlyphShows
<1>5. Shows(Newline(Scrolled(s)), AddLine(lines))
  BY NewlineShows
<1> QED
  BY <1>1, <1>3, <1>4, <1>5

(* Every step keeps the pictures of the terminals.                            *)
LEMMA PictureStep ==
    ASSUME PictureInv, [Next]_vars, "stale" \notin Hazards, "tab" \notin Hazards,
           "back" \notin Hazards, "prompt" \notin Hazards, "echo" \notin Hazards
    PROVE  PictureInv'
<1> DEFINE t == current_terminal
           u == terminal_shown
           s == Screen(b8, t)
           k == Screen(0, u)
<1>1. RoomInv /\ TypeOK /\ KeyInv
  BY DEF PictureInv, RoomInv
<1>2. RoomInv'
  BY <1>1, RoomStep
<1>3. t \in Terminals /\ u \in Terminals /\ BLANK \in Glyph /\ \A g \in Chars : g \in Glyph
  BY <1>1, IndexFacts
<1>4. Shows(k, console[u])
  BY <1>3 DEF PictureInv, Pictures, PageFor
<1>5. MayPrint => Shows(s, console[t])
  BY <1>3 DEF PictureInv, Pictures, MayPrint
<1> HIDE DEF s, k
<1>6. ASSUME NEW g \in Glyph, PutChar(g)
      PROVE  Pictures' /\ DOMAIN console' = Terminals
  <2>1. Prints(PutGlyph(Scrolled(s), g), AddGlyph(console[t], g)) /\ MayPrint
    BY <1>6 DEF PutChar, Prints, s
  <2>2. Shows(PutGlyph(Scrolled(s), g), AddGlyph(console[t], g))
    BY <1>3, <1>5, <2>1, ShownDrawn
  <2> QED
    BY <2>1, <2>2, PrintedPicture
<1>7. ASSUME NEW g \in Chars, PrintPrompt(g)
      PROVE  Pictures' /\ DOMAIN console' = Terminals
  <2> DEFINE n == Newline(Scrolled(s))
  <2>1. Prints(PutGlyph(Scrolled(n), g), AddGlyph(AddLine(console[t]), g)) /\ MayPrint
    BY <1>7 DEF PrintPrompt, PromptLine, Prints, s
  <2>2. Shows(n, AddLine(console[t]))
    BY <1>3, <1>5, <2>1, ShownDrawn
  <2>3. Shows(PutGlyph(Scrolled(n), g), AddGlyph(AddLine(console[t]), g))
    BY <1>3, <2>2, ShownDrawn
  <2> QED
    BY <2>1, <2>3, PrintedPicture
<1>8. ASSUME NEW g \in Glyph, NEW like, EchoOf(g, u, like)
      PROVE  Pictures' /\ DOMAIN console' = Terminals
  <2>1. Shown = Scrolled(k)
    BY DEF Shown, k
  <2>2. Shows(PutGlyph(Scrolled(k), g), AddGlyph(console[u], g))
    BY <1>4, <1>8, ShownDrawn
  <2> QED
    BY <1>8, <2>1, <2>2, EchoPicture
<1>9. ASSUME PrintNewline
      PROVE  Pictures' /\ DOMAIN console' = Terminals
  <2>1. Prints(Newline(Scrolled(s)), AddLine(console[t])) /\ MayPrint
    BY <1>9 DEF PrintNewline, Prints, s
  <2>2. Shows(Newline(Scrolled(s)), AddLine(console[t]))
    BY <1>3, <1>5, <2>1, ShownDrawn
  <2> QED
    BY <2>1, <2>2, PrintedPicture
<1>10. ASSUME PrintTab
       PROVE  Pictures' /\ DOMAIN console' = Terminals
  <2> DEFINE z == Scrolled(s)
  <2>1. Prints(PutTab(z), AddTab(console[t])) /\ MayPrint
    BY <1>10 DEF PrintTab, Prints, s
  <2>2. ~(z.y = NumRows - 1 /\ z.x + TabSpaces > NumCols)
    BY <1>10 DEF PrintTab, s
  <2>3. Shows(z, Visible(console[t])) /\ z.y < NumRows /\ console[t] \in Lines
    BY <1>5, <2>1, ScrollShows
  <2>4. z.x \in Nat
    BY <2>3 DEF Shows, Screens, Col
  <2>5. Shows(PutTab(z), AddTab(console[t]))
    <3> HIDE DEF z
    <3>1. z.y = NumRows - 1 => z.x + TabSpaces <= NumCols
      BY <2>2, <2>4, DisplayAssumption
    <3> QED
      BY <2>3, <3>1, TabShows
  <2> QED
    BY <2>1, <2>5, PrintedPicture
<1>11. ASSUME TypeEnter
       PROVE  Pictures' /\ DOMAIN console' = Terminals
  <2>1. Echoes(Newline(Scrolled(k)), AddLine(console[u]), numchar[u])
    BY <1>11 DEF TypeEnter, Shown, k
  <2>2. Shows(Newline(Scrolled(k)), AddLine(console[u]))
    BY <1>3, <1>4, ShownDrawn
  <2> QED
    BY <2>1, <2>2, EchoedPicture
<1>12. ASSUME TypeBackspace
       PROVE  Pictures' /\ DOMAIN console' = Terminals
  <2>1. Echoes(Erase(Shown), RemoveGlyph(console[u]), numchar[u] - 1) /\ numchar[u] > 0
    BY <1>12 DEF TypeBackspace
  <2>2. At(Shown) > 0
    BY <1>1, <2>1, DrawnScreens
  <2>3. Shows(Shown, Visible(console[u])) /\ Shown.y < NumRows /\ console[u] \in Lines
    <3>1. Shown = Scrolled(k)
      BY DEF Shown, k
    <3> QED
      BY <1>4, <3>1, ScrollShows
  <2>4. Shows(Erase(Shown), RemoveGlyph(console[u]))
    BY <2>2, <2>3, EraseShows
  <2> QED
    BY <2>1, <2>4, EchoedPicture
<1>13. ASSUME TypeClear
       PROVE  Pictures' /\ DOMAIN console' = Terminals
  BY <1>13, ClearShows, EchoedPicture DEF TypeClear
<1>14. ASSUME NEW v \in Terminals, terminal_swap(v)
       PROVE  Pictures' /\ DOMAIN console' = Terminals
  <2>1. /\ v # u /\ terminal_shown' = v
        /\ page' = AfterSwap(v)
        /\ UNCHANGED <<cursor, console>>
    BY <1>14 DEF terminal_swap
  <2>2. \A w \in Terminals : w \in Nat /\ w + 1 \in Pages /\ w + 1 # 0
    BY <1>1, IndexFacts DEF Terminals
  <2>3. DOMAIN page = Pages /\ 0 \in Pages
    BY <1>1, IndexFacts DEF TypeOK
  <2>4. /\ page'[0] = page[v + 1] /\ page'[u + 1] = page[0]
        /\ \A q \in Pages : q # 0 /\ q # u + 1 /\ q # v + 1 => page'[q] = page[q]
    <3>1. v + 1 # u + 1 /\ v + 1 # 0 /\ u + 1 # 0 /\ v + 1 \in Pages /\ u + 1 \in Pages
      BY <1>3, <2>1, <2>2
    <3> QED
      BY <2>1, <2>3, <3>1 DEF AfterSwap
  <2>5. ASSUME NEW w \in Terminals
        PROVE  page'[PageFor(w)'] = page[PageFor(w)]
    <3>1. CASE w = v
      BY <2>4, <2>1, <3>1 DEF PageFor
    <3>2. CASE w = u
      BY <1>3, <2>4, <2>1, <3>2 DEF PageFor
    <3>3. CASE w # v /\ w # u
      <4>1. w + 1 # u + 1 /\ w + 1 # v + 1 /\ w + 1 # 0 /\ w + 1 \in Pages
        BY <1>3, <2>2, <3>3
      <4> QED
        BY <2>4, <2>1, <3>3, <4>1 DEF PageFor
    <3> QED
      BY <3>1, <3>2, <3>3
  <2>6. ASSUME NEW w \in Terminals
        PROVE  Screen(PageFor(w), w)' = Screen(PageFor(w), w)
    BY <2>1, <2>5 DEF Screen
  <2> QED
    BY <2>1, <2>6 DEF PictureInv, Pictures
<1>15. ASSUME KeyCounts \/ TakeLine \/ PITTick \/ sys_vidmap \/ sys_halt \/ UNCHANGED vars
       PROVE  Pictures' /\ DOMAIN console' = Terminals
  BY <1>15, NothingDrawn DEF KeyCounts, TakeLine, PITTick, sys_vidmap, sys_halt, vars
<1>16. ASSUME NEW like, TypeTab(like) \/ \E g \in Glyph : Type(g, like)
       PROVE  Pictures' /\ DOMAIN console' = Terminals
  BY <1>3, <1>8, <1>16 DEF TypeTab, Type, Begins
<1>17. ASSUME NEW like, NEW g \in Glyph, TabGoesOn(g, like)
       PROVE  Pictures' /\ DOMAIN console' = Terminals
  <2>1. key # NoKey /\ key.value = COUNTED /\ EchoOf(g, key.t, like)
    <3>1. key.flow = t /\ t # -1
      BY <1>3, <1>17, DisplayAssumption DEF TabGoesOn, Free, Terminals
    <3>2. key # NoKey
      BY <3>1 DEF NoKey
    <3> QED
      BY <1>17, <3>2 DEF TabGoesOn
  <2>2. key.t = u
    BY <1>1, <2>1 DEF TypeOK, KeyInv
  <2> QED
    BY <1>8, <2>1, <2>2
<1>18. ASSUME PrintBackspace
       PROVE  Pictures' /\ DOMAIN console' = Terminals
  <2> DEFINE z == Scrolled(s)
  <2>1. /\ Prints(PutBack(z), RemoveGlyph(console[t]))
        /\ z.x # 0 /\ MayPrint
    BY <1>18 DEF PrintBackspace, Prints, s
  <2>2. Shows(z, Visible(console[t])) /\ z.y < NumRows /\ console[t] \in Lines
    BY <1>5, <2>1, ScrollShows
  <2> HIDE DEF z
  <2>3. PutBack(z) = Erase(z)
    BY <2>1 DEF PutBack, Erase, Back
  <2>4. At(z) > 0
    <3>1. z.x \in Nat /\ z.y \in Nat /\ NumCols * z.y \in Nat
      BY <2>2, DisplayAssumption DEF Shows, Screens, Col
    <3> QED
      BY <2>1, <3>1 DEF At, Place
  <2>5. Shows(PutBack(z), RemoveGlyph(console[t]))
    BY <2>2, <2>3, <2>4, EraseShows
  <2> QED
    BY <2>1, <2>5, PrintedPicture
<1>19. Pictures' /\ DOMAIN console' = Terminals
  BY <1>6, <1>7, <1>9, <1>10, <1>11, <1>12, <1>13, <1>14, <1>15, <1>16, <1>17, <1>18 DEF Next
<1> QED
  BY <1>2, <1>19 DEF PictureInv

(* The screen is clear at first, and so is every page.                        *)
LEMMA PictureInit ==
    ASSUME Init
    PROVE  PictureInv
<1>1. RoomInv /\ TypeOK
  BY RoomInit DEF RoomInv
<1>2. ASSUME NEW t \in Terminals
      PROVE  Shows(Screen(PageFor(t), t), console[t])
  <2>1. Screen(PageFor(t), t) = [cells |-> Cleared, x |-> 0, y |-> 0]
    BY <1>1, IndexFacts DEF Init, Screen
  <2>2. console[t] = <<<<>>>>
    BY DEF Init
  <2> QED
    BY <2>1, <2>2, ClearShows
<1>3. DOMAIN console = Terminals
  BY DEF Init
<1> QED
  BY <1>1, <1>2, <1>3 DEF PictureInv, Pictures

(* The pictures of the terminals, as PictureIsConsole says it.                *)
LEMMA PictureInvIsPicture ==
    ASSUME PictureInv
    PROVE  PictureIsConsole
<1> SUFFICES ASSUME NEW t \in Terminals
             PROVE  /\ page[PictureOf(t)] = Glyphs(console[t])
                    /\ cursor[t].y = Len(console[t]) - 1
                    /\ cursor[t].x = Len(Last(console[t]))
  BY DEF PictureIsConsole
<1> DEFINE s == Screen(PageFor(t), t)
<1>1. Shows(s, console[t])
  BY DEF PictureInv, Pictures
<1>2. s.cells = page[PictureOf(t)] /\ s.x = cursor[t].x /\ s.y = cursor[t].y
  BY DEF Screen, PictureOf
<1> HIDE DEF s
<1>3. s.cells = Glyphs(console[t])
  BY <1>1, ShownCells DEF Shows
<1>4. s.y = Len(console[t]) - 1
  <2>1. s.y \in Nat /\ s.y + 1 = Len(console[t])
    BY <1>1 DEF Shows, Screens
  <2> QED
    BY <2>1
<1>5. s.x = Len(Last(console[t]))
  BY <1>1, LinesFacts DEF Shows
<1> QED
  BY <1>2, <1>3, <1>4, <1>5

(* Each terminal has on the screen, or in its backing page, what a console of*)
(* its own would show, its cursor included: whatever runs, prints, takes back,*)
(* is typed, scrolls, is cleared and is swapped to meanwhile.  As long as no  *)
(* program prints between a swap and the next tick, goes up a row or takes    *)
(* back what the user typed, no tab wraps off the last row, no line is typed  *)
(* that begins like a prompt and no swap comes between the spaces of a tab.   *)
THEOREM PicturesAreConsoles ==
    ASSUME "stale" \notin Hazards, "tab" \notin Hazards, "back" \notin Hazards,
           "prompt" \notin Hazards, "echo" \notin Hazards
    PROVE  Spec => []PictureIsConsole
<1>1. Init => PictureInv
  BY PictureInit
<1>2. PictureInv /\ [Next]_vars => PictureInv'
  BY PictureStep
<1>3. PictureInv => PictureIsConsole
  BY PictureInvIsPicture
<1> QED
  BY <1>1, <1>2, <1>3, PTL DEF Spec
-----------------------------------------------------------------------------
(* What a program was told is what it would be told again, and 0xB8000 is its *)
(* terminal's page from the moment one has the screen mapped.                 *)
VidmapInv ==
    /\ terminal_shown \in Terminals
    /\ current_terminal \in Terminals
    /\ DOMAIN vidmap = Terminals
    /\ \A t \in Terminals :
          vidmap[t] # UNMAPPED => vidmap[t] = VidmapOf(t) /\ b8 = PageFor(current_terminal)

(* A program that has mapped the screen draws on its terminal's picture, as   *)
(* long as it maps no page between a swap and the next tick and no swap comes *)
(* while a program has the screen mapped.                                     *)
THEOREM VidmapsArePictures ==
    ASSUME "stale" \notin Hazards, "mapped" \notin Hazards
    PROVE  Spec => []VidmapIsPicture
<1>1. Init => VidmapInv
  BY DisplayAssumption DEF Init, VidmapInv, Terminals
<1>2. ASSUME VidmapInv, [Next]_vars
      PROVE  VidmapInv'
  <2>1. ASSUME UNCHANGED <<terminal_shown, current_terminal, b8, vidmap>>
        PROVE  VidmapInv'
    BY <1>2, <2>1 DEF VidmapInv, VidmapOf, PageFor
  <2>2. ASSUME \/ (\E g \in Glyph : PutChar(g)) \/ (\E g \in Chars : PrintPrompt(g))
               \/ PrintNewline \/ PrintTab \/ PrintBackspace
        PROVE  VidmapInv'
    BY <2>1, <2>2 DEF PutChar, PrintPrompt, PrintNewline, PrintTab, PrintBackspace, Prints
  <2>3. ASSUME TypeEnter \/ TypeBackspace \/ TypeClear
        PROVE  VidmapInv'
    BY <2>1, <2>3 DEF TypeEnter, TypeBackspace, TypeClear, Echoes
  <2>4. ASSUME NEW like,
               \/ TypeTab(like)
               \/ \E g \in Glyph : Type(g, like) \/ TabGoesOn(g, like)
        PROVE  VidmapInv'
    <3>1. \E g, t : EchoOf(g, t, like)
      BY <2>4 DEF TypeTab, Type, Begins, TabGoesOn
    <3>2. UNCHANGED <<terminal_shown, current_terminal, b8, vidmap>>
      BY <3>1 DEF EchoOf
    <3> QED
      BY <2>1, <3>2
  <2>5. ASSUME KeyCounts \/ TakeLine \/ UNCHANGED vars
        PROVE  VidmapInv'
    BY <2>1, <2>5 DEF KeyCounts, TakeLine, vars
  <2>6. ASSUME NEW t \in Terminals, terminal_swap(t)
        PROVE  VidmapInv'
    <3>1. \A v \in Terminals : vidmap'[v] = UNMAPPED
      BY <2>6 DEF terminal_swap
    <3>2. terminal_shown' = t /\ UNCHANGED <<current_terminal, vidmap>>
      BY <2>6 DEF terminal_swap
    <3> QED
      BY <1>2, <3>1, <3>2 DEF VidmapInv
  <2>7. ASSUME PITTick
        PROVE  VidmapInv'
    <3>1. /\ b8' = PageFor(current_terminal)'
          /\ current_terminal' = (current_terminal + 1) % NumTerminals
          /\ UNCHANGED <<terminal_shown, vidmap>>
      BY <2>7 DEF PITTick, PageFor
    <3>2. \A t \in Terminals : VidmapOf(t)' = VidmapOf(t)
      BY <3>1 DEF VidmapOf
    <3>3. current_terminal' \in Terminals
      BY <1>2, <3>1, DisplayAssumption DEF VidmapInv, Terminals
    <3> QED
      BY <1>2, <3>1, <3>2, <3>3 DEF VidmapInv
  <2>8. ASSUME sys_vidmap
        PROVE  VidmapInv'
    <3>1. /\ vidmap' = [vidmap EXCEPT ![current_terminal] = VidmapOf(current_terminal)]
          /\ b8' = PageFor(current_terminal)'
          /\ UNCHANGED <<terminal_shown, current_terminal>>
      BY <2>8 DEF sys_vidmap, MayPrint, PageFor
    <3>2. \A t \in Terminals : VidmapOf(t)' = VidmapOf(t)
      BY <3>1 DEF VidmapOf
    <3> QED
      BY <1>2, <3>1, <3>2 DEF VidmapInv
  <2>9. ASSUME sys_halt
        PROVE  VidmapInv'
    <3>1. /\ vidmap' = [vidmap EXCEPT ![current_terminal] = UNMAPPED]
          /\ UNCHANGED <<terminal_shown, current_terminal, b8>>
      BY <2>9 DEF sys_halt
    <3> QED
      BY <1>2, <3>1 DEF VidmapInv, VidmapOf, PageFor
  <2> QED
    BY <1>2, <2>2, <2>3, <2>4, <2>5, <2>6, <2>7, <2>8, <2>9 DEF Next
<1>3. VidmapInv => VidmapIsPicture
  <2> SUFFICES ASSUME VidmapInv, vidmap[current_terminal] # UNMAPPED
               PROVE  (IF vidmap[current_terminal] = REMAPPED THEN b8 ELSE vidmap[current_terminal])
                          = PictureOf(current_terminal)
    BY DEF VidmapIsPicture
  <2>1. /\ current_terminal \in Terminals
        /\ vidmap[current_terminal] = VidmapOf(current_terminal)
        /\ b8 = PageFor(current_terminal)
    BY DEF VidmapInv
  <2>2. current_terminal + 1 # REMAPPED
    BY <2>1, DisplayAssumption DEF Terminals, REMAPPED
  <2> QED
    BY <2>1, <2>2 DEF VidmapOf, PageFor, PictureOf
<1> QED
  BY <1>1, <1>2, <1>3, PTL DEF Spec
=============================================================================

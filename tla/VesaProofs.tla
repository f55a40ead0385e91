----------------------------- MODULE VesaProofs -----------------------------
(***************************************************************************)
(* Proofs about Vesa, for every list of modes without a mode twice, every  *)
(* information the BIOS may give of them, every leftover in the mode block *)
(* and every size of picture that fits in the smallest frame.              *)
(***************************************************************************)
EXTENDS Vesa, TLAPS

-----------------------------------------------------------------------------
(* The inductive invariant *)

\* What of the modes before entry n+1 has been chosen, if the BIOS described them all.
Chosen(n) ==
    LET fit == {k \in 1..n : Suitable(Info[list[k]])}
    IN IF fit = {} THEN modeSelected = None
       ELSE \E k \in fit : modeSelected = list[k] /\ \A j \in fit : j <= k

\* The entries whose information has been asked for.
Asked == IF pc = "judge" THEN 1..iMode ELSE 1..iMode-1

\* Where the walk over the list stands in each state of the program.
PlaceInv ==
    /\ pc = "judge" => iMode \in DOMAIN list
    /\ pc = "info" => iMode = 1 /\ modeSelected = None /\ answered = {}
    /\ pc \in {"set", "draw"} => iMode = Len(list) + 1 /\ modeSelected # None
    /\ pc = "done" => \/ iMode = Len(list) + 1
                      \/ iMode = 1 /\ modeSelected = None /\ answered = {}

\* What the walk has found out: nothing is known of an entry before it is reached,
\* and a block that was answered is that of the entry being judged.
WalkInv ==
    /\ modeSelected # None => \E k \in 1..iMode-1 : modeSelected = list[k]
    /\ answered \subseteq {list[k] : k \in Asked}
    /\ pc = "judge" /\ list[iMode] \in answered => block = Info[list[iMode]]
    /\ (\A k \in 1..iMode-1 : list[k] \in answered) => Chosen(iMode - 1)

\* The display is of a size that will do, and painted only once it is final.
FrameInv ==
    /\ modeSelected # None => display.width \in MinX..MaxX /\ display.height \in MinY..MaxY
    /\ pc \in {"info", "walk", "judge", "set"} => DOMAIN painted = {}
    /\ StaysInFrame

\* The rows of the picture drawn when iy has come to n.
Drawn(n) == (0..n-1) \cup (Side..Side+n-1)

\* Of each row drawn every pixel is where the display has it; a mode that was set is
\* the one selected, and the picture is whole when the program ends with it.
PaintInv ==
    /\ pc \in {"info", "walk", "judge", "set"} => iy = 0
    /\ card # Text => pc \in {"draw", "done"} /\ card = modeSelected
    /\ pc = "done" /\ card # Text => iy = Side
    /\ \A row \in Drawn(iy), col \in 0..2*Side-1 :
          LET o == display.width * row + col
          IN o \in DOMAIN painted /\ painted[o] = Colour(row, col)

VesaInv == TypeOK /\ PlaceInv /\ WalkInv /\ DescribesItsMode /\ FrameInv /\ PaintInv

-----------------------------------------------------------------------------
(* Arithmetic *)

\* The product of two bytes, divided by the values of a byte, is a byte.
LEMMA ByteProduct ==
    ASSUME NEW s \in Nat \ {0}, NEW a \in 0..s-1, NEW b \in 0..s-1
    PROVE  (a * b) \div s \in 0..s-1
<1>1. a * b \in Nat
  OBVIOUS
<1>2. a * b <= (s - 1) * b
  OBVIOUS
<1>3. (s - 1) * b < s * s
  OBVIOUS
<1>4. a * b < s * s
  BY <1>1, <1>2, <1>3
<1>. DEFINE q == (a * b) \div s
<1>5. q \in Int /\ s * q <= a * b /\ a * b < s * (q + 1)
  OBVIOUS
<1>6. q >= 0
  BY <1>1, <1>5
<1>7. q < s
  BY <1>4, <1>5, <1>6
<1>. QED BY <1>5, <1>6, <1>7

\* A pixel of a row and a column that exist lies in the buffer.
LEMMA PixelInFrame ==
    ASSUME NEW w \in Nat, NEW h \in Nat, NEW r \in 0..h-1, NEW c \in 0..w-1
    PROVE  w * r + c \in 0..(w * h - 1)
<1>1. w * r <= w * (h - 1)
  OBVIOUS
<1>2. w * (h - 1) = w * h - w
  OBVIOUS
<1>. QED BY <1>1, <1>2

\* Every component of every pixel is a byte.
LEMMA ColourIsBytes ==
    ASSUME NEW row \in Int, NEW col \in Int
    PROVE  Colour(row, col) \in [b : 0..Side-1, g : 0..Side-1, r : 0..Side-1]
<1>. DEFINE y == row % Side   x == col % Side   top == Side - 1
<1>1. Side \in Nat \ {0}
  BY VesaAssumption
<1>2. y \in 0..Side-1 /\ x \in 0..Side-1 /\ top \in 0..Side-1
  BY <1>1
<1>3. top - x \in 0..Side-1 /\ top - y \in 0..Side-1
  BY <1>1, <1>2
<1>4. avg256(x, y) \in 0..Side-1
  BY <1>1, <1>2, ByteProduct DEF avg256
<1>5. (x * (top - y)) \div Side \in 0..Side-1
  BY <1>1, <1>2, <1>3, ByteProduct
<1>6. (y + ((x * (top - y)) \div Side)) % Side \in 0..Side-1
  <2>. HIDE DEF x, y, top
  <2>. QED BY <1>1, <1>2, <1>5
<1>. HIDE DEF x, y, top
<1>7. Colour(row, col) =
        CASE row < Side /\ col < Side   -> [b |-> 0, g |-> top - x, r |-> top - y]
          [] row < Side /\ col >= Side  -> [b |-> x, g |-> 0, r |-> top - y]
          [] row >= Side /\ col < Side  -> [b |-> y, g |-> top - x, r |-> 0]
          [] row >= Side /\ col >= Side -> [b |-> (y + ((x * (top - y)) \div Side)) % Side,
                                            g |-> avg256(x, y), r |-> avg256(x, y)]
  BY DEF Colour, x, y, top
<1>. QED BY <1>1, <1>2, <1>3, <1>4, <1>6, <1>7

-----------------------------------------------------------------------------
(* The picture *)

LEMMA RowAndColumn ==
    ASSUME NEW w \in Nat \ {0}, NEW r \in Nat, NEW c \in 0..w-1
    PROVE  (w * r + c) \div w = r /\ (w * r + c) % w = c
<1>. DEFINE q == (w * r + c) \div w
            o == w * r + c
<1>1. o \in Int /\ q \in Int /\ w * q <= o /\ o < w * (q + 1)
  OBVIOUS
<1>2. q = r
  <2>. HIDE DEF q
  <2>1. CASE q < r
    <3>1. w * (q + 1) <= w * r
      BY <1>1, <2>1
    <3>. QED BY <1>1, <3>1
  <2>2. CASE q > r
    <3>1. w * q >= w * (r + 1)
      BY <1>1, <2>2
    <3>2. w * (r + 1) = w * r + w
      OBVIOUS
    <3>. QED BY <1>1, <3>1, <3>2
  <2>. QED BY <1>1, <2>1, <2>2
<1>3. o % w = o - w * q
  OBVIOUS
<1>. QED BY <1>2, <1>3

\* A number's part of s grows by one at most when the number grows by s at most.
LEMMA PartStep ==
    ASSUME NEW s \in Nat \ {0}, NEW m \in Int, NEW d \in 0..s
    PROVE  (m + d) \div s - m \div s \in 0..1
<1>. DEFINE p == m \div s
            q == (m + d) \div s
<1>1. p \in Int /\ s * p <= m /\ m < s * (p + 1)
  OBVIOUS
<1>2. q \in Int /\ s * q <= m + d /\ m + d < s * (q + 1)
  OBVIOUS
<1>. HIDE DEF p, q
<1>3. s * (p + 1) = s * p + s /\ s * (p + 2) = s * p + s + s
  BY <1>1
<1>4. ~(q < p)
  <2>1. SUFFICES ASSUME q < p PROVE FALSE
    OBVIOUS
  <2>2. s * (q + 1) <= s * p
    BY <1>1, <1>2, <2>1
  <2>. QED BY <1>1, <1>2, <2>2
<1>5. ~(q > p + 1)
  <2>1. SUFFICES ASSUME q > p + 1 PROVE FALSE
    OBVIOUS
  <2>2. s * (p + 2) <= s * q
    BY <1>1, <1>2, <2>1
  <2>. QED BY <1>1, <1>2, <1>3, <2>2
<1>6. q - p \in 0..1
  BY <1>1, <1>2, <1>4, <1>5
<1>. QED BY <1>6 DEF p, q

\* The mixture of two bytes: what it is at the borders, and that it has no jumps.
LEMMA Mixture ==
    /\ Side \in Nat \ {0}
    /\ \A a, b \in 0..Side-1 : avg256(a, b) \in 0..b
    /\ \A b \in 0..Side-1 : avg256(0, b) = 0
    /\ \A a \in 0..Side-1 : a - avg256(a, Side-1) \in 0..1
    /\ \A a \in 0..Side-2, b \in 0..Side-1 : avg256(a + 1, b) - avg256(a, b) \in 0..1
    /\ \A a \in 0..Side-1, b \in 0..Side-2 : avg256(a, b + 1) - avg256(a, b) \in 0..1
<1>1. Side \in Nat \ {0}
  BY VesaAssumption
<1>2. \A m \in Int, d \in 0..Side : (m + d) \div Side - m \div Side \in 0..1
  BY <1>1, PartStep
<1>3. ASSUME NEW a \in 0..Side-1, NEW b \in 0..Side-1 PROVE avg256(a, b) \in 0..b
  <2>. DEFINE m == a * b
              q == m \div Side
  <2>1. m \in Nat /\ m <= Side * b
    BY <1>1
  <2>2. \A n \in Nat, s \in Nat \ {0} : n \div s \in Int /\ s * (n \div s) <= n /\ n < s * (n \div s + 1)
    OBVIOUS
  <2>. HIDE DEF m
  <2>3. q \in Int /\ Side * q <= m /\ m < Side * (q + 1)
    BY <1>1, <2>1, <2>2
  <2>. HIDE DEF q
  <2>4. q >= 0
    <3>1. SUFFICES ASSUME q < 0 PROVE FALSE
      BY <2>3
    <3>2. Side * (q + 1) <= 0
      BY <1>1, <2>3, <3>1
    <3>. QED BY <1>1, <2>1, <2>3, <3>2
  <2>5. q <= b
    <3>1. SUFFICES ASSUME q > b PROVE FALSE
      BY <2>3
    <3>2. Side * (b + 1) <= Side * q
      BY <1>1, <2>3, <3>1
    <3>3. Side * (b + 1) = Side * b + Side
      BY <1>1
    <3>. QED BY <1>1, <2>1, <2>3, <3>2, <3>3
  <2>. QED BY <2>4, <2>5, <2>3 DEF avg256, m, q
<1>4. ASSUME NEW b \in 0..Side-1 PROVE avg256(0, b) = 0
  <2>1. 0 * b = 0 /\ 0 \div Side = 0
    BY <1>1
  <2>. QED BY <2>1 DEF avg256
<1>5. ASSUME NEW a \in 0..Side-1 PROVE a - avg256(a, Side-1) \in 0..1
  <2>. DEFINE m == a * (Side - 1)
  <2>1. m \in Int /\ m + a = Side * a + 0 /\ a \in 0..Side
    BY <1>1
  <2>2. (Side * a + 0) \div Side = a
    BY <1>1, RowAndColumn
  <2>3. (m + a) \div Side - m \div Side \in 0..1
    <3>. HIDE DEF m
    <3>. QED BY <1>1, <1>2, <2>1
  <2>. HIDE DEF m
  <2>4. a - m \div Side \in 0..1
    BY <2>1, <2>2, <2>3
  <2>. QED BY <2>4 DEF avg256, m
<1>6. ASSUME NEW a \in 0..Side-2, NEW b \in 0..Side-1 PROVE avg256(a + 1, b) - avg256(a, b) \in 0..1
  <2>1. a * b \in Int /\ (a + 1) * b = a * b + b /\ b \in 0..Side
    BY <1>1
  <2>. QED BY <1>2, <2>1 DEF avg256
<1>7. ASSUME NEW a \in 0..Side-1, NEW b \in 0..Side-2 PROVE avg256(a, b + 1) - avg256(a, b) \in 0..1
  <2>1. a * b \in Int /\ a * (b + 1) = a * b + a /\ a \in 0..Side
    BY <1>1
  <2>. QED BY <1>2, <2>1 DEF avg256
<1>. QED BY <1>1, <1>3, <1>4, <1>5, <1>6, <1>7

\* The four quarters of the picture.
LEMMA Quarters ==
    ASSUME NEW row \in 0..2*Side-1, NEW col \in 0..2*Side-1
    PROVE  /\ row < Side /\ col < Side =>
                Colour(row, col) = [b |-> 0, g |-> Side - 1 - col, r |-> Side - 1 - row]
           /\ row < Side /\ col >= Side =>
                Colour(row, col) = [b |-> col - Side, g |-> 0, r |-> Side - 1 - row]
           /\ row >= Side /\ col < Side =>
                Colour(row, col) = [b |-> row - Side, g |-> Side - 1 - col, r |-> 0]
           /\ row >= Side /\ col >= Side =>
                LET x == col - Side   y == row - Side
                IN Colour(row, col) = [b |-> y + avg256(x, Side - 1 - y),
                                       g |-> avg256(x, y), r |-> avg256(x, y)]
<1>1. Side \in Nat \ {0}
  BY VesaAssumption
<1>2. \A n \in 0..2*Side-1 : n % Side = IF n < Side THEN n ELSE n - Side
  <2>. TAKE n \in 0..2*Side-1
  <2>1. \A k \in 0..Side-1 : (Side * 0 + k) % Side = k /\ (Side * 1 + k) % Side = k
    BY <1>1, RowAndColumn
  <2>2. CASE n < Side
    BY <1>1, <2>1, <2>2
  <2>3. CASE n >= Side
    <3>1. n - Side \in 0..Side-1 /\ Side * 1 + (n - Side) = n
      BY <1>1, <2>3
    <3>2. (Side * 1 + (n - Side)) % Side = n - Side
      BY <2>1, <3>1
    <3>3. n % Side = n - Side
      BY <3>1, <3>2
    <3>. QED BY <1>1, <2>3, <3>3
  <2>. QED BY <1>1, <2>2, <2>3
<1>. DEFINE y == row % Side   x == col % Side   top == Side - 1
<1>3. y = (IF row < Side THEN row ELSE row - Side) /\ x = (IF col < Side THEN col ELSE col - Side)
  BY <1>2
<1>4. y \in 0..Side-1 /\ x \in 0..Side-1 /\ top - y \in 0..Side-1
  BY <1>1, <1>3
<1>. HIDE DEF x, y, top
<1>5. Colour(row, col) =
        CASE row < Side /\ col < Side   -> [b |-> 0, g |-> top - x, r |-> top - y]
          [] row < Side /\ col >= Side  -> [b |-> x, g |-> 0, r |-> top - y]
          [] row >= Side /\ col < Side  -> [b |-> y, g |-> top - x, r |-> 0]
          [] row >= Side /\ col >= Side -> [b |-> (y + avg256(x, top - y)) % Side,
                                            g |-> avg256(x, y), r |-> avg256(x, y)]
  BY DEF Colour, avg256, x, y, top
<1>6. (y + avg256(x, top - y)) % Side = y + avg256(x, top - y)
  <2>1. avg256(x, top - y) \in 0..(top - y)
    BY <1>4, Mixture
  <2>2. y + avg256(x, top - y) \in 0..Side-1
    BY <1>1, <1>4, <2>1 DEF top
  <2>. QED BY <1>1, <2>2
<1>7. CASE row < Side /\ col < Side
  BY <1>1, <1>3, <1>5, <1>7 DEF top
<1>8. CASE row < Side /\ col >= Side
  BY <1>1, <1>3, <1>5, <1>8 DEF top
<1>9. CASE row >= Side /\ col < Side
  BY <1>1, <1>3, <1>5, <1>9 DEF top
<1>10. CASE row >= Side /\ col >= Side
  BY <1>1, <1>3, <1>5, <1>6, <1>10 DEF top
<1>. QED BY <1>1, <1>7, <1>8, <1>9, <1>10

\* From a pixel to the one below and to the one on its right no component jumps,
\* neither in a quarter nor over its edge.
LEMMA NoJumps ==
    ASSUME NEW row \in 0..2*Side-1, NEW col \in 0..2*Side-1
    PROVE  /\ row < 2*Side-1 => Near(Colour(row, col), Colour(row + 1, col))
           /\ col < 2*Side-1 => Near(Colour(row, col), Colour(row, col + 1))
<1>. DEFINE x == col - Side
            y == row - Side
            top == Side - 1
<1>1. Side \in Nat \ {0} /\ row \in Nat /\ col \in Nat
  BY VesaAssumption
<1>2. \A r, c \in 0..2*Side-1 :
         /\ r < Side /\ c < Side => Colour(r, c) = [b |-> 0, g |-> Side - 1 - c, r |-> Side - 1 - r]
         /\ r < Side /\ c >= Side => Colour(r, c) = [b |-> c - Side, g |-> 0, r |-> Side - 1 - r]
         /\ r >= Side /\ c < Side => Colour(r, c) = [b |-> r - Side, g |-> Side - 1 - c, r |-> 0]
         /\ r >= Side /\ c >= Side =>
              Colour(r, c) = [b |-> (r - Side) + avg256(c - Side, Side - 1 - (r - Side)),
                              g |-> avg256(c - Side, r - Side), r |-> avg256(c - Side, r - Side)]
  BY Quarters
<1>3. \A a \in 0..Side-1 : avg256(a, 0) = 0 /\ avg256(0, a) = 0
  BY <1>1, Mixture
<1>4. ASSUME row < 2*Side-1 PROVE Near(Colour(row, col), Colour(row + 1, col))
  <2>1. row + 1 \in 0..2*Side-1
    BY <1>1, <1>4
  <2>2. CASE row + 1 < Side
    <3>1. CASE col < Side
      BY <1>1, <1>2, <2>1, <2>2, <3>1 DEF Near
    <3>2. CASE col >= Side
      BY <1>1, <1>2, <2>1, <2>2, <3>2 DEF Near
    <3>. QED BY <1>1, <3>1, <3>2
  <2>3. CASE row + 1 = Side
    <3>1. CASE col < Side
      BY <1>1, <1>2, <2>1, <2>3, <3>1 DEF Near
    <3>2. CASE col >= Side
      <4>1. x \in 0..Side-1 /\ x - avg256(x, top) \in 0..1 /\ avg256(x, 0) = 0 /\ avg256(x, top) \in Int
        BY <1>1, <1>3, <3>2, Mixture
      <4>2. Colour(row, col) = [b |-> x, g |-> 0, r |-> 0]
        BY <1>1, <1>2, <2>3, <3>2
      <4>3. Colour(row + 1, col) = [b |-> 0 + avg256(x, top - 0), g |-> avg256(x, 0), r |-> avg256(x, 0)]
        BY <1>1, <1>2, <2>1, <2>3, <3>2
      <4>4. top - 0 = top
        BY <1>1
      <4>. HIDE DEF x, top
      <4>. QED BY <4>1, <4>2, <4>3, <4>4 DEF Near
    <3>. QED BY <1>1, <3>1, <3>2
  <2>4. CASE row >= Side
    <3>1. CASE col < Side
      BY <1>1, <1>2, <2>1, <2>4, <3>1 DEF Near
    <3>2. CASE col >= Side
      <4>1. x \in 0..Side-1 /\ y \in 0..Side-2 /\ top - (y + 1) \in 0..Side-2 /\ top - (y + 1) + 1 = top - y
        BY <1>1, <1>4, <2>4, <3>2
      <4>2. /\ avg256(x, y + 1) - avg256(x, y) \in 0..1
            /\ avg256(x, top - (y + 1) + 1) - avg256(x, top - (y + 1)) \in 0..1
        BY <4>1, Mixture
      <4>3. /\ avg256(x, y) \in Int /\ avg256(x, y + 1) \in Int
            /\ avg256(x, top - y) \in Int /\ avg256(x, top - (y + 1)) \in Int
        <5>1. \A a, b \in 0..Side-1 : avg256(a, b) \in Int
          BY <1>1, Mixture
        <5>2. y \in 0..Side-1 /\ y + 1 \in 0..Side-1 /\ top - y \in 0..Side-1 /\ top - (y + 1) \in 0..Side-1
          BY <1>1, <4>1
        <5>. QED BY <4>1, <5>1, <5>2
      <4>4. Colour(row, col) = [b |-> y + avg256(x, top - y), g |-> avg256(x, y), r |-> avg256(x, y)]
        BY <1>2, <2>4, <3>2
      <4>5. Colour(row + 1, col) =
              [b |-> (y + 1) + avg256(x, top - (y + 1)), g |-> avg256(x, y + 1), r |-> avg256(x, y + 1)]
        <5>1. (row + 1) - Side = y + 1 /\ row + 1 >= Side
          BY <1>1, <2>4
        <5>. QED BY <1>2, <2>1, <3>2, <5>1
      <4>. HIDE DEF x, y, top
      <4>. QED BY <4>1, <4>2, <4>3, <4>4, <4>5 DEF Near
    <3>. QED BY <1>1, <3>1, <3>2
  <2>. QED BY <1>1, <2>2, <2>3, <2>4
<1>5. ASSUME col < 2*Side-1 PROVE Near(Colour(row, col), Colour(row, col + 1))
  <2>1. col + 1 \in 0..2*Side-1
    BY <1>1, <1>5
  <2>2. CASE row < Side
    <3>1. CASE col + 1 < Side
      BY <1>1, <1>2, <2>1, <2>2, <3>1 DEF Near
    <3>2. CASE col + 1 = Side
      BY SMTT(30), <1>1, <1>2, <2>1, <2>2, <3>2 DEF Near
    <3>3. CASE col >= Side
      BY <1>1, <1>2, <2>1, <2>2, <3>3 DEF Near
    <3>. QED BY <1>1, <3>1, <3>2, <3>3
  <2>3. CASE row >= Side
    <3>1. CASE col + 1 < Side
      BY <1>1, <1>2, <2>1, <2>3, <3>1 DEF Near
    <3>2. CASE col + 1 = Side
      <4>1. y \in 0..Side-1 /\ top - y \in 0..Side-1
        BY <1>1, <2>3
      <4>2. avg256(0, y) = 0 /\ avg256(0, top - y) = 0
        BY <1>3, <4>1
      <4>3. Colour(row, col) = [b |-> y, g |-> 0, r |-> 0]
        BY SMTT(30), <1>1, <1>2, <2>3, <3>2
      <4>4. (col + 1) - Side = 0 /\ col + 1 >= Side
        BY <1>1, <3>2
      <4>5. Colour(row, col + 1) = [b |-> y + avg256(0, top - y), g |-> avg256(0, y), r |-> avg256(0, y)]
        BY <1>2, <2>1, <2>3, <4>4
      <4>. HIDE DEF y, top
      <4>. QED BY <1>1, <4>1, <4>2, <4>3, <4>5 DEF Near
    <3>3. CASE col >= Side
      <4>1. x \in 0..Side-2 /\ y \in 0..Side-1 /\ top - y \in 0..Side-1
        BY <1>1, <1>5, <2>3, <3>3
      <4>2. /\ avg256(x + 1, y) - avg256(x, y) \in 0..1
            /\ avg256(x + 1, top - y) - avg256(x, top - y) \in 0..1
        BY <4>1, Mixture
      <4>3. /\ avg256(x, y) \in Int /\ avg256(x + 1, y) \in Int
            /\ avg256(x, top - y) \in Int /\ avg256(x + 1, top - y) \in Int
        <5>1. \A a, b \in 0..Side-1 : avg256(a, b) \in Int
          BY <1>1, Mixture
        <5>2. x \in 0..Side-1 /\ x + 1 \in 0..Side-1
          BY <1>1, <4>1
        <5>. QED BY <4>1, <5>1, <5>2
      <4>4. Colour(row, col) = [b |-> y + avg256(x, top - y), g |-> avg256(x, y), r |-> avg256(x, y)]
        BY <1>2, <2>3, <3>3
      <4>5. Colour(row, col + 1) =
              [b |-> y + avg256(x + 1, top - y), g |-> avg256(x + 1, y), r |-> avg256(x + 1, y)]
        <5>1. (col + 1) - Side = x + 1 /\ col + 1 >= Side
          BY <1>1, <3>3
        <5>. QED BY <1>2, <2>1, <2>3, <5>1
      <4>. HIDE DEF x, y, top
      <4>. QED BY <1>1, <4>1, <4>2, <4>3, <4>4, <4>5 DEF Near
    <3>. QED BY <1>1, <3>1, <3>2, <3>3
  <2>. QED BY <1>1, <2>2, <2>3
<1>. QED BY <1>4, <1>5

\* What the comment of the drawing says of the corners and the centre.
LEMMA Corners ==
    LET top == Side - 1   end == 2 * Side - 1
    IN  /\ Colour(0, 0) = [b |-> 0, g |-> top, r |-> top]
        /\ Colour(0, top) = [b |-> 0, g |-> 0, r |-> top]
        /\ Colour(0, end) = [b |-> top, g |-> 0, r |-> top]
        /\ Colour(top, 0) = [b |-> 0, g |-> top, r |-> 0]
        /\ Colour(top, top) = [b |-> 0, g |-> 0, r |-> 0]
        /\ Colour(top, end) = [b |-> top, g |-> 0, r |-> 0]
        /\ Colour(end, 0) = [b |-> top, g |-> top, r |-> 0]
        /\ Colour(end, top) = [b |-> top, g |-> 0, r |-> 0]
        /\ Near(Colour(end, end), [b |-> top, g |-> top, r |-> top])
<1>. DEFINE top == Side - 1
            end == 2 * Side - 1
<1>1. Side \in Nat \ {0}
  BY VesaAssumption
<1>2. \A r, c \in 0..2*Side-1 :
         /\ r < Side /\ c < Side => Colour(r, c) = [b |-> 0, g |-> Side - 1 - c, r |-> Side - 1 - r]
         /\ r < Side /\ c >= Side => Colour(r, c) = [b |-> c - Side, g |-> 0, r |-> Side - 1 - r]
         /\ r >= Side /\ c < Side => Colour(r, c) = [b |-> r - Side, g |-> Side - 1 - c, r |-> 0]
         /\ r >= Side /\ c >= Side =>
              Colour(r, c) = [b |-> (r - Side) + avg256(c - Side, Side - 1 - (r - Side)),
                              g |-> avg256(c - Side, r - Side), r |-> avg256(c - Side, r - Side)]
  BY Quarters
<1>3. /\ 0 \in 0..2*Side-1 /\ top \in 0..2*Side-1 /\ end \in 0..2*Side-1
      /\ 0 < Side /\ top < Side /\ end >= Side /\ end - Side = top /\ Side - 1 - top = 0 /\ Side - 1 - 0 = top
      /\ top \in 0..Side-1 /\ 0 \in 0..Side-1
  BY <1>1
<1>4. /\ avg256(top, 0) = 0 /\ avg256(top, top) \in Int /\ top - avg256(top, top) \in 0..1
  BY <1>1, <1>3, Mixture
<1>5. Colour(end, end) = [b |-> top + avg256(top, 0), g |-> avg256(top, top), r |-> avg256(top, top)]
  <2>1. Colour(end, end) = [b |-> (end - Side) + avg256(end - Side, Side - 1 - (end - Side)),
                            g |-> avg256(end - Side, end - Side), r |-> avg256(end - Side, end - Side)]
    BY <1>2, <1>3
  <2>2. Side - 1 - (end - Side) = 0
    BY <1>1
  <2>. HIDE DEF end, top
  <2>. QED BY <1>3, <2>1, <2>2
<1>6. Near(Colour(end, end), [b |-> top, g |-> top, r |-> top])
  <2>. HIDE DEF end, top
  <2>. QED BY <1>1, <1>3, <1>4, <1>5 DEF Near
<1>. HIDE DEF end, top
<1>7. /\ Colour(0, 0) = [b |-> 0, g |-> top, r |-> top]
      /\ Colour(0, top) = [b |-> 0, g |-> 0, r |-> top]
      /\ Colour(0, end) = [b |-> top, g |-> 0, r |-> top]
      /\ Colour(top, 0) = [b |-> 0, g |-> top, r |-> 0]
      /\ Colour(top, top) = [b |-> 0, g |-> 0, r |-> 0]
      /\ Colour(top, end) = [b |-> top, g |-> 0, r |-> 0]
      /\ Colour(end, 0) = [b |-> top, g |-> top, r |-> 0]
      /\ Colour(end, top) = [b |-> top, g |-> 0, r |-> 0]
  BY <1>2, <1>3
<1>. QED BY <1>6, <1>7 DEF end, top

-----------------------------------------------------------------------------
USE DEF vars

\* What may lie in the block, and what a list is.
LEMMA BlocksAndLists ==
    ASSUME TypeOK
    PROVE  /\ block \in ModeInfo
           /\ list \in Seq(Modes) /\ Len(list) \in Nat /\ DOMAIN list = 1..Len(list)
           /\ \A k \in 1..Len(list) : list[k] \in Modes /\ Info[list[k]] \in ModeInfo
           /\ \A j, k \in 1..Len(list) : list[j] = list[k] => j = k
<1>1. list \in Seq(Modes) /\ IsInjective(list)
  BY VesaAssumption DEF TypeOK
<1>2. Len(list) \in Nat /\ DOMAIN list = 1..Len(list) /\ \A k \in 1..Len(list) : list[k] \in Modes
  BY <1>1
<1>3. \A m \in Modes : Info[m] \in ModeInfo
  BY VesaAssumption
<1>4. Range(Info) \subseteq ModeInfo
  BY VesaAssumption DEF Range
<1>. QED BY <1>1, <1>2, <1>3, <1>4, VesaAssumption DEF TypeOK, IsInjective

LEMMA InitInv == Init => VesaInv
<1>. SUFFICES ASSUME Init PROVE VesaInv
  OBVIOUS
<1>1. TypeOK
  <2>1. list \in Seq(Modes)
    BY VesaAssumption DEF Init
  <2>2. display \in [bValid : BOOLEAN, pBuffer : Nat, width : Nat, height : Nat]
    BY DEF Init, NoBuffer
  <2>3. iMode \in 1..Len(list) + 1
    BY <2>1 DEF Init
  <2>4. iy \in 0..Side
    BY VesaAssumption DEF Init
  <2>. QED BY <2>1, <2>2, <2>3, <2>4 DEF Init, TypeOK
<1>2. PlaceInv
  BY DEF Init, PlaceInv
<1>3. WalkInv
  BY DEF Init, WalkInv, Chosen, Asked
<1>4. DescribesItsMode /\ FrameInv
  BY DEF Init, DescribesItsMode, FrameInv, StaysInFrame
<1>5. PaintInv
  <2>1. Drawn(0) = {}
    BY VesaAssumption DEF Drawn
  <2>. QED BY <2>1 DEF Init, PaintInv
<1>. QED BY <1>1, <1>2, <1>3, <1>4, <1>5 DEF VesaInv

\* Every step keeps the types; JudgeMode needs to know that it has an entry, and
\* DrawRow that the width it divides by is not 0.
LEMMA TypeStep == TypeOK /\ PlaceInv /\ FrameInv /\ [Next]_vars => TypeOK'
<1>. SUFFICES ASSUME TypeOK, PlaceInv, FrameInv, [Next]_vars PROVE TypeOK'
  OBVIOUS
<1>1. CASE GetControllerInfo \/ EndOfList \/ DrawEnds \/ Done \/ UNCHANGED vars
  BY <1>1 DEF TypeOK, GetControllerInfo, EndOfList, DrawEnds, Done
<1>2. CASE GetModeInfo
  <2>1. block' \in Leftovers \cup Range(Info) /\ answered' \subseteq Modes
    BY <1>2, BlocksAndLists, VesaAssumption DEF TypeOK, GetModeInfo, Range
  <2>. QED BY <1>2, <2>1 DEF TypeOK, GetModeInfo
<1>3. CASE JudgeMode
  <2>1. iMode \in 1..Len(list) /\ list[iMode] \in Modes
    BY <1>3, BlocksAndLists DEF JudgeMode, PlaceInv
  <2>2. iMode' \in 1..Len(list) + 1
    BY <1>3, <2>1, BlocksAndLists DEF JudgeMode
  <2>3. BufferOf(block) \in [bValid : BOOLEAN, pBuffer : Nat, width : Nat, height : Nat]
    BY BlocksAndLists DEF BufferOf, ModeInfo
  <2>. QED BY <1>3, <2>1, <2>2, <2>3 DEF TypeOK, JudgeMode
<1>4. CASE SetMode
  BY <1>4 DEF TypeOK, PlaceInv, SetMode
<1>5. CASE DrawRow
  <2>. DEFINE row == {display.width * r + c : r \in {iy, iy + Side}, c \in 0..2*Side-1}
  <2>1. row \subseteq Int
    BY SMTT(30), VesaAssumption DEF TypeOK
  <2>2. \A o \in row : Colour(o \div display.width, o % display.width)
                           \in [b : 0..Side-1, g : 0..Side-1, r : 0..Side-1]
    <3>1. display.width \in Nat \ {0}
      BY <1>5, VesaAssumption DEF TypeOK, PlaceInv, FrameInv, DrawRow
    <3>2. \A o \in row : o \div display.width \in Int /\ o % display.width \in Int
      <4>1. \A w \in Nat \ {0}, o \in Int : o \div w \in Int /\ o % w \in Int
        OBVIOUS
      <4>. HIDE DEF row
      <4>. QED BY <2>1, <3>1, <4>1
    <3>. HIDE DEF row
    <3>. QED BY <3>2, ColourIsBytes
  <2>3. \A o \in DOMAIN painted' : painted'[o] \in [b : 0..Side-1, g : 0..Side-1, r : 0..Side-1]
    BY <1>5, <2>2 DEF TypeOK, DrawRow
  <2>4. iy' \in 0..Side
    BY <1>5, VesaAssumption DEF TypeOK, DrawRow
  <2>. QED BY <1>5, <2>3, <2>4 DEF TypeOK, DrawRow
<1>. QED BY <1>1, <1>2, <1>3, <1>4, <1>5 DEF Next

LEMMA PlaceStep == TypeOK /\ PlaceInv /\ [Next]_vars => PlaceInv'
<1>. SUFFICES ASSUME TypeOK, PlaceInv, [Next]_vars PROVE PlaceInv'
  OBVIOUS
<1>1. CASE GetControllerInfo \/ GetModeInfo \/ JudgeMode \/ SetMode \/ DrawRow \/ DrawEnds
             \/ Done \/ UNCHANGED vars
  BY <1>1 DEF PlaceInv, GetControllerInfo, GetModeInfo, JudgeMode, SetMode, DrawRow, DrawEnds, Done
<1>2. CASE EndOfList
  <2>1. iMode = Len(list) + 1
    BY <1>2, BlocksAndLists DEF EndOfList, TypeOK
  <2>. QED BY <1>2, <2>1 DEF PlaceInv, EndOfList
<1>. QED BY <1>1, <1>2 DEF Next

\* The walk: a step of the list asks for a mode it has not asked for before, and what
\* JudgeMode keeps is described by the block, which is that of the entry if its
\* information arrived.
LEMMA WalkStep == TypeOK /\ PlaceInv /\ WalkInv /\ [Next]_vars => WalkInv'
<1>. SUFFICES ASSUME TypeOK, PlaceInv, WalkInv, [Next]_vars PROVE WalkInv'
  OBVIOUS
<1>1. CASE GetControllerInfo \/ EndOfList \/ SetMode \/ DrawRow \/ DrawEnds \/ Done \/ UNCHANGED vars
  <2>1. \/ UNCHANGED <<list, iMode, block, modeSelected, answered>> /\ pc # "judge" /\ pc' # "judge"
        \/ UNCHANGED vars
    BY <1>1 DEF GetControllerInfo, EndOfList, SetMode, DrawRow, DrawEnds, Done
  <2>. QED BY <2>1 DEF WalkInv, Chosen, Asked
<1>2. CASE GetModeInfo
  <2>1. /\ pc = "walk" /\ pc' = "judge" /\ iMode \in 1..Len(list)
        /\ UNCHANGED <<list, iMode, modeSelected>>
        /\ answered \subseteq answered' /\ answered' \subseteq answered \cup {list[iMode]}
    BY <1>2, BlocksAndLists DEF GetModeInfo
  <2>2. \A k \in 1..iMode-1 : list[k] # list[iMode]
    BY <2>1, BlocksAndLists
  <2>3. list[iMode] \notin answered
    BY <2>1, <2>2 DEF WalkInv, Asked
  <2>4. list[iMode] \in answered' => block' = Info[list[iMode]]
    BY <1>2, <2>3 DEF GetModeInfo
  <2>5. answered' \subseteq {list[k] : k \in Asked'}
    <3>1. answered \subseteq {list[k] : k \in 1..iMode-1}
      BY <2>1 DEF WalkInv, Asked
    <3>2. Asked' = 1..iMode
      BY <2>1 DEF Asked
    <3>. QED BY <2>1, <3>1, <3>2
  <2>6. (\A k \in 1..iMode-1 : list[k] \in answered') => Chosen(iMode - 1)
    BY <2>1, <2>2 DEF WalkInv
  <2>7. Chosen(iMode - 1) => (Chosen(iMode - 1))'
    BY <2>1 DEF Chosen
  <2>. QED BY <2>1, <2>4, <2>5, <2>6, <2>7 DEF WalkInv
<1>3. CASE JudgeMode
  <2>1. /\ pc = "judge" /\ pc' = "walk" /\ iMode \in Nat /\ iMode \in 1..Len(list)
        /\ iMode' = iMode + 1 /\ UNCHANGED <<list, answered>>
    BY <1>3, BlocksAndLists DEF JudgeMode, PlaceInv
  <2>2. IF Suitable(block) THEN modeSelected' = list[iMode] ELSE modeSelected' = modeSelected
    BY <1>3 DEF JudgeMode
  <2>3. modeSelected' # None => \E k \in 1..iMode : modeSelected' = list[k]
    BY <2>1, <2>2 DEF WalkInv
  <2>4. answered \subseteq {list[k] : k \in 1..iMode} /\ Asked' = 1..iMode
    BY <2>1 DEF WalkInv, Asked
  <2>5. ASSUME \A k \in 1..iMode : list[k] \in answered
        PROVE  Chosen(iMode - 1)'
    <3>1. Chosen(iMode - 1) /\ block = Info[list[iMode]]
      BY <2>1, <2>5 DEF WalkInv
    <3>. DEFINE before == {k \in 1..iMode-1 : Suitable(Info[list[k]])}
                fit    == {k \in 1..iMode : Suitable(Info[list[k]])}
    <3>2. IF Suitable(block) THEN fit = before \cup {iMode} ELSE fit = before
      BY <2>1, <3>1
    <3>3. IF before = {} THEN modeSelected = None
          ELSE \E k \in before : modeSelected = list[k] /\ \A j \in before : j <= k
      BY <3>1 DEF Chosen
    <3>4. \A j \in fit : j <= iMode
      BY <2>1
    <3>5. IF fit = {} THEN modeSelected' = None
          ELSE \E k \in fit : modeSelected' = list[k] /\ \A j \in fit : j <= k
      <4>. HIDE DEF before, fit
      <4>1. CASE Suitable(block)
        BY <2>2, <3>2, <3>4, <4>1
      <4>2. CASE ~Suitable(block)
        BY <2>2, <3>2, <3>3, <4>2
      <4>. QED BY <4>1, <4>2
    <3>6. {k \in 1..iMode' - 1 : Suitable(Info[list'[k]])} = fit
      BY <2>1
    <3>7. iMode' - 1 = iMode
      BY <2>1
    <3>. HIDE DEF before, fit
    <3>. QED BY <2>1, <3>5, <3>6, <3>7 DEF Chosen
  <2>. QED BY <2>1, <2>3, <2>4, <2>5 DEF WalkInv
<1>. QED BY <1>1, <1>2, <1>3 DEF Next

\* A mode that was answered is described by its own block: a later entry that is kept
\* replaces mode and display together, and asking for another mode's information
\* does not make the one kept an answered one.
LEMMA DescribesStep ==
    TypeOK /\ PlaceInv /\ WalkInv /\ DescribesItsMode /\ [Next]_vars => DescribesItsMode'
<1>. SUFFICES ASSUME TypeOK, PlaceInv, WalkInv, DescribesItsMode, [Next]_vars
              PROVE  DescribesItsMode'
  OBVIOUS
<1>1. CASE GetControllerInfo \/ EndOfList \/ DrawRow \/ DrawEnds \/ Done \/ UNCHANGED vars
  <2>1. UNCHANGED <<modeSelected, answered, display>>
    BY <1>1 DEF GetControllerInfo, EndOfList, DrawRow, DrawEnds, Done
  <2>. QED BY <2>1 DEF DescribesItsMode
<1>2. CASE GetModeInfo
  <2>1. /\ iMode \in 1..Len(list) /\ UNCHANGED <<modeSelected, display>>
        /\ answered' \subseteq answered \cup {list[iMode]}
    BY <1>2, BlocksAndLists DEF GetModeInfo
  <2>2. modeSelected # list[iMode]
    <3>1. CASE modeSelected = None
      BY <2>1, <3>1, BlocksAndLists, VesaAssumption
    <3>2. CASE modeSelected # None
      <4>1. PICK k \in 1..iMode-1 : modeSelected = list[k]
        BY <3>2 DEF WalkInv
      <4>. QED BY <2>1, <4>1, BlocksAndLists
    <3>. QED BY <3>1, <3>2
  <2>. QED BY <2>1, <2>2 DEF DescribesItsMode
<1>3. CASE JudgeMode
  <2>1. pc = "judge" /\ answered' = answered
    BY <1>3 DEF JudgeMode
  <2>2. CASE Suitable(block)
    <3>1. modeSelected' = list[iMode] /\ display' = BufferOf(block)
      BY <1>3, <2>2 DEF JudgeMode
    <3>2. list[iMode] \in answered => block = Info[list[iMode]]
      BY <2>1 DEF WalkInv
    <3>3. BufferOf(block) = [BufferOf(block) EXCEPT !.bValid = BufferOf(block).bValid]
      BY DEF BufferOf
    <3>. QED BY <2>1, <2>2, <3>1, <3>2, <3>3 DEF DescribesItsMode
  <2>3. CASE ~Suitable(block)
    BY <1>3, <2>1, <2>3 DEF JudgeMode, DescribesItsMode
  <2>. QED BY <2>2, <2>3
<1>4. CASE SetMode
  <2>1. /\ UNCHANGED <<modeSelected, answered>>
        /\ display' = [display EXCEPT !.bValid = TRUE]
    BY <1>4 DEF SetMode
  <2>. QED BY <2>1 DEF DescribesItsMode, TypeOK, BufferOf
<1>. QED BY <1>1, <1>2, <1>3, <1>4 DEF Next

\* The pixels of a row are those of a display high and wide enough for the picture.
LEMMA FrameStep == TypeOK /\ PlaceInv /\ FrameInv /\ [Next]_vars => FrameInv'
<1>. SUFFICES ASSUME TypeOK, PlaceInv, FrameInv, [Next]_vars PROVE FrameInv'
  OBVIOUS
<1>1. CASE GetControllerInfo \/ GetModeInfo \/ EndOfList \/ DrawEnds \/ Done \/ UNCHANGED vars
  <2>1. /\ UNCHANGED <<modeSelected, display, painted>>
        /\ pc' \in {"info", "walk", "judge", "set"} => pc \in {"info", "walk", "judge", "set"}
    BY <1>1 DEF GetControllerInfo, GetModeInfo, EndOfList, DrawEnds, Done
  <2>. QED BY <2>1 DEF FrameInv, StaysInFrame
<1>2. CASE JudgeMode
  <2>1. pc = "judge" /\ painted' = painted
    BY <1>2 DEF JudgeMode
  <2>2. modeSelected' # None => display'.width \in MinX..MaxX /\ display'.height \in MinY..MaxY
    BY <1>2 DEF JudgeMode, FrameInv, Suitable, BufferOf
  <2>. QED BY <2>1, <2>2 DEF FrameInv, StaysInFrame
<1>3. CASE SetMode
  <2>1. /\ pc = "set" /\ pc' = "draw" /\ UNCHANGED <<modeSelected, painted>>
        /\ display'.width = display.width /\ display'.height = display.height
    BY <1>3 DEF SetMode, TypeOK
  <2>. QED BY <2>1 DEF FrameInv, StaysInFrame
<1>4. CASE DrawRow
  <2>1. /\ pc = "draw" /\ iy \in 0..Side-1 /\ modeSelected # None
        /\ UNCHANGED <<pc, modeSelected, display>>
    <3>1. /\ pc = "draw" /\ iy < Side
          /\ pc' = pc /\ modeSelected' = modeSelected /\ display' = display
      BY <1>4 DEF DrawRow
    <3>2. iy \in 0..Side /\ Side \in Nat
      BY VesaAssumption DEF TypeOK
    <3>3. modeSelected # None
      BY <3>1 DEF PlaceInv
    <3>. QED BY <3>1, <3>2, <3>3
  <2>2. /\ display.width \in Nat /\ display.width >= 2 * Side
        /\ display.height \in Nat /\ display.height >= 2 * Side /\ Side \in Nat \ {0}
    BY <2>1, VesaAssumption DEF FrameInv
  <2>. DEFINE row == {display.width * r + c : r \in {iy, iy + Side}, c \in 0..2*Side-1}
  <2>3. row \subseteq 0..(display.width * display.height - 1)
    <3>1. SUFFICES ASSUME NEW r \in {iy, iy + Side}, NEW c \in 0..2*Side-1
                   PROVE  display.width * r + c \in 0..(display.width * display.height - 1)
      OBVIOUS
    <3>2. r \in 0..display.height-1 /\ c \in 0..display.width-1
      BY <2>1, <2>2
    <3>. QED BY <2>2, <3>2, PixelInFrame
  <2>4. DOMAIN painted' = row \cup DOMAIN painted
    BY <1>4 DEF DrawRow
  <2>. HIDE DEF row
  <2>5. StaysInFrame'
    BY <2>1, <2>3, <2>4 DEF FrameInv, StaysInFrame
  <2>. QED BY <2>1, <2>5 DEF FrameInv
<1>. QED BY <1>1, <1>2, <1>3, <1>4 DEF Next

\* Two rows more: a pixel's place tells its row and column.
LEMMA PaintStep == TypeOK /\ PlaceInv /\ FrameInv /\ PaintInv /\ [Next]_vars => PaintInv'
<1>. SUFFICES ASSUME TypeOK, PlaceInv, FrameInv, PaintInv, [Next]_vars PROVE PaintInv'
  OBVIOUS
<1>1. Side \in Nat \ {0} /\ Drawn(0) = {}
  BY VesaAssumption DEF Drawn
<1>2. CASE GetControllerInfo \/ GetModeInfo \/ EndOfList \/ DrawEnds \/ Done \/ UNCHANGED vars
  <2>1. /\ UNCHANGED <<display, painted, iy, card, modeSelected>>
        /\ pc' \in {"info", "walk", "judge", "set"} => pc \in {"info", "walk", "judge", "set"}
        /\ pc \in {"draw", "done"} => pc' \in {"draw", "done"}
        /\ pc' = "done" /\ card # Text => iy = Side
    BY <1>2 DEF GetControllerInfo, GetModeInfo, EndOfList, DrawEnds, Done, PaintInv
  <2>. QED BY <2>1 DEF PaintInv, Drawn
<1>3. CASE JudgeMode
  <2>1. pc = "judge" /\ pc' = "walk" /\ iy' = 0 /\ card' = Text
    BY <1>3 DEF JudgeMode, PaintInv
  <2>. QED BY <1>1, <2>1 DEF PaintInv, Drawn
<1>4. CASE SetMode
  <2>1. pc' = "draw" /\ iy' = 0 /\ card' \in {Text, modeSelected} /\ modeSelected' = modeSelected
    BY <1>4 DEF SetMode, PaintInv
  <2>. QED BY <1>1, <2>1 DEF PaintInv, Drawn
<1>5. CASE DrawRow
  <2>. DEFINE w == display.width
              pixels == {w * r + c : r \in {iy, iy + Side}, c \in 0..2*Side-1}
  <2>1. /\ pc = "draw" /\ iy \in 0..Side-1 /\ iy' = iy + 1 /\ modeSelected # None
        /\ pc' = pc /\ modeSelected' = modeSelected /\ display' = display /\ card' = card
    BY <1>1, <1>5 DEF DrawRow, TypeOK, PlaceInv
  <2>2. w \in Nat \ {0} /\ w >= 2 * Side
    BY <1>1, <2>1, VesaAssumption DEF FrameInv
  <2>3. painted' = [o \in pixels \cup DOMAIN painted |->
                       IF o \in pixels THEN Colour(o \div w, o % w) ELSE painted[o]]
    BY <1>5 DEF DrawRow
  <2>4. \A row \in Drawn(iy'), col \in 0..2*Side-1 : w * row + col \in pixels \/ row \in Drawn(iy)
    <3>1. SUFFICES ASSUME NEW row \in Drawn(iy'), NEW col \in 0..2*Side-1, row \notin Drawn(iy)
                   PROVE  row \in {iy, iy + Side}
      BY DEF Drawn
    <3>. QED BY <1>1, <2>1, <3>1 DEF Drawn
  <2>5. \A row \in Nat, col \in 0..2*Side-1 : (w * row + col) \div w = row /\ (w * row + col) % w = col
    <3>1. \A row \in Nat, col \in 0..w-1 : (w * row + col) \div w = row /\ (w * row + col) % w = col
      BY <2>2, RowAndColumn
    <3>2. 0..2*Side-1 \subseteq 0..w-1
      BY <1>1, <2>2
    <3>. QED BY <3>1, <3>2
  <2>6. Drawn(iy') \subseteq Nat
    BY <1>1, <2>1 DEF Drawn
  <2>7. \A row \in Drawn(iy), col \in 0..2*Side-1 :
           w * row + col \in DOMAIN painted /\ painted[w * row + col] = Colour(row, col)
    BY DEF PaintInv
  <2>. HIDE DEF pixels, w
  <2>8. \A row \in Drawn(iy'), col \in 0..2*Side-1 :
           w * row + col \in DOMAIN painted' /\ painted'[w * row + col] = Colour(row, col)
    <3>. TAKE row \in Drawn(iy'), col \in 0..2*Side-1
    <3>. DEFINE o == w * row + col
    <3>1. o \div w = row /\ o % w = col
      BY <2>5, <2>6
    <3>2. o \in pixels \/ (o \in DOMAIN painted /\ painted[o] = Colour(row, col))
      BY <2>4, <2>7
    <3>. HIDE DEF o
    <3>3. o \in DOMAIN painted' /\ painted'[o] = Colour(row, col)
      BY <2>3, <3>1, <3>2
    <3>. QED BY <3>3 DEF o
  <2>9. Drawn(iy') = Drawn(iy)' /\ display.width' = w
    BY <2>1 DEF Drawn, w
  <2>. QED BY <2>1, <2>8, <2>9 DEF PaintInv, w
<1>. QED BY <1>2, <1>3, <1>4, <1>5 DEF Next

-----------------------------------------------------------------------------
(* Theorems *)

LEMMA VesaInvariant == Spec => []VesaInv
<1>1. VesaInv /\ [Next]_vars => VesaInv'
  BY TypeStep, PlaceStep, WalkStep, DescribesStep, FrameStep, PaintStep DEF VesaInv
<1>. QED BY <1>1, InitInv, PTL DEF Spec

\* Every variable keeps its type; no component of a pixel leaves its byte.
THEOREM VesaTypeCorrect == Spec => []TypeOK
<1>1. VesaInv => TypeOK
  BY DEF VesaInv
<1>. QED BY <1>1, VesaInvariant, PTL

\* Buffer, size and mode belong together, whatever calls of the BIOS fail
\* (vkern.cpp:726-735).
THEOREM DisplayDescribesItsMode == Spec => []DescribesItsMode
<1>1. VesaInv => DescribesItsMode
  BY DEF VesaInv
<1>. QED BY <1>1, VesaInvariant, PTL

\* No pixel is written outside the display's buffer, for every size of picture and
\* range of frames in which it fits (vkern.cpp:866-898).
THEOREM DrawingStaysInFrame == Spec => []StaysInFrame
<1>1. VesaInv => StaysInFrame
  BY DEF VesaInv, FrameInv
<1>. QED BY <1>1, VesaInvariant, PTL

\* If the BIOS described every mode, the last that will do is the one kept
\* (vkern.cpp:697-749).
THEOREM LastSuitableIsChosen == Spec => []ChoosesTheLastSuitable
<1>1. VesaInv => ChoosesTheLastSuitable
  <2>. SUFFICES ASSUME VesaInv, pc \in {"set", "draw", "done"}, answered = Range(list)
                PROVE  LET fit == {k \in DOMAIN list : Suitable(Info[list[k]])}
                       IN IF fit = {} THEN modeSelected = None
                          ELSE \E k \in fit : modeSelected = list[k] /\ \A j \in fit : j <= k
    <3>. SUFFICES ASSUME VesaInv
                  PROVE  {k \in DOMAIN list : /\ Info[list[k]].linear
                                              /\ Info[list[k]].bitsPerPixel = 32
                                              /\ MinX <= Info[list[k]].resolutionX
                                              /\ Info[list[k]].resolutionX <= MaxX
                                              /\ MinY <= Info[list[k]].resolutionY
                                              /\ Info[list[k]].resolutionY <= MaxY}
                         = {k \in DOMAIN list : Suitable(Info[list[k]])}
      BY DEF ChoosesTheLastSuitable
    <3>1. \A k \in DOMAIN list : Info[list[k]] \in ModeInfo
      BY BlocksAndLists DEF VesaInv
    <3>2. \A mi \in ModeInfo : mi.resolutionX \in Nat /\ mi.resolutionY \in Nat
      BY DEF ModeInfo
    <3>3. MinX \in Nat /\ MaxX \in Nat /\ MinY \in Nat /\ MaxY \in Nat
      BY VesaAssumption
    <3>4. ASSUME NEW k \in DOMAIN list
          PROVE  Suitable(Info[list[k]]) <=> /\ Info[list[k]].linear
                                             /\ Info[list[k]].bitsPerPixel = 32
                                             /\ MinX <= Info[list[k]].resolutionX
                                             /\ Info[list[k]].resolutionX <= MaxX
                                             /\ MinY <= Info[list[k]].resolutionY
                                             /\ Info[list[k]].resolutionY <= MaxY
      BY <3>1, <3>2, <3>3, <3>4 DEF Suitable
    <3>. QED BY <3>4
  <2>1. DOMAIN list = 1..Len(list) /\ Len(list) \in Nat
    BY BlocksAndLists DEF VesaInv
  <2>2. \A k \in 1..Len(list) : list[k] \in answered
    BY <2>1 DEF Range
  <2>3. CASE iMode = Len(list) + 1
    <3>1. Chosen(Len(list))
      BY <2>1, <2>2, <2>3 DEF VesaInv, WalkInv
    <3>. QED BY <2>1, <3>1 DEF Chosen
  <2>4. CASE iMode = 1 /\ modeSelected = None /\ answered = {}
    BY <2>1, <2>2, <2>4
  <2>. QED BY <2>3, <2>4 DEF VesaInv, PlaceInv
<1>. QED BY <1>1, VesaInvariant, PTL

\* The picture of the comment at vkern.cpp:838 appears, whatever the size of a byte: its
\* corners, and no jump from a pixel to the next, on a mode that was described and set
\* and whose lines are not padded.
THEOREM PictureAppears == Spec => []PictureAsDrawn
<1>1. VesaInv => PictureAsDrawn
  <2>. DEFINE top == Side - 1
              end == 2 * Side - 1
  <2>. SUFFICES ASSUME VesaInv, pc = "done", card # Text, card \in answered,
                       Info[card].pitch = Info[card].resolutionX
                PROVE  /\ OnScreen(0, 0) = [b |-> 0, g |-> top, r |-> top]
                       /\ OnScreen(0, top) = [b |-> 0, g |-> 0, r |-> top]
                       /\ OnScreen(0, end) = [b |-> top, g |-> 0, r |-> top]
                       /\ OnScreen(top, 0) = [b |-> 0, g |-> top, r |-> 0]
                       /\ OnScreen(top, top) = [b |-> 0, g |-> 0, r |-> 0]
                       /\ OnScreen(top, end) = [b |-> top, g |-> 0, r |-> 0]
                       /\ OnScreen(end, 0) = [b |-> top, g |-> top, r |-> 0]
                       /\ OnScreen(end, top) = [b |-> top, g |-> 0, r |-> 0]
                       /\ Near(OnScreen(end, end), [b |-> top, g |-> top, r |-> top])
                       /\ \A row \in 0..end, col \in 0..end :
                             /\ row < end => Near(OnScreen(row, col), OnScreen(row + 1, col))
                             /\ col < end => Near(OnScreen(row, col), OnScreen(row, col + 1))
    BY DEF PictureAsDrawn
  <2>1. Side \in Nat \ {0}
    BY VesaAssumption
  <2>2. card = modeSelected /\ iy = Side
    BY DEF VesaInv, PaintInv
  <2>3. display.width = Info[card].pitch /\ display.width \in Nat
    BY <2>2 DEF VesaInv, DescribesItsMode, BufferOf, TypeOK
  <2>4. \A row, col \in 0..end : OnScreen(row, col) = Colour(row, col)
    <3>. TAKE row, col \in 0..end
    <3>1. row \in Drawn(Side) /\ col \in 0..2*Side-1
      BY <2>1 DEF Drawn
    <3>2. painted[display.width * row + col] = Colour(row, col)
      BY <2>2, <3>1 DEF VesaInv, PaintInv
    <3>3. display.width * row + col = row * Info[card].pitch + col
      BY <2>1, <2>3
    <3>. QED BY <3>2, <3>3 DEF OnScreen
  <2>5. 0 \in 0..end /\ top \in 0..end /\ end \in 0..end
    BY <2>1
  <2>6. ASSUME NEW row \in 0..end, NEW col \in 0..end
        PROVE  /\ row < end => Near(OnScreen(row, col), OnScreen(row + 1, col))
               /\ col < end => Near(OnScreen(row, col), OnScreen(row, col + 1))
    <3>1. (row < end => row + 1 \in 0..end) /\ (col < end => col + 1 \in 0..end)
      BY <2>1
    <3>2. /\ row < end => Near(Colour(row, col), Colour(row + 1, col))
          /\ col < end => Near(Colour(row, col), Colour(row, col + 1))
      BY NoJumps
    <3>. HIDE DEF end
    <3>. QED BY <2>4, <3>1, <3>2
  <2>7. /\ Colour(0, 0) = [b |-> 0, g |-> top, r |-> top]
        /\ Colour(0, top) = [b |-> 0, g |-> 0, r |-> top]
        /\ Colour(0, end) = [b |-> top, g |-> 0, r |-> top]
        /\ Colour(top, 0) = [b |-> 0, g |-> top, r |-> 0]
        /\ Colour(top, top) = [b |-> 0, g |-> 0, r |-> 0]
        /\ Colour(top, end) = [b |-> top, g |-> 0, r |-> 0]
        /\ Colour(end, 0) = [b |-> top, g |-> top, r |-> 0]
        /\ Colour(end, top) = [b |-> top, g |-> 0, r |-> 0]
        /\ Near(Colour(end, end), [b |-> top, g |-> top, r |-> top])
    BY Corners
  <2>. HIDE DEF top, end
  <2>. QED BY <2>4, <2>5, <2>6, <2>7
<1>. QED BY <1>1, VesaInvariant, PTL

-----------------------------------------------------------------------------
(* Progress *)

\* What is left to do: the stage of the program, and in it entries of the list or rows.
Rank ==
    CASE pc = "info"  -> <<4, 0>>
      [] pc = "walk"  -> <<3, 2 * (Len(list) + 1 - iMode) + 1>>
      [] pc = "judge" -> <<3, 2 * (Len(list) + 1 - iMode)>>
      [] pc = "set"   -> <<2, 0>>
      [] pc = "draw"  -> <<1, Side - iy>>
      [] pc = "done"  -> <<0, 0>>

\* In the order of words, which has no endless descent.
Before(p, q) == p[1] < q[1] \/ (p[1] = q[1] /\ p[2] < q[2])

\* initVesa and draw32quad cannot run for ever: a call that fails and a mode that will
\* not do are stepped over like any other, and each row is drawn once
\* (vkern.cpp:707-749, 866-898).
THEOREM DisplayAdvances == Spec => [](Rank \in Nat \X Nat) /\ [][Before(Rank', Rank)]_vars
<1>1. VesaInv => /\ Rank \in Nat \X Nat /\ Side - iy \in Nat
                 /\ iMode \in Nat /\ Len(list) \in Nat /\ iMode <= Len(list) + 1
  <2>. SUFFICES ASSUME VesaInv
                PROVE  /\ Rank \in Nat \X Nat /\ Side - iy \in Nat
                       /\ iMode \in Nat /\ Len(list) \in Nat /\ iMode <= Len(list) + 1
    OBVIOUS
  <2>1. list \in Seq(Modes) /\ pc \in {"info", "walk", "judge", "set", "draw", "done"}
    BY VesaAssumption DEF VesaInv, TypeOK
  <2>2. Len(list) \in Nat /\ iMode \in 1..Len(list)+1
    BY <2>1 DEF VesaInv, TypeOK
  <2>3. Side - iy \in Nat
    BY VesaAssumption DEF VesaInv, TypeOK
  <2>4. Len(list) + 1 - iMode \in Nat
    BY <2>2
  <2>5. Rank \in Nat \X Nat
    BY <2>1, <2>3, <2>4 DEF Rank
  <2>. QED BY <2>2, <2>3, <2>5
<1>2. VesaInv /\ [Next]_vars => [Before(Rank', Rank)]_vars
  <2>. SUFFICES ASSUME VesaInv, Next, ~(UNCHANGED vars) PROVE Before(Rank', Rank)
    OBVIOUS
  <2>1. Side - iy \in Nat /\ iy \in Int /\ iMode \in Nat /\ Len(list) \in Nat
    BY <1>1 DEF VesaInv, TypeOK
  <2>2. CASE GetControllerInfo
    <3>1. Rank[1] = 4 /\ Rank'[1] \in {3, 0}
      BY <2>2 DEF GetControllerInfo, Rank
    <3>. QED BY <3>1 DEF Before
  <2>3. CASE GetModeInfo
    <3>1. /\ Rank = <<3, 2 * (Len(list) + 1 - iMode) + 1>>
          /\ Rank' = <<3, 2 * (Len(list) + 1 - iMode)>>
      BY <2>3 DEF GetModeInfo, Rank
    <3>. QED BY <2>1, <3>1 DEF Before
  <2>4. CASE JudgeMode
    <3>1. /\ Rank = <<3, 2 * (Len(list) + 1 - iMode)>>
          /\ Rank' = <<3, 2 * (Len(list) + 1 - (iMode + 1)) + 1>>
      BY <2>4 DEF JudgeMode, Rank
    <3>. QED BY <2>1, <3>1 DEF Before
  <2>5. CASE EndOfList
    <3>1. Rank[1] = 3 /\ Rank'[1] \in {2, 0}
      BY <2>5 DEF EndOfList, Rank
    <3>. QED BY <3>1 DEF Before
  <2>6. CASE SetMode
    <3>1. Rank[1] = 2 /\ Rank'[1] = 1
      BY <2>6 DEF SetMode, Rank
    <3>. QED BY <3>1 DEF Before
  <2>7. CASE DrawRow
    <3>1. pc = "draw" /\ pc' = "draw" /\ iy' = iy + 1
      BY <2>7 DEF DrawRow
    <3>2. Rank = <<1, Side - iy>> /\ Rank' = <<1, Side - (iy + 1)>>
      BY <3>1 DEF Rank
    <3>. QED BY <2>1, <3>2, VesaAssumption DEF Before
  <2>8. CASE DrawEnds
    <3>1. Rank[1] = 1 /\ Rank'[1] = 0
      BY <2>8 DEF DrawEnds, Rank
    <3>. QED BY <3>1 DEF Before
  <2>9. CASE Done
    BY <2>9 DEF Done
  <2>. QED BY <2>2, <2>3, <2>4, <2>5, <2>6, <2>7, <2>8, <2>9 DEF Next
<1>. QED BY <1>1, <1>2, VesaInvariant, PTL DEF Spec
=============================================================================

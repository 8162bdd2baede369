---------------------------- MODULE TransferProofs ----------------------------
(***************************************************************************)
(* Proofs about ImageTransfer, for every image, stride, region and order   *)
(* of the colours, for memory and streams on either side.  The lines that  *)
(* the two sides handle are numbered over all scans; TransferInv says that *)
(* either side is always at the start of its next line, that the lines     *)
(* that were taken are coded as CodedRow has them, and that the            *)
(* destination holds (Holds) the rows that were written and nothing else.  *)
(* The proof has five parts: the colour transformations; the arithmetic of *)
(* places; the lemmas on how one line is read, transformed and written;    *)
(* one lemma per action; and what TransferInv means for the properties of  *)
(* ImageTransfer.                                                          *)
(*                                                                         *)
(* Two hypotheses are not those of the model.  InterfaceIsKept: bytes have *)
(* 8 bits, and the application gives a stride only to one plane in memory, *)
(* and none shorter than a line; the sizes of its buffers are any.         *)
(* Restorable: no HP2 or HP3 with samples that are shifted, which a        *)
(* decoder does not restore.                                               *)
(***************************************************************************)
EXTENDS ImageTransfer, SequenceTheorems, TLAPS

-----------------------------------------------------------------------------
(* Each colour transformation is undone by its inverse.  Both directions   *)
(* cast what they compute to the type of the samples; each cast is kept as *)
(* a multiple of 2^w that is added, and in the end only multiples of 2^w   *)
(* are left to cast away.                                                  *)

\* A cast of an integer y adds a multiple of m to it.
LEMMA CastAddsMultiple ==
  ASSUME NEW m \in Nat \ {0}, NEW y \in Int
  PROVE  /\ y % m \in 0..(m - 1)
         /\ \E k \in Int : y % m = y + k * m
<1>1. /\ y % m \in 0..(m - 1)
      /\ y = m * (y \div m) + (y % m)
      /\ y \div m \in Int
  OBVIOUS
<1>2. -(y \div m) \in Int /\ y % m = y + (-(y \div m)) * m
  BY <1>1
<1>. QED BY <1>1, <1>2

\* A cast undoes the multiples of m that were added to a value in range.
LEMMA CastRestores ==
  ASSUME NEW m \in Nat \ {0}, NEW x \in 0..(m - 1), NEW k \in Int
  PROVE  (x + k * m) % m = x
<1> DEFINE y == x + k * m
           r == y % m
<1>1. y \in Int
  OBVIOUS
<1>2. r \in 0..(m - 1) /\ \E j \in Int : r = y + j * m
  BY <1>1, CastAddsMultiple
<1>3. PICK j \in Int : r = y + j * m
  BY <1>2
<1> HIDE DEF r
<1>4. r - x = (k + j) * m
  BY <1>2, <1>3
<1>5. k + j = 0
  <2>1. CASE k + j >= 1
    <3>1. (k + j) * m >= m
      BY <2>1
    <3>. QED BY <3>1, <1>2, <1>4
  <2>2. CASE k + j <= -1
    <3>1. (-(k + j)) * m >= m
      BY <2>2
    <3>2. (-(k + j)) * m = x - r
      BY <1>2, <1>4
    <3>. QED BY <3>1, <3>2, <1>2
  <2>. QED BY <2>1, <2>2
<1>. QED BY <1>2, <1>4, <1>5 DEF r

\* The pattern of every transformation: what was added before a cast is taken
\* away after it, but for a multiple of m.
LEMMA CastUndone ==
  ASSUME NEW m \in Nat \ {0}, NEW x \in 0..(m - 1), NEW d \in Int, NEW n \in Int
  PROVE  (((x + d) % m) - d + n * m) % m = x
<1>1. x + d \in Int
  OBVIOUS
<1>2. PICK k \in Int : (x + d) % m = (x + d) + k * m
  BY <1>1, CastAddsMultiple
<1>3. ((x + d) % m) - d + n * m = x + (k + n) * m
  BY <1>2
<1>4. k + n \in Int
  OBVIOUS
<1>. QED BY <1>3, <1>4, CastRestores

\* A cast leaves a value in range as it is.
LEMMA InRangeIsCast ==
  ASSUME NEW m \in Nat \ {0}, NEW x \in 0..(m - 1)
  PROVE  x % m = x
OBVIOUS

\* The widths of the code, and the parts of a range that the transformations add.
LEMMA RangeOfWidth ==
  ASSUME NEW w \in {8, 16}
  PROVE  /\ 2^w \in Nat \ {0}
         /\ Half(w) \in Nat /\ Quarter(w) \in Nat
         /\ 2 * Half(w) = 2^w
<1>1. CASE w = 8
  BY <1>1 DEF Half, Quarter
<1>2. CASE w = 16
  BY <1>2 DEF Half, Quarter
<1>. QED BY <1>1, <1>2

\* HP1: green is kept, and both differences to it cancel.
LEMMA Hp1Restores ==
  ASSUME NEW w \in {8, 16}, NEW r \in 0..(2^w - 1), NEW g \in 0..(2^w - 1), NEW b \in 0..(2^w - 1)
  PROVE  Backward("hp1", w, Forward("hp1", w, <<r, g, b>>)) = <<r, g, b>>
<1> DEFINE m == 2^w
           h == Half(w)
           v1 == (r - g + h) % m
           v3 == (b - g + h) % m
<1>1. m \in Nat \ {0} /\ h \in Nat
  BY RangeOfWidth
<1>2. r \in 0..(m - 1) /\ g \in 0..(m - 1) /\ b \in 0..(m - 1)
  OBVIOUS
<1>3. Forward("hp1", w, <<r, g, b>>) = <<v1, g % m, v3>>
  BY DEF Forward, TransformHp1, Triplet
<1>4. Backward("hp1", w, <<v1, g, v3>>) = <<(v1 + g - h) % m, g % m, (v3 + g - h) % m>>
  BY DEF Backward, InverseHp1, Triplet
<1> HIDE DEF m, h
<1>5. g % m = g
  BY <1>1, <1>2, InRangeIsCast
<1> DEFINE d == h - g
<1>6. /\ d \in Int
      /\ v1 = (r + d) % m /\ v3 = (b + d) % m
  <2>1. r - g + h = r + d /\ b - g + h = b + d
    BY <1>1, <1>2
  <2>. QED BY <2>1, <1>1, <1>2
<1>7. v1 \in Int /\ v3 \in Int
  BY <1>1, <1>2, <1>6
<1> HIDE DEF v1, v3
<1>8. v1 + g - h = v1 - d + 0 * m /\ v3 + g - h = v3 - d + 0 * m
  BY <1>1, <1>2, <1>7
<1> HIDE DEF d
<1>9. (v1 + g - h) % m = r /\ (v3 + g - h) % m = b
  <2>1. 0 \in Int
    OBVIOUS
  <2>2. (((r + d) % m) - d + 0 * m) % m = r
    BY <2>1, <1>1, <1>2, <1>6, CastUndone
  <2>3. (((b + d) % m) - d + 0 * m) % m = b
    BY <2>1, <1>1, <1>2, <1>6, CastUndone
  <2>. QED BY <2>2, <2>3, <1>6, <1>8, Zenon
<1>. QED BY <1>3, <1>4, <1>5, <1>9

\* HP2: red is restored first; its mean with green is then the one that the forward
\* transformation took, and half the range, added twice, is a whole range.
LEMMA Hp2Restores ==
  ASSUME NEW w \in {8, 16}, NEW r \in 0..(2^w - 1), NEW g \in 0..(2^w - 1), NEW b \in 0..(2^w - 1)
  PROVE  Backward("hp2", w, Forward("hp2", w, <<r, g, b>>)) = <<r, g, b>>
<1> DEFINE m == 2^w
           h == Half(w)
           mean == (r + g) \div 2
           v1 == (r - g + h) % m
           v3 == (b - mean - h) % m
           red == (v1 + g - h) % m
<1>1. m \in Nat \ {0} /\ h \in Nat /\ 2 * h = m
  BY RangeOfWidth
<1>2. r \in 0..(m - 1) /\ g \in 0..(m - 1) /\ b \in 0..(m - 1) /\ mean \in Int
  OBVIOUS
<1>3. Forward("hp2", w, <<r, g, b>>) = <<v1, g % m, v3>>
  BY DEF Forward, TransformHp2, Triplet
<1>4. Backward("hp2", w, <<v1, g, v3>>) = <<red % m, g % m, (v3 + (red + g) \div 2 - h) % m>>
  BY DEF Backward, InverseHp2, Triplet
<1>5. g % m = g /\ r % m = r
  BY <1>1, <1>2, InRangeIsCast
<1>6. red = r
  <2> HIDE DEF m, h
  <2> DEFINE d == h - g
  <2>1. d \in Int /\ 0 \in Int /\ r - g + h = r + d
    BY <1>1, <1>2
  <2>2. (((r + d) % m) - d + 0 * m) % m = r
    BY <2>1, <1>1, <1>2, CastUndone
  <2>3. v1 = (r + d) % m /\ v1 \in Int
    BY <2>1, <1>1, <1>2
  <2> HIDE DEF v1
  <2>4. v1 + g - h = v1 - d + 0 * m
    BY <1>1, <1>2, <2>3
  <2> HIDE DEF d
  <2>. QED BY <2>2, <2>3, <2>4, Zenon DEF red
<1>7. (v3 + (red + g) \div 2 - h) % m = b
  <2> HIDE DEF m, h
  <2>1. (v3 + (red + g) \div 2 - h) % m = (v3 + mean - h) % m
    BY <1>6
  <2> HIDE DEF mean
  <2> DEFINE d == -mean - h
  <2>2. d \in Int /\ -1 \in Int /\ b - mean - h = b + d
    BY <1>1, <1>2
  <2>3. (((b + d) % m) - d + (-1) * m) % m = b
    BY <2>2, <1>1, <1>2, CastUndone
  <2>4. v3 = (b + d) % m /\ v3 \in Int
    BY <2>2, <1>1, <1>2
  <2> HIDE DEF v3
  <2>5. v3 + mean - h = v3 - d + (-1) * m
    BY <1>1, <1>2, <2>4
  <2> HIDE DEF d
  <2>. QED BY <2>1, <2>3, <2>4, <2>5, Zenon
<1> HIDE DEF m, h, v1, v3, red
<1>. QED BY <1>3, <1>4, <1>5, <1>6, <1>7

\* HP3: green is restored from the mean of the differences that both directions see,
\* but for a multiple of 2^w, which the casts of red and blue remove.
LEMMA Hp3Restores ==
  ASSUME NEW w \in {8, 16}, NEW r \in 0..(2^w - 1), NEW g \in 0..(2^w - 1), NEW b \in 0..(2^w - 1)
  PROVE  Backward("hp3", w, Forward("hp3", w, <<r, g, b>>)) = <<r, g, b>>
<1> DEFINE m == 2^w
           h == Half(w)
           q == Quarter(w)
           v2 == (b - g + h) % m
           v3 == (r - g + h) % m
           s == (v2 + v3) \div 4
           u1 == (g + s) % m
           v1 == (u1 - q) % m
           green == v1 - s + q
<1>1. m \in Nat \ {0} /\ h \in Nat /\ q \in Nat
  BY RangeOfWidth
<1>2. r \in 0..(m - 1) /\ g \in 0..(m - 1) /\ b \in 0..(m - 1)
  OBVIOUS
<1>3. Forward("hp3", w, <<r, g, b>>) = <<v1, v2 % m, v3 % m>>
  BY DEF Forward, TransformHp3, Triplet
<1>4. Backward("hp3", w, <<v1, v2, v3>>)
        = <<(v3 + (v1 - (v3 + v2) \div 4 + q) - h) % m,
            (v1 - (v3 + v2) \div 4 + q) % m,
            (v2 + (v1 - (v3 + v2) \div 4 + q) - h) % m>>
  BY DEF Backward, InverseHp3, Triplet
<1> HIDE DEF m, h, q
<1>5. v2 \in 0..(m - 1) /\ v3 \in 0..(m - 1)
  <2>1. b - g + h \in Int /\ r - g + h \in Int
    BY <1>1, <1>2
  <2>. QED BY <2>1, <1>1, CastAddsMultiple
<1>6. v2 % m = v2 /\ v3 % m = v3
  BY <1>1, <1>5, InRangeIsCast
<1>7. (v3 + v2) \div 4 = s /\ s \in Int
  <2> HIDE DEF v2, v3
  <2>1. v3 + v2 = v2 + v3 /\ v2 + v3 \in Int
    BY <1>5
  <2>. QED BY <2>1
<1>8. PICK k \in Int : green = g + k * m
  <2> HIDE DEF s
  <2>1. g + s \in Int
    BY <1>2, <1>7
  <2>2. PICK i \in Int : u1 = g + s + i * m
    BY <2>1, <1>1, CastAddsMultiple
  <2>3. u1 - q \in Int
    BY <2>2, <1>1, <2>1
  <2>4. PICK j \in Int : v1 = u1 - q + j * m
    BY <2>3, <1>1, CastAddsMultiple
  <2> HIDE DEF u1, v1
  <2>5. green = g + (i + j) * m
    BY <2>2, <2>4, <1>1, <1>2, <1>7
  <2>. QED BY <2>5
<1> HIDE DEF green
<1>9. green % m = g
  BY <1>1, <1>2, <1>8, CastRestores
<1>10. ASSUME NEW x \in 0..(m - 1), NEW v \in Int, v = (x - g + h) % m
       PROVE  (v + green - h) % m = x
  <2> DEFINE d == h - g
  <2>1. d \in Int /\ x - g + h = x + d
    BY <1>1, <1>2
  <2>2. (((x + d) % m) - d + k * m) % m = x
    BY <2>1, <1>1, CastUndone
  <2>3. v = (x + d) % m
    BY <2>1, <1>10
  <2>4. v + green - h = v - d + k * m
    BY <1>1, <1>2, <1>8
  <2> HIDE DEF d
  <2>. QED BY <2>2, <2>3, <2>4, Zenon
<1>11. (v3 + green - h) % m = r /\ (v2 + green - h) % m = b
  <2>1. v2 \in Int /\ v3 \in Int
    BY <1>1, <1>5
  <2>. QED BY <2>1, <1>2, <1>10
<1>12. /\ Forward("hp3", w, <<r, g, b>>) = <<v1, v2, v3>>
       /\ Backward("hp3", w, <<v1, v2, v3>>)
            = <<(v3 + green - h) % m, green % m, (v2 + green - h) % m>>
  <2> HIDE DEF v1, v2, v3, s
  <2>. QED BY <1>3, <1>4, <1>6, <1>7 DEF green
<1> HIDE DEF v1, v2, v3
<1>. QED BY <1>9, <1>11, <1>12

\* The inverse of each colour transformation (color_transform.h) restores every
\* pixel, red, green and blue, of samples of 8 and of 16 bits.
THEOREM TransformationsRestore ==
  ASSUME NEW w \in {8, 16}, NEW kind \in ColorTransformations,
         NEW r \in 0..(2^w - 1), NEW g \in 0..(2^w - 1), NEW b \in 0..(2^w - 1)
  PROVE  Backward(kind, w, Forward(kind, w, <<r, g, b>>)) = <<r, g, b>>
<1>1. CASE kind = "none"
  <2>1. r % 2^w = r /\ g % 2^w = g /\ b % 2^w = b
    BY RangeOfWidth, InRangeIsCast
  <2>. QED BY <2>1, <1>1 DEF Forward, Backward, Triplet
<1>2. CASE kind = "hp1"
  BY <1>2, Hp1Restores
<1>3. CASE kind = "hp2"
  BY <1>3, Hp2Restores
<1>4. CASE kind = "hp3"
  BY <1>4, Hp3Restores
<1>. QED BY <1>1, <1>2, <1>3, <1>4 DEF ColorTransformations

-----------------------------------------------------------------------------
(* Arithmetic of places.                                                   *)

\* A place is taken apart in one way only.
LEMMA DivMod ==
  ASSUME NEW m \in Nat \ {0}, NEW q \in Int, NEW r \in 0..(m - 1)
  PROVE  (q * m + r) \div m = q /\ (q * m + r) % m = r
<1> DEFINE a == q * m + r
           d == a \div m
           e == a % m
<1>1. a \in Int /\ a = q * m + r
  OBVIOUS
<1> HIDE DEF a
<1>2. d \in Int /\ e \in 0..(m - 1) /\ a = m * d + e
  BY <1>1
<1> HIDE DEF d, e
<1>3. (d - q) * m = r - e
  BY <1>1, <1>2
<1>4. d - q = 0
  <2>1. CASE d - q >= 1
    <3>1. (d - q) * m >= m
      BY <2>1, <1>2
    <3> QED  BY <3>1, <1>2, <1>3
  <2>2. CASE d - q <= -1
    <3>1. (-(d - q)) * m >= m /\ (-(d - q)) * m = e - r
      BY <2>2, <1>2, <1>3
    <3> QED  BY <3>1, <1>2
  <2> QED  BY <2>1, <2>2, <1>2
<1>5. d = q /\ e = r
  BY <1>1, <1>2, <1>4
<1> QED  BY <1>5 DEF a, d, e

\* What lies before a place, row by row, lies before it byte by byte.
LEMMA RowsBefore ==
  ASSUME NEW m \in Nat, NEW n1 \in Nat, NEW n2 \in Nat, n1 < n2
  PROVE  n1 * m + m <= n2 * m
<1>1. PICK d \in Nat : n2 = n1 + 1 + d
  <2>1. n2 - n1 - 1 \in Nat /\ n2 = n1 + 1 + (n2 - n1 - 1)
    OBVIOUS
  <2> QED  BY <2>1
<1>2. d * m >= 0 /\ n2 * m = n1 * m + m + d * m
  BY <1>1
<1> QED  BY <1>2

\* A sum of rows and the rest of one is smaller than the rows that hold it.
LEMMA WithinRows ==
  ASSUME NEW m \in Nat, NEW n \in Nat, NEW q \in 0..(n - 1), NEW r \in 0..(m - 1)
  PROVE  q * m + r \in 0..(n * m - 1)
<1>1. q * m + m <= n * m
  BY RowsBefore
<1>2. q * m \in Nat /\ n * m \in Nat
  OBVIOUS
<1> QED  BY <1>1, <1>2

\* And every place of the rows is such a sum.
LEMMA PlaceInRows ==
  ASSUME NEW m \in Nat \ {0}, NEW n \in Nat, NEW a \in 0..(n * m - 1)
  PROVE  \E q \in 0..(n - 1), r \in 0..(m - 1) : a = q * m + r
<1> DEFINE q == a \div m
           r == a % m
<1>1. a \in Nat /\ q \in Int /\ r \in 0..(m - 1) /\ a = m * q + r
  OBVIOUS
<1> HIDE DEF q, r
<1>2. q >= 0
  <2>1. CASE q <= -1
    <3>1. (-q) * m >= m
      BY <2>1, <1>1
    <3> QED  BY <3>1, <1>1
  <2> QED  BY <2>1, <1>1
<1>3. q <= n - 1
  <2>1. CASE q >= n
    <3>1. (q - n) * m >= 0
      BY <2>1, <1>1
    <3>2. (q - n) * m = q * m - n * m
      BY <1>1
    <3> QED  BY <3>1, <3>2, <1>1
  <2> QED  BY <2>1, <1>1
<1>4. q \in 0..(n - 1) /\ a = q * m + r
  BY <1>1, <1>2, <1>3
<1> QED  BY <1>1, <1>4

\* A name for the powers, under which they are no arithmetic of their own.
PowerOf(b) == 2^b

\* The powers of the depths are numbers, and at most those of a byte or two.
LEMMA Powers ==
  ASSUME NEW b \in 1..16
  PROVE  /\ PowerOf(b) \in Nat \ {0}
         /\ b <= 8 => PowerOf(b) <= 256
         /\ PowerOf(b) <= 65536
<1>1. CASE b = 1  BY <1>1 DEF PowerOf
<1>2. CASE b = 2  BY <1>2 DEF PowerOf
<1>3. CASE b = 3  BY <1>3 DEF PowerOf
<1>4. CASE b = 4  BY <1>4 DEF PowerOf
<1>5. CASE b = 5  BY <1>5 DEF PowerOf
<1>6. CASE b = 6  BY <1>6 DEF PowerOf
<1>7. CASE b = 7  BY <1>7 DEF PowerOf
<1>8. CASE b = 8  BY <1>8 DEF PowerOf
<1>9. CASE b = 9  BY <1>9 DEF PowerOf
<1>10. CASE b = 10  BY <1>10 DEF PowerOf
<1>11. CASE b = 11  BY <1>11 DEF PowerOf
<1>12. CASE b = 12  BY <1>12 DEF PowerOf
<1>13. CASE b = 13  BY <1>13 DEF PowerOf
<1>14. CASE b = 14  BY <1>14 DEF PowerOf
<1>15. CASE b = 15  BY <1>15 DEF PowerOf
<1>16. CASE b = 16  BY <1>16 DEF PowerOf
<1> QED  BY <1>1, <1>2, <1>3, <1>4, <1>5, <1>6, <1>7, <1>8, <1>9, <1>10, <1>11, <1>12, <1>13, <1>14, <1>15, <1>16

\* The values of samples of b bits.
Values(b) == 0..(PowerOf(b) - 1)

\* A sample of b bits fits in one byte, or in two.
LEMMA ValuesOfBits ==
  ASSUME NEW b \in 1..16, NEW v \in Values(b)
  PROVE  v \in Nat /\ v < 65536 /\ (b <= 8 => v < 256)
<1>1. PowerOf(b) \in Nat /\ PowerOf(b) <= 65536 /\ (b <= 8 => PowerOf(b) <= 256)
  BY Powers
<1> QED  BY <1>1 DEF Values

\* The place of a byte of a sample in its line, and what is read off it.
PlaceInLine(p, b, x, c, k) == ((x - 1) * p + c - 1) * b + k - 1

HasParts(q, p, b, w, x, c, k) ==
  /\ q \in 0..(w * (p * b) - 1)
  /\ q \div (p * b) = x - 1
  /\ (q % (p * b)) \div b = c - 1
  /\ q % b = k - 1
  /\ (q % (p * b)) % b = k - 1

\* Pixel, sample and byte are read off the place again.
LEMMA PartsOfPlace ==
  ASSUME NEW p \in Nat \ {0}, NEW b \in Nat \ {0}, NEW w \in Nat,
         NEW x \in 1..w, NEW c \in 1..p, NEW k \in 1..b
  PROVE  HasParts(PlaceInLine(p, b, x, c, k), p, b, w, x, c, k)
<1> DEFINE q == PlaceInLine(p, b, x, c, k)
           m == p * b
           r == (c - 1) * b + (k - 1)
<1>1. m \in Nat \ {0}
  OBVIOUS
<1>2. r \in 0..(m - 1)
  BY WithinRows
<1>3. /\ q = (x - 1) * m + r
      /\ q = ((x - 1) * p + c - 1) * b + (k - 1)
  BY DEF PlaceInLine
<1>4. x - 1 \in 0..(w - 1) /\ c - 1 \in Int /\ k - 1 \in 0..(b - 1)
      /\ (x - 1) * p + c - 1 \in Int
  OBVIOUS
<1> HIDE DEF q, m
<1>5. r \div b = c - 1 /\ r % b = k - 1
  BY <1>4, DivMod
<1>6. q % b = k - 1
  <2> DEFINE n == (x - 1) * p + c - 1
  <2>1. n \in Int /\ q = n * b + (k - 1)
    BY <1>3, <1>4
  <2> HIDE DEF n
  <2> QED  BY <1>4, <2>1, DivMod
<1> HIDE DEF r
<1>7. q \div m = x - 1 /\ q % m = r
  BY <1>1, <1>2, <1>3, <1>4, DivMod
<1>8. q \in 0..(w * m - 1)
  BY <1>1, <1>2, <1>3, <1>4, WithinRows
<1> QED  BY <1>5, <1>6, <1>7, <1>8 DEF q, m, HasParts

\* Every byte of a line is one of a sample.
LEMMA PlaceHasParts ==
  ASSUME NEW p \in Nat \ {0}, NEW b \in Nat \ {0}, NEW w \in Nat,
         NEW q \in 0..(w * (p * b) - 1)
  PROVE  \E x \in 1..w, c \in 1..p, k \in 1..b : q = PlaceInLine(p, b, x, c, k)
<1>1. p * b \in Nat \ {0}
  OBVIOUS
<1>2. PICK x1 \in 0..(w - 1), r \in 0..(p * b - 1) : q = x1 * (p * b) + r
  BY <1>1, PlaceInRows
<1>3. PICK c1 \in 0..(p - 1), k1 \in 0..(b - 1) : r = c1 * b + k1
  BY <1>2, PlaceInRows
<1>4. q = (x1 * p + c1) * b + k1
  BY <1>2, <1>3
<1>5. /\ x1 + 1 \in 1..w /\ c1 + 1 \in 1..p /\ k1 + 1 \in 1..b
      /\ q = PlaceInLine(p, b, x1 + 1, c1 + 1, k1 + 1)
  BY <1>2, <1>3, <1>4 DEF PlaceInLine
<1> QED  BY <1>5

-----------------------------------------------------------------------------
(* What an application asks for, and the sizes that follow from it.        *)

SampleBytes(i) == (i.bits + ByteBits - 1) \div ByteBits
PerPixel(i) == IF i.mode = "none" THEN 1 ELSE i.components
PlanesOf(i) == IF i.mode = "none" THEN i.components ELSE 1
RowBytes(i, w) == w * (PerPixel(i) * SampleBytes(i))

RegionOf(i) ==
  IF i.rect.width = 0 THEN [i.rect EXCEPT !.width = i.width, !.height = i.height] ELSE i.rect

\* The distances of lines, in the source and in the destination.
SourceRow(i) == IF i.source.stride = 0 THEN RowBytes(i, i.width) ELSE i.source.stride
DestinationRow(i) ==
  IF i.destination.stride = 0 \/ i.destination.kind = "stream"
  THEN RowBytes(i, RegionOf(i).width) ELSE i.destination.stride

Kinds == {"memory", "stream"}
Modes == {"none", "line", "sample"}

\* The image and the region are those of an image of the format.
ImageFits(i) ==
  /\ i.components \in Nat \ {0} /\ i.mode \in Modes
  /\ i.transformation \in ColorTransformations /\ i.bgr \in BOOLEAN
  /\ \A y \in 1..i.height, x \in 1..i.width, c \in 1..i.components :
       i.samples[y][x][c] \in Values(i.bits)
  /\ i.rect \in [x : Nat, y : Nat, width : Nat, height : Nat]
  /\ i.rect.width = 0 => i.rect.x = 0 /\ i.rect.y = 0

\* A stride is for one plane in memory, and no line is longer.  A source of either
\* kind may lack a part of the image.
SourceFits(i) ==
  /\ i.source.kind \in Kinds /\ i.source.stride \in Nat /\ i.source.missing \in Nat
  /\ i.source.stride # 0 => /\ i.source.kind = "memory" /\ PlanesOf(i) = 1
                            /\ i.source.stride >= RowBytes(i, i.width)

\* The same of a destination, which may be of any size.
DestinationFits(i) ==
  /\ i.destination.kind \in Kinds /\ i.destination.stride \in Nat /\ i.destination.count \in Nat
  /\ (i.destination.stride # 0 /\ i.destination.kind = "memory") =>
       /\ PlanesOf(i) = 1
       /\ i.destination.stride >= RowBytes(i, RegionOf(i).width)

\* Bytes have 8 bits, and every application keeps to the interface.
InterfaceIsKept ==
  /\ ByteBits = 8
  /\ \A i \in Images : ImageFits(i) /\ SourceFits(i) /\ DestinationFits(i)

\* The names of the model stand for the sizes of its image.
LEMMA SizesOfImage ==
  /\ BytesPerSample = SampleBytes(image) /\ PixelSamples = PerPixel(image)
  /\ Planes = PlanesOf(image)
BY DEF BytesPerSample, SampleBytes, PixelSamples, PerPixel, Planes, PlanesOf, Interleaved

\* The sizes of an image, as far as the proofs need them.
LEMMA Numbers ==
  ASSUME InterfaceIsKept, NEW i \in Images
  PROVE  /\ i.width \in Nat \ {0} /\ i.height \in Nat \ {0} /\ i.bits \in 1..16
         /\ SampleBytes(i) \in {1, 2} /\ (SampleBytes(i) = 1 <=> i.bits <= 8)
         /\ PerPixel(i) \in Nat \ {0} /\ PlanesOf(i) \in Nat \ {0}
         /\ PlanesOf(i) # 1 => PerPixel(i) = 1 /\ i.mode = "none"
         /\ PerPixel(i) * SampleBytes(i) \in Nat \ {0}
         /\ PerPixel(i) * PlanesOf(i) = i.components
<1>1. /\ i.width \in Nat \ {0} /\ i.height \in Nat \ {0} /\ i.bits \in 1..16
      /\ i.components \in Nat \ {0}
  BY ImageAssumption DEF InterfaceIsKept, ImageFits
<1>2. SampleBytes(i) \in {1, 2} /\ (SampleBytes(i) = 1 <=> i.bits <= 8)
  BY <1>1 DEF InterfaceIsKept, SampleBytes
<1>3. /\ PerPixel(i) \in Nat \ {0} /\ PlanesOf(i) \in Nat \ {0}
      /\ PlanesOf(i) # 1 => PerPixel(i) = 1 /\ i.mode = "none"
      /\ PerPixel(i) * PlanesOf(i) = i.components
  BY <1>1 DEF PerPixel, PlanesOf
<1>4. PerPixel(i) * SampleBytes(i) \in Nat \ {0}
  BY <1>2, <1>3
<1> QED  BY <1>1, <1>2, <1>3, <1>4

\* A row of either side holds a line, and with planes it holds nothing more.
LEMMA Rows ==
  ASSUME InterfaceIsKept, NEW i \in Images
  PROVE  /\ RowBytes(i, i.width) \in Nat \ {0}
         /\ SourceRow(i) \in Nat \ {0} /\ SourceRow(i) >= RowBytes(i, i.width)
         /\ (PlanesOf(i) # 1 \/ i.source.kind = "stream") => SourceRow(i) = RowBytes(i, i.width)
<1>1. RowBytes(i, i.width) \in Nat \ {0}
  BY Numbers DEF RowBytes
<1>2. SourceFits(i)
  BY DEF InterfaceIsKept
<1> QED  BY <1>1, <1>2 DEF SourceFits, SourceRow

\* The region is inside the image, and a row of the destination holds a line of it.
LEMMA RegionRows ==
  ASSUME InterfaceIsKept, NEW i \in Images, NEW r, r = RegionOf(i)
  PROVE  /\ r.x \in Nat /\ r.y \in Nat /\ r.width \in Nat \ {0} /\ r.height \in Nat
         /\ r.x + r.width <= i.width /\ r.y + r.height <= i.height
         /\ RowBytes(i, r.width) \in Nat \ {0}
         /\ DestinationRow(i) \in Nat \ {0} /\ DestinationRow(i) >= RowBytes(i, r.width)
         /\ (PlanesOf(i) # 1 \/ i.destination.kind = "stream" \/ i.destination.stride = 0) =>
              DestinationRow(i) = RowBytes(i, r.width)
<1>1. i.rect \in [x : Nat, y : Nat, width : Nat, height : Nat]
  BY DEF InterfaceIsKept, ImageFits
<1>2. /\ i.rect.x \in Nat /\ i.rect.y \in Nat /\ i.rect.width \in Nat /\ i.rect.height \in Nat
      /\ i.rect.width = 0 => i.rect.x = 0 /\ i.rect.y = 0
  BY <1>1 DEF InterfaceIsKept, ImageFits
<1>3. i.rect.width > 0 => /\ i.rect.x + i.rect.width <= i.width
                          /\ i.rect.y + i.rect.height <= i.height
  BY ImageAssumption
<1>4. i.width \in Nat \ {0} /\ i.height \in Nat \ {0}
  BY Numbers
<1>5. /\ r.x \in Nat /\ r.y \in Nat /\ r.width \in Nat \ {0} /\ r.height \in Nat
      /\ r.x + r.width <= i.width /\ r.y + r.height <= i.height
  <2>1. CASE i.rect.width = 0
    <3>1. r = [i.rect EXCEPT !.width = i.width, !.height = i.height]
      BY <2>1 DEF RegionOf
    <3>2. r.x = i.rect.x /\ r.y = i.rect.y /\ r.width = i.width /\ r.height = i.height
      BY <1>1, <3>1
    <3> QED  BY <1>2, <1>4, <2>1, <3>2
  <2>2. CASE i.rect.width # 0
    <3>1. r = i.rect
      BY <2>2 DEF RegionOf
    <3> QED  BY <1>2, <1>3, <2>2, <3>1
  <2> QED  BY <2>1, <2>2
<1>6. RowBytes(i, r.width) \in Nat \ {0}
  BY <1>5, Numbers DEF RowBytes
<1>7. DestinationFits(i)
  BY DEF InterfaceIsKept
<1>8. /\ DestinationRow(i) \in Nat \ {0} /\ DestinationRow(i) >= RowBytes(i, r.width)
      /\ (PlanesOf(i) # 1 \/ i.destination.kind = "stream" \/ i.destination.stride = 0) =>
           DestinationRow(i) = RowBytes(i, r.width)
  <2>1. DestinationRow(i) = IF i.destination.stride = 0 \/ i.destination.kind = "stream"
                            THEN RowBytes(i, r.width) ELSE i.destination.stride
    BY DEF DestinationRow
  <2>2. /\ i.destination.kind \in Kinds /\ i.destination.stride \in Nat
        /\ (i.destination.stride # 0 /\ i.destination.kind = "memory") =>
             PlanesOf(i) = 1 /\ i.destination.stride >= RowBytes(i, r.width)
    BY <1>7 DEF DestinationFits
  <2> QED  BY <1>6, <2>1, <2>2 DEF Kinds
<1> QED  BY <1>5, <1>6, <1>8

-----------------------------------------------------------------------------
(* The bytes of the source.                                                *)

\* The component that scan s codes as the sample c of a pixel.
ComponentOf(i, s, c) == IF i.mode = "none" THEN s ELSE c

\* The pixels of line y, as scan s takes them.
RawPixels(i, s, y) ==
  [x \in 1..i.width |-> [c \in 1..PerPixel(i) |-> i.samples[y][x][ComponentOf(i, s, c)]]]

\* Where line y of the plane of scan s starts, when there are h lines in a plane
\* and their distance is row.
LineStart(s, y, h, row) == ((s - 1) * h + y - 1) * row

\* Byte e of a sample, the low one first.
ByteOf(v, e) == (v \div 2^(e * 8)) % 2^8

\* The two bytes of a value below 2^16 make it up again.
LEMMA BytesOfSample ==
  ASSUME NEW v \in Nat, v < 65536
  PROVE  /\ ByteOf(v, 0) = v % 256 /\ ByteOf(v, 1) = (v \div 256) % 256
         /\ ByteOf(v, 0) \in 0..255 /\ ByteOf(v, 1) \in 0..255
         /\ ByteOf(v, 0) + ByteOf(v, 1) * 256 = v
<1>1. ByteOf(v, 0) = (v \div 1) % 256 /\ ByteOf(v, 1) = (v \div 256) % 256
  BY DEF ByteOf
<1>2. (v \div 1) % 256 = v % 256 /\ v % 256 \in 0..255 /\ (v \div 256) % 256 \in 0..255
  OBVIOUS
<1>3. (v % 256) + ((v \div 256) % 256) * 256 = v
  OBVIOUS
<1> QED  BY <1>1, <1>2, <1>3

\* Two bytes change places.
LEMMA ReversedBytes ==
  ASSUME NEW f
  PROVE  /\ Len(f) = 1 => Reverse(f)[1] = f[1]
         /\ Len(f) = 2 => Reverse(f)[1] = f[2] /\ Reverse(f)[2] = f[1]
<1>1. CASE Len(f) = 1
  <2>1. Reverse(f) = [k \in 1..1 |-> f[1 - k + 1]]
    BY <1>1 DEF Reverse
  <2> QED  BY <1>1, <2>1
<1>2. CASE Len(f) = 2
  <2>1. Reverse(f) = [k \in 1..2 |-> f[2 - k + 1]]
    BY <1>2 DEF Reverse
  <2> QED  BY <1>2, <2>1
<1> QED  BY <1>1, <1>2

\* A place of the source belongs to one byte of one sample.
LEMMA SourceBytes ==
  ASSUME InterfaceIsKept, image \in Images,
         NEW s \in 1..PlanesOf(image), NEW y \in 1..image.height, NEW x \in 1..image.width,
         NEW c \in 1..PerPixel(image), NEW k \in 1..SampleBytes(image)
  PROVE  SourceByte(LineStart(s, y, image.height, SourceRow(image))
                      + PlaceInLine(PerPixel(image), SampleBytes(image), x, c, k))
           = ByteOf(image.samples[y][x][ComponentOf(image, s, c)],
                    IF image.source.kind = "stream" /\ image.mode = "none"
                    THEN SampleBytes(image) - k ELSE k - 1)
<1> DEFINE b == SampleBytes(image)
           p == PerPixel(image)
           row == SourceRow(image)
           h == image.height
           q == PlaceInLine(p, b, x, c, k)
           rest == (y - 1) * row + q
           a == LineStart(s, y, h, row) + q
           perPlane == row * h
<1>1. /\ row \in Nat \ {0} /\ h \in Nat \ {0} /\ image.width \in Nat
      /\ b \in Nat \ {0} /\ p \in Nat \ {0} /\ PlanesOf(image) \in Nat \ {0}
      /\ c \in 1..p /\ k \in 1..b /\ y \in 1..h
  BY Numbers, Rows
<1> HIDE DEF row, p, b, h
<1>2. /\ q \in 0..(image.width * (p * b) - 1)
      /\ q \div (p * b) = x - 1 /\ (q % (p * b)) \div b = c - 1
      /\ q % b = k - 1 /\ (q % (p * b)) % b = k - 1
  <2>1. image.width \in Nat /\ p \in Nat \ {0} /\ b \in Nat \ {0} /\ c \in 1..p /\ k \in 1..b
    BY <1>1
  <2>2. HasParts(q, p, b, image.width, x, c, k)
    BY <2>1, PartsOfPlace
  <2> QED  BY <2>2 DEF HasParts
<1>3. RowBytes(image, image.width) = image.width * (p * b)
  BY DEF RowBytes, p, b
<1>4. image.width * (p * b) \in Nat /\ image.width * (p * b) <= row
  BY <1>3, Rows DEF row
<1> HIDE DEF q
<1>5. q \in 0..(row - 1) /\ y - 1 \in 0..(h - 1) /\ s - 1 \in Int
  BY <1>1, <1>2, <1>4
<1>6. rest \in 0..(h * row - 1)
  BY <1>1, <1>5, WithinRows
<1>7. a = ((s - 1) * h + y - 1) * row + q /\ (s - 1) * h + y - 1 \in Int
  BY <1>1, <1>5 DEF LineStart
<1>8. a % row = q
  BY <1>1, <1>5, <1>7, DivMod
<1>9. a = (s - 1) * perPlane + rest /\ perPlane \in Nat \ {0} /\ rest \in 0..(perPlane - 1)
  BY <1>1, <1>5, <1>6, <1>7
<1>10. rest \div row = y - 1
  <2>1. y - 1 \in Int
    BY <1>1
  <2> QED  BY <2>1, <1>1, <1>5, DivMod
<1> HIDE DEF a, rest, perPlane
<1>11. a \div perPlane = s - 1 /\ a % perPlane = rest
  BY <1>5, <1>9, DivMod
<1>12. /\ SourceStride = row /\ LineBytes(image.width) = image.width * (p * b)
       /\ PixelSamples = p /\ BytesPerSample = b /\ (Interleaved <=> image.mode # "none")
  <2>1. LineBytes(image.width) = image.width * (p * b)
    BY <1>1, SizesOfImage DEF LineBytes, p, b
  <2>2. SourceStride = row
    BY <1>3, <2>1 DEF SourceStride, StrideOf, row, SourceRow
  <2> QED  BY <2>1, <2>2, SizesOfImage DEF p, b, Interleaved
<1>13. /\ ~(q >= image.width * (p * b))
       /\ (rest \div row) + 1 = y /\ (q \div (p * b)) + 1 = x
       /\ ((q % (p * b)) \div b) + 1 = c /\ (a \div perPlane) + 1 = s
  BY <1>1, <1>2, <1>4, <1>5, <1>10, <1>11
<1>14. SourceByte(a) =
         (image.samples[y][x][IF image.mode # "none" THEN c ELSE s]
            \div 2^((IF FromStream /\ image.mode = "none" THEN b - 1 - (k - 1) ELSE k - 1) * ByteBits))
           % 2^ByteBits
  BY <1>2, <1>8, <1>11, <1>12, <1>13, Zenon DEF SourceByte, perPlane, h
<1>15. b - 1 - (k - 1) = b - k
  BY <1>1
<1> QED
  BY <1>14, <1>15 DEF ComponentOf, ByteOf, FromStream, a, h, q, p, b, row, InterfaceIsKept

\* A sample fits the bytes it has.
LEMMA SampleInBytes ==
  ASSUME InterfaceIsKept, NEW i \in Images, NEW v \in Values(i.bits)
  PROVE  v \in Nat /\ v < 65536 /\ (SampleBytes(i) = 1 => v < 256)
<1>1. i.bits \in 1..16 /\ (SampleBytes(i) = 1 <=> i.bits <= 8)
  BY Numbers
<1> QED  BY <1>1, ValuesOfBits

\* The bytes of sample v, as a source of image i holds them.
IsSample(f, i, v) ==
  /\ Len(f) = SampleBytes(i)
  /\ \A k \in 1..SampleBytes(i) :
       f[k] = ByteOf(v, IF i.source.kind = "stream" /\ i.mode = "none" THEN SampleBytes(i) - k
                        ELSE k - 1)

\* One or two bytes make up the sample again, in either order.
LEMMA SampleIsRead ==
  ASSUME InterfaceIsKept, image \in Images, NEW v \in Values(image.bits), NEW f,
         IsSample(f, image, v)
  PROVE  ReadSample(f) = v
<1> DEFINE swaps == image.source.kind = "stream" /\ image.mode = "none"
           b == SampleBytes(image)
<1>1. b \in {1, 2}
  BY Numbers
<1>2. v \in Nat /\ v < 65536 /\ (b = 1 => v < 256)
  BY SampleInBytes
<1>3. /\ b = 1 => \A g : SampleOf(g) = g[1]
      /\ b = 2 => \A g : SampleOf(g) = g[1] + g[2] * 256
  <2>1. BytesPerSample = b /\ 2^ByteBits = 256
    BY SizesOfImage DEF InterfaceIsKept
  <2> HIDE DEF b
  <2> QED  BY <2>1 DEF SampleOf
<1>4. ReadSample(f) = SampleOf(IF swaps THEN Reverse(f) ELSE f)
  BY DEF ReadSample, Interleaved, FromStream
<1>5. /\ ByteOf(v, 0) = v % 256 /\ ByteOf(v, 1) = (v \div 256) % 256
      /\ ByteOf(v, 0) + ByteOf(v, 1) * 256 = v
  BY <1>2, BytesOfSample
<1>6. Len(f) = b /\ \A k \in 1..b : f[k] = ByteOf(v, IF swaps THEN b - k ELSE k - 1)
  BY DEF IsSample
<1> HIDE DEF swaps, b
<1>7. CASE b = 1
  <2>1. f[1] = ByteOf(v, 0) /\ Len(f) = 1
    BY <1>6, <1>7
  <2>2. Reverse(f)[1] = f[1]
    BY <2>1, ReversedBytes
  <2>3. v % 256 = v
    BY <1>2, <1>7
  <2> QED  BY <1>3, <1>4, <1>5, <1>7, <2>1, <2>2, <2>3
<1>8. CASE b = 2
  <2>1. Len(f) = 2
    BY <1>6, <1>8
  <2>2. f[1] = ByteOf(v, IF swaps THEN 1 ELSE 0) /\ f[2] = ByteOf(v, IF swaps THEN 0 ELSE 1)
    BY <1>6, <1>8
  <2>3. Reverse(f)[1] = f[2] /\ Reverse(f)[2] = f[1]
    BY <2>1, ReversedBytes
  <2>4. ReadSample(f) = ByteOf(v, 0) + ByteOf(v, 1) * 256
    BY <1>3, <1>4, <1>8, <2>2, <2>3
  <2> QED  BY <1>5, <2>4
<1> QED  BY <1>1, <1>7, <1>8

\* What an encoder reads at the start of a line is that line.
LEMMA PixelsOfLine ==
  ASSUME InterfaceIsKept, image \in Images,
         NEW s \in 1..PlanesOf(image), NEW y \in 1..image.height
  PROVE  PixelsAt(LineStart(s, y, image.height, SourceRow(image))) = RawPixels(image, s, y)
<1> DEFINE place == LineStart(s, y, image.height, SourceRow(image))
           b == SampleBytes(image)
           p == PerPixel(image)
           Bytes(first) == [k \in 1..BytesPerSample |-> SourceByte(first + k - 1)]
<1>1. /\ b \in Nat \ {0} /\ p \in Nat \ {0} /\ BytesPerSample = b /\ PixelSamples = p
  BY Numbers, SizesOfImage
<1>2. ASSUME NEW x \in 1..image.width, NEW c \in 1..p
      PROVE  ReadSample(Bytes(place + ((x - 1) * PixelSamples + c - 1) * BytesPerSample))
               = image.samples[y][x][ComponentOf(image, s, c)]
  <2> DEFINE v == image.samples[y][x][ComponentOf(image, s, c)]
             first == place + ((x - 1) * PixelSamples + c - 1) * BytesPerSample
  <2>1. v \in Values(image.bits)
    <3>1. ComponentOf(image, s, c) \in 1..image.components
      BY DEF ComponentOf, PlanesOf, PerPixel
    <3> QED  BY <3>1 DEF InterfaceIsKept, ImageFits
  <2>2. place \in Int
    BY Numbers, Rows DEF LineStart
  <2> HIDE DEF place
  <2>3. ASSUME NEW k \in 1..b
        PROVE  first + k - 1 = place + PlaceInLine(p, b, x, c, k)
    <3>1. ((x - 1) * p + c - 1) * b \in Int
      BY <1>1
    <3> QED  BY <1>1, <2>2, <3>1 DEF PlaceInLine
  <2> HIDE DEF v, first
  <2>4. Bytes(first) =
          [k \in 1..b |-> ByteOf(v, IF image.source.kind = "stream" /\ image.mode = "none" THEN b - k ELSE k - 1)]
    <3>1. ASSUME NEW k \in 1..b
          PROVE  SourceByte(first + k - 1)
                   = ByteOf(v, IF image.source.kind = "stream" /\ image.mode = "none" THEN b - k ELSE k - 1)
      <4>1. SourceByte(place + PlaceInLine(p, b, x, c, k))
              = ByteOf(v, IF image.source.kind = "stream" /\ image.mode = "none" THEN b - k ELSE k - 1)
        BY SourceBytes DEF v, place
      <4>2. first + k - 1 = place + PlaceInLine(p, b, x, c, k)
        BY <2>3
      <4> QED  BY <4>1, <4>2, Zenon
    <3> QED  BY <1>1, <3>1
  <2>5. IsSample(Bytes(first), image, v)
    <3> HIDE DEF Bytes
    <3> QED  BY <1>1, <2>4 DEF IsSample
  <2> HIDE DEF Bytes
  <2>6. ReadSample(Bytes(first)) = v
    BY <2>1, <2>5, SampleIsRead
  <2> QED  BY <2>6 DEF v, first
<1> HIDE DEF place
<1>3. PixelsAt(place) =
        [x \in 1..image.width |-> [c \in 1..p |->
           ReadSample(Bytes(place + ((x - 1) * PixelSamples + c - 1) * BytesPerSample))]]
  BY <1>1 DEF PixelsAt
<1> HIDE DEF Bytes
<1> QED  BY <1>2, <1>3, Zenon DEF RawPixels, place, p

-----------------------------------------------------------------------------
(* The pixels of the codec.                                                *)

Width(i) == SampleBytes(i) * ByteBits
Shift(i) == IF i.transformation = "none" \/ i.bits = Width(i) THEN 0 ELSE 2 * ByteBits - i.bits

TransformationOf(i) == [kind |-> i.transformation, width |-> Width(i), shift |-> Shift(i)]

CodedPixel(i, p) == IF i.mode = "none" THEN p ELSE TransformPixel(TransformationOf(i), p)
DecodedPixel(i, p) == IF i.mode = "none" THEN p ELSE InversePixel(TransformationOf(i), p)

\* A pixel as the source has it.
IsPixel(i, p) == p \in [1..PerPixel(i) -> Values(i.bits)]

\* A value of the type, shifted down, has the bits of a sample.
LEMMA ShiftedDown ==
  ASSUME NEW m \in Nat \ {0}, NEW n \in Nat, NEW a \in 0..(n * m - 1)
  PROVE  a \div m \in 0..(n - 1)
<1>1. PICK q \in 0..(n - 1), r \in 0..(m - 1) : a = q * m + r
  BY PlaceInRows
<1>2. a \div m = q
  BY <1>1, DivMod
<1> QED  BY <1>1, <1>2

\* Shifting up and down again changes nothing.
LEMMA ShiftedUp ==
  ASSUME NEW m \in Nat \ {0}, NEW q \in Int
  PROVE  (q * m) \div m = q
<1>1. 0 \in 0..(m - 1) /\ q * m = q * m + 0
  OBVIOUS
<1> QED  BY <1>1, DivMod

\* A cast of multiples of m to a type of n * m values is a multiple of m.
LEMMA CastOfMultiples ==
  ASSUME NEW m \in Nat \ {0}, NEW n \in Nat \ {0}, NEW t \in Int
  PROVE  (t * m) % (n * m) = (t % n) * m
<1>1. t = n * (t \div n) + (t % n) /\ t \div n \in Int /\ t % n \in 0..(n - 1)
  OBVIOUS
<1> DEFINE d == t \div n
           e == t % n
<1>2. t = n * d + e /\ d \in Int /\ e \in 0..(n - 1)
  BY <1>1
<1> HIDE DEF d, e
<1>3. t * m = d * (n * m) + e * m /\ n * m \in Nat \ {0}
  BY <1>2
<1>4. 0 \in 0..(m - 1) /\ e * m + 0 = e * m
  BY <1>2
<1>5. e * m + 0 \in 0..(n * m - 1)
  BY <1>2, <1>4, WithinRows
<1> DEFINE M == n * m
           r == e * m
<1>6. M \in Nat \ {0} /\ d \in Int /\ r \in 0..(M - 1) /\ t * m = d * M + r
  BY <1>2, <1>3, <1>4, <1>5
<1> HIDE DEF M, r
<1>7. (d * M + r) % M = r
  BY <1>6, DivMod
<1>8. (t * m) % M = r
  BY <1>6, <1>7
<1> QED  BY <1>8, Zenon DEF M, r, e

\* The type of the samples and the shift to its high bits.
LEMMA WidthAndShift ==
  ASSUME InterfaceIsKept, NEW i \in Images
  PROVE  /\ Width(i) \in {8, 16} /\ Shift(i) \in {0, 1, 2, 3, 4, 5, 6, 7}
         /\ PowerOf(Shift(i)) \in Nat \ {0} /\ PowerOf(Width(i)) \in Nat \ {0}
         /\ Shift(i) = 0 => PowerOf(Shift(i)) = 1
         /\ Shift(i) # 0 => Width(i) = 16
         /\ i.transformation = "none" => Shift(i) = 0 /\ PowerOf(i.bits) <= PowerOf(Width(i))
         /\ i.transformation # "none" =>
              PowerOf(Width(i)) = PowerOf(i.bits) * PowerOf(Shift(i))
<1>1. /\ i.bits \in 1..16 /\ ByteBits = 8 /\ SampleBytes(i) \in {1, 2}
      /\ SampleBytes(i) = 1 <=> i.bits <= 8
  BY Numbers DEF InterfaceIsKept
<1>2. i.transformation # "none" => i.bits >= 8
  BY <1>1, ImageAssumption
<1>3. Width(i) \in {8, 16} /\ (Width(i) = 8 <=> i.bits <= 8)
  BY <1>1 DEF Width
<1>4. /\ Shift(i) \in {0, 1, 2, 3, 4, 5, 6, 7}
      /\ i.transformation = "none" => Shift(i) = 0
      /\ Shift(i) # 0 => Width(i) = 16 /\ i.bits = 16 - Shift(i)
      /\ i.transformation # "none" /\ Shift(i) = 0 => i.bits = Width(i)
  BY <1>1, <1>2, <1>3 DEF Shift
<1>5. PowerOf(0) = 1 /\ PowerOf(8) = 256 /\ PowerOf(16) = 65536
  BY DEF PowerOf
<1>6. PowerOf(i.bits) \in Nat \ {0} /\ PowerOf(i.bits) <= 65536 /\ (i.bits <= 8 => PowerOf(i.bits) <= 256)
  BY <1>1, Powers
<1>7. \A s \in {1, 2, 3, 4, 5, 6, 7} : PowerOf(s) \in Nat \ {0} /\ PowerOf(16 - s) * PowerOf(s) = 65536
  <2>1. /\ PowerOf(1) = 2 /\ PowerOf(2) = 4 /\ PowerOf(3) = 8 /\ PowerOf(4) = 16
        /\ PowerOf(5) = 32 /\ PowerOf(6) = 64 /\ PowerOf(7) = 128
    BY DEF PowerOf
  <2>2. /\ PowerOf(15) = 32768 /\ PowerOf(14) = 16384 /\ PowerOf(13) = 8192
        /\ PowerOf(12) = 4096 /\ PowerOf(11) = 2048 /\ PowerOf(10) = 1024 /\ PowerOf(9) = 512
    BY DEF PowerOf
  <2> SUFFICES ASSUME NEW s \in {1, 2, 3, 4, 5, 6, 7}
               PROVE  PowerOf(s) \in Nat \ {0} /\ PowerOf(16 - s) * PowerOf(s) = 65536
    OBVIOUS
  <2>3. /\ 16 - 1 = 15 /\ 16 - 2 = 14 /\ 16 - 3 = 13 /\ 16 - 4 = 12
        /\ 16 - 5 = 11 /\ 16 - 6 = 10 /\ 16 - 7 = 9
    OBVIOUS
  <2>4. CASE s = 1  BY <2>1, <2>2, <2>3, <2>4
  <2>5. CASE s = 2  BY <2>1, <2>2, <2>3, <2>5
  <2>6. CASE s = 3  BY <2>1, <2>2, <2>3, <2>6
  <2>7. CASE s = 4  BY <2>1, <2>2, <2>3, <2>7
  <2>8. CASE s = 5  BY <2>1, <2>2, <2>3, <2>8
  <2>9. CASE s = 6  BY <2>1, <2>2, <2>3, <2>9
  <2>10. CASE s = 7  BY <2>1, <2>2, <2>3, <2>10
  <2> QED  BY <2>4, <2>5, <2>6, <2>7, <2>8, <2>9, <2>10
<1>8. CASE Shift(i) = 0
  BY <1>3, <1>4, <1>5, <1>6, <1>8
<1>9. CASE Shift(i) # 0
  BY <1>3, <1>4, <1>5, <1>6, <1>7, <1>9
<1> QED  BY <1>8, <1>9

\* What a transformation yields, shifted down, with the fourth sample of the pixel.
Joined(f, s, p) == ShiftDown(f, s) \o Alpha(p)

\* Its samples are those of V that were shifted down.
ShiftsInto(f, s, V) == \A k \in 1..3 : f[k] \div PowerOf(s) \in V

IsJoined(j, f, s, p, n, V) ==
  /\ j \in [1..n -> V]
  /\ \A k \in 1..3 : j[k] = f[k] \div PowerOf(s)
  /\ n = 4 => j[4] = p[4]

\* The result has the samples of both parts, in their order.
LEMMA JoinedParts ==
  ASSUME NEW n \in {3, 4}, NEW V, NEW p \in [1..n -> V], NEW s, NEW f, ShiftsInto(f, s, V)
  PROVE  IsJoined(Joined(f, s, p), f, s, p, n, V)
<1> DEFINE d == ShiftDown(f, s)
           a == Alpha(p)
<1>1. d = [k \in 1..3 |-> f[k] \div PowerOf(s)]
  BY DEF ShiftDown, PowerOf
<1>2. d \in Seq(V) /\ Len(d) = 3 /\ \A k \in 1..3 : d[k] = f[k] \div PowerOf(s)
  <2> DEFINE g == <<f[1] \div PowerOf(s), f[2] \div PowerOf(s), f[3] \div PowerOf(s)>>
  <2>1. d = g
    BY <1>1
  <2> HIDE DEF d
  <2>2. g \in Seq(V) /\ Len(g) = 3
    BY DEF ShiftsInto
  <2>3. \A k \in 1..3 : g[k] = f[k] \div PowerOf(s)
    OBVIOUS
  <2> HIDE DEF g
  <2> QED  BY <2>1, <2>2, <2>3
<1>3. Len(p) = n
  OBVIOUS
<1>4. a = SubSeq(p, 4, n)
  BY <1>3 DEF Alpha
<1>5. a \in Seq(V) /\ Len(a) = n - 3 /\ (n = 4 => a[1] = p[4])
  <2>1. \A k \in 4..n : p[k] \in V
    OBVIOUS
  <2>2. /\ SubSeq(p, 4, n) \in Seq(V)
        /\ Len(SubSeq(p, 4, n)) = IF 4 <= n THEN n - 4 + 1 ELSE 0
        /\ \A k \in 1..(n - 4 + 1) : SubSeq(p, 4, n)[k] = p[4 + k - 1]
    <3>1. 4 \in Int /\ n \in Int
      OBVIOUS
    <3> QED  BY <2>1, <3>1, SubSeqProperties
  <2> HIDE DEF a
  <2> QED  BY <1>4, <2>2
<1> HIDE DEF d, a
<1>6. /\ d \o a \in Seq(V) /\ Len(d \o a) = n
      /\ \A k \in 1..n : (d \o a)[k] = IF k <= 3 THEN d[k] ELSE a[k - 3]
  <2>1. Len(d) + Len(a) = n
    BY <1>2, <1>5
  <2>2. /\ d \o a \in Seq(V) /\ Len(d \o a) = Len(d) + Len(a)
        /\ \A k \in 1..(Len(d) + Len(a)) :
             (d \o a)[k] = IF k <= Len(d) THEN d[k] ELSE a[k - Len(d)]
    BY <1>2, <1>5, ConcatProperties, Zenon
  <2> QED  BY <1>2, <2>1, <2>2, Zenon
<1> DEFINE j == d \o a
<1>7. j \in [1..n -> V]
  BY <1>6, LenProperties
<1> HIDE DEF j
<1>8. /\ \A k \in 1..3 : j[k] = f[k] \div PowerOf(s)
      /\ n = 4 => j[4] = p[4]
  BY <1>2, <1>5, <1>6 DEF j
<1>9. Joined(f, s, p) = j
  BY DEF Joined, d, a, j
<1> QED  BY <1>7, <1>8, <1>9 DEF IsJoined

\* Both directions take the first three samples of a pixel.
LEMMA OfThreeSamples ==
  ASSUME NEW kind \in ColorTransformations, NEW w, NEW f, NEW g,
         f[1] = g[1], f[2] = g[2], f[3] = g[3]
  PROVE  Forward(kind, w, f) = Forward(kind, w, g) /\ Backward(kind, w, f) = Backward(kind, w, g)
<1>1. Forward(kind, w, f) = Forward(kind, w, g)
  BY DEF Forward, ColorTransformations
<1>2. Backward(kind, w, f) = Backward(kind, w, g)
  BY DEF Backward, ColorTransformations
<1> QED  BY <1>1, <1>2

\* What a transformation and its inverse yield are values of the type.
LEMMA TransformsInType ==
  ASSUME NEW kind \in ColorTransformations, NEW w \in {8, 16}, NEW f,
         f[1] \in Int, f[2] \in Int, f[3] \in Int
  PROVE  \A k \in 1..3 : /\ Forward(kind, w, f)[k] \in Values(w)
                         /\ Backward(kind, w, f)[k] \in Values(w)
<1> DEFINE m == 2^w
           h == Half(w)
           q == Quarter(w)
<1>1. m \in Nat \ {0} /\ h \in Nat /\ q \in Nat
  BY RangeOfWidth
<1>2. ASSUME NEW a \in Int, NEW b \in Int, NEW c \in Int
      PROVE  \A k \in 1..3 : Triplet(w, a, b, c)[k] \in Values(w)
  <2>1. Triplet(w, a, b, c) = <<a % m, b % m, c % m>>
    BY DEF Triplet
  <2>2. Values(w) = 0..(m - 1)
    BY DEF Values, PowerOf
  <2> HIDE DEF m
  <2>3. a % m \in 0..(m - 1) /\ b % m \in 0..(m - 1) /\ c % m \in 0..(m - 1)
    BY <1>1
  <2> QED  BY <2>1, <2>2, <2>3
<1>3. CASE kind = "none"
  <2>1. /\ Forward(kind, w, f) = Triplet(w, f[1], f[2], f[3])
        /\ Backward(kind, w, f) = Triplet(w, f[1], f[2], f[3])
    BY <1>3 DEF Forward, Backward
  <2> QED  BY <1>2, <2>1
<1>4. CASE kind = "hp1"
  <2>1. /\ Forward(kind, w, f) = Triplet(w, f[1] - f[2] + h, f[2], f[3] - f[2] + h)
        /\ Backward(kind, w, f) = Triplet(w, f[1] + f[2] - h, f[2], f[3] + f[2] - h)
    BY <1>4 DEF Forward, TransformHp1, Backward, InverseHp1
  <2> HIDE DEF h
  <2>2. /\ f[1] - f[2] + h \in Int /\ f[3] - f[2] + h \in Int
        /\ f[1] + f[2] - h \in Int /\ f[3] + f[2] - h \in Int
    BY <1>1
  <2> QED  BY <1>2, <2>1, <2>2
<1>5. CASE kind = "hp2"
  <2> DEFINE red == (f[1] + f[2] - h) % m
  <2>1. /\ Forward(kind, w, f)
             = Triplet(w, f[1] - f[2] + h, f[2], f[3] - (f[1] + f[2]) \div 2 - h)
        /\ Backward(kind, w, f) = Triplet(w, red, f[2], f[3] + (red + f[2]) \div 2 - h)
    BY <1>5 DEF Forward, TransformHp2, Backward, InverseHp2
  <2> HIDE DEF h, m
  <2>2. /\ f[1] - f[2] + h \in Int /\ f[3] - (f[1] + f[2]) \div 2 - h \in Int
        /\ red \in Int
    BY <1>1
  <2> HIDE DEF red
  <2>3. f[3] + (red + f[2]) \div 2 - h \in Int
    BY <1>1, <2>2
  <2> QED  BY <1>2, <2>1, <2>2, <2>3
<1>6. CASE kind = "hp3"
  <2> DEFINE v2 == (f[3] - f[2] + h) % m
             v3 == (f[1] - f[2] + h) % m
             v1 == ((f[2] + (v2 + v3) \div 4) % m) - q
             green == f[1] - (f[3] + f[2]) \div 4 + q
  <2>1. /\ Forward(kind, w, f) = Triplet(w, v1, v2, v3)
        /\ Backward(kind, w, f) = Triplet(w, f[3] + green - h, green, f[2] + green - h)
    BY <1>6 DEF Forward, TransformHp3, Backward, InverseHp3
  <2> HIDE DEF m, h, q
  <2>2. v2 \in Int /\ v3 \in Int /\ green \in Int
    BY <1>1
  <2> HIDE DEF v2, v3, green
  <2>3. v1 \in Int /\ f[3] + green - h \in Int /\ f[2] + green - h \in Int
    BY <1>1, <2>2
  <2> HIDE DEF v1
  <2> QED  BY <1>2, <2>1, <2>2, <2>3
<1> QED  BY <1>3, <1>4, <1>5, <1>6 DEF ColorTransformations

\* A sample, shifted up, is a value of the type.
LEMMA ShiftedSample ==
  ASSUME InterfaceIsKept, NEW i \in Images, NEW v \in Values(i.bits)
  PROVE  v * PowerOf(Shift(i)) \in Values(Width(i)) /\ v \in Nat
<1> DEFINE m == PowerOf(Shift(i))
           n == PowerOf(i.bits)
<1>1. m \in Nat \ {0} /\ n \in Nat \ {0} /\ v \in 0..(n - 1)
  BY WidthAndShift, Numbers, Powers DEF Values
<1>2. CASE i.transformation = "none"
  <2>1. m = 1 /\ n <= PowerOf(Width(i)) /\ PowerOf(Width(i)) \in Nat
    BY <1>2, WidthAndShift
  <2> HIDE DEF m, n
  <2>2. v * m = v /\ v \in 0..(PowerOf(Width(i)) - 1)
    BY <1>1, <2>1
  <2> QED  BY <1>1, <2>2 DEF Values, m
<1>3. CASE i.transformation # "none"
  <2>1. PowerOf(Width(i)) = n * m
    BY <1>3, WidthAndShift
  <2> HIDE DEF m, n
  <2>2. 0 \in 0..(m - 1) /\ v * m + 0 = v * m
    BY <1>1
  <2>3. v * m + 0 \in 0..(n * m - 1)
    BY <1>1, <2>2, WithinRows
  <2> QED  BY <1>1, <2>1, <2>2, <2>3 DEF Values, m
<1> QED  BY <1>2, <1>3

\* Three values of the type, shifted down, and a sample that was one: a pixel again.
LEMMA JoinedPixel ==
  ASSUME InterfaceIsKept, NEW i \in Images, i.mode # "none", NEW p, IsPixel(i, p), NEW f,
         \A k \in 1..3 : f[k] \in Values(Width(i)),
         i.transformation = "none" => \A k \in 1..3 : f[k] = p[k]
  PROVE  /\ IsPixel(i, Joined(f, Shift(i), p))
         /\ \A k \in 1..3 : Joined(f, Shift(i), p)[k] = f[k] \div PowerOf(Shift(i))
         /\ PerPixel(i) = 4 => Joined(f, Shift(i), p)[4] = p[4]
<1> DEFINE m == PowerOf(Shift(i))
           n == PowerOf(i.bits)
<1>1. m \in Nat \ {0} /\ n \in Nat \ {0}
  BY WidthAndShift, Numbers, Powers
<1>2. PerPixel(i) \in {3, 4}
  BY ImageAssumption DEF PerPixel
<1>3. p \in [1..PerPixel(i) -> Values(i.bits)]
  BY DEF IsPixel
<1>4. \A k \in 1..3 : f[k] \div m \in Values(i.bits)
  <2>1. CASE i.transformation = "none"
    <3>1. m = 1
      BY <2>1, WidthAndShift
    <3>2. \A k \in 1..3 : f[k] \in Values(i.bits) /\ f[k] \in Int
      BY <1>1, <1>2, <1>3, <2>1 DEF Values
    <3> HIDE DEF m
    <3>3. \A k \in 1..3 : f[k] \div m = f[k]
      BY <3>1, <3>2
    <3> QED  BY <3>2, <3>3
  <2>2. CASE i.transformation # "none"
    <3>1. PowerOf(Width(i)) = n * m
      BY <2>2, WidthAndShift
    <3>2. \A k \in 1..3 : f[k] \in 0..(n * m - 1)
      BY <3>1 DEF Values
    <3> HIDE DEF m, n
    <3>3. \A k \in 1..3 : f[k] \div m \in 0..(n - 1)
      BY <1>1, <3>2, ShiftedDown
    <3> QED  BY <3>3 DEF Values, n
  <2> QED  BY <2>1, <2>2
<1> DEFINE s == Shift(i)
           V == Values(i.bits)
           e == PerPixel(i)
           j == Joined(f, s, p)
<1>5. ShiftsInto(f, s, V)
  BY <1>4 DEF ShiftsInto
<1>6. IsJoined(j, f, s, p, e, V)
  <2>1. e \in {3, 4} /\ p \in [1..e -> V]
    BY <1>2, <1>3
  <2> HIDE DEF s, V, e
  <2> QED  BY <1>5, <2>1, JoinedParts
<1> QED  BY <1>6 DEF IsPixel, IsJoined

\* The transformation none leaves the samples of a pixel as they are.
LEMMA UntransformedSamples ==
  ASSUME InterfaceIsKept, NEW i \in Images, i.transformation = "none",
         NEW p, \A k \in 1..3 : p[k] \in Values(i.bits)
  PROVE  \A k \in 1..3 :
           /\ Forward(i.transformation, Width(i), ShiftUp(p, Shift(i)))[k] = p[k]
           /\ Backward(i.transformation, Width(i), ShiftUp(p, Shift(i)))[k] = p[k]
<1> DEFINE w == Width(i)
           s == Shift(i)
           u == ShiftUp(p, s)
           f == Forward("none", w, u)
           m == 2^w
<1>1. w \in {8, 16} /\ PowerOf(s) = 1
  BY WidthAndShift
<1>2. \A k \in 1..3 : p[k] \in Int /\ p[k] * PowerOf(s) \in Values(w)
  BY ShiftedSample
<1>3. \A k \in 1..3 : u[k] = p[k] * PowerOf(s)
  BY DEF ShiftUp, PowerOf
<1> HIDE DEF u, s
<1>4. \A k \in 1..3 : u[k] = p[k]
  BY <1>1, <1>2, <1>3
<1>5. f = <<u[1] % m, u[2] % m, u[3] % m>> /\ Backward("none", w, u) = f
  BY DEF Forward, Backward, Triplet
<1>6. \A k \in 1..3 : u[k] \in 0..(m - 1) /\ m \in Nat \ {0}
  BY <1>1, <1>2, <1>3, RangeOfWidth DEF Values, PowerOf
<1> HIDE DEF w, f, m
<1>7. \A k \in 1..3 : u[k] % m = u[k]
  BY <1>6, InRangeIsCast
<1>8. \A k \in 1..3 : f[k] = p[k]
  BY <1>4, <1>5, <1>7
<1> QED  BY <1>5, <1>8 DEF f, w, u, s

\* A pixel is coded as samples that the codec takes, and decoded as such again,
\* whatever the transformation.
LEMMA PixelCoded ==
  ASSUME InterfaceIsKept, NEW i \in Images, NEW p, IsPixel(i, p)
  PROVE  IsPixel(i, CodedPixel(i, p)) /\ IsPixel(i, DecodedPixel(i, p))
<1>1. CASE i.mode = "none"
  BY <1>1 DEF CodedPixel, DecodedPixel
<1>2. CASE i.mode # "none"
  <2> DEFINE w == Width(i)
             s == Shift(i)
             kind == i.transformation
             u == ShiftUp(p, s)
             f == Forward(kind, w, u)
             g == Backward(kind, w, u)
  <2>1. kind \in ColorTransformations /\ w \in {8, 16}
    BY WidthAndShift DEF InterfaceIsKept, ImageFits
  <2>2. /\ CodedPixel(i, p) = Joined(f, s, p)
        /\ DecodedPixel(i, p) = Joined(g, s, p)
    BY <1>2 DEF CodedPixel, DecodedPixel, TransformPixel, InversePixel, TransformationOf, Joined
  <2>3. \A k \in 1..3 : p[k] \in Values(i.bits)
    BY <1>2, ImageAssumption DEF IsPixel, PerPixel
  <2>4. \A k \in 1..3 : u[k] = p[k] * PowerOf(s)
    BY DEF ShiftUp, PowerOf
  <2> HIDE DEF u
  <2>5. \A k \in 1..3 : u[k] \in Values(w)
    BY <2>3, <2>4, ShiftedSample
  <2>6. \A k \in 1..3 : u[k] \in Int
    BY <2>5 DEF Values
  <2>7. \A k \in 1..3 : f[k] \in Values(w) /\ g[k] \in Values(w)
    BY <2>1, <2>6, TransformsInType
  <2>8. kind = "none" => \A k \in 1..3 : f[k] = p[k] /\ g[k] = p[k]
    BY <2>3, UntransformedSamples DEF u
  <2> HIDE DEF f, g
  <2>9. IsPixel(i, Joined(f, s, p))
    BY <1>2, <2>7, <2>8, JoinedPixel
  <2>10. IsPixel(i, Joined(g, s, p))
    BY <1>2, <2>7, <2>8, JoinedPixel
  <2> QED  BY <2>2, <2>9, <2>10
<1> QED  BY <1>1, <1>2

\* A value that a shift down and up again leaves as it is.
IsMultiple(v, m) == (v \div m) * m = v

\* HP1 takes differences to the middle sample, and no mean: what was shifted up stays a
\* multiple of the shift.
LEMMA Hp1KeepsMultiples ==
  ASSUME NEW m \in Nat \ {0}, NEW h \in Nat \ {0}, NEW w \in {8, 16}, PowerOf(w) = 2 * h * m,
         NEW p, p[1] \in Nat, p[2] \in Nat, p[3] \in Nat,
         NEW u, u[1] = p[1] * m, u[2] = p[2] * m, u[3] = p[3] * m
  PROVE  \A k \in 1..3 : IsMultiple(Forward("hp1", w, u)[k], m)
<1> DEFINE n == 2 * h
           M == 2^w
           H == Half(w)
           f == Forward("hp1", w, u)
<1>1. n \in Nat \ {0} /\ M = n * m /\ H = h * m
  <2>1. 2 * H = M /\ H \in Nat /\ M = 2 * h * m
    BY RangeOfWidth DEF PowerOf
  <2> HIDE DEF H, M
  <2>2. h * m \in Nat /\ n * m = 2 * (h * m)
    OBVIOUS
  <2> QED  BY <2>1, <2>2
<1>2. f = <<(u[1] - u[2] + H) % M, u[2] % M, (u[3] - u[2] + H) % M>>
  BY DEF Forward, TransformHp1, Triplet
<1> HIDE DEF n, M, H, f
<1>3. /\ u[1] - u[2] + H = (p[1] - p[2] + h) * m
      /\ u[3] - u[2] + H = (p[3] - p[2] + h) * m
      /\ p[1] - p[2] + h \in Int /\ p[3] - p[2] + h \in Int
  BY <1>1
<1>4. ASSUME NEW t \in Int
      PROVE  IsMultiple((t * m) % M, m)
  <2>1. t % n \in Int
    BY <1>1
  <2>2. (t * m) % (n * m) = (t % n) * m
    BY <1>1, CastOfMultiples
  <2>3. ((t % n) * m) \div m = t % n
    BY <2>1, ShiftedUp
  <2> QED  BY <1>1, <2>2, <2>3, Zenon DEF IsMultiple
<1> DEFINE a == (u[1] - u[2] + H) % M
           b == u[2] % M
           c == (u[3] - u[2] + H) % M
<1>5. /\ a = ((p[1] - p[2] + h) * m) % M
      /\ b = (p[2] * m) % M
      /\ c = ((p[3] - p[2] + h) * m) % M
  BY <1>3
<1>6. IsMultiple(a, m) /\ IsMultiple(b, m) /\ IsMultiple(c, m)
  <2>1. p[1] - p[2] + h \in Int /\ p[2] \in Int /\ p[3] - p[2] + h \in Int
    BY <1>3
  <2> HIDE DEF a, b, c
  <2> QED  BY <1>4, <1>5, <2>1
<1>7. f = <<a, b, c>>
  BY <1>2
<1> HIDE DEF a, b, c
<1>8. \A k \in 1..3 : IsMultiple(f[k], m)
  BY <1>6, <1>7
<1> QED  BY <1>8 DEF f

\* The range of samples of a byte or more has a half.
LEMMA HalfOfDepth ==
  ASSUME NEW b \in 8..16
  PROVE  \E h \in Nat \ {0} : PowerOf(b) = 2 * h
<1>1. CASE b = 8  BY <1>1, 128 \in Nat \ {0}, 2 * 128 = 256 DEF PowerOf
<1>2. CASE b = 9  BY <1>2, 256 \in Nat \ {0}, 2 * 256 = 512 DEF PowerOf
<1>3. CASE b = 10  BY <1>3, 512 \in Nat \ {0}, 2 * 512 = 1024 DEF PowerOf
<1>4. CASE b = 11  BY <1>4, 1024 \in Nat \ {0}, 2 * 1024 = 2048 DEF PowerOf
<1>5. CASE b = 12  BY <1>5, 2048 \in Nat \ {0}, 2 * 2048 = 4096 DEF PowerOf
<1>6. CASE b = 13  BY <1>6, 4096 \in Nat \ {0}, 2 * 4096 = 8192 DEF PowerOf
<1>7. CASE b = 14  BY <1>7, 8192 \in Nat \ {0}, 2 * 8192 = 16384 DEF PowerOf
<1>8. CASE b = 15  BY <1>8, 16384 \in Nat \ {0}, 2 * 16384 = 32768 DEF PowerOf
<1>9. CASE b = 16  BY <1>9, 32768 \in Nat \ {0}, 2 * 32768 = 65536 DEF PowerOf
<1> QED  BY <1>1, <1>2, <1>3, <1>4, <1>5, <1>6, <1>7, <1>8, <1>9

\* Samples that are shifted for a transformation are restored by HP1 only.
Restorable(i) == i.mode = "none" \/ i.transformation \in {"none", "hp1"} \/ i.bits = Width(i)

\* The decoder has the pixel of the encoder again.
LEMMA PixelRestored ==
  ASSUME InterfaceIsKept, NEW i \in Images, Restorable(i), NEW p, IsPixel(i, p)
  PROVE  DecodedPixel(i, CodedPixel(i, p)) = p
<1>1. CASE i.mode = "none"
  BY <1>1 DEF CodedPixel, DecodedPixel
<1>2. CASE i.mode # "none"
  <2> DEFINE w == Width(i)
             s == Shift(i)
             m == PowerOf(s)
             kind == i.transformation
             u == ShiftUp(p, s)
             f == Forward(kind, w, u)
             c == Joined(f, s, p)
             v == ShiftUp(c, s)
             g == Backward(kind, w, v)
             d == Joined(g, s, c)
             t == <<u[1], u[2], u[3]>>
  <2>1. kind \in ColorTransformations /\ w \in {8, 16} /\ m \in Nat \ {0}
    BY WidthAndShift DEF InterfaceIsKept, ImageFits
  <2>2. CodedPixel(i, p) = c /\ DecodedPixel(i, c) = d
    BY <1>2 DEF CodedPixel, DecodedPixel, TransformPixel, InversePixel, TransformationOf, Joined
  <2>3. PerPixel(i) \in {3, 4} /\ p \in [1..PerPixel(i) -> Values(i.bits)]
    BY <1>2, ImageAssumption DEF IsPixel, PerPixel
  <2>4. /\ \A k \in 1..3 : u[k] = p[k] * m
        /\ \A k \in 1..3 : v[k] = c[k] * m
    BY DEF ShiftUp, PowerOf
  <2> HIDE DEF u, v
  <2>5. \A k \in 1..3 : u[k] \in Values(w) /\ u[k] \in Int /\ p[k] \in Nat
    <3>1. \A k \in 1..3 : u[k] \in Values(w) /\ p[k] \in Nat
      BY <2>3, <2>4, ShiftedSample
    <3> QED  BY <3>1 DEF Values
  <2>6. \A k \in 1..3 : f[k] \in Values(w) /\ f[k] \in Int
    <3>1. \A k \in 1..3 : f[k] \in Values(w)
      BY <2>1, <2>5, TransformsInType
    <3> QED  BY <3>1 DEF Values
  <2>7. \A k \in 1..3 : IsMultiple(f[k], m)
    <3>1. CASE s = 0
      <4>1. m = 1
        BY <3>1, WidthAndShift
      <4> HIDE DEF f, m
      <4> QED  BY <2>6, <4>1 DEF IsMultiple
    <3>2. CASE s # 0
      <4>1. kind = "hp1" /\ PowerOf(w) = PowerOf(i.bits) * m /\ i.bits \in 8..16
        <5>1. kind # "none" /\ i.bits # w
          BY <3>2 DEF Shift
        <5> QED  BY <1>2, <5>1, WidthAndShift, Numbers, ImageAssumption DEF Restorable, InterfaceIsKept
      <4>2. PICK h \in Nat \ {0} : PowerOf(i.bits) = 2 * h
        BY <4>1, HalfOfDepth
      <4>3. PowerOf(w) = 2 * h * m
        BY <4>1, <4>2
      <4>4. /\ p[1] \in Nat /\ p[2] \in Nat /\ p[3] \in Nat
            /\ u[1] = p[1] * m /\ u[2] = p[2] * m /\ u[3] = p[3] * m
        BY <2>4, <2>5
      <4> HIDE DEF m, w
      <4>5. \A k \in 1..3 : IsMultiple(Forward("hp1", w, u)[k], m)
        BY <2>1, <4>3, <4>4, Hp1KeepsMultiples
      <4>6. f = Forward("hp1", w, u)
        BY <4>1
      <4> HIDE DEF f
      <4> QED  BY <4>5, <4>6
    <3> QED  BY <3>1, <3>2
  <2>8. /\ \A k \in 1..3 : c[k] = f[k] \div m
        /\ PerPixel(i) = 4 => c[4] = p[4]
        /\ IsPixel(i, c)
        /\ kind = "none" => \A k \in 1..3 : f[k] = p[k]
    <3>1. kind = "none" => \A k \in 1..3 : f[k] = p[k]
      BY <2>3, UntransformedSamples DEF u
    <3>2. \A k \in 1..3 : f[k] \in Values(Width(i))
      BY <2>6
    <3> HIDE DEF f
    <3> QED  BY <1>2, <3>1, <3>2, JoinedPixel
  <2>9. \A k \in 1..3 : v[k] = f[k]
    BY <2>4, <2>7, <2>8 DEF IsMultiple
  <2>10. g = t
    <3>1. g = Backward(kind, w, f)
      <4> HIDE DEF f
      <4> QED  BY <2>1, <2>9, OfThreeSamples
    <3>2. f = Forward(kind, w, t)
      BY <2>1, OfThreeSamples
    <3>3. u[1] \in 0..(2^w - 1) /\ u[2] \in 0..(2^w - 1) /\ u[3] \in 0..(2^w - 1)
      BY <2>5 DEF Values, PowerOf
    <3>4. Backward(kind, w, Forward(kind, w, t)) = t
      BY <2>1, <3>3, TransformationsRestore
    <3> QED  BY <3>1, <3>2, <3>4
  <2>11. /\ \A k \in 1..3 : d[k] = t[k] \div m
         /\ PerPixel(i) = 4 => d[4] = c[4]
    <3>1. \A k \in 1..3 : t[k] \in Values(Width(i))
      BY <2>5
    <3>2. kind = "none" => \A k \in 1..3 : t[k] = c[k]
      <4>1. SUFFICES ASSUME kind = "none"
                     PROVE  \A k \in 1..3 : t[k] = c[k]
        OBVIOUS
      <4>2. m = 1
        BY <4>1, WidthAndShift
      <4>3. \A k \in 1..3 : c[k] = f[k] /\ f[k] = p[k] /\ u[k] = p[k]
        <5>1. \A k \in 1..3 : f[k] = p[k]
          BY <4>1, <2>8
        <5> HIDE DEF f, c, m
        <5>2. \A k \in 1..3 : f[k] \div m = f[k] /\ p[k] * m = p[k]
          BY <2>5, <2>6, <4>2
        <5> QED  BY <2>4, <2>8, <5>1, <5>2
      <4> HIDE DEF c, f
      <4> QED  BY <4>3
    <3>3. IsPixel(i, c)
      BY <2>8
    <3>4. /\ \A k \in 1..3 : Joined(t, s, c)[k] = t[k] \div m
          /\ PerPixel(i) = 4 => Joined(t, s, c)[4] = c[4]
      <4> HIDE DEF c, t
      <4> QED  BY <1>2, <3>1, <3>2, <3>3, JoinedPixel
    <3> HIDE DEF g, t
    <3> QED  BY <2>10, <3>4
  <2>12. /\ \A k \in 1..3 : d[k] = p[k]
         /\ PerPixel(i) = 4 => d[4] = p[4]
    <3>1. \A k \in 1..3 : t[k] = p[k] * m
      BY <2>4
    <3> HIDE DEF t, d, c, m
    <3>2. \A k \in 1..3 : (p[k] * m) \div m = p[k]
      BY <2>1, <2>5, ShiftedUp
    <3> QED  BY <2>8, <2>11, <3>1, <3>2
  <2>13. d \in [1..PerPixel(i) -> Values(i.bits)]
    BY <2>2, <2>8, PixelCoded DEF IsPixel
  <2> HIDE DEF d
  <2> QED  BY <2>2, <2>3, <2>12, <2>13
<1> QED  BY <1>1, <1>2

-----------------------------------------------------------------------------
(* Lines of the codec.                                                     *)

\* The line y of scan s, as it is coded, and all of those.
CodedRow(i, s, y) == [x \in 1..i.width |-> CodedPixel(i, RawPixels(i, s, y)[x])]

CodedRows(i) == {CodedRow(i, s, y) : s \in 1..PlanesOf(i), y \in 1..i.height}

\* The source consists of pixels.
LEMMA RawIsPixel ==
  ASSUME InterfaceIsKept, NEW i \in Images,
         NEW s \in 1..PlanesOf(i), NEW y \in 1..i.height, NEW x \in 1..i.width
  PROVE  IsPixel(i, RawPixels(i, s, y)[x])
<1>1. RawPixels(i, s, y)[x] = [c \in 1..PerPixel(i) |-> i.samples[y][x][ComponentOf(i, s, c)]]
  BY DEF RawPixels
<1>2. ASSUME NEW c \in 1..PerPixel(i)
      PROVE  i.samples[y][x][ComponentOf(i, s, c)] \in Values(i.bits)
  <2>1. ComponentOf(i, s, c) \in 1..i.components
    BY DEF ComponentOf, PlanesOf, PerPixel
  <2> QED  BY <2>1 DEF InterfaceIsKept, ImageFits
<1> QED  BY <1>1, <1>2 DEF IsPixel

\* A coded line is a line of pixels.
LEMMA CodedRowIsRow ==
  ASSUME InterfaceIsKept, NEW i \in Images,
         NEW s \in 1..PlanesOf(i), NEW y \in 1..i.height
  PROVE  /\ DOMAIN CodedRow(i, s, y) = 1..i.width
         /\ \A x \in 1..i.width : IsPixel(i, CodedRow(i, s, y)[x])
<1>1. DOMAIN CodedRow(i, s, y) = 1..i.width
  BY DEF CodedRow
<1>2. ASSUME NEW x \in 1..i.width
      PROVE  IsPixel(i, CodedRow(i, s, y)[x])
  <2>1. CodedRow(i, s, y)[x] = CodedPixel(i, RawPixels(i, s, y)[x])
    BY DEF CodedRow
  <2> QED  BY <2>1, RawIsPixel, PixelCoded
<1> QED  BY <1>1, <1>2

\* NewLineRequested hands the codec the line that the source has there.
LEMMA LineIsCoded ==
  ASSUME InterfaceIsKept, image \in Images,
         NEW s \in 1..PlanesOf(image), NEW y \in 1..image.height, NEW pixels,
         pixels = PixelsAt(LineStart(s, y, image.height, SourceRow(image)))
  PROVE  [x \in DOMAIN pixels |-> ToCodec(pixels[x])] = CodedRow(image, s, y)
<1>1. pixels = RawPixels(image, s, y)
  BY PixelsOfLine
<1>2. DOMAIN pixels = 1..image.width
  BY <1>1 DEF RawPixels
<1>3. \A p : ToCodec(p) = CodedPixel(image, p)
  <2>1. Transformation = TransformationOf(image)
    BY SizesOfImage DEF Transformation, TransformationOf, Width, Shift
  <2> QED  BY <2>1 DEF ToCodec, CodedPixel, Interleaved
<1> QED  BY <1>1, <1>2, <1>3 DEF CodedRow

\* The sample of a decoded pixel that the application finds in place of c.
Order(i, c) == IF i.bgr /\ i.mode # "none" /\ c \in {1, 3} THEN 4 - c ELSE c

\* What NewLineDecoded writes of a decoded pixel, in the order of the colours asked for.
LEMMA SampleFromCodec ==
  ASSUME InterfaceIsKept, image \in Images, NEW p, IsPixel(image, p), NEW c \in 1..PerPixel(image)
  PROVE  /\ FromCodec(p)[c] = DecodedPixel(image, p)[Order(image, c)]
         /\ Order(image, c) \in 1..PerPixel(image)
<1>1. Transformation = TransformationOf(image)
  BY SizesOfImage DEF Transformation, TransformationOf, Width, Shift
<1>2. CASE image.mode = "none"
  BY <1>2 DEF FromCodec, DecodedPixel, Interleaved, Order
<1>3. CASE image.mode # "none"
  <2> DEFINE d == InversePixel(Transformation, p)
  <2>1. DecodedPixel(image, p) = d
    BY <1>1, <1>3 DEF DecodedPixel
  <2>2. FromCodec(p) = IF image.bgr THEN SwapRedAndBlue(d) ELSE d
    BY <1>3 DEF FromCodec, Interleaved
  <2>3. d \in [1..PerPixel(image) -> Values(image.bits)] /\ PerPixel(image) \in {3, 4}
    BY <1>3, <2>1, PixelCoded, ImageAssumption DEF IsPixel, PerPixel
  <2> HIDE DEF d
  <2>4. Order(image, c) = IF image.bgr /\ c \in {1, 3} THEN 4 - c ELSE c
    BY <1>3 DEF Order
  <2>5. SwapRedAndBlue(d) = [d EXCEPT ![1] = d[3], ![3] = d[1]]
    BY DEF SwapRedAndBlue
  <2> QED  BY <2>1, <2>2, <2>3, <2>4, <2>5
<1> QED  BY <1>2, <1>3

\* Byte q of a line of the region, of the line y of scan s.
PixelOf(i, q) == q \div (PerPixel(i) * SampleBytes(i)) + 1
SampleAt(i, q) == (q % (PerPixel(i) * SampleBytes(i))) \div SampleBytes(i) + 1
RowByte(i, s, y, q) ==
  ByteOf(DecodedPixel(i, CodedRow(i, s, y)[RegionOf(i).x + PixelOf(i, q)])[Order(i, SampleAt(i, q))],
         q % SampleBytes(i))

\* The bytes of such a line, and all of them.
LineOf(i) == RowBytes(i, RegionOf(i).width)

IsRow(f, i, s, y) ==
  Len(f) = LineOf(i) /\ \A q \in 0..(LineOf(i) - 1) : f[q + 1] = RowByte(i, s, y, q)

\* The bytes of a sample, for bytes of 8 bits.
LEMMA BytesAreBytes ==
  ASSUME InterfaceIsKept, NEW v, NEW k \in 1..BytesPerSample
  PROVE  BytesOf(v)[k] = ByteOf(v, k - 1)
BY Zenon DEF BytesOf, ByteOf, InterfaceIsKept

\* Every byte of a line of the region has its pixel in the region.
LEMMA PartsInRegion ==
  ASSUME InterfaceIsKept, NEW i \in Images, NEW q \in 0..(RowBytes(i, RegionOf(i).width) - 1)
  PROVE  /\ PixelOf(i, q) \in 1..RegionOf(i).width
         /\ SampleAt(i, q) \in 1..PerPixel(i)
         /\ q % SampleBytes(i) \in 0..(SampleBytes(i) - 1)
         /\ RegionOf(i).x + PixelOf(i, q) \in 1..i.width
<1> DEFINE p == PerPixel(i)
           b == SampleBytes(i)
           w == RegionOf(i).width
<1>1. p \in Nat \ {0} /\ b \in Nat \ {0} /\ w \in Nat
  BY Numbers, RegionRows
<1>2. q \in 0..(w * (p * b) - 1)
  BY DEF RowBytes
<1> HIDE DEF p, b, w
<1>3. PICK x \in 1..w, c \in 1..p, k \in 1..b : q = PlaceInLine(p, b, x, c, k)
  BY <1>1, <1>2, PlaceHasParts
<1>4. HasParts(q, p, b, w, x, c, k)
  BY <1>1, <1>3, PartsOfPlace
<1>5. PixelOf(i, q) = x /\ SampleAt(i, q) = c /\ q % b = k - 1
  BY <1>1, <1>4 DEF HasParts, PixelOf, SampleAt, p, b
<1>6. /\ RegionOf(i).x \in Nat /\ i.width \in Nat /\ RegionOf(i).x + w <= i.width
  BY RegionRows, Numbers DEF w
<1>7. x \in 1..w /\ c \in 1..p /\ k - 1 \in 0..(b - 1) /\ RegionOf(i).x + x \in 1..i.width
  BY <1>1, <1>6
<1> QED  BY <1>5, <1>7 DEF p, b, w

\* The bytes of so many pixels.
LEMMA BytesOfPixels ==
  ASSUME InterfaceIsKept, image \in Images, NEW w \in Nat
  PROVE  LineBytes(w) = RowBytes(image, w)
<1> DEFINE p == PerPixel(image)
           b == SampleBytes(image)
<1>1. p \in Nat /\ b \in Nat /\ LineBytes(w) = w * p * b /\ RowBytes(image, w) = w * (p * b)
  BY Numbers, SizesOfImage DEF LineBytes, RowBytes
<1> HIDE DEF p, b
<1> QED  BY <1>1

\* NewLineDecoded writes the bytes of the region's part of a line.
LEMMA RowIsWritten ==
  ASSUME InterfaceIsKept, image \in Images,
         NEW s \in 1..PlanesOf(image), NEW y \in 1..image.height, NEW pixels,
         pixels = SubSeq(CodedRow(image, s, y), RegionOf(image).x + 1,
                         RegionOf(image).x + RegionOf(image).width)
  PROVE  IsRow(RawBytes(pixels), image, s, y)
<1> DEFINE r == RegionOf(image)
<1> HIDE DEF r
<1>0. r = RegionOf(image) /\ pixels = SubSeq(CodedRow(image, s, y), r.x + 1, r.x + r.width)
  BY DEF r
<1> DEFINE row == CodedRow(image, s, y)
           V == {row[x] : x \in 1..image.width}
           n == RowBytes(image, r.width)
           b == SampleBytes(image)
           p == PerPixel(image)
<1>1. /\ r.x \in Nat /\ r.width \in Nat \ {0} /\ r.x + r.width <= image.width
      /\ n \in Nat \ {0} /\ b \in {1, 2} /\ p \in Nat \ {0} /\ image.width \in Nat
  BY <1>0, RegionRows, Numbers
<1> HIDE DEF n, b, p
<1>2. /\ Len(pixels) = r.width
      /\ \A x \in 1..r.width : pixels[x] = row[r.x + x]
  <2> HIDE DEF row
  <2>1. \A x \in (r.x + 1)..(r.x + r.width) : row[x] \in V
    BY <1>1
  <2> HIDE DEF V
  <2> DEFINE x0 == r.x
             w == r.width
             from == x0 + 1
             to == x0 + w
  <2>2. from \in Int /\ to \in Int /\ from <= to /\ to - from + 1 = w /\ w \in Int
    <3>1. x0 \in Nat /\ w \in Nat \ {0}
      BY <1>1
    <3> HIDE DEF x0, w
    <3> QED  BY <3>1
  <2>3. /\ Len(SubSeq(row, from, to)) = IF from <= to THEN to - from + 1 ELSE 0
        /\ \A x \in 1..(to - from + 1) : SubSeq(row, from, to)[x] = row[from + x - 1]
    <3> HIDE DEF from, to
    <3> QED  BY <2>1, <2>2, SubSeqProperties DEF from, to
  <2>4. \A x \in 1..w : from + x - 1 = x0 + x
    <3>1. x0 \in Nat /\ w \in Nat \ {0}
      BY <1>1
    <3> HIDE DEF x0, w
    <3> QED  BY <3>1
  <2>5. pixels = SubSeq(row, from, to)
    BY <1>0 DEF row
  <2> HIDE DEF from, to
  <2> QED  BY <2>2, <2>3, <2>4, <2>5
<1>3. PixelSamples = p /\ BytesPerSample = b
  BY SizesOfImage DEF p, b
<1>4. LineBytes(Len(pixels)) = n
  <2>1. Len(pixels) \in Nat
    BY <1>1, <1>2
  <2> QED  BY <1>2, <2>1, BytesOfPixels DEF n
<1>5. DOMAIN RawBytes(pixels) = 1..n
  BY <1>4 DEF RawBytes
<1>6. Len(RawBytes(pixels)) = n
  <2>1. RawBytes(pixels) = [j \in 1..n |-> RawBytes(pixels)[j]]
    BY <1>5 DEF RawBytes
  <2> QED  BY <1>1, <1>5
<1>7. ASSUME NEW q \in 0..(n - 1)
      PROVE  RawBytes(pixels)[q + 1] = RowByte(image, s, y, q)
  <2> DEFINE x == PixelOf(image, q)
             c == SampleAt(image, q)
             k == (q % b) + 1
  <2>1. /\ x \in 1..r.width /\ c \in 1..p /\ q % b \in 0..(b - 1) /\ r.x + x \in 1..image.width
    BY <1>0, PartsInRegion DEF n, b, p
  <2>2. q + 1 - 1 = q /\ q + 1 \in 1..n
    BY <1>1
  <2>3. RawBytes(pixels)[q + 1]
          = BytesOf(FromCodec(pixels[x])[c])[k]
    <3> DEFINE F(d) == BytesOf(FromCodec(pixels[d \div (p * b) + 1])[(d % (p * b)) \div b + 1])
                         [(d % b) + 1]
    <3>1. RawBytes(pixels) = [j \in 1..n |-> F(j - 1)]
      BY <1>3, <1>4, Zenon DEF RawBytes
    <3>2. ASSUME NEW j \in 1..n, j - 1 = q
          PROVE  F(j - 1) = BytesOf(FromCodec(pixels[x])[c])[k]
      BY <3>2, Zenon DEF PixelOf, SampleAt, p, b
    <3>3. \A j \in 1..n : RawBytes(pixels)[j] = F(j - 1)
      BY <3>1, Zenon
    <3>4. ASSUME NEW j \in 1..n, j - 1 = q
          PROVE  RawBytes(pixels)[j] = BytesOf(FromCodec(pixels[x])[c])[k]
      BY <3>2, <3>3, <3>4, Zenon
    <3> DEFINE j1 == q + 1
               goal == BytesOf(FromCodec(pixels[x])[c])[k]
    <3>5. j1 \in 1..n /\ j1 - 1 = q
      BY <2>2
    <3>6. \A j \in 1..n : j - 1 = q => RawBytes(pixels)[j] = goal
      BY <3>4
    <3> HIDE DEF j1, goal
    <3>7. RawBytes(pixels)[j1] = goal
      BY <3>5, <3>6
    <3> QED  BY <3>7 DEF j1, goal
  <2>4. k \in 1..b /\ k - 1 = q % b
    BY <1>1, <2>1
  <2> HIDE DEF x, c, k
  <2>5. pixels[x] = row[r.x + x] /\ IsPixel(image, row[r.x + x])
    BY <1>2, <2>1, CodedRowIsRow
  <2>6. FromCodec(row[r.x + x])[c] = DecodedPixel(image, row[r.x + x])[Order(image, c)]
    <3>1. c \in 1..PerPixel(image)
      BY <2>1 DEF p
    <3> HIDE DEF row
    <3> QED  BY <2>5, <3>1, SampleFromCodec
  <2> DEFINE v == DecodedPixel(image, row[r.x + x])[Order(image, c)]
  <2>7. BytesOf(v)[k] = ByteOf(v, k - 1)
    BY <1>3, <2>4, BytesAreBytes
  <2> QED  BY <2>3, <2>4, <2>5, <2>6, <2>7, Zenon DEF RowByte, x, c, b, r
<1>8. LineOf(image) = n
  BY <1>0 DEF LineOf, n
<1> HIDE DEF n
<1> QED  BY <1>6, <1>7, <1>8 DEF IsRow

-----------------------------------------------------------------------------
(* The bytes of the destination.                                           *)

\* Byte q of row m, over all scans.
ByteAt(i, m, q) ==
  RowByte(i, m \div RegionOf(i).height + 1, RegionOf(i).y + (m % RegionOf(i).height) + 1, q)

\* The first n rows are written, and nothing else is.
Holds(i, d, n) ==
  /\ \A a \in DOMAIN d : \E m \in 0..(n - 1), q \in 0..(LineOf(i) - 1) : a = m * DestinationRow(i) + q
  /\ \A m \in 0..(n - 1), q \in 0..(LineOf(i) - 1) :
       /\ m * DestinationRow(i) + q \in DOMAIN d
       /\ d[m * DestinationRow(i) + q] = ByteAt(i, m, q)

\* A destination that nothing was written to holds no rows.
LEMMA NothingIsWritten ==
  ASSUME NEW i
  PROVE  Holds(i, <<>>, 0)
BY DEF Holds

\* The bytes f are those of row n, written where it starts.
RowIs(f, start, i, n) ==
  \A q \in 0..(LineOf(i) - 1) : f[start + q - start + 1] = ByteAt(i, n, q)

\* The destination g has them in addition to those of d.
Extends(g, d, places, f, start) ==
  g = [a \in DOMAIN d \cup places |-> IF a \in places THEN f[a - start + 1] ELSE d[a]]

\* The bytes of the next row, written where that row starts, add it to those that are
\* held, and leave them as they were.
LEMMA RowIsAdded ==
  ASSUME InterfaceIsKept, NEW i \in Images, NEW n \in Nat, NEW d, Holds(i, d, n), NEW f,
         NEW start, start = n * DestinationRow(i),
         NEW places, places = start..(start + LineOf(i) - 1),
         RowIs(f, start, i, n),
         NEW g, Extends(g, d, places, f, start)
  PROVE  Holds(i, g, n + 1)
<1> DEFINE row == DestinationRow(i)
           bytes == LineOf(i)
<1>1. row \in Nat \ {0} /\ bytes \in Nat \ {0} /\ bytes <= row
  BY RegionRows DEF LineOf
<1>2. /\ DOMAIN g = DOMAIN d \cup places
      /\ \A a \in DOMAIN g : g[a] = IF a \in places THEN f[a - start + 1] ELSE d[a]
  BY DEF Extends
<1>3. /\ \A a \in DOMAIN d : \E m \in 0..(n - 1), q \in 0..(bytes - 1) : a = m * row + q
      /\ \A m \in 0..(n - 1), q \in 0..(bytes - 1) :
           /\ m * row + q \in DOMAIN d
           /\ d[m * row + q] = ByteAt(i, m, q)
  BY DEF Holds
<1>4. \A q \in 0..(bytes - 1) : f[start + q - start + 1] = ByteAt(i, n, q)
  BY DEF RowIs
<1>5. start = n * row /\ places = start..(start + bytes - 1)
  OBVIOUS
<1> HIDE DEF row, bytes
<1>6. start \in Nat
  BY <1>1, <1>5
<1>7. ASSUME NEW a \in DOMAIN g
      PROVE  \E m \in 0..n, q \in 0..(bytes - 1) : a = m * row + q
  <2>1. CASE a \in places
    <3>1. a \in start..(start + bytes - 1)
      BY <1>5, <2>1
    <3>2. a - start \in 0..(bytes - 1) /\ a = start + (a - start)
      BY <1>1, <1>6, <3>1
    <3>3. n \in 0..n /\ a = n * row + (a - start)
      BY <1>5, <3>2
    <3> QED  BY <3>2, <3>3
  <2>2. CASE a \in DOMAIN d
    <3>1. PICK m \in 0..(n - 1), q \in 0..(bytes - 1) : a = m * row + q
      BY <1>3, <2>2
    <3>2. m \in 0..n
      OBVIOUS
    <3> QED  BY <3>1, <3>2
  <2> QED  BY <1>2, <2>1, <2>2
<1>8. ASSUME NEW m \in 0..n, NEW q \in 0..(bytes - 1)
      PROVE  m * row + q \in DOMAIN g /\ g[m * row + q] = ByteAt(i, m, q)
  <2>1. CASE m = n
    <3> DEFINE a == start + q
    <3>1. a \in start..(start + bytes - 1)
      BY <1>1, <1>6
    <3>2. a \in places
      BY <1>5, <3>1
    <3>3. f[a - start + 1] = ByteAt(i, n, q)
      BY <1>4
    <3> HIDE DEF a
    <3>4. a \in DOMAIN g /\ g[a] = ByteAt(i, n, q)
      BY <1>2, <3>2, <3>3
    <3>5. m * row + q = a
      BY <1>5, <2>1 DEF a
    <3> QED  BY <2>1, <3>4, <3>5
  <2>2. CASE m # n
    <3> DEFINE a == m * row + q
    <3>1. m \in 0..(n - 1) /\ m < n /\ m \in Nat
      BY <2>2
    <3>2. m * row + row <= n * row
      BY <1>1, <3>1, RowsBefore
    <3>3. a < start
      <4>1. m * row \in Nat
        BY <1>1, <3>1
      <4>2. n * row = start
        BY <1>5
      <4> DEFINE before == m * row
      <4> HIDE DEF before
      <4>3. before \in Nat /\ before + row <= start
        BY <3>2, <4>1, <4>2 DEF before
      <4>4. before + q < start
        BY <1>1, <1>6, <4>3
      <4> QED  BY <4>4 DEF before
    <3>4. a \in DOMAIN d /\ d[a] = ByteAt(i, m, q)
      BY <1>3, <3>1
    <3> HIDE DEF a
    <3>5. a \notin places
      <4>1. a \notin start..(start + bytes - 1)
        BY <3>3, <1>6
      <4> QED  BY <1>5, <4>1
    <3>6. a \in DOMAIN g /\ g[a] = ByteAt(i, m, q)
      BY <1>2, <3>4, <3>5
    <3> QED  BY <3>6 DEF a
  <2> QED  BY <2>1, <2>2
<1>9. n + 1 - 1 = n
  OBVIOUS
<1>10. Holds(i, g, n + 1)
  <2>1. /\ \A a \in DOMAIN g : \E m \in 0..(n + 1 - 1), q \in 0..(bytes - 1) : a = m * row + q
        /\ \A m \in 0..(n + 1 - 1), q \in 0..(bytes - 1) :
             m * row + q \in DOMAIN g /\ g[m * row + q] = ByteAt(i, m, q)
    BY <1>7, <1>8, <1>9
  <2> QED  BY <2>1 DEF Holds, row, bytes
<1> QED  BY <1>10

-----------------------------------------------------------------------------
(* The inductive invariant.                                                *)

\* Of each scan before s0 all lines are taken, and l0 of that scan.
Taken(i, ls, s0, l0) ==
  \A s \in 1..PlanesOf(i) : Len(ls[s]) = IF s < s0 THEN i.height ELSE IF s = s0 THEN l0 ELSE 0

LinesAreCoded(i, ls) ==
  /\ ls \in [1..PlanesOf(i) -> Seq(CodedRows(i))]
  /\ \A s \in 1..PlanesOf(i) : \A y \in 1..Len(ls[s]) : ls[s][y] = CodedRow(i, s, y)

\* The lines of the region among the first l, and those of all scans.
RowsOf(i, l) ==
  IF l <= RegionOf(i).y THEN 0
  ELSE IF l >= RegionOf(i).y + RegionOf(i).height THEN RegionOf(i).height
  ELSE l - RegionOf(i).y

RowsWritten(i, s, l) == (s - 1) * RegionOf(i).height + RowsOf(i, l)
AllRows(i) == PlanesOf(i) * RegionOf(i).height

\* A destination without a stride has room for every row.
HasRoom(i) == i.destination.stride = 0 => AllRows(i) * DestinationRow(i) <= i.destination.count

\* A destination with a stride ends before its last line does.
EndsEarly(i) ==
  /\ i.destination.kind = "memory" /\ i.destination.stride # 0
  /\ i.destination.count < (AllRows(i) - 1) * DestinationRow(i) + LineOf(i)

\* The image is not all there, or the destination does not hold it.
Lacks(i) ==
  \/ i.source.missing > 0
  \/ i.destination.count
       < RegionOf(i).width * RegionOf(i).height * i.components * SampleBytes(i)

Encoding ==
  /\ Taken(image, lines, scan, line)
  /\ at = ((scan - 1) * image.height + line) * SourceRow(image)
  /\ image.source.kind = "memory" => plane = (scan - 1) * image.height * SourceRow(image)
  /\ rect = image.rect /\ destination = <<>>

Coded == Taken(image, lines, PlanesOf(image), image.height)

Reading ==
  scan = 1 /\ line = 0 /\ plane = 0 /\ at = 0 /\ rect = image.rect /\ destination = <<>>

Decoding ==
  /\ rect = RegionOf(image)
  /\ at = RowsWritten(image, scan, line) * DestinationRow(image)
  /\ image.destination.kind = "memory" =>
       /\ plane = (scan - 1) * RegionOf(image).height * DestinationRow(image)
       /\ HasRoom(image)
  /\ Holds(image, destination, RowsWritten(image, scan, line))

Decoded ==
  /\ rect = RegionOf(image)
  /\ Holds(image, destination, AllRows(image))

\* What was written before the end.
Stopped ==
  /\ rect \in {image.rect, RegionOf(image)}
  /\ \E n \in 0..AllRows(image) :
       Holds(image, destination, n) /\ (n > 0 => rect = RegionOf(image))

Refused == Lacks(image) /\ Stopped

Outside ==
  /\ image.source.missing > 0 \/ (EndsEarly(image) /\ rect = RegionOf(image))
  /\ Stopped

Steps == {"encode", "read", "decode", "done", "refused", "outside"}

\* Where the transfer is on either side follows from the scan and the line; what was
\* taken and what was written are the lines up to there.
TransferInv ==
  /\ image \in Images /\ step \in Steps
  /\ scan \in 1..PlanesOf(image) /\ line \in 0..image.height
  /\ LinesAreCoded(image, lines)
  /\ step = "encode" => Encoding
  /\ step \in {"read", "decode"} => Coded
  /\ step = "read" => Reading
  /\ step = "decode" => Decoding
  /\ step = "done" => Decoded
  /\ step = "refused" => Refused
  /\ step = "outside" => Outside

\* The names of the model stand for the rows of either side.
LEMMA RowsOfImage ==
  ASSUME InterfaceIsKept, image \in Images
  PROVE  /\ LineBytes(image.width) = RowBytes(image, image.width)
         /\ SourceStride = SourceRow(image)
         /\ FromStream => /\ LineBytes(image.width) + StreamPadding = SourceRow(image)
                          /\ LineBytes(image.width) = SourceRow(image)
         /\ rect = RegionOf(image) =>
              /\ LineBytes(rect.width) = LineOf(image)
              /\ DestinationRow(image)
                   = IF ToStream THEN LineBytes(rect.width) ELSE DestinationStride
         /\ rect \in {image.rect, RegionOf(image)} => Region = RegionOf(image)
<1>1. LineBytes(image.width) = RowBytes(image, image.width) /\ RowBytes(image, image.width) \in Nat
  BY BytesOfPixels, Numbers, Rows
<1>2. SourceStride = SourceRow(image)
  BY <1>1 DEF SourceStride, StrideOf, SourceRow
<1>3. FromStream => /\ LineBytes(image.width) + StreamPadding = SourceRow(image)
                    /\ LineBytes(image.width) = SourceRow(image)
  <2>1. FromStream => SourceRow(image) = LineBytes(image.width)
    BY <1>1, Rows DEF FromStream
  <2>2. FromStream => StreamPadding = 0
    BY <1>1, <1>2, <2>1 DEF StreamPadding
  <2> QED  BY <1>1, <2>1, <2>2
<1>4. /\ RegionOf(image).width \in Nat \ {0}
  BY RegionRows
<1>5. rect = RegionOf(image) =>
        /\ LineBytes(rect.width) = LineOf(image)
        /\ DestinationRow(image) = IF ToStream THEN LineBytes(rect.width) ELSE DestinationStride
  <2>1. SUFFICES ASSUME rect = RegionOf(image)
                 PROVE  /\ LineBytes(rect.width) = LineOf(image)
                        /\ DestinationRow(image)
                             = IF ToStream THEN LineBytes(rect.width) ELSE DestinationStride
    OBVIOUS
  <2>2. LineBytes(rect.width) = RowBytes(image, RegionOf(image).width)
    BY <1>4, <2>1, BytesOfPixels
  <2> QED  BY <2>2 DEF LineOf, DestinationRow, DestinationStride, StrideOf, ToStream
<1>6. rect \in {image.rect, RegionOf(image)} => Region = RegionOf(image)
  <2>1. image.rect.width \in Nat
    BY DEF InterfaceIsKept, ImageFits
  <2>2. CASE rect = image.rect
    <3>1. rect.width <= 0 <=> image.rect.width = 0
      BY <2>1, <2>2
    <3> QED  BY <2>2, <3>1 DEF Region, RegionOf
  <2>3. CASE rect = RegionOf(image)
    <3>1. ~(rect.width <= 0)
      BY <1>4, <2>3
    <3> QED  BY <2>3, <3>1 DEF Region
  <2> QED  BY <2>2, <2>3
<1> QED  BY <1>1, <1>2, <1>3, <1>5, <1>6

-----------------------------------------------------------------------------
(* Its steps.                                                              *)

\* Rows of one scan after the other.
LEMMA RowOfScan ==
  ASSUME NEW n \in Nat \ {0}, NEW h \in Nat, NEW row \in Nat, NEW s \in 1..n, NEW l \in 0..h
  PROVE  /\ (s - 1) * h + l \in Nat /\ (s - 1) * h + l <= n * h
         /\ l < h => ((s - 1) * h + l) * row + row <= n * h * row
<1>1. s - 1 \in Nat /\ s - 1 < n /\ n * h \in Nat
  OBVIOUS
<1>2. (s - 1) * h + h <= n * h /\ (s - 1) * h \in Nat
  BY <1>1, RowsBefore
<1> DEFINE a == (s - 1) * h
           b == n * h
<1>3. a \in Nat /\ b \in Nat /\ a + h <= b
  BY <1>1, <1>2
<1> HIDE DEF a, b
<1>4. a + l \in Nat /\ a + l <= b /\ (l < h => a + l < b)
  BY <1>3
<1>5. l < h => (a + l) * row + row <= b * row
  BY <1>3, <1>4, RowsBefore
<1> QED  BY <1>4, <1>5 DEF a, b

\* A line that is appended is one more that was taken.
LEMMA LineIsCounted ==
  ASSUME NEW i, i.height \in Nat, NEW ls, LinesAreCoded(i, ls),
         NEW s0 \in 1..PlanesOf(i), NEW l0 \in Nat, l0 < i.height, Taken(i, ls, s0, l0),
         NEW e, e = CodedRow(i, s0, l0 + 1), NEW ls2, ls2 = [ls EXCEPT ![s0] = Append(ls[s0], e)]
  PROVE  LinesAreCoded(i, ls2) /\ Taken(i, ls2, s0, l0 + 1)
<1> DEFINE R == CodedRows(i)
           P == 1..PlanesOf(i)
<1>1. ls \in [P -> Seq(R)] /\ \A s \in P : \A y \in 1..Len(ls[s]) : ls[s][y] = CodedRow(i, s, y)
  BY DEF LinesAreCoded
<1>2. \A s \in P : Len(ls[s]) = IF s < s0 THEN i.height ELSE IF s = s0 THEN l0 ELSE 0
  BY DEF Taken
<1>3. e \in R
  <2>1. l0 + 1 \in 1..i.height
    OBVIOUS
  <2> QED  BY <2>1 DEF CodedRows
<1> HIDE DEF R
<1>4. ls[s0] \in Seq(R) /\ Len(ls[s0]) = l0
  BY <1>1, <1>2
<1> DEFINE q == Append(ls[s0], e)
<1>5. /\ q \in Seq(R) /\ Len(q) = Len(ls[s0]) + 1
      /\ \A y \in 1..Len(ls[s0]) : q[y] = ls[s0][y]
      /\ q[Len(ls[s0]) + 1] = e
  BY <1>3, <1>4, AppendProperties
<1>6. /\ Len(q) = l0 + 1 /\ \A y \in 1..l0 : q[y] = CodedRow(i, s0, y)
      /\ q[l0 + 1] = CodedRow(i, s0, l0 + 1)
  BY <1>1, <1>4, <1>5
<1> HIDE DEF q
<1>7. /\ ls2 \in [P -> Seq(R)]
      /\ \A s \in P : ls2[s] = IF s = s0 THEN q ELSE ls[s]
  BY <1>1, <1>5 DEF q
<1>8. \A s \in P : \A y \in 1..Len(ls2[s]) : ls2[s][y] = CodedRow(i, s, y)
  <2>1. SUFFICES ASSUME NEW s \in P, NEW y \in 1..Len(ls2[s])
                 PROVE  ls2[s][y] = CodedRow(i, s, y)
    OBVIOUS
  <2>2. CASE s = s0
    <3>1. ls2[s] = q /\ y \in 1..(l0 + 1)
      BY <1>6, <1>7, <2>1, <2>2
    <3>2. CASE y = l0 + 1
      BY <1>6, <2>2, <3>1, <3>2
    <3>3. CASE y # l0 + 1
      <4>1. y \in 1..l0
        BY <3>1, <3>3
      <4> QED  BY <1>6, <2>2, <3>1, <4>1
    <3> QED  BY <3>2, <3>3
  <2>3. CASE s # s0
    <3>1. ls2[s] = ls[s]
      BY <1>7, <2>3
    <3> QED  BY <1>1, <2>1, <3>1
  <2> QED  BY <2>2, <2>3
<1>9. \A s \in P : Len(ls2[s]) = IF s < s0 THEN i.height ELSE IF s = s0 THEN l0 + 1 ELSE 0
  BY <1>2, <1>6, <1>7
<1> QED  BY <1>7, <1>8, <1>9 DEF LinesAreCoded, Taken, R

\* EncodeLine: the line that is handed over is the next one of the scan.
LEMMA EncodeLineStep ==
  ASSUME InterfaceIsKept, TransferInv, EncodeLine
  PROVE  TransferInv'
<1> DEFINE pixels == PixelsAt(at)
           e == [x \in DOMAIN pixels |-> ToCodec(pixels[x])]
           row == SourceRow(image)
           h == image.height
           n == (scan - 1) * h + line
<1>1. /\ step = "encode" /\ line < h /\ step' = step /\ image' = image /\ scan' = scan
      /\ plane' = plane /\ rect' = rect /\ destination' = destination /\ line' = line + 1
      /\ lines' = [lines EXCEPT ![scan] = Append(lines[scan], e)]
      /\ at' = at + (IF FromStream THEN LineBytes(image.width) + StreamPadding ELSE SourceStride)
  BY DEF EncodeLine
<1>2. /\ image \in Images /\ scan \in 1..PlanesOf(image) /\ line \in 0..h
      /\ LinesAreCoded(image, lines) /\ Encoding
  BY <1>1 DEF TransferInv
<1>3. h \in Nat /\ row \in Nat /\ PlanesOf(image) \in Nat \ {0}
  BY <1>2, Numbers, Rows
<1>4. n \in Nat /\ n + 1 = (scan - 1) * h + (line + 1)
  BY <1>2, <1>3, RowOfScan
<1>5. /\ at = n * row /\ Taken(image, lines, scan, line)
      /\ image.source.kind = "memory" => plane = (scan - 1) * h * row
      /\ rect = image.rect /\ destination = <<>>
  BY <1>2 DEF Encoding
<1>6. e = CodedRow(image, scan, line + 1)
  <2>1. line + 1 \in 1..h
    BY <1>1, <1>2, <1>3
  <2>2. at = LineStart(scan, line + 1, h, row)
    <3>1. (scan - 1) * h + (line + 1) - 1 = n
      BY <1>2, <1>3, <1>4
    <3> QED  BY <1>5, <3>1 DEF LineStart
  <2> QED  BY <1>2, <2>1, <2>2, LineIsCoded
<1> HIDE DEF e
<1>7. LinesAreCoded(image, lines') /\ Taken(image, lines', scan, line + 1)
  <2>1. line \in Nat
    BY <1>2
  <2> QED  BY <1>1, <1>2, <1>3, <1>5, <1>6, <2>1, LineIsCounted
<1>8. at' = (n + 1) * row
  <2>1. at' = at + row
    BY <1>1, <1>2, RowsOfImage
  <2> HIDE DEF n, row
  <2> QED  BY <1>3, <1>4, <1>5, <2>1
<1>9. line' \in 0..h
  BY <1>1, <1>2, <1>3
<1>10. Encoding'
  <2>1. at' = ((scan' - 1) * image'.height + line') * SourceRow(image')
    BY <1>1, <1>4, <1>8
  <2>2. image'.source.kind = "memory" => plane' = (scan' - 1) * image'.height * SourceRow(image')
    BY <1>1, <1>5
  <2> QED  BY <1>1, <1>5, <1>7, <2>1, <2>2 DEF Encoding
<1> QED  BY <1>1, <1>2, <1>7, <1>9, <1>10 DEF TransferInv

\* What was refused before anything was written.
LEMMA RefusedEmpty ==
  ASSUME InterfaceIsKept, NEW i \in Images
  PROVE  /\ AllRows(i) \in Nat /\ 0 \in 0..AllRows(i)
         /\ Holds(i, <<>>, 0)
<1>1. AllRows(i) \in Nat
  BY Numbers, RegionRows DEF AllRows
<1> QED  BY <1>1, NothingIsWritten

\* A line that the source does not hold is missing from the image.
LEMMA SourceHoldsLine ==
  ASSUME InterfaceIsKept, TransferInv, step = "encode", line < image.height
  PROVE  /\ image.source.missing \in Nat
         /\ image.source.missing = 0 => at + LineBytes(image.width) <= SourceSize
<1> DEFINE row == SourceRow(image)
           h == image.height
           n == PlanesOf(image)
<1>1. /\ image \in Images /\ scan \in 1..n /\ line \in 0..h /\ Encoding
  BY DEF TransferInv
<1>2. h \in Nat /\ row \in Nat /\ n \in Nat \ {0} /\ line < h
  BY <1>1, Numbers, Rows
<1>3. image.source.missing \in Nat
  BY <1>1 DEF InterfaceIsKept, SourceFits
<1>4. at = ((scan - 1) * h + line) * row
  BY <1>1 DEF Encoding
<1>5. ((scan - 1) * h + line) * row + row <= n * h * row /\ (scan - 1) * h + line \in Nat
  BY <1>1, <1>2, RowOfScan
<1>6. SourceSize = row * h * n - image.source.missing
  BY <1>1, RowsOfImage, SizesOfImage DEF SourceSize
<1>7. LineBytes(image.width) <= row /\ LineBytes(image.width) \in Nat
  BY <1>1, RowsOfImage, Rows
<1> DEFINE a == ((scan - 1) * h + line) * row
           m == n * h * row
<1>8. a \in Nat /\ m \in Nat /\ row * h * n = m /\ a + row <= m /\ at = a
  BY <1>2, <1>4, <1>5
<1> HIDE DEF a, m, row, h, n
<1> QED  BY <1>2, <1>3, <1>6, <1>7, <1>8

\* A line that the source does not hold: a part of the image is missing, and nothing
\* was written.
LEMMA SourceLacksLine ==
  ASSUME InterfaceIsKept, TransferInv, step = "encode", line < image.height, ~SourceHoldsNext
  PROVE  image.source.missing > 0 /\ Stopped
<1>1. /\ image \in Images /\ scan \in 1..PlanesOf(image) /\ line \in 0..image.height
      /\ Encoding
  BY DEF TransferInv
<1>2. image.source.missing > 0
  <2>1. LineBytes(image.width) \in Int /\ at \in Int /\ SourceSize \in Int
    <3>1. /\ image.height \in Nat /\ SourceRow(image) \in Nat /\ PlanesOf(image) \in Nat \ {0}
          /\ image.source.missing \in Nat
      BY <1>1, Numbers, Rows DEF InterfaceIsKept, SourceFits
    <3>2. LineBytes(image.width) \in Int
      BY <1>1, RowsOfImage, Rows
    <3>3. (scan - 1) * image.height + line \in Nat
      BY <1>1, <3>1, RowOfScan
    <3>4. at \in Int
      BY <1>1, <3>1, <3>3 DEF Encoding
    <3>5. SourceSize = SourceRow(image) * image.height * PlanesOf(image) - image.source.missing
      BY <1>1, RowsOfImage, SizesOfImage DEF SourceSize
    <3> QED  BY <3>1, <3>2, <3>4, <3>5
  <2> QED  BY <2>1, SourceHoldsLine DEF SourceHoldsNext
<1>3. Stopped
  <2>1. rect = image.rect /\ destination = <<>>
    BY <1>1 DEF Encoding
  <2>2. 0 \in 0..AllRows(image) /\ Holds(image, destination, 0) /\ ~(0 > 0)
    BY <1>1, <2>1, RefusedEmpty
  <2> QED  BY <2>1, <2>2 DEF Stopped
<1> QED  BY <1>2, <1>3

\* SourceEnds and ReadOutside: only when a part of the image is missing.
LEMMA SourceEndsStep ==
  ASSUME InterfaceIsKept, TransferInv, SourceEnds \/ ReadOutside
  PROVE  TransferInv'
<1>1. /\ step = "encode" /\ line < image.height /\ ~SourceHoldsNext
      /\ step' \in {"refused", "outside"}
      /\ image' = image /\ scan' = scan /\ line' = line /\ lines' = lines /\ rect' = rect
      /\ destination' = destination
  BY DEF SourceEnds, ReadOutside
<1>2. /\ image \in Images /\ scan \in 1..PlanesOf(image) /\ line \in 0..image.height
      /\ LinesAreCoded(image, lines)
  BY DEF TransferInv
<1>3. image.source.missing > 0 /\ Stopped
  BY <1>1, SourceLacksLine
<1>4. Stopped'
  BY <1>1, <1>3 DEF Stopped
<1>5. Refused' /\ Outside'
  BY <1>1, <1>3, <1>4 DEF Refused, Outside, Lacks
<1> QED  BY <1>1, <1>2, <1>5 DEF TransferInv, Steps

\* EndEncodeScan: a plane ends where the next one starts.
LEMMA EndEncodeScanStep ==
  ASSUME InterfaceIsKept, TransferInv, EndEncodeScan
  PROVE  TransferInv'
<1> DEFINE row == SourceRow(image)
           h == image.height
           b == SampleBytes(image)
<1>1. /\ step = "encode" /\ line = h /\ image' = image /\ lines' = lines /\ rect' = rect
      /\ destination' = destination
      /\ IF scan < Planes
         THEN NextPlane(FromStream, PlaneBytes) /\ step' = step
         ELSE step' = "read" /\ scan' = 1 /\ line' = 0 /\ plane' = 0 /\ at' = 0
  BY DEF EndEncodeScan
<1>2. /\ image \in Images /\ scan \in 1..PlanesOf(image)
      /\ LinesAreCoded(image, lines) /\ Encoding
  BY <1>1 DEF TransferInv
<1>3. /\ h \in Nat /\ row \in Nat /\ PlanesOf(image) \in Nat \ {0} /\ b \in Nat
      /\ image.width \in Nat /\ Planes = PlanesOf(image) /\ BytesPerSample = b
      /\ image.source.kind \in Kinds
  BY <1>2, Numbers, Rows, SizesOfImage DEF InterfaceIsKept, SourceFits
<1>4. /\ Taken(image, lines, scan, h)
      /\ at = ((scan - 1) * h + h) * row
      /\ image.source.kind = "memory" => plane = (scan - 1) * h * row
      /\ rect = image.rect /\ destination = <<>>
  BY <1>1, <1>2 DEF Encoding
<1>5. CASE scan < Planes
  <2>1. /\ step' = "encode" /\ scan' = scan + 1 /\ line' = 0
        /\ plane' = IF FromStream THEN plane ELSE plane + PlaneBytes
        /\ at' = IF FromStream THEN at ELSE plane'
    BY <1>1, <1>5 DEF NextPlane
  <2>2. scan' \in 1..PlanesOf(image) /\ line' \in 0..h
    BY <1>2, <1>3, <1>5, <2>1
  <2>3. ((scan - 1) * h + h) * row = scan * h * row
    <3>1. scan \in Nat
      BY <1>2, <1>3
    <3> HIDE DEF h, row
    <3> QED  BY <1>3, <3>1
  <2>4. ~FromStream => plane' = scan * h * row
    <3>1. row = image.width * b
      <4>1. PlanesOf(image) # 1
        BY <1>2, <1>3, <1>5
      <4>2. row = RowBytes(image, image.width) /\ PerPixel(image) = 1
        BY <1>2, <4>1, Numbers, Rows
      <4> HIDE DEF b, row
      <4> QED  BY <1>3, <4>2 DEF RowBytes, b
    <3>2. PlaneBytes = image.width * h * b
      BY <1>3 DEF PlaneBytes
    <3>3. scan \in Nat
      BY <1>2, <1>3
    <3> HIDE DEF h, b
    <3>4. h * (image.width * b) = image.width * h * b
      BY <1>3
    <3>5. (scan - 1) * h * row + h * row = scan * h * row
      <4> HIDE DEF row
      <4> QED  BY <1>3, <3>3
    <3>6. ~FromStream => plane' = (scan - 1) * h * row + h * row
      <4>1. ~FromStream => image.source.kind = "memory"
        BY <1>3 DEF FromStream, Kinds
      <4>2. PlaneBytes = h * row
        BY <3>1, <3>2, <3>4
      <4> HIDE DEF row
      <4> QED  BY <1>4, <2>1, <4>1, <4>2 DEF h
    <3> QED  BY <3>5, <3>6
  <2>5. Taken(image, lines, scan + 1, 0)
    <3>1. \A s \in 1..PlanesOf(image) :
            (IF s < scan THEN h ELSE IF s = scan THEN h ELSE 0)
              = (IF s < scan + 1 THEN h ELSE IF s = scan + 1 THEN 0 ELSE 0)
      BY <1>2, <1>3
    <3> QED  BY <1>4, <3>1 DEF Taken
  <2>6. at' = ((scan' - 1) * h + line') * row
    <3>1. at' = scan * h * row
      <4> HIDE DEF h, row
      <4> QED  BY <1>4, <2>1, <2>3, <2>4 DEF h, row
    <3>2. (scan' - 1) * h + line' = scan * h
      <4>1. scan' - 1 = scan /\ scan * h + 0 = scan * h
        <5>1. scan \in Nat
          BY <1>2, <1>3
        <5> QED  BY <1>3, <2>1, <5>1
      <4> QED  BY <2>1, <4>1
    <3> QED  BY <3>1, <3>2
  <2>7. image.source.kind = "memory" => plane' = (scan' - 1) * h * row
    <3>1. scan' - 1 = scan
      BY <1>2, <1>3, <2>1
    <3>2. image.source.kind = "memory" => ~FromStream
      BY DEF FromStream
    <3> QED  BY <2>4, <3>1, <3>2
  <2>8. Encoding'
    BY <1>1, <1>4, <2>1, <2>5, <2>6, <2>7 DEF Encoding
  <2> QED  BY <1>1, <1>2, <2>1, <2>2, <2>8 DEF TransferInv, Steps
<1>6. CASE ~(scan < Planes)
  <2>1. /\ step' = "read" /\ scan' = 1 /\ line' = 0 /\ plane' = 0 /\ at' = 0
    BY <1>1, <1>6
  <2>2. scan = PlanesOf(image)
    BY <1>2, <1>3, <1>6
  <2>3. Coded' /\ Reading'
    BY <1>1, <1>4, <2>1, <2>2 DEF Coded, Reading
  <2>4. scan' \in 1..PlanesOf(image) /\ line' \in 0..h
    BY <1>3, <2>1
  <2> QED  BY <1>1, <1>2, <2>1, <2>3, <2>4 DEF TransferInv, Steps
<1> QED  BY <1>5, <1>6

\* The lines of the region are counted, and no others.
LEMMA RowsOfLine ==
  ASSUME InterfaceIsKept, NEW i \in Images, NEW l \in 0..i.height
  PROVE  /\ RowsOf(i, l) \in 0..RegionOf(i).height
         /\ RowsOf(i, 0) = 0 /\ RowsOf(i, i.height) = RegionOf(i).height
         /\ (RegionOf(i).y <= l /\ l < RegionOf(i).y + RegionOf(i).height) =>
              RowsOf(i, l) = l - RegionOf(i).y /\ RowsOf(i, l + 1) = RowsOf(i, l) + 1
         /\ ~(RegionOf(i).y <= l /\ l < RegionOf(i).y + RegionOf(i).height) =>
              RowsOf(i, l + 1) = RowsOf(i, l)
<1> DEFINE y == RegionOf(i).y
           h == RegionOf(i).height
<1>1. y \in Nat /\ h \in Nat /\ y + h <= i.height /\ i.height \in Nat
  BY RegionRows, Numbers
<1>2. \A k : RowsOf(i, k) = IF k <= y THEN 0 ELSE IF k >= y + h THEN h ELSE k - y
  BY DEF RowsOf
<1> HIDE DEF y, h
<1> QED  BY <1>1, <1>2 DEF y, h

\* Memory with a byte for each of the region has room for rows without a stride.
LEMMA MemoryHasRoom ==
  ASSUME InterfaceIsKept, NEW i \in Images, i.destination.kind = "memory",
         i.destination.count
           >= RegionOf(i).width * RegionOf(i).height * SampleBytes(i) * i.components
  PROVE  HasRoom(i)
<1> DEFINE w == RegionOf(i).width
           h == RegionOf(i).height
           b == SampleBytes(i)
           p == PerPixel(i)
           n == PlanesOf(i)
           row == DestinationRow(i)
           count == i.destination.count
<1>1. /\ w \in Nat /\ h \in Nat /\ b \in Nat /\ p \in Nat /\ n \in Nat /\ row \in Nat
      /\ p * n = i.components /\ count \in Nat
      /\ count >= w * h * b * i.components
  BY Numbers, RegionRows DEF InterfaceIsKept, DestinationFits
<1>2. SUFFICES ASSUME i.destination.stride = 0
               PROVE  AllRows(i) * row <= count
  BY DEF HasRoom
<1>3. row = w * (p * b)
  BY <1>2 DEF DestinationRow, RowBytes
<1> HIDE DEF w, h, b, p, n, row, count
<1>4. n * h * (w * (p * b)) = w * h * b * (p * n)
  BY <1>1
<1>5. n * h * row <= count
  BY <1>1, <1>3, <1>4
<1> QED  BY <1>5 DEF AllRows, n, h

\* BeginRead: memory that is accepted has room for every row, unless it has a stride.
LEMMA BeginReadStep ==
  ASSUME InterfaceIsKept, TransferInv, BeginRead
  PROVE  TransferInv'
<1> DEFINE r == RegionOf(image)
           b == SampleBytes(image)
<1>1. /\ step = "read" /\ rect' = Region /\ image' = image /\ lines' = lines /\ scan' = scan
      /\ line' = line /\ plane' = plane /\ at' = at /\ destination' = destination
      /\ step' = IF ToStream \/ Fits(BytesPerPlane(Region)) THEN "decode" ELSE "refused"
  BY DEF BeginRead
<1>2. /\ image \in Images /\ scan \in 1..PlanesOf(image) /\ line \in 0..image.height
      /\ LinesAreCoded(image, lines) /\ Coded /\ Reading
  BY <1>1 DEF TransferInv
<1>3. /\ scan = 1 /\ line = 0 /\ plane = 0 /\ at = 0 /\ rect = image.rect
      /\ destination = <<>>
  BY <1>2 DEF Reading
<1>4. rect' = r /\ Region = r
  BY <1>1, <1>2, <1>3, RowsOfImage
<1>5. /\ r.width \in Nat /\ r.height \in Nat /\ b \in Nat /\ image.components \in Nat
      /\ image.destination.count \in Nat /\ image.destination.kind \in Kinds
      /\ DestinationRow(image) \in Nat
  BY <1>2, Numbers, RegionRows DEF InterfaceIsKept, ImageFits, DestinationFits
<1>6. Fits(BytesPerPlane(Region)) <=>
        image.destination.count >= r.width * r.height * b * image.components
  BY <1>4, SizesOfImage DEF Fits, BytesPerPlane
<1>7. CASE ToStream \/ Fits(BytesPerPlane(Region))
  <2>1. step' = "decode"
    BY <1>1, <1>7
  <2>2. RowsWritten(image, 1, 0) = 0
    <3>1. RowsOf(image, 0) = 0
      BY <1>2, <1>3, RowsOfLine
    <3>2. (1 - 1) * r.height + 0 = 0
      BY <1>5
    <3> QED  BY <3>1, <3>2 DEF RowsWritten
  <2>3. (1 - 1) * r.height * DestinationRow(image) = 0 /\ 0 * DestinationRow(image) = 0
    <3>1. 1 - 1 = 0 /\ 0 * r.height = 0 /\ 0 * DestinationRow(image) = 0
      BY <1>5
    <3> QED  BY <3>1
  <2>4. image.destination.kind = "memory" => HasRoom(image)
    <3>1. image.destination.kind = "memory" => Fits(BytesPerPlane(Region))
      BY <1>7 DEF ToStream
    <3> QED  BY <1>2, <1>6, <3>1, MemoryHasRoom
  <2>5. Decoding'
    BY <1>1, <1>2, <1>3, <1>4, <2>2, <2>3, <2>4, RefusedEmpty DEF Decoding
  <2>6. Coded'
    BY <1>1, <1>2 DEF Coded
  <2> QED  BY <1>1, <1>2, <2>1, <2>5, <2>6 DEF TransferInv, Steps
<1>8. CASE ~(ToStream \/ Fits(BytesPerPlane(Region)))
  <2>1. step' = "refused"
    BY <1>1, <1>8
  <2>2. Lacks(image)
    <3> DEFINE w == r.width
               h == r.height
               c == image.components
    <3>1. ~(image.destination.count >= w * h * b * c)
      BY <1>6, <1>8
    <3>2. w \in Nat /\ h \in Nat /\ c \in Nat
      BY <1>5
    <3> HIDE DEF w, h, b, c
    <3>3. w * h * b * c = w * h * c * b /\ w * h * c * b \in Nat
      BY <1>5, <3>2
    <3>4. image.destination.count < w * h * c * b
      BY <1>5, <3>1, <3>3
    <3> QED  BY <3>4 DEF Lacks, w, h, c, b
  <2>3. Refused'
    <3>1. 0 \in 0..AllRows(image) /\ Holds(image, <<>>, 0) /\ ~(0 > 0)
      BY <1>2, RefusedEmpty
    <3> QED  BY <1>1, <1>3, <1>4, <2>2, <3>1 DEF Refused, Stopped, Lacks
  <2> QED  BY <1>1, <1>2, <2>1, <2>3 DEF TransferInv, Steps
<1> QED  BY <1>7, <1>8

\* While the image is decoded: where a line of the region goes.
LEMMA LineOfRegion ==
  ASSUME InterfaceIsKept, TransferInv, step = "decode", line < image.height, InRegion
  PROVE  /\ RowsWritten(image, scan, line) \in Nat
         /\ RowsWritten(image, scan, line) + 1 = RowsWritten(image, scan, line + 1)
         /\ RowsWritten(image, scan, line) + 1 <= AllRows(image)
         /\ RowsWritten(image, scan, line) * DestinationRow(image) + DestinationRow(image)
              <= AllRows(image) * DestinationRow(image)
         /\ \A q : ByteAt(image, RowsWritten(image, scan, line), q) = RowByte(image, scan, line + 1, q)
<1> DEFINE y == RegionOf(image).y
           h == RegionOf(image).height
           row == DestinationRow(image)
           l == line - y
           n == RowsWritten(image, scan, line)
<1>1. /\ image \in Images /\ scan \in 1..PlanesOf(image) /\ line \in 0..image.height
      /\ rect = RegionOf(image)
  BY DEF TransferInv, Decoding
<1>2. /\ y \in Nat /\ h \in Nat /\ row \in Nat /\ PlanesOf(image) \in Nat \ {0}
      /\ image.height \in Nat
  BY <1>1, Numbers, RegionRows
<1>3. y <= line /\ line < y + h
  BY <1>1 DEF InRegion
<1>4. RowsOf(image, line) = l /\ RowsOf(image, line + 1) = l + 1
  BY <1>1, <1>3, RowsOfLine
<1> HIDE DEF y, h, row
<1>5. l \in 0..(h - 1) /\ l \in 0..h /\ l < h /\ h \in Nat \ {0}
  BY <1>1, <1>2, <1>3
<1>6. n = (scan - 1) * h + l /\ RowsWritten(image, scan, line + 1) = (scan - 1) * h + (l + 1)
  BY <1>4 DEF RowsWritten, h
<1> HIDE DEF l
<1>7. /\ n \in Nat /\ n * row + row <= PlanesOf(image) * h * row
  BY <1>1, <1>2, <1>5, <1>6, RowOfScan
<1>8. n + 1 <= PlanesOf(image) * h
  <2>1. /\ l + 1 \in 0..h
    BY <1>5
  <2>2. (scan - 1) * h + (l + 1) <= PlanesOf(image) * h
    BY <1>1, <1>2, <2>1, RowOfScan
  <2>3. (scan - 1) * h \in Int /\ l \in Int
    BY <1>1, <1>2, <1>5
  <2> QED  BY <1>6, <2>2, <2>3
<1>9. n + 1 = RowsWritten(image, scan, line + 1)
  <2>1. (scan - 1) * h \in Int /\ l \in Int
    BY <1>1, <1>2, <1>5
  <2> QED  BY <1>6, <2>1
<1>10. n \div h = scan - 1 /\ n % h = l
  <2>1. scan - 1 \in Int
    BY <1>1, <1>2
  <2> HIDE DEF n
  <2> QED  BY <1>5, <1>6, <2>1, DivMod
<1>11. \A q : ByteAt(image, n, q) = RowByte(image, scan, line + 1, q)
  <2>1. n \div h + 1 = scan /\ y + (n % h) + 1 = line + 1
    <3>1. scan \in Int /\ line \in Int
      BY <1>1, <1>2
    <3> HIDE DEF n
    <3> QED  BY <1>2, <1>10, <3>1 DEF l
  <2>2. \A q : ByteAt(image, n, q) = RowByte(image, n \div h + 1, y + (n % h) + 1, q)
    BY Zenon DEF ByteAt, y, h
  <2> HIDE DEF n
  <2> QED  BY <2>1, <2>2
<1> QED  BY <1>7, <1>8, <1>9, <1>11 DEF AllRows, h, row

\* DecodeLine: the bytes are those of the next row, written where it starts.
LEMMA DecodeLineStep ==
  ASSUME InterfaceIsKept, TransferInv, DecodeLine
  PROVE  TransferInv'
<1> DEFINE n == RowsWritten(image, scan, line)
           row == DestinationRow(image)
           pixels == SubSeq(lines[scan][line + 1], rect.x + 1, rect.x + rect.width)
           bytes == RawBytes(pixels)
           places == at..(at + Len(bytes) - 1)
           d == [a \in DOMAIN destination \cup places |->
                   IF a \in places THEN bytes[a - at + 1] ELSE destination[a]]
<1>1. /\ step = "decode" /\ line < image.height /\ InRegion
      /\ destination' = d
      /\ at' = at + (IF ToStream THEN LineBytes(rect.width) ELSE DestinationStride)
      /\ line' = line + 1 /\ image' = image /\ step' = step /\ scan' = scan
      /\ plane' = plane /\ lines' = lines /\ rect' = rect
  BY DEF DecodeLine
<1>2. /\ image \in Images /\ scan \in 1..PlanesOf(image) /\ line \in 0..image.height
      /\ LinesAreCoded(image, lines) /\ Coded /\ Decoding
  BY <1>1 DEF TransferInv
<1>3. /\ rect = RegionOf(image) /\ at = n * row
      /\ image.destination.kind = "memory" =>
           plane = (scan - 1) * RegionOf(image).height * row /\ HasRoom(image)
      /\ Holds(image, destination, n)
  BY <1>2 DEF Decoding
<1>4. /\ n \in Nat /\ n + 1 = RowsWritten(image, scan, line + 1)
      /\ n * row + row <= AllRows(image) * row
      /\ \A q : ByteAt(image, n, q) = RowByte(image, scan, line + 1, q)
  BY <1>1, LineOfRegion
<1>5. /\ row \in Nat /\ image.height \in Nat /\ PlanesOf(image) \in Nat \ {0}
      /\ LineOf(image) \in Nat /\ AllRows(image) \in Nat
      /\ image.destination.count \in Nat /\ image.destination.kind \in Kinds
  BY <1>2, Numbers, RegionRows, RefusedEmpty DEF LineOf, InterfaceIsKept, DestinationFits
<1>6. line + 1 \in 1..image.height /\ line + 1 \in 0..image.height
  BY <1>1, <1>2, <1>5
<1>7. /\ LineBytes(rect.width) = LineOf(image)
      /\ row = IF ToStream THEN LineBytes(rect.width) ELSE DestinationStride
  BY <1>2, <1>3, RowsOfImage
<1>8. pixels = SubSeq(CodedRow(image, scan, line + 1), RegionOf(image).x + 1,
                      RegionOf(image).x + RegionOf(image).width)
  <2>1. Len(lines[scan]) = image.height
    <3>1. Len(lines[scan]) = IF scan < PlanesOf(image) THEN image.height
                             ELSE IF scan = PlanesOf(image) THEN image.height ELSE 0
      BY <1>2 DEF Coded, Taken
    <3> QED  BY <1>2, <1>5, <3>1
  <2>2. lines[scan][line + 1] = CodedRow(image, scan, line + 1)
    BY <1>2, <1>6, <2>1 DEF LinesAreCoded
  <2> QED  BY <1>3, <2>2
<1> HIDE DEF pixels
<1>9. /\ Len(bytes) = LineOf(image)
      /\ \A q \in 0..(LineOf(image) - 1) : bytes[q + 1] = RowByte(image, scan, line + 1, q)
  <2>1. IsRow(RawBytes(pixels), image, scan, line + 1)
    BY <1>2, <1>6, <1>8, RowIsWritten
  <2> QED  BY <2>1 DEF IsRow
<1> HIDE DEF bytes
<1>10. Holds(image, d, n + 1)
  <2>1. at \in Nat
    <3> HIDE DEF n, row
    <3> QED  BY <1>3, <1>4, <1>5
  <2>2. \A q \in 0..(LineOf(image) - 1) : bytes[at + q - at + 1] = ByteAt(image, n, q)
    <3>1. SUFFICES ASSUME NEW q \in 0..(LineOf(image) - 1)
                   PROVE  bytes[at + q - at + 1] = ByteAt(image, n, q)
      OBVIOUS
    <3>2. at + q - at + 1 = q + 1
      BY <1>5, <2>1
    <3> QED  BY <1>4, <1>9, <3>2
  <2>3. places = at..(at + LineOf(image) - 1)
    BY <1>9
  <2>4. RowIs(bytes, at, image, n)
    BY <2>2 DEF RowIs
  <2>5. Extends(d, destination, places, bytes, at)
    BY DEF Extends
  <2> HIDE DEF n, places, d
  <2> QED  BY <1>2, <1>3, <1>4, <2>3, <2>4, <2>5, RowIsAdded
<1>11. at' = (n + 1) * row
  <2>1. at' = at + row
    BY <1>1, <1>7
  <2>2. (n + 1) * row = n * row + row
    <3> HIDE DEF n, row
    <3> QED  BY <1>4, <1>5
  <2> QED  BY <1>3, <2>1, <2>2
<1> HIDE DEF d, places
<1>12. Decoding'
  <2>1. RowsWritten(image', scan', line') = n + 1
    BY <1>1, <1>4
  <2>2. at' = RowsWritten(image', scan', line') * DestinationRow(image')
    BY <1>1, <1>11, <2>1
  <2>3. Holds(image', destination', RowsWritten(image', scan', line'))
    BY <1>1, <1>10, <2>1
  <2>4. rect' = RegionOf(image')
    BY <1>1, <1>3
  <2>5. image'.destination.kind = "memory" =>
          /\ plane' = (scan' - 1) * RegionOf(image').height * DestinationRow(image')
          /\ HasRoom(image')
    BY <1>1, <1>3
  <2> QED  BY <2>2, <2>3, <2>4, <2>5 DEF Decoding
<1>13. Coded'
  BY <1>1, <1>2 DEF Coded
<1> QED  BY <1>1, <1>2, <1>6, <1>12, <1>13 DEF TransferInv

\* DestinationIsFull: a stream is full only when it cannot hold the image.
LEMMA DestinationIsFullStep ==
  ASSUME InterfaceIsKept, TransferInv, DestinationIsFull
  PROVE  TransferInv'
<1> DEFINE n == RowsWritten(image, scan, line)
           row == DestinationRow(image)
           r == RegionOf(image)
           b == SampleBytes(image)
           count == image.destination.count
<1>1. /\ step = "decode" /\ line < image.height /\ InRegion /\ ToStream
      /\ ~(at + LineBytes(rect.width) <= count) /\ step' = "refused"
      /\ image' = image /\ scan' = scan /\ line' = line /\ lines' = lines /\ rect' = rect
      /\ destination' = destination
  BY DEF DestinationIsFull, RoomForNext
<1>2. /\ image \in Images /\ scan \in 1..PlanesOf(image) /\ line \in 0..image.height
      /\ LinesAreCoded(image, lines) /\ Decoding
  BY <1>1 DEF TransferInv
<1>3. /\ rect = RegionOf(image) /\ at = n * row
      /\ Holds(image, destination, n)
  BY <1>2 DEF Decoding
<1>4. n \in Nat /\ n + 1 <= AllRows(image) /\ n * row + row <= AllRows(image) * row
  BY <1>1, LineOfRegion
<1>5. /\ row \in Nat /\ AllRows(image) \in Nat /\ count \in Nat
      /\ r.width \in Nat /\ r.height \in Nat /\ b \in Nat
      /\ PlanesOf(image) \in Nat /\ PerPixel(image) \in Nat
      /\ PerPixel(image) * PlanesOf(image) = image.components
  BY <1>2, Numbers, RegionRows, RefusedEmpty DEF InterfaceIsKept, DestinationFits
<1>6. LineBytes(rect.width) = row
  BY <1>1, <1>2, <1>3, RowsOfImage
<1>7. Lacks(image)
  <2> DEFINE w == r.width
             h == r.height
             p == PerPixel(image)
             m == PlanesOf(image)
             before == n * row
             all == AllRows(image) * row
  <2>1. row = w * (p * b)
    BY <1>1 DEF ToStream, DestinationRow, RowBytes
  <2>2. all = m * h * row
    BY DEF AllRows
  <2>3. w \in Nat /\ h \in Nat /\ p \in Nat /\ m \in Nat /\ p * m = image.components
    BY <1>5
  <2>4. before \in Nat /\ all \in Nat
    <3> HIDE DEF n, row
    <3> QED  BY <1>4, <1>5
  <2>5. before + row <= all /\ ~(before + row <= count)
    BY <1>1, <1>3, <1>4, <1>6
  <2> HIDE DEF w, h, p, m, before, all, n, row, b
  <2>6. all > count
    BY <1>5, <2>4, <2>5
  <2>7. m * h * (w * (p * b)) = w * h * (p * m) * b
    BY <1>5, <2>3
  <2>8. count < w * h * (p * m) * b
    BY <1>5, <2>1, <2>2, <2>4, <2>6, <2>7
  <2> QED  BY <2>3, <2>8 DEF Lacks, w, h, b
<1>8. Refused'
  <2>1. n \in 0..AllRows(image)
    BY <1>4, <1>5
  <2>2. Holds(image', destination', n) /\ n \in 0..AllRows(image')
    BY <1>1, <1>3, <2>1
  <2>3. Lacks(image') /\ rect' = RegionOf(image')
    BY <1>1, <1>3, <1>7
  <2> HIDE DEF n
  <2> QED  BY <2>2, <2>3 DEF Refused, Stopped
<1> QED  BY <1>1, <1>2, <1>8 DEF TransferInv, Steps

\* WriteOutside: only where a stride makes the lines longer than the destination.
LEMMA WriteOutsideStep ==
  ASSUME InterfaceIsKept, TransferInv, WriteOutside
  PROVE  TransferInv'
<1> DEFINE n == RowsWritten(image, scan, line)
           row == DestinationRow(image)
           count == image.destination.count
<1>1. /\ step = "decode" /\ line < image.height /\ InRegion /\ ~ToStream
      /\ ~(at + LineBytes(rect.width) <= count) /\ step' = "outside"
      /\ image' = image /\ scan' = scan /\ line' = line /\ lines' = lines /\ rect' = rect
      /\ destination' = destination
  BY DEF WriteOutside, RoomForNext
<1>2. /\ image \in Images /\ scan \in 1..PlanesOf(image) /\ line \in 0..image.height
      /\ LinesAreCoded(image, lines) /\ Decoding
  BY <1>1 DEF TransferInv
<1>3. n \in Nat /\ n + 1 <= AllRows(image) /\ n * row + row <= AllRows(image) * row
  BY <1>1, LineOfRegion
<1>4. /\ row \in Nat /\ AllRows(image) \in Nat /\ count \in Nat
      /\ LineOf(image) \in Nat /\ LineOf(image) <= row
      /\ image.destination.kind \in Kinds
  BY <1>2, RegionRows, RefusedEmpty DEF LineOf, InterfaceIsKept, DestinationFits
<1>5. image.destination.kind = "memory"
  BY <1>1, <1>4 DEF ToStream, Kinds
<1>6. /\ rect = RegionOf(image) /\ at = n * row /\ HasRoom(image)
      /\ Holds(image, destination, n)
  BY <1>2, <1>5 DEF Decoding
<1>7. LineBytes(rect.width) = LineOf(image)
  BY <1>2, <1>6, RowsOfImage
<1> DEFINE before == n * row
           all == AllRows(image) * row
           bytes == LineOf(image)
<1>8. /\ before \in Nat /\ all \in Nat /\ before + row <= all
      /\ ~(before + bytes <= count)
  <2>1. before \in Nat /\ all \in Nat
    <3> HIDE DEF n, row
    <3> QED  BY <1>3, <1>4
  <2> QED  BY <1>1, <1>3, <1>6, <1>7, <2>1
<1>9. (AllRows(image) - 1) * row = all - row
  <2> HIDE DEF row
  <2> QED  BY <1>4
<1>10. EndsEarly(image)
  <2>1. ~(image.destination.stride = 0)
    <3>1. SUFFICES ASSUME image.destination.stride = 0
                   PROVE  FALSE
      OBVIOUS
    <3>2. all <= count
      BY <1>6, <3>1 DEF HasRoom
    <3> HIDE DEF before, all, bytes, row, count
    <3> QED  BY <1>4, <1>8, <3>2 DEF bytes
  <2>2. count < all - row + bytes
    <3> HIDE DEF before, all, row, count
    <3>1. bytes \in Nat
      BY <1>4
    <3> HIDE DEF bytes
    <3> QED  BY <1>4, <1>8, <3>1
  <2> QED  BY <1>5, <1>9, <2>1, <2>2 DEF EndsEarly
<1>11. Outside'
  <2>1. n \in 0..AllRows(image)
    <3> HIDE DEF n
    <3> QED  BY <1>3, <1>4
  <2>2. Stopped'
    <3> HIDE DEF n
    <3> QED  BY <1>1, <1>6, <2>1 DEF Stopped
  <2> QED  BY <1>1, <1>6, <1>10, <2>2 DEF Outside
<1> QED  BY <1>1, <1>2, <1>11 DEF TransferInv, Steps

\* DropLine: a line outside the region is no row of the destination.
LEMMA DropLineStep ==
  ASSUME InterfaceIsKept, TransferInv, DropLine
  PROVE  TransferInv'
<1>1. /\ step = "decode" /\ line < image.height /\ ~InRegion /\ line' = line + 1
      /\ image' = image /\ step' = step /\ scan' = scan /\ plane' = plane /\ at' = at
      /\ lines' = lines /\ rect' = rect /\ destination' = destination
  BY DEF DropLine
<1>2. /\ image \in Images /\ scan \in 1..PlanesOf(image) /\ line \in 0..image.height
      /\ LinesAreCoded(image, lines) /\ Coded /\ Decoding
  BY <1>1 DEF TransferInv
<1>3. line' \in 0..image.height
  BY <1>1, <1>2, Numbers
<1>4. RowsWritten(image, scan, line + 1) = RowsWritten(image, scan, line)
  <2>1. rect = RegionOf(image)
    BY <1>2 DEF Decoding
  <2>2. RowsOf(image, line + 1) = RowsOf(image, line)
    BY <1>1, <1>2, <2>1, RowsOfLine DEF InRegion
  <2> QED  BY <2>2 DEF RowsWritten
<1>5. Decoding' /\ Coded'
  BY <1>1, <1>2, <1>4 DEF Decoding, Coded
<1> QED  BY <1>1, <1>2, <1>3, <1>5 DEF TransferInv

\* EndDecodeScan: the rows of a scan end where those of the next one start.
LEMMA EndDecodeScanStep ==
  ASSUME InterfaceIsKept, TransferInv, EndDecodeScan
  PROVE  TransferInv'
<1> DEFINE row == DestinationRow(image)
           h == RegionOf(image).height
           w == RegionOf(image).width
           b == SampleBytes(image)
<1>1. /\ step = "decode" /\ line = image.height /\ image' = image /\ lines' = lines
      /\ rect' = rect /\ destination' = destination
      /\ IF scan < Planes
         THEN NextPlane(ToStream, BytesPerPlane(rect)) /\ step' = step
         ELSE step' = "done" /\ scan' = scan /\ line' = line /\ plane' = plane /\ at' = at
  BY DEF EndDecodeScan
<1>2. /\ image \in Images /\ scan \in 1..PlanesOf(image) /\ line \in 0..image.height
      /\ LinesAreCoded(image, lines) /\ Coded /\ Decoding
  BY <1>1 DEF TransferInv
<1>3. /\ h \in Nat /\ w \in Nat /\ row \in Nat /\ PlanesOf(image) \in Nat \ {0} /\ b \in Nat
      /\ Planes = PlanesOf(image) /\ BytesPerSample = b /\ image.height \in Nat
      /\ image.destination.kind \in Kinds
  BY <1>2, Numbers, RegionRows, SizesOfImage DEF InterfaceIsKept, DestinationFits
<1>4. RowsWritten(image, scan, line) = scan * h
  <2>1. RowsOf(image, line) = h
    BY <1>1, <1>2, RowsOfLine
  <2>2. (scan - 1) * h + h = scan * h
    <3>1. scan \in Nat
      BY <1>2, <1>3
    <3> HIDE DEF h
    <3> QED  BY <1>3, <3>1
  <2> QED  BY <2>1, <2>2 DEF RowsWritten
<1>5. /\ rect = RegionOf(image) /\ at = scan * h * row
      /\ image.destination.kind = "memory" =>
           plane = (scan - 1) * h * row /\ HasRoom(image)
      /\ Holds(image, destination, scan * h)
  BY <1>2, <1>4 DEF Decoding
<1>6. CASE scan < Planes
  <2>1. /\ step' = "decode" /\ scan' = scan + 1 /\ line' = 0
        /\ plane' = IF ToStream THEN plane ELSE plane + BytesPerPlane(rect)
        /\ at' = IF ToStream THEN at ELSE plane'
    BY <1>1, <1>6 DEF NextPlane
  <2>2. scan' \in 1..PlanesOf(image) /\ line' \in 0..image.height /\ scan' - 1 = scan
    BY <1>2, <1>3, <1>6, <2>1
  <2>3. RowsWritten(image, scan', line') = scan * h
    <3>1. RowsOf(image, 0) = 0
      BY <1>2, RowsOfLine
    <3>2. scan * h + 0 = scan * h
      <4>1. scan \in Nat
        BY <1>2, <1>3
      <4> HIDE DEF h
      <4> QED  BY <1>3, <4>1
    <3> QED  BY <2>1, <2>2, <3>1, <3>2 DEF RowsWritten
  <2>4. ~ToStream => plane' = scan * h * row
    <3>1. row = w * b
      <4>1. PlanesOf(image) # 1
        BY <1>2, <1>3, <1>6
      <4>2. row = RowBytes(image, w) /\ PerPixel(image) = 1
        BY <1>2, <4>1, Numbers, RegionRows
      <4> HIDE DEF b, row, w
      <4> QED  BY <1>3, <4>2 DEF RowBytes, b
    <3>2. BytesPerPlane(rect) = w * h * b
      BY <1>3, <1>5 DEF BytesPerPlane
    <3>3. scan \in Nat
      BY <1>2, <1>3
    <3>4. ~ToStream => plane = (scan - 1) * h * row
      BY <1>3, <1>5 DEF ToStream, Kinds
    <3> HIDE DEF h, b, w
    <3>5. h * (w * b) = w * h * b
      BY <1>3
    <3>6. (scan - 1) * h * row + h * row = scan * h * row
      <4> HIDE DEF row
      <4> QED  BY <1>3, <3>3
    <3>7. BytesPerPlane(rect) = h * row
      BY <3>1, <3>2, <3>5
    <3> HIDE DEF row
    <3> QED  BY <2>1, <3>4, <3>6, <3>7
  <2>5. at' = RowsWritten(image, scan', line') * row
    <3> HIDE DEF row, h
    <3> QED  BY <1>5, <2>1, <2>3, <2>4
  <2>6. image.destination.kind = "memory" => plane' = (scan' - 1) * h * row
    <3>1. image.destination.kind = "memory" => ~ToStream
      BY DEF ToStream
    <3> QED  BY <2>2, <2>4, <3>1
  <2>7. Decoding'
    <3>1. /\ Holds(image', destination', RowsWritten(image', scan', line'))
          /\ at' = RowsWritten(image', scan', line') * DestinationRow(image')
      BY <1>1, <1>5, <2>3, <2>5
    <3>2. rect' = RegionOf(image')
      BY <1>1, <1>5
    <3>3. image'.destination.kind = "memory" =>
            /\ plane' = (scan' - 1) * RegionOf(image').height * DestinationRow(image')
            /\ HasRoom(image')
      BY <1>1, <1>5, <2>6
    <3> QED  BY <3>1, <3>2, <3>3 DEF Decoding
  <2>8. Coded'
    BY <1>1, <1>2 DEF Coded
  <2> QED  BY <1>1, <1>2, <2>1, <2>2, <2>7, <2>8 DEF TransferInv, Steps
<1>7. CASE ~(scan < Planes)
  <2>1. step' = "done" /\ scan' = scan /\ line' = line
    BY <1>1, <1>7
  <2>2. scan = PlanesOf(image)
    BY <1>2, <1>3, <1>7
  <2>3. Decoded'
    <3>1. Holds(image, destination, AllRows(image))
      BY <1>5, <2>2 DEF AllRows
    <3> QED  BY <1>1, <1>5, <3>1 DEF Decoded
  <2> QED  BY <1>1, <1>2, <2>1, <2>3 DEF TransferInv, Steps
<1> QED  BY <1>6, <1>7

\* TransferInv holds before the first line.
LEMMA InitialTransfer ==
  ASSUME InterfaceIsKept, Init
  PROVE  TransferInv
<1>1. /\ image \in Images /\ step = "encode" /\ scan = 1 /\ line = 0 /\ plane = 0 /\ at = 0
      /\ lines = [s \in 1..Planes |-> <<>>] /\ rect = image.rect /\ destination = <<>>
  BY DEF Init
<1>2. /\ image.height \in Nat \ {0} /\ PlanesOf(image) \in Nat \ {0}
      /\ Planes = PlanesOf(image) /\ SourceRow(image) \in Nat
  BY <1>1, Numbers, Rows, SizesOfImage
<1>3. /\ LinesAreCoded(image, lines) /\ Taken(image, lines, 1, 0)
  <2>1. <<>> \in Seq(CodedRows(image)) /\ Len(<<>>) = 0
    OBVIOUS
  <2>2. lines \in [1..PlanesOf(image) -> Seq(CodedRows(image))]
    BY <1>1, <1>2, <2>1
  <2>3. \A s \in 1..PlanesOf(image) : Len(lines[s]) = 0
    BY <1>1, <1>2, <2>1
  <2>4. \A s \in 1..PlanesOf(image) : 0 = IF s < 1 THEN image.height ELSE IF s = 1 THEN 0 ELSE 0
    BY <1>2
  <2> QED  BY <2>2, <2>3, <2>4 DEF LinesAreCoded, Taken
<1>4. /\ ((1 - 1) * image.height + 0) * SourceRow(image) = 0
      /\ (1 - 1) * image.height * SourceRow(image) = 0
  <2>1. 1 - 1 = 0 /\ 0 * image.height = 0 /\ 0 + 0 = 0 /\ 0 * SourceRow(image) = 0
    BY <1>2
  <2> QED  BY <2>1
<1>5. Encoding
  BY <1>1, <1>3, <1>4 DEF Encoding
<1>6. scan \in 1..PlanesOf(image) /\ line \in 0..image.height
  BY <1>1, <1>2
<1> QED  BY <1>1, <1>3, <1>5, <1>6 DEF TransferInv, Steps

\* Every step keeps TransferInv.
LEMMA TransferStep ==
  ASSUME InterfaceIsKept, TransferInv, [Next]_vars
  PROVE  TransferInv'
<1>1. CASE EncodeLine
  BY <1>1, EncodeLineStep
<1>2. CASE SourceEnds \/ ReadOutside
  BY <1>2, SourceEndsStep
<1>3. CASE EndEncodeScan
  BY <1>3, EndEncodeScanStep
<1>4. CASE BeginRead
  BY <1>4, BeginReadStep
<1>5. CASE DecodeLine
  BY <1>5, DecodeLineStep
<1>6. CASE DestinationIsFull
  BY <1>6, DestinationIsFullStep
<1>7. CASE DropLine
  BY <1>7, DropLineStep
<1>8. CASE EndDecodeScan
  BY <1>8, EndDecodeScanStep
<1>9. CASE WriteOutside
  BY <1>9, WriteOutsideStep
<1>10. CASE UNCHANGED vars
  BY <1>10 DEF vars, TransferInv, Encoding, Coded, Reading, Decoding, Decoded, Refused,
               Outside, Stopped
<1> QED
  BY <1>1, <1>2, <1>3, <1>4, <1>5, <1>6, <1>7, <1>8, <1>9, <1>10 DEF Next, Stop

\* TransferInv holds in every state: both sides are always where the lines of the scans
\* that they have handled end.
THEOREM TransferIsInLine ==
  ASSUME InterfaceIsKept
  PROVE  Spec => []TransferInv
<1>1. Init => TransferInv
  BY InitialTransfer
<1>2. TransferInv /\ [Next]_vars => TransferInv'
  BY TransferStep
<1> QED  BY <1>1, <1>2, PTL DEF Spec

-----------------------------------------------------------------------------
(* What it means for the samples.                                          *)

\* The library refuses an image only when it is not all there or has no room.
LEMMA RefusedLacks ==
  ASSUME InterfaceIsKept, TransferInv
  PROVE  EnoughIsEnough
<1>1. SUFFICES ASSUME step = "refused"
               PROVE  \/ image.source.missing > 0
                      \/ image.destination.count
                           < Region.width * Region.height * image.components * BytesPerSample
  BY DEF EnoughIsEnough
<1>2. image \in Images /\ Lacks(image) /\ rect \in {image.rect, RegionOf(image)}
  BY <1>1 DEF TransferInv, Refused, Stopped
<1>3. Region = RegionOf(image) /\ BytesPerSample = SampleBytes(image)
  BY <1>2, RowsOfImage, SizesOfImage
<1> QED  BY <1>2, <1>3 DEF Lacks

\* EnoughIsEnough: a source that holds the image and a destination with room for it
\* are never refused.
THEOREM EnoughIsAlwaysEnough ==
  ASSUME InterfaceIsKept
  PROVE  Spec => []EnoughIsEnough
<1>1. Spec => []TransferInv
  BY TransferIsInLine
<1>2. TransferInv => EnoughIsEnough
  BY RefusedLacks
<1> QED  BY <1>1, <1>2, PTL

\* The lines that were coded consist of pixels with samples of the image's bits.
LEMMA CodedInRange ==
  ASSUME InterfaceIsKept, TransferInv
  PROVE  CodedSamplesFit
<1>1. image \in Images /\ LinesAreCoded(image, lines)
  BY DEF TransferInv
<1>2. SUFFICES ASSUME NEW s \in 1..PlanesOf(image), NEW l \in DOMAIN lines[s],
                      NEW x \in DOMAIN lines[s][l], NEW c \in 1..PerPixel(image)
               PROVE  lines[s][l][x][c] < 2^image.bits
  BY SizesOfImage DEF CodedSamplesFit
<1> DEFINE R == CodedRows(image)
<1> HIDE DEF R
<1>3. lines[s] \in Seq(R) /\ \A y \in 1..Len(lines[s]) : lines[s][y] = CodedRow(image, s, y)
  BY <1>1 DEF LinesAreCoded, R
<1>4. l \in 1..Len(lines[s])
  BY <1>3, LenProperties
<1>5. lines[s][l] \in R
  BY <1>3, <1>4, ElementOfSeq
<1>6. PICK s1 \in 1..PlanesOf(image), y1 \in 1..image.height : lines[s][l] = CodedRow(image, s1, y1)
  BY <1>5 DEF CodedRows, R
<1>7. IsPixel(image, lines[s][l][x])
  BY <1>1, <1>6, CodedRowIsRow
<1>8. lines[s][l][x][c] \in Values(image.bits)
  BY <1>7 DEF IsPixel
<1>9. PowerOf(image.bits) \in Nat
  <2>1. image.bits \in 1..16
    BY <1>1, Numbers
  <2> QED  BY <2>1, Powers
<1>10. lines[s][l][x][c] < PowerOf(image.bits)
  <2> DEFINE v == lines[s][l][x][c]
             m == PowerOf(image.bits)
  <2>1. v \in 0..(m - 1) /\ m \in Nat
    BY <1>8, <1>9 DEF Values
  <2> HIDE DEF v, m
  <2>2. v < m
    BY <2>1
  <2> QED  BY <2>2 DEF v, m
<1> QED  BY <1>10, Zenon DEF PowerOf

\* CodedSamplesFit: every transformation keeps the samples in the codec's range.
THEOREM SamplesAlwaysFit ==
  ASSUME InterfaceIsKept
  PROVE  Spec => []CodedSamplesFit
<1>1. Spec => []TransferInv
  BY TransferIsInLine
<1>2. TransferInv => CodedSamplesFit
  BY CodedInRange
<1> QED  BY <1>1, <1>2, PTL

\* The scan that decodes component c, and the sample of its pixels; the row of the
\* destination that line y of the region fills there.
ScanOf(i, c) == IF i.mode = "none" THEN c ELSE 1
SampleInPixel(i, c) == IF i.mode = "none" THEN 1 ELSE c
RowOf(i, y, c) == (ScanOf(i, c) - 1) * RegionOf(i).height + (y - 1)
PlaceInRow(i, x, c, k) == PlaceInLine(PerPixel(i), SampleBytes(i), x, SampleInPixel(i, c), k)

\* A byte of a sample has its place in the row of its line.
LEMMA PlaceOfByte ==
  ASSUME InterfaceIsKept, image \in Images, rect = RegionOf(image),
         NEW y \in 1..rect.height, NEW x \in 1..rect.width, NEW c \in 1..image.components,
         NEW k \in 1..SampleBytes(image)
  PROVE  PlaceOf(y, x, c, k)
           = RowOf(image, y, c) * DestinationRow(image) + PlaceInRow(image, x, c, k)
<1> DEFINE row == DestinationRow(image)
           h == RegionOf(image).height
           b == SampleBytes(image)
           n == image.components
<1>1. /\ row \in Nat /\ h \in Nat /\ b \in Nat /\ n \in Nat /\ rect.height = h
      /\ x \in Int /\ y \in Int /\ c \in Int /\ k \in Int
  BY RegionRows, Numbers DEF InterfaceIsKept, ImageFits
<1>2. PlaceOf(y, x, c, k) =
        (IF Interleaved THEN 0 ELSE c - 1) * row * h + (y - 1) * row
          + (IF Interleaved THEN (x - 1) * n + c - 1 ELSE x - 1) * b + k - 1
  <2>1. (IF ToStream THEN LineBytes(rect.width) ELSE DestinationStride) = row
    BY RowsOfImage
  <2>2. BytesPerSample = b
    BY SizesOfImage
  <2> HIDE DEF row, h, b
  <2> QED  BY <1>1, <2>1, <2>2 DEF PlaceOf
<1>3. CASE image.mode = "none"
  <2>1. PlaceOf(y, x, c, k) = (c - 1) * row * h + (y - 1) * row + (x - 1) * b + k - 1
    BY <1>2, <1>3 DEF Interleaved
  <2>2. RowOf(image, y, c) = (c - 1) * h + (y - 1)
    BY <1>3 DEF RowOf, ScanOf
  <2>3. PlaceInRow(image, x, c, k) = ((x - 1) * 1 + 1 - 1) * b + k - 1
    BY <1>3 DEF PlaceInRow, PlaceInLine, SampleInPixel, PerPixel
  <2> HIDE DEF row, h, b, n
  <2>4. ((c - 1) * h + (y - 1)) * row = (c - 1) * row * h + (y - 1) * row
    BY <1>1
  <2>5. (x - 1) * 1 + 1 - 1 = x - 1
    BY <1>1
  <2> DEFINE u == (c - 1) * row * h + (y - 1) * row
             v == (x - 1) * b
  <2>6. u \in Int /\ v \in Int
    BY <1>1
  <2>7. PlaceOf(y, x, c, k) = u + v + k - 1
    BY <2>1
  <2>8. RowOf(image, y, c) * row = u
    BY <2>2, <2>4
  <2>9. PlaceInRow(image, x, c, k) = v + k - 1
    BY <2>3, <2>5
  <2> HIDE DEF u, v
  <2>10. RowOf(image, y, c) * row + PlaceInRow(image, x, c, k) = u + (v + k - 1)
    BY <2>8, <2>9
  <2>11. u + (v + k - 1) = u + v + k - 1
    BY <1>1, <2>6
  <2> QED  BY <2>7, <2>10, <2>11 DEF row
<1>4. CASE image.mode # "none"
  <2>1. PlaceOf(y, x, c, k) = 0 * row * h + (y - 1) * row + ((x - 1) * n + c - 1) * b + k - 1
    BY <1>2, <1>4 DEF Interleaved
  <2>2. RowOf(image, y, c) = (1 - 1) * h + (y - 1)
    BY <1>4 DEF RowOf, ScanOf
  <2>3. PlaceInRow(image, x, c, k) = ((x - 1) * n + c - 1) * b + k - 1
    BY <1>4 DEF PlaceInRow, PlaceInLine, SampleInPixel, PerPixel
  <2> HIDE DEF row, h, b, n
  <2> DEFINE u == (y - 1) * row
             v == ((x - 1) * n + c - 1) * b
  <2>4. u \in Int /\ v \in Int
    BY <1>1
  <2>5. 0 * row * h = 0 /\ (1 - 1) * h = 0 /\ 0 + (y - 1) = y - 1
    BY <1>1
  <2>6. PlaceOf(y, x, c, k) = 0 + u + v + k - 1
    BY <2>1, <2>5
  <2>7. RowOf(image, y, c) * row = u
    BY <2>2, <2>5
  <2>8. PlaceInRow(image, x, c, k) = v + k - 1
    BY <2>3
  <2> HIDE DEF u, v
  <2>9. RowOf(image, y, c) * row + PlaceInRow(image, x, c, k) = u + (v + k - 1)
    BY <2>7, <2>8
  <2>10. u + (v + k - 1) = 0 + u + v + k - 1
    BY <1>1, <2>4
  <2> QED  BY <2>6, <2>9, <2>10 DEF row
<1> QED  BY <1>3, <1>4

\* The row is one of its scan, and the place is one of the row.
LEMMA RowOfByte ==
  ASSUME InterfaceIsKept, NEW i \in Images,
         NEW y \in 1..RegionOf(i).height, NEW x \in 1..RegionOf(i).width,
         NEW c \in 1..i.components, NEW k \in 1..SampleBytes(i)
  PROVE  /\ ScanOf(i, c) \in 1..PlanesOf(i) /\ SampleInPixel(i, c) \in 1..PerPixel(i)
         /\ RowOf(i, y, c) \in 0..(AllRows(i) - 1)
         /\ RowOf(i, y, c) \div RegionOf(i).height = ScanOf(i, c) - 1
         /\ RowOf(i, y, c) % RegionOf(i).height = y - 1
         /\ PlaceInRow(i, x, c, k) \in 0..(LineOf(i) - 1)
<1> DEFINE s == ScanOf(i, c)
           h == RegionOf(i).height
           n == PlanesOf(i)
<1>1. s \in 1..n /\ SampleInPixel(i, c) \in 1..PerPixel(i)
  BY DEF ScanOf, SampleInPixel, PlanesOf, PerPixel
<1>2. h \in Nat \ {0} /\ n \in Nat \ {0}
  <2>1. h \in Nat /\ y \in 1..h
    BY RegionRows
  <2> QED  BY <2>1, Numbers
<1>3. RowOf(i, y, c) = (s - 1) * h + (y - 1) /\ AllRows(i) = n * h
  BY DEF RowOf, AllRows
<1>4. PlaceInRow(i, x, c, k) \in 0..(LineOf(i) - 1)
  <2> DEFINE p == PerPixel(i)
             b == SampleBytes(i)
             w == RegionOf(i).width
             q == PlaceInRow(i, x, c, k)
  <2>1. /\ p \in Nat \ {0} /\ b \in Nat \ {0} /\ w \in Nat
        /\ q = PlaceInLine(p, b, x, SampleInPixel(i, c), k)
    BY Numbers, RegionRows DEF PlaceInRow
  <2>2. HasParts(q, p, b, w, x, SampleInPixel(i, c), k)
    BY <1>1, <2>1, PartsOfPlace
  <2>3. LineOf(i) = w * (p * b)
    BY DEF LineOf, RowBytes
  <2> HIDE DEF q, p, b, w
  <2> QED  BY <2>2, <2>3 DEF HasParts, q
<1> HIDE DEF s, n
<1>5. y - 1 \in 0..(h - 1) /\ s - 1 \in Int /\ s - 1 \in 0..(n - 1)
  BY <1>1, <1>2
<1> HIDE DEF h
<1>6. (s - 1) * h + (y - 1) \in 0..(n * h - 1)
  BY <1>2, <1>5, WithinRows
<1>7. /\ ((s - 1) * h + (y - 1)) \div h = s - 1
      /\ ((s - 1) * h + (y - 1)) % h = y - 1
  BY <1>2, <1>5, DivMod
<1> QED  BY <1>1, <1>3, <1>4, <1>6, <1>7 DEF s, h, n

\* Each row of the destination is one of a scan, and each byte of it one of a sample.
LEMMA RowsAreOfSamples ==
  ASSUME InterfaceIsKept, NEW i \in Images,
         NEW m \in 0..(AllRows(i) - 1), NEW q \in 0..(LineOf(i) - 1)
  PROVE  \E y \in 1..RegionOf(i).height, x \in 1..RegionOf(i).width, c \in 1..i.components,
            k \in 1..SampleBytes(i) : m = RowOf(i, y, c) /\ q = PlaceInRow(i, x, c, k)
<1> DEFINE h == RegionOf(i).height
           n == PlanesOf(i)
           p == PerPixel(i)
           b == SampleBytes(i)
           w == RegionOf(i).width
<1>1. /\ h \in Nat /\ n \in Nat \ {0} /\ p \in Nat \ {0} /\ b \in Nat \ {0} /\ w \in Nat
      /\ i.components \in Nat \ {0}
  BY Numbers, RegionRows DEF InterfaceIsKept, ImageFits
<1>2. m \in 0..(n * h - 1) /\ q \in 0..(w * (p * b) - 1)
  BY DEF AllRows, LineOf, RowBytes
<1>3. /\ i.mode = "none" => p = 1 /\ n = i.components
      /\ i.mode # "none" => p = i.components /\ n = 1
  BY DEF PerPixel, PlanesOf
<1>4. /\ \A y, c : RowOf(i, y, c) = ((IF i.mode = "none" THEN c ELSE 1) - 1) * h + (y - 1)
      /\ \A x, c, k : PlaceInRow(i, x, c, k)
                        = PlaceInLine(p, b, x, IF i.mode = "none" THEN 1 ELSE c, k)
  BY DEF RowOf, ScanOf, PlaceInRow, SampleInPixel
<1> HIDE DEF h, n, p, b, w
<1>5. h \in Nat \ {0}
  <2>1. CASE h = 0
    <3>1. n * h = 0
      BY <1>1, <2>1
    <3> QED  BY <1>2, <3>1
  <2> QED  BY <1>1, <2>1
<1>6. PICK s1 \in 0..(n - 1), y1 \in 0..(h - 1) : m = s1 * h + y1
  BY <1>1, <1>2, <1>5, PlaceInRows
<1>7. PICK x \in 1..w, c1 \in 1..p, k \in 1..b : q = PlaceInLine(p, b, x, c1, k)
  BY <1>1, <1>2, PlaceHasParts
<1>8. y1 + 1 \in 1..h /\ (y1 + 1) - 1 = y1
  BY <1>5
<1>9. CASE i.mode = "none"
  <2>1. /\ s1 + 1 \in 1..i.components /\ (s1 + 1) - 1 = s1
    BY <1>1, <1>3, <1>9
  <2>2. m = RowOf(i, y1 + 1, s1 + 1)
    BY <1>4, <1>6, <1>8, <1>9, <2>1
  <2>3. c1 = 1
    BY <1>3, <1>9
  <2>4. q = PlaceInRow(i, x, s1 + 1, k)
    BY <1>4, <1>7, <1>9, <2>3
  <2> QED  BY <1>8, <2>1, <2>2, <2>4 DEF h, w, b
<1>10. CASE i.mode # "none"
  <2>1. c1 \in 1..i.components
    BY <1>3, <1>10
  <2>2. s1 = 0
    BY <1>3, <1>10
  <2>3. s1 * h = (1 - 1) * h
    BY <1>5, <2>2
  <2>4. m = RowOf(i, y1 + 1, c1)
    BY <1>4, <1>6, <1>8, <1>10, <2>3
  <2>5. q = PlaceInRow(i, x, c1, k)
    BY <1>4, <1>7, <1>10
  <2> QED  BY <1>8, <2>1, <2>4, <2>5 DEF h, w, b
<1> QED  BY <1>9, <1>10

\* What is written is the bytes of samples.
LEMMA ByteAtIsByte ==
  ASSUME InterfaceIsKept, image \in Images,
         NEW m \in 0..(AllRows(image) - 1), NEW q \in 0..(LineOf(image) - 1)
  PROVE  ByteAt(image, m, q) \in 0..255
<1> DEFINE h == RegionOf(image).height
           n == PlanesOf(image)
           y0 == RegionOf(image).y
<1>1. h \in Nat /\ n \in Nat \ {0} /\ y0 \in Nat /\ y0 + h <= image.height /\ image.height \in Nat
  BY Numbers, RegionRows
<1>2. m \in 0..(n * h - 1)
  BY DEF AllRows
<1> DEFINE s == m \div h + 1
           y == y0 + (m % h) + 1
<1>3. s \in 1..n /\ y \in 1..image.height
  <2> HIDE DEF h, n, y0
  <2>1. h \in Nat \ {0}
    <3>1. CASE h = 0
      <4>1. n * h = 0
        BY <1>1, <3>1
      <4> QED  BY <1>2, <4>1
    <3> QED  BY <1>1, <3>1
  <2>2. PICK s1 \in 0..(n - 1), y1 \in 0..(h - 1) : m = s1 * h + y1
    BY <1>1, <1>2, <2>1, PlaceInRows
  <2>3. m \div h = s1 /\ m % h = y1
    <3>1. s1 \in Int /\ y1 \in 0..(h - 1)
      BY <1>1
    <3>2. (s1 * h + y1) \div h = s1 /\ (s1 * h + y1) % h = y1
      BY <2>1, <3>1, DivMod
    <3> QED  BY <2>2, <3>2
  <2>4. s1 + 1 \in 1..n /\ y0 + y1 + 1 \in 1..image.height
    BY <1>1, <2>1
  <2> QED  BY <2>3, <2>4
<1>4. ByteAt(image, m, q) = RowByte(image, s, y, q)
  BY Zenon DEF ByteAt, s, y, h, y0
<1> HIDE DEF s, y, h, n, y0
<1> DEFINE pixel == CodedRow(image, s, y)[RegionOf(image).x + PixelOf(image, q)]
           v == DecodedPixel(image, pixel)[Order(image, SampleAt(image, q))]
           e == q % SampleBytes(image)
<1>5. /\ SampleAt(image, q) \in 1..PerPixel(image)
      /\ e \in 0..(SampleBytes(image) - 1)
      /\ RegionOf(image).x + PixelOf(image, q) \in 1..image.width
  BY PartsInRegion DEF LineOf
<1>6. IsPixel(image, pixel)
  BY <1>3, <1>5, CodedRowIsRow DEF n
<1> HIDE DEF pixel
<1>7. IsPixel(image, DecodedPixel(image, pixel)) /\ Order(image, SampleAt(image, q)) \in 1..PerPixel(image)
  BY <1>5, <1>6, PixelCoded, SampleFromCodec
<1>8. v \in Values(image.bits)
  BY <1>7 DEF IsPixel
<1>9. RowByte(image, s, y, q) = ByteOf(v, e)
  BY Zenon DEF RowByte, pixel, v, e
<1> HIDE DEF v
<1>10. v \in Nat /\ v < 65536 /\ SampleBytes(image) \in {1, 2}
  BY <1>8, SampleInBytes, Numbers
<1>11. e \in {0, 1}
  BY <1>5, <1>10
<1> HIDE DEF e
<1> QED  BY <1>4, <1>9, <1>10, <1>11, BytesOfSample

\* In every state the destination holds so many rows.
LEMMA RowsReached ==
  ASSUME InterfaceIsKept, TransferInv
  PROVE  \E n \in 0..AllRows(image) :
            Holds(image, destination, n) /\ (n > 0 => rect = RegionOf(image))
<1>1. image \in Images /\ scan \in 1..PlanesOf(image) /\ line \in 0..image.height
  BY DEF TransferInv
<1>2. AllRows(image) \in Nat /\ 0 \in 0..AllRows(image) /\ ~(0 > 0)
  BY <1>1, RefusedEmpty
<1>3. CASE step \in {"encode", "read"}
  <2>1. destination = <<>>
    BY <1>3 DEF TransferInv, Encoding, Reading
  <2> QED  BY <1>1, <1>2, <2>1, RefusedEmpty
<1>4. CASE step = "decode"
  <2>1. Decoding
    BY <1>4 DEF TransferInv
  <2>2. RowsWritten(image, scan, line) \in 0..AllRows(image)
    <3>1. RowsOf(image, line) \in 0..RegionOf(image).height
      BY <1>1, RowsOfLine
    <3>2. RegionOf(image).height \in Nat /\ PlanesOf(image) \in Nat \ {0}
      BY <1>1, Numbers, RegionRows
    <3>3. /\ (scan - 1) * RegionOf(image).height + RowsOf(image, line) \in Nat
          /\ (scan - 1) * RegionOf(image).height + RowsOf(image, line)
               <= PlanesOf(image) * RegionOf(image).height
      BY <1>1, <3>1, <3>2, RowOfScan
    <3>4. RowsWritten(image, scan, line) \in Nat /\ RowsWritten(image, scan, line) <= AllRows(image)
      BY <3>3 DEF RowsWritten, AllRows
    <3> QED  BY <1>2, <3>4
  <2> QED  BY <2>1, <2>2 DEF Decoding
<1>5. CASE step = "done"
  <2>1. Decoded /\ AllRows(image) \in 0..AllRows(image)
    BY <1>2, <1>5 DEF TransferInv
  <2> QED  BY <2>1 DEF Decoded
<1>6. CASE step \in {"refused", "outside"}
  BY <1>6 DEF TransferInv, Refused, Outside, Stopped
<1> QED  BY <1>3, <1>4, <1>5, <1>6 DEF TransferInv, Steps

\* What was written lies within the buffer and belongs to the region.
LEMMA WithinBuffers ==
  ASSUME InterfaceIsKept, TransferInv
  PROVE  BuffersRespected
<1>1. image \in Images
  BY DEF TransferInv
<1>2. step = "outside" =>
         \/ image.source.missing > 0
         \/ ~ToStream /\ image.destination.stride # 0 /\ image.destination.count < EndOfLines
  <2>1. SUFFICES ASSUME step = "outside", ~(image.source.missing > 0)
                 PROVE  /\ ~ToStream /\ image.destination.stride # 0
                        /\ image.destination.count < EndOfLines
    OBVIOUS
  <2>2. EndsEarly(image) /\ rect = RegionOf(image)
    BY <2>1 DEF TransferInv, Outside
  <2>3. EndOfLines = (AllRows(image) - 1) * DestinationRow(image) + LineOf(image)
    <3>1. Planes = PlanesOf(image) /\ LineBytes(rect.width) = LineOf(image)
      BY <1>1, <2>2, RowsOfImage, SizesOfImage
    <3>2. DestinationRow(image) = DestinationStride
      BY <1>1, <2>2, RowsOfImage DEF EndsEarly, ToStream
    <3> QED  BY <2>2, <3>1, <3>2 DEF EndOfLines, AllRows
  <2> QED  BY <2>2, <2>3 DEF EndsEarly, ToStream
<1>3. PICK n \in 0..AllRows(image) :
         Holds(image, destination, n) /\ (n > 0 => rect = RegionOf(image))
  BY RowsReached
<1>4. AllRows(image) \in Nat /\ n \in Nat
  BY <1>1, RefusedEmpty
<1>5. ASSUME NEW a \in DOMAIN destination
      PROVE  destination[a] \in 0..255 /\ a \in Places
  <2>1. PICK m \in 0..(n - 1), q \in 0..(LineOf(image) - 1) : a = m * DestinationRow(image) + q
    BY <1>3 DEF Holds
  <2>2. m \in 0..(AllRows(image) - 1) /\ n > 0
    BY <1>4
  <2>3. destination[a] = ByteAt(image, m, q)
    BY <1>3, <2>1 DEF Holds
  <2>4. destination[a] \in 0..255
    BY <1>1, <2>2, <2>3, ByteAtIsByte
  <2>5. rect = RegionOf(image)
    BY <1>3, <2>2
  <2>6. PICK y \in 1..RegionOf(image).height, x \in 1..RegionOf(image).width,
             c \in 1..image.components, k \in 1..SampleBytes(image) :
               m = RowOf(image, y, c) /\ q = PlaceInRow(image, x, c, k)
    BY <1>1, <2>2, RowsAreOfSamples
  <2>7. y \in 1..rect.height /\ x \in 1..rect.width
    BY <2>5
  <2>8. PlaceOf(y, x, c, k) = a
    BY <1>1, <2>1, <2>5, <2>6, <2>7, PlaceOfByte
  <2>9. k \in 1..BytesPerSample
    BY SizesOfImage
  <2>10. a \in Places
    BY <2>7, <2>8, <2>9 DEF Places
  <2> QED  BY <2>4, <2>10
<1>6. 2^ByteBits - 1 = 255
  BY DEF InterfaceIsKept
<1> QED  BY <1>2, <1>5, <1>6 DEF BuffersRespected

\* BuffersRespected, for buffers of any size: a line is taken from outside of the source
\* only when that is memory and lacks a part of the image, and written outside of the
\* destination only when that is memory with a stride and ends before its last line;
\* no byte is written where no sample of the region belongs.
THEOREM BuffersAlwaysRespected ==
  ASSUME InterfaceIsKept
  PROVE  Spec => []BuffersRespected
<1>1. Spec => []TransferInv
  BY TransferIsInLine
<1>2. TransferInv => BuffersRespected
  BY WithinBuffers
<1> QED  BY <1>1, <1>2, PTL

\* The byte that is written is that of the sample, in the order of the colours asked for.
LEMMA ByteOfSample ==
  ASSUME InterfaceIsKept, image \in Images, Restorable(image),
         NEW y \in 1..RegionOf(image).height, NEW x \in 1..RegionOf(image).width,
         NEW c \in 1..image.components, NEW k \in 1..SampleBytes(image)
  PROVE  ByteAt(image, RowOf(image, y, c), PlaceInRow(image, x, c, k))
           = ByteOf(image.samples[RegionOf(image).y + y][RegionOf(image).x + x][Order(image, c)], k - 1)
<1> DEFINE r == RegionOf(image)
           s == ScanOf(image, c)
           m == RowOf(image, y, c)
           q == PlaceInRow(image, x, c, k)
           d == SampleInPixel(image, c)
<1>1. /\ s \in 1..PlanesOf(image) /\ d \in 1..PerPixel(image)
      /\ m \div r.height = s - 1 /\ m % r.height = y - 1 /\ q \in 0..(LineOf(image) - 1)
  BY RowOfByte
<1>2. /\ r.x \in Nat /\ r.y \in Nat /\ r.x + r.width <= image.width
      /\ r.y + r.height <= image.height /\ image.width \in Nat /\ image.height \in Nat
      /\ r.width \in Nat /\ r.height \in Nat
  BY RegionRows, Numbers
<1>3. r.y + y \in 1..image.height /\ r.x + x \in 1..image.width
  BY <1>2
<1>4. PixelOf(image, q) = x /\ SampleAt(image, q) = d /\ q % SampleBytes(image) = k - 1
  <2> DEFINE p == PerPixel(image)
             b == SampleBytes(image)
             w == r.width
  <2>1. /\ p \in Nat \ {0} /\ b \in Nat \ {0} /\ w \in Nat /\ q = PlaceInLine(p, b, x, d, k)
    BY <1>2, Numbers DEF PlaceInRow
  <2> HIDE DEF q, d
  <2>2. HasParts(q, p, b, w, x, d, k)
    BY <1>1, <2>1, PartsOfPlace
  <2>3. /\ PixelOf(image, q) = q \div (p * b) + 1
        /\ SampleAt(image, q) = (q % (p * b)) \div b + 1
    BY DEF PixelOf, SampleAt
  <2>4. x \in Int /\ d \in Int
    BY <1>1, <1>2, <2>1
  <2> HIDE DEF p, b, w
  <2>5. q \div (p * b) = x - 1 /\ (q % (p * b)) \div b = d - 1 /\ q % b = k - 1
    BY <2>2 DEF HasParts
  <2> QED  BY <2>3, <2>4, <2>5 DEF b
<1>5. ByteAt(image, m, q) = RowByte(image, s, r.y + y, q)
  <2>1. m \div r.height + 1 = s /\ r.y + (m % r.height) + 1 = r.y + y
    <3>1. s \in Int /\ y \in Int
      BY <1>1, <1>2
    <3> HIDE DEF m, s
    <3> QED  BY <1>1, <1>2, <3>1
  <2>2. ByteAt(image, m, q) = RowByte(image, m \div r.height + 1, r.y + (m % r.height) + 1, q)
    BY Zenon DEF ByteAt, r
  <2> HIDE DEF m, q, s, r
  <2> QED  BY <2>1, <2>2
<1> DEFINE raw == RawPixels(image, s, r.y + y)[r.x + x]
<1>6. RowByte(image, s, r.y + y, q)
        = ByteOf(DecodedPixel(image, CodedRow(image, s, r.y + y)[r.x + x])[Order(image, d)], k - 1)
  BY <1>4, Zenon DEF RowByte, r
<1>7. CodedRow(image, s, r.y + y)[r.x + x] = CodedPixel(image, raw)
  BY <1>3 DEF CodedRow
<1>8. IsPixel(image, raw)
  BY <1>1, <1>3, RawIsPixel
<1>9. raw = [e \in 1..PerPixel(image) |-> image.samples[r.y + y][r.x + x][ComponentOf(image, s, e)]]
  BY <1>3 DEF RawPixels
<1> HIDE DEF raw, m, q
<1>10. DecodedPixel(image, CodedPixel(image, raw)) = raw
  BY <1>8, PixelRestored
<1>11. Order(image, d) \in 1..PerPixel(image)
  <2>1. IsPixel(image, raw) /\ d \in 1..PerPixel(image)
    BY <1>1, <1>8
  <2> HIDE DEF d
  <2> QED  BY <2>1, SampleFromCodec
<1>12. raw[Order(image, d)]
         = image.samples[r.y + y][r.x + x][ComponentOf(image, s, Order(image, d))]
  BY <1>9, <1>11
<1>13. ComponentOf(image, s, Order(image, d)) = Order(image, c)
  BY DEF ComponentOf, Order, SampleInPixel, ScanOf
<1> QED  BY <1>5, <1>6, <1>7, <1>10, <1>12, <1>13 DEF m, q

\* At the end every sample of the region is in its place.
LEMMA AllArrived ==
  ASSUME InterfaceIsKept, \A i \in Images : Restorable(i), TransferInv
  PROVE  PixelsArrive
<1>1. SUFFICES ASSUME step = "done",
                      NEW y \in 1..rect.height, NEW x \in 1..rect.width,
                      NEW c \in 1..image.components, NEW k \in 1..BytesPerSample
               PROVE  /\ PlaceOf(y, x, c, k) \in DOMAIN destination
                      /\ destination[PlaceOf(y, x, c, k)]
                           = BytesOf(image.samples[rect.y + y][rect.x + x][ComponentAt(c)])[k]
  BY DEF PixelsArrive
<1>2. image \in Images /\ rect = RegionOf(image) /\ Holds(image, destination, AllRows(image))
  BY <1>1 DEF TransferInv, Decoded
<1>3. Restorable(image)
  BY <1>2
<1>4. /\ y \in 1..RegionOf(image).height /\ x \in 1..RegionOf(image).width
      /\ k \in 1..SampleBytes(image)
  BY <1>1, <1>2, SizesOfImage
<1> DEFINE m == RowOf(image, y, c)
           q == PlaceInRow(image, x, c, k)
           v == image.samples[rect.y + y][rect.x + x][Order(image, c)]
<1>5. PlaceOf(y, x, c, k) = m * DestinationRow(image) + q
  BY <1>1, <1>2, <1>4, PlaceOfByte
<1>6. m \in 0..(AllRows(image) - 1) /\ q \in 0..(LineOf(image) - 1)
  BY <1>1, <1>2, <1>4, RowOfByte
<1>7. ByteAt(image, m, q) = ByteOf(v, k - 1)
  BY <1>1, <1>2, <1>3, <1>4, ByteOfSample
<1>8. ComponentAt(c) = Order(image, c)
  BY DEF ComponentAt, Order, Interleaved
<1>9. BytesOf(v)[k] = ByteOf(v, k - 1)
  BY <1>1, BytesAreBytes
<1> HIDE DEF m, q, v
<1>10. /\ m * DestinationRow(image) + q \in DOMAIN destination
       /\ destination[m * DestinationRow(image) + q] = ByteAt(image, m, q)
  BY <1>2, <1>6 DEF Holds
<1> QED  BY <1>5, <1>7, <1>8, <1>9, <1>10 DEF v

\* PixelsArrive: every sample of the region arrives with its value in its place,
\* unless a shift took its low bits on the way.
THEOREM PixelsAlwaysArrive ==
  ASSUME InterfaceIsKept, \A i \in Images : Restorable(i)
  PROVE  Spec => []PixelsArrive
<1>1. Spec => []TransferInv
  BY TransferIsInLine
<1>2. TransferInv => PixelsArrive
  BY AllArrived
<1> QED  BY <1>1, <1>2, PTL

=============================================================================

---------------------------- MODULE ColorTransform ----------------------------
(***************************************************************************)
(* The colour transformations (color_transform.h).  A transformation works *)
(* on samples of a type of w bits, 8 or 16 in the code; what a computation *)
(* yields is cast to that type.  A pixel is a tuple of 3 samples, or of 4  *)
(* whose last is left alone.                                               *)
(***************************************************************************)
EXTENDS Integers, Sequences

Half(w) == 2^w \div 2
Quarter(w) == 2^w \div 4

\* The constructor of Triplet: each value is cast to the type of its samples.
Triplet(w, v1, v2, v3) == <<v1 % 2^w, v2 % 2^w, v3 % 2^w>>

TransformHp1(w, r, g, b) == Triplet(w, r - g + Half(w), g, b - g + Half(w))

InverseHp1(w, v1, v2, v3) == Triplet(w, v1 + v2 - Half(w), v2, v3 + v2 - Half(w))

TransformHp2(w, r, g, b) ==
  Triplet(w, r - g + Half(w), g, b - (r + g) \div 2 - Half(w))

\* Mutant: blue is restored from the red that was not cast yet.
InverseHp2Uncast(w, v1, v2, v3) ==
  LET red == v1 + v2 - Half(w)
  IN  Triplet(w, red, v2, v3 + (red + v2) \div 2 - Half(w))

\* Blue is restored from the red that was: the mean of both needs its wrap.
InverseHp2(w, v1, v2, v3) ==
  LET red == (v1 + v2 - Half(w)) % 2^w
  IN  Triplet(w, red, v2, v3 + (red + v2) \div 2 - Half(w))

\* The mean is that of the casted differences, as the inverse will see them.
TransformHp3(w, r, g, b) ==
  LET v2 == (b - g + Half(w)) % 2^w
      v3 == (r - g + Half(w)) % 2^w
  IN  Triplet(w, ((g + (v2 + v3) \div 4) % 2^w) - Quarter(w), v2, v3)

InverseHp3(w, v1, v2, v3) ==
  LET green == v1 - (v3 + v2) \div 4 + Quarter(w)
  IN  Triplet(w, v3 + green - Half(w), green, v2 + green - Half(w))

ColorTransformations == {"none", "hp1", "hp2", "hp3"}

Forward(kind, w, p) ==
  CASE kind = "hp1" -> TransformHp1(w, p[1], p[2], p[3])
    [] kind = "hp2" -> TransformHp2(w, p[1], p[2], p[3])
    [] kind = "hp3" -> TransformHp3(w, p[1], p[2], p[3])
    [] OTHER -> Triplet(w, p[1], p[2], p[3])

Backward(kind, w, p) ==
  CASE kind = "hp1" -> InverseHp1(w, p[1], p[2], p[3])
    [] kind = "hp2" -> InverseHp2(w, p[1], p[2], p[3])
    [] kind = "hp3" -> InverseHp3(w, p[1], p[2], p[3])
    [] OTHER -> Triplet(w, p[1], p[2], p[3])

ShiftUp(p, shift) == [k \in 1..3 |-> p[k] * 2^shift]
ShiftDown(p, shift) == [k \in 1..3 |-> p[k] \div 2^shift]

Alpha(p) == SubSeq(p, 4, Len(p))

\* Samples of fewer bits than their type are shifted to its high bits before a
\* transformation, and what it yields is shifted back; t has a kind, the width
\* of the type and the shift, 0 where the code does not shift.
TransformPixel(t, p) ==
  ShiftDown(Forward(t.kind, t.width, ShiftUp(p, t.shift)), t.shift) \o Alpha(p)

InversePixel(t, p) ==
  ShiftDown(Backward(t.kind, t.width, ShiftUp(p, t.shift)), t.shift) \o Alpha(p)
=============================================================================

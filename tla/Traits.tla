-------------------------------- MODULE Traits --------------------------------
(***************************************************************************)
(* The arithmetic of prediction errors and reconstructed samples: the two  *)
(* families of traits classes that JlsCodec is instantiated with,          *)
(* DefaultTraits (default_traits.h) and LosslessTraits (lossless_traits.h).*)
(***************************************************************************)
EXTENDS Util, Sequences

CONSTANTS BitsPerSample, \* of the frame, 2 to 16
          NEAR,          \* largest error of a reconstructed sample
          MAXVAL,        \* traits.MAXVAL
          Lossless       \* is the codec one of the LosslessTraits ones?

\* RANGE and the lengths of codes come from the bit depth, whatever MAXVAL.
Step  == 2 * NEAR + 1
RANGE == (2^BitsPerSample - 1 + 2 * NEAR) \div Step + 1
qbpp  == Log2(RANGE)
bpp   == Log2(2^BitsPerSample - 1)
LIMIT == 2 * (bpp + Largest(8, bpp))

\* Division that truncates, as that of int does: towards 0.
Quantize(e) == IF e > 0 THEN (e + NEAR) \div Step ELSE -((NEAR - e) \div Step)

DeQuantize(e) == e * Step

\* DefaultTraits::ModuloRange: into -RANGE/2 .. (RANGE + 1)/2 - 1.
ModuloRange(e) ==
    LET up == IF e < 0 THEN e + RANGE ELSE e
    IN  IF up >= (RANGE + 1) \div 2 THEN up - RANGE ELSE up

\* The shifts, or the cast, of LosslessTraits: the low bits as a signed number.
SignExtend(e) == ((e + 2^(BitsPerSample - 1)) % 2^BitsPerSample) - 2^(BitsPerSample - 1)

ComputeErrVal(e) == IF Lossless THEN SignExtend(e) ELSE ModuloRange(Quantize(e))

\* (Pxc & MAXVAL) == Pxc: every 1 bit of v is one of MAXVAL.
IsMasked(v) == v >= 0 /\ \A i \in 0..17 :
                  (v \div 2^i) % 2 = 1 => (MAXVAL \div 2^i) % 2 = 1

CorrectPrediction(p) ==
    IF IsMasked(p) THEN p ELSE IF p < 0 THEN 0 ELSE MAXVAL

\* Mutant: a value beyond the range is not brought back modulo RANGE.
FixWithoutWrap(v) == CorrectPrediction(v)

FixReconstructedValue(v) ==
    CorrectPrediction(IF v < -NEAR THEN v + RANGE * Step
                      ELSE IF v > MAXVAL + NEAR THEN v - RANGE * Step
                      ELSE v)

ComputeReconstructedSample(p, e) ==
    IF Lossless THEN (p + e) % 2^BitsPerSample
    ELSE FixReconstructedValue(p + DeQuantize(e))

NearSample(a, b) == Absolute(a - b) <= NEAR

\* IsNear of two pixels, which are sequences of samples.  LosslessTraits of a
\* Quad compare with ==, which is declared for Triplet only and looks at three
\* samples (util.h, line 200).
IsNear(p, q) ==
    LET compared == IF Lossless /\ Len(p) = 4 THEN 1..3 ELSE DOMAIN p
    IN  \A i \in compared : NearSample(p[i], q[i])
=============================================================================

---------------------------- MODULE CodingProofs ----------------------------
(***************************************************************************)
(* What a scan is coded with, for every value of the parameters.           *)
(*                                                                         *)
(* Thresholds: the defaults are in order for every frame and every NEAR.   *)
(*                                                                         *)
(* Samples: what the encoder and the decoder reconstruct is a sample, and  *)
(* within NEAR of the one of the image, for every bit depth.               *)
(*                                                                         *)
(* Codes: every code that is written is read, and nothing more than it,    *)
(* for every bit depth, k and error, and every length of a run.  The       *)
(* proof goes from the bits of calls (what FlattenSeq computes) to the     *)
(* shape of a code, Code(z, v, n): z zeros, a 1 and v in n bits.  A code   *)
(* that is not escaped is that of its quotient and remainder, an escape    *)
(* that of as many zeros as there can be and the value.  Reading counts    *)
(* the zeros and takes the number behind them, which gives the value back; *)
(* that no code starts another gives the tables.  For runs, a loop of the  *)
(* reader follows the loop of the writer, block by block.                  *)
(*                                                                         *)
(* Recursive functions are reasoned about through what they satisfy at     *)
(* each argument; where a definition has to be shown to exist, or to hold  *)
(* at every argument, the argument is the smallest one that fails.         *)
(***************************************************************************)
EXTENDS CodeWords, PresetParameters, Traits, UtilProofs

-----------------------------------------------------------------------------
(* The default thresholds. *)

\* compute_default returns ordered thresholds above NEAR, for every frame and for
\* every NEAR that a scan of it can have.
THEOREM DefaultThresholdsOrdered ==
    ASSUME NEW maxval \in Int, 1 <= maxval, NEW near \in 0..MaximumNearLossless(maxval)
    PROVE  ThresholdsOrdered(ComputeDefault(maxval, near), maxval, near)
<1>1. near \in Nat /\ near < maxval
  <2>1. near \in Int /\ near < maxval
    BY NearBelowMaxval
  <2>2. near \in Nat
    BY <2>1 DEF MaximumNearLossless, Smallest
  <2> QED  BY <2>1, <2>2
<1>2. near < ComputeDefault(maxval, near).T1
      /\ ComputeDefault(maxval, near).T1 <= ComputeDefault(maxval, near).T2
      /\ ComputeDefault(maxval, near).T2 <= ComputeDefault(maxval, near).T3
      /\ ComputeDefault(maxval, near).T3 <= maxval
  BY <1>1, DefaultsInOrder
<1> QED
  BY <1>2 DEF ThresholdsOrdered

-----------------------------------------------------------------------------
(* Reconstructed samples. *)

(* The frame and the scan that the codec was made for: NEAR is at most     *)
(* half of the largest sample value, and the lossless traits have none.    *)
Fits == /\ BitsPerSample \in 2..16 /\ MAXVAL = 2^BitsPerSample - 1
        /\ NEAR \in 0..(MAXVAL \div 2)
        /\ Lossless \in BOOLEAN /\ (Lossless => NEAR = 0)

\* Where a frame's largest sample value lies.
LEMMA MaxvalRange ==
    ASSUME Fits
    PROVE  /\ MAXVAL \in Nat /\ NEAR \in Nat /\ MAXVAL + 1 = 2^BitsPerSample
           /\ 2 * NEAR <= MAXVAL /\ MAXVAL <= 65535
<1>1. 2^BitsPerSample \in Nat \ {0}
  BY PowerStep DEF Fits
<1>2. 2^BitsPerSample <= 2^16
  <2>1. CASE BitsPerSample = 16
    BY <2>1, <1>1
  <2>2. CASE BitsPerSample # 16
    <3>1. BitsPerSample \in 0..30 /\ 16 \in (BitsPerSample + 1)..31
      BY <2>2 DEF Fits
    <3>2. PICK q \in Nat \ {0} : 2^16 = 2 * q * 2^BitsPerSample
      BY <3>1, PowerDivides
    <3>. QED  BY <3>2, <1>1
  <2>. QED  BY <2>1, <2>2
<1>3. 2^16 = 65536
  OBVIOUS
<1>. QED  BY <1>1, <1>2, <1>3 DEF Fits

\* The mask of MAXVAL passes every sample value.
LEMMA SampleIsMasked ==
    ASSUME Fits, NEW v \in 0..MAXVAL
    PROVE  IsMasked(v)
<1> DEFINE d == BitsPerSample
<1>1. d \in 2..16 /\ MAXVAL + 1 = 2^d /\ MAXVAL \in Nat
  BY MaxvalRange DEF Fits
<1> HIDE DEF d
<1>2. SUFFICES ASSUME NEW i \in 0..17, (v \div 2^i) % 2 = 1
               PROVE  (MAXVAL \div 2^i) % 2 = 1
  BY <1>1 DEF IsMasked
<1>3. 2^i \in Nat \ {0}
  <2>1. i \in 0..30
    OBVIOUS
  <2>. QED  BY <2>1, PowerStep
<1>4. CASE i < d
  <2>1. i \in 0..30 /\ d \in (i + 1)..31
    BY <1>1, <1>4
  <2>2. PICK q \in Nat \ {0} : 2^d = 2 * q * 2^i
    BY <2>1, PowerDivides
  <2>3. MAXVAL = (2 * q - 1) * 2^i + (2^i - 1)
    BY <1>1, <1>3, <2>2
  <2>4. MAXVAL \div 2^i = 2 * q - 1
    <3> DEFINE p == 2^i
               n == 2 * q - 1
    <3>1. n \in Int /\ p \in Nat \ {0} /\ MAXVAL = n * p + (p - 1)
      BY <1>3, <2>3
    <3> HIDE DEF p, n
    <3>2. 0 <= MAXVAL - n * p /\ MAXVAL - n * p < p
      BY <3>1
    <3>3. MAXVAL \div p = n
      BY <1>1, <3>1, <3>2, DivisionAt
    <3>. QED  BY <3>3 DEF p, n
  <2>5. (2 * q - 1) % 2 = 1
    OBVIOUS
  <2>. QED  BY <2>4, <2>5
<1>5. CASE ~(i < d)
  <2>1. v < 2^i
    <3>1. CASE i = d
      BY <1>1, <3>1
    <3>2. CASE i # d
      <4>1. d \in 0..30 /\ i \in (d + 1)..31
        BY <1>1, <1>5, <3>2
      <4>2. PICK q \in Nat \ {0} : 2^i = 2 * q * 2^d
        BY <4>1, PowerDivides
      <4>. QED  BY <1>1, <4>2
    <3>. QED  BY <3>1, <3>2
  <2>2. v \div 2^i = 0
    BY <1>1, <1>3, <2>1, DivisionAt
  <2>3. 0 % 2 # 1
    OBVIOUS
  <2>. QED  BY <1>2, <2>2, <2>3, Zenon
<1>. QED  BY <1>4, <1>5

\* The mask of MAXVAL stops every value above it: its highest bit.
LEMMA LargerIsNotMasked ==
    ASSUME Fits, NEW v \in Int, MAXVAL < v, v < 2^18
    PROVE  ~IsMasked(v)
<1> DEFINE d == BitsPerSample
           Above == {i \in 0..17 : v < 2^(i + 1)}
<1>1. d \in 2..16 /\ MAXVAL + 1 = 2^d /\ MAXVAL \in Nat
  BY MaxvalRange DEF Fits
<1> HIDE DEF d
<1>2. 17 \in Above /\ Above \in SUBSET Nat
  <2>1. 17 \in 0..17 /\ 17 + 1 = 18
    OBVIOUS
  <2>. QED  BY <2>1
<1>3. PICK i \in Above : \A m \in Above : i <= m
  <2> HIDE DEF Above
  <2>. QED  BY <1>2, LeastElement
<1>4. 2^i \in Nat \ {0} /\ 2^(i + 1) \in Nat \ {0} /\ v < 2 * 2^i
  <2>1. i \in 0..30 /\ i + 1 \in 0..30 /\ v < 2^(i + 1)
    BY <1>3
  <2>. QED  BY <2>1, PowerStep
<1>5. d <= i
  <2>1. SUFFICES ASSUME i < d PROVE FALSE
    BY <1>1
  <2>2. 2^(i + 1) <= 2^d
    <3>1. CASE d = i + 1
      BY <3>1, <1>4
    <3>2. CASE d # i + 1
      <4>1. i + 1 \in 0..30 /\ d \in ((i + 1) + 1)..31
        BY <1>1, <2>1, <3>2
      <4>2. PICK q \in Nat \ {0} : 2^d = 2 * q * 2^(i + 1)
        BY <4>1, PowerDivides
      <4>3. 2^(i + 1) \in Nat
        BY <1>4
      <4>4. 2^(i + 1) <= 2 * q * 2^(i + 1)
        BY <4>3
      <4>. QED  BY <4>2, <4>4
    <3>. QED  BY <3>1, <3>2
  <2>. QED  BY <1>1, <1>3, <1>4, <2>2
<1>6. 2^i <= v
  <2>1. CASE i = d
    BY <1>1, <2>1
  <2>2. CASE i # d
    <3>1. i - 1 \in 0..17 /\ i - 1 \notin Above /\ (i - 1) + 1 = i
      BY <1>1, <1>3, <1>5, <2>2
    <3>. QED  BY <3>1, <1>4
  <2>. QED  BY <2>1, <2>2
<1>7. v \div 2^i = 1
  BY <1>4, <1>6, DivisionAt
<1>8. MAXVAL \div 2^i = 0
  <2>1. MAXVAL < 2^i
    <3>1. CASE i = d
      BY <1>1, <3>1
    <3>2. CASE i # d
      <4>1. d \in 0..30 /\ i \in (d + 1)..31
        BY <1>1, <1>5, <3>2
      <4>2. PICK q \in Nat \ {0} : 2^i = 2 * q * 2^d
        BY <4>1, PowerDivides
      <4>. QED  BY <1>1, <4>2
    <3>. QED  BY <3>1, <3>2
  <2>. QED  BY <1>1, <1>4, <2>1, DivisionAt
<1>9. i \in 0..17 /\ (v \div 2^i) % 2 = 1 /\ (MAXVAL \div 2^i) % 2 # 1
  <2>1. 1 % 2 = 1 /\ 0 % 2 # 1
    OBVIOUS
  <2>2. i \in 0..17
    OBVIOUS
  <2>. QED  BY <1>7, <1>8, <2>1, <2>2, Zenon
<1>. QED  BY <1>9 DEF IsMasked

\* CorrectPrediction clamps to the sample values, though it only has a mask.
LEMMA PredictionClamped ==
    ASSUME Fits, NEW v \in Int, v < 2^18
    PROVE  CorrectPrediction(v) = IF v < 0 THEN 0 ELSE IF v > MAXVAL THEN MAXVAL ELSE v
<1>1. MAXVAL \in Nat
  BY MaxvalRange
<1>2. CASE v < 0
  BY <1>2 DEF CorrectPrediction, IsMasked
<1>3. CASE v \in 0..MAXVAL
  BY <1>1, <1>3, SampleIsMasked DEF CorrectPrediction
<1>4. CASE MAXVAL < v
  BY <1>1, <1>4, LargerIsNotMasked DEF CorrectPrediction
<1>. QED  BY <1>1, <1>2, <1>3, <1>4

\* RANGE is the number of steps that the differences of samples, each moved by
\* up to NEAR, take.
LEMMA RangeOfSteps ==
    ASSUME Fits
    PROVE  /\ Step = 2 * NEAR + 1 /\ Step \in Nat \ {0}
           /\ RANGE \in Nat \ {0}
           /\ (RANGE - 1) * Step <= MAXVAL + 2 * NEAR
           /\ MAXVAL + 2 * NEAR < RANGE * Step
<1> DEFINE a == MAXVAL + 2 * NEAR
           q == a \div Step
<1>1. /\ Step = 2 * NEAR + 1 /\ Step \in Nat \ {0} /\ a \in Nat
      /\ MAXVAL = 2^BitsPerSample - 1
  BY MaxvalRange DEF Step, Fits
<1>2. RANGE = q + 1
  BY <1>1 DEF RANGE
<1> HIDE DEF a
<1>3. q \in Nat /\ q * Step <= a /\ a < (q + 1) * Step
  BY <1>1
<1> HIDE DEF q
<1>. QED  BY <1>1, <1>2, <1>3 DEF a

\* A multiple of Step goes back to where it came from, up to NEAR.
LEMMA QuantizeWithinNear ==
    ASSUME Fits, NEW e \in (-MAXVAL)..MAXVAL
    PROVE  /\ Quantize(e) \in (1 - RANGE)..(RANGE - 1)
           /\ Quantize(e) * Step - e \in (-NEAR)..NEAR
<1> DEFINE a == IF e > 0 THEN e + NEAR ELSE NEAR - e
           q == a \div Step
<1>1. /\ MAXVAL \in Nat /\ NEAR \in Nat /\ Step = 2 * NEAR + 1
      /\ Step \in Nat \ {0} /\ RANGE \in Nat \ {0}
      /\ MAXVAL + 2 * NEAR < RANGE * Step
  BY MaxvalRange, RangeOfSteps
<1>2. a \in Nat /\ a <= MAXVAL + NEAR
  BY <1>1
<1>3. Quantize(e) = IF e > 0 THEN q ELSE -q
  BY DEF Quantize
<1>4. a - NEAR = IF e > 0 THEN e ELSE -e
  BY <1>1
<1> HIDE DEF a
<1>5. q \in Nat /\ q * Step <= a /\ a < q * Step + Step
  BY <1>1, <1>2, DivisionBounds
<1> HIDE DEF q
<1>6. q <= RANGE - 1
  <2>1. SUFFICES ASSUME RANGE <= q PROVE FALSE
    BY <1>1, <1>5
  <2>2. RANGE * Step <= q * Step
    BY <1>1, <1>5, <2>1
  <2>. QED  BY <1>1, <1>2, <1>5, <2>2
<1>7. q * Step - (a - NEAR) \in (-NEAR)..NEAR
  BY <1>1, <1>2, <1>5
<1>8. (-q) * Step = -(q * Step)
  BY <1>1, <1>5
<1>. QED  BY <1>1, <1>3, <1>4, <1>5, <1>6, <1>7, <1>8

\* ModuloRange adds RANGE, nothing, or takes it away; both of its assertions hold
\* (default_traits.h).
LEMMA ModuloRangeShifts ==
    ASSUME Fits, NEW q \in (1 - RANGE)..(RANGE - 1)
    PROVE  /\ ModuloRange(q) \in (-(RANGE \div 2))..((RANGE + 1) \div 2 - 1)
           /\ \E k \in {-1, 0, 1} : ModuloRange(q) = q + k * RANGE
<1>1. RANGE \in Nat \ {0}
  BY RangeOfSteps
<1>2. (RANGE + 1) \div 2 - RANGE = -(RANGE \div 2) /\ (RANGE + 1) \div 2 \in Nat
  BY <1>1
<1> DEFINE up == IF q < 0 THEN q + RANGE ELSE q
           m  == ModuloRange(q)
<1>3. m = IF up >= (RANGE + 1) \div 2 THEN up - RANGE ELSE up
  BY DEF ModuloRange
<1>4. up \in 0..(RANGE - 1)
  BY <1>1
<1>5. m \in (-(RANGE \div 2))..((RANGE + 1) \div 2 - 1)
  BY <1>1, <1>2, <1>3, <1>4
<1>6. m = q + (-1) * RANGE \/ m = q + 0 * RANGE \/ m = q + 1 * RANGE
  BY <1>1, <1>3, <1>4
<1>. QED  BY <1>5, <1>6

\* FixReconstructedValue undoes what ModuloRange did, and then corrects.
LEMMA WrapUndone ==
    ASSUME Fits, NEW w \in (-NEAR)..(MAXVAL + NEAR), NEW k \in {-1, 0, 1}
    PROVE  FixReconstructedValue(w + k * (RANGE * Step)) = CorrectPrediction(w)
<1> DEFINE turn == RANGE * Step
           v    == w + k * turn
<1>1. /\ MAXVAL \in Nat /\ NEAR \in Nat /\ turn \in Nat
      /\ MAXVAL + 2 * NEAR < turn
  BY MaxvalRange, RangeOfSteps
<1>2. FixReconstructedValue(v)
          = CorrectPrediction(IF v < -NEAR THEN v + turn
                              ELSE IF v > MAXVAL + NEAR THEN v - turn ELSE v)
  BY DEF FixReconstructedValue
<1> HIDE DEF turn
<1>3. (IF v < -NEAR THEN v + turn
       ELSE IF v > MAXVAL + NEAR THEN v - turn ELSE v) = w
  <2>1. CASE k = -1
    <3>1. v = w - turn
      BY <1>1, <2>1
    <3>. QED  BY <1>1, <3>1
  <2>2. CASE k = 0
    <3>1. v = w
      BY <1>1, <2>2
    <3>. QED  BY <1>1, <3>1
  <2>3. CASE k = 1
    <3>1. v = w + turn
      BY <1>1, <2>3
    <3>. QED  BY <1>1, <3>1
  <2>. QED  BY <2>1, <2>2, <2>3
<1> HIDE DEF v
<1>4. FixReconstructedValue(v) = CorrectPrediction(w)
  BY <1>2, <1>3
<1>. QED  BY <1>4 DEF v, turn

\* With NEAR, and without in a codec that is not one of the lossless ones: the
\* error is in range, and the sample comes back up to NEAR.
LEMMA DefaultTraitsRestore ==
    ASSUME Fits, ~Lossless, NEW x \in 0..MAXVAL, NEW p \in 0..MAXVAL,
           NEW sign \in {-1, 1}
    PROVE  LET e == ComputeErrVal(sign * (x - p))
               y == ComputeReconstructedSample(p, sign * e)
           IN  /\ e \in (-(RANGE \div 2))..((RANGE + 1) \div 2 - 1)
               /\ y \in 0..MAXVAL /\ NearSample(y, x)
<1> DEFINE d == sign * (x - p)
           q == Quantize(d)
           e == ModuloRange(q)
           y == ComputeReconstructedSample(p, sign * e)
<1>1. /\ MAXVAL \in Nat /\ NEAR \in Nat /\ 2 * NEAR <= MAXVAL /\ MAXVAL <= 65535
      /\ RANGE \in Nat /\ Step \in Nat
  BY MaxvalRange, RangeOfSteps
<1>2. d \in (-MAXVAL)..MAXVAL /\ sign * d = x - p
  BY <1>1
<1>3. ComputeErrVal(d) = e /\ y = FixReconstructedValue(p + DeQuantize(sign * e))
  BY DEF ComputeErrVal, ComputeReconstructedSample
<1> HIDE DEF d
<1>4. q \in (1 - RANGE)..(RANGE - 1) /\ q * Step - d \in (-NEAR)..NEAR
  BY <1>2, QuantizeWithinNear
<1> HIDE DEF q
<1>5. e \in (-(RANGE \div 2))..((RANGE + 1) \div 2 - 1)
  BY <1>4, ModuloRangeShifts
<1>6. PICK k \in {-1, 0, 1} : e = q + k * RANGE
  BY <1>4, ModuloRangeShifts
<1> HIDE DEF e
<1> DEFINE w == x + sign * (q * Step - d)
<1>7. w \in (-NEAR)..(MAXVAL + NEAR) /\ w - x \in (-NEAR)..NEAR
  BY <1>1, <1>4
<1>8. p + DeQuantize(sign * e) = w + (sign * k) * (RANGE * Step)
  <2> DEFINE turn == RANGE * Step
             m    == q * Step
  <2>1. turn \in Int /\ m \in Int /\ e * Step = m + k * turn
    <3>1. q \in Int /\ k \in Int /\ RANGE \in Int /\ Step \in Int
      BY <1>1, <1>4
    <3>2. turn \in Int /\ m \in Int
      BY <3>1
    <3>3. (q + k * RANGE) * Step = q * Step + k * (RANGE * Step)
      BY <3>1
    <3>. QED  BY <1>6, <3>2, <3>3
  <2>2. (sign * e) * Step = sign * (e * Step)
    BY <1>1, <1>5
  <2> HIDE DEF turn, m
  <2>3. p + sign * (m + k * turn) = x + sign * (m - d) + (sign * k) * turn
    <3>1. /\ m \in Int /\ turn \in Int /\ d \in Int /\ p \in Int /\ x \in Int
          /\ sign * d = x - p
      BY <1>1, <1>2, <2>1
    <3>2. CASE sign = 1
      BY <3>1, <3>2
    <3>3. CASE sign = -1
      <4>1. k \in {-1, 0, 1} /\ (-1) * (m + k * turn) = -m - k * turn
            /\ ((-1) * k) * turn = -(k * turn)
        BY <3>1
      <4>2. (-1) * (m - d) = d - m /\ -d = x - p /\ k * turn \in Int
        BY <3>1, <3>3
      <4>. QED  BY <3>1, <3>3, <4>1, <4>2
    <3>. QED  BY <3>2, <3>3
  <2>. QED  BY <2>1, <2>2, <2>3 DEF DeQuantize, turn, m
<1> HIDE DEF w
<1>9. y = CorrectPrediction(w)
  <2>1. sign * k \in {-1, 0, 1}
    OBVIOUS
  <2>. QED  BY <1>3, <1>7, <1>8, <2>1, WrapUndone
<1>10. y = IF w < 0 THEN 0 ELSE IF w > MAXVAL THEN MAXVAL ELSE w
  <2>1. w \in Int /\ w < 2^18
    <3>1. 2^18 = 262144
      OBVIOUS
    <3>. QED  BY <1>1, <1>7, <3>1
  <2>. QED  BY <1>9, <2>1, PredictionClamped
<1>11. y \in 0..MAXVAL /\ NearSample(y, x)
  BY <1>1, <1>7, <1>10 DEF NearSample, Absolute
<1>. QED  BY <1>3, <1>5, <1>11 DEF d

\* The low bits of an error are enough for the sample when nothing is lost.
LEMMA LosslessTraitsRestore ==
    ASSUME Fits, Lossless, NEW x \in 0..MAXVAL, NEW p \in 0..MAXVAL,
           NEW sign \in {-1, 1}
    PROVE  LET e == ComputeErrVal(sign * (x - p))
               y == ComputeReconstructedSample(p, sign * e)
           IN  /\ e \in (-(RANGE \div 2))..((RANGE + 1) \div 2 - 1)
               /\ y \in 0..MAXVAL /\ NearSample(y, x)
<1> DEFINE n == 2^BitsPerSample
           h == 2^(BitsPerSample - 1)
           d == sign * (x - p)
           e == SignExtend(d)
           y == ComputeReconstructedSample(p, sign * e)
<1>1. /\ n \in Nat \ {0} /\ h \in Nat \ {0} /\ n = 2 * h /\ MAXVAL = n - 1 /\ NEAR = 0
  <2>1. BitsPerSample - 1 \in 0..30 /\ (BitsPerSample - 1) + 1 = BitsPerSample
    BY DEF Fits
  <2>2. BitsPerSample \in 0..30
    BY DEF Fits
  <2>. QED  BY <2>1, <2>2, PowerStep DEF Fits
<1>2. e = ((d + h) % n) - h /\ ComputeErrVal(d) = e /\ y = (p + sign * e) % n
  BY DEF SignExtend, ComputeErrVal, ComputeReconstructedSample
<1>3. RANGE = n
  <2>1. Step = 1 /\ RANGE = (n - 1 + 2 * 0) \div 1 + 1
    BY <1>1 DEF RANGE, Step
  <2>2. (n - 1) \div 1 = n - 1 /\ n - 1 + 2 * 0 = n - 1
    BY <1>1
  <2>. QED  BY <1>1, <2>1, <2>2
<1> HIDE DEF n, h
<1>4. d \in (1 - n)..(n - 1) /\ sign * d = x - p
  BY <1>1
<1> HIDE DEF d, e, y
<1>5. PICK k \in {-1, 0, 1} : 0 <= (d + h) - k * n /\ (d + h) - k * n < n
  <2>1. CASE d + h < 0
    <3>1. 0 <= (d + h) - (-1) * n /\ (d + h) - (-1) * n < n
      BY <1>1, <1>4, <2>1
    <3>. QED  BY <3>1
  <2>2. CASE 0 <= d + h /\ d + h < n
    <3>1. 0 <= (d + h) - 0 * n /\ (d + h) - 0 * n < n
      BY <1>1, <1>4, <2>2
    <3>. QED  BY <3>1
  <2>3. CASE n <= d + h
    <3>1. 0 <= (d + h) - 1 * n /\ (d + h) - 1 * n < n
      BY <1>1, <1>4, <2>3
    <3>. QED  BY <3>1
  <2>. QED  BY <1>1, <1>4, <2>1, <2>2, <2>3
<1>6. (d + h) % n = (d + h) - k * n
  <2>1. d + h \in Int /\ k \in Int
    BY <1>1, <1>4
  <2>2. n \in Nat \ {0} /\ (d + h) - k * n < n /\ 0 <= (d + h) - k * n
    BY <1>1, <1>5
  <2>. QED  BY <2>1, <2>2, DivisionAt, Zenon
<1>7. e = d - k * n /\ e \in (-h)..(h - 1)
  BY <1>1, <1>2, <1>4, <1>5, <1>6
<1>8. p + sign * e = x - (sign * k) * n
  <2>1. CASE sign = 1
    BY <1>1, <1>4, <1>7, <2>1
  <2>2. CASE sign = -1
    <3>1. k * n \in Int /\ ((-1) * k) * n = -(k * n)
      BY <1>1
    <3>. QED  BY <1>1, <1>4, <1>7, <2>2, <3>1
  <2>. QED  BY <2>1, <2>2
<1>9. y = x
  <2>1. /\ p + sign * e \in Int /\ -(sign * k) \in Int
        /\ p + sign * e - (-(sign * k)) * n = x
    <3>1. (-(sign * k)) * n = -((sign * k) * n) /\ (sign * k) * n \in Int
      BY <1>1
    <3>. QED  BY <1>1, <1>7, <1>8, <3>1
  <2>2. 0 <= x /\ x < n
    BY <1>1
  <2> DEFINE a == p + sign * e
             m == -(sign * k)
  <2>3. /\ n \in Nat \ {0} /\ a \in Int /\ m \in Int /\ a - m * n = x
        /\ y = a % n
    BY <1>1, <1>2, <2>1
  <2> HIDE DEF a, m
  <2>4. 0 <= a - m * n /\ a - m * n < n
    BY <2>2, <2>3
  <2>5. a % n = a - m * n
    BY <2>3, <2>4, DivisionAt, Zenon
  <2>. QED  BY <2>3, <2>5
<1>10. -(RANGE \div 2) = -h /\ (RANGE + 1) \div 2 - 1 = h - 1
  BY <1>1, <1>3
<1>11. y \in 0..MAXVAL /\ NearSample(y, x)
  BY <1>1, <1>9 DEF NearSample, Absolute
<1>. QED  BY <1>2, <1>7, <1>10, <1>11 DEF d, y, e

\* From whatever prediction (the mask of CorrectPrediction is looked at up to 2^17),
\* the sample that encoder and decoder go on with is a sample, and within NEAR of
\* the one of the image; the error that is coded is one of RANGE values.  Both
\* families of traits, every bit depth, every NEAR that a frame of it can have.
THEOREM SamplesWithinNear ==
    ASSUME Fits, NEW x \in 0..MAXVAL, NEW v \in Int, v < 2^18, NEW sign \in {-1, 1}
    PROVE  LET p == CorrectPrediction(v)
               e == ComputeErrVal(sign * (x - p))
               y == ComputeReconstructedSample(p, sign * e)
           IN  /\ p \in 0..MAXVAL
               /\ e \in (-(RANGE \div 2))..((RANGE + 1) \div 2 - 1)
               /\ y \in 0..MAXVAL /\ NearSample(y, x)
<1> DEFINE p == CorrectPrediction(v)
<1>1. p \in 0..MAXVAL
  <2>1. MAXVAL \in Nat
    BY MaxvalRange
  <2>. QED  BY <2>1, PredictionClamped
<1> HIDE DEF p
<1>2. CASE Lossless
  BY <1>1, <1>2, LosslessTraitsRestore DEF p
<1>3. CASE ~Lossless
  BY <1>1, <1>3, DefaultTraitsRestore DEF p
<1>. QED  BY <1>2, <1>3
-----------------------------------------------------------------------------
(* The bits of several calls. *)

\* Two calls, and three.
LEMMA FlattenTwo ==
    ASSUME NEW a \in Seq(Int), NEW b \in Seq(Int)
    PROVE  FlattenSeq(<<a, b>>) = a \o b
<1>1. <<>> \in Seq(Seq(Int)) /\ FlattenSeq(<<>>) = <<>>
  BY DEF FlattenSeq
<1>2. <<a>> \in Seq(Seq(Int)) /\ <<a>> = Append(<<>>, a) /\ <<a, b>> = Append(<<a>>, b)
  OBVIOUS
<1>3. FlattenSeq(<<a>>) = a
  <2>1. FlattenSeq(<<a>>) = <<>> \o a
    BY <1>1, <1>2, FlattenAppend
  <2>. QED  BY <2>1, ConcatEmptySeq
<1>. QED  BY <1>2, <1>3, FlattenAppend

\* Three calls.
LEMMA FlattenThree ==
    ASSUME NEW a \in Seq(Int), NEW b \in Seq(Int), NEW c \in Seq(Int)
    PROVE  FlattenSeq(<<a, b, c>>) = (a \o b) \o c
<1>1. <<a, b>> \in Seq(Seq(Int)) /\ <<a, b, c>> = Append(<<a, b>>, c)
  OBVIOUS
<1>2. FlattenSeq(Append(<<a, b>>, c)) = FlattenSeq(<<a, b>>) \o c
  BY <1>1, FlattenAppend
<1>. QED  BY <1>1, <1>2, FlattenTwo

-----------------------------------------------------------------------------
(* The bits of one call. *)

\* A power of two is positive, and even but for the first.
LEMMA PowerPositive ==
    ASSUME NEW e \in 0..31
    PROVE  2^e \in Nat \ {0} /\ 0 < 2^e /\ (e # 0 => 1 < 2^e)
<1>1. CASE e = 0
  <2>1. 2^0 = 1
    OBVIOUS
  <2>. QED  BY <1>1, <2>1
<1>2. CASE e # 0
  <2>1. PICK j \in 0..30 : e = j + 1
    <3>1. e - 1 \in 0..30 /\ e = (e - 1) + 1
      BY <1>2
    <3>. QED  BY <3>1
  <2>2. 2^(j + 1) = 2 * 2^j /\ 2^j \in Nat \ {0}
    BY PowerStep
  <2>. QED  BY <2>1, <2>2
<1>. QED  BY <1>1, <1>2

\* A bit of a number, of which 2^e is the value.
BitAt(v, e) == (v \div 2^e) % 2

\* A bit is 0 or 1; that of a number which is too small is 0, and the highest
\* bit of a number is 1.
LEMMA BitRange ==
    ASSUME NEW v \in Nat, NEW e \in 0..31
    PROVE  /\ BitAt(v, e) \in {0, 1}
           /\ v < 2^e => BitAt(v, e) = 0
           /\ 2^e <= v /\ v < 2 * 2^e => BitAt(v, e) = 1
<1>1. 2^e \in Nat \ {0}
  BY PowerPositive
<1>2. BitAt(v, e) \in {0, 1}
  <2>1. v \div 2^e \in Nat
    BY <1>1, DivisionBounds
  <2>. QED  BY <2>1 DEF BitAt
<1>3. 0 % 2 = 0 /\ 1 % 2 = 1
  OBVIOUS
<1>4. ASSUME v < 2^e PROVE BitAt(v, e) = 0
  <2>1. v \div 2^e = 0
    BY <1>1, <1>4, DivisionAt
  <2>. QED  BY <1>3, <2>1, Zenon DEF BitAt
<1>5. ASSUME 2^e <= v, v < 2 * 2^e PROVE BitAt(v, e) = 1
  <2>1. v \div 2^e = 1
    BY <1>1, <1>5, DivisionAt
  <2>. QED  BY <1>3, <2>1, Zenon DEF BitAt
<1>. QED  BY <1>2, <1>4, <1>5

\* The bits of a call, by their place.
LEMMA CallBits ==
    ASSUME NEW v \in Nat, NEW n \in 0..31
    PROVE  /\ BitsOfCall(<<v, n>>) \in Seq({0, 1})
           /\ Len(BitsOfCall(<<v, n>>)) = n
           /\ \A i \in 1..n : BitsOfCall(<<v, n>>)[i] = BitAt(v, n - i)
<1> DEFINE b == BitsOfCall(<<v, n>>)
<1>1. b = [i \in 1..n |-> BitAt(v, n - i)]
  BY DEF BitsOfCall, BitAt
<1>2. \A i \in 1..n : BitAt(v, n - i) \in {0, 1}
  <2>1. \A i \in 1..n : n - i \in 0..31
    OBVIOUS
  <2>. QED  BY <2>1, BitRange
<1> HIDE DEF b
<1>3. b \in [1..n -> {0, 1}]
  BY <1>1, <1>2
<1>. QED  BY <1>1, <1>3 DEF b

-----------------------------------------------------------------------------
(* The bits of a code of an error. *)

\* z bits 0, a bit 1, and v in n bits.
Code(z, v, n) ==
    [i \in 1..(z + 1 + n) |-> IF i <= z THEN 0
                              ELSE IF i = z + 1 THEN 1
                              ELSE BitAt(v, (z + 1 + n) - i)]

\* A code is a sequence of bits.
LEMMA CodeIsSequence ==
    ASSUME NEW z \in Nat, NEW v \in Nat, NEW n \in 0..31
    PROVE  Code(z, v, n) \in Seq({0, 1}) /\ Len(Code(z, v, n)) = z + 1 + n
<1>1. ASSUME NEW i \in 1..(z + 1 + n), ~(i <= z), i # z + 1
      PROVE  BitAt(v, (z + 1 + n) - i) \in {0, 1}
  <2>1. (z + 1 + n) - i \in 0..31
    BY <1>1
  <2>. QED  BY <2>1, BitRange
<1>2. Code(z, v, n) \in [1..(z + 1 + n) -> {0, 1}]
  BY <1>1 DEF Code
<1>3. z + 1 + n \in Nat
  OBVIOUS
<1>. QED  BY <1>2, <1>3

\* A call that adds 0, and one that adds 1.
LEMMA UnaryBits ==
    ASSUME NEW n \in 1..31
    PROVE  /\ CallIsLegal(<<1, n>>) /\ CallIsLegal(<<0, n - 1>>)
           /\ \A i \in 1..n : BitsOfCall(<<1, n>>)[i] = IF i = n THEN 1 ELSE 0
           /\ \A i \in 1..n : BitsOfCall(<<0, n>>)[i] = 0
<1>1. 2^0 = 1 /\ 1 \in Nat /\ 0 \in Nat /\ n \in 0..31
  OBVIOUS
<1>2. CallIsLegal(<<1, n>>)
  <2>1. <<1, n>>[1] = 1 /\ <<1, n>>[2] = n /\ 1 < 2^n
    <3>1. n # 0 /\ <<1, n>>[1] = 1 /\ <<1, n>>[2] = n
      OBVIOUS
    <3>. QED  BY <1>1, <3>1, PowerPositive, Zenon
  <2>. QED  BY <1>1, <2>1 DEF CallIsLegal
<1>3. CallIsLegal(<<0, n - 1>>)
  <2>1. PICK j \in 0..31 : j = n - 1
    OBVIOUS
  <2>2. <<0, j>>[1] = 0 /\ <<0, j>>[2] = j /\ 0 < 2^j
    <3>1. <<0, j>>[1] = 0 /\ <<0, j>>[2] = j
      OBVIOUS
    <3>. QED  BY <3>1, PowerPositive, Zenon
  <2>. QED  BY <2>1, <2>2 DEF CallIsLegal
<1>4. ASSUME NEW i \in 1..n
      PROVE  /\ BitsOfCall(<<1, n>>)[i] = IF i = n THEN 1 ELSE 0
             /\ BitsOfCall(<<0, n>>)[i] = 0
  <2>1. PICK j \in 0..31 : j = n - i
    OBVIOUS
  <2>2. BitsOfCall(<<1, n>>)[i] = BitAt(1, j) /\ BitsOfCall(<<0, n>>)[i] = BitAt(0, j)
    BY <1>1, <2>1, CallBits
  <2>3. BitAt(0, j) = 0
    <3>1. 0 < 2^j
      BY PowerPositive, Zenon
    <3>. QED  BY <1>1, <3>1, BitRange
  <2>4. CASE i = n
    <3>1. j = 0 /\ 2^j <= 1 /\ 1 < 2 * 2^j
      BY <1>1, <2>1, <2>4
    <3>2. BitAt(1, j) = 1
      BY <1>1, <3>1, BitRange
    <3>. QED  BY <2>2, <2>3, <2>4, <3>2
  <2>5. CASE i # n
    <3>1. 1 < 2^j
      <4>1. j # 0
        BY <2>1, <2>5
      <4>. QED  BY <4>1, PowerPositive, Zenon
    <3>2. BitAt(1, j) = 0
      BY <1>1, <3>1, BitRange
    <3>. QED  BY <2>2, <2>3, <2>5, <3>2
  <2>. QED  BY <2>4, <2>5
<1>. QED  BY <1>2, <1>3, <1>4

\* A prefix in one call.
LEMMA OneCallBits ==
    ASSUME NEW z \in 0..30, NEW n \in 0..31, NEW v \in Nat
    PROVE  BitsOfCalls(<<<<1, z + 1>>, <<v, n>>>>) = Code(z, v, n)
<1> DEFINE cs == <<<<1, z + 1>>, <<v, n>>>>
           a == BitsOfCall(<<1, z + 1>>)
           b == BitsOfCall(<<v, n>>)
<1>1. PICK y \in 1..31 : y = z + 1
  OBVIOUS
<1>2. /\ a \in Seq({0, 1}) /\ Len(a) = z + 1
      /\ \A i \in 1..(z + 1) : a[i] = IF i = z + 1 THEN 1 ELSE 0
  <2>1. 1 \in Nat /\ y \in 0..31
    OBVIOUS
  <2>. QED  BY <1>1, <2>1, CallBits, UnaryBits
<1>3. /\ b \in Seq({0, 1}) /\ Len(b) = n
      /\ \A i \in 1..n : b[i] = BitAt(v, n - i)
  BY CallBits
<1>4. [i \in DOMAIN cs |-> BitsOfCall(cs[i])] = <<a, b>>
  OBVIOUS
<1>5. BitsOfCalls(cs) = FlattenSeq(<<a, b>>)
  BY <1>4 DEF BitsOfCalls
<1> HIDE DEF cs, a, b
<1>6. a \in Seq(Int) /\ b \in Seq(Int)
  BY <1>2, <1>3
<1>7. BitsOfCalls(cs) = a \o b
  BY <1>5, <1>6, FlattenTwo
<1> DEFINE c == Code(z, v, n)
<1>8. c \in Seq({0, 1}) /\ Len(c) = z + 1 + n
  <2>1. z \in Nat
    OBVIOUS
  <2>. QED  BY <2>1, CodeIsSequence
<1>9. /\ a \o b \in Seq({0, 1}) /\ Len(a \o b) = z + 1 + n
      /\ \A i \in 1..(z + 1 + n) : (a \o b)[i] = IF i <= z + 1 THEN a[i] ELSE b[i - (z + 1)]
  BY <1>2, <1>3, ConcatProperties
<1>10. ASSUME NEW i \in 1..(z + 1 + n) PROVE (a \o b)[i] = c[i]
  <2>1. c[i] = IF i <= z THEN 0 ELSE IF i = z + 1 THEN 1 ELSE BitAt(v, (z + 1 + n) - i)
    BY DEF Code
  <2>2. CASE i <= z + 1
    BY <1>2, <1>9, <2>1, <2>2
  <2>3. CASE ~(i <= z + 1)
    <3>1. i - (z + 1) \in 1..n /\ n - (i - (z + 1)) = (z + 1 + n) - i
      BY <2>3
    <3>2. b[i - (z + 1)] = BitAt(v, (z + 1 + n) - i)
      BY <1>3, <3>1
    <3>. QED  BY <1>9, <2>1, <2>3, <3>2
  <2>. QED  BY <2>2, <2>3
<1> HIDE DEF c
<1>11. a \o b = c
  BY <1>8, <1>9, <1>10, SeqEqual
<1>. QED  BY <1>7, <1>11 DEF cs, c

\* A prefix that is split.
LEMMA TwoCallBits ==
    ASSUME NEW x \in 1..31, NEW y \in 1..31, NEW n \in 0..31, NEW v \in Nat
    PROVE  BitsOfCalls(<<<<0, x>>, <<1, y>>, <<v, n>>>>) = Code((x + y) - 1, v, n)
<1> DEFINE z  == (x + y) - 1
           cs == <<<<0, x>>, <<1, y>>, <<v, n>>>>
           d == BitsOfCall(<<0, x>>)
           a == BitsOfCall(<<1, y>>)
           b == BitsOfCall(<<v, n>>)
<1>1. /\ d \in Seq({0, 1}) /\ Len(d) = x
      /\ \A i \in 1..x : d[i] = 0
  <2>1. 0 \in Nat /\ x \in 0..31
    OBVIOUS
  <2>. QED  BY <2>1, CallBits, UnaryBits
<1>2. /\ a \in Seq({0, 1}) /\ Len(a) = y
      /\ \A i \in 1..y : a[i] = IF i = y THEN 1 ELSE 0
  <2>1. 1 \in Nat /\ y \in 0..31
    OBVIOUS
  <2>. QED  BY <2>1, CallBits, UnaryBits
<1>3. /\ b \in Seq({0, 1}) /\ Len(b) = n
      /\ \A i \in 1..n : b[i] = BitAt(v, n - i)
  BY CallBits
<1>4. [i \in DOMAIN cs |-> BitsOfCall(cs[i])] = <<d, a, b>>
  OBVIOUS
<1>5. BitsOfCalls(cs) = FlattenSeq(<<d, a, b>>)
  BY <1>4 DEF BitsOfCalls
<1>20. z \in Nat /\ z + 1 = x + y /\ z + 1 + n = x + y + n
  OBVIOUS
<1> HIDE DEF cs, a, b, d
<1>6. d \in Seq(Int) /\ a \in Seq(Int) /\ b \in Seq(Int)
  BY <1>1, <1>2, <1>3
<1>7. BitsOfCalls(cs) = (d \o a) \o b
  BY <1>5, <1>6, FlattenThree
<1> HIDE DEF z
<1> DEFINE c == Code(z, v, n)
           p == d \o a
<1>8. c \in Seq({0, 1}) /\ Len(c) = z + 1 + n
  BY <1>20, CodeIsSequence
<1>9. /\ p \in Seq({0, 1}) /\ Len(p) = x + y
      /\ \A i \in 1..(x + y) : p[i] = IF i <= x THEN d[i] ELSE a[i - x]
  BY <1>1, <1>2, ConcatProperties
<1> HIDE DEF p
<1>10. /\ p \o b \in Seq({0, 1}) /\ Len(p \o b) = z + 1 + n
       /\ \A i \in 1..(z + 1 + n) : (p \o b)[i] = IF i <= x + y THEN p[i] ELSE b[i - (x + y)]
  <2>1. /\ p \o b \in Seq({0, 1}) /\ Len(p \o b) = Len(p) + Len(b)
        /\ \A i \in 1..(Len(p) + Len(b)) :
               (p \o b)[i] = IF i <= Len(p) THEN p[i] ELSE b[i - Len(p)]
    BY <1>3, <1>9, ConcatProperties
  <2>2. Len(p) + Len(b) = z + 1 + n
    BY <1>20, <1>3, <1>9
  <2>. QED  BY <1>9, <2>1, <2>2
<1>11. ASSUME NEW i \in 1..(z + 1 + n) PROVE (p \o b)[i] = c[i]
  <2>1. c[i] = IF i <= z THEN 0 ELSE IF i = z + 1 THEN 1 ELSE BitAt(v, (z + 1 + n) - i)
    BY DEF Code
  <2>2. CASE i <= x
    BY <1>20, <1>1, <1>9, <1>10, <2>1, <2>2
  <2>3. CASE x < i /\ i <= x + y
    <3>1. i - x \in 1..y /\ (i - x = y <=> i = z + 1)
      BY <1>20, <2>3
    <3>2. (p \o b)[i] = a[i - x]
      <4>1. i \in 1..(x + y) /\ i \in 1..(z + 1 + n) /\ ~(i <= x) /\ i <= x + y
        BY <1>20, <2>3
      <4>. QED  BY <1>9, <1>10, <4>1, Zenon
    <3>. QED  BY <1>20, <1>2, <2>1, <2>3, <3>1, <3>2
  <2>4. CASE x + y < i
    <3>1. i - (x + y) \in 1..n /\ n - (i - (x + y)) = (z + 1 + n) - i
      BY <1>20, <2>4
    <3>2. b[i - (x + y)] = BitAt(v, (z + 1 + n) - i)
      BY <1>3, <3>1
    <3>. QED  BY <1>20, <1>10, <2>1, <2>4, <3>2
  <2>5. i <= x \/ (x < i /\ i <= x + y) \/ x + y < i
    BY <1>20
  <2>. QED  BY <2>2, <2>3, <2>4, <2>5, Zenon
<1> HIDE DEF c
<1>12. p \o b = c
  BY <1>8, <1>10, <1>11, SeqEqual
<1>. QED  BY <1>7, <1>12 DEF cs, c, p, z

-----------------------------------------------------------------------------
(* The code of a mapped error. *)

\* What the codes of errors have in common: limit leaves at least two bits for
\* an escape, and a prefix is no longer than two calls take.
CodeFits(k, m, limit, width) ==
    /\ k \in 0..16 /\ width \in 1..16 /\ k <= width
    /\ limit \in Nat /\ limit - width \in 2..62
    /\ m \in 0..2^width

\* Is m coded by its quotient?
IsShort(k, m, limit, width) == m \div 2^k < limit - width - 1

\* The last call of a code is legal: a remainder takes its bits.
LEMMA RemainderFits ==
    ASSUME NEW n \in 0..16, NEW v \in Int
    PROVE  v % 2^n \in Nat /\ v % 2^n < 2^n /\ CallIsLegal(<<v % 2^n, n>>)
<1>1. 2^n \in Nat \ {0}
  <2>1. n \in 0..31
    OBVIOUS
  <2>. QED  BY <2>1, PowerPositive
<1>2. v % 2^n \in Nat /\ v % 2^n < 2^n
  BY <1>1
<1>3. <<v % 2^n, n>>[1] = v % 2^n /\ <<v % 2^n, n>>[2] = n /\ n \in 0..31
  OBVIOUS
<1>. QED  BY <1>2, <1>3 DEF CallIsLegal

\* One call behind another.
LEMMA SecondCall ==
    ASSUME NEW a, NEW b
    PROVE  <<a>> \o <<b>> = <<a, b>>
<1> DEFINE S == {a, b}
           s == <<a>>
           t == <<b>>
           u == <<a, b>>
<1>1. /\ s \in Seq(S) /\ t \in Seq(S) /\ u \in Seq(S)
      /\ Len(s) = 1 /\ Len(t) = 1 /\ Len(u) = 2
  OBVIOUS
<1>2. s[1] = a /\ t[1] = b /\ u[1] = a /\ u[2] = b
  OBVIOUS
<1> HIDE DEF S, s, t, u
<1>3. /\ s \o t \in Seq(S) /\ Len(s \o t) = 2
      /\ \A i \in 1..2 : (s \o t)[i] = IF i <= 1 THEN s[i] ELSE t[i - 1]
  <2>1. /\ s \o t \in Seq(S) /\ Len(s \o t) = Len(s) + Len(t)
        /\ \A i \in 1..(Len(s) + Len(t)) :
               (s \o t)[i] = IF i <= Len(s) THEN s[i] ELSE t[i - Len(s)]
    BY <1>1, ConcatProperties
  <2>. QED  BY <1>1, <2>1
<1>4. s \o t = u
  <2>1. \A i \in 1..2 : (s \o t)[i] = u[i]
    BY <1>2, <1>3
  <2>. QED  BY <1>1, <1>3, <2>1, SeqEqual
<1>. QED  BY <1>4 DEF s, t, u

\* One call behind two.
LEMMA ThirdCall ==
    ASSUME NEW a, NEW b, NEW c
    PROVE  <<a, b>> \o <<c>> = <<a, b, c>>
<1> DEFINE S == {a, b, c}
           s == <<a, b>>
           t == <<c>>
           u == <<a, b, c>>
<1>1. /\ s \in Seq(S) /\ t \in Seq(S) /\ u \in Seq(S)
      /\ Len(s) = 2 /\ Len(t) = 1 /\ Len(u) = 3
  OBVIOUS
<1>2. s[1] = a /\ s[2] = b /\ t[1] = c /\ u[1] = a /\ u[2] = b /\ u[3] = c
  OBVIOUS
<1> HIDE DEF S, s, t, u
<1>3. /\ s \o t \in Seq(S) /\ Len(s \o t) = 3
      /\ \A i \in 1..3 : (s \o t)[i] = IF i <= 2 THEN s[i] ELSE t[i - 2]
  <2>1. /\ s \o t \in Seq(S) /\ Len(s \o t) = Len(s) + Len(t)
        /\ \A i \in 1..(Len(s) + Len(t)) :
               (s \o t)[i] = IF i <= Len(s) THEN s[i] ELSE t[i - Len(s)]
    BY <1>1, ConcatProperties
  <2>. QED  BY <1>1, <2>1
<1>4. s \o t = u
  <2>1. \A i \in 1..3 : (s \o t)[i] = u[i]
    BY <1>2, <1>3
  <2>. QED  BY <1>1, <1>3, <2>1, SeqEqual
<1>. QED  BY <1>4 DEF s, t, u

\* A code that is not escaped: quotient and remainder.
LEMMA ShortCode ==
    ASSUME NEW k, NEW m, NEW limit, NEW width, CodeFits(k, m, limit, width),
           IsShort(k, m, limit, width)
    PROVE  LET cs == EncodeMappedValue(k, m, limit, width)
           IN  /\ BitsOfCalls(cs) = Code(m \div 2^k, m % 2^k, k)
               /\ \A i \in DOMAIN cs : CallIsLegal(cs[i])
<1> DEFINE z == m \div 2^k
           r == m % 2^k
           cs == EncodeMappedValue(k, m, limit, width)
<1>1. /\ k \in 0..16 /\ m \in Nat /\ 2^k \in Nat \ {0} /\ k \in 0..31
      /\ limit - width \in 2..62
  <2>1. k \in 0..31 /\ width \in 0..31
    BY DEF CodeFits
  <2>2. 2^k \in Nat \ {0} /\ 2^width \in Nat
    BY <2>1, PowerPositive
  <2>. QED  BY <2>1, <2>2 DEF CodeFits
<1>2. z \in 0..60
  <2>1. z \in Nat
    BY <1>1, DivisionBounds
  <2>2. z < limit - width - 1
    BY DEF IsShort
  <2>. QED  BY <1>1, <2>1, <2>2
<1>3. r \in Nat /\ CallIsLegal(<<r, k>>)
  <2>1. m \in Int
    BY <1>1
  <2>. QED  BY <1>1, <2>1, RemainderFits
<1>4. cs = Unary(z) \o <<<<r, k>>>>
  BY DEF EncodeMappedValue, IsShort
<1> HIDE DEF cs, r, z
<1>5. CASE z + 1 <= 31
  <2>1. cs = <<<<1, z + 1>>, <<r, k>>>>
    <3>1. Unary(z) = <<<<1, z + 1>>>>
      BY <1>5 DEF Unary
    <3>. QED  BY <1>4, <3>1, SecondCall, Zenon
  <2>2. z \in 0..30 /\ z + 1 \in 1..31
    BY <1>2, <1>5
  <2>3. BitsOfCalls(cs) = Code(z, r, k)
    BY <1>1, <1>3, <2>1, <2>2, OneCallBits
  <2>4. CallIsLegal(<<1, z + 1>>)
    BY <2>2, UnaryBits
  <2>5. \A i \in DOMAIN cs : CallIsLegal(cs[i])
    BY <1>3, <2>1, <2>4
  <2>. QED  BY <2>3, <2>5 DEF cs, r, z
<1>6. CASE ~(z + 1 <= 31)
  <2>1. PICK x \in 1..30, y \in 1..31 : x = z \div 2 /\ y = z - z \div 2 + 1
    <3>1. z \div 2 \in 1..30 /\ z - z \div 2 + 1 \in 1..31
      BY <1>2, <1>6
    <3>. QED  BY <3>1
  <2>2. cs = <<<<0, x>>, <<1, y>>, <<r, k>>>>
    <3>1. Unary(z) = <<<<0, x>>, <<1, y>>>>
      BY <1>6, <2>1 DEF Unary
    <3>. QED  BY <1>4, <3>1, ThirdCall, Zenon
  <2>3. (x + y) - 1 = z /\ x \in 1..31
    BY <1>2, <2>1
  <2>4. BitsOfCalls(cs) = Code((x + y) - 1, r, k)
    BY <1>1, <1>3, <2>2, <2>3, TwoCallBits
  <2>5. CallIsLegal(<<0, x>>) /\ CallIsLegal(<<1, y>>)
    <3>1. PICK w \in 1..31 : w = x + 1
      OBVIOUS
    <3>2. w - 1 = x
      BY <3>1
    <3>3. CallIsLegal(<<0, w - 1>>)
      BY UnaryBits
    <3>. QED  BY <3>2, <3>3, UnaryBits
  <2>6. \A i \in DOMAIN cs : CallIsLegal(cs[i])
    BY <1>3, <2>2, <2>5
  <2>. QED  BY <2>3, <2>4, <2>6 DEF cs, r, z
<1>. QED  BY <1>5, <1>6

\* An escape: as many zeros as there can be, and the value in width bits.
LEMMA EscapedCode ==
    ASSUME NEW k, NEW m, NEW limit, NEW width, CodeFits(k, m, limit, width),
           ~IsShort(k, m, limit, width)
    PROVE  LET cs == EncodeMappedValue(k, m, limit, width)
           IN  /\ BitsOfCalls(cs) = Code(limit - width - 1, (m - 1) % 2^width, width)
               /\ \A i \in DOMAIN cs : CallIsLegal(cs[i])
<1> DEFINE s == limit - width
           r == (m - 1) % 2^width
           cs == EncodeMappedValue(k, m, limit, width)
<1>1. /\ width \in 1..16 /\ width \in 0..16 /\ width \in 0..31 /\ m - 1 \in Int
      /\ s \in 2..62 /\ limit \in Int
  <2>1. width \in 0..31
    BY DEF CodeFits
  <2>2. 2^width \in Nat
    BY <2>1, PowerPositive
  <2>. QED  BY <2>1, <2>2 DEF CodeFits
<1>2. r \in Nat /\ CallIsLegal(<<r, width>>)
  BY <1>1, RemainderFits
<1>3. cs = EscapePrefix(limit, width) \o <<<<r, width>>>>
  BY DEF EncodeMappedValue, IsShort
<1>4. EscapePrefix(limit, width) = IF s > 31 THEN <<<<0, 31>>, <<1, s - 31>>>> ELSE <<<<1, s>>>>
  BY DEF EscapePrefix
<1> HIDE DEF cs, r, s
<1>5. CASE s <= 31
  <2>1. PICK z \in 0..30 : z = s - 1
    <3>1. s - 1 \in 0..30
      BY <1>1, <1>5
    <3>. QED  BY <3>1
  <2>2. z + 1 = s /\ s \in 1..31
    BY <1>1, <1>5, <2>1
  <2>3. cs = <<<<1, z + 1>>, <<r, width>>>>
    <3>1. EscapePrefix(limit, width) = <<<<1, z + 1>>>>
      BY <1>1, <1>4, <1>5, <2>2
    <3>. QED  BY <1>3, <3>1, SecondCall, Zenon
  <2>4. BitsOfCalls(cs) = Code(z, r, width)
    BY <1>1, <1>2, <2>3, OneCallBits
  <2>5. CallIsLegal(<<1, z + 1>>)
    BY <2>2, UnaryBits
  <2>6. \A i \in DOMAIN cs : CallIsLegal(cs[i])
    BY <1>2, <2>3, <2>5
  <2>. QED  BY <2>1, <2>4, <2>6 DEF cs, r, s
<1>6. CASE ~(s <= 31)
  <2>1. PICK y \in 1..31 : y = s - 31
    <3>1. s - 31 \in 1..31
      BY <1>1, <1>6
    <3>. QED  BY <3>1
  <2>2. cs = <<<<0, 31>>, <<1, y>>, <<r, width>>>>
    <3>1. EscapePrefix(limit, width) = <<<<0, 31>>, <<1, y>>>>
      BY <1>1, <1>4, <1>6, <2>1
    <3>. QED  BY <1>3, <3>1, ThirdCall, Zenon
  <2>3. (31 + y) - 1 = s - 1 /\ 31 \in 1..31
    BY <1>1, <2>1
  <2>4. BitsOfCalls(cs) = Code((31 + y) - 1, r, width)
    BY <1>1, <1>2, <2>2, <2>3, TwoCallBits
  <2>5. CallIsLegal(<<0, 31>>) /\ CallIsLegal(<<1, y>>)
    <3>1. <<0, 31>>[1] = 0 /\ <<0, 31>>[2] = 31 /\ 31 \in 0..31 /\ ~(31 < 31)
      OBVIOUS
    <3>. QED  BY <3>1, UnaryBits DEF CallIsLegal
  <2>6. \A i \in DOMAIN cs : CallIsLegal(cs[i])
    BY <1>2, <2>2, <2>5
  <2>. QED  BY <2>3, <2>4, <2>6 DEF cs, r, s
<1>. QED  BY <1>1, <1>5, <1>6

-----------------------------------------------------------------------------
(* Reading. *)

\* The bits of a number from the highest one on, and one more.
LEMMA OneMoreBit ==
    ASSUME NEW v \in Nat, NEW e \in 0..30
    PROVE  v \div 2^e = 2 * (v \div 2^(e + 1)) + BitAt(v, e)
<1>1. 2^e \in Nat \ {0} /\ 2^(e + 1) = 2 * 2^e
  BY PowerStep
<1> DEFINE m == 2^e
           q == v \div m
<1>2. q \in Nat /\ q * m <= v /\ v < q * m + m
  BY <1>1, DivisionBounds
<1>3. PICK a \in Nat, b \in {0, 1} : q = 2 * a + b
  <2>1. q \div 2 \in Nat /\ q % 2 \in {0, 1} /\ q = 2 * (q \div 2) + (q % 2)
    <3> HIDE DEF q
    <3>. QED  BY <1>2
  <2>. QED  BY <2>1
<1>4. q % 2 = b
  <2> HIDE DEF q
  <2>. QED  BY <1>3
<1>5. v \div (2 * m) = a
  <2>1. 2 * m \in Nat \ {0} /\ m \in Nat
    BY <1>1
  <2> HIDE DEF m, q
  <2>2. q * m = a * (2 * m) + b * m /\ b * m \in {0, m}
    BY <1>3, <2>1
  <2>3. 0 <= v - a * (2 * m) /\ v - a * (2 * m) < 2 * m
    <3>1. a * (2 * m) \in Int
      BY <1>3, <2>1
    <3>2. q * m = a * (2 * m) \/ q * m = a * (2 * m) + m
      BY <2>1, <2>2, <3>1
    <3>. QED  BY <1>2, <2>1, <3>1, <3>2
  <2>. QED  BY <1>3, <2>1, <2>3, DivisionAt
<1>. QED  BY <1>1, <1>3, <1>4, <1>5 DEF BitAt

\* Bits are read as the number that was written.
LEMMA NumberOfCall ==
    ASSUME NEW v \in Nat, NEW n \in 0..31, v < 2^n
    PROVE  NumberOf(BitsOfCall(<<v, n>>)) = v
<1> DEFINE b == BitsOfCall(<<v, n>>)
           Is(f) == f = [i \in 0..n |-> IF i = 0 THEN 0 ELSE 2 * f[i - 1] + b[i]]
           h == CHOOSE f : Is(f)
           g == [i \in 0..n |-> v \div 2^(n - i)]
<1>1. Len(b) = n /\ \A i \in 1..n : b[i] = BitAt(v, n - i)
  BY CallBits
<1>2. NumberOf(b) = h[n]
  BY <1>1 DEF NumberOf
<1> HIDE DEF b
<1>3. ASSUME NEW i \in 1..n PROVE g[i] = 2 * g[i - 1] + b[i]
  <2>1. PICK e \in 0..30 : e = n - i
    OBVIOUS
  <2>2. g[i] = v \div 2^e /\ g[i - 1] = v \div 2^(e + 1)
    <3>1. n - (i - 1) = e + 1 /\ i - 1 \in 0..n
      BY <2>1
    <3>. QED  BY <2>1, <3>1
  <2>3. b[i] = BitAt(v, e)
    BY <1>1, <2>1
  <2>. QED  BY <2>2, <2>3, OneMoreBit
<1>4. g[0] = 0
  <2>1. g[0] = v \div 2^n /\ 2^n \in Nat \ {0}
    <3>1. n - 0 = n /\ 0 \in 0..n
      OBVIOUS
    <3>. QED  BY <3>1, PowerPositive
  <2>2. v \div 2^n = 0
    <3>1. PICK m \in Nat \ {0} : m = 2^n
      BY <2>1
    <3>2. 0 <= v - 0 * m /\ v - 0 * m < m /\ v \in Int /\ 0 \in Int
      BY <3>1
    <3>3. v \div m = 0
      BY <3>2, DivisionAt
    <3>. QED  BY <3>1, <3>3
  <2>. QED  BY <2>1, <2>2
<1>5. Is(g)
  <2>1. \A i \in 0..n : g[i] = IF i = 0 THEN 0 ELSE 2 * g[i - 1] + b[i]
    <3> HIDE DEF g
    <3>. QED  BY <1>3, <1>4
  <2> HIDE DEF b
  <2>. QED  BY <2>1
<1>6. Is(h)
  <2> HIDE DEF Is
  <2>. QED  BY <1>5
<1>7. \A i \in 0..n : h[i] = IF i = 0 THEN 0 ELSE 2 * h[i - 1] + b[i]
  BY <1>6
<1> HIDE DEF h, Is, g
<1> DEFINE Fails == {i \in 0..n : h[i] # g[i]}
<1>8. Fails = {}
  <2> SUFFICES ASSUME Fails # {} PROVE FALSE
    OBVIOUS
  <2>1. PICK l \in Fails : \A m \in Fails : l <= m
    <3>1. Fails \in SUBSET Nat
      OBVIOUS
    <3> HIDE DEF Fails
    <3>. QED  BY <3>1, LeastElement
  <2>2. CASE l = 0
    BY <1>4, <1>7, <2>2
  <2>3. CASE l # 0
    <3>1. l - 1 \in 0..n /\ l \in 1..n /\ l - 1 \notin Fails
      BY <2>1, <2>3
    <3>2. h[l - 1] = g[l - 1]
      BY <3>1
    <3>. QED  BY <1>3, <1>7, <2>3, <3>1, <3>2
  <2>. QED  BY <2>2, <2>3
<1>9. h[n] = g[n]
  BY <1>8
<1>10. g[n] = v
  <2>1. g[n] = v \div 2^0 /\ 2^0 = 1
    <3>1. n - n = 0 /\ n \in 0..n
      OBVIOUS
    <3>. QED  BY <3>1 DEF g
  <2>. QED  BY <2>1
<1>. QED  BY <1>2, <1>9, <1>10 DEF b

\* A number is read whole.
LEMMA ReadCall ==
    ASSUME NEW v \in Nat, NEW n \in 0..31, v < 2^n
    PROVE  ReadNumber(n, BitsOfCall(<<v, n>>)) = [ok |-> TRUE, value |-> v, rest |-> <<>>]
<1> DEFINE b == BitsOfCall(<<v, n>>)
<1>1. b \in Seq({0, 1}) /\ Len(b) = n
  BY CallBits
<1>2. NumberOf(b) = v
  BY NumberOfCall
<1> HIDE DEF b
<1>3. SubSeq(b, 1, n) = b /\ SubSeq(b, n + 1, n) = <<>>
  BY <1>1
<1>4. ~(n > Len(b))
  BY <1>1
<1>. QED  BY <1>1, <1>2, <1>3, <1>4 DEF ReadNumber, b

\* The zeros of a code are counted, and the number behind them is left.
LEMMA ReadPrefix ==
    ASSUME NEW z \in Nat, NEW v \in Nat, NEW n \in 0..31
    PROVE  ReadHighBits(Code(z, v, n)) =
               [ok |-> TRUE, value |-> z, rest |-> BitsOfCall(<<v, n>>)]
<1> DEFINE c == Code(z, v, n)
           b == BitsOfCall(<<v, n>>)
           First(i) == c[i] = 1 /\ \A j \in 1..(i - 1) : c[j] = 0
           f == CHOOSE i \in DOMAIN c : First(i)
<1>1. c \in Seq({0, 1}) /\ Len(c) = z + 1 + n
  BY CodeIsSequence
<1>2. \A i \in 1..(z + 1 + n) :
         c[i] = IF i <= z THEN 0 ELSE IF i = z + 1 THEN 1 ELSE BitAt(v, (z + 1 + n) - i)
  BY DEF Code
<1>3. /\ b \in Seq({0, 1}) /\ Len(b) = n
      /\ \A i \in 1..n : b[i] = BitAt(v, n - i)
  BY CallBits
<1>4. ReadHighBits(c) = IF 1 \notin Range(c) THEN Starved
                        ELSE [ok |-> TRUE, value |-> f - 1, rest |-> SubSeq(c, f + 1, Len(c))]
  BY DEF ReadHighBits
<1> HIDE DEF c, b
<1>5. DOMAIN c = 1..(z + 1 + n)
  BY <1>1
<1>6. z + 1 \in DOMAIN c /\ First(z + 1)
  BY <1>2, <1>5
<1>7. f = z + 1
  <2>1. f \in DOMAIN c /\ First(f)
    <3> HIDE DEF First
    <3>. QED  BY <1>6
  <2>2. ~(f < z + 1)
    BY <1>2, <1>5, <2>1
  <2>3. ~(z + 1 < f)
    <3>1. ASSUME z + 1 < f PROVE FALSE
      <4>1. z + 1 \in 1..(f - 1)
        BY <1>5, <2>1, <3>1
      <4>2. c[z + 1] = 0 /\ c[z + 1] = 1
        BY <1>6, <2>1, <4>1
      <4>. QED  BY <4>2
    <3>. QED  BY <3>1
  <2>. QED  BY <1>5, <2>1, <2>2, <2>3
<1>8. 1 \in Range(c)
  BY <1>6 DEF Range
<1>9. SubSeq(c, z + 2, Len(c)) = b
  <2> DEFINE s == SubSeq(c, z + 2, Len(c))
  <2>1. /\ s \in Seq({0, 1}) /\ Len(s) = n
        /\ \A i \in 1..n : s[i] = c[(z + 2) + i - 1]
    <3>1. z + 2 \in 1..(Len(c) + 1) /\ Len(c) \in (z + 2 - 1)..Len(c)
      BY <1>1
    <3>2. Len(c) - (z + 2) + 1 = n /\ ~(Len(c) < (z + 2) - 1)
      BY <1>1
    <3>. QED  BY <1>1, <3>1, <3>2, SubSeqProperties
  <2> HIDE DEF s
  <2>2. ASSUME NEW i \in 1..n PROVE s[i] = b[i]
    <3>1. (z + 2) + i - 1 \in 1..(z + 1 + n) /\ ~((z + 2) + i - 1 <= z)
      OBVIOUS
    <3>2. (z + 2) + i - 1 # z + 1 /\ (z + 1 + n) - ((z + 2) + i - 1) = n - i
      OBVIOUS
    <3>. QED  BY <1>2, <1>3, <2>1, <3>1, <3>2
  <2>. QED  BY <1>3, <2>1, <2>2, SeqEqual DEF s
<1> HIDE DEF f
<1>10. f - 1 = z /\ f + 1 = z + 2
  BY <1>7
<1>. QED  BY <1>4, <1>8, <1>9, <1>10 DEF c, b

\* Behind the zeros of an escape comes the value less 1.
LEMMA ReadEscape ==
    ASSUME NEW k, NEW limit, NEW width, NEW bits, NEW z, NEW b, NEW r \in Nat,
           ReadHighBits(bits) = [ok |-> TRUE, value |-> z, rest |-> b],
           ReadNumber(width, b) = [ok |-> TRUE, value |-> r, rest |-> <<>>],
           z >= limit - (width + 1)
    PROVE  DecodeValue(k, limit, width, bits) = [ok |-> TRUE, value |-> r + 1, rest |-> <<>>]
<1> DEFINE h == ReadHighBits(bits)
           e == ReadNumber(width, h.rest)
<1>1. h.ok = TRUE /\ h.value = z /\ h.rest = b
  OBVIOUS
<1>2. e = [ok |-> TRUE, value |-> r, rest |-> <<>>]
  BY <1>1
<1>3. DecodeValue(k, limit, width, bits) = [e EXCEPT !.value = @ + 1]
  BY <1>1 DEF DecodeValue
<1> HIDE DEF e
<1>. QED  BY <1>2, <1>3

\* Behind the zeros of any other code comes the remainder.
LEMMA ReadRemainder ==
    ASSUME NEW k, NEW limit, NEW width, NEW bits, NEW z, NEW b, NEW r \in Nat,
           ReadHighBits(bits) = [ok |-> TRUE, value |-> z, rest |-> b],
           ReadNumber(k, b) = [ok |-> TRUE, value |-> r, rest |-> <<>>],
           ~(z >= limit - (width + 1))
    PROVE  DecodeValue(k, limit, width, bits) = [ok |-> TRUE, value |-> z * 2^k + r, rest |-> <<>>]
<1> DEFINE h == ReadHighBits(bits)
           e == ReadNumber(k, h.rest)
<1>1. h.ok = TRUE /\ h.value = z /\ h.rest = b
  OBVIOUS
<1>2. e = [ok |-> TRUE, value |-> r, rest |-> <<>>]
  BY <1>1
<1>3. DecodeValue(k, limit, width, bits) = [e EXCEPT !.value = z * 2^k + @]
  BY <1>1 DEF DecodeValue
<1> HIDE DEF e
<1>. QED  BY <1>2, <1>3

\* A code is read as it was written, and is no longer than the limit.
LEMMA ErrorRead ==
    ASSUME NEW k, NEW m, NEW limit, NEW width, CodeFits(k, m, limit, width)
    PROVE  LET bits == BitsOfCalls(EncodeMappedValue(k, m, limit, width))
           IN  /\ Len(bits) <= limit
               /\ DecodeValue(k, limit, width, bits) = [ok |-> TRUE, value |-> m, rest |-> <<>>]
<1> DEFINE bits == BitsOfCalls(EncodeMappedValue(k, m, limit, width))
<1>1. /\ k \in 0..16 /\ k \in 0..31 /\ width \in 0..31 /\ width \in 0..16 /\ k <= width
      /\ limit \in Nat /\ limit - width \in 2..62
  BY DEF CodeFits
<1>2. 2^k \in Nat \ {0} /\ 2^width \in Nat \ {0} /\ m \in Nat /\ m <= 2^width
  <2>1. 2^k \in Nat \ {0} /\ 2^width \in Nat \ {0}
    BY <1>1, PowerPositive
  <2>. QED  BY <2>1 DEF CodeFits
<1>3. CASE IsShort(k, m, limit, width)
  <2> DEFINE z == m \div 2^k
             r == m % 2^k
             b == BitsOfCall(<<r, k>>)
  <2>1. bits = Code(z, r, k)
    BY <1>3, ShortCode
  <2>2. z \in Nat /\ r \in Nat /\ r < 2^k /\ z * 2^k + r = m
    BY <1>2
  <2>3. ReadHighBits(bits) = [ok |-> TRUE, value |-> z, rest |-> b]
    BY <1>1, <2>1, <2>2, ReadPrefix
  <2>4. ReadNumber(k, b) = [ok |-> TRUE, value |-> r, rest |-> <<>>]
    BY <1>1, <2>2, ReadCall
  <2>5. ~(z >= limit - (width + 1))
    BY <1>1, <1>3, <2>2 DEF IsShort
  <2>6. Len(bits) = z + 1 + k
    BY <1>1, <2>1, <2>2, CodeIsSequence
  <2>7. Len(bits) <= limit
    BY <1>1, <1>3, <2>2, <2>6 DEF IsShort
  <2> HIDE DEF bits, z, r, b
  <2>8. DecodeValue(k, limit, width, bits) = [ok |-> TRUE, value |-> m, rest |-> <<>>]
    <3>1. DecodeValue(k, limit, width, bits)
              = [ok |-> TRUE, value |-> z * 2^k + r, rest |-> <<>>]
      BY <2>2, <2>3, <2>4, <2>5, ReadRemainder
    <3>. QED  BY <2>2, <3>1
  <2>. QED  BY <2>7, <2>8 DEF bits
<1>4. CASE ~IsShort(k, m, limit, width)
  <2> DEFINE z == limit - width - 1
             r == (m - 1) % 2^width
             b == BitsOfCall(<<r, width>>)
  <2>1. bits = Code(z, r, width)
    BY <1>4, EscapedCode
  <2>2. m # 0
    <3>1. ASSUME m = 0 PROVE FALSE
      <4>1. PICK d \in Nat \ {0} : d = 2^k
        BY <1>2
      <4>2. m \div d = 0
        BY <3>1, <4>1
      <4>3. m \div 2^k = 0
        BY <4>1, <4>2
      <4>. QED  BY <1>1, <1>4, <4>3 DEF IsShort
    <3>. QED  BY <3>1
  <2>3. z \in Nat /\ r \in Nat /\ r < 2^width /\ r + 1 = m
    <3>1. PICK d \in Nat \ {0} : d = 2^width
      BY <1>2
    <3>2. m - 1 \in Int /\ 0 <= (m - 1) - 0 * d /\ (m - 1) - 0 * d < d
      BY <1>2, <2>2, <3>1
    <3>3. (m - 1) % d = (m - 1) - 0 * d
      <4>1. PICK a \in Int : a = m - 1
        BY <3>2
      <4>2. a % d = a - 0 * d
        BY <3>2, <4>1, DivisionAt
      <4>. QED  BY <4>1, <4>2
    <3>. QED  BY <1>1, <1>2, <2>2, <3>1, <3>2, <3>3
  <2>4. ReadHighBits(bits) = [ok |-> TRUE, value |-> z, rest |-> b]
    <3> HIDE DEF bits, z, r
    <3>. QED  BY <1>1, <2>1, <2>3, ReadPrefix
  <2>5. ReadNumber(width, b) = [ok |-> TRUE, value |-> r, rest |-> <<>>]
    BY <1>1, <2>3, ReadCall
  <2>6. z >= limit - (width + 1)
    BY <1>1
  <2>7. Len(bits) = z + 1 + width
    BY <1>1, <2>1, <2>3, CodeIsSequence
  <2>8. Len(bits) <= limit
    BY <1>1, <2>7
  <2> HIDE DEF bits, z, r, b
  <2>9. DecodeValue(k, limit, width, bits) = [ok |-> TRUE, value |-> m, rest |-> <<>>]
    BY <2>3, <2>4, <2>5, <2>6, ReadEscape, Zenon
  <2>. QED  BY <2>8, <2>9 DEF bits
<1>. QED  BY <1>3, <1>4

\* Mapping an error to a natural number loses nothing.
LEMMA MappingInverse ==
    /\ \A m \in Nat : UnMapErrVal(m) \in Int /\ GetMappedErrVal(UnMapErrVal(m)) = m
    /\ \A e \in Int : GetMappedErrVal(e) \in Nat /\ UnMapErrVal(GetMappedErrVal(e)) = e
<1>1. ASSUME NEW m \in Nat PROVE UnMapErrVal(m) \in Int /\ GetMappedErrVal(UnMapErrVal(m)) = m
  BY DEF UnMapErrVal, GetMappedErrVal
<1>2. ASSUME NEW e \in Int
      PROVE  GetMappedErrVal(e) \in Nat /\ UnMapErrVal(GetMappedErrVal(e)) = e
  BY DEF UnMapErrVal, GetMappedErrVal
<1>. QED  BY <1>1, <1>2

-----------------------------------------------------------------------------
(* The tables of short codes. *)

\* The value that is entered in a table, in the bits of its length, is the code.
LEMMA TableCode ==
    ASSUME NEW k \in 0..7, NEW z \in 0..7, z + k + 1 <= 8, NEW r \in Nat, r < 2^k
    PROVE  BitsOfCall(<<2^k + r, z + k + 1>>) = Code(z, r, k)
<1> DEFINE v == 2^k + r
           b == BitsOfCall(<<v, z + k + 1>>)
           c == Code(z, r, k)
<1>1. 2^k \in Nat \ {0} /\ v \in Nat /\ 2^k <= v /\ v < 2 * 2^k
  <2>1. k \in 0..31
    OBVIOUS
  <2>2. 2^k \in Nat \ {0}
    BY <2>1, PowerPositive
  <2>. QED  BY <2>2
<1> HIDE DEF v
<1>2. /\ b \in Seq({0, 1}) /\ Len(b) = z + k + 1
      /\ \A i \in 1..(z + k + 1) : b[i] = BitAt(v, (z + k + 1) - i)
  <2>1. PICK n \in 0..31 : n = z + k + 1
    OBVIOUS
  <2>2. /\ BitsOfCall(<<v, n>>) \in Seq({0, 1}) /\ Len(BitsOfCall(<<v, n>>)) = n
        /\ \A i \in 1..n : BitsOfCall(<<v, n>>)[i] = BitAt(v, n - i)
    BY <1>1, CallBits
  <2>. QED  BY <2>1, <2>2
<1>3. c \in Seq({0, 1}) /\ Len(c) = z + k + 1
  <2>1. z \in Nat /\ k \in 0..31 /\ z + 1 + k = z + k + 1
    OBVIOUS
  <2>. QED  BY <2>1, CodeIsSequence
<1>4. \A i \in 1..(z + k + 1) :
         c[i] = IF i <= z THEN 0 ELSE IF i = z + 1 THEN 1 ELSE BitAt(r, (z + k + 1) - i)
  <2>1. z + 1 + k = z + k + 1
    OBVIOUS
  <2>. QED  BY <2>1 DEF Code
<1> HIDE DEF b, c
<1>5. ASSUME NEW i \in 1..(z + k + 1) PROVE b[i] = c[i]
  <2>1. PICK e \in 0..7 : e = (z + k + 1) - i
    OBVIOUS
  <2>2. b[i] = BitAt(v, e)
    BY <1>2, <2>1
  <2>3. CASE i <= z
    <3>1. e \in (k + 1)..31 /\ k \in 0..30
      BY <2>1, <2>3
    <3>2. PICK q \in Nat \ {0} : 2^e = 2 * q * 2^k
      BY <3>1, PowerDivides
    <3>3. v < 2^e
      <4>1. 2 * 2^k <= 2 * q * 2^k /\ 2 * q * 2^k \in Int
        <5>1. PICK d \in Nat : d = 2^k
          BY <1>1
        <5>2. q * d >= d
          OBVIOUS
        <5>3. 2 * d <= 2 * q * d
          BY <5>2
        <5>. QED  BY <5>1, <5>3
      <4>. QED  BY <1>1, <3>2, <4>1
    <3>4. BitAt(v, e) = 0
      <4>1. e \in 0..31
        OBVIOUS
      <4>. QED  BY <1>1, <3>3, <4>1, BitRange
    <3>. QED  BY <1>4, <2>2, <2>3, <3>4
  <2>4. CASE i = z + 1
    <3>1. e = k /\ k \in 0..31
      BY <2>1, <2>4
    <3>2. BitAt(v, k) = 1
      BY <1>1, <3>1, BitRange
    <3>. QED  BY <1>4, <2>2, <2>4, <3>1, <3>2
  <2>5. CASE ~(i <= z) /\ i # z + 1
    <3>1. k \in (e + 1)..31 /\ e \in 0..30
      BY <2>1, <2>5
    <3>2. PICK q \in Nat \ {0} : 2^k = 2 * q * 2^e
      BY <3>1, PowerDivides
    <3>3. PICK d \in Nat \ {0} : d = 2^e
      <4>1. e \in 0..31
        OBVIOUS
      <4>. QED  BY <4>1, PowerPositive
    <3>4. v = (2 * q) * d + r
      BY <3>2, <3>3 DEF v
    <3>5. v \div d = 2 * q + (r \div d)
      <4>0. v \in Int
        BY <1>1
      <4> DEFINE t == r \div d
      <4>1. t \in Nat /\ t * d <= r /\ r < t * d + d
        BY DivisionBounds
      <4> HIDE DEF t
      <4>2. (2 * q + t) * d = (2 * q) * d + t * d /\ t * d \in Int /\ (2 * q) * d \in Int
        BY <4>1
      <4>3. 0 <= v - (2 * q + t) * d /\ v - (2 * q + t) * d < d
        BY <3>4, <4>1, <4>2
      <4>4. PICK u \in Int : u = 2 * q + t
        BY <4>1
      <4>5. v \div d = u
        BY <4>0, <4>3, <4>4, DivisionAt
      <4>. QED  BY <4>4, <4>5 DEF t
    <3>6. BitAt(v, e) = BitAt(r, e)
      <4> DEFINE t == r \div d
      <4>1. t \in Nat
        BY DivisionBounds
      <4> HIDE DEF t
      <4>2. (2 * q + t) % 2 = t % 2
        BY <4>1
      <4>. QED  BY <3>3, <3>5, <4>2 DEF BitAt, t
    <3>. QED  BY <1>4, <2>1, <2>2, <2>5, <3>6
  <2>. QED  BY <2>3, <2>4, <2>5
<1>6. b = c
  BY <1>2, <1>3, <1>5, SeqEqual
<1>. QED  BY <1>6 DEF b, c, v

\* The codes are prefix codes: a code that starts another has as many zeros, and
\* is the same when as many bits follow.
LEMMA CodesArePrefixFree ==
    ASSUME NEW y \in Nat, NEW u \in Nat, NEW l \in 0..31,
           NEW z \in Nat, NEW v \in Nat, NEW n \in 0..31,
           IsPrefix(Code(y, u, l), Code(z, v, n))
    PROVE  /\ y = z
           /\ l = n /\ u < 2^n /\ v < 2^n => u = v
<1> DEFINE c == Code(y, u, l)
           d == Code(z, v, n)
<1>1. c \in Seq({0, 1}) /\ Len(c) = y + 1 + l
  BY CodeIsSequence
<1>2. d \in Seq({0, 1}) /\ Len(d) = z + 1 + n
  BY CodeIsSequence
<1>3. \A i \in 1..(y + 1) : c[i] = IF i <= y THEN 0 ELSE 1
  BY DEF Code
<1>4. \A i \in 1..(z + 1) : d[i] = IF i <= z THEN 0 ELSE 1
  BY DEF Code
<1>5. /\ ReadHighBits(c) = [ok |-> TRUE, value |-> y, rest |-> BitsOfCall(<<u, l>>)]
      /\ ReadHighBits(d) = [ok |-> TRUE, value |-> z, rest |-> BitsOfCall(<<v, n>>)]
  BY ReadPrefix
<1>6. IsPrefix(c, d)
  OBVIOUS
<1> HIDE DEF c, d
<1>7. Len(c) <= Len(d) /\ \A i \in 1..Len(c) : c[i] = d[i]
  <2>1. Len(c) <= Len(d) /\ c = SubSeq(d, 1, Len(c))
    BY <1>1, <1>2, <1>6 DEF IsPrefix
  <2>2. \A i \in 1..Len(c) : SubSeq(d, 1, Len(c))[i] = d[i]
    BY <1>1, <1>2, <2>1
  <2>. QED  BY <2>1, <2>2
<1>8. y = z
  <2>1. CASE y < z
    <3>1. y + 1 \in 1..(y + 1) /\ y + 1 \in 1..(z + 1) /\ y + 1 \in 1..Len(c) /\ y + 1 <= z
      BY <1>1, <2>1
    <3>. QED  BY <1>3, <1>4, <1>7, <3>1
  <2>2. CASE z < y
    <3>1. z + 1 \in 1..(y + 1) /\ z + 1 \in 1..(z + 1) /\ z + 1 \in 1..Len(c) /\ z + 1 <= y
      BY <1>1, <2>2
    <3>. QED  BY <1>3, <1>4, <1>7, <3>1
  <2>. QED  BY <2>1, <2>2
<1>9. ASSUME l = n, u < 2^n, v < 2^n PROVE u = v
  <2>1. Len(c) = Len(d)
    BY <1>1, <1>2, <1>8, <1>9
  <2>2. c = d
    BY <1>1, <1>2, <1>7, <2>1, SeqEqual
  <2>3. BitsOfCall(<<u, n>>) = BitsOfCall(<<v, n>>)
    <3>1. [ok |-> TRUE, value |-> y, rest |-> BitsOfCall(<<u, l>>)].rest
            = [ok |-> TRUE, value |-> z, rest |-> BitsOfCall(<<v, n>>)].rest
      BY <1>5, <2>2
    <3>. QED  BY <1>9, <3>1
  <2>4. NumberOf(BitsOfCall(<<u, n>>)) = u /\ NumberOf(BitsOfCall(<<v, n>>)) = v
    BY <1>9, NumberOfCall
  <2>. QED  BY <2>3, <2>4
<1>. QED  BY <1>8, <1>9

\* An entry of a table: the code of its error, of at most 8 bits.
LEMMA TableEntry ==
    ASSUME NEW k \in 0..15, NEW e \in TableErrors(k)
    PROVE  LET m == GetMappedErrVal(e)
           IN  /\ k \in 0..7 /\ m \in Nat
               /\ m \div 2^k \in 0..7 /\ m % 2^k \in Nat /\ m % 2^k < 2^k
               /\ TableLength(k, e) = m \div 2^k + k + 1 /\ TableLength(k, e) <= 8
               /\ TableBits(k, e) = Code(m \div 2^k, m % 2^k, k)
<1> DEFINE m == GetMappedErrVal(e)
<1>1. e \in Int /\ TableLength(k, e) <= 8
  <2>1. CASE e \in 0..127 /\ \A f \in 0..e : TableLength(k, f) <= 8
    <3>1. e \in 0..e
      BY <2>1
    <3>. QED  BY <2>1, <3>1
  <2>2. CASE e \in -128..-1 /\ \A f \in e..(-1) : TableLength(k, f) <= 8
    <3>1. e \in e..(-1)
      BY <2>2
    <3>. QED  BY <2>2, <3>1
  <2>. QED  BY <2>1, <2>2 DEF TableErrors
<1>2. m \in Nat
  BY <1>1, MappingInverse
<1>3. TableLength(k, e) = m \div 2^k + k + 1
  BY DEF TableLength
<1>4. 2^k \in Nat \ {0}
  <2>1. k \in 0..31
    OBVIOUS
  <2>. QED  BY <2>1, PowerPositive
<1> HIDE DEF m
<1>5. m \div 2^k \in Nat /\ m % 2^k \in Nat /\ m % 2^k < 2^k
  BY <1>2, <1>4
<1>6. k \in 0..7 /\ m \div 2^k \in 0..7
  BY <1>1, <1>3, <1>5
<1>7. TableBits(k, e) = BitsOfCall(<<2^k + (m % 2^k), m \div 2^k + k + 1>>)
  BY <1>3 DEF TableBits, m
<1>8. TableBits(k, e) = Code(m \div 2^k, m % 2^k, k)
  <2>1. PICK z \in 0..7, r \in Nat : z = m \div 2^k /\ r = m % 2^k
    BY <1>5, <1>6
  <2>2. z + k + 1 <= 8 /\ r < 2^k
    BY <1>1, <1>3, <1>5, <2>1
  <2>3. BitsOfCall(<<2^k + r, z + k + 1>>) = Code(z, r, k)
    BY <1>6, <2>2, TableCode
  <2>. QED  BY <1>7, <2>1, <2>3
<1>. QED  BY <1>1, <1>2, <1>3, <1>5, <1>6, <1>8 DEF m

\* A quotient does not shrink with the number.
LEMMA QuotientGrows ==
    ASSUME NEW d \in Nat \ {0}, NEW a \in Nat, NEW b \in Nat, a <= b
    PROVE  a \div d \in Nat /\ b \div d \in Nat /\ a \div d <= b \div d
<1> DEFINE p == a \div d
           q == b \div d
<1>1. p \in Nat /\ p * d <= a /\ q \in Nat /\ b < q * d + d
  BY DivisionBounds
<1> HIDE DEF p, q
<1>2. ASSUME q < p PROVE FALSE
  <2>1. PICK t \in Nat : p = q + 1 + t
    <3>1. p - q - 1 \in Nat /\ p = q + 1 + (p - q - 1)
      BY <1>1, <1>2
    <3>. QED  BY <3>1
  <2>2. p * d = q * d + d + t * d /\ t * d \in Nat /\ q * d \in Nat
    BY <1>1, <2>1
  <2>. QED  BY <1>1, <2>2
<1>3. p <= q
  BY <1>1, <1>2
<1>. QED  BY <1>1, <1>3 DEF p, q

\* The tables are complete: InitTable enters every error with a short code.
LEMMA ShortErrorsTabulated ==
    ASSUME NEW k \in 0..15, NEW m \in Nat, m \div 2^k + k + 1 <= 8
    PROVE  UnMapErrVal(m) \in TableErrors(k)
<1> DEFINE e == UnMapErrVal(m)
<1>1. 2^k \in Nat \ {0}
  <2>1. k \in 0..31
    OBVIOUS
  <2>. QED  BY <2>1, PowerPositive
<1>2. m < 128
  <2>1. m \div 2^k \in Nat
    BY <1>1, DivisionBounds
  <2>2. k \in 0..7
    BY <2>1
  <2>3. /\ (8 - 0) * 2^0 <= 128 /\ (8 - 1) * 2^1 <= 128 /\ (8 - 2) * 2^2 <= 128
        /\ (8 - 3) * 2^3 <= 128 /\ (8 - 4) * 2^4 <= 128 /\ (8 - 5) * 2^5 <= 128
        /\ (8 - 6) * 2^6 <= 128 /\ (8 - 7) * 2^7 <= 128
    OBVIOUS
  <2>4. k = 0 \/ k = 1 \/ k = 2 \/ k = 3 \/ k = 4 \/ k = 5 \/ k = 6 \/ k = 7
    BY <2>2
  <2>5. (8 - k) * 2^k <= 128
    BY <2>3, <2>4, Zenon
  <2>6. PICK p \in Nat \ {0}, q \in Nat : p = 2^k /\ q = m \div p
    BY <1>1, <2>1
  <2>7. m < q * p + p
    BY <2>6, DivisionBounds
  <2>8. q * p + p <= (8 - k) * p
    <3>1. PICK t \in Nat : t = 7 - k - q
      BY <2>2, <2>6
    <3>2. 8 - k = q + 1 + t
      BY <2>2, <3>1
    <3>3. (8 - k) * p = q * p + p + t * p /\ t * p \in Nat
      BY <3>2
    <3>. QED  BY <3>3
  <2>9. q * p + p \in Nat /\ (8 - k) * p <= 128 /\ (8 - k) * p \in Int
    BY <2>2, <2>5, <2>6
  <2>. QED  BY <2>7, <2>8, <2>9
<1>3. e \in -64..63 /\ GetMappedErrVal(e) = m
  <2>1. e \in Int /\ GetMappedErrVal(e) = m
    BY MappingInverse
  <2>2. e \in -64..63
    BY <1>2 DEF UnMapErrVal
  <2>. QED  BY <2>1, <2>2
<1> HIDE DEF e
<1>4. ASSUME NEW f \in Int, (0 <= f /\ f <= e) \/ (e <= f /\ f <= -1)
      PROVE  TableLength(k, f) <= 8
  <2>1. PICK g \in Nat : g = GetMappedErrVal(f)
    BY MappingInverse
  <2>2. g <= m
    BY <1>3, <1>4, <2>1 DEF GetMappedErrVal
  <2>3. g \div 2^k \in Nat /\ m \div 2^k \in Nat /\ g \div 2^k <= m \div 2^k
    BY <1>1, <2>2, QuotientGrows
  <2>4. TableLength(k, f) = g \div 2^k + k + 1
    BY <2>1 DEF TableLength
  <2>. QED  BY <2>3, <2>4
<1>5. CASE e >= 0
  <2>1. e \in 0..127 /\ \A f \in 0..e : TableLength(k, f) <= 8
    BY <1>3, <1>4, <1>5
  <2>. QED  BY <2>1 DEF TableErrors, e
<1>6. CASE e < 0
  <2>1. e \in -128..-1 /\ \A f \in e..(-1) : TableLength(k, f) <= 8
    BY <1>3, <1>4, <1>6
  <2>. QED  BY <2>1 DEF TableErrors, e
<1>. QED  BY <1>3, <1>5, <1>6

\* A code finds the entry of its error in the table, and no other, exactly when it
\* has at most 8 bits.
LEMMA TablesRight ==
    ASSUME NEW k \in 0..15, NEW m, NEW limit, NEW width, CodeFits(k, m, limit, width),
           limit - width >= 9
    PROVE  LET bits == BitsOfCalls(EncodeMappedValue(k, m, limit, width))
           IN  /\ \A c \in TableMatches(k, bits) : c.value = UnMapErrVal(m) /\ c.bits = bits
               /\ Len(bits) <= 8 <=> TableMatches(k, bits) # {}
               /\ bits \in Seq({0, 1})
<1> DEFINE bits == BitsOfCalls(EncodeMappedValue(k, m, limit, width))
           z == m \div 2^k
           r == m % 2^k
<1>1. /\ k \in 0..31 /\ width \in 0..31 /\ width \in Nat /\ limit \in Nat
      /\ limit - width \in 9..62 /\ m \in Nat /\ 2^k \in Nat \ {0} /\ 2^width \in Nat \ {0}
  <2>1. k \in 0..31 /\ width \in 0..31
    BY DEF CodeFits
  <2>2. 2^k \in Nat \ {0} /\ 2^width \in Nat \ {0}
    BY <2>1, PowerPositive
  <2>. QED  BY <2>1, <2>2 DEF CodeFits
<1>2. z \in Nat /\ r \in Nat /\ r < 2^k /\ z * 2^k + r = m
  BY <1>1
<1>3. decodingTables[k]
          = {[bits |-> TableBits(k, e), value |-> e] : e \in TableErrors(k)}
  BY DEF decodingTables
<1>4. CASE IsShort(k, m, limit, width)
  <2>1. bits = Code(z, r, k)
    BY <1>4, ShortCode
  <2> HIDE DEF bits, z, r
  <2>2. bits \in Seq({0, 1}) /\ Len(bits) = z + 1 + k
    BY <1>1, <1>2, <2>1, CodeIsSequence
  <2>3. ASSUME NEW c \in TableMatches(k, bits)
        PROVE  c.value = UnMapErrVal(m) /\ c.bits = bits /\ Len(bits) <= 8
    <3>1. PICK e \in TableErrors(k) : c = [bits |-> TableBits(k, e), value |-> e]
      BY <1>3 DEF TableMatches
    <3>2. IsPrefix(c.bits, bits) /\ c.bits = TableBits(k, e) /\ c.value = e
      BY <3>1 DEF TableMatches
    <3> DEFINE g == GetMappedErrVal(e)
               y == g \div 2^k
               u == g % 2^k
    <3>3. /\ g \in Nat /\ y \in Nat /\ u \in Nat /\ u < 2^k
          /\ TableBits(k, e) = Code(y, u, k) /\ y + k + 1 <= 8
      <4>1. /\ g \in Nat /\ y \in 0..7 /\ u \in Nat /\ u < 2^k /\ k \in 0..7
            /\ TableLength(k, e) = y + k + 1 /\ TableLength(k, e) <= 8
            /\ TableBits(k, e) = Code(y, u, k)
        BY TableEntry, Zenon
      <4>. QED  BY <4>1
    <3>4. g = y * 2^k + u
      <4>1. PICK d \in Nat \ {0} : d = 2^k
        BY <1>1
      <4> HIDE DEF g
      <4>2. g = (g \div d) * d + (g % d)
        BY <3>3
      <4>. QED  BY <4>1, <4>2
    <3> HIDE DEF g, y, u
    <3>5. y = z /\ u = r
      <4>1. IsPrefix(Code(y, u, k), Code(z, r, k))
        BY <2>1, <3>2, <3>3
      <4>. QED  BY <1>1, <1>2, <3>3, <4>1, CodesArePrefixFree
    <3>6. g = m /\ c.bits = bits
      BY <1>2, <2>1, <3>2, <3>3, <3>4, <3>5
    <3>7. e = UnMapErrVal(m)
      <4>1. e \in Int
        BY DEF TableErrors
      <4>. QED  BY <3>6, <4>1, MappingInverse DEF g
    <3>. QED  BY <1>1, <1>2, <2>2, <3>2, <3>3, <3>5, <3>6, <3>7
  <2>4. ASSUME Len(bits) <= 8 PROVE TableMatches(k, bits) # {}
    <3>1. PICK e \in TableErrors(k) : e = UnMapErrVal(m)
      <4>1. m \div 2^k + k + 1 <= 8
        BY <1>1, <1>2, <2>2, <2>4 DEF z
      <4>. QED  BY <1>1, <4>1, ShortErrorsTabulated
    <3>2. TableBits(k, e) = bits
      <4>1. GetMappedErrVal(e) = m
        BY <1>1, <3>1, MappingInverse
      <4>. QED  BY <2>1, <4>1, TableEntry DEF z, r
    <3>3. IsPrefix(bits, bits)
      BY <2>2 DEF IsPrefix
    <3>4. [bits |-> TableBits(k, e), value |-> e] \in TableMatches(k, bits)
      BY <1>3, <3>2, <3>3 DEF TableMatches
    <3>. QED  BY <3>4
  <2>. QED  BY <2>2, <2>3, <2>4 DEF bits
<1>5. CASE ~IsShort(k, m, limit, width)
  <2> DEFINE y == limit - width - 1
             u == (m - 1) % 2^width
  <2>1. bits = Code(y, u, width)
    BY <1>5, EscapedCode
  <2>2. y \in Nat /\ y >= 8 /\ u \in Nat
    BY <1>1
  <2> HIDE DEF bits, z, r, y, u
  <2>3. bits \in Seq({0, 1}) /\ Len(bits) = y + 1 + width
    BY <1>1, <2>1, <2>2, CodeIsSequence
  <2>4. ASSUME NEW c \in TableMatches(k, bits) PROVE FALSE
    <3>1. PICK e \in TableErrors(k) : c = [bits |-> TableBits(k, e), value |-> e]
      BY <1>3 DEF TableMatches
    <3>2. IsPrefix(TableBits(k, e), bits)
      BY <3>1 DEF TableMatches
    <3>3. PICK x \in 0..7, w \in Nat : TableBits(k, e) = Code(x, w, k)
      BY TableEntry
    <3>4. x \in Nat
      OBVIOUS
    <3>5. x = y
      <4>1. IsPrefix(Code(x, w, k), Code(y, u, width))
        BY <2>1, <3>2, <3>3
      <4>. QED  BY <1>1, <2>2, <3>4, <4>1, CodesArePrefixFree
    <3>. QED  BY <2>2, <3>5
  <2>5. ~(Len(bits) <= 8)
    BY <1>1, <2>2, <2>3
  <2>. QED  BY <2>3, <2>4, <2>5 DEF bits
<1>. QED  BY <1>4, <1>5

-----------------------------------------------------------------------------
(* Runs, as they are written. *)

\* A 1 bit stands for at least one pixel, and J takes at most 15 bits more.
LEMMA RunBlocks ==
    ASSUME NEW i \in 0..31
    PROVE  /\ RunLengthBits(i) \in 0..15 /\ RunBlock(i) \in Nat \ {0}
           /\ IncrementRunIndex(i) \in 0..31
<1>1. RunLengthBits(i) \in 0..15
  BY DEF RunLengthBits, J
<1>2. RunBlock(i) \in Nat \ {0}
  <2>1. PICK j \in 0..31 : j = RunLengthBits(i)
    BY <1>1
  <2>. QED  BY <2>1, PowerPositive DEF RunBlock
<1>3. IncrementRunIndex(i) \in 0..31
  BY DEF IncrementRunIndex, Smallest
<1>. QED  BY <1>1, <1>2, <1>3

\* What the loop of EncodeRunPixels makes of n pixels, at each RUNindex.
BlocksOf(f, n) ==
    [i \in 0..31 |->
        IF n < RunBlock(i) THEN [left |-> n, runIndex |-> i, blocks |-> 0]
        ELSE [f[n - RunBlock(i)][IncrementRunIndex(i)] EXCEPT !.blocks = @ + 1]]

\* The loop ends: what it makes of any number of pixels is defined.
LEMMA BlocksDefined ==
    ASSUME NEW length \in Nat
    PROVE  \E f : f = [n \in 0..length |-> BlocksOf(f, n)]
<1> DEFINE Holds(k) == \E f : f = [n \in 0..k |-> BlocksOf(f, n)]
           Fails == {k \in 0..length : ~Holds(k)}
<1>1. SUFFICES ASSUME Fails # {} PROVE FALSE
  OBVIOUS
<1>2. PICK l \in Fails : \A m \in Fails : l <= m
  <2>1. Fails \in SUBSET Nat
    OBVIOUS
  <2> HIDE DEF Fails
  <2>. QED  BY <1>1, <2>1, LeastElement
<1>3. \E f : \A n \in 0..(l - 1) : f[n] = BlocksOf(f, n)
  <2>1. CASE l = 0
    <3>1. 0..(l - 1) = {}
      BY <2>1
    <3>. QED  BY <3>1
  <2>2. CASE l # 0
    <3>1. l - 1 \in 0..length /\ l - 1 \notin Fails
      BY <1>2, <2>2
    <3>2. Holds(l - 1)
      BY <3>1
    <3>3. PICK f : f = [n \in 0..(l - 1) |-> BlocksOf(f, n)]
      BY <3>2
    <3>. QED  BY <3>3
  <2>. QED  BY <2>1, <2>2
<1>4. PICK f : \A n \in 0..(l - 1) : f[n] = BlocksOf(f, n)
  BY <1>3
<1> DEFINE g == [n \in 0..l |-> IF n = l THEN BlocksOf(f, n) ELSE f[n]]
<1>5. l \in Nat /\ l \in 0..length
  BY <1>2
<1>6. ASSUME NEW n \in 0..l PROVE g[n] = BlocksOf(g, n)
  <2>1. BlocksOf(f, n) = BlocksOf(g, n)
    <3>1. ASSUME NEW i \in 0..31, ~(n < RunBlock(i))
          PROVE  f[n - RunBlock(i)] = g[n - RunBlock(i)]
      <4>1. PICK m \in 0..(l - 1) : m = n - RunBlock(i)
        <5>1. PICK b \in Nat \ {0} : b = RunBlock(i)
          BY RunBlocks
        <5>2. n - b \in 0..(l - 1)
          BY <1>5, <3>1, <5>1
        <5>. QED  BY <5>1, <5>2
      <4>2. m \in 0..l /\ m # l
        BY <1>5
      <4>. QED  BY <4>1, <4>2
    <3> HIDE DEF g
    <3>. QED  BY <3>1, Zenon DEF BlocksOf
  <2>2. g[n] = BlocksOf(f, n)
    <3>1. CASE n = l
      BY <3>1
    <3>2. CASE n # l
      <4>1. n \in 0..(l - 1)
        BY <1>5, <3>2
      <4>. QED  BY <1>4, <3>2, <4>1
    <3>. QED  BY <3>1, <3>2
  <2>. QED  BY <2>1, <2>2
<1>7. Holds(l)
  <2>1. g = [n \in 0..l |-> g[n]]
    OBVIOUS
  <2> HIDE DEF g
  <2>2. g = [n \in 0..l |-> BlocksOf(g, n)]
    BY <1>6, <2>1
  <2>. QED  BY <2>2
<1>. QED  BY <1>2, <1>7

\* What the loop leaves.
LEMMA BlocksValue ==
    ASSUME NEW length \in Nat
    PROVE  \E f : /\ \A n \in 0..length : f[n] = BlocksOf(f, n)
                  /\ \A i \in 0..31 : WholeBlocks(length, i) = f[length][i]
<1> DEFINE Is(f) == f = [n \in 0..length |-> BlocksOf(f, n)]
           h == CHOOSE f : Is(f)
<1>1. Is(h)
  <2>1. \E f : Is(f)
    BY BlocksDefined
  <2> HIDE DEF Is
  <2>. QED  BY <2>1
<1>2. ASSUME NEW i \in 0..31 PROVE WholeBlocks(length, i) = h[length][i]
  BY DEF WholeBlocks, BlocksOf
<1>3. \A n \in 0..length : h[n] = BlocksOf(h, n)
  <2> HIDE DEF h
  <2>. QED  BY <1>1
<1> HIDE DEF h
<1>. QED  BY <1>2, <1>3

\* Counting a block.
LEMMA OneMoreBlock ==
    ASSUME NEW w \in [left : Nat, runIndex : 0..31, blocks : Nat]
    PROVE  LET x == [w EXCEPT !.blocks = @ + 1]
           IN  /\ x \in [left : Nat, runIndex : 0..31, blocks : Nat]
               /\ x.left = w.left /\ x.runIndex = w.runIndex /\ x.blocks = w.blocks + 1
  OBVIOUS

\* Pixels that are left are fewer than a block.
LEMMA BlocksLeft ==
    ASSUME NEW length \in Nat, NEW f, \A n \in 0..length : f[n] = BlocksOf(f, n)
    PROVE  \A n \in 0..length, i \in 0..31 :
               /\ f[n][i] \in [left : Nat, runIndex : 0..31, blocks : Nat]
               /\ f[n][i].left <= n /\ f[n][i].left < RunBlock(f[n][i].runIndex)
<1> DEFINE P(n, i) == /\ f[n][i] \in [left : Nat, runIndex : 0..31, blocks : Nat]
                      /\ f[n][i].left <= n /\ f[n][i].left < RunBlock(f[n][i].runIndex)
           Fails == {n \in 0..length : ~(\A i \in 0..31 : P(n, i))}
<1>1. SUFFICES ASSUME Fails # {} PROVE FALSE
  OBVIOUS
<1>2. PICK l \in Fails : \A m \in Fails : l <= m
  <2>1. Fails \in SUBSET Nat
    OBVIOUS
  <2> HIDE DEF Fails
  <2>. QED  BY <1>1, <2>1, LeastElement
<1>3. l \in 0..length
  OBVIOUS
<1>4. ASSUME NEW i \in 0..31 PROVE P(l, i)
  <2>1. f[l][i] = IF l < RunBlock(i) THEN [left |-> l, runIndex |-> i, blocks |-> 0]
                  ELSE [f[l - RunBlock(i)][IncrementRunIndex(i)] EXCEPT !.blocks = @ + 1]
    BY <1>3 DEF BlocksOf
  <2>2. CASE l < RunBlock(i)
    <3>1. f[l][i] = [left |-> l, runIndex |-> i, blocks |-> 0]
      BY <2>1, <2>2
    <3>. QED  BY <1>3, <2>2, <3>1
  <2>3. CASE ~(l < RunBlock(i))
    <3>1. PICK m \in 0..length, j \in 0..31 :
              m = l - RunBlock(i) /\ j = IncrementRunIndex(i) /\ m < l
      <4>1. l - RunBlock(i) \in 0..length /\ l - RunBlock(i) < l
        BY <1>3, <2>3, RunBlocks
      <4>. QED  BY <4>1, RunBlocks
    <3>2. P(m, j)
      <4>1. ~(l <= m)
        BY <1>3, <3>1
      <4>2. m \notin Fails
        <5> HIDE DEF Fails
        <5>. QED  BY <1>2, <4>1, Zenon
      <4>. QED  BY <4>2
    <3>3. f[l][i] = [f[m][j] EXCEPT !.blocks = @ + 1]
      BY <2>1, <2>3, <3>1
    <3> DEFINE w == f[m][j]
               x == f[l][i]
    <3>4. /\ w \in [left : Nat, runIndex : 0..31, blocks : Nat]
          /\ w.left <= m /\ w.left < RunBlock(w.runIndex)
      BY <3>2
    <3>5. /\ x \in [left : Nat, runIndex : 0..31, blocks : Nat]
          /\ x.left = w.left /\ x.runIndex = w.runIndex
      <4>1. x = [w EXCEPT !.blocks = @ + 1]
        BY <3>3
      <4> HIDE DEF w, x
      <4>. QED  BY <3>4, <4>1, OneMoreBlock
    <3> HIDE DEF w, x
    <3>6. w.left \in Nat /\ w.left <= l
      BY <1>3, <3>1, <3>4
    <3>7. x.left <= l /\ x.left < RunBlock(x.runIndex)
      BY <3>4, <3>5, <3>6
    <3>. QED  BY <3>5, <3>7 DEF x
  <2>. QED  BY <2>2, <2>3
<1>. QED  BY <1>2, <1>4

-----------------------------------------------------------------------------
(* The bits of a run. *)

\* One more of the same.
LEMMA RepeatMore ==
    ASSUME NEW x, NEW n \in Nat
    PROVE  Append([i \in 1..n |-> x], x) = [i \in 1..(n + 1) |-> x]
<1> DEFINE S == {x}
           s == [i \in 1..n |-> x]
           t == [i \in 1..(n + 1) |-> x]
<1>1. s \in Seq(S) /\ Len(s) = n /\ t \in Seq(S) /\ Len(t) = n + 1 /\ x \in S
  OBVIOUS
<1>2. \A i \in 1..n : s[i] = x
  OBVIOUS
<1>3. \A i \in 1..(n + 1) : t[i] = x
  OBVIOUS
<1> HIDE DEF S, s, t
<1>4. /\ Append(s, x) \in Seq(S) /\ Len(Append(s, x)) = n + 1
      /\ \A i \in 1..n : Append(s, x)[i] = s[i]
      /\ Append(s, x)[n + 1] = x
  BY <1>1, AppendProperties
<1>5. \A i \in 1..(n + 1) : Append(s, x)[i] = t[i]
  BY <1>2, <1>3, <1>4
<1>6. Append(s, x) = t
  BY <1>1, <1>4, <1>5, SeqEqual
<1>. QED  BY <1>6 DEF s, t

\* The bit of a block.
LEMMA OneBit == BitsOfCall(<<1, 1>>) = <<1>>
<1>1. /\ BitsOfCall(<<1, 1>>) \in Seq({0, 1}) /\ Len(BitsOfCall(<<1, 1>>)) = 1
  <2>1. 1 \in Nat /\ 1 \in 0..31
    OBVIOUS
  <2>. QED  BY <2>1, CallBits
<1>2. BitsOfCall(<<1, 1>>)[1] = 1
  <2>1. 1 \in 1..31 /\ 1 \in 1..1
    OBVIOUS
  <2>. QED  BY <2>1, UnaryBits
<1>. QED  BY <1>1, <1>2

\* The bits of blocks are 1 bits.
LEMMA FlattenOnes ==
    ASSUME NEW n \in Nat
    PROVE  /\ [i \in 1..n |-> <<1>>] \in Seq(Seq(Int))
           /\ FlattenSeq([i \in 1..n |-> <<1>>]) = [i \in 1..n |-> 1]
<1> DEFINE O(m) == [i \in 1..m |-> <<1>>]
           Holds(m) == FlattenSeq(O(m)) = [i \in 1..m |-> 1]
           Fails == {m \in 0..n : ~Holds(m)}
<1>1. \A m \in Nat : O(m) \in Seq(Seq(Int))
  OBVIOUS
<1>2. SUFFICES ASSUME Fails # {} PROVE FALSE
  <2>1. Fails = {} => Holds(n)
    <3>1. n \in 0..n
      OBVIOUS
    <3> HIDE DEF Holds
    <3>. QED  BY <3>1
  <2> HIDE DEF Fails
  <2>. QED  BY <1>1, <2>1
<1>3. PICK l \in Fails : \A m \in Fails : l <= m
  <2>1. Fails \in SUBSET Nat
    OBVIOUS
  <2> HIDE DEF Fails
  <2>. QED  BY <1>2, <2>1, LeastElement
<1>4. l \in 0..n
  OBVIOUS
<1>5. CASE l = 0
  <2>1. O(0) = <<>> /\ [i \in 1..0 |-> 1] = <<>>
    OBVIOUS
  <2>2. FlattenSeq(<<>>) = <<>>
    BY DEF FlattenSeq
  <2>3. Holds(0)
    BY <2>1, <2>2
  <2>. QED  BY <1>3, <1>5, <2>3
<1>6. CASE l # 0
  <2>1. PICK p \in 0..n : l = p + 1
    <3>1. l - 1 \in 0..n /\ l = (l - 1) + 1
      BY <1>4, <1>6
    <3>. QED  BY <3>1
  <2>2. Holds(p)
    <3>1. ~(l <= p)
      BY <2>1
    <3>2. p \notin Fails
      <4> HIDE DEF Fails
      <4>. QED  BY <1>3, <3>1, Zenon
    <3>. QED  BY <3>2
  <2>3. O(p + 1) = Append(O(p), <<1>>) /\ [i \in 1..(p + 1) |-> 1] = Append([i \in 1..p |-> 1], 1)
    BY RepeatMore
  <2>4. FlattenSeq(O(p + 1)) = FlattenSeq(O(p)) \o <<1>>
    <3>1. <<1>> \in Seq(Int) /\ O(p) \in Seq(Seq(Int))
      BY <1>1
    <3> HIDE DEF O
    <3>. QED  BY <2>3, <3>1, FlattenAppend
  <2>5. [i \in 1..p |-> 1] \o <<1>> = Append([i \in 1..p |-> 1], 1)
    OBVIOUS
  <2>6. Holds(p + 1)
    BY <2>2, <2>3, <2>4, <2>5
  <2>. QED  BY <1>3, <2>1, <2>6
<1>. QED  BY <1>5, <1>6

\* The bits of a run: blocks, and a call behind them.
LEMMA RunBits ==
    ASSUME NEW b \in Nat
    PROVE  /\ BitsOfCalls(AppendOnes(b)) = [i \in 1..b |-> 1]
           /\ \A v \in Nat, n \in 0..31 :
                  BitsOfCalls(AppendOnes(b) \o <<<<v, n>>>>)
                      = [i \in 1..b |-> 1] \o BitsOfCall(<<v, n>>)
<1> DEFINE o == [i \in 1..b |-> <<1>>]
           q == AppendOnes(b)
<1>1. DOMAIN q = 1..b /\ \A i \in 1..b : q[i] = <<1, 1>>
  BY DEF AppendOnes
<1>2. o \in Seq(Seq(Int)) /\ FlattenSeq(o) = [i \in 1..b |-> 1]
  BY FlattenOnes
<1>3. Len(o) = b /\ \A i \in 1..b : o[i] = <<1>>
  OBVIOUS
<1>4. BitsOfCalls(q) = [i \in 1..b |-> 1]
  <2>1. [i \in DOMAIN q |-> BitsOfCall(q[i])] = o
    <3> HIDE DEF q
    <3>. QED  BY <1>1, OneBit
  <2> HIDE DEF q, o
  <2>. QED  BY <1>2, <2>1 DEF BitsOfCalls
<1>5. ASSUME NEW v \in Nat, NEW n \in 0..31
      PROVE  BitsOfCalls(q \o <<<<v, n>>>>) = [i \in 1..b |-> 1] \o BitsOfCall(<<v, n>>)
  <2> DEFINE c == <<v, n>>
             S == {<<1, 1>>, c}
             r == q \o <<c>>
             m == [i \in DOMAIN r |-> BitsOfCall(r[i])]
             w == BitsOfCall(c)
  <2>1. w \in Seq(Int)
    <3>1. w \in Seq({0, 1})
      BY CallBits
    <3> HIDE DEF w
    <3>. QED  BY <3>1
  <2>2. q \in Seq(S) /\ <<c>> \in Seq(S) /\ Len(q) = b /\ Len(<<c>>) = 1 /\ <<c>>[1] = c
    BY DEF AppendOnes
  <2> HIDE DEF q, c, S, o
  <2>3. /\ r \in Seq(S) /\ Len(r) = b + 1
        /\ \A i \in 1..(b + 1) : r[i] = IF i <= b THEN q[i] ELSE <<c>>[i - b]
    <3>1. /\ r \in Seq(S) /\ Len(r) = Len(q) + Len(<<c>>)
          /\ \A i \in 1..(Len(q) + Len(<<c>>)) :
                 r[i] = IF i <= Len(q) THEN q[i] ELSE <<c>>[i - Len(q)]
      BY <2>2, ConcatProperties
    <3>. QED  BY <2>2, <3>1
  <2> HIDE DEF r
  <2>4. \A i \in 1..(b + 1) : m[i] = IF i <= b THEN <<1>> ELSE w
    <3>1. ASSUME NEW i \in 1..(b + 1) PROVE m[i] = IF i <= b THEN <<1>> ELSE w
      <4>1. m[i] = BitsOfCall(r[i])
        BY <2>3
      <4>2. CASE i <= b
        <5>1. r[i] = <<1, 1>>
          BY <1>1, <2>3, <4>2
        <5>. QED  BY <4>1, <4>2, <5>1, OneBit
      <4>3. CASE ~(i <= b)
        <5>1. i - b = 1
          BY <4>3
        <5>2. r[i] = c
          BY <2>2, <2>3, <4>3, <5>1
        <5>. QED  BY <4>1, <4>3, <5>2
      <4>. QED  BY <4>2, <4>3
    <3>. QED  BY <3>1
  <2>5. DOMAIN m = 1..(b + 1)
    BY <2>3
  <2> HIDE DEF m, w
  <2>6. m \in Seq(Seq(Int)) /\ Len(m) = b + 1
    <3>1. \A i \in 1..(b + 1) : m[i] \in Seq(Int)
      <4>1. <<1>> \in Seq(Int)
        OBVIOUS
      <4>. QED  BY <2>1, <2>4, <4>1
    <3>2. m = [i \in 1..(b + 1) |-> m[i]]
      BY <2>5 DEF m
    <3>3. m \in [1..(b + 1) -> Seq(Int)]
      BY <3>1, <3>2
    <3>. QED  BY <3>3
  <2>7. /\ Append(o, w) \in Seq(Seq(Int)) /\ Len(Append(o, w)) = b + 1
        /\ \A i \in 1..b : Append(o, w)[i] = o[i]
        /\ Append(o, w)[b + 1] = w
    BY <1>2, <1>3, <2>1, AppendProperties
  <2>8. m = Append(o, w)
    <3>1. ASSUME NEW i \in 1..(b + 1) PROVE m[i] = Append(o, w)[i]
      <4>1. CASE i <= b
        <5>1. i \in 1..b
          BY <4>1
        <5>2. o[i] = <<1>>
          BY <1>3, <5>1
        <5>. QED  BY <2>4, <2>7, <4>1, <5>1, <5>2
      <4>2. CASE ~(i <= b)
        <5>1. i = b + 1
          BY <4>2
        <5>. QED  BY <2>4, <2>7, <4>2, <5>1
      <4>. QED  BY <4>1, <4>2
    <3>. QED  BY <2>6, <2>7, <3>1, SeqEqual
  <2>9. FlattenSeq(m) = [i \in 1..b |-> 1] \o w
    BY <1>2, <2>1, <2>8, FlattenAppend
  <2>10. BitsOfCalls(r) = FlattenSeq(m)
    BY DEF BitsOfCalls, m
  <2>. QED  BY <2>9, <2>10 DEF r, c, w
<1>. QED  BY <1>4, <1>5

-----------------------------------------------------------------------------
(* Runs, as they are read. *)

\* What the loop of DecodeRunPixels reads from bit p on, of at most max pixels.
ReadFrom(f, max, bits, p) ==
    [index \in 0..max |-> [i \in 0..31 |->
        LET count == Smallest(RunBlock(i), max - index)
            next  == IF count = RunBlock(i) THEN IncrementRunIndex(i) ELSE i
        IN  IF p > Len(bits)
            THEN [ok |-> FALSE, index |-> index, runIndex |-> i, next |-> p]
            ELSE IF bits[p] = 0
            THEN [ok |-> TRUE, index |-> index, runIndex |-> i, next |-> p + 1]
            ELSE IF index + count = max
            THEN [ok |-> TRUE, index |-> max, runIndex |-> next, next |-> p + 1]
            ELSE f[p + 1][index + count][next]]]

\* It depends on what is read from the next bit on, and on nothing else.
LEMMA ReadFromNext ==
    ASSUME NEW max \in Nat, NEW bits \in Seq({0, 1}), NEW p \in 1..(Len(bits) + 1),
           NEW f, NEW g, p <= Len(bits) => f[p + 1] = g[p + 1]
    PROVE  ReadFrom(f, max, bits, p) = ReadFrom(g, max, bits, p)
<1>1. CASE p <= Len(bits)
  <2>1. f[p + 1] = g[p + 1]
    BY <1>1
  <2>. QED  BY <2>1, Zenon DEF ReadFrom
<1>2. CASE ~(p <= Len(bits))
  <2>1. p > Len(bits)
    BY <1>2
  <2> DEFINE K(F) == [index \in 0..max |-> [i \in 0..31 |->
                         [ok |-> FALSE, index |-> index, runIndex |-> i, next |-> p]]]
  <2>2. ReadFrom(f, max, bits, p) = K(f)
    BY <2>1 DEF ReadFrom
  <2>3. ReadFrom(g, max, bits, p) = K(f)
    BY <2>1 DEF ReadFrom
  <2>. QED  BY <2>2, <2>3
<1>. QED  BY <1>1, <1>2

\* What is read from a 1 bit on that stands for a whole block.
AfterBlock(g, max, p, index, i) ==
    IF index + RunBlock(i) = max
    THEN [ok |-> TRUE, index |-> max, runIndex |-> IncrementRunIndex(i), next |-> p + 1]
    ELSE g[p + 1][index + RunBlock(i)][IncrementRunIndex(i)]

\* A 1 bit stands for a whole block when that many pixels are left.
LEMMA ReadBlock ==
    ASSUME NEW max \in Nat, NEW bits \in Seq({0, 1}), NEW g, NEW p \in 1..Len(bits),
           NEW index \in 0..max, NEW i \in 0..31,
           g[p] = ReadFrom(g, max, bits, p), index + RunBlock(i) <= max, bits[p] = 1
    PROVE  g[p][index][i] = AfterBlock(g, max, p, index, i)
<1>1. PICK r : r = g[p]
  OBVIOUS
<1>2. PICK block : block = RunBlock(i)
  OBVIOUS
<1>3. block = Smallest(RunBlock(i), max - index)
  <2>1. RunBlock(i) \in Nat
    BY RunBlocks
  <2>. QED  BY <1>2, <2>1 DEF Smallest
<1>4. r = ReadFrom(g, max, bits, p)
  BY <1>1, Zenon
<1>5. r[index][i] =
          LET next == IF block = RunBlock(i) THEN IncrementRunIndex(i) ELSE i
          IN  IF p > Len(bits)
              THEN [ok |-> FALSE, index |-> index, runIndex |-> i, next |-> p]
              ELSE IF bits[p] = 0
                   THEN [ok |-> TRUE, index |-> index, runIndex |-> i, next |-> p + 1]
                   ELSE IF index + block = max
                        THEN [ok |-> TRUE, index |-> max, runIndex |-> next, next |-> p + 1]
                        ELSE g[p + 1][index + block][next]
  BY <1>3, <1>4 DEF ReadFrom
<1>. QED  BY <1>1, <1>2, <1>5 DEF AfterBlock

\* The loop ends.
LEMMA ReadDefined ==
    ASSUME NEW max \in Nat, NEW bits \in Seq({0, 1})
    PROVE  \E f : f = [p \in 1..(Len(bits) + 1) |-> ReadFrom(f, max, bits, p)]
<1> DEFINE N == Len(bits) + 1
           Holds(d) == \E f : \A p \in (N - d)..N : f[p] = ReadFrom(f, max, bits, p)
           Fails == {d \in 0..Len(bits) : ~Holds(d)}
<1>1. N \in Nat \ {0} /\ Len(bits) \in Nat
  OBVIOUS
<1>2. Fails = {}
  <2>1. SUFFICES ASSUME Fails # {} PROVE FALSE
    OBVIOUS
  <2>2. PICK l \in Fails : \A d \in Fails : l <= d
    <3>1. Fails \in SUBSET Nat
      BY <1>1
    <3> HIDE DEF Fails
    <3>. QED  BY <2>1, <3>1, LeastElement
  <2>3. l \in 0..Len(bits) /\ ~Holds(l)
    OBVIOUS
  <2>4. PICK f : \A p \in (N - l + 1)..N : f[p] = ReadFrom(f, max, bits, p)
    <3>1. CASE l = 0
      <4>1. (N - l + 1)..N = {}
        BY <1>1, <3>1
      <4>. QED  BY <4>1
    <3>2. CASE l # 0
      <4>1. PICK d \in 0..Len(bits) : l = d + 1
        <5>1. l - 1 \in 0..Len(bits) /\ l = (l - 1) + 1
          BY <1>1, <2>3, <3>2
        <5>. QED  BY <5>1
      <4>2. Holds(d)
        <5>1. ~(l <= d)
          BY <1>1, <4>1
        <5>2. d \notin Fails
          <6> HIDE DEF Fails
          <6>. QED  BY <2>2, <5>1, Zenon
        <5> HIDE DEF Holds
        <5>. QED  BY <5>2
      <4>3. N - l + 1 = N - d
        BY <1>1, <4>1
      <4>. QED  BY <4>2, <4>3
    <3>. QED  BY <3>1, <3>2
  <2>5. PICK q \in 1..N : q = N - l
    <3>1. N - l \in 1..N
      BY <1>1, <2>3
    <3>. QED  BY <3>1
  <2> DEFINE g == [p \in 1..N |-> IF p = q THEN ReadFrom(f, max, bits, q) ELSE f[p]]
  <2>6. ASSUME NEW p \in 1..N, q <= p PROVE g[p] = ReadFrom(g, max, bits, p)
    <3>2. p <= Len(bits) => f[p + 1] = g[p + 1]
      <4>1. ASSUME p <= Len(bits) PROVE f[p + 1] = g[p + 1]
        <5>1. p + 1 \in 1..N /\ p + 1 # q
          BY <1>1, <2>6, <4>1
        <5>. QED  BY <5>1
      <4>. QED  BY <4>1
    <3>3. ReadFrom(f, max, bits, p) = ReadFrom(g, max, bits, p)
      <4> HIDE DEF g, Fails
      <4>. QED  BY <3>2, ReadFromNext, Zenon
    <3>4. g[p] = ReadFrom(f, max, bits, p)
      <4>1. CASE p = q
        BY <4>1
      <4>2. CASE p # q
        <5>1. p \in (N - l + 1)..N
          BY <1>1, <2>3, <2>5, <2>6, <4>2
        <5>. QED  BY <2>4, <4>2, <5>1
      <4>. QED  BY <4>1, <4>2
    <3>. QED  BY <3>3, <3>4
  <2>7. Holds(l)
    <3>1. \A p \in (N - l)..N : p \in 1..N /\ q <= p
      BY <1>1, <2>3, <2>5
    <3> HIDE DEF g, N
    <3>. QED  BY <2>6, <3>1
  <2>. QED  BY <2>3, <2>7
<1>3. Holds(Len(bits))
  <2>1. Len(bits) \in 0..Len(bits)
    BY <1>1
  <2> HIDE DEF Holds
  <2>. QED  BY <1>2, <2>1
<1>4. PICK f : \A p \in 1..N : f[p] = ReadFrom(f, max, bits, p)
  <2>1. N - Len(bits) = 1
    BY <1>1
  <2>. QED  BY <1>3, <2>1
<1> DEFINE g == [p \in 1..N |-> f[p]]
<1>5. ASSUME NEW p \in 1..N PROVE g[p] = ReadFrom(g, max, bits, p)
  <2>1. p <= Len(bits) => f[p + 1] = g[p + 1]
    <3>1. p <= Len(bits) => p + 1 \in 1..N
      BY <1>1
    <3>. QED  BY <3>1
  <2>2. g[p] = f[p]
    OBVIOUS
  <2> HIDE DEF g
  <2>3. ReadFrom(f, max, bits, p) = ReadFrom(g, max, bits, p)
    BY <2>1, ReadFromNext, Zenon
  <2>. QED  BY <1>4, <2>2, <2>3
<1>6. g = [p \in 1..N |-> g[p]]
  OBVIOUS
<1> HIDE DEF g
<1>7. g = [p \in 1..N |-> ReadFrom(g, max, bits, p)]
  BY <1>5, <1>6
<1>. QED  BY <1>7

\* What the loop reads.
LEMMA ReadValue ==
    ASSUME NEW max \in Nat, NEW bits \in Seq({0, 1})
    PROVE  \E f : /\ \A p \in 1..(Len(bits) + 1) : f[p] = ReadFrom(f, max, bits, p)
                  /\ \A i \in 0..31 : ReadBlocks(max, i, bits) = f[1][0][i]
<1> DEFINE Is(f) == f = [p \in 1..(Len(bits) + 1) |-> ReadFrom(f, max, bits, p)]
           h == CHOOSE f : Is(f)
<1>1. Is(h)
  <2>1. \E f : Is(f)
    BY ReadDefined
  <2> HIDE DEF Is
  <2>. QED  BY <2>1
<1>2. ASSUME NEW i \in 0..31 PROVE ReadBlocks(max, i, bits) = h[1][0][i]
  BY DEF ReadBlocks, ReadFrom
<1>3. \A p \in 1..(Len(bits) + 1) : h[p] = ReadFrom(h, max, bits, p)
  <2> HIDE DEF h
  <2>. QED  BY <1>1
<1> HIDE DEF h
<1>. QED  BY <1>2, <1>3

-----------------------------------------------------------------------------
(* A run that is read as it was written. *)

\* The reader, at bit p with index pixels of the run, follows the writer of n
\* more: through the blocks, or to the end of the line.
Follows(f, g, max, bits, n) ==
    \A i \in 0..31, index \in 0..max, p \in 1..(Len(bits) + 1) :
        LET w == f[n][i]
        IN  /\ index + n <= max
            /\ p + w.blocks <= Len(bits) + 1
            /\ \A j \in p..(p + w.blocks - 1) : bits[j] = 1
            => g[p][index][i] =
                   IF w.left = 0 /\ index + n = max /\ n # 0
                   THEN [ok |-> TRUE, index |-> max, runIndex |-> w.runIndex,
                         next |-> p + w.blocks]
                   ELSE g[p + w.blocks][index + n - w.left][w.runIndex]

\* It does.
LEMMA BlocksRead ==
    ASSUME NEW length \in Nat, NEW max \in Nat, NEW bits \in Seq({0, 1}),
           NEW f, \A n \in 0..length : f[n] = BlocksOf(f, n),
           NEW g, \A p \in 1..(Len(bits) + 1) : g[p] = ReadFrom(g, max, bits, p)
    PROVE  \A n \in 0..length : Follows(f, g, max, bits, n)
<1> DEFINE Fails == {n \in 0..length : ~Follows(f, g, max, bits, n)}
<1>1. SUFFICES ASSUME Fails # {} PROVE FALSE
  OBVIOUS
<1>2. PICK l \in Fails : \A m \in Fails : l <= m
  <2>1. Fails \in SUBSET Nat
    OBVIOUS
  <2> HIDE DEF Fails
  <2>. QED  BY <1>1, <2>1, LeastElement
<1>3. l \in 0..length /\ ~Follows(f, g, max, bits, l)
  OBVIOUS
<1>4. \A m \in 0..length : m < l => Follows(f, g, max, bits, m)
  <2>1. ASSUME NEW m \in 0..length, m < l PROVE Follows(f, g, max, bits, m)
    <3>1. ~(l <= m)
      BY <1>3, <2>1
    <3>2. m \notin Fails
      <4> HIDE DEF Fails
      <4>. QED  BY <1>2, <3>1, Zenon
    <3>. QED  BY <3>2
  <2>. QED  BY <2>1
<1> HIDE DEF Fails
<1>7. ASSUME NEW i \in 0..31, NEW index, index \in 0..max, index + RunBlock(i) <= max,
             NEW p, p \in 1..Len(bits), bits[p] = 1
      PROVE  g[p][index][i] =
                 IF index + RunBlock(i) = max
                 THEN [ok |-> TRUE, index |-> max, runIndex |-> IncrementRunIndex(i),
                       next |-> p + 1]
                 ELSE g[p + 1][index + RunBlock(i)][IncrementRunIndex(i)]
  <2>1. g[p] = ReadFrom(g, max, bits, p)
    <3>1. p \in 1..(Len(bits) + 1)
      BY <1>7
    <3>. QED  BY <3>1
  <2>2. p \in 1..Len(bits) /\ index \in 0..max
    BY <1>7
  <2>3. bits[p] = 1 /\ index + RunBlock(i) <= max
    BY <1>7
  <2>5. g[p][index][i] = AfterBlock(g, max, p, index, i)
    BY <2>1, <2>2, <2>3, ReadBlock
  <2>. QED  BY <2>5, Zenon DEF AfterBlock
<1>5. ASSUME NEW i \in 0..31, NEW index \in 0..max, NEW p \in 1..(Len(bits) + 1),
             index + l <= max, p + f[l][i].blocks <= Len(bits) + 1,
             \A j \in p..(p + f[l][i].blocks - 1) : bits[j] = 1
      PROVE  g[p][index][i] =
                 IF f[l][i].left = 0 /\ index + l = max /\ l # 0
                 THEN [ok |-> TRUE, index |-> max, runIndex |-> f[l][i].runIndex,
                       next |-> p + f[l][i].blocks]
                 ELSE g[p + f[l][i].blocks][index + l - f[l][i].left][f[l][i].runIndex]
  <2>1. f[l][i] = IF l < RunBlock(i) THEN [left |-> l, runIndex |-> i, blocks |-> 0]
                  ELSE [f[l - RunBlock(i)][IncrementRunIndex(i)] EXCEPT !.blocks = @ + 1]
    BY <1>3 DEF BlocksOf
  <2>2. CASE l < RunBlock(i)
    <3>1. f[l][i] = [left |-> l, runIndex |-> i, blocks |-> 0]
      BY <2>1, <2>2
    <3>2. f[l][i].left = l /\ f[l][i].runIndex = i /\ f[l][i].blocks = 0
      BY <3>1
    <3>3. p + 0 = p /\ index + l - l = index
      BY <1>3
    <3>4. ~(f[l][i].left = 0 /\ index + l = max /\ l # 0)
      BY <3>2
    <3>. QED  BY <3>2, <3>3, <3>4
  <2>3. CASE ~(l < RunBlock(i))
    <3>1. PICK b \in Nat \ {0}, y \in 0..31 : b = RunBlock(i) /\ y = IncrementRunIndex(i)
      BY RunBlocks
    <3>2. PICK m \in 0..length : m = l - b /\ m < l
      <4>1. l - b \in 0..length /\ l - b < l
        BY <1>3, <2>3, <3>1
      <4>. QED  BY <4>1
    <3> DEFINE w == f[m][y]
               x == f[l][i]
    <3>3. w \in [left : Nat, runIndex : 0..31, blocks : Nat] /\ w.left <= m
      BY BlocksLeft
    <3>4. x.left = w.left /\ x.runIndex = w.runIndex /\ x.blocks = w.blocks + 1
      <4>1. x = [w EXCEPT !.blocks = @ + 1]
        BY <2>1, <2>3, <3>1, <3>2
      <4> HIDE DEF w, x
      <4>. QED  BY <3>3, <4>1, OneMoreBlock
    <3>5. PICK n \in Nat, c \in Nat : n = w.left /\ c = w.blocks /\ n <= m
      BY <3>3
    <3>6. /\ p \in 1..Len(bits) /\ bits[p] = 1 /\ index + b <= max
          /\ p + 1 \in 1..(Len(bits) + 1)
          /\ p + (c + 1) <= Len(bits) + 1
      <4>1. p + (c + 1) <= Len(bits) + 1 /\ p \in p..(p + (c + 1) - 1)
        <5>1. x.blocks = c + 1
          BY <3>4, <3>5, Zenon
        <5>2. p + x.blocks <= Len(bits) + 1
          BY <1>5
        <5>3. p + (c + 1) <= Len(bits) + 1
          BY <5>1, <5>2
        <5>4. p \in Nat /\ c \in Nat
          BY <1>5, <3>5
        <5>. QED  BY <5>3, <5>4
      <4>2. bits[p] = 1
        BY <1>5, <3>4, <3>5, <4>1
      <4>3. index + b <= max
        BY <1>3, <1>5, <3>1, <3>2
      <4>. QED  BY <4>1, <4>2, <4>3
    <3>7. g[p][index][i] = IF index + b = max
                           THEN [ok |-> TRUE, index |-> max, runIndex |-> y, next |-> p + 1]
                           ELSE g[p + 1][index + b][y]
      <4>2. index + RunBlock(i) <= max /\ index \in 0..max
        BY <3>1, <3>6
      <4>3. g[p][index][i] = IF index + RunBlock(i) = max
                             THEN [ok |-> TRUE, index |-> max, runIndex |-> IncrementRunIndex(i),
                                   next |-> p + 1]
                             ELSE g[p + 1][index + RunBlock(i)][IncrementRunIndex(i)]
        <5>1. p \in 1..Len(bits) /\ bits[p] = 1
          BY <3>6
        <5>. QED  BY <1>7, <4>2, <5>1, Zenon
      <4>. QED  BY <3>1, <4>3
    <3>8. index + b + m = index + l
      BY <1>3, <3>1, <3>2
    <3>9. CASE index + b = max
      <4>1. m = 0
        BY <1>3, <1>5, <3>1, <3>2, <3>8, <3>9
      <4>2. w = [left |-> 0, runIndex |-> y, blocks |-> 0]
        <5>1. 0 < RunBlock(y) /\ f[0] = BlocksOf(f, 0) /\ f[0][y] = w
          <6>1. PICK z \in Nat \ {0} : z = RunBlock(y)
            BY RunBlocks
          <6>2. 0 < z /\ 0 \in 0..length
            BY <4>1
          <6>. QED  BY <4>1, <6>1, <6>2
        <5>2. BlocksOf(f, 0)[y] = [left |-> 0, runIndex |-> y, blocks |-> 0]
          BY <5>1 DEF BlocksOf
        <5>. QED  BY <5>1, <5>2
      <4>3. x.left = 0 /\ x.runIndex = y /\ x.blocks = 1
        <5> HIDE DEF x
        <5>. QED  BY <3>4, <4>2
      <4>4. index + l = max /\ l # 0
        BY <3>1, <3>2, <3>8, <3>9, <4>1
      <4>. QED  BY <3>7, <3>9, <4>3, <4>4
    <3>10. CASE index + b # max
      <4>1. PICK d \in 0..max : d = index + b
        BY <3>1, <3>6
      <4>2. Follows(f, g, max, bits, m)
        BY <1>4, <3>2
      <4>3. PICK q \in 1..(Len(bits) + 1) : q = p + 1
        BY <3>6
      <4>4. /\ d + m <= max /\ q + c <= Len(bits) + 1
            /\ \A j \in q..(q + c - 1) : bits[j] = 1
        <5>1. d + m <= max
          BY <1>5, <3>8, <4>1
        <5>2. q + c <= Len(bits) + 1
          BY <3>6, <4>3
        <5>3. \A j \in q..(q + c - 1) : j \in p..(p + (c + 1) - 1)
          BY <4>3
        <5>4. \A j \in p..(p + (c + 1) - 1) : bits[j] = 1
          BY <1>5, <3>4, <3>5
        <5>. QED  BY <1>3, <5>1, <5>2, <5>3, <5>4
      <4>5. g[q][d][y] = IF n = 0 /\ d + m = max /\ m # 0
                         THEN [ok |-> TRUE, index |-> max, runIndex |-> w.runIndex, next |-> q + c]
                         ELSE g[q + c][d + m - n][w.runIndex]
        <5> HIDE DEF w
        <5>1. w = f[m][y]
          BY DEF w
        <5>. QED  BY <3>5, <4>2, <4>4, <5>1 DEF Follows
      <4>6. /\ q + c = p + (c + 1) /\ d + m = index + l /\ d + m - n = index + l - n
            /\ (m # 0 \/ d + m # max) /\ l # 0
        <5>1. q + c = p + (c + 1)
          BY <3>6, <4>3
        <5>2. d + m = index + l
          BY <3>8, <4>1
        <5>3. l # 0
          BY <1>3, <3>2
        <5>4. m # 0 \/ d + m # max
          BY <3>10, <4>1
        <5>. QED  BY <1>3, <5>1, <5>2, <5>3, <5>4
      <4>7. g[p][index][i] = g[q][d][y]
        BY <3>7, <3>10, <4>1, <4>3
      <4>. QED  BY <3>4, <3>5, <4>5, <4>6, <4>7
    <3>. QED  BY <3>9, <3>10
  <2>. QED  BY <2>2, <2>3
<1>6. Follows(f, g, max, bits, l)
  BY <1>5 DEF Follows
<1>. QED  BY <1>3, <1>6

\* The calls of a run are legal: blocks, and any legal call behind them.
LEMMA RunCallsLegal ==
    ASSUME NEW c \in Nat, NEW x, CallIsLegal(x)
    PROVE  /\ \A i \in DOMAIN AppendOnes(c) : CallIsLegal(AppendOnes(c)[i])
           /\ \A i \in DOMAIN (AppendOnes(c) \o <<x>>) : CallIsLegal((AppendOnes(c) \o <<x>>)[i])
<1> DEFINE q == AppendOnes(c)
           S == {<<1, 1>>, x}
           r == q \o <<x>>
<1>1. CallIsLegal(<<1, 1>>)
  <2>1. 1 \in 1..31
    OBVIOUS
  <2>. QED  BY <2>1, UnaryBits
<1>2. q \in Seq(S) /\ Len(q) = c /\ <<x>> \in Seq(S) /\ Len(<<x>>) = 1 /\ <<x>>[1] = x
  BY DEF AppendOnes
<1>3. \A i \in 1..c : q[i] = <<1, 1>>
  BY DEF AppendOnes
<1> HIDE DEF q, S
<1>4. /\ r \in Seq(S) /\ Len(r) = c + 1
      /\ \A i \in 1..(c + 1) : r[i] = IF i <= c THEN q[i] ELSE <<x>>[i - c]
  <2>1. /\ r \in Seq(S) /\ Len(r) = Len(q) + Len(<<x>>)
        /\ \A i \in 1..(Len(q) + Len(<<x>>)) :
               r[i] = IF i <= Len(q) THEN q[i] ELSE <<x>>[i - Len(q)]
    BY <1>2, ConcatProperties
  <2>. QED  BY <1>2, <2>1
<1> HIDE DEF r
<1>5. ASSUME NEW i \in 1..(c + 1) PROVE r[i] = <<1, 1>> \/ r[i] = x
  <2>1. CASE i <= c
    <3>1. i \in 1..c
      BY <2>1
    <3>. QED  BY <1>3, <1>4, <2>1, <3>1
  <2>2. CASE ~(i <= c)
    <3>1. i - c = 1
      BY <2>2
    <3>. QED  BY <1>2, <1>4, <2>2, <3>1
  <2>. QED  BY <2>1, <2>2
<1>6. DOMAIN r = 1..(c + 1) /\ DOMAIN q = 1..c
  BY <1>2, <1>4
<1>7. \A i \in DOMAIN q : CallIsLegal(q[i])
  BY <1>1, <1>3, <1>6
<1>8. \A i \in DOMAIN r : CallIsLegal(r[i])
  BY <1>1, <1>5, <1>6
<1>. QED  BY <1>7, <1>8 DEF q, r

\* The call behind the blocks of a run that is interrupted is legal.
LEMMA LeftCall ==
    ASSUME NEW j \in 0..31, NEW n \in Nat, n < RunBlock(j)
    PROVE  CallIsLegal(<<n, RunLengthBits(j) + 1>>)
<1>1. PICK l \in 0..15 : l = RunLengthBits(j)
  BY RunBlocks
<1>2. n < 2^l
  BY <1>1 DEF RunBlock
<1>3. 2^(l + 1) = 2 * 2^l /\ 2^l \in Nat
  <2>1. l \in 0..30
    OBVIOUS
  <2>. QED  BY <2>1, PowerStep
<1>4. n < 2^(l + 1) /\ l + 1 \in 0..31
  BY <1>2, <1>3
<1>5. <<n, l + 1>>[1] = n /\ <<n, l + 1>>[2] = l + 1
  OBVIOUS
<1>. QED  BY <1>1, <1>4, <1>5 DEF CallIsLegal

\* A run that ends with its line.
LEMMA ReadToEnd ==
    ASSUME NEW max \in Nat, NEW i, NEW bits,
           ReadBlocks(max, i, bits).ok = TRUE, ReadBlocks(max, i, bits).index = max
    PROVE  DecodeRunPixels(max, i, bits)
               = [ok |-> TRUE, value |-> max, runIndex |-> ReadBlocks(max, i, bits).runIndex,
                  rest |-> SubSeq(bits, ReadBlocks(max, i, bits).next, Len(bits))]
BY DEF DecodeRunPixels

\* c blocks, a 0 bit and n in l bits.
Interrupted(bits, c, l, n) ==
    /\ bits \in Seq({0, 1}) /\ c + 1 <= Len(bits)
    /\ \A i \in 1..c : bits[i] = 1
    /\ bits[c + 1] = 0
    /\ ReadNumber(l, SubSeq(bits, c + 2, Len(bits))) = [ok |-> TRUE, value |-> n, rest |-> <<>>]

\* The bits of an interrupted run: blocks, a 0, and the pixels that are left.
LEMMA InterruptedBits ==
    ASSUME NEW c \in Nat, NEW l \in 0..15, NEW n \in Nat, n < 2^l, NEW h \in Nat, h = l + 1,
           NEW bits, bits = BitsOfCalls(AppendOnes(c) \o <<<<n, h>>>>)
    PROVE  Interrupted(bits, c, l, n)
<1>2. n < 2^l /\ l \in 0..31 /\ l + 1 \in 0..31
  OBVIOUS
<1> DEFINE o == [i \in 1..c |-> 1]
           b == BitsOfCall(<<n, l + 1>>)
           t == BitsOfCall(<<n, l>>)
<1>3. bits = o \o b
  <2>1. bits = BitsOfCalls(AppendOnes(c) \o <<<<n, l + 1>>>>)
    OBVIOUS
  <2>. QED  BY <1>2, <2>1, RunBits
<1>4. /\ b \in Seq({0, 1}) /\ Len(b) = l + 1
      /\ \A i \in 1..(l + 1) : b[i] = BitAt(n, (l + 1) - i)
  <2>1. PICK k \in 0..31 : k = l + 1
    BY <1>2
  <2>2. /\ BitsOfCall(<<n, k>>) \in Seq({0, 1}) /\ Len(BitsOfCall(<<n, k>>)) = k
        /\ \A i \in 1..k : BitsOfCall(<<n, k>>)[i] = BitAt(n, k - i)
    BY CallBits
  <2>. QED  BY <2>1, <2>2
<1>5. /\ t \in Seq({0, 1}) /\ Len(t) = l
      /\ \A i \in 1..l : t[i] = BitAt(n, l - i)
  BY <1>2, CallBits
<1>6. o \in Seq({0, 1}) /\ Len(o) = c /\ \A i \in 1..c : o[i] = 1
  OBVIOUS
<1>7. ReadNumber(l, t) = [ok |-> TRUE, value |-> n, rest |-> <<>>]
  BY <1>2, ReadCall
<1> HIDE DEF o, b, t
<1>8. /\ bits \in Seq({0, 1}) /\ Len(bits) = c + (l + 1)
      /\ \A i \in 1..(c + (l + 1)) : bits[i] = IF i <= c THEN o[i] ELSE b[i - c]
  <2>1. /\ o \o b \in Seq({0, 1}) /\ Len(o \o b) = Len(o) + Len(b)
        /\ \A i \in 1..(Len(o) + Len(b)) :
               (o \o b)[i] = IF i <= Len(o) THEN o[i] ELSE b[i - Len(o)]
    BY <1>4, <1>6, ConcatProperties
  <2>. QED  BY <1>3, <1>4, <1>6, <2>1
<1>9. ASSUME NEW i \in 1..c PROVE bits[i] = 1
  <2>1. i \in 1..(c + (l + 1)) /\ i <= c
    OBVIOUS
  <2>. QED  BY <1>6, <1>8, <2>1
<1>10. bits[c + 1] = 0
  <2>1. c + 1 \in 1..(c + (l + 1)) /\ (c + 1) - c = 1 /\ (l + 1) - 1 = l /\ 1 \in 1..(l + 1)
        /\ ~(c + 1 <= c)
    OBVIOUS
  <2>2. bits[c + 1] = BitAt(n, l)
    BY <1>4, <1>8, <2>1
  <2>. QED  BY <1>2, <2>2, BitRange
<1>11. SubSeq(bits, c + 2, Len(bits)) = t
  <2> DEFINE s == SubSeq(bits, c + 2, Len(bits))
  <2>1. /\ s \in Seq({0, 1}) /\ Len(s) = l
        /\ \A i \in 1..l : s[i] = bits[(c + 2) + i - 1]
    <3>1. \A i \in (c + 2)..Len(bits) : bits[i] \in {0, 1}
      BY <1>8
    <3>2. Len(bits) - (c + 2) + 1 = l /\ (c + 2 <= Len(bits) <=> l # 0) /\ c + 2 \in Int
          /\ Len(bits) \in Int
      BY <1>8
    <3>3. PICK a \in Int, z \in Int : a = c + 2 /\ z = Len(bits)
      BY <3>2
    <3>4. /\ SubSeq(bits, a, z) \in Seq({0, 1})
          /\ Len(SubSeq(bits, a, z)) = IF a <= z THEN z - a + 1 ELSE 0
          /\ \A i \in 1..(z - a + 1) : SubSeq(bits, a, z)[i] = bits[a + i - 1]
      <4>1. \A i \in a..z : bits[i] \in {0, 1}
        BY <3>1, <3>3
      <4>. QED  BY <4>1, SubSeqProperties
    <3>. QED  BY <3>2, <3>3, <3>4
  <2> HIDE DEF s
  <2>2. ASSUME NEW i \in 1..l PROVE s[i] = t[i]
    <3>1. (c + 2) + i - 1 \in 1..(c + (l + 1)) /\ ~((c + 2) + i - 1 <= c)
      OBVIOUS
    <3>2. PICK k \in 1..(l + 1) : k = ((c + 2) + i - 1) - c /\ (l + 1) - k = l - i
      <4>1. ((c + 2) + i - 1) - c \in 1..(l + 1)
        OBVIOUS
      <4>2. (l + 1) - (((c + 2) + i - 1) - c) = l - i
        OBVIOUS
      <4>. QED  BY <4>1, <4>2
    <3>3. bits[(c + 2) + i - 1] = b[k]
      BY <1>8, <3>1, <3>2
    <3>. QED  BY <1>4, <1>5, <2>1, <3>2, <3>3
  <2>. QED  BY <1>5, <2>1, <2>2, SeqEqual DEF s
<1>12. c + 1 <= Len(bits)
  BY <1>8
<1>. QED  BY <1>7, <1>8, <1>9, <1>10, <1>11, <1>12 DEF Interrupted

\* The bits of a run that ends with its line and whose last block is full.
LEMMA FullBits ==
    ASSUME NEW c \in Nat
    PROVE  LET bits == BitsOfCalls(AppendOnes(c))
           IN  bits \in Seq({0, 1}) /\ Len(bits) = c /\ \A i \in 1..c : bits[i] = 1
<1>1. BitsOfCalls(AppendOnes(c)) = [i \in 1..c |-> 1]
  BY RunBits
<1>2. [i \in 1..c |-> 1] \in Seq({0, 1}) /\ Len([i \in 1..c |-> 1]) = c
  OBVIOUS
<1>3. \A i \in 1..c : [k \in 1..c |-> 1][i] = 1
  OBVIOUS
<1>. QED  BY <1>1, <1>2, <1>3

\* A last block that is not full has a call of its own.
LEMMA LastOne ==
    ASSUME NEW c \in Nat
    PROVE  AppendOnes(c) \o <<<<1, 1>>>> = AppendOnes(c + 1)
<1>1. AppendOnes(c) \o <<<<1, 1>>>> = Append(AppendOnes(c), <<1, 1>>)
  <2>1. AppendOnes(c) \in Seq({<<1, 1>>})
    BY DEF AppendOnes
  <2>2. <<1, 1>> \in {<<1, 1>>}
    OBVIOUS
  <2>. QED  BY <2>1, <2>2, AppendIsConcat
<1>2. Append(AppendOnes(c), <<1, 1>>) = AppendOnes(c + 1)
  BY RepeatMore DEF AppendOnes
<1>. QED  BY <1>1, <1>2

\* The result of a read that leaves nothing, of an error and of a run.
ReadAs(read, v)       == read = [ok |-> TRUE, value |-> v, rest |-> <<>>]
RunReadAs(read, v, i) == read = [ok |-> TRUE, value |-> v, runIndex |-> i, rest |-> <<>>]

\* The calls r of a run of length pixels are legal and read as what they are.
RunRight(r, max, length, i) ==
    /\ \A c \in DOMAIN r.calls : CallIsLegal(r.calls[c])
    /\ RunReadAs(DecodeRunPixels(max, i, BitsOfCalls(r.calls)), length, r.runIndex)

\* A run is read as it was written, and RUNindex ends up the same on both sides.
LEMMA RunRead ==
    ASSUME NEW max \in Nat \ {0}, NEW length \in 0..max, NEW runIndex \in 0..31,
           NEW r, r = EncodeRunPixels(length, length = max, runIndex)
    PROVE  RunRight(r, max, length, runIndex)
<1> DEFINE bits == BitsOfCalls(r.calls)
           w == WholeBlocks(length, runIndex)
<1>1. length \in Nat
  OBVIOUS
<1>2. PICK f : /\ \A n \in 0..length : f[n] = BlocksOf(f, n)
               /\ \A i \in 0..31 : WholeBlocks(length, i) = f[length][i]
  BY <1>1, BlocksValue
<1>3. w = f[length][runIndex]
  BY <1>2
<1>4. /\ w \in [left : Nat, runIndex : 0..31, blocks : Nat]
      /\ w.left <= length /\ w.left < RunBlock(w.runIndex)
  <2>1. length \in 0..length
    BY <1>1
  <2>2. \A m \in 0..length, i \in 0..31 :
            /\ f[m][i] \in [left : Nat, runIndex : 0..31, blocks : Nat]
            /\ f[m][i].left <= m /\ f[m][i].left < RunBlock(f[m][i].runIndex)
    BY <1>1, <1>2, BlocksLeft
  <2> HIDE DEF w
  <2>. QED  BY <1>3, <2>1, <2>2
<1>5. PICK n \in Nat, j \in 0..31, c \in Nat :
          /\ n = w.left /\ j = w.runIndex /\ c = w.blocks
          /\ n <= length /\ n < RunBlock(j)
  BY <1>4
<1>6. /\ r.runIndex = j
      /\ r.calls = AppendOnes(c) \o (IF length # max THEN <<<<n, RunLengthBits(j) + 1>>>>
                                     ELSE IF n # 0 THEN <<<<1, 1>>>>
                                     ELSE <<>>)
  <2> HIDE DEF w
  <2>. QED  BY <1>5 DEF EncodeRunPixels, w
<1>7. ASSUME bits \in Seq({0, 1}), c <= Len(bits), \A i \in 1..c : bits[i] = 1
      PROVE  \E g : /\ g[1 + c] = ReadFrom(g, max, bits, 1 + c)
                    /\ ReadBlocks(max, runIndex, bits) =
                           IF n = 0 /\ length = max
                           THEN [ok |-> TRUE, index |-> max, runIndex |-> j, next |-> 1 + c]
                           ELSE g[1 + c][length - n][j]
  <2> HIDE DEF bits
  <2>1. PICK g : /\ \A p \in 1..(Len(bits) + 1) : g[p] = ReadFrom(g, max, bits, p)
                 /\ \A i \in 0..31 : ReadBlocks(max, i, bits) = g[1][0][i]
    <3>1. max \in Nat
      OBVIOUS
    <3>. QED  BY <1>7, <3>1, ReadValue
  <2>2. Follows(f, g, max, bits, length)
    <3>1. max \in Nat /\ length \in 0..length
      OBVIOUS
    <3>2. \A m \in 0..length : Follows(f, g, max, bits, m)
      BY <1>1, <1>2, <1>7, <2>1, <3>1, BlocksRead
    <3>. QED  BY <3>1, <3>2
  <2>3. /\ 0 \in 0..max /\ 1 \in 1..(Len(bits) + 1) /\ 1 + c \in 1..(Len(bits) + 1)
        /\ 0 + length <= max /\ 1 + c <= Len(bits) + 1 /\ (1 + c) - 1 = c
        /\ 0 + length = length /\ 0 + length - n = length - n
    BY <1>7
  <2>4. g[1][0][runIndex] = IF n = 0 /\ length = max /\ length # 0
                            THEN [ok |-> TRUE, index |-> max, runIndex |-> j, next |-> 1 + c]
                            ELSE g[1 + c][length - n][j]
    <3> DEFINE x == f[length][runIndex]
    <3>1. x.left = n /\ x.runIndex = j /\ x.blocks = c
      BY <1>3, <1>5
    <3> HIDE DEF x
    <3>2. x = f[length][runIndex]
      BY DEF x
    <3>3. \A i \in 1..(1 + c - 1) : bits[i] = 1
      BY <1>7, <2>3
    <3>4. PICK z \in 0..max, q \in 1..(Len(bits) + 1) : z = 0 /\ q = 1
      BY <2>3
    <3>5. z + length <= max /\ q + x.blocks <= Len(bits) + 1
          /\ \A i \in q..(q + x.blocks - 1) : bits[i] = 1
      BY <2>3, <3>1, <3>3, <3>4
    <3>6. g[q][z][runIndex] =
              IF x.left = 0 /\ z + length = max /\ length # 0
              THEN [ok |-> TRUE, index |-> max, runIndex |-> x.runIndex, next |-> q + x.blocks]
              ELSE g[q + x.blocks][z + length - x.left][x.runIndex]
      BY <2>2, <3>2, <3>5, Zenon DEF Follows
    <3>. QED  BY <2>3, <3>1, <3>4, <3>6
  <2>5. length = max => length # 0
    OBVIOUS
  <2>6. g[1 + c] = ReadFrom(g, max, bits, 1 + c)
    BY <2>1, <2>3
  <2>7. ReadBlocks(max, runIndex, bits) = g[1][0][runIndex]
    BY <2>1
  <2>. QED  BY <2>4, <2>5, <2>6, <2>7
<1>8. CASE length # max
  <2>1. r.calls = AppendOnes(c) \o <<<<n, RunLengthBits(j) + 1>>>>
    BY <1>6, <1>8
  <2>2. \A i \in DOMAIN r.calls : CallIsLegal(r.calls[i])
    <3>1. CallIsLegal(<<n, RunLengthBits(j) + 1>>)
      BY <1>5, LeftCall
    <3>2. \A i \in DOMAIN (AppendOnes(c) \o <<<<n, RunLengthBits(j) + 1>>>>) :
              CallIsLegal((AppendOnes(c) \o <<<<n, RunLengthBits(j) + 1>>>>)[i])
      BY <3>1, RunCallsLegal
    <3>. QED  BY <2>1, <3>2
  <2>3. /\ bits \in Seq({0, 1}) /\ c + 1 <= Len(bits)
        /\ \A i \in 1..c : bits[i] = 1
        /\ bits[c + 1] = 0
        /\ ReadNumber(RunLengthBits(j), SubSeq(bits, c + 2, Len(bits)))
               = [ok |-> TRUE, value |-> n, rest |-> <<>>]
    <3>1. bits = BitsOfCalls(AppendOnes(c) \o <<<<n, RunLengthBits(j) + 1>>>>)
      BY <2>1
    <3>2. n < RunBlock(j)
      BY <1>5
    <3>3. PICK l \in 0..15, h \in Nat : l = RunLengthBits(j) /\ h = l + 1
      BY RunBlocks
    <3>4. PICK B : B = BitsOfCalls(AppendOnes(c) \o <<<<n, h>>>>)
      OBVIOUS
    <3>5. n < 2^l
      BY <3>2, <3>3 DEF RunBlock
    <3>6. Interrupted(B, c, l, n)
      BY <3>3, <3>4, <3>5, InterruptedBits
    <3>7. B = bits
      BY <3>1, <3>3, <3>4
    <3> HIDE DEF bits, w
    <3>. QED  BY <3>3, <3>6, <3>7 DEF Interrupted
  <2> HIDE DEF bits
  <2>4. PICK g : /\ g[1 + c] = ReadFrom(g, max, bits, 1 + c)
                 /\ ReadBlocks(max, runIndex, bits) = g[1 + c][length - n][j]
    <3>1. c <= Len(bits)
      BY <2>3
    <3>. QED  BY <1>7, <1>8, <2>3, <3>1
  <2>5. g[1 + c][length - n][j]
            = [ok |-> TRUE, index |-> length - n, runIndex |-> j, next |-> c + 2]
    <3>1. /\ length - n \in 0..max /\ ~(1 + c > Len(bits)) /\ bits[1 + c] = 0
          /\ (1 + c) + 1 = c + 2
      <4>1. 1 + c = c + 1 /\ length - n \in 0..max /\ (1 + c) + 1 = c + 2
        BY <1>5
      <4>2. ~(c + 1 > Len(bits))
        BY <2>3
      <4>. QED  BY <2>3, <4>1, <4>2
    <3>. QED  BY <2>4, <3>1 DEF ReadFrom
  <2>6. PICK m \in Nat : m = length - n /\ m + n = length /\ m + n < max
    <3>1. length - n \in Nat /\ (length - n) + n = length /\ length < max
      BY <1>5, <1>8
    <3>. QED  BY <3>1
  <2>7. DecodeRunPixels(max, runIndex, bits)
            = [ok |-> TRUE, value |-> m + n, runIndex |-> j, rest |-> <<>>]
    <3>1. max \in Nat
      OBVIOUS
    <3>2. ReadBlocks(max, runIndex, bits)
              = [ok |-> TRUE, index |-> m, runIndex |-> j, next |-> c + 2]
      BY <2>4, <2>5, <2>6
    <3> DEFINE b == ReadBlocks(max, runIndex, bits)
               k == ReadNumber(RunLengthBits(b.runIndex), SubSeq(bits, b.next, Len(bits)))
    <3>3. b.ok = TRUE /\ b.index = m /\ b.runIndex = j /\ b.next = c + 2
      BY <3>2
    <3>4. k = [ok |-> TRUE, value |-> n, rest |-> <<>>]
      BY <2>3, <3>3
    <3>5. k.ok = TRUE /\ k.value = n /\ k.rest = <<>>
      BY <3>4
    <3>6. /\ b = ReadBlocks(max, runIndex, bits)
          /\ k = ReadNumber(RunLengthBits(b.runIndex), SubSeq(bits, b.next, Len(bits)))
      OBVIOUS
    <3> HIDE DEF b, k
    <3>7. b.index \in Nat /\ k.value \in Nat /\ b.index < max /\ b.index + k.value <= max
      BY <2>6, <3>3, <3>5
    <3>8. DecodeRunPixels(max, runIndex, bits)
              = [ok |-> TRUE, value |-> b.index + k.value, runIndex |-> b.runIndex,
                 rest |-> k.rest]
      <4>1. ~(b.ok /\ b.index = max)
        BY <3>1, <3>7
      <4>2. DecodeRunPixels(max, runIndex, bits)
                = [ok |-> b.ok /\ k.ok /\ b.index + k.value <= max,
                   value |-> b.index + k.value, runIndex |-> b.runIndex, rest |-> k.rest]
        BY <3>6, <4>1 DEF DecodeRunPixels
      <4>3. (b.ok /\ k.ok /\ b.index + k.value <= max) = TRUE
        BY <3>3, <3>5, <3>7
      <4>. QED  BY <4>2, <4>3
    <3>. QED  BY <3>3, <3>5, <3>8
  <2>. QED  BY <1>6, <2>2, <2>6, <2>7 DEF bits, RunRight, RunReadAs
<1>9. CASE length = max /\ n # 0
  <2>1. r.calls = AppendOnes(c) \o <<<<1, 1>>>>
    BY <1>6, <1>9
  <2>2. \A i \in DOMAIN r.calls : CallIsLegal(r.calls[i])
    <3>1. CallIsLegal(<<1, 1>>)
      <4>1. 1 \in 1..31
        OBVIOUS
      <4>. QED  BY <4>1, UnaryBits
    <3>. QED  BY <2>1, <3>1, RunCallsLegal
  <2>3. bits \in Seq({0, 1}) /\ Len(bits) = c + 1 /\ \A i \in 1..(c + 1) : bits[i] = 1
    <3>1. PICK k \in Nat : k = c + 1
      OBVIOUS
    <3>2. r.calls = AppendOnes(k)
      BY <2>1, <3>1, LastOne
    <3>. QED  BY <3>1, <3>2, FullBits
  <2> HIDE DEF bits
  <2>4. PICK g : /\ g[1 + c] = ReadFrom(g, max, bits, 1 + c)
                 /\ ReadBlocks(max, runIndex, bits) = g[1 + c][length - n][j]
    <3>1. c <= Len(bits) /\ \A i \in 1..c : bits[i] = 1
      BY <2>3
    <3>. QED  BY <1>7, <1>9, <2>3, <3>1
  <2>5. g[1 + c][length - n][j] = [ok |-> TRUE, index |-> max, runIndex |-> j, next |-> c + 2]
    <3>1. /\ length - n \in 0..max /\ ~(1 + c > Len(bits)) /\ bits[1 + c] = 1
          /\ (1 + c) + 1 = c + 2 /\ max - (length - n) = n /\ (length - n) + n = max
      <4>1. 1 + c \in 1..(c + 1) /\ 1 + c <= Len(bits)
        BY <2>3
      <4>2. bits[1 + c] = 1
        BY <2>3, <4>1
      <4>3. /\ length - n \in 0..max /\ max - (length - n) = n /\ (length - n) + n = max
        BY <1>5, <1>9
      <4>4. ~(1 + c > Len(bits)) /\ (1 + c) + 1 = c + 2
        BY <2>3
      <4>. QED  BY <4>2, <4>3, <4>4
    <3>2. PICK b \in Nat \ {0} : b = RunBlock(j)
      BY RunBlocks
    <3>3. PICK m \in 0..max : m = length - n
      BY <3>1
    <3>4. n < b /\ max - m = n /\ m + n = max
      BY <1>5, <3>1, <3>2, <3>3
    <3>5. Smallest(RunBlock(j), max - m) = n /\ n # RunBlock(j)
      <4>1. Smallest(b, n) = n /\ n # b
        BY <3>4 DEF Smallest
      <4>. QED  BY <3>2, <3>4, <4>1
    <3>6. g[1 + c][m][j] = [ok |-> TRUE, index |-> max, runIndex |-> j, next |-> c + 2]
      <4>1. bits[1 + c] # 0
        BY <3>1
      <4>. QED  BY <2>4, <3>1, <3>4, <3>5, <4>1, SMTT(60) DEF ReadFrom
    <3>. QED  BY <3>3, <3>6
  <2>6. DecodeRunPixels(max, runIndex, bits)
            = [ok |-> TRUE, value |-> max, runIndex |-> j, rest |-> <<>>]
    <3>1. max \in Nat /\ SubSeq(bits, c + 2, Len(bits)) = <<>>
      <4>1. c + 2 \in Int /\ Len(bits) \in Int /\ Len(bits) < c + 2
        BY <2>3
      <4>. QED  BY <4>1, SubSeqEmpty
    <3>2. ReadBlocks(max, runIndex, bits)
              = [ok |-> TRUE, index |-> max, runIndex |-> j, next |-> c + 2]
      BY <2>4, <2>5
    <3>3. LET b == ReadBlocks(max, runIndex, bits)
          IN  b.ok = TRUE /\ b.index = max /\ b.runIndex = j /\ b.next = c + 2
      BY <3>2
    <3>4. DecodeRunPixels(max, runIndex, bits)
              = [ok |-> TRUE, value |-> max, runIndex |-> ReadBlocks(max, runIndex, bits).runIndex,
                 rest |-> SubSeq(bits, ReadBlocks(max, runIndex, bits).next, Len(bits))]
      BY <3>1, <3>3, ReadToEnd
    <3>. QED  BY <3>1, <3>3, <3>4
  <2>. QED  BY <1>6, <1>9, <2>2, <2>6 DEF bits, RunRight, RunReadAs
<1>10. CASE length = max /\ n = 0
  <2>1. r.calls = AppendOnes(c)
    <3>1. r.calls = AppendOnes(c) \o <<>>
      BY <1>6, <1>10
    <3>2. AppendOnes(c) \in Seq({<<1, 1>>})
      BY DEF AppendOnes
    <3>. QED  BY <3>1, <3>2, ConcatEmptySeq
  <2>2. \A i \in DOMAIN r.calls : CallIsLegal(r.calls[i])
    <3>1. CallIsLegal(<<1, 1>>)
      <4>1. 1 \in 1..31
        OBVIOUS
      <4>. QED  BY <4>1, UnaryBits
    <3>. QED  BY <2>1, <3>1, RunCallsLegal
  <2>3. bits \in Seq({0, 1}) /\ Len(bits) = c /\ \A i \in 1..c : bits[i] = 1
    BY <2>1, FullBits
  <2> HIDE DEF bits
  <2>4. ReadBlocks(max, runIndex, bits)
            = [ok |-> TRUE, index |-> max, runIndex |-> j, next |-> 1 + c]
    <3>1. c <= Len(bits)
      BY <2>3
    <3>. QED  BY <1>7, <1>10, <2>3, <3>1
  <2>5. DecodeRunPixels(max, runIndex, bits)
            = [ok |-> TRUE, value |-> max, runIndex |-> j, rest |-> <<>>]
    <3>1. max \in Nat /\ SubSeq(bits, 1 + c, Len(bits)) = <<>>
      <4>1. 1 + c \in Int /\ Len(bits) \in Int /\ Len(bits) < 1 + c
        BY <2>3
      <4>. QED  BY <4>1, SubSeqEmpty
    <3>2. LET b == ReadBlocks(max, runIndex, bits)
          IN  b.ok = TRUE /\ b.index = max /\ b.runIndex = j /\ b.next = 1 + c
      BY <2>4
    <3>3. DecodeRunPixels(max, runIndex, bits)
              = [ok |-> TRUE, value |-> max, runIndex |-> ReadBlocks(max, runIndex, bits).runIndex,
                 rest |-> SubSeq(bits, ReadBlocks(max, runIndex, bits).next, Len(bits))]
      BY <3>1, <3>2, ReadToEnd
    <3>. QED  BY <3>1, <3>2, <3>3
  <2>. QED  BY <1>6, <1>10, <2>2, <2>5 DEF bits, RunRight, RunReadAs
<1>. QED  BY <1>8, <1>9, <1>10 DEF RunRight, RunReadAs

\* The limits leave room for an escape, and a prefix that two calls take.
LEMMA LimitBounds ==
    ASSUME NEW depth \in 2..16
    PROVE  /\ \E limit \in Nat : limit = Limit(depth) /\ limit - depth \in 18..48
           /\ \A i \in 0..31 : \E limit \in Nat :
                  limit = InterruptionLimit(depth, i) /\ limit - depth \in 2..48
<1>1. PICK limit \in Nat : limit = Limit(depth) /\ limit - depth \in 18..48
  BY DEF Limit, Largest
<1>2. ASSUME NEW i \in 0..31
      PROVE  \E l \in Nat : l = InterruptionLimit(depth, i) /\ l - depth \in 2..48
  <2>1. PICK j \in 0..15 : j = RunLengthBits(i)
    BY RunBlocks
  <2>2. InterruptionLimit(depth, i) = limit - j - 1
    BY <1>1, <2>1 DEF InterruptionLimit
  <2>. QED  BY <1>1, <2>1, <2>2
<1>. QED  BY <1>1, <1>2

\* Values that fit.
LEMMA FitsCode ==
    ASSUME NEW depth \in 2..16, NEW k \in 0..16, k <= depth, NEW m \in Nat, m <= 2^depth,
           NEW limit \in Nat, limit - depth \in 2..48
    PROVE  CodeFits(k, m, limit, depth)
<1>1. PICK p \in Nat : p = 2^depth
  <2>1. depth \in 0..31
    OBVIOUS
  <2>. QED  BY <2>1, PowerPositive
<1>2. m \in 0..2^depth
  BY <1>1
<1>. QED  BY <1>2 DEF CodeFits

\* The code b is that of the mapped error m, which is error u, read in full or not.
RegularRight(b, k, limit, depth, m, u) ==
    /\ b \in Seq({0, 1}) /\ Len(b) <= limit
    /\ ReadAs(DecodeValue(k, limit, depth, b), m)
    /\ ReadAs(DecodeErrVal(k, limit, depth, b), u)
    /\ Len(b) <= 8 <=> TableMatches(k, b) # {}
    /\ \A c \in TableMatches(k, b) : c.value = u /\ c.bits = b

\* The range of the errors of an image.
LEMMA RangeOfErrors ==
    ASSUME NEW depth \in 2..16
    PROVE  2^depth \in Nat /\ 2^depth <= 2^16
<1>1. 2^depth \in Nat \ {0}
  <2>1. depth \in 0..30
    OBVIOUS
  <2>. QED  BY <2>1, PowerStep, Zenon
<1>2. CASE depth = 16
  BY <1>1, <1>2
<1>3. CASE depth # 16
  <2>1. depth \in 0..30 /\ 16 \in (depth + 1)..31
    BY <1>3
  <2>2. PICK q \in Nat \ {0} : 2^16 = 2 * q * 2^depth
    BY <2>1, PowerDivides
  <2>. QED  BY <2>2, <1>1
<1>. QED  BY <1>2, <1>3

\* No error of an image is refused as too large.
LEMMA ErrorIsSmall ==
    ASSUME NEW m \in Nat, m <= 2^16
    PROVE  ~IsTooLarge(UnMapErrVal(m))
BY DEF IsTooLarge, Absolute, UnMapErrVal

\* What a read returns that had bits enough.
Got(v, rest) == [ok |-> TRUE, value |-> v, rest |-> rest]

\* Its value, and the same with another value.
LEMMA ValueGot ==
    ASSUME NEW v, NEW rest, NEW u
    PROVE  Got(v, rest).value = v /\ [Got(v, rest) EXCEPT !.value = u] = Got(u, rest)
<1>1. PICK t : t = TRUE
  OBVIOUS
<1>2. /\ [ok |-> t, value |-> v, rest |-> rest].value = v
      /\ [[ok |-> t, value |-> v, rest |-> rest] EXCEPT !.value = u]
            = [ok |-> t, value |-> u, rest |-> rest]
  OBVIOUS
<1>3. Got(v, rest) = [ok |-> t, value |-> v, rest |-> rest]
  BY <1>1, Zenon DEF Got
<1>4. Got(u, rest) = [ok |-> t, value |-> u, rest |-> rest]
  BY <1>1, Zenon DEF Got
<1>. QED  BY <1>2, <1>3, <1>4, Zenon

\* An error whose code is in the table is read there.
LEMMA ErrorByTable ==
    ASSUME NEW k, NEW limit, NEW width, NEW b, TableMatches(k, b) # {}
    PROVE  \E c \in TableMatches(k, b) :
               DecodeErrVal(k, limit, width, b)
                   = Got(c.value, SubSeq(b, Len(c.bits) + 1, Len(b)))
<1>1. PICK c : c = CHOOSE x \in TableMatches(k, b) : TRUE
  OBVIOUS
<1>2. c \in TableMatches(k, b)
  BY <1>1
<1>3. DecodeErrVal(k, limit, width, b)
          = [ok |-> TRUE, value |-> c.value, rest |-> SubSeq(b, Len(c.bits) + 1, Len(b))]
  BY <1>1 DEF DecodeErrVal
<1>. QED  BY <1>2, <1>3, Zenon DEF Got

\* The others are read in full, and a small one is not refused.
LEMMA ErrorInFull ==
    ASSUME NEW k, NEW limit, NEW width, NEW b, TableMatches(k, b) = {},
           NEW m, NEW rest, DecodeValue(k, limit, width, b) = Got(m, rest),
           ~IsTooLarge(UnMapErrVal(m))
    PROVE  DecodeErrVal(k, limit, width, b) = Got(UnMapErrVal(m), rest)
<1>1. PICK d : d = DecodeValue(k, limit, width, b)
  OBVIOUS
<1>2. d = Got(m, rest)
  BY <1>1
<1>3. d.value = m
  BY <1>2, ValueGot
<1>4. DecodeErrVal(k, limit, width, b)
          = IF IsTooLarge(UnMapErrVal(d.value)) THEN Refused
            ELSE [d EXCEPT !.value = UnMapErrVal(d.value)]
  BY <1>1 DEF DecodeErrVal
<1>5. DecodeErrVal(k, limit, width, b) = [d EXCEPT !.value = UnMapErrVal(m)]
  BY <1>3, <1>4
<1>. QED  BY <1>2, <1>5, ValueGot

\* What is read of a code, whether the table has it or not.
LEMMA ErrorReadAs ==
    ASSUME NEW k, NEW limit, NEW width, NEW b \in Seq({0, 1}), NEW m, NEW u,
           UnMapErrVal(m) = u, m \in Nat, m <= 2^16,
           DecodeValue(k, limit, width, b) = Got(m, <<>>),
           \A c \in TableMatches(k, b) : c.value = u /\ c.bits = b
    PROVE  DecodeErrVal(k, limit, width, b) = Got(u, <<>>)
<1>1. CASE TableMatches(k, b) # {}
  <2>1. PICK c \in TableMatches(k, b) :
                DecodeErrVal(k, limit, width, b)
                    = Got(c.value, SubSeq(b, Len(c.bits) + 1, Len(b)))
    BY <1>1, ErrorByTable
  <2>2. PICK v, w : v = c.value /\ w = c.bits
    OBVIOUS
  <2>3. v = u /\ w = b
    BY <2>1, <2>2
  <2>4. DecodeErrVal(k, limit, width, b) = Got(v, SubSeq(b, Len(w) + 1, Len(b)))
    BY <2>1, <2>2
  <2>5. SubSeq(b, Len(b) + 1, Len(b)) = <<>>
    <3>1. Len(b) + 1 \in Int /\ Len(b) \in Int /\ Len(b) < Len(b) + 1
      OBVIOUS
    <3>. QED  BY <3>1, SubSeqEmpty
  <2>. QED  BY <2>3, <2>4, <2>5
<1>2. CASE TableMatches(k, b) = {}
  <2>1. ~IsTooLarge(UnMapErrVal(m))
    BY ErrorIsSmall
  <2>. QED  BY <1>2, <2>1, ErrorInFull
<1>. QED  BY <1>1, <1>2

\* An error of regular mode is read as it was written, through the tables or not,
\* which agree.
LEMMA RegularRead ==
    ASSUME NEW depth \in 2..16, NEW k \in 0..15, k <= depth, NEW m \in Nat, m <= 2^depth,
           NEW limit, limit = Limit(depth), NEW u, u = UnMapErrVal(m),
           NEW b, b = BitsOfCalls(EncodeMappedValue(k, m, limit, depth))
    PROVE  RegularRight(b, k, limit, depth, m, u)
<1>1. limit \in Nat /\ limit - depth \in 18..48
  BY LimitBounds
<1>2. CodeFits(k, m, limit, depth)
  <2>1. k \in 0..16 /\ limit \in Nat /\ limit - depth \in 2..48
    BY <1>1
  <2>. QED  BY <2>1, FitsCode
<1>3. /\ Len(b) <= limit
      /\ DecodeValue(k, limit, depth, b) = [ok |-> TRUE, value |-> m, rest |-> <<>>]
  BY <1>2, ErrorRead
<1>4. /\ \A c \in TableMatches(k, b) : c.value = u /\ c.bits = b
      /\ Len(b) <= 8 <=> TableMatches(k, b) # {}
      /\ b \in Seq({0, 1})
  <2>1. limit - depth >= 9
    BY <1>1
  <2>. QED  BY <1>2, <2>1, TablesRight
<1>5. DecodeErrVal(k, limit, depth, b) = [ok |-> TRUE, value |-> u, rest |-> <<>>]
  <2>1. m <= 2^16
    <3>1. 2^depth \in Nat /\ 2^depth <= 2^16
      BY RangeOfErrors
    <3>2. 2^16 \in Nat
      OBVIOUS
    <3>. QED  BY <3>1, <3>2
  <2>2. DecodeValue(k, limit, depth, b) = Got(m, <<>>)
    BY <1>3, Zenon DEF Got
  <2>3. UnMapErrVal(m) = u
    OBVIOUS
  <2>4. DecodeErrVal(k, limit, depth, b) = Got(u, <<>>)
    BY <1>4, <2>1, <2>2, <2>3, ErrorReadAs
  <2>. QED  BY <2>4, Zenon DEF Got
<1>. QED  BY <1>3, <1>4, <1>5 DEF RegularRight, ReadAs

\* The calls of an error are legal.
LEMMA ErrorCallsLegal ==
    ASSUME NEW k, NEW m, NEW limit, NEW width, CodeFits(k, m, limit, width)
    PROVE  \A i \in DOMAIN EncodeMappedValue(k, m, limit, width) :
               CallIsLegal(EncodeMappedValue(k, m, limit, width)[i])
<1>1. CASE IsShort(k, m, limit, width)
  BY <1>1, ShortCode
<1>2. CASE ~IsShort(k, m, limit, width)
  BY <1>2, EscapedCode
<1>. QED  BY <1>1, <1>2

-----------------------------------------------------------------------------
(* The invariant of CodeWords, and what it implies. *)

\* An error of regular mode has been written and, when there is a result, read.
RegularMatch(depth, k, m) ==
    /\ k <= depth /\ m <= 2^depth
    /\ code = [kind |-> "regular", k |-> k, limit |-> Limit(depth), qbpp |-> depth,
               value |-> UnMapErrVal(m)]
    /\ calls = EncodeMappedValue(k, m, Limit(depth), depth)
    /\ result = <<>> \/ ReadAs(result, UnMapErrVal(m))

\* The same of an error that interrupts a run.
InterruptionMatch(depth, i, k, em) ==
    /\ k <= depth /\ em <= 2^depth
    /\ code = [kind |-> "interruption", k |-> k, limit |-> InterruptionLimit(depth, i),
               qbpp |-> depth, value |-> em]
    /\ calls = EncodeMappedValue(k, em, InterruptionLimit(depth, i), depth)
    /\ result = <<>> \/ ReadAs(result, em)

\* The same of a run.
RunMatch(max, i, length) ==
    LET r == EncodeRunPixels(length, length = max, i)
    IN  /\ length <= max
        /\ code = [kind |-> "run", max |-> max, runIndex |-> i, value |-> length,
                   after |-> r.runIndex]
        /\ calls = r.calls
        /\ result = <<>> \/ RunReadAs(result, length, r.runIndex)

RegularCoded == \E depth \in 2..16, k \in 0..15, m \in Nat : RegularMatch(depth, k, m)
InterruptionCoded ==
    \E depth \in 2..16, i \in 0..31, k \in 0..16, em \in Nat : InterruptionMatch(depth, i, k, em)
RunCoded == \E max \in Nat \ {0}, i \in 0..31, length \in Nat : RunMatch(max, i, length)

\* A code, its calls and its result belong together.
IInv == /\ code = <<>> => result = <<>>
        /\ \/ code = <<>> /\ calls = <<>>
           \/ RegularCoded
           \/ InterruptionCoded
           \/ RunCoded

\* The kind of a code says which.
LEMMA Kinds ==
    /\ RegularCoded => code.kind = "regular"
    /\ InterruptionCoded => code.kind = "interruption"
    /\ RunCoded => code.kind = "run"
<1>1. ASSUME NEW depth, NEW k, NEW m, RegularMatch(depth, k, m) PROVE code.kind = "regular"
  BY <1>1 DEF RegularMatch
<1>2. ASSUME NEW depth, NEW i, NEW k, NEW em, InterruptionMatch(depth, i, k, em)
      PROVE  code.kind = "interruption"
  BY <1>2 DEF InterruptionMatch
<1>3. ASSUME NEW max, NEW i, NEW length, RunMatch(max, i, length) PROVE code.kind = "run"
  BY <1>3 DEF RunMatch
<1>. QED  BY <1>1, <1>2, <1>3 DEF RegularCoded, InterruptionCoded, RunCoded

\* An error of regular mode that is read is the one that was written.
LEMMA DecodeRegularStep ==
    ASSUME IInv, DecodeRegular
    PROVE  IInv'
<1>1. code # <<>> /\ code.kind = "regular" /\ code' = code /\ calls' = calls
      /\ result' = DecodeErrVal(code.k, code.limit, code.qbpp, BitsOfCalls(calls))
  BY DEF DecodeRegular, Decode
<1>2. RegularCoded
  BY <1>1, Kinds DEF IInv
<1>3. PICK depth \in 2..16, k \in 0..15, m \in Nat : RegularMatch(depth, k, m)
  BY <1>2 DEF RegularCoded
<1>4. PICK limit, u, b : /\ limit = Limit(depth) /\ u = UnMapErrVal(m)
                         /\ b = BitsOfCalls(EncodeMappedValue(k, m, limit, depth))
  OBVIOUS
<1>5. ReadAs(result', UnMapErrVal(m))
  <2>1. /\ k <= depth /\ m <= 2^depth
        /\ code.k = k /\ code.limit = limit /\ code.qbpp = depth
        /\ calls = EncodeMappedValue(k, m, limit, depth)
    BY <1>3, <1>4 DEF RegularMatch
  <2>2. RegularRight(b, k, limit, depth, m, u)
    BY <1>4, <2>1, RegularRead
  <2>. QED  BY <1>1, <1>4, <2>1, <2>2 DEF RegularRight
<1>6. RegularMatch(depth, k, m)'
  BY <1>1, <1>3, <1>5 DEF RegularMatch
<1>7. RegularCoded'
  BY <1>6 DEF RegularCoded
<1>. QED  BY <1>1, <1>7 DEF IInv

\* So is one that interrupts a run.
LEMMA DecodeInterruptionStep ==
    ASSUME IInv, DecodeInterruption
    PROVE  IInv'
<1>1. code # <<>> /\ code.kind = "interruption" /\ code' = code /\ calls' = calls
      /\ result' = DecodeValue(code.k, code.limit, code.qbpp, BitsOfCalls(calls))
  BY DEF DecodeInterruption, Decode
<1>2. InterruptionCoded
  BY <1>1, Kinds DEF IInv
<1>3. PICK depth \in 2..16, i \in 0..31, k \in 0..16, em \in Nat :
          InterruptionMatch(depth, i, k, em)
  BY <1>2 DEF InterruptionCoded
<1>4. PICK limit \in Nat : limit = InterruptionLimit(depth, i) /\ limit - depth \in 2..48
  BY LimitBounds
<1>5. /\ k <= depth /\ em <= 2^depth
      /\ code.k = k /\ code.limit = limit /\ code.qbpp = depth
      /\ calls = EncodeMappedValue(k, em, limit, depth)
  BY <1>3, <1>4 DEF InterruptionMatch
<1>6. CodeFits(k, em, limit, depth)
  BY <1>4, <1>5, FitsCode
<1>7. ReadAs(result', em)
  BY <1>1, <1>5, <1>6, ErrorRead DEF ReadAs
<1>8. InterruptionMatch(depth, i, k, em)'
  BY <1>1, <1>3, <1>7 DEF InterruptionMatch
<1>9. InterruptionCoded'
  BY <1>8 DEF InterruptionCoded
<1>. QED  BY <1>1, <1>9 DEF IInv

\* So is a run.
LEMMA DecodeRunStep ==
    ASSUME IInv, DecodeRun
    PROVE  IInv'
<1>1. code # <<>> /\ code.kind = "run" /\ code' = code /\ calls' = calls
      /\ result' = DecodeRunPixels(code.max, code.runIndex, BitsOfCalls(calls))
  BY DEF DecodeRun, Decode
<1>2. RunCoded
  BY <1>1, Kinds DEF IInv
<1>3. PICK max \in Nat \ {0}, i \in 0..31, length \in Nat : RunMatch(max, i, length)
  BY <1>2 DEF RunCoded
<1>4. PICK r : r = EncodeRunPixels(length, length = max, i)
  OBVIOUS
<1>5. length \in 0..max /\ code.max = max /\ code.runIndex = i /\ calls = r.calls
  BY <1>3, <1>4 DEF RunMatch
<1>6. RunReadAs(result', length, r.runIndex)
  <2>1. RunRight(r, max, length, i)
    BY <1>4, <1>5, RunRead
  <2>. QED  BY <1>1, <1>5, <2>1 DEF RunRight
<1>7. RunMatch(max, i, length)'
  BY <1>1, <1>3, <1>4, <1>6 DEF RunMatch
<1>8. RunCoded'
  BY <1>7 DEF RunCoded
<1>. QED  BY <1>1, <1>8 DEF IInv

\* The constants give values that can occur.
LEMMA MappedError ==
    ASSUME NEW depth \in Depths, NEW m \in MappedErrors[depth]
    PROVE  depth \in 2..16 /\ m \in Nat /\ m <= 2^depth
<1>1. depth \in 2..16
  BY DepthsAssumption
<1>2. PICK p \in Nat : p = 2^depth
  <2>1. depth \in 0..31
    BY <1>1
  <2>. QED  BY <2>1, PowerPositive
<1>3. m \in 0..p
  BY <1>2, MappedErrorsAssumption
<1>. QED  BY <1>1, <1>2, <1>3

\* What is written is a code of a value that can occur.
LEMMA EncodeStep ==
    ASSUME IInv
    PROVE  /\ EncodeRegular => IInv'
           /\ EncodeInterruption => IInv'
           /\ EncodeRun => IInv'
<1>1. ASSUME EncodeRegular PROVE IInv'
  <2>1. PICK depth \in Depths, k \in 0..15 : \E m \in MappedErrors[depth] \ {2^depth} :
            /\ k <= depth
            /\ Encode([kind |-> "regular", k |-> k, limit |-> Limit(depth), qbpp |-> depth,
                       value |-> UnMapErrVal(m)],
                      EncodeMappedValue(k, GetMappedErrVal(UnMapErrVal(m)), Limit(depth), depth))
    BY <1>1 DEF EncodeRegular
  <2>2. PICK m \in MappedErrors[depth] :
            /\ k <= depth
            /\ Encode([kind |-> "regular", k |-> k, limit |-> Limit(depth), qbpp |-> depth,
                       value |-> UnMapErrVal(m)],
                      EncodeMappedValue(k, GetMappedErrVal(UnMapErrVal(m)), Limit(depth), depth))
    BY <2>1
  <2>3. depth \in 2..16 /\ m \in Nat /\ m <= 2^depth
    BY MappedError
  <2>4. GetMappedErrVal(UnMapErrVal(m)) = m
    BY <2>3, MappingInverse
  <2>5. result' = <<>>
    BY <1>1, <2>2 DEF Encode, IInv, EncodeRegular
  <2>6. RegularMatch(depth, k, m)'
    BY <2>2, <2>3, <2>4, <2>5 DEF RegularMatch, Encode
  <2>7. RegularCoded'
    BY <2>3, <2>6 DEF RegularCoded
  <2>. QED  BY <2>5, <2>7 DEF IInv
<1>2. ASSUME EncodeInterruption PROVE IInv'
  <2>1. PICK depth \in Depths, i \in 0..31 : \E k \in 0..depth, em \in MappedErrors[depth] :
            Encode([kind |-> "interruption", k |-> k,
                    limit |-> InterruptionLimit(depth, i), qbpp |-> depth, value |-> em],
                   EncodeMappedValue(k, em, InterruptionLimit(depth, i), depth))
    BY <1>2 DEF EncodeInterruption
  <2>2. PICK k \in 0..depth, em \in MappedErrors[depth] :
            Encode([kind |-> "interruption", k |-> k,
                    limit |-> InterruptionLimit(depth, i), qbpp |-> depth, value |-> em],
                   EncodeMappedValue(k, em, InterruptionLimit(depth, i), depth))
    BY <2>1
  <2>3. depth \in 2..16 /\ em \in Nat /\ em <= 2^depth
    BY MappedError
  <2>4. k \in 0..16 /\ k <= depth
    BY <2>3
  <2>5. result' = <<>>
    BY <1>2, <2>2 DEF Encode, IInv, EncodeInterruption
  <2>6. InterruptionMatch(depth, i, k, em)'
    BY <2>2, <2>3, <2>4, <2>5 DEF InterruptionMatch, Encode
  <2>7. InterruptionCoded'
    BY <2>3, <2>4, <2>6 DEF InterruptionCoded
  <2>. QED  BY <2>5, <2>7 DEF IInv
<1>3. ASSUME EncodeRun PROVE IInv'
  <2>1. PICK max \in LineLengths, i \in 0..31 : \E length \in 0..max :
            LET r == EncodeRunPixels(length, length = max, i)
            IN  Encode([kind |-> "run", max |-> max, runIndex |-> i, value |-> length,
                        after |-> r.runIndex], r.calls)
    BY <1>3 DEF EncodeRun
  <2>2. max \in Nat \ {0}
    BY LineLengthsAssumption
  <2>3. PICK length \in 0..max :
            LET r == EncodeRunPixels(length, length = max, i)
            IN  Encode([kind |-> "run", max |-> max, runIndex |-> i, value |-> length,
                        after |-> r.runIndex], r.calls)
    BY <2>1
  <2>4. length \in Nat /\ length <= max
    BY <2>2
  <2>5. result' = <<>>
    BY <1>3, <2>3 DEF Encode, IInv, EncodeRun
  <2>6. RunMatch(max, i, length)'
    BY <2>3, <2>4, <2>5 DEF RunMatch, Encode
  <2>7. RunCoded'
    BY <2>2, <2>4, <2>6 DEF RunCoded
  <2>. QED  BY <2>5, <2>7 DEF IInv
<1>. QED  BY <1>1, <1>2, <1>3

\* The invariant holds from the start, and every step keeps it.
THEOREM CodesInvariant == Spec => []IInv
<1>1. Init => IInv
  BY DEF Init, IInv
<1>2. IInv /\ [Next]_vars => IInv'
  <2> SUFFICES ASSUME IInv, [Next]_vars PROVE IInv'
    OBVIOUS
  <2>1. CASE EncodeRegular \/ EncodeInterruption \/ EncodeRun
    BY <2>1, EncodeStep
  <2>2. CASE DecodeRegular
    BY <2>2, DecodeRegularStep
  <2>3. CASE DecodeInterruption
    BY <2>3, DecodeInterruptionStep
  <2>4. CASE DecodeRun
    BY <2>4, DecodeRunStep
  <2>5. CASE Done \/ UNCHANGED vars
    <3>1. UNCHANGED <<code, calls, result>>
      BY <2>5 DEF Done, vars
    <3>2. /\ RegularCoded => RegularCoded'
          /\ InterruptionCoded => InterruptionCoded'
          /\ RunCoded => RunCoded'
      BY <3>1 DEF RegularCoded, InterruptionCoded, RunCoded, RegularMatch,
                  InterruptionMatch, RunMatch
    <3>. QED  BY <3>1, <3>2 DEF IInv
  <2>. QED  BY <2>1, <2>2, <2>3, <2>4, <2>5 DEF Next
<1>. QED  BY <1>1, <1>2, PTL DEF Spec

\* What the decoder reads is what the encoder wrote.
THEOREM CodesAreRead == Spec => []CodesRoundTrip
<1>1. IInv => CodesRoundTrip
  <2> SUFFICES ASSUME IInv, result # <<>>
               PROVE  /\ result.ok /\ result.rest = <<>> /\ result.value = code.value
                      /\ code.kind = "run" => result.runIndex = code.after
    BY DEF CodesRoundTrip
  <2>1. CASE RegularCoded
    <3>1. PICK depth \in 2..16, k \in 0..15, m \in Nat : RegularMatch(depth, k, m)
      BY <2>1 DEF RegularCoded
    <3>2. PICK u : u = UnMapErrVal(m)
      OBVIOUS
    <3>3. code.value = u /\ code.kind = "regular"
      BY <3>1, <3>2 DEF RegularMatch
    <3>4. ReadAs(result, u)
      BY <3>1, <3>2 DEF RegularMatch
    <3>. QED  BY <3>3, <3>4 DEF ReadAs
  <2>2. CASE InterruptionCoded
    <3>1. PICK depth \in 2..16, i \in 0..31, k \in 0..16, em \in Nat :
              InterruptionMatch(depth, i, k, em)
      BY <2>2 DEF InterruptionCoded
    <3>2. /\ code.value = em /\ code.kind = "interruption"
          /\ result.ok = TRUE /\ result.value = em /\ result.rest = <<>>
      BY <3>1 DEF InterruptionMatch, ReadAs
    <3>. QED  BY <3>2
  <2>3. CASE RunCoded
    <3>1. PICK max \in Nat \ {0}, i \in 0..31, length \in Nat : RunMatch(max, i, length)
      BY <2>3 DEF RunCoded
    <3>2. /\ code.value = length
          /\ result.ok = TRUE /\ result.value = length /\ result.rest = <<>>
          /\ result.runIndex = code.after
      BY <3>1 DEF RunMatch, RunReadAs
    <3>. QED  BY <3>2
  <2>. QED  BY <2>1, <2>2, <2>3 DEF IInv
<1>. QED  BY <1>1, CodesInvariant, PTL

\* The calls of AppendToBitStream keep its two ASSERTs.
THEOREM CodesAreLegal == Spec => []CallsAreLegal
<1>1. IInv => CallsAreLegal
  <2> SUFFICES ASSUME IInv PROVE CallsAreLegal
    OBVIOUS
  <2>1. CASE code = <<>> /\ calls = <<>>
    BY <2>1 DEF CallsAreLegal
  <2>2. CASE RegularCoded
    <3>1. PICK depth \in 2..16, k \in 0..15, m \in Nat : RegularMatch(depth, k, m)
      BY <2>2 DEF RegularCoded
    <3>2. PICK limit \in Nat : limit = Limit(depth) /\ limit - depth \in 18..48
      BY LimitBounds
    <3>3. k <= depth /\ m <= 2^depth /\ calls = EncodeMappedValue(k, m, limit, depth)
      BY <3>1, <3>2 DEF RegularMatch
    <3>4. CodeFits(k, m, limit, depth)
      <4>1. k \in 0..16 /\ limit - depth \in 2..48
        BY <3>2
      <4>. QED  BY <3>3, <4>1, FitsCode
    <3>. QED  BY <3>3, <3>4, ErrorCallsLegal DEF CallsAreLegal
  <2>3. CASE InterruptionCoded
    <3>1. PICK depth \in 2..16, i \in 0..31, k \in 0..16, em \in Nat :
              InterruptionMatch(depth, i, k, em)
      BY <2>3 DEF InterruptionCoded
    <3>2. PICK limit \in Nat : limit = InterruptionLimit(depth, i) /\ limit - depth \in 2..48
      BY LimitBounds
    <3>3. k <= depth /\ em <= 2^depth /\ calls = EncodeMappedValue(k, em, limit, depth)
      BY <3>1, <3>2 DEF InterruptionMatch
    <3>4. CodeFits(k, em, limit, depth)
      BY <3>2, <3>3, FitsCode
    <3>. QED  BY <3>3, <3>4, ErrorCallsLegal DEF CallsAreLegal
  <2>4. CASE RunCoded
    <3>1. PICK max \in Nat \ {0}, i \in 0..31, length \in Nat : RunMatch(max, i, length)
      BY <2>4 DEF RunCoded
    <3>2. length \in 0..max /\ calls = EncodeRunPixels(length, length = max, i).calls
      BY <3>1 DEF RunMatch
    <3>3. PICK r : r = EncodeRunPixels(length, length = max, i)
      OBVIOUS
    <3>4. RunRight(r, max, length, i)
      BY <3>2, <3>3, RunRead
    <3>. QED  BY <3>2, <3>3, <3>4 DEF CallsAreLegal, RunRight
  <2>. QED  BY <2>1, <2>2, <2>3, <2>4 DEF IInv
<1>. QED  BY <1>1, CodesInvariant, PTL

\* No code of an error is longer than its limit.
THEOREM CodesAreLimited == Spec => []CodesWithinLimit
<1>1. IInv => CodesWithinLimit
  <2> SUFFICES ASSUME IInv, code # <<>>, code.kind # "run"
               PROVE  Len(BitsOfCalls(calls)) <= code.limit
    BY DEF CodesWithinLimit
  <2>1. CASE RegularCoded
    <3>1. PICK depth \in 2..16, k \in 0..15, m \in Nat : RegularMatch(depth, k, m)
      BY <2>1 DEF RegularCoded
    <3>2. PICK limit, u, b : /\ limit = Limit(depth) /\ u = UnMapErrVal(m)
                             /\ b = BitsOfCalls(EncodeMappedValue(k, m, limit, depth))
      OBVIOUS
    <3>3. /\ k <= depth /\ m <= 2^depth /\ code.limit = limit
          /\ calls = EncodeMappedValue(k, m, limit, depth)
      BY <3>1, <3>2 DEF RegularMatch
    <3>4. RegularRight(b, k, limit, depth, m, u)
      BY <3>2, <3>3, RegularRead
    <3>. QED  BY <3>2, <3>3, <3>4 DEF RegularRight
  <2>2. CASE InterruptionCoded
    <3>1. PICK depth \in 2..16, i \in 0..31, k \in 0..16, em \in Nat :
              InterruptionMatch(depth, i, k, em)
      BY <2>2 DEF InterruptionCoded
    <3>2. PICK limit \in Nat : limit = InterruptionLimit(depth, i) /\ limit - depth \in 2..48
      BY LimitBounds
    <3>3. /\ k <= depth /\ em <= 2^depth /\ code.limit = limit
          /\ calls = EncodeMappedValue(k, em, limit, depth)
      BY <3>1, <3>2 DEF InterruptionMatch
    <3>4. CodeFits(k, em, limit, depth)
      BY <3>2, <3>3, FitsCode
    <3>. QED  BY <3>3, <3>4, ErrorRead
  <2>. QED  BY <2>1, <2>2, Kinds DEF IInv
<1>. QED  BY <1>1, CodesInvariant, PTL

\* The tables hold the codes of up to 8 bits, and what they say of a code is what
\* the code read in full means.
THEOREM TablesAreComplete == Spec => []TablesAgree
<1>1. IInv => TablesAgree
  <2> SUFFICES ASSUME IInv, code # <<>>, code.kind = "regular"
               PROVE  LET bits == BitsOfCalls(calls)
                          full == DecodeValue(code.k, code.limit, code.qbpp, bits)
                      IN  /\ Len(bits) <= 8 <=> TableMatches(code.k, bits) # {}
                          /\ \A c \in TableMatches(code.k, bits) :
                                 /\ c.value = UnMapErrVal(full.value)
                                 /\ Len(c.bits) = Len(bits) - Len(full.rest)
    BY DEF TablesAgree
  <2>1. PICK depth \in 2..16, k \in 0..15, m \in Nat : RegularMatch(depth, k, m)
    BY Kinds DEF IInv, RegularCoded
  <2>2. /\ k <= depth /\ m <= 2^depth /\ calls = EncodeMappedValue(k, m, Limit(depth), depth)
        /\ code.k = k /\ code.limit = Limit(depth) /\ code.qbpp = depth
    BY <2>1 DEF RegularMatch
  <2>3. PICK limit, u, bits : /\ limit = Limit(depth) /\ u = UnMapErrVal(m)
                              /\ bits = BitsOfCalls(EncodeMappedValue(k, m, limit, depth))
    OBVIOUS
  <2>4. RegularRight(bits, k, limit, depth, m, u)
    BY <2>2, <2>3, RegularRead
  <2>5. PICK full : full = DecodeValue(k, limit, depth, bits)
    OBVIOUS
  <2>6. full.value = m /\ full.rest = <<>>
    BY <2>4, <2>5 DEF RegularRight, ReadAs
  <2>7. Len(bits) - Len(full.rest) = Len(bits)
    <3>1. Len(full.rest) = 0 /\ Len(bits) \in Nat
      BY <2>4, <2>6 DEF RegularRight
    <3>. QED  BY <3>1
  <2>8. /\ Len(bits) <= 8 <=> TableMatches(k, bits) # {}
        /\ \A c \in TableMatches(k, bits) :
               c.value = UnMapErrVal(full.value) /\ Len(c.bits) = Len(bits) - Len(full.rest)
    BY <2>3, <2>4, <2>6, <2>7 DEF RegularRight
  <2>. QED  BY <2>2, <2>3, <2>5, <2>8
<1>. QED  BY <1>1, CodesInvariant, PTL
=============================================================================

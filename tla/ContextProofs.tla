---------------------------- MODULE ContextProofs ----------------------------
(***************************************************************************)
(* Proofs about RegularStatistics: for every NEAR, every RESET an int16_t  *)
(* can count to, and every bound on the errors, a regular-mode context     *)
(* keeps its statistics in range, and with them its Golomb parameter.      *)
(***************************************************************************)
EXTENDS RegularStatistics, UtilProofs

\* The inductive invariant.  The bound on A needs the bound on N: a halving
\* keeps the mean only because it happens at the same N for both.
Inv == TypeOK /\ StatisticsBounded

\* InitContext starts the statistics in range.
LEMMA InitInv == Init => Inv
  BY ResetAssumption, InitialAssumption, ErrorAssumption
     DEF Init, Inv, TypeOK, StatisticsBounded, InitContext, Magnitude, Largest

\* What one sample does to the statistics of a context that has them in range.
LEMMA SampleInv ==
    ASSUME RESET <= 32767, Inv, NEW e \in ErrorValues, Sample(e)
    PROVE  Inv'
<1> DEFINE half == ctx.N = RESET
           m  == IF half THEN ctx.N \div 2 ELSE ctx.N
           n  == m + 1
           b  == ctx.B + e * (2 * NEAR + 1)
           b1 == IF half THEN b \div 2 ELSE b
           a  == ctx.A + Absolute(e)
           a1 == IF half THEN a \div 2 ELSE a
<1>1. /\ ctx.N \in 1..RESET /\ ctx.A \in Nat /\ ctx.B \in Int
      /\ ctx.C \in -128..127 /\ ctx.A <= Magnitude * ctx.N
  BY DEF Inv, TypeOK, StatisticsBounded
<1>2. /\ e \in Int /\ Absolute(e) \in Nat /\ Absolute(e) <= Magnitude
      /\ Magnitude \in Nat
  BY ErrorAssumption, InitialAssumption DEF Absolute, Magnitude, Largest
<1>3. n \in 1..RESET
  BY <1>1, ResetAssumption
<1>4. ToInt16(n) = n
  <2> HIDE DEF n
  <2>1. n \in Nat /\ n <= 32767
    BY <1>3, ResetAssumption
  <2>. QED  BY <2>1 DEF ToInt16
<1>5. e * (2 * NEAR + 1) \in Int
  BY <1>2, NearAssumption
<1>6. b1 \in Int
  BY <1>1, <1>5
<1>7. ctx' = [A |-> a1, B |-> BiasLeft(b1, n),
              C |-> CorrectionStep(ctx.C, b1, n), N |-> n]
  BY <1>4 DEF Sample, UpdateVariables
<1>8. a1 \in Nat /\ a1 <= Magnitude * n
  <2>1. a1 \in Nat
    BY <1>1, <1>2
  <2>2. CASE half
    BY <2>2, <1>1, <1>2, MeanPreserved
  <2>3. CASE ~half
    BY <2>3, <1>1, <1>2, MeanPreserved
  <2>. QED  BY <2>1, <2>2, <2>3
<1> HIDE DEF a1, b1, n
<1>9. BiasLeft(b1, n) \in (1 - n)..0
  BY <1>3, <1>6, ResetAssumption DEF BiasLeft, Largest, Smallest
<1>10. CorrectionStep(ctx.C, b1, n) \in -128..127
  BY <1>1, <1>3, <1>6, ResetAssumption DEF CorrectionStep, Largest, Smallest
<1>11. TypeOK'
  BY <1>3, <1>7, <1>8, <1>9, <1>10, ResetAssumption DEF TypeOK
<1>12. StatisticsBounded'
  BY <1>3, <1>7, <1>8, <1>9 DEF StatisticsBounded, Magnitude
<1>. QED  BY <1>11, <1>12 DEF Inv

\* A context whose RESET an int16_t can hold keeps its counter in 1..RESET, its
\* bias remainder in (-N, 0] and its sum of magnitudes at no more than the
\* largest magnitude for each counted sample (JlsContext::UpdateVariables).
THEOREM RegularStatisticsBounded ==
    ASSUME RESET <= 32767
    PROVE  Spec => [](TypeOK /\ StatisticsBounded)
<1>1. Inv /\ [Next]_vars => Inv'
  <2> SUFFICES ASSUME Inv, [Next]_vars PROVE Inv'
    OBVIOUS
  <2>1. CASE Next
    BY <2>1, SampleInv DEF Next
  <2>2. CASE UNCHANGED vars
    BY <2>2 DEF vars, Inv, TypeOK, StatisticsBounded, Magnitude
  <2>. QED  BY <2>1, <2>2
<1>2. Inv => TypeOK /\ StatisticsBounded
  BY DEF Inv
<1>. QED  BY InitInv, <1>1, <1>2, PTL DEF Spec

\* The Golomb parameter of a regular-mode context is never larger than the one
\* a single sample of the largest magnitude calls for (JlsContext::GetGolomb).
THEOREM RegularGolombBounded ==
    ASSUME RESET <= 32767
    PROVE  Spec => []GolombBounded
<1>1. TypeOK /\ StatisticsBounded => GolombBounded
  <2> SUFFICES ASSUME TypeOK, StatisticsBounded PROVE GolombBounded
    OBVIOUS
  <2>1. ctx.N \in Nat \ {0} /\ ctx.A \in Int /\ Magnitude \in Nat
    BY ErrorAssumption, InitialAssumption, ResetAssumption
       DEF TypeOK, StatisticsBounded, Magnitude, Largest
  <2>. QED  BY <2>1, LeastShiftOfMean DEF GolombBounded, GetGolomb, StatisticsBounded
<1>. QED  BY <1>1, RegularStatisticsBounded, PTL
=============================================================================

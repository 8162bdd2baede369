-------------------------- MODULE RunContextProofs --------------------------
(***************************************************************************)
(* Proofs about RunStatistics: for every RESET a uint8_t can hold, and     *)
(* every bound on the errors, a run-interruption context keeps its         *)
(* statistics in range, the search for its Golomb parameter ends, and the  *)
(* error mapped with its statistics is the error that is read back.        *)
(***************************************************************************)
EXTENDS RunStatistics, UtilProofs

-----------------------------------------------------------------------------
(* Lemmas on the operators. *)

\* The map bit and the magnitude determine the error, whatever the statistics:
\* ComputeErrVal inverts the mapping of EncodeRIError.
LEMMA MappedErrorRoundTrip ==
    ASSUME NEW c \in [A : Nat, N : Int, Nn : Int], NEW type \in {0, 1},
           NEW e \in Int, type = 1 => e # 0, NEW k \in Int
    PROVE  /\ RunMappedError(c, type, e, k) \in Nat
           /\ ComputeRunErrVal(c, type, RunMappedError(c, type, e, k), k) = e
<1> DEFINE map  == IF ComputeMap(c, e, k) THEN 1 ELSE 0
           temp == RunMappedError(c, type, e, k) + type
           neg  == k # 0 \/ 2 * c.Nn >= c.N
<1>1. c.N \in Int /\ c.Nn \in Int /\ Absolute(e) \in Nat
  BY DEF Absolute
<1>2. map \in {0, 1} /\ (e = 0 => map = 0) /\ (e # 0 => Absolute(e) >= 1)
  BY <1>1 DEF ComputeMap, Absolute
<1>3. temp = 2 * Absolute(e) - map /\ RunMappedError(c, type, e, k) = temp - type
  BY <1>1, <1>2 DEF RunMappedError
<1>4. RunMappedError(c, type, e, k) \in Nat
  BY <1>1, <1>2, <1>3 DEF Absolute
<1>5. temp % 2 = map /\ (temp + 1) \div 2 = Absolute(e)
  <2> HIDE DEF map, temp
  <2>. QED  BY <1>1, <1>2, <1>3
<1>6. e # 0 => ((neg = (map = 1)) <=> e < 0)
  BY <1>1 DEF ComputeMap
<1>7. ComputeRunErrVal(c, type, RunMappedError(c, type, e, k), k)
          = IF neg = (map = 1) THEN -Absolute(e) ELSE Absolute(e)
  <2> HIDE DEF map
  <2>. QED  BY <1>5 DEF ComputeRunErrVal
<1>8. ComputeRunErrVal(c, type, RunMappedError(c, type, e, k), k) = e
  <2> HIDE DEF map, temp, neg
  <2>. QED  BY <1>6, <1>7 DEF Absolute
<1>. QED  BY <1>4, <1>8

\* What UpdateVariables adds to A: at most the magnitude of the error.
LEMMA AddedMagnitude ==
    ASSUME NEW type \in {0, 1}, NEW a \in Nat, type = 1 => a >= 1,
           NEW map \in {0, 1}, a = 0 => map = 0
    PROVE  /\ (2 * a - type - map + 1 - type) \div 2 \in Nat
           /\ (2 * a - type - map + 1 - type) \div 2 <= a
  OBVIOUS

\* The search for the parameter of a type 1 context adds half the count to
\* the sum, which raises the mean by less than one.
LEMMA RunSearchBound ==
    ASSUME NEW n \in Nat \ {0}, NEW m \in Nat, NEW a \in Nat, a <= m * n,
           NEW type \in {0, 1}
    PROVE  a + (n \div 2) * type <= (m + 1) * n
<1>1. (n \div 2) * type <= n
  <2>1. CASE type = 0
    BY <2>1
  <2>2. CASE type = 1
    BY <2>2
  <2>. QED  BY <2>1, <2>2
<1>2. (n \div 2) * type \in Int /\ m * n \in Int /\ (m + 1) * n = m * n + n
  OBVIOUS
<1>. QED  BY <1>1, <1>2

-----------------------------------------------------------------------------
\* The inductive invariant.
Inv == TypeOK /\ RunStatisticsBounded

\* A RESET of at most 255 is stored as it is.
LEMMA ResetFits == ASSUME RESET <= 255 PROVE nReset \in Nat \ {0} /\ nReset <= 255
  BY ResetAssumption DEF nReset, ToUInt8

\* The constructor starts the statistics in range.
LEMMA RunInitInv == ASSUME RESET <= 255 PROVE Init => Inv
<1> SUFFICES ASSUME Init PROVE Inv
  OBVIOUS
<1>1. Magnitude \in Nat /\ InitialA <= Magnitude
  BY InitialAssumption, ErrorAssumption DEF Magnitude, Largest
<1>. QED  BY <1>1, ResetFits, InitialAssumption, TypeAssumption
          DEF Init, Inv, TypeOK, RunStatisticsBounded, InitRunContext

\* What one run interruption does to a context whose statistics are in range.
LEMMA InterruptInv ==
    ASSUME RESET <= 255, Inv, NEW e \in Errors, Interrupt(e)
    PROVE  Inv'
<1> DEFINE k    == GetRunGolomb(run, nRItype)
           map  == IF ComputeMap(run, e, k) THEN 1 ELSE 0
           em   == RunMappedError(run, nRItype, e, k)
           half == run.N = nReset
           m  == IF half THEN run.N \div 2 ELSE run.N
           n  == m + 1
           d  == (em + 1 - nRItype) \div 2
           a1 == IF half THEN (run.A + d) \div 2 ELSE run.A + d
           nn == run.Nn + (IF e < 0 THEN 1 ELSE 0)
           n1 == IF half THEN nn \div 2 ELSE nn
<1>1. /\ run \in [A : Nat, N : 0..255, Nn : 0..255] /\ nRItype \in {0, 1}
      /\ run.N \in 1..nReset /\ run.Nn < run.N /\ run.A <= Magnitude * run.N
  BY DEF Inv, TypeOK, RunStatisticsBounded
<1>2. nReset \in Nat \ {0} /\ nReset <= 255
  BY ResetFits
<1>3. /\ e \in Int /\ Absolute(e) \in Nat /\ Absolute(e) <= Magnitude
      /\ (nRItype = 1 => Absolute(e) >= 1) /\ Magnitude \in Nat
  BY ErrorAssumption, InitialAssumption DEF Errors, Absolute, Magnitude, Largest
<1>4. d \in Nat /\ d <= Magnitude
  <2>1. em = 2 * Absolute(e) - nRItype - map
    BY DEF RunMappedError
  <2>2. map \in {0, 1} /\ (Absolute(e) = 0 => map = 0)
    BY <1>1, <1>3 DEF ComputeMap, Absolute
  <2> HIDE DEF em, map
  <2>3. d = (2 * Absolute(e) - nRItype - map + 1 - nRItype) \div 2
    BY <2>1
  <2>4. d \in Nat /\ d <= Absolute(e)
    BY <1>1, <1>3, <2>2, <2>3, AddedMagnitude
  <2>. QED  BY <1>3, <2>4
<1>5. n \in 1..nReset /\ n \in 0..255 /\ ToUInt8(n) = n
  BY <1>1, <1>2 DEF ToUInt8
<1>6. nn \in 0..255 /\ ToUInt8(nn) = nn /\ n1 \in 0..255 /\ n1 < n
  BY <1>1, <1>2 DEF ToUInt8
<1>7. a1 \in Nat /\ a1 <= Magnitude * n
  <2> HIDE DEF d
  <2>1. a1 \in Nat
    BY <1>1, <1>4
  <2>2. CASE half
    BY <2>2, <1>1, <1>3, <1>4, MeanPreserved
  <2>3. CASE ~half
    BY <2>3, <1>1, <1>3, <1>4, MeanPreserved
  <2>. QED  BY <2>1, <2>2, <2>3
<1>8. run' = [A |-> a1, Nn |-> n1, N |-> n] /\ nRItype' = nRItype
  BY <1>5, <1>6 DEF Interrupt, UpdateRunVariables
<1> HIDE DEF a1, n1, n
<1>. QED  BY <1>1, <1>5, <1>6, <1>7, <1>8
          DEF Inv, TypeOK, RunStatisticsBounded, Magnitude

\* Inv holds in every state.
LEMMA RunInvariant == ASSUME RESET <= 255 PROVE Spec => []Inv
<1>1. Inv /\ [Next]_vars => Inv'
  <2> SUFFICES ASSUME Inv, [Next]_vars PROVE Inv'
    OBVIOUS
  <2>1. CASE Next
    BY <2>1, InterruptInv DEF Next
  <2>2. CASE UNCHANGED vars
    BY <2>2 DEF vars, Inv, TypeOK, RunStatisticsBounded, Magnitude
  <2>. QED  BY <2>1, <2>2
<1>. QED  BY RunInitInv, <1>1, PTL DEF Spec

\* A run-interruption context whose RESET a uint8_t can hold counts at most
\* RESET errors, fewer negative ones than errors, and a sum of at most the
\* largest magnitude for each (CContextRunMode::UpdateVariables).
THEOREM RunContextBounded ==
    ASSUME RESET <= 255
    PROVE  Spec => [](TypeOK /\ RunStatisticsBounded)
BY RunInvariant, PTL DEF Inv

\* The decoder reads back every error of a run interruption, in every state
\* the context can reach (the ASSERT of EncodeRIError).
THEOREM RunErrorsRoundTrip ==
    ASSUME RESET <= 255
    PROVE  Spec => []RunErrorRoundTrip
<1>1. Inv => RunErrorRoundTrip
  <2> SUFFICES ASSUME Inv, NEW e \in Errors
               PROVE  LET k  == GetRunGolomb(run, nRItype)
                          em == RunMappedError(run, nRItype, e, k)
                      IN  /\ em >= 0
                          /\ ComputeRunErrVal(run, nRItype, em, k) = e
    BY DEF RunErrorRoundTrip
  <2>1. /\ run \in [A : Nat, N : Int, Nn : Int] /\ nRItype \in {0, 1}
        /\ run.N \in Nat \ {0}
    BY DEF Inv, TypeOK, RunStatisticsBounded
  <2>2. e \in Int /\ (nRItype = 1 => e # 0)
    BY ErrorAssumption DEF Errors
  <2> DEFINE t == run.A + (run.N \div 2) * nRItype
             k == GetRunGolomb(run, nRItype)
  <2>3. k \in Int
    <3>1. t \in Int
      BY <2>1
    <3> HIDE DEF t
    <3>2. LeastShift(run.N, t) \in 0..SearchNeverEnds
      BY <2>1, <3>1, LeastShiftSearch
    <3>. QED  BY <3>2 DEF GetRunGolomb, SearchNeverEnds, t
  <2> HIDE DEF k
  <2>4. /\ RunMappedError(run, nRItype, e, k) \in Nat
        /\ ComputeRunErrVal(run, nRItype, RunMappedError(run, nRItype, e, k), k) = e
    <3>1. run \in [A : Nat, N : Int, Nn : Int] /\ nRItype \in {0, 1} /\ e \in Int
      BY <2>1, <2>2
    <3>2. nRItype = 1 => e # 0
      BY <2>2
    <3>. QED  BY <3>1, <3>2, <2>3, MappedErrorRoundTrip
  <2>. QED  BY <2>4 DEF k
<1>. QED  BY <1>1, RunInvariant, PTL

\* The search for the Golomb parameter of a run interruption ends (the ASSERT
\* of CContextRunMode::GetGolomb), for every magnitude of a 16-bit coder.
THEOREM RunSearchesEnd ==
    ASSUME RESET <= 255, Magnitude + 1 <= 2^24
    PROVE  Spec => []RunSearchEnds
<1>1. Inv => RunSearchEnds
  <2> SUFFICES ASSUME Inv PROVE RunSearchEnds
    OBVIOUS
  <2> DEFINE t == run.A + (run.N \div 2) * nRItype
  <2>1. /\ run.N \in Nat \ {0} /\ Magnitude \in Nat /\ t \in Int
        /\ t <= (Magnitude + 1) * run.N
    <3>1. /\ run.N \in Nat \ {0} /\ run.A \in Nat /\ nRItype \in {0, 1}
          /\ run.A <= Magnitude * run.N /\ Magnitude \in Nat
      BY InitialAssumption, ErrorAssumption
         DEF Inv, TypeOK, RunStatisticsBounded, Magnitude, Largest
    <3>. QED  BY <3>1, RunSearchBound
  <2>2. GetRunGolomb(run, nRItype) <= LeastShift(1, Magnitude + 1)
    <3> HIDE DEF t
    <3>1. LeastShift(run.N, t) <= LeastShift(1, Magnitude + 1)
      BY <2>1, LeastShiftOfMean
    <3>. QED  BY <3>1 DEF GetRunGolomb, t
  <2>3. LeastShift(1, Magnitude + 1) \in 0..24
    <3> DEFINE m == Magnitude + 1
               k == LeastShift(1, m)
    <3>1. m \in Int /\ 1 \in Nat \ {0}
      BY <2>1
    <3> HIDE DEF m
    <3>2. k \in 0..SearchNeverEnds /\ \A j \in 0..(k - 1) : 1 * 2^j < m
      BY <3>1, LeastShiftSearch, Zenon
    <3> HIDE DEF k
    <3>3. ASSUME k = SearchNeverEnds PROVE FALSE
      <4>1. 24 \in 0..(k - 1)
        BY <3>3 DEF SearchNeverEnds
      <4>2. 1 * 2^24 < m
        BY <3>2, <4>1
      <4>. QED  BY <3>1, <4>2 DEF m
    <3>. QED  BY <3>2, <3>3 DEF SearchNeverEnds, k, m
  <2>4. GetRunGolomb(run, nRItype) \in Int
    BY <2>1, LeastShiftSearch DEF GetRunGolomb, SearchNeverEnds
  <2>. QED  BY <2>2, <2>3, <2>4 DEF RunSearchEnds, SearchNeverEnds
<1>. QED  BY <1>1, RunInvariant, PTL
=============================================================================

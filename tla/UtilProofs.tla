----------------------------- MODULE UtilProofs -----------------------------
(***************************************************************************)
(* Lemmas on the operators of Util and PresetParameters, and on sets of    *)
(* natural numbers, that the proofs of the other modules cite.             *)
(***************************************************************************)
EXTENDS PresetParameters, SequencesExt, SequenceTheorems, WellFoundedInduction, TLAPS

\* A set of natural numbers that has an element has a least one.
LEMMA LeastElement ==
    ASSUME NEW S \in SUBSET Nat, S # {}
    PROVE  \E l \in S : \A m \in S : l <= m
<1>1. PICK l \in S : \A m \in S : <<m, l>> \notin OpToRel(<, Nat)
  BY NatLessThanWellFounded, WFMin
<1>2. OpToRel(<, Nat) = {p \in Nat \X Nat : p[1] < p[2]}
  BY Zenon DEF OpToRel
<1>3. ASSUME NEW m \in S PROVE ~(m < l)
  <2>1. <<m, l>> \notin {p \in Nat \X Nat : p[1] < p[2]}
    BY <1>1, <1>2, Zenon
  <2>. QED  BY <2>1
<1>. QED  BY <1>3

\* The search for a Golomb parameter returns the first k that ends it.
LEMMA LeastShiftSearch ==
    ASSUME NEW n \in Nat \ {0}, NEW a \in Int
    PROVE  LET k == LeastShift(n, a)
           IN  /\ k \in 0..SearchNeverEnds
               /\ k = SearchNeverEnds \/ n * 2^k >= a
               /\ \A j \in 0..(k - 1) : n * 2^j < a
<1> DEFINE Ends == {j \in 0..SearchNeverEnds :
                        j = SearchNeverEnds \/ n * 2^j >= a}
           P(j) == /\ j = SearchNeverEnds \/ n * 2^j >= a
                   /\ \A i \in 0..(j - 1) : n * 2^i < a
<1>1. Ends \in SUBSET Nat /\ Ends # {}
  BY DEF SearchNeverEnds
<1>2. PICK l \in Ends : \A m \in Ends : l <= m
  <2> HIDE DEF Ends
  <2>. QED  BY <1>1, LeastElement
<1>3. l \in 0..SearchNeverEnds /\ P(l)
  <2>1. ASSUME NEW j \in 0..(l - 1) PROVE n * 2^j < a
    <3>1. j \in 0..SearchNeverEnds /\ j \notin Ends
      BY <1>2 DEF SearchNeverEnds
    <3>2. n * 2^j \in Int
      BY <3>1 DEF SearchNeverEnds
    <3>. QED  BY <3>1, <3>2
  <2>. QED  BY <1>2, <2>1
<1>4. LeastShift(n, a) = CHOOSE j \in 0..SearchNeverEnds : P(j)
  BY DEF LeastShift
<1>5. LeastShift(n, a) \in 0..SearchNeverEnds /\ P(LeastShift(n, a))
  <2> HIDE DEF P
  <2>. QED  BY <1>3, <1>4
<1>. QED  BY <1>5

\* A sum of at most m per counted sample calls for no larger a parameter than
\* a single sample of magnitude m.
LEMMA LeastShiftOfMean ==
    ASSUME NEW n \in Nat \ {0}, NEW m \in Nat, NEW a \in Int, a <= m * n
    PROVE  LeastShift(n, a) <= LeastShift(1, m)
<1> DEFINE k == LeastShift(1, m)
           l == LeastShift(n, a)
<1>1. k \in 0..SearchNeverEnds /\ (k = SearchNeverEnds \/ 1 * 2^k >= m)
  BY LeastShiftSearch
<1>2. /\ l \in 0..SearchNeverEnds
      /\ \A j \in 0..(l - 1) : n * 2^j < a
  BY LeastShiftSearch
<1> HIDE DEF k, l
<1>3. SUFFICES ASSUME k < l PROVE FALSE
  BY <1>1, <1>2 DEF SearchNeverEnds, k, l
<1>4. k \in 0..(l - 1) /\ k # SearchNeverEnds
  BY <1>1, <1>2, <1>3 DEF SearchNeverEnds
<1>5. 2^k \in Int /\ 2^k >= m
  BY <1>1, <1>4 DEF SearchNeverEnds
<1>6. n * 2^k < a
  BY <1>2, <1>4
<1>7. n * 2^k >= n * m
  BY <1>5
<1>. QED  BY <1>5, <1>6, <1>7

\* A mean of at most m survives counting one more sample of magnitude at most
\* m, and survives the halving of the sum and of the count before it.
LEMMA MeanPreserved ==
    ASSUME NEW m \in Nat, NEW n \in Nat, NEW a \in Int, NEW d \in Int,
           a <= m * n, d <= m
    PROVE  /\ a + d <= m * (n + 1)
           /\ (a + d) \div 2 <= m * (n \div 2 + 1)
  OBVIOUS

\* clamp returns a value between its lower bound and the largest sample value,
\* when the two do not cross.
LEMMA ClampInRange ==
    ASSUME NEW i \in Int, NEW j \in Int, NEW m \in Int, j <= m
    PROVE  /\ Clamp(i, j, m) \in Int
           /\ j <= Clamp(i, j, m) /\ Clamp(i, j, m) <= m
BY DEF Clamp

\* NEAR stays below the largest sample value.
LEMMA NearBelowMaxval ==
    ASSUME NEW m \in Int, 1 <= m, NEW n \in 0..MaximumNearLossless(m)
    PROVE  n \in Int /\ n < m
BY DEF MaximumNearLossless, Smallest

\* The default thresholds are integers, in order between NEAR and the largest
\* sample value: each is an integer before it is clamped.
LEMMA DefaultsInOrder ==
    ASSUME NEW m \in Int, 1 <= m, NEW n \in Nat, n < m
    PROVE  LET t == ComputeDefault(m, n)
           IN  /\ t.T1 \in Int /\ t.T2 \in Int /\ t.T3 \in Int
               /\ n < t.T1 /\ t.T1 <= t.T2 /\ t.T2 <= t.T3 /\ t.T3 <= m
<1> DEFINE up   == (Smallest(m, 4095) + 128) \div 256
           down == 256 \div (m + 1)
           d1 == IF m >= 128 THEN up * (DefaultThreshold1 - 2) + 2 + 3 * n
                 ELSE Largest(2, DefaultThreshold1 \div down + 3 * n)
           d2 == IF m >= 128 THEN up * (DefaultThreshold2 - 3) + 3 + 5 * n
                 ELSE Largest(3, DefaultThreshold2 \div down + 5 * n)
           d3 == IF m >= 128 THEN up * (DefaultThreshold3 - 4) + 4 + 7 * n
                 ELSE Largest(4, DefaultThreshold3 \div down + 7 * n)
           T1 == Clamp(d1, n + 1, m)
           T2 == Clamp(d2, T1, m)
           T3 == Clamp(d3, T2, m)
<1>1. up \in Int
  BY DEF Smallest
<1>2. ASSUME m < 128 PROVE down \in Int /\ down >= 1
  BY <1>2
<1>3. d1 \in Int /\ d2 \in Int /\ d3 \in Int
  <2> HIDE DEF up, down
  <2>1. CASE m >= 128
    BY <1>1, <2>1 DEF d1, d2, d3, DefaultThreshold1, DefaultThreshold2, DefaultThreshold3
  <2>2. CASE m < 128
    <3>1. /\ 3 \div down \in Int /\ 7 \div down \in Int /\ 21 \div down \in Int
      BY <1>2, <2>2
    <3> QED
      BY <3>1, <2>2 DEF d1, d2, d3, Largest,
         DefaultThreshold1, DefaultThreshold2, DefaultThreshold3
  <2> QED  BY <2>1, <2>2
<1> HIDE DEF d1, d2, d3
<1>4. /\ T1 \in Int /\ T2 \in Int /\ T3 \in Int
      /\ n < T1 /\ T1 <= T2 /\ T2 <= T3 /\ T3 <= m
  <2>1. T1 \in Int /\ n + 1 <= T1 /\ T1 <= m
    BY <1>3, ClampInRange
  <2> HIDE DEF T1
  <2>2. T2 \in Int /\ T1 <= T2 /\ T2 <= m
    BY <2>1, <1>3, ClampInRange
  <2> HIDE DEF T2
  <2>3. T3 \in Int /\ T2 <= T3 /\ T3 <= m
    BY <2>2, <1>3, ClampInRange
  <2> HIDE DEF T3
  <2> QED  BY <2>1, <2>2, <2>3
<1>5. /\ ComputeDefault(m, n).T1 = T1
      /\ ComputeDefault(m, n).T2 = T2
      /\ ComputeDefault(m, n).T3 = T3
  BY DEF ComputeDefault, d1, d2, d3
<1> QED  BY <1>4, <1>5

\* Powers of two up to 2^31 are positive, and each is twice the one before.
LEMMA PowerStep ==
    ASSUME NEW j \in 0..30
    PROVE  2^j \in Nat \ {0} /\ 2^(j + 1) = 2 * 2^j
<1>1. /\ 2^0 \in Nat \ {0} /\ 2^1 \in Nat \ {0} /\ 2^2 \in Nat \ {0} /\ 2^3 \in Nat \ {0}
      /\ 2^4 \in Nat \ {0} /\ 2^5 \in Nat \ {0} /\ 2^6 \in Nat \ {0} /\ 2^7 \in Nat \ {0}
      /\ 2^8 \in Nat \ {0} /\ 2^9 \in Nat \ {0} /\ 2^10 \in Nat \ {0} /\ 2^11 \in Nat \ {0}
      /\ 2^12 \in Nat \ {0} /\ 2^13 \in Nat \ {0} /\ 2^14 \in Nat \ {0} /\ 2^15 \in Nat \ {0}
      /\ 2^16 \in Nat \ {0} /\ 2^17 \in Nat \ {0} /\ 2^18 \in Nat \ {0} /\ 2^19 \in Nat \ {0}
      /\ 2^20 \in Nat \ {0} /\ 2^21 \in Nat \ {0} /\ 2^22 \in Nat \ {0} /\ 2^23 \in Nat \ {0}
      /\ 2^24 \in Nat \ {0} /\ 2^25 \in Nat \ {0} /\ 2^26 \in Nat \ {0} /\ 2^27 \in Nat \ {0}
      /\ 2^28 \in Nat \ {0} /\ 2^29 \in Nat \ {0} /\ 2^30 \in Nat \ {0}
  OBVIOUS
<1>2. /\ 2^1 = 2 * 2^0 /\ 2^2 = 2 * 2^1 /\ 2^3 = 2 * 2^2 /\ 2^4 = 2 * 2^3
      /\ 2^5 = 2 * 2^4 /\ 2^6 = 2 * 2^5 /\ 2^7 = 2 * 2^6 /\ 2^8 = 2 * 2^7
      /\ 2^9 = 2 * 2^8 /\ 2^10 = 2 * 2^9 /\ 2^11 = 2 * 2^10 /\ 2^12 = 2 * 2^11
      /\ 2^13 = 2 * 2^12 /\ 2^14 = 2 * 2^13 /\ 2^15 = 2 * 2^14 /\ 2^16 = 2 * 2^15
      /\ 2^17 = 2 * 2^16 /\ 2^18 = 2 * 2^17 /\ 2^19 = 2 * 2^18 /\ 2^20 = 2 * 2^19
      /\ 2^21 = 2 * 2^20 /\ 2^22 = 2 * 2^21 /\ 2^23 = 2 * 2^22 /\ 2^24 = 2 * 2^23
      /\ 2^25 = 2 * 2^24 /\ 2^26 = 2 * 2^25 /\ 2^27 = 2 * 2^26 /\ 2^28 = 2 * 2^27
      /\ 2^29 = 2 * 2^28 /\ 2^30 = 2 * 2^29 /\ 2^31 = 2 * 2^30
  OBVIOUS
<1>3. \/ (j = 0 /\ j + 1 = 1) \/ (j = 1 /\ j + 1 = 2) \/ (j = 2 /\ j + 1 = 3)
      \/ (j = 3 /\ j + 1 = 4) \/ (j = 4 /\ j + 1 = 5) \/ (j = 5 /\ j + 1 = 6)
      \/ (j = 6 /\ j + 1 = 7) \/ (j = 7 /\ j + 1 = 8) \/ (j = 8 /\ j + 1 = 9)
      \/ (j = 9 /\ j + 1 = 10) \/ (j = 10 /\ j + 1 = 11) \/ (j = 11 /\ j + 1 = 12)
      \/ (j = 12 /\ j + 1 = 13) \/ (j = 13 /\ j + 1 = 14) \/ (j = 14 /\ j + 1 = 15)
      \/ (j = 15 /\ j + 1 = 16) \/ (j = 16 /\ j + 1 = 17) \/ (j = 17 /\ j + 1 = 18)
      \/ (j = 18 /\ j + 1 = 19) \/ (j = 19 /\ j + 1 = 20) \/ (j = 20 /\ j + 1 = 21)
      \/ (j = 21 /\ j + 1 = 22) \/ (j = 22 /\ j + 1 = 23) \/ (j = 23 /\ j + 1 = 24)
      \/ (j = 24 /\ j + 1 = 25) \/ (j = 25 /\ j + 1 = 26) \/ (j = 26 /\ j + 1 = 27)
      \/ (j = 27 /\ j + 1 = 28) \/ (j = 28 /\ j + 1 = 29) \/ (j = 29 /\ j + 1 = 30)
      \/ (j = 30 /\ j + 1 = 31)
  OBVIOUS
<1>. QED  BY <1>1, <1>2, <1>3, Zenon

\* A power of two divides every larger one an even number of times.
LEMMA PowerDivides ==
    ASSUME NEW i \in 0..30, NEW d \in (i + 1)..31
    PROVE  \E q \in Nat \ {0} : 2^d = 2 * q * 2^i
<1> DEFINE Holds(k) == \E q \in Nat \ {0} : 2^k = 2 * q * 2^i
           Fails == {k \in (i + 1)..31 : ~Holds(k)}
<1>1. SUFFICES ASSUME Fails # {} PROVE FALSE
  OBVIOUS
<1>2. Fails \in SUBSET Nat
  OBVIOUS
<1>3. PICK l \in Fails : \A m \in Fails : l <= m
  <2> HIDE DEF Fails
  <2>. QED  BY <1>1, <1>2, LeastElement
<1>4. l # i + 1
  <2>1. 2^(i + 1) = 2 * 2^i /\ 2^i \in Nat
    BY PowerStep
  <2>2. 2^(i + 1) = 2 * 1 * 2^i /\ 1 \in Nat \ {0}
    BY <2>1
  <2>3. Holds(i + 1)
    BY <2>2
  <2>. QED  BY <1>3, <2>3
<1>5. l - 1 \in (i + 1)..30 /\ l - 1 \notin Fails
  BY <1>3, <1>4
<1>6. PICK q \in Nat \ {0} : 2^(l - 1) = 2 * q * 2^i
  BY <1>5
<1>7. 2^l = 2 * 2^(l - 1) /\ 2^i \in Nat
  <2>1. (l - 1) + 1 = l /\ l - 1 \in 0..30
    BY <1>5
  <2>2. 2^((l - 1) + 1) = 2 * 2^(l - 1)
    BY <2>1, PowerStep
  <2>. QED  BY <2>1, <2>2, PowerStep
<1>8. 2^l = 2 * (2 * q) * 2^i /\ 2 * q \in Nat \ {0}
  BY <1>6, <1>7
<1>9. ~Holds(l)
  OBVIOUS
<1>. QED  BY <1>8, <1>9

\* Quotient and remainder are those of the multiple that is not above.
LEMMA DivisionAt ==
    ASSUME NEW m \in Nat \ {0}, NEW a \in Int, NEW q \in Int,
           0 <= a - q * m, a - q * m < m
    PROVE  a \div m = q /\ a % m = a - q * m
  OBVIOUS

\* A quotient is the last multiple that is not above.
LEMMA DivisionBounds ==
    ASSUME NEW a \in Nat, NEW m \in Nat \ {0}
    PROVE  /\ a \div m \in Nat
           /\ (a \div m) * m <= a /\ a < (a \div m) * m + m
  OBVIOUS

-----------------------------------------------------------------------------
(* Sequences joined one behind the other.                                  *)

\* What FlattenSeq computes from the front exists for any number of sequences.
LEMMA FlattenDefined ==
    ASSUME NEW S, NEW s \in Seq(Seq(S)), NEW n \in 1..Len(s)
    PROVE  \E f \in [1..n -> Seq(S)] :
               \A i \in 1..n : f[i] = IF i = 1 THEN s[i] ELSE f[i - 1] \o s[i]
<1> DEFINE Holds(k) == \E f \in [1..k -> Seq(S)] :
                           \A i \in 1..k : f[i] = IF i = 1 THEN s[i] ELSE f[i - 1] \o s[i]
           Fails == {k \in 1..Len(s) : ~Holds(k)}
<1>1. SUFFICES ASSUME Fails # {} PROVE FALSE
  OBVIOUS
<1>2. Fails \in SUBSET Nat
  OBVIOUS
<1>3. PICK l \in Fails : \A m \in Fails : l <= m
  <2> HIDE DEF Fails
  <2>. QED  BY <1>1, <1>2, LeastElement
<1>4. l # 1
  <2>1. ASSUME l = 1 PROVE FALSE
    <3> DEFINE f == [i \in 1..1 |-> s[i]]
    <3>1. f \in [1..l -> Seq(S)] /\ \A i \in 1..l : f[i] = s[i] /\ i = 1
      BY <2>1
    <3>. QED  BY <3>1
  <2>. QED  BY <2>1
<1>5. l \in 2..Len(s) /\ l - 1 \in 1..Len(s) /\ l - 1 \notin Fails
  <2> HIDE DEF Holds
  <2>1. l \in 1..Len(s)
    OBVIOUS
  <2>2. l \in 2..Len(s) /\ l - 1 \in 1..Len(s) /\ ~(l <= l - 1)
    BY <1>4, <2>1
  <2>. QED  BY <1>3, <2>2, Zenon
<1>6. PICK f \in [1..(l - 1) -> Seq(S)] :
          \A i \in 1..(l - 1) : f[i] = IF i = 1 THEN s[i] ELSE f[i - 1] \o s[i]
  BY <1>5
<1> DEFINE g == [i \in 1..l |-> IF i = l THEN f[l - 1] \o s[l] ELSE f[i]]
<1>7. g \in [1..l -> Seq(S)]
  <2>1. f[l - 1] \in Seq(S) /\ s[l] \in Seq(S)
    BY <1>5
  <2>2. f[l - 1] \o s[l] \in Seq(S)
    BY <2>1
  <2>. QED  BY <1>5, <2>2
<1>8. ASSUME NEW i \in 1..l
      PROVE  g[i] = IF i = 1 THEN s[i] ELSE g[i - 1] \o s[i]
  <2>1. CASE i = l
    <3>1. l - 1 \in 1..l /\ l - 1 # l /\ i # 1
      BY <1>5, <2>1
    <3>2. g[i] = f[l - 1] \o s[l] /\ g[l - 1] = f[l - 1]
      BY <2>1, <3>1
    <3>. QED  BY <2>1, <3>1, <3>2
  <2>2. CASE i # l
    <3>1. i \in 1..(l - 1) /\ g[i] = f[i]
      BY <1>5, <2>2
    <3>2. CASE i = 1
      BY <1>6, <3>1, <3>2
    <3>3. CASE i # 1
      <4>1. g[i - 1] = f[i - 1]
        BY <1>5, <3>1, <3>3
      <4>. QED  BY <1>6, <3>1, <3>3, <4>1
    <3>. QED  BY <3>2, <3>3
  <2>. QED  BY <2>1, <2>2
<1>9. Holds(l)
  <2> HIDE DEF g
  <2>. QED  BY <1>7, <1>8
<1>. QED  BY <1>9

\* f joins the first sequences of s, one after another, up to the n-th.
Joins(f, s, n) == \A i \in 1..n : f[i] = IF i = 1 THEN s[i] ELSE f[i - 1] \o s[i]

\* The recursion leaves no choice.
LEMMA FlattenUnique ==
    ASSUME NEW n \in Nat, NEW s, NEW f, Joins(f, s, n), NEW g, Joins(g, s, n)
    PROVE  \A i \in 1..n : f[i] = g[i]
<1> DEFINE Fails == {i \in 1..n : f[i] # g[i]}
<1>1. SUFFICES ASSUME Fails # {} PROVE FALSE
  OBVIOUS
<1>2. PICK l \in Fails : \A m \in Fails : l <= m
  <2>1. Fails \in SUBSET Nat
    OBVIOUS
  <2> HIDE DEF Fails
  <2>. QED  BY <1>1, <2>1, LeastElement
<1>3. CASE l = 1
  BY <1>3 DEF Joins
<1>4. CASE l # 1
  <2>1. l - 1 \in 1..n /\ l - 1 \notin Fails
    BY <1>2, <1>4
  <2>2. f[l - 1] = g[l - 1]
    BY <2>1
  <2>3. f[l] = f[l - 1] \o s[l] /\ g[l] = g[l - 1] \o s[l]
    BY <1>4 DEF Joins
  <2>. QED  BY <2>2, <2>3
<1>. QED  BY <1>3, <1>4

\* FlattenSeq takes the last of what it computes.
LEMMA FlattenValue ==
    ASSUME NEW S, NEW s \in Seq(Seq(S)), s # <<>>
    PROVE  \E f \in [1..Len(s) -> Seq(S)] :
               /\ \A i \in 1..Len(s) : f[i] = IF i = 1 THEN s[i] ELSE f[i - 1] \o s[i]
               /\ FlattenSeq(s) = f[Len(s)]
<1> DEFINE n == Len(s)
           Is(f) == f = [i \in 1..n |-> IF i = 1 THEN s[i] ELSE f[i - 1] \o s[i]]
           h == CHOOSE f : Is(f)
<1>1. n \in Nat \ {0} /\ n \in 1..Len(s)
  BY EmptySeq
<1>2. PICK g \in [1..n -> Seq(S)] :
          \A i \in 1..n : g[i] = IF i = 1 THEN s[i] ELSE g[i - 1] \o s[i]
  <2>1. \A m \in 1..Len(s) : \E g \in [1..m -> Seq(S)] :
            \A i \in 1..m : g[i] = IF i = 1 THEN s[i] ELSE g[i - 1] \o s[i]
    BY FlattenDefined
  <2> HIDE DEF n
  <2>. QED  BY <1>1, <2>1, Zenon
<1>3. Is(g)
  BY <1>2
<1>4. Is(h)
  <2> HIDE DEF Is
  <2>. QED  BY <1>3
<1>5. FlattenSeq(s) = h[n]
  BY <1>1 DEF FlattenSeq
<1>6. \A i \in 1..n : h[i] = IF i = 1 THEN s[i] ELSE h[i - 1] \o s[i]
  BY <1>4
<1> HIDE DEF n, h, Is
<1>7. \A i \in 1..n : g[i] = h[i]
  <2>1. Joins(g, s, n)
    BY <1>2 DEF Joins
  <2>2. Joins(h, s, n)
    BY <1>6 DEF Joins
  <2>. QED  BY <1>1, <2>1, <2>2, FlattenUnique
<1>8. FlattenSeq(s) = g[n]
  BY <1>1, <1>5, <1>7
<1>. QED  BY <1>2, <1>8 DEF n

\* A sequence more comes behind those before it.
LEMMA FlattenAppend ==
    ASSUME NEW S, NEW s \in Seq(Seq(S)), NEW c \in Seq(S)
    PROVE  /\ FlattenSeq(s) \in Seq(S)
           /\ FlattenSeq(Append(s, c)) = FlattenSeq(s) \o c
<1> DEFINE n == Len(s)
           u == Append(s, c)
<1>1. /\ n \in Nat /\ u \in Seq(Seq(S)) /\ u # <<>> /\ Len(u) = n + 1
      /\ u[n + 1] = c /\ \A i \in 1..n : u[i] = s[i]
  BY AppendProperties
<1> HIDE DEF u
<1>2. PICK g \in [1..(n + 1) -> Seq(S)] :
          /\ \A i \in 1..(n + 1) : g[i] = IF i = 1 THEN u[i] ELSE g[i - 1] \o u[i]
          /\ FlattenSeq(u) = g[n + 1]
  <2>1. \E g \in [1..Len(u) -> Seq(S)] :
            /\ \A i \in 1..Len(u) : g[i] = IF i = 1 THEN u[i] ELSE g[i - 1] \o u[i]
            /\ FlattenSeq(u) = g[Len(u)]
    BY <1>1, FlattenValue, Zenon
  <2>. QED  BY <1>1, <2>1, Zenon
<1>3. CASE s = <<>>
  <2>1. FlattenSeq(s) = <<>> /\ n = 0
    BY <1>3 DEF FlattenSeq
  <2>2. FlattenSeq(u) = c
    BY <1>1, <1>2, <2>1
  <2>. QED  BY <2>1, <2>2, ConcatEmptySeq, EmptySeq DEF u
<1>4. CASE s # <<>>
  <2>1. PICK f \in [1..n -> Seq(S)] :
            /\ \A i \in 1..n : f[i] = IF i = 1 THEN s[i] ELSE f[i - 1] \o s[i]
            /\ FlattenSeq(s) = f[n]
    BY <1>4, FlattenValue
  <2>2. n \in 1..n
    BY <1>4, EmptySeq
  <2>3. \A i \in 1..n : f[i] = g[i]
    <3> HIDE DEF n
    <3>1. n \in Nat /\ 1..n \subseteq 1..(n + 1)
      BY <1>1
    <3>2. Joins(g, u, n)
      BY <1>2, <3>1, Zenon DEF Joins
    <3>3. Joins(f, u, n)
      BY <1>1, <2>1 DEF Joins
    <3>4. ASSUME NEW F, NEW G, Joins(F, u, n), Joins(G, u, n)
          PROVE  \A i \in 1..n : F[i] = G[i]
      BY <3>1, <3>4, FlattenUnique
    <3>. QED  BY <3>2, <3>3, <3>4
  <2>4. g[n + 1] = g[n] \o c
    <3>1. n + 1 \in 1..(n + 1) /\ n + 1 # 1 /\ (n + 1) - 1 = n
      BY <1>1, <2>2
    <3>2. g[n + 1] = g[(n + 1) - 1] \o u[n + 1]
      BY <1>2, <3>1
    <3>. QED  BY <1>1, <3>1, <3>2
  <2>. QED  BY <1>2, <2>1, <2>2, <2>3, <2>4 DEF u
<1>. QED  BY <1>3, <1>4

\* f joins the first n sequences of t behind a.
JoinsBehind(f, a, t, n) == f[1] = a /\ \A i \in 1..n : f[i + 1] = f[i] \o t[i]
AllBehind(f, a, g, n)   == f[n + 1] = a \o g[n]

\* What is joined behind a sequence is the same as what is joined without it.
LEMMA JoinedBehind ==
    ASSUME NEW S, NEW n \in Nat \ {0}, NEW a \in Seq(S), NEW t, NEW f, NEW g,
           \A i \in 1..n : t[i] \in Seq(S) /\ g[i] \in Seq(S), Joins(g, t, n),
           JoinsBehind(f, a, t, n)
    PROVE  AllBehind(f, a, g, n)
<1> USE DEF JoinsBehind, AllBehind
<1> DEFINE Fails == {i \in 1..n : f[i + 1] # a \o g[i]}
<1>1. ASSUME Fails # {} PROVE FALSE
  <2>1. PICK l \in Fails : \A m \in Fails : l <= m
    <3>1. Fails \in SUBSET Nat
      OBVIOUS
    <3> HIDE DEF Fails
    <3>. QED  BY <1>1, <3>1, LeastElement
  <2>2. l \in 1..n /\ f[l + 1] # a \o g[l]
    OBVIOUS
  <2>3. \A m \in 1..n : m < l => f[m + 1] = a \o g[m]
    <3>1. ASSUME NEW m \in 1..n, m < l, m \in Fails PROVE FALSE
      <4> HIDE DEF Fails
      <4>. QED  BY <2>1, <2>2, <3>1
    <3>. QED  BY <3>1
  <2> HIDE DEF Fails
  <2>4. f[l + 1] = f[l] \o t[l] /\ t[l] \in Seq(S)
    BY <2>2
  <2>5. l # 1
    BY <2>2, <2>4 DEF Joins
  <2>6. l - 1 \in 1..n /\ l - 1 < l /\ l - 1 + 1 = l
    BY <2>2, <2>5
  <2>7. f[l] = a \o g[l - 1]
    BY <2>3, <2>6
  <2>8. g[l] = g[l - 1] \o t[l] /\ g[l - 1] \in Seq(S)
    BY <2>2, <2>5, <2>6 DEF Joins
  <2>9. (a \o g[l - 1]) \o t[l] = a \o (g[l - 1] \o t[l])
    <3>1. ASSUME NEW b \in Seq(S), NEW c \in Seq(S) PROVE (a \o b) \o c = a \o (b \o c)
      BY ConcatAssociative
    <3>. QED  BY <2>4, <2>8, <3>1
  <2>. QED  BY <2>2, <2>4, <2>7, <2>8, <2>9
<1>2. n \in 1..n
  OBVIOUS
<1>. QED  BY <1>1, <1>2

\* The first sequence comes before all others.
LEMMA FlattenFirst ==
    ASSUME NEW S, NEW s \in Seq(Seq(S)), s # <<>>
    PROVE  FlattenSeq(s) = Head(s) \o FlattenSeq(Tail(s))
<1> DEFINE n == Len(s)
           t == Tail(s)
<1>1. /\ n \in Nat \ {0} /\ s[1] \in Seq(S) /\ Head(s) = s[1]
      /\ t \in Seq(Seq(S)) /\ Len(t) = n - 1 /\ \A i \in 1..(n - 1) : t[i] = s[i + 1]
      /\ n \in 1..Len(s)
  BY EmptySeq
<1> HIDE DEF t
<1>2. PICK f \in [1..n -> Seq(S)] :
          /\ \A i \in 1..n : f[i] = IF i = 1 THEN s[i] ELSE f[i - 1] \o s[i]
          /\ FlattenSeq(s) = f[n]
  BY FlattenValue
<1> HIDE DEF n
<1>3. CASE n = 1
  <2>1. t = <<>> /\ FlattenSeq(t) = <<>>
    BY <1>1, <1>3, EmptySeq DEF FlattenSeq
  <2>2. FlattenSeq(s) = s[1]
    BY <1>2, <1>3
  <2>. QED  BY <1>1, <2>1, <2>2, ConcatEmptySeq DEF t
<1>4. CASE n # 1
  <2>1. t # <<>>
    BY <1>1, <1>4, EmptySeq
  <2>2. PICK g \in [1..(n - 1) -> Seq(S)] :
            /\ \A i \in 1..(n - 1) : g[i] = IF i = 1 THEN t[i] ELSE g[i - 1] \o t[i]
            /\ FlattenSeq(t) = g[n - 1]
    <3>1. \E g \in [1..Len(t) -> Seq(S)] :
              /\ \A i \in 1..Len(t) : g[i] = IF i = 1 THEN t[i] ELSE g[i - 1] \o t[i]
              /\ FlattenSeq(t) = g[Len(t)]
      BY <1>1, <2>1, FlattenValue, Zenon
    <3>. QED  BY <1>1, <3>1, Zenon
  <2>3. /\ n - 1 \in Nat \ {0} /\ n - 1 + 1 = n /\ 1 \in 1..n
        /\ \A i \in 1..(n - 1) : i + 1 \in 1..n /\ i + 1 # 1 /\ (i + 1) - 1 = i
    BY <1>1, <1>4
  <2>4. f[1] = s[1]
    BY <1>2, <2>3
  <2>5. ASSUME NEW i \in 1..(n - 1)
        PROVE  t[i] \in Seq(S) /\ g[i] \in Seq(S) /\ f[i + 1] = f[i] \o t[i]
    <3>1. t[i] \in Seq(S)
      BY <1>1, ElementOfSeq
    <3>2. i + 1 \in 1..n /\ i + 1 # 1 /\ (i + 1) - 1 = i /\ t[i] = s[i + 1]
      BY <1>1, <2>3
    <3>3. f[i + 1] = f[(i + 1) - 1] \o s[i + 1]
      BY <1>2, <3>2
    <3>. QED  BY <3>1, <3>2, <3>3
  <2>6. Joins(g, t, n - 1)
    BY <2>2, Zenon DEF Joins
  <2>7. f[n - 1 + 1] = s[1] \o g[n - 1]
    <3> DEFINE m == n - 1
               a == s[1]
    <3>1. a \in Seq(S) /\ f[1] = a
      BY <1>1, <2>4
    <3>2. m \in Nat \ {0} /\ Joins(g, t, m)
      BY <2>3, <2>6
    <3>3. \A i \in 1..m : t[i] \in Seq(S) /\ g[i] \in Seq(S)
      BY <2>5
    <3>4. JoinsBehind(f, a, t, m)
      BY <2>5, <3>1 DEF JoinsBehind
    <3> HIDE DEF m, a
    <3>5. AllBehind(f, a, g, m)
      BY <3>1, <3>2, <3>3, <3>4, JoinedBehind, Zenon
    <3>. QED  BY <3>5 DEF m, a, AllBehind
  <2>8. f[n] = s[1] \o g[n - 1]
    BY <2>3, <2>7
  <2>. QED  BY <1>1, <1>2, <2>2, <2>8 DEF t
<1>. QED  BY <1>3, <1>4
=============================================================================

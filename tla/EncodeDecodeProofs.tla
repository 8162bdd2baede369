-------------------------- MODULE EncodeDecodeProofs --------------------------
(***************************************************************************)
(* What the encoder writes, the decoder and the legacy functions read.     *)
(*                                                                         *)
(* EncoderInv says where the segments of the first encode stand, and that  *)
(* no later call touches them.  It holds of every use of an encoder.       *)
(* DecoderInv says what a reader of such a stream knows behind each        *)
(* segment, which call it is in, and that a call fails only where the      *)
(* stream could not be read: HeaderReadable and Decodable tell, of the     *)
(* settings and of where the encoder stopped, how far it can.  LegacyInv   *)
(* says the same of the functions, and what they have reported.  The last  *)
(* two are proved of a source in memory, read by one decoder that is not   *)
(* used again after a call that failed.                                    *)
(*                                                                         *)
(* The parts: sequences; the segments of one encode; the calls of the      *)
(* encoder; what the reader knows, call by call and segment by segment;    *)
(* the calls of the decoder; the theorems on EncodeDecode; the functions   *)
(* of LegacyInterface and the theorems on them.                            *)
(***************************************************************************)
EXTENDS LegacyInterface, UtilProofs, SequenceTheorems, FiniteSetTheorems, TLAPS

-----------------------------------------------------------------------------
(* Sequences of elements of any kind.                                      *)

IsSequence(s) == s \in Seq(Range(s))

\* A sequence of the elements of some set is one.
LEMMA SequenceOfSet ==
  ASSUME NEW S, NEW s \in Seq(S)
  PROVE  IsSequence(s)
BY SeqOfRange, Zenon DEF IsSequence

\* The domain of a sequence.
LEMMA DomainOfSequence ==
  ASSUME NEW s, IsSequence(s)
  PROVE  Len(s) \in Nat /\ DOMAIN s = 1..Len(s)
BY LenProperties, Zenon DEF IsSequence

\* A concatenation, element by element.
LEMMA Joined ==
  ASSUME NEW s, NEW t, IsSequence(s), IsSequence(t)
  PROVE  /\ IsSequence(s \o t)
         /\ Len(s \o t) = Len(s) + Len(t)
         /\ \A i \in 1..Len(s) : (s \o t)[i] = s[i]
         /\ \A i \in 1..Len(t) : (s \o t)[Len(s) + i] = t[i]
<1> DEFINE S == Range(s) \cup Range(t)
<1>1. s \in Seq(S) /\ t \in Seq(S)
  <2>1. s \in Seq(Range(s)) /\ t \in Seq(Range(t))
    BY Zenon DEF IsSequence
  <2>2. Range(s) \subseteq S /\ Range(t) \subseteq S
    OBVIOUS
  <2> QED  BY <2>1, <2>2, SeqMonotonic, Zenon
<1> HIDE DEF S
<1>2. /\ s \o t \in Seq(S)
      /\ Len(s \o t) = Len(s) + Len(t)
      /\ \A i \in 1..Len(s) + Len(t) :
           (s \o t)[i] = IF i <= Len(s) THEN s[i] ELSE t[i - Len(s)]
  BY <1>1, ConcatProperties, Zenon
<1>3. IsSequence(s \o t)
  BY <1>2, SequenceOfSet, Zenon
<1>4. Len(s) \in Nat /\ Len(t) \in Nat
  BY DomainOfSequence, Zenon
<1>5. ASSUME NEW i \in 1..Len(s) PROVE (s \o t)[i] = s[i]
  <2>1. i \in 1..Len(s) + Len(t) /\ i <= Len(s)
    BY <1>4
  <2> QED  BY <2>1, <1>2
<1>6. ASSUME NEW i \in 1..Len(t) PROVE (s \o t)[Len(s) + i] = t[i]
  <2>1. Len(s) + i \in 1..Len(s) + Len(t) /\ ~(Len(s) + i <= Len(s)) /\ Len(s) + i - Len(s) = i
    BY <1>4
  <2> QED  BY <2>1, <1>2
<1> QED  BY <1>2, <1>3, <1>5, <1>6, Zenon

\* A sequence of one element.
LEMMA Single ==
  ASSUME NEW x
  PROVE  IsSequence(<<x>>) /\ Len(<<x>>) = 1 /\ <<x>>[1] = x
<1>1. <<x>> \in Seq({x})
  OBVIOUS
<1>2. IsSequence(<<x>>)
  BY <1>1, SequenceOfSet, Zenon
<1>3. Len(<<x>>) = 1 /\ <<x>>[1] = x
  OBVIOUS
<1> QED  BY <1>2, <1>3

\* No element.
LEMMA Nothing == IsSequence(<<>>) /\ Len(<<>>) = 0
<1>1. IsSequence(<<>>)
  BY EmptySeq, SequenceOfSet, Zenon
<1>2. Len(<<>>) = 0
  BY EmptySeq, Zenon
<1> QED  BY <1>1, <1>2

\* The first elements of a sequence.
LEMMA Beginning ==
  ASSUME NEW s, IsSequence(s), NEW n \in 0..Len(s)
  PROVE  /\ IsSequence(SubSeq(s, 1, n)) /\ Len(SubSeq(s, 1, n)) = n
         /\ \A i \in 1..n : SubSeq(s, 1, n)[i] = s[i]
<1>1. s \in Seq(Range(s)) /\ Len(s) \in Nat
  BY DomainOfSequence, Zenon DEF IsSequence
<1>2. n \in Int /\ 1 \in Int
  OBVIOUS
<1>3. \A i \in 1..n : s[i] \in Range(s)
  BY <1>1, ElementOfSeq
<1> DEFINE S == Range(s)
<1>4. /\ SubSeq(s, 1, n) \in Seq(S)
      /\ Len(SubSeq(s, 1, n)) = IF 1 <= n THEN n - 1 + 1 ELSE 0
      /\ \A i \in 1..n - 1 + 1 : SubSeq(s, 1, n)[i] = s[1 + i - 1]
  <2> HIDE DEF S
  <2>1. \A i \in 1..n : s[i] \in S
    BY <1>3 DEF S
  <2>2. \A m \in Int, k \in Int :
          (\A i \in m..k : s[i] \in S) =>
            /\ SubSeq(s, m, k) \in Seq(S)
            /\ Len(SubSeq(s, m, k)) = IF m <= k THEN k - m + 1 ELSE 0
            /\ \A i \in 1..k - m + 1 : SubSeq(s, m, k)[i] = s[m + i - 1]
    BY SubSeqProperties
  <2> QED  BY <1>2, <2>1, <2>2
<1>5. Len(SubSeq(s, 1, n)) = n
  BY <1>4, <1>1
<1>6. \A i \in 1..n : SubSeq(s, 1, n)[i] = s[i]
  BY <1>4, <1>1
<1>7. IsSequence(SubSeq(s, 1, n))
  BY <1>4, SequenceOfSet, Zenon
<1> QED  BY <1>5, <1>6, <1>7

\* What is appended to a sequence is its last element.
LEMMA Appended ==
  ASSUME NEW s, NEW x, IsSequence(s)
  PROVE  /\ IsSequence(Append(s, x)) /\ Len(Append(s, x)) = Len(s) + 1
         /\ \A i \in 1..Len(s) : Append(s, x)[i] = s[i]
         /\ Append(s, x)[Len(s) + 1] = x
<1> DEFINE S == Range(s) \cup {x}
<1>1. s \in Seq(S) /\ x \in S
  <2>1. s \in Seq(Range(s)) /\ Range(s) \subseteq S /\ x \in S
    BY Zenon DEF IsSequence
  <2> QED  BY <2>1, SeqMonotonic, Zenon
<1> HIDE DEF S
<1>2. /\ Append(s, x) \in Seq(S) /\ Len(Append(s, x)) = Len(s) + 1
      /\ \A i \in 1..Len(s) : Append(s, x)[i] = s[i]
      /\ Append(s, x)[Len(s) + 1] = x
  BY <1>1, AppendProperties
<1> QED  BY <1>2, SequenceOfSet, Zenon

\* A concatenation can be regrouped.
LEMMA Regrouped ==
  ASSUME NEW s, NEW t, NEW u, IsSequence(s), IsSequence(t), IsSequence(u)
  PROVE  (s \o t) \o u = s \o (t \o u)
<1> DEFINE S == Range(s) \cup Range(t) \cup Range(u)
<1>1. s \in Seq(S) /\ t \in Seq(S) /\ u \in Seq(S)
  <2>1. s \in Seq(Range(s)) /\ t \in Seq(Range(t)) /\ u \in Seq(Range(u))
    BY Zenon DEF IsSequence
  <2>2. Range(s) \subseteq S /\ Range(t) \subseteq S /\ Range(u) \subseteq S
    OBVIOUS
  <2> QED  BY <2>1, <2>2, SeqMonotonic, Zenon
<1> HIDE DEF S
<1> QED  BY <1>1, ConcatAssociative

\* A concatenation of four parts is one of the first and the rest.
Regroups(s, t, u, v) == ((s \o t) \o u) \o v = s \o ((t \o u) \o v)

\* The first of four parts can be taken apart.
LEMMA RegroupedTwice ==
  ASSUME NEW s, NEW t, NEW u, NEW v,
         IsSequence(s), IsSequence(t), IsSequence(u), IsSequence(v)
  PROVE  Regroups(s, t, u, v)
<1> DEFINE w == t \o u
<1>1. (s \o t) \o u = s \o w /\ IsSequence(w)
  BY Regrouped, Joined
<1> HIDE DEF w
<1>2. (s \o w) \o v = s \o (w \o v)
  BY <1>1, Regrouped
<1> QED  BY <1>1, <1>2 DEF w, Regroups

-----------------------------------------------------------------------------
(* What encode writes.                                                     *)

\* Settings that an encode begins with.
IsImage(e) ==
  /\ e.frame \in [bits : 2..16, components : 1..255]
  /\ e.near \in Nat

\* The preset coding parameters that a reader of the stream knows.
WritesPreset(e) == ~IsDefault(e.preset) \/ e.frame.bits > 12

WrittenPreset(e) ==
  IF ~IsDefault(e.preset) THEN e.preset
  ELSE IF e.frame.bits > 12
  THEN ComputeDefault(CalculateMaximumSampleValue(e.frame.bits), e.near)
  ELSE NoPreset

\* The number of segments up to the transformation, of all before the first scan,
\* and of the scans.
UpToTransformation(e) == IF e.transformation = "none" THEN 2 ELSE 3
HeaderLength(e) == UpToTransformation(e) + (IF WritesPreset(e) THEN 1 ELSE 0)
ScanCount(e) == IF e.mode = "none" THEN e.frame.components ELSE 1
Length(e) == HeaderLength(e) + ScanCount(e) + 1

\* The b-th segment of a header that is written in state s.
InHeader(e, s, b, seg) ==
  /\ b = 1 => seg = IF s = "spiff_header" THEN ApplicationData8("endOfDirectory", "none")
                    ELSE Marker("SOI")
  /\ b = 2 => seg = StartOfFrame(e.frame)
  /\ (b = 3 /\ b <= UpToTransformation(e)) =>
       seg = ApplicationData8("transformation", e.transformation)
  /\ b = UpToTransformation(e) + 1 => seg = PresetSegment(WrittenPreset(e))

\* A start of scan that encode writes, or what fits of it.
InScans(e, seg) ==
  /\ seg.marker = "SOS"
  /\ seg.near = e.near % 256 /\ seg.mode = e.mode
  /\ seg.data \in ScanData /\ seg.defect \in {"none", "early"}

\* A scan all of whose samples were coded.
Coded(seg) == seg.marker = "SOS" /\ seg.data = "good" /\ seg.defect = "none"

\* The b-th segment that encode writes.
IsWritten(e, s, b, seg) ==
  /\ b <= HeaderLength(e) => InHeader(e, s, b, seg)
  /\ (b > HeaderLength(e) /\ b < Length(e)) => InScans(e, seg)
  /\ b = Length(e) => seg = Marker("EOI")

\* The segments t follow the first m that encode writes.
Written(e, s, m, t) ==
  /\ IsSequence(t)
  /\ m + Len(t) <= Length(e)
  /\ \A k \in 1..Len(t) : IsWritten(e, s, m + k, t[k])

\* Lengths are numbers.
LEMMA Lengths ==
  ASSUME NEW e, IsImage(e)
  PROVE  /\ UpToTransformation(e) \in 2..3 /\ HeaderLength(e) \in 2..4
         /\ HeaderLength(e) \in UpToTransformation(e)..(UpToTransformation(e) + 1)
         /\ ScanCount(e) \in Nat /\ ScanCount(e) >= 1 /\ Length(e) \in Nat
         /\ Length(e) = HeaderLength(e) + ScanCount(e) + 1
<1>1. UpToTransformation(e) \in 2..3
  BY DEF UpToTransformation
<1>2. HeaderLength(e) = UpToTransformation(e) \/ HeaderLength(e) = UpToTransformation(e) + 1
  BY <1>1 DEF HeaderLength
<1>3. e.frame.components \in 1..255
  BY DEF IsImage
<1>4. ScanCount(e) \in Nat /\ ScanCount(e) >= 1
  BY <1>3 DEF ScanCount
<1> QED  BY <1>1, <1>2, <1>4 DEF Length

\* What is written in two parts.
LEMMA WrittenInParts ==
  ASSUME NEW e, NEW s, NEW m \in Nat, NEW t, NEW u,
         Written(e, s, m, t), Written(e, s, m + Len(t), u)
  PROVE  /\ Written(e, s, m, t \o u) /\ Len(t \o u) = Len(t) + Len(u)
         /\ \A i \in 1..Len(t) : (t \o u)[i] = t[i]
         /\ \A i \in 1..Len(u) : (t \o u)[Len(t) + i] = u[i]
<1>1. IsSequence(t) /\ IsSequence(u)
  BY DEF Written
<1>2. Len(t) \in Nat /\ Len(u) \in Nat
  BY <1>1, DomainOfSequence
<1>3. /\ IsSequence(t \o u) /\ Len(t \o u) = Len(t) + Len(u)
      /\ \A i \in 1..Len(t) : (t \o u)[i] = t[i]
      /\ \A i \in 1..Len(u) : (t \o u)[Len(t) + i] = u[i]
  BY <1>1, Joined
<1>4. ASSUME NEW k \in 1..(Len(t) + Len(u)) PROVE IsWritten(e, s, m + k, (t \o u)[k])
  <2>1. CASE k <= Len(t)
    <3>1. k \in 1..Len(t)
      BY <2>1, <1>2
    <3> QED  BY <3>1, <1>3 DEF Written
  <2>2. CASE k > Len(t)
    <3>1. PICK i \in 1..Len(u) : k = Len(t) + i
      <4>1. k - Len(t) \in 1..Len(u) /\ k = Len(t) + (k - Len(t))
        BY <2>2, <1>2
      <4> QED  BY <4>1, Zenon
    <3>2. m + k = (m + Len(t)) + i
      BY <3>1, <1>2
    <3>3. IsWritten(e, s, (m + Len(t)) + i, u[i])
      BY DEF Written
    <3> QED  BY <3>1, <3>2, <3>3, <1>3
  <2> QED  BY <2>1, <2>2, <1>2
<1>5. m + (Len(t) + Len(u)) <= Length(e)
  <2>1. (m + Len(t)) + Len(u) <= Length(e)
    BY DEF Written
  <2>2. (m + Len(t)) + Len(u) = m + (Len(t) + Len(u))
    BY <1>2
  <2> QED  BY <2>1, <2>2
<1>6. Written(e, s, m, t \o u)
  BY <1>3, <1>4, <1>5 DEF Written
<1> QED  BY <1>3, <1>6

\* One segment in its place.
LEMMA WrittenOne ==
  ASSUME NEW e, NEW s, NEW m \in Nat, NEW seg, m + 1 <= Length(e), IsWritten(e, s, m + 1, seg)
  PROVE  Written(e, s, m, <<seg>>) /\ Len(<<seg>>) = 1
<1>1. IsSequence(<<seg>>) /\ Len(<<seg>>) = 1 /\ <<seg>>[1] = seg
  BY Single, Zenon
<1>2. \A k \in 1..1 : k = 1
  OBVIOUS
<1> DEFINE t == <<seg>>
<1> HIDE DEF t
<1>3. IsSequence(t) /\ Len(t) = 1 /\ t[1] = seg
  BY <1>1 DEF t
<1>4. Written(e, s, m, t)
  BY <1>2, <1>3 DEF Written
<1> QED  BY <1>3, <1>4 DEF t

\* No segment at all.
LEMMA WrittenNone ==
  ASSUME NEW e, NEW s, NEW m \in Nat, m <= Length(e)
  PROVE  Written(e, s, m, <<>>)
<1> DEFINE t == <<>>
<1>1. IsSequence(t) /\ Len(t) = 0
  BY Nothing
<1> HIDE DEF t
<1>2. m + Len(t) <= Length(e) /\ 1..Len(t) = {}
  BY <1>1
<1>3. Written(e, s, m, t)
  BY <1>1, <1>2 DEF Written
<1> QED  BY <1>3 DEF t

\* The first segments of what is written.
LEMMA WrittenBeginning ==
  ASSUME NEW e, NEW s, NEW m \in Nat, NEW t, IsImage(e), Written(e, s, m, t), NEW n \in 0..Len(t)
  PROVE  Written(e, s, m, SubSeq(t, 1, n)) /\ Len(SubSeq(t, 1, n)) = n
<1>1. IsSequence(t) /\ Len(t) \in Nat /\ m + Len(t) <= Length(e) /\ Length(e) \in Nat
  BY DomainOfSequence, Lengths DEF Written
<1>2. /\ IsSequence(SubSeq(t, 1, n)) /\ Len(SubSeq(t, 1, n)) = n
      /\ \A i \in 1..n : SubSeq(t, 1, n)[i] = t[i]
  BY <1>1, Beginning
<1>3. \A k \in 1..n : k \in 1..Len(t)
  BY <1>1
<1>4. \A k \in 1..n : IsWritten(e, s, m + k, SubSeq(t, 1, n)[k])
  BY <1>2, <1>3 DEF Written
<1>5. m + n <= Length(e)
  BY <1>1
<1> QED  BY <1>2, <1>4, <1>5 DEF Written

\* No segment of a header, nor the end, is a start of scan.
LEMMA ScansAreBetween ==
  ASSUME NEW e, NEW s, NEW b \in Nat, NEW seg, IsImage(e), b >= 1, b <= Length(e),
         IsWritten(e, s, b, seg), seg.marker = "SOS"
  PROVE  b > HeaderLength(e) /\ b < Length(e)
<1>1. /\ UpToTransformation(e) \in 2..3
      /\ HeaderLength(e) \in UpToTransformation(e)..(UpToTransformation(e) + 1)
      /\ Length(e) \in Nat /\ Length(e) > HeaderLength(e)
  BY Lengths
<1>2. b # Length(e)
  BY DEF IsWritten, Marker
<1>3. ASSUME b <= HeaderLength(e) PROVE FALSE
  <2>1. InHeader(e, s, b, seg)
    BY <1>3 DEF IsWritten
  <2>2. b # 1
    BY <2>1 DEF InHeader, ApplicationData8, Marker
  <2>3. b # 2
    BY <2>1 DEF InHeader, StartOfFrame
  <2>4. ~(b = 3 /\ b <= UpToTransformation(e))
    BY <2>1 DEF InHeader, ApplicationData8
  <2>5. b # UpToTransformation(e) + 1
    BY <2>1 DEF InHeader, PresetSegment
  <2> QED  BY <1>1, <1>3, <2>2, <2>3, <2>4, <2>5
<1> QED  BY <1>1, <1>2, <1>3

\* The header.
LEMMA HeaderIsWritten ==
  ASSUME NEW e, NEW s, IsImage(e)
  PROVE  Written(e, s, 0, Header(e, s)) /\ Len(Header(e, s)) = HeaderLength(e)
<1> DEFINE first == IF s = "spiff_header" THEN ApplicationData8("endOfDirectory", "none")
                    ELSE Marker("SOI")
           third == IF e.transformation = "none" THEN <<>>
                    ELSE <<ApplicationData8("transformation", e.transformation)>>
           u == UpToTransformation(e)
<1>1. /\ u \in 2..3 /\ HeaderLength(e) \in u..(u + 1) /\ Length(e) \in Nat
      /\ HeaderLength(e) + 2 <= Length(e)
  BY Lengths
<1>2. Start(s) = <<first>>
  BY DEF Start
<1>3. Written(e, s, 0, <<first>>) /\ Len(<<first>>) = 1
  <2>1. IsWritten(e, s, 0 + 1, first)
    BY <1>1 DEF IsWritten, InHeader
  <2>2. 0 + 1 <= Length(e)
    BY <1>1
  <2> HIDE DEF first
  <2> QED  BY <2>1, <2>2, WrittenOne
<1>4. Written(e, s, 1, <<StartOfFrame(e.frame)>>) /\ Len(<<StartOfFrame(e.frame)>>) = 1
  <2> DEFINE frame == StartOfFrame(e.frame)
  <2> HIDE DEF frame
  <2>1. IsWritten(e, s, 1 + 1, frame)
    BY <1>1 DEF IsWritten, InHeader, frame
  <2>2. 1 + 1 <= Length(e)
    BY <1>1
  <2>3. Written(e, s, 1, <<frame>>) /\ Len(<<frame>>) = 1
    BY <2>1, <2>2, WrittenOne
  <2> QED  BY <2>3 DEF frame
<1>5. Written(e, s, 2, third) /\ 2 + Len(third) = u
  <2>1. CASE e.transformation = "none"
    <3>1. third = <<>> /\ u = 2
      BY <2>1 DEF UpToTransformation
    <3>2. Written(e, s, 2, <<>>) /\ Len(<<>>) = 0
      BY <1>1, WrittenNone, Nothing
    <3> HIDE DEF third, u
    <3> QED  BY <3>1, <3>2
  <2>2. CASE e.transformation # "none"
    <3> DEFINE seg == ApplicationData8("transformation", e.transformation)
    <3>1. third = <<seg>> /\ u = 3
      BY <2>2 DEF UpToTransformation
    <3> HIDE DEF seg, third
    <3>2. IsWritten(e, s, 2 + 1, seg)
      BY <1>1, <3>1 DEF IsWritten, InHeader, seg
    <3>3. 2 + 1 <= Length(e)
      BY <1>1, <3>1
    <3>4. Written(e, s, 2, <<seg>>) /\ Len(<<seg>>) = 1
      BY <3>2, <3>3, WrittenOne
    <3> HIDE DEF u
    <3> QED  BY <3>1, <3>4
  <2> QED  BY <2>1, <2>2
<1>6. Written(e, s, u, PresetToWrite(e)) /\ u + Len(PresetToWrite(e)) = HeaderLength(e)
  <2>1. CASE ~WritesPreset(e)
    <3>1. PresetToWrite(e) = <<>> /\ HeaderLength(e) = u
      BY <2>1, <1>1 DEF PresetToWrite, WritesPreset, HeaderLength
    <3>2. Written(e, s, u, <<>>) /\ Len(<<>>) = 0
      <4> HIDE DEF u
      <4> QED  BY <1>1, WrittenNone, Nothing
    <3> HIDE DEF u
    <3> QED  BY <1>1, <3>1, <3>2
  <2>2. CASE WritesPreset(e)
    <3> DEFINE seg == PresetSegment(WrittenPreset(e))
    <3>1. PresetToWrite(e) = <<seg>>
      BY <2>2, Zenon DEF PresetToWrite, WritesPreset, WrittenPreset
    <3>2. HeaderLength(e) = u + 1
      BY <2>2 DEF HeaderLength
    <3> HIDE DEF seg
    <3>3. IsWritten(e, s, u + 1, seg)
      BY <1>1, <3>2 DEF IsWritten, InHeader, seg
    <3> HIDE DEF u
    <3>4. u \in Nat /\ u + 1 <= Length(e)
      BY <1>1, <3>2
    <3>5. Written(e, s, u, <<seg>>) /\ Len(<<seg>>) = 1
      BY <3>3, <3>4, WrittenOne
    <3> QED  BY <3>1, <3>2, <3>5
  <2> QED  BY <2>1, <2>2
<1> DEFINE frame == <<StartOfFrame(e.frame)>>
           one == <<first>>
<1>7. /\ Written(e, s, 0, one \o frame) /\ Len(one \o frame) = 2
  <2> HIDE DEF frame, one
  <2>1. 0 + Len(one) = 1
    BY <1>3 DEF one
  <2>2. Written(e, s, 0, one) /\ Written(e, s, 0 + Len(one), frame) /\ 0 \in Nat
    BY <2>1, <1>3, <1>4 DEF one, frame
  <2>3. Written(e, s, 0, one \o frame) /\ Len(one \o frame) = Len(one) + Len(frame)
    BY <2>2, WrittenInParts
  <2> QED  BY <2>3, <1>3, <1>4 DEF one, frame
<1> DEFINE two == one \o frame
<1>8. Written(e, s, 0, two \o third) /\ Len(two \o third) = u
  <2>1. Written(e, s, 0, two) /\ Len(two) = 2
    BY <1>7
  <2> HIDE DEF two, third, u
  <2>2. Written(e, s, 0 + Len(two), third) /\ 0 \in Nat
    <3>1. 0 + Len(two) = 2
      BY <2>1
    <3> QED  BY <3>1, <1>5
  <2>3. Written(e, s, 0, two) /\ Written(e, s, 0 + Len(two), third) /\ 0 \in Nat
    BY <2>1, <2>2
  <2>4. Written(e, s, 0, two \o third) /\ Len(two \o third) = Len(two) + Len(third)
    BY <2>3, WrittenInParts
  <2> QED  BY <2>1, <2>4, <1>5
<1> DEFINE three == two \o third
           last == PresetToWrite(e)
<1>9. Written(e, s, 0, three \o last) /\ Len(three \o last) = HeaderLength(e)
  <2>1. Written(e, s, 0, three) /\ Len(three) = u
    BY <1>8
  <2>2. Written(e, s, u, last) /\ u + Len(last) = HeaderLength(e)
    BY <1>6
  <2> HIDE DEF three, last, u
  <2>3. Written(e, s, 0 + Len(three), last) /\ 0 \in Nat
    <3>1. 0 + Len(three) = u
      BY <2>1, <1>1
    <3> QED  BY <3>1, <2>2
  <2>4. Written(e, s, 0, three \o last) /\ Len(three \o last) = Len(three) + Len(last)
    BY <2>1, <2>3, WrittenInParts
  <2> QED  BY <2>1, <2>2, <2>4
<1>10. Header(e, s) = three \o last
  BY <1>2, Zenon DEF Header
<1> QED  BY <1>9, <1>10, Zenon

\* A start of scan, when it was coded, when not, and when it did not fit.
LEMMA ScanIsWritten ==
  ASSUME NEW e, NEW first, NEW count
  PROVE  LET scan == StartOfScan(e, first, count)
         IN  /\ InScans(e, scan) /\ Coded(scan)
             /\ InScans(e, [scan EXCEPT !.data = "bad"])
             /\ ~Coded([scan EXCEPT !.data = "bad"])
             /\ InScans(e, [scan EXCEPT !.defect = "early"])
BY DEF StartOfScan, InScans, Coded, ScanData

\* The scans.
LEMMA ScansAreWritten ==
  ASSUME NEW e, NEW s, NEW first, IsImage(e)
  PROVE  LET scans == Scans(e, first)
         IN  /\ Written(e, s, HeaderLength(e), scans) /\ Len(scans) = ScanCount(e)
             /\ \A k \in 1..ScanCount(e) :
                  \E f, n : scans[k] = StartOfScan(e, f, n)
<1> DEFINE scans == Scans(e, first)
<1>1. /\ HeaderLength(e) \in Nat /\ ScanCount(e) \in Nat /\ ScanCount(e) >= 1
      /\ Length(e) = HeaderLength(e) + ScanCount(e) + 1
  BY Lengths
<1>2. IsSequence(scans) /\ Len(scans) = ScanCount(e)
  <2>1. CASE e.mode = "none"
    <3> DEFINE n == e.frame.components
               f == [k \in 1..n |-> StartOfScan(e, first + k - 1, 1)]
    <3>1. n \in Nat /\ scans = f /\ ScanCount(e) = n
      BY <2>1, <1>1 DEF Scans, ScanCount
    <3>2. f \in Seq({f[k] : k \in 1..n}) /\ Len(f) = n
      <4> HIDE DEF n
      <4>1. f \in [1..n -> {f[k] : k \in 1..n}]
        OBVIOUS
      <4>2. DOMAIN f = 1..n
        OBVIOUS
      <4> HIDE DEF f
      <4> QED  BY <3>1, <4>1, <4>2
    <3> HIDE DEF f, n
    <3> QED  BY <3>1, <3>2, SequenceOfSet
  <2>2. CASE e.mode # "none"
    <3> DEFINE x == StartOfScan(e, first, e.frame.components)
    <3>1. scans = <<x>> /\ ScanCount(e) = 1
      BY <2>2 DEF Scans, ScanCount
    <3> HIDE DEF x, scans
    <3> QED  BY <3>1, Single
  <2> QED  BY <2>1, <2>2
<1>3. ASSUME NEW k \in 1..ScanCount(e) PROVE \E f, n : scans[k] = StartOfScan(e, f, n)
  <2>1. CASE e.mode = "none"
    <3>1. k \in 1..e.frame.components
      BY <2>1 DEF ScanCount
    <3>2. scans[k] = StartOfScan(e, first + k - 1, 1)
      BY <2>1, <3>1 DEF Scans
    <3> QED  BY <3>2
  <2>2. CASE e.mode # "none"
    <3>1. k = 1
      BY <2>2 DEF ScanCount
    <3>2. scans[k] = StartOfScan(e, first, e.frame.components)
      BY <2>2, <3>1 DEF Scans
    <3> QED  BY <3>2
  <2> QED  BY <2>1, <2>2
<1> HIDE DEF scans
<1>4. ASSUME NEW k \in 1..ScanCount(e)
      PROVE  IsWritten(e, s, HeaderLength(e) + k, scans[k])
  <2>1. InScans(e, scans[k])
    <3>1. PICK f, n : scans[k] = StartOfScan(e, f, n)
      BY <1>3
    <3>2. InScans(e, StartOfScan(e, f, n))
      BY ScanIsWritten
    <3> QED  BY <3>1, <3>2
  <2>2. ~(HeaderLength(e) + k <= HeaderLength(e)) /\ HeaderLength(e) + k # Length(e)
    BY <1>1
  <2> QED  BY <2>1, <2>2 DEF IsWritten
<1>5. HeaderLength(e) + Len(scans) <= Length(e)
  BY <1>1, <1>2
<1>6. Written(e, s, HeaderLength(e), scans)
  BY <1>2, <1>4, <1>5 DEF Written
<1> QED  BY <1>2, <1>3, <1>6 DEF scans

-----------------------------------------------------------------------------
(* The calls of encode.                                                    *)

\* What a call of encode adds to the stream: it ends with the end of the image,
\* with a scan that was not coded, or where the destination is full.
Adds(e, s, t, done, full) ==
  /\ Written(e, s, 0, t)
  /\ full \/ \E k \in 1..Len(t) : k > HeaderLength(e) /\ ~Coded(t[k])
  /\ done =>
       /\ Len(t) = Length(e) /\ ~ScanIsRefused(e)
       /\ \A k \in (HeaderLength(e) + 1)..(Length(e) - 1) : Coded(t[k])

\* The writer has its members, and segments.
WriterFits ==
  /\ writer = [componentId |-> writer.componentId, full |-> writer.full,
               segments |-> writer.segments]
  /\ writer.componentId \in Nat /\ writer.full \in BOOLEAN
  /\ IsSequence(writer.segments)

\* A call of encode, whatever becomes of it.
Encodes ==
  /\ CanEncode
  /\ \E done \in BOOLEAN : \E t :
       /\ Adds(encoder, state, t, done, writer'.full)
       /\ writer'.segments = writer.segments \o t
       /\ Attempted(done)
  /\ WriterFits'
  /\ UNCHANGED <<encoder, state>>

\* The whole image: header, scans and end.
LEMMA ImageIsWritten ==
  ASSUME NEW e, NEW s, NEW first, IsImage(e)
  PROVE  LET body == (Header(e, s) \o Scans(e, first)) \o <<Marker("EOI")>>
         IN  /\ Written(e, s, 0, body) /\ Len(body) = Length(e)
             /\ \A k \in 1..ScanCount(e) : body[HeaderLength(e) + k] = Scans(e, first)[k]
             /\ body[Length(e)] = Marker("EOI")
<1> DEFINE h == Header(e, s)
           scans == Scans(e, first)
           end == <<Marker("EOI")>>
<1>1. /\ HeaderLength(e) \in Nat /\ ScanCount(e) \in Nat /\ ScanCount(e) >= 1
      /\ Length(e) = HeaderLength(e) + ScanCount(e) + 1
  BY Lengths
<1>2. Written(e, s, 0, h) /\ Len(h) = HeaderLength(e)
  BY HeaderIsWritten
<1>3. Written(e, s, HeaderLength(e), scans) /\ Len(scans) = ScanCount(e)
  BY ScansAreWritten
<1>4. Written(e, s, HeaderLength(e) + ScanCount(e), end) /\ Len(end) = 1 /\ end[1] = Marker("EOI")
  <2> DEFINE seg == Marker("EOI")
  <2>1. IsWritten(e, s, HeaderLength(e) + ScanCount(e) + 1, seg)
    BY <1>1 DEF IsWritten
  <2> HIDE DEF seg
  <2>2. HeaderLength(e) + ScanCount(e) + 1 <= Length(e) /\ HeaderLength(e) + ScanCount(e) \in Nat
    BY <1>1
  <2>3. Written(e, s, HeaderLength(e) + ScanCount(e), <<seg>>) /\ Len(<<seg>>) = 1 /\ <<seg>>[1] = seg
    BY <2>1, <2>2, WrittenOne
  <2> QED  BY <2>3 DEF seg
<1> HIDE DEF h, scans, end
<1>5. /\ Written(e, s, 0, h \o scans) /\ Len(h \o scans) = HeaderLength(e) + ScanCount(e)
      /\ \A k \in 1..ScanCount(e) : (h \o scans)[HeaderLength(e) + k] = scans[k]
  <2>1. 0 + Len(h) = HeaderLength(e) /\ 0 \in Nat
    BY <1>1, <1>2
  <2>2. Written(e, s, 0, h) /\ Written(e, s, 0 + Len(h), scans)
    BY <1>2, <1>3, <2>1
  <2>3. /\ Written(e, s, 0, h \o scans) /\ Len(h \o scans) = Len(h) + Len(scans)
        /\ \A i \in 1..Len(scans) : (h \o scans)[Len(h) + i] = scans[i]
    BY <2>1, <2>2, WrittenInParts
  <2> QED  BY <2>3, <1>2, <1>3
<1> DEFINE most == h \o scans
<1> HIDE DEF most
<1>6. /\ Written(e, s, 0, most \o end) /\ Len(most \o end) = Len(most) + Len(end)
      /\ \A i \in 1..Len(most) : (most \o end)[i] = most[i]
      /\ \A i \in 1..Len(end) : (most \o end)[Len(most) + i] = end[i]
  <2>1. 0 + Len(most) = HeaderLength(e) + ScanCount(e) /\ 0 \in Nat
    BY <1>1, <1>5 DEF most
  <2>2. Written(e, s, 0, most) /\ Written(e, s, 0 + Len(most), end)
    BY <1>4, <1>5, <2>1 DEF most
  <2> QED  BY <2>1, <2>2, WrittenInParts
<1>7. Len(most) = HeaderLength(e) + ScanCount(e)
  BY <1>5 DEF most
<1>8. Len(most \o end) = Length(e) /\ (most \o end)[Length(e)] = Marker("EOI")
  <2>1. 1 \in 1..Len(end) /\ Len(most) + 1 = Length(e)
    BY <1>1, <1>4, <1>7
  <2> QED  BY <2>1, <1>1, <1>4, <1>6, <1>7
<1>9. \A k \in 1..ScanCount(e) : (most \o end)[HeaderLength(e) + k] = scans[k]
  <2>1. ASSUME NEW k \in 1..ScanCount(e) PROVE (most \o end)[HeaderLength(e) + k] = scans[k]
    <3>1. HeaderLength(e) + k \in 1..Len(most)
      BY <1>1, <1>7
    <3>2. most[HeaderLength(e) + k] = scans[k]
      BY <1>5 DEF most
    <3> QED  BY <3>1, <3>2, <1>6
  <2> QED  BY <2>1
<1> QED  BY <1>6, <1>8, <1>9 DEF most, h, scans, end

\* An encode that returns.
LEMMA EncodeAdds ==
  ASSUME WriterFits, encoder.frame # NoFrame => IsImage(encoder), Encode
  PROVE  Encodes
<1> DEFINE e == encoder
           h == Header(e, state)
           scans == Scans(e, writer.componentId)
           end == <<Marker("EOI")>>
           t == (h \o scans) \o end
<1>1. CanEncode /\ ~ScanIsRefused(e) /\ UNCHANGED <<encoder, state>> /\ Attempted(TRUE)
  BY DEF Encode
<1>2. IsImage(e)
  BY <1>1 DEF CanEncode
<1>3. /\ Written(e, state, 0, t) /\ Len(t) = Length(e) /\ t[Length(e)] = Marker("EOI")
      /\ \A k \in 1..ScanCount(e) : t[HeaderLength(e) + k] = scans[k]
  <2> DEFINE first == writer.componentId
  <2> HIDE DEF first
  <2>1. LET body == (Header(e, state) \o Scans(e, first)) \o <<Marker("EOI")>>
         IN  /\ Written(e, state, 0, body) /\ Len(body) = Length(e)
             /\ \A k \in 1..ScanCount(e) : body[HeaderLength(e) + k] = Scans(e, first)[k]
             /\ body[Length(e)] = Marker("EOI")
    BY <1>2, ImageIsWritten
  <2> QED  BY <2>1, Zenon DEF first
<1>4. /\ HeaderLength(e) \in Nat /\ ScanCount(e) \in Nat /\ ScanCount(e) >= 1
      /\ Length(e) = HeaderLength(e) + ScanCount(e) + 1
  BY <1>2, Lengths
<1>5. IsSequence(h) /\ IsSequence(scans) /\ IsSequence(end) /\ IsSequence(t)
  BY <1>2, <1>3, HeaderIsWritten, ScansAreWritten, Single DEF Written
<1>6. /\ writer'.segments = ((writer.segments \o h) \o scans) \o end
      /\ writer'.full = writer.full
      /\ writer' = [componentId |-> writer.componentId + e.frame.components,
                    full |-> writer.full, segments |-> writer'.segments]
  BY DEF Encode, WriterFits
<1>7. writer'.segments = writer.segments \o t
  <2>1. IsSequence(writer.segments)
    BY DEF WriterFits
  <2>2. IsSequence(h) /\ IsSequence(scans) /\ IsSequence(end)
    BY <1>5
  <2> DEFINE segments == writer.segments
  <2>3. IsSequence(segments)
    BY <2>1
  <2> HIDE DEF h, scans, end, segments
  <2>4. Regroups(segments, h, scans, end)
    BY <2>2, <2>3, RegroupedTwice, Zenon
  <2> QED  BY <2>4, <1>6 DEF segments, Regroups
<1>8. WriterFits'
  <2>1. IsSequence(writer'.segments)
    <3>1. IsSequence(writer.segments)
      BY DEF WriterFits
    <3> HIDE DEF t
    <3> QED  BY <1>5, <1>7, <3>1, Joined
  <2>2. writer.componentId + e.frame.components \in Nat /\ writer.full \in BOOLEAN
    BY <1>2 DEF WriterFits, IsImage
  <2> QED  BY <1>6, <2>1, <2>2 DEF WriterFits
<1> HIDE DEF t, scans
<1>9. Adds(e, state, t, TRUE, writer'.full)
  <2>1. \E k \in 1..Len(t) : k > HeaderLength(e) /\ ~Coded(t[k])
    <3>1. Length(e) \in 1..Len(t) /\ Length(e) > HeaderLength(e)
      BY <1>3, <1>4
    <3>2. ~Coded(t[Length(e)])
      BY <1>3 DEF Coded, Marker
    <3> QED  BY <3>1, <3>2
  <2>2. ASSUME NEW k \in (HeaderLength(e) + 1)..(Length(e) - 1) PROVE Coded(t[k])
    <3>1. k - HeaderLength(e) \in 1..ScanCount(e) /\ HeaderLength(e) + (k - HeaderLength(e)) = k
      BY <1>4
    <3>2. t[k] = scans[k - HeaderLength(e)]
      BY <1>3, <3>1
    <3>3. PICK f, n : scans[k - HeaderLength(e)] = StartOfScan(e, f, n)
      BY <3>1, <1>2, ScansAreWritten DEF scans
    <3>4. Coded(StartOfScan(e, f, n))
      BY ScanIsWritten
    <3> QED  BY <3>2, <3>3, <3>4
  <2> QED  BY <1>1, <1>3, <2>1, <2>2 DEF Adds
<1> QED  BY <1>1, <1>7, <1>8, <1>9 DEF Encodes

\* An encode that fails in a scan.
LEMMA FailingScanAdds ==
  ASSUME WriterFits, encoder.frame # NoFrame => IsImage(encoder), EncodeFailsInScan
  PROVE  Encodes
<1> DEFINE e == encoder
           scans == Scans(e, writer.componentId)
<1>1. CanEncode /\ UNCHANGED <<encoder, state>> /\ Attempted(FALSE)
  BY DEF EncodeFailsInScan
<1>2. IsImage(e)
  BY <1>1 DEF CanEncode
<1>3. /\ HeaderLength(e) \in Nat /\ ScanCount(e) \in Nat /\ ScanCount(e) >= 1
      /\ Length(e) = HeaderLength(e) + ScanCount(e) + 1
  BY <1>2, Lengths
<1>4. PICK k \in DOMAIN scans :
        writer' = [writer EXCEPT
          !.componentId = @ + ComponentsIn(encoder, k),
          !.segments = @ \o Header(encoder, state) \o SubSeq(scans, 1, k - 1)
                         \o <<[scans[k] EXCEPT !.data = "bad"]>>]
  BY DEF EncodeFailsInScan
<1> DEFINE h == Header(e, state)
           good == SubSeq(scans, 1, k - 1)
           bad == [scans[k] EXCEPT !.data = "bad"]
           end == <<bad>>
           t == (h \o good) \o end
<1>5. Written(e, state, 0, h) /\ Len(h) = HeaderLength(e)
  BY <1>2, HeaderIsWritten
<1>6. /\ Written(e, state, HeaderLength(e), scans) /\ Len(scans) = ScanCount(e)
      /\ \A i \in 1..ScanCount(e) : \E f, n : scans[i] = StartOfScan(e, f, n)
  BY <1>2, ScansAreWritten
<1>7. k \in Nat /\ k >= 1 /\ k <= ScanCount(e)
  <2>1. DOMAIN scans = 1..ScanCount(e)
    BY <1>6, DomainOfSequence DEF Written
  <2> HIDE DEF scans
  <2> QED  BY <2>1, <1>3, <1>4
<1>8. InScans(e, bad) /\ ~Coded(bad)
  <2>1. PICK f, n : scans[k] = StartOfScan(e, f, n)
    BY <1>3, <1>6, <1>7
  <2> HIDE DEF scans
  <2> QED  BY <2>1, ScanIsWritten
<1>9. Written(e, state, HeaderLength(e), good) /\ Len(good) = k - 1
  <2>1. k - 1 \in 0..Len(scans)
    BY <1>3, <1>6, <1>7
  <2> HIDE DEF scans
  <2> QED  BY <2>1, <1>2, <1>3, <1>6, WrittenBeginning
<1>10. Written(e, state, HeaderLength(e) + (k - 1), end) /\ Len(end) = 1 /\ end[1] = bad
  <2> HIDE DEF bad
  <2>1. /\ ~((HeaderLength(e) + (k - 1)) + 1 <= HeaderLength(e))
        /\ (HeaderLength(e) + (k - 1)) + 1 # Length(e)
        /\ (HeaderLength(e) + (k - 1)) + 1 <= Length(e)
        /\ HeaderLength(e) + (k - 1) \in Nat
    BY <1>3, <1>7
  <2>2. IsWritten(e, state, (HeaderLength(e) + (k - 1)) + 1, bad)
    BY <1>8, <2>1 DEF IsWritten
  <2>3. Written(e, state, HeaderLength(e) + (k - 1), <<bad>>) /\ Len(<<bad>>) = 1
    BY <2>1, <2>2, WrittenOne
  <2> QED  BY <2>3, Single
<1>11. IsSequence(h) /\ IsSequence(good) /\ IsSequence(end)
  BY <1>5, <1>9, <1>10 DEF Written
<1>12. Written(e, state, 0, h \o good) /\ Len(h \o good) = HeaderLength(e) + (k - 1)
  <2> HIDE DEF h, good
  <2>1. 0 + Len(h) = HeaderLength(e) /\ 0 \in Nat
    BY <1>3, <1>5
  <2>2. Written(e, state, 0, h) /\ Written(e, state, 0 + Len(h), good)
    BY <1>5, <1>9, <2>1
  <2>3. Written(e, state, 0, h \o good) /\ Len(h \o good) = Len(h) + Len(good)
    BY <2>1, <2>2, WrittenInParts
  <2> QED  BY <2>3, <1>5, <1>9
<1> DEFINE most == h \o good
<1>13. /\ Written(e, state, 0, t) /\ Len(t) = Len(most) + 1
       /\ t[Len(most) + 1] = bad
  <2>1. Written(e, state, 0, most) /\ Len(most) = HeaderLength(e) + (k - 1)
    BY <1>12
  <2> HIDE DEF most, end, bad
  <2>2. Written(e, state, 0 + Len(most), end) /\ 0 \in Nat
    <3>1. 0 + Len(most) = HeaderLength(e) + (k - 1)
      BY <2>1, <1>3, <1>7
    <3> QED  BY <3>1, <1>10
  <2>3. Written(e, state, 0, most)
    BY <2>1
  <2>4. /\ Written(e, state, 0, most \o end) /\ Len(most \o end) = Len(most) + Len(end)
        /\ \A i \in 1..Len(end) : (most \o end)[Len(most) + i] = end[i]
    BY <2>2, <2>3, WrittenInParts
  <2>5. 1 \in 1..Len(end)
    BY <1>10
  <2> QED  BY <2>4, <2>5, <1>10 DEF most
<1>14. /\ writer'.segments = ((writer.segments \o h) \o good) \o end
       /\ writer'.full = writer.full
       /\ writer' = [componentId |-> writer.componentId + ComponentsIn(e, k),
                     full |-> writer.full, segments |-> writer'.segments]
  BY <1>4 DEF WriterFits
<1>15. writer'.segments = writer.segments \o t
  <2> DEFINE segments == writer.segments
  <2>1. IsSequence(segments)
    BY DEF WriterFits
  <2> HIDE DEF h, good, end, segments
  <2>2. Regroups(segments, h, good, end)
    BY <2>1, <1>11, RegroupedTwice, Zenon
  <2> QED  BY <2>2, <1>14 DEF segments, Regroups
<1>16. WriterFits'
  <2>1. IsSequence(writer'.segments)
    <3>1. IsSequence(writer.segments) /\ IsSequence(t)
      BY <1>13 DEF WriterFits, Written
    <3> HIDE DEF t
    <3> QED  BY <1>15, <3>1, Joined
  <2>2. writer.componentId + ComponentsIn(e, k) \in Nat /\ writer.full \in BOOLEAN
    BY <1>2, <1>7 DEF WriterFits, IsImage, ComponentsIn
  <2>3. writer'.componentId = writer.componentId + ComponentsIn(e, k) /\ writer'.full = writer.full
    BY <1>14
  <2>4. writer' = [componentId |-> writer'.componentId, full |-> writer'.full,
                   segments |-> writer'.segments]
    BY <1>14, <2>3, Zenon
  <2> QED  BY <2>1, <2>2, <2>3, <2>4 DEF WriterFits
<1>17. Adds(e, state, t, FALSE, writer'.full)
  <2>1. Len(most) + 1 > HeaderLength(e) /\ Len(most) + 1 \in 1..(Len(most) + 1)
    BY <1>3, <1>7, <1>12
  <2> HIDE DEF most, t, bad
  <2>2. \E i \in 1..Len(t) : i > HeaderLength(e) /\ ~Coded(t[i])
    BY <2>1, <1>8, <1>13
  <2> QED  BY <2>2, <1>13 DEF Adds
<1> QED  BY <1>1, <1>15, <1>16, <1>17 DEF Encodes

\* An encode that fills the destination.
LEMMA FullDestinationAdds ==
  ASSUME WriterFits, encoder.frame # NoFrame => IsImage(encoder), EncodeRunsFull
  PROVE  Encodes
<1> DEFINE e == encoder
           scans == Scans(e, writer.componentId)
           body == (Header(e, state) \o scans) \o <<Marker("EOI")>>
<1>1. CanEncode /\ UNCHANGED <<encoder, state>> /\ Attempted(FALSE)
  BY DEF EncodeRunsFull
<1>2. IsImage(e)
  BY <1>1 DEF CanEncode
<1>3. /\ HeaderLength(e) \in Nat /\ ScanCount(e) \in Nat /\ ScanCount(e) >= 1
      /\ Length(e) = HeaderLength(e) + ScanCount(e) + 1
  BY <1>2, Lengths
<1>4. /\ Written(e, state, 0, body) /\ Len(body) = Length(e)
      /\ \A k \in 1..ScanCount(e) : body[HeaderLength(e) + k] = scans[k]
  <2> DEFINE first == writer.componentId
  <2> HIDE DEF first
  <2>1. LET image == (Header(e, state) \o Scans(e, first)) \o <<Marker("EOI")>>
        IN  /\ Written(e, state, 0, image) /\ Len(image) = Length(e)
            /\ \A k \in 1..ScanCount(e) : image[HeaderLength(e) + k] = Scans(e, first)[k]
            /\ image[Length(e)] = Marker("EOI")
    BY <1>2, ImageIsWritten
  <2> QED  BY <2>1, Zenon DEF first
<1>5a. PICK n \in 1..Len(body) : \E rest \in Rest(body[n]) :
         writer' = [writer EXCEPT !.full = TRUE,
                                  !.segments = @ \o SubSeq(body, 1, n - 1) \o rest]
  BY Zenon DEF EncodeRunsFull
<1>5. PICK rest \in Rest(body[n]) :
        writer' = [writer EXCEPT !.full = TRUE,
                                 !.segments = @ \o SubSeq(body, 1, n - 1) \o rest]
  BY <1>5a, Zenon
<1> DEFINE seg == body[n]
           some == SubSeq(body, 1, n - 1)
<1>6. n \in Nat /\ n >= 1 /\ n <= Length(e)
  BY <1>3, <1>4, <1>5
<1>7. IsWritten(e, state, n, seg)
  <2>1. IsWritten(e, state, 0 + n, body[n])
    BY <1>4, <1>5 DEF Written
  <2>2. 0 + n = n
    BY <1>6
  <2> HIDE DEF body
  <2> QED  BY <2>1, <2>2
<1>8. Written(e, state, n - 1, rest)
  <2>1. CASE rest = <<>>
    <3>1. n - 1 \in Nat /\ n - 1 <= Length(e)
      BY <1>3, <1>6
    <3>2. Written(e, state, n - 1, <<>>)
      BY <3>1, WrittenNone
    <3> QED  BY <2>1, <3>2
  <2>2. CASE rest # <<>>
    <3>1. seg.marker = "SOS" /\ rest = <<[seg EXCEPT !.defect = "early"]>>
      <4> HIDE DEF body
      <4> QED  BY <1>5, <2>2 DEF Rest
    <3>2. n > HeaderLength(e) /\ n < Length(e)
      <4> HIDE DEF body
      <4> QED  BY <3>1, <1>2, <1>6, <1>7, ScansAreBetween
    <3>3. PICK f, c : seg = StartOfScan(e, f, c)
      <4>1. n - HeaderLength(e) \in 1..ScanCount(e) /\ HeaderLength(e) + (n - HeaderLength(e)) = n
        BY <3>2, <1>3, <1>6
      <4>2. seg = scans[n - HeaderLength(e)]
        <5> HIDE DEF body, scans
        <5> QED  BY <4>1, <1>4
      <4>3. \E f, c : scans[n - HeaderLength(e)] = StartOfScan(e, f, c)
        BY <4>1, <1>2, ScansAreWritten
      <4> HIDE DEF body, scans
      <4> QED  BY <4>2, <4>3
    <3> DEFINE early == [seg EXCEPT !.defect = "early"]
    <3>4. InScans(e, early)
      <4>1. InScans(e, [StartOfScan(e, f, c) EXCEPT !.defect = "early"])
        BY ScanIsWritten
      <4> HIDE DEF seg
      <4> QED  BY <4>1, <3>3
    <3> HIDE DEF early
    <3>5. /\ (n - 1) + 1 = n /\ n - 1 \in Nat
      BY <1>6
    <3>6. IsWritten(e, state, (n - 1) + 1, early)
      <4>1. ~(n <= HeaderLength(e)) /\ n # Length(e)
        BY <1>3, <1>6, <3>2
      <4> QED  BY <4>1, <3>4, <3>5 DEF IsWritten
    <3>7. Written(e, state, n - 1, <<early>>)
      BY <3>5, <3>6, <1>6, WrittenOne
    <3> QED  BY <3>1, <3>7 DEF early
  <2> QED  BY <2>1, <2>2
<1>9. Written(e, state, 0, some) /\ Len(some) = n - 1
  <2>1. n - 1 \in 0..Len(body) /\ 0 \in Nat
    BY <1>3, <1>4, <1>6
  <2> HIDE DEF body
  <2> QED  BY <2>1, <1>2, <1>4, WrittenBeginning
<1> DEFINE t == some \o rest
<1>10. Written(e, state, 0, t)
  <2> HIDE DEF some
  <2>1. 0 + Len(some) = n - 1 /\ 0 \in Nat
    BY <1>6, <1>9
  <2>2. Written(e, state, 0, some) /\ Written(e, state, 0 + Len(some), rest)
    BY <1>8, <1>9, <2>1
  <2> QED  BY <2>1, <2>2, WrittenInParts
<1>11. /\ writer'.segments = (writer.segments \o some) \o rest
       /\ writer'.full = TRUE
       /\ writer' = [componentId |-> writer.componentId,
                     full |-> TRUE, segments |-> writer'.segments]
  <2> HIDE DEF body
  <2> QED  BY <1>5 DEF WriterFits
<1>12. writer'.segments = writer.segments \o t
  <2> DEFINE segments == writer.segments
  <2>1. IsSequence(segments) /\ IsSequence(some) /\ IsSequence(rest)
    BY <1>8, <1>9 DEF WriterFits, Written
  <2> HIDE DEF some, segments
  <2>2. (segments \o some) \o rest = segments \o (some \o rest)
    BY <2>1, Regrouped
  <2> QED  BY <2>2, <1>11 DEF segments
<1>13. WriterFits'
  <2>1. IsSequence(writer'.segments)
    <3>1. IsSequence(writer.segments) /\ IsSequence(t)
      BY <1>10 DEF WriterFits, Written
    <3> HIDE DEF t
    <3> QED  BY <1>12, <3>1, Joined
  <2>2. writer'.componentId = writer.componentId
    BY <1>11
  <2>3. writer' = [componentId |-> writer'.componentId, full |-> writer'.full,
                   segments |-> writer'.segments]
    BY <1>11, <2>2, Zenon
  <2>4. writer.componentId \in Nat
    BY DEF WriterFits
  <2> QED  BY <1>11, <2>1, <2>2, <2>3, <2>4 DEF WriterFits
<1>14. Adds(e, state, t, FALSE, writer'.full)
  <2> HIDE DEF t
  <2> QED  BY <1>10, <1>11 DEF Adds
<1> QED  BY <1>1, <1>12, <1>13, <1>14 DEF Encodes

-----------------------------------------------------------------------------
(* The invariant of the encoder.                                           *)

\* The settings are an image's once the frame is set.
EncoderFits ==
  /\ encoder = [frame |-> encoder.frame, mode |-> encoder.mode, near |-> encoder.near,
                preset |-> encoder.preset, transformation |-> encoder.transformation]
  /\ encoder.frame = NoFrame \/ encoder.frame \in [bits : 2..16, components : 1..255]
  /\ encoder.near \in Nat

Markers == {"SOI", "APP8", "SOF", "LSE", "SOS", "EOI"}

SegmentsMarked == \A i \in 1..Len(writer.segments) : writer.segments[i].marker \in Markers

AttemptsFit ==
  /\ IsSequence(attempts)
  /\ \A i \in 1..Len(attempts) :
       IsImage(attempts[i].settings) /\ attempts[i].first \in Nat /\ attempts[i].first >= 1

\* The first n segments are the beginning of a SPIFF directory.
Directory(segments, n) ==
  /\ n >= 2 /\ n <= Len(segments)
  /\ segments[1] = Marker("SOI")
  /\ segments[2] = ApplicationData8("spiff", "none")
  /\ \A i \in 3..n : segments[i] = ApplicationData8("entry", "none")

\* Before the first encode there is a SPIFF directory or nothing.
BeforeFirst ==
  IF state = "spiff_header" THEN Directory(writer.segments, Len(writer.segments))
  ELSE writer.full \/ writer.segments = <<>>

\* The segments in front of the first encode, up to its first scan, and up to
\* its last.
Prefix == First.first - 1
HeaderEnd == Prefix + HeaderLength(settings)
ScansEnd == HeaderEnd + ScanCount(settings)
StateOfFirst == IF Prefix = 0 THEN "destination_set" ELSE "spiff_header"

\* The scans up to segment i were coded.
CodedTo(i) == \A j \in (HeaderEnd + 1)..i : Coded(writer.segments[j])

\* As long as the scans were coded, what follows is what encode writes.
WrittenByFirst ==
  /\ Prefix \in Nat /\ Prefix <= Len(writer.segments)
  /\ Prefix = 0 \/ Directory(writer.segments, Prefix)
  /\ \A i \in (Prefix + 1)..Len(writer.segments) :
       CodedTo(i - 1) =>
         /\ i <= ScansEnd + 1
         /\ IsWritten(settings, StateOfFirst, i - Prefix, writer.segments[i])

\* A scan that was not coded, or the end of the image, comes before segment n.
StopsBefore(n) ==
  \E j \in (HeaderEnd + 1)..(ScansEnd + 1) : j < n /\ ~Coded(writer.segments[j])

\* Nothing is written behind the first image as if it belonged to it.
SecondIsBehind ==
  /\ writer.full \/ StopsBefore(Len(writer.segments) + 1)
  /\ Len(attempts) > 1 =>
       StopsBefore(attempts[2].first) /\ attempts[2].first <= Len(writer.segments) + 1

\* Scans before the second encode are those of the first.
ScansAreOfFirst ==
  \A i \in 1..Len(writer.segments) :
    /\ writer.segments[i].marker = "SOS"
    /\ Len(attempts) > 1 => i < attempts[2].first
    => i > HeaderEnd /\ i <= ScansEnd

\* An encode that returned has coded all its scans.
DoneIsComplete ==
  First.done =>
    /\ ScansEnd < Len(writer.segments) /\ CodedTo(ScansEnd) /\ ~ScanIsRefused(settings)

FirstInv == WrittenByFirst /\ SecondIsBehind /\ ScansAreOfFirst /\ DoneIsComplete

EncoderInv ==
  /\ EncoderFits /\ WriterFits /\ SegmentsMarked /\ AttemptsFit
  /\ state \in {"initial", "destination_set", "spiff_header"}
  /\ attempts = <<>> => BeforeFirst
  /\ attempts # <<>> => FirstInv

\* The settings of the first encode are an image's.
LEMMA SettingsAreAnImage ==
  ASSUME AttemptsFit, attempts # <<>>
  PROVE  /\ IsImage(settings) /\ Prefix \in Nat
         /\ HeaderEnd \in Nat /\ ScansEnd \in Nat
         /\ Prefix + 2 <= HeaderEnd /\ HeaderEnd < ScansEnd
         /\ HeaderEnd = Prefix + HeaderLength(settings)
         /\ ScansEnd + 1 = Prefix + Length(settings)
<1>1. Len(attempts) \in Nat /\ Len(attempts) >= 1
  <2>1. attempts \in Seq(Range(attempts))
    BY DEF AttemptsFit, IsSequence
  <2>2. Len(attempts) \in Nat \ {0}
    BY <2>1, EmptySeq
  <2> QED  BY <2>2
<1>2. IsImage(settings) /\ First.first \in Nat /\ First.first >= 1
  BY <1>1 DEF AttemptsFit, First, settings
<1>3. /\ HeaderLength(settings) \in 2..4 /\ ScanCount(settings) \in Nat
      /\ ScanCount(settings) >= 1
      /\ Length(settings) = HeaderLength(settings) + ScanCount(settings) + 1
  BY <1>2, Lengths
<1>4. Prefix \in Nat
  BY <1>2 DEF Prefix
<1>5. /\ HeaderEnd = Prefix + HeaderLength(settings)
      /\ ScansEnd = (Prefix + HeaderLength(settings)) + ScanCount(settings)
  BY Zenon DEF HeaderEnd, ScansEnd
<1> QED  BY <1>2, <1>3, <1>4, <1>5

\* The markers that encode writes.
LEMMA WrittenMarkers ==
  ASSUME NEW e, NEW s, NEW b \in Nat, NEW seg, IsImage(e), b >= 1, b <= Length(e),
         IsWritten(e, s, b, seg)
  PROVE  seg.marker \in Markers
<1>1. /\ UpToTransformation(e) \in 2..3
      /\ HeaderLength(e) \in UpToTransformation(e)..(UpToTransformation(e) + 1)
      /\ Length(e) \in Nat /\ Length(e) > HeaderLength(e)
  BY Lengths
<1>2. CASE b <= HeaderLength(e)
  <2>1. InHeader(e, s, b, seg)
    BY <1>2 DEF IsWritten
  <2>2. CASE b = 1
    BY <2>1, <2>2 DEF InHeader, ApplicationData8, Marker, Markers
  <2>3. CASE b = 2
    BY <2>1, <2>3 DEF InHeader, StartOfFrame, Markers
  <2>4. CASE b = 3 /\ b <= UpToTransformation(e)
    BY <2>1, <2>4 DEF InHeader, ApplicationData8, Markers
  <2>5. CASE b = UpToTransformation(e) + 1
    BY <2>1, <2>5 DEF InHeader, PresetSegment, Markers
  <2> QED  BY <1>1, <1>2, <2>2, <2>3, <2>4, <2>5
<1>3. CASE b > HeaderLength(e) /\ b < Length(e)
  BY <1>3 DEF IsWritten, InScans, Markers
<1>4. CASE b = Length(e)
  BY <1>4 DEF IsWritten, Marker, Markers
<1> QED  BY <1>1, <1>2, <1>3, <1>4

\* What is written behind the first image leaves the invariant of the first.
LEMMA WrittenBehind ==
  ASSUME WriterFits, AttemptsFit, FirstInv, ~writer.full,
         attempts # <<>>, attempts' # <<>>, First' = First,
         NEW t, IsSequence(t), writer'.segments = writer.segments \o t,
         \/ /\ Len(attempts') > 1
            /\ IF Len(attempts) > 1 THEN attempts'[2].first = attempts[2].first
               ELSE attempts'[2].first = Len(writer.segments) + 1
         \/ /\ UNCHANGED attempts
            /\ \A k \in 1..Len(t) : t[k].marker # "SOS"
  PROVE  FirstInv'
<1> DEFINE S == writer.segments
           n == Len(S)
<1>1. /\ n \in Nat /\ Len(t) \in Nat /\ Len(writer'.segments) = n + Len(t)
      /\ \A i \in 1..n : writer'.segments[i] = S[i]
      /\ \A i \in 1..Len(t) : writer'.segments[n + i] = t[i]
  BY DomainOfSequence, Joined DEF WriterFits
<1>2. /\ Prefix \in Nat /\ HeaderEnd \in Nat /\ ScansEnd \in Nat
      /\ Prefix + 2 <= HeaderEnd /\ HeaderEnd < ScansEnd
  BY SettingsAreAnImage
<1>3. /\ Prefix' = Prefix /\ HeaderEnd' = HeaderEnd /\ ScansEnd' = ScansEnd
      /\ settings' = settings /\ StateOfFirst' = StateOfFirst /\ First.done' = First.done
  BY DEF Prefix, HeaderEnd, ScansEnd, settings, StateOfFirst
<1>4. PICK j \in (HeaderEnd + 1)..(ScansEnd + 1) : j < n + 1 /\ ~Coded(S[j])
  BY DEF FirstInv, SecondIsBehind, StopsBefore
<1>5. j \in 1..n /\ ~Coded(writer'.segments[j])
  BY <1>1, <1>2, <1>4
<1> HIDE DEF S, n
<1>6. WrittenByFirst'
  <2>1. Prefix \in Nat /\ Prefix <= n + Len(t)
    BY <1>1 DEF FirstInv, WrittenByFirst, n, S
  <2>2. Prefix = 0 \/ Directory(writer'.segments, Prefix)
    <3>1. Prefix = 0 \/ Directory(S, Prefix)
      BY DEF FirstInv, WrittenByFirst, S
    <3>2. ASSUME Directory(S, Prefix) PROVE Directory(writer'.segments, Prefix)
      <4>1. Prefix >= 2 /\ Prefix <= n
        BY <3>2 DEF Directory, n
      <4>2. 1 \in 1..n /\ 2 \in 1..n /\ \A i \in 3..Prefix : i \in 1..n
        BY <4>1, <1>1, <1>2
      <4>3. /\ writer'.segments[1] = S[1] /\ writer'.segments[2] = S[2]
            /\ \A i \in 3..Prefix : writer'.segments[i] = S[i]
        BY <4>2, <1>1
      <4>4. /\ S[1] = Marker("SOI") /\ S[2] = ApplicationData8("spiff", "none")
            /\ \A i \in 3..Prefix : S[i] = ApplicationData8("entry", "none")
        BY <3>2, Zenon DEF Directory
      <4>5. Prefix >= 2 /\ Prefix <= Len(writer'.segments)
        BY <4>1, <1>1, <1>2
      <4> QED  BY <4>3, <4>4, <4>5, Zenon DEF Directory
    <3> QED  BY <3>1, <3>2
  <2>3. ASSUME NEW i \in (Prefix + 1)..(n + Len(t)), CodedTo(i - 1)'
        PROVE  /\ i <= ScansEnd + 1
               /\ IsWritten(settings, StateOfFirst, i - Prefix, writer'.segments[i])
    <3>1. \A k \in (HeaderEnd + 1)..(i - 1) : Coded(writer'.segments[k])
      BY <2>3, <1>3 DEF CodedTo
    <3>2. i <= n
      BY <1>1, <1>2, <1>4, <1>5, <3>1
    <3>3. CodedTo(i - 1)
      <4>1. \A k \in (HeaderEnd + 1)..(i - 1) : writer'.segments[k] = S[k]
        BY <1>1, <1>2, <3>2
      <4> QED  BY <3>1, <4>1 DEF CodedTo, S
    <3>4. i \in (Prefix + 1)..n
      BY <1>1, <1>2, <3>2
    <3>5. writer'.segments[i] = S[i]
      BY <1>1, <1>2, <3>4
    <3> QED  BY <3>3, <3>4, <3>5 DEF FirstInv, WrittenByFirst, S, n
  <2> QED  BY <2>1, <2>2, <2>3, <1>1, <1>3 DEF WrittenByFirst
<1>7. SecondIsBehind'
  <2>1. StopsBefore(Len(writer.segments) + 1)'
    BY <1>1, <1>3, <1>4, <1>5 DEF StopsBefore
  <2>2. ASSUME Len(attempts') > 1
        PROVE  StopsBefore(attempts[2].first)' /\ attempts'[2].first <= n + Len(t) + 1
    <3>1. CASE Len(attempts) > 1
      <4>1. attempts'[2].first = attempts[2].first
        BY <3>1, <2>2
      <4>2. StopsBefore(attempts[2].first) /\ attempts[2].first <= n + 1 /\ attempts[2].first \in Nat
        BY <3>1 DEF FirstInv, SecondIsBehind, n, S, AttemptsFit
      <4>3. PICK k \in (HeaderEnd + 1)..(ScansEnd + 1) : k < attempts[2].first /\ ~Coded(S[k])
        BY <4>2 DEF StopsBefore, S
      <4>4. ~Coded(writer'.segments[k])
        <5>1. k \in 1..n
          BY <4>2, <4>3, <1>1, <1>2
        <5> QED  BY <5>1, <4>3, <1>1
      <4>5. StopsBefore(attempts[2].first)'
        BY <4>1, <4>3, <4>4, <1>3 DEF StopsBefore
      <4> QED  BY <4>1, <4>2, <4>5, <1>1
    <3>2. CASE ~(Len(attempts) > 1)
      <4>1. attempts'[2].first = n + 1
        BY <3>2, <2>2 DEF n, S
      <4>2. StopsBefore(attempts[2].first)'
        BY <4>1, <1>3, <1>4, <1>5 DEF StopsBefore
      <4> QED  BY <4>1, <4>2, <1>1
    <3> QED  BY <3>1, <3>2
  <2> QED  BY <2>1, <2>2, <1>1 DEF SecondIsBehind
<1>8. ScansAreOfFirst'
  <2>1. ASSUME NEW i \in 1..(n + Len(t)), writer'.segments[i].marker = "SOS",
               Len(attempts') > 1 => i < attempts'[2].first
        PROVE  i > HeaderEnd /\ i <= ScansEnd
    <3>1. CASE i <= n
      <4>1. i \in 1..n /\ S[i].marker = "SOS"
        BY <3>1, <2>1, <1>1
      <4>2. Len(attempts) > 1 => i < attempts[2].first
        BY <2>1
      <4> QED  BY <4>1, <4>2 DEF FirstInv, ScansAreOfFirst, S, n
    <3>2. CASE i > n
      <4>1. i - n \in 1..Len(t) /\ n + (i - n) = i
        BY <3>2, <1>1
      <4>2. t[i - n].marker = "SOS"
        BY <4>1, <2>1, <1>1
      <4>3. Len(attempts') > 1
            /\ IF Len(attempts) > 1 THEN attempts'[2].first = attempts[2].first
               ELSE attempts'[2].first = n + 1
        BY <4>1, <4>2 DEF n, S
      <4>4. Len(attempts) > 1 => attempts[2].first <= n + 1 /\ attempts[2].first \in Nat
        BY DEF FirstInv, SecondIsBehind, n, S, AttemptsFit
      <4> QED  BY <4>3, <4>4, <2>1, <3>2, <1>1
    <3> QED  BY <3>1, <3>2, <1>1
  <2> QED  BY <2>1, <1>1, <1>3 DEF ScansAreOfFirst
<1>9. DoneIsComplete'
  <2>1. ASSUME First.done
        PROVE  /\ ScansEnd < n + Len(t) /\ ~ScanIsRefused(settings)
               /\ \A k \in (HeaderEnd + 1)..ScansEnd : Coded(writer'.segments[k])
    <3>1. ScansEnd < n /\ CodedTo(ScansEnd) /\ ~ScanIsRefused(settings)
      BY <2>1 DEF FirstInv, DoneIsComplete, n, S
    <3>2. \A k \in (HeaderEnd + 1)..ScansEnd : k \in 1..n
      BY <3>1, <1>1, <1>2
    <3> QED  BY <3>1, <3>2, <1>1, <1>2 DEF CodedTo, S
  <2> QED  BY <2>1, <1>1, <1>3 DEF DoneIsComplete, CodedTo
<1> QED  BY <1>6, <1>7, <1>8, <1>9 DEF FirstInv

\* What a call of encode adds to the records, and that the markers are known.
LEMMA EncodesAppends ==
  ASSUME EncoderInv, Encodes
  PROVE  /\ IsImage(encoder) /\ ~writer.full /\ state # "initial"
         /\ SegmentsMarked' /\ AttemptsFit'
         /\ attempts' # <<>> /\ Len(attempts') = Len(attempts) + 1
         /\ attempts # <<>> => First' = First
         /\ attempts'[Len(attempts) + 1].settings = encoder
         /\ attempts'[Len(attempts) + 1].first = Len(writer.segments) + 1
         /\ Len(attempts) > 1 => attempts'[2] = attempts[2]
<1>1. IsImage(encoder) /\ ~writer.full /\ state # "initial"
  BY DEF EncoderInv, EncoderFits, Encodes, CanEncode, IsImage
<1>2a. PICK done \in BOOLEAN : \E t :
         /\ Adds(encoder, state, t, done, writer'.full)
         /\ writer'.segments = writer.segments \o t
         /\ Attempted(done)
  BY DEF Encodes
<1>2. PICK t :
        /\ Adds(encoder, state, t, done, writer'.full)
        /\ writer'.segments = writer.segments \o t
        /\ Attempted(done)
  BY <1>2a
<1>3. IsSequence(writer.segments) /\ IsSequence(t) /\ Written(encoder, state, 0, t)
  BY <1>2 DEF EncoderInv, WriterFits, Adds, Written
<1>4. /\ Len(writer.segments) \in Nat /\ Len(t) \in Nat
      /\ Len(writer'.segments) = Len(writer.segments) + Len(t)
      /\ \A i \in 1..Len(writer.segments) : writer'.segments[i] = writer.segments[i]
      /\ \A i \in 1..Len(t) : writer'.segments[Len(writer.segments) + i] = t[i]
  BY <1>2, <1>3, DomainOfSequence, Joined
<1>5. SegmentsMarked'
  <2>1. ASSUME NEW i \in 1..(Len(writer.segments) + Len(t))
        PROVE  writer'.segments[i].marker \in Markers
    <3>1. CASE i <= Len(writer.segments)
      <4>1. i \in 1..Len(writer.segments)
        BY <3>1, <1>4
      <4> QED  BY <4>1, <1>4 DEF EncoderInv, SegmentsMarked
    <3>2. CASE i > Len(writer.segments)
      <4> DEFINE k == i - Len(writer.segments)
      <4>1. k \in 1..Len(t) /\ k \in Nat /\ k >= 1 /\ 0 + k = k /\ i = Len(writer.segments) + k
        BY <3>2, <1>4
      <4> HIDE DEF k
      <4>2. IsWritten(encoder, state, k, t[k])
        BY <4>1, <1>3 DEF Written
      <4>3. k <= Length(encoder)
        BY <4>1, <1>1, <1>3, <1>4, Lengths DEF Written
      <4>4. t[k].marker \in Markers
        BY <4>1, <4>2, <4>3, <1>1, WrittenMarkers
      <4> QED  BY <4>1, <4>4, <1>4
    <3> QED  BY <3>1, <3>2, <1>4
  <2> QED  BY <2>1, <1>4 DEF SegmentsMarked
<1> DEFINE a == [settings |-> encoder, first |-> Len(writer.segments) + 1, done |-> done]
<1>6. attempts' = Append(attempts, a) /\ IsSequence(attempts)
  BY <1>2 DEF Attempted, EncoderInv, AttemptsFit
<1>7. /\ a.settings = encoder /\ a.first = Len(writer.segments) + 1
      /\ IsImage(a.settings) /\ a.first \in Nat /\ a.first >= 1
  BY <1>1, <1>4
<1> HIDE DEF a
<1>8. /\ IsSequence(attempts') /\ Len(attempts') = Len(attempts) + 1 /\ Len(attempts) \in Nat
      /\ \A i \in 1..Len(attempts) : attempts'[i] = attempts[i]
      /\ attempts'[Len(attempts) + 1] = a
  BY <1>6, Appended, DomainOfSequence
<1>9. AttemptsFit'
  <2>1. ASSUME NEW i \in 1..(Len(attempts) + 1)
        PROVE  IsImage(attempts'[i].settings) /\ attempts'[i].first \in Nat /\ attempts'[i].first >= 1
    <3>1. CASE i \in 1..Len(attempts)
      BY <3>1, <1>8 DEF EncoderInv, AttemptsFit
    <3>2. CASE i = Len(attempts) + 1
      BY <3>2, <1>7, <1>8
    <3> QED  BY <3>1, <3>2, <1>8
  <2> QED  BY <2>1, <1>8 DEF AttemptsFit
<1>10. attempts' # <<>>
  BY <1>8, Nothing
<1>11. ASSUME attempts # <<>> PROVE First' = First
  <2>1. Len(attempts) >= 1
    <3>1. attempts \in Seq(Range(attempts))
      BY <1>6 DEF IsSequence
    <3>2. Len(attempts) \in Nat \ {0}
      BY <3>1, <1>11, EmptySeq
    <3> QED  BY <3>2
  <2> QED  BY <2>1, <1>8 DEF First
<1>12. Len(attempts) > 1 => attempts'[2] = attempts[2]
  BY <1>8
<1> QED  BY <1>1, <1>5, <1>7, <1>8, <1>9, <1>10, <1>11, <1>12

\* The first encode.
LEMMA FirstEncode ==
  ASSUME EncoderInv, attempts = <<>>, Encodes
  PROVE  EncoderInv'
<1> DEFINE S == writer.segments
           n == Len(S)
           e == encoder
<1>1. /\ IsImage(e) /\ ~writer.full /\ state # "initial"
      /\ SegmentsMarked' /\ AttemptsFit' /\ attempts' # <<>>
  BY EncodesAppends
<1>2a. PICK done \in BOOLEAN : \E t :
         /\ Adds(e, state, t, done, writer'.full)
         /\ writer'.segments = S \o t
         /\ Attempted(done)
  BY DEF Encodes
<1>2. PICK t :
        /\ Adds(e, state, t, done, writer'.full)
        /\ writer'.segments = S \o t
        /\ Attempted(done)
  BY <1>2a
<1>3. attempts' = <<[settings |-> e, first |-> n + 1, done |-> done]>>
  BY <1>2 DEF Attempted
<1>4. IsSequence(S) /\ IsSequence(t) /\ Written(e, state, 0, t)
  BY <1>2 DEF EncoderInv, WriterFits, Adds, Written
<1>5. /\ n \in Nat /\ Len(t) \in Nat /\ Len(writer'.segments) = n + Len(t)
      /\ \A i \in 1..n : writer'.segments[i] = S[i]
      /\ \A i \in 1..Len(t) : writer'.segments[n + i] = t[i]
  BY <1>2, <1>4, DomainOfSequence, Joined
<1>6. /\ settings' = e /\ Prefix' = n /\ First.done' = done /\ Len(attempts') = 1
      /\ HeaderEnd' = n + HeaderLength(e)
      /\ ScansEnd' = n + HeaderLength(e) + ScanCount(e)
  <2>1. First' = [settings |-> e, first |-> n + 1, done |-> done] /\ Len(attempts') = 1
    BY <1>3 DEF First
  <2>2. settings' = e /\ First.first' = n + 1 /\ First.done' = done
    BY <2>1 DEF settings
  <2>3. Prefix' = n
    BY <2>2, <1>5 DEF Prefix
  <2> HIDE DEF n
  <2> QED  BY <2>1, <2>2, <2>3 DEF HeaderEnd, ScansEnd
<1>7. /\ HeaderLength(e) \in Nat /\ HeaderLength(e) >= 2
      /\ ScanCount(e) \in Nat /\ ScanCount(e) >= 1
      /\ Length(e) = HeaderLength(e) + ScanCount(e) + 1
  BY <1>1, Lengths
<1>8. /\ n = 0 \/ Directory(S, n)
      /\ state = IF n = 0 THEN "destination_set" ELSE "spiff_header"
  <2>1. CASE state = "spiff_header"
    <3>1. Directory(S, n)
      BY <2>1 DEF EncoderInv, BeforeFirst
    <3> QED  BY <2>1, <3>1, <1>5 DEF Directory
  <2>2. CASE state # "spiff_header"
    <3>1. S = <<>>
      BY <2>2, <1>1 DEF EncoderInv, BeforeFirst
    <3>2. state = "destination_set"
      BY <2>2, <1>1 DEF EncoderInv
    <3> QED  BY <3>1, <3>2, Nothing
  <2> QED  BY <2>1, <2>2
<1>9. StateOfFirst' = state
  BY <1>6, <1>8 DEF StateOfFirst
<1> HIDE DEF n, S, e
<1>10. \A k \in 1..Len(t) : IsWritten(e, state, k, t[k]) /\ k <= Length(e)
  <2>1. ASSUME NEW k \in 1..Len(t) PROVE IsWritten(e, state, k, t[k]) /\ k <= Length(e)
    <3>1. IsWritten(e, state, 0 + k, t[k]) /\ 0 + Len(t) <= Length(e)
      BY <1>4 DEF Written
    <3> QED  BY <3>1, <1>5, <1>7
  <2> QED  BY <2>1
<1>11. ASSUME NEW i \in 1..(n + Len(t)), i > n
       PROVE  i - n \in 1..Len(t) /\ writer'.segments[i] = t[i - n]
  <2>1. i - n \in 1..Len(t) /\ n + (i - n) = i
    BY <1>5, <1>11
  <2> QED  BY <2>1, <1>5
<1>12. WrittenByFirst'
  <2>1. n = 0 \/ Directory(writer'.segments, n)
    <3>1. ASSUME Directory(S, n) PROVE Directory(writer'.segments, n)
      <4>1. /\ n >= 2 /\ S[1] = Marker("SOI") /\ S[2] = ApplicationData8("spiff", "none")
            /\ \A i \in 3..n : S[i] = ApplicationData8("entry", "none")
        BY <3>1, Zenon DEF Directory
      <4>2. 1 \in 1..n /\ 2 \in 1..n /\ \A i \in 3..n : i \in 1..n
        BY <4>1, <1>5
      <4>3. /\ writer'.segments[1] = S[1] /\ writer'.segments[2] = S[2]
            /\ \A i \in 3..n : writer'.segments[i] = S[i]
        BY <4>2, <1>5
      <4>4. n <= Len(writer'.segments)
        BY <1>5
      <4> QED  BY <4>1, <4>3, <4>4, Zenon DEF Directory
    <3> QED  BY <3>1, <1>8
  <2>2. ASSUME NEW i \in (n + 1)..(n + Len(t))
        PROVE  /\ i <= ScansEnd' + 1
               /\ IsWritten(e, state, i - n, writer'.segments[i])
    <3>1. i \in 1..(n + Len(t)) /\ i > n
      BY <1>5
    <3>2. i - n \in 1..Len(t) /\ writer'.segments[i] = t[i - n]
      BY <3>1, <1>11
    <3>3. IsWritten(e, state, i - n, t[i - n]) /\ i - n <= Length(e)
      BY <3>2, <1>10
    <3>4. i <= ScansEnd' + 1
      BY <3>3, <1>5, <1>6, <1>7
    <3> QED  BY <3>2, <3>3, <3>4
  <2> QED  BY <2>1, <2>2, <1>5, <1>6, <1>9 DEF WrittenByFirst
<1>13. SecondIsBehind'
  <2>1. ASSUME NEW k \in 1..Len(t), k > HeaderLength(e), ~Coded(t[k])
        PROVE  StopsBefore(Len(writer.segments) + 1)'
    <3>1. /\ n + k \in (HeaderEnd' + 1)..(ScansEnd' + 1)
          /\ n + k < Len(writer'.segments) + 1
          /\ writer'.segments[n + k] = t[k]
      <4>1. k <= Length(e) /\ k \in Nat
        BY <1>5, <1>10
      <4>2. n + k \in (HeaderEnd' + 1)..(ScansEnd' + 1)
        BY <2>1, <4>1, <1>5, <1>6, <1>7
      <4>3. n + k < Len(writer'.segments) + 1
        BY <4>1, <1>5
      <4> QED  BY <4>2, <4>3, <1>5
    <3> QED  BY <3>1, <2>1 DEF StopsBefore
  <2>2. writer'.full \/ \E k \in 1..Len(t) : k > HeaderLength(e) /\ ~Coded(t[k])
    BY <1>2 DEF Adds
  <2> QED  BY <2>1, <2>2, <1>6 DEF SecondIsBehind
<1>14. ScansAreOfFirst'
  <2>1. ASSUME NEW i \in 1..(n + Len(t)), writer'.segments[i].marker = "SOS"
        PROVE  i > HeaderEnd' /\ i <= ScansEnd'
    <3>1. CASE i <= n
      <4>1. i \in 1..n /\ S[i].marker = "SOS"
        BY <3>1, <2>1, <1>5
      <4>2. Directory(S, n)
        BY <4>1, <1>8, <1>5
      <4>3. S[i].marker # "SOS"
        <5>1. i = 1 \/ i = 2 \/ i \in 3..n
          BY <4>1, <1>5
        <5> QED  BY <5>1, <4>2 DEF Directory, Marker, ApplicationData8
      <4> QED  BY <4>1, <4>3
    <3>2. CASE i > n
      <4>1. i - n \in 1..Len(t) /\ writer'.segments[i] = t[i - n]
        BY <3>2, <1>11
      <4> DEFINE k == i - n
      <4>2. /\ IsWritten(e, state, k, t[k]) /\ k <= Length(e) /\ t[k].marker = "SOS"
            /\ k \in Nat /\ k >= 1 /\ i = n + k
        BY <4>1, <2>1, <1>5, <1>10
      <4> HIDE DEF k
      <4>3. k > HeaderLength(e) /\ k < Length(e)
        BY <4>2, <1>1, ScansAreBetween DEF e
      <4> QED  BY <4>2, <4>3, <1>5, <1>6, <1>7
    <3> QED  BY <3>1, <3>2, <1>5
  <2> QED  BY <2>1, <1>5 DEF ScansAreOfFirst
<1>15. DoneIsComplete'
  <2>1. ASSUME done
        PROVE  /\ ScansEnd' < n + Len(t) /\ ~ScanIsRefused(e)
               /\ \A j \in (HeaderEnd' + 1)..ScansEnd' : Coded(writer'.segments[j])
    <3>1. /\ Len(t) = Length(e) /\ ~ScanIsRefused(e)
          /\ \A k \in (HeaderLength(e) + 1)..(Length(e) - 1) : Coded(t[k])
      BY <2>1, <1>2 DEF Adds
    <3>2. ASSUME NEW j \in (HeaderEnd' + 1)..ScansEnd' PROVE Coded(writer'.segments[j])
      <4>0. /\ j \in Int /\ j >= n + HeaderLength(e) + 1
            /\ j <= n + HeaderLength(e) + ScanCount(e)
        BY <1>5, <1>6, <1>7
      <4>1. j \in 1..(n + Len(t)) /\ j > n /\ j - n \in (HeaderLength(e) + 1)..(Length(e) - 1)
        <5>1. Len(t) = HeaderLength(e) + ScanCount(e) + 1
          BY <3>1, <1>7
        <5> QED  BY <4>0, <5>1, <1>5, <1>7
      <4>2. writer'.segments[j] = t[j - n]
        BY <4>1, <1>11
      <4> QED  BY <4>1, <4>2, <3>1
    <3>3. ScansEnd' < n + Len(t)
      BY <3>1, <1>5, <1>6, <1>7
    <3> QED  BY <3>1, <3>2, <3>3
  <2> QED  BY <2>1, <1>5, <1>6 DEF DoneIsComplete, CodedTo
<1>16. EncoderFits' /\ WriterFits' /\ state' \in {"initial", "destination_set", "spiff_header"}
  BY DEF EncoderInv, Encodes, EncoderFits
<1> QED  BY <1>1, <1>12, <1>13, <1>14, <1>15, <1>16 DEF EncoderInv, FirstInv

\* Another encode.
LEMMA LaterEncode ==
  ASSUME EncoderInv, attempts # <<>>, Encodes
  PROVE  EncoderInv'
<1>1. /\ ~writer.full /\ SegmentsMarked' /\ AttemptsFit'
      /\ attempts' # <<>> /\ Len(attempts') = Len(attempts) + 1 /\ First' = First
      /\ attempts'[Len(attempts) + 1].first = Len(writer.segments) + 1
      /\ Len(attempts) > 1 => attempts'[2] = attempts[2]
  BY EncodesAppends
<1>2. PICK t : IsSequence(t) /\ writer'.segments = writer.segments \o t
  BY DEF Encodes, Adds, Written
<1>3. Len(attempts) \in Nat /\ Len(attempts) >= 1
  <2>1. attempts \in Seq(Range(attempts))
    BY DEF EncoderInv, AttemptsFit, IsSequence
  <2>2. Len(attempts) \in Nat \ {0}
    BY <2>1, EmptySeq
  <2> QED  BY <2>2
<1>4. /\ Len(attempts') > 1
      /\ IF Len(attempts) > 1 THEN attempts'[2].first = attempts[2].first
         ELSE attempts'[2].first = Len(writer.segments) + 1
  BY <1>1, <1>3
<1>5. FirstInv'
  BY <1>1, <1>2, <1>4, WrittenBehind DEF EncoderInv
<1>6. EncoderFits' /\ WriterFits' /\ state' \in {"initial", "destination_set", "spiff_header"}
  BY DEF EncoderInv, Encodes, EncoderFits
<1> QED  BY <1>1, <1>5, <1>6 DEF EncoderInv

-----------------------------------------------------------------------------
(* The other calls of the encoder.                                         *)

\* Nothing was set or written.
LEMMA InitEncoderFits == InitEncoder => EncoderInv
<1> SUFFICES ASSUME InitEncoder PROVE EncoderInv
  OBVIOUS
<1>1. /\ encoder = [frame |-> NoFrame, mode |-> "none", near |-> 0,
                    preset |-> NoPreset, transformation |-> "none"]
      /\ writer = [componentId |-> 1, full |-> FALSE, segments |-> <<>>]
      /\ state = "initial" /\ attempts = <<>>
  BY DEF InitEncoder
<1>2. EncoderFits
  BY <1>1 DEF EncoderFits
<1>3. WriterFits
  BY <1>1, Nothing DEF WriterFits
<1>4. SegmentsMarked /\ AttemptsFit
  <2>1. Len(writer.segments) = 0 /\ Len(attempts) = 0 /\ IsSequence(attempts)
    BY <1>1, Nothing
  <2> QED  BY <2>1 DEF SegmentsMarked, AttemptsFit
<1>5. BeforeFirst
  BY <1>1 DEF BeforeFirst
<1> QED  BY <1>1, <1>2, <1>3, <1>4, <1>5 DEF EncoderInv

\* What was written stays.
LEMMA NothingWritten ==
  ASSUME EncoderInv, EncoderFits', UNCHANGED <<writer, attempts>>,
         \/ UNCHANGED state
         \/ state = "initial" /\ state' = "destination_set"
  PROVE  EncoderInv'
<1>1. WriterFits' /\ SegmentsMarked' /\ AttemptsFit'
  BY DEF EncoderInv, WriterFits, SegmentsMarked, AttemptsFit
<1>2. attempts = <<>> => BeforeFirst'
  BY DEF EncoderInv, BeforeFirst
<1>3. ASSUME FirstInv PROVE FirstInv'
  <2>1. /\ Prefix' = Prefix /\ HeaderEnd' = HeaderEnd /\ ScansEnd' = ScansEnd
        /\ settings' = settings /\ StateOfFirst' = StateOfFirst /\ First.done' = First.done
    BY DEF Prefix, HeaderEnd, ScansEnd, settings, StateOfFirst, First
  <2>2. WrittenByFirst'
    BY <1>3, <2>1 DEF FirstInv, WrittenByFirst, CodedTo
  <2>3. SecondIsBehind'
    BY <1>3, <2>1 DEF FirstInv, SecondIsBehind, StopsBefore
  <2>4. ScansAreOfFirst'
    BY <1>3, <2>1 DEF FirstInv, ScansAreOfFirst
  <2>5. DoneIsComplete'
    BY <1>3, <2>1 DEF FirstInv, DoneIsComplete, CodedTo
  <2> QED  BY <2>2, <2>3, <2>4, <2>5 DEF FirstInv
<1> QED  BY <1>1, <1>2, <1>3 DEF EncoderInv

\* The settings of every kind.
SetsSome ==
  \/ SetFrameInfo \/ SetInterleaveMode \/ SetNearLossless \/ SetPreset \/ SetColorTransformation

\* A setting.
LEMMA SettingsFit ==
  ASSUME EncoderInv, SetsSome
  PROVE  EncoderInv'
<1>1. EncoderFits
  BY DEF EncoderInv
<1>2. UNCHANGED <<state, writer, attempts>>
  BY DEF SetsSome, SetFrameInfo, SetInterleaveMode, SetNearLossless, SetPreset,
         SetColorTransformation, Set
<1>3. EncoderFits'
  <2>1. CASE SetFrameInfo
    <3>1. PICK f \in Frames : encoder' = [encoder EXCEPT !["frame"] = f]
      BY <2>1 DEF SetFrameInfo, Set
    <3>2. f \in [bits : 2..16, components : 1..255]
      BY EncoderAssumption
    <3>3. /\ encoder'.frame = f /\ encoder'.mode = encoder.mode /\ encoder'.near = encoder.near
          /\ encoder'.preset = encoder.preset
          /\ encoder'.transformation = encoder.transformation
          /\ encoder' = [frame |-> f, mode |-> encoder.mode, near |-> encoder.near,
                         preset |-> encoder.preset, transformation |-> encoder.transformation]
      BY <1>1, <3>1 DEF EncoderFits
    <3> QED  BY <1>1, <3>2, <3>3, Zenon DEF EncoderFits
  <2>2. CASE SetInterleaveMode
    <3>1. PICK m \in InterleaveModes : encoder' = [encoder EXCEPT !["mode"] = m]
      BY <2>2 DEF SetInterleaveMode, Set
    <3>2. /\ encoder'.frame = encoder.frame /\ encoder'.mode = m /\ encoder'.near = encoder.near
          /\ encoder'.preset = encoder.preset
          /\ encoder'.transformation = encoder.transformation
          /\ encoder' = [frame |-> encoder.frame, mode |-> m, near |-> encoder.near,
                         preset |-> encoder.preset, transformation |-> encoder.transformation]
      BY <1>1, <3>1 DEF EncoderFits
    <3> QED  BY <1>1, <3>2, Zenon DEF EncoderFits
  <2>3. CASE SetNearLossless
    <3>1. PICK v \in Nears : encoder' = [encoder EXCEPT !["near"] = v]
      BY <2>3 DEF SetNearLossless, Set
    <3>2. v \in Nat
      BY EncoderAssumption
    <3>3. /\ encoder'.frame = encoder.frame /\ encoder'.mode = encoder.mode /\ encoder'.near = v
          /\ encoder'.preset = encoder.preset
          /\ encoder'.transformation = encoder.transformation
          /\ encoder' = [frame |-> encoder.frame, mode |-> encoder.mode, near |-> v,
                         preset |-> encoder.preset, transformation |-> encoder.transformation]
      BY <1>1, <3>1 DEF EncoderFits
    <3> QED  BY <1>1, <3>2, <3>3, Zenon DEF EncoderFits
  <2>4. CASE SetPreset
    <3>1. PICK p \in PresetSettings : encoder' = [encoder EXCEPT !["preset"] = p]
      BY <2>4 DEF SetPreset, Set
    <3>2. /\ encoder'.frame = encoder.frame /\ encoder'.mode = encoder.mode
          /\ encoder'.near = encoder.near
          /\ encoder'.preset = p /\ encoder'.transformation = encoder.transformation
          /\ encoder' = [frame |-> encoder.frame, mode |-> encoder.mode, near |-> encoder.near,
                         preset |-> p, transformation |-> encoder.transformation]
      BY <1>1, <3>1 DEF EncoderFits
    <3> QED  BY <1>1, <3>2, Zenon DEF EncoderFits
  <2>5. CASE SetColorTransformation
    <3>1. PICK c \in ColorTransformations : encoder' = [encoder EXCEPT !["transformation"] = c]
      BY <2>5 DEF SetColorTransformation, Set
    <3>2. /\ encoder'.frame = encoder.frame /\ encoder'.mode = encoder.mode
          /\ encoder'.near = encoder.near
          /\ encoder'.preset = encoder.preset /\ encoder'.transformation = c
          /\ encoder' = [frame |-> encoder.frame, mode |-> encoder.mode, near |-> encoder.near,
                         preset |-> encoder.preset, transformation |-> c]
      BY <1>1, <3>1 DEF EncoderFits
    <3> QED  BY <1>1, <3>2, Zenon DEF EncoderFits
  <2> QED  BY <2>1, <2>2, <2>3, <2>4, <2>5 DEF SetsSome
<1> QED  BY <1>2, <1>3, NothingWritten

\* The destination is set.
LEMMA DestinationFits ==
  ASSUME EncoderInv, SetDestination
  PROVE  EncoderInv'
<1>1. UNCHANGED <<encoder, writer, attempts>> /\ state = "initial" /\ state' = "destination_set"
  BY DEF SetDestination
<1>2. EncoderFits'
  BY <1>1 DEF EncoderInv, EncoderFits
<1> QED  BY <1>1, <1>2, NothingWritten

\* Segments that are no scans are written.
LEMMA SegmentsWritten ==
  ASSUME EncoderInv, ~writer.full, UNCHANGED <<encoder, attempts>>, WriterFits',
         state' \in {"initial", "destination_set", "spiff_header"},
         NEW t, IsSequence(t), writer'.segments = writer.segments \o t,
         \A k \in 1..Len(t) : t[k].marker \in Markers \ {"SOS"},
         attempts = <<>> => BeforeFirst'
  PROVE  EncoderInv'
<1>1. /\ Len(writer.segments) \in Nat /\ Len(t) \in Nat
      /\ Len(writer'.segments) = Len(writer.segments) + Len(t)
      /\ \A i \in 1..Len(writer.segments) : writer'.segments[i] = writer.segments[i]
      /\ \A i \in 1..Len(t) : writer'.segments[Len(writer.segments) + i] = t[i]
  BY DomainOfSequence, Joined DEF EncoderInv, WriterFits
<1>2. SegmentsMarked'
  <2>1. ASSUME NEW i \in 1..(Len(writer.segments) + Len(t))
        PROVE  writer'.segments[i].marker \in Markers
    <3>1. CASE i <= Len(writer.segments)
      <4>1. i \in 1..Len(writer.segments)
        BY <3>1, <1>1
      <4> QED  BY <4>1, <1>1 DEF EncoderInv, SegmentsMarked
    <3>2. CASE i > Len(writer.segments)
      <4>1. /\ i - Len(writer.segments) \in 1..Len(t)
            /\ i = Len(writer.segments) + (i - Len(writer.segments))
        BY <3>2, <1>1
      <4>2. writer'.segments[i] = t[i - Len(writer.segments)]
        BY <4>1, <1>1
      <4> QED  BY <4>1, <4>2
    <3> QED  BY <3>1, <3>2, <1>1
  <2> QED  BY <2>1, <1>1 DEF SegmentsMarked
<1>3. AttemptsFit' /\ EncoderFits'
  BY DEF EncoderInv, AttemptsFit, EncoderFits
<1>4. ASSUME attempts # <<>> PROVE FirstInv'
  <2>1. WriterFits /\ AttemptsFit /\ FirstInv
    BY <1>4 DEF EncoderInv
  <2>2. attempts' # <<>> /\ First' = First
    BY <1>4 DEF First
  <2>3. \A k \in 1..Len(t) : t[k].marker # "SOS"
    OBVIOUS
  <2> QED  BY <1>4, <2>1, <2>2, <2>3, WrittenBehind
<1> QED  BY <1>2, <1>3, <1>4 DEF EncoderInv

\* No segment is written.
LEMMA NoSegmentWritten ==
  ASSUME NEW s, IsSequence(s)
  PROVE  IsSequence(<<>>) /\ s = s \o <<>> /\ \A k \in 1..Len(<<>>) : FALSE
<1>1. s \in Seq(Range(s))
  BY DEF IsSequence
<1>2. s \o <<>> = s
  BY <1>1, ConcatEmptySeq
<1>3. IsSequence(<<>>) /\ Len(<<>>) = 0
  BY Nothing
<1> QED  BY <1>2, <1>3

\* A SPIFF header, or what fits of it.
LEMMA SpiffHeaderFits ==
  ASSUME EncoderInv, WriteSpiffHeader
  PROVE  EncoderInv'
<1> DEFINE soi == Marker("SOI")
           spiff == ApplicationData8("spiff", "none")
<1>1. /\ state = "destination_set" /\ ~writer.full /\ UNCHANGED <<encoder, attempts>>
      /\ IsSequence(writer.segments)
      /\ writer = [componentId |-> writer.componentId, full |-> writer.full,
                   segments |-> writer.segments]
      /\ writer.componentId \in Nat /\ writer.full \in BOOLEAN
      /\ attempts = <<>> => writer.segments = <<>>
  BY DEF WriteSpiffHeader, EncoderInv, WriterFits, BeforeFirst
<1>2. soi.marker = "SOI" /\ spiff.marker = "APP8"
  BY DEF Marker, ApplicationData8
<1> HIDE DEF soi, spiff
<1>3. CASE /\ writer' = [writer EXCEPT !.segments = @ \o <<soi, spiff>>]
           /\ state' = "spiff_header"
  <2> DEFINE t == <<soi, spiff>>
  <2>1. /\ IsSequence(t) /\ Len(t) = 2 /\ t[1] = soi /\ t[2] = spiff
    <3>1. <<soi, spiff>> \in Seq({soi, spiff})
      OBVIOUS
    <3>2. IsSequence(<<soi, spiff>>)
      BY <3>1, SequenceOfSet, Zenon
    <3> QED  BY <3>2
  <2> HIDE DEF t
  <2>2. /\ writer'.componentId = writer.componentId /\ writer'.full = writer.full
        /\ writer'.segments = writer.segments \o t
        /\ writer' = [componentId |-> writer.componentId, full |-> writer.full,
                      segments |-> writer.segments \o t]
    BY <1>1, <1>3 DEF t
  <2>3. IsSequence(writer.segments \o t)
    BY <1>1, <2>1, Joined
  <2>4. WriterFits'
    BY <1>1, <2>2, <2>3 DEF WriterFits
  <2>5. ASSUME attempts = <<>> PROVE BeforeFirst'
    <3> DEFINE all == writer'.segments
    <3>1. Len(writer.segments) = 0
      BY <1>1, <2>5, Nothing
    <3>2. /\ Len(all) = 0 + Len(t) /\ \A i \in 1..Len(t) : all[0 + i] = t[i]
      <4>1. /\ Len(writer.segments \o t) = Len(writer.segments) + Len(t)
            /\ \A i \in 1..Len(t) : (writer.segments \o t)[Len(writer.segments) + i] = t[i]
        <5>1. IsSequence(writer.segments) /\ IsSequence(t)
          BY <1>1, <2>1
        <5> QED  BY <5>1, Joined
      <4> QED  BY <2>2, <3>1, <4>1
    <3>3. Len(all) = 2 /\ all[1] = soi /\ all[2] = spiff
      BY <2>1, <3>2
    <3> HIDE DEF all
    <3>4. Directory(all, Len(all))
      BY <3>3 DEF Directory, soi, spiff
    <3> QED  BY <1>3, <3>4 DEF BeforeFirst, all
  <2>6. \A k \in 1..Len(t) : t[k].marker \in Markers \ {"SOS"}
    BY <1>2, <2>1 DEF Markers
  <2> QED  BY <1>1, <1>3, <2>1, <2>2, <2>4, <2>5, <2>6, SegmentsWritten
<1>4. ASSUME NEW t \in {<<>>, <<soi>>},
             writer' = [writer EXCEPT !.full = TRUE, !.segments = @ \o t],
             UNCHANGED state
      PROVE  EncoderInv'
  <2>1. IsSequence(t) /\ \A k \in 1..Len(t) : t[k].marker \in Markers \ {"SOS"}
    <3>1. CASE t = <<>>
      BY <3>1, Nothing
    <3>2. CASE t = <<soi>>
      <4>1. IsSequence(<<soi>>) /\ Len(<<soi>>) = 1 /\ <<soi>>[1] = soi
        BY Single, Zenon
      <4> QED  BY <1>2, <3>2, <4>1 DEF Markers
    <3> QED  BY <3>1, <3>2
  <2>2. /\ writer'.componentId = writer.componentId /\ writer'.full = TRUE
        /\ writer'.segments = writer.segments \o t
        /\ writer' = [componentId |-> writer.componentId, full |-> TRUE,
                      segments |-> writer.segments \o t]
    BY <1>1, <1>4
  <2>3. IsSequence(writer.segments \o t)
    BY <1>1, <2>1, Joined
  <2>4. WriterFits'
    BY <1>1, <2>2, <2>3 DEF WriterFits
  <2>5. BeforeFirst'
    BY <1>1, <1>4, <2>2 DEF BeforeFirst
  <2>6. state' \in {"initial", "destination_set", "spiff_header"}
    BY <1>1, <1>4
  <2> QED  BY <1>1, <2>1, <2>2, <2>4, <2>5, <2>6, SegmentsWritten
<1> QED  BY <1>3, <1>4 DEF WriteSpiffHeader, AppendSegments, soi, spiff

\* A SPIFF entry, or what fits of it.
LEMMA SpiffEntryFits ==
  ASSUME EncoderInv, WriteSpiffEntry
  PROVE  EncoderInv'
<1> DEFINE entry == ApplicationData8("entry", "none")
           S == writer.segments
           n == Len(S)
<1>1. /\ state = "spiff_header" /\ ~writer.full /\ UNCHANGED <<encoder, state, attempts>>
      /\ IsSequence(S)
      /\ writer = [componentId |-> writer.componentId, full |-> writer.full, segments |-> S]
      /\ writer.componentId \in Nat /\ writer.full \in BOOLEAN
      /\ attempts = <<>> => Directory(S, n)
  BY DEF WriteSpiffEntry, EncoderInv, WriterFits, BeforeFirst
<1>2. entry.marker = "APP8"
  BY DEF ApplicationData8
<1> HIDE DEF entry
<1>3. CASE writer' = [writer EXCEPT !.segments = @ \o <<entry>>]
  <2>1. IsSequence(<<entry>>) /\ Len(<<entry>>) = 1 /\ <<entry>>[1] = entry
    BY Single, Zenon
  <2> DEFINE t == <<entry>>
  <2> HIDE DEF t
  <2>2. IsSequence(t) /\ Len(t) = 1 /\ t[1] = entry
    BY <2>1 DEF t
  <2>3. /\ writer'.componentId = writer.componentId /\ writer'.full = writer.full
        /\ writer'.segments = S \o t
        /\ writer' = [componentId |-> writer.componentId, full |-> writer.full,
                      segments |-> S \o t]
    BY <1>1, <1>3 DEF t
  <2>4. IsSequence(S \o t)
    BY <1>1, <2>2, Joined
  <2>5. WriterFits'
    BY <1>1, <2>3, <2>4 DEF WriterFits
  <2>6. ASSUME attempts = <<>> PROVE BeforeFirst'
    <3> DEFINE all == writer'.segments
    <3>1. /\ n \in Nat /\ Len(all) = n + 1 /\ \A i \in 1..n : all[i] = S[i]
          /\ all[n + 1] = entry
      <4>1. IsSequence(S) /\ IsSequence(t)
        BY <1>1, <2>2
      <4>2. /\ Len(S \o t) = n + Len(t) /\ \A i \in 1..n : (S \o t)[i] = S[i]
            /\ \A i \in 1..Len(t) : (S \o t)[n + i] = t[i]
        BY <4>1, Joined
      <4>3. n \in Nat
        BY <4>1, DomainOfSequence, Zenon
      <4> HIDE DEF S, n
      <4> QED  BY <2>2, <2>3, <4>2, <4>3
    <3>2. /\ n >= 2 /\ S[1] = Marker("SOI") /\ S[2] = ApplicationData8("spiff", "none")
          /\ \A i \in 3..n : S[i] = entry
      BY <1>1, <2>6, Zenon DEF Directory, entry
    <3> HIDE DEF S, n, all
    <3>3. /\ Len(all) >= 2 /\ Len(all) <= Len(all)
          /\ all[1] = Marker("SOI") /\ all[2] = ApplicationData8("spiff", "none")
          /\ \A i \in 3..Len(all) : all[i] = entry
      <4>1. 1 \in 1..n /\ 2 \in 1..n
        BY <3>1, <3>2
      <4>2. ASSUME NEW i \in 3..(n + 1) PROVE all[i] = entry
        <5>1. CASE i = n + 1
          BY <5>1, <3>1
        <5>2. CASE i # n + 1
          <6>1. i \in 3..n /\ i \in 1..n
            BY <5>2, <3>1
          <6> QED  BY <6>1, <3>1, <3>2
        <5> QED  BY <5>1, <5>2
      <4> QED  BY <4>1, <4>2, <3>1, <3>2
    <3>4. Directory(all, Len(all))
      BY <3>3, Zenon DEF Directory, entry
    <3> QED  BY <1>1, <3>4 DEF BeforeFirst, all
  <2>7. \A k \in 1..Len(t) : t[k].marker \in Markers \ {"SOS"}
    BY <1>2, <2>2 DEF Markers
  <2>8. state' \in {"initial", "destination_set", "spiff_header"}
    BY <1>1
  <2> QED  BY <1>1, <2>2, <2>3, <2>5, <2>6, <2>7, <2>8, SegmentsWritten
<1>4. CASE RunFull
  <2>1. /\ writer'.componentId = writer.componentId /\ writer'.full = TRUE
        /\ writer'.segments = S
        /\ writer' = [componentId |-> writer.componentId, full |-> TRUE, segments |-> S]
    BY <1>1, <1>4 DEF RunFull
  <2>2. WriterFits'
    BY <1>1, <2>1 DEF WriterFits
  <2>3. ASSUME attempts = <<>> PROVE BeforeFirst'
    BY <1>1, <2>1, <2>3 DEF BeforeFirst
  <2>4. IsSequence(<<>>) /\ S = S \o <<>> /\ \A k \in 1..Len(<<>>) : FALSE
    BY <1>1, NoSegmentWritten, Zenon
  <2> DEFINE t == <<>>
  <2> HIDE DEF t
  <2>5. IsSequence(t) /\ writer'.segments = S \o t
        /\ \A k \in 1..Len(t) : t[k].marker \in Markers \ {"SOS"}
    BY <2>1, <2>4 DEF t
  <2>6. state' \in {"initial", "destination_set", "spiff_header"}
    BY <1>1
  <2> QED  BY <1>1, <2>2, <2>3, <2>5, <2>6, SegmentsWritten
<1> QED  BY <1>3, <1>4 DEF WriteSpiffEntry, AppendSegments, entry

\* Every call of the encoder.
LEMMA EncoderStepFits ==
  ASSUME EncoderInv, NextEncoder
  PROVE  EncoderInv'
<1>1. WriterFits /\ (encoder.frame # NoFrame => IsImage(encoder))
  BY DEF EncoderInv, EncoderFits, IsImage
<1>2. ASSUME Encodes PROVE EncoderInv'
  BY <1>2, FirstEncode, LaterEncode
<1>3. CASE Encode
  BY <1>1, <1>2, <1>3, EncodeAdds
<1>4. CASE EncodeFailsInScan
  BY <1>1, <1>2, <1>4, FailingScanAdds
<1>5. CASE EncodeRunsFull
  BY <1>1, <1>2, <1>5, FullDestinationAdds
<1> QED  BY <1>3, <1>4, <1>5, SettingsFit, DestinationFits, SpiffHeaderFits, SpiffEntryFits
         DEF NextEncoder, SetsSome

-----------------------------------------------------------------------------
(* The invariant of a call of the decoder.                                 *)

\* What the reader checks of the settings.
PresetFits(e) == WrittenPreset(e).maxval <= CalculateMaximumSampleValue(e.frame.bits)

NearFits(e) ==
  ~ e.near % 256
      > MaximumNearLossless(Or(WrittenPreset(e).maxval, CalculateMaximumSampleValue(e.frame.bits)))

ModeFits(e) == e.frame.components \in {3, 4} \/ e.mode = "none"

\* What was written can be read up to the first scan, and decoded.
HeaderReadable ==
  /\ HeaderEnd < Len(writer.segments)
  /\ writer.segments[HeaderEnd + 1].defect = "none"
  /\ PresetFits(settings) /\ NearFits(settings)

Decodable ==
  /\ HeaderReadable
  /\ ModeFits(settings) /\ ~ScanIsRefused(settings)
  /\ ScansEnd <= Len(writer.segments) /\ CodedTo(ScansEnd)

ReaderOf(st, frame, ids, preset, near, mode, transformation, data) ==
  [state |-> st, frame |-> frame, componentIds |-> ids, preset |-> preset,
   near |-> near, mode |-> mode, transformation |-> transformation, scanData |-> data]

\* The identifiers in a frame segment.
Identifiers(e) == {StartOfFrame(e.frame).ids[k] : k \in 1..Len(StartOfFrame(e.frame).ids)}

\* The reader before the frame, behind segment k of the header, and at a scan.
Blank(st) == ReaderOf(st, NoFrame, {}, NoPreset, 0, "none", "none", "good")

HeaderTo(k) ==
  ReaderOf("scan_section", settings.frame, Identifiers(settings),
           IF k >= HeaderEnd THEN WrittenPreset(settings) ELSE NoPreset, 0, "none",
           IF k >= Prefix + UpToTransformation(settings) THEN settings.transformation ELSE "none",
           "good")

ScanOf(st, data) ==
  ReaderOf(st, settings.frame, Identifiers(settings), WrittenPreset(settings),
           settings.near % 256, settings.mode, settings.transformation, data)

\* Where a reader rd can be that has read k segments.
Untouched(rd, k) == k = 0 /\ rd = Blank("before_start_of_image")
AtStart(rd, k) == k >= 1 /\ k <= Prefix + 1 /\ rd = Blank("header_section")
InDirectory(rd, k) == k >= 2 /\ k <= Prefix /\ rd = Blank("spiff_header_section")
BehindDirectory(rd, k) == Prefix >= 2 /\ k = Prefix + 1 /\ rd = Blank("image_section")
InTables(rd, k) == k >= Prefix + 2 /\ k <= HeaderEnd /\ rd = HeaderTo(k)
AtFirstScan(rd, k) == k = HeaderEnd + 1 /\ rd = HeaderTo(k) /\ PresetFits(settings)

\* In front of the bits of scan n, and behind them.
BeforeBits(rd, k, n) ==
  /\ k = HeaderEnd + n /\ k <= ScansEnd /\ CodedTo(k - 1)
  /\ writer.segments[k].defect = "none"
  /\ rd = ScanOf("bit_stream_section", writer.segments[k].data)

BehindScan(rd, k, n) ==
  /\ k = HeaderEnd + n /\ k <= ScansEnd /\ CodedTo(k)
  /\ rd = ScanOf("scan_section", "good")

BehindLast(rd, k) == BehindScan(rd, k, ScanCount(settings))

Between(rd, k, n) ==
  /\ settings.mode = "none" /\ n >= 1 /\ n <= settings.frame.components
  /\ BehindScan(rd, k, n)

\* A decode is tried again behind the last scan.
Again(rd, k, c, fails) == c.component = 0 /\ BehindLast(rd, k) /\ 33 \in fails

ReadsHeader(rd, k, c) ==
  IF c.client = "spiff"
  THEN \/ Untouched(rd, k)
       \/ AtStart(rd, k) /\ k = 1
       \/ Prefix = 0 /\ InTables(rd, k)
  ELSE /\ c.client = "header"
       /\ \/ Untouched(rd, k) \/ AtStart(rd, k) \/ InDirectory(rd, k)
          \/ BehindDirectory(rd, k) \/ InTables(rd, k)

HasReadHeader(rd, k, c) ==
  IF c.client = "spiff"
  THEN IF c.found THEN InDirectory(rd, k) ELSE Prefix = 0 /\ AtFirstScan(rd, k)
  ELSE c.client = "header" /\ AtFirstScan(rd, k)

Decodes(c) == HeaderReadable /\ ModeFits(settings) /\ c.client = "decode"

\* Where the reader is in each step of a call c that has not failed.
Place(rd, k, c, fails) ==
  /\ c.op = "ReadHeader" => ~c.found /\ ReadsHeader(rd, k, c)
  /\ c.op = "headerRead" => HasReadHeader(rd, k, c)
  /\ c.op = "ReadStartOfScan" => c.client = "header" /\ AtFirstScan(rd, k)
  /\ c.op = "Read" =>
       /\ HeaderReadable /\ c.client = "decode" /\ c.component = 0
       /\ BeforeBits(rd, k, 1) \/ BehindLast(rd, k)
  /\ c.op = "ReadLoop" =>
       /\ Decodes(c)
       /\ \/ c.component = 0 /\ BeforeBits(rd, k, 1)
          \/ Between(rd, k, c.component) \/ Again(rd, k, c, fails)
  /\ c.op = "ReadNextStartOfScan" =>
       /\ Decodes(c)
       /\ \/ Between(rd, k, c.component) /\ c.component < settings.frame.components
          \/ Again(rd, k, c, fails)
  /\ c.op = "ReadScanOfNext" =>
       /\ Decodes(c) /\ settings.mode = "none"
       /\ c.component >= 1 /\ c.component < settings.frame.components
       /\ k = HeaderEnd + c.component + 1 /\ CodedTo(k - 1)
       /\ rd = ScanOf("scan_section", "good")
  /\ c.op = "DecodeScan" =>
       Decodes(c) /\ c.component < ScanCount(settings) /\ BeforeBits(rd, k, c.component + 1)
  /\ c.op = "returned" =>
       \/ c.client = "header" /\ HeaderReadable /\ BeforeBits(rd, k, 1)
       \/ c.client = "decode" /\ Decodable /\ BehindLast(rd, k)
       \/ c.client = "spiff" /\ HasReadHeader(rd, k, c)

Ops == {"idle", "ReadHeader", "headerRead", "ReadStartOfScan", "Read", "ReadLoop",
        "ReadNextStartOfScan", "ReadScanOfNext", "DecodeScan", "returned"}

\* What a call that failed tells about the stream.
Failed(c, fails) ==
  /\ c.op \in {"returned", "idle"}
  /\ c.client \in {"spiff", "header", "decode"}
  /\ c.client \in {"spiff", "header"} => ~HeaderReadable
  /\ c.client = "decode" => ~Decodable \/ 33 \in fails

CallFits(c) ==
  /\ c = [op |-> c.op, client |-> c.client, found |-> c.found,
          component |-> c.component, mode |-> c.mode, outcome |-> c.outcome]
  /\ c.op \in Ops /\ c.found \in BOOLEAN /\ c.component \in Nat
  /\ c.outcome \in {"ok", "error"}

SourceFits(src) ==
  /\ src = [kind |-> src.kind, read |-> src.read, ended |-> src.ended]
  /\ src.read \in Nat /\ src.read <= Len(writer.segments) /\ src.ended \in BOOLEAN

CallInv(rd, src, c, fails) ==
  /\ CallFits(c) /\ SourceFits(src) /\ fails \subseteq {33}
  /\ c.outcome = "ok" => ~src.ended /\ Place(rd, src.read, c, fails)
  /\ c.outcome = "error" => Failed(c, fails)

\* Where the reader is between two calls of a decoder object.
IdlePlace(rd, k, a) ==
  /\ a \in {"initial", "source_set"} => Untouched(rd, k)
  /\ a = "spiff_header_read" => InDirectory(rd, k)
  /\ a = "spiff_header_not_found" => Prefix = 0 /\ AtFirstScan(rd, k)
  /\ a = "header_read" => HeaderReadable /\ (BeforeBits(rd, k, 1) \/ BehindLast(rd, k))

ApiInv(rd, k, c, a) ==
  /\ a = "initial" => c = NoCall /\ k = 0 /\ Untouched(rd, k)
  /\ a # "initial" => attempts # <<>>
  /\ c.client = "decode" => a = "header_read"
  /\ (c.client = "spiff" /\ c.op = "returned" /\ c.outcome = "ok") =>
       a = IF c.found THEN "spiff_header_read" ELSE "spiff_header_not_found"
  /\ (c.op = "idle" /\ c.outcome = "ok") => IdlePlace(rd, k, a)
  /\ a = "spiff_header_not_found" => Prefix = 0

DecoderInv ==
  /\ CallInv(reader, source, call, asserts)
  /\ ApiInv(reader, source.read, call, api)

-----------------------------------------------------------------------------
(* The segments that the reader finds.                                     *)

\* What the proofs of the reader's steps use of the encoder.
Readable == EncoderInv /\ attempts # <<>> /\ Source = "memory"

\* Where the parts of the stream begin.
LEMMA PartsOfStream ==
  ASSUME Readable
  PROVE  /\ IsImage(settings) /\ Len(writer.segments) \in Nat
         /\ Prefix \in Nat /\ HeaderEnd \in Nat /\ ScansEnd \in Nat
         /\ UpToTransformation(settings) \in 2..3
         /\ HeaderEnd >= Prefix + UpToTransformation(settings)
         /\ HeaderEnd <= Prefix + UpToTransformation(settings) + 1
         /\ ScanCount(settings) \in Nat /\ ScanCount(settings) >= 1
         /\ ScansEnd = HeaderEnd + ScanCount(settings)
         /\ HeaderEnd = Prefix + HeaderLength(settings)
         /\ ScansEnd + 1 = Prefix + Length(settings)
<1>1. AttemptsFit /\ attempts # <<>> /\ IsSequence(writer.segments)
  BY DEF Readable, EncoderInv, WriterFits
<1>2. /\ IsImage(settings) /\ Prefix \in Nat /\ HeaderEnd \in Nat /\ ScansEnd \in Nat
      /\ HeaderEnd = Prefix + HeaderLength(settings)
      /\ ScansEnd + 1 = Prefix + Length(settings)
  BY <1>1, SettingsAreAnImage
<1>3. Len(writer.segments) \in Nat
  BY <1>1, DomainOfSequence
<1>4. /\ UpToTransformation(settings) \in 2..3
      /\ HeaderLength(settings) \in UpToTransformation(settings)..(UpToTransformation(settings) + 1)
      /\ ScanCount(settings) \in Nat /\ ScanCount(settings) >= 1
  BY <1>2, Lengths
<1>5. ScansEnd = HeaderEnd + ScanCount(settings)
  BY DEF ScansEnd
<1> QED  BY <1>2, <1>3, <1>4, <1>5

\* No scan comes before the end of the header.
LEMMA HeaderIsCoded ==
  ASSUME Readable, NEW i \in Int, i <= HeaderEnd
  PROVE  CodedTo(i)
<1>1. HeaderEnd \in Nat
  BY PartsOfStream
<1>2. (HeaderEnd + 1)..i = {}
  BY <1>1
<1> QED  BY <1>2 DEF CodedTo

\* Behind coded scans is what the first encode has written.
LEMMA StreamHolds ==
  ASSUME Readable, NEW i \in Nat, i > Prefix, i <= Len(writer.segments), CodedTo(i - 1)
  PROVE  /\ i <= ScansEnd + 1
         /\ IsWritten(settings, StateOfFirst, i - Prefix, writer.segments[i])
<1>1. Prefix \in Nat /\ Len(writer.segments) \in Nat
  BY PartsOfStream
<1>2. i \in (Prefix + 1)..Len(writer.segments)
  BY <1>1
<1>3. WrittenByFirst
  BY DEF Readable, EncoderInv, FirstInv
<1> QED  BY <1>2, <1>3 DEF WrittenByFirst

\* The header of the first encode.
LEMMA HeaderHolds ==
  ASSUME Readable, NEW i \in Nat, i > Prefix, i <= HeaderEnd, i <= Len(writer.segments)
  PROVE  InHeader(settings, StateOfFirst, i - Prefix, writer.segments[i])
<1>1. Prefix \in Nat /\ HeaderEnd = Prefix + HeaderLength(settings) /\ HeaderEnd \in Nat
  BY PartsOfStream
<1>2. CodedTo(i - 1)
  BY <1>1, HeaderIsCoded
<1>3. IsWritten(settings, StateOfFirst, i - Prefix, writer.segments[i])
  BY <1>2, StreamHolds
<1>4. i - Prefix <= HeaderLength(settings)
  <2>1. HeaderLength(settings) \in Nat
    <3>1. IsImage(settings)
      BY PartsOfStream
    <3> QED  BY <3>1, Lengths
  <2> QED  BY <1>1, <2>1
<1> QED  BY <1>3, <1>4 DEF IsWritten

\* The stream starts with the marker for it.
LEMMA StartHolds ==
  ASSUME Readable, 1 <= Len(writer.segments)
  PROVE  writer.segments[1] = Marker("SOI")
<1>1. Prefix \in Nat /\ HeaderEnd \in Nat /\ HeaderEnd >= Prefix + 2
  BY PartsOfStream
<1>2. CASE Prefix = 0
  <2>1. InHeader(settings, StateOfFirst, 1 - Prefix, writer.segments[1])
    BY <1>1, <1>2, HeaderHolds
  <2>2. InHeader(settings, "destination_set", 1, writer.segments[1])
    <3>1. StateOfFirst = "destination_set" /\ 1 - Prefix = 1
      BY <1>2 DEF StateOfFirst
    <3> QED  BY <2>1, <3>1
  <2> QED  BY <2>2 DEF InHeader
<1>3. CASE Prefix # 0
  <2>1. Directory(writer.segments, Prefix)
    BY <1>3 DEF Readable, EncoderInv, FirstInv, WrittenByFirst
  <2> QED  BY <2>1, Zenon DEF Directory
<1> QED  BY <1>2, <1>3

\* What a SPIFF directory holds.
EntryAt(i) ==
  IF i = 2 THEN "spiff" ELSE IF i = Prefix + 1 THEN "endOfDirectory" ELSE "entry"

\* The directory of a SPIFF header comes before the frame.
LEMMA DirectoryHolds ==
  ASSUME Readable, NEW i \in Nat, i >= 2, i <= Prefix + 1, i <= Len(writer.segments)
  PROVE  Prefix >= 2 /\ writer.segments[i] = ApplicationData8(EntryAt(i), "none")
<1>1. Prefix \in Nat /\ HeaderEnd \in Nat /\ HeaderEnd >= Prefix + 2
  BY PartsOfStream
<1>2. Directory(writer.segments, Prefix)
  BY <1>1 DEF Readable, EncoderInv, FirstInv, WrittenByFirst
<1>3. /\ Prefix >= 2 /\ writer.segments[2] = ApplicationData8("spiff", "none")
      /\ \A j \in 3..Prefix : writer.segments[j] = ApplicationData8("entry", "none")
  BY <1>2, Zenon DEF Directory
<1>4. CASE i = Prefix + 1
  <2>1. InHeader(settings, StateOfFirst, i - Prefix, writer.segments[i])
    <3>1. i > Prefix /\ i <= HeaderEnd
      BY <1>1, <1>4
    <3> QED  BY <3>1, HeaderHolds
  <2>2. InHeader(settings, "spiff_header", 1, writer.segments[i])
    <3>1. StateOfFirst = "spiff_header" /\ i - Prefix = 1
      BY <1>1, <1>3, <1>4 DEF StateOfFirst
    <3> QED  BY <2>1, <3>1
  <2>3. writer.segments[i] = ApplicationData8("endOfDirectory", "none")
    BY <2>2 DEF InHeader
  <2>4. EntryAt(i) = "endOfDirectory"
    BY <1>1, <1>3, <1>4 DEF EntryAt
  <2> QED  BY <1>3, <2>3, <2>4
<1>5. CASE i # Prefix + 1 /\ i # 2
  <2>1. i \in 3..Prefix /\ EntryAt(i) = "entry"
    BY <1>1, <1>5 DEF EntryAt
  <2> QED  BY <1>3, <2>1
<1>6. CASE i = 2
  BY <1>3, <1>6 DEF EntryAt
<1> QED  BY <1>4, <1>5, <1>6

\* The frame is the second segment of the header.
LEMMA FrameHolds ==
  ASSUME Readable, Prefix + 2 <= Len(writer.segments)
  PROVE  writer.segments[Prefix + 2] = StartOfFrame(settings.frame)
<1>1. Prefix \in Nat /\ HeaderEnd \in Nat /\ HeaderEnd >= Prefix + 2
  BY PartsOfStream
<1>2. InHeader(settings, StateOfFirst, (Prefix + 2) - Prefix, writer.segments[Prefix + 2])
  BY <1>1, HeaderHolds
<1>3. (Prefix + 2) - Prefix = 2
  BY <1>1
<1> QED  BY <1>2, <1>3 DEF InHeader

\* A transformation and presets follow it.
LEMMA TablesHold ==
  ASSUME Readable, NEW i \in Nat, i >= Prefix + 3, i <= HeaderEnd, i <= Len(writer.segments)
  PROVE  \/ /\ i = Prefix + UpToTransformation(settings)
            /\ writer.segments[i] = ApplicationData8("transformation", settings.transformation)
         \/ /\ i = Prefix + UpToTransformation(settings) + 1
            /\ writer.segments[i] = PresetSegment(WrittenPreset(settings))
<1> DEFINE u == UpToTransformation(settings)
<1>1. /\ Prefix \in Nat /\ HeaderEnd \in Nat /\ u \in 2..3 /\ HeaderEnd <= Prefix + u + 1
  BY PartsOfStream
<1>2. InHeader(settings, StateOfFirst, i - Prefix, writer.segments[i])
  BY <1>1, HeaderHolds
<1> HIDE DEF u
<1>3. (i = Prefix + u /\ i - Prefix = 3 /\ i - Prefix <= u) \/ (i = Prefix + u + 1 /\ i - Prefix = u + 1)
  BY <1>1
<1>4. CASE i = Prefix + u /\ i - Prefix = 3 /\ i - Prefix <= u
  BY <1>2, <1>4 DEF InHeader, u
<1>5. CASE i = Prefix + u + 1 /\ i - Prefix = u + 1
  BY <1>2, <1>5 DEF InHeader, u
<1> QED  BY <1>3, <1>4, <1>5 DEF u

\* A scan of the first encode.
LEMMA ScanHolds ==
  ASSUME Readable, NEW i \in Nat, i > HeaderEnd, i <= ScansEnd, i <= Len(writer.segments),
         CodedTo(i - 1)
  PROVE  InScans(settings, writer.segments[i])
<1>1. /\ Prefix \in Nat /\ HeaderEnd \in Nat /\ HeaderEnd = Prefix + HeaderLength(settings)
      /\ ScansEnd + 1 = Prefix + Length(settings) /\ IsImage(settings) /\ ScansEnd \in Nat
  BY PartsOfStream
<1>2. HeaderLength(settings) \in Nat /\ Length(settings) \in Nat
  BY <1>1, Lengths
<1>3. i > Prefix /\ i - Prefix > HeaderLength(settings) /\ i - Prefix < Length(settings)
  BY <1>1, <1>2
<1>4. IsWritten(settings, StateOfFirst, i - Prefix, writer.segments[i])
  BY <1>3, StreamHolds
<1> QED  BY <1>3, <1>4 DEF IsWritten

\* The end of the image follows its scans.
LEMMA EndHolds ==
  ASSUME Readable, ScansEnd < Len(writer.segments), CodedTo(ScansEnd)
  PROVE  writer.segments[ScansEnd + 1] = Marker("EOI")
<1>1. /\ Prefix \in Nat /\ HeaderEnd \in Nat /\ HeaderEnd = Prefix + HeaderLength(settings)
      /\ ScansEnd + 1 = Prefix + Length(settings) /\ IsImage(settings) /\ ScansEnd \in Nat
      /\ Len(writer.segments) \in Nat
  BY PartsOfStream
<1>2. HeaderLength(settings) \in Nat /\ Length(settings) \in Nat /\ Length(settings) >= 1
  BY <1>1, Lengths
<1> DEFINE i == ScansEnd + 1
<1>3. /\ i \in Nat /\ i > Prefix /\ i <= Len(writer.segments) /\ i - 1 = ScansEnd
      /\ i - Prefix = Length(settings)
  BY <1>1, <1>2
<1> HIDE DEF i
<1>4. IsWritten(settings, StateOfFirst, i - Prefix, writer.segments[i])
  <2>1. CodedTo(i - 1)
    BY <1>3
  <2> QED  BY <1>3, <2>1, StreamHolds
<1>5. writer.segments[i] = Marker("EOI")
  BY <1>3, <1>4 DEF IsWritten
<1> QED  BY <1>5 DEF i

-----------------------------------------------------------------------------
(* The steps of the reader.                                                *)

\* A call that returns.
LEMMA CallReturns ==
  ASSUME CallFits(call), NEW result \in {"ok", "error"}, call' = Returned(result)
  PROVE  /\ CallFits(call') /\ call'.op = "returned" /\ call'.client = call.client
         /\ call'.found = call.found /\ call'.component = call.component
         /\ call'.outcome = result
<1>1. call = [op |-> call.op, client |-> call.client, found |-> call.found,
              component |-> call.component, mode |-> call.mode, outcome |-> call.outcome]
  BY DEF CallFits
<1>2. call' = [op |-> "returned", client |-> call.client, found |-> call.found,
               component |-> call.component, mode |-> call.mode, outcome |-> result]
  BY <1>1 DEF Returned
<1>3. /\ call'.op = "returned" /\ call'.client = call.client /\ call'.found = call.found
      /\ call'.component = call.component /\ call'.mode = call.mode /\ call'.outcome = result
  BY <1>2
<1> QED  BY <1>2, <1>3 DEF CallFits, Ops

\* A call that goes on with another step.
LEMMA CallGoesOn ==
  ASSUME CallFits(call), NEW op \in Ops, call' = [call EXCEPT !.op = op]
  PROVE  /\ CallFits(call') /\ call'.op = op /\ call'.client = call.client
         /\ call'.found = call.found /\ call'.component = call.component
         /\ call'.outcome = call.outcome
<1>1. call = [op |-> call.op, client |-> call.client, found |-> call.found,
              component |-> call.component, mode |-> call.mode, outcome |-> call.outcome]
  BY DEF CallFits
<1>2. call' = [op |-> op, client |-> call.client, found |-> call.found,
               component |-> call.component, mode |-> call.mode, outcome |-> call.outcome]
  BY <1>1
<1>3. /\ call'.op = op /\ call'.client = call.client /\ call'.found = call.found
      /\ call'.component = call.component /\ call'.mode = call.mode
      /\ call'.outcome = call.outcome
  BY <1>2
<1> QED  BY <1>2, <1>3 DEF CallFits

\* A segment is consumed.
LEMMA SegmentConsumed ==
  ASSUME SourceFits(source), ~AtEnd, Consume, Readable
  PROVE  /\ SourceFits(source') /\ source'.read = source.read + 1 /\ ~source'.ended
         /\ source.read + 1 <= Len(writer.segments)
<1>1. Len(writer.segments) \in Nat
  BY PartsOfStream
<1>2. /\ source = [kind |-> source.kind, read |-> source.read, ended |-> source.ended]
      /\ source.read \in Nat /\ source.ended \in BOOLEAN
      /\ ~source.ended /\ source.read < Len(writer.segments)
  BY <1>1 DEF SourceFits, AtEnd
<1>3. source' = [kind |-> source.kind, read |-> source.read + 1, ended |-> source.ended]
  BY <1>2 DEF Consume
<1>4. source'.kind = source.kind /\ source'.read = source.read + 1 /\ source'.ended = source.ended
  BY <1>3
<1> QED  BY <1>1, <1>2, <1>3, <1>4 DEF SourceFits

\* A call that runs has not failed.
LEMMA CallRuns ==
  ASSUME CallInv(reader, source, call, asserts), call.op \notin {"returned", "idle"}
  PROVE  /\ CallFits(call) /\ SourceFits(source) /\ asserts \subseteq {33}
         /\ call.outcome = "ok" /\ ~source.ended
         /\ Place(reader, source.read, call, asserts)
BY DEF CallInv, CallFits, Failed

\* A call fails.
LEMMA CallFails ==
  ASSUME CallFits(call), call' = Returned("error"), SourceFits(source'), asserts' \subseteq {33},
         call.client \in {"spiff", "header", "decode"},
         call.client \in {"spiff", "header"} => ~HeaderReadable,
         call.client = "decode" => ~Decodable \/ 33 \in asserts'
  PROVE  CallInv(reader', source', call', asserts')
<1>1. /\ CallFits(call') /\ call'.op = "returned" /\ call'.client = call.client
      /\ call'.outcome = "error"
  BY CallReturns
<1>2. Failed(call', asserts')
  BY <1>1 DEF Failed
<1> QED  BY <1>1, <1>2 DEF CallInv

\* The states of a reader at the places of the header.
LEMMA StatesOfHeader ==
  ASSUME NEW rd, NEW k
  PROVE  /\ Untouched(rd, k) => rd.state = "before_start_of_image"
         /\ AtStart(rd, k) => rd.state = "header_section"
         /\ InDirectory(rd, k) => rd.state = "spiff_header_section"
         /\ BehindDirectory(rd, k) => rd.state = "image_section"
         /\ InTables(rd, k) => rd.state = "scan_section"
<1>1. Untouched(rd, k) => rd.state = "before_start_of_image"
  BY DEF Untouched, Blank, ReaderOf
<1>2. AtStart(rd, k) => rd.state = "header_section"
  BY DEF AtStart, Blank, ReaderOf
<1>3. InDirectory(rd, k) => rd.state = "spiff_header_section"
  BY DEF InDirectory, Blank, ReaderOf
<1>4. BehindDirectory(rd, k) => rd.state = "image_section"
  BY DEF BehindDirectory, Blank, ReaderOf
<1>5. InTables(rd, k) => rd.state = "scan_section"
  BY DEF InTables, HeaderTo, ReaderOf
<1> QED  BY <1>1, <1>2, <1>3, <1>4, <1>5

\* The start of the image.
LEMMA StartStep ==
  ASSUME Readable, CallInv(reader, source, call, asserts), ~AtEnd, ReadStartOfImage(Upcoming)
  PROVE  CallInv(reader', source', call', asserts')
<1>1. call.op = "ReadHeader" /\ reader.state = "before_start_of_image" /\ Consume /\ UNCHANGED asserts
  BY DEF ReadStartOfImage
<1>2. /\ CallFits(call) /\ SourceFits(source) /\ asserts \subseteq {33} /\ call.outcome = "ok"
      /\ ~call.found /\ ReadsHeader(reader, source.read, call)
  BY <1>1, CallRuns DEF Place
<1>3. /\ SourceFits(source') /\ source'.read = source.read + 1 /\ ~source'.ended
      /\ source.read + 1 <= Len(writer.segments)
  BY <1>1, <1>2, SegmentConsumed
<1>4. Untouched(reader, source.read)
  BY <1>1, <1>2, StatesOfHeader DEF ReadsHeader
<1>5. source.read = 0 /\ reader = Blank("before_start_of_image")
  BY <1>4 DEF Untouched
<1>6. Upcoming = Marker("SOI")
  BY <1>3, <1>5, StartHolds DEF Upcoming
<1>7. reader' = [reader EXCEPT !.state = "header_section"] /\ UNCHANGED call
  <2>1. Upcoming.marker = "SOI"
    BY <1>6 DEF Marker
  <2> QED  BY <2>1 DEF ReadStartOfImage
<1>8. reader' = Blank("header_section")
  BY <1>5, <1>7 DEF Blank, ReaderOf
<1>9. AtStart(reader', source'.read) /\ source'.read = 1
  <2>1. Prefix \in Nat
    BY PartsOfStream
  <2> QED  BY <1>3, <1>5, <1>8, <2>1 DEF AtStart
<1>10. ReadsHeader(reader', source'.read, call')
  BY <1>2, <1>7, <1>9 DEF ReadsHeader
<1>11. Place(reader', source'.read, call', asserts')
  BY <1>1, <1>2, <1>7, <1>10 DEF Place
<1> QED  BY <1>1, <1>2, <1>3, <1>7, <1>11 DEF CallInv

\* What a segment of the header yields.
ResultOf(seg) ==
  IF reader.state = "spiff_header_section"
  THEN ReadSpiffDirectoryEntry(reader, seg, call.found)
  ELSE ReadMarkerSegment(reader, seg, call.client = "spiff", call.found)

\* A segment of the header that is accepted.
LEMMA SegmentAccepted ==
  ASSUME NEW seg, ReadHeaderSegment(seg), CallFits(call), seg.marker # "SOS",
         ValidMarker(reader, seg.marker),
         NEW rd, NEW found \in BOOLEAN, ResultOf(seg) = Accept(rd, found)
  PROVE  /\ CallFits(call') /\ call'.found = found /\ call'.client = call.client
         /\ call'.component = call.component /\ call'.outcome = call.outcome
         /\ IF SpiffComesFirst(rd, found)
            THEN reader' = [rd EXCEPT !.state = "spiff_header_section"] /\ call'.op = "headerRead"
            ELSE reader' = rd /\ call'.op = "ReadHeader"
<1> DEFINE res == ResultOf(seg)
           op == IF SpiffComesFirst(rd, found) THEN "headerRead" ELSE "ReadHeader"
<1>1. res.reader = rd /\ res.found = found /\ res.ok
  BY DEF Accept
<1>2. call.op = "ReadHeader"
  BY DEF ReadHeaderSegment
<1>3. /\ reader' = IF res.ok /\ SpiffComesFirst(res.reader, res.found)
                   THEN [res.reader EXCEPT !.state = "spiff_header_section"]
                   ELSE res.reader
      /\ call' = IF ~res.ok THEN Returned("error")
                 ELSE [call EXCEPT !.found = res.found,
                                   !.op = IF SpiffComesFirst(res.reader, res.found)
                                          THEN "headerRead" ELSE @]
  BY DEF ReadHeaderSegment, ResultOf
<1> HIDE DEF res
<1>4. /\ reader' = IF SpiffComesFirst(rd, found)
                   THEN [rd EXCEPT !.state = "spiff_header_section"] ELSE rd
      /\ call' = [call EXCEPT !.found = found,
                              !.op = IF SpiffComesFirst(rd, found) THEN "headerRead" ELSE @]
  BY <1>1, <1>3
<1>5. call = [op |-> "ReadHeader", client |-> call.client, found |-> call.found,
              component |-> call.component, mode |-> call.mode, outcome |-> call.outcome]
  BY <1>2 DEF CallFits
<1>6a. call' = [call EXCEPT !.found = found, !.op = op]
  <2>1. CASE SpiffComesFirst(rd, found)
    BY <1>4, <2>1
  <2>2. CASE ~SpiffComesFirst(rd, found)
    BY <1>2, <1>4, <2>2
  <2> QED  BY <2>1, <2>2
<1> HIDE DEF op
<1>6. call' = [op |-> op, client |-> call.client, found |-> found,
               component |-> call.component, mode |-> call.mode, outcome |-> call.outcome]
  BY <1>5, <1>6a
<1>7. /\ call'.op = op /\ call'.client = call.client /\ call'.found = found
      /\ call'.component = call.component /\ call'.mode = call.mode
      /\ call'.outcome = call.outcome
  BY <1>6
<1>8. op \in Ops
  BY DEF op, Ops
<1>9. CallFits(call')
  BY <1>6, <1>7, <1>8 DEF CallFits
<1> QED  BY <1>4, <1>7, <1>9 DEF op

\* A step of ReadHeader.
HeaderStep ==
  /\ Readable /\ CallInv(reader, source, call, asserts)
  /\ ~AtEnd /\ ReadHeaderSegment(Upcoming)

\* What such a step begins with.
LEMMA HeaderStepBegins ==
  ASSUME HeaderStep
  PROVE  /\ call.op = "ReadHeader" /\ UNCHANGED asserts
         /\ CallFits(call) /\ asserts \subseteq {33} /\ call.outcome = "ok"
         /\ ~call.found /\ ReadsHeader(reader, source.read, call)
         /\ ~Untouched(reader, source.read)
         /\ SourceFits(source') /\ source'.read = source.read + 1 /\ ~source'.ended
         /\ source.read \in Nat /\ source.read + 1 <= Len(writer.segments)
         /\ Upcoming = writer.segments[source.read + 1]
<1>1. /\ call.op = "ReadHeader" /\ reader.state # "before_start_of_image" /\ Consume
      /\ UNCHANGED asserts
  BY DEF HeaderStep, ReadHeaderSegment
<1>2. /\ CallFits(call) /\ SourceFits(source) /\ asserts \subseteq {33} /\ call.outcome = "ok"
      /\ ~call.found /\ ReadsHeader(reader, source.read, call)
  BY <1>1, CallRuns DEF Place, HeaderStep
<1>3. /\ SourceFits(source') /\ source'.read = source.read + 1 /\ ~source'.ended
      /\ source.read + 1 <= Len(writer.segments)
  BY <1>1, <1>2, SegmentConsumed DEF HeaderStep
<1>4. ~Untouched(reader, source.read)
  BY <1>1, StatesOfHeader
<1>5. source.read \in Nat
  BY <1>2 DEF SourceFits
<1> QED  BY <1>1, <1>2, <1>3, <1>4, <1>5 DEF Upcoming

\* The header goes on.
LEMMA HeaderGoesOn ==
  ASSUME HeaderStep, Upcoming.marker # "SOS", ValidMarker(reader, Upcoming.marker),
         NEW rd, ResultOf(Upcoming) = Accept(rd, FALSE), ReadsHeader(rd, source.read + 1, call)
  PROVE  CallInv(reader', source', call', asserts')
<1>1. /\ UNCHANGED asserts /\ CallFits(call) /\ asserts \subseteq {33} /\ call.outcome = "ok"
      /\ SourceFits(source') /\ source'.read = source.read + 1 /\ ~source'.ended
  BY HeaderStepBegins
<1>2. ReadHeaderSegment(Upcoming) /\ FALSE \in BOOLEAN
  BY DEF HeaderStep
<1>3. ~SpiffComesFirst(rd, FALSE)
  BY DEF SpiffComesFirst
<1>4. /\ CallFits(call') /\ ~call'.found /\ call'.client = call.client
      /\ call'.outcome = call.outcome /\ call'.op = "ReadHeader" /\ reader' = rd
  BY <1>1, <1>2, <1>3, SegmentAccepted
<1>5. ReadsHeader(reader', source'.read, call')
  BY <1>1, <1>4 DEF ReadsHeader
<1>6. Place(reader', source'.read, call', asserts')
  BY <1>4, <1>5 DEF Place
<1> QED  BY <1>1, <1>4, <1>6 DEF CallInv

\* A frame segment that encode has written.
LEMMA FrameRead ==
  ASSUME Readable, NEW st, NEW found
  PROVE  ReadStartOfFrameSegment(Blank(st), StartOfFrame(settings.frame), found)
           = Accept(HeaderTo(Prefix + 2), found)
<1> DEFINE f == settings.frame
           seg == StartOfFrame(f)
           ids == [k \in 1..f.components |-> k]
<1>1. /\ f.components \in Nat /\ f = [bits |-> f.bits, components |-> f.components]
  <2>1. IsImage(settings)
    BY PartsOfStream
  <2> QED  BY <2>1 DEF IsImage
<1> HIDE DEF f
<1>2. /\ seg.ids = ids /\ seg.bits = f.bits /\ seg.badSampling = 0 /\ seg.defect = FALSE
  BY DEF StartOfFrame
<1> HIDE DEF seg
<1>3. Len(ids) = f.components /\ \A k \in 1..f.components : ids[k] = k
  BY <1>1
<1> HIDE DEF ids
<1> DEFINE blank == Blank(st)
<1>4. /\ blank = [state |-> st, frame |-> NoFrame, componentIds |-> {}, preset |-> NoPreset,
                  near |-> 0, mode |-> "none", transformation |-> "none", scanData |-> "good"]
      /\ blank.componentIds = {}
  BY DEF Blank, ReaderOf
<1> HIDE DEF blank
<1>5. RefusedComponents(blank, seg) = {}
  <2>1. ASSUME NEW k \in 1..f.components
        PROVE  /\ k # 0 /\ ids[k] \notin {}
               /\ ~ \E j \in 1..(k - 1) : ids[j] = ids[k]
    <3>1. \A j \in 1..(k - 1) : ids[j] = j /\ j # k
      BY <1>1, <1>3
    <3> QED  BY <1>1, <1>3, <3>1
  <2> QED  BY <1>2, <1>3, <1>4, <2>1 DEF RefusedComponents
<1> DEFINE all == {seg.ids[k] : k \in 1..Len(seg.ids)}
           framed == [blank EXCEPT !.frame = [bits |-> seg.bits, components |-> Len(seg.ids)],
                                   !.componentIds = @ \cup all]
<1>6. ReadStartOfFrameSegment(blank, seg, found)
        = Accept([framed EXCEPT !.state = "scan_section"], found)
  BY <1>2, <1>5 DEF ReadStartOfFrameSegment
<1>7. all = Identifiers(settings)
  BY DEF Identifiers, seg, f
<1>8. [bits |-> seg.bits, components |-> Len(seg.ids)] = f
  BY <1>1, <1>2, <1>3
<1> HIDE DEF all
<1>9. [framed EXCEPT !.state = "scan_section"]
        = ReaderOf("scan_section", f, Identifiers(settings), NoPreset, 0, "none", "none", "good")
  <2> DEFINE frame == [bits |-> seg.bits, components |-> Len(seg.ids)]
  <2> HIDE DEF frame
  <2> DEFINE base == [blank EXCEPT !.frame = frame, !.componentIds = @ \cup all]
  <2>1. blank.componentIds \cup all = all
    BY <1>4
  <2>2. framed = base
    BY DEF frame
  <2>3. base = [blank EXCEPT !.frame = frame, !.componentIds = all]
    BY <2>1
  <2> HIDE DEF base, framed
  <2>3a. base = [state |-> st, frame |-> frame, componentIds |-> all, preset |-> NoPreset,
                near |-> 0, mode |-> "none", transformation |-> "none", scanData |-> "good"]
    BY <1>4, <2>3
  <2>3b. [base EXCEPT !.state = "scan_section"]
          = [state |-> "scan_section", frame |-> frame, componentIds |-> all, preset |-> NoPreset,
             near |-> 0, mode |-> "none", transformation |-> "none", scanData |-> "good"]
    BY <2>3a
  <2>4. frame = f
    BY <1>8 DEF frame
  <2> QED  BY <1>7, <2>2, <2>3b, <2>4 DEF ReaderOf
<1>10. /\ (IF Prefix + 2 >= HeaderEnd THEN WrittenPreset(settings) ELSE NoPreset) = NoPreset
       /\ (IF Prefix + 2 >= Prefix + UpToTransformation(settings)
           THEN settings.transformation ELSE "none") = "none"
  <2>1. /\ Prefix \in Nat /\ HeaderEnd = Prefix + HeaderLength(settings)
    BY PartsOfStream
  <2>2. IsImage(settings)
    BY PartsOfStream
  <2>3. HeaderLength(settings) \in Nat /\ UpToTransformation(settings) \in 2..3
    BY <2>2, Lengths
  <2>4. Prefix + 2 >= HeaderEnd => WrittenPreset(settings) = NoPreset
    <3>1. ASSUME Prefix + 2 >= HeaderEnd PROVE ~WritesPreset(settings)
      <4>1. HeaderLength(settings) <= 2
        BY <2>1, <2>3, <3>1
      <4> QED  BY <2>3, <4>1 DEF HeaderLength
    <3>2. ~WritesPreset(settings) => WrittenPreset(settings) = NoPreset
      BY DEF WritesPreset, WrittenPreset
    <3> QED  BY <3>1, <3>2
  <2>5. Prefix + 2 >= Prefix + UpToTransformation(settings) => settings.transformation = "none"
    <3>1. ASSUME Prefix + 2 >= Prefix + UpToTransformation(settings)
          PROVE  UpToTransformation(settings) # 3
      BY <2>1, <2>3, <3>1
    <3> QED  BY <3>1 DEF UpToTransformation
  <2> QED  BY <2>4, <2>5
<1>11. HeaderTo(Prefix + 2)
         = ReaderOf("scan_section", f, Identifiers(settings), NoPreset, 0, "none", "none", "good")
  BY <1>10 DEF HeaderTo, f
<1>12. ReadStartOfFrameSegment(blank, seg, found) = Accept(HeaderTo(Prefix + 2), found)
  BY <1>6, <1>9, <1>11
<1> QED  BY <1>12 DEF blank, seg, f

\* The frame.
LEMMA FrameStep ==
  ASSUME HeaderStep, source.read = Prefix + 1,
         NEW st \in {"header_section", "image_section"}, reader = Blank(st),
         call.client = "header" \/ (call.client = "spiff" /\ Prefix = 0)
  PROVE  CallInv(reader', source', call', asserts')
<1>1. /\ ~call.found /\ source.read + 1 <= Len(writer.segments)
      /\ Upcoming = writer.segments[source.read + 1]
  BY HeaderStepBegins
<1>2. /\ Prefix \in Nat /\ HeaderEnd \in Nat /\ HeaderEnd >= Prefix + 2
  BY PartsOfStream DEF HeaderStep
<1>3. source.read + 1 = Prefix + 2
  BY <1>2
<1>4. Upcoming = StartOfFrame(settings.frame)
  BY <1>1, <1>3, FrameHolds DEF HeaderStep
<1>5. Upcoming.marker = "SOF"
  BY <1>4 DEF StartOfFrame
<1>6. reader.state = st
  BY DEF Blank, ReaderOf
<1>7. ValidMarker(reader, Upcoming.marker)
  BY <1>5, <1>6 DEF ValidMarker
<1>8. ResultOf(Upcoming) = Accept(HeaderTo(Prefix + 2), FALSE)
  <2>1. ResultOf(Upcoming) = ReadMarkerSegment(reader, Upcoming, call.client = "spiff", call.found)
    BY <1>6 DEF ResultOf
  <2>2. ReadMarkerSegment(reader, Upcoming, call.client = "spiff", call.found)
          = ReadStartOfFrameSegment(reader, Upcoming, call.found)
    BY <1>5 DEF ReadMarkerSegment
  <2>3. call.found = FALSE
    <3>1. CallFits(call)
      BY HeaderStepBegins
    <3> QED  BY <1>1, <3>1 DEF CallFits
  <2>4. ReadStartOfFrameSegment(Blank(st), StartOfFrame(settings.frame), FALSE)
          = Accept(HeaderTo(Prefix + 2), FALSE)
    BY FrameRead DEF HeaderStep
  <2> QED  BY <1>4, <2>1, <2>2, <2>3, <2>4
<1>9. InTables(HeaderTo(Prefix + 2), source.read + 1)
  BY <1>2, <1>3 DEF InTables
<1>10. ReadsHeader(HeaderTo(Prefix + 2), source.read + 1, call)
  BY <1>9 DEF ReadsHeader
<1> QED  BY <1>5, <1>7, <1>8, <1>10, HeaderGoesOn

\* Behind the start of image marker.
LEMMA StartSectionStep ==
  ASSUME HeaderStep, AtStart(reader, source.read),
         call.client = "header" \/ (call.client = "spiff" /\ source.read = 1)
  PROVE  CallInv(reader', source', call', asserts')
<1> DEFINE i == source.read + 1
<1>1. /\ UNCHANGED asserts /\ CallFits(call) /\ asserts \subseteq {33} /\ call.outcome = "ok"
      /\ ~call.found /\ SourceFits(source') /\ source'.read = i /\ ~source'.ended
      /\ source.read \in Nat /\ i <= Len(writer.segments) /\ Upcoming = writer.segments[i]
  BY HeaderStepBegins
<1>2. Prefix \in Nat
  BY PartsOfStream DEF HeaderStep
<1>3. /\ source.read >= 1 /\ source.read <= Prefix + 1 /\ reader = Blank("header_section")
  BY DEF AtStart
<1>4. CASE source.read = Prefix + 1
  <2>1. call.client = "header" \/ (call.client = "spiff" /\ Prefix = 0)
    BY <1>2, <1>4
  <2> QED  BY <1>3, <1>4, <2>1, FrameStep
<1>5. CASE source.read # Prefix + 1
  <2>1. i \in Nat /\ i >= 2 /\ i <= Prefix + 1
    BY <1>1, <1>2, <1>3, <1>5
  <2>2. Prefix >= 2 /\ Upcoming = ApplicationData8(EntryAt(i), "none")
    <3>1. Prefix >= 2 /\ writer.segments[i] = ApplicationData8(EntryAt(i), "none")
      <4> HIDE DEF i
      <4> QED  BY <1>1, <2>1, DirectoryHolds DEF HeaderStep
    <3> QED  BY <1>1, <3>1
  <2>3. Upcoming.marker = "APP8" /\ Upcoming.kind = EntryAt(i)
    BY <2>2 DEF ApplicationData8
  <2>4. reader.state = "header_section" /\ ValidMarker(reader, Upcoming.marker)
    BY <1>3, <2>3 DEF Blank, ReaderOf, ValidMarker
  <2>5. ResultOf(Upcoming) = TryReadApplicationData8Segment(reader, Upcoming, call.client = "spiff")
    BY <2>3, <2>4 DEF ResultOf, ReadMarkerSegment
  <2>6. CASE i = 2 /\ call.client = "spiff"
    <3>1. EntryAt(i) = "spiff"
      BY <2>6 DEF EntryAt
    <3>2. ResultOf(Upcoming) = Accept(reader, TRUE)
      BY <2>3, <2>5, <2>6, <3>1 DEF TryReadApplicationData8Segment, Accept
    <3>3. SpiffComesFirst(reader, TRUE)
      BY <2>4 DEF SpiffComesFirst
    <3>4. ReadHeaderSegment(Upcoming) /\ TRUE \in BOOLEAN
      BY DEF HeaderStep
    <3>5. /\ CallFits(call') /\ call'.found /\ call'.client = call.client
          /\ call'.outcome = call.outcome /\ call'.op = "headerRead"
          /\ reader' = [reader EXCEPT !.state = "spiff_header_section"]
      BY <1>1, <2>3, <2>4, <3>2, <3>3, <3>4, SegmentAccepted
    <3>6. reader' = Blank("spiff_header_section")
      BY <1>3, <3>5 DEF Blank, ReaderOf
    <3>7. InDirectory(reader', source'.read)
      BY <1>1, <2>2, <2>6, <3>6 DEF InDirectory
    <3>8. HasReadHeader(reader', source'.read, call')
      BY <2>6, <3>5, <3>7 DEF HasReadHeader
    <3>9. Place(reader', source'.read, call', asserts')
      BY <3>5, <3>8 DEF Place
    <3> QED  BY <1>1, <3>5, <3>9 DEF CallInv
  <2>7. CASE ~(i = 2 /\ call.client = "spiff")
    <3>1. call.client = "header"
      BY <2>7
    <3>2. ResultOf(Upcoming) = Accept(reader, FALSE)
      <4>1. EntryAt(i) \in {"spiff", "entry", "endOfDirectory"}
        BY DEF EntryAt
      <4>2. ~(call.client = "spiff")
        BY <3>1
      <4> HIDE DEF i
      <4> QED  BY <2>3, <2>5, <4>1, <4>2 DEF TryReadApplicationData8Segment, Accept
    <3>3. AtStart(reader, i)
      BY <1>3, <2>1 DEF AtStart
    <3>4. ReadsHeader(reader, i, call)
      BY <3>1, <3>3 DEF ReadsHeader
    <3> QED  BY <2>3, <2>4, <3>2, <3>4, HeaderGoesOn
  <2> QED  BY <2>6, <2>7
<1> QED  BY <1>4, <1>5

\* In a SPIFF directory.
LEMMA DirectoryStep ==
  ASSUME HeaderStep, InDirectory(reader, source.read), call.client = "header"
  PROVE  CallInv(reader', source', call', asserts')
<1> DEFINE i == source.read + 1
<1>1. /\ CallFits(call) /\ ~call.found
      /\ source.read \in Nat /\ i <= Len(writer.segments) /\ Upcoming = writer.segments[i]
  BY HeaderStepBegins
<1>2. Prefix \in Nat
  BY PartsOfStream DEF HeaderStep
<1>3. /\ source.read >= 2 /\ source.read <= Prefix /\ reader = Blank("spiff_header_section")
  BY DEF InDirectory
<1>4. i \in Nat /\ i >= 3 /\ i <= Prefix + 1
  BY <1>1, <1>2, <1>3
<1>5. Upcoming = ApplicationData8(EntryAt(i), "none")
  <2>1. writer.segments[i] = ApplicationData8(EntryAt(i), "none")
    <3> HIDE DEF i
    <3>1. i >= 2
      BY <1>4
    <3> QED  BY <1>1, <1>4, <3>1, DirectoryHolds DEF HeaderStep
  <2> QED  BY <1>1, <2>1
<1>6. EntryAt(i) = IF i = Prefix + 1 THEN "endOfDirectory" ELSE "entry"
  BY <1>4 DEF EntryAt
<1> HIDE DEF i
<1>7. Upcoming.marker = "APP8" /\ Upcoming.kind = EntryAt(i)
  BY <1>5 DEF ApplicationData8
<1>8. reader.state = "spiff_header_section" /\ ValidMarker(reader, Upcoming.marker)
  BY <1>3, <1>7 DEF Blank, ReaderOf, ValidMarker
<1>9. call.found = FALSE
  BY <1>1 DEF CallFits
<1> DEFINE rd == [reader EXCEPT !.state = IF Upcoming.kind = "endOfDirectory" THEN "image_section" ELSE @]
<1>10. ResultOf(Upcoming) = Accept(rd, FALSE)
  BY <1>6, <1>7, <1>8, <1>9 DEF ResultOf, ReadSpiffDirectoryEntry
<1>11. CASE i = Prefix + 1
  <2>1. rd = Blank("image_section")
    BY <1>3, <1>6, <1>7, <1>11 DEF Blank, ReaderOf
  <2>2. Prefix >= 2
    BY <1>2, <1>4, <1>11
  <2>3. BehindDirectory(rd, i)
    BY <1>11, <2>1, <2>2 DEF BehindDirectory
  <2> HIDE DEF rd
  <2>4. ReadsHeader(rd, i, call)
    BY <2>3 DEF ReadsHeader
  <2> QED  BY <1>7, <1>8, <1>10, <2>4, HeaderGoesOn DEF i
<1>12. CASE i # Prefix + 1
  <2>1. rd = Blank("spiff_header_section")
    BY <1>3, <1>6, <1>7, <1>12 DEF Blank, ReaderOf
  <2>2. InDirectory(rd, i)
    BY <1>2, <1>4, <1>12, <2>1 DEF InDirectory
  <2> HIDE DEF rd
  <2>3. ReadsHeader(rd, i, call)
    BY <2>2 DEF ReadsHeader
  <2> QED  BY <1>7, <1>8, <1>10, <2>3, HeaderGoesOn DEF i
<1> QED  BY <1>11, <1>12

\* Behind a SPIFF directory.
LEMMA BehindDirectoryStep ==
  ASSUME HeaderStep, BehindDirectory(reader, source.read), call.client = "header"
  PROVE  CallInv(reader', source', call', asserts')
BY FrameStep DEF BehindDirectory

\* The tables.
LEMMA TableRead ==
  ASSUME Readable, NEW k \in Nat, k >= Prefix + 2, k < HeaderEnd, k + 1 <= Len(writer.segments),
         NEW seg, seg = writer.segments[k + 1], NEW wanted
  PROVE  /\ seg.marker \in {"APP8", "LSE"}
         /\ ReadMarkerSegment(HeaderTo(k), seg, wanted, FALSE) = Accept(HeaderTo(k + 1), FALSE)
<1> DEFINE u == UpToTransformation(settings)
<1>1. /\ Prefix \in Nat /\ HeaderEnd \in Nat /\ u \in 2..3
      /\ HeaderEnd >= Prefix + u /\ HeaderEnd <= Prefix + u + 1
  BY PartsOfStream
<1> DEFINE Behind(preset, transformation) ==
             ReaderOf("scan_section", settings.frame, Identifiers(settings), preset, 0, "none",
                      transformation, "good")
<1>2. u = 2 => settings.transformation = "none"
  BY DEF UpToTransformation
<1>3. HeaderEnd < Prefix + u + 1 => WrittenPreset(settings) = NoPreset
  <2>1. HeaderEnd = Prefix + HeaderLength(settings) /\ HeaderLength(settings) \in Nat
    <3>1. IsImage(settings) /\ HeaderEnd = Prefix + HeaderLength(settings)
      BY PartsOfStream
    <3> QED  BY <3>1, Lengths
  <2>2. HeaderEnd < Prefix + u + 1 => HeaderLength(settings) # u + 1
    BY <1>1, <2>1
  <2> QED  BY <2>2 DEF HeaderLength, WritesPreset, WrittenPreset, u
<1> HIDE DEF u
<1>4. HeaderTo(k) = Behind(NoPreset, IF k >= Prefix + u THEN settings.transformation ELSE "none")
  <2>1. ~(k >= HeaderEnd)
    BY <1>1
  <2> QED  BY <2>1 DEF HeaderTo, u
<1>5. HeaderTo(k + 1)
        = Behind(IF k + 1 >= HeaderEnd THEN WrittenPreset(settings) ELSE NoPreset,
                IF k + 1 >= Prefix + u THEN settings.transformation ELSE "none")
  BY DEF HeaderTo, u
<1>6. \/ k + 1 = Prefix + u /\ seg = ApplicationData8("transformation", settings.transformation)
      \/ k + 1 = Prefix + u + 1 /\ seg = PresetSegment(WrittenPreset(settings))
  <2> DEFINE i == k + 1
  <2>1. i \in Nat /\ i >= Prefix + 3 /\ i <= HeaderEnd /\ i <= Len(writer.segments)
    BY <1>1
  <2> HIDE DEF i
  <2>2. \/ i = Prefix + u /\ writer.segments[i] = ApplicationData8("transformation", settings.transformation)
        \/ i = Prefix + u + 1 /\ writer.segments[i] = PresetSegment(WrittenPreset(settings))
    BY <2>1, TablesHold DEF u
  <2> QED  BY <2>2 DEF i
<1>7. CASE k + 1 = Prefix + u /\ seg = ApplicationData8("transformation", settings.transformation)
  <2>1. seg.marker = "APP8" /\ seg.kind = "transformation" /\ seg.value = settings.transformation
    BY <1>7 DEF ApplicationData8
  <2>2. ReadMarkerSegment(HeaderTo(k), seg, wanted, FALSE)
          = Accept([HeaderTo(k) EXCEPT !.transformation = settings.transformation], FALSE)
    BY <2>1 DEF ReadMarkerSegment, TryReadApplicationData8Segment
  <2>3. HeaderTo(k) = Behind(NoPreset, "none")
    <3>1. ~(k >= Prefix + u)
      BY <1>1, <1>7
    <3> QED  BY <1>4, <3>1
  <2>4. HeaderTo(k + 1) = Behind(NoPreset, settings.transformation)
    <3>1. k + 1 >= Prefix + u
      BY <1>1, <1>7
    <3>2. (IF k + 1 >= HeaderEnd THEN WrittenPreset(settings) ELSE NoPreset) = NoPreset
      BY <1>1, <1>3, <1>7
    <3> QED  BY <1>5, <3>1, <3>2
  <2>5. [Behind(NoPreset, "none") EXCEPT !.transformation = settings.transformation]
          = Behind(NoPreset, settings.transformation)
    BY DEF ReaderOf
  <2> QED  BY <2>1, <2>2, <2>3, <2>4, <2>5
<1>8. CASE k + 1 = Prefix + u + 1 /\ seg = PresetSegment(WrittenPreset(settings))
  <2>1. seg.marker = "LSE" /\ seg.preset = WrittenPreset(settings) /\ seg.defect = FALSE
    BY <1>8 DEF PresetSegment
  <2>2. ReadMarkerSegment(HeaderTo(k), seg, wanted, FALSE)
          = Accept([HeaderTo(k) EXCEPT !.preset = WrittenPreset(settings)], FALSE)
    BY <2>1 DEF ReadMarkerSegment, ReadPresetParametersSegment
  <2>3. HeaderTo(k) = Behind(NoPreset, settings.transformation)
    <3>1. k >= Prefix + u
      BY <1>1, <1>8
    <3> QED  BY <1>4, <3>1
  <2>4. HeaderTo(k + 1) = Behind(WrittenPreset(settings), settings.transformation)
    <3>1. k + 1 >= Prefix + u /\ k + 1 >= HeaderEnd
      BY <1>1, <1>8
    <3> QED  BY <1>5, <3>1
  <2>5. [Behind(NoPreset, settings.transformation) EXCEPT !.preset = WrittenPreset(settings)]
          = Behind(WrittenPreset(settings), settings.transformation)
    BY DEF ReaderOf
  <2> QED  BY <2>1, <2>2, <2>3, <2>4, <2>5
<1> QED  BY <1>6, <1>7, <1>8

\* Behind the frame.
LEMMA TablesStep ==
  ASSUME HeaderStep, InTables(reader, source.read),
         call.client = "header" \/ (call.client = "spiff" /\ Prefix = 0)
  PROVE  CallInv(reader', source', call', asserts')
<1> DEFINE k == source.read
<1>1. /\ UNCHANGED asserts /\ CallFits(call) /\ asserts \subseteq {33} /\ call.outcome = "ok"
      /\ ~call.found /\ SourceFits(source') /\ source'.read = k + 1 /\ ~source'.ended
      /\ k \in Nat /\ k + 1 <= Len(writer.segments) /\ Upcoming = writer.segments[k + 1]
  BY HeaderStepBegins
<1>2. /\ Prefix \in Nat /\ HeaderEnd \in Nat /\ ScansEnd \in Nat /\ ScansEnd > HeaderEnd
  <2>1. /\ ScanCount(settings) \in Nat /\ ScanCount(settings) >= 1
        /\ ScansEnd = HeaderEnd + ScanCount(settings) /\ Prefix \in Nat /\ HeaderEnd \in Nat
    BY PartsOfStream DEF HeaderStep
  <2> QED  BY <2>1
<1>3. k >= Prefix + 2 /\ k <= HeaderEnd /\ reader = HeaderTo(k)
  BY DEF InTables
<1>4. reader.state = "scan_section" /\ reader.frame = settings.frame
  BY <1>3 DEF HeaderTo, ReaderOf
<1>5. call.found = FALSE
  BY <1>1 DEF CallFits
<1> HIDE DEF k
<1>6. CASE k < HeaderEnd
  <2>1. /\ Upcoming.marker \in {"APP8", "LSE"}
        /\ ReadMarkerSegment(HeaderTo(k), Upcoming, call.client = "spiff", FALSE)
             = Accept(HeaderTo(k + 1), FALSE)
    BY <1>1, <1>3, <1>6, TableRead DEF HeaderStep
  <2>2. ResultOf(Upcoming) = Accept(HeaderTo(k + 1), FALSE)
    BY <1>3, <1>4, <1>5, <2>1 DEF ResultOf
  <2>3. ValidMarker(reader, Upcoming.marker) /\ Upcoming.marker # "SOS"
    BY <2>1 DEF ValidMarker
  <2>4. InTables(HeaderTo(k + 1), k + 1)
    BY <1>1, <1>2, <1>3, <1>6 DEF InTables
  <2>5. ReadsHeader(HeaderTo(k + 1), k + 1, call)
    BY <2>4 DEF ReadsHeader
  <2> QED  BY <2>2, <2>3, <2>5, HeaderGoesOn DEF k
<1>7. CASE k = HeaderEnd
  <2>1. CodedTo(k)
    BY <1>2, <1>7, HeaderIsCoded DEF HeaderStep
  <2>2. InScans(settings, Upcoming)
    <3> DEFINE i == k + 1
    <3>1. i \in Nat /\ i > HeaderEnd /\ i <= ScansEnd /\ i <= Len(writer.segments) /\ i - 1 = k
      BY <1>1, <1>2, <1>7
    <3> HIDE DEF i
    <3>2. CodedTo(i - 1)
      BY <2>1, <3>1
    <3>3. InScans(settings, writer.segments[i])
      BY <3>1, <3>2, ScanHolds DEF HeaderStep
    <3> QED  BY <1>1, <3>3 DEF i
  <2>3. Upcoming.marker = "SOS"
    BY <2>2 DEF InScans
  <2>4. ValidMarker(reader, Upcoming.marker)
    BY <1>4, <2>3 DEF ValidMarker
  <2>5. /\ UNCHANGED reader
        /\ call' = IF is_maximum_sample_value_valid(reader)
                   THEN [call EXCEPT !.op = "headerRead"] ELSE Returned("error")
    BY <2>3, <2>4 DEF HeaderStep, ReadHeaderSegment
  <2>6. is_maximum_sample_value_valid(reader) <=> PresetFits(settings)
    <3>1. reader.preset = WrittenPreset(settings)
      <4>1. k >= HeaderEnd
        BY <1>2, <1>7
      <4> QED  BY <1>3, <4>1 DEF HeaderTo, ReaderOf
    <3> QED  BY <1>4, <3>1 DEF is_maximum_sample_value_valid, PresetFits
  <2>7. CASE PresetFits(settings)
    <3>1. call' = [call EXCEPT !.op = "headerRead"] /\ "headerRead" \in Ops
      BY <2>5, <2>6, <2>7 DEF Ops
    <3>2. /\ CallFits(call') /\ call'.op = "headerRead" /\ call'.client = call.client
          /\ call'.found = call.found /\ call'.outcome = call.outcome
      BY <1>1, <3>1, CallGoesOn
    <3>3. reader' = HeaderTo(k + 1)
      <4>1. HeaderTo(k) = HeaderTo(k + 1)
        <5>1. /\ k >= HeaderEnd /\ k + 1 >= HeaderEnd
              /\ k >= Prefix + UpToTransformation(settings)
              /\ k + 1 >= Prefix + UpToTransformation(settings)
          <6>1. /\ UpToTransformation(settings) \in 2..3
                /\ HeaderEnd >= Prefix + UpToTransformation(settings)
            BY PartsOfStream DEF HeaderStep
          <6> QED  BY <1>1, <1>2, <1>7, <6>1
        <5> QED  BY <5>1 DEF HeaderTo
      <4> QED  BY <1>3, <2>5, <4>1
    <3>4. AtFirstScan(reader', source'.read)
      BY <1>1, <1>7, <2>7, <3>3 DEF AtFirstScan
    <3>5. HasReadHeader(reader', source'.read, call')
      BY <1>5, <3>2, <3>4 DEF HasReadHeader
    <3>6. Place(reader', source'.read, call', asserts')
      BY <3>2, <3>5 DEF Place
    <3> QED  BY <1>1, <3>2, <3>6 DEF CallInv
  <2>8. CASE ~PresetFits(settings)
    <3>1. call' = Returned("error")
      BY <2>5, <2>6, <2>8
    <3>2. ~HeaderReadable
      BY <2>8 DEF HeaderReadable
    <3> QED  BY <1>1, <3>1, <3>2, CallFails
  <2> QED  BY <2>7, <2>8
<1> QED  BY <1>1, <1>2, <1>3, <1>6, <1>7

\* A segment of the header, wherever the reader is.
LEMMA ReadHeaderSegmentFits ==
  ASSUME HeaderStep
  PROVE  CallInv(reader', source', call', asserts')
<1>1. ReadsHeader(reader, source.read, call) /\ ~Untouched(reader, source.read)
  BY HeaderStepBegins
<1>2. CASE call.client = "spiff"
  BY <1>1, <1>2, StartSectionStep, TablesStep DEF ReadsHeader
<1>3. CASE call.client # "spiff"
  BY <1>1, <1>3, StartSectionStep, DirectoryStep, BehindDirectoryStep, TablesStep
     DEF ReadsHeader
<1> QED  BY <1>2, <1>3

\* A place that a scan is read from.
LEMMA ScanMembers ==
  ASSUME NEW st, NEW data
  PROVE  /\ ScanOf(st, data).state = st /\ ScanOf(st, data).frame = settings.frame
         /\ ScanOf(st, data).preset = WrittenPreset(settings)
         /\ ScanOf(st, data).near = settings.near % 256
         /\ ScanOf(st, data).mode = settings.mode
         /\ ScanOf(st, data).transformation = settings.transformation
         /\ ScanOf(st, data).scanData = data
BY DEF ScanOf, ReaderOf

\* The search for the next scan.
LEMMA NextScanStep ==
  ASSUME Readable, CallInv(reader, source, call, asserts), ~AtEnd, ReadNextStartOfScan(Upcoming)
  PROVE  CallInv(reader', source', call', asserts')
<1> DEFINE k == source.read
           n == call.component
<1>1. call.op = "ReadNextStartOfScan" /\ Consume /\ UNCHANGED asserts
  BY DEF ReadNextStartOfScan
<1>2. /\ CallFits(call) /\ SourceFits(source) /\ asserts \subseteq {33} /\ call.outcome = "ok"
      /\ Decodes(call)
      /\ \/ Between(reader, k, n) /\ n < settings.frame.components
         \/ Again(reader, k, call, asserts)
  BY <1>1, CallRuns DEF Place
<1>3. /\ SourceFits(source') /\ source'.read = k + 1 /\ ~source'.ended
      /\ k + 1 <= Len(writer.segments) /\ k \in Nat /\ n \in Nat
  BY <1>1, <1>2, SegmentConsumed DEF SourceFits, CallFits
<1>4. Upcoming = writer.segments[k + 1]
  BY DEF Upcoming
<1>5. /\ HeaderEnd \in Nat /\ ScansEnd \in Nat /\ ScansEnd = HeaderEnd + ScanCount(settings)
      /\ ScanCount(settings) \in Nat /\ ScanCount(settings) >= 1 /\ Len(writer.segments) \in Nat
  BY PartsOfStream
<1> HIDE DEF k, n
<1>6. CASE Between(reader, k, n) /\ n < settings.frame.components
  <2>1. /\ settings.mode = "none" /\ n >= 1 /\ k = HeaderEnd + n /\ CodedTo(k)
        /\ reader = ScanOf("scan_section", "good")
        /\ ScanCount(settings) = settings.frame.components
    BY <1>6 DEF Between, BehindScan, ScanCount
  <2>2. InScans(settings, Upcoming)
    <3> DEFINE i == k + 1
    <3>1. i \in Nat /\ i > HeaderEnd /\ i <= ScansEnd /\ i <= Len(writer.segments) /\ i - 1 = k
      BY <1>3, <1>5, <1>6, <2>1
    <3> HIDE DEF i
    <3>2. CodedTo(i - 1)
      BY <2>1, <3>1
    <3>3. InScans(settings, writer.segments[i])
      BY <3>1, <3>2, ScanHolds
    <3> QED  BY <1>4, <3>3 DEF i
  <2>3. Upcoming.marker = "SOS"
    BY <2>2 DEF InScans
  <2>4. ValidMarker(reader, Upcoming.marker)
    BY <2>1, <2>3, ScanMembers DEF ValidMarker
  <2>5. call' = [call EXCEPT !.op = "ReadScanOfNext"] /\ UNCHANGED reader /\ "ReadScanOfNext" \in Ops
    BY <2>3, <2>4 DEF ReadNextStartOfScan, Ops
  <2>6. /\ CallFits(call') /\ call'.op = "ReadScanOfNext" /\ call'.client = call.client
        /\ call'.component = n /\ call'.outcome = call.outcome
    BY <1>2, <2>5, CallGoesOn DEF n
  <2>7. CodedTo(source'.read - 1) /\ source'.read = HeaderEnd + call'.component + 1
    <3>1. source'.read - 1 = k
      BY <1>3
    <3> QED  BY <1>3, <1>5, <2>1, <2>6, <3>1
  <2>8. Place(reader', source'.read, call', asserts')
    BY <1>2, <1>6, <2>1, <2>5, <2>6, <2>7 DEF Place, Decodes
  <2> QED  BY <1>1, <1>2, <1>3, <2>6, <2>8 DEF CallInv
<1>7. CASE Again(reader, k, call, asserts)
  <2>1. k = HeaderEnd + ScanCount(settings) /\ CodedTo(k) /\ reader = ScanOf("scan_section", "good")
        /\ 33 \in asserts
    BY <1>7 DEF Again, BehindLast, BehindScan
  <2>2. k = ScansEnd
    BY <1>5, <2>1
  <2>3. Upcoming = Marker("EOI")
    <3>1. ScansEnd < Len(writer.segments) /\ CodedTo(ScansEnd)
      BY <1>3, <1>5, <2>1, <2>2
    <3> QED  BY <1>4, <2>2, <3>1, EndHolds
  <2>4. ~ValidMarker(reader, Upcoming.marker) /\ call' = Returned("error")
    <3>1. Upcoming.marker = "EOI" /\ reader.state = "scan_section"
      BY <2>1, <2>3, ScanMembers DEF Marker
    <3>2. ~ValidMarker(reader, Upcoming.marker)
      BY <3>1 DEF ValidMarker
    <3> QED  BY <3>2 DEF ReadNextStartOfScan
  <2> QED  BY <1>1, <1>2, <1>3, <2>1, <2>4, CallFails DEF Decodes
<1> QED  BY <1>2, <1>6, <1>7 DEF k, n

\* What the reader checks of a start of scan.
LEMMA ParametersRead ==
  ASSUME NEW seg, seg.near = settings.near % 256, seg.mode = settings.mode,
         seg.defect \in {"none", "early"},
         NEW rd, NEW near, NEW mode,
         rd = ReaderOf("scan_section", settings.frame, Identifiers(settings),
                       WrittenPreset(settings), near, mode, settings.transformation, "good")
  PROVE  /\ (seg.defect = "early" \/ ~NearFits(settings)) => ~ReadScanParameters(rd, seg).ok
         /\ (seg.defect = "none" /\ NearFits(settings)) =>
              /\ ReadScanParameters(rd, seg).ok
              /\ ReadScanParameters(rd, seg).reader = ScanOf("bit_stream_section", seg.data)
<1>1. rd.preset = WrittenPreset(settings) /\ rd.frame = settings.frame
  BY DEF ReaderOf
<1>2. (seg.near > NearLimit(rd)) <=> ~NearFits(settings)
  BY <1>1, Zenon DEF NearLimit, maximum_sample_value, NearFits
<1> DEFINE nearRead == [rd EXCEPT !.near = seg.near]
           scan == [nearRead EXCEPT !.mode = seg.mode, !.scanData = seg.data,
                                    !.state = "bit_stream_section"]
<1>3. ReadScanParameters(rd, seg)
        = IF seg.defect = "early" THEN Refuse(rd, FALSE)
          ELSE IF ~NearFits(settings) THEN Refuse(nearRead, FALSE)
          ELSE Accept(scan, FALSE)
  <2>1. seg.defect # "late"
    OBVIOUS
  <2> QED  BY <1>2, <2>1 DEF ReadScanParameters
<1>4. scan = ScanOf("bit_stream_section", seg.data)
  <2>1. nearRead = ReaderOf("scan_section", settings.frame, Identifiers(settings),
                            WrittenPreset(settings), settings.near % 256, mode,
                            settings.transformation, "good")
    BY DEF ReaderOf
  <2> HIDE DEF nearRead
  <2>2. nearRead = [state |-> "scan_section", frame |-> settings.frame,
                    componentIds |-> Identifiers(settings), preset |-> WrittenPreset(settings),
                    near |-> settings.near % 256, mode |-> mode,
                    transformation |-> settings.transformation, scanData |-> "good"]
    BY <2>1 DEF ReaderOf
  <2> DEFINE a == [nearRead EXCEPT !.mode = seg.mode]
             b == [a EXCEPT !.scanData = seg.data]
             c == [b EXCEPT !.state = "bit_stream_section"]
  <2>3a. a = [state |-> "scan_section", frame |-> settings.frame,
              componentIds |-> Identifiers(settings), preset |-> WrittenPreset(settings),
              near |-> settings.near % 256, mode |-> seg.mode,
              transformation |-> settings.transformation, scanData |-> "good"]
    BY <2>2
  <2> HIDE DEF a
  <2>3b. b = [state |-> "scan_section", frame |-> settings.frame,
              componentIds |-> Identifiers(settings), preset |-> WrittenPreset(settings),
              near |-> settings.near % 256, mode |-> seg.mode,
              transformation |-> settings.transformation, scanData |-> seg.data]
    BY <2>3a
  <2> HIDE DEF b
  <2>3c. c = [state |-> "bit_stream_section", frame |-> settings.frame,
              componentIds |-> Identifiers(settings), preset |-> WrittenPreset(settings),
              near |-> settings.near % 256, mode |-> seg.mode,
              transformation |-> settings.transformation, scanData |-> seg.data]
    BY <2>3b
  <2>3. [nearRead EXCEPT !.mode = seg.mode, !.scanData = seg.data, !.state = "bit_stream_section"]
          = [state |-> "bit_stream_section", frame |-> settings.frame,
             componentIds |-> Identifiers(settings), preset |-> WrittenPreset(settings),
             near |-> settings.near % 256, mode |-> seg.mode,
             transformation |-> settings.transformation, scanData |-> seg.data]
    BY <2>3c DEF a, b
  <2>4. seg.mode = settings.mode
    OBVIOUS
  <2> QED  BY <2>3, <2>4, Zenon DEF ReaderOf, ScanOf
<1> HIDE DEF nearRead, scan
<1> QED  BY <1>3, <1>4 DEF Refuse, Accept

\* The parameters of the first scan.
LEMMA FirstScanStep ==
  ASSUME Readable, CallInv(reader, source, call, asserts), call.op = "ReadStartOfScan",
         ReadStartOfScan(writer.segments[source.read])
  PROVE  CallInv(reader', source', call', asserts')
<1> DEFINE k == source.read
           seg == writer.segments[k]
           res == ReadScanParameters(reader, seg)
<1>1. /\ UNCHANGED source /\ reader' = res.reader
      /\ call' = IF ~res.ok THEN Returned("error") ELSE Returned("ok")
      /\ asserts' = IF seg.defect = "early" \/ is_maximum_sample_value_valid(reader) THEN asserts
                    ELSE asserts \cup {614}
  BY DEF ReadStartOfScan
<1>2. /\ CallFits(call) /\ SourceFits(source) /\ asserts \subseteq {33} /\ call.outcome = "ok"
      /\ ~source.ended /\ call.client = "header" /\ AtFirstScan(reader, k)
  BY CallRuns DEF Place
<1>3. k = HeaderEnd + 1 /\ reader = HeaderTo(k) /\ PresetFits(settings)
  BY <1>2 DEF AtFirstScan
<1>4. /\ HeaderEnd \in Nat /\ ScansEnd \in Nat /\ ScansEnd = HeaderEnd + ScanCount(settings)
      /\ ScanCount(settings) \in Nat /\ ScanCount(settings) >= 1 /\ Len(writer.segments) \in Nat
      /\ UpToTransformation(settings) \in 2..3 /\ Prefix \in Nat
      /\ HeaderEnd >= Prefix + UpToTransformation(settings)
  BY PartsOfStream
<1>5. k \in Nat /\ k <= Len(writer.segments) /\ k - 1 = HeaderEnd /\ k <= ScansEnd
  BY <1>2, <1>3, <1>4 DEF SourceFits
<1>6. CodedTo(k - 1)
  BY <1>4, <1>5, HeaderIsCoded
<1>7. InScans(settings, seg)
  <2> HIDE DEF k
  <2> QED  BY <1>3, <1>4, <1>5, <1>6, ScanHolds
<1>8. reader = ReaderOf("scan_section", settings.frame, Identifiers(settings),
                        WrittenPreset(settings), 0, "none", settings.transformation, "good")
  <2>1. k >= HeaderEnd /\ k >= Prefix + UpToTransformation(settings)
    BY <1>3, <1>4
  <2> QED  BY <1>3, <2>1 DEF HeaderTo
<1>9. /\ seg.near = settings.near % 256 /\ seg.mode = settings.mode
      /\ seg.defect \in {"none", "early"}
  BY <1>7 DEF InScans
<1>10. /\ (seg.defect = "early" \/ ~NearFits(settings)) => ~res.ok
       /\ (seg.defect = "none" /\ NearFits(settings)) =>
            res.ok /\ res.reader = ScanOf("bit_stream_section", seg.data)
  <2> HIDE DEF seg
  <2> QED  BY <1>8, <1>9, ParametersRead
<1>11. asserts' = asserts
  <2>1. is_maximum_sample_value_valid(reader)
    BY <1>3, <1>8 DEF is_maximum_sample_value_valid, PresetFits, ReaderOf
  <2> QED  BY <1>1, <2>1
<1> HIDE DEF res, seg
<1>12. SourceFits(source') /\ ~source'.ended /\ source'.read = k
  BY <1>1, <1>2 DEF SourceFits
<1>13. CASE seg.defect = "early" \/ ~NearFits(settings)
  <2>1. call' = Returned("error")
    BY <1>1, <1>10, <1>13
  <2>2. ~HeaderReadable
    <3>1. seg = writer.segments[HeaderEnd + 1]
      BY <1>3 DEF seg
    <3> QED  BY <1>13, <3>1 DEF HeaderReadable
  <2> QED  BY <1>2, <1>11, <1>12, <2>1, <2>2, CallFails
<1>14. CASE seg.defect = "none" /\ NearFits(settings)
  <2>1. call' = Returned("ok") /\ reader' = ScanOf("bit_stream_section", seg.data)
    BY <1>1, <1>10, <1>14
  <2>2. /\ CallFits(call') /\ call'.op = "returned" /\ call'.client = "header"
        /\ call'.outcome = "ok"
    BY <1>2, <2>1, CallReturns
  <2>3. HeaderReadable
    <3>1. HeaderEnd < Len(writer.segments) /\ seg = writer.segments[HeaderEnd + 1]
      BY <1>3, <1>4, <1>5 DEF seg
    <3> QED  BY <1>3, <1>14, <3>1 DEF HeaderReadable
  <2>4. BeforeBits(reader', k, 1)
    BY <1>3, <1>5, <1>6, <1>14, <2>1 DEF BeforeBits, seg
  <2>5. Place(reader', source'.read, call', asserts')
    BY <1>12, <2>2, <2>3, <2>4 DEF Place
  <2> QED  BY <1>2, <1>11, <1>12, <2>2, <2>5 DEF CallInv
<1> QED  BY <1>9, <1>13, <1>14

\* A scan that was not coded makes the image undecodable.
LEMMA UncodedScan ==
  ASSUME NEW k \in Nat, k > HeaderEnd, k <= ScansEnd, ~Coded(writer.segments[k]), Readable
  PROVE  ~Decodable
<1>1. HeaderEnd \in Nat /\ ScansEnd \in Nat
  BY PartsOfStream
<1>2. k \in (HeaderEnd + 1)..ScansEnd
  BY <1>1
<1> QED  BY <1>2 DEF Decodable, CodedTo

\* The parameters of another scan.
LEMMA LaterScanStep ==
  ASSUME Readable, CallInv(reader, source, call, asserts), call.op = "ReadScanOfNext",
         ReadStartOfScan(writer.segments[source.read])
  PROVE  CallInv(reader', source', call', asserts')
<1> DEFINE k == source.read
           n == call.component
           seg == writer.segments[k]
           res == ReadScanParameters(reader, seg)
<1>1. /\ UNCHANGED source /\ reader' = res.reader
      /\ call' = IF ~res.ok THEN Returned("error") ELSE [call EXCEPT !.op = "DecodeScan"]
      /\ asserts' = IF seg.defect = "early" \/ is_maximum_sample_value_valid(reader) THEN asserts
                    ELSE asserts \cup {614}
  BY DEF ReadStartOfScan
<1>2. /\ CallFits(call) /\ SourceFits(source) /\ asserts \subseteq {33} /\ call.outcome = "ok"
      /\ ~source.ended /\ Decodes(call) /\ settings.mode = "none"
      /\ n >= 1 /\ n < settings.frame.components /\ n \in Nat
      /\ k = HeaderEnd + n + 1 /\ CodedTo(k - 1) /\ reader = ScanOf("scan_section", "good")
  BY CallRuns DEF Place, CallFits
<1>3. HeaderReadable /\ call.client = "decode" /\ PresetFits(settings) /\ NearFits(settings)
  BY <1>2 DEF Decodes, HeaderReadable
<1>4. /\ HeaderEnd \in Nat /\ ScansEnd \in Nat /\ ScansEnd = HeaderEnd + ScanCount(settings)
      /\ ScanCount(settings) = settings.frame.components /\ ScanCount(settings) \in Nat
      /\ Len(writer.segments) \in Nat
  BY <1>2, PartsOfStream DEF ScanCount
<1>5. k \in Nat /\ k > HeaderEnd /\ k <= ScansEnd /\ k <= Len(writer.segments)
  BY <1>2, <1>4 DEF SourceFits
<1>6. InScans(settings, seg)
  <2> HIDE DEF k
  <2> QED  BY <1>2, <1>5, ScanHolds
<1>7. /\ seg.near = settings.near % 256 /\ seg.mode = settings.mode
      /\ seg.defect \in {"none", "early"}
  BY <1>6 DEF InScans
<1>8. reader = ReaderOf("scan_section", settings.frame, Identifiers(settings), WrittenPreset(settings),
                        settings.near % 256, settings.mode, settings.transformation, "good")
  BY <1>2 DEF ScanOf
<1>9. /\ seg.defect = "early" => ~res.ok
      /\ seg.defect = "none" => res.ok /\ res.reader = ScanOf("bit_stream_section", seg.data)
  <2> HIDE DEF seg
  <2> QED  BY <1>3, <1>7, <1>8, ParametersRead
<1>10. asserts' = asserts
  <2>1. is_maximum_sample_value_valid(reader)
    BY <1>2, <1>3, ScanMembers DEF is_maximum_sample_value_valid, PresetFits
  <2> QED  BY <1>1, <2>1
<1> HIDE DEF res, seg
<1>11. SourceFits(source') /\ ~source'.ended /\ source'.read = k
  BY <1>1, <1>2 DEF SourceFits
<1>12. CASE seg.defect = "early"
  <2>1. call' = Returned("error")
    BY <1>1, <1>9, <1>12
  <2>2. ~Coded(seg)
    BY <1>12 DEF Coded
  <2>3. ~Decodable
    <3> HIDE DEF k
    <3> QED  BY <1>5, <2>2, UncodedScan DEF seg
  <2> QED  BY <1>2, <1>3, <1>10, <1>11, <2>1, <2>3, CallFails
<1>13. CASE seg.defect = "none"
  <2>1. /\ call' = [call EXCEPT !.op = "DecodeScan"] /\ "DecodeScan" \in Ops
        /\ reader' = ScanOf("bit_stream_section", seg.data)
    BY <1>1, <1>9, <1>13 DEF Ops
  <2>2. /\ CallFits(call') /\ call'.op = "DecodeScan" /\ call'.client = "decode"
        /\ call'.component = n /\ call'.outcome = "ok"
    BY <1>2, <1>3, <2>1, CallGoesOn
  <2>3. BeforeBits(reader', k, n + 1)
    <3>1. k = HeaderEnd + (n + 1)
      BY <1>2, <1>4
    <3> QED  BY <1>2, <1>5, <1>13, <2>1, <3>1 DEF BeforeBits, seg
  <2>4. Place(reader', source'.read, call', asserts')
    BY <1>2, <1>4, <1>11, <2>2, <2>3 DEF Place, Decodes
  <2> QED  BY <1>2, <1>10, <1>11, <2>2, <2>4 DEF CallInv
<1> QED  BY <1>7, <1>12, <1>13

\* The stream ends where a marker should follow.
LEMMA EndStep ==
  ASSUME Readable, CallInv(reader, source, call, asserts), AtEnd, SeeksMarker, EndOfInput
  PROVE  CallInv(reader', source', call', asserts')
<1> DEFINE k == source.read
           n == call.component
<1>1. /\ source' = [source EXCEPT !.ended = TRUE] /\ call' = Returned("error")
      /\ UNCHANGED asserts
      /\ call.op = "ReadHeader" \/ call.op = "ReadNextStartOfScan"
  BY DEF EndOfInput, EndIsReported, SeeksMarker, Readable
<1>2. /\ CallFits(call) /\ SourceFits(source) /\ asserts \subseteq {33} /\ call.outcome = "ok"
      /\ ~source.ended /\ Place(reader, k, call, asserts)
  BY <1>1, CallRuns
<1>3. /\ HeaderEnd \in Nat /\ Prefix \in Nat /\ ScansEnd = HeaderEnd + ScanCount(settings)
      /\ ScanCount(settings) \in Nat /\ Len(writer.segments) \in Nat /\ HeaderEnd >= Prefix + 2
  BY PartsOfStream
<1>4. k \in Nat /\ k >= Len(writer.segments) /\ n \in Nat
  BY <1>2 DEF AtEnd, SourceFits, CallFits
<1>5. SourceFits(source')
  <2>1. source = [kind |-> source.kind, read |-> k, ended |-> source.ended] /\ k <= Len(writer.segments)
    BY <1>2 DEF SourceFits
  <2>2. source' = [kind |-> source.kind, read |-> k, ended |-> TRUE]
    BY <1>1, <2>1
  <2>3. source'.kind = source.kind /\ source'.read = k /\ source'.ended = TRUE
    BY <2>2
  <2> QED  BY <1>4, <2>1, <2>2, <2>3 DEF SourceFits
<1>6. CASE call.op = "ReadHeader"
  <2>1. ReadsHeader(reader, k, call)
    BY <1>2, <1>6 DEF Place
  <2>2. call.client \in {"spiff", "header"} /\ k <= HeaderEnd
    <3>1. Untouched(reader, k) => k <= HeaderEnd
      BY <1>3 DEF Untouched
    <3>2. AtStart(reader, k) => k <= HeaderEnd
      BY <1>3, <1>4 DEF AtStart
    <3>3. InDirectory(reader, k) => k <= HeaderEnd
      BY <1>3, <1>4 DEF InDirectory
    <3>4. BehindDirectory(reader, k) => k <= HeaderEnd
      BY <1>3, <1>4 DEF BehindDirectory
    <3>5. InTables(reader, k) => k <= HeaderEnd
      BY DEF InTables
    <3> QED  BY <2>1, <3>1, <3>2, <3>3, <3>4, <3>5 DEF ReadsHeader
  <2>3. ~HeaderReadable
    BY <1>3, <1>4, <2>2 DEF HeaderReadable
  <2> QED  BY <1>1, <1>2, <1>5, <2>2, <2>3, CallFails
<1>7. CASE call.op = "ReadNextStartOfScan"
  <2>1. /\ Decodes(call)
        /\ \/ Between(reader, k, n) /\ n < settings.frame.components
           \/ Again(reader, k, call, asserts)
    BY <1>2, <1>7 DEF Place
  <2>2. ~Decodable \/ 33 \in asserts
    <3>1. CASE Between(reader, k, n) /\ n < settings.frame.components
      <4>1. k = HeaderEnd + n /\ ScanCount(settings) = settings.frame.components
        BY <3>1 DEF Between, BehindScan, ScanCount
      <4>2. ~(ScansEnd <= Len(writer.segments))
        BY <1>3, <1>4, <3>1, <4>1
      <4> QED  BY <4>2 DEF Decodable
    <3>2. CASE Again(reader, k, call, asserts)
      BY <3>2 DEF Again
    <3> QED  BY <2>1, <3>1, <3>2
  <2> QED  BY <1>1, <1>2, <1>5, <2>1, <2>2, CallFails DEF Decodes
<1> QED  BY <1>1, <1>6, <1>7

\* Read begins.
LEMMA BeginReadStep ==
  ASSUME Readable, CallInv(reader, source, call, asserts), BeginRead(TRUE)
  PROVE  CallInv(reader', source', call', asserts')
<1> DEFINE k == source.read
<1>1. /\ call.op = "Read" /\ UNCHANGED <<reader, source>>
      /\ asserts' = IF reader.state = "bit_stream_section" THEN asserts ELSE asserts \cup {33}
      /\ call' = IF Coherent(reader) THEN [call EXCEPT !.op = "ReadLoop", !.mode = reader.mode]
                 ELSE Returned("error")
  BY DEF BeginRead
<1>2. /\ CallFits(call) /\ SourceFits(source) /\ asserts \subseteq {33} /\ call.outcome = "ok"
      /\ ~source.ended /\ HeaderReadable /\ call.client = "decode" /\ call.component = 0
      /\ BeforeBits(reader, k, 1) \/ BehindLast(reader, k)
  BY <1>1, CallRuns DEF Place
<1>3. SourceFits(source') /\ ~source'.ended /\ source'.read = k /\ asserts' \subseteq {33}
  BY <1>1, <1>2 DEF SourceFits
<1>4. reader.frame = settings.frame /\ reader.mode = settings.mode
  BY <1>2, ScanMembers DEF BeforeBits, BehindLast, BehindScan
<1>5. Coherent(reader) <=> ModeFits(settings)
  BY <1>4 DEF Coherent, ModeFits
<1>6. CASE ~ModeFits(settings)
  <2>1. call' = Returned("error") /\ ~Decodable
    BY <1>1, <1>5, <1>6 DEF Decodable
  <2> QED  BY <1>2, <1>3, <2>1, CallFails
<1>7. CASE ModeFits(settings)
  <2>1. call' = [call EXCEPT !.op = "ReadLoop", !.mode = reader.mode]
    BY <1>1, <1>5, <1>7
  <2>2. /\ CallFits(call') /\ call'.op = "ReadLoop" /\ call'.client = "decode"
        /\ call'.component = 0 /\ call'.outcome = "ok"
    <3>1. call = [op |-> call.op, client |-> call.client, found |-> call.found,
                  component |-> call.component, mode |-> call.mode, outcome |-> call.outcome]
      BY <1>2 DEF CallFits
    <3>2. call' = [op |-> "ReadLoop", client |-> call.client, found |-> call.found,
                   component |-> call.component, mode |-> reader.mode, outcome |-> call.outcome]
      BY <2>1, <3>1
    <3>3. /\ call'.op = "ReadLoop" /\ call'.client = call.client /\ call'.found = call.found
          /\ call'.component = call.component /\ call'.mode = reader.mode
          /\ call'.outcome = call.outcome
      BY <3>2
    <3> QED  BY <1>2, <3>2, <3>3 DEF CallFits, Ops
  <2>3. BehindLast(reader, k) => 33 \in asserts'
    <3>1. BehindLast(reader, k) => reader.state = "scan_section"
      BY ScanMembers DEF BehindLast, BehindScan
    <3> QED  BY <1>1, <3>1
  <2>4. BeforeBits(reader, k, 1) \/ Again(reader, k, call', asserts')
    BY <1>2, <2>2, <2>3 DEF Again
  <2>5. Place(reader', source'.read, call', asserts')
    BY <1>1, <1>2, <1>3, <1>7, <2>2, <2>4 DEF Place, Decodes
  <2> QED  BY <1>3, <2>2, <2>5 DEF CallInv
<1> QED  BY <1>6, <1>7

\* The loop of Read.
LEMMA LoopStep ==
  ASSUME Readable, CallInv(reader, source, call, asserts), ReadLoop
  PROVE  CallInv(reader', source', call', asserts')
<1> DEFINE k == source.read
           n == call.component
<1>1. /\ call.op = "ReadLoop" /\ UNCHANGED <<reader, source, asserts>>
      /\ call' = IF n >= reader.frame.components THEN Returned("ok")
                 ELSE IF reader.state = "scan_section"
                 THEN [call EXCEPT !.op = "ReadNextStartOfScan"]
                 ELSE [call EXCEPT !.op = "DecodeScan"]
  BY DEF ReadLoop, AllComponentsRead
<1>2. /\ CallFits(call) /\ SourceFits(source) /\ asserts \subseteq {33} /\ call.outcome = "ok"
      /\ ~source.ended /\ Decodes(call) /\ n \in Nat
      /\ \/ n = 0 /\ BeforeBits(reader, k, 1)
         \/ Between(reader, k, n) \/ Again(reader, k, call, asserts)
  BY <1>1, CallRuns DEF Place, CallFits
<1>3. SourceFits(source') /\ ~source'.ended /\ source'.read = k /\ asserts' = asserts /\ reader' = reader
  BY <1>1, <1>2 DEF SourceFits
<1>4. reader.frame = settings.frame
  BY <1>2, ScanMembers DEF BeforeBits, Between, Again, BehindLast, BehindScan
<1>5. /\ settings.frame.components \in Nat /\ settings.frame.components >= 1
      /\ HeaderEnd \in Nat /\ ScansEnd = HeaderEnd + ScanCount(settings)
      /\ ScanCount(settings) \in Nat /\ ScanCount(settings) >= 1 /\ Len(writer.segments) \in Nat
  <2>1. IsImage(settings)
    BY PartsOfStream
  <2>2. settings.frame.components \in Nat /\ settings.frame.components >= 1
    BY <2>1 DEF IsImage
  <2> QED  BY <2>2, PartsOfStream
<1>6. CASE n = 0 /\ BeforeBits(reader, k, 1)
  <2>1. reader.state = "bit_stream_section"
    BY <1>6, ScanMembers DEF BeforeBits
  <2>2. call' = [call EXCEPT !.op = "DecodeScan"] /\ "DecodeScan" \in Ops
    BY <1>1, <1>4, <1>5, <1>6, <2>1 DEF Ops
  <2>3. /\ CallFits(call') /\ call'.op = "DecodeScan" /\ call'.client = call.client
        /\ call'.component = n /\ call'.outcome = "ok"
    BY <1>2, <2>2, CallGoesOn
  <2>4. BeforeBits(reader', k, call'.component + 1)
    <3>1. call'.component + 1 = 1
      BY <1>6, <2>3
    <3> QED  BY <1>3, <1>6, <3>1
  <2>5. Place(reader', source'.read, call', asserts')
    BY <1>2, <1>3, <1>5, <1>6, <2>3, <2>4 DEF Place, Decodes
  <2> QED  BY <1>2, <1>3, <2>3, <2>5 DEF CallInv
<1>7. CASE Between(reader, k, n)
  <2>1. /\ settings.mode = "none" /\ n >= 1 /\ n <= settings.frame.components
        /\ BehindScan(reader, k, n) /\ ScanCount(settings) = settings.frame.components
    BY <1>7 DEF Between, ScanCount
  <2>2. CASE n >= settings.frame.components
    <3>1. n = ScanCount(settings)
      BY <1>2, <1>5, <2>1, <2>2
    <3>2. call' = Returned("ok")
      BY <1>1, <1>4, <2>2
    <3>3. /\ CallFits(call') /\ call'.op = "returned" /\ call'.client = call.client
          /\ call'.outcome = "ok"
      BY <1>2, <3>2, CallReturns
    <3>4. BehindLast(reader', k)
      BY <1>3, <2>1, <3>1 DEF BehindLast
    <3>5. Decodable
      <4>1. k = ScansEnd /\ CodedTo(ScansEnd) /\ ScansEnd <= Len(writer.segments)
        BY <1>2, <1>5, <2>1, <3>1 DEF BehindScan, SourceFits
      <4>2. ~ScanIsRefused(settings)
        BY <2>1 DEF ScanIsRefused
      <4> QED  BY <1>2, <4>1, <4>2 DEF Decodes, Decodable
    <3>6. Place(reader', source'.read, call', asserts')
      BY <1>2, <1>3, <3>3, <3>4, <3>5 DEF Place, Decodes
    <3> QED  BY <1>2, <1>3, <3>3, <3>6 DEF CallInv
  <2>3. CASE ~(n >= settings.frame.components)
    <3>1. reader.state = "scan_section"
      BY <2>1, ScanMembers DEF BehindScan
    <3>2. call' = [call EXCEPT !.op = "ReadNextStartOfScan"] /\ "ReadNextStartOfScan" \in Ops
      BY <1>1, <1>4, <2>3, <3>1 DEF Ops
    <3>3. /\ CallFits(call') /\ call'.op = "ReadNextStartOfScan" /\ call'.client = call.client
          /\ call'.component = n /\ call'.outcome = "ok"
      BY <1>2, <3>2, CallGoesOn
    <3>4. Between(reader', k, call'.component) /\ call'.component < settings.frame.components
      BY <1>2, <1>3, <1>5, <1>7, <2>3, <3>3
    <3>5. Place(reader', source'.read, call', asserts')
      BY <1>2, <1>3, <3>3, <3>4 DEF Place, Decodes
    <3> QED  BY <1>2, <1>3, <3>3, <3>5 DEF CallInv
  <2> QED  BY <2>2, <2>3
<1>8. CASE Again(reader, k, call, asserts)
  <2>1. n = 0 /\ reader.state = "scan_section"
    BY <1>8, ScanMembers DEF Again, BehindLast, BehindScan
  <2>2. call' = [call EXCEPT !.op = "ReadNextStartOfScan"] /\ "ReadNextStartOfScan" \in Ops
    BY <1>1, <1>4, <1>5, <2>1 DEF Ops
  <2>3. /\ CallFits(call') /\ call'.op = "ReadNextStartOfScan" /\ call'.client = call.client
        /\ call'.component = n /\ call'.outcome = "ok"
    BY <1>2, <2>2, CallGoesOn
  <2>4. Again(reader', k, call', asserts')
    BY <1>3, <1>8, <2>3 DEF Again
  <2>5. Place(reader', source'.read, call', asserts')
    BY <1>2, <1>3, <2>3, <2>4 DEF Place, Decodes
  <2> QED  BY <1>2, <1>3, <2>3, <2>5 DEF CallInv
<1> QED  BY <1>2, <1>6, <1>7, <1>8

\* A scan is decoded.
LEMMA DecodeScanStep ==
  ASSUME Readable, CallInv(reader, source, call, asserts), DecodeScan
  PROVE  CallInv(reader', source', call', asserts')
<1> DEFINE k == source.read
           n == call.component
           seg == writer.segments[k]
<1>1. /\ call.op = "DecodeScan" /\ UNCHANGED <<source, asserts>>
      /\ IF CodecExists(reader) /\ reader.scanData = "good"
         THEN /\ reader' = [reader EXCEPT !.state = "scan_section"]
              /\ call' = IF reader.mode # "none" THEN Returned("ok")
                         ELSE [call EXCEPT !.op = "ReadLoop", !.component = n + 1]
         ELSE call' = Returned("error") /\ UNCHANGED reader
  <2>1. Source = "memory"
    BY DEF Readable
  <2>2. ReadAhead => UNCHANGED source
    BY <2>1 DEF ReadAhead
  <2> QED  BY <2>2 DEF DecodeScan, ScannedState
<1>2. /\ CallFits(call) /\ SourceFits(source) /\ asserts \subseteq {33} /\ call.outcome = "ok"
      /\ ~source.ended /\ Decodes(call) /\ n \in Nat
      /\ n < ScanCount(settings) /\ BeforeBits(reader, k, n + 1)
  BY <1>1, CallRuns DEF Place, CallFits
<1>3. SourceFits(source') /\ ~source'.ended /\ source'.read = k /\ asserts' = asserts
  BY <1>1, <1>2 DEF SourceFits
<1>4. /\ k = HeaderEnd + (n + 1) /\ k <= ScansEnd /\ CodedTo(k - 1)
      /\ seg.defect = "none" /\ reader = ScanOf("bit_stream_section", seg.data)
  BY <1>2 DEF BeforeBits
<1>5. /\ HeaderEnd \in Nat /\ ScansEnd \in Nat /\ ScansEnd = HeaderEnd + ScanCount(settings)
      /\ ScanCount(settings) \in Nat /\ ScanCount(settings) >= 1 /\ Len(writer.segments) \in Nat
  BY PartsOfStream
<1>6. k \in Nat /\ k > HeaderEnd /\ k <= Len(writer.segments)
  BY <1>2, <1>4, <1>5 DEF SourceFits
<1>7. seg.marker = "SOS"
  <2>1. InScans(settings, seg)
    <3> HIDE DEF k
    <3> QED  BY <1>4, <1>6, ScanHolds
  <2> QED  BY <2>1 DEF InScans
<1>8. /\ reader.mode = settings.mode /\ reader.scanData = seg.data
      /\ CodecExists(reader) <=> ~ScanIsRefused(settings)
  <2>1. /\ reader.mode = settings.mode /\ reader.scanData = seg.data
        /\ reader.transformation = settings.transformation /\ reader.frame = settings.frame
    BY <1>4, ScanMembers
  <2>2. settings.frame.bits \in Int
    <3>1. IsImage(settings)
      BY PartsOfStream
    <3> QED  BY <3>1 DEF IsImage
  <2> QED  BY <2>1, <2>2 DEF CodecExists, ScanIsRefused
<1> HIDE DEF seg
<1>9. CASE ~(CodecExists(reader) /\ reader.scanData = "good")
  <2>1. call' = Returned("error")
    BY <1>1, <1>9
  <2>2. ~Decodable
    <3>1. CASE ScanIsRefused(settings)
      BY <3>1 DEF Decodable
    <3>2. CASE ~ScanIsRefused(settings)
      <4>1. ~Coded(seg)
        BY <1>8, <1>9, <3>2 DEF Coded
      <4> HIDE DEF k
      <4> QED  BY <1>4, <1>6, <4>1, UncodedScan DEF seg
    <3> QED  BY <3>1, <3>2
  <2> QED  BY <1>2, <1>3, <2>1, <2>2, CallFails DEF Decodes
<1>10. CASE CodecExists(reader) /\ reader.scanData = "good"
  <2>1. ~ScanIsRefused(settings) /\ Coded(seg)
    BY <1>4, <1>7, <1>8, <1>10 DEF Coded
  <2>2. CodedTo(k)
    <3>1. ASSUME NEW j \in (HeaderEnd + 1)..k PROVE Coded(writer.segments[j])
      <4>1. CASE j = k
        BY <2>1, <4>1 DEF seg
      <4>2. CASE j # k
        <5>1. j \in (HeaderEnd + 1)..(k - 1)
          BY <1>5, <1>6, <4>2
        <5> QED  BY <1>4, <5>1 DEF CodedTo
      <4> QED  BY <4>1, <4>2
    <3> QED  BY <3>1 DEF CodedTo
  <2>3. reader' = ScanOf("scan_section", "good")
    <3>1. reader = ScanOf("bit_stream_section", "good")
      BY <1>4, <1>8, <1>10
    <3>2. reader' = [reader EXCEPT !.state = "scan_section"]
      BY <1>1, <1>10
    <3> QED  BY <3>1, <3>2 DEF ScanOf, ReaderOf
  <2>4. BehindScan(reader', k, n + 1)
    BY <1>4, <2>2, <2>3 DEF BehindScan
  <2>5. CASE settings.mode # "none"
    <3>1. call' = Returned("ok")
      BY <1>1, <1>8, <1>10, <2>5
    <3>2. /\ CallFits(call') /\ call'.op = "returned" /\ call'.client = call.client
          /\ call'.outcome = "ok"
      BY <1>2, <3>1, CallReturns
    <3>3. ScanCount(settings) = 1 /\ n = 0 /\ k = ScansEnd
      <4>1. ScanCount(settings) = 1
        BY <2>5 DEF ScanCount
      <4> QED  BY <1>2, <1>4, <1>5, <4>1
    <3>4. BehindLast(reader', k)
      <4>1. n + 1 = ScanCount(settings)
        BY <3>3
      <4> QED  BY <2>4, <4>1 DEF BehindLast
    <3>5. Decodable
      BY <1>2, <1>6, <2>1, <2>2, <3>3 DEF Decodes, Decodable
    <3>6. Place(reader', source'.read, call', asserts')
      BY <1>2, <1>3, <3>2, <3>4, <3>5 DEF Place, Decodes
    <3> QED  BY <1>2, <1>3, <3>2, <3>6 DEF CallInv
  <2>6. CASE settings.mode = "none"
    <3>1. call' = [call EXCEPT !.op = "ReadLoop", !.component = n + 1]
      BY <1>1, <1>8, <1>10, <2>6
    <3>2. /\ CallFits(call') /\ call'.op = "ReadLoop" /\ call'.client = call.client
          /\ call'.component = n + 1 /\ call'.outcome = "ok"
      <4>1. call = [op |-> call.op, client |-> call.client, found |-> call.found,
                    component |-> call.component, mode |-> call.mode, outcome |-> call.outcome]
        BY <1>2 DEF CallFits
      <4>2. call' = [op |-> "ReadLoop", client |-> call.client, found |-> call.found,
                     component |-> n + 1, mode |-> call.mode, outcome |-> call.outcome]
        BY <3>1, <4>1
      <4>3. /\ call'.op = "ReadLoop" /\ call'.client = call.client /\ call'.found = call.found
            /\ call'.component = n + 1 /\ call'.mode = call.mode
            /\ call'.outcome = call.outcome
        BY <4>2
      <4> QED  BY <1>2, <4>2, <4>3 DEF CallFits, Ops
    <3>3. Between(reader', k, n + 1)
      <4>1. ScanCount(settings) = settings.frame.components
        BY <2>6 DEF ScanCount
      <4>2. n + 1 >= 1 /\ n + 1 <= settings.frame.components
        BY <1>2, <1>5, <4>1
      <4> QED  BY <2>4, <2>6, <4>2 DEF Between
    <3>4. Place(reader', source'.read, call', asserts')
      BY <1>2, <1>3, <3>2, <3>3 DEF Place, Decodes
    <3> QED  BY <1>2, <1>3, <3>2, <3>4 DEF CallInv
  <2> QED  BY <2>5, <2>6
<1> QED  BY <1>9, <1>10

\* Every step of the reader.
LEMMA ReaderFits ==
  ASSUME Readable, CallInv(reader, source, call, asserts), ReadSegment
  PROVE  CallInv(reader', source', call', asserts')
<1>1. ASSUME ~AtEnd, ReadHeaderSegment(Upcoming) PROVE CallInv(reader', source', call', asserts')
  BY <1>1, ReadHeaderSegmentFits DEF HeaderStep
<1>2. ASSUME ReadStartOfScan(writer.segments[source.read])
      PROVE  CallInv(reader', source', call', asserts')
  <2>1. call.op = "ReadStartOfScan" \/ call.op = "ReadScanOfNext"
    BY <1>2 DEF ReadStartOfScan
  <2> QED  BY <1>2, <2>1, FirstScanStep, LaterScanStep
<1> QED  BY <1>1, <1>2, StartStep, NextScanStep, EndStep, BeginReadStep, LoopStep,
            DecodeScanStep
         DEF ReadSegment

-----------------------------------------------------------------------------
(* The calls of a decoder object.                                          *)

\* A call that runs or returns is for the client that made it; the reader does not
\* call itself, and a search for a header does not return from it.
LEMMA ReaderKeepsClient ==
  ASSUME CallFits(call), ReadSegment
  PROVE  /\ call.op # "idle" /\ call'.op \notin {"idle", "Read"} /\ call'.client = call.client
         /\ call.op = "ReadHeader" => ~(call'.op = "returned" /\ call'.outcome = "ok")
<1>1. call = [op |-> call.op, client |-> call.client, found |-> call.found,
              component |-> call.component, mode |-> call.mode, outcome |-> call.outcome]
  BY DEF CallFits
<1>2. ASSUME NEW outcome, call' = Returned(outcome)
      PROVE  call'.op = "returned" /\ call'.client = call.client /\ call'.outcome = outcome
  <2>1. call' = [op |-> "returned", client |-> call.client, found |-> call.found,
                 component |-> call.component, mode |-> call.mode, outcome |-> outcome]
    BY <1>1, <1>2 DEF Returned
  <2> QED  BY <2>1
<1>3. ASSUME NEW op, call' = [call EXCEPT !.op = op]
      PROVE  call'.op = op /\ call'.client = call.client
  <2>1. call' = [op |-> op, client |-> call.client, found |-> call.found,
                 component |-> call.component, mode |-> call.mode, outcome |-> call.outcome]
    BY <1>1, <1>3
  <2> QED  BY <2>1
<1>4. ASSUME NEW seg, ReadHeaderSegment(seg)
      PROVE  /\ call.op # "idle" /\ call'.op \notin {"idle", "Read"}
             /\ call'.client = call.client
             /\ ~(call'.op = "returned" /\ call'.outcome = "ok")
  <2>1. call.op = "ReadHeader"
    BY <1>4 DEF ReadHeaderSegment
  <2>2. \/ call' = Returned("error") \/ call' = [call EXCEPT !.op = "headerRead"]
        \/ \E found, op : op \in {"headerRead", call.op} /\ call' = [call EXCEPT !.found = found, !.op = op]
    BY <1>4 DEF ReadHeaderSegment
  <2>3. CASE \E found, op : op \in {"headerRead", call.op} /\ call' = [call EXCEPT !.found = found, !.op = op]
    <3>1. PICK found, op : op \in {"headerRead", call.op} /\ call' = [call EXCEPT !.found = found, !.op = op]
      BY <2>3
    <3>2. call' = [op |-> op, client |-> call.client, found |-> found,
                   component |-> call.component, mode |-> call.mode, outcome |-> call.outcome]
      BY <1>1, <3>1
    <3>3. call'.op = op /\ call'.client = call.client
      BY <3>2
    <3> QED  BY <2>1, <3>1, <3>3
  <2>4. CASE call' = Returned("error")
    <3>1. call'.op = "returned" /\ call'.client = call.client /\ call'.outcome = "error"
      BY <2>4, <1>2
    <3> QED  BY <2>1, <3>1
  <2>5. CASE call' = [call EXCEPT !.op = "headerRead"]
    <3>1. call'.op = "headerRead" /\ call'.client = call.client
      BY <2>5, <1>3
    <3> QED  BY <2>1, <3>1
  <2> QED  BY <2>2, <2>3, <2>4, <2>5
<1>5. ASSUME NEW seg, ReadNextStartOfScan(seg)
      PROVE  call.op = "ReadNextStartOfScan" /\ call'.op \notin {"idle", "Read"} /\ call'.client = call.client
  <2>1. /\ call.op = "ReadNextStartOfScan"
        /\ \/ call' = Returned("error") \/ call' = [call EXCEPT !.op = "ReadScanOfNext"] \/ call' = call
    BY <1>5 DEF ReadNextStartOfScan
  <2> QED  BY <2>1, <1>2, <1>3
<1>6. ASSUME NEW seg, ReadStartOfScan(seg)
      PROVE  /\ call.op \in {"ReadStartOfScan", "ReadScanOfNext"}
             /\ call'.op \notin {"idle", "Read"} /\ call'.client = call.client
  <2>1. /\ call.op \in {"ReadStartOfScan", "ReadScanOfNext"}
        /\ \/ call' = Returned("error") \/ call' = Returned("ok") \/ call' = [call EXCEPT !.op = "DecodeScan"]
    BY <1>6 DEF ReadStartOfScan
  <2> QED  BY <2>1, <1>2, <1>3
<1>7. ASSUME NEW seg, ReadStartOfImage(seg)
      PROVE  /\ call.op = "ReadHeader" /\ call'.op \notin {"idle", "Read"}
             /\ call'.client = call.client
             /\ ~(call'.op = "returned" /\ call'.outcome = "ok")
  <2>1. call.op = "ReadHeader" /\ (call' = Returned("error") \/ call' = call)
    BY <1>7 DEF ReadStartOfImage
  <2> QED  BY <2>1, <1>2
<1>8. ASSUME SeeksMarker, EndOfInput
      PROVE  /\ call.op # "idle" /\ call'.op \notin {"idle", "Read"}
             /\ call'.client = call.client
             /\ call.op = "ReadHeader" => ~(call'.op = "returned" /\ call'.outcome = "ok")
  <2>1. /\ call.op \in {"ReadHeader", "ReadNextStartOfScan"}
        /\ call' = Returned("error") \/ call' = call
    BY <1>8 DEF SeeksMarker, EndOfInput
  <2> QED  BY <2>1, <1>2
<1>9. ASSUME BeginRead(TRUE)
      PROVE  call.op = "Read" /\ call'.op \notin {"idle", "Read"} /\ call'.client = call.client
  <2>1. /\ call.op = "Read"
        /\ call' = Returned("error") \/ call' = [call EXCEPT !.op = "ReadLoop", !.mode = reader.mode]
    BY <1>9 DEF BeginRead
  <2>2. ASSUME call' = [call EXCEPT !.op = "ReadLoop", !.mode = reader.mode]
        PROVE  call'.op \notin {"idle", "Read"} /\ call'.client = call.client
    <3>1. call' = [op |-> "ReadLoop", client |-> call.client, found |-> call.found,
                   component |-> call.component, mode |-> reader.mode, outcome |-> call.outcome]
      BY <1>1, <2>2
    <3> QED  BY <3>1
  <2> QED  BY <2>1, <2>2, <1>2
<1>10. ASSUME ReadLoop
       PROVE  call.op = "ReadLoop" /\ call'.op \notin {"idle", "Read"} /\ call'.client = call.client
  <2>1. /\ call.op = "ReadLoop"
        /\ \/ call' = Returned("ok") \/ call' = [call EXCEPT !.op = "ReadNextStartOfScan"]
           \/ call' = [call EXCEPT !.op = "DecodeScan"]
    BY <1>10 DEF ReadLoop
  <2> QED  BY <2>1, <1>2, <1>3
<1>11. ASSUME DecodeScan
       PROVE  call.op = "DecodeScan" /\ call'.op \notin {"idle", "Read"} /\ call'.client = call.client
  <2>1. /\ call.op = "DecodeScan"
        /\ \/ call' = Returned("error") \/ call' = Returned("ok")
           \/ call' = [call EXCEPT !.op = "ReadLoop", !.component = call.component + 1]
    BY <1>11 DEF DecodeScan
  <2>2. ASSUME call' = [call EXCEPT !.op = "ReadLoop", !.component = call.component + 1]
        PROVE  call'.op \notin {"idle", "Read"} /\ call'.client = call.client
    <3>1. call' = [op |-> "ReadLoop", client |-> call.client, found |-> call.found,
                   component |-> call.component + 1, mode |-> call.mode, outcome |-> call.outcome]
      BY <1>1, <2>2
    <3> QED  BY <3>1
  <2> QED  BY <2>1, <2>2, <1>2
<1> QED  BY <1>4, <1>5, <1>6, <1>7, <1>8, <1>9, <1>10, <1>11 DEF ReadSegment

\* The decoder after a step that leaves what was written.
DecoderInvAfter ==
  /\ CallInv(reader', source', call', asserts')
  /\ ApiInv(reader', source'.read, call', api')

\* A step of the reader.
LEMMA ReaderStepFits ==
  ASSUME EncoderInv, DecoderInv, Source = "memory", ReadSegment, UNCHANGED api
  PROVE  DecoderInvAfter
<1>1. /\ CallInv(reader, source, call, asserts) /\ CallFits(call)
      /\ ApiInv(reader, source.read, call, api)
  BY DEF DecoderInv, CallInv
<1>2. /\ call.op # "idle" /\ call'.op \notin {"idle", "Read"} /\ call'.client = call.client
      /\ call.op = "ReadHeader" => ~(call'.op = "returned" /\ call'.outcome = "ok")
  BY <1>1, ReaderKeepsClient
<1>3. api # "initial" /\ attempts # <<>>
  BY <1>1, <1>2 DEF ApiInv, NoCall
<1>4. CallInv(reader', source', call', asserts')
  BY <1>1, <1>3, ReaderFits DEF Readable
<1>5. ~(call'.client = "spiff" /\ call'.op = "returned" /\ call'.outcome = "ok")
  <2>1. CASE call.client = "spiff" /\ call.op # "ReadHeader"
    <3>1. call.op \notin {"returned", "idle", "headerRead"}
      BY <1>2, <2>1 DEF ReadSegment, ReadStartOfImage, ReadHeaderSegment, ReadNextStartOfScan,
         ReadStartOfScan, SeeksMarker, BeginRead, ReadLoop, DecodeScan
    <3>2. Place(reader, source.read, call, asserts) /\ call.op \in Ops
      BY <1>1, <3>1, CallRuns DEF CallFits
    <3>3. call.op \in {"ReadStartOfScan", "Read", "ReadLoop", "ReadNextStartOfScan",
                       "ReadScanOfNext", "DecodeScan"}
      BY <2>1, <3>1, <3>2 DEF Ops
    <3>4. call.client \in {"header", "decode"}
      BY <3>2, <3>3 DEF Place, Decodes
    <3> QED  BY <2>1, <3>4
  <2> QED  BY <1>2, <2>1
<1>6. ApiInv(reader', source'.read, call', api')
  BY <1>1, <1>2, <1>3, <1>5 DEF ApiInv
<1> QED  BY <1>4, <1>6 DEF DecoderInvAfter

\* A call that is being made.
LEMMA CallBegins ==
  ASSUME NEW op \in Ops, NEW client, Begin(op, client)
  PROVE  /\ CallFits(call') /\ call'.op = op /\ call'.client = client
         /\ ~call'.found /\ call'.component = 0 /\ call'.outcome = "ok"
<1>1. call' = [op |-> op, client |-> client, found |-> FALSE,
               component |-> 0, mode |-> "none", outcome |-> "ok"]
  BY DEF Begin, NoCall
<1>2. /\ call'.op = op /\ call'.client = client /\ call'.found = FALSE
      /\ call'.component = 0 /\ call'.mode = "none" /\ call'.outcome = "ok"
  BY <1>1
<1> QED  BY <1>1, <1>2 DEF CallFits

\* Between two calls.
LEMMA BetweenCalls ==
  ASSUME DecoderInv, Retry = FALSE, MayCall
  PROVE  /\ IdlePlace(reader, source.read, api) /\ SourceFits(source) /\ ~source.ended
         /\ asserts \subseteq {33} /\ call.outcome = "ok" /\ call.op = "idle"
         /\ CallInv(reader, source, call, asserts) /\ ApiInv(reader, source.read, call, api)
<1>1. call.op = "idle" /\ call.outcome = "ok"
  BY DEF MayCall, Idle
<1> QED  BY <1>1 DEF DecoderInv, CallInv, ApiInv

\* source().
LEMMA SetSourceFits ==
  ASSUME DecoderInv, Retry = FALSE, attempts # <<>>, SetSource
  PROVE  DecoderInvAfter
<1>1. /\ api = "initial" /\ api' = "source_set"
      /\ reader' = reader /\ source' = source /\ call' = call /\ asserts' = asserts
  BY DEF SetSource, readerVars
<1>2. CallInv(reader, source, call, asserts) /\ ApiInv(reader, source.read, call, api)
  BY BetweenCalls DEF SetSource
<1>3. call = NoCall /\ Untouched(reader, source.read)
  BY <1>1, <1>2 DEF ApiInv
<1>4. call.client = "none"
  BY <1>3 DEF NoCall
<1>5. ApiInv(reader', source'.read, call', api')
  BY <1>1, <1>3, <1>4 DEF ApiInv, IdlePlace
<1> QED  BY <1>1, <1>2, <1>5 DEF DecoderInvAfter

\* read_spiff_header().
LEMMA ReadSpiffHeaderFits ==
  ASSUME DecoderInv, Retry = FALSE, attempts # <<>>, ReadSpiffHeader
  PROVE  DecoderInvAfter
<1>1. /\ api = "source_set" /\ api' = api /\ Begin("ReadHeader", "spiff")
      /\ reader' = reader /\ source' = source /\ AssertBeforeScan
  BY DEF ReadSpiffHeader
<1>2. /\ IdlePlace(reader, source.read, api) /\ SourceFits(source) /\ ~source.ended
      /\ asserts \subseteq {33}
  BY BetweenCalls DEF ReadSpiffHeader
<1>3. /\ CallFits(call') /\ call'.op = "ReadHeader" /\ call'.client = "spiff"
      /\ ~call'.found /\ call'.component = 0 /\ call'.outcome = "ok"
  BY <1>1, CallBegins DEF Ops
<1>4. Untouched(reader, source.read)
  BY <1>1, <1>2 DEF IdlePlace
<1>5. asserts' = asserts
  BY <1>1, <1>4, StatesOfHeader DEF AssertBeforeScan
<1>6. Place(reader', source'.read, call', asserts')
  BY <1>1, <1>3, <1>4 DEF Place, ReadsHeader
<1>7. CallInv(reader', source', call', asserts')
  BY <1>1, <1>2, <1>3, <1>5, <1>6 DEF CallInv
<1>8. ApiInv(reader', source'.read, call', api')
  BY <1>1, <1>3 DEF ApiInv
<1> QED  BY <1>7, <1>8 DEF DecoderInvAfter

\* read_header(): the reader has not come to a scan when it goes on with a header.
LEMMA ReadHeaderFits ==
  ASSUME DecoderInv, Retry = FALSE, attempts # <<>>, ReadHeader
  PROVE  DecoderInvAfter
<1>1. /\ api \in {"source_set", "spiff_header_read", "spiff_header_not_found"} /\ api' = api
      /\ reader' = reader /\ source' = source
  BY DEF ReadHeader
<1>2. /\ IdlePlace(reader, source.read, api) /\ SourceFits(source) /\ ~source.ended
      /\ asserts \subseteq {33} /\ ApiInv(reader, source.read, call, api)
  BY BetweenCalls DEF ReadHeader
<1>3. CASE api # "spiff_header_not_found"
  <2>1. Begin("ReadHeader", "header") /\ AssertBeforeScan
    BY <1>3 DEF ReadHeader, HeaderStillToRead
  <2>2. /\ CallFits(call') /\ call'.op = "ReadHeader" /\ call'.client = "header"
        /\ ~call'.found /\ call'.component = 0 /\ call'.outcome = "ok"
    BY <2>1, CallBegins DEF Ops
  <2>3. Untouched(reader, source.read) \/ InDirectory(reader, source.read)
    BY <1>1, <1>2, <1>3 DEF IdlePlace
  <2>4. asserts' = asserts
    BY <2>1, <2>3, StatesOfHeader DEF AssertBeforeScan
  <2>5. Place(reader', source'.read, call', asserts')
    BY <1>1, <2>2, <2>3 DEF Place, ReadsHeader
  <2>6. CallInv(reader', source', call', asserts')
    BY <1>1, <1>2, <2>2, <2>4, <2>5 DEF CallInv
  <2>7. ApiInv(reader', source'.read, call', api')
    BY <1>1, <1>2, <2>2 DEF ApiInv
  <2> QED  BY <2>6, <2>7 DEF DecoderInvAfter
<1>4. CASE api = "spiff_header_not_found"
  <2>1. Begin("ReadStartOfScan", "header") /\ asserts' = asserts
    BY <1>4 DEF ReadHeader, HeaderStillToRead
  <2>2. /\ CallFits(call') /\ call'.op = "ReadStartOfScan" /\ call'.client = "header"
        /\ ~call'.found /\ call'.component = 0 /\ call'.outcome = "ok"
    BY <2>1, CallBegins DEF Ops
  <2>3. AtFirstScan(reader, source.read)
    BY <1>2, <1>4 DEF IdlePlace
  <2>4. Place(reader', source'.read, call', asserts')
    BY <1>1, <2>2, <2>3 DEF Place
  <2>5. CallInv(reader', source', call', asserts')
    BY <1>1, <1>2, <2>1, <2>2, <2>4 DEF CallInv
  <2>6. ApiInv(reader', source'.read, call', api')
    BY <1>1, <1>2, <2>2 DEF ApiInv
  <2> QED  BY <2>5, <2>6 DEF DecoderInvAfter
<1> QED  BY <1>3, <1>4

\* decode().
LEMMA DecodeFits ==
  ASSUME DecoderInv, Retry = FALSE, attempts # <<>>, Decode
  PROVE  DecoderInvAfter
<1>1. /\ api = "header_read" /\ api' = api /\ Begin("Read", "decode")
      /\ reader' = reader /\ source' = source /\ asserts' = asserts
  BY DEF Decode
<1>2. /\ IdlePlace(reader, source.read, api) /\ SourceFits(source) /\ ~source.ended
      /\ asserts \subseteq {33}
  BY BetweenCalls DEF Decode
<1>3. /\ CallFits(call') /\ call'.op = "Read" /\ call'.client = "decode"
      /\ ~call'.found /\ call'.component = 0 /\ call'.outcome = "ok"
  BY <1>1, CallBegins DEF Ops
<1>4. HeaderReadable /\ (BeforeBits(reader, source.read, 1) \/ BehindLast(reader, source.read))
  BY <1>1, <1>2 DEF IdlePlace
<1>5. Place(reader', source'.read, call', asserts')
  BY <1>1, <1>3, <1>4 DEF Place
<1>6. CallInv(reader', source', call', asserts')
  BY <1>1, <1>2, <1>3, <1>5 DEF CallInv
<1>7. ApiInv(reader', source'.read, call', api')
  BY <1>1, <1>3 DEF ApiInv
<1> QED  BY <1>6, <1>7 DEF DecoderInvAfter

\* The search for a header is over; the scan is read for the application that does
\* not search for a SPIFF header.
LEMMA ScanIsNext ==
  ASSUME CallInv(reader, source, call, asserts), HeaderRead, call.client # "spiff"
  PROVE  /\ CallInv(reader', source', call', asserts')
         /\ call.client = "header" /\ call'.client = "header" /\ call'.op = "ReadStartOfScan"
<1>1. /\ call.op = "headerRead"
      /\ reader' = reader /\ source' = source /\ asserts' = asserts
      /\ call' = [call EXCEPT !.op = "ReadStartOfScan"]
  BY DEF HeaderRead
<1>2. /\ CallFits(call) /\ SourceFits(source) /\ asserts \subseteq {33}
      /\ call.outcome = "ok" /\ ~source.ended /\ HasReadHeader(reader, source.read, call)
  BY <1>1, CallRuns DEF Place
<1>3. /\ CallFits(call') /\ call'.op = "ReadStartOfScan" /\ call'.client = call.client
      /\ call'.outcome = "ok"
  BY <1>1, <1>2, CallGoesOn DEF Ops
<1>4. call.client = "header" /\ AtFirstScan(reader, source.read)
  BY <1>2 DEF HasReadHeader
<1>5. Place(reader', source'.read, call', asserts')
  BY <1>1, <1>3, <1>4 DEF Place
<1>6. CallInv(reader', source', call', asserts')
  BY <1>1, <1>2, <1>3, <1>5 DEF CallInv
<1> QED  BY <1>3, <1>4, <1>6

\* The search for a header is over.
LEMMA HeaderReadFits ==
  ASSUME DecoderInv, HeaderRead
  PROVE  DecoderInvAfter
<1>1. /\ call.op = "headerRead"
      /\ reader' = reader /\ source' = source /\ asserts' = asserts
  BY DEF HeaderRead
<1>2. CallInv(reader, source, call, asserts) /\ ApiInv(reader, source.read, call, api)
  BY DEF DecoderInv
<1>3. /\ CallFits(call) /\ SourceFits(source) /\ asserts \subseteq {33}
      /\ call.outcome = "ok" /\ ~source.ended /\ HasReadHeader(reader, source.read, call)
  BY <1>1, <1>2, CallRuns DEF Place
<1>4. api # "initial" /\ attempts # <<>>
  BY <1>1, <1>2 DEF ApiInv, NoCall
<1>5. CASE call.client = "spiff"
  <2>1. /\ call' = Returned("ok")
        /\ api' = IF call.found THEN "spiff_header_read" ELSE "spiff_header_not_found"
    BY <1>5 DEF HeaderRead
  <2>2. /\ CallFits(call') /\ call'.op = "returned" /\ call'.client = "spiff"
        /\ call'.found = call.found /\ call'.outcome = "ok"
    BY <1>3, <1>5, <2>1, CallReturns
  <2>3. HasReadHeader(reader', source'.read, call')
    BY <1>1, <1>3, <1>5, <2>2 DEF HasReadHeader
  <2>4. Place(reader', source'.read, call', asserts')
    BY <2>2, <2>3 DEF Place
  <2>5. CallInv(reader', source', call', asserts')
    BY <1>1, <1>3, <2>2, <2>4 DEF CallInv
  <2>6. ~call.found => Prefix = 0
    BY <1>3, <1>5 DEF HasReadHeader
  <2>7. ApiInv(reader', source'.read, call', api')
    BY <1>4, <2>1, <2>2, <2>6 DEF ApiInv
  <2> QED  BY <2>5, <2>7 DEF DecoderInvAfter
<1>6. CASE call.client # "spiff"
  <2>1. /\ CallInv(reader', source', call', asserts')
        /\ call.client = "header" /\ call'.client = "header" /\ call'.op = "ReadStartOfScan"
    BY <1>2, <1>6, ScanIsNext
  <2>2. api' = api
    BY <1>6 DEF HeaderRead
  <2>3. ApiInv(reader', source'.read, call', api')
    BY <1>2, <1>4, <2>1, <2>2 DEF ApiInv
  <2> QED  BY <2>1, <2>3 DEF DecoderInvAfter
<1> QED  BY <1>5, <1>6

\* A call returns to the application.
LEMMA ReturnFits ==
  ASSUME DecoderInv, Return
  PROVE  DecoderInvAfter
<1>1. /\ call.op = "returned" /\ call' = [call EXCEPT !.op = "idle"]
      /\ api' = IF call.client = "header" /\ call.outcome = "ok" THEN "header_read" ELSE api
      /\ reader' = reader /\ source' = source /\ asserts' = asserts
  BY DEF Return
<1>2. CallInv(reader, source, call, asserts) /\ ApiInv(reader, source.read, call, api)
  BY DEF DecoderInv
<1>3. CallFits(call) /\ SourceFits(source) /\ asserts \subseteq {33}
  BY <1>2 DEF CallInv
<1>4. api # "initial" /\ attempts # <<>>
  BY <1>1, <1>2 DEF ApiInv, NoCall
<1>5. /\ CallFits(call') /\ call'.op = "idle" /\ call'.client = call.client
      /\ call'.outcome = call.outcome
  BY <1>1, <1>3, CallGoesOn DEF Ops
<1>6. CASE call.outcome = "error"
  <2>1. Failed(call', asserts')
    BY <1>1, <1>2, <1>5, <1>6 DEF CallInv, Failed
  <2>2. CallInv(reader', source', call', asserts')
    BY <1>1, <1>3, <1>5, <1>6, <2>1 DEF CallInv
  <2>3. ApiInv(reader', source'.read, call', api')
    BY <1>1, <1>2, <1>4, <1>5, <1>6 DEF ApiInv
  <2> QED  BY <2>2, <2>3 DEF DecoderInvAfter
<1>7. CASE call.outcome = "ok"
  <2>1. ~source.ended /\ Place(reader, source.read, call, asserts)
    BY <1>2, <1>7 DEF CallInv
  <2>2. \/ call.client = "header" /\ HeaderReadable /\ BeforeBits(reader, source.read, 1)
        \/ call.client = "decode" /\ Decodable /\ BehindLast(reader, source.read)
        \/ call.client = "spiff" /\ HasReadHeader(reader, source.read, call)
    BY <1>1, <2>1 DEF Place
  <2>3. Place(reader', source'.read, call', asserts')
    BY <1>5 DEF Place
  <2>4. CallInv(reader', source', call', asserts')
    BY <1>1, <1>3, <1>5, <1>7, <2>1, <2>3 DEF CallInv
  <2>5. IdlePlace(reader', source'.read, api') /\ (api' = "spiff_header_not_found" => Prefix = 0)
    <3>1. CASE call.client = "header"
      BY <1>1, <1>7, <2>2, <3>1 DEF IdlePlace
    <3>2. CASE call.client = "decode"
      <4>1. api' = "header_read"
        BY <1>1, <1>2, <3>2 DEF ApiInv
      <4> QED  BY <1>1, <2>2, <3>2, <4>1 DEF IdlePlace, Decodable
    <3>3. CASE call.client = "spiff"
      <4>1. api' = IF call.found THEN "spiff_header_read" ELSE "spiff_header_not_found"
        BY <1>1, <1>2, <1>7, <3>3 DEF ApiInv
      <4>2. IF call.found THEN InDirectory(reader, source.read)
            ELSE Prefix = 0 /\ AtFirstScan(reader, source.read)
        BY <2>2, <3>3 DEF HasReadHeader
      <4> QED  BY <1>1, <4>1, <4>2 DEF IdlePlace
    <3> QED  BY <2>2, <3>1, <3>2, <3>3
  <2>6. ApiInv(reader', source'.read, call', api')
    BY <1>1, <1>2, <1>4, <1>5, <1>7, <2>5 DEF ApiInv
  <2> QED  BY <2>4, <2>6 DEF DecoderInvAfter
<1> QED  BY <1>3, <1>6, <1>7 DEF CallFits

\* Nothing that the decoder does changes what was written, nor where its parts
\* begin.
LEMMA PartsStay ==
  ASSUME UNCHANGED encoderVars
  PROVE  /\ writer' = writer /\ attempts' = attempts
         /\ Prefix' = Prefix /\ HeaderEnd' = HeaderEnd /\ ScansEnd' = ScansEnd
         /\ settings' = settings
         /\ HeaderReadable' = HeaderReadable /\ Decodable' = Decodable
         /\ \A i : CodedTo(i)' = CodedTo(i)
<1>1. writer' = writer /\ attempts' = attempts
  BY DEF encoderVars
<1>2. /\ Prefix' = Prefix /\ HeaderEnd' = HeaderEnd /\ ScansEnd' = ScansEnd
      /\ settings' = settings
  BY <1>1 DEF Prefix, HeaderEnd, ScansEnd, settings, First
<1>3. /\ HeaderReadable' = HeaderReadable /\ Decodable' = Decodable
      /\ \A i : CodedTo(i)' = CodedTo(i)
  BY <1>1, <1>2 DEF HeaderReadable, Decodable, CodedTo
<1> QED  BY <1>1, <1>2, <1>3

\* The invariant of a call, in the next state.
LEMMA CallStays ==
  ASSUME UNCHANGED encoderVars, CallInv(reader', source', call', asserts')
  PROVE  CallInv(reader, source, call, asserts)'
<1>1. SourceFits(source)' = SourceFits(source')
  BY PartsStay DEF SourceFits
<1>2. Place(reader, source.read, call, asserts)' = Place(reader', source'.read, call', asserts')
  BY PartsStay
     DEF Place, ReadsHeader, HasReadHeader, Decodes, Again, Between, BehindLast, BehindScan,
         BeforeBits,
         Untouched, AtStart, InDirectory, BehindDirectory, InTables, AtFirstScan, HeaderTo, ScanOf,
         ReaderOf, Blank, CodedTo
<1>3. Failed(call, asserts)' = Failed(call', asserts')
  BY PartsStay DEF Failed
<1> QED  BY <1>1, <1>2, <1>3 DEF CallInv, CallFits

\* The invariant of a decoder object, in the next state.
LEMMA ApiStays ==
  ASSUME UNCHANGED encoderVars, ApiInv(reader', source'.read, call', api')
  PROVE  ApiInv(reader, source.read, call, api)'
<1>1. IdlePlace(reader, source.read, api)' = IdlePlace(reader', source'.read, api')
  BY PartsStay
     DEF IdlePlace, BehindLast, BehindScan, BeforeBits, Untouched, InDirectory, AtFirstScan,
         HeaderTo,
         ScanOf, ReaderOf, Blank, CodedTo
<1> QED  BY <1>1, PartsStay DEF ApiInv, Untouched, Blank, ReaderOf

\* The invariant of the decoder, in the next state.
LEMMA StreamStays ==
  ASSUME UNCHANGED encoderVars, DecoderInvAfter
  PROVE  DecoderInv'
BY CallStays, ApiStays DEF DecoderInvAfter, DecoderInv

-----------------------------------------------------------------------------
(* The invariant of an application that encodes and decodes.               *)

\* The decoder object is made, and nothing was read.
LEMMA InitDecoderFits ==
  ASSUME InitBoth
  PROVE  DecoderInv
<1>1. /\ reader = Blank("before_start_of_image") /\ asserts = {} /\ api = "initial"
      /\ call = NoCall
  BY DEF InitBoth, InitDecoder, Init, InitReader, Blank, ReaderOf, NoFrame
<1>2. PICK kind : source = [kind |-> kind, read |-> 0, ended |-> FALSE]
  BY DEF InitBoth, InitDecoder, Init
<1>3. /\ call = [op |-> "idle", client |-> "none", found |-> FALSE,
                 component |-> 0, mode |-> "none", outcome |-> "ok"]
      /\ call.op = "idle" /\ call.client = "none" /\ call.found = FALSE
      /\ call.component = 0 /\ call.mode = "none" /\ call.outcome = "ok"
  BY <1>1 DEF NoCall
<1>4. CallFits(call)
  BY <1>3 DEF CallFits, Ops
<1>5. source.read = 0 /\ source.ended = FALSE /\ source.kind = kind
  BY <1>2
<1>6. Len(writer.segments) = 0
  BY Nothing DEF InitBoth, InitEncoder
<1>7. SourceFits(source)
  BY <1>2, <1>5, <1>6 DEF SourceFits
<1>8. Place(reader, source.read, call, asserts)
  BY <1>3 DEF Place
<1>9. CallInv(reader, source, call, asserts)
  BY <1>1, <1>3, <1>4, <1>5, <1>7, <1>8 DEF CallInv
<1>10. Untouched(reader, source.read)
  BY <1>1, <1>5 DEF Untouched
<1>11. ApiInv(reader, source.read, call, api)
  BY <1>1, <1>3, <1>5, <1>10 DEF ApiInv, IdlePlace
<1> QED  BY <1>9, <1>11 DEF DecoderInv

\* The encoder goes on while nothing was read.
LEMMA DecoderWaits ==
  ASSUME DecoderInv, EncoderInv', api = "initial", UNCHANGED vars
  PROVE  DecoderInv'
<1>1. CallInv(reader, source, call, asserts) /\ ApiInv(reader, source.read, call, api)
  BY DEF DecoderInv
<1>2. call = NoCall /\ source.read = 0 /\ Untouched(reader, source.read)
  BY <1>1 DEF ApiInv
<1>3. call.op = "idle" /\ call.client = "none" /\ call.outcome = "ok"
  BY <1>2 DEF NoCall
<1>4. reader' = reader /\ source' = source /\ call' = call /\ asserts' = asserts /\ api' = api
  BY DEF vars, readerVars
<1>5. IsSequence(writer.segments)'
  BY DEF EncoderInv, WriterFits
<1>6. Len(writer'.segments) \in Nat
  <2> DEFINE s == writer'.segments
  <2>1. IsSequence(s)
    BY <1>5 DEF IsSequence
  <2> HIDE DEF s
  <2>2. Len(s) \in Nat
    BY <2>1, DomainOfSequence
  <2> QED  BY <2>2 DEF s
<1>7. /\ CallFits(call) /\ asserts \subseteq {33} /\ ~source.ended
      /\ source = [kind |-> source.kind, read |-> source.read, ended |-> source.ended]
      /\ source.ended \in BOOLEAN
  BY <1>1, <1>3 DEF CallInv, SourceFits
<1>8. SourceFits(source)'
  BY <1>2, <1>4, <1>6, <1>7 DEF SourceFits
<1>9. Place(reader, source.read, call, asserts)'
  BY <1>3, <1>4 DEF Place
<1>10. CallInv(reader, source, call, asserts)'
  BY <1>3, <1>4, <1>7, <1>8, <1>9 DEF CallInv, CallFits
<1>11. Untouched(reader, source.read)'
  BY <1>2, <1>4 DEF Untouched, Blank, ReaderOf
<1>12. ApiInv(reader, source.read, call, api)'
  BY <1>2, <1>3, <1>4, <1>11 DEF ApiInv, IdlePlace
<1> QED  BY <1>10, <1>12 DEF DecoderInv

\* Steps of the decoder leave the encoder.
LEMMA EncoderWaits ==
  ASSUME EncoderInv, UNCHANGED encoderVars
  PROVE  EncoderInv'
<1>1. /\ encoder' = encoder /\ state' = state /\ writer' = writer /\ attempts' = attempts
  BY DEF encoderVars
<1>2. EncoderFits'
  BY <1>1 DEF EncoderInv, EncoderFits
<1> QED  BY <1>1, <1>2, NothingWritten

\* The settings of the encoder, and those it encoded with, are what it was given.
EncoderTyped ==
  /\ encoder.frame \in Frames \cup {NoFrame}
  /\ encoder.mode \in InterleaveModes \cup {"none"} /\ encoder.near \in Nears \cup {0}
  /\ encoder.transformation \in ColorTransformations \cup {"none"}
  /\ IsDefault(encoder.preset) \/ \E n \in Nears \cup {0} : IsValid(encoder.preset, 65535, n)
  /\ Len(attempts) <= MaxEncodes
  /\ \A i \in 1..Len(attempts) : attempts[i].settings.near \in Nears \cup {0}

\* Initially.
LEMMA InitTyped == InitEncoder => EncoderTyped
<1> SUFFICES ASSUME InitEncoder PROVE EncoderTyped
  OBVIOUS
<1>1. encoder = [frame |-> NoFrame, mode |-> "none", near |-> 0,
                 preset |-> NoPreset, transformation |-> "none"]
  BY DEF InitEncoder
<1>2. /\ encoder.frame = NoFrame /\ encoder.mode = "none" /\ encoder.near = 0
      /\ encoder.preset = NoPreset /\ encoder.transformation = "none"
  BY <1>1
<1>3. Len(attempts) = 0 /\ MaxEncodes \in Nat
  BY Nothing, EncoderAssumption DEF InitEncoder
<1> QED  BY <1>2, <1>3 DEF EncoderTyped, IsDefault

\* Every call of the encoder.
LEMMA StepTyped ==
  ASSUME EncoderInv, EncoderTyped, NextEncoder
  PROVE  EncoderTyped'
<1>1. /\ encoder = [frame |-> encoder.frame, mode |-> encoder.mode, near |-> encoder.near,
                    preset |-> encoder.preset, transformation |-> encoder.transformation]
      /\ IsSequence(attempts)
  BY DEF EncoderInv, EncoderFits, AttemptsFit
<1>2. CASE SetsSome
  <2>1. attempts' = attempts
    BY <1>2 DEF SetsSome, SetFrameInfo, SetInterleaveMode, SetNearLossless, SetPreset,
       SetColorTransformation, Set
  <2>2. CASE SetFrameInfo
    <3>1. PICK f \in Frames : encoder' = [encoder EXCEPT !["frame"] = f]
      BY <2>2 DEF SetFrameInfo, Set
    <3>2. /\ encoder'.frame = f /\ encoder'.mode = encoder.mode /\ encoder'.near = encoder.near
          /\ encoder'.preset = encoder.preset
          /\ encoder'.transformation = encoder.transformation
      BY <1>1, <3>1
    <3> QED  BY <2>1, <3>2 DEF EncoderTyped
  <2>3. CASE SetInterleaveMode
    <3>1. PICK m \in InterleaveModes : encoder' = [encoder EXCEPT !["mode"] = m]
      BY <2>3 DEF SetInterleaveMode, Set
    <3>2. /\ encoder'.frame = encoder.frame /\ encoder'.mode = m /\ encoder'.near = encoder.near
          /\ encoder'.preset = encoder.preset
          /\ encoder'.transformation = encoder.transformation
      BY <1>1, <3>1
    <3> QED  BY <2>1, <3>2 DEF EncoderTyped
  <2>4. CASE SetNearLossless
    <3>1. PICK v \in Nears : encoder' = [encoder EXCEPT !["near"] = v]
      BY <2>4 DEF SetNearLossless, Set
    <3>2. /\ encoder'.frame = encoder.frame /\ encoder'.mode = encoder.mode /\ encoder'.near = v
          /\ encoder'.preset = encoder.preset
          /\ encoder'.transformation = encoder.transformation
      BY <1>1, <3>1
    <3> QED  BY <2>1, <3>2 DEF EncoderTyped
  <2>5. CASE SetPreset
    <3>1. PICK p \in PresetSettings : IsAccepted(p) /\ Set("preset", p)
      BY <2>5 DEF SetPreset
    <3>2. IsValid(p, 65535, encoder.near)
      BY <3>1, SMT DEF IsAccepted
    <3>3. encoder' = [encoder EXCEPT !["preset"] = p]
      BY <3>1 DEF Set
    <3>4. /\ encoder'.frame = encoder.frame /\ encoder'.mode = encoder.mode
          /\ encoder'.near = encoder.near
          /\ encoder'.preset = p /\ encoder'.transformation = encoder.transformation
      BY <1>1, <3>3
    <3> QED  BY <2>1, <3>2, <3>4 DEF EncoderTyped
  <2>6. CASE SetColorTransformation
    <3>1. PICK c \in ColorTransformations : encoder' = [encoder EXCEPT !["transformation"] = c]
      BY <2>6 DEF SetColorTransformation, Set
    <3>2. /\ encoder'.frame = encoder.frame /\ encoder'.mode = encoder.mode
          /\ encoder'.near = encoder.near
          /\ encoder'.preset = encoder.preset /\ encoder'.transformation = c
      BY <1>1, <3>1
    <3> QED  BY <2>1, <3>2 DEF EncoderTyped
  <2> QED  BY <1>2, <2>2, <2>3, <2>4, <2>5, <2>6 DEF SetsSome
<1>3. CASE SetDestination \/ WriteSpiffHeader \/ WriteSpiffEntry
  <2>1. encoder' = encoder /\ attempts' = attempts
    BY <1>3 DEF SetDestination, WriteSpiffHeader, WriteSpiffEntry
  <2> QED  BY <2>1 DEF EncoderTyped
<1>4. CASE Encode \/ EncodeFailsInScan \/ EncodeRunsFull
  <2>1. PICK done : Attempted(done) /\ encoder' = encoder /\ Len(attempts) < MaxEncodes
    BY <1>4 DEF Encode, EncodeFailsInScan, EncodeRunsFull, CanEncode
  <2> DEFINE a == [settings |-> encoder, first |-> Len(writer.segments) + 1, done |-> done]
  <2>2. attempts' = Append(attempts, a) /\ a.settings = encoder
    BY <2>1 DEF Attempted
  <2> HIDE DEF a
  <2>3. /\ Len(attempts') = Len(attempts) + 1 /\ Len(attempts) \in Nat
        /\ \A i \in 1..Len(attempts) : attempts'[i] = attempts[i]
        /\ attempts'[Len(attempts) + 1] = a
    BY <1>1, <2>2, Appended, DomainOfSequence
  <2>4. MaxEncodes \in Nat
    BY EncoderAssumption
  <2>5. Len(attempts') <= MaxEncodes
    BY <2>1, <2>3, <2>4
  <2>6. ASSUME NEW i \in 1..Len(attempts') PROVE attempts'[i].settings.near \in Nears \cup {0}
    <3>1. CASE i <= Len(attempts)
      <4>1. i \in 1..Len(attempts)
        BY <2>3, <3>1
      <4> QED  BY <2>3, <4>1 DEF EncoderTyped
    <3>2. CASE i > Len(attempts)
      <4>1. i = Len(attempts) + 1
        BY <2>3, <3>2
      <4> QED  BY <2>2, <2>3, <4>1 DEF EncoderTyped
    <3> QED  BY <2>3, <3>1, <3>2
  <2> QED  BY <2>1, <2>5, <2>6 DEF EncoderTyped
<1> QED  BY <1>2, <1>3, <1>4 DEF NextEncoder, SetsSome

\* Whatever is read, the settings of the encoder stay.
LEMMA EncoderStays ==
  ASSUME EncoderInv, EncoderTyped, [NextBoth]_allVars
  PROVE  EncoderInv' /\ EncoderTyped'
<1>1. ASSUME UNCHANGED encoderVars PROVE EncoderInv' /\ EncoderTyped'
  <2>1. EncoderInv'
    BY <1>1, EncoderWaits
  <2>2. EncoderTyped'
    BY <1>1 DEF encoderVars, EncoderTyped
  <2> QED  BY <2>1, <2>2
<1>2. CASE EncoderStep
  BY <1>2, EncoderStepFits, StepTyped DEF EncoderStep
<1>3. CASE ~EncoderStep
  <2>1. UNCHANGED encoderVars
    BY <1>3 DEF NextBoth, DecoderStep, allVars, encoderVars
  <2> QED  BY <1>1, <2>1
<1> QED  BY <1>2, <1>3

\* Whatever calls an application makes, in whatever order and with failures at any
\* segment, the segments of the first encode stand behind those of SPIFF as its
\* settings ask for, complete when it returned; later calls only append.  This
\* holds for every source, bound and use of the decoder.
THEOREM EncoderInvariant == SpecBoth => [](EncoderInv /\ EncoderTyped)
<1>1. InitBoth => EncoderInv /\ EncoderTyped
  BY InitEncoderFits, InitTyped DEF InitBoth
<1>2. EncoderInv /\ EncoderTyped /\ [NextBoth]_allVars => (EncoderInv /\ EncoderTyped)'
  BY EncoderStays
<1> QED  BY <1>1, <1>2, PTL DEF SpecBoth

\* The members of charls_jpegls_encoder and of its writer stay in their types, and
\* the preset coding parameters are the default or valid for a NEAR that was asked
\* for, though the setters run in any order and each checks only its own argument.
THEOREM EncoderTypes == SpecBoth => []EncoderTypeOK
<1>1. EncoderInv /\ EncoderTyped => EncoderTypeOK
  <2> SUFFICES ASSUME EncoderInv, EncoderTyped PROVE EncoderTypeOK
    OBVIOUS
  <2>1. writer.componentId \in Nat /\ writer.full \in BOOLEAN /\ IsSequence(writer.segments)
    BY DEF EncoderInv, WriterFits
  <2>2. DOMAIN writer.segments = 1..Len(writer.segments)
    BY <2>1, DomainOfSequence
  <2> QED  BY <2>1, <2>2 DEF EncoderTypeOK, EncoderTyped, EncoderInv, SegmentsMarked, Markers
<1> QED  BY <1>1, EncoderInvariant, PTL

\* The invariant of the decoder, for a stream in memory and an application that
\* gives up after an error.
BothInv == EncoderInv /\ EncoderTyped /\ DecoderInv

\* Every step of the two.
LEMMA BothStep ==
  ASSUME Source = "memory", Retry = FALSE, BothInv, [NextBoth]_allVars
  PROVE  BothInv'
<1>1. EncoderInv /\ EncoderTyped /\ DecoderInv
  BY DEF BothInv
<1>2. EncoderInv' /\ EncoderTyped'
  BY <1>1, EncoderStays
<1>3. CASE EncoderStep
  <2>1. DecoderInv'
    BY <1>1, <1>2, <1>3, DecoderWaits DEF EncoderStep
  <2> QED  BY <1>2, <2>1 DEF BothInv
<1>4. CASE DecoderStep
  <2>1. UNCHANGED encoderVars
    BY <1>4 DEF DecoderStep
  <2>2. DecoderInvAfter
    BY <1>1, <1>4, ReaderStepFits, SetSourceFits, ReadSpiffHeaderFits, ReadHeaderFits,
       DecodeFits,
       HeaderReadFits, ReturnFits DEF DecoderStep
  <2>3. DecoderInv'
    BY <1>1, <2>1, <2>2, StreamStays
  <2> QED  BY <1>2, <2>3 DEF BothInv
<1>5. CASE UNCHANGED allVars
  <2>1. /\ UNCHANGED encoderVars
        /\ reader' = reader /\ source' = source /\ call' = call /\ asserts' = asserts
        /\ api' = api
    BY <1>5 DEF allVars, vars, readerVars
  <2>2. DecoderInvAfter
    BY <1>1, <2>1 DEF DecoderInv, DecoderInvAfter
  <2>3. DecoderInv'
    BY <1>1, <2>1, <2>2, StreamStays
  <2> QED  BY <1>2, <2>3 DEF BothInv
<1>6. CASE Stop /\ UNCHANGED encoderVars
  <2>1. UNCHANGED allVars
    BY <1>6 DEF Stop, allVars
  <2> QED  BY <1>5, <2>1
<1> QED  BY <1>3, <1>4, <1>5, <1>6 DEF NextBoth

\* In every state the members of the reader are what the segments that the encoder
\* wrote and the reader has read determine, and a call of the decoder has failed
\* only when header or scans cannot be read.
THEOREM BothInvariant ==
  ASSUME Source = "memory", Retry = FALSE
  PROVE  SpecBoth => []BothInv
<1>1. InitBoth => BothInv
  BY InitEncoderFits, InitTyped, InitDecoderFits DEF InitBoth, BothInv
<1>2. BothInv /\ [NextBoth]_allVars => BothInv'
  BY BothStep
<1> QED  BY <1>1, <1>2, PTL DEF SpecBoth

\* The scans that were coded by the first encode, when all of them were.
LEMMA ScansCounted ==
  ASSUME EncoderInv, attempts # <<>>, ScansEnd <= Len(writer.segments), CodedTo(ScansEnd)
  PROVE  Cardinality(ScansOfFirst) = ScanCount(settings)
<1>1. /\ HeaderEnd \in Nat /\ ScansEnd \in Nat /\ IsImage(settings) /\ HeaderEnd < ScansEnd
      /\ ScanCount(settings) \in Nat /\ ScansEnd = HeaderEnd + ScanCount(settings)
  BY SettingsAreAnImage, Lengths DEF EncoderInv, ScansEnd
<1>2. DOMAIN writer.segments = 1..Len(writer.segments) /\ Len(writer.segments) \in Nat
  BY DomainOfSequence DEF EncoderInv, WriterFits
<1>3. FirstInv /\ AttemptsFit
  BY DEF EncoderInv
<1>4. \A i \in (HeaderEnd + 1)..ScansEnd : Coded(writer.segments[i])
  BY DEF CodedTo
<1>5. ASSUME NEW i \in ScansOfFirst PROVE i \in (HeaderEnd + 1)..ScansEnd
  <2>1. /\ i \in 1..Len(writer.segments) /\ writer.segments[i].marker = "SOS"
        /\ Len(attempts) > 1 => i < attempts[2].first
    BY <1>2 DEF ScansOfFirst
  <2>2. i > HeaderEnd /\ i <= ScansEnd
    BY <1>3, <2>1 DEF FirstInv, ScansAreOfFirst
  <2> QED  BY <1>1, <2>1, <2>2
<1>6. ASSUME NEW i \in (HeaderEnd + 1)..ScansEnd PROVE i \in ScansOfFirst
  <2>1. writer.segments[i].marker = "SOS" /\ writer.segments[i].data = "good"
    BY <1>4 DEF Coded
  <2>2. i \in DOMAIN writer.segments
    BY <1>1, <1>2
  <2>3. ASSUME Len(attempts) > 1 PROVE i < attempts[2].first
    <3>1. StopsBefore(attempts[2].first)
      BY <1>3, <2>3 DEF FirstInv, SecondIsBehind
    <3>2. PICK j \in (HeaderEnd + 1)..(ScansEnd + 1) :
                 j < attempts[2].first /\ ~Coded(writer.segments[j])
      BY <3>1 DEF StopsBefore
    <3>3. j = ScansEnd + 1
      BY <1>1, <1>4, <3>2
    <3>4. attempts[2].first \in Nat
      <4>1. Len(attempts) \in Nat
        BY <1>3, DomainOfSequence DEF AttemptsFit
      <4> QED  BY <1>3, <2>3, <4>1 DEF AttemptsFit
    <3> QED  BY <1>1, <3>2, <3>3, <3>4
  <2> QED  BY <2>1, <2>2, <2>3 DEF ScansOfFirst
<1>7. ScansOfFirst = (HeaderEnd + 1)..ScansEnd
  BY <1>5, <1>6
<1>8. Cardinality((HeaderEnd + 1)..ScansEnd) = ScansEnd - (HeaderEnd + 1) + 1
  <2>1. HeaderEnd + 1 \in Int /\ ScansEnd \in Int /\ ~(HeaderEnd + 1 > ScansEnd)
    BY <1>1
  <2> QED  BY <2>1, FS_Interval
<1> QED  BY <1>1, <1>7, <1>8

\* A decode returns only when the first encode had coded all of its scans, also when
\* that call threw later, or another encode went on behind what it had left.
THEOREM DecodedWasEncoded ==
  ASSUME Source = "memory", Retry = FALSE
  PROVE  SpecBoth => []DecodedIsEncoded
<1>1. BothInv => DecodedIsEncoded
  <2> SUFFICES ASSUME BothInv, call.op = "returned", call.client = "decode", call.outcome = "ok"
               PROVE  Cardinality(ScansOfFirst)
                        = (IF settings.mode = "none" THEN settings.frame.components ELSE 1)
    BY DEF DecodedIsEncoded
  <2>1. /\ CallInv(reader, source, call, asserts) /\ ApiInv(reader, source.read, call, api)
        /\ EncoderInv
    BY DEF BothInv, DecoderInv
  <2>2. Decodable
    BY <2>1 DEF CallInv, Place
  <2>3. attempts # <<>>
    BY <2>1 DEF ApiInv, NoCall
  <2> QED  BY <2>1, <2>2, <2>3, ScansCounted DEF Decodable, ScanCount
<1> QED  BY <1>1, BothInvariant, PTL

\* read_spiff_header does not miss a SPIFF header: it reports that there is none
\* only when the application of the encoder wrote none.
THEOREM SpiffFound ==
  ASSUME Source = "memory", Retry = FALSE
  PROVE  SpecBoth => []SpiffIsFound
<1>1. BothInv => SpiffIsFound
  <2> SUFFICES ASSUME BothInv, api = "spiff_header_not_found"
               PROVE  ApplicationData8("spiff", "none") \notin
                        {writer.segments[i] : i \in 1..(First.first - 1)}
    BY DEF SpiffIsFound
  <2>1. First.first - 1 = 0
    BY DEF BothInv, DecoderInv, ApiInv, Prefix
  <2> QED  BY <2>1
<1> QED  BY <1>1, BothInvariant, PTL

-----------------------------------------------------------------------------
(* Settings that the decoder supports.                                     *)

\* The largest value of a sample, of a depth that a frame can have.
LEMMA LargestValue ==
  ASSUME NEW bits \in 2..16
  PROVE  /\ CalculateMaximumSampleValue(bits) \in Nat
         /\ 3 <= CalculateMaximumSampleValue(bits) /\ CalculateMaximumSampleValue(bits) <= 65535
<1> USE DEF CalculateMaximumSampleValue
<1>1. CASE bits = 2  BY <1>1
<1>2. CASE bits = 3  BY <1>2
<1>3. CASE bits = 4  BY <1>3
<1>4. CASE bits = 5  BY <1>4
<1>5. CASE bits = 6  BY <1>5
<1>6. CASE bits = 7  BY <1>6
<1>7. CASE bits = 8  BY <1>7
<1>8. CASE bits = 9  BY <1>8
<1>9. CASE bits = 10  BY <1>9
<1>10. CASE bits = 11  BY <1>10
<1>11. CASE bits = 12  BY <1>11
<1>12. CASE bits = 13  BY <1>12
<1>13. CASE bits = 14  BY <1>13
<1>14. CASE bits = 15  BY <1>14
<1>15. CASE bits = 16  BY <1>15
<1> QED  BY <1>1, <1>2, <1>3, <1>4, <1>5, <1>6, <1>7, <1>8, <1>9, <1>10, <1>11, <1>12, <1>13,
            <1>14, <1>15

\* Presets and NEAR that are valid for the depth of the frame.
ParametersSupported(e) ==
  LET maxval == CalculateMaximumSampleValue(e.frame.bits)
  IN  /\ IsValid(e.preset, maxval, e.near)
      /\ e.near <= MaximumNearLossless(Or(e.preset.maxval, maxval))

\* The default presets of a largest value.
LEMMA DefaultMembers ==
  ASSUME NEW maxval, NEW near
  PROVE  /\ ComputeDefault(maxval, near).maxval = maxval
         /\ ComputeDefault(maxval, near).reset = DefaultResetValue
BY DEF ComputeDefault

\* What the reader checks of presets and NEAR is weaker.
LEMMA SupportedFits ==
  ASSUME NEW e, IsImage(e), ParametersSupported(e)
  PROVE  PresetFits(e) /\ NearFits(e) /\ e.near <= 255
<1> DEFINE M == CalculateMaximumSampleValue(e.frame.bits)
           d == ComputeDefault(M, e.near)
           limit == MaximumNearLossless(Or(e.preset.maxval, M))
<1>1. M \in Nat /\ M >= 3
  BY LargestValue, SMT DEF IsImage
<1>2. e.near \in Nat /\ e.near <= limit
  BY DEF IsImage, ParametersSupported
<1>3. e.preset.maxval # 0 => e.preset.maxval \in 1..M
  BY DEF ParametersSupported, IsValid
<1>4. d.maxval = M
  BY DefaultMembers
<1>5. \/ WrittenPreset(e) = e.preset
      \/ e.preset = NoPreset /\ WrittenPreset(e) = d
      \/ e.preset = NoPreset /\ WrittenPreset(e) = NoPreset
  BY DEF WrittenPreset, IsDefault
<1>6. NoPreset.maxval = 0
  BY DEF NoPreset
<1>7. e.preset = NoPreset => e.preset.maxval = 0
  BY <1>6
<1> HIDE DEF M, d, limit
<1>8. limit \in Int /\ limit <= 255
  <2>1. Or(e.preset.maxval, M) \in Int
    BY <1>1, <1>3 DEF Or
  <2> DEFINE v == Or(e.preset.maxval, M)
  <2>2. limit = Smallest(255, v \div 2)
    BY DEF limit, MaximumNearLossless
  <2> HIDE DEF v
  <2>3. v \in Int
    BY <2>1 DEF v
  <2> QED  BY <2>2, <2>3 DEF Smallest
<1>9. e.near <= 255 /\ e.near % 256 = e.near
  BY <1>2, <1>8
<1>10. WrittenPreset(e).maxval = e.preset.maxval \/ (e.preset.maxval = 0 /\ WrittenPreset(e).maxval = M)
  BY <1>4, <1>5, <1>7
<1>11. WrittenPreset(e).maxval <= M
  BY <1>1, <1>3, <1>10
<1>12. Or(WrittenPreset(e).maxval, M) = Or(e.preset.maxval, M)
  BY <1>10 DEF Or
<1>13. ~ e.near > limit
  BY <1>2, <1>8
<1> QED  BY <1>9, <1>11, <1>12, <1>13 DEF PresetFits, NearFits, M, limit

\* An encode that returned, with presets and NEAR that are supported, has written
\* a header that can be read.
LEMMA DoneIsReadable ==
  ASSUME EncoderInv, attempts # <<>>, First.done, ParametersSupported(settings)
  PROVE  HeaderReadable /\ (ModeFits(settings) => Decodable)
<1>1. /\ HeaderEnd \in Nat /\ ScansEnd \in Nat /\ HeaderEnd < ScansEnd /\ IsImage(settings)
  BY SettingsAreAnImage DEF EncoderInv
<1>2. ScansEnd < Len(writer.segments) /\ CodedTo(ScansEnd) /\ ~ScanIsRefused(settings)
  BY DEF EncoderInv, FirstInv, DoneIsComplete
<1>3. Len(writer.segments) \in Nat
  BY DomainOfSequence DEF EncoderInv, WriterFits
<1>4. HeaderEnd < Len(writer.segments) /\ HeaderEnd + 1 \in (HeaderEnd + 1)..ScansEnd
  BY <1>1, <1>2, <1>3
<1>5. writer.segments[HeaderEnd + 1].defect = "none"
  BY <1>2, <1>4 DEF CodedTo, Coded
<1>6. PresetFits(settings) /\ NearFits(settings)
  BY <1>1, SupportedFits
<1>7. HeaderReadable
  BY <1>4, <1>5, <1>6 DEF HeaderReadable
<1>8. ScansEnd <= Len(writer.segments)
  BY <1>1, <1>2, <1>3
<1> QED  BY <1>2, <1>7, <1>8 DEF Decodable

\* When the first encode returned and its settings are supported, no call of the
\* decoder on the stream throws, whatever was appended to it afterwards.
THEOREM EncodedDecodable ==
  ASSUME Source = "memory", Retry = FALSE
  PROVE  SpecBoth => []EncodedIsDecodable
<1>1. BothInv => EncodedIsDecodable
  <2> SUFFICES ASSUME BothInv, attempts # <<>>, First.done, Supported(settings), asserts = {}
               PROVE  call.outcome = "ok"
    BY DEF EncodedIsDecodable, NoCallFails
  <2>1. EncoderInv /\ CallInv(reader, source, call, asserts)
    BY DEF BothInv, DecoderInv
  <2>2. ParametersSupported(settings) /\ ModeFits(settings)
    BY DEF Supported, ParametersSupported, ModeFits
  <2>3. HeaderReadable /\ Decodable
    BY <2>1, <2>2, DoneIsReadable
  <2>4. call.outcome \in {"ok", "error"} /\ (call.outcome = "error" => Failed(call, asserts))
    BY <2>1 DEF CallInv, CallFits
  <2>5. ~Failed(call, asserts)
    BY <2>3 DEF Failed
  <2> QED  BY <2>4, <2>5
<1> QED  BY <1>1, BothInvariant, PTL

\* The presets that are spelt out are those that stay behind when they are not.
LEMMA CodecOfWritten ==
  ASSUME NEW e, IsImage(e), ModeFits(e), NEW components, e.mode # "none" => components = e.frame.components
  PROVE  CodecOf(e.frame, e.near, e.mode, WrittenPreset(e))
           = CodecOf([e.frame EXCEPT !.components = components], e.near, e.mode, e.preset)
<1> DEFINE M == CalculateMaximumSampleValue(e.frame.bits)
           d == ComputeDefault(M, e.near)
           g == [e.frame EXCEPT !.components = components]
<1>1. g.bits = e.frame.bits /\ g.components = components
  BY DEF IsImage
<1>2. e.frame.components \in {3, 4} \/ e.mode = "none"
  BY DEF ModeFits
<1>3. /\ FindsOptimizedCodec(e.mode, e.frame.components)
      /\ FindsOptimizedCodec(e.mode, components)
      /\ OptimizedCodec(e.frame.bits, e.near, e.mode, components)
           = OptimizedCodec(e.frame.bits, e.near, e.mode, e.frame.components)
  <2>1. CASE e.mode = "none"
    BY <2>1 DEF FindsOptimizedCodec, OptimizedCodec, HasLosslessCodec
  <2>2. CASE e.mode # "none"
    BY <1>2, <2>2 DEF FindsOptimizedCodec
  <2> QED  BY <2>1, <2>2
<1> HIDE DEF g
<1>4. ASSUME NEW p
      PROVE  CodecOf(e.frame, e.near, e.mode, p) = CodecOf(g, e.near, e.mode, p)
  BY <1>1, <1>3 DEF CodecOf, CreateCodec
<1>5. CASE WrittenPreset(e) = e.preset
  BY <1>4, <1>5 DEF g
<1>6. CASE WrittenPreset(e) # e.preset
  <2>1. e.preset = NoPreset /\ WrittenPreset(e) = d
    BY <1>6 DEF WrittenPreset, IsDefault
  <2>2. d.reset = DefaultResetValue /\ DefaultResetValue = 64
    BY DefaultMembers DEF DefaultResetValue
  <2>3. /\ NoPreset.reset = 0 /\ NoPreset.T1 = 0 /\ NoPreset.T2 = 0 /\ NoPreset.T3 = 0
    BY DEF NoPreset
  <2> DEFINE o == OptimizedCodec(e.frame.bits, e.near, e.mode, e.frame.components)
  <2>4. o.maxval = M
    BY DEF OptimizedCodec
  <2> HIDE DEF o
  <2>5. /\ CreateCodec(e.frame.bits, e.near, e.mode, e.frame.components, d) = o
        /\ CreateCodec(g.bits, e.near, e.mode, g.components, NoPreset) = o
    BY <1>1, <1>3, <2>2, <2>3 DEF CreateCodec, o
  <2>6. Presets(d, M, e.near) = Presets(NoPreset, M, e.near)
    <3> HIDE DEF M
    <3>1. Or(d.T1, d.T1) = d.T1 /\ Or(d.T2, d.T2) = d.T2 /\ Or(d.T3, d.T3) = d.T3
          /\ Or(d.reset, d.reset) = d.reset
      BY DEF Or
    <3>2. Or(NoPreset.T1, d.T1) = d.T1 /\ Or(NoPreset.T2, d.T2) = d.T2 /\ Or(NoPreset.T3, d.T3) = d.T3
          /\ Or(NoPreset.reset, d.reset) = d.reset
      BY <2>3 DEF Or
    <3>3. /\ Presets(d, M, e.near) = [T1 |-> Or(d.T1, d.T1), T2 |-> Or(d.T2, d.T2),
                                      T3 |-> Or(d.T3, d.T3), reset |-> Or(d.reset, d.reset)]
          /\ Presets(NoPreset, M, e.near)
               = [T1 |-> Or(NoPreset.T1, d.T1), T2 |-> Or(NoPreset.T2, d.T2),
                  T3 |-> Or(NoPreset.T3, d.T3), reset |-> Or(NoPreset.reset, d.reset)]
      BY Zenon DEF Presets
    <3> QED  BY <3>1, <3>2, <3>3
  <2>7. /\ CodecOf(e.frame, e.near, e.mode, d) = [codec |-> o, presets |-> Presets(d, M, e.near)]
        /\ CodecOf(g, e.near, e.mode, NoPreset) = [codec |-> o, presets |-> Presets(NoPreset, M, e.near)]
    <3> HIDE DEF M, d
    <3> QED  BY <2>4, <2>5 DEF CodecOf
  <2> QED  BY <2>1, <2>6, <2>7 DEF g
<1> QED  BY <1>5, <1>6

\* CreateCodec and SetPresets make, for each scan that is decoded, what they made
\* for encode, though the encoder writes presets only when it has to.
THEOREM CodecsAgreed ==
  ASSUME Source = "memory", Retry = FALSE
  PROVE  SpecBoth => []CodecsAgree
<1>1. BothInv => CodecsAgree
  <2> SUFFICES ASSUME BothInv, call.op = "DecodeScan"
               PROVE  /\ reader.frame = settings.frame
                      /\ <<reader.near, reader.mode, reader.transformation>>
                           = <<settings.near, settings.mode, settings.transformation>>
                      /\ CodecOf(reader.frame, reader.near, reader.mode, reader.preset)
                           = CodecOf([settings.frame EXCEPT
                                        !.components = IF settings.mode = "none" THEN 1 ELSE @],
                                     settings.near, settings.mode, settings.preset)
    BY DEF CodecsAgree
  <2>1. /\ CallInv(reader, source, call, asserts) /\ ApiInv(reader, source.read, call, api)
        /\ EncoderInv /\ EncoderTyped
    BY DEF BothInv, DecoderInv
  <2>2. Place(reader, source.read, call, asserts)
    BY <2>1, CallRuns
  <2>3. ModeFits(settings) /\ BeforeBits(reader, source.read, call.component + 1)
    BY <2>2 DEF Place, Decodes
  <2>4. attempts # <<>> /\ AttemptsFit
    BY <2>1 DEF ApiInv, NoCall, EncoderInv
  <2>5. IsImage(settings)
    BY <2>4, SettingsAreAnImage
  <2>6. settings.near % 256 = settings.near
    <3>1. attempts \in Seq(Range(attempts))
      BY <2>4 DEF AttemptsFit, IsSequence
    <3>2. Len(attempts) \in Nat \ {0}
      BY <2>4, <3>1, EmptySeq
    <3>3. settings.near \in Nears \cup {0}
      BY <2>1, <3>2 DEF EncoderTyped, settings, First
    <3>4. CASE settings.near \in Nears
      <4>1. ASSUME NEW v \in Nears PROVE v \in Nat /\ v <= 255
        BY EncoderAssumption
      <4>2. settings.near \in Nat /\ settings.near <= 255
        BY <3>4, <4>1
      <4> QED  BY <4>2
    <3> QED  BY <3>3, <3>4
  <2>7. /\ reader.frame = settings.frame /\ reader.near = settings.near
        /\ reader.mode = settings.mode
        /\ reader.transformation = settings.transformation
        /\ reader.preset = WrittenPreset(settings)
    BY <2>3, <2>6 DEF BeforeBits, ScanOf, ReaderOf
  <2> DEFINE n == IF settings.mode = "none" THEN 1 ELSE settings.frame.components
  <2>8. settings.mode # "none" => n = settings.frame.components
    OBVIOUS
  <2> HIDE DEF n
  <2>9. CodecOf(settings.frame, settings.near, settings.mode, WrittenPreset(settings))
          = CodecOf([settings.frame EXCEPT !.components = n], settings.near, settings.mode,
                    settings.preset)
    BY <2>3, <2>5, <2>8, CodecOfWritten
  <2> QED  BY <2>7, <2>9 DEF n
<1> QED  BY <1>1, BothInvariant, PTL

-----------------------------------------------------------------------------
(* The invariant of the functions of LegacyInterface.                      *)

\* What the function or the object that encodes has checked of its settings.
Given(e) ==
  /\ e = [frame |-> e.frame, mode |-> e.mode, near |-> e.near,
          preset |-> e.preset, transformation |-> e.transformation]
  /\ encodedBy # "JpegLsEncodeStream" => e.near <= 255
  /\ encodedBy = "JpegLsEncodeStream" => ModeFits(e)

EncodingInv ==
  /\ EncoderInv
  /\ attempts # <<>> => state # "initial"
  /\ encodedBy \in {"object", "JpegLsEncode", "JpegLsEncodeStream"}
  /\ Given(encoder)
  /\ \A i \in 1..Len(attempts) : Given(attempts[i].settings)

\* What a function reports of a header that it has read.
InHeaderOf(f) ==
  [frame |-> settings.frame, mode |-> settings.mode, near |-> settings.near % 256,
   preset |-> IF f = "JpegLsReadHeader" THEN WrittenPreset(settings) ELSE NoPreset,
   transformation |-> settings.transformation]

\* A function succeeds exactly when the stream can be read as far as it reads.
ResultFits(f, result) ==
  /\ result \in {"none", "ok", "error"}
  /\ result # "none" => attempts # <<>>
  /\ result = "ok" => HeaderReadable /\ (f \in DecodeFunctions => Decodable)
  /\ result = "error" =>
       /\ f \in HeaderFunctions => ~HeaderReadable
       /\ f \in DecodeFunctions => ~Decodable

ResultsInv ==
  /\ results = [f \in ReadFunctions |-> results[f]]
  /\ params = [f \in HeaderFunctions |-> params[f]]
  /\ \A f \in ReadFunctions : ResultFits(f, results[f])
  /\ \A f \in HeaderFunctions : results[f] = "ok" => params[f] = InHeaderOf(f)

\* The calls of function f, and where they leave the reader rd.
CallOf(f, rd, k, c, a) ==
  /\ c.client \in {"none", "header", "decode"}
  /\ f \in HeaderFunctions => c.client # "decode"
  /\ IF f \in StreamFunctions
     THEN a = "initial" /\ c.op # "idle" /\ c.client # "none"
     ELSE a \in {"source_set", "header_read"} /\ ApiInv(rd, k, c, a)
  /\ c.op = "Read" => BeforeBits(rd, k, 1)
  /\ (c.op = "idle" /\ c.outcome = "ok" /\ c.client = "header") =>
       HeaderReadable /\ BeforeBits(rd, k, 1)
  /\ (c.op = "idle" /\ c.outcome = "ok" /\ c.client = "decode") => Decodable

ReadingInv ==
  /\ asserts = {}
  /\ source = [kind |-> source.kind, read |-> source.read, ended |-> source.ended]
  /\ reading \in ReadFunctions \cup {"none"}
  /\ reading = "none" => api = "initial" /\ call = NoCall
  /\ reading # "none" =>
       /\ attempts # <<>>
       /\ CallInv(reader, source, call, asserts)
       /\ CallOf(reading, reader, source.read, call, api)

LegacyInv == EncodingInv /\ ReadingInv /\ ResultsInv

-----------------------------------------------------------------------------
(* The functions that encode.                                              *)

\* Nothing was encoded or read.
LEMMA InitLegacyFits == InitLegacy => LegacyInv
<1> SUFFICES ASSUME InitLegacy PROVE LegacyInv
  OBVIOUS
<1>1. /\ InitEncoder /\ encodedBy = "object" /\ reading = "none"
      /\ results = [f \in ReadFunctions |-> "none"]
      /\ params = [f \in HeaderFunctions |-> encoder]
      /\ asserts = {} /\ call = NoCall /\ api = "initial"
  BY DEF InitLegacy, InitBoth, InitDecoder, Init
<1>2. EncodingInv
  <2>1. encoder = [frame |-> NoFrame, mode |-> "none", near |-> 0,
                   preset |-> NoPreset, transformation |-> "none"]
    BY <1>1 DEF InitEncoder
  <2>2. /\ encoder.frame = NoFrame /\ encoder.mode = "none" /\ encoder.near = 0
        /\ encoder.preset = NoPreset /\ encoder.transformation = "none"
    BY <2>1
  <2>3. Given(encoder)
    BY <1>1, <2>1, <2>2 DEF Given
  <2>4. attempts = <<>> /\ Len(attempts) = 0
    BY <1>1, Nothing DEF InitEncoder
  <2>5. EncoderInv
    BY <1>1, InitEncoderFits
  <2> QED  BY <1>1, <2>3, <2>4, <2>5 DEF EncodingInv
<1>3. ReadingInv
  <2>1. PICK kind : source = [kind |-> kind, read |-> 0, ended |-> FALSE]
    BY DEF InitLegacy, InitBoth, InitDecoder, Init
  <2>2. source = [kind |-> source.kind, read |-> source.read, ended |-> source.ended]
    BY <2>1
  <2> QED  BY <1>1, <2>2 DEF ReadingInv
<1>4. ResultsInv
  <2>1. \A f \in ReadFunctions : results[f] = "none"
    BY <1>1
  <2>2. HeaderFunctions \subseteq ReadFunctions
    BY DEF ReadFunctions
  <2>3. results = [f \in ReadFunctions |-> results[f]] /\ params = [f \in HeaderFunctions |-> params[f]]
    BY <1>1
  <2> QED  BY <2>1, <2>2, <2>3 DEF ResultsInv, ResultFits
<1> QED  BY <1>2, <1>3, <1>4 DEF LegacyInv

\* Nothing is read while the encoder writes.
LEMMA NothingIsRead ==
  ASSUME ReadingInv, ResultsInv, reading = "none", \A f \in ReadFunctions : results[f] = "none",
         UNCHANGED <<vars, reading, results, params>>
  PROVE  ReadingInv' /\ ResultsInv'
<1>1. /\ api' = api /\ call' = call /\ source' = source /\ asserts' = asserts
      /\ reading' = reading /\ results' = results /\ params' = params
  BY DEF vars, readerVars
<1>2. ReadingInv'
  BY <1>1 DEF ReadingInv
<1>3. HeaderFunctions \subseteq ReadFunctions
  BY DEF ReadFunctions
<1>4. ResultsInv'
  BY <1>1, <1>3 DEF ResultsInv, ResultFits
<1> QED  BY <1>2, <1>4

\* A function begins to encode.
LEMMA BeginEncodeFits ==
  ASSUME LegacyInv, BeginEncode
  PROVE  LegacyInv'
<1>1. EncodingInv /\ ReadingInv /\ ResultsInv
  BY DEF LegacyInv
<1>2. PICK p \in LegacyParameters, jfif \in BOOLEAN, holdsImage \in BOOLEAN :
        /\ \/ JpegLsEncodeAccepts(p, jfif, holdsImage) /\ encodedBy' = "JpegLsEncode"
           \/ VerifyInput(p, jfif, holdsImage) /\ encodedBy' = "JpegLsEncodeStream"
        /\ encoder' = p
  BY DEF BeginEncode
<1>3. /\ state = "initial" /\ state' = "destination_set"
      /\ UNCHANGED <<writer, attempts, vars, reading, results, params>>
  BY DEF BeginEncode
<1>4. attempts = <<>> /\ attempts' = <<>>
  BY <1>1, <1>3 DEF EncodingInv
<1>5. /\ p = [frame |-> p.frame, mode |-> p.mode, near |-> p.near,
              preset |-> p.preset, transformation |-> p.transformation]
      /\ p.frame \in LegacyFrames /\ p.near \in LegacyNears
  BY DEF LegacyParameters
<1>6. p.frame \in [bits : 2..16, components : 1..255]
  <2>1. LegacyFrames \subseteq [bits : Int, components : Int]
    BY LegacyAssumption
  <2>2. p.frame = [bits |-> p.frame.bits, components |-> p.frame.components]
    BY <1>5, <2>1
  <2>3. IsFrame(p.frame)
    BY <1>2, SMT DEF JpegLsEncodeAccepts, VerifyInput
  <2>4. p.frame.bits \in 2..16 /\ p.frame.components \in 1..255
    BY <2>3 DEF IsFrame
  <2> QED  BY <2>2, <2>4
<1>7. p.near \in Nat
  BY <1>5, LegacyAssumption
<1>8. EncoderFits'
  BY <1>2, <1>5, <1>6, <1>7, Zenon DEF EncoderFits
<1>9. EncoderInv'
  BY <1>1, <1>3, <1>8, NothingWritten DEF EncodingInv
<1>10. Given(encoder)'
  <2>1. CASE JpegLsEncodeAccepts(p, jfif, holdsImage) /\ encodedBy' = "JpegLsEncode"
    <3>1. p.near <= 255
      BY <2>1, SMT DEF JpegLsEncodeAccepts
    <3> QED  BY <1>2, <1>5, <2>1, <3>1 DEF Given
  <2>2. CASE VerifyInput(p, jfif, holdsImage) /\ encodedBy' = "JpegLsEncodeStream"
    <3>1. ModeFits(p)
      BY <2>2 DEF VerifyInput, ModeFits
    <3> QED  BY <1>2, <1>5, <2>2, <3>1 DEF Given, ModeFits
  <2> QED  BY <1>2, <2>1, <2>2
<1>11. EncodingInv'
  <2>1. Len(attempts') = 0
    BY <1>4, Nothing
  <2>2. encodedBy' \in {"object", "JpegLsEncode", "JpegLsEncodeStream"}
    BY <1>2
  <2> QED  BY <1>3, <1>9, <1>10, <2>1, <2>2 DEF EncodingInv
<1>12. reading = "none" /\ \A f \in ReadFunctions : results[f] = "none"
  BY <1>1, <1>4 DEF ReadingInv, ResultsInv, ResultFits
<1> QED  BY <1>1, <1>3, <1>11, <1>12, NothingIsRead DEF LegacyInv

\* The encoder object, or the rest of a function that encodes.
LEMMA LegacyEncoderStepFits ==
  ASSUME LegacyInv, LegacyEncoderStep
  PROVE  LegacyInv'
<1>1. EncodingInv /\ ReadingInv /\ ResultsInv
  BY DEF LegacyInv
<1>2. /\ NextEncoder /\ UNCHANGED <<vars, encodedBy, reading, results, params>>
      /\ reading = "none" /\ \A f \in ReadFunctions : results[f] = "none"
      /\ encodedBy # "object" => Encode \/ EncodeFailsInScan \/ EncodeRunsFull
  BY DEF LegacyEncoderStep, EncoderStep, NextEncoder
<1>3. EncoderInv'
  BY <1>1, <1>2, EncoderStepFits DEF EncodingInv
<1>4. /\ encoder = [frame |-> encoder.frame, mode |-> encoder.mode, near |-> encoder.near,
                    preset |-> encoder.preset, transformation |-> encoder.transformation]
      /\ IsSequence(attempts) /\ Given(encoder) /\ encodedBy' = encodedBy
      /\ \A i \in 1..Len(attempts) : Given(attempts[i].settings)
  BY <1>1, <1>2 DEF EncodingInv, EncoderInv, EncoderFits, AttemptsFit
<1>5. ASSUME SetsSome
      PROVE  attempts' = attempts /\ state' = state /\ Given(encoder)'
  <2>1. PICK field, value :
          /\ field \in {"frame", "mode", "near", "preset", "transformation"}
          /\ field = "near" => value \in Nears
          /\ Set(field, value)
    BY <1>5 DEF SetsSome, SetFrameInfo, SetInterleaveMode, SetNearLossless, SetPreset,
       SetColorTransformation
  <2>2. /\ encoder' = [encoder EXCEPT ![field] = value]
        /\ state' = state /\ attempts' = attempts
    BY <2>1 DEF Set
  <2>3. encodedBy = "object"
    <3>1. CASE Encode \/ EncodeFailsInScan \/ EncodeRunsFull
      <4>1. PICK done : attempts' = Append(attempts, [settings |-> encoder, first |-> Len(writer.segments) + 1,
                                                      done |-> done])
        BY <3>1 DEF Encode, EncodeFailsInScan, EncodeRunsFull, Attempted
      <4>2. Len(attempts') = Len(attempts) + 1 /\ Len(attempts) \in Nat
        BY <1>4, <4>1, Appended, DomainOfSequence
      <4> QED  BY <2>2, <4>2
    <3> QED  BY <1>2, <1>4, <3>1, <1>1 DEF EncodingInv
  <2>4. encoder'.near <= 255
    <3>1. CASE field = "near"
      <4>1. \A v \in Nears : v <= 255
        BY EncoderAssumption
      <4>2. encoder'.near = value
        BY <1>4, <2>2, <3>1
      <4> QED  BY <2>1, <3>1, <4>1, <4>2
    <3>2. CASE field # "near"
      <4>1. encoder'.near = encoder.near
        BY <1>4, <2>2, <3>2
      <4> QED  BY <1>4, <2>3, <4>1 DEF Given
    <3> QED  BY <3>1, <3>2
  <2>5. encoder' = [frame |-> encoder'.frame, mode |-> encoder'.mode, near |-> encoder'.near,
                    preset |-> encoder'.preset, transformation |-> encoder'.transformation]
    BY <1>3 DEF EncoderInv, EncoderFits
  <2> QED  BY <1>4, <2>2, <2>3, <2>4, <2>5 DEF Given
<1>6. ASSUME encoder' = encoder PROVE Given(encoder)'
  BY <1>4, <1>6 DEF Given, ModeFits
<1>7. ASSUME attempts' = attempts PROVE \A i \in 1..Len(attempts') : Given(attempts[i].settings)'
  BY <1>4, <1>7 DEF Given, ModeFits
<1>8. CASE SetsSome
  BY <1>1, <1>2, <1>3, <1>4, <1>5, <1>7, <1>8, NothingIsRead DEF LegacyInv, EncodingInv
<1>9. CASE SetDestination \/ WriteSpiffHeader \/ WriteSpiffEntry
  <2>1. encoder' = encoder /\ attempts' = attempts /\ (attempts # <<>> => state' # "initial")
    BY <1>1, <1>9 DEF SetDestination, WriteSpiffHeader, WriteSpiffEntry, EncodingInv
  <2>2. EncodingInv'
    BY <1>1, <1>3, <1>4, <1>6, <1>7, <2>1 DEF EncodingInv
  <2> QED  BY <1>1, <1>2, <2>2, NothingIsRead DEF LegacyInv
<1>10. CASE Encode \/ EncodeFailsInScan \/ EncodeRunsFull
  <2>1. PICK done : /\ Attempted(done) /\ encoder' = encoder /\ state' = state /\ state # "initial"
    BY <1>10 DEF Encode, EncodeFailsInScan, EncodeRunsFull, CanEncode
  <2> DEFINE a == [settings |-> encoder, first |-> Len(writer.segments) + 1, done |-> done]
  <2>2. attempts' = Append(attempts, a) /\ a.settings = encoder
    BY <2>1 DEF Attempted
  <2> HIDE DEF a
  <2>3. /\ Len(attempts') = Len(attempts) + 1 /\ Len(attempts) \in Nat
        /\ \A i \in 1..Len(attempts) : attempts'[i] = attempts[i]
        /\ attempts'[Len(attempts) + 1] = a
    BY <1>4, <2>2, Appended, DomainOfSequence
  <2>4. ASSUME NEW i \in 1..Len(attempts') PROVE Given(attempts[i].settings)'
    <3>1. CASE i <= Len(attempts)
      <4>1. i \in 1..Len(attempts)
        BY <2>3, <3>1
      <4> QED  BY <1>4, <2>3, <4>1 DEF Given, ModeFits
    <3>2. CASE i > Len(attempts)
      <4>1. i = Len(attempts) + 1
        BY <2>3, <3>2
      <4> QED  BY <1>4, <2>2, <2>3, <4>1 DEF Given, ModeFits
    <3> QED  BY <2>3, <3>1, <3>2
  <2>5. EncodingInv'
    BY <1>1, <1>3, <1>4, <1>6, <2>1, <2>4 DEF EncodingInv
  <2> QED  BY <1>1, <1>2, <2>5, NothingIsRead DEF LegacyInv
<1> QED  BY <1>2, <1>8, <1>9, <1>10 DEF NextEncoder, SetsSome

-----------------------------------------------------------------------------
(* The functions that read.                                                *)

\* Function f is called, or goes on.
ReadingAfter(f) ==
  /\ reading' = f /\ asserts' = {} /\ CallInv(reader', source', call', asserts')
  /\ CallOf(f, reader', source'.read, call', api')

\* What is read stays as it was written, with what the functions have returned.
LEMMA ReadingStays ==
  ASSUME LegacyInv, attempts # <<>>, NEW f \in ReadFunctions, ReadingAfter(f),
         UNCHANGED <<encoderVars, encodedBy, results, params>>
  PROVE  LegacyInv'
<1>1. EncodingInv /\ ReadingInv /\ ResultsInv
  BY DEF LegacyInv
<1>2. /\ UNCHANGED encoderVars /\ encodedBy' = encodedBy /\ reading' = f
      /\ results' = results /\ params' = params
  BY DEF ReadingAfter
<1>3. EncodingInv'
  <2>1. EncoderInv'
    BY <1>1, <1>2, EncoderWaits DEF EncodingInv
  <2>2. encoder' = encoder /\ state' = state /\ attempts' = attempts
    BY <1>2 DEF encoderVars
  <2> QED  BY <1>1, <1>2, <2>1, <2>2 DEF EncodingInv, Given, ModeFits
<1>4. ReadingInv'
  <2>1. CallInv(reader, source, call, asserts)'
    BY <1>2, CallStays DEF ReadingAfter
  <2>2. CallOf(reading, reader, source.read, call, api)'
    <3>1. f \notin StreamFunctions => ApiInv(reader, source.read, call, api)'
      BY <1>2, ApiStays DEF ReadingAfter, CallOf
    <3>2. /\ HeaderReadable' = HeaderReadable /\ Decodable' = Decodable
          /\ BeforeBits(reader, source.read, 1)' = BeforeBits(reader', source'.read, 1)
      BY <1>2, PartsStay DEF BeforeBits, ScanOf, ReaderOf, CodedTo
    <3> QED  BY <1>2, <3>1, <3>2 DEF ReadingAfter, CallOf
  <2>3. source' = [kind |-> source'.kind, read |-> source'.read, ended |-> source'.ended]
    BY DEF ReadingAfter, CallInv, SourceFits
  <2>4. f # "none" /\ attempts' # <<>>
    BY <1>2, PartsStay DEF ReadFunctions, HeaderFunctions, DecodeFunctions
  <2> QED  BY <1>2, <2>1, <2>2, <2>3, <2>4 DEF ReadingInv, ReadingAfter
<1>5. ResultsInv'
  <2>1. /\ HeaderReadable' = HeaderReadable /\ Decodable' = Decodable /\ settings' = settings
        /\ attempts' = attempts
    BY <1>2, PartsStay
  <2>2. \A h : InHeaderOf(h)' = InHeaderOf(h)
    BY <2>1 DEF InHeaderOf
  <2>3. ASSUME NEW h \in ReadFunctions PROVE ResultFits(h, results[h])'
    BY <1>1, <1>2, <2>1 DEF ResultsInv, ResultFits
  <2> QED  BY <1>1, <1>2, <2>2, <2>3 DEF ResultsInv
<1> QED  BY <1>3, <1>4, <1>5 DEF LegacyInv

\* The names of the functions.
LEMMA KindsOfFunctions ==
  /\ \A f \in ReadFunctions : f # "none" /\ (f \in HeaderFunctions \/ f \in DecodeFunctions)
  /\ \A f \in HeaderFunctions : f \notin DecodeFunctions /\ f \in ReadFunctions
BY DEF ReadFunctions, HeaderFunctions, DecodeFunctions

\* A function begins to read, from the start of the stream.
LEMMA BeginReadingFits ==
  ASSUME LegacyInv, NEW f \in ReadFunctions, BeginReading(f)
  PROVE  LegacyInv'
<1>1. EncodingInv /\ ReadingInv /\ ResultsInv
  BY DEF LegacyInv
<1>2. /\ attempts # <<>> /\ reading = "none" /\ reading' = f
      /\ reader' = InitReader /\ source' = [source EXCEPT !.read = 0, !.ended = FALSE]
      /\ IF f \in StreamFunctions
         THEN Begin("ReadHeader", "header") /\ api' = api
         ELSE call' = NoCall /\ api' = "source_set"
      /\ UNCHANGED <<encoderVars, asserts, encodedBy, results, params>>
  BY DEF BeginReading, NewReader, SourceFromStart
<1>3. asserts' = {} /\ api = "initial"
  BY <1>1, <1>2 DEF ReadingInv
<1>4. /\ source' = [kind |-> source.kind, read |-> 0, ended |-> FALSE]
      /\ source'.read = 0 /\ source'.ended = FALSE /\ source'.kind = source.kind
  <2>1. source = [kind |-> source.kind, read |-> source.read, ended |-> source.ended]
    BY <1>1 DEF ReadingInv
  <2>2. source' = [kind |-> source.kind, read |-> 0, ended |-> FALSE]
    BY <1>2, <2>1
  <2> QED  BY <2>2
<1>5. SourceFits(source')
  <2>1. Len(writer.segments) \in Nat
    BY <1>1, DomainOfSequence DEF EncodingInv, EncoderInv, WriterFits
  <2> QED  BY <1>4, <2>1 DEF SourceFits
<1>6. Untouched(reader', source'.read)
  BY <1>2, <1>4 DEF Untouched, InitReader, Blank, ReaderOf, NoFrame
<1>7. ASSUME f \in StreamFunctions
      PROVE  CallInv(reader', source', call', asserts') /\ CallOf(f, reader', source'.read, call', api')
  <2>1. /\ CallFits(call') /\ call'.op = "ReadHeader" /\ call'.client = "header"
        /\ ~call'.found /\ call'.component = 0 /\ call'.outcome = "ok"
    BY <1>2, <1>7, CallBegins DEF Ops
  <2>2. Place(reader', source'.read, call', asserts')
    BY <1>6, <2>1 DEF Place, ReadsHeader
  <2>3. CallInv(reader', source', call', asserts')
    BY <1>3, <1>4, <1>5, <2>1, <2>2 DEF CallInv
  <2>4. CallOf(f, reader', source'.read, call', api')
    BY <1>2, <1>3, <1>7, <2>1 DEF CallOf
  <2> QED  BY <2>3, <2>4
<1>8. ASSUME f \notin StreamFunctions
      PROVE  CallInv(reader', source', call', asserts') /\ CallOf(f, reader', source'.read, call', api')
  <2>1. /\ call' = [op |-> "idle", client |-> "none", found |-> FALSE,
                    component |-> 0, mode |-> "none", outcome |-> "ok"]
        /\ api' = "source_set"
    BY <1>2, <1>8 DEF NoCall
  <2>2. /\ call'.op = "idle" /\ call'.client = "none" /\ call'.found = FALSE
        /\ call'.component = 0 /\ call'.mode = "none" /\ call'.outcome = "ok"
    BY <2>1
  <2>3. CallFits(call')
    BY <2>1, <2>2 DEF CallFits, Ops
  <2>4. Place(reader', source'.read, call', asserts')
    BY <2>2 DEF Place
  <2>5. CallInv(reader', source', call', asserts')
    BY <1>3, <1>4, <1>5, <2>2, <2>3, <2>4 DEF CallInv
  <2>6. ApiInv(reader', source'.read, call', api')
    BY <1>2, <1>6, <2>1, <2>2 DEF ApiInv, IdlePlace
  <2>7. CallOf(f, reader', source'.read, call', api')
    BY <1>8, <2>1, <2>2, <2>6 DEF CallOf
  <2> QED  BY <2>5, <2>7
<1>9. CallInv(reader', source', call', asserts') /\ CallOf(f, reader', source'.read, call', api')
  BY <1>7, <1>8
<1>10. ReadingAfter(f)
  BY <1>2, <1>3, <1>9 DEF ReadingAfter
<1> QED  BY <1>2, <1>10, ReadingStays

\* A function that has been called.
LEMMA FunctionReads ==
  ASSUME LegacyInv, reading # "none"
  PROVE  /\ reading \in ReadFunctions /\ attempts # <<>> /\ asserts = {} /\ EncoderInv
         /\ CallInv(reader, source, call, asserts)
         /\ CallOf(reading, reader, source.read, call, api)
         /\ reading \notin StreamFunctions => DecoderInv
BY DEF LegacyInv, ReadingInv, EncodingInv, CallOf, DecoderInv

\* The calls of a decoder object that a function makes.
LEMMA ObjectStepFits ==
  ASSUME Retry = FALSE, LegacyInv, reading # "none", ObjectStep, reading' = reading
  PROVE  ReadingAfter(reading)
<1>1. /\ reading \in ReadFunctions /\ attempts # <<>> /\ asserts = {}
      /\ CallInv(reader, source, call, asserts)
      /\ CallOf(reading, reader, source.read, call, api)
      /\ reading \notin StreamFunctions /\ DecoderInv
  BY FunctionReads DEF ObjectStep
<1>2. api \in {"source_set", "header_read"}
  BY <1>1 DEF CallOf
<1>3. CASE ReadHeader
  <2>1. DecoderInvAfter
    BY <1>1, <1>3, ReadHeaderFits
  <2>2. api = "source_set" /\ api' = api /\ Begin("ReadHeader", "header") /\ AssertBeforeScan
    BY <1>2, <1>3 DEF ReadHeader, HeaderStillToRead
  <2>3. call'.op = "ReadHeader" /\ call'.client = "header"
    BY <2>2, CallBegins DEF Ops
  <2>4. asserts' = {}
    <3>1. asserts' \subseteq {88} /\ asserts' \subseteq {33}
      BY <1>1, <2>1, <2>2 DEF AssertBeforeScan, DecoderInvAfter, CallInv
    <3> QED  BY <3>1
  <2>5. CallOf(reading, reader', source'.read, call', api')
    BY <1>1, <2>1, <2>2, <2>3 DEF CallOf, DecoderInvAfter
  <2> QED  BY <2>1, <2>4, <2>5 DEF ReadingAfter, DecoderInvAfter
<1>4. CASE reading \in DecodeFunctions /\ call.client = "header" /\ Decode
  <2>1. DecoderInvAfter
    BY <1>1, <1>4, DecodeFits
  <2>2. /\ api = "header_read" /\ api' = api /\ Begin("Read", "decode")
        /\ reader' = reader /\ source' = source /\ asserts' = asserts
        /\ call.op = "idle" /\ call.outcome = "ok"
    BY <1>4 DEF Decode, MayCall, Idle
  <2>3. call'.op = "Read" /\ call'.client = "decode"
    BY <2>2, CallBegins DEF Ops
  <2>4. BeforeBits(reader', source'.read, 1)
    BY <1>1, <1>4, <2>2 DEF CallOf
  <2>5. reading \notin HeaderFunctions
    BY <1>4, KindsOfFunctions
  <2>6. CallOf(reading, reader', source'.read, call', api')
    BY <1>1, <2>1, <2>2, <2>3, <2>4, <2>5 DEF CallOf, DecoderInvAfter
  <2> QED  BY <1>1, <2>1, <2>2, <2>6 DEF ReadingAfter, DecoderInvAfter
<1>5. CASE Return
  <2>1. DecoderInvAfter
    BY <1>1, <1>5, ReturnFits
  <2>2. /\ call.op = "returned" /\ call' = [call EXCEPT !.op = "idle"]
        /\ api' \in {"source_set", "header_read"}
        /\ reader' = reader /\ source' = source /\ asserts' = asserts
    BY <1>2, <1>5 DEF Return
  <2>3. CallFits(call)
    BY <1>1 DEF CallInv
  <2>4. call'.op = "idle" /\ call'.client = call.client /\ call'.outcome = call.outcome
    BY <2>2, <2>3, CallGoesOn DEF Ops
  <2>5. /\ (call.outcome = "ok" /\ call.client = "header") =>
             HeaderReadable /\ BeforeBits(reader, source.read, 1)
        /\ (call.outcome = "ok" /\ call.client = "decode") => Decodable
    BY <1>1, <2>2 DEF CallInv, Place
  <2>6. CallOf(reading, reader', source'.read, call', api')
    BY <1>1, <2>1, <2>2, <2>4, <2>5 DEF CallOf, DecoderInvAfter
  <2> QED  BY <1>1, <2>1, <2>2, <2>6 DEF ReadingAfter, DecoderInvAfter
<1> QED  BY <1>3, <1>4, <1>5 DEF ObjectStep

\* JpegLsDecodeStream goes on with Read of its reader.
LEMMA StreamStepFits ==
  ASSUME LegacyInv, StreamStep, reading' = reading
  PROVE  ReadingAfter(reading)
<1>1. /\ reading = "JpegLsDecodeStream" /\ reading # "none"
      /\ reading \in StreamFunctions /\ reading \notin HeaderFunctions
      /\ call.op = "returned" /\ call.client = "header" /\ call.outcome = "ok"
      /\ Begin("Read", "decode")
      /\ reader' = reader /\ source' = source /\ asserts' = asserts /\ api' = api
  BY DEF StreamStep, StreamFunctions, HeaderFunctions
<1>2. /\ asserts = {} /\ CallInv(reader, source, call, asserts)
      /\ CallOf(reading, reader, source.read, call, api)
  BY <1>1, FunctionReads
<1>3. /\ SourceFits(source) /\ ~source.ended
      /\ HeaderReadable /\ BeforeBits(reader, source.read, 1)
  BY <1>1, <1>2 DEF CallInv, Place
<1>4. /\ CallFits(call') /\ call'.op = "Read" /\ call'.client = "decode"
      /\ call'.component = 0 /\ call'.outcome = "ok"
  BY <1>1, CallBegins DEF Ops
<1>5. Place(reader', source'.read, call', asserts')
  BY <1>1, <1>3, <1>4 DEF Place
<1>6. CallInv(reader', source', call', asserts')
  BY <1>1, <1>2, <1>3, <1>4, <1>5 DEF CallInv
<1>7. CallOf(reading, reader', source'.read, call', api')
  BY <1>1, <1>2, <1>3, <1>4 DEF CallOf
<1> QED  BY <1>1, <1>2, <1>6, <1>7 DEF ReadingAfter

\* The header was read.
LEMMA HeaderReadInFunction ==
  ASSUME LegacyInv, reading # "none", HeaderRead, reading' = reading
  PROVE  ReadingAfter(reading)
<1>1. /\ asserts = {} /\ CallInv(reader, source, call, asserts)
      /\ CallOf(reading, reader, source.read, call, api)
      /\ reading \notin StreamFunctions => DecoderInv
  BY FunctionReads
<1>2. call.client # "spiff" /\ asserts' = asserts /\ api' = api
  BY <1>1 DEF CallOf, HeaderRead
<1>3. /\ CallInv(reader', source', call', asserts')
      /\ call.client = "header" /\ call'.client = "header" /\ call'.op = "ReadStartOfScan"
  BY <1>1, <1>2, ScanIsNext
<1>4. reading \notin StreamFunctions => ApiInv(reader', source'.read, call', api')
  BY <1>1, HeaderReadFits DEF DecoderInvAfter
<1>5. CallOf(reading, reader', source'.read, call', api')
  BY <1>1, <1>2, <1>3, <1>4 DEF CallOf
<1> QED  BY <1>1, <1>2, <1>3, <1>5 DEF ReadingAfter

\* A step of the reader of a function fails none of its assertions.
LEMMA ReaderStepInFunction ==
  ASSUME Source = "memory", LegacyInv, reading # "none", ReadSegment, UNCHANGED api,
         reading' = reading
  PROVE  ReadingAfter(reading)
<1>1. /\ asserts = {} /\ CallInv(reader, source, call, asserts) /\ CallFits(call)
      /\ CallOf(reading, reader, source.read, call, api) /\ attempts # <<>> /\ EncoderInv
      /\ reading \notin StreamFunctions => DecoderInv
  BY FunctionReads DEF CallInv
<1>2. CallInv(reader', source', call', asserts')
  BY <1>1, ReaderFits DEF Readable
<1>3. call.op # "idle" /\ call'.op \notin {"idle", "Read"} /\ call'.client = call.client
  BY <1>1, ReaderKeepsClient
<1>4. asserts' = {}
  <2>1. asserts' \subseteq {33}
    BY <1>2 DEF CallInv
  <2>2. CASE BeginRead(TRUE)
    <3>1. BeforeBits(reader, source.read, 1)
      BY <1>1, <2>2 DEF CallOf, BeginRead
    <3>2. reader.state = "bit_stream_section"
      BY <3>1 DEF BeforeBits, ScanOf, ReaderOf
    <3> QED  BY <1>1, <2>2, <3>2 DEF BeginRead
  <2>3. CASE ~BeginRead(TRUE)
    <3>1. asserts' \subseteq {614}
      BY <1>1, <2>3 DEF ReadSegment, ReadStartOfImage, ReadHeaderSegment, ReadNextStartOfScan,
         ReadStartOfScan, EndOfInput, ReadLoop, DecodeScan
    <3> QED  BY <2>1, <3>1
  <2> QED  BY <2>2, <2>3
<1>5. reading \notin StreamFunctions => ApiInv(reader', source'.read, call', api')
  BY <1>1, ReaderStepFits DEF DecoderInvAfter
<1>6. CallOf(reading, reader', source'.read, call', api')
  BY <1>1, <1>3, <1>5 DEF CallOf
<1> QED  BY <1>2, <1>4, <1>6 DEF ReadingAfter

\* What a function returns, when nothing is left to call.
LEMMA FinishedFits ==
  ASSUME LegacyInv, reading # "none", Finished
  PROVE  /\ ResultFits(reading, call.outcome)
         /\ (reading \in HeaderFunctions /\ call.outcome = "ok") => Reported(reading) = InHeaderOf(reading)
<1>1. /\ asserts = {} /\ CallInv(reader, source, call, asserts) /\ reading \in ReadFunctions
      /\ CallOf(reading, reader, source.read, call, api) /\ attempts # <<>>
  BY FunctionReads
<1>2. /\ reading \in HeaderFunctions \/ reading \in DecodeFunctions
      /\ reading \in HeaderFunctions => reading \notin DecodeFunctions
      /\ call.outcome \in {"ok", "error"} /\ call.client \in {"none", "header", "decode"}
      /\ reading \in HeaderFunctions => call.client # "decode"
      /\ call.op = "idle" \/ call.op = "returned"
  BY <1>1, KindsOfFunctions DEF CallInv, CallFits, CallOf, Finished, Idle
<1>3. Decodable => HeaderReadable
  BY DEF Decodable
<1>4. CASE call.outcome = "error"
  <2>1. /\ call.client \in {"header", "decode"}
        /\ call.client = "header" => ~HeaderReadable
        /\ call.client = "decode" => ~Decodable
    BY <1>1, <1>2, <1>4 DEF CallInv, Failed
  <2> QED  BY <1>1, <1>2, <1>3, <1>4, <2>1 DEF ResultFits
<1>5. CASE call.outcome = "ok"
  <2>1. /\ call.client = "header" => HeaderReadable /\ BeforeBits(reader, source.read, 1)
        /\ call.client = "decode" => Decodable
    BY <1>1, <1>2, <1>5 DEF CallInv, Place, CallOf
  <2>2. CASE reading \in HeaderFunctions
    <3>1. call.client = "header"
      <4>1. CASE call.op = "idle"
        BY <1>2, <1>5, <2>2, <4>1 DEF Finished
      <4>2. CASE call.op = "returned"
        <5>1. reading \in StreamFunctions
          BY <1>5, <4>2 DEF Finished, Idle
        <5> QED  BY <1>1, <1>2, <2>2, <5>1 DEF CallOf
      <4> QED  BY <1>2, <4>1, <4>2
    <3>2. HeaderReadable /\ BeforeBits(reader, source.read, 1)
      BY <2>1, <3>1
    <3>3. /\ reader.frame = settings.frame /\ reader.near = settings.near % 256
          /\ reader.mode = settings.mode /\ reader.transformation = settings.transformation
          /\ reader.preset = WrittenPreset(settings)
      BY <3>2 DEF BeforeBits, ScanOf, ReaderOf
    <3>4. Reported(reading) = InHeaderOf(reading)
      BY <3>3 DEF Reported, InHeaderOf
    <3> QED  BY <1>1, <1>2, <1>5, <2>2, <3>2, <3>4 DEF ResultFits
  <2>3. CASE reading \in DecodeFunctions
    <3>1. call.client = "decode"
      BY <1>2, <1>5, <2>3 DEF Finished, Idle
    <3> QED  BY <1>1, <1>2, <1>3, <1>5, <2>1, <2>3, <3>1 DEF ResultFits
  <2> QED  BY <1>2, <2>2, <2>3
<1> QED  BY <1>2, <1>4, <1>5

\* A function returns.
LEMMA FinishReadingFits ==
  ASSUME LegacyInv, FinishReading
  PROVE  LegacyInv'
<1>1. EncodingInv /\ ReadingInv /\ ResultsInv
  BY DEF LegacyInv
<1>2. /\ reading # "none" /\ Finished /\ reading' = "none" /\ api' = "initial" /\ call' = NoCall
      /\ results' = [results EXCEPT ![reading] = call.outcome]
      /\ params' = IF reading \in HeaderFunctions /\ call.outcome = "ok"
                   THEN [params EXCEPT ![reading] = Reported(reading)] ELSE params
      /\ UNCHANGED encoderVars /\ encodedBy' = encodedBy
      /\ source' = source /\ asserts' = asserts
  BY DEF FinishReading
<1>3. /\ ResultFits(reading, call.outcome) /\ reading \in ReadFunctions
      /\ (reading \in HeaderFunctions /\ call.outcome = "ok") => Reported(reading) = InHeaderOf(reading)
  BY <1>2, FunctionReads, FinishedFits
<1>4. /\ writer' = writer /\ attempts' = attempts /\ settings' = settings
      /\ HeaderReadable' = HeaderReadable /\ Decodable' = Decodable
  BY <1>2, PartsStay
<1>5. EncodingInv'
  <2>1. EncoderInv'
    BY <1>1, <1>2, EncoderWaits DEF EncodingInv
  <2>2. encoder' = encoder /\ state' = state
    BY <1>2 DEF encoderVars
  <2> QED  BY <1>1, <1>2, <1>4, <2>1, <2>2 DEF EncodingInv, Given, ModeFits
<1>6. ReadingInv'
  BY <1>1, <1>2 DEF ReadingInv
<1>7. ResultsInv'
  <2>1. \A f : InHeaderOf(f)' = InHeaderOf(f)
    BY <1>4 DEF InHeaderOf
  <2>2. /\ \A f \in ReadFunctions : results'[f] = IF f = reading THEN call.outcome ELSE results[f]
        /\ results' = [f \in ReadFunctions |-> results'[f]]
    BY <1>1, <1>2, <1>3 DEF ResultsInv
  <2>3. ASSUME NEW f \in ReadFunctions PROVE ResultFits(f, results[f])'
    <3>1. ResultFits(f, results'[f])
      BY <1>1, <1>3, <2>2 DEF ResultsInv
    <3> QED  BY <1>4, <3>1 DEF ResultFits
  <2>4. params' = [f \in HeaderFunctions |-> params'[f]]
    BY <1>1, <1>2 DEF ResultsInv
  <2>5. ASSUME NEW f \in HeaderFunctions, results'[f] = "ok" PROVE params'[f] = InHeaderOf(f)
    <3>1. f \in ReadFunctions
      BY KindsOfFunctions
    <3>2. CASE f = reading
      <4>1. call.outcome = "ok"
        BY <2>2, <2>5, <3>1, <3>2
      <4> QED  BY <1>1, <1>2, <1>3, <3>2, <4>1 DEF ResultsInv
    <3>3. CASE f # reading
      <4>1. results[f] = "ok" /\ params'[f] = params[f]
        BY <1>1, <1>2, <2>2, <2>5, <3>1, <3>3 DEF ResultsInv
      <4> QED  BY <1>1, <4>1 DEF ResultsInv
    <3> QED  BY <3>2, <3>3
  <2> QED  BY <2>1, <2>2, <2>3, <2>4, <2>5 DEF ResultsInv
<1> QED  BY <1>5, <1>6, <1>7 DEF LegacyInv

\* Every step of the functions.
LEMMA LegacyStep ==
  ASSUME Source = "memory", Retry = FALSE, LegacyInv, [NextLegacy]_legacyVars
  PROVE  LegacyInv'
<1>1. CASE BeginEncode
  BY <1>1, BeginEncodeFits
<1>2. CASE LegacyEncoderStep
  BY <1>2, LegacyEncoderStepFits
<1>3. CASE \E f \in ReadFunctions : BeginReading(f)
  BY <1>3, BeginReadingFits
<1>4. CASE LegacyReaderStep
  <2>1. /\ reading # "none" /\ reading' = reading
        /\ UNCHANGED <<encoderVars, encodedBy, results, params>>
    BY <1>4 DEF LegacyReaderStep
  <2>2. ReadingAfter(reading)
    BY <1>4, <2>1, ObjectStepFits, StreamStepFits, HeaderReadInFunction, ReaderStepInFunction
       DEF LegacyReaderStep
  <2>3. reading \in ReadFunctions /\ attempts # <<>>
    BY <2>1, FunctionReads
  <2> QED  BY <2>1, <2>2, <2>3, ReadingStays
<1>5. CASE FinishReading
  BY <1>5, FinishReadingFits
<1>6. CASE UNCHANGED legacyVars
  <2>1. /\ UNCHANGED encoderVars /\ encodedBy' = encodedBy /\ reading' = reading
        /\ results' = results /\ params' = params
        /\ reader' = reader /\ source' = source /\ call' = call /\ asserts' = asserts
        /\ api' = api
    BY <1>6 DEF legacyVars, allVars, vars, readerVars
  <2>2. CASE reading # "none"
    <3>1. /\ reading \in ReadFunctions /\ attempts # <<>> /\ asserts = {}
          /\ CallInv(reader, source, call, asserts)
          /\ CallOf(reading, reader, source.read, call, api)
      BY <2>2, FunctionReads
    <3>2. ReadingAfter(reading)
      BY <2>1, <3>1 DEF ReadingAfter
    <3> QED  BY <2>1, <3>1, <3>2, ReadingStays
  <2>3. CASE reading = "none"
    <3>1. EncodingInv /\ ReadingInv /\ ResultsInv
      BY DEF LegacyInv
    <3>2. EncodingInv'
      <4>1. EncoderInv'
        BY <2>1, <3>1, EncoderWaits DEF EncodingInv
      <4>2. encoder' = encoder /\ state' = state /\ attempts' = attempts
        BY <2>1 DEF encoderVars
      <4> QED  BY <2>1, <3>1, <4>1, <4>2 DEF EncodingInv, Given, ModeFits
    <3>3. ReadingInv'
      BY <2>1, <2>3, <3>1 DEF ReadingInv
    <3>4. ResultsInv'
      <4>1. /\ HeaderReadable' = HeaderReadable /\ Decodable' = Decodable
            /\ settings' = settings
            /\ attempts' = attempts
        BY <2>1, PartsStay
      <4>2. \A h : InHeaderOf(h)' = InHeaderOf(h)
        BY <4>1 DEF InHeaderOf
      <4>3. ASSUME NEW h \in ReadFunctions PROVE ResultFits(h, results[h])'
        BY <2>1, <3>1, <4>1 DEF ResultsInv, ResultFits
      <4> QED  BY <2>1, <3>1, <4>2, <4>3 DEF ResultsInv
    <3> QED  BY <3>2, <3>3, <3>4 DEF LegacyInv
  <2> QED  BY <2>2, <2>3
<1> QED  BY <1>1, <1>2, <1>3, <1>4, <1>5, <1>6 DEF NextLegacy, StopLegacy

\* In every state the result of a legacy function is the one that the stream calls
\* for, and the JlsParameters it has reported are those of the first encode.
THEOREM LegacyInvariant ==
  ASSUME Source = "memory", Retry = FALSE
  PROVE  SpecLegacy => []LegacyInv
<1>1. LegacyInv /\ [NextLegacy]_legacyVars => LegacyInv'
  BY LegacyStep
<1> QED  BY <1>1, InitLegacyFits, PTL DEF SpecLegacy

\* The settings of the first encode, when there is one.
LEMMA SettingsGiven ==
  ASSUME EncodingInv, attempts # <<>>
  PROVE  Given(settings) /\ IsImage(settings)
<1>1. AttemptsFit
  BY DEF EncodingInv, EncoderInv
<1>2. Len(attempts) \in Nat \ {0}
  <2>1. attempts \in Seq(Range(attempts))
    BY <1>1 DEF AttemptsFit, IsSequence
  <2> QED  BY <2>1, EmptySeq
<1>3. Given(settings)
  BY <1>2 DEF EncodingInv, settings, First
<1> QED  BY <1>1, <1>3, SettingsAreAnImage

\* JpegLsReadHeader and JpegLsReadHeaderStream report frame, mode, NEAR and
\* transformation of the image, whichever function or object encoded it.
THEOREM HeaderDescribes ==
  ASSUME Source = "memory", Retry = FALSE
  PROVE  SpecLegacy => []HeaderDescribesImage
<1>1. LegacyInv => HeaderDescribesImage
  <2> SUFFICES ASSUME LegacyInv, NEW f \in HeaderFunctions, results[f] = "ok",
                      encodedBy = "JpegLsEncodeStream" => settings.near <= 255
               PROVE  Image(params[f]) = Image(settings)
    BY DEF HeaderDescribesImage, Reads
  <2>1. ResultsInv /\ EncodingInv /\ f \in ReadFunctions
    BY KindsOfFunctions DEF LegacyInv
  <2>2. attempts # <<>>
    BY <2>1 DEF ResultsInv, ResultFits
  <2>3. settings.near \in Nat /\ settings.near <= 255
    BY <2>1, <2>2, SettingsGiven DEF Given, IsImage
  <2>4. settings.near % 256 = settings.near
    BY <2>3
  <2>5. params[f] = InHeaderOf(f)
    BY <2>1 DEF ResultsInv
  <2>6. /\ params[f].frame = settings.frame /\ params[f].mode = settings.mode
        /\ params[f].near = settings.near /\ params[f].transformation = settings.transformation
    BY <2>4, <2>5 DEF InHeaderOf
  <2> QED  BY <2>6 DEF Image
<1> QED  BY <1>1, LegacyInvariant, PTL

\* The functions that read agree with each other on every stream, also on what an
\* encode that failed has left, and they fail none of the ASSERTs of the reader.
THEOREM LegacyAgree ==
  ASSUME Source = "memory", Retry = FALSE
  PROVE  SpecLegacy => []LegacyCallsAgree
<1>1. LegacyInv => LegacyCallsAgree
  <2> SUFFICES ASSUME LegacyInv PROVE LegacyCallsAgree
    OBVIOUS
  <2>1. asserts = {} /\ \A f \in ReadFunctions : ResultFits(f, results[f])
    BY DEF LegacyInv, ReadingInv, ResultsInv
  <2>2. \A h \in HeaderFunctions : /\ results[h] = "ok" => HeaderReadable
                                   /\ results[h] = "error" => ~HeaderReadable
    BY <2>1, KindsOfFunctions DEF ResultFits
  <2>3. \A d \in DecodeFunctions : /\ results[d] = "ok" => HeaderReadable /\ Decodable
                                   /\ results[d] = "error" => ~Decodable
    BY <2>1 DEF ResultFits, ReadFunctions
  <2> QED  BY <2>1, <2>2, <2>3 DEF LegacyCallsAgree, Reads
<1> QED  BY <1>1, LegacyInvariant, PTL

\* Every function reads an image whose encode returned, if presets and NEAR are
\* supported and, when an object or JpegLsEncode has encoded it, the mode is too.
THEOREM EncodedReadable ==
  ASSUME Source = "memory", Retry = FALSE
  PROVE  SpecLegacy => []EncodedIsReadable
<1>1. LegacyInv => EncodedIsReadable
  <2> SUFFICES ASSUME LegacyInv, attempts # <<>>, First.done,
                      Supported(IF encodedBy = "JpegLsEncodeStream" THEN [settings EXCEPT !.mode = "none"]
                                ELSE settings),
                      NEW f \in Called
               PROVE  results[f] = "ok"
    BY DEF EncodedIsReadable, Reads
  <2>1. EncodingInv /\ EncoderInv /\ ResultsInv
    BY DEF LegacyInv, EncodingInv
  <2>2. Given(settings)
    BY <2>1, SettingsGiven
  <2>3. ParametersSupported(settings) /\ ModeFits(settings)
    <3>1. CASE encodedBy = "JpegLsEncodeStream"
      <4>1. /\ [settings EXCEPT !.mode = "none"].frame = settings.frame
            /\ [settings EXCEPT !.mode = "none"].near = settings.near
            /\ [settings EXCEPT !.mode = "none"].preset = settings.preset
        BY <2>2 DEF Given
      <4> DEFINE e == [settings EXCEPT !.mode = "none"]
      <4>2. e.frame = settings.frame /\ e.near = settings.near /\ e.preset = settings.preset
        BY <4>1
      <4>3. Supported(e)
        BY <3>1
      <4> HIDE DEF e
      <4>4. ParametersSupported(settings)
        BY <4>2, <4>3 DEF Supported, ParametersSupported
      <4> QED  BY <2>2, <3>1, <4>4 DEF Given
    <3>2. CASE encodedBy # "JpegLsEncodeStream"
      BY <3>2 DEF Supported, ParametersSupported, ModeFits
    <3> QED  BY <3>1, <3>2
  <2>4. HeaderReadable /\ Decodable
    BY <2>1, <2>3, DoneIsReadable
  <2>5. f \in ReadFunctions /\ ResultFits(f, results[f]) /\ results[f] # "none"
    BY <2>1 DEF Called, ResultsInv
  <2> QED  BY <2>4, <2>5, KindsOfFunctions DEF ResultFits
<1> QED  BY <1>1, LegacyInvariant, PTL

-----------------------------------------------------------------------------
(* Encoding again with what JpegLsReadHeader has reported.                 *)

\* The default presets that are spelt out are valid for deeper samples too.
LEMMA DefaultsAccepted ==
  ASSUME NEW m \in Nat, m >= 3, NEW n \in Nat, n < m, NEW maximum \in Nat, m <= maximum
  PROVE  IsValid(ComputeDefault(m, n), maximum, n)
<1> DEFINE d == ComputeDefault(m, n)
<1>1. d.maxval = m /\ d.reset = 64
  BY DefaultMembers DEF DefaultResetValue
<1>2. /\ d.T1 \in Int /\ d.T2 \in Int /\ d.T3 \in Int
      /\ n < d.T1 /\ d.T1 <= d.T2 /\ d.T2 <= d.T3 /\ d.T3 <= m
  BY DefaultsInOrder
<1> HIDE DEF d
<1>3. Or(d.maxval, maximum) = m
  BY <1>1 DEF Or
<1>4. \A u : Or(d.T1, u) = d.T1 /\ Or(d.T2, u) = d.T2
  BY <1>2 DEF Or
<1>5. /\ d.maxval \in 1..maximum
      /\ d.T1 \in (n + 1)..m /\ d.T2 \in d.T1..m /\ d.T3 \in d.T2..m
      /\ d.reset \in 3..Largest(255, m)
  BY <1>1, <1>2 DEF Largest
<1>6. IsValid(d, maximum, n)
  BY <1>3, <1>4, <1>5 DEF IsValid
<1> QED  BY <1>6 DEF d

\* The settings that JpegLsReadHeader reports of an image.
ReportedOf(e) ==
  [frame |-> e.frame, mode |-> e.mode, near |-> e.near % 256,
   preset |-> WrittenPreset(e), transformation |-> e.transformation]

\* The preset coding parameters p, which a setter or JpegLsEncode checks.
Taken(p, near) == IsValid(p, 65535, near)

\* The default presets of a depth are taken.
LEMMA DefaultsTaken ==
  ASSUME NEW m \in Nat, m >= 3, m <= 65535, NEW n \in Nat, n < m
  PROVE  Taken(ComputeDefault(m, n), n)
<1>1. ASSUME NEW x \in Nat, m <= x PROVE IsValid(ComputeDefault(m, n), x, n)
  BY <1>1, DefaultsAccepted
<1> DEFINE d == ComputeDefault(m, n)
<1> HIDE DEF d
<1>2. IsValid(d, 65535, n)
  <2>1. \A x \in Nat : m <= x => IsValid(d, x, n)
    BY <1>1 DEF d
  <2> QED  BY <2>1, SMT
<1> QED  BY <1>2, SMT DEF d, Taken

\* JpegLsEncode takes them.
LEMMA ReportedAccepted ==
  ASSUME NEW e, IsImage(e), ParametersSupported(e), Taken(e.preset, e.near)
  PROVE  JpegLsEncodeAccepts(ReportedOf(e), FALSE, TRUE)
<1> DEFINE M == CalculateMaximumSampleValue(e.frame.bits)
<1>1. e.near \in Nat /\ e.near <= 255 /\ e.near % 256 = e.near
  BY SupportedFits DEF IsImage
<1>2. IsFrame(e.frame)
  BY DEF IsImage, IsFrame
<1>3. Taken(WrittenPreset(e), e.near)
  <2>1. CASE WrittenPreset(e) = e.preset
    BY <2>1
  <2>2. CASE WrittenPreset(e) # e.preset
    <3>1. e.preset = NoPreset /\ WrittenPreset(e) = ComputeDefault(M, e.near)
      BY <2>2 DEF WrittenPreset, IsDefault
    <3>2. Or(NoPreset.maxval, M) = M
      BY DEF NoPreset, Or
    <3>3. e.near <= MaximumNearLossless(M)
      BY <3>1, <3>2 DEF ParametersSupported
    <3>4. M \in Nat /\ M >= 3
      BY LargestValue DEF IsImage
    <3> HIDE DEF M
    <3>5. e.near < M
      BY <1>1, <3>3, <3>4 DEF MaximumNearLossless, Smallest
    <3>6. M <= 65535
      BY LargestValue, SMT DEF IsImage, M
    <3>7. Taken(ComputeDefault(M, e.near), e.near)
      BY <1>1, <3>4, <3>5, <3>6, DefaultsTaken, SMT
    <3> QED  BY <3>1, <3>7 DEF M
  <2> QED  BY <2>1, <2>2
<1> DEFINE a == ReportedOf(e)
<1>4. /\ a.frame = e.frame /\ a.near = e.near /\ a.preset = WrittenPreset(e)
  BY <1>1 DEF ReportedOf
<1> HIDE DEF a
<1>5. /\ IsFrame(a.frame) /\ Taken(a.preset, a.near) /\ a.near <= 255
  BY <1>1, <1>2, <1>3, <1>4
<1>6. IsValid(a.preset, 65535, a.near)
  BY <1>5, SMT DEF Taken
<1> QED  BY <1>5, <1>6, SMT DEF JpegLsEncodeAccepts, a

\* They give the same header and the same scans.
LEMMA ReportedAlike ==
  ASSUME NEW e, e.near % 256 = e.near
  PROVE  /\ Header(ReportedOf(e), "destination_set") = Header(e, "destination_set")
         /\ Scans(ReportedOf(e), 1) = Scans(e, 1)
<1> DEFINE a == ReportedOf(e)
           M == CalculateMaximumSampleValue(e.frame.bits)
           d == ComputeDefault(M, e.near)
<1>1. /\ a.frame = e.frame /\ a.mode = e.mode /\ a.near = e.near
      /\ a.preset = WrittenPreset(e) /\ a.transformation = e.transformation
  BY DEF ReportedOf
<1> HIDE DEF a
<1>2. PresetToWrite(a) = PresetToWrite(e)
  <2>1. CASE ~IsDefault(e.preset)
    <3>1. a.preset = e.preset
      BY <1>1, <2>1 DEF WrittenPreset
    <3> QED  BY <1>1, <2>1, <3>1 DEF PresetToWrite
  <2>2. CASE IsDefault(e.preset) /\ e.frame.bits > 12
    <3>1. a.preset = d
      BY <1>1, <2>2 DEF WrittenPreset
    <3>2. d.reset = 64 /\ NoPreset.reset = 0
      BY DefaultMembers DEF DefaultResetValue, NoPreset
    <3> HIDE DEF d
    <3>3. ~IsDefault(a.preset)
      BY <3>1, <3>2 DEF IsDefault
    <3>4. PresetToWrite(a) = <<PresetSegment(d)>>
      BY <3>1, <3>3 DEF PresetToWrite
    <3>5. PresetToWrite(e) = <<PresetSegment(d)>>
      BY <2>2 DEF PresetToWrite, d
    <3> QED  BY <3>4, <3>5
  <2>3. CASE IsDefault(e.preset) /\ ~(e.frame.bits > 12)
    <3>1. a.preset = NoPreset
      BY <1>1, <2>3 DEF WrittenPreset
    <3> QED  BY <1>1, <2>3, <3>1 DEF PresetToWrite, IsDefault
  <2> QED  BY <2>1, <2>2, <2>3
<1>3. Header(a, "destination_set") = Header(e, "destination_set")
  BY <1>1, <1>2, Zenon DEF Header
<1>4. \A first, count : StartOfScan(a, first, count) = StartOfScan(e, first, count)
  BY <1>1, Zenon DEF StartOfScan
<1>5. Scans(a, 1) = Scans(e, 1)
  BY <1>1, <1>4, Zenon DEF Scans
<1> QED  BY <1>3, <1>5 DEF a

\* What JpegLsReadHeader reports of an image JpegLsEncode takes, and it writes the
\* same header and start of scan segments with it: presets that are spelt out in
\* the stream for deep samples are valid, and not written twice.
THEOREM ReencodedAlike ==
  ASSUME Source = "memory", Retry = FALSE
  PROVE  SpecLegacy => []ReencodesAlike
<1>1. LegacyInv => ReencodesAlike
  <2> DEFINE again == params["JpegLsReadHeader"]
  <2> SUFFICES ASSUME LegacyInv, results["JpegLsReadHeader"] = "ok", Supported(settings),
                      Taken(settings.preset, settings.near)
               PROVE  /\ JpegLsEncodeAccepts(again, FALSE, TRUE)
                      /\ Header(again, "destination_set") = Header(settings, "destination_set")
                      /\ Scans(again, 1) = Scans(settings, 1)
    BY SMT DEF ReencodesAlike, Reads, Taken, JpegLsEncodeAccepts
  <2>1. "JpegLsReadHeader" \in HeaderFunctions /\ "JpegLsReadHeader" \in ReadFunctions
    BY DEF HeaderFunctions, ReadFunctions
  <2>2. ResultsInv /\ EncodingInv
    BY DEF LegacyInv
  <2>3. attempts # <<>>
    BY <2>1, <2>2 DEF ResultsInv, ResultFits
  <2>4. IsImage(settings)
    BY <2>2, <2>3, SettingsGiven
  <2>5. again = ReportedOf(settings)
    BY <2>1, <2>2 DEF ResultsInv, InHeaderOf, ReportedOf
  <2>6. ParametersSupported(settings)
    BY DEF Supported, ParametersSupported
  <2>7. settings.near % 256 = settings.near
    BY <2>4, <2>6, SupportedFits DEF IsImage
  <2> HIDE DEF again
  <2>8. JpegLsEncodeAccepts(again, FALSE, TRUE)
    BY <2>4, <2>5, <2>6, ReportedAccepted
  <2>9. /\ Header(again, "destination_set") = Header(settings, "destination_set")
        /\ Scans(again, 1) = Scans(settings, 1)
    BY <2>5, <2>7, ReportedAlike, Zenon
  <2> QED  BY <2>8, <2>9 DEF again
<1> QED  BY <1>1, LegacyInvariant, PTL
=============================================================================

--------------------------- MODULE BitStreamProofs ---------------------------
(***************************************************************************)
(* Proofs about BitStream, for every size of a byte, of the destination,   *)
(* of the cache and of the buffers of streams, and for all codewords that  *)
(* fit one call.  The argument follows the code.  Of the writer: PutByte,  *)
(* the turn of the loop in Flush, keeps it sound; of four bytes at most    *)
(* two are one bit short, so that a flush frees all but two bits; so two   *)
(* flushes take any codeword, and what EndScan adds makes a whole number   *)
(* of bytes; and no step loses a 1 bit or adds one.  Of the reader: all it *)
(* does to the cache keeps the bits that are still to be read, those in    *)
(* the cache and those ahead of it in the bytes of the scan.               *)
(***************************************************************************)
EXTENDS BitStream, UtilProofs

-----------------------------------------------------------------------------
(* Words.                                                                  *)

Positions == 0..(BufferBits - 1)
Buffers == SUBSET Positions
Octets  == SUBSET FF

\* The number of bits in the buffer, and in a byte, are what they are called.
LEMMA Widths ==
  /\ ByteBits \in Nat /\ ByteBits >= 3
  /\ BufferBits \in Nat /\ BufferBits = 4 * ByteBits
BY ByteBitsAssumption DEF BufferBits

\* The top bits of the buffer are a byte; when there is one less of them, the
\* byte is neither 0xFF nor the second byte of a marker.
LEMMA TopOfBuffer ==
  ASSUME NEW buffer \in Buffers, NEW bits \in {ByteBits - 1, ByteBits}
  PROVE  /\ TopBits(buffer, bits, BufferBits) \in Octets
         /\ \A p \in TopBits(buffer, bits, BufferBits) : p < bits
         /\ \A p \in TopBits(buffer, bits, BufferBits) : p + BufferBits - bits \in buffer
BY Widths DEF TopBits, ShiftRight, Buffers, Positions, Octets, FF

\* What is shifted up keeps clear of the bits that become free.
LEMMA ShiftedBuffer ==
  ASSUME NEW word \in SUBSET Int, NEW n \in Nat, NEW free \in Int,
         \A p \in word : p >= 0 /\ p >= free
  PROVE  LET shifted == ShiftLeft(word, n, BufferBits)
         IN  shifted \in Buffers /\ \A p \in shifted : p >= free + n
BY Widths DEF ShiftLeft, Buffers, Positions

-----------------------------------------------------------------------------
(* The writer.                                                             *)

Writers == [buffer : Buffers, free : Int, ff : BOOLEAN, room : Int, out : Seq(Octets),
            sunk : Nat, stream : BOOLEAN, ok : BOOLEAN]

\* After a 0xFF no byte of the scan has its most significant bit set.
Stuffed(out) ==
  \A i \in 1..(Len(out) - 1) : out[i] = FF => ~IsMarkerCode(out[i + 1])

EndsInFF(out) == Len(out) > 0 /\ out[Len(out)] = FF

\* What holds of a writer between any two of its steps.
Sound(w) ==
  /\ w \in Writers
  /\ \A p \in w.buffer : p >= w.free
  /\ w.ff = EndsInFF(w.out)
  /\ Stuffed(w.out)
  /\ w.sunk <= Len(w.out)

\* A byte put behind a sound scan keeps it sound.
LEMMA AppendedByte ==
  ASSUME NEW out \in Seq(Octets), Stuffed(out), NEW byte \in Octets,
         EndsInFF(out) => ~IsMarkerCode(byte)
  PROVE  /\ Append(out, byte) \in Seq(Octets) /\ Len(Append(out, byte)) = Len(out) + 1
         /\ Stuffed(Append(out, byte))
         /\ EndsInFF(Append(out, byte)) = (byte = FF)
<1> DEFINE o == Append(out, byte)
<1>1. /\ o \in Seq(Octets) /\ Len(o) = Len(out) + 1 /\ Len(out) \in Nat
      /\ \A i \in 1..Len(out) : o[i] = out[i]
      /\ o[Len(out) + 1] = byte
  OBVIOUS
<1>2. Stuffed(o)
  <2> HIDE DEF o
  <2> SUFFICES ASSUME NEW i \in 1..(Len(o) - 1), o[i] = FF PROVE ~IsMarkerCode(o[i + 1])
    BY DEF Stuffed
  <2>1. CASE i = Len(out)
    <3>1. Len(out) > 0 /\ out[Len(out)] = FF
      BY <1>1, <2>1
    <3> QED  BY <1>1, <2>1, <3>1 DEF EndsInFF
  <2>2. CASE i # Len(out)
    <3>1. i \in 1..(Len(out) - 1) /\ i + 1 \in 1..Len(out) /\ i \in 1..Len(out)
      BY <1>1, <2>2
    <3> QED  BY <1>1, <3>1 DEF Stuffed
  <2> QED  BY <2>1, <2>2
<1>3. EndsInFF(o) = (byte = FF)
  <2> HIDE DEF o
  <2> QED  BY <1>1 DEF EndsInFF
<1> QED  BY <1>1, <1>2, <1>3

\* One byte of Flush: the free bits grow by a byte, or by one bit less behind a
\* 0xFF, and a byte that is filled up with free bits is no 0xFF.
LEMMA PutByteStep ==
  ASSUME NEW w, Sound(w), w.free < BufferBits
  PROVE  LET v == PutByte(w)
         IN  /\ Sound(v)
             /\ v.free = w.free + (IF w.ff THEN ByteBits - 1 ELSE ByteBits)
             /\ v.room = w.room - 1
             /\ v.stream = w.stream /\ v.ok = w.ok
             /\ v.ff => (~w.ff /\ v.free <= BufferBits)
             /\ v.ff => \A b \in 0..(ByteBits - 1) : b + BufferBits - ByteBits \in w.buffer
<1> DEFINE bits == IF w.ff THEN ByteBits - 1 ELSE ByteBits
           byte == TopBits(w.buffer, bits, BufferBits)
           buffer == ShiftLeft(w.buffer, bits, BufferBits)
           v == PutByte(w)
<1>1. /\ w \in Writers /\ w.buffer \in Buffers /\ w.free \in Int /\ w.ff \in BOOLEAN
      /\ w.room \in Int /\ w.out \in Seq(Octets) /\ w.sunk \in Nat
      /\ w.ff = EndsInFF(w.out) /\ Stuffed(w.out) /\ w.sunk <= Len(w.out)
      /\ \A p \in w.buffer : p >= w.free
  BY DEF Sound, Writers
<1>2. bits \in {ByteBits - 1, ByteBits} /\ bits \in Nat
  BY Widths
<1>3. /\ byte \in Octets /\ \A p \in byte : p < bits
      /\ \A p \in byte : p + BufferBits - bits \in w.buffer
  BY <1>1, <1>2, TopOfBuffer
<1>4. w.ff => ~IsMarkerCode(byte) /\ byte # FF
  BY <1>3, Widths DEF IsMarkerCode, FF
<1>5. /\ Append(w.out, byte) \in Seq(Octets) /\ Len(Append(w.out, byte)) = Len(w.out) + 1
      /\ Stuffed(Append(w.out, byte))
      /\ EndsInFF(Append(w.out, byte)) = (byte = FF)
  BY <1>1, <1>3, <1>4, AppendedByte
<1>6. buffer \in Buffers /\ \A p \in buffer : p >= w.free + bits
  <2>1. w.buffer \in SUBSET Int /\ \A p \in w.buffer : p >= 0 /\ p >= w.free
    BY <1>1, Widths DEF Buffers, Positions
  <2> QED  BY <1>1, <1>2, <2>1, ShiftedBuffer
<1>7. v = [w EXCEPT !.buffer = buffer, !.free = w.free + bits, !.ff = (byte = FF),
                    !.out = Append(w.out, byte), !.room = w.room - 1]
  BY <1>1, Widths DEF PutByte
<1>8. byte = FF => w.free + bits <= BufferBits
  <2> SUFFICES ASSUME byte = FF PROVE w.free + bits <= BufferBits
    OBVIOUS
  <2>1. 0 \in byte
    BY Widths DEF FF
  <2>2. BufferBits - bits \in w.buffer
    BY <1>2, <1>3, <2>1, Widths
  <2> HIDE DEF bits
  <2> QED  BY <1>1, <1>2, <2>2, Widths
<1>9. byte = FF => \A b \in 0..(ByteBits - 1) : b + BufferBits - ByteBits \in w.buffer
  BY <1>3, <1>4, Widths DEF FF
<1> DEFINE ff == byte = FF
           out == Append(w.out, byte)
           free == w.free + bits
           room == w.room - 1
<1>10. /\ ff \in BOOLEAN /\ free \in Int /\ room \in Int /\ out \in Seq(Octets)
       /\ buffer \in Buffers
       /\ v = [w EXCEPT !.buffer = buffer, !.free = free, !.ff = ff, !.out = out, !.room = room]
  BY <1>1, <1>2, <1>5, <1>6, <1>7, Widths
<1>11. /\ v \in Writers /\ v.buffer = buffer /\ v.free = free /\ v.ff = ff /\ v.out = out
       /\ v.room = room /\ v.sunk = w.sunk /\ v.stream = w.stream /\ v.ok = w.ok
  <2> HIDE DEF v, ff, free, room, out, buffer
  <2> QED  BY <1>1, <1>10 DEF Writers
<1>12. Sound(v)
  <2>1. \A p \in v.buffer : p >= v.free
    BY <1>6, <1>11
  <2>2. v.ff = EndsInFF(v.out) /\ Stuffed(v.out)
    BY <1>5, <1>11
  <2>3. v.sunk <= Len(v.out)
    BY <1>1, <1>5, <1>11
  <2> QED  BY <1>11, <2>1, <2>2, <2>3 DEF Sound
<1> QED  BY <1>4, <1>8, <1>9, <1>11, <1>12

\* One turn of the loop in Flush, whether or not there is a byte to put.
LEMMA FlushTurn ==
  ASSUME NEW w, Sound(w)
  PROVE  LET v == PutByte(w)
         IN  /\ Sound(v) /\ v.stream = w.stream /\ v.ok = w.ok
             /\ v.room = w.room \/ v.room = w.room - 1
             /\ w.free >= BufferBits => v = w
             /\ w.free < BufferBits =>
                  /\ v.free = w.free + (IF w.ff THEN ByteBits - 1 ELSE ByteBits)
                  /\ v.ff => (~w.ff /\ v.free <= BufferBits)
                  /\ v.ff => \A b \in 0..(ByteBits - 1) : b + BufferBits - ByteBits \in w.buffer
<1>1. w.free \in Int /\ w.room \in Int
  BY DEF Sound, Writers
<1>2. CASE w.free >= BufferBits
  BY <1>1, <1>2, Widths DEF PutByte
<1>3. CASE w.free < BufferBits
  BY <1>1, <1>3, PutByteStep, Widths
<1> QED  BY <1>1, <1>2, <1>3, Widths

\* A destination in memory that is full leaves the writer as it is; a stream takes
\* all that was written.
LEMMA OverFlowStep ==
  ASSUME NEW w, Sound(w), w.ok
  PROVE  LET v == OverFlow(w)
         IN  /\ Sound(v) /\ v.ok = w.stream
             /\ v.buffer = w.buffer /\ v.free = w.free /\ v.ff = w.ff
             /\ v.out = w.out /\ v.stream = w.stream
             /\ v.ok => v.room >= 4 /\ v.sunk = Len(v.out)
             /\ ~v.ok => v.room = w.room
<1> DEFINE v == OverFlow(w)
           no == FALSE
           sunk == Len(w.out)
<1>1. /\ w \in Writers /\ w.stream \in BOOLEAN /\ w.out \in Seq(Octets) /\ w.ok \in BOOLEAN
      /\ w.sunk <= Len(w.out) /\ \A p \in w.buffer : p >= w.free
      /\ w.ff = EndsInFF(w.out) /\ Stuffed(w.out)
  BY DEF Sound, Writers
<1>2. sunk \in Nat /\ no \in BOOLEAN /\ ~no /\ StreamBuffer \in Int /\ StreamBuffer >= 4
  BY <1>1, StreamBufferAssumption
<1>3. CASE w.stream
  <2>1. v = [w EXCEPT !.sunk = sunk, !.room = StreamBuffer]
    BY <1>3 DEF OverFlow
  <2>2. sunk = Len(w.out)
    OBVIOUS
  <2> HIDE DEF v, sunk
  <2>3. /\ v \in Writers /\ v.sunk = sunk /\ v.room = StreamBuffer
        /\ v.buffer = w.buffer /\ v.free = w.free /\ v.ff = w.ff
        /\ v.out = w.out /\ v.stream = w.stream /\ v.ok = w.ok
    BY <1>1, <1>2, <2>1 DEF Writers
  <2>4. Sound(v)
    BY <1>1, <1>2, <2>2, <2>3 DEF Sound
  <2> QED  BY <1>1, <1>2, <1>3, <2>2, <2>3, <2>4 DEF v
<1>4. CASE ~w.stream
  <2>1. v = [w EXCEPT !.ok = no]
    BY <1>4 DEF OverFlow
  <2> HIDE DEF v, no
  <2>2. /\ v \in Writers /\ v.sunk = w.sunk /\ v.room = w.room
        /\ v.buffer = w.buffer /\ v.free = w.free /\ v.ff = w.ff
        /\ v.out = w.out /\ v.stream = w.stream /\ v.ok = no
    BY <1>1, <1>2, <2>1 DEF Writers
  <2>3. Sound(v)
    BY <1>1, <2>2 DEF Sound
  <2> QED  BY <1>1, <1>2, <1>4, <2>2, <2>3 DEF v
<1> QED  BY <1>1, <1>3, <1>4

\* Flush has room for the bytes it puts.  Of four bytes at most two are one bit
\* short, so that it frees all of the buffer but two bits, and all that is below
\* bit 0 when more was to be put than fits.
LEMMA FlushStep ==
  ASSUME NEW w, Sound(w), w.ok, w.room >= 0, w.free <= BufferBits
  PROVE  LET v == Flush(w)
         IN  /\ Sound(v) /\ v.room >= 0 /\ v.stream = w.stream
             /\ (v.ok /\ w.free < 0) =>
                  /\ v.free >= w.free + BufferBits - 2
                  /\ v.free <= w.free + BufferBits
             /\ (v.ok /\ w.free >= 0) =>
                  /\ v.free >= BufferBits - 2 /\ v.free < BufferBits + ByteBits
                  /\ v.ff => v.free <= BufferBits
                  /\ w.free = BufferBits => v.free = w.free /\ v.ff = w.ff
                  /\ (w.free = BufferBits - ByteBits /\ ~w.ff) =>
                       /\ v.free = BufferBits
                       /\ v.ff => \A b \in 0..(ByteBits - 1) :
                                    b + BufferBits - ByteBits \in w.buffer
                  /\ (w.free = BufferBits - ByteBits + 1 /\ w.ff) =>
                       v.free = BufferBits /\ ~v.ff
<1> DEFINE v0 == IF w.room < 4 THEN OverFlow(w) ELSE w
           v1 == PutByte(v0)
           v2 == PutByte(v1)
           v3 == PutByte(v2)
           v4 == PutByte(v3)
<1>1. w \in Writers /\ w.room \in Int /\ w.free \in Int /\ w.ff \in BOOLEAN
  BY DEF Sound, Writers
<1>2. /\ Sound(v0) /\ v0.stream = w.stream /\ v0.buffer = w.buffer /\ v0.free = w.free
      /\ v0.ff = w.ff /\ v0.room >= 0
      /\ v0.ok => v0.room >= 4
  <2>1. CASE w.room < 4
    <3>1. v0 = OverFlow(w)
      BY <2>1
    <3> HIDE DEF v0
    <3>2. Sound(v0)
      BY <3>1, OverFlowStep
    <3>3. v0.ok => v0.room >= 4
      BY <3>1, OverFlowStep
    <3>4. ~v0.ok => v0.room = w.room
      BY <3>1, OverFlowStep
    <3>5. v0.room \in Int /\ v0.ok \in BOOLEAN
      BY <3>2 DEF Sound, Writers
    <3> QED  BY <1>1, <3>1, <3>2, <3>3, <3>4, <3>5, OverFlowStep
  <2>2. CASE ~(w.room < 4)
    BY <1>1, <2>2
  <2> QED  BY <2>1, <2>2
<1>3. CASE ~v0.ok
  <2>1. Flush(w) = v0
    BY <1>3 DEF Flush
  <2> HIDE DEF v0
  <2>2. v0.ok \in BOOLEAN
    BY <1>2 DEF Sound, Writers
  <2> QED  BY <1>2, <1>3, <2>1, <2>2
<1>4. CASE v0.ok
  <2>1. Flush(w) = v4
    BY <1>4 DEF Flush, PutFourBytes
  <2>2. /\ Sound(v1) /\ v1.stream = v0.stream /\ v1.ok = v0.ok
        /\ v1.room = v0.room \/ v1.room = v0.room - 1
        /\ v0.free >= BufferBits => v1 = v0
        /\ v0.free < BufferBits =>
             /\ v1.free = v0.free + (IF v0.ff THEN ByteBits - 1 ELSE ByteBits)
             /\ v1.ff => (~v0.ff /\ v1.free <= BufferBits)
             /\ v1.ff => \A b \in 0..(ByteBits - 1) : b + BufferBits - ByteBits \in v0.buffer
    <3> HIDE DEF v0
    <3> QED  BY <1>2, FlushTurn
  <2>3. /\ Sound(v2) /\ v2.stream = v1.stream /\ v2.ok = v1.ok
        /\ v2.room = v1.room \/ v2.room = v1.room - 1
        /\ v1.free >= BufferBits => v2 = v1
        /\ v1.free < BufferBits =>
             /\ v2.free = v1.free + (IF v1.ff THEN ByteBits - 1 ELSE ByteBits)
             /\ v2.ff => (~v1.ff /\ v2.free <= BufferBits)
    <3> HIDE DEF v0, v1
    <3> QED  BY <2>2, FlushTurn
  <2>4. /\ Sound(v3) /\ v3.stream = v2.stream /\ v3.ok = v2.ok
        /\ v3.room = v2.room \/ v3.room = v2.room - 1
        /\ v2.free >= BufferBits => v3 = v2
        /\ v2.free < BufferBits =>
             /\ v3.free = v2.free + (IF v2.ff THEN ByteBits - 1 ELSE ByteBits)
             /\ v3.ff => (~v2.ff /\ v3.free <= BufferBits)
    <3> HIDE DEF v0, v1, v2
    <3> QED  BY <2>3, FlushTurn
  <2>5. /\ Sound(v4) /\ v4.stream = v3.stream /\ v4.ok = v3.ok
        /\ v4.room = v3.room \/ v4.room = v3.room - 1
        /\ v3.free >= BufferBits => v4 = v3
        /\ v3.free < BufferBits =>
             /\ v4.free = v3.free + (IF v3.ff THEN ByteBits - 1 ELSE ByteBits)
             /\ v4.ff => (~v3.ff /\ v4.free <= BufferBits)
    <3> HIDE DEF v0, v1, v2, v3
    <3> QED  BY <2>4, FlushTurn
  <2> HIDE DEF v0, v1, v2, v3, v4
  <2>6. \A v \in {v0, v1, v2, v3, v4} :
          v.free \in Int /\ v.room \in Int /\ v.ff \in BOOLEAN /\ v.ok \in BOOLEAN
    BY <1>2, <2>2, <2>3, <2>4, <2>5 DEF Sound, Writers
  <2>7. Sound(v4) /\ v4.room >= 0 /\ v4.stream = w.stream /\ v4.ok
    BY <1>2, <1>4, <2>2, <2>3, <2>4, <2>5, <2>6
  <2>8. CASE w.free < 0
    <3>1. v4.free >= w.free + BufferBits - 2 /\ v4.free <= w.free + BufferBits
      BY <1>1, <1>2, <2>2, <2>3, <2>4, <2>5, <2>6, <2>8, Widths
    <3> QED  BY <1>1, <2>1, <2>7, <2>8, <3>1
  <2>9. CASE w.free >= 0
    <3>1. v4.free >= BufferBits - 2 /\ v4.free < BufferBits + ByteBits
      BY <1>1, <1>2, <2>2, <2>3, <2>4, <2>5, <2>6, <2>9, Widths
    <3>2. v4.ff => v4.free <= BufferBits
      BY <1>1, <1>2, <2>2, <2>3, <2>4, <2>5, <2>6, <2>9, Widths
    <3>3. w.free = BufferBits => v4.free = w.free /\ v4.ff = w.ff
      BY <1>1, <1>2, <2>2, <2>3, <2>4, <2>5, <2>6, <2>9, Widths
    <3>4. (w.free = BufferBits - ByteBits /\ ~w.ff) =>
            /\ v4.free = BufferBits
            /\ v4.ff => \A b \in 0..(ByteBits - 1) : b + BufferBits - ByteBits \in w.buffer
      <4> SUFFICES ASSUME w.free = BufferBits - ByteBits, ~w.ff
                   PROVE  /\ v4.free = BufferBits
                          /\ v4.ff => \A b \in 0..(ByteBits - 1) :
                                        b + BufferBits - ByteBits \in w.buffer
        OBVIOUS
      <4>1. v1.free = BufferBits
        BY <1>1, <1>2, <2>2, <2>6, Widths
      <4>2. v4 = v1
        BY <2>3, <2>4, <2>5, <4>1, Widths
      <4>3. v1.ff => \A b \in 0..(ByteBits - 1) : b + BufferBits - ByteBits \in w.buffer
        BY <1>2, <2>2, Widths
      <4> QED  BY <4>1, <4>2, <4>3
    <3>5. (w.free = BufferBits - ByteBits + 1 /\ w.ff) => v4.free = BufferBits /\ ~v4.ff
      BY <1>1, <1>2, <2>2, <2>3, <2>4, <2>5, <2>6, <2>9, Widths
    <3> QED  BY <1>1, <2>1, <2>7, <2>9, <3>1, <3>2, <3>3, <3>4, <3>5
  <2> QED  BY <1>1, <2>8, <2>9
<1> QED  BY <1>3, <1>4

-----------------------------------------------------------------------------
(* Codewords.                                                              *)

\* A codeword of n bits has no bit above them, and n is less than the buffer.
IsCode(word, n) ==
  n \in 0..(BufferBits - 1) /\ word \in SUBSET Int /\ \A p \in word : p >= 0 /\ p < n

\* More bits are or'ed into the part of the buffer that is not free.
LEMMA FilledBuffer ==
  ASSUME NEW w, Sound(w), NEW free \in Int, free <= w.free,
         NEW bits \in Buffers, \A p \in bits : p >= free,
         NEW v, v = [w EXCEPT !.free = free, !.buffer = w.buffer \cup bits]
  PROVE  /\ Sound(v) /\ v.free = free /\ v.ff = w.ff /\ v.room = w.room
         /\ v.stream = w.stream /\ v.ok = w.ok /\ v.out = w.out /\ v.sunk = w.sunk
         /\ v.buffer = w.buffer \cup bits
<1> DEFINE buffer == w.buffer \cup bits
<1>1. /\ w \in Writers /\ w.buffer \in Buffers /\ w.free \in Int
      /\ w.sunk <= Len(w.out) /\ \A p \in w.buffer : p >= w.free
      /\ w.ff = EndsInFF(w.out) /\ Stuffed(w.out)
  BY DEF Sound, Writers
<1>2. buffer \in Buffers /\ v = [w EXCEPT !.free = free, !.buffer = buffer]
  BY <1>1 DEF Buffers
<1>3. \A p \in buffer : p >= free
  <2>1. \A p \in w.buffer : p \in Int
    BY <1>1, Widths DEF Buffers, Positions
  <2> QED  BY <1>1, <2>1
<1> HIDE DEF buffer
<1>4. /\ v \in Writers /\ v.free = free /\ v.ff = w.ff /\ v.room = w.room
      /\ v.stream = w.stream /\ v.ok = w.ok /\ v.out = w.out /\ v.sunk = w.sunk
      /\ v.buffer = buffer
  BY <1>1, <1>2 DEF Writers
<1>5. Sound(v)
  BY <1>1, <1>3, <1>4 DEF Sound
<1> QED  BY <1>4, <1>5 DEF buffer

\* Where the bits of a word go when its last bit goes to place free: those that
\* would go below place 0 are dropped.
Placed(word, free) ==
  IF free >= 0 THEN ShiftLeft(word, free, BufferBits) ELSE ShiftRight(word, -free)

\* A word moved to where the buffer is free fits the buffer.
LEMMA ShiftedCode ==
  ASSUME NEW word, NEW n, IsCode(word, n), NEW free \in Int
  PROVE  Placed(word, free) \in Buffers /\ \A p \in Placed(word, free) : p >= free
BY Widths DEF Placed, IsCode, ShiftLeft, ShiftRight, Buffers, Positions

\* A codeword takes what is free, and more than that if it is longer.
LEMMA AddBitsStep ==
  ASSUME NEW w, Sound(w), NEW word, NEW n, IsCode(word, n)
  PROVE  LET v == AddBits(w, word, n)
         IN  /\ Sound(v) /\ v.free = w.free - n /\ v.room = w.room /\ v.stream = w.stream
             /\ v.ok = w.ok /\ v.out = w.out /\ v.buffer = w.buffer \cup Placed(word, w.free - n)
<1> DEFINE free == w.free - n
           bits == Placed(word, free)
           v == AddBits(w, word, n)
<1>1. n \in Nat /\ w.free \in Int /\ w \in Writers
  BY Widths DEF IsCode, Sound, Writers
<1>2. free \in Int /\ free <= w.free
  BY <1>1
<1>3. bits \in Buffers /\ \A p \in bits : p >= free
  <2> HIDE DEF free
  <2> QED  BY <1>2, ShiftedCode
<1>4. bits = IF w.free >= n THEN ShiftLeft(word, w.free - n, BufferBits)
             ELSE ShiftRight(word, n - w.free)
  BY <1>1 DEF Placed
<1>5. v = [w EXCEPT !.free = free, !.buffer = w.buffer \cup bits]
  BY <1>4 DEF AddBits
<1>6. free = w.free - n /\ bits = Placed(word, w.free - n)
  OBVIOUS
<1> HIDE DEF v, bits, free
<1>7. /\ Sound(v) /\ v.free = free /\ v.room = w.room /\ v.stream = w.stream /\ v.ok = w.ok
      /\ v.out = w.out /\ v.buffer = w.buffer \cup bits
  <2>1. Sound(v)
    BY <1>2, <1>3, <1>5, FilledBuffer
  <2> DEFINE buffer == w.buffer \cup bits
  <2>2. buffer \in Buffers /\ v = [w EXCEPT !.free = free, !.buffer = buffer]
    BY <1>1, <1>3, <1>5 DEF Writers, Buffers
  <2> HIDE DEF buffer
  <2>3. /\ v.free = free /\ v.room = w.room /\ v.stream = w.stream /\ v.ok = w.ok
        /\ v.out = w.out /\ v.buffer = buffer
    BY <1>1, <1>2, <2>2 DEF Writers
  <2> QED  BY <2>1, <2>3 DEF buffer
<1> QED  BY <1>6, <1>7 DEF v

\* The rest of it takes what a flush has made free.
LEMMA AddRestStep ==
  ASSUME NEW w, Sound(w), NEW word, NEW n, IsCode(word, n)
  PROVE  LET v == AddRest(w, word)
         IN  /\ Sound(v) /\ v.free = w.free /\ v.room = w.room /\ v.stream = w.stream
             /\ v.ok = w.ok /\ v.out = w.out /\ v.buffer = w.buffer \cup Placed(word, w.free)
<1> DEFINE bits == Placed(word, w.free)
           buffer == w.buffer \cup bits
           v == AddRest(w, word)
<1>1. w \in Writers /\ w.free \in Int
  BY DEF Sound, Writers
<1>2. bits \in Buffers /\ \A p \in bits : p >= w.free
  BY <1>1, ShiftedCode
<1>3. v = [w EXCEPT !.buffer = buffer]
  BY DEF AddRest, Placed
<1> HIDE DEF v, bits
<1>4. buffer \in Buffers /\ \A p \in buffer : p >= w.free
  BY <1>1, <1>2 DEF Sound, Writers, Buffers
<1>5. buffer = w.buffer \cup bits
  OBVIOUS
<1> HIDE DEF buffer
<1>6. /\ v \in Writers /\ v.free = w.free /\ v.ff = w.ff /\ v.room = w.room
      /\ v.stream = w.stream /\ v.ok = w.ok /\ v.out = w.out /\ v.sunk = w.sunk
      /\ v.buffer = buffer
  BY <1>1, <1>3, <1>4 DEF Writers
<1>7. Sound(v)
  BY <1>4, <1>6 DEF Sound
<1> QED  BY <1>5, <1>6, <1>7 DEF v, bits

\* AppendToBitStream: what does not fit is put with two flushes at most, and
\* what is free afterwards is between nothing and all of the buffer.
LEMMA AppendStep ==
  ASSUME NEW w, Sound(w), w.ok, w.room >= 0, w.free \in 0..BufferBits,
         NEW word, NEW n, IsCode(word, n)
  PROVE  LET v == AppendToBitStream(w, word, n)
         IN  /\ Sound(v) /\ v.room >= 0 /\ v.stream = w.stream
             /\ v.ok => v.free \in 0..BufferBits
<1> DEFINE w0 == AddBits(w, word, n)
           w1 == Flush(w0)
           w1r == AddRest(w1, word)
           w2 == Flush(w1r)
           w2r == AddRest(w2, word)
<1>1. n \in Nat /\ n < BufferBits /\ w.free \in Int /\ w.room \in Int
  BY Widths DEF IsCode, Sound, Writers
<1>3. /\ Sound(w0) /\ w0.free = w.free - n /\ w0.room = w.room /\ w0.stream = w.stream
      /\ w0.ok
  BY AddBitsStep
<1>4. ASSUME NEW v, Sound(v), v.free \in Int
      PROVE  LET r == AddRest(v, word)
             IN  /\ Sound(r) /\ r.free = v.free /\ r.room = v.room /\ r.stream = v.stream
                 /\ r.ok = v.ok
  BY <1>4, AddRestStep
<1>5. w0.free \in Int /\ w0.room \in Int
  BY <1>3 DEF Sound, Writers
<1>6. CASE w0.free >= 0
  <2>1. AppendToBitStream(w, word, n) = w0
    BY <1>6 DEF AppendToBitStream
  <2> HIDE DEF w0
  <2> QED  BY <1>1, <1>3, <1>5, <1>6, <2>1, Widths
<1>7. CASE w0.free < 0
  <2>1. AppendToBitStream(w, word, n) =
          IF ~w1.ok THEN w1
          ELSE IF w1.free >= 0 THEN w1r ELSE IF w2.ok THEN w2r ELSE w2
    BY <1>5, <1>7 DEF AppendToBitStream
  <2> HIDE DEF w0
  <2>2. /\ Sound(w1) /\ w1.room >= 0 /\ w1.stream = w.stream
        /\ w1.ok => w1.free >= w0.free + BufferBits - 2 /\ w1.free <= w0.free + BufferBits
    BY <1>1, <1>3, <1>5, <1>7, FlushStep, Widths
  <2> HIDE DEF w1
  <2>3. w1.free \in Int /\ w1.room \in Int /\ w1.ok \in BOOLEAN
    BY <2>2 DEF Sound, Writers
  <2>4. CASE ~w1.ok
    BY <2>1, <2>2, <2>4
  <2>5. CASE w1.ok
    <3>1. w0.free >= -(BufferBits - 1)
      BY <1>1, <1>3, <1>5, Widths
    <3>2. w1.free >= -1 /\ w1.free < BufferBits
      BY <1>5, <1>7, <2>2, <2>3, <2>5, <3>1, Widths
    <3>3. /\ Sound(w1r) /\ w1r.free = w1.free /\ w1r.room = w1.room
          /\ w1r.stream = w1.stream /\ w1r.ok = w1.ok
      BY <1>4, <2>2, <2>3
    <3> HIDE DEF w1r
    <3>4. w1r.ok /\ w1r.free <= BufferBits /\ w1r.room >= 0
      BY <2>2, <2>3, <2>5, <3>2, <3>3, Widths
    <3>5. CASE w1.free >= 0
      BY <1>1, <2>1, <2>2, <2>3, <2>5, <3>2, <3>3, <3>5, Widths
    <3>6. CASE w1.free < 0
      <4>1. AppendToBitStream(w, word, n) = IF w2.ok THEN w2r ELSE w2
        BY <2>1, <2>3, <2>5, <3>6
      <4>2. /\ Sound(w2) /\ w2.room >= 0 /\ w2.stream = w.stream
            /\ w2.ok => w2.free >= w1.free + BufferBits - 2 /\ w2.free <= w1.free + BufferBits
        <5>1. w1r.free < 0 /\ w1r.free = w1.free /\ w1r.stream = w.stream
          BY <2>2, <2>3, <3>3, <3>6
        <5> QED  BY <3>3, <3>4, <5>1, FlushStep
      <4> HIDE DEF w2
      <4>3. w2.free \in Int /\ w2.room \in Int /\ w2.ok \in BOOLEAN
        BY <4>2 DEF Sound, Writers
      <4>4. CASE ~w2.ok
        BY <4>1, <4>2, <4>4
      <4>5. CASE w2.ok
        <5>1. /\ Sound(w2r) /\ w2r.free = w2.free /\ w2r.room = w2.room
              /\ w2r.stream = w2.stream
          BY <1>4, <4>2, <4>3
        <5>2. w2.free >= 0 /\ w2.free <= BufferBits
          BY <2>3, <3>2, <3>6, <4>2, <4>3, <4>5, Widths
        <5> HIDE DEF w2r
        <5> QED  BY <4>1, <4>2, <4>3, <4>5, <5>1, <5>2, Widths
      <4> QED  BY <4>3, <4>4, <4>5
    <3> QED  BY <2>3, <3>5, <3>6
  <2> QED  BY <2>3, <2>4, <2>5
<1> QED  BY <1>5, <1>6, <1>7

-----------------------------------------------------------------------------
(* The end of a scan.                                                      *)

\* What is left of a few whole bytes and some bits.
LEMMA BitsBehindBytes ==
  ASSUME NEW bytes \in {3, 4}, NEW j \in 0..(ByteBits - 1)
  PROVE  (bytes * ByteBits + j) % ByteBits = j
<1>1. ByteBits \in Nat /\ ByteBits >= 3 /\ j \in Nat
  BY Widths
<1> DEFINE sum == bytes * ByteBits + j
           q == sum \div ByteBits
           r == sum % ByteBits
<1>2. sum \in Nat
  BY <1>1
<1>3. q \in Int /\ r \in 0..(ByteBits - 1) /\ sum = ByteBits * q + r
  <2> HIDE DEF sum
  <2> QED  BY <1>1, <1>2
<1> HIDE DEF q, r
<1>4. CASE q >= bytes + 1
  <2>1. ByteBits * q >= ByteBits * (bytes + 1)
    BY <1>1, <1>3, <1>4
  <2> QED  BY <1>1, <1>3, <2>1
<1>5. CASE q <= bytes - 1
  <2>1. ByteBits * q <= ByteBits * (bytes - 1)
    BY <1>1, <1>3, <1>5
  <2> QED  BY <1>1, <1>3, <2>1
<1>6. q = bytes \/ q >= bytes + 1 \/ q <= bytes - 1
  BY <1>3
<1>7. q = bytes => r = j
  BY <1>1, <1>3
<1> QED  BY <1>4, <1>5, <1>6, <1>7 DEF r

\* The fill of EndScan makes what is in the buffer a whole number of bytes: none,
\* or one, which has a bit less behind a 0xFF.
LEMMA FillOfLastByte ==
  ASSUME NEW free \in Int, NEW ff, ff \in BOOLEAN,
         free >= BufferBits - 2, free < BufferBits + ByteBits, ff => free <= BufferBits
  PROVE  LET fill == (IF ff THEN free - 1 ELSE free) % ByteBits
         IN  /\ fill \in 0..(ByteBits - 1)
             /\ ff => free - fill = BufferBits - ByteBits + 1
             /\ ~ff => \/ free - fill = BufferBits
                       \/ free - fill = BufferBits - ByteBits
<1>1. CASE ff
  <2> DEFINE j == free - 1 - 3 * ByteBits
  <2>1. j \in 0..(ByteBits - 1) /\ free - 1 = 3 * ByteBits + j
    BY <1>1, Widths
  <2>2. (free - 1) % ByteBits = j
    <3> HIDE DEF j
    <3> QED  BY <2>1, BitsBehindBytes
  <2> QED  BY <1>1, <2>1, <2>2, Widths
<1>2. CASE ~ff /\ free >= BufferBits
  <2> DEFINE j == free - 4 * ByteBits
  <2>1. j \in 0..(ByteBits - 1) /\ free = 4 * ByteBits + j
    BY <1>2, Widths
  <2>2. free % ByteBits = j
    <3> HIDE DEF j
    <3> QED  BY <2>1, BitsBehindBytes
  <2> QED  BY <1>2, <2>1, <2>2, Widths
<1>3. CASE ~ff /\ free < BufferBits
  <2> DEFINE j == free - 3 * ByteBits
  <2>1. j \in 0..(ByteBits - 1) /\ free = 3 * ByteBits + j
    BY <1>3, Widths
  <2>2. free % ByteBits = j
    <3> HIDE DEF j
    <3> QED  BY <2>1, BitsBehindBytes
  <2> QED  BY <1>3, <2>1, <2>2, Widths
<1> QED  BY <1>1, <1>2, <1>3, Widths

\* EndScan fills the last byte with 0 bits, for which there is room.
LEMMA LastByteFilled ==
  ASSUME NEW w, Sound(w), w.ok, w.room >= 0, w.free \in 0..BufferBits, Flush(w).ok
  PROVE  LET w1 == Flush(w)
             fill == (IF w1.ff THEN w1.free - 1 ELSE w1.free) % ByteBits
             w2 == AppendToBitStream(w1, {}, fill)
         IN  /\ fill \in 0..(ByteBits - 1)
             /\ w1.ff => w1.free - fill = BufferBits - ByteBits + 1
             /\ ~w1.ff => \/ w1.free - fill = BufferBits
                          \/ w1.free - fill = BufferBits - ByteBits
             /\ Sound(w2) /\ w2.free = w1.free - fill /\ w2.ff = w1.ff
             /\ w2.room = w1.room /\ w2.stream = w1.stream /\ w2.ok = w1.ok
             /\ w2.buffer = w1.buffer /\ w2.out = w1.out
<1> DEFINE w1 == Flush(w)
           fill == (IF w1.ff THEN w1.free - 1 ELSE w1.free) % ByteBits
           w2 == AppendToBitStream(w1, {}, fill)
<1>1. /\ Sound(w1) /\ w1.free >= BufferBits - 2 /\ w1.free < BufferBits + ByteBits
      /\ w1.ff => w1.free <= BufferBits
  BY FlushStep, Widths
<1>2. w1.free \in Int /\ w1.ff \in BOOLEAN /\ w1 \in Writers
  BY <1>1 DEF Sound, Writers
<1>3. /\ fill \in 0..(ByteBits - 1)
      /\ w1.ff => w1.free - fill = BufferBits - ByteBits + 1
      /\ ~w1.ff => \/ w1.free - fill = BufferBits
                   \/ w1.free - fill = BufferBits - ByteBits
  <2> HIDE DEF w1
  <2> QED  BY <1>1, <1>2, FillOfLastByte
<1>4. fill = (IF w1.ff THEN w1.free - 1 ELSE w1.free) % ByteBits
  OBVIOUS
<1> HIDE DEF fill
<1> DEFINE free == w1.free - fill
           none == {}
<1> HIDE DEF w1
<1>5. free >= 0 /\ fill \in Int /\ fill >= 0 /\ free \in Int /\ free <= w1.free
  BY <1>2, <1>3, Widths
<1>6. w2 = AddBits(w1, {}, fill)
  <2>1. AddBits(w1, {}, fill).free = w1.free - fill
    BY <1>2 DEF AddBits, Writers
  <2> QED  BY <1>5, <2>1 DEF AppendToBitStream
<1>7. none \in Buffers /\ \A p \in none : p >= free
  BY DEF Buffers
<1>8. w2 = [w1 EXCEPT !.free = free, !.buffer = w1.buffer \cup none]
  <2>1. ShiftLeft({}, w1.free - fill, BufferBits) = {}
    BY DEF ShiftLeft
  <2>2. w1.free >= fill
    BY <1>2, <1>5
  <2> QED  BY <1>6, <2>1, <2>2 DEF AddBits
<1>9. free = w1.free - fill /\ none = {} /\ w2 = AppendToBitStream(w1, {}, fill)
  OBVIOUS
<1> HIDE DEF w2, free, none
<1>10. Sound(w2)
  BY <1>1, <1>5, <1>7, <1>8, FilledBuffer
<1>11. /\ w2.free = free /\ w2.ff = w1.ff /\ w2.room = w1.room /\ w2.stream = w1.stream
       /\ w2.ok = w1.ok /\ w2.buffer = w1.buffer /\ w2.out = w1.out
  BY <1>2, <1>8, <1>9 DEF Writers
<1> QED  BY <1>3, <1>4, <1>9, <1>10, <1>11 DEF w1

\* EndScan: all bits are put, the last byte is no 0xFF, and a stream has it all.
LEMMA EndScanStep ==
  ASSUME NEW w, Sound(w), w.ok, w.room >= 0, w.free \in 0..BufferBits
  PROVE  LET v == EndScanOfWriter(w)
         IN  /\ Sound(v) /\ v.room >= 0 /\ v.stream = w.stream
             /\ v.ok => /\ v.free = BufferBits /\ ~v.ff
                        /\ v.stream => v.sunk = Len(v.out)
<1> DEFINE w1 == Flush(w)
           fill == (IF w1.ff THEN w1.free - 1 ELSE w1.free) % ByteBits
           w2 == AppendToBitStream(w1, {}, fill)
           w3 == Flush(w2)
           v == EndScanOfWriter(w)
<1>1. /\ Sound(w1) /\ w1.room >= 0 /\ w1.stream = w.stream
      /\ w1.ok => /\ w1.free >= BufferBits - 2 /\ w1.free < BufferBits + ByteBits
                  /\ w1.ff => w1.free <= BufferBits
  BY FlushStep, Widths
<1>2. /\ w1.free \in Int /\ w1.ff \in BOOLEAN /\ w1.ok \in BOOLEAN /\ w1.room \in Int
      /\ w1.stream \in BOOLEAN
  BY <1>1 DEF Sound, Writers
<1>3. CASE ~w1.ok
  <2>1. v = w1
    BY <1>3 DEF EndScanOfWriter
  <2> HIDE DEF w1, v
  <2> QED  BY <1>1, <1>2, <1>3, <2>1 DEF v
<1>4. CASE w1.ok
  <2>1. v = IF w2.ok THEN (IF w3.ok /\ w3.stream THEN OverFlow(w3) ELSE w3) ELSE w2
    BY <1>4 DEF EndScanOfWriter
  <2> DEFINE free == w1.free - fill
  <2>2. /\ fill \in 0..(ByteBits - 1)
        /\ w1.ff => free = BufferBits - ByteBits + 1
        /\ ~w1.ff => free = BufferBits \/ free = BufferBits - ByteBits
        /\ Sound(w2) /\ w2.free = free /\ w2.ff = w1.ff
        /\ w2.room = w1.room /\ w2.stream = w1.stream /\ w2.ok = w1.ok
        /\ w2.buffer = w1.buffer
    BY <1>4, LastByteFilled
  <2> HIDE DEF w1, fill, w2
  <2>7. free = w1.free - fill /\ free \in Int
    BY <1>2, <2>2
  <2> HIDE DEF free
  <2>8. Sound(w2)
    BY <2>2
  <2>9. w2.free = free /\ w2.ff = w1.ff /\ w2.room = w1.room /\ w2.stream = w1.stream
    BY <2>2
  <2>10. w2.ok = w1.ok /\ w2.buffer = w1.buffer
    BY <2>2
  <2>11. /\ w2.ok /\ w2.room >= 0 /\ w2.free <= BufferBits /\ w2.free >= 0 /\ w2.ff \in BOOLEAN
    BY <1>1, <1>2, <1>4, <2>2, <2>7, <2>9, <2>10, Widths
  <2>12. /\ Sound(w3) /\ w3.room >= 0 /\ w3.stream = w2.stream
    BY <2>8, <2>11, FlushStep
  <2>13. w3.ok \in BOOLEAN /\ w3.stream \in BOOLEAN /\ w3.ff \in BOOLEAN /\ w3.room \in Int
    BY <2>12 DEF Sound, Writers
  <2>14. w3.ok => w3.free = BufferBits /\ ~w3.ff
    <3> SUFFICES ASSUME w3.ok PROVE w3.free = BufferBits /\ ~w3.ff
      BY <2>13
    <3>1. CASE w1.ff
      <4>1. w2.free = BufferBits - ByteBits + 1 /\ w2.ff
        BY <1>2, <2>2, <2>7, <2>9, <3>1
      <4> QED  BY <2>8, <2>11, <4>1, FlushStep
    <3>2. CASE ~w1.ff /\ free = BufferBits
      <4>1. w2.free = BufferBits /\ ~w2.ff
        BY <2>9, <3>2
      <4> QED  BY <2>8, <2>11, <4>1, FlushStep
    <3>3. CASE ~w1.ff /\ free = BufferBits - ByteBits
      <4>1. w2.free = BufferBits - ByteBits /\ ~w2.ff
        BY <2>9, <3>3
      <4>2. /\ w3.free = BufferBits
            /\ w3.ff => \A b \in 0..(ByteBits - 1) : b + BufferBits - ByteBits \in w2.buffer
        BY <2>8, <2>11, <4>1, FlushStep
      <4>3. ASSUME w3.ff PROVE FALSE
        <5>1. BufferBits - ByteBits \in w1.buffer
          BY <2>10, <4>2, <4>3, Widths
        <5>2. BufferBits - ByteBits >= w1.free
          BY <1>1, <5>1 DEF Sound
        <5> QED  BY <1>1, <1>2, <1>4, <5>2, Widths
      <4> QED  BY <4>2, <4>3
    <3> QED  BY <1>2, <2>2, <2>7, <3>1, <3>2, <3>3
  <2> HIDE DEF w3, v
  <2>15. CASE w3.ok /\ w3.stream
    <3>1. v = OverFlow(w3)
      BY <2>1, <2>11, <2>15
    <3>2. Sound(v)
      BY <2>12, <2>15, <3>1, OverFlowStep
    <3>3. v.free = w3.free /\ v.ff = w3.ff /\ v.stream = w3.stream
      BY <2>12, <2>15, <3>1, OverFlowStep
    <3>4. v.ok => v.room >= 4 /\ v.sunk = Len(v.out)
      BY <2>12, <2>15, <3>1, OverFlowStep
    <3>5. ~v.ok => v.room = w3.room
      BY <2>12, <2>15, <3>1, OverFlowStep
    <3>6. v.ok \in BOOLEAN /\ v.room \in Int
      BY <3>2 DEF Sound, Writers
    <3> QED
      BY <1>1, <2>9, <2>12, <2>13, <2>14, <2>15, <3>2, <3>3, <3>4, <3>5, <3>6 DEF v
  <2>16. CASE ~(w3.ok /\ w3.stream)
    <3>1. v = w3
      BY <2>1, <2>11, <2>16
    <3> QED  BY <1>1, <2>9, <2>12, <2>13, <2>14, <2>16, <3>1 DEF v
  <2> QED  BY <2>15, <2>16
<1> QED  BY <1>2, <1>3, <1>4

-----------------------------------------------------------------------------
(* The scan.                                                               *)

\* The inductive invariant: sound between any two calls, with no bits in debt
\* while writing, and finished off once the scan is read.
WriterInv ==
  /\ Sound(writer) /\ writer.room >= 0
  /\ phase \in {"writing", "full", "reading", "closed"}
  /\ phase = "writing" => writer.ok /\ writer.free \in 0..BufferBits
  /\ phase \in {"reading", "closed"} =>
       /\ writer.free = BufferBits /\ ~writer.ff
       /\ writer.stream => writer.sunk = Len(writer.out)

\* A writer that has just been made has nothing to put.
LEMMA InitialWriter ==
  ASSUME NEW stream \in BOOLEAN, NEW capacity \in Nat
  PROVE  LET w == InitWriter(stream, capacity)
         IN  Sound(w) /\ w.ok /\ w.room >= 0 /\ w.free = BufferBits
<1> DEFINE room == IF stream THEN StreamBuffer ELSE capacity
           out == <<>>
           none == {}
           no == FALSE
           yes == TRUE
           zero == 0
           w == InitWriter(stream, capacity)
<1>1. /\ room \in Int /\ room >= 0 /\ none \in Buffers /\ no \in BOOLEAN /\ yes \in BOOLEAN
      /\ out \in Seq(Octets) /\ zero \in Nat /\ BufferBits \in Int /\ yes
  BY StreamBufferAssumption, Widths DEF Buffers
<1>2. Len(out) = 0 /\ zero = 0 /\ ~no /\ \A p \in none : FALSE
  OBVIOUS
<1>3. w = [buffer |-> none, free |-> BufferBits, ff |-> no, room |-> room, out |-> out,
           sunk |-> zero, stream |-> stream, ok |-> yes]
  BY DEF InitWriter
<1> HIDE DEF room, out, none, no, yes, zero, w
<1>4. /\ w \in Writers /\ w.buffer = none /\ w.free = BufferBits /\ w.ff = no /\ w.room = room
      /\ w.out = out /\ w.sunk = zero /\ w.ok = yes
  BY <1>1, <1>3 DEF Writers
<1>5. Sound(w)
  <2>1. w.ff = EndsInFF(w.out)
    BY <1>1, <1>2, <1>4 DEF EndsInFF
  <2>2. Stuffed(w.out)
    BY <1>1, <1>2, <1>4 DEF Stuffed
  <2>3. (\A p \in w.buffer : p >= w.free) /\ w.sunk <= Len(w.out)
    BY <1>1, <1>2, <1>4
  <2> QED  BY <1>4, <2>1, <2>2, <2>3 DEF Sound
<1> QED  BY <1>1, <1>4, <1>5 DEF w

\* A codeword as a word has as many bits as it is long.
LEMMA CodeAsWord ==
  ASSUME NEW bits, Len(bits) \in 1..(BufferBits - 1)
  PROVE  IsCode(WordOf(bits), Len(bits))
BY Widths DEF IsCode, WordOf

\* A run of 0 bits and the 1 that ends it, or the first of the 0 bits only.
LEMMA RunAsWord ==
  ASSUME NEW n \in 0..(BufferBits - 1)
  PROVE  IsCode({}, n) /\ (n > 0 => IsCode({0}, n))
BY Widths DEF IsCode

\* Writing goes on with what WriteValue or WriteUnary returned.
LEMMA WriterIsStep ==
  ASSUME NEW w, NEW code, WriterIs(w, code), phase = "writing", Sound(w), w.room >= 0,
         w.ok => w.free \in 0..BufferBits
  PROVE  WriterInv'
BY DEF WriterIs, WriterInv

\* The invariant holds of a writer that has just been made.
LEMMA InitWriterInv == Init => WriterInv
<1> SUFFICES ASSUME Init PROVE WriterInv
  OBVIOUS
<1>1. /\ Sound(writer) /\ writer.ok /\ writer.room >= 0 /\ writer.free = BufferBits
      /\ phase = "writing"
  <2>1. PICK stream \in BOOLEAN, capacity \in Nat : writer = InitWriter(stream, capacity)
    BY CapacitiesAssumption DEF Init
  <2> QED  BY <2>1, InitialWriter DEF Init
<1> QED  BY <1>1, Widths DEF WriterInv

\* WriteValue: one codeword.
LEMMA WriteValueStep ==
  ASSUME WriterInv, NEW bits \in Values, WriteValue(bits)
  PROVE  WriterInv'
<1> DEFINE w == AppendToBitStream(writer, WordOf(bits), Len(bits))
<1>1. IsCode(WordOf(bits), Len(bits))
  BY ValuesAssumption, CodeAsWord
<1>2. /\ phase = "writing" /\ Sound(writer) /\ writer.ok /\ writer.room >= 0
      /\ writer.free \in 0..BufferBits
  BY DEF WriteValue, WriterInv
<1>3. Sound(w) /\ w.room >= 0 /\ (w.ok => w.free \in 0..BufferBits)
  BY <1>1, <1>2, AppendStep
<1>4. WriterIs(w, [unary |-> FALSE, bits |-> bits])
  BY DEF WriteValue
<1> HIDE DEF w
<1> QED  BY <1>2, <1>3, <1>4, WriterIsStep

\* WriteUnary: a run in one call, or in two.
LEMMA WriteUnaryStep ==
  ASSUME WriterInv, NEW zeros \in ZeroRuns, WriteUnary(zeros)
  PROVE  WriterInv'
<1> DEFINE w == AppendUnary(writer, zeros)
<1>1. /\ phase = "writing" /\ Sound(writer) /\ writer.ok /\ writer.room >= 0
      /\ writer.free \in 0..BufferBits
  BY DEF WriteUnary, WriterInv
<1>2. zeros \in Nat /\ zeros - zeros \div 2 + 1 <= BufferBits - 1
  BY ZeroRunsAssumption
<1>3. Sound(w) /\ w.room >= 0 /\ (w.ok => w.free \in 0..BufferBits)
  <2>1. CASE zeros + 1 <= BufferBits - 1
    <3>1. IsCode({0}, zeros + 1)
      BY <1>2, <2>1, RunAsWord, Widths
    <3>2. w = AppendToBitStream(writer, {0}, zeros + 1)
      BY <2>1 DEF AppendUnary
    <3> HIDE DEF w
    <3> QED  BY <1>1, <3>1, <3>2, AppendStep
  <2>2. CASE ~(zeros + 1 <= BufferBits - 1)
    <3> DEFINE half == zeros \div 2
               rest == zeros - zeros \div 2 + 1
               v == AppendToBitStream(writer, {}, half)
    <3>1. half \in 0..(BufferBits - 1) /\ rest \in 0..(BufferBits - 1) /\ rest > 0
      BY <1>2, Widths
    <3>2. w = IF v.ok THEN AppendToBitStream(v, {0}, rest) ELSE v
      BY <2>2 DEF AppendUnary
    <3> HIDE DEF half, rest, w
    <3>3. IsCode({}, half) /\ IsCode({0}, rest)
      BY <3>1, RunAsWord
    <3>4. Sound(v) /\ v.room >= 0 /\ (v.ok => v.free \in 0..BufferBits)
      BY <1>1, <3>3, AppendStep
    <3> HIDE DEF v
    <3>5. CASE v.ok
      BY <3>2, <3>3, <3>4, <3>5, AppendStep
    <3>6. CASE ~v.ok
      BY <3>2, <3>4, <3>6
    <3> QED  BY <3>5, <3>6
  <2> QED  BY <2>1, <2>2
<1>4. WriterIs(w, [unary |-> TRUE, bits |-> UnaryCode(zeros)])
  BY DEF WriteUnary
<1> HIDE DEF w
<1> QED  BY <1>1, <1>3, <1>4, WriterIsStep

\* FinishWriting: the scan ends, or the destination is full.
LEMMA FinishWritingStep ==
  ASSUME WriterInv, FinishWriting
  PROVE  WriterInv'
<1> DEFINE w == EndScanOfWriter(writer)
<1>1. /\ phase = "writing" /\ Sound(writer) /\ writer.ok /\ writer.room >= 0
      /\ writer.free \in 0..BufferBits
  BY DEF FinishWriting, WriterInv
<1>2. /\ Sound(w) /\ w.room >= 0
      /\ w.ok => /\ w.free = BufferBits /\ ~w.ff
                 /\ w.stream => w.sunk = Len(w.out)
  BY <1>1, EndScanStep
<1>3. writer' = w /\ phase' = (IF w.ok THEN "reading" ELSE "full")
  BY DEF FinishWriting
<1> HIDE DEF w
<1> QED  BY <1>2, <1>3 DEF WriterInv

\* Every step preserves it: what reads the scan leaves the writer alone.
LEMMA NextWriterInv == WriterInv /\ [Next]_vars => WriterInv'
<1> SUFFICES ASSUME WriterInv, [Next]_vars PROVE WriterInv'
  OBVIOUS
<1>1. ASSUME NEW v \in Values, WriteValue(v) PROVE WriterInv'
  BY <1>1, WriteValueStep
<1>2. ASSUME NEW z \in ZeroRuns, WriteUnary(z) PROVE WriterInv'
  BY <1>2, WriteUnaryStep
<1>3. CASE FinishWriting
  BY <1>3, FinishWritingStep
<1>4. CASE DecodeValue \/ DecodeBit \/ DecodeShortCode \/ DecodeUnary
  <2>1. UNCHANGED <<writer, phase>>
    BY <1>4 DEF DecodeValue, DecodeBit, DecodeShortCode, DecodeUnary, ReaderTakes
  <2> QED  BY <2>1 DEF WriterInv
<1>5. CASE FinishReading
  <2>1. /\ writer' = writer /\ phase = "reading" /\ phase' \in {"reading", "closed"}
    BY <1>5 DEF FinishReading
  <2> QED  BY <2>1 DEF WriterInv
<1>6. CASE Done \/ UNCHANGED vars
  <2>1. UNCHANGED <<writer, phase>>
    BY <1>6 DEF Done, vars
  <2> QED  BY <2>1 DEF WriterInv
<1> QED  BY <1>1, <1>2, <1>3, <1>4, <1>5, <1>6 DEF Next

\* The writer is sound whenever it is called, and once the scan has ended its
\* buffer is empty, its last byte is no 0xFF and a stream has all of it.
THEOREM WriterInvariant == Spec => []WriterInv
BY InitWriterInv, NextWriterInv, PTL DEF Spec

\* The assertions of AppendToBitStream and EndScan hold: two flushes are enough
\* for any codeword, a scan ends on a whole byte, and no byte is put behind the
\* destination, however the codewords fall on the buffer and the stuffed bits.
THEOREM WriterAssertions == Spec => []WriterAssertsHold
<1>1. WriterInv => WriterAssertsHold
  BY DEF WriterInv, WriterAssertsHold
<1> QED  BY <1>1, WriterInvariant, PTL

\* There is no marker in a scan, nor does it end in the first byte of one.
THEOREM ScansHoldNoMarker == Spec => []NoMarkerInScan
<1>1. WriterInv => NoMarkerInScan
  <2> SUFFICES ASSUME WriterInv, NEW i \in 1..Len(writer.out), writer.out[i] = FF
               PROVE  IF i < Len(writer.out) THEN ~IsMarkerCode(writer.out[i + 1])
                      ELSE phase \in {"writing", "full"}
    BY DEF NoMarkerInScan
  <2>1. /\ Stuffed(writer.out) /\ writer.ff = EndsInFF(writer.out)
        /\ writer.out \in Seq(Octets) /\ Len(writer.out) \in Nat
    BY DEF WriterInv, Sound, Writers
  <2>2. CASE i < Len(writer.out)
    BY <2>1, <2>2 DEF Stuffed
  <2>3. CASE ~(i < Len(writer.out))
    <3>1. i = Len(writer.out)
      BY <2>1, <2>3
    <3>2. EndsInFF(writer.out)
      BY <2>1, <3>1 DEF EndsInFF
    <3> QED  BY <2>1, <2>3, <3>2 DEF WriterInv
  <2> QED  BY <2>2, <2>3
<1> QED  BY <1>1, WriterInvariant, PTL

\* A scan written to a stream has reached the stream when EndScan returns.
THEOREM StreamsAreComplete == Spec => []StreamIsComplete
<1>1. WriterInv => StreamIsComplete
  BY DEF WriterInv, StreamIsComplete
<1> QED  BY <1>1, WriterInvariant, PTL

-----------------------------------------------------------------------------
(* The bits of a scan.                                                     *)

Bits == {0, 1}

\* How many bits of the scan are in the q-th of some bytes.
ByteWidth(bytes, q) == IF q > 1 /\ bytes[q - 1] = FF THEN ByteBits - 1 ELSE ByteBits

\* What ScanBits joins.
ScanPieces(bytes, p) ==
  [i \in 1..(Len(bytes) - p + 1) |-> BitsOf(bytes[p + i - 1], ByteWidth(bytes, p + i - 1))]

\* The bits of a word, by their place.
LEMMA BitsOfWord ==
  ASSUME NEW word, NEW n \in Nat
  PROVE  /\ BitsOf(word, n) \in Seq(Bits) /\ Len(BitsOf(word, n)) = n
         /\ \A i \in 1..n : BitsOf(word, n)[i] = IF (n - i) \in word THEN 1 ELSE 0
BY DEF BitsOf, Bits

\* ScanBits joins sequences of bits.
LEMMA ScanPiecesJoined ==
  ASSUME NEW bytes \in Seq(Octets), NEW p \in 1..(Len(bytes) + 1)
  PROVE  /\ ScanPieces(bytes, p) \in Seq(Seq(Bits))
         /\ Len(ScanPieces(bytes, p)) = Len(bytes) - p + 1
         /\ ScanBits(bytes, p) = FlattenSeq(ScanPieces(bytes, p))
         /\ ScanBits(bytes, p) \in Seq(Bits)
<1> DEFINE n == Len(bytes) - p + 1
<1>1. n \in Nat
  OBVIOUS
<1>2. ASSUME NEW q PROVE BitsOf(bytes[q], ByteWidth(bytes, q)) \in Seq(Bits)
  <2>1. ByteWidth(bytes, q) \in Nat
    BY Widths DEF ByteWidth
  <2> QED  BY <2>1, BitsOfWord
<1>3. ScanPieces(bytes, p) = [i \in 1..n |-> BitsOf(bytes[p + i - 1], ByteWidth(bytes, p + i - 1))]
  BY DEF ScanPieces
<1> HIDE DEF n
<1>4. ScanPieces(bytes, p) \in Seq(Seq(Bits)) /\ Len(ScanPieces(bytes, p)) = n
  BY <1>1, <1>2, <1>3
<1>5. ScanBits(bytes, p) = FlattenSeq(ScanPieces(bytes, p))
  BY DEF ScanBits, ScanPieces, ByteWidth
<1>6. <<>> \in Seq(Bits)
  OBVIOUS
<1>7. FlattenSeq(ScanPieces(bytes, p)) \in Seq(Bits)
  BY <1>4, <1>6, FlattenAppend
<1> QED  BY <1>4, <1>5, <1>7 DEF n

\* The first byte of the rest of a scan comes first.
LEMMA ScanFirst ==
  ASSUME NEW bytes \in Seq(Octets), NEW p \in 1..Len(bytes)
  PROVE  ScanBits(bytes, p) = BitsOf(bytes[p], ByteWidth(bytes, p)) \o ScanBits(bytes, p + 1)
<1> DEFINE s == ScanPieces(bytes, p)
           t == ScanPieces(bytes, p + 1)
<1>1. /\ p \in 1..(Len(bytes) + 1) /\ p + 1 \in 1..(Len(bytes) + 1)
      /\ Len(bytes) - p + 1 \in Nat \ {0} /\ Len(bytes) - (p + 1) + 1 = Len(bytes) - p
  OBVIOUS
<1>2. /\ s \in Seq(Seq(Bits)) /\ t \in Seq(Seq(Bits))
      /\ Len(s) = Len(bytes) - p + 1 /\ Len(t) = Len(bytes) - p
      /\ ScanBits(bytes, p) = FlattenSeq(s) /\ ScanBits(bytes, p + 1) = FlattenSeq(t)
  BY <1>1, ScanPiecesJoined
<1>3. s # <<>>
  BY <1>1, <1>2
<1>4. Head(s) = BitsOf(bytes[p], ByteWidth(bytes, p))
  <2>1. Head(s) = s[1] /\ 1 \in 1..(Len(bytes) - p + 1) /\ p + 1 - 1 = p
    BY <1>1
  <2> QED  BY <2>1 DEF ScanPieces
<1>5. Tail(s) = t
  <2>1. ASSUME NEW i \in 1..(Len(bytes) - p) PROVE s[i + 1] = t[i]
    <3>1. /\ i + 1 \in 1..(Len(bytes) - p + 1) /\ i \in 1..(Len(bytes) - (p + 1) + 1)
          /\ p + (i + 1) - 1 = (p + 1) + i - 1
      OBVIOUS
    <3> QED  BY <3>1 DEF ScanPieces
  <2> DEFINE u == Tail(s)
  <2> HIDE DEF s, t
  <2>2. /\ u \in Seq(Seq(Bits)) /\ Len(u) = Len(s) - 1
        /\ \A i \in 1..Len(u) : u[i] = s[i + 1]
    BY <1>2, <1>3, HeadTailProperties
  <2> HIDE DEF u
  <2>3. Len(u) = Len(t) /\ Len(u) = Len(bytes) - p
    BY <1>1, <1>2, <2>2
  <2>4. \A i \in 1..Len(u) : u[i] = t[i]
    BY <2>1, <2>2, <2>3
  <2> QED  BY <1>2, <2>2, <2>3, <2>4, SeqEqual DEF u
<1>6. FlattenSeq(s) = Head(s) \o FlattenSeq(Tail(s))
  BY <1>2, <1>3, FlattenFirst
<1> QED  BY <1>2, <1>4, <1>5, <1>6

\* Behind the last byte there are no bits.
LEMMA ScanEnd ==
  ASSUME NEW bytes \in Seq(Octets)
  PROVE  ScanBits(bytes, Len(bytes) + 1) = <<>>
<1>1. Len(bytes) + 1 \in 1..(Len(bytes) + 1)
  OBVIOUS
<1>2. /\ ScanPieces(bytes, Len(bytes) + 1) \in Seq(Seq(Bits))
      /\ Len(ScanPieces(bytes, Len(bytes) + 1)) = 0
      /\ ScanBits(bytes, Len(bytes) + 1) = FlattenSeq(ScanPieces(bytes, Len(bytes) + 1))
  BY <1>1, ScanPiecesJoined
<1> QED  BY <1>2 DEF FlattenSeq

\* A byte more comes behind those before it, one bit short behind a 0xFF.
LEMMA ScanLast ==
  ASSUME NEW out \in Seq(Octets), NEW byte \in Octets
  PROVE  ScanBits(Append(out, byte), 1)
           = ScanBits(out, 1) \o BitsOf(byte, IF EndsInFF(out) THEN ByteBits - 1 ELSE ByteBits)
<1> DEFINE o == Append(out, byte)
           s == ScanPieces(out, 1)
           t == ScanPieces(o, 1)
           c == BitsOf(byte, IF EndsInFF(out) THEN ByteBits - 1 ELSE ByteBits)
<1>1. /\ o \in Seq(Octets) /\ Len(o) = Len(out) + 1 /\ Len(out) \in Nat
      /\ \A i \in 1..Len(out) : o[i] = out[i]
      /\ o[Len(out) + 1] = byte
  OBVIOUS
<1> HIDE DEF o
<1>2. 1 \in 1..(Len(out) + 1) /\ 1 \in 1..(Len(o) + 1)
  BY <1>1
<1>3. /\ s \in Seq(Seq(Bits)) /\ t \in Seq(Seq(Bits))
      /\ Len(s) = Len(out) /\ Len(t) = Len(out) + 1
      /\ ScanBits(out, 1) = FlattenSeq(s) /\ ScanBits(o, 1) = FlattenSeq(t)
  BY <1>1, <1>2, ScanPiecesJoined
<1>4. c \in Seq(Bits)
  BY Widths, BitsOfWord
<1>5. ByteWidth(o, Len(out) + 1) = IF EndsInFF(out) THEN ByteBits - 1 ELSE ByteBits
  BY <1>1 DEF ByteWidth, EndsInFF
<1>6. t = Append(s, c)
  <2>1. ASSUME NEW i \in 1..Len(out) PROVE t[i] = s[i]
    <3>1. /\ i \in 1..(Len(out) - 1 + 1) /\ i \in 1..(Len(o) - 1 + 1) /\ 1 + i - 1 = i
          /\ o[i] = out[i] /\ (i > 1 => o[i - 1] = out[i - 1])
      BY <1>1
    <3>2. ByteWidth(o, i) = ByteWidth(out, i)
      BY <3>1 DEF ByteWidth
    <3> QED  BY <3>1, <3>2 DEF ScanPieces
  <2>2. t[Len(out) + 1] = c
    <3>1. /\ Len(out) + 1 \in 1..(Len(o) - 1 + 1)
          /\ 1 + (Len(out) + 1) - 1 = Len(out) + 1
      BY <1>1
    <3> QED  BY <1>1, <1>5, <3>1 DEF ScanPieces
  <2> DEFINE u == Append(s, c)
  <2>3. /\ u \in Seq(Seq(Bits)) /\ Len(u) = Len(out) + 1 /\ u[Len(out) + 1] = c
        /\ \A i \in 1..Len(out) : u[i] = s[i]
    BY <1>3, <1>4, AppendProperties
  <2> HIDE DEF u, t, s, c
  <2>4. \A i \in 1..Len(t) : t[i] = u[i]
    <3>1. ASSUME NEW i \in 1..(Len(out) + 1) PROVE t[i] = u[i]
      <4>1. CASE i \in 1..Len(out)
        BY <2>1, <2>3, <4>1
      <4>2. CASE i = Len(out) + 1
        BY <2>2, <2>3, <4>2
      <4> QED  BY <1>1, <4>1, <4>2
    <3> QED  BY <1>3, <3>1
  <2> QED  BY <1>1, <1>3, <2>3, <2>4, SeqEqual DEF u
<1>7. FlattenSeq(Append(s, c)) = FlattenSeq(s) \o c
  BY <1>3, <1>4, FlattenAppend
<1> QED  BY <1>3, <1>6, <1>7 DEF o

-----------------------------------------------------------------------------
(* The bits ahead of the reader.                                           *)

\* What EndScan leaves: bytes that hold no marker and do not end in a 0xFF.
Scanned(out) == out \in Seq(Octets) /\ Len(out) >= 1 /\ Stuffed(out) /\ ~EndsInFF(out)

\* The reader is given the scan and what follows it.
Given(out) == out \o Marker

\* The bits of a scan that a reader has to load yet when the next byte is p.  The
\* last bit of a 0xFF is one of them until the byte behind it is loaded.
Ahead(out, p) ==
  (IF p > 1 /\ out[p - 1] = FF THEN <<1>> ELSE <<>>) \o ScanBits(out, p)

\* The parts of a concatenation, by their place.
LEMMA Joined ==
  ASSUME NEW S, NEW s \in Seq(S), NEW t \in Seq(S)
  PROVE  /\ s \o t \in Seq(S) /\ Len(s \o t) = Len(s) + Len(t)
         /\ Len(s) \in Nat /\ Len(t) \in Nat
         /\ \A i \in 1..Len(s) : (s \o t)[i] = s[i]
         /\ \A i \in 1..Len(t) : (s \o t)[Len(s) + i] = t[i]
OBVIOUS

\* The marker is the first 0xFF with a marker code behind it.
LEMMA GivenData ==
  ASSUME NEW out, Scanned(out)
  PROVE  /\ Given(out) \in Seq(Octets) /\ Len(Given(out)) = Len(out) + 2
         /\ \A i \in 1..Len(out) : Given(out)[i] = out[i]
         /\ Given(out)[Len(out) + 1] = FF
         /\ IsMarkerCode(Given(out)[Len(out) + 2])
         /\ SubSeq(Given(out), 1, Len(Given(out)) - Len(Marker)) = out
         /\ Len(out) \in Nat \ {0}
<1>1. /\ FF \in Octets /\ {ByteBits - 1} \in Octets
  BY Widths DEF FF, Octets
<1>2. /\ Marker \in Seq(Octets) /\ Len(Marker) = 2
      /\ Marker[1] = FF /\ Marker[2] = {ByteBits - 1}
  BY <1>1 DEF Marker
<1>3. out \in Seq(Octets) /\ Len(out) \in Nat \ {0}
  BY DEF Scanned
<1> DEFINE d == Given(out)
<1>4. d \in Seq(Octets) /\ Len(d) = Len(out) + 2
      /\ (\A i \in 1..Len(out) : d[i] = out[i])
      /\ d[Len(out) + 1] = FF /\ d[Len(out) + 2] = {ByteBits - 1}
  <2>1. /\ d \in Seq(Octets) /\ Len(d) = Len(out) + Len(Marker)
        /\ \A i \in 1..Len(out) : d[i] = out[i]
        /\ \A i \in 1..Len(Marker) : d[Len(out) + i] = Marker[i]
    <3>1. out \in Seq(Octets) /\ Marker \in Seq(Octets)
      BY <1>2, <1>3
    <3> QED  BY <3>1, Joined DEF Given
  <2> HIDE DEF d
  <2> QED  BY <1>2, <1>3, <2>1
<1> HIDE DEF d
<1>5. SubSeq(d, 1, Len(d) - Len(Marker)) = out
  <2>1. Len(d) - Len(Marker) = Len(out)
    BY <1>2, <1>3, <1>4
  <2>2. SubSeq(d, 1, Len(out)) \in Seq(Octets) /\ Len(SubSeq(d, 1, Len(out))) = Len(out)
        /\ \A i \in 1..Len(out) : SubSeq(d, 1, Len(out))[i] = d[i]
    <3>1. \A i \in 1..Len(out) : d[i] \in Octets
      BY <1>3, <1>4
    <3> QED  BY <1>3, <3>1, SubSeqProperties
  <2> QED  BY <1>3, <1>4, <2>1, <2>2, SeqEqual
<1> QED  BY <1>3, <1>4, <1>5 DEF d, IsMarkerCode

\* The next byte brings its bits, and as its first, behind a 0xFF, the last of that.
LEMMA AheadByte ==
  ASSUME NEW out, Scanned(out), NEW p \in 1..Len(out)
  PROVE  /\ Ahead(out, p) \in Seq(Bits)
         /\ ScanBits(out, p + 1) \in Seq(Bits)
         /\ Len(Ahead(out, p)) = ByteBits + Len(ScanBits(out, p + 1))
         /\ \A j \in 1..ByteBits :
              Ahead(out, p)[j] = 1 <=> \/ ByteBits - j \in out[p]
                                       \/ j = 1 /\ p > 1 /\ out[p - 1] = FF
         /\ \A j \in 1..Len(ScanBits(out, p + 1)) :
              Ahead(out, p)[ByteBits + j] = ScanBits(out, p + 1)[j]
<1> DEFINE R == ScanBits(out, p + 1)
           carry == p > 1 /\ out[p - 1] = FF
           c == IF carry THEN <<1>> ELSE <<>>
           w == ByteWidth(out, p)
           b == BitsOf(out[p], w)
<1>1. out \in Seq(Octets) /\ p + 1 \in 1..(Len(out) + 1)
  BY DEF Scanned
<1>2. R \in Seq(Bits) /\ ScanBits(out, p) = b \o R
  BY <1>1, ScanPiecesJoined, ScanFirst
<1>3. w \in Nat /\ (carry => w = ByteBits - 1) /\ (~carry => w = ByteBits)
  BY Widths DEF ByteWidth
<1>4. /\ b \in Seq(Bits) /\ Len(b) = w
      /\ \A i \in 1..w : b[i] = IF (w - i) \in out[p] THEN 1 ELSE 0
  <2> HIDE DEF w
  <2> QED  BY <1>3, BitsOfWord
<1>5. Ahead(out, p) = c \o (b \o R)
  BY <1>2 DEF Ahead
<1>6. /\ c \in Seq(Bits) /\ Len(c) \in Nat
      /\ carry => Len(c) = 1 /\ c[1] = 1
      /\ ~carry => Len(c) = 0
  <2>1. CASE carry
    <3>1. c = <<1>>
      BY <2>1
    <3> QED  BY <2>1, <3>1 DEF Bits
  <2>2. CASE ~carry
    <3>1. c = <<>>
      BY <2>2
    <3> QED  BY <2>2, <3>1
  <2> QED  BY <2>1, <2>2
<1> DEFINE t == b \o R
           a == c \o t
<1> HIDE DEF R, c, w, b, carry
<1>7. /\ t \in Seq(Bits) /\ Len(t) = w + Len(R) /\ Len(R) \in Nat
      /\ \A i \in 1..w : t[i] = b[i]
      /\ \A i \in 1..Len(R) : t[w + i] = R[i]
  BY <1>2, <1>4, Joined
<1> HIDE DEF t
<1>8. /\ a \in Seq(Bits) /\ Len(a) = Len(c) + Len(t)
      /\ \A i \in 1..Len(c) : a[i] = c[i]
      /\ \A i \in 1..Len(t) : a[Len(c) + i] = t[i]
  BY <1>6, <1>7, Joined
<1> HIDE DEF a
<1>9. carry \in BOOLEAN
  BY DEF carry
<1>10. Len(c) + w = ByteBits /\ Len(a) = ByteBits + Len(R)
  <2>1. Len(c) + w = ByteBits
    <3>1. CASE carry
      <4>1. w = ByteBits - 1
         BY <1>3, <3>1
      <4>2. Len(c) = 1
         BY <1>6, <3>1
      <4>3. ByteBits \in Int
         BY Widths
      <4>4. 1 + (ByteBits - 1) = ByteBits
         BY <4>3
      <4> QED BY <4>1, <4>2, <4>4
    <3>2. CASE ~carry
      BY <1>3, <1>6, <3>2, Widths
    <3> QED  BY <3>1, <3>2
  <2>2. Len(a) = Len(c) + (w + Len(R))
    BY <1>7, <1>8
  <2>3. Len(c) \in Nat /\ w \in Nat /\ Len(R) \in Nat
    BY <1>3, <1>6, <1>7
  <2> DEFINE x == Len(c)
             y == Len(R)
  <2>4. x + (w + y) = (x + w) + y
    BY <2>3
  <2> QED  BY <2>1, <2>2, <2>4
<1>11. ASSUME NEW j \in 1..ByteBits
       PROVE  a[j] = 1 <=> ByteBits - j \in out[p] \/ (j = 1 /\ carry)
  <2>1. CASE carry
    <3>1. CASE j = 1
      <4>1. 1 \in 1..Len(c) /\ c[1] = 1
        BY <1>6, <2>1
      <4>2. a[1] = 1
        BY <1>8, <4>1
      <4> QED  BY <2>1, <3>1, <4>2
    <3>2. CASE j # 1
      <4>1. /\ j - 1 \in 1..w /\ w - (j - 1) = ByteBits - j /\ j - 1 \in 1..Len(t)
            /\ Len(c) + (j - 1) = j
        <5>1. w = ByteBits - 1 /\ Len(c) = 1
          BY <1>3, <1>6, <2>1
        <5>2. Len(t) = w + Len(R) /\ Len(R) \in Nat
          BY <1>7
        <5> QED  BY <3>2, <5>1, <5>2, Widths
      <4>2. a[Len(c) + (j - 1)] = t[j - 1] /\ t[j - 1] = b[j - 1]
        BY <1>7, <1>8, <4>1
      <4>3. a[j] = b[j - 1]
        BY <4>1, <4>2
      <4> QED  BY <1>4, <3>2, <4>1, <4>3
    <3> QED  BY <3>1, <3>2
  <2>2. CASE ~carry
    <3>1. j \in 1..w /\ w - j = ByteBits - j /\ j \in 1..Len(t) /\ Len(c) + j = j
      BY <1>3, <1>6, <1>7, <2>2, Widths
    <3>2. a[Len(c) + j] = t[j] /\ t[j] = b[j]
      BY <1>7, <1>8, <3>1
    <3>3. a[j] = b[j]
      BY <3>1, <3>2
    <3> QED  BY <1>4, <2>2, <3>1, <3>3
  <2> QED  BY <1>9, <2>1, <2>2
<1>12. ASSUME NEW j \in 1..Len(R) PROVE a[ByteBits + j] = R[j]
  <2>1. w + j \in 1..Len(t) /\ Len(c) + (w + j) = ByteBits + j
    <3>1. Len(t) = w + Len(R) /\ Len(R) \in Nat /\ w \in Nat /\ Len(c) \in Nat
      BY <1>3, <1>6, <1>7
    <3> QED  BY <1>10, <3>1, Widths
  <2>2. a[Len(c) + (w + j)] = t[w + j] /\ t[w + j] = R[j]
    BY <1>7, <1>8, <2>1
  <2> QED  BY <2>1, <2>2
<1>13. a = Ahead(out, p)
  BY <1>5 DEF a, t
<1>14. /\ R \in Seq(Bits)
       /\ \A j \in 1..ByteBits :
            a[j] = 1 <=> \/ ByteBits - j \in out[p]
                         \/ j = 1 /\ p > 1 /\ out[p - 1] = FF
  BY <1>2, <1>11 DEF carry
<1> QED  BY <1>8, <1>10, <1>12, <1>13, <1>14 DEF R

\* At the marker there is nothing ahead.
LEMMA AheadEnd ==
  ASSUME NEW out, Scanned(out)
  PROVE  Ahead(out, Len(out) + 1) = <<>> /\ Len(Ahead(out, Len(out) + 1)) = 0
<1>1. out \in Seq(Octets) /\ Len(out) >= 1 /\ out[Len(out)] # FF /\ Len(out) + 1 - 1 = Len(out)
  BY DEF Scanned, EndsInFF
<1>2. ScanBits(out, Len(out) + 1) = <<>>
  BY <1>1, ScanEnd
<1> QED  BY <1>1, <1>2 DEF Ahead

\* The bits that a byte makes valid.
LoadedBits(byte) == IF byte = FF THEN ByteBits - 1 ELSE ByteBits

\* Behind the bits that a byte makes valid are those ahead of the next.
LEMMA AheadStep ==
  ASSUME NEW out, Scanned(out), NEW p \in 1..Len(out)
  PROVE  LET k == LoadedBits(out[p])
         IN  /\ Ahead(out, p + 1) \in Seq(Bits)
             /\ Len(Ahead(out, p)) = k + Len(Ahead(out, p + 1))
             /\ \A j \in 1..Len(Ahead(out, p + 1)) :
                  Ahead(out, p)[k + j] = Ahead(out, p + 1)[j]
<1> DEFINE R == ScanBits(out, p + 1)
           a == Ahead(out, p)
           n == Ahead(out, p + 1)
<1>1. /\ R \in Seq(Bits) /\ a \in Seq(Bits) /\ Len(a) = ByteBits + Len(R)
      /\ \A j \in 1..ByteBits : ByteBits - j \in out[p] => a[j] = 1
      /\ \A j \in 1..Len(R) : a[ByteBits + j] = R[j]
  <2>1. /\ R \in Seq(Bits) /\ a \in Seq(Bits) /\ Len(a) = ByteBits + Len(R)
        /\ \A j \in 1..ByteBits : a[j] = 1 <=> \/ ByteBits - j \in out[p]
                                               \/ j = 1 /\ p > 1 /\ out[p - 1] = FF
        /\ \A j \in 1..Len(R) : a[ByteBits + j] = R[j]
    BY AheadByte
  <2> HIDE DEF R, a
  <2> QED  BY <2>1
<1>2. p + 1 > 1 /\ p + 1 - 1 = p
  OBVIOUS
<1>3. CASE out[p] = FF
  <2> DEFINE c == <<1>>
  <2>1. c \in Seq(Bits) /\ Len(c) = 1 /\ c[1] = 1
    BY DEF Bits
  <2>2. n = c \o R
    BY <1>2, <1>3 DEF Ahead
  <2> HIDE DEF c, R, a, n
  <2>3. /\ n \in Seq(Bits) /\ Len(n) = 1 + Len(R) /\ Len(R) \in Nat
        /\ n[1] = 1 /\ \A i \in 1..Len(R) : n[1 + i] = R[i]
    <3>1. /\ n \in Seq(Bits) /\ Len(n) = Len(c) + Len(R) /\ Len(R) \in Nat
          /\ \A i \in 1..Len(c) : n[i] = c[i]
          /\ \A i \in 1..Len(R) : n[Len(c) + i] = R[i]
      <4>1. c \in Seq(Bits) /\ R \in Seq(Bits)
        BY <1>1, <2>1
      <4> QED  BY <2>2, <4>1, Joined
    <3> QED  BY <2>1, <3>1
  <2>4. LoadedBits(out[p]) = ByteBits - 1
    BY <1>3 DEF LoadedBits
  <2>5. Len(a) = ByteBits - 1 + Len(n)
    BY <1>1, <2>3, Widths
  <2>6. ASSUME NEW j \in 1..Len(n) PROVE a[ByteBits - 1 + j] = n[j]
    <3>1. CASE j = 1
      <4>1. ByteBits \in 1..ByteBits /\ ByteBits - ByteBits \in out[p] /\ ByteBits - 1 + j = ByteBits
        BY <1>3, <3>1, Widths DEF FF
      <4>2. a[ByteBits] = 1
        BY <1>1, <4>1
      <4>3. n[1] = 1
        BY <2>1, <2>3
      <4> QED  BY <3>1, <4>1, <4>2, <4>3
    <3>2. CASE j # 1
      <4>1. j - 1 \in 1..Len(R) /\ ByteBits + (j - 1) = ByteBits - 1 + j /\ 1 + (j - 1) = j
        BY <2>3, <3>2, Widths
      <4>2. n[j] = R[j - 1]
        BY <2>3, <4>1
      <4>3. a[ByteBits + (j - 1)] = R[j - 1]
        BY <1>1, <4>1
      <4> QED  BY <4>1, <4>2, <4>3
    <3> QED  BY <3>1, <3>2
  <2> QED  BY <2>3, <2>4, <2>5, <2>6 DEF a, n
<1>4. CASE out[p] # FF
  <2>1. n = R
    BY <1>1, <1>2, <1>4, ConcatEmptySeq DEF Ahead
  <2>2. LoadedBits(out[p]) = ByteBits
    BY <1>4 DEF LoadedBits
  <2> QED  BY <1>1, <2>1, <2>2
<1> QED  BY <1>3, <1>4

\* There are no more bits ahead than bytes have.
LEMMA AheadLength ==
  ASSUME NEW out, Scanned(out), NEW p \in 1..(Len(out) + 1)
  PROVE  Len(Ahead(out, p)) \in Nat /\ Len(Ahead(out, p)) <= ByteBits * (Len(out) + 1 - p)
<1> DEFINE n == Len(out)
           Holds(i) == LET a == Len(Ahead(out, n + 1 - i)) IN a \in Nat /\ a <= ByteBits * i
           Fails == {i \in 0..n : ~Holds(i)}
<1>1. n \in Nat
  BY DEF Scanned
<1>2. ASSUME Fails # {} PROVE FALSE
  <2>1. PICK l \in Fails : \A m \in Fails : l <= m
    <3>1. Fails \in SUBSET Nat
      OBVIOUS
    <3> HIDE DEF Fails
    <3> QED  BY <1>2, <3>1, LeastElement
  <2>2. l \in 0..n /\ ~Holds(l)
    OBVIOUS
  <2>3. \A m \in 0..n : m < l => Holds(m)
    <3>1. ASSUME NEW m \in 0..n, m < l, m \in Fails PROVE FALSE
      <4> HIDE DEF Fails
      <4> QED  BY <2>1, <2>2, <3>1
    <3> QED  BY <3>1
  <2> HIDE DEF Fails
  <2>4. CASE l = 0
    <3>1. n + 1 - l = n + 1 /\ ByteBits * l = 0
      BY <1>1, <2>4, Widths
    <3>2. Len(Ahead(out, n + 1)) = 0
      BY AheadEnd
    <3> QED  BY <2>2, <3>1, <3>2
  <2>5. CASE l # 0
    <3>1. /\ l - 1 \in 0..n /\ l - 1 < l /\ n + 1 - l \in 1..n
          /\ n + 1 - (l - 1) = (n + 1 - l) + 1
      BY <1>1, <2>2, <2>5
    <3> DEFINE q == n + 1 - l
               a == Len(Ahead(out, q))
               b == Len(Ahead(out, q + 1))
               k == LoadedBits(out[q])
    <3>2. Holds(l - 1)
      BY <2>3, <3>1
    <3>3. b \in Nat /\ b <= ByteBits * (l - 1)
      BY <3>1, <3>2
    <3>4. a = k + b
      <4> HIDE DEF n
      <4>1. q \in 1..Len(out)
        BY <3>1 DEF n
      <4> HIDE DEF q
      <4> QED  BY <4>1, AheadStep
    <3>5. k \in Nat /\ k <= ByteBits
      BY Widths DEF LoadedBits
    <3>6. ~(a \in Nat /\ a <= ByteBits * l)
      BY <2>2
    <3>7. ByteBits * (l - 1) + ByteBits = ByteBits * l /\ ByteBits * (l - 1) \in Int
          /\ ByteBits * l \in Int /\ ByteBits \in Nat
      BY <2>2, <2>5, Widths
    <3> HIDE DEF a, b, k
    <3> QED  BY <3>3, <3>4, <3>5, <3>6, <3>7
  <2> QED  BY <2>4, <2>5
<1>3. n + 1 - p \in 0..n /\ n + 1 - (n + 1 - p) = p
  BY <1>1
<1>4. Holds(n + 1 - p)
  <2> HIDE DEF Holds
  <2> QED  BY <1>2, <1>3
<1> QED  BY <1>3, <1>4

\* Without a 0xFF in them, bytes bring all of their bits.
LEMMA AheadRun ==
  ASSUME NEW out, Scanned(out), NEW p \in 1..Len(out), NEW c \in Nat, p + c <= Len(out) + 1,
         \A q \in p..(p + c - 1) : out[q] # FF
  PROVE  \A i \in 0..c :
           /\ Len(Ahead(out, p)) = ByteBits * i + Len(Ahead(out, p + i))
           /\ \A j \in 1..Len(Ahead(out, p + i)) :
                Ahead(out, p)[ByteBits * i + j] = Ahead(out, p + i)[j]
<1> DEFINE a(i) == Ahead(out, p + i)
           Holds(i) == /\ Len(a(0)) = ByteBits * i + Len(a(i))
                       /\ \A j \in 1..Len(a(i)) : a(0)[ByteBits * i + j] = a(i)[j]
           Fails == {i \in 0..c : ~Holds(i)}
<1>1. Len(out) \in Nat /\ p + 0 = p /\ p \in Nat
  BY DEF Scanned
<1>2. \A i \in 0..c : Len(a(i)) \in Nat
  <2>1. ASSUME NEW i \in 0..c PROVE Len(a(i)) \in Nat
    <3>1. p + i \in 1..(Len(out) + 1)
      BY <1>1
    <3> QED  BY <3>1, AheadLength
  <2> QED  BY <2>1
<1>3. ASSUME Fails # {} PROVE FALSE
  <2>1. PICK l \in Fails : \A m \in Fails : l <= m
    <3>1. Fails \in SUBSET Nat
      OBVIOUS
    <3> HIDE DEF Fails
    <3> QED  BY <1>3, <3>1, LeastElement
  <2>2. l \in 0..c /\ ~Holds(l)
    OBVIOUS
  <2>3. \A m \in 0..c : m < l => Holds(m)
    <3>1. ASSUME NEW m \in 0..c, m < l, m \in Fails PROVE FALSE
      <4> HIDE DEF Fails
      <4> QED  BY <2>1, <2>2, <3>1
    <3> QED  BY <3>1
  <2> HIDE DEF Fails
  <2>4. CASE l = 0
    <3>1. ByteBits * l = 0 /\ Len(a(0)) \in Nat /\ 0 \in 0..c
      BY <1>2, <2>4, Widths
    <3>2. Holds(0)
      <4> HIDE DEF a
      <4> QED  BY <2>4, <3>1
    <3> QED  BY <2>2, <2>4, <3>2
  <2>5. CASE l # 0
    <3> DEFINE k == l - 1
               q == p + k
    <3>1. /\ k \in 0..c /\ k < l /\ l = k + 1 /\ q \in 1..Len(out) /\ q \in p..(p + c - 1)
          /\ p + l = q + 1
      BY <1>1, <2>2, <2>5
    <3>2. Holds(k)
      <4> HIDE DEF Holds, k
      <4> QED  BY <2>3, <3>1
    <3>3. out[q] # FF
      BY <3>1
    <3>4. LoadedBits(out[q]) = ByteBits
      BY <3>3 DEF LoadedBits
    <3>5. /\ Len(a(k)) = ByteBits + Len(a(l))
          /\ \A j \in 1..Len(a(l)) : a(k)[ByteBits + j] = a(l)[j]
      <4>1. q \in 1..Len(out) /\ a(k) = Ahead(out, q) /\ a(l) = Ahead(out, q + 1)
        BY <3>1
      <4> HIDE DEF q, a, k
      <4> QED  BY <3>4, <4>1, AheadStep
    <3>6. /\ ByteBits * l = ByteBits * k + ByteBits /\ ByteBits * k \in Int /\ ByteBits \in Nat
          /\ Len(a(l)) \in Nat
      BY <1>2, <2>2, <3>1, Widths
    <3> HIDE DEF a, k, q
    <3>7. Len(a(0)) = ByteBits * l + Len(a(l))
      BY <3>2, <3>5, <3>6
    <3>8. ASSUME NEW j \in 1..Len(a(l)) PROVE a(0)[ByteBits * l + j] = a(l)[j]
      <4>1. ByteBits + j \in 1..Len(a(k)) /\ ByteBits * l + j = ByteBits * k + (ByteBits + j)
        BY <3>5, <3>6
      <4>2. a(0)[ByteBits * k + (ByteBits + j)] = a(k)[ByteBits + j]
        BY <3>2, <4>1
      <4> QED  BY <3>5, <4>1, <4>2
    <3> QED  BY <2>2, <3>7, <3>8
  <2> QED  BY <2>4, <2>5
<1>4. \A i \in 0..c : Holds(i)
  <2> HIDE DEF Holds
  <2> QED  BY <1>3
<1> QED  BY <1>1, <1>4

-----------------------------------------------------------------------------
(* The reader.                                                             *)

CachePlaces == 0..(CacheBits - 1)

Readers == [cache : SUBSET CachePlaces, valid : 0..CacheBits, pos : Nat, nextFF : Nat,
            stream : BOOLEAN, end : Nat, ok : BOOLEAN]

\* Where a reader of a scan can be.
InScan(r, out) ==
  /\ r \in Readers /\ r.ok
  /\ r.pos \in 1..(Len(out) + 1) /\ r.pos <= r.end
  /\ r.end <= Len(out) + 3 /\ (~r.stream => r.end = Len(out) + 3)
  /\ r.nextFF <= r.end /\ \A q \in r.pos..(r.nextFF - 1) : Given(out)[q] # FF

\* The bits still to be read are those that are valid in the cache and those ahead.
\* The cache may hold some of those ahead already, and nothing else; of a 0xFF it
\* holds the last bit.
Holds(r, out, bits) ==
  /\ bits \in Seq(Bits)
  /\ Len(bits) = r.valid + Len(Ahead(out, r.pos))
  /\ \A j \in 1..r.valid : bits[j] = 1 => CacheBits - j \in r.cache
  /\ \A j \in 1..Len(Ahead(out, r.pos)) : bits[r.valid + j] = Ahead(out, r.pos)[j]
  /\ \A x \in r.cache : CacheBits - x <= Len(bits) /\ bits[CacheBits - x] = 1
  /\ r.pos > 1 /\ out[r.pos - 1] = FF => CacheBits - 1 - r.valid \in r.cache

\* The cache has room for two bytes more than a byte.
LEMMA CacheWidth ==
  /\ CacheBits \in Nat /\ ByteBits \in Nat /\ ByteBits >= 3 /\ CacheBytes \in Nat
  /\ CacheBytes >= 3 /\ CacheBits = CacheBytes * ByteBits /\ CacheBits >= 3 * ByteBits
<1>1. ByteBits \in Nat /\ ByteBits >= 3 /\ CacheBytes \in Nat /\ CacheBytes >= 3
  BY ByteBitsAssumption, CacheAssumption
<1>2. CacheBits = CacheBytes * ByteBits
  BY DEF CacheBits
<1>3. CacheBytes * ByteBits \in Nat /\ CacheBytes * ByteBits >= 3 * ByteBits
  BY <1>1
<1> QED  BY <1>1, <1>2, <1>3

\* AddBytesFromStream changes nothing but the end of what is buffered; behind it
\* there is nothing in the stream, or plenty is left.
LEMMA RefillStep ==
  ASSUME NEW out, Scanned(out), NEW d, InScan(d, out)
  PROVE  LET v == AddBytesFromStream(d, Given(out))
         IN  /\ InScan(v, out)
             /\ v.cache = d.cache /\ v.valid = d.valid /\ v.pos = d.pos
             /\ v.end = Len(out) + 3 \/ v.end - v.pos > RefillLimit
<1> DEFINE count == d.end - d.pos
           last == d.end + ReadBuffer - count
           e == IF last > Len(out) + 3 THEN Len(out) + 3 ELSE last
           v == AddBytesFromStream(d, Given(out))
<1>1. /\ RefillLimit \in Nat /\ ReadBuffer \in Nat /\ RefillLimit < ReadBuffer
      /\ Len(Given(out)) = Len(out) + 2 /\ Len(out) \in Nat
  BY BufferAssumption, GivenData
<1>2. /\ d \in Readers /\ d.pos \in Nat /\ d.end \in Nat /\ d.nextFF \in Nat
      /\ d.pos <= d.end /\ d.end <= Len(out) + 3 /\ d.nextFF <= d.end
  BY DEF InScan, Readers
<1>3. CASE ~d.stream \/ d.end = Len(Given(out)) + 1 \/ count > RefillLimit
  <2>1. v = d
    BY <1>3 DEF AddBytesFromStream
  <2>2. d.end = Len(out) + 3 \/ d.end - d.pos > RefillLimit
    BY <1>1, <1>2, <1>3 DEF InScan
  <2> QED  BY <2>1, <2>2
<1>4. CASE ~(~d.stream \/ d.end = Len(Given(out)) + 1 \/ count > RefillLimit)
  <2>1. v = [d EXCEPT !.end = IF last > Len(Given(out)) + 1 THEN Len(Given(out)) + 1 ELSE last]
    BY <1>4 DEF AddBytesFromStream
  <2>2. Len(Given(out)) + 1 = Len(out) + 3
    BY <1>1
  <2>3. v = [d EXCEPT !.end = e]
    BY <2>1, <2>2
  <2>4. e \in Nat /\ e >= d.end /\ e <= Len(out) + 3 /\ (e = Len(out) + 3 \/ e - d.pos > RefillLimit)
    BY <1>1, <1>2, <1>4
  <2>5. d.stream
    BY <1>4
  <2> HIDE DEF e, v
  <2>6. /\ v \in Readers /\ v.end = e /\ v.cache = d.cache /\ v.valid = d.valid
        /\ v.pos = d.pos /\ v.nextFF = d.nextFF /\ v.stream = d.stream /\ v.ok = d.ok
    BY <1>2, <2>3, <2>4 DEF Readers
  <2>7. InScan(v, out)
    BY <1>2, <2>4, <2>5, <2>6 DEF InScan
  <2> QED  BY <2>4, <2>6, <2>7 DEF v
<1> QED  BY <1>3, <1>4

\* What a reader holds depends on its cache and its position only.
LEMMA HoldsBy ==
  ASSUME NEW out, NEW bits, NEW d, Holds(d, out, bits), NEW v,
         v.cache = d.cache, v.valid = d.valid, v.pos = d.pos
  PROVE  Holds(v, out, bits)
BY DEF Holds

\* A byte is loaded behind the valid bits.
LEMMA LoadByteStep ==
  ASSUME NEW out, Scanned(out), NEW d, InScan(d, out), NEW bits, Holds(d, out, bits),
         d.pos <= Len(out), d.pos < d.end, d.valid <= CacheBits - ByteBits
  PROVE  LET v == LoadByte(d, Given(out)[d.pos])
         IN  /\ InScan(v, out) /\ Holds(v, out, bits)
             /\ v.pos = d.pos + 1 /\ v.end = d.end /\ v.valid >= d.valid + (ByteBits - 1)
<1> DEFINE byte == Given(out)[d.pos]
           k == LoadedBits(byte)
           n == CacheBits - ByteBits - d.valid
           cache == d.cache \cup ShiftLeft(byte, n, CacheBits)
           pos == d.pos + 1
           valid == d.valid + k
           v == LoadByte(d, byte)
<1>1. /\ d \in Readers /\ d.pos \in 1..Len(out) /\ d.valid \in Nat /\ d.cache \subseteq CachePlaces
      /\ d.ok /\ d.end \in Nat /\ d.nextFF \in Nat
  BY DEF InScan, Readers
<1>2. byte = out[d.pos] /\ byte \in Octets /\ Len(out) \in Nat /\ out \in Seq(Octets)
  BY <1>1, GivenData DEF Scanned
<1>3. k \in {ByteBits - 1, ByteBits} /\ (byte = FF <=> k = ByteBits - 1)
  BY Widths DEF LoadedBits
<1> DEFINE a == Ahead(out, d.pos)
           b == Ahead(out, pos)
           m == Len(Ahead(out, pos))
<1>4. /\ a \in Seq(Bits) /\ Len(a) = k + m /\ m \in Nat /\ ByteBits <= Len(a)
      /\ \A j \in 1..m : a[k + j] = b[j]
      /\ \A j \in 1..ByteBits : a[j] = 1 <=> \/ ByteBits - j \in byte
                                             \/ j = 1 /\ d.pos > 1 /\ out[d.pos - 1] = FF
  <2>1. Len(Ahead(out, d.pos)) = ByteBits + Len(ScanBits(out, d.pos + 1))
        /\ ScanBits(out, d.pos + 1) \in Seq(Bits)
    BY <1>1, AheadByte
  <2>2. Len(ScanBits(out, d.pos + 1)) \in Nat
    BY <2>1
  <2>3. ByteBits <= Len(Ahead(out, d.pos))
    BY <2>1, <2>2, Widths
  <2>4. m \in Nat
    <3>1. d.pos + 1 \in 1..(Len(out) + 1)
      BY <1>1
    <3> QED  BY <3>1, AheadLength
  <2>5. /\ Len(Ahead(out, d.pos)) = k + m
        /\ \A j \in 1..m : a[k + j] = b[j]
    BY <1>1, <1>2, AheadStep
  <2>6. /\ a \in Seq(Bits)
        /\ \A j \in 1..ByteBits : a[j] = 1 <=> \/ ByteBits - j \in byte
                                               \/ j = 1 /\ d.pos > 1 /\ out[d.pos - 1] = FF
    <3>1. /\ Ahead(out, d.pos) \in Seq(Bits)
          /\ \A j \in 1..ByteBits :
               Ahead(out, d.pos)[j] = 1 <=> \/ ByteBits - j \in out[d.pos]
                                            \/ j = 1 /\ d.pos > 1 /\ out[d.pos - 1] = FF
      <4>1. d.pos \in 1..Len(out)
        BY <1>1
      <4> HIDE DEF byte
      <4> QED  BY <4>1, AheadByte
    <3> HIDE DEF byte
    <3> QED  BY <1>2, <3>1
  <2> QED  BY <2>3, <2>4, <2>5, <2>6
<1>5. v = [d EXCEPT !.cache = cache, !.pos = pos, !.valid = valid]
  BY DEF LoadByte, LoadedBits
<1>6. n \in Nat /\ \A x : x \in ShiftLeft(byte, n, CacheBits) <=> \E q \in byte : x = q + n
  <2>1. n \in Nat
    BY <1>1, CacheWidth
  <2>2. ASSUME NEW q \in byte PROVE q \in 0..(ByteBits - 1) /\ q + n < CacheBits
    <3>1. q \in 0..(ByteBits - 1)
      BY <1>2 DEF Octets, FF
    <3> QED  BY <1>1, <2>1, <3>1, CacheWidth
  <2> HIDE DEF n, byte
  <2> QED  BY <2>1, <2>2 DEF ShiftLeft
<1>7. \A q \in byte : q \in 0..(ByteBits - 1)
  BY <1>2 DEF Octets, FF
<1>8. byte = FF => 0 \in byte
  BY CacheWidth DEF FF
<1>9. cache \subseteq CachePlaces
  <2>1. ASSUME NEW q \in byte PROVE q + n \in CachePlaces
    BY <1>1, <1>7, CacheWidth DEF CachePlaces
  <2> HIDE DEF byte, n
  <2> QED  BY <1>1, <1>6, <2>1
<1>10. valid \in 0..CacheBits /\ pos \in Nat
  BY <1>1, <1>3, CacheWidth
<1> HIDE DEF v, cache, pos, valid
<1>11. /\ v \in Readers /\ v.cache = cache /\ v.pos = pos /\ v.valid = valid /\ v.ok = d.ok
       /\ v.end = d.end /\ v.nextFF = d.nextFF /\ v.stream = d.stream
  BY <1>1, <1>5, <1>9, <1>10 DEF Readers
<1>12. InScan(v, out)
  <2>1. pos \in 1..(Len(out) + 1) /\ pos <= d.end
    BY <1>1, <1>2 DEF pos
  <2>2. \A q \in pos..(d.nextFF - 1) : q \in d.pos..(d.nextFF - 1)
    BY <1>1 DEF pos
  <2> QED  BY <1>11, <2>1, <2>2 DEF InScan
<1>13. /\ bits \in Seq(Bits) /\ Len(bits) = d.valid + Len(a) /\ Len(bits) \in Nat
       /\ \A j \in 1..d.valid : bits[j] = 1 => CacheBits - j \in d.cache
       /\ \A j \in 1..Len(a) : bits[d.valid + j] = a[j]
       /\ \A x \in d.cache : CacheBits - x <= Len(bits) /\ bits[CacheBits - x] = 1
       /\ d.pos > 1 /\ out[d.pos - 1] = FF => CacheBits - 1 - d.valid \in d.cache
  BY DEF Holds
<1> HIDE DEF a, b, m, k, byte, n
<1>14. /\ k \in Nat /\ Len(a) = k + m /\ m \in Nat /\ ByteBits <= Len(a) /\ d.valid \in Nat
       /\ Len(bits) = d.valid + Len(a)
  BY <1>1, <1>3, <1>4, <1>13, CacheWidth
<1>15. Len(bits) = valid + m
  BY <1>14 DEF valid
<1>16. ASSUME NEW j \in 1..valid, bits[j] = 1 PROVE CacheBits - j \in cache
  <2>1. CASE j <= d.valid
    <3>1. CacheBits - j \in d.cache
      BY <1>1, <1>13, <1>16, <2>1
    <3> QED  BY <3>1 DEF cache
  <2>2. CASE ~(j <= d.valid)
    <3> DEFINE t == j - d.valid
    <3>1. t \in 1..k /\ t \in 1..ByteBits /\ t \in 1..Len(a) /\ d.valid + t = j
      BY <1>3, <1>10, <1>14, <2>2, CacheWidth DEF valid
    <3>2. a[t] = 1
      BY <1>13, <1>16, <3>1
    <3>3. CASE ByteBits - t \in byte
      <4>1. CacheBits - j = (ByteBits - t) + n
        BY <1>14, <2>2, CacheWidth DEF n, valid
      <4> QED  BY <1>6, <3>3, <4>1 DEF cache
    <3>4. CASE t = 1 /\ d.pos > 1 /\ out[d.pos - 1] = FF
      <4>1. CacheBits - j = CacheBits - 1 - d.valid
        BY <1>14, <2>2, <3>4, CacheWidth DEF valid
      <4>2. CacheBits - 1 - d.valid \in d.cache
        BY <1>13, <3>4
      <4> QED  BY <4>1, <4>2 DEF cache
    <3> QED  BY <1>4, <3>1, <3>2, <3>3, <3>4
  <2> QED  BY <2>1, <2>2
<1>17. ASSUME NEW j \in 1..m PROVE bits[valid + j] = b[j]
  <2>1. k + j \in 1..Len(a) /\ d.valid + (k + j) = valid + j
    BY <1>14 DEF valid
  <2>2. bits[d.valid + (k + j)] = a[k + j]
    BY <1>13, <2>1
  <2> QED  BY <1>4, <2>1, <2>2
<1>18. ASSUME NEW x \in cache PROVE CacheBits - x <= Len(bits) /\ bits[CacheBits - x] = 1
  <2>1. CASE x \in d.cache
    BY <1>13, <2>1
  <2>2. CASE x \notin d.cache
    <3>1. PICK q \in byte : x = q + n
      BY <1>6, <2>2 DEF cache
    <3> DEFINE t == ByteBits - q
    <3>2. /\ q \in 0..(ByteBits - 1) /\ t \in 1..ByteBits /\ t \in 1..Len(a) /\ ByteBits - t = q
          /\ CacheBits - x = d.valid + t
      <4>1. q \in 0..(ByteBits - 1)
        BY <1>7
      <4>2. /\ ByteBits \in Nat /\ CacheBits \in Nat /\ d.valid \in Nat
            /\ Len(a) \in Nat /\ ByteBits <= Len(a) /\ x = q + (CacheBits - ByteBits - d.valid)
        BY <1>14, <3>1, CacheWidth DEF n
      <4> QED  BY <4>1, <4>2
    <3>3. a[t] = 1
      BY <1>4, <3>2
    <3>4. bits[d.valid + t] = 1 /\ d.valid + t <= Len(bits)
      <4> HIDE DEF t
      <4>1. bits[d.valid + t] = a[t]
        BY <1>13, <3>2
      <4> QED  BY <1>14, <3>2, <3>3, <4>1
    <3> QED  BY <3>2, <3>4
  <2> QED  BY <2>1, <2>2
<1>19. out[pos - 1] = FF => CacheBits - 1 - valid \in cache
  <2> SUFFICES ASSUME out[pos - 1] = FF PROVE CacheBits - 1 - valid \in cache
    OBVIOUS
  <2>1. pos - 1 = d.pos
    BY <1>1 DEF pos
  <2>2. byte = FF
    BY <1>2, <2>1
  <2>3. 0 \in byte /\ k = ByteBits - 1
    BY <1>3, <1>8, <2>2
  <2>4. CacheBits - 1 - valid = 0 + n
    BY <1>14, <2>3, CacheWidth DEF valid, n
  <2> QED  BY <1>6, <2>3, <2>4 DEF cache
<1>20. Holds(v, out, bits)
  BY <1>11, <1>13, <1>15, <1>16, <1>17, <1>18, <1>19 DEF Holds, m, b
<1>21. valid >= d.valid + (ByteBits - 1)
  BY <1>3, <1>14, CacheWidth DEF valid
<1> QED  BY <1>11, <1>12, <1>20, <1>21 DEF v, pos, byte

-----------------------------------------------------------------------------
(* MakeValid.                                                              *)

\* A factor not smaller makes no smaller product.
LEMMA ProductGrows ==
  ASSUME NEW a \in Nat, NEW b \in Nat, NEW c \in Nat, b <= c
  PROVE  a * b <= a * c /\ a * b \in Nat
<1>1. PICK k \in Nat : c = b + k
  <2>1. c - b \in Nat /\ c = b + (c - b)
    OBVIOUS
  <2> QED  BY <2>1
<1>2. a * (b + k) = a * b + a * k /\ a * k \in Nat /\ a * b \in Nat
  OBVIOUS
<1> QED  BY <1>1, <1>2

\* FindNextFF stops at the end of what is buffered, and passes no 0xFF.
LEMMA NextFFFound ==
  ASSUME NEW octets, NEW d, d.pos \in Nat, d.end \in Nat, d.pos <= d.end
  PROVE  LET p == FindNextFF(d, octets)
         IN  p \in d.pos..d.end /\ \A q \in d.pos..(p - 1) : octets[q] # FF
<1> DEFINE Stops == {p \in d.pos..d.end : p = d.end \/ octets[p] = FF}
           Found(p) == /\ p = d.end \/ octets[p] = FF
                       /\ \A q \in d.pos..(p - 1) : octets[q] # FF
<1>1. PICK l \in Stops : \A m \in Stops : l <= m
  <2>1. d.end \in Stops /\ Stops \in SUBSET Nat
    OBVIOUS
  <2> HIDE DEF Stops
  <2> QED  BY <2>1, LeastElement
<1>2. Found(l) /\ l \in d.pos..d.end
  <2>1. ASSUME NEW q \in d.pos..(l - 1) PROVE octets[q] # FF
    <3>1. q \in d.pos..d.end /\ ~(l <= q)
      OBVIOUS
    <3>2. q \notin Stops
      BY <1>1, <3>1
    <3> QED  BY <3>1, <3>2
  <2> QED  BY <2>1
<1>3. FindNextFF(d, octets) = CHOOSE p \in d.pos..d.end : Found(p)
  BY DEF FindNextFF
<1> HIDE DEF Found
<1>4. FindNextFF(d, octets) \in d.pos..d.end /\ Found(FindNextFF(d, octets))
  BY <1>2, <1>3
<1> QED  BY <1>4 DEF Found

\* Looking for the next 0xFF moves nothing.
LEMMA NextFFStep ==
  ASSUME NEW out, Scanned(out), NEW d, InScan(d, out)
  PROVE  LET v == [d EXCEPT !.nextFF = FindNextFF(d, Given(out))]
         IN  /\ InScan(v, out)
             /\ v.cache = d.cache /\ v.valid = d.valid /\ v.pos = d.pos /\ v.end = d.end
<1> DEFINE p == FindNextFF(d, Given(out))
           v == [d EXCEPT !.nextFF = p]
<1>1. d \in Readers /\ d.pos \in Nat /\ d.end \in Nat /\ d.pos <= d.end
  BY DEF InScan, Readers
<1>2. p \in d.pos..d.end /\ \A q \in d.pos..(p - 1) : Given(out)[q] # FF
  BY <1>1, NextFFFound
<1> HIDE DEF p
<1>3. /\ v \in Readers /\ v.nextFF = p /\ v.cache = d.cache /\ v.valid = d.valid
      /\ v.pos = d.pos /\ v.end = d.end /\ v.stream = d.stream /\ v.ok = d.ok
  BY <1>1, <1>2 DEF Readers
<1> HIDE DEF v
<1>4. InScan(v, out)
  BY <1>1, <1>2, <1>3 DEF InScan
<1> QED  BY <1>3, <1>4 DEF v, p

\* The reader stops at the marker, and not before it while two bytes are buffered.
LEMMA StopsAtMarker ==
  ASSUME NEW out, Scanned(out), NEW d, d.pos \in 1..(Len(out) + 1),
         d.end \in Nat, d.end <= Len(out) + 3
  PROVE  /\ d.pos = Len(out) + 1 => AtMarker(d, Given(out))
         /\ d.pos <= Len(out) /\ d.pos + 1 < d.end => ~AtMarker(d, Given(out))
<1>1. /\ Len(out) \in Nat /\ \A i \in 1..Len(out) : Given(out)[i] = out[i]
      /\ Given(out)[Len(out) + 1] = FF /\ IsMarkerCode(Given(out)[Len(out) + 2])
  BY GivenData
<1>2. ASSUME d.pos = Len(out) + 1 PROVE AtMarker(d, Given(out))
  <2>1. d.pos + 1 = Len(out) + 2
    BY <1>1, <1>2
  <2> QED  BY <1>1, <1>2, <2>1 DEF AtMarker
<1>3. ASSUME d.pos <= Len(out), d.pos + 1 < d.end PROVE ~AtMarker(d, Given(out))
  <2>1. d.pos \in 1..Len(out) /\ d.pos # d.end - 1
    BY <1>1, <1>3
  <2>2. CASE d.pos = Len(out)
    BY <1>1, <2>1, <2>2 DEF AtMarker, Scanned, EndsInFF
  <2>3. CASE d.pos # Len(out)
    <3>1. d.pos \in 1..(Len(out) - 1) /\ d.pos + 1 \in 1..Len(out)
      BY <1>1, <2>1, <2>3
    <3>2. out[d.pos] = FF => ~IsMarkerCode(out[d.pos + 1])
      BY <3>1 DEF Scanned, Stuffed
    <3> QED  BY <1>1, <2>1, <3>1, <3>2 DEF AtMarker
  <2> QED  BY <2>2, <2>3
<1> QED  BY <1>2, <1>3

\* A turn of the loop.
LoadTurn(e, turn, octets) ==
  IF (turn > 1 /\ CacheIsFull(e)) \/ e.pos >= e.end \/ AtMarker(e, octets)
  THEN e ELSE LoadByte(e, octets[e.pos])

\* f is what the loop leaves after each of its turns.
Loads(f, d, octets, m) ==
  f = [turn \in 0..m |-> IF turn = 0 THEN d ELSE LoadTurn(f[turn - 1], turn, octets)]

\* The loop ends: what it makes of any reader is defined.
LEMMA LoadsDefined ==
  ASSUME NEW d, NEW octets, NEW m \in Nat
  PROVE  \E f : Loads(f, d, octets, m)
<1> DEFINE G(f, turn) == IF turn = 0 THEN d ELSE LoadTurn(f[turn - 1], turn, octets)
           Is(f, k) == f = [turn \in 0..k |-> G(f, turn)]
           Fails == {k \in 0..m : ~\E f : Is(f, k)}
<1>1. ASSUME Fails # {} PROVE FALSE
  <2>1. PICK l \in Fails : \A k \in Fails : l <= k
    <3>1. Fails \in SUBSET Nat
      OBVIOUS
    <3> HIDE DEF Fails
    <3> QED  BY <1>1, <3>1, LeastElement
  <2>2. l \in 0..m /\ ~\E f : Is(f, l)
    OBVIOUS
  <2>3. \E f : \A turn \in 0..(l - 1) : f[turn] = G(f, turn)
    <3>1. CASE l = 0
      <4>1. 0..(l - 1) = {}
        BY <3>1
      <4> QED  BY <4>1
    <3>2. CASE l # 0
      <4>1. l - 1 \in 0..m /\ l - 1 \notin Fails
        <5>1. l - 1 \in 0..m /\ ~(l <= l - 1)
          BY <2>2, <3>2
        <5> HIDE DEF Fails
        <5> QED  BY <2>1, <5>1
      <4>2. PICK f : Is(f, l - 1)
        <5> HIDE DEF Is
        <5> QED  BY <4>1
      <4> HIDE DEF G
      <4> QED  BY <4>2
    <3> QED  BY <3>1, <3>2
  <2>4. PICK f : \A turn \in 0..(l - 1) : f[turn] = G(f, turn)
    BY <2>3
  <2> DEFINE g == [turn \in 0..l |-> IF turn = l THEN G(f, turn) ELSE f[turn]]
  <2>5. ASSUME NEW turn \in 0..l PROVE g[turn] = G(g, turn)
    <3>1. G(f, turn) = G(g, turn)
      <4>1. CASE turn = 0
        BY <4>1
      <4>2. CASE turn # 0
        <5>1. turn - 1 \in 0..l /\ turn - 1 # l
          BY <2>2, <4>2
        <5>2. g[turn - 1] = f[turn - 1]
          <6> HIDE DEF G
          <6> QED  BY <5>1
        <5> HIDE DEF g
        <5> QED  BY <4>2, <5>2
      <4> QED  BY <4>1, <4>2
    <3>2. g[turn] = G(f, turn)
      <4>1. turn \in 0..(l - 1) \/ turn = l
        BY <2>2
      <4> HIDE DEF G
      <4> QED  BY <2>4, <4>1
    <3> QED  BY <3>1, <3>2
  <2>6. Is(g, l)
    <3>1. g = [turn \in 0..l |-> g[turn]]
      <4> HIDE DEF G
      <4> QED  OBVIOUS
    <3> HIDE DEF g, G
    <3> QED  BY <2>5, <3>1
  <2> HIDE DEF Is, g
  <2> QED  BY <2>2, <2>6
<1> HIDE DEF Is
<1>2. \E f : Is(f, m)
  BY <1>1
<1> QED  BY <1>2 DEF Is, Loads

\* What the loop leaves, and what LoadBytes makes of it.
LEMMA LoadsValue ==
  ASSUME NEW d, NEW octets
  PROVE  \E f :
           /\ \A turn \in 0..MaxLoads :
                f[turn] = IF turn = 0 THEN d ELSE LoadTurn(f[turn - 1], turn, octets)
           /\ LoadBytes(d, octets) =
                LET e == f[MaxLoads]
                IN  IF e.pos > d.pos /\ CacheIsFull(e)
                    THEN [e EXCEPT !.nextFF = FindNextFF(e, octets)]
                    ELSE IF e.valid <= 0 THEN Fail(e) ELSE e
<1> DEFINE h == CHOOSE f : Loads(f, d, octets, MaxLoads)
<1>1. Loads(h, d, octets, MaxLoads)
  <2>1. MaxLoads \in Nat
    BY CacheWidth DEF MaxLoads
  <2>2. \E f : Loads(f, d, octets, MaxLoads)
    BY <2>1, LoadsDefined
  <2> QED  BY <2>2
<1>2. LoadBytes(d, octets) =
        LET e == h[MaxLoads]
        IN  IF e.pos > d.pos /\ CacheIsFull(e)
            THEN [e EXCEPT !.nextFF = FindNextFF(e, octets)]
            ELSE IF e.valid <= 0 THEN Fail(e) ELSE e
  BY DEF LoadBytes, LoadTurn, Loads
<1>3. \A turn \in 0..MaxLoads : h[turn] = IF turn = 0 THEN d ELSE LoadTurn(h[turn - 1], turn, octets)
  <2> HIDE DEF h
  <2> QED  BY <1>1 DEF Loads
<1> HIDE DEF h
<1> QED  BY <1>2, <1>3

\* What a reader is sure of before its bytes are loaded one by one.
Loadable(d, out, bits) ==
  /\ InScan(d, out) /\ Holds(d, out, bits)
  /\ d.valid <= CacheBits - ByteBits
  /\ d.end = Len(out) + 3 \/ d.end - d.pos > RefillLimit

\* After some turns of the loop the reader is at the marker, or its cache is full,
\* or a byte has been loaded in each of them.
Loaded(e, d, out, bits, turn) ==
  /\ InScan(e, out) /\ Holds(e, out, bits) /\ e.end = d.end
  /\ \/ e.pos = Len(out) + 1
     \/ turn >= 1 /\ CacheIsFull(e) /\ e.pos > d.pos
     \/ e.pos = d.pos + turn /\ e.valid >= (ByteBits - 1) * turn

\* Bytes loaded that do not fill the cache are less than what was buffered.
LEMMA LoadsLeave ==
  ASSUME NEW t \in Nat, (ByteBits - 1) * t < CacheBits - ByteBits
  PROVE  t < RefillLimit
<1>1. ByteBits - 1 \in Nat /\ RefillLimit \in Nat /\ CacheBits - ByteBits \in Nat
  BY CacheWidth, BufferAssumption
<1>2. (ByteBits - 1) * RefillLimit >= CacheBits - ByteBits
  BY RefillAssumption
<1>3. RefillLimit <= t => (ByteBits - 1) * RefillLimit <= (ByteBits - 1) * t
  BY <1>1, ProductGrows
<1>4. (ByteBits - 1) * RefillLimit \in Nat /\ (ByteBits - 1) * t \in Nat
  BY <1>1, ProductGrows
<1> DEFINE x == (ByteBits - 1) * RefillLimit
           y == (ByteBits - 1) * t
<1>5. x >= CacheBits - ByteBits /\ y < CacheBits - ByteBits /\ (RefillLimit <= t => x <= y)
      /\ x \in Nat /\ y \in Nat
  BY <1>2, <1>3, <1>4
<1> HIDE DEF x, y
<1> QED  BY <1>1, <1>5

\* All turns of the loop fill the cache.
LEMMA LoadsSuffice ==
  /\ MaxLoads \in Nat /\ MaxLoads >= 1
  /\ (ByteBits - 1) * MaxLoads >= CacheBits - ByteBits
<1>1. MaxLoads = 2 * CacheBytes /\ MaxLoads \in Nat /\ MaxLoads >= 1
  BY CacheWidth DEF MaxLoads
<1>2. (ByteBits - 1) * (2 * CacheBytes) = 2 * (ByteBits * CacheBytes) - 2 * CacheBytes
  BY CacheWidth
<1>3. 3 * CacheBytes <= ByteBits * CacheBytes
  <2>1. CacheBytes * 3 <= CacheBytes * ByteBits
    BY CacheWidth, ProductGrows
  <2> QED  BY <2>1, CacheWidth
<1>4. CacheBits = ByteBits * CacheBytes
  BY CacheWidth
<1> QED  BY <1>1, <1>2, <1>3, <1>4, CacheWidth

\* A turn of the loop.
LEMMA LoadTurnStep ==
  ASSUME NEW out, Scanned(out), NEW bits, NEW d, Loadable(d, out, bits),
         NEW turn \in Nat \ {0}, NEW e, Loaded(e, d, out, bits, turn - 1),
         turn = 1 => e = d
  PROVE  Loaded(LoadTurn(e, turn, Given(out)), d, out, bits, turn)
<1> DEFINE t == turn - 1
           v == LoadTurn(e, turn, Given(out))
           stop == (turn > 1 /\ CacheIsFull(e)) \/ e.pos >= e.end \/ AtMarker(e, Given(out))
<1>1. /\ e \in Readers /\ e.pos \in 1..(Len(out) + 1) /\ e.end \in Nat /\ e.end <= Len(out) + 3
      /\ e.pos <= e.end /\ e.valid \in Nat /\ Len(out) \in Nat /\ InScan(e, out) /\ e.end = d.end
      /\ Holds(e, out, bits) /\ d.pos \in Nat /\ d.end \in Nat
  <2>1. InScan(e, out) /\ InScan(d, out) /\ Holds(e, out, bits) /\ e.end = d.end
    BY DEF Loaded, Loadable
  <2>2. Len(out) \in Nat
    BY GivenData
  <2> QED  BY <2>1, <2>2 DEF InScan, Readers
<1>2. CASE e.pos = Len(out) + 1
  <2>1. stop
    BY <1>1, <1>2, StopsAtMarker
  <2>2. v = e
    BY <2>1 DEF LoadTurn
  <2> QED  BY <1>1, <1>2, <2>2 DEF Loaded
<1>3. CASE e.pos # Len(out) + 1 /\ turn > 1 /\ CacheIsFull(e)
  <2>1. v = e
    BY <1>3 DEF LoadTurn
  <2>2. e.pos > d.pos
    BY <1>1, <1>3 DEF Loaded
  <2> QED  BY <1>1, <1>3, <2>1, <2>2 DEF Loaded
<1>4. CASE e.pos # Len(out) + 1 /\ ~(turn > 1 /\ CacheIsFull(e))
  <2>1. e.pos = d.pos + t /\ e.valid >= (ByteBits - 1) * t /\ t \in Nat
    <3>1. CASE turn = 1
      <4>1. e = d /\ t = 0 /\ (ByteBits - 1) * t = 0
        BY <3>1, CacheWidth
      <4> QED  BY <1>1, <4>1
    <3>2. CASE turn # 1
      <4>1. turn > 1 /\ ~CacheIsFull(e) /\ t \in Nat
        BY <1>4, <3>2
      <4> QED  BY <1>4, <4>1 DEF Loaded
    <3> QED  BY <3>1, <3>2
  <2>2. e.valid <= CacheBits - ByteBits
    <3>1. CASE turn = 1
      BY <3>1 DEF Loadable
    <3>2. CASE turn # 1
      <4>1. ~CacheIsFull(e)
        BY <1>4, <3>2
      <4> QED  BY <1>1, <4>1, CacheWidth DEF CacheIsFull
    <3> QED  BY <3>1, <3>2
  <2>3. turn # 1 => t < RefillLimit
    <3> SUFFICES ASSUME turn # 1 PROVE t < RefillLimit
      OBVIOUS
    <3>1. e.valid < CacheBits - ByteBits
      BY <1>1, <1>4, CacheWidth DEF CacheIsFull
    <3> DEFINE x == (ByteBits - 1) * t
    <3>2. x \in Nat /\ e.valid >= x
      BY <2>1, CacheWidth, ProductGrows
    <3> HIDE DEF t
    <3>3. (ByteBits - 1) * t < CacheBits - ByteBits
      <4> HIDE DEF x
      <4>1. x < CacheBits - ByteBits
        BY <1>1, <3>1, <3>2, CacheWidth
      <4> QED  BY <4>1 DEF x
    <3> QED  BY <2>1, <3>3, LoadsLeave
  <2>4. e.pos + 1 < e.end /\ e.pos <= Len(out)
    <3>1. t < RefillLimit /\ RefillLimit \in Nat
      <4>1. RefillLimit \in Nat /\ 0 < RefillLimit
        BY BufferAssumption, CacheAssumption
      <4> QED  BY <2>3, <4>1
    <3>2. d.end = Len(out) + 3 \/ d.end - d.pos > RefillLimit
      BY DEF Loadable
    <3> HIDE DEF t
    <3> QED  BY <1>1, <1>4, <2>1, <3>1, <3>2
  <2>5. ~stop
    <3>1. ~AtMarker(e, Given(out))
      BY <1>1, <2>4, StopsAtMarker
    <3>2. ~(e.pos >= e.end)
      BY <1>1, <2>4
    <3> QED  BY <1>4, <3>1, <3>2
  <2>6. v = LoadByte(e, Given(out)[e.pos])
    BY <2>5 DEF LoadTurn
  <2>7. /\ InScan(v, out) /\ Holds(v, out, bits)
        /\ v.pos = e.pos + 1 /\ v.end = e.end /\ v.valid >= e.valid + (ByteBits - 1)
    <3>1. e.pos < e.end
      BY <1>1, <2>4
    <3> HIDE DEF v
    <3> QED  BY <1>1, <2>2, <2>4, <2>6, <3>1, LoadByteStep
  <2> HIDE DEF v
  <2>8. v.pos = d.pos + turn /\ v.valid >= (ByteBits - 1) * turn
    <3>1. (ByteBits - 1) * turn = (ByteBits - 1) * t + (ByteBits - 1) /\ (ByteBits - 1) * t \in Int
          /\ ByteBits - 1 \in Int
      BY CacheWidth
    <3>2. v.valid \in Int /\ e.valid \in Int
      BY <1>1, <2>7 DEF InScan, Readers
    <3> DEFINE x == (ByteBits - 1) * t
               y == (ByteBits - 1) * turn
    <3>3. y = x + (ByteBits - 1) /\ x \in Int /\ e.valid >= x
      BY <2>1, <3>1
    <3>4. v.pos = d.pos + turn
      BY <1>1, <2>1, <2>7
    <3> HIDE DEF x, y
    <3>5. v.valid >= y
      BY <2>7, <3>2, <3>3, CacheWidth
    <3> QED  BY <3>4, <3>5 DEF y
  <2> QED  BY <1>1, <2>7, <2>8 DEF Loaded, v
<1> QED  BY <1>2, <1>3, <1>4

\* The loop fills the cache or ends at the marker, and the reader loses nothing.
LEMMA LoadBytesStep ==
  ASSUME NEW out, Scanned(out), NEW bits, Len(bits) >= 1, NEW d, Loadable(d, out, bits)
  PROVE  LET v == LoadBytes(d, Given(out))
         IN  /\ InScan(v, out) /\ Holds(v, out, bits)
             /\ CacheIsFull(v) \/ v.pos = Len(out) + 1
<1> DEFINE octets == Given(out)
           v == LoadBytes(d, octets)
<1>1. PICK f : /\ \A turn \in 0..MaxLoads :
                    f[turn] = IF turn = 0 THEN d ELSE LoadTurn(f[turn - 1], turn, octets)
               /\ LoadBytes(d, octets) =
                    LET e == f[MaxLoads]
                    IN  IF e.pos > d.pos /\ CacheIsFull(e)
                        THEN [e EXCEPT !.nextFF = FindNextFF(e, octets)]
                        ELSE IF e.valid <= 0 THEN Fail(e) ELSE e
  BY LoadsValue
<1> HIDE DEF octets
<1> DEFINE Fails == {turn \in 0..MaxLoads : ~Loaded(f[turn], d, out, bits, turn)}
<1>2. MaxLoads \in Nat /\ MaxLoads >= 1 /\ f[0] = d
  BY <1>1, LoadsSuffice
<1>3. ASSUME Fails # {} PROVE FALSE
  <2>1. PICK l \in Fails : \A m \in Fails : l <= m
    <3>1. Fails \in SUBSET Nat
      OBVIOUS
    <3> HIDE DEF Fails
    <3> QED  BY <1>3, <3>1, LeastElement
  <2>2. l \in 0..MaxLoads /\ ~Loaded(f[l], d, out, bits, l)
    OBVIOUS
  <2>3. CASE l = 0
    <3>1. d.pos \in Nat /\ d.valid \in Nat
      BY DEF Loadable, InScan, Readers
    <3>2. d.pos = d.pos + 0 /\ d.valid >= (ByteBits - 1) * 0
      BY <3>1, CacheWidth
    <3>3. Loaded(d, d, out, bits, 0)
      BY <3>2 DEF Loaded, Loadable
    <3> QED  BY <1>2, <2>2, <2>3, <3>3
  <2>4. CASE l # 0
    <3>1. l - 1 \in 0..MaxLoads /\ ~(l <= l - 1) /\ l \in Nat \ {0}
      BY <1>2, <2>2, <2>4
    <3>2. Loaded(f[l - 1], d, out, bits, l - 1)
      <4>1. l - 1 \notin Fails
        <5> HIDE DEF Fails
        <5> QED  BY <2>1, <3>1
      <4> QED  BY <3>1, <4>1
    <3>3. l = 1 => f[l - 1] = d
      BY <1>2
    <3>4. f[l] = LoadTurn(f[l - 1], l, octets)
      BY <1>1, <2>2, <2>4
    <3>5. Loaded(LoadTurn(f[l - 1], l, Given(out)), d, out, bits, l)
      <4> HIDE DEF Fails
      <4> QED  BY <3>1, <3>2, <3>3, LoadTurnStep
    <3> QED  BY <2>2, <3>4, <3>5 DEF octets
  <2> QED  BY <2>3, <2>4
<1> DEFINE e == f[MaxLoads]
<1>4. Loaded(e, d, out, bits, MaxLoads)
  <2>1. MaxLoads \in 0..MaxLoads /\ MaxLoads \notin Fails
    <3> HIDE DEF Fails
    <3> QED  BY <1>2, <1>3
  <2> QED  BY <2>1
<1>5. v = IF e.pos > d.pos /\ CacheIsFull(e)
          THEN [e EXCEPT !.nextFF = FindNextFF(e, octets)]
          ELSE IF e.valid <= 0 THEN Fail(e) ELSE e
  BY <1>1
<1> HIDE DEF e, v
<1>6. InScan(e, out) /\ Holds(e, out, bits) /\ e.valid \in Nat
  BY <1>4 DEF Loaded, InScan, Readers
<1>7. CASE e.pos > d.pos /\ CacheIsFull(e)
  <2>1. v = [e EXCEPT !.nextFF = FindNextFF(e, Given(out))]
    BY <1>5, <1>7 DEF octets
  <2>2. /\ InScan(v, out)
        /\ v.cache = e.cache /\ v.valid = e.valid /\ v.pos = e.pos /\ v.end = e.end
    BY <1>6, <2>1, NextFFStep
  <2>3. Holds(v, out, bits)
    BY <1>6, <2>2, HoldsBy
  <2>4. CacheIsFull(v)
    BY <1>7, <2>2 DEF CacheIsFull
  <2> QED  BY <2>2, <2>3, <2>4 DEF v, octets
<1>8. CASE ~(e.pos > d.pos /\ CacheIsFull(e))
  <2>1. e.pos = Len(out) + 1
    <3>1. CASE e.pos = d.pos + MaxLoads /\ e.valid >= (ByteBits - 1) * MaxLoads
      <4> DEFINE x == (ByteBits - 1) * MaxLoads
      <4>1. x \in Int /\ x >= CacheBits - ByteBits /\ e.valid >= x /\ d.pos \in Nat
        BY <1>2, <3>1, LoadsSuffice, CacheWidth DEF Loadable, InScan, Readers
      <4> HIDE DEF x
      <4>2. e.valid >= CacheBits - ByteBits
        BY <1>6, <4>1, CacheWidth
      <4>3. e.pos > d.pos
        BY <1>2, <3>1, <4>1
      <4> QED  BY <1>8, <4>2, <4>3 DEF CacheIsFull
    <3> QED  BY <1>4, <1>8, <3>1 DEF Loaded
  <2>2. e.valid = Len(bits)
    <3>1. Len(bits) = e.valid + Len(Ahead(out, e.pos))
      BY <1>6 DEF Holds
    <3>2. Len(Ahead(out, e.pos)) = 0
      BY <2>1, AheadEnd
    <3> QED  BY <1>6, <3>1, <3>2
  <2>3. v = e
    BY <1>5, <1>6, <1>8, <2>2
  <2> QED  BY <1>6, <2>1, <2>3 DEF v, octets
<1> QED  BY <1>7, <1>8

\* The place of a byte's bit in the word that is read at once.
PlaceOf(i, q) == (CacheBytes - 1 - i) * ByteBits + q

\* The sizes alone.
LEMMA CacheSize ==
  /\ CacheBits \in Nat /\ ByteBits \in Nat /\ ByteBits >= 3 /\ CacheBytes \in Nat
  /\ CacheBytes >= 3 /\ CacheBits >= 3 * ByteBits
BY CacheWidth

\* Every bit of the bytes has a place of its own, the first at the top.
LEMMA PlaceInWord ==
  ASSUME NEW i \in 0..(CacheBytes - 1), NEW q \in 0..(ByteBits - 1)
  PROVE  LET x == PlaceOf(i, q)
         IN  /\ x \in 0..(CacheBits - 1) /\ ByteBits * i \in Nat
             /\ x = CacheBits - (ByteBits * i + (ByteBits - q))
<1> DEFINE y == ByteBits * i
           z == ByteBits * CacheBytes
           x == PlaceOf(i, q)
<1>1. x = z - ByteBits - y + q
  BY CacheWidth DEF PlaceOf
<1>2. y \in Nat /\ y <= z - ByteBits
  <2>1. ByteBits * i <= ByteBits * (CacheBytes - 1) /\ ByteBits * i \in Nat
    BY CacheWidth, ProductGrows
  <2>2. ByteBits * (CacheBytes - 1) = z - ByteBits
    BY CacheWidth
  <2> QED  BY <2>1, <2>2
<1>3. z = CacheBits
  BY CacheWidth
<1> HIDE DEF y, z, x
<1>4. x \in 0..(CacheBits - 1) /\ x = CacheBits - (y + (ByteBits - q))
  BY <1>1, <1>2, <1>3, CacheWidth
<1> QED  BY <1>2, <1>4 DEF x, y

\* How many bytes one word gives.
LEMMA BytesOfWord ==
  ASSUME NEW valid \in 0..CacheBits
  PROVE  LET n == (CacheBits - valid) \div ByteBits
         IN  /\ n \in 0..CacheBytes
             /\ n * ByteBits = ByteBits * n /\ ByteBits * n \in Nat
             /\ valid + ByteBits * n <= CacheBits
             /\ valid + ByteBits * n > CacheBits - ByteBits
<1> DEFINE n == (CacheBits - valid) \div ByteBits
<1>1. n \in Nat /\ n * ByteBits <= CacheBits - valid /\ CacheBits - valid < n * ByteBits + ByteBits
  <2>1. CacheBits - valid \in Nat /\ ByteBits \in Nat \ {0}
    BY CacheWidth
  <2> QED  BY <2>1, DivisionBounds
<1> HIDE DEF n
<1>2. n * ByteBits = ByteBits * n /\ ByteBits * n \in Nat
  BY <1>1, CacheWidth
<1>3. n <= CacheBytes
  <2> SUFFICES ASSUME CacheBytes + 1 <= n PROVE FALSE
    BY <1>1, CacheWidth
  <2>1. ByteBits * (CacheBytes + 1) <= ByteBits * n
    BY <1>1, CacheWidth, ProductGrows
  <2>2. ByteBits * (CacheBytes + 1) = CacheBits + ByteBits
    BY CacheWidth
  <2> DEFINE y == ByteBits * n
  <2>3. CacheBits + ByteBits <= y /\ y <= CacheBits - valid /\ y \in Nat
    BY <1>1, <1>2, <2>1, <2>2
  <2> HIDE DEF y
  <2> QED  BY <2>3, CacheWidth
<1> DEFINE y == ByteBits * n
<1>4. y \in Nat /\ y <= CacheBits - valid /\ CacheBits - valid < y + ByteBits
  BY <1>1, <1>2
<1> HIDE DEF y
<1>5. valid + y <= CacheBits /\ valid + y > CacheBits - ByteBits
  BY <1>4, CacheWidth
<1> QED  BY <1>1, <1>2, <1>3, <1>5 DEF n, y

\* The byte and the bit in it of a place behind the valid bits.
LEMMA PlaceInBytes ==
  ASSUME NEW n \in Nat, NEW t \in Nat \ {0}, t <= ByteBits * n
  PROVE  \E i \in 0..(n - 1), r \in 1..ByteBits : t = ByteBits * i + r
<1> DEFINE i == (t - 1) \div ByteBits
           y == ByteBits * i
           r == t - y
<1>1. i \in Nat /\ i * ByteBits <= t - 1 /\ t - 1 < i * ByteBits + ByteBits
  <2>1. t - 1 \in Nat /\ ByteBits \in Nat \ {0}
    BY CacheWidth
  <2> QED  BY <2>1, DivisionBounds
<1> HIDE DEF i
<1>2. i * ByteBits = y /\ y \in Nat
  BY <1>1, CacheWidth
<1>3. i < n
  <2> SUFFICES ASSUME n <= i PROVE FALSE
    BY <1>1
  <2>1. ByteBits * n <= ByteBits * i /\ ByteBits * n \in Nat
    BY <1>1, CacheWidth, ProductGrows
  <2> DEFINE z == ByteBits * n
  <2>2. t <= z /\ z <= y /\ y <= t - 1 /\ z \in Nat
    BY <1>1, <1>2, <2>1
  <2> HIDE DEF z, y
  <2> QED  BY <1>2, <2>2
<1>4. t = y + r /\ r \in 1..ByteBits
  <2>1. y <= t - 1 /\ t - 1 < y + ByteBits
    BY <1>1, <1>2
  <2> HIDE DEF y
  <2> QED  BY <1>2, <2>1, CacheWidth
<1>5. i \in 0..(n - 1)
  BY <1>1, <1>3
<1> HIDE DEF r
<1> QED  BY <1>4, <1>5

\* A word is read at once behind the valid bits; what is behind the whole bytes
\* that it has room for is ahead still.
LEMMA OptimizedReadStep ==
  ASSUME NEW out, Scanned(out), NEW bits, NEW d, InScan(d, out), Holds(d, out, bits),
         CanReadOptimized(d)
  PROVE  LET v == OptimizedRead(d, Given(out))
         IN  InScan(v, out) /\ Holds(v, out, bits) /\ CacheIsFull(v)
<1> DEFINE octets == Given(out)
           n == (CacheBits - d.valid) \div ByteBits
           run == 0..(CacheBytes - 1)
           word == UNION {{PlaceOf(i, q) : q \in octets[d.pos + i]} : i \in run}
           cache == d.cache \cup ShiftRight(word, d.valid)
           pos == d.pos + n
           valid == d.valid + ByteBits * n
           v == OptimizedRead(d, octets)
<1>1. /\ d \in Readers /\ d.pos \in Nat /\ d.pos >= 1 /\ d.valid \in 0..CacheBits
      /\ d.cache \subseteq CachePlaces /\ d.end \in Nat /\ d.nextFF \in Nat
      /\ d.nextFF <= d.end /\ d.end <= Len(out) + 3 /\ d.pos <= Len(out) + 1
      /\ \A q \in d.pos..(d.nextFF - 1) : octets[q] # FF
  BY DEF InScan, Readers
<1>2. /\ \A i \in 1..Len(out) : octets[i] = out[i] /\ out[i] \in Octets
      /\ octets[Len(out) + 1] = FF /\ Len(out) \in Nat
  BY GivenData DEF Scanned
<1>3. d.pos + CacheBytes <= d.nextFF
  BY <1>1, CacheSize DEF CanReadOptimized
<1>4. d.nextFF <= Len(out) + 1
  <2> HIDE DEF octets
  <2> SUFFICES ASSUME Len(out) + 1 <= d.nextFF - 1 PROVE FALSE
    BY <1>1, <1>2
  <2>1. Len(out) + 1 \in d.pos..(d.nextFF - 1)
    BY <1>1, <1>2
  <2> QED  BY <1>1, <1>2, <2>1
<1>5. /\ n \in 0..CacheBytes
      /\ n * ByteBits = ByteBits * n /\ ByteBits * n \in Nat
      /\ valid <= CacheBits /\ valid > CacheBits - ByteBits
  BY <1>1, BytesOfWord
<1> HIDE DEF octets, n
<1>6. /\ d.pos \in 1..Len(out) /\ d.pos + CacheBytes <= Len(out) + 1
      /\ \A q \in d.pos..(d.pos + CacheBytes - 1) : out[q] # FF /\ q \in 1..Len(out)
  <2>1. d.pos \in 1..Len(out) /\ d.pos + CacheBytes <= Len(out) + 1
    BY <1>1, <1>2, <1>3, <1>4, CacheSize
  <2>2. ASSUME NEW q \in d.pos..(d.pos + CacheBytes - 1) PROVE out[q] # FF /\ q \in 1..Len(out)
    <3>1. q \in d.pos..(d.nextFF - 1) /\ q \in 1..Len(out)
      BY <1>1, <1>3, <2>1, CacheSize
    <3> QED  BY <1>1, <1>2, <3>1
  <2> QED  BY <2>1, <2>2
<1> DEFINE a(i) == Ahead(out, d.pos + i)
<1>7. \A i \in 0..CacheBytes :
        /\ Len(Ahead(out, d.pos)) = ByteBits * i + Len(a(i))
        /\ \A j \in 1..Len(a(i)) : Ahead(out, d.pos)[ByteBits * i + j] = a(i)[j]
  <2>1. CacheBytes \in Nat
    BY CacheSize
  <2>2. /\ d.pos \in 1..Len(out) /\ d.pos + CacheBytes <= Len(out) + 1
        /\ \A q \in d.pos..(d.pos + CacheBytes - 1) : out[q] # FF
    BY <1>6
  <2> DEFINE p == d.pos
             c == CacheBytes
  <2>3. c \in Nat /\ p \in 1..Len(out) /\ p + c <= Len(out) + 1 /\ \A q \in p..(p + c - 1) : out[q] # FF
    BY <2>1, <2>2
  <2> HIDE DEF p, c
  <2>4. \A i \in 0..c :
          /\ Len(Ahead(out, p)) = ByteBits * i + Len(Ahead(out, p + i))
          /\ \A j \in 1..Len(Ahead(out, p + i)) : Ahead(out, p)[ByteBits * i + j] = Ahead(out, p + i)[j]
    BY <2>3, AheadRun
  <2> QED  BY <2>4 DEF p, c
<1>8. ASSUME NEW i \in run
      PROVE  /\ out[d.pos + i] \subseteq 0..(ByteBits - 1)
             /\ octets[d.pos + i] = out[d.pos + i]
             /\ ByteBits <= Len(a(i)) /\ Len(a(i)) \in Nat
             /\ \A j \in 1..ByteBits :
                  a(i)[j] = 1 <=> \/ ByteBits - j \in out[d.pos + i]
                                  \/ j = 1 /\ i = 0 /\ d.pos > 1 /\ out[d.pos - 1] = FF
  <2> DEFINE p == d.pos + i
  <2>1. p \in 1..Len(out)
    <3>1. i \in Nat /\ i <= CacheBytes - 1
      BY CacheSize
    <3> QED  BY <1>6, <3>1, CacheSize
  <2>2. i # 0 => out[p - 1] # FF
    <3> SUFFICES ASSUME i # 0 PROVE out[p - 1] # FF
      OBVIOUS
    <3>1. p - 1 \in d.pos..(d.pos + CacheBytes - 1)
      BY <1>1, CacheSize
    <3> QED  BY <1>6, <3>1
  <2>3. i = 0 => p = d.pos
    BY <1>1
  <2> HIDE DEF p
  <2>4. /\ ScanBits(out, p + 1) \in Seq(Bits)
        /\ Len(Ahead(out, p)) = ByteBits + Len(ScanBits(out, p + 1))
        /\ \A j \in 1..ByteBits :
             Ahead(out, p)[j] = 1 <=> \/ ByteBits - j \in out[p]
                                      \/ j = 1 /\ p > 1 /\ out[p - 1] = FF
    BY <2>1, AheadByte
  <2>5. ByteBits <= Len(Ahead(out, p)) /\ Len(Ahead(out, p)) \in Nat
    <3>1. Len(ScanBits(out, p + 1)) \in Nat
      BY <2>4
    <3> QED  BY <2>4, <3>1, CacheSize
  <2>6. out[p] \subseteq 0..(ByteBits - 1) /\ octets[p] = out[p]
    BY <1>2, <2>1 DEF Octets, FF
  <2>7. a(i) = Ahead(out, p) /\ d.pos + i = p
    BY DEF p
  <2>8. \A j \in 1..ByteBits :
          Ahead(out, p)[j] = 1 <=> \/ ByteBits - j \in out[p]
                                   \/ j = 1 /\ i = 0 /\ d.pos > 1 /\ out[d.pos - 1] = FF
    <3>1. i # 0 => ~(p > 1 /\ out[p - 1] = FF)
      BY <2>2
    <3>2. i = 0 => ((p > 1 /\ out[p - 1] = FF) <=> (d.pos > 1 /\ out[d.pos - 1] = FF))
      BY <2>3
    <3> QED  BY <2>4, <3>1, <3>2
  <2> HIDE DEF a
  <2> QED  BY <2>5, <2>6, <2>7, <2>8
<1>9. \A x : x \in cache <=>
        \/ x \in d.cache
        \/ \E i \in run : \E q \in out[d.pos + i] :
             /\ PlaceOf(i, q) >= d.valid
             /\ x = PlaceOf(i, q) - d.valid
  <2>1. \A x : x \in word <=>
          \E i \in run : \E q \in out[d.pos + i] : x = PlaceOf(i, q)
    <3> HIDE DEF run, a
    <3> QED  BY <1>8
  <2>2. \A x : x \in ShiftRight(word, d.valid) <=> \E y \in word : y >= d.valid /\ x = y - d.valid
    <3> HIDE DEF word
    <3> QED  BY DEF ShiftRight
  <2> HIDE DEF word, run
  <2> QED  BY <2>1, <2>2
<1>10. v = [d EXCEPT !.cache = cache, !.pos = pos, !.valid = valid]
  BY <1>5 DEF OptimizedRead, PlaceOf, octets, n
<1> HIDE DEF v, cache, word
\* A bit of the word below the valid ones.
<1>11. ASSUME NEW i \in run, NEW q \in out[d.pos + i], NEW x,
              PlaceOf(i, q) >= d.valid,
              x = PlaceOf(i, q) - d.valid
       PROVE  /\ x \in CachePlaces /\ q \in 0..(ByteBits - 1) /\ ByteBits * i \in Nat
              /\ CacheBits - x = d.valid + (ByteBits * i + (ByteBits - q))
  <2> DEFINE y == PlaceOf(i, q)
             z == ByteBits * i
  <2>1. q \in 0..(ByteBits - 1)
    BY <1>8
  <2>2. y \in 0..(CacheBits - 1) /\ z \in Nat /\ y = CacheBits - (z + (ByteBits - q))
    BY <2>1, PlaceInWord
  <2>3. y >= d.valid /\ x = y - d.valid
    BY <1>11
  <2> HIDE DEF y, z
  <2>4. x \in 0..(CacheBits - 1) /\ CacheBits - x = d.valid + (z + (ByteBits - q))
    BY <1>1, <2>1, <2>2, <2>3, CacheSize
  <2> QED  BY <2>1, <2>2, <2>4 DEF CachePlaces, z
<1>12. cache \subseteq CachePlaces
  <2> HIDE DEF run
  <2> QED  BY <1>1, <1>9, <1>11
<1> DEFINE y == ByteBits * n
<1>13. valid \in 0..CacheBits /\ pos \in Nat /\ y \in Nat /\ valid = d.valid + y /\ n \in 0..CacheBytes
  <2>1. y \in Nat /\ valid = d.valid + y /\ valid <= CacheBits
    BY <1>5
  <2> HIDE DEF y, valid
  <2> QED  BY <1>1, <1>5, <2>1, CacheSize
<1> HIDE DEF valid, pos, y
<1>14. /\ v \in Readers /\ v.cache = cache /\ v.pos = pos /\ v.valid = valid /\ v.ok = d.ok
       /\ v.end = d.end /\ v.nextFF = d.nextFF /\ v.stream = d.stream
  BY <1>1, <1>10, <1>12, <1>13 DEF Readers
<1>15. InScan(v, out)
  <2>1. pos \in 1..(Len(out) + 1) /\ pos <= d.end
    <3>1. /\ d.pos \in Nat /\ d.pos >= 1 /\ n \in Nat /\ n <= CacheBytes /\ CacheBytes \in Nat
          /\ d.nextFF \in Nat /\ d.end \in Nat /\ Len(out) \in Nat /\ d.nextFF <= d.end
      BY <1>1, <1>2, <1>13, CacheSize
    <3> QED  BY <1>3, <1>4, <3>1 DEF pos
  <2>2. \A q \in pos..(d.nextFF - 1) : q \in d.pos..(d.nextFF - 1)
    BY <1>1, <1>13 DEF pos
  <2> QED  BY <1>14, <2>1, <2>2 DEF InScan
<1>16. CacheIsFull(v)
  BY <1>5, <1>13, <1>14, CacheSize DEF CacheIsFull
<1> DEFINE h == Ahead(out, d.pos)
           b == Ahead(out, pos)
<1>17. /\ bits \in Seq(Bits) /\ Len(bits) = d.valid + Len(h) /\ Len(bits) \in Nat
       /\ \A j \in 1..d.valid : bits[j] = 1 => CacheBits - j \in d.cache
       /\ \A j \in 1..Len(h) : bits[d.valid + j] = h[j]
       /\ \A x \in d.cache : CacheBits - x <= Len(bits) /\ bits[CacheBits - x] = 1
       /\ d.pos > 1 /\ out[d.pos - 1] = FF => CacheBits - 1 - d.valid \in d.cache
  BY DEF Holds
<1>18. /\ Len(h) = y + Len(b) /\ \A j \in 1..Len(b) : h[y + j] = b[j]
  BY <1>7, <1>13 DEF pos, y
<1>19. Len(b) \in Nat /\ Len(h) \in Nat
  BY <1>6, <1>15, AheadLength, <1>14 DEF InScan
\* The places of the run and those of its bytes.
<1>20. ASSUME NEW i \in run, NEW r \in 1..ByteBits
       PROVE  /\ ByteBits * i + r \in 1..Len(h) /\ h[ByteBits * i + r] = a(i)[r]
  <2>1. r \in 1..Len(a(i)) /\ i \in 0..CacheBytes
    BY <1>8, CacheSize
  <2>2. Len(h) = ByteBits * i + Len(a(i)) /\ h[ByteBits * i + r] = a(i)[r]
    BY <1>7, <2>1
  <2>3. ByteBits * i \in Nat /\ Len(a(i)) \in Nat
    <3>1. ByteBits \in Nat /\ i \in Nat
      BY CacheSize
    <3>2. ByteBits * i \in Nat
      BY <3>1, ProductGrows
    <3> QED  BY <1>8, <3>2
  <2> DEFINE z == ByteBits * i
  <2>4. z \in Nat /\ Len(h) = z + Len(a(i))
    BY <2>2, <2>3
  <2> HIDE DEF z, a, h
  <2>5. z + r \in 1..Len(h)
    BY <2>1, <2>3, <2>4
  <2> QED  BY <2>2, <2>5 DEF z
<1> HIDE DEF a, h, b
<1>21. Len(bits) = valid + Len(b)
  BY <1>13, <1>17, <1>18, <1>19, <1>1
<1>22. ASSUME NEW j \in 1..Len(b) PROVE bits[valid + j] = b[j]
  <2>1. y + j \in 1..Len(h) /\ d.valid + (y + j) = valid + j
    BY <1>1, <1>13, <1>18, <1>19
  <2>2. bits[d.valid + (y + j)] = h[y + j]
    BY <1>17, <2>1
  <2> QED  BY <1>18, <2>1, <2>2
<1>23. ASSUME NEW x \in cache PROVE CacheBits - x <= Len(bits) /\ bits[CacheBits - x] = 1
  <2>1. CASE x \in d.cache
    BY <1>17, <2>1
  <2>2. CASE x \notin d.cache
    <3>1. PICK i \in run : \E q \in out[d.pos + i] :
             /\ PlaceOf(i, q) >= d.valid
             /\ x = PlaceOf(i, q) - d.valid
      <4> HIDE DEF run
      <4> QED  BY <1>9, <2>2
    <3>2. PICK q \in out[d.pos + i] :
             /\ PlaceOf(i, q) >= d.valid
             /\ x = PlaceOf(i, q) - d.valid
      BY <3>1
    <3> DEFINE t == ByteBits * i + (ByteBits - q)
    <3> HIDE DEF run
    <3>3. q \in 0..(ByteBits - 1) /\ CacheBits - x = d.valid + t
      BY <1>11, <3>2
    <3>4. ByteBits - q \in 1..ByteBits /\ ByteBits - (ByteBits - q) = q
      BY <3>3, CacheSize
    <3>5. a(i)[ByteBits - q] = 1
      BY <1>8, <3>2, <3>4
    <3>6. t \in 1..Len(h) /\ h[t] = 1
      BY <1>20, <3>4, <3>5
    <3> HIDE DEF t
    <3>7. bits[d.valid + t] = 1 /\ d.valid + t <= Len(bits)
      <4>1. bits[d.valid + t] = h[t]
        BY <1>17, <3>6
      <4> QED  BY <1>1, <1>17, <1>19, <3>6, <4>1
    <3> QED  BY <3>3, <3>7
  <2> QED  BY <2>1, <2>2
<1>24. ASSUME NEW j \in 1..valid, bits[j] = 1 PROVE CacheBits - j \in cache
  <2>1. CASE j <= d.valid
    <3>1. j \in 1..d.valid
      BY <1>1, <2>1
    <3>2. CacheBits - j \in d.cache
      BY <1>17, <1>24, <3>1
    <3> QED  BY <1>9, <3>2
  <2>2. CASE ~(j <= d.valid)
    <3> DEFINE t == j - d.valid
    <3>1. t \in Nat \ {0} /\ t <= y /\ d.valid + t = j /\ n \in Nat
      BY <1>1, <1>13, <2>2
    <3> HIDE DEF t
    <3>2. PICK i \in 0..(n - 1), r \in 1..ByteBits : t = ByteBits * i + r
      BY <3>1, PlaceInBytes DEF y
    <3>3. i \in run /\ i \in Nat
      BY <1>13, <3>2, CacheSize
    <3> HIDE DEF run
    <3>4. t \in 1..Len(h) /\ h[t] = a(i)[r]
      BY <1>20, <3>2, <3>3
    <3>5. a(i)[r] = 1
      BY <1>17, <1>24, <3>1, <3>4
    <3>6. CASE ByteBits - r \in out[d.pos + i]
      <4> DEFINE q == ByteBits - r
                 x == PlaceOf(i, q)
                 z == ByteBits * i
      <4>1. q \in 0..(ByteBits - 1) /\ ByteBits - q = r
        BY CacheSize
      <4>2. x \in 0..(CacheBits - 1) /\ z \in Nat /\ x = CacheBits - (z + (ByteBits - q))
        <5> HIDE DEF q
        <5> QED  BY <3>3, <4>1, PlaceInWord DEF run
      <4>3. t = z + r
        BY <3>2
      <4>4. q \in out[d.pos + i]
        BY <3>6
      <4> HIDE DEF q, z
      <4>5. x >= d.valid /\ x - d.valid = CacheBits - j
        <5> HIDE DEF x
        <5> QED  BY <1>1, <1>13, <3>1, <4>1, <4>2, <4>3, CacheSize
      <4>6. x - d.valid \in cache
        BY <1>9, <3>3, <4>4, <4>5
      <4> QED  BY <4>5, <4>6
    <3>7. CASE r = 1 /\ i = 0 /\ d.pos > 1 /\ out[d.pos - 1] = FF
      <4>1. CacheBits - 1 - d.valid \in d.cache
        BY <1>17, <3>7
      <4>2. ByteBits * 0 = 0
        BY CacheSize
      <4>3. t = 1
        BY <3>2, <3>7, <4>2
      <4>4. CacheBits - j = CacheBits - 1 - d.valid
        BY <1>1, <3>1, <4>3, CacheSize
      <4> QED  BY <1>9, <4>1, <4>4
    <3> QED  BY <1>8, <3>3, <3>5, <3>6, <3>7
  <2> QED  BY <2>1, <2>2
<1>25. pos > 1 /\ out[pos - 1] = FF => CacheBits - 1 - valid \in cache
  <2>1. CASE n = 0
    <3>1. pos = d.pos /\ y = 0
      BY <1>1, <2>1, CacheSize DEF pos, y
    <3>2. valid = d.valid
      BY <1>1, <1>13, <3>1
    <3> QED  BY <1>9, <1>17, <3>1, <3>2
  <2>2. CASE n # 0
    <3>1. pos - 1 \in d.pos..(d.pos + CacheBytes - 1)
      <4>1. d.pos \in Nat /\ n \in Nat /\ n <= CacheBytes /\ CacheBytes \in Nat
        BY <1>1, <1>13, CacheSize
      <4> QED  BY <2>2, <4>1 DEF pos
    <3> QED  BY <1>6, <3>1
  <2> QED  BY <2>1, <2>2
<1>26. Holds(v, out, bits)
  BY <1>14, <1>17, <1>21, <1>22, <1>23, <1>24, <1>25 DEF Holds, b
<1> QED  BY <1>15, <1>16, <1>26 DEF v, octets

\* MakeValid fills the cache or ends at the marker, and the reader loses nothing.
LEMMA MakeValidStep ==
  ASSUME NEW out, Scanned(out), NEW bits, Len(bits) >= 1, NEW d, InScan(d, out),
         Holds(d, out, bits), d.valid <= CacheBits - ByteBits
  PROVE  LET v == MakeValid(d, Given(out))
         IN  /\ InScan(v, out) /\ Holds(v, out, bits)
             /\ CacheIsFull(v) \/ v.pos = Len(out) + 1
<1>1. CASE CanReadOptimized(d)
  BY <1>1, OptimizedReadStep DEF MakeValid
<1>2. CASE ~CanReadOptimized(d)
  <2> DEFINE e == AddBytesFromStream(d, Given(out))
  <2>1. /\ InScan(e, out)
        /\ e.cache = d.cache /\ e.valid = d.valid /\ e.pos = d.pos
        /\ e.end = Len(out) + 3 \/ e.end - e.pos > RefillLimit
    BY RefillStep
  <2>2. MakeValid(d, Given(out)) = LoadBytes(e, Given(out))
    BY <1>2 DEF MakeValid
  <2> HIDE DEF e
  <2>3. Holds(e, out, bits)
    BY <2>1, HoldsBy
  <2>4. Loadable(e, out, bits)
    BY <2>1, <2>3 DEF Loadable
  <2> QED  BY <2>2, <2>4, LoadBytesStep
<1> QED  BY <1>1, <1>2

\* At the marker the cache holds all that is left.
LEMMA AllInCache ==
  ASSUME NEW out, Scanned(out), NEW bits, NEW d, InScan(d, out), Holds(d, out, bits),
         d.pos = Len(out) + 1
  PROVE  d.valid = Len(bits)
<1>1. Len(bits) = d.valid + Len(Ahead(out, d.pos)) /\ d.valid \in Nat
  BY DEF Holds, InScan, Readers
<1>2. Len(Ahead(out, d.pos)) = 0
  BY AheadEnd
<1> QED  BY <1>1, <1>2

\* A reader asked for no more bits than MakeValid provides, and than there are, has
\* them.
LEMMA FilledStep ==
  ASSUME NEW out, Scanned(out), NEW bits, Len(bits) >= 1, NEW d, InScan(d, out),
         Holds(d, out, bits), NEW n \in 0..(CacheBits - ByteBits)
  PROVE  LET v == Filled(d, n, Given(out))
         IN  /\ InScan(v, out) /\ Holds(v, out, bits)
             /\ v.valid >= n \/ (v.pos = Len(out) + 1 /\ v.valid = Len(bits))
<1> DEFINE v == Filled(d, n, Given(out))
<1>1. d.valid \in Nat
  BY DEF InScan, Readers
<1>2. CASE d.valid < n
  <2>1. v = MakeValid(d, Given(out))
    BY <1>2 DEF Filled
  <2>2. d.valid <= CacheBits - ByteBits
    BY <1>1, <1>2, CacheSize
  <2> HIDE DEF v
  <2>3. InScan(v, out) /\ Holds(v, out, bits) /\ (CacheIsFull(v) \/ v.pos = Len(out) + 1)
    BY <2>1, <2>2, MakeValidStep
  <2>4. CASE CacheIsFull(v)
    <3>1. v.valid \in Nat
      BY <2>3 DEF InScan, Readers
    <3>2. v.valid >= n
      BY <2>4, <3>1, CacheSize DEF CacheIsFull
    <3> QED  BY <2>3, <3>2 DEF v
  <2>5. CASE v.pos = Len(out) + 1
    BY <2>3, <2>5, AllInCache DEF v
  <2> QED  BY <2>3, <2>4, <2>5
<1>3. CASE ~(d.valid < n)
  <2>1. v = d
    BY <1>3 DEF Filled
  <2> QED  BY <1>1, <1>3, <2>1
<1> QED  BY <1>2, <1>3

\* Init leaves the whole scan to be read.
LEMMA InitReaderStep ==
  ASSUME NEW out, Scanned(out), NEW stream \in BOOLEAN
  PROVE  LET v == InitReader(stream, Given(out))
         IN  /\ InScan(v, out) /\ Holds(v, out, ScanBits(out, 1))
             /\ Len(ScanBits(out, 1)) >= 1
<1> DEFINE d == [cache |-> {}, valid |-> 0, pos |-> 1, nextFF |-> 1, stream |-> stream,
                 end |-> IF stream THEN 1 ELSE Len(Given(out)) + 1, ok |-> TRUE]
           e == AddBytesFromStream(d, Given(out))
           f == [e EXCEPT !.nextFF = FindNextFF(e, Given(out))]
           bits == ScanBits(out, 1)
<1>1. Len(Given(out)) = Len(out) + 2 /\ Len(out) \in Nat \ {0} /\ out \in Seq(Octets)
  BY GivenData DEF Scanned
<1>2. InScan(d, out)
  <2>1. d \in Readers
    BY <1>1, CacheSize DEF Readers
  <2>2. d.pos \in 1..(Len(out) + 1) /\ d.pos <= d.end /\ d.end <= Len(out) + 3
        /\ (~d.stream => d.end = Len(out) + 3) /\ d.nextFF <= d.end /\ d.ok
    BY <1>1
  <2>3. d.pos..(d.nextFF - 1) = {}
    OBVIOUS
  <2> HIDE DEF d
  <2> QED  BY <2>1, <2>2, <2>3 DEF InScan
<1>3. bits \in Seq(Bits) /\ Ahead(out, 1) = bits
  <2>1. bits \in Seq(Bits)
    BY <1>1, ScanPiecesJoined
  <2>2. Ahead(out, 1) = <<>> \o bits
    BY DEF Ahead
  <2> HIDE DEF bits
  <2> QED  BY <2>1, <2>2, ConcatEmptySeq
<1>4. Len(bits) >= 1
  <2>1. 1 \in 1..Len(out)
    BY <1>1
  <2>2. Len(Ahead(out, 1)) = ByteBits + Len(ScanBits(out, 1 + 1)) /\ ScanBits(out, 1 + 1) \in Seq(Bits)
    BY <2>1, AheadByte
  <2>3. Len(ScanBits(out, 1 + 1)) \in Nat
    BY <2>2
  <2> QED  BY <1>3, <2>2, <2>3, CacheSize
<1>5. Holds(d, out, bits)
  <2>1. d.valid = 0 /\ d.cache = {} /\ d.pos = 1
    OBVIOUS
  <2> HIDE DEF d, bits
  <2>2. /\ Len(bits) = d.valid + Len(Ahead(out, d.pos))
        /\ \A j \in 1..Len(Ahead(out, d.pos)) : bits[d.valid + j] = Ahead(out, d.pos)[j]
    BY <1>3, <2>1
  <2> QED  BY <1>3, <2>1, <2>2 DEF Holds
<1> HIDE DEF d
<1>6. InScan(e, out) /\ e.cache = d.cache /\ e.valid = d.valid /\ e.pos = d.pos
  BY <1>2, RefillStep
<1> HIDE DEF e
<1>7. InScan(f, out) /\ f.cache = e.cache /\ f.valid = e.valid /\ f.pos = e.pos
  BY <1>6, NextFFStep
<1>8. InitReader(stream, Given(out)) = MakeValid(f, Given(out))
  BY DEF InitReader, d, e, f
<1> HIDE DEF f, bits
<1>9. Holds(f, out, bits)
  <2>1. f.cache = d.cache /\ f.valid = d.valid /\ f.pos = d.pos
    BY <1>6, <1>7
  <2> QED  BY <1>5, <2>1, HoldsBy
<1>10. f.valid <= CacheBits - ByteBits
  <2>1. f.valid = 0
    BY <1>6, <1>7 DEF d
  <2> QED  BY <2>1, CacheSize
<1>11. LET v == MakeValid(f, Given(out)) IN InScan(v, out) /\ Holds(v, out, bits)
  BY <1>4, <1>7, <1>9, <1>10, MakeValidStep
<1> QED  BY <1>4, <1>8, <1>11 DEF bits

-----------------------------------------------------------------------------
(* The reads.                                                              *)

\* The bits behind the first n.
From(bits, n) == SubSeq(bits, n + 1, Len(bits))

\* A read returns the first n bits and leaves the others.
Reads(r, out, bits, n) ==
  /\ r.bits = SubSeq(bits, 1, n)
  /\ InScan(r.reader, out) /\ Holds(r.reader, out, From(bits, n))

\* The two parts of a sequence, by their places.
LEMMA PartsOf ==
  ASSUME NEW bits \in Seq(Bits), NEW n \in 0..Len(bits)
  PROVE  /\ From(bits, n) \in Seq(Bits) /\ Len(From(bits, n)) = Len(bits) - n
         /\ \A j \in 1..(Len(bits) - n) : From(bits, n)[j] = bits[n + j]
         /\ SubSeq(bits, 1, n) \in Seq(Bits) /\ Len(SubSeq(bits, 1, n)) = n
         /\ \A j \in 1..n : SubSeq(bits, 1, n)[j] = bits[j]
<1>1. Len(bits) \in Nat /\ \A j \in 1..Len(bits) : bits[j] \in Bits
  OBVIOUS
<1>2. /\ SubSeq(bits, 1, n) \in Seq(Bits) /\ Len(SubSeq(bits, 1, n)) = n
      /\ \A j \in 1..n : SubSeq(bits, 1, n)[j] = bits[j]
  <2>1. \A j \in 1..n : bits[j] \in Bits
    BY <1>1
  <2> QED  BY <1>1, <2>1
<1>3. /\ From(bits, n) \in Seq(Bits) /\ Len(From(bits, n)) = Len(bits) - n
      /\ \A j \in 1..(Len(bits) - n) : From(bits, n)[j] = bits[n + j]
  <2> DEFINE m == Len(bits)
             s == SubSeq(bits, n + 1, m)
  <2>1. \A j \in (n + 1)..m : bits[j] \in Bits
    BY <1>1
  <2>2. s \in Seq(Bits) /\ Len(s) = m - n /\ \A j \in 1..(m - n) : s[j] = bits[n + j]
    <3>1. s = [j \in 1..(m - n) |-> bits[n + j]]
      BY <1>1, <2>1
    <3>2. \A j \in 1..(m - n) : bits[n + j] \in Bits
      BY <1>1
    <3>3. m - n \in Nat
      BY <1>1
    <3> HIDE DEF s, m
    <3> QED  BY <3>1, <3>2, <3>3
  <2> QED  BY <2>2 DEF From
<1> QED  BY <1>2, <1>3

\* The top of the cache is what is read; what is behind it moves up.
LEMMA TakeStep ==
  ASSUME NEW out, Scanned(out), NEW bits, NEW d, InScan(d, out), Holds(d, out, bits),
         NEW n \in Nat, n <= d.valid
  PROVE  Reads(Take(d, n), out, bits, n)
<1> DEFINE m == Len(Ahead(out, d.pos))
           b == Ahead(out, d.pos)
           cache == ShiftLeft(d.cache, n, CacheBits)
           valid == d.valid - n
           v == Skip(d, n)
           rest == From(bits, n)
<1>1. /\ d \in Readers /\ d.cache \subseteq CachePlaces /\ d.valid \in 0..CacheBits
      /\ d.pos \in 1..(Len(out) + 1)
  BY DEF InScan, Readers
<1>2. m \in Nat
  BY <1>1, AheadLength
<1>3. /\ bits \in Seq(Bits) /\ Len(bits) = d.valid + m
      /\ \A j \in 1..d.valid : bits[j] = 1 => CacheBits - j \in d.cache
      /\ \A j \in 1..m : bits[d.valid + j] = b[j]
      /\ \A x \in d.cache : CacheBits - x <= Len(bits) /\ bits[CacheBits - x] = 1
      /\ d.pos > 1 /\ out[d.pos - 1] = FF => CacheBits - 1 - d.valid \in d.cache
  BY DEF Holds
<1>4. n \in 0..Len(bits) /\ CacheBits \in Nat
  BY <1>1, <1>2, <1>3, CacheSize
<1>5. /\ rest \in Seq(Bits) /\ Len(rest) = Len(bits) - n
      /\ \A j \in 1..(Len(bits) - n) : rest[j] = bits[n + j]
      /\ SubSeq(bits, 1, n) \in Seq(Bits) /\ Len(SubSeq(bits, 1, n)) = n
      /\ \A j \in 1..n : SubSeq(bits, 1, n)[j] = bits[j]
  BY <1>3, <1>4, PartsOf
<1>6. \A p \in d.cache : p \in 0..(CacheBits - 1)
  BY <1>1 DEF CachePlaces
<1> HIDE DEF m, b
\* What is returned.
<1>7. Take(d, n).bits = SubSeq(bits, 1, n)
  <2> DEFINE word == TopBits(d.cache, n, CacheBits)
             t == BitsOf(word, n)
  <2>1. t \in Seq(Bits) /\ Len(t) = n /\ \A i \in 1..n : t[i] = IF (n - i) \in word THEN 1 ELSE 0
    BY BitsOfWord
  <2>2. ASSUME NEW i \in 1..n PROVE (n - i) \in word <=> CacheBits - i \in d.cache
    <3>1. (n - i) \in word <=> \E p \in d.cache : p >= CacheBits - n /\ n - i = p - (CacheBits - n)
      BY DEF TopBits, ShiftRight
    <3>2. \A p \in d.cache : (p >= CacheBits - n /\ n - i = p - (CacheBits - n)) <=> p = CacheBits - i
      BY <1>1, <1>4, <1>6
    <3> QED  BY <3>1, <3>2
  <2>3. ASSUME NEW i \in 1..n PROVE CacheBits - i \in d.cache <=> bits[i] = 1
    <3>1. i \in 1..d.valid /\ CacheBits - (CacheBits - i) = i
      BY <1>1, <1>4
    <3> QED  BY <1>3, <3>1
  <2>4. ASSUME NEW i \in 1..n PROVE t[i] = SubSeq(bits, 1, n)[i]
    <3>1. bits[i] \in {0, 1}
      BY <1>3, <1>4 DEF Bits
    <3> HIDE DEF t, word
    <3> QED  BY <1>5, <2>1, <2>2, <2>3, <3>1
  <2>5. Take(d, n).bits = t
    BY DEF Take
  <2> HIDE DEF t
  <2> QED  BY <1>5, <2>1, <2>4, <2>5, SeqEqual
\* What is left.
<1>8. v = [d EXCEPT !.valid = valid, !.cache = cache]
  BY DEF Skip
<1>9. \A x : x \in cache <=> \E p \in d.cache : p + n < CacheBits /\ x = p + n
  BY DEF ShiftLeft
<1> HIDE DEF cache, v
<1>10. cache \subseteq CachePlaces
  <2>1. ASSUME NEW p \in d.cache, p + n < CacheBits PROVE p + n \in 0..(CacheBits - 1)
    <3>1. p \in Nat /\ n \in Nat /\ CacheBits \in Nat
      BY <1>4, <1>6
    <3> QED  BY <2>1, <3>1
  <2> QED  BY <1>9, <2>1 DEF CachePlaces
<1>11. valid \in 0..CacheBits /\ valid \in Nat /\ d.valid = n + valid
  BY <1>1, <1>4
<1> HIDE DEF valid
<1>12. /\ v \in Readers /\ v.cache = cache /\ v.valid = valid /\ v.pos = d.pos
       /\ v.end = d.end /\ v.nextFF = d.nextFF /\ v.stream = d.stream /\ v.ok = d.ok
  BY <1>1, <1>8, <1>10, <1>11 DEF Readers
<1>13. InScan(v, out)
  BY <1>12 DEF InScan
<1> HIDE DEF rest
<1>14. Len(rest) = valid + m /\ Len(bits) - n = valid + m /\ Len(bits) = n + (valid + m)
  BY <1>2, <1>3, <1>5, <1>11
<1>15. ASSUME NEW j \in 1..valid, rest[j] = 1 PROVE CacheBits - j \in cache
  <2>1. n + j \in 1..d.valid /\ j \in 1..(Len(bits) - n)
    BY <1>2, <1>11, <1>14
  <2>2. CacheBits - (n + j) \in d.cache
    BY <1>3, <1>5, <1>15, <2>1
  <2>3. CacheBits - (n + j) + n < CacheBits /\ CacheBits - (n + j) + n = CacheBits - j
    BY <1>4
  <2> QED  BY <1>9, <2>2, <2>3
<1>16. ASSUME NEW j \in 1..m PROVE rest[valid + j] = b[j]
  <2>1. valid + j \in 1..(Len(bits) - n) /\ n + (valid + j) = d.valid + j
    BY <1>2, <1>11, <1>14
  <2>2. bits[d.valid + j] = b[j]
    BY <1>3
  <2> QED  BY <1>5, <2>1, <2>2
<1>17. ASSUME NEW x \in cache PROVE CacheBits - x <= Len(rest) /\ rest[CacheBits - x] = 1
  <2>1. PICK p \in d.cache : p + n < CacheBits /\ x = p + n
    BY <1>9
  <2> DEFINE j == CacheBits - x
  <2>2. CacheBits - p <= Len(bits) /\ bits[CacheBits - p] = 1
    BY <1>3
  <2>3. j \in 1..(Len(bits) - n) /\ n + j = CacheBits - p
    BY <1>4, <1>6, <1>2, <1>11, <1>14, <2>1, <2>2
  <2> QED  BY <1>5, <2>2, <2>3
<1>18. d.pos > 1 /\ out[d.pos - 1] = FF => CacheBits - 1 - valid \in cache
  <2> SUFFICES ASSUME d.pos > 1 /\ out[d.pos - 1] = FF PROVE CacheBits - 1 - valid \in cache
    OBVIOUS
  <2>1. CacheBits - 1 - d.valid \in d.cache
    BY <1>3
  <2>2. /\ (CacheBits - 1 - d.valid) + n < CacheBits
        /\ (CacheBits - 1 - d.valid) + n = CacheBits - 1 - valid
    BY <1>4, <1>11
  <2> QED  BY <1>9, <2>1, <2>2
<1>19. Holds(v, out, rest)
  BY <1>5, <1>12, <1>14, <1>15, <1>16, <1>17, <1>18 DEF Holds, m, b
<1>20. Take(d, n).reader = v
  BY DEF Take, v
<1> QED  BY <1>7, <1>13, <1>19, <1>20 DEF Reads, rest

\* ReadValue.
LEMMA ReadValueStep ==
  ASSUME NEW out, Scanned(out), NEW bits, NEW d, InScan(d, out), Holds(d, out, bits),
         NEW n \in 1..Len(bits), n <= CacheBits - ByteBits
  PROVE  Reads(ReadValue(d, n, Given(out)), out, bits, n)
<1> DEFINE v == Filled(d, n, Given(out))
<1>1. Len(bits) >= 1 /\ n \in 0..(CacheBits - ByteBits) /\ n \in Nat /\ Len(bits) \in Nat
  <2>1. Len(bits) \in Nat
    BY DEF Holds
  <2> QED  BY <2>1, CacheSize
<1>2. /\ InScan(v, out) /\ Holds(v, out, bits)
      /\ v.valid >= n \/ (v.pos = Len(out) + 1 /\ v.valid = Len(bits))
  BY <1>1, FilledStep
<1> HIDE DEF v
<1>3. v.ok /\ v.valid >= n
  BY <1>1, <1>2 DEF InScan
<1>4. ReadValue(d, n, Given(out)) = Take(v, n)
  BY <1>3 DEF ReadValue, v
<1> QED  BY <1>1, <1>2, <1>3, <1>4, TakeStep

\* ReadBit.
LEMMA ReadBitStep ==
  ASSUME NEW out, Scanned(out), NEW bits, NEW d, InScan(d, out), Holds(d, out, bits),
         Len(bits) >= 1
  PROVE  Reads(ReadBit(d, Given(out)), out, bits, 1)
<1> DEFINE v == Filled(d, 1, Given(out))
<1>1. 1 \in 0..(CacheBits - ByteBits)
  BY CacheSize
<1>2. /\ InScan(v, out) /\ Holds(v, out, bits)
      /\ v.valid >= 1 \/ (v.pos = Len(out) + 1 /\ v.valid = Len(bits))
  BY <1>1, FilledStep
<1> HIDE DEF v
<1>3. v.ok /\ 1 <= v.valid
  <2>1. v.valid \in Nat /\ v.ok
    BY <1>2 DEF InScan, Readers
  <2> QED  BY <1>2, <2>1
<1>4. ReadBit(d, Given(out)) = Take(v, 1)
  BY <1>3 DEF ReadBit, v
<1> QED  BY <1>2, <1>3, <1>4, TakeStep

\* PeekByte and Skip.
LEMMA ReadShortCodeStep ==
  ASSUME NEW out, Scanned(out), NEW bits, NEW d, InScan(d, out), Holds(d, out, bits),
         NEW n \in 1..Len(bits), n <= ByteBits
  PROVE  Reads(ReadShortCode(d, n, Given(out)), out, bits, n)
<1> DEFINE v == Filled(d, ByteBits, Given(out))
<1>1. Len(bits) >= 1 /\ ByteBits \in 0..(CacheBits - ByteBits) /\ n \in Nat /\ Len(bits) \in Nat
  <2>1. Len(bits) \in Nat
    BY DEF Holds
  <2> QED  BY <2>1, CacheSize
<1>2. /\ InScan(v, out) /\ Holds(v, out, bits)
      /\ v.valid >= ByteBits \/ (v.pos = Len(out) + 1 /\ v.valid = Len(bits))
  BY <1>1, FilledStep
<1> HIDE DEF v
<1>3. v.ok /\ n <= v.valid
  <2>1. v.valid \in Nat /\ v.ok
    BY <1>2 DEF InScan, Readers
  <2> QED  BY <1>1, <1>2, <2>1, CacheSize
<1>4. ReadShortCode(d, n, Given(out)) = Take(v, n)
  BY <1>3 DEF ReadShortCode, v
<1> QED  BY <1>1, <1>2, <1>3, <1>4, TakeStep

\* A unary code is a run of 0 bits and a 1.
LEMMA UnaryCodeBits ==
  ASSUME NEW zeros \in Nat
  PROVE  /\ UnaryCode(zeros) \in Seq(Bits) /\ Len(UnaryCode(zeros)) = zeros + 1
         /\ \A i \in 1..zeros : UnaryCode(zeros)[i] = 0
         /\ UnaryCode(zeros)[zeros + 1] = 1
<1>1. UnaryCode(zeros) = [i \in 1..(zeros + 1) |-> IF i > zeros THEN 1 ELSE 0]
  BY DEF UnaryCode
<1>2. zeros + 1 \in Nat
  OBVIOUS
<1> QED  BY <1>1, <1>2 DEF Bits

\* What the bits begin with when they begin with a unary code.
BeginWithRun(bits, zeros) ==
  /\ zeros \in Nat /\ zeros + 1 <= Len(bits)
  /\ \A i \in 1..zeros : bits[i] = 0
  /\ bits[zeros + 1] = 1

\* The top of the cache shows the length of a run that it holds, and no more of one
\* that is as long as what is inspected.
LEMMA LeadingZerosStep ==
  ASSUME NEW out, Scanned(out), NEW bits, NEW d, InScan(d, out), Holds(d, out, bits),
         NEW zeros, BeginWithRun(bits, zeros),
         d.valid >= HighBitsStep \/ d.valid = Len(bits)
  PROVE  LeadingZeros(d) = IF zeros < HighBitsStep THEN zeros ELSE HighBitsStep
<1> DEFINE m == HighBitsStep
           In(n) == (CacheBits - 1 - n) \in d.cache
           First(n) == /\ n = m \/ In(n)
                       /\ \A i \in 0..(n - 1) : ~In(i)
           k == IF zeros < m THEN zeros ELSE m
<1>1. m \in Nat /\ m <= CacheBits - ByteBits /\ CacheBits \in Nat
  BY CacheSize DEF HighBitsStep
<1>2. /\ d.valid \in 0..CacheBits /\ zeros \in Nat /\ zeros + 1 <= Len(bits) /\ Len(bits) \in Nat
      /\ \A i \in 1..zeros : bits[i] = 0
      /\ bits[zeros + 1] = 1
      /\ \A j \in 1..d.valid : bits[j] = 1 => CacheBits - j \in d.cache
      /\ \A x \in d.cache : CacheBits - x <= Len(bits) /\ bits[CacheBits - x] = 1
  BY DEF InScan, Readers, Holds, BeginWithRun
<1> HIDE DEF m
<1>3. ASSUME NEW i \in 0..(zeros - 1) PROVE ~In(i)
  <2> SUFFICES ASSUME In(i) PROVE FALSE
    OBVIOUS
  <2>1. bits[CacheBits - (CacheBits - 1 - i)] = 1
    BY <1>2
  <2>2. CacheBits - (CacheBits - 1 - i) = i + 1 /\ i + 1 \in 1..zeros
    BY <1>1, <1>2
  <2>3. bits[i + 1] = 0
    BY <1>2, <2>2
  <2> QED  BY <2>1, <2>2, <2>3
<1>4. zeros < m => In(zeros)
  <2> SUFFICES ASSUME zeros < m PROVE In(zeros)
    OBVIOUS
  <2>1. zeros + 1 \in 1..d.valid
    BY <1>1, <1>2 DEF m
  <2>2. CacheBits - (zeros + 1) = CacheBits - 1 - zeros
    BY <1>1, <1>2
  <2> QED  BY <1>2, <2>1, <2>2
<1>5. k \in 0..m /\ First(k)
  <2>1. k \in 0..m /\ k <= zeros
    BY <1>1, <1>2
  <2>2. k = m \/ In(k)
    BY <1>4
  <2>3. \A i \in 0..(k - 1) : i \in 0..(zeros - 1)
    BY <1>2, <2>1
  <2> HIDE DEF In, k
  <2> QED  BY <1>3, <2>1, <2>2, <2>3
<1>6. ASSUME NEW n \in 0..m, First(n) PROVE n = k
  <2>1. ~(n < k)
    <3> SUFFICES ASSUME n < k PROVE FALSE
      OBVIOUS
    <3>1. n # m /\ n \in 0..(k - 1)
      BY <1>1, <1>2
    <3>2. In(n)
      BY <1>6, <3>1
    <3> HIDE DEF In, k
    <3> QED  BY <1>5, <3>1, <3>2
  <2>2. ~(k < n)
    <3> SUFFICES ASSUME k < n PROVE FALSE
      OBVIOUS
    <3>1. k # m /\ k \in 0..(n - 1)
      BY <1>1, <1>5
    <3> HIDE DEF In, k
    <3> QED  BY <1>5, <1>6, <3>1
  <2>3. k \in Int
    BY <1>5
  <2> HIDE DEF k
  <2> QED  BY <2>1, <2>2, <2>3
<1>7. LeadingZeros(d) = CHOOSE n \in 0..m : First(n)
  BY DEF LeadingZeros, m
<1> HIDE DEF First, k
<1>8. LeadingZeros(d) \in 0..m /\ First(LeadingZeros(d))
  BY <1>5, <1>7
<1>9. LeadingZeros(d) = k
  BY <1>6, <1>8
<1> QED  BY <1>9 DEF k, m

\* A turn of the loop that reads a long run: a bit, unless a 1 was read or a read failed.
ZerosTurn(r, octets) ==
  LET b == ReadBit(r.reader, octets)
  IN  IF ~r.reader.ok \/ 1 \in {r.bits[i] : i \in DOMAIN r.bits} THEN r
      ELSE [b EXCEPT !.bits = IF b.reader.ok THEN r.bits \o @ ELSE <<>>]

\* f is what has been read after each of the turns.
ZerosRead(f, d, bits, octets, m) ==
  f = [n \in 0..m |-> IF n = 0 THEN [reader |-> d, bits |-> bits] ELSE ZerosTurn(f[n - 1], octets)]

\* The loop is defined for any number of turns.
LEMMA ZerosDefined ==
  ASSUME NEW d, NEW bits, NEW octets, NEW m \in Nat
  PROVE  \E f : ZerosRead(f, d, bits, octets, m)
<1> DEFINE G(f, n) == IF n = 0 THEN [reader |-> d, bits |-> bits] ELSE ZerosTurn(f[n - 1], octets)
           Is(f, k) == f = [n \in 0..k |-> G(f, n)]
           Fails == {k \in 0..m : ~\E f : Is(f, k)}
<1>1. ASSUME Fails # {} PROVE FALSE
  <2>1. PICK l \in Fails : \A k \in Fails : l <= k
    <3>1. Fails \in SUBSET Nat
      OBVIOUS
    <3> HIDE DEF Fails
    <3> QED  BY <1>1, <3>1, LeastElement
  <2>2. l \in 0..m /\ ~\E f : Is(f, l)
    OBVIOUS
  <2>3. \E f : \A n \in 0..(l - 1) : f[n] = G(f, n)
    <3>1. CASE l = 0
      <4>1. 0..(l - 1) = {}
        BY <3>1
      <4> QED  BY <4>1
    <3>2. CASE l # 0
      <4>1. l - 1 \in 0..m /\ l - 1 \notin Fails
        <5>1. l - 1 \in 0..m /\ ~(l <= l - 1)
          BY <2>2, <3>2
        <5> HIDE DEF Fails
        <5> QED  BY <2>1, <5>1
      <4>2. PICK f : Is(f, l - 1)
        <5> HIDE DEF Is
        <5> QED  BY <4>1
      <4> HIDE DEF G
      <4> QED  BY <4>2
    <3> QED  BY <3>1, <3>2
  <2>4. PICK f : \A n \in 0..(l - 1) : f[n] = G(f, n)
    BY <2>3
  <2> DEFINE g == [n \in 0..l |-> IF n = l THEN G(f, n) ELSE f[n]]
  <2>5. ASSUME NEW n \in 0..l PROVE g[n] = G(g, n)
    <3>1. G(f, n) = G(g, n)
      <4>1. CASE n = 0
        BY <4>1
      <4>2. CASE n # 0
        <5>1. n - 1 \in 0..l /\ n - 1 # l
          BY <2>2, <4>2
        <5>2. g[n - 1] = f[n - 1]
          <6> HIDE DEF G
          <6> QED  BY <5>1
        <5> HIDE DEF g
        <5> QED  BY <4>2, <5>2
      <4> QED  BY <4>1, <4>2
    <3>2. g[n] = G(f, n)
      <4>1. n \in 0..(l - 1) \/ n = l
        BY <2>2
      <4> HIDE DEF G
      <4> QED  BY <2>4, <4>1
    <3> QED  BY <3>1, <3>2
  <2>6. Is(g, l)
    <3>1. g = [n \in 0..l |-> g[n]]
      <4> HIDE DEF G
      <4> QED  OBVIOUS
    <3> HIDE DEF g, G
    <3> QED  BY <2>5, <3>1
  <2> HIDE DEF Is, g
  <2> QED  BY <2>2, <2>6
<1> HIDE DEF Is
<1>2. \E f : Is(f, m)
  BY <1>1
<1> QED  BY <1>2 DEF Is, ZerosRead

\* How many bits the loop may find.
BitsAhead(d, octets) == CacheBits + ByteBits * (Len(octets) + 1 - d.pos)

\* What the loop returns.
LEMMA ZerosValue ==
  ASSUME NEW d, NEW bits, NEW octets, BitsAhead(d, octets) \in Nat
  PROVE  \E f :
           /\ \A n \in 0..BitsAhead(d, octets) :
                f[n] = IF n = 0 THEN [reader |-> d, bits |-> bits] ELSE ZerosTurn(f[n - 1], octets)
           /\ ReadZeros(d, bits, octets) = f[BitsAhead(d, octets)]
<1> DEFINE m == BitsAhead(d, octets)
           h == CHOOSE f : ZerosRead(f, d, bits, octets, m)
<1>1. ZerosRead(h, d, bits, octets, m)
  <2>1. \E f : ZerosRead(f, d, bits, octets, m)
    BY ZerosDefined
  <2> QED  BY <2>1
<1>2. ReadZeros(d, bits, octets) = h[m]
  BY DEF ReadZeros, ZerosTurn, ZerosRead, BitsAhead
<1>3. \A n \in 0..m :
        h[n] = IF n = 0 THEN [reader |-> d, bits |-> bits] ELSE ZerosTurn(h[n - 1], octets)
  <2> HIDE DEF h, m
  <2> QED  BY <1>1 DEF ZerosRead
<1> HIDE DEF h
<1> QED  BY <1>2, <1>3

\* What is read on, behind what was read.
LEMMA PartsJoined ==
  ASSUME NEW bits \in Seq(Bits), NEW p \in Nat, NEW n \in Nat, p + n <= Len(bits)
  PROVE  /\ From(From(bits, p), n) = From(bits, p + n)
         /\ SubSeq(bits, 1, p) \o SubSeq(From(bits, p), 1, n) = SubSeq(bits, 1, p + n)
<1> DEFINE s == From(bits, p)
           a == SubSeq(bits, 1, p)
           b == SubSeq(s, 1, n)
           c == From(s, n)
           u == SubSeq(bits, 1, p + n)
           v == From(bits, p + n)
<1>1. Len(bits) \in Nat /\ p \in 0..Len(bits) /\ p + n \in 0..Len(bits)
  <2>1. Len(bits) \in Nat
    OBVIOUS
  <2> QED  BY <2>1
<1>2. /\ s \in Seq(Bits) /\ Len(s) = Len(bits) - p
      /\ \A j \in 1..(Len(bits) - p) : s[j] = bits[p + j]
      /\ a \in Seq(Bits) /\ Len(a) = p /\ \A j \in 1..p : a[j] = bits[j]
  BY <1>1, PartsOf
<1>3. /\ v \in Seq(Bits) /\ Len(v) = Len(bits) - (p + n)
      /\ \A j \in 1..(Len(bits) - (p + n)) : v[j] = bits[(p + n) + j]
      /\ u \in Seq(Bits) /\ Len(u) = p + n /\ \A j \in 1..(p + n) : u[j] = bits[j]
  <2> DEFINE k == p + n
  <2>1. k \in 0..Len(bits)
    BY <1>1
  <2> HIDE DEF k
  <2>2. /\ From(bits, k) \in Seq(Bits) /\ Len(From(bits, k)) = Len(bits) - k
        /\ \A j \in 1..(Len(bits) - k) : From(bits, k)[j] = bits[k + j]
        /\ SubSeq(bits, 1, k) \in Seq(Bits) /\ Len(SubSeq(bits, 1, k)) = k
        /\ \A j \in 1..k : SubSeq(bits, 1, k)[j] = bits[j]
    BY <2>1, PartsOf
  <2> QED  BY <2>2 DEF k
<1> HIDE DEF s, a, u, v
<1>4. /\ c \in Seq(Bits) /\ Len(c) = Len(s) - n
      /\ \A j \in 1..(Len(s) - n) : c[j] = s[n + j]
      /\ b \in Seq(Bits) /\ Len(b) = n /\ \A j \in 1..n : b[j] = s[j]
  <2>1. n \in 0..Len(s)
    BY <1>1, <1>2
  <2> QED  BY <1>2, <2>1, PartsOf
<1> HIDE DEF b, c
<1>5. c = v
  <2>1. Len(c) = Len(v)
    BY <1>1, <1>2, <1>3, <1>4
  <2>2. ASSUME NEW j \in 1..Len(c) PROVE c[j] = v[j]
    <3>1. j \in 1..(Len(s) - n) /\ n + j \in 1..(Len(bits) - p) /\ p + (n + j) = (p + n) + j
          /\ j \in 1..(Len(bits) - (p + n))
      <4>1. /\ Len(bits) \in Nat /\ p \in Nat /\ n \in Nat
            /\ Len(s) = Len(bits) - p /\ Len(c) = Len(s) - n
        BY <1>1, <1>2, <1>4
      <4> QED  BY <4>1
    <3>2. c[j] = s[n + j]
      BY <1>4, <3>1
    <3>3. s[n + j] = bits[p + (n + j)]
      <4> DEFINE k == n + j
      <4>1. k \in 1..(Len(bits) - p)
        BY <3>1
      <4> HIDE DEF k
      <4>2. s[k] = bits[p + k]
        BY <1>2, <4>1
      <4> QED  BY <4>2 DEF k
    <3>4. v[j] = bits[(p + n) + j]
      BY <1>3, <3>1
    <3> QED  BY <3>1, <3>2, <3>3, <3>4
  <2> QED  BY <1>3, <1>4, <2>1, <2>2, SeqEqual
<1> DEFINE w == a \o b
<1>6. w = u
  <2>1. /\ w \in Seq(Bits) /\ Len(w) = p + n
        /\ \A i \in 1..p : w[i] = a[i]
        /\ \A i \in 1..n : w[p + i] = b[i]
    <3>1. a \in Seq(Bits) /\ b \in Seq(Bits) /\ Len(a) = p /\ Len(b) = n
      BY <1>2, <1>4
    <3>2. /\ w \in Seq(Bits) /\ Len(w) = Len(a) + Len(b)
          /\ \A i \in 1..Len(a) : w[i] = a[i]
          /\ \A i \in 1..Len(b) : w[Len(a) + i] = b[i]
      <4>1. a \in Seq(Bits) /\ b \in Seq(Bits)
        BY <3>1
      <4> QED  BY <4>1, Joined
    <3> HIDE DEF w
    <3> QED  BY <3>1, <3>2
  <2> HIDE DEF w
  <2>2. ASSUME NEW j \in 1..Len(w) PROVE w[j] = u[j]
    <3>1. CASE j <= p
      <4>1. j \in 1..p /\ j \in 1..(p + n)
        BY <2>1, <3>1
      <4> QED  BY <1>2, <1>3, <2>1, <4>1
    <3>2. CASE ~(j <= p)
      <4>1. j - p \in 1..n /\ p + (j - p) = j /\ j - p \in 1..(Len(bits) - p) /\ j \in 1..(p + n)
        BY <1>1, <2>1, <3>2
      <4>2. w[j] = b[j - p] /\ b[j - p] = s[j - p]
        BY <1>4, <2>1, <4>1
      <4>3. s[j - p] = bits[j]
        BY <1>2, <4>1
      <4> QED  BY <1>3, <4>1, <4>2, <4>3
    <3> QED  BY <3>1, <3>2
  <2> QED  BY <1>3, <2>1, <2>2, SeqEqual
<1> QED  BY <1>5, <1>6 DEF a, b, c, s, u, v

\* One more bit is read until the 1 has been.
LEMMA ZerosTurnStep ==
  ASSUME NEW out, Scanned(out), NEW bits, bits \in Seq(Bits), NEW zeros, BeginWithRun(bits, zeros),
         NEW p \in 0..(zeros + 1), NEW r, Reads(r, out, bits, p)
  PROVE  Reads(ZerosTurn(r, Given(out)), out, bits, IF p <= zeros THEN p + 1 ELSE p)
<1> DEFINE b == ReadBit(r.reader, Given(out))
           v == ZerosTurn(r, Given(out))
<1>1. /\ zeros \in Nat /\ zeros + 1 <= Len(bits) /\ Len(bits) \in Nat /\ p \in Nat /\ p \in 0..Len(bits)
      /\ \A i \in 1..zeros : bits[i] = 0
      /\ bits[zeros + 1] = 1
  BY DEF BeginWithRun
<1>2. r.bits = SubSeq(bits, 1, p) /\ InScan(r.reader, out) /\ Holds(r.reader, out, From(bits, p))
      /\ r.reader.ok
  BY DEF Reads, InScan
<1>3. /\ r.bits \in Seq(Bits) /\ Len(r.bits) = p /\ DOMAIN r.bits = 1..p
      /\ \A j \in 1..p : r.bits[j] = bits[j]
  <2>1. /\ SubSeq(bits, 1, p) \in Seq(Bits) /\ Len(SubSeq(bits, 1, p)) = p
        /\ \A j \in 1..p : SubSeq(bits, 1, p)[j] = bits[j]
    BY <1>1, PartsOf
  <2> QED  BY <1>2, <2>1
<1>4. CASE p <= zeros
  <2>1. 1 \notin {r.bits[i] : i \in DOMAIN r.bits}
    <3>1. \A i \in 1..p : r.bits[i] = 0
      BY <1>1, <1>3, <1>4
    <3> QED  BY <1>3, <3>1
  <2>2. Len(From(bits, p)) >= 1
    <3>1. Len(From(bits, p)) = Len(bits) - p
      BY <1>1, PartsOf
    <3> QED  BY <1>1, <1>4, <3>1
  <2>3. Reads(b, out, From(bits, p), 1)
    BY <1>2, <2>2, ReadBitStep
  <2>4. PICK d, s : b = [reader |-> d, bits |-> s]
    BY DEF ReadBit, Take, FailedRead
  <2> HIDE DEF b
  <2>5. /\ s = SubSeq(From(bits, p), 1, 1) /\ InScan(d, out) /\ d.ok
        /\ Holds(d, out, From(From(bits, p), 1))
    BY <2>3, <2>4 DEF Reads, InScan
  <2>6. v = [reader |-> d, bits |-> r.bits \o s]
    <3>1. v = [b EXCEPT !.bits = IF b.reader.ok THEN r.bits \o @ ELSE <<>>]
      BY <1>2, <2>1 DEF ZerosTurn, b
    <3>2. b.reader = d /\ b.bits = s
      BY <2>4
    <3>3. v = [b EXCEPT !.bits = r.bits \o s]
      BY <2>5, <3>1, <3>2
    <3> QED  BY <2>4, <3>3
  <2>7. /\ From(From(bits, p), 1) = From(bits, p + 1)
        /\ SubSeq(bits, 1, p) \o SubSeq(From(bits, p), 1, 1) = SubSeq(bits, 1, p + 1)
    <3>1. p + 1 <= Len(bits)
      BY <1>1, <1>4
    <3> QED  BY <1>1, <3>1, PartsJoined
  <2> HIDE DEF v
  <2>8. v.reader = d /\ v.bits = r.bits \o s
    BY <2>6
  <2>9. Reads(v, out, bits, p + 1)
    BY <1>2, <2>5, <2>7, <2>8 DEF Reads
  <2> QED  BY <1>4, <2>9 DEF v
<1>5. CASE ~(p <= zeros)
  <2>1. p = zeros + 1 /\ p \in 1..p
    BY <1>1, <1>5
  <2>2. r.bits[p] = 1
    BY <1>1, <1>3, <2>1
  <2>3. 1 \in {r.bits[i] : i \in DOMAIN r.bits}
    BY <1>3, <2>1, <2>2
  <2>4. v = r
    BY <2>3 DEF ZerosTurn
  <2> QED  BY <1>5, <2>4
<1> QED  BY <1>4, <1>5

\* The loop reads to the 1 that ends the run.
LEMMA ReadZerosStep ==
  ASSUME NEW out, Scanned(out), NEW bits, bits \in Seq(Bits), NEW zeros, BeginWithRun(bits, zeros),
         NEW p \in 0..zeros, NEW r, Reads(r, out, bits, p), r = [reader |-> r.reader, bits |-> r.bits]
  PROVE  Reads(ReadZeros(r.reader, r.bits, Given(out)), out, bits, zeros + 1)
<1> DEFINE m == BitsAhead(r.reader, Given(out))
           read(n) == IF p + n <= zeros THEN p + n ELSE zeros + 1
<1>1. /\ zeros \in Nat /\ zeros + 1 <= Len(bits) /\ Len(bits) \in Nat /\ p \in Nat /\ p \in 0..Len(bits)
  BY DEF BeginWithRun
<1>2. m \in Nat /\ zeros + 1 - p <= m
  <2> DEFINE d == r.reader
             pos == d.pos
             l == Len(out)
             k == Len(Given(out))
             s == Len(From(bits, p))
             a == Len(Ahead(out, pos))
             y == ByteBits * (l + 1 - pos)
             z == ByteBits * (k + 1 - pos)
  <2>1. d.valid \in 0..CacheBits /\ pos \in 1..(l + 1) /\ s = d.valid + a
    BY DEF Reads, InScan, Readers, Holds
  <2>2. k = l + 2 /\ l \in Nat
    BY GivenData
  <2>3. a \in Nat /\ a <= y
    BY <2>1, AheadLength
  <2>4. s = Len(bits) - p
    <3>1. p \in 0..Len(bits)
      BY <1>1
    <3> QED  BY <3>1, PartsOf
  <2>5. m = CacheBits + z
    BY DEF BitsAhead
  <2> HIDE DEF m, s, a, k, l, pos, d
  <2>6. l + 1 - pos \in Nat /\ k + 1 - pos \in Nat /\ l + 1 - pos <= k + 1 - pos
    BY <2>1, <2>2
  <2>7. y <= z /\ y \in Nat /\ z \in Nat
    <3>1. ByteBits \in Nat
      BY CacheSize
    <3> QED  BY <2>6, <3>1, ProductGrows
  <2> HIDE DEF y, z
  <2>8. m \in Nat /\ s <= m /\ s \in Nat
    <3>1. CacheBits \in Nat
      BY CacheSize
    <3> QED  BY <2>1, <2>3, <2>5, <2>7, <3>1
  <2>9. zeros + 1 - p <= s
    BY <1>1, <2>4, <2>8
  <2>10. zeros + 1 - p \in Int
    BY <1>1
  <2> QED  BY <2>8, <2>9, <2>10
<1>3. PICK f :
        /\ \A n \in 0..m : f[n] = IF n = 0 THEN [reader |-> r.reader, bits |-> r.bits]
                                  ELSE ZerosTurn(f[n - 1], Given(out))
        /\ ReadZeros(r.reader, r.bits, Given(out)) = f[m]
  BY <1>2, ZerosValue
<1> HIDE DEF m
<1> DEFINE Fails == {n \in 0..m : ~Reads(f[n], out, bits, read(n))}
<1>4. ASSUME Fails # {} PROVE FALSE
  <2>1. PICK l \in Fails : \A k \in Fails : l <= k
    <3>1. Fails \in SUBSET Nat
      OBVIOUS
    <3> HIDE DEF Fails
    <3> QED  BY <1>4, <3>1, LeastElement
  <2>2. l \in 0..m /\ ~Reads(f[l], out, bits, read(l))
    OBVIOUS
  <2>3. CASE l = 0
    <3>1. f[0] = r /\ read(0) = p
      BY <1>1, <1>3, <2>2, <2>3
    <3> QED  BY <2>2, <2>3, <3>1
  <2>4. CASE l # 0
    <3> DEFINE q == read(l - 1)
    <3>1. l - 1 \in 0..m /\ ~(l <= l - 1) /\ l \in Nat
      BY <1>2, <2>2, <2>4
    <3>2. Reads(f[l - 1], out, bits, q)
      <4>1. l - 1 \notin Fails
        <5> HIDE DEF Fails
        <5> QED  BY <2>1, <3>1
      <4> QED  BY <3>1, <4>1
    <3>3. f[l] = ZerosTurn(f[l - 1], Given(out))
      BY <1>3, <2>2, <2>4
    <3>4. q \in 0..(zeros + 1) /\ (IF q <= zeros THEN q + 1 ELSE q) = read(l)
      BY <1>1, <3>1
    <3> HIDE DEF q, read, Fails
    <3>5. Reads(ZerosTurn(f[l - 1], Given(out)), out, bits, IF q <= zeros THEN q + 1 ELSE q)
      BY <3>2, <3>4, ZerosTurnStep
    <3> QED  BY <2>2, <3>3, <3>4, <3>5
  <2> QED  BY <2>3, <2>4
<1>5. Reads(f[m], out, bits, read(m))
  <2>1. m \in 0..m /\ m \notin Fails
    <3> HIDE DEF Fails
    <3> QED  BY <1>2, <1>4
  <2> QED  BY <2>1
<1>6. read(m) = zeros + 1
  BY <1>1, <1>2
<1> QED  BY <1>3, <1>5, <1>6

\* ReadHighBits reads a unary code of any length.
LEMMA ReadHighBitsStep ==
  ASSUME NEW out, Scanned(out), NEW bits, NEW d, InScan(d, out), Holds(d, out, bits),
         NEW zeros, BeginWithRun(bits, zeros)
  PROVE  Reads(ReadHighBits(d, Given(out)), out, bits, zeros + 1)
<1> DEFINE v == Filled(d, HighBitsStep, Given(out))
           n == LeadingZeros(v)
<1>1. HighBitsStep \in 2..(CacheBits - ByteBits) /\ HighBitsStep \in 0..(CacheBits - ByteBits)
  BY CacheSize DEF HighBitsStep
<1>2. zeros \in Nat /\ zeros + 1 <= Len(bits) /\ Len(bits) \in Nat /\ bits \in Seq(Bits)
  BY DEF BeginWithRun, Holds
<1>3. /\ InScan(v, out) /\ Holds(v, out, bits)
      /\ v.valid >= HighBitsStep \/ (v.pos = Len(out) + 1 /\ v.valid = Len(bits))
  <2>1. Len(bits) >= 1
    BY <1>2
  <2> QED  BY <1>1, <2>1, FilledStep
<1> HIDE DEF v
<1>4. n = IF zeros < HighBitsStep THEN zeros ELSE HighBitsStep
  <2>1. v.valid >= HighBitsStep \/ v.valid = Len(bits)
    BY <1>3
  <2> QED  BY <1>3, <2>1, LeadingZerosStep
<1>5. v.ok /\ v.valid \in Nat
  BY <1>3 DEF InScan, Readers
<1> HIDE DEF n
<1>6. CASE zeros < HighBitsStep
  <2>1. n = zeros /\ n < HighBitsStep
    BY <1>4, <1>6
  <2>2. ReadHighBits(d, Given(out)) = Take(v, n + 1)
    BY <1>5, <2>1 DEF ReadHighBits, v, n
  <2>3. zeros + 1 \in Nat /\ zeros + 1 <= v.valid
    BY <1>1, <1>2, <1>3, <1>5, <1>6
  <2> QED  BY <1>3, <2>1, <2>2, <2>3, TakeStep
<1>7. CASE ~(zeros < HighBitsStep)
  <2> DEFINE p == HighBitsStep - 1
             r == Take(v, p)
  <2>1. n = HighBitsStep /\ ~(n < HighBitsStep)
    BY <1>1, <1>4, <1>7
  <2>2. ReadHighBits(d, Given(out)) = ReadZeros(r.reader, r.bits, Given(out))
    BY <1>5, <2>1 DEF ReadHighBits, v, n
  <2>3. p \in Nat /\ p <= v.valid /\ p \in 0..zeros
    BY <1>1, <1>2, <1>3, <1>5, <1>7
  <2> HIDE DEF p
  <2>4. Reads(r, out, bits, p)
    BY <1>3, <2>3, TakeStep
  <2>5. r = [reader |-> r.reader, bits |-> r.bits]
    BY DEF Take
  <2> HIDE DEF r
  <2> QED  BY <1>2, <2>2, <2>3, <2>4, <2>5, ReadZerosStep
<1> QED  BY <1>6, <1>7

-----------------------------------------------------------------------------
(* Behind the last codeword.                                               *)

\* What fills up the last byte.
IsFill(bits) == bits \in Seq(Bits) /\ Len(bits) < ByteBits /\ \A i \in 1..Len(bits) : bits[i] = 0

\* With nothing but fill to be read the reader is at the marker, and its cache is empty.
LEMMA AtEnd ==
  ASSUME NEW out, Scanned(out), NEW fill, IsFill(fill), NEW d, InScan(d, out), Holds(d, out, fill)
  PROVE  d.pos = Len(out) + 1 /\ d.cache = {} /\ d.valid = Len(fill)
<1>1. /\ d.pos \in 1..(Len(out) + 1) /\ d.valid \in 0..CacheBits /\ d.cache \subseteq CachePlaces
      /\ Len(fill) = d.valid + Len(Ahead(out, d.pos)) /\ Len(out) \in Nat
      /\ \A x \in d.cache : CacheBits - x <= Len(fill) /\ fill[CacheBits - x] = 1
  BY DEF InScan, Readers, Holds, Scanned
<1>2. /\ Len(fill) \in Nat /\ Len(fill) < ByteBits /\ \A i \in 1..Len(fill) : fill[i] = 0
  BY DEF IsFill
<1>3. d.pos = Len(out) + 1
  <2> SUFFICES ASSUME d.pos # Len(out) + 1 PROVE FALSE
    OBVIOUS
  <2>1. d.pos \in 1..Len(out)
    BY <1>1
  <2>2. /\ Len(Ahead(out, d.pos)) = ByteBits + Len(ScanBits(out, d.pos + 1))
        /\ ScanBits(out, d.pos + 1) \in Seq(Bits)
    BY <2>1, AheadByte
  <2>3. Len(ScanBits(out, d.pos + 1)) \in Nat
    BY <2>2
  <2> QED  BY <1>1, <1>2, <2>2, <2>3, CacheSize
<1>4. d.cache = {}
  <2> SUFFICES ASSUME NEW x \in d.cache PROVE FALSE
    OBVIOUS
  <2>1. x \in 0..(CacheBits - 1) /\ CacheBits \in Nat
    BY <1>1, CacheSize DEF CachePlaces
  <2>2. CacheBits - x \in 1..Len(fill)
    BY <1>1, <1>2, <2>1
  <2> QED  BY <1>1, <1>2, <2>2
<1> QED  BY <1>3, <1>4, AllInCache

\* EndScan accepts it.
LEMMA EndScanOfReaderStep ==
  ASSUME NEW out, Scanned(out), NEW fill, IsFill(fill), NEW d, InScan(d, out), Holds(d, out, fill)
  PROVE  EndScanOfReader(d, Given(out)) = d
<1>1. d.pos = Len(out) + 1 /\ d.cache = {} /\ d.ok
  BY AtEnd DEF InScan
<1>2. Given(out)[d.pos] = FF
  BY <1>1, GivenData
<1> QED  BY <1>1, <1>2 DEF EndScanOfReader

\* A turn of the loop of GetCurBytePos.
BackTurn(b, octets) ==
  LET bits == IF b.pos > 1 /\ octets[b.pos - 1] = FF THEN ByteBits - 1 ELSE ByteBits
  IN  IF b.valid < bits THEN b ELSE [pos |-> b.pos - 1, valid |-> b.valid - bits]

\* The marker is where GetCurBytePos says the scan ends: not a whole byte is cached.
LEMMA BytePositionStep ==
  ASSUME NEW out, Scanned(out), NEW fill, IsFill(fill), NEW d, InScan(d, out), Holds(d, out, fill)
  PROVE  GetCurBytePos(d, Given(out)) = Len(Given(out)) - 1
<1> DEFINE start == [pos |-> d.pos, valid |-> d.valid]
           Is(f) == f = [n \in 0..MaxLoads |-> IF n = 0 THEN start ELSE BackTurn(f[n - 1], Given(out))]
           h == CHOOSE f : Is(f)
<1>1. d.pos = Len(out) + 1 /\ d.valid = Len(fill) /\ Len(fill) \in Nat /\ Len(fill) < ByteBits
  BY AtEnd DEF IsFill
<1>2. Len(Given(out)) = Len(out) + 2 /\ Len(out) \in Nat \ {0} /\ Given(out)[Len(out)] # FF
  BY GivenData DEF Scanned, EndsInFF
<1>3. BackTurn(start, Given(out)) = start
  <2>1. start.pos = Len(out) + 1 /\ start.valid < ByteBits /\ start.pos - 1 = Len(out)
    BY <1>1, <1>2
  <2> HIDE DEF start
  <2> QED  BY <1>2, <2>1 DEF BackTurn
<1> HIDE DEF start
<1>4. Is(h)
  <2> DEFINE g == [n \in 0..MaxLoads |-> start]
  <2>1. MaxLoads \in Nat
    BY LoadsSuffice
  <2>2. ASSUME NEW n \in 0..MaxLoads
        PROVE  (IF n = 0 THEN start ELSE BackTurn(g[n - 1], Given(out))) = start
    <3>1. n # 0 => n - 1 \in 0..MaxLoads
      BY <2>1
    <3> QED  BY <1>3, <3>1
  <2>3. Is(g)
    <3>1. g = [n \in 0..MaxLoads |-> IF n = 0 THEN start ELSE BackTurn(g[n - 1], Given(out))]
      BY <2>2
    <3> QED  BY <3>1
  <2> HIDE DEF Is, g
  <2> QED  BY <2>3
<1>5. BytePosition(d, Given(out)) = h[MaxLoads].pos
  BY DEF BytePosition, BackTurn, start
<1>6. \A n \in 0..MaxLoads : h[n] = IF n = 0 THEN start ELSE BackTurn(h[n - 1], Given(out))
  <2> HIDE DEF h
  <2> QED  BY <1>4
<1> HIDE DEF h
<1> DEFINE Fails == {n \in 0..MaxLoads : h[n] # start}
<1>7. ASSUME Fails # {} PROVE FALSE
  <2>1. PICK l \in Fails : \A k \in Fails : l <= k
    <3>1. Fails \in SUBSET Nat
      OBVIOUS
    <3> HIDE DEF Fails
    <3> QED  BY <1>7, <3>1, LeastElement
  <2>2. l \in 0..MaxLoads /\ h[l] # start
    OBVIOUS
  <2>3. l # 0
    BY <1>6, <2>2
  <2>4. l - 1 \in 0..MaxLoads /\ ~(l <= l - 1)
    BY <2>2, <2>3, LoadsSuffice
  <2>5. l - 1 \notin Fails
    <3> HIDE DEF Fails
    <3> QED  BY <2>1, <2>4
  <2>6. h[l - 1] = start
    BY <2>4, <2>5
  <2> QED  BY <1>3, <1>6, <2>2, <2>3, <2>6
<1>8. h[MaxLoads] = start
  <2>1. MaxLoads \in 0..MaxLoads
    BY LoadsSuffice
  <2> QED  BY <1>7, <2>1
<1>9. BytePosition(d, Given(out)) = Len(out) + 1
  BY <1>1, <1>5, <1>8 DEF start
<1> QED  BY <1>2, <1>9 DEF GetCurBytePos

-----------------------------------------------------------------------------
(* What the writer holds.                                                  *)

\* The number of bits in the bytes put.
BitsPut(w) == Len(ScanBits(w.out, 1))

\* The last place that the buffer has room for.
Top(w) == BitsPut(w) + BufferBits

\* Of a sequence of len bits, with 1 bits at the places ones, the first are in the
\* bytes put and the others in the buffer, from its top on; the buffer has those up
\* to place m.
Carries(w, ones, len, m) ==
  /\ Top(w) - w.free = len
  /\ m \in Int /\ m <= Top(w)
  /\ \A j \in 1..BitsPut(w) : ScanBits(w.out, 1)[j] = 1 <=> j \in ones
  /\ \A p \in w.buffer : Top(w) - p \in ones
  /\ \A i \in ones : i > BitsPut(w) /\ i <= m => Top(w) - i \in w.buffer

\* There are bits in the bytes put, as many as their number.
LEMMA PutBits ==
  ASSUME NEW w, Sound(w)
  PROVE  /\ w.out \in Seq(Octets) /\ BitsPut(w) \in Nat /\ ScanBits(w.out, 1) \in Seq(Bits)
         /\ w.buffer \subseteq Positions /\ w.free \in Int
<1>1. w.out \in Seq(Octets) /\ w.buffer \in Buffers /\ w.free \in Int
  BY DEF Sound, Writers
<1>2. 1 \in 1..(Len(w.out) + 1)
  BY <1>1
<1>3. ScanBits(w.out, 1) \in Seq(Bits)
  BY <1>1, <1>2, ScanPiecesJoined
<1> QED  BY <1>1, <1>3 DEF BitsPut, Buffers

\* A byte takes the bits at the top of the buffer.
LEMMA PutByteCarries ==
  ASSUME NEW w, Sound(w), NEW ones \in SUBSET Nat, NEW len, NEW m,
         Carries(w, ones, len, m), BitsPut(w) + ByteBits <= m
  PROVE  /\ Carries(PutByte(w), ones, len, m)
         /\ BitsPut(PutByte(w)) >= BitsPut(w) /\ BitsPut(PutByte(w)) <= BitsPut(w) + ByteBits
<1>1. w.free \in Int /\ BitsPut(w) \in Nat
  BY PutBits
<1>2. CASE w.free >= BufferBits
  <2>1. PutByte(w) = w
    BY <1>2 DEF PutByte
  <2> QED  BY <1>1, <2>1, Widths
<1>3. CASE ~(w.free >= BufferBits)
  <2> DEFINE n == IF w.ff THEN ByteBits - 1 ELSE ByteBits
             byte == TopBits(w.buffer, n, BufferBits)
             buffer == ShiftLeft(w.buffer, n, BufferBits)
             s == ScanBits(w.out, 1)
             b == BitsOf(byte, n)
             l == BitsPut(w)
             k == Top(w)
             v == PutByte(w)
  <2>1. /\ w \in Writers /\ w.ff = EndsInFF(w.out) /\ w.out \in Seq(Octets) /\ s \in Seq(Bits)
        /\ w.buffer \in Buffers /\ w.buffer \subseteq 0..(BufferBits - 1)
    BY PutBits DEF Sound, Writers, Positions, Buffers
  <2>2. n \in {ByteBits - 1, ByteBits} /\ n \in Nat /\ n <= ByteBits /\ n <= BufferBits
    BY Widths
  <2>3. byte \in Octets
    BY <2>1, <2>2, TopOfBuffer
  <2>4. v.out = Append(w.out, byte) /\ v.buffer = buffer /\ v.free = w.free + n
    BY <1>3, <2>1 DEF PutByte, Writers
  <2>5. ScanBits(v.out, 1) = s \o b
    BY <2>1, <2>3, <2>4, ScanLast
  <2>6. b \in Seq(Bits) /\ Len(b) = n /\ \A i \in 1..n : b[i] = IF (n - i) \in byte THEN 1 ELSE 0
    <3> HIDE DEF n, byte
    <3> QED  BY <2>2, BitsOfWord
  <2>7. \A x : x \in byte <=> \E p \in w.buffer : p >= BufferBits - n /\ x = p - (BufferBits - n)
    BY DEF TopBits, ShiftRight
  <2>8. \A x : x \in buffer <=> \E p \in w.buffer : p + n < BufferBits /\ x = p + n
    BY DEF ShiftLeft
  <2>9. /\ k - w.free = len /\ m \in Int /\ m <= k /\ Len(s) = l /\ l \in Nat
        /\ \A j \in 1..l : s[j] = 1 <=> j \in ones
        /\ \A p \in w.buffer : k - p \in ones
        /\ \A i \in ones : i > l /\ i <= m => k - i \in w.buffer
        /\ l + ByteBits <= m
    BY <1>1 DEF Carries, BitsPut
  <2>10a. k = l + BufferBits
    BY DEF Top
  <2> HIDE DEF n, byte, buffer, s, b, l, v, k
  <2> DEFINE t == s \o b
  <2>10. /\ t \in Seq(Bits) /\ Len(t) = l + n
         /\ \A i \in 1..l : t[i] = s[i]
         /\ \A i \in 1..n : t[l + i] = b[i]
    <3>1. /\ t \in Seq(Bits) /\ Len(t) = Len(s) + Len(b)
          /\ \A i \in 1..Len(s) : t[i] = s[i]
          /\ \A i \in 1..Len(b) : t[Len(s) + i] = b[i]
      <4>1. s \in Seq(Bits) /\ b \in Seq(Bits)
        BY <2>1, <2>6
      <4> QED  BY <4>1, Joined
    <3> HIDE DEF t
    <3> QED  BY <2>6, <2>9, <3>1
  <2> HIDE DEF t
  <2>11. BitsPut(v) = l + n /\ ScanBits(v.out, 1) = t /\ Top(v) = k + n
    <3>1. BitsPut(v) = l + n /\ ScanBits(v.out, 1) = t
      BY <2>5, <2>10 DEF BitsPut, t
    <3>2. Top(v) = (l + n) + BufferBits
      BY <3>1 DEF Top
    <3>3. (l + n) + BufferBits = k + n
      BY <2>2, <2>9, <2>10a, Widths
    <3> QED  BY <3>1, <3>2, <3>3
  <2>12. ASSUME NEW r \in 1..n PROVE b[r] = 1 <=> l + r \in ones
    <3>1. b[r] = 1 <=> BufferBits - r \in w.buffer
      <4>1. b[r] = 1 <=> (n - r) \in byte
        BY <2>6
      <4>2. \A p \in w.buffer :
              (p >= BufferBits - n /\ n - r = p - (BufferBits - n)) <=> p = BufferBits - r
        <5>1. /\ \A p \in w.buffer : p \in Int
              /\ n \in Nat /\ BufferBits \in Nat
          BY <2>1, <2>2, Widths
        <5> QED  BY <5>1
      <4> QED  BY <2>7, <4>1, <4>2
    <3>2. BufferBits - r \in w.buffer => l + r \in ones
      <4>1. k - (BufferBits - r) = l + r
        BY <2>9, <2>10a, Widths
      <4> QED  BY <2>9, <4>1
    <3>3. l + r \in ones => BufferBits - r \in w.buffer
      <4>1. l + r > l /\ l + r <= m /\ k - (l + r) = BufferBits - r
        BY <2>2, <2>9, <2>10a, Widths
      <4> QED  BY <2>9, <4>1
    <3> QED  BY <3>1, <3>2, <3>3
  <2>13. ASSUME NEW j \in 1..(l + n) PROVE t[j] = 1 <=> j \in ones
    <3>1. CASE j <= l
      <4>1. j \in 1..l
        BY <2>9, <3>1
      <4> QED  BY <2>9, <2>10, <4>1
    <3>2. CASE ~(j <= l)
      <4>1. j - l \in 1..n /\ l + (j - l) = j
        BY <2>2, <2>9, <3>2
      <4> QED  BY <2>10, <2>12, <4>1
    <3> QED  BY <3>1, <3>2
  <2>14. ASSUME NEW x \in buffer PROVE (k + n) - x \in ones
    <3>1. PICK p \in w.buffer : p + n < BufferBits /\ x = p + n
      BY <2>8
    <3>2. (k + n) - x = k - p
      <4>1. p \in Int /\ k \in Nat /\ n \in Nat
        BY <2>1, <2>2, <2>9, <2>10a, Widths
      <4> QED  BY <3>1, <4>1
    <3> QED  BY <2>9, <3>2
  <2>15. ASSUME NEW i \in ones, i > l + n, i <= m PROVE (k + n) - i \in buffer
    <3> DEFINE q == k - i
    <3>1. i > l /\ q + n < BufferBits /\ (k + n) - i = q + n
      BY <2>2, <2>9, <2>10a, <2>15, Widths
    <3>2. q \in w.buffer
      BY <2>9, <2>15, <3>1
    <3> HIDE DEF q
    <3> QED  BY <2>8, <3>1, <3>2
  <2>16. (k + n) - (w.free + n) = len /\ m <= k + n
    <3>1. /\ k - w.free = len /\ m \in Int /\ m <= k
          /\ k \in Nat /\ n \in Nat /\ w.free \in Int
      BY <1>1, <2>2, <2>9, <2>10a, Widths
    <3> QED  BY <3>1
  <2>17. Carries(v, ones, len, m)
    <3>1. Top(v) - v.free = len /\ m \in Int /\ m <= Top(v)
      BY <2>4, <2>9, <2>11, <2>16
    <3>2. \A j \in 1..BitsPut(v) : ScanBits(v.out, 1)[j] = 1 <=> j \in ones
      BY <2>11, <2>13
    <3> DEFINE next == k + n
    <3>3. Top(v) = next /\ v.buffer = buffer /\ BitsPut(v) = l + n
      BY <2>4, <2>11
    <3>4. \A p \in buffer : next - p \in ones
      BY <2>14
    <3>5. \A i \in ones : i > l + n /\ i <= m => next - i \in buffer
      BY <2>15
    <3> HIDE DEF next
    <3>6. \A p \in v.buffer : Top(v) - p \in ones
      BY <3>3, <3>4
    <3>7. \A i \in ones : i > BitsPut(v) /\ i <= m => Top(v) - i \in v.buffer
      BY <3>3, <3>5
    <3> QED  BY <3>1, <3>2, <3>6, <3>7 DEF Carries
  <2>18. l + n >= l /\ l + n <= l + ByteBits
    BY <2>2, <2>9, <2>10a, Widths
  <2> QED  BY <2>11, <2>17, <2>18 DEF v, l
<1> QED  BY <1>2, <1>3

\* What a writer holds depends on its buffer and the bytes put only.
LEMMA CarriesBy ==
  ASSUME NEW w, NEW ones, NEW len, NEW m, Carries(w, ones, len, m),
         NEW v, v.out = w.out, v.buffer = w.buffer, v.free = w.free
  PROVE  Carries(v, ones, len, m) /\ BitsPut(v) = BitsPut(w)
BY DEF Carries, Top, BitsPut

\* A flush moves bits out of the buffer, and loses none.
LEMMA FlushCarries ==
  ASSUME NEW w, Sound(w), w.ok, Flush(w).ok, NEW ones \in SUBSET Nat, NEW len,
         Carries(w, ones, len, Top(w))
  PROVE  Carries(Flush(w), ones, len, Top(w)) /\ BitsPut(Flush(w)) >= BitsPut(w)
<1> DEFINE v0 == IF w.room < 4 THEN OverFlow(w) ELSE w
           v1 == PutByte(v0)
           v2 == PutByte(v1)
           v3 == PutByte(v2)
           v4 == PutByte(v3)
           m == Top(w)
<1>1. Sound(v0) /\ v0.out = w.out /\ v0.buffer = w.buffer /\ v0.free = w.free
  <2>1. CASE w.room < 4
    <3>1. v0 = OverFlow(w)
      BY <2>1
    <3> HIDE DEF v0
    <3> QED  BY <3>1, OverFlowStep
  <2>2. CASE ~(w.room < 4)
    BY <2>2
  <2> QED  BY <2>1, <2>2
<1>2. Flush(w) = v4
  <2>1. Flush(w) = IF v0.ok THEN v4 ELSE v0
    BY DEF Flush, PutFourBytes
  <2> HIDE DEF v0, v4
  <2>2. v0.ok
    BY <2>1
  <2> QED  BY <2>1, <2>2
<1> HIDE DEF v0
<1>3. Carries(v0, ones, len, m) /\ BitsPut(v0) = BitsPut(w)
  BY <1>1, CarriesBy
<1>4. m = BitsPut(v0) + 4 * ByteBits /\ BitsPut(v0) \in Nat /\ ByteBits \in Nat
  BY <1>1, <1>3, PutBits, Widths DEF Top
<1> HIDE DEF m
<1>5. /\ Sound(v1) /\ Carries(v1, ones, len, m) /\ BitsPut(v1) \in Nat
      /\ BitsPut(v1) >= BitsPut(v0) /\ BitsPut(v1) <= BitsPut(v0) + ByteBits
  <2>1. BitsPut(v0) + ByteBits <= m
    BY <1>4
  <2>2. Sound(v1)
    BY <1>1, FlushTurn
  <2> QED  BY <1>1, <1>3, <2>1, <2>2, PutByteCarries, PutBits
<1> HIDE DEF v1
<1>6. /\ Sound(v2) /\ Carries(v2, ones, len, m) /\ BitsPut(v2) \in Nat
      /\ BitsPut(v2) >= BitsPut(v1) /\ BitsPut(v2) <= BitsPut(v1) + ByteBits
  <2>1. BitsPut(v1) + ByteBits <= m
    BY <1>4, <1>5
  <2>2. Sound(v2)
    BY <1>5, FlushTurn
  <2> QED  BY <1>5, <2>1, <2>2, PutByteCarries, PutBits
<1> HIDE DEF v2
<1>7. /\ Sound(v3) /\ Carries(v3, ones, len, m) /\ BitsPut(v3) \in Nat
      /\ BitsPut(v3) >= BitsPut(v2) /\ BitsPut(v3) <= BitsPut(v2) + ByteBits
  <2>1. BitsPut(v2) + ByteBits <= m
    BY <1>4, <1>5, <1>6
  <2>2. Sound(v3)
    BY <1>6, FlushTurn
  <2> QED  BY <1>6, <2>1, <2>2, PutByteCarries, PutBits
<1> HIDE DEF v3
<1>8. /\ Sound(v4) /\ Carries(v4, ones, len, m) /\ BitsPut(v4) \in Nat
      /\ BitsPut(v4) >= BitsPut(v3) /\ BitsPut(v4) <= BitsPut(v3) + ByteBits
  <2>1. BitsPut(v3) + ByteBits <= m
    BY <1>4, <1>5, <1>6, <1>7
  <2>2. Sound(v4)
    BY <1>7, FlushTurn
  <2> QED  BY <1>7, <2>1, <2>2, PutByteCarries, PutBits
<1> HIDE DEF v4
<1>9. BitsPut(v4) >= BitsPut(w)
  BY <1>3, <1>4, <1>5, <1>6, <1>7, <1>8
<1> QED  BY <1>2, <1>8, <1>9 DEF m

\* The places of the 1 bits of a codeword behind len bits.
OnesBehind(len, word, n) == {len + n - p : p \in word}

\* The bits of a word that have a place in the buffer.
LEMMA PlacedBits ==
  ASSUME NEW word, NEW n, IsCode(word, n), NEW free \in Int
  PROVE  \A x : x \in Placed(word, free) <=>
                  \E p \in word : x = p + free /\ x >= 0 /\ x < BufferBits
<1>1. /\ BufferBits \in Nat /\ n \in Nat /\ n < BufferBits
      /\ \A p \in word : p \in Int /\ p >= 0 /\ p < n
  BY Widths DEF IsCode
<1>2. CASE free >= 0
  <2>1. \A p \in word : p + free >= 0
    BY <1>1, <1>2
  <2>2. Placed(word, free) = ShiftLeft(word, free, BufferBits)
    BY <1>2 DEF Placed
  <2>3. \A x : x \in Placed(word, free) <=> \E p \in word : p + free < BufferBits /\ x = p + free
    BY <2>2 DEF ShiftLeft
  <2> QED  BY <2>1, <2>3
<1>3. CASE ~(free >= 0)
  <2>1. Placed(word, free) = ShiftRight(word, -free)
    BY <1>3 DEF Placed
  <2>2. \A x : x \in Placed(word, free) <=> \E p \in word : p >= -free /\ x = p - (-free)
    BY <2>1 DEF ShiftRight
  <2>3. \A p \in word : p - (-free) = p + free /\ (p >= -free <=> p + free >= 0) /\ p + free < BufferBits
    BY <1>1, <1>3
  <2> QED  BY <2>2, <2>3
<1> QED  BY <1>2, <1>3

\* A codeword is put behind what the writer holds, as far as there is room.
LEMMA MoreCarried ==
  ASSUME NEW w, Sound(w), NEW word, NEW n, IsCode(word, n),
         NEW len \in Nat, NEW ones \in SUBSET (1..len),
         NEW v, v.out = w.out, v.free \in Int,
         v.buffer = w.buffer \cup Placed(word, v.free),
         Top(w) - v.free = len + n,
         \A j \in 1..BitsPut(w) : ScanBits(w.out, 1)[j] = 1 <=> j \in ones \cup OnesBehind(len, word, n),
         \A p \in w.buffer : Top(w) - p \in ones \cup OnesBehind(len, word, n),
         \A i \in ones : i > BitsPut(w) /\ i <= Top(w) => Top(w) - i \in w.buffer
  PROVE  Carries(v, ones \cup OnesBehind(len, word, n), len + n, Top(w))
<1> DEFINE all == ones \cup OnesBehind(len, word, n)
           m == Top(w)
           l == BitsPut(w)
<1>1. /\ m = l + BufferBits /\ l \in Nat /\ m \in Int /\ BufferBits \in Nat /\ BitsPut(v) = l
      /\ n \in Nat /\ \A p \in word : p \in Int
  BY PutBits, Widths DEF Top, BitsPut, IsCode
<1>2. \A x : x \in Placed(word, v.free) <=>
               \E p \in word : x = p + v.free /\ x >= 0 /\ x < BufferBits
  BY PlacedBits
<1>3. m - v.free = len + n
  OBVIOUS
<1> HIDE DEF m, l
<1>4. ASSUME NEW x \in v.buffer PROVE m - x \in all
  <2>1. CASE x \in w.buffer
    BY <2>1 DEF m
  <2>2. CASE x \notin w.buffer
    <3>1. PICK p \in word : x = p + v.free
      BY <1>2, <2>2
    <3>2. m - x = len + n - p
      BY <1>1, <1>3, <3>1
    <3> QED  BY <3>2 DEF OnesBehind
  <2> QED  BY <2>1, <2>2
<1>5. ASSUME NEW i \in all, i > l, i <= m PROVE m - i \in v.buffer
  <2>1. CASE i \in ones
    BY <1>5, <2>1 DEF m, l
  <2>2. CASE i \notin ones
    <3>1. PICK p \in word : i = len + n - p
      BY <2>2 DEF OnesBehind
    <3>2. m - i = p + v.free /\ m - i >= 0 /\ m - i < BufferBits
      BY <1>1, <1>3, <1>5, <3>1
    <3>3. m - i \in Placed(word, v.free)
      BY <1>2, <3>2
    <3> QED  BY <3>3
  <2> QED  BY <2>1, <2>2
<1>6. Top(v) = m /\ m <= m
  BY <1>1 DEF Top
<1>7. \A j \in 1..l : ScanBits(v.out, 1)[j] = 1 <=> j \in all
  BY DEF l
<1> HIDE DEF all
<1>8. Carries(v, all, len + n, m)
  BY <1>1, <1>3, <1>4, <1>5, <1>6, <1>7 DEF Carries
<1> QED  BY <1>8 DEF all, m

\* The codeword is added to what is free.
LEMMA AddBitsCarries ==
  ASSUME NEW w, Sound(w), w.free <= BufferBits, NEW word, NEW n, IsCode(word, n),
         NEW len \in Nat, NEW ones \in SUBSET (1..len), Carries(w, ones, len, Top(w))
  PROVE  Carries(AddBits(w, word, n), ones \cup OnesBehind(len, word, n), len + n, Top(w))
<1> DEFINE v == AddBits(w, word, n)
           behind == OnesBehind(len, word, n)
<1>1. /\ v.free = w.free - n /\ v.out = w.out /\ v.buffer = w.buffer \cup Placed(word, w.free - n)
  BY AddBitsStep
<1>2. n \in Nat /\ w.free \in Int /\ BitsPut(w) \in Nat /\ BufferBits \in Nat
      /\ \A p \in word : p \in Int /\ p >= 0 /\ p < n
  BY PutBits, Widths DEF IsCode
<1>3. /\ Top(w) - w.free = len
      /\ \A j \in 1..BitsPut(w) : ScanBits(w.out, 1)[j] = 1 <=> j \in ones
      /\ \A p \in w.buffer : Top(w) - p \in ones
      /\ \A i \in ones : i > BitsPut(w) /\ i <= Top(w) => Top(w) - i \in w.buffer
  BY DEF Carries
<1>4. Top(w) = BitsPut(w) + BufferBits
  BY DEF Top
<1> HIDE DEF v
<1>5. v.free \in Int /\ Top(w) - v.free = len + n
  BY <1>1, <1>2, <1>3, <1>4
<1>6. ASSUME NEW i \in behind PROVE i > len /\ i > BitsPut(w)
  <2>1. PICK p \in word : i = len + n - p
    BY DEF OnesBehind
  <2>2. p \in Int /\ p >= 0 /\ p < n
    BY <1>2
  <2> QED  BY <1>2, <1>3, <1>4, <2>1, <2>2
<1> HIDE DEF behind
<1>7. \A j \in 1..BitsPut(w) : ScanBits(w.out, 1)[j] = 1 <=> j \in ones \cup behind
  <2>1. \A j \in 1..BitsPut(w) : j \notin behind
    BY <1>2, <1>6
  <2> QED  BY <1>3, <2>1
<1>8. \A p \in w.buffer : Top(w) - p \in ones \cup behind
  BY <1>3, <1>4
<1>9. \A i \in ones : i > BitsPut(w) /\ i <= Top(w) => Top(w) - i \in w.buffer
  BY <1>3, <1>4
<1>10. v.buffer = w.buffer \cup Placed(word, v.free)
  BY <1>1
<1> QED  BY <1>1, <1>5, <1>7, <1>8, <1>9, <1>10, MoreCarried DEF behind, v

\* The rest of it is added to what a flush has made free.
LEMMA AddRestCarries ==
  ASSUME NEW w, Sound(w), w.free < BufferBits, NEW word, NEW n, IsCode(word, n),
         NEW len \in Nat, NEW ones \in SUBSET (1..len), NEW m, len <= m,
         Carries(w, ones \cup OnesBehind(len, word, n), len + n, m)
  PROVE  Carries(AddRest(w, word), ones \cup OnesBehind(len, word, n), len + n, Top(w))
<1> DEFINE v == AddRest(w, word)
           behind == OnesBehind(len, word, n)
<1>1. /\ v.free = w.free /\ v.out = w.out /\ v.buffer = w.buffer \cup Placed(word, w.free)
  BY AddRestStep
<1>2. w.free \in Int /\ BitsPut(w) \in Nat /\ BufferBits \in Nat /\ m \in Int
  BY PutBits, Widths DEF Carries
<1>3. /\ Top(w) - w.free = len + n
      /\ \A j \in 1..BitsPut(w) : ScanBits(w.out, 1)[j] = 1 <=> j \in ones \cup behind
      /\ \A p \in w.buffer : Top(w) - p \in ones \cup behind
      /\ \A i \in ones \cup behind :
           i > BitsPut(w) /\ i <= m => Top(w) - i \in w.buffer
  BY DEF Carries
<1>4. Top(w) = BitsPut(w) + BufferBits
  BY DEF Top
<1> HIDE DEF v, behind
<1>5. ASSUME NEW i \in ones, i > BitsPut(w) PROVE Top(w) - i \in w.buffer
  <2>1. i <= m
    BY <1>2
  <2> QED  BY <1>3, <1>4, <1>5, <2>1
<1>6. Top(w) - v.free = len + n
  BY <1>1, <1>3, <1>4
<1>7. \A p \in w.buffer : Top(w) - p \in ones \cup behind
  BY <1>3, <1>4
<1>8. v.buffer = w.buffer \cup Placed(word, v.free)
  BY <1>1
<1> QED  BY <1>1, <1>2, <1>3, <1>5, <1>6, <1>7, <1>8, MoreCarried DEF behind, v

\* AppendToBitStream puts a codeword behind what was written, in as many parts as
\* it takes flushes.
LEMMA AppendCarries ==
  ASSUME NEW w, Sound(w), w.ok, w.room >= 0, w.free \in 0..BufferBits,
         NEW word, NEW n, IsCode(word, n),
         NEW len \in Nat, NEW ones \in SUBSET (1..len), Carries(w, ones, len, Top(w)),
         AppendToBitStream(w, word, n).ok
  PROVE  LET v == AppendToBitStream(w, word, n)
         IN  Carries(v, ones \cup OnesBehind(len, word, n), len + n, Top(v))
<1> DEFINE w0 == AddBits(w, word, n)
           w1 == Flush(w0)
           w1r == AddRest(w1, word)
           w2 == Flush(w1r)
           w2r == AddRest(w2, word)
           v == AppendToBitStream(w, word, n)
           all == ones \cup OnesBehind(len, word, n)
<1>1. n \in Nat /\ n < BufferBits /\ w.free \in Int /\ w.room \in Int
      /\ \A p \in word : p \in Int /\ p >= 0 /\ p < n
  BY Widths DEF IsCode, Sound, Writers
<1>2. all \in SUBSET Nat
  <2>1. \A p \in word : len + n - p \in Nat
    BY <1>1
  <2>2. OnesBehind(len, word, n) \subseteq Nat
    BY <2>1 DEF OnesBehind
  <2>3. ones \subseteq Nat
    OBVIOUS
  <2> QED  BY <2>2, <2>3
<1>3. /\ Sound(w0) /\ w0.free = w.free - n /\ w0.room = w.room /\ w0.stream = w.stream
      /\ w0.ok /\ w0.out = w.out
  BY AddBitsStep
<1>4. Carries(w0, all, len + n, Top(w))
  BY <1>1, AddBitsCarries, Widths
<1>5. Top(w0) = Top(w) /\ Top(w) \in Int /\ len <= Top(w)
  <2>1. Top(w0) = Top(w)
    BY <1>3 DEF Top, BitsPut
  <2>2. Top(w) - w.free = len
    BY DEF Carries
  <2>3. Top(w) \in Int
    BY PutBits, Widths DEF Top
  <2> HIDE DEF w0
  <2> QED  BY <1>1, <2>1, <2>2, <2>3
<1>6. w0.free \in Int /\ w0.room \in Int
  BY <1>3 DEF Sound, Writers
<1> HIDE DEF all
<1>7. CASE w0.free >= 0
  <2>1. v = w0
    BY <1>7 DEF AppendToBitStream
  <2> HIDE DEF w0, v
  <2>2. Carries(v, all, len + n, Top(v))
    BY <1>4, <1>5, <2>1
  <2> QED  BY <2>2 DEF v, all
<1>8. CASE w0.free < 0
  <2>1. v = IF ~w1.ok THEN w1
            ELSE IF w1.free >= 0 THEN w1r ELSE IF w2.ok THEN w2r ELSE w2
    BY <1>6, <1>8 DEF AppendToBitStream
  <2>2. v.ok
    OBVIOUS
  <2> HIDE DEF w0, v
  <2>3. /\ Sound(w1) /\ w1.room >= 0 /\ w1.stream = w.stream
        /\ w1.ok => w1.free >= w0.free + BufferBits - 2 /\ w1.free <= w0.free + BufferBits
    BY <1>1, <1>3, <1>6, <1>8, FlushStep, Widths
  <2>4. w1.ok
    <3> HIDE DEF w1, w1r, w2, w2r
    <3> QED  BY <2>1, <2>2
  <2>5. Carries(w1, all, len + n, Top(w0)) /\ BitsPut(w1) >= BitsPut(w0)
    BY <1>2, <1>3, <1>4, <1>5, <2>4, FlushCarries
  <2> HIDE DEF w1
  <2>6. w1.free \in Int /\ w1.room \in Int /\ w1.free < BufferBits /\ w1.free >= -1
    <3>1. w1.free \in Int /\ w1.room \in Int
      BY <2>3 DEF Sound, Writers
    <3>2. w0.free >= -(BufferBits - 1)
      BY <1>1, <1>3, <1>6, Widths
    <3> QED  BY <1>6, <1>8, <2>3, <2>4, <3>1, <3>2, Widths
  <2>7. len <= Top(w0)
    BY <1>5
  <2>8. Carries(w1r, all, len + n, Top(w1))
    BY <2>3, <2>5, <2>6, <2>7, AddRestCarries DEF all
  <2>9. /\ Sound(w1r) /\ w1r.free = w1.free /\ w1r.room = w1.room
        /\ w1r.stream = w1.stream /\ w1r.ok = w1.ok /\ w1r.out = w1.out
    BY <2>3, AddRestStep
  <2>10. Top(w1r) = Top(w1)
    BY <2>9 DEF Top, BitsPut
  <2>11. len <= Top(w1)
    <3>1. BitsPut(w1) \in Nat /\ BitsPut(w0) \in Nat
      BY <1>3, <2>3, PutBits
    <3> QED  BY <2>5, <2>7, <3>1, Widths DEF Top
  <2> HIDE DEF w1r
  <2>12. CASE w1.free >= 0
    <3>1. v = w1r
      BY <2>1, <2>4, <2>12
    <3>2. Carries(v, all, len + n, Top(v))
      BY <2>8, <2>10, <3>1
    <3> QED  BY <3>2 DEF v, all
  <2>13. CASE ~(w1.free >= 0)
    <3>1. v = IF w2.ok THEN w2r ELSE w2
      BY <2>1, <2>4, <2>13
    <3>2. w2.ok
      <4> HIDE DEF w2, w2r
      <4> QED  BY <2>2, <3>1
    <3>3. w1r.ok /\ w1r.free <= BufferBits /\ w1r.room >= 0 /\ w1r.free < 0 /\ w1r.free \in Int
      BY <2>3, <2>4, <2>6, <2>9, <2>13, Widths
    <3>4. /\ Sound(w2) /\ w2.free <= w1r.free + BufferBits
      BY <2>9, <3>2, <3>3, FlushStep
    <3>5. Carries(w1r, all, len + n, Top(w1r))
      BY <2>8, <2>10
    <3>6. Carries(w2, all, len + n, Top(w1r))
      BY <1>2, <2>9, <3>2, <3>3, <3>5, FlushCarries
    <3> HIDE DEF w2
    <3>7. w2.free < BufferBits /\ len <= Top(w1r)
      <4>1. w2.free \in Int
        BY <3>4 DEF Sound, Writers
      <4> QED  BY <2>10, <2>11, <3>3, <3>4, <4>1, Widths
    <3>8. Carries(w2r, all, len + n, Top(w2))
      BY <3>4, <3>6, <3>7, AddRestCarries DEF all
    <3>9. w2r.out = w2.out
      BY <3>4, AddRestStep
    <3>10. Top(w2r) = Top(w2)
      BY <3>9 DEF Top, BitsPut
    <3> HIDE DEF w2r
    <3>11. Carries(v, all, len + n, Top(v))
      BY <3>1, <3>2, <3>8, <3>10
    <3> QED  BY <3>11 DEF v, all
  <2> QED  BY <2>12, <2>13
<1> QED  BY <1>6, <1>7, <1>8

\* A value is put with the places of its 1 bits behind what was written.
LEMMA AppendValueCarries ==
  ASSUME NEW w, Sound(w), w.ok, w.room >= 0, w.free \in 0..BufferBits,
         NEW bits \in Seq(Bits), Len(bits) \in 1..(BufferBits - 1),
         NEW len \in Nat, NEW ones \in SUBSET (1..len), Carries(w, ones, len, Top(w)),
         AppendToBitStream(w, WordOf(bits), Len(bits)).ok
  PROVE  LET v == AppendToBitStream(w, WordOf(bits), Len(bits))
         IN  Carries(v, ones \cup {len + i : i \in {j \in 1..Len(bits) : bits[j] = 1}},
                     len + Len(bits), Top(v))
<1> DEFINE n == Len(bits)
           v == AppendToBitStream(w, WordOf(bits), n)
           places == {len + i : i \in {j \in 1..n : bits[j] = 1}}
<1>1. IsCode(WordOf(bits), n)
  BY CodeAsWord
<1>2. OnesBehind(len, WordOf(bits), n) = places
  <2>1. n \in Nat
    OBVIOUS
  <2>2. WordOf(bits) = {n - i : i \in {j \in 1..n : bits[j] = 1}}
    BY DEF WordOf
  <2> HIDE DEF n
  <2>3. \A i \in 1..n : len + n - (n - i) = len + i
    BY <2>1
  <2> QED  BY <2>2, <2>3 DEF OnesBehind
<1> HIDE DEF places
<1>3. Carries(v, ones \cup OnesBehind(len, WordOf(bits), n), len + n, Top(v))
  BY <1>1, AppendCarries
<1> QED  BY <1>2, <1>3 DEF places

\* The unary part of a codeword is put with the 1 that ends it, in one call or two.
LEMMA AppendUnaryCarries ==
  ASSUME NEW w, Sound(w), w.ok, w.room >= 0, w.free \in 0..BufferBits,
         NEW zeros \in ZeroRuns,
         NEW len \in Nat, NEW ones \in SUBSET (1..len), Carries(w, ones, len, Top(w)),
         AppendUnary(w, zeros).ok
  PROVE  LET v == AppendUnary(w, zeros)
         IN  Carries(v, ones \cup {len + zeros + 1}, len + zeros + 1, Top(v))
<1> DEFINE v == AppendUnary(w, zeros)
<1>1. zeros \in Nat /\ zeros - zeros \div 2 + 1 <= BufferBits - 1
  BY ZeroRunsAssumption
<1>2. CASE zeros + 1 <= BufferBits - 1
  <2>1. IsCode({0}, zeros + 1)
    BY <1>1, <1>2, RunAsWord, Widths
  <2>2. v = AppendToBitStream(w, {0}, zeros + 1)
    BY <1>2 DEF AppendUnary
  <2>3. OnesBehind(len, {0}, zeros + 1) = {len + (zeros + 1)}
    <3>1. len + (zeros + 1) - 0 = len + (zeros + 1)
      BY <1>1
    <3> QED  BY <3>1 DEF OnesBehind
  <2>4. v.ok
    OBVIOUS
  <2>5. len + (zeros + 1) = len + zeros + 1
    BY <1>1
  <2> HIDE DEF v
  <2>6. Carries(v, ones \cup {len + (zeros + 1)}, len + (zeros + 1), Top(v))
    BY <2>1, <2>2, <2>3, <2>4, AppendCarries
  <2> QED  BY <2>5, <2>6 DEF v
<1>3. CASE ~(zeros + 1 <= BufferBits - 1)
  <2> DEFINE half == zeros \div 2
             rest == zeros - zeros \div 2 + 1
             u == AppendToBitStream(w, {}, half)
  <2>1. half \in 0..(BufferBits - 1) /\ rest \in 0..(BufferBits - 1) /\ rest > 0
        /\ half + rest = zeros + 1
    BY <1>1, Widths
  <2>2. v = IF u.ok THEN AppendToBitStream(u, {0}, rest) ELSE u
    BY <1>3 DEF AppendUnary
  <2>3. v.ok
    OBVIOUS
  <2> HIDE DEF half, rest, v
  <2>4. IsCode({}, half) /\ IsCode({0}, rest)
    BY <2>1, RunAsWord
  <2>5. Sound(u) /\ u.room >= 0 /\ (u.ok => u.free \in 0..BufferBits)
    BY <2>4, AppendStep
  <2>6. u.ok /\ v = AppendToBitStream(u, {0}, rest)
    <3> HIDE DEF u
    <3> QED  BY <2>2, <2>3
  <2>7. Carries(u, ones, len + half, Top(u))
    <3>1. Carries(u, ones \cup OnesBehind(len, {}, half), len + half, Top(u))
      BY <2>4, <2>6, AppendCarries
    <3>2. ones \cup OnesBehind(len, {}, half) = ones
      BY DEF OnesBehind
    <3> QED  BY <3>1, <3>2
  <2> HIDE DEF u
  <2>8. len + half \in Nat /\ ones \in SUBSET (1..(len + half))
    <3>1. half \in Nat /\ len + half \in Nat /\ len + half >= len
      BY <2>1, Widths
    <3> QED  BY <3>1
  <2>9. Carries(v, ones \cup OnesBehind(len + half, {0}, rest), (len + half) + rest, Top(v))
    BY <2>3, <2>4, <2>5, <2>6, <2>7, <2>8, AppendCarries
  <2>10. (len + half) + rest = len + zeros + 1 /\ (len + half) + rest - 0 = len + zeros + 1
    BY <1>1, <2>1, Widths
  <2>11. OnesBehind(len + half, {0}, rest) = {len + zeros + 1}
    BY <2>10 DEF OnesBehind
  <2> QED  BY <2>9, <2>10, <2>11 DEF v
<1> QED  BY <1>2, <1>3

\* EndScan leaves all bits in the bytes put, and less than a byte of fill.
LEMMA EndScanCarries ==
  ASSUME NEW w, Sound(w), w.ok, w.room >= 0, w.free \in 0..BufferBits,
         NEW len \in Nat, NEW ones \in SUBSET (1..len), Carries(w, ones, len, Top(w)),
         EndScanOfWriter(w).ok
  PROVE  LET v == EndScanOfWriter(w)
         IN  /\ BitsPut(v) >= len /\ BitsPut(v) < len + ByteBits
             /\ \A j \in 1..BitsPut(v) : ScanBits(v.out, 1)[j] = 1 <=> j \in ones
<1> DEFINE w1 == Flush(w)
           fill == (IF w1.ff THEN w1.free - 1 ELSE w1.free) % ByteBits
           w2 == AppendToBitStream(w1, {}, fill)
           w3 == Flush(w2)
           v == EndScanOfWriter(w)
<1>1. w.free \in Int /\ w.free <= BufferBits /\ Top(w) \in Int /\ len <= Top(w) /\ ones \subseteq Nat
  <2>1. Top(w) \in Int
    BY PutBits, Widths DEF Top
  <2>2. Top(w) - w.free = len
    BY DEF Carries
  <2> QED  BY <2>1, <2>2, Widths
<1>2. v.ok
  OBVIOUS
<1>3. v = IF w1.ok THEN (IF w2.ok THEN (IF w3.ok /\ w3.stream THEN OverFlow(w3) ELSE w3) ELSE w2)
          ELSE w1
  <2>1. CASE w1.ok
    BY <2>1 DEF EndScanOfWriter
  <2>2. CASE ~w1.ok
    BY <2>2 DEF EndScanOfWriter
  <2> QED  BY <2>1, <2>2
<1>4. v.free = BufferBits
  BY EndScanStep
<1> HIDE DEF v
<1>5. w1.ok
  <2> HIDE DEF w1, w2, w3
  <2> QED  BY <1>2, <1>3
<1>6. Sound(w1) /\ Carries(w1, ones, len, Top(w)) /\ BitsPut(w1) >= BitsPut(w)
  BY <1>1, <1>5, FlushStep, FlushCarries
<1>7. /\ fill \in 0..(ByteBits - 1) /\ Sound(w2) /\ w2.free = w1.free - fill /\ w2.ok
      /\ w2.buffer = w1.buffer /\ w2.out = w1.out /\ w2.free <= BufferBits
      /\ w2.room = w1.room /\ w1.room >= 0
  <2>1. /\ fill \in 0..(ByteBits - 1) /\ Sound(w2) /\ w2.free = w1.free - fill /\ w2.ok
        /\ w2.buffer = w1.buffer /\ w2.out = w1.out /\ w2.room = w1.room
    BY <1>5, LastByteFilled
  <2>2. \/ w1.free - fill = BufferBits - ByteBits + 1 \/ w1.free - fill = BufferBits
        \/ w1.free - fill = BufferBits - ByteBits
    <3>1. w1.ff \in BOOLEAN
      BY <1>6 DEF Sound, Writers
    <3> QED  BY <1>5, <3>1, LastByteFilled
  <2>3. w1.room >= 0
    BY FlushStep, Widths
  <2> HIDE DEF w1, fill, w2
  <2> QED  BY <2>1, <2>2, <2>3, Widths
<1> HIDE DEF w1, fill
<1>8. Carries(w2, ones, len + fill, Top(w2))
  <2>1. Top(w2) = Top(w1) /\ BitsPut(w2) = BitsPut(w1)
    BY <1>7 DEF Top, BitsPut
  <2>2. /\ Top(w1) - w1.free = len /\ Top(w) <= Top(w1)
        /\ \A j \in 1..BitsPut(w1) : ScanBits(w1.out, 1)[j] = 1 <=> j \in ones
        /\ \A p \in w1.buffer : Top(w1) - p \in ones
        /\ \A i \in ones : i > BitsPut(w1) /\ i <= Top(w) => Top(w1) - i \in w1.buffer
    BY <1>6 DEF Carries
  <2>3. Top(w1) \in Int /\ w1.free \in Int /\ fill \in Int
    BY <1>6, <1>7, PutBits, Widths DEF Top
  <2>4. Top(w1) - w2.free = len + fill
    BY <1>7, <2>2, <2>3
  <2>5. \A i \in ones : i <= Top(w)
    BY <1>1
  <2> HIDE DEF w2
  <2>6. Top(w2) - w2.free = len + fill /\ Top(w2) \in Int /\ Top(w2) <= Top(w2)
    BY <2>1, <2>3, <2>4
  <2>7. \A j \in 1..BitsPut(w2) : ScanBits(w2.out, 1)[j] = 1 <=> j \in ones
    BY <1>7, <2>1, <2>2
  <2>8. \A p \in w2.buffer : Top(w2) - p \in ones
    BY <1>7, <2>1, <2>2
  <2>9. \A i \in ones : i > BitsPut(w2) /\ i <= Top(w2) => Top(w2) - i \in w2.buffer
    BY <1>7, <2>1, <2>2, <2>5
  <2> QED  BY <2>6, <2>7, <2>8, <2>9 DEF Carries
<1> HIDE DEF w2
<1>9. w3.ok /\ v.out = w3.out /\ v.free = w3.free
  <2>1. v = IF w3.ok /\ w3.stream THEN OverFlow(w3) ELSE w3
    BY <1>3, <1>5, <1>7
  <2>2. Sound(w3)
    BY <1>7, FlushStep
  <2> HIDE DEF w3
  <2>3. CASE w3.ok /\ w3.stream
    BY <2>1, <2>2, <2>3, OverFlowStep
  <2>4. CASE ~(w3.ok /\ w3.stream)
    BY <1>2, <2>1, <2>4
  <2> QED  BY <2>3, <2>4
<1>10. Carries(w3, ones, len + fill, Top(w2))
  BY <1>1, <1>7, <1>8, <1>9, FlushCarries
<1>11. /\ BitsPut(v) = len + fill
       /\ \A j \in 1..BitsPut(v) : ScanBits(v.out, 1)[j] = 1 <=> j \in ones
  <2>1. Top(w3) - w3.free = len + fill /\ Top(w3) = BitsPut(w3) + BufferBits
    BY <1>10 DEF Carries, Top
  <2>2. \A j \in 1..BitsPut(w3) : ScanBits(w3.out, 1)[j] = 1 <=> j \in ones
    BY <1>10 DEF Carries
  <2>3. BitsPut(v) = BitsPut(w3)
    BY <1>9 DEF BitsPut
  <2>4. BitsPut(w3) \in Nat
    BY <1>7, <1>9, FlushStep, PutBits
  <2> HIDE DEF w3
  <2>5. BitsPut(w3) = len + fill
    <3>1. (BitsPut(w3) + BufferBits) - BufferBits = len + fill
      BY <1>4, <1>9, <2>1
    <3> QED  BY <2>4, <3>1, Widths
  <2>6. \A j \in 1..BitsPut(v) : ScanBits(v.out, 1)[j] = 1 <=> j \in ones
    BY <1>9, <2>2, <2>3
  <2> QED  BY <2>3, <2>5, <2>6
<1>12. BitsPut(v) >= len /\ BitsPut(v) < len + ByteBits
  <2>1. BitsPut(v) \in Nat
    BY EndScanStep, PutBits DEF v
  <2> QED  BY <1>7, <1>11, <2>1, Widths
<1> QED  BY <1>11, <1>12 DEF v

-----------------------------------------------------------------------------
(* The codewords of a scan.                                                *)

\* What can be sent, and the bits of what has been.
Codes == {[unary |-> FALSE, bits |-> v] : v \in Values}
           \cup {[unary |-> TRUE, bits |-> UnaryCode(z)] : z \in ZeroRuns}
BitsOfEach(codes) == [i \in DOMAIN codes |-> codes[i].bits]
BitsIn(codes) == FlattenSeq(BitsOfEach(codes))

\* The places of the 1 bits.
OnesOf(bits) == {i \in 1..Len(bits) : bits[i] = 1}

\* A code is a value that one read can return, or a run and the 1 that ends it.
LEMMA CodeBits ==
  ASSUME NEW c \in Codes
  PROVE  /\ c.bits \in Seq(Bits) /\ Len(c.bits) >= 1
         /\ c.unary = FALSE => c.bits \in Values /\ Len(c.bits) <= CacheBits - ByteBits
         /\ c.unary = TRUE => \E z \in ZeroRuns : c.bits = UnaryCode(z) /\ z \in Nat
         /\ c.bits \in Values \cup {UnaryCode(z) : z \in ZeroRuns}
<1>1. CASE \E v \in Values : c = [unary |-> FALSE, bits |-> v]
  <2>1. PICK v \in Values : c = [unary |-> FALSE, bits |-> v]
    BY <1>1
  <2>2. c.unary = FALSE /\ c.bits = v
    BY <2>1
  <2>3. v \in Seq(Bits) /\ Len(v) >= 1 /\ Len(v) <= CacheBits - ByteBits
    BY ValuesAssumption DEF Bits
  <2> QED  BY <2>2, <2>3
<1>2. CASE \E z \in ZeroRuns : c = [unary |-> TRUE, bits |-> UnaryCode(z)]
  <2>1. PICK z \in ZeroRuns : c = [unary |-> TRUE, bits |-> UnaryCode(z)]
    BY <1>2
  <2>2. z \in Nat
    BY ZeroRunsAssumption
  <2> DEFINE v == UnaryCode(z)
  <2>3. v \in Seq(Bits) /\ Len(v) >= 1
    BY <2>2, UnaryCodeBits
  <2>4. c.unary = TRUE /\ c.bits = v
    BY <2>1
  <2> QED  BY <2>2, <2>3, <2>4
<1> QED  BY <1>1, <1>2 DEF Codes

\* A code more has its bits behind those of the others.
LEMMA EachAppend ==
  ASSUME NEW s \in Seq(Codes), NEW c \in Codes
  PROVE  /\ BitsOfEach(s) \in Seq(Seq(Bits)) /\ c.bits \in Seq(Bits)
         /\ BitsOfEach(Append(s, c)) = Append(BitsOfEach(s), c.bits)
         /\ Append(s, c) \in Seq(Codes)
<1> DEFINE parts == [i \in DOMAIN s |-> s[i].bits]
           all == [i \in DOMAIN Append(s, c) |-> Append(s, c)[i].bits]
           n == Len(s)
<1>1. n \in Nat /\ DOMAIN s = 1..n /\ \A i \in 1..n : s[i] \in Codes
  OBVIOUS
<1>2. c.bits \in Seq(Bits) /\ \A i \in 1..n : s[i].bits \in Seq(Bits)
  BY <1>1, CodeBits
<1>3. parts = [i \in 1..n |-> s[i].bits]
  BY <1>1
<1>4. parts \in Seq(Seq(Bits)) /\ Len(parts) = n
  <2> HIDE DEF n, parts
  <2> QED  BY <1>1, <1>2, <1>3
<1>5. all = Append(parts, c.bits)
  <2>1. /\ Append(s, c) \in Seq(Codes) /\ Len(Append(s, c)) = n + 1
        /\ \A i \in 1..n : Append(s, c)[i] = s[i]
        /\ Append(s, c)[n + 1] = c
    BY AppendProperties
  <2>2. all = [i \in 1..(n + 1) |-> IF i = n + 1 THEN c.bits ELSE s[i].bits]
    <3>1. DOMAIN Append(s, c) = 1..(n + 1)
      BY <2>1
    <3> DEFINE u == Append(s, c)
    <3> HIDE DEF n, u
    <3>2. \A i \in 1..(n + 1) : u[i].bits = IF i = n + 1 THEN c.bits ELSE s[i].bits
      BY <1>1, <2>1 DEF u
    <3> QED  BY <3>1, <3>2 DEF u
  <2> HIDE DEF all, n, parts
  <2>3. Append(parts, c.bits) = [i \in 1..(n + 1) |-> IF i = n + 1 THEN c.bits ELSE parts[i]]
    BY <1>1, <1>2, <1>4
  <2>4. \A i \in 1..n : parts[i] = s[i].bits
    BY <1>3
  <2>5. \A i \in 1..(n + 1) : i # n + 1 => i \in 1..n
    BY <1>1
  <2> QED  BY <2>2, <2>3, <2>4, <2>5
<1> HIDE DEF parts, all
<1>6. Append(s, c) \in Seq(Codes)
  OBVIOUS
<1> QED  BY <1>2, <1>4, <1>5, <1>6 DEF BitsOfEach, parts, all

\* The bits of codes are joined in their order.
LEMMA BitsInAppend ==
  ASSUME NEW s \in Seq(Codes), NEW c \in Codes
  PROVE  /\ BitsIn(s) \in Seq(Bits) /\ BitsIn(Append(s, c)) = BitsIn(s) \o c.bits
         /\ Append(s, c) \in Seq(Codes)
<1>1. /\ BitsOfEach(s) \in Seq(Seq(Bits)) /\ c.bits \in Seq(Bits)
      /\ BitsOfEach(Append(s, c)) = Append(BitsOfEach(s), c.bits)
      /\ Append(s, c) \in Seq(Codes)
  BY EachAppend
<1> QED  BY <1>1, FlattenAppend DEF BitsIn

\* The first of them is the first to be read.
LEMMA EachFirst ==
  ASSUME NEW s \in Seq(Codes), s # <<>>
  PROVE  /\ Head(s) \in Codes /\ Tail(s) \in Seq(Codes)
         /\ BitsOfEach(s) \in Seq(Seq(Bits)) /\ BitsOfEach(s) # <<>>
         /\ Head(BitsOfEach(s)) = Head(s).bits /\ Tail(BitsOfEach(s)) = BitsOfEach(Tail(s))
<1> DEFINE n == Len(s)
           t == Tail(s)
           parts == [i \in DOMAIN s |-> s[i].bits]
           rest == [i \in DOMAIN t |-> t[i].bits]
<1>1. /\ n \in Nat \ {0} /\ DOMAIN s = 1..n /\ \A i \in 1..n : s[i] \in Codes
      /\ Head(s) = s[1] /\ t \in Seq(Codes) /\ Len(t) = n - 1 /\ DOMAIN t = 1..(n - 1)
      /\ \A i \in 1..(n - 1) : t[i] = s[i + 1]
  BY EmptySeq
<1>2. \A i \in 1..n : s[i].bits \in Seq(Bits)
  BY <1>1, CodeBits
<1>3. parts = [i \in 1..n |-> s[i].bits] /\ rest = [i \in 1..(n - 1) |-> s[i + 1].bits]
  <2> HIDE DEF n, t
  <2> QED  BY <1>1
<1> HIDE DEF n, t, parts, rest
<1>4. parts \in Seq(Seq(Bits)) /\ Len(parts) = n /\ parts # <<>> /\ Head(parts) = s[1].bits
  <2>1. parts \in Seq(Seq(Bits)) /\ Len(parts) = n
    BY <1>1, <1>2, <1>3
  <2>2. parts # <<>> /\ Head(parts) = parts[1]
    BY <1>1, <2>1, EmptySeq
  <2> QED  BY <1>1, <1>3, <2>1, <2>2
<1>5. Tail(parts) = rest
  <2> DEFINE u == Tail(parts)
  <2>1. /\ u \in Seq(Seq(Bits)) /\ Len(u) = n - 1
        /\ \A i \in 1..(n - 1) : u[i] = parts[i + 1]
    BY <1>1, <1>4
  <2>2. \A i \in 1..(n - 1) : i + 1 \in 1..n
    BY <1>1
  <2> HIDE DEF u
  <2>3. u = [i \in 1..(n - 1) |-> u[i]]
    <3>1. n - 1 \in Nat
      BY <1>1
    <3> QED  BY <2>1, <3>1
  <2>4. \A i \in 1..(n - 1) : u[i] = s[i + 1].bits
    BY <1>3, <2>1, <2>2
  <2>5. u = rest
    BY <1>3, <2>3, <2>4
  <2> QED  BY <2>5 DEF u
<1>6. Head(s) \in Codes
  BY <1>1
<1> QED  BY <1>1, <1>4, <1>5, <1>6 DEF BitsOfEach, parts, rest, t

\* So the bits begin with those of the first.
LEMMA BitsInFirst ==
  ASSUME NEW s \in Seq(Codes), s # <<>>
  PROVE  /\ Head(s) \in Codes /\ Tail(s) \in Seq(Codes)
         /\ BitsIn(s) = Head(s).bits \o BitsIn(Tail(s))
<1>1. /\ Head(s) \in Codes /\ Tail(s) \in Seq(Codes)
      /\ BitsOfEach(s) \in Seq(Seq(Bits)) /\ BitsOfEach(s) # <<>>
      /\ Head(BitsOfEach(s)) = Head(s).bits /\ Tail(BitsOfEach(s)) = BitsOfEach(Tail(s))
  BY EachFirst
<1>2. FlattenSeq(BitsOfEach(s)) = Head(BitsOfEach(s)) \o FlattenSeq(Tail(BitsOfEach(s)))
  BY <1>1, FlattenFirst
<1> QED  BY <1>1, <1>2 DEF BitsIn

\* No codes have no bits.
LEMMA BitsInNone == BitsOfEach(<<>>) = <<>> /\ BitsIn(<<>>) = <<>>
<1>1. BitsOfEach(<<>>) = <<>>
  BY DEF BitsOfEach
<1>2. FlattenSeq(<<>>) = <<>>
  BY DEF FlattenSeq
<1> QED  BY <1>1, <1>2 DEF BitsIn

\* The bits of codes are a sequence of bits.
LEMMA BitsInSeq ==
  ASSUME NEW s \in Seq(Codes)
  PROVE  BitsIn(s) \in Seq(Bits)
<1>1. CASE s = <<>>
  <2>1. BitsIn(s) = <<>>
    BY <1>1, BitsInNone
  <2>2. <<>> \in Seq(Bits)
    OBVIOUS
  <2> QED  BY <2>1, <2>2
<1>2. CASE s # <<>>
  <2> DEFINE x == Head(s).bits
             y == BitsIn(Tail(s))
  <2>1. Head(s) \in Codes /\ Tail(s) \in Seq(Codes) /\ BitsIn(s) = x \o y
    BY <1>2, BitsInFirst
  <2>2. x \in Seq(Bits) /\ y \in Seq(Bits)
    BY <2>1, CodeBits, BitsInAppend
  <2> HIDE DEF x, y
  <2> QED  BY <2>1, <2>2, Joined
<1> QED  BY <1>1, <1>2

\* The 1 bits of a concatenation are those of its parts.
LEMMA OnesOfJoined ==
  ASSUME NEW s \in Seq(Bits), NEW t \in Seq(Bits)
  PROVE  /\ OnesOf(s \o t) = OnesOf(s) \cup {Len(s) + i : i \in OnesOf(t)}
         /\ OnesOf(s) \in SUBSET (1..Len(s)) /\ Len(s) \in Nat
         /\ Len(s \o t) = Len(s) + Len(t)
<1> DEFINE u == s \o t
           m == Len(s)
           n == Len(t)
<1>1. /\ Len(u) = m + n /\ m \in Nat /\ n \in Nat
      /\ \A i \in 1..m : u[i] = s[i]
      /\ \A i \in 1..n : u[m + i] = t[i]
  BY Joined
<1>2. OnesOf(u) = {i \in 1..(m + n) : u[i] = 1} /\ OnesOf(s) = {i \in 1..m : s[i] = 1}
      /\ OnesOf(t) = {i \in 1..n : t[i] = 1}
  BY <1>1 DEF OnesOf
<1> HIDE DEF u, m, n
<1>3. ASSUME NEW i \in 1..(m + n) PROVE i \in 1..m \/ (i - m \in 1..n /\ i = m + (i - m))
  BY <1>1
<1>4. /\ \A i \in 1..m : i \in 1..(m + n)
      /\ \A i \in 1..n : m + i \in 1..(m + n)
  BY <1>1
<1>5. ASSUME NEW i \in OnesOf(u) PROVE i \in OnesOf(s) \cup {m + j : j \in OnesOf(t)}
  <2>1. i \in 1..(m + n) /\ u[i] = 1
    BY <1>2, <1>5
  <2>2. CASE i \in 1..m
    BY <1>1, <1>2, <2>1, <2>2
  <2>3. CASE i \notin 1..m
    <3>1. i - m \in 1..n /\ i = m + (i - m)
      BY <1>3, <2>1, <2>3
    <3>2. t[i - m] = 1
      BY <1>1, <2>1, <3>1
    <3>3. i - m \in OnesOf(t)
      BY <1>2, <3>1, <3>2
    <3> QED  BY <3>1, <3>3
  <2> QED  BY <2>2, <2>3
<1>6. ASSUME NEW i \in OnesOf(s) \cup {m + j : j \in OnesOf(t)} PROVE i \in OnesOf(u)
  <2>1. CASE i \in OnesOf(s)
    BY <1>1, <1>2, <1>4, <2>1
  <2>2. CASE i \notin OnesOf(s)
    <3>1. PICK j \in OnesOf(t) : i = m + j
      BY <2>2
    <3> QED  BY <1>1, <1>2, <1>4, <3>1
  <2> QED  BY <2>1, <2>2
<1>7. OnesOf(u) = OnesOf(s) \cup {m + j : j \in OnesOf(t)}
  BY <1>5, <1>6
<1>8. OnesOf(s) \in SUBSET (1..m)
  BY <1>2
<1> QED  BY <1>1, <1>7, <1>8 DEF u, m, n

\* What is behind the first part of a concatenation is the second.
LEMMA PartsOfJoined ==
  ASSUME NEW s \in Seq(Bits), NEW t \in Seq(Bits)
  PROVE  /\ SubSeq(s \o t, 1, Len(s)) = s /\ From(s \o t, Len(s)) = t
         /\ Len(s) \in 0..Len(s \o t)
<1> DEFINE u == s \o t
           m == Len(s)
           n == Len(t)
<1>1. /\ u \in Seq(Bits) /\ Len(u) = m + n /\ m \in Nat /\ n \in Nat
      /\ \A i \in 1..m : u[i] = s[i]
      /\ \A i \in 1..n : u[m + i] = t[i]
  BY Joined
<1>2. m \in 0..Len(u) /\ Len(u) - m = n
  <2> HIDE DEF u, m, n
  <2> QED  BY <1>1
<1>3. /\ From(u, m) \in Seq(Bits) /\ Len(From(u, m)) = n
      /\ \A j \in 1..n : From(u, m)[j] = u[m + j]
      /\ SubSeq(u, 1, m) \in Seq(Bits) /\ Len(SubSeq(u, 1, m)) = m
      /\ \A j \in 1..m : SubSeq(u, 1, m)[j] = u[j]
  <2> HIDE DEF u, m, n
  <2> QED  BY <1>1, <1>2, PartsOf
<1> DEFINE first == SubSeq(u, 1, m)
           last == From(u, m)
<1>4. first \in Seq(Bits) /\ last \in Seq(Bits) /\ Len(first) = Len(s) /\ Len(last) = Len(t)
  BY <1>3
<1>5. (\A j \in 1..Len(s) : first[j] = s[j]) /\ (\A j \in 1..Len(t) : last[j] = t[j])
  BY <1>1, <1>3
<1> HIDE DEF first, last
<1>6. first = s
  BY <1>4, <1>5, SeqEqual
<1>7. last = t
  BY <1>4, <1>5, SeqEqual
<1> QED  BY <1>2, <1>6, <1>7 DEF first, last, u, m

-----------------------------------------------------------------------------
(* The scan that is written and read.                                      *)

\* The other half of the invariant: what has been sent is in the bytes put and in
\* the writer's buffer, or in the reader's cache and the bytes ahead of it, with
\* fill behind it.
ScanInv ==
  /\ sent \in Seq(Codes)
  /\ phase = "writing" => Carries(writer, OnesOf(BitsIn(sent)), Len(BitsIn(sent)), Top(writer))
  /\ phase \in {"writing", "full"} => reader = <<>>
  /\ phase \in {"reading", "closed"} =>
       /\ Scanned(writer.out) /\ data = Given(writer.out) /\ InScan(reader, writer.out)
       /\ \E fill : IsFill(fill) /\ Holds(reader, writer.out, BitsIn(sent) \o fill)
  /\ phase = "closed" => sent = <<>>

\* Nothing has been sent, and nothing put.
LEMMA InitScanInv == Init => ScanInv
<1> SUFFICES ASSUME Init PROVE ScanInv
  OBVIOUS
<1>1. /\ sent = <<>> /\ reader = <<>> /\ phase = "writing"
      /\ writer.out = <<>> /\ writer.buffer = {} /\ writer.free = BufferBits
  BY DEF Init, InitWriter
<1>2. BitsIn(sent) = <<>> /\ OnesOf(BitsIn(sent)) = {} /\ Len(BitsIn(sent)) = 0
  <2>1. BitsIn(sent) = <<>>
    BY <1>1, BitsInNone
  <2> QED  BY <2>1 DEF OnesOf
<1>3. BitsPut(writer) = 0
  <2>1. <<>> \in Seq(Octets) /\ Len(<<>>) + 1 = 1
    OBVIOUS
  <2>2. ScanBits(<<>>, 1) = <<>>
    BY <2>1, ScanEnd
  <2> QED  BY <1>1, <2>2 DEF BitsPut
<1>4. Carries(writer, {}, 0, Top(writer))
  <2>1. Top(writer) = BufferBits
    BY <1>3, Widths DEF Top
  <2>2. BufferBits - BufferBits = 0 /\ BufferBits \in Int /\ BufferBits <= BufferBits
    BY Widths
  <2>3. 1..0 = {}
    OBVIOUS
  <2> QED  BY <1>1, <1>3, <2>1, <2>2, <2>3 DEF Carries
<1>5. sent \in Seq(Codes)
  BY <1>1
<1>6. phase \notin {"reading", "closed", "full"}
  BY <1>1
<1> QED  BY <1>1, <1>2, <1>4, <1>5, <1>6 DEF ScanInv

\* The places of the 1 bits with a code more.
LEMMA OnesWithCode ==
  ASSUME NEW s \in Seq(Codes), NEW c \in Codes
  PROVE  LET bits == BitsIn(s)
         IN  /\ OnesOf(BitsIn(Append(s, c))) =
                  OnesOf(bits) \cup {Len(bits) + i : i \in {j \in 1..Len(c.bits) : c.bits[j] = 1}}
             /\ Len(BitsIn(Append(s, c))) = Len(bits) + Len(c.bits)
             /\ OnesOf(bits) \in SUBSET (1..Len(bits)) /\ Len(bits) \in Nat
<1>1. BitsIn(s) \in Seq(Bits) /\ BitsIn(Append(s, c)) = BitsIn(s) \o c.bits
  BY BitsInAppend
<1>2. c.bits \in Seq(Bits)
  BY CodeBits
<1>3. OnesOf(c.bits) = {j \in 1..Len(c.bits) : c.bits[j] = 1}
  BY DEF OnesOf
<1> QED  BY <1>1, <1>2, <1>3, OnesOfJoined

\* A code more has been sent, or the destination is full.
LEMMA CodeIsSent ==
  ASSUME ScanInv, phase = "writing", NEW c \in Codes, NEW w, WriterIs(w, c),
         w.ok => Carries(w, OnesOf(BitsIn(Append(sent, c))), Len(BitsIn(Append(sent, c))), Top(w))
  PROVE  ScanInv'
<1>1. sent \in Seq(Codes) /\ reader = <<>>
  BY DEF ScanInv
<1>2. writer' = w /\ reader' = <<>>
  BY <1>1 DEF WriterIs
<1>3. CASE w.ok
  <2>1. phase' = "writing" /\ sent' = Append(sent, c)
    BY <1>3 DEF WriterIs
  <2>2. Append(sent, c) \in Seq(Codes)
    BY <1>1, BitsInAppend
  <2> QED  BY <1>2, <1>3, <2>1, <2>2 DEF ScanInv
<1>4. CASE ~w.ok
  <2>1. phase' = "full" /\ sent' = sent
    BY <1>4 DEF WriterIs
  <2> QED  BY <1>1, <1>2, <2>1 DEF ScanInv
<1> QED  BY <1>3, <1>4

\* WriteValue: the bits of the value are with the others.
LEMMA WriteValueScan ==
  ASSUME WriterInv, ScanInv, NEW bits \in Values, WriteValue(bits)
  PROVE  ScanInv'
<1> DEFINE w == AppendToBitStream(writer, WordOf(bits), Len(bits))
           c == [unary |-> FALSE, bits |-> bits]
           s == BitsIn(sent)
<1>1. /\ phase = "writing" /\ Sound(writer) /\ writer.ok /\ writer.room >= 0
      /\ writer.free \in 0..BufferBits /\ sent \in Seq(Codes)
      /\ Carries(writer, OnesOf(s), Len(s), Top(writer))
  BY DEF WriteValue, WriterInv, ScanInv
<1>2. c \in Codes /\ c.bits = bits
  BY DEF Codes
<1>3. bits \in Seq(Bits) /\ Len(bits) \in 1..(BufferBits - 1)
  BY ValuesAssumption DEF Bits
<1>4. WriterIs(w, c)
  BY DEF WriteValue
<1> HIDE DEF c
<1>5. /\ OnesOf(BitsIn(Append(sent, c))) =
           OnesOf(s) \cup {Len(s) + i : i \in {j \in 1..Len(bits) : bits[j] = 1}}
      /\ Len(BitsIn(Append(sent, c))) = Len(s) + Len(bits)
      /\ OnesOf(s) \in SUBSET (1..Len(s)) /\ Len(s) \in Nat
  BY <1>1, <1>2, OnesWithCode
<1> HIDE DEF s
<1>6. w.ok => Carries(w, OnesOf(BitsIn(Append(sent, c))), Len(BitsIn(Append(sent, c))), Top(w))
  BY <1>1, <1>3, <1>5, AppendValueCarries
<1> HIDE DEF w
<1> QED  BY <1>1, <1>2, <1>4, <1>6, CodeIsSent

\* WriteUnary: so is the 1 that ends the run.
LEMMA WriteUnaryScan ==
  ASSUME WriterInv, ScanInv, NEW zeros \in ZeroRuns, WriteUnary(zeros)
  PROVE  ScanInv'
<1> DEFINE w == AppendUnary(writer, zeros)
           bits == UnaryCode(zeros)
           c == [unary |-> TRUE, bits |-> bits]
           s == BitsIn(sent)
<1>1. /\ phase = "writing" /\ Sound(writer) /\ writer.ok /\ writer.room >= 0
      /\ writer.free \in 0..BufferBits /\ sent \in Seq(Codes)
      /\ Carries(writer, OnesOf(s), Len(s), Top(writer))
  BY DEF WriteUnary, WriterInv, ScanInv
<1>2. c \in Codes /\ c.bits = bits
  BY DEF Codes
<1>3. zeros \in Nat /\ Len(bits) = zeros + 1 /\ {j \in 1..Len(bits) : bits[j] = 1} = {zeros + 1}
  <2>1. zeros \in Nat
    BY ZeroRunsAssumption
  <2>2. /\ Len(bits) = zeros + 1 /\ \A i \in 1..zeros : bits[i] = 0
        /\ bits[zeros + 1] = 1
    BY <2>1, UnaryCodeBits
  <2> HIDE DEF bits
  <2>3. \A j \in 1..Len(bits) : bits[j] = 1 <=> j = zeros + 1
    BY <2>1, <2>2
  <2>4. zeros + 1 \in 1..Len(bits)
    BY <2>1, <2>2
  <2> QED  BY <2>1, <2>2, <2>3, <2>4
<1>4. WriterIs(w, c)
  BY DEF WriteUnary
<1> HIDE DEF c, bits
<1>5. /\ OnesOf(BitsIn(Append(sent, c))) = OnesOf(s) \cup {Len(s) + i : i \in {zeros + 1}}
      /\ Len(BitsIn(Append(sent, c))) = Len(s) + (zeros + 1)
      /\ OnesOf(s) \in SUBSET (1..Len(s)) /\ Len(s) \in Nat
  BY <1>1, <1>2, <1>3, OnesWithCode
<1> HIDE DEF s
<1>6. /\ Len(s) + (zeros + 1) = Len(s) + zeros + 1
      /\ {Len(s) + i : i \in {zeros + 1}} = {Len(s) + zeros + 1}
  BY <1>3, <1>5
<1>7. w.ok => Carries(w, OnesOf(BitsIn(Append(sent, c))), Len(BitsIn(Append(sent, c))), Top(w))
  BY <1>1, <1>5, <1>6, AppendUnaryCarries
<1> HIDE DEF w
<1> QED  BY <1>1, <1>2, <1>4, <1>7, CodeIsSent

\* Bits with the 1 bits of others are those others, and fill.
LEMMA BitsAndFill ==
  ASSUME NEW s \in Seq(Bits), NEW b \in Seq(Bits), Len(b) >= Len(s), Len(b) < Len(s) + ByteBits,
         \A j \in 1..Len(b) : b[j] = 1 <=> j \in OnesOf(s)
  PROVE  \E fill : IsFill(fill) /\ b = s \o fill
<1> DEFINE m == Len(s)
           n == Len(b)
           fill == From(b, m)
           t == s \o fill
<1>1. /\ m \in Nat /\ n \in Nat /\ m \in 0..n /\ n < m + ByteBits
      /\ \A i \in 1..m : s[i] \in {0, 1}
      /\ \A i \in 1..n : b[i] \in {0, 1}
  BY DEF Bits
<1>2. \A j \in 1..n : b[j] = 1 <=> (j \in 1..m /\ s[j] = 1)
  BY DEF OnesOf
<1>3. fill \in Seq(Bits) /\ Len(fill) = n - m /\ \A j \in 1..(n - m) : fill[j] = b[m + j]
  BY <1>1, PartsOf
<1> HIDE DEF fill
<1>4. /\ t \in Seq(Bits) /\ Len(t) = m + Len(fill)
      /\ \A i \in 1..m : t[i] = s[i]
      /\ \A i \in 1..Len(fill) : t[m + i] = fill[i]
  <2>1. s \in Seq(Bits) /\ fill \in Seq(Bits)
    BY <1>3
  <2> QED  BY <2>1, Joined
<1> HIDE DEF m, n, t
<1>5. \A j \in 1..(n - m) : fill[j] = 0
  <2> TAKE j \in 1..(n - m)
  <2>1. m + j \in 1..n /\ m + j \notin 1..m
    BY <1>1
  <2> QED  BY <1>1, <1>2, <1>3, <2>1
<1>6. IsFill(fill)
  <2>1. n - m < ByteBits
    BY <1>1, Widths
  <2> QED  BY <1>3, <1>5, <2>1 DEF IsFill
<1>7. ASSUME NEW i \in 1..n PROVE b[i] = t[i]
  <2>1. CASE i \in 1..m
    BY <1>1, <1>2, <1>4, <2>1
  <2>2. CASE i \notin 1..m
    <3>1. i - m \in 1..(n - m) /\ i = m + (i - m)
      BY <1>1, <2>2
    <3> QED  BY <1>3, <1>4, <3>1
  <2> QED  BY <2>1, <2>2
<1>8. Len(t) = n
  BY <1>1, <1>3, <1>4
<1>9. b = t
  <2>1. Len(b) = Len(t) /\ \A i \in 1..Len(b) : b[i] = t[i]
    BY <1>7, <1>8 DEF n
  <2> QED  BY <1>4, <2>1, SeqEqual
<1> QED  BY <1>6, <1>9 DEF t

\* FinishWriting: all that was sent is in the scan, which is not empty.
LEMMA FinishWritingScan ==
  ASSUME WriterInv, ScanInv, FinishWriting
  PROVE  ScanInv'
<1> DEFINE w == EndScanOfWriter(writer)
           s == BitsIn(sent)
           b == ScanBits(w.out, 1)
<1>1. /\ phase = "writing" /\ Sound(writer) /\ writer.ok /\ writer.room >= 0
      /\ writer.free \in 0..BufferBits /\ sent \in Seq(Codes) /\ sent # <<>>
      /\ Carries(writer, OnesOf(s), Len(s), Top(writer)) /\ reader = <<>>
  BY DEF FinishWriting, WriterInv, ScanInv
<1>2. writer' = w /\ sent' = sent
  BY DEF FinishWriting
<1>3. CASE ~w.ok
  <2>1. phase' = "full" /\ reader' = reader
    BY <1>3 DEF FinishWriting
  <2> QED  BY <1>1, <1>2, <2>1 DEF ScanInv
<1>4. CASE w.ok
  <2>1. PICK stream \in BOOLEAN :
          data' = Given(w.out) /\ reader' = InitReader(stream, Given(w.out)) /\ phase' = "reading"
    BY <1>4 DEF FinishWriting, Given
  <2>2. Sound(w) /\ ~w.ff
    BY <1>1, <1>4, EndScanStep
  <2>3. s \in Seq(Bits) /\ Len(s) >= 1 /\ Len(s) \in Nat /\ OnesOf(s) \in SUBSET (1..Len(s))
    <3>1. /\ Head(sent) \in Codes /\ Tail(sent) \in Seq(Codes)
          /\ s = Head(sent).bits \o BitsIn(Tail(sent))
      BY <1>1, BitsInFirst
    <3> DEFINE x == Head(sent).bits
               y == BitsIn(Tail(sent))
    <3>2. x \in Seq(Bits) /\ Len(x) >= 1 /\ y \in Seq(Bits)
      BY <3>1, CodeBits, BitsInAppend
    <3>3. s = x \o y
      BY <3>1
    <3> HIDE DEF x, y, s
    <3>4. s \in Seq(Bits) /\ Len(s) = Len(x) + Len(y) /\ Len(x) \in Nat /\ Len(y) \in Nat
      BY <3>2, <3>3, Joined
    <3>5. OnesOf(s) \in SUBSET (1..Len(s))
      BY DEF OnesOf
    <3> QED  BY <3>2, <3>4, <3>5
  <2>4. /\ BitsPut(w) >= Len(s) /\ BitsPut(w) < Len(s) + ByteBits
        /\ \A j \in 1..BitsPut(w) : b[j] = 1 <=> j \in OnesOf(s)
    <3> HIDE DEF s
    <3> QED  BY <1>1, <1>4, <2>3, EndScanCarries
  <2>5. w.out \in Seq(Octets) /\ BitsPut(w) \in Nat /\ b \in Seq(Bits) /\ BitsPut(w) = Len(b)
    BY <2>2, PutBits DEF BitsPut
  <2> HIDE DEF w, b, s
  <2>6. Scanned(w.out)
    <3>1. Len(w.out) \in Nat
      BY <2>5
    <3>2. ASSUME Len(w.out) = 0 PROVE FALSE
      <4>1. ScanBits(w.out, Len(w.out) + 1) = <<>>
        BY <2>5, ScanEnd
      <4>2. Len(b) = 0
        BY <3>2, <4>1 DEF b
      <4> QED  BY <2>3, <2>4, <2>5, <4>2
    <3>3. Stuffed(w.out) /\ ~EndsInFF(w.out)
      BY <2>2 DEF Sound
    <3> QED  BY <2>5, <3>1, <3>2, <3>3 DEF Scanned
  <2>7. PICK fill : IsFill(fill) /\ b = s \o fill
    BY <2>3, <2>4, <2>5, BitsAndFill
  <2>8. InScan(reader', w.out) /\ Holds(reader', w.out, s \o fill)
    BY <2>1, <2>6, <2>7, InitReaderStep DEF b
  <2> DEFINE r == reader'
  <2>9. Holds(r, w.out, BitsIn(sent') \o fill) /\ InScan(r, w.out)
    BY <1>2, <2>8 DEF s
  <2>10. /\ Scanned(writer'.out) /\ data' = Given(writer'.out) /\ InScan(reader', writer'.out)
         /\ Holds(reader', writer'.out, BitsIn(sent') \o fill)
    BY <1>2, <2>1, <2>6, <2>9
  <2>11. sent' \in Seq(Codes)
    BY <1>1, <1>2
  <2> HIDE DEF r
  <2> QED  BY <2>1, <2>7, <2>10, <2>11 DEF ScanInv
<1> QED  BY <1>3, <1>4

\* A read has returned the first of the codes, and leaves the others to be read.
Delivers(r) ==
  /\ r.bits = Head(sent).bits
  /\ InScan(r.reader, writer.out)
  /\ \E fill : IsFill(fill) /\ Holds(r.reader, writer.out, BitsIn(Tail(sent)) \o fill)

\* Whichever of the reads it is: what it has to return are the first bits that the
\* reader holds.
LEMMA FirstIsHeld ==
  ASSUME ScanInv, phase = "reading", sent # <<>>
  PROVE  /\ Head(sent) \in Codes /\ Tail(sent) \in Seq(Codes)
         /\ Scanned(writer.out) /\ data = Given(writer.out) /\ InScan(reader, writer.out)
         /\ \E bits \in Seq(Bits) :
              /\ Holds(reader, writer.out, bits)
              /\ Len(Head(sent).bits) \in 1..Len(bits)
              /\ \A i \in 1..Len(Head(sent).bits) : bits[i] = Head(sent).bits[i]
              /\ \A r : Reads(r, writer.out, bits, Len(Head(sent).bits)) => Delivers(r)
<1> DEFINE x == Head(sent).bits
           y == BitsIn(Tail(sent))
<1>1. /\ sent \in Seq(Codes) /\ Scanned(writer.out) /\ data = Given(writer.out)
      /\ InScan(reader, writer.out)
  BY DEF ScanInv
<1>2. PICK fill : IsFill(fill) /\ Holds(reader, writer.out, BitsIn(sent) \o fill)
  BY DEF ScanInv
<1>3. Head(sent) \in Codes /\ Tail(sent) \in Seq(Codes) /\ BitsIn(sent) = x \o y
  BY <1>1, BitsInFirst
<1>4. x \in Seq(Bits) /\ Len(x) >= 1 /\ y \in Seq(Bits) /\ fill \in Seq(Bits)
  BY <1>2, <1>3, CodeBits, BitsInAppend DEF IsFill
<1> DEFINE z == y \o fill
           bits == x \o z
<1>5. z \in Seq(Bits) /\ (x \o y) \o fill = bits
  <2>1. y \in Seq(Bits) /\ fill \in Seq(Bits)
    BY <1>4
  <2>2. z \in Seq(Bits)
    BY <2>1, Joined
  <2>3. x \in Seq(Bits)
    BY <1>4
  <2> HIDE DEF x, y
  <2> QED  BY <2>1, <2>2, <2>3, ConcatAssociative
<1> HIDE DEF z
<1>6. bits \in Seq(Bits) /\ Len(bits) = Len(x) + Len(z) /\ Len(x) \in Nat /\ Len(z) \in Nat
      /\ \A i \in 1..Len(x) : bits[i] = x[i]
  <2>1. x \in Seq(Bits) /\ z \in Seq(Bits)
    BY <1>4, <1>5
  <2> HIDE DEF x
  <2> QED  BY <2>1, Joined
<1>7. SubSeq(bits, 1, Len(x)) = x /\ From(bits, Len(x)) = z
  <2>1. x \in Seq(Bits) /\ z \in Seq(Bits)
    BY <1>4, <1>5
  <2> HIDE DEF x
  <2> QED  BY <2>1, PartsOfJoined
<1>8. Holds(reader, writer.out, bits)
  BY <1>2, <1>3, <1>5
<1>9. ASSUME NEW r, Reads(r, writer.out, bits, Len(x)) PROVE Delivers(r)
  <2>1. /\ r.bits = x /\ InScan(r.reader, writer.out) /\ Holds(r.reader, writer.out, z)
    BY <1>7, <1>9 DEF Reads
  <2> QED  BY <1>2, <2>1 DEF Delivers, z
<1>10. Len(x) \in 1..Len(bits)
  <2> HIDE DEF x, bits
  <2> QED  BY <1>4, <1>6
<1> HIDE DEF bits
<1> QED  BY <1>1, <1>3, <1>6, <1>8, <1>9, <1>10 DEF x

\* ReadValue, ReadBit, ReadShortCode and ReadHighBits deliver the code that is next.
LEMMA ReadsDeliver ==
  ASSUME ScanInv, NEW r, ReaderTakes(r), sent # <<>>,
         \/ Head(sent).unary = FALSE /\ r = ReadValue(reader, Len(Head(sent).bits), data)
         \/ /\ Len(Head(sent).bits) = 1 /\ r = ReadBit(reader, data)
         \/ /\ Len(Head(sent).bits) <= ByteBits
            /\ r = ReadShortCode(reader, Len(Head(sent).bits), data)
         \/ Head(sent).unary = TRUE /\ r = ReadHighBits(reader, data)
  PROVE  Delivers(r)
<1> DEFINE c == Head(sent)
           n == Len(c.bits)
           out == writer.out
<1>1. phase = "reading"
  BY DEF ReaderTakes
<1>2. PICK bits \in Seq(Bits) :
        /\ Holds(reader, out, bits) /\ n \in 1..Len(bits)
        /\ \A i \in 1..n : bits[i] = c.bits[i]
        /\ Reads(r, out, bits, n) => Delivers(r)
  BY <1>1, FirstIsHeld
<1>3. c \in Codes /\ Scanned(out) /\ data = Given(out) /\ InScan(reader, out)
  BY <1>1, FirstIsHeld
<1>4. \/ c.unary = FALSE /\ r = ReadValue(reader, n, Given(out))
      \/ n = 1 /\ r = ReadBit(reader, Given(out))
      \/ n <= ByteBits /\ r = ReadShortCode(reader, n, Given(out))
      \/ c.unary = TRUE /\ r = ReadHighBits(reader, Given(out))
  BY <1>3
<1>5. c.unary = FALSE => n <= CacheBits - ByteBits
  BY <1>3, CodeBits
<1>6. ASSUME c.unary = TRUE PROVE BeginWithRun(bits, n - 1) /\ (n - 1) + 1 = n
  <2>1. PICK z \in ZeroRuns : c.bits = UnaryCode(z) /\ z \in Nat
    BY <1>3, <1>6, CodeBits
  <2>2. /\ n = z + 1 /\ \A i \in 1..z : c.bits[i] = 0
        /\ c.bits[z + 1] = 1
    BY <2>1, UnaryCodeBits
  <2>3. Len(bits) \in Nat
    OBVIOUS
  <2> HIDE DEF c, n
  <2>4. n - 1 = z /\ n - 1 \in Nat /\ (n - 1) + 1 = n
    BY <2>1, <2>2
  <2>5. BeginWithRun(bits, z)
    <3>1. z + 1 <= Len(bits) /\ \A i \in 1..z : i \in 1..n
      BY <1>2, <2>1, <2>2, <2>3
    <3>2. z + 1 \in 1..n
      BY <2>1, <2>2
    <3> QED  BY <1>2, <2>1, <2>2, <3>1, <3>2 DEF BeginWithRun
  <2> QED  BY <2>4, <2>5
<1> HIDE DEF c, n, out
<1>7. n \in 1..Len(bits) /\ Len(bits) \in Nat /\ Len(bits) >= 1
  BY <1>2
<1>8. CASE c.unary = FALSE /\ r = ReadValue(reader, n, Given(out))
  BY <1>2, <1>3, <1>5, <1>8, ReadValueStep
<1>9. CASE n = 1 /\ r = ReadBit(reader, Given(out))
  BY <1>2, <1>3, <1>7, <1>9, ReadBitStep
<1>10. CASE n <= ByteBits /\ r = ReadShortCode(reader, n, Given(out))
  BY <1>2, <1>3, <1>10, ReadShortCodeStep
<1>11. CASE c.unary = TRUE /\ r = ReadHighBits(reader, Given(out))
  <2>1. Reads(r, out, bits, (n - 1) + 1)
    BY <1>2, <1>3, <1>6, <1>11, ReadHighBitsStep
  <2> QED  BY <1>2, <1>6, <1>11, <2>1
<1> QED  BY <1>4, <1>8, <1>9, <1>10, <1>11

\* A step of the decoder delivers the code that is next, whatever it reads it with.
LEMMA DecodeStep ==
  ASSUME ScanInv, DecodeValue \/ DecodeBit \/ DecodeShortCode \/ DecodeUnary
  PROVE  /\ phase = "reading" /\ sent # <<>>
         /\ \E r : ReaderTakes(r) /\ Delivers(r)
<1>1. ASSUME DecodeValue
      PROVE  sent # <<>> /\ \E r : ReaderTakes(r) /\ Delivers(r)
  <2> DEFINE r == ReadValue(reader, Len(Head(sent).bits), data)
  <2>1. sent # <<>> /\ Head(sent).unary = FALSE /\ ReaderTakes(r)
    BY <1>1 DEF DecodeValue, NextIs
  <2>2. Delivers(r)
    BY <2>1, ReadsDeliver
  <2> QED  BY <2>1, <2>2
<1>2. ASSUME DecodeBit
      PROVE  sent # <<>> /\ \E r : ReaderTakes(r) /\ Delivers(r)
  <2> DEFINE r == ReadBit(reader, data)
  <2>1. sent # <<>> /\ Len(Head(sent).bits) = 1 /\ ReaderTakes(r)
    BY <1>2 DEF DecodeBit, NextIs
  <2>2. Delivers(r)
    BY <2>1, ReadsDeliver
  <2> QED  BY <2>1, <2>2
<1>3. ASSUME DecodeShortCode
      PROVE  sent # <<>> /\ \E r : ReaderTakes(r) /\ Delivers(r)
  <2> DEFINE r == ReadShortCode(reader, Len(Head(sent).bits), data)
  <2>1. sent # <<>> /\ Len(Head(sent).bits) <= ByteBits /\ ReaderTakes(r)
    BY <1>3 DEF DecodeShortCode
  <2>2. Delivers(r)
    BY <2>1, ReadsDeliver
  <2> QED  BY <2>1, <2>2
<1>4. ASSUME DecodeUnary
      PROVE  sent # <<>> /\ \E r : ReaderTakes(r) /\ Delivers(r)
  <2> DEFINE r == ReadHighBits(reader, data)
  <2>1. sent # <<>> /\ Head(sent).unary = TRUE /\ ReaderTakes(r)
    BY <1>4 DEF DecodeUnary, NextIs
  <2>2. Delivers(r)
    BY <2>1, ReadsDeliver
  <2> QED  BY <2>1, <2>2
<1>5. sent # <<>> /\ \E r : ReaderTakes(r) /\ Delivers(r)
  BY <1>1, <1>2, <1>3, <1>4
<1> QED  BY <1>5 DEF ReaderTakes

\* Reading preserves the invariant.
LEMMA DecodeScan ==
  ASSUME ScanInv, DecodeValue \/ DecodeBit \/ DecodeShortCode \/ DecodeUnary
  PROVE  ScanInv'
<1>1. PICK r : ReaderTakes(r) /\ Delivers(r)
  BY DecodeStep
<1>2. phase = "reading" /\ sent # <<>> /\ sent \in Seq(Codes)
  BY DecodeStep DEF ScanInv
<1>3. /\ writer' = writer /\ data' = data /\ phase' = phase /\ sent' = Tail(sent)
      /\ reader' = r.reader
  BY <1>1 DEF ReaderTakes
<1>4. sent' \in Seq(Codes)
  BY <1>2, <1>3, BitsInFirst
<1>5. Scanned(writer.out) /\ data = Given(writer.out)
  BY <1>2 DEF ScanInv
<1>6. PICK fill : IsFill(fill) /\ Holds(r.reader, writer.out, BitsIn(Tail(sent)) \o fill)
  BY <1>1 DEF Delivers
<1>7. InScan(r.reader, writer.out)
  BY <1>1 DEF Delivers
<1>8. /\ Scanned(writer'.out) /\ data' = Given(writer'.out) /\ InScan(reader', writer'.out)
      /\ Holds(reader', writer'.out, BitsIn(sent') \o fill)
  BY <1>3, <1>5, <1>6, <1>7
<1> QED  BY <1>2, <1>3, <1>4, <1>6, <1>8 DEF ScanInv

\* With all codes read there is nothing but fill left.
LEMMA FillIsLeft ==
  ASSUME ScanInv, phase \in {"reading", "closed"}, sent = <<>>
  PROVE  /\ Scanned(writer.out) /\ data = Given(writer.out) /\ InScan(reader, writer.out)
         /\ \E fill : IsFill(fill) /\ Holds(reader, writer.out, fill)
<1>1. PICK fill : IsFill(fill) /\ Holds(reader, writer.out, BitsIn(sent) \o fill)
  BY DEF ScanInv
<1>2. BitsIn(sent) \o fill = fill
  <2>1. fill \in Seq(Bits)
    BY <1>1 DEF IsFill
  <2> QED  BY <2>1, BitsInNone, ConcatEmptySeq
<1> QED  BY <1>1, <1>2 DEF ScanInv

\* FinishReading: EndScan of the decoder finds the marker, and changes nothing.
LEMMA FinishReadingStep ==
  ASSUME ScanInv, FinishReading
  PROVE  /\ ScanInv' /\ phase = "reading" /\ phase' = "closed"
         /\ UNCHANGED <<writer, reader, data, sent, delivered>>
<1>1. phase = "reading" /\ sent = <<>> /\ UNCHANGED <<writer, data, sent, delivered>>
  BY DEF FinishReading
<1>2. PICK fill : IsFill(fill) /\ Holds(reader, writer.out, fill)
  BY <1>1, FillIsLeft
<1>3. Scanned(writer.out) /\ data = Given(writer.out) /\ InScan(reader, writer.out) /\ reader.ok
  BY <1>1, FillIsLeft DEF InScan
<1>4. EndScanOfReader(reader, data) = reader
  BY <1>2, <1>3, EndScanOfReaderStep
<1>5. reader' = reader /\ phase' = "closed"
  BY <1>3, <1>4 DEF FinishReading
<1>6. ScanInv'
  BY <1>1, <1>5 DEF ScanInv
<1> QED  BY <1>1, <1>5, <1>6

\* Every step preserves it.
LEMMA NextScanInv == WriterInv /\ ScanInv /\ [Next]_vars => ScanInv'
<1> SUFFICES ASSUME WriterInv, ScanInv, [Next]_vars PROVE ScanInv'
  OBVIOUS
<1>1. ASSUME NEW v \in Values, WriteValue(v) PROVE ScanInv'
  BY <1>1, WriteValueScan
<1>2. ASSUME NEW z \in ZeroRuns, WriteUnary(z) PROVE ScanInv'
  BY <1>2, WriteUnaryScan
<1>3. CASE FinishWriting
  BY <1>3, FinishWritingScan
<1>4. CASE DecodeValue \/ DecodeBit \/ DecodeShortCode \/ DecodeUnary
  BY <1>4, DecodeScan
<1>5. CASE FinishReading
  BY <1>5, FinishReadingStep
<1>6. CASE Done \/ UNCHANGED vars
  <2>1. UNCHANGED vars
    BY <1>6 DEF Done
  <2> QED  BY <2>1 DEF ScanInv, vars
<1> QED  BY <1>1, <1>2, <1>3, <1>4, <1>5, <1>6 DEF Next

\* Whatever has been sent and not yet read is held by the writer or by the reader,
\* with nothing else but fill.
THEOREM ScanInvariant == Spec => [](WriterInv /\ ScanInv)
<1>1. Init => WriterInv /\ ScanInv
  BY InitWriterInv, InitScanInv
<1>2. (WriterInv /\ ScanInv) /\ [Next]_vars => (WriterInv /\ ScanInv)'
  BY NextWriterInv, NextScanInv
<1> QED  BY <1>1, <1>2, PTL DEF Spec

-----------------------------------------------------------------------------
(* What the runs check.                                                    *)

\* The registers of both halves keep their width, and the reader its place in the
\* bytes it has.
THEOREM StreamsKeepTypes == Spec => []TypeOK
<1>1. WriterInv /\ ScanInv => TypeOK
  <2> SUFFICES ASSUME WriterInv, ScanInv PROVE TypeOK
    OBVIOUS
  <2>1. /\ phase \in {"writing", "full", "reading", "closed"}
        /\ writer.buffer \subseteq 0..(BufferBits - 1)
        /\ writer.sunk \in 0..Len(writer.out)
    BY DEF WriterInv, Sound, Writers, Buffers, Positions
  <2>2. ASSUME reader # <<>>
        PROVE  /\ reader.cache \subseteq 0..(CacheBits - 1)
               /\ reader.valid \in 0..CacheBits
               /\ reader.pos \in 1..reader.end
    <3>1. InScan(reader, writer.out)
      BY <2>1, <2>2 DEF ScanInv
    <3> QED  BY <3>1 DEF InScan, Readers, CachePlaces
  <2> QED  BY <2>1, <2>2 DEF TypeOK
<1> QED  BY <1>1, ScanInvariant, PTL

\* Reading a scan that was written to its end never throws, however its codewords
\* fall on the cache, the buffer of a stream and the stuffed bits.
THEOREM ReadersNeverReject == Spec => []NeverRejected
<1>1. WriterInv /\ ScanInv => NeverRejected
  BY DEF WriterInv, ScanInv, InScan, NeverRejected
<1> QED  BY <1>1, ScanInvariant, PTL

\* When the scan has been read, GetCurBytePos gives the marker that follows it.
THEOREM PositionsAreMarkers == Spec => []PositionIsMarker
<1>1. WriterInv /\ ScanInv => PositionIsMarker
  <2> SUFFICES ASSUME ScanInv, phase = "closed"
               PROVE  GetCurBytePos(reader, data) = Len(data) - 1
    BY DEF PositionIsMarker
  <2>1. sent = <<>>
    BY DEF ScanInv
  <2>2. PICK fill : IsFill(fill) /\ Holds(reader, writer.out, fill)
    BY <2>1, FillIsLeft
  <2>3. Scanned(writer.out) /\ data = Given(writer.out) /\ InScan(reader, writer.out)
    BY <2>1, FillIsLeft
  <2> QED  BY <2>2, <2>3, BytePositionStep
<1> QED  BY <1>1, ScanInvariant, PTL

\* The top bits of a word, by their place.
LEMMA TopOfWord ==
  ASSUME NEW width \in Nat, NEW word \in SUBSET (0..(width - 1)), NEW n \in 0..width
  PROVE  LET bits == BitsOf(TopBits(word, n, width), n)
         IN  /\ bits \in Seq(Bits) /\ Len(bits) = n
             /\ \A j \in 1..n : bits[j] = IF width - j \in word THEN 1 ELSE 0
<1> DEFINE top == TopBits(word, n, width)
<1>1. n \in Nat /\ \A p \in word : p \in Int
  OBVIOUS
<1>2. \A x : x \in top <=> \E p \in word : p >= width - n /\ x = p - (width - n)
  BY DEF TopBits, ShiftRight
<1> HIDE DEF top
<1>3. BitsOf(top, n) \in Seq(Bits) /\ Len(BitsOf(top, n)) = n
      /\ \A j \in 1..n : BitsOf(top, n)[j] = IF (n - j) \in top THEN 1 ELSE 0
  BY <1>1, BitsOfWord
<1>4. ASSUME NEW j \in 1..n PROVE (n - j) \in top <=> width - j \in word
  <2>1. \A p \in word : (p >= width - n /\ n - j = p - (width - n)) <=> p = width - j
    BY <1>1
  <2> QED  BY <1>2, <2>1
<1> QED  BY <1>3, <1>4 DEF top

\* The bytes put and what is in the buffer are the bits that the writer holds.
LEMMA PutIsSent ==
  ASSUME NEW w, Sound(w), w.free \in 0..BufferBits, NEW s \in Seq(Bits),
         Carries(w, OnesOf(s), Len(s), Top(w))
  PROVE  ScanBits(w.out, 1)
           \o BitsOf(TopBits(w.buffer, BufferBits - w.free, BufferBits), BufferBits - w.free) = s
<1> DEFINE n == BufferBits - w.free
           b == ScanBits(w.out, 1)
           u == BitsOf(TopBits(w.buffer, n, BufferBits), n)
           l == BitsPut(w)
           k == Top(w)
           t == b \o u
           m == Len(s)
<1>1. n \in 0..BufferBits /\ BufferBits \in Nat /\ n \in Nat
  BY Widths
<1>2. b \in Seq(Bits) /\ Len(b) = l /\ l \in Nat /\ w.buffer \in SUBSET (0..(BufferBits - 1))
  BY PutBits DEF BitsPut, Positions
<1>3. u \in Seq(Bits) /\ Len(u) = n
      /\ \A j \in 1..n : u[j] = IF BufferBits - j \in w.buffer THEN 1 ELSE 0
  <2> HIDE DEF n
  <2> QED  BY <1>1, <1>2, TopOfWord
<1>4. /\ t \in Seq(Bits) /\ Len(t) = Len(b) + Len(u)
      /\ \A i \in 1..Len(b) : t[i] = b[i]
      /\ \A i \in 1..Len(u) : t[Len(b) + i] = u[i]
  <2>1. b \in Seq(Bits) /\ u \in Seq(Bits)
    BY <1>2, <1>3
  <2> HIDE DEF b, u
  <2> QED  BY <2>1, Joined
<1>5. /\ k - w.free = m
      /\ \A j \in 1..l : b[j] = 1 <=> j \in OnesOf(s)
      /\ \A p \in w.buffer : k - p \in OnesOf(s)
      /\ \A i \in OnesOf(s) : i > l /\ i <= k => k - i \in w.buffer
  BY DEF Carries
<1>6. k = l + BufferBits /\ n = BufferBits - w.free
  BY DEF Top
<1>7. m \in Nat /\ (\A i \in 1..m : s[i] \in Bits) /\ \A i : i \in OnesOf(s) <=> i \in 1..m /\ s[i] = 1
  BY DEF OnesOf
<1> HIDE DEF n, b, u, l, k, t, m
<1>8. m = l + n
  BY <1>1, <1>2, <1>5, <1>6
<1>9. ASSUME NEW i \in 1..m PROVE t[i] = 1 <=> s[i] = 1
  <2>1. CASE i <= l
    <3>1. i \in 1..l /\ t[i] = b[i]
      BY <1>2, <1>4, <2>1
    <3> QED  BY <1>5, <1>7, <3>1
  <2>2. CASE ~(i <= l)
    <3> DEFINE j == i - l
    <3>1. j \in 1..n /\ i = l + j
      BY <1>1, <1>2, <1>8, <2>2
    <3>2. k - i = BufferBits - j /\ k - (BufferBits - j) = i /\ i > l /\ i <= k
      BY <1>1, <1>2, <1>6, <3>1
    <3> HIDE DEF j
    <3>3. t[i] = u[j]
      BY <1>2, <1>3, <1>4, <3>1
    <3>4. u[j] = 1 <=> BufferBits - j \in w.buffer
      BY <1>3, <3>1
    <3>5. BufferBits - j \in w.buffer => i \in OnesOf(s)
      BY <1>5, <3>2
    <3>6. i \in OnesOf(s) => BufferBits - j \in w.buffer
      BY <1>5, <3>2
    <3> QED  BY <1>7, <3>3, <3>4, <3>5, <3>6
  <2> QED  BY <2>1, <2>2
<1>10. Len(t) = m
  BY <1>2, <1>3, <1>4, <1>8
<1>11. t = s
  <2>1. ASSUME NEW i \in 1..m PROVE t[i] = s[i]
    <3>1. t[i] \in {0, 1} /\ s[i] \in {0, 1}
      BY <1>4, <1>7, <1>10 DEF Bits
    <3> QED  BY <1>9, <3>1
  <2>2. Len(t) = Len(s) /\ \A i \in 1..Len(t) : t[i] = s[i]
    BY <1>10, <2>1 DEF m
  <2> QED  BY <1>4, <2>2, SeqEqual
<1> QED  BY <1>11 DEF t, b, u, n

\* The valid bits of the cache and those ahead are the bits that the reader holds.
LEMMA HeldIsAhead ==
  ASSUME NEW out, Scanned(out), NEW bits, NEW d, InScan(d, out), Holds(d, out, bits)
  PROVE  /\ BitsOf(TopBits(d.cache, d.valid, CacheBits), d.valid) \o Ahead(out, d.pos) = bits
         /\ BitsOf(TopBits(d.cache, d.valid, CacheBits), d.valid) \in Seq(Bits)
<1> DEFINE n == d.valid
           u == BitsOf(TopBits(d.cache, n, CacheBits), n)
           b == Ahead(out, d.pos)
           t == u \o b
           m == Len(bits)
<1>1. /\ n \in 0..CacheBits /\ CacheBits \in Nat /\ d.cache \in SUBSET (0..(CacheBits - 1))
      /\ d.pos \in 1..(Len(out) + 1) /\ n \in Nat
  BY CacheWidth DEF InScan, Readers, CachePlaces
<1>2. b \in Seq(Bits)
  <2>1. CASE d.pos = Len(out) + 1
    <3>1. b = <<>>
      BY <2>1, AheadEnd
    <3>2. <<>> \in Seq(Bits)
      OBVIOUS
    <3> QED  BY <3>1, <3>2
  <2>2. CASE d.pos # Len(out) + 1
    <3>1. d.pos \in 1..Len(out)
      BY <1>1, <2>2, GivenData
    <3> QED  BY <3>1, AheadByte
  <2> QED  BY <2>1, <2>2
<1>3. u \in Seq(Bits) /\ Len(u) = n
      /\ \A j \in 1..n : u[j] = IF CacheBits - j \in d.cache THEN 1 ELSE 0
  <2> HIDE DEF n
  <2> QED  BY <1>1, TopOfWord
<1>4. /\ t \in Seq(Bits) /\ Len(t) = Len(u) + Len(b)
      /\ \A i \in 1..Len(u) : t[i] = u[i]
      /\ \A i \in 1..Len(b) : t[Len(u) + i] = b[i]
  <2>1. b \in Seq(Bits) /\ u \in Seq(Bits)
    BY <1>2, <1>3
  <2> HIDE DEF b, u
  <2> QED  BY <2>1, Joined
<1>5. /\ bits \in Seq(Bits) /\ m = n + Len(b) /\ Len(b) \in Nat
      /\ \A j \in 1..n : bits[j] = 1 => CacheBits - j \in d.cache
      /\ \A j \in 1..Len(b) : bits[n + j] = b[j]
      /\ \A x \in d.cache : CacheBits - x <= m /\ bits[CacheBits - x] = 1
  BY <1>2 DEF Holds
<1>6. m \in Nat /\ \A i \in 1..m : bits[i] \in {0, 1}
  BY <1>5 DEF Bits
<1> HIDE DEF n, u, b, t, m
<1>7. ASSUME NEW i \in 1..m PROVE t[i] = bits[i]
  <2>1. CASE i <= n
    <3>1. i \in 1..n /\ t[i] = u[i]
      BY <1>1, <1>3, <1>4, <2>1
    <3>2. u[i] = IF CacheBits - i \in d.cache THEN 1 ELSE 0
      BY <1>3, <3>1
    <3>3. CacheBits - (CacheBits - i) = i
      BY <1>1, <3>1
    <3>4. CacheBits - i \in d.cache <=> bits[i] = 1
      BY <1>5, <3>1, <3>3
    <3> QED  BY <1>6, <3>1, <3>2, <3>4
  <2>2. CASE ~(i <= n)
    <3>1. i - n \in 1..Len(b) /\ i = n + (i - n)
      BY <1>1, <1>5, <2>2
    <3> QED  BY <1>3, <1>4, <1>5, <3>1
  <2> QED  BY <2>1, <2>2
<1>8. t = bits
  <2>1. Len(t) = Len(bits) /\ \A i \in 1..Len(t) : t[i] = bits[i]
    BY <1>3, <1>4, <1>5, <1>7 DEF m
  <2> QED  BY <1>4, <1>5, <2>1, SeqEqual
<1> QED  BY <1>3, <1>8 DEF t, u, b, n

\* While a scan is written what is pending is what was sent; then there is fill
\* behind it.
LEMMA PendingIsSent ==
  ASSUME WriterInv, ScanInv, phase # "full"
  PROVE  \E fill : IsFill(fill) /\ Pending = BitsIn(sent) \o fill
<1> DEFINE s == BitsIn(sent)
<1>1. s \in Seq(Bits)
  BY BitsInSeq DEF ScanInv
<1> HIDE DEF s
<1>2. CASE phase = "writing"
  <2>1. Pending = s
    <3>1. Sound(writer) /\ writer.free \in 0..BufferBits /\ Carries(writer, OnesOf(s), Len(s), Top(writer))
      BY <1>2 DEF WriterInv, ScanInv, s
    <3> QED  BY <1>1, <1>2, <3>1, PutIsSent DEF Pending
  <2>2. IsFill(<<>>)
    BY Widths DEF IsFill
  <2>3. s \o <<>> = s
    BY <1>1, ConcatEmptySeq
  <2> QED  BY <2>1, <2>2, <2>3 DEF s
<1>3. CASE phase # "writing"
  <2>1. phase \in {"reading", "closed"}
    BY <1>3 DEF WriterInv
  <2> DEFINE out == writer.out
             d == reader
             stuffed == IF d.pos > 1 /\ out[d.pos - 1] = FF THEN <<1>> ELSE <<>>
             rest == ScanBits(out, d.pos)
             u == BitsOf(TopBits(d.cache, d.valid, CacheBits), d.valid)
  <2>2. Scanned(out) /\ data = Given(out) /\ InScan(d, out)
    BY <2>1 DEF ScanInv
  <2>3. PICK fill : IsFill(fill) /\ Holds(d, out, s \o fill)
    BY <2>1 DEF ScanInv, s
  <2>4. /\ d.pos \in 1..(Len(out) + 1) /\ Len(out) \in Nat /\ out \in Seq(Octets)
        /\ SubSeq(data, 1, Len(data) - Len(Marker)) = out
        /\ \A i \in 1..Len(out) : data[i] = out[i]
    BY <2>2, GivenData DEF InScan, Scanned
  <2>5. d.pos > 1 => d.pos - 1 \in 1..Len(out)
    BY <2>4
  <2>6. Pending = (u \o stuffed) \o rest
    BY <1>3, <2>4, <2>5 DEF Pending
  <2>7. u \o (stuffed \o rest) = s \o fill /\ u \in Seq(Bits)
    BY <2>2, <2>3, HeldIsAhead DEF Ahead
  <2>8. stuffed \in Seq(Bits)
    <3>1. <<>> \in Seq(Bits) /\ <<1>> \in Seq(Bits)
      BY DEF Bits
    <3> QED  BY <3>1
  <2>9. rest \in Seq(Bits)
    BY <2>4, ScanPiecesJoined
  <2> HIDE DEF u, stuffed, rest
  <2>10. (u \o stuffed) \o rest = u \o (stuffed \o rest)
    <3>1. ASSUME NEW b \in Seq(Bits), NEW c \in Seq(Bits) PROVE (u \o b) \o c = u \o (b \o c)
      BY <2>7, ConcatAssociative
    <3> QED  BY <2>8, <2>9, <3>1
  <2> QED  BY <2>3, <2>6, <2>7, <2>10 DEF s
<1> QED  BY <1>2, <1>3

\* At every moment the bits still to be read are between the encoder's buffer and
\* the decoder's cache, each once and in order, with nothing but fill behind them.
THEOREM NothingIsLost == Spec => []NothingLost
<1>1. WriterInv /\ ScanInv => NothingLost
  <2> SUFFICES ASSUME WriterInv, ScanInv, phase # "full"
               PROVE  /\ IsPrefix(SentBits, Pending)
                      /\ \A i \in (Len(SentBits) + 1)..Len(Pending) : Pending[i] = 0
    BY DEF NothingLost
  <2>1. PICK fill : IsFill(fill) /\ Pending = BitsIn(sent) \o fill
    BY PendingIsSent
  <2> DEFINE s == BitsIn(sent)
             t == Pending
  <2>2. SentBits = s
    BY DEF SentBits, BitsIn, BitsOfEach
  <2>3. s \in Seq(Bits) /\ fill \in Seq(Bits)
    <3>1. sent \in Seq(Codes)
      BY DEF ScanInv
    <3>2. s \in Seq(Bits)
      BY <3>1, BitsInSeq
    <3> QED  BY <2>1, <3>2 DEF IsFill
  <2>4. t = s \o fill
    BY <2>1
  <2> HIDE DEF s, t
  <2>5. /\ t \in Seq(Bits) /\ Len(t) = Len(s) + Len(fill) /\ Len(s) \in Nat /\ Len(fill) \in Nat
        /\ \A i \in 1..Len(fill) : t[Len(s) + i] = fill[i]
    BY <2>3, <2>4, Joined
  <2>6. SubSeq(t, 1, Len(s)) = s
    BY <2>3, <2>4, PartsOfJoined
  <2>7. SubSeq(s, 1, Len(s)) = s
    BY <2>3
  <2>8. IsPrefix(s, t)
    BY <2>5, <2>6, <2>7 DEF IsPrefix
  <2>9. ASSUME NEW i \in (Len(s) + 1)..Len(t) PROVE t[i] = 0
    <3>1. i - Len(s) \in 1..Len(fill) /\ i = Len(s) + (i - Len(s))
      BY <2>5
    <3>2. \A j \in 1..Len(fill) : fill[j] = 0
      BY <2>1 DEF IsFill
    <3> QED  BY <2>5, <3>1, <3>2
  <2> QED  BY <2>2, <2>8, <2>9 DEF t
<1> QED  BY <1>1, ScanInvariant, PTL

-----------------------------------------------------------------------------
(* The channel.                                                            *)

\* A code that is sent is put in the channel.
LEMMA PutInChannel ==
  ASSUME ScanInv, phase = "writing", NEW c \in Codes, NEW w, WriterIs(w, c)
  PROVE  Channel!Next
<1>1. sent \in Seq(Codes) /\ delivered' = delivered
  BY DEF ScanInv, WriterIs
<1> DEFINE queue == IF phase = "full" THEN <<>> ELSE [i \in DOMAIN sent |-> sent[i].bits]
<1>2. queue = BitsOfEach(sent)
  BY DEF BitsOfEach
<1>3. CASE w.ok
  <2>1. phase' = "writing" /\ sent' = Append(sent, c)
    BY <1>3 DEF WriterIs
  <2>2. queue' = BitsOfEach(Append(sent, c))
    BY <2>1 DEF BitsOfEach
  <2>3. queue' = Append(queue, c.bits)
    BY <1>1, <1>2, <2>2, EachAppend
  <2>4. c.bits \in Values \cup {UnaryCode(z) : z \in ZeroRuns}
    BY CodeBits
  <2>5. Channel!Put(c.bits)
    BY <1>1, <2>1, <2>3 DEF Channel!Put
  <2> QED  BY <2>4, <2>5 DEF Channel!Next
<1>4. CASE ~w.ok
  <2>1. phase' = "full"
    BY <1>4 DEF WriterIs
  <2>2. Channel!RunFull
    BY <1>1, <2>1 DEF Channel!RunFull
  <2> QED  BY <2>2 DEF Channel!Next
<1> QED  BY <1>3, <1>4

\* Every step of a scan is a step of the channel, or none.
LEMMA StepOfChannel ==
  ASSUME ScanInv, [Next]_vars
  PROVE  [Channel!Next]_(Channel!vars)
<1> DEFINE queue == IF phase = "full" THEN <<>> ELSE [i \in DOMAIN sent |-> sent[i].bits]
<1>1. ASSUME NEW v \in Values, WriteValue(v) PROVE Channel!Next
  <2> DEFINE c == [unary |-> FALSE, bits |-> v]
  <2>1. c \in Codes
    BY DEF Codes
  <2>2. phase = "writing" /\ \E w : WriterIs(w, c)
    BY <1>1 DEF WriteValue
  <2> HIDE DEF c
  <2> QED  BY <2>1, <2>2, PutInChannel
<1>2. ASSUME NEW z \in ZeroRuns, WriteUnary(z) PROVE Channel!Next
  <2> DEFINE c == [unary |-> TRUE, bits |-> UnaryCode(z)]
  <2>1. c \in Codes
    BY DEF Codes
  <2>2. phase = "writing" /\ \E w : WriterIs(w, c)
    BY <1>2 DEF WriteUnary
  <2> HIDE DEF c
  <2> QED  BY <2>1, <2>2, PutInChannel
<1>3. ASSUME FinishWriting PROVE Channel!Next
  <2>1. phase = "writing" /\ sent' = sent /\ delivered' = delivered
        /\ phase' \in {"reading", "full"}
    BY <1>3 DEF FinishWriting
  <2>2. CASE phase' = "reading"
    <3>1. queue' = queue
      BY <2>1, <2>2
    <3>2. Channel!EndOfWriting
      BY <2>1, <2>2, <3>1 DEF Channel!EndOfWriting
    <3> QED  BY <3>2 DEF Channel!Next
  <2>3. CASE phase' = "full"
    <3>1. queue' = <<>>
      BY <2>3
    <3>2. Channel!RunFull
      BY <2>1, <2>3, <3>1 DEF Channel!RunFull
    <3> QED  BY <3>2 DEF Channel!Next
  <2> QED  BY <2>1, <2>2, <2>3
<1>4. ASSUME DecodeValue \/ DecodeBit \/ DecodeShortCode \/ DecodeUnary PROVE Channel!Next
  <2>1. PICK r : ReaderTakes(r) /\ Delivers(r)
    BY <1>4, DecodeStep
  <2>2. /\ phase = "reading" /\ phase' = "reading" /\ sent # <<>> /\ sent \in Seq(Codes)
        /\ sent' = Tail(sent) /\ delivered' = Head(sent).bits
    BY <1>4, <2>1, DecodeStep DEF ReaderTakes, Delivers, ScanInv
  <2>3. /\ BitsOfEach(sent) # <<>> /\ Head(BitsOfEach(sent)) = Head(sent).bits
        /\ Tail(BitsOfEach(sent)) = BitsOfEach(Tail(sent))
    BY <2>2, EachFirst
  <2>4. queue = BitsOfEach(sent) /\ queue' = BitsOfEach(Tail(sent))
    BY <2>2 DEF BitsOfEach
  <2>5. Channel!Get
    BY <2>2, <2>3, <2>4 DEF Channel!Get
  <2> QED  BY <2>5 DEF Channel!Next
<1>5. ASSUME FinishReading PROVE Channel!Next
  <2>1. /\ phase = "reading" /\ phase' = "closed" /\ sent = <<>> /\ sent' = <<>>
        /\ delivered' = delivered
    BY <1>5, FinishReadingStep DEF FinishReading
  <2>2. queue = <<>> /\ queue' = <<>>
    BY <2>1, BitsInNone DEF BitsOfEach
  <2>3. Channel!EndOfReading
    BY <2>1, <2>2 DEF Channel!EndOfReading
  <2> QED  BY <2>3 DEF Channel!Next
<1>6. ASSUME Done \/ UNCHANGED vars PROVE UNCHANGED Channel!vars
  <2>1. UNCHANGED <<sent, delivered, phase>>
    BY <1>6 DEF Done, vars
  <2> QED  BY <2>1 DEF Channel!vars
<1> QED  BY <1>1, <1>2, <1>3, <1>4, <1>5, <1>6 DEF Next

\* A scan is a channel: whatever is written with AppendToBitStream and read with any
\* of the reads of the decoder arrives whole, unchanged and in order.
THEOREM ScansAreChannels == Spec => ImplementsChannel
<1>1. Init => Channel!Init
  <2> SUFFICES ASSUME Init PROVE Channel!Init
    OBVIOUS
  <2>1. sent = <<>> /\ delivered = <<>> /\ phase = "writing"
    BY DEF Init
  <2>2. [i \in DOMAIN sent |-> sent[i].bits] = <<>>
    BY <2>1, BitsInNone DEF BitsOfEach
  <2> QED  BY <2>1, <2>2 DEF Channel!Init
<1>2. (WriterInv /\ ScanInv) /\ [Next]_vars => [Channel!Next]_(Channel!vars)
  BY StepOfChannel
<1> QED  BY <1>1, <1>2, ScanInvariant, PTL DEF Spec, ImplementsChannel, Channel!Spec
=============================================================================

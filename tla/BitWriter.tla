------------------------------ MODULE BitWriter ------------------------------
(***************************************************************************)
(* EncoderStrategy (src/encoder_strategy.h): codewords are collected in a  *)
(* 32-bit buffer and flushed to the destination in bytes, with a 0 bit     *)
(* stuffed after every 0xFF so that no marker can appear in the scan.      *)
(*                                                                         *)
(* The fields of the class are a record: buffer is bitBuffer_, free is     *)
(* freeBitCount_, ff is isFFWritten_, room is compressedLength_, out holds *)
(* the bytes written before position_, and sunk says how many of them went *)
(* to a stream.  ok turns FALSE when destination_buffer_too_small is       *)
(* thrown; the codec object is then destroyed.                             *)
(***************************************************************************)
EXTENDS Words

CONSTANTS StreamBuffer   \* size of buffer_ when writing to a stream (4000)

ASSUME StreamBufferAssumption == StreamBuffer \in Nat /\ StreamBuffer >= 4

\* Bits in bitBuffer_: four bytes.
BufferBits == 4 * ByteBits

\* Init: stream says whether the destination is a stream; capacity is the
\* size of a destination in memory.
InitWriter(stream, capacity) ==
    [buffer |-> {}, free |-> BufferBits, ff |-> FALSE,
     room |-> IF stream THEN StreamBuffer ELSE capacity,
     out |-> <<>>, sunk |-> 0, stream |-> stream, ok |-> TRUE]

\* OverFlow: hand the buffered bytes to the stream, or fail.
OverFlow(w) ==
    IF w.stream
    THEN [w EXCEPT !.sunk = Len(w.out), !.room = StreamBuffer]
    ELSE [w EXCEPT !.ok = FALSE]

\* Mutant: no 0 bit follows a byte 0xFF.
PutByteWithoutStuffing(w) ==
    IF w.free >= BufferBits THEN w
    ELSE LET byte == TopBits(w.buffer, ByteBits, BufferBits)
         IN  [w EXCEPT !.buffer = ShiftLeft(@, ByteBits, BufferBits),
                       !.free = @ + ByteBits, !.ff = (byte = FF),
                       !.out = Append(@, byte), !.room = @ - 1]

\* One turn of the loop in Flush.
PutByte(w) ==
    IF w.free >= BufferBits THEN w
    ELSE LET bits == IF w.ff THEN ByteBits - 1 ELSE ByteBits
             byte == TopBits(w.buffer, bits, BufferBits)
         IN  [w EXCEPT !.buffer = ShiftLeft(@, bits, BufferBits),
                       !.free = @ + bits,
                       !.ff = (byte = FF),
                       !.out = Append(@, byte),
                       !.room = @ - 1]

PutFourBytes(w) == PutByte(PutByte(PutByte(PutByte(w))))

\* Flush: write at most four bytes, having made room for four.
Flush(w) ==
    LET v == IF w.room < 4 THEN OverFlow(w) ELSE w
    IN  IF v.ok THEN PutFourBytes(v) ELSE v

AddBits(w, word, n) ==
    [w EXCEPT !.free = @ - n,
              !.buffer = @ \cup (IF w.free >= n
                                 THEN ShiftLeft(word, w.free - n, BufferBits)
                                 ELSE ShiftRight(word, n - w.free))]

\* The remaining bits of a codeword after a flush, once more by what is free.
AddRest(w, word) ==
    [w EXCEPT !.buffer = @ \cup (IF w.free >= 0
                                 THEN ShiftLeft(word, w.free, BufferBits)
                                 ELSE ShiftRight(word, -w.free))]

\* Mutant: one flush is taken to make room enough.
AppendWithOneFlush(w, word, n) ==
    LET w0 == AddBits(w, word, n)
        w1 == Flush(w0)
    IN  IF w0.free >= 0 THEN w0 ELSE IF w1.ok THEN AddRest(w1, word) ELSE w1

\* AppendToBitStream(bits, bitCount): a second flush is needed when stuffed
\* bits kept the first from writing enough.
AppendToBitStream(w, word, n) ==
    LET w0 == AddBits(w, word, n)
        w1 == Flush(w0)
        w2 == Flush(AddRest(w1, word))
    IN  IF w0.free >= 0 THEN w0
        ELSE IF ~w1.ok THEN w1
        ELSE IF w1.free >= 0 THEN AddRest(w1, word)
        ELSE IF w2.ok THEN AddRest(w2, word) ELSE w2

\* Mutant: the last bits are filled up as if no 0xFF came before.
EndScanIgnoringFF(w) ==
    LET w1 == Flush(w)
        w2 == AppendToBitStream(w1, {}, w1.free % ByteBits)
        w3 == IF w1.ok THEN (IF w2.ok THEN Flush(w2) ELSE w2) ELSE w1
    IN  IF w3.ok /\ w3.stream THEN OverFlow(w3) ELSE w3

\* Mutant: what is left in the buffer is not handed to the stream.
EndScanWithoutOverFlow(w) ==
    LET w1 == Flush(w)
        fill == (IF w1.ff THEN w1.free - 1 ELSE w1.free) % ByteBits
        w2 == AppendToBitStream(w1, {}, fill)
    IN  IF w1.ok THEN (IF w2.ok THEN Flush(w2) ELSE w2) ELSE w1

\* EndScan: flush, fill the last byte with 0 bits, flush, and hand what is
\* left to the stream.  After a 0xFF the next byte has one bit less.
EndScanOfWriter(w) ==
    LET w1 == Flush(w)
        fill == (IF w1.ff THEN w1.free - 1 ELSE w1.free) % ByteBits
        w2 == AppendToBitStream(w1, {}, fill)
        w3 == IF w1.ok THEN (IF w2.ok THEN Flush(w2) ELSE w2) ELSE w1
    IN  IF w3.ok /\ w3.stream THEN OverFlow(w3) ELSE w3
=============================================================================

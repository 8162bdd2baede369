------------------------------ MODULE BitStream ------------------------------
(***************************************************************************)
(* One scan written with a BitWriter and read back with a BitReader: the   *)
(* entropy-coded part of an encode call followed by a decode call.  The    *)
(* codewords are arbitrary; the codec on either side agrees about their    *)
(* kinds and lengths.  What was written is kept in sent, to compare it     *)
(* with what is read: no action uses the values in it.                     *)
(***************************************************************************)
EXTENDS BitWriter, BitReader, SequencesExt

CONSTANTS Values,      \* codewords written with one AppendToBitStream
          ZeroRuns,    \* lengths of the 0 runs of unary codes
          Capacities,  \* sizes of a destination in memory
          MaxBits      \* bound on the bits of a scan, for TLC

ASSUME ValuesAssumption ==
    \A v \in Values : /\ v \in Seq({0, 1})
                      /\ Len(v) \in 1..(BufferBits - 1) /\ Len(v) <= CacheBits - ByteBits

\* The entropy coder cuts a run that does not fit one call in two that do.
ASSUME ZeroRunsAssumption ==
    \A z \in ZeroRuns : z \in Nat /\ z - z \div 2 + 1 <= BufferBits - 1

ASSUME CapacitiesAssumption == Capacities \subseteq Nat

VARIABLES writer,     \* the encoder's half
          reader,     \* the decoder's half; <<>> until the scan is written
          data,       \* the bytes the decoder is given
          sent,       \* the codewords written and not yet read, and their kinds
          delivered,  \* the codeword last read
          phase       \* "writing", "full", "reading" or "closed"
vars == <<writer, reader, data, sent, delivered, phase>>

\* EOI, or the SOS of the next scan, follows the scan at once.
Marker == <<FF, {ByteBits - 1}>>

SentBits == FlattenSeq([i \in DOMAIN sent |-> sent[i].bits])

Init ==
    /\ \/ writer = InitWriter(TRUE, 0)
       \/ \E c \in Capacities : writer = InitWriter(FALSE, c)
    /\ reader = <<>> /\ data = <<>> /\ sent = <<>> /\ delivered = <<>>
    /\ phase = "writing"

UnaryCode(zeros) == [i \in 1..(zeros + 1) |-> IF i > zeros THEN 1 ELSE 0]

WriterIs(w, code) ==
    /\ writer' = w
    /\ phase' = IF w.ok THEN "writing" ELSE "full"
    /\ sent' = IF w.ok THEN Append(sent, code) ELSE sent
    /\ UNCHANGED <<reader, data, delivered>>

WriteValue(bits) ==
    /\ phase = "writing"
    /\ Len(SentBits) + Len(bits) <= MaxBits
    /\ WriterIs(AppendToBitStream(writer, WordOf(bits), Len(bits)),
                [unary |-> FALSE, bits |-> bits])

\* The unary part of EncodeMappedValue: a code that does not fit the buffer
\* is written in two calls.
AppendUnary(w, zeros) ==
    IF zeros + 1 <= BufferBits - 1
    THEN AppendToBitStream(w, {0}, zeros + 1)
    ELSE LET v == AppendToBitStream(w, {}, zeros \div 2)
         IN  IF v.ok THEN AppendToBitStream(v, {0}, zeros - zeros \div 2 + 1) ELSE v

WriteUnary(zeros) ==
    /\ phase = "writing"
    /\ Len(SentBits) + zeros + 1 <= MaxBits
    /\ WriterIs(AppendUnary(writer, zeros), [unary |-> TRUE, bits |-> UnaryCode(zeros)])

\* EndScan of the encoder; the decoder's Init reads what it left, from a
\* stream or from memory, whatever the encoder wrote to.
FinishWriting ==
    /\ phase = "writing"
    /\ sent # <<>>   \* an image has at least one sample
    /\ LET w == EndScanOfWriter(writer)
       IN  /\ writer' = w
           /\ IF w.ok
              THEN \E stream \in BOOLEAN :
                       /\ data' = w.out \o Marker
                       /\ reader' = InitReader(stream, w.out \o Marker)
                       /\ phase' = "reading"
              ELSE phase' = "full" /\ UNCHANGED <<reader, data>>
    /\ UNCHANGED <<sent, delivered>>

ReaderTakes(r) ==
    /\ phase = "reading"
    /\ reader.ok
    /\ reader' = r.reader
    /\ delivered' = r.bits
    /\ sent' = Tail(sent)
    /\ UNCHANGED <<writer, data, phase>>

NextIs(unary) == phase = "reading" /\ sent # <<>> /\ Head(sent).unary = unary

DecodeValue ==
    NextIs(FALSE) /\ ReaderTakes(ReadValue(reader, Len(Head(sent).bits), data))

DecodeBit ==
    /\ NextIs(FALSE) /\ Len(Head(sent).bits) = 1
    /\ ReaderTakes(ReadBit(reader, data))

DecodeShortCode ==
    /\ phase = "reading" /\ sent # <<>> /\ Len(Head(sent).bits) <= ByteBits
    /\ ReaderTakes(ReadShortCode(reader, Len(Head(sent).bits), data))

DecodeUnary == NextIs(TRUE) /\ ReaderTakes(ReadHighBits(reader, data))

FinishReading ==
    /\ phase = "reading" /\ sent = <<>> /\ reader.ok
    /\ reader' = EndScanOfReader(reader, data)
    /\ phase' = IF reader'.ok THEN "closed" ELSE "reading"
    /\ UNCHANGED <<writer, data, sent, delivered>>

\* The calls have returned.
Done == phase \in {"full", "closed"} /\ UNCHANGED vars

Next == \/ \E v \in Values : WriteValue(v)
        \/ \E z \in ZeroRuns : WriteUnary(z)
        \/ FinishWriting
        \/ DecodeValue \/ DecodeBit \/ DecodeShortCode \/ DecodeUnary
        \/ FinishReading
        \/ Done

Spec == Init /\ [][Next]_vars

-----------------------------------------------------------------------------
(* The channel that a scan implements. *)

\* The bits in the bytes of a scan from position p on, without stuffed bits.
ScanBits(bytes, p) ==
    FlattenSeq([i \in 1..(Len(bytes) - p + 1) |->
        LET q == p + i - 1
        IN  BitsOf(bytes[q], IF q > 1 /\ bytes[q - 1] = FF THEN ByteBits - 1 ELSE ByteBits)])

\* The bits written and not yet read: those in the destination and in the
\* encoder's buffer, then those in the decoder's cache and behind it.  The
\* last bit of a 0xFF the decoder has loaded is not counted as valid yet.
Pending ==
    IF phase = "writing"
    THEN ScanBits(writer.out, 1)
         \o BitsOf(TopBits(writer.buffer, BufferBits - writer.free, BufferBits),
                   BufferBits - writer.free)
    ELSE BitsOf(TopBits(reader.cache, reader.valid, CacheBits), reader.valid)
         \o (IF reader.pos > 1 /\ data[reader.pos - 1] = FF THEN <<1>> ELSE <<>>)
         \o ScanBits(SubSeq(data, 1, Len(data) - Len(Marker)), reader.pos)

Channel == INSTANCE BitChannel WITH
    Codewords <- Values \cup {UnaryCode(z) : z \in ZeroRuns},
    queue     <- IF phase = "full" THEN <<>> ELSE [i \in DOMAIN sent |-> sent[i].bits]

\* A scan is a channel: whatever is written with AppendToBitStream, read back
\* with any of the decoder's read functions, arrives unchanged and in order,
\* over every way the codewords fall on the buffers and the stuffed bits.
ImplementsChannel == Channel!Spec

\* At every moment the bits of the codewords that are still to be read are
\* all somewhere between the encoder's buffer and the decoder's cache, each
\* once and in order; behind them is nothing but fill.
NothingLost ==
    phase # "full" => /\ IsPrefix(SentBits, Pending)
                      /\ \A i \in (Len(SentBits) + 1)..Len(Pending) : Pending[i] = 0

-----------------------------------------------------------------------------
TypeOK ==
    /\ phase \in {"writing", "full", "reading", "closed"}
    /\ writer.buffer \subseteq 0..(BufferBits - 1)
    /\ writer.sunk \in 0..Len(writer.out)
    /\ reader # <<>> => /\ reader.cache \subseteq 0..(CacheBits - 1)
                         /\ reader.valid \in 0..CacheBits
                         /\ reader.pos \in 1..reader.end

\* ASSERT(freeBitCount_ >= 0) of AppendToBitStream and
\* ASSERT(freeBitCount_ == 0x20) of EndScan (encoder_strategy.h, lines 90 and
\* 110): two flushes always suffice, and the scan ends on a whole byte.  And
\* compressedLength_ is unsigned and never decremented below 0: a flush does
\* not write behind the destination, however many bytes it turns out to need.
WriterAssertsHold ==
    /\ writer.room >= 0
    /\ phase = "writing" => writer.free \in 0..BufferBits
    /\ phase \in {"reading", "closed"} => writer.free = BufferBits

\* A scan contains no marker, and its last byte cannot be taken for the first
\* of one (T.87, A.1).
NoMarkerInScan ==
    \A i \in 1..Len(writer.out) :
        writer.out[i] = FF =>
            IF i < Len(writer.out) THEN ~IsMarkerCode(writer.out[i + 1])
            ELSE phase \in {"writing", "full"}

\* A scan written to a stream has reached the stream when the call returns.
StreamIsComplete ==
    phase \in {"reading", "closed"} /\ writer.stream => writer.sunk = Len(writer.out)

\* Reading a scan that was written to its end never throws, not in the last
\* codeword and not for what EndScan finds behind it.
NeverRejected == reader # <<>> => reader.ok

\* GetCurBytePos gives the marker behind the scan, where the stream reader
\* looks for the next segment: the bytes still cached are handed back.
PositionIsMarker == phase = "closed" => GetCurBytePos(reader, data) = Len(data) - 1
=============================================================================

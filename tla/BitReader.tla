------------------------------ MODULE BitReader ------------------------------
(***************************************************************************)
(* DecoderStrategy (src/decoder_strategy.h): a 64-bit cache is filled from *)
(* the bytes of the scan, several at a time when no 0xFF is in sight and   *)
(* one by one otherwise, and codewords are taken from its top.             *)
(*                                                                         *)
(* The fields of the class are a record: cache is readCache_, valid is     *)
(* validBits_; pos, nextFF and end are position_, nextFFPosition_ and      *)
(* endPosition_ as indices into data, the bytes that follow the headers    *)
(* (when reading from a stream only those before end are in buffer_).      *)
(* ok turns FALSE when an exception is thrown.                             *)
(***************************************************************************)
EXTENDS Words

CONSTANTS CacheBytes,   \* bytes in readCache_ (8)
          RefillLimit,  \* buffered bytes at which a stream is read again (64)
          ReadBuffer    \* size of buffer_ when reading a stream (40000)

ASSUME CacheAssumption  == CacheBytes \in Nat /\ CacheBytes >= 3
ASSUME BufferAssumption == /\ RefillLimit \in Nat /\ ReadBuffer \in Nat
                           /\ CacheBytes < RefillLimit /\ RefillLimit < ReadBuffer

CacheBits == CacheBytes * ByteBits
HighBitsStep == 2 * ByteBits   \* bits that Peek0Bits inspects (16)

\* What is left of a buffer that is not filled again fills the cache, whatever
\* bits are stuffed.
ASSUME RefillAssumption == (ByteBits - 1) * RefillLimit >= CacheBits - ByteBits

Fail(d) == [d EXCEPT !.ok = FALSE]

\* Mutant: the buffer is never filled again.
AddBytesNever(d, data) ==
    IF d.pos > 1 \/ ~d.stream THEN d
    ELSE [d EXCEPT !.end = IF ReadBuffer > Len(data) THEN Len(data) + 1 ELSE ReadBuffer + 1]

\* AddBytesFromStream: move what is left to the front of the buffer and read
\* on, unless plenty is left or the stream has ended.
AddBytesFromStream(d, data) ==
    LET count == d.end - d.pos
        last  == d.end + ReadBuffer - count
    IN  IF ~d.stream \/ d.end = Len(data) + 1 \/ count > RefillLimit THEN d
        ELSE [d EXCEPT !.end = IF last > Len(data) + 1 THEN Len(data) + 1 ELSE last]

FindNextFF(d, data) ==
    CHOOSE p \in d.pos..d.end :
        /\ p = d.end \/ data[p] = FF
        /\ \A q \in d.pos..(p - 1) : data[q] # FF

\* OptimizedRead: the CacheBytes bytes at pos are read as one word.  What
\* does not fit below the valid bits stays in the cache without being valid.
CanReadOptimized(d) == d.pos < d.nextFF - (CacheBytes - 1)

OptimizedRead(d, data) ==
    LET n    == (CacheBits - d.valid) \div ByteBits
        word == UNION {{(CacheBytes - 1 - i) * ByteBits + q : q \in data[d.pos + i]} :
                           i \in 0..(CacheBytes - 1)}
    IN  [d EXCEPT !.cache = @ \cup ShiftRight(word, d.valid),
                  !.pos = @ + n,
                  !.valid = @ + n * ByteBits]

\* The end of the scan as the reader sees it: a marker, or a 0xFF with
\* nothing behind it.
AtMarker(d, data) ==
    /\ data[d.pos] = FF
    /\ d.pos = d.end - 1 \/ IsMarkerCode(data[d.pos + 1])

\* A byte is loaded.  After a 0xFF one bit less is valid, and the stuffed 0 bit
\* of the next byte is or'ed onto the last bit of the 0xFF.
LoadByte(d, byte) ==
    [d EXCEPT !.cache = @ \cup ShiftLeft(byte, CacheBits - ByteBits - d.valid, CacheBits),
              !.pos = @ + 1,
              !.valid = @ + (IF byte = FF THEN ByteBits - 1 ELSE ByteBits)]

\* The loop of MakeValid, which fills the cache in MaxLoads turns at most.
CacheIsFull(d) == d.valid >= CacheBits - ByteBits
MaxLoads == 2 * CacheBytes

LoadBytes(d, data) ==
    LET loaded[turn \in 0..MaxLoads] ==
            IF turn = 0 THEN d
            ELSE LET e == loaded[turn - 1]
                 IN  IF (turn > 1 /\ CacheIsFull(e)) \/ e.pos >= e.end \/ AtMarker(e, data)
                     THEN e
                     ELSE LoadByte(e, data[e.pos])
        e == loaded[MaxLoads]
    IN  IF e.pos > d.pos /\ CacheIsFull(e) THEN [e EXCEPT !.nextFF = FindNextFF(e, data)]
        ELSE IF e.valid <= 0 THEN Fail(e) ELSE e

\* Mutant: the fast path is taken whether or not a 0xFF is near.
MakeValidWithoutFFCheck(d, data) ==
    IF d.pos <= d.end - CacheBytes THEN OptimizedRead(d, data)
    ELSE LoadBytes(AddBytesFromStream(d, data), data)

MakeValid(d, data) ==
    IF CanReadOptimized(d) THEN OptimizedRead(d, data)
    ELSE LoadBytes(AddBytesFromStream(d, data), data)

\* Init.
InitReader(stream, data) ==
    LET d0 == AddBytesFromStream(
                  [cache |-> {}, valid |-> 0, pos |-> 1, nextFF |-> 1, stream |-> stream,
                   end |-> IF stream THEN 1 ELSE Len(data) + 1, ok |-> TRUE], data)
    IN  MakeValid([d0 EXCEPT !.nextFF = FindNextFF(d0, data)], data)

Skip(d, n) == [d EXCEPT !.valid = @ - n, !.cache = ShiftLeft(@, n, CacheBits)]

\* Each read is a record of the reader afterwards and the bits it returned.
FailedRead(d) == [reader |-> Fail(d), bits |-> <<>>]

\* Mutant: the cache is filled one bit too late.
FilledLate(d, n, data) == IF d.valid < n - 1 THEN MakeValid(d, data) ELSE d

Filled(d, n, data) == IF d.valid < n THEN MakeValid(d, data) ELSE d

Take(d, n) ==
    [reader |-> Skip(d, n), bits |-> BitsOf(TopBits(d.cache, n, CacheBits), n)]

ReadValue(d, n, data) ==
    LET d1 == Filled(d, n, data)
    IN  IF d1.ok /\ d1.valid >= n THEN Take(d1, n) ELSE FailedRead(d1)

ReadBit(d, data) ==
    LET d1 == Filled(d, 1, data)
    IN  IF d1.ok THEN Take(d1, 1) ELSE FailedRead(d1)

\* PeekByte and the Skip of the code that decodingTables holds for the byte;
\* n is the length of that code.
ReadShortCode(d, n, data) ==
    LET d1 == Filled(d, ByteBits, data)
    IN  IF d1.ok THEN Take(d1, n) ELSE FailedRead(d1)

\* ReadHighBits: the length of a run of 0 bits and the 1 that ends it, from
\* one look at HighBitsStep bits or, when they are all 0, bit by bit.
LeadingZeros(d) ==
    CHOOSE n \in 0..HighBitsStep :
        /\ n = HighBitsStep \/ (CacheBits - 1 - n) \in d.cache
        /\ \A i \in 0..(n - 1) : (CacheBits - 1 - i) \notin d.cache

\* Bits are read up to the 1 that ends the run; bits are those read before.
ReadZeros(d, bits, data) ==
    LET BitsLeft == CacheBits + ByteBits * (Len(data) + 1 - d.pos)
        read[n \in 0..BitsLeft] ==
            IF n = 0 THEN [reader |-> d, bits |-> bits]
            ELSE LET r == read[n - 1]
                     b == ReadBit(r.reader, data)
                 IN  IF ~r.reader.ok \/ 1 \in {r.bits[i] : i \in DOMAIN r.bits} THEN r
                     ELSE [b EXCEPT !.bits = IF b.reader.ok THEN r.bits \o @ ELSE <<>>]
    IN  read[BitsLeft]

ReadHighBits(d, data) ==
    LET d1 == Filled(d, HighBitsStep, data)
        n  == LeadingZeros(d1)
    IN  IF ~d1.ok THEN FailedRead(d1)
        ELSE IF n < HighBitsStep THEN Take(d1, n + 1)
        ELSE LET r == Take(d1, HighBitsStep - 1)
             IN  ReadZeros(r.reader, r.bits, data)

\* EndScan: the next byte has to be a marker, and nothing but 0 bits unread.
EndScanOfReader(d, data) ==
    LET d1 == IF data[d.pos] # FF THEN ReadBit(d, data).reader ELSE d
    IN  IF d1.ok /\ data[d1.pos] = FF /\ d1.cache = {} THEN d1 ELSE Fail(d1)

\* GetCurBytePos: step back over the whole bytes that are still in the cache.
BytePosition(d, data) ==
    LET back[n \in 0..MaxLoads] ==
            IF n = 0 THEN [pos |-> d.pos, valid |-> d.valid]
            ELSE LET b    == back[n - 1]
                     bits == IF b.pos > 1 /\ data[b.pos - 1] = FF THEN ByteBits - 1 ELSE ByteBits
                 IN  IF b.valid < bits THEN b ELSE [pos |-> b.pos - 1, valid |-> b.valid - bits]
    IN  back[MaxLoads].pos

\* Mutant: the stuffed bit is attributed to the byte 0xFF itself.
GetCurBytePosCheckingNext(d, data) ==
    IF data[d.pos] = FF /\ d.valid >= ByteBits - 1 THEN d.pos - 1 ELSE d.pos

GetCurBytePos(d, data) == BytePosition(d, data)
=============================================================================

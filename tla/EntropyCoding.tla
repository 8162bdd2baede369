---------------------------- MODULE EntropyCoding ----------------------------
(***************************************************************************)
(* The codes of a scan (src/scan.h): limited-length Golomb codes for       *)
(* mapped errors, the tables that decode the short ones, and the codes of  *)
(* runs.  A code is the sequence of its bits; the encoder's calls of       *)
(* AppendToBitStream are pairs <<bits, bitCount>>.                         *)
(***************************************************************************)
EXTENDS Util, Sequences, SequencesExt

\* The J table (jpegls.cpp): 2^J[RUNindex] pixels go into one 1 bit.
J == <<0, 0, 0, 0, 1, 1, 1, 1, 2, 2, 2, 2, 3, 3, 3, 3,
       4, 4, 5, 5, 6, 6, 7, 7, 8, 9, 10, 11, 12, 13, 14, 15>>
RunLengthBits(runIndex)  == J[runIndex + 1]
RunBlock(runIndex)       == 2^RunLengthBits(runIndex)

IncrementRunIndex(runIndex) == Smallest(31, runIndex + 1)
DecrementRunIndex(runIndex) == Largest(0, runIndex - 1)

\* The bits that a sequence of calls of AppendToBitStream adds to the stream,
\* and the two ASSERTs on their arguments (encoder_strategy.h, 65 and 69).
BitsOfCall(call) == [i \in 1..call[2] |-> (call[1] \div 2^(call[2] - i)) % 2]
BitsOfCalls(calls) == FlattenSeq([i \in DOMAIN calls |-> BitsOfCall(calls[i])])
CallIsLegal(call) == call[2] \in 0..31 /\ (call[2] < 31 => call[1] < 2^call[2])

GetMappedErrVal(e) == IF e < 0 THEN -2 * e - 1 ELSE 2 * e
UnMapErrVal(m)     == IF m % 2 = 1 THEN -(m \div 2) - 1 ELSE m \div 2

\* Mutant: a long prefix is not split.
UnaryInOneCall(zeros) == <<<<1, zeros + 1>>>>

\* zeros 0 bits and the 1 bit that ends them.  One call takes 31 bits.
Unary(zeros) ==
    IF zeros + 1 <= 31 THEN <<<<1, zeros + 1>>>>
    ELSE <<<<0, zeros \div 2>>, <<1, zeros - zeros \div 2 + 1>>>>

EscapePrefix(limit, qbpp) ==
    IF limit - qbpp > 31 THEN <<<<0, 31>>, <<1, limit - qbpp - 31>>>>
    ELSE <<<<1, limit - qbpp>>>>

\* Mutant: there is no escape for large values.
EncodeMappedValueWithoutEscape(k, m, limit, qbpp) ==
    Unary(m \div 2^k) \o <<<<m % 2^k, k>>>>

\* EncodeMappedValue: the quotient in unary and the remainder, or an escape of
\* limit bits.
EncodeMappedValue(k, m, limit, qbpp) ==
    IF m \div 2^k < limit - qbpp - 1
    THEN Unary(m \div 2^k) \o <<<<m % 2^k, k>>>>
    ELSE EscapePrefix(limit, qbpp) \o <<<<(m - 1) % 2^qbpp, qbpp>>>>

(***************************************************************************)
(* Reading.  A read of some bits gives the value and the rest of the bits; *)
(* ok is FALSE when there were too few bits for it.                        *)
(***************************************************************************)
Starved == [ok |-> FALSE, value |-> 0, rest |-> <<>>]

NumberOf(bits) ==
    LET upTo[i \in 0..Len(bits)] == IF i = 0 THEN 0 ELSE 2 * upTo[i - 1] + bits[i]
    IN  upTo[Len(bits)]

ReadNumber(n, bits) ==
    IF n > Len(bits) THEN Starved
    ELSE [ok |-> TRUE, value |-> NumberOf(SubSeq(bits, 1, n)),
          rest |-> SubSeq(bits, n + 1, Len(bits))]

ReadHighBits(bits) ==
    IF 1 \notin Range(bits) THEN Starved
    ELSE LET n == CHOOSE i \in DOMAIN bits :
                      bits[i] = 1 /\ \A j \in 1..(i - 1) : bits[j] = 0
         IN  [ok |-> TRUE, value |-> n - 1, rest |-> SubSeq(bits, n + 1, Len(bits))]

\* DecodeValue
DecodeValue(k, limit, qbpp, bits) ==
    LET high   == ReadHighBits(bits)
        escape == ReadNumber(qbpp, high.rest)
        low    == ReadNumber(k, high.rest)
    IN  IF ~high.ok THEN Starved
        ELSE IF high.value >= limit - (qbpp + 1) THEN [escape EXCEPT !.value = @ + 1]
        ELSE [low EXCEPT !.value = high.value * 2^k + @]

\* CreateEncodedValue: length and value of the code that InitTable enters.
TableLength(k, e) == GetMappedErrVal(e) \div 2^k + k + 1
TableBits(k, e)   == BitsOfCall(<<2^k + (GetMappedErrVal(e) % 2^k), TableLength(k, e)>>)

\* Mutant: only the errors from 0 up are tabulated.
TableErrorsOneSided(k) == {e \in 0..127 : TableLength(k, e) <= 8}

\* InitTable: errors up from 0 and down from -1 as long as their codes fit a
\* byte.
TableErrors(k) ==
    {e \in 0..127   : \A f \in 0..e    : TableLength(k, f) <= 8} \cup
    {e \in -128..-1 : \A f \in e..(-1) : TableLength(k, f) <= 8}

decodingTables ==
    [k \in 0..15 |-> {[bits |-> TableBits(k, e), value |-> e] : e \in TableErrors(k)}]

\* The codes of a table that the next bits of the stream start with: those
\* whose AddEntry covers the byte that PeekByte returns.
TableMatches(k, bits) == {c \in decodingTables[k] : IsPrefix(c.bits, bits)}

\* No image has such an error; the exception for it.
IsTooLarge(error) == Absolute(error) > 65535
Refused == [ok |-> FALSE, value |-> 0, rest |-> <<>>]

\* The reading half of DoRegular: a table entry, or the code read in full.
DecodeErrVal(k, limit, qbpp, bits) ==
    IF TableMatches(k, bits) # {}
    THEN LET c == CHOOSE c \in TableMatches(k, bits) : TRUE
         IN  [ok |-> TRUE, value |-> c.value, rest |-> SubSeq(bits, Len(c.bits) + 1, Len(bits))]
    ELSE LET r     == DecodeValue(k, limit, qbpp, bits)
             error == UnMapErrVal(r.value)
         IN  IF IsTooLarge(error) THEN Refused
             ELSE [r EXCEPT !.value = error]

(***************************************************************************)
(* Runs.  A 1 bit stands for RunBlock(RUNindex) pixels, or for as many as  *)
(* are left of the line, and RUNindex grows with every full block.         *)
(***************************************************************************)

\* The loop of EncodeRunPixels: the pixels that are left behind the last full
\* block, RUNindex there, and the number of blocks.
WholeBlocks(runLength, runIndex) ==
    LET from[n \in 0..runLength] == [i \in 0..31 |->
            IF n < RunBlock(i) THEN [left |-> n, runIndex |-> i, blocks |-> 0]
            ELSE [from[n - RunBlock(i)][IncrementRunIndex(i)] EXCEPT !.blocks = @ + 1]]
    IN  from[runLength][runIndex]

AppendOnes(count) == [i \in 1..count |-> <<1, 1>>]

\* Mutant: the run that ends a line is coded like one that is interrupted.
EncodeRunPixelsWithoutEndOfLine(runLength, endOfLine, runIndex) ==
    LET w == WholeBlocks(runLength, runIndex)
    IN  [calls |-> Append(AppendOnes(w.blocks), <<w.left, RunLengthBits(w.runIndex) + 1>>),
         runIndex |-> w.runIndex]

\* EncodeRunPixels
EncodeRunPixels(runLength, endOfLine, runIndex) ==
    LET w == WholeBlocks(runLength, runIndex)
        last == IF ~endOfLine THEN <<<<w.left, RunLengthBits(w.runIndex) + 1>>>>
                ELSE IF w.left # 0 THEN <<<<1, 1>>>>
                ELSE <<>>
    IN  [calls |-> AppendOnes(w.blocks) \o last, runIndex |-> w.runIndex]

\* The loop of DecodeRunPixels, from bit p on, with index pixels known to be in
\* the run and RUNindex i.
ReadBlocks(max, runIndex, bits) ==
    LET from[p \in 1..(Len(bits) + 1)] == [index \in 0..max |-> [i \in 0..31 |->
            LET count == Smallest(RunBlock(i), max - index)
                next  == IF count = RunBlock(i) THEN IncrementRunIndex(i) ELSE i
            IN  IF p > Len(bits)
                THEN [ok |-> FALSE, index |-> index, runIndex |-> i, next |-> p]
                ELSE IF bits[p] = 0
                THEN [ok |-> TRUE, index |-> index, runIndex |-> i, next |-> p + 1]
                ELSE IF index + count = max
                THEN [ok |-> TRUE, index |-> max, runIndex |-> next, next |-> p + 1]
                ELSE from[p + 1][index + count][next]]]
    IN  from[1][0][runIndex]

\* DecodeRunPixels: value is the length of the run, of at most max pixels; ok
\* is FALSE, too, when invalid_encoded_data is thrown.
DecodeRunPixels(max, runIndex, bits) ==
    LET b    == ReadBlocks(max, runIndex, bits)
        rest == SubSeq(bits, b.next, Len(bits))
        n    == ReadNumber(RunLengthBits(b.runIndex), rest)
    IN  IF b.ok /\ b.index = max
        THEN [ok |-> TRUE, value |-> max, runIndex |-> b.runIndex, rest |-> rest]
        ELSE [ok |-> b.ok /\ n.ok /\ b.index + n.value <= max,
              value |-> b.index + n.value, runIndex |-> b.runIndex, rest |-> n.rest]
=============================================================================

------------------------------ MODULE CodeWords ------------------------------
(***************************************************************************)
(* One code written by the encoder and read by the decoder, which share k, *)
(* RUNindex and the parameters of the scan: an error of regular mode, the  *)
(* error that interrupts a run, or a run.  How the two sides come to share *)
(* them is the subject of module Scan.                                     *)
(***************************************************************************)
EXTENDS EntropyCoding

CONSTANTS Depths,       \* bits of a sample, of lossless scans
          MappedErrors, \* for each depth, the mapped errors that are coded
          LineLengths   \* pixels that are left in a line

ASSUME DepthsAssumption       == Depths \subseteq 2..16
ASSUME MappedErrorsAssumption == \A depth \in Depths : MappedErrors[depth] \subseteq 0..2^depth
ASSUME LineLengthsAssumption  == LineLengths \subseteq Nat \ {0}

VARIABLES code,   \* what is coded, <<>> at first
          calls,  \* the encoder's calls of AppendToBitStream
          result  \* what the decoder read, <<>> before
vars == <<code, calls, result>>

\* LIMIT of the traits; a run interruption has fewer bits.
Limit(depth) == 2 * (depth + Largest(8, depth))
InterruptionLimit(depth, runIndex) == Limit(depth) - RunLengthBits(runIndex) - 1

Init == code = <<>> /\ calls = <<>> /\ result = <<>>

Encode(c, cs) == code' = c /\ calls' = cs /\ UNCHANGED result

\* An error of a sample of the given depth, or its complement when it is
\* corrected for bias.
EncodeRegular ==
    /\ code = <<>>
    /\ \E depth \in Depths, k \in 0..15 : \E m \in MappedErrors[depth] \ {2^depth} :
           /\ k <= depth
           /\ Encode([kind |-> "regular", k |-> k, limit |-> Limit(depth), qbpp |-> depth,
                      value |-> UnMapErrVal(m)],
                     EncodeMappedValue(k, GetMappedErrVal(UnMapErrVal(m)), Limit(depth), depth))

\* EMErrval is at most RANGE: twice the largest magnitude.
EncodeInterruption ==
    /\ code = <<>>
    /\ \E depth \in Depths, runIndex \in 0..31 : \E k \in 0..depth, em \in MappedErrors[depth] :
           LET limit == InterruptionLimit(depth, runIndex)
           IN  Encode([kind |-> "interruption", k |-> k, limit |-> limit, qbpp |-> depth, value |-> em],
                      EncodeMappedValue(k, em, limit, depth))

EncodeRun ==
    /\ code = <<>>
    /\ \E max \in LineLengths, runIndex \in 0..31 : \E length \in 0..max :
           LET r == EncodeRunPixels(length, length = max, runIndex)
           IN  Encode([kind |-> "run", max |-> max, runIndex |-> runIndex, value |-> length,
                       after |-> r.runIndex], r.calls)

Decode(kind, r) ==
    /\ code # <<>> /\ code.kind = kind /\ result = <<>>
    /\ result' = r
    /\ UNCHANGED <<code, calls>>

DecodeRegular ==
    Decode("regular", DecodeErrVal(code.k, code.limit, code.qbpp, BitsOfCalls(calls)))

DecodeInterruption ==
    Decode("interruption", DecodeValue(code.k, code.limit, code.qbpp, BitsOfCalls(calls)))

DecodeRun == Decode("run", DecodeRunPixels(code.max, code.runIndex, BitsOfCalls(calls)))

\* The code has been read.
Done == result # <<>> /\ UNCHANGED vars

Next == \/ EncodeRegular \/ EncodeInterruption \/ EncodeRun
        \/ DecodeRegular \/ DecodeInterruption \/ DecodeRun
        \/ Done

Spec == Init /\ [][Next]_vars

-----------------------------------------------------------------------------
\* The decoder reads the value that was written and not a bit more or less,
\* and RUNindex ends up the same on both sides: the codes are prefix codes,
\* escapes, runs cut short by the end of the line and interruptions with a
\* limit shortened by J included.
CodesRoundTrip ==
    result # <<>> =>
        /\ result.ok /\ result.rest = <<>> /\ result.value = code.value
        /\ code.kind = "run" => result.runIndex = code.after

\* ASSERT(bitCount < 32 && bitCount >= 0) and the ASSERT that the bits that
\* are not used are 0 (encoder_strategy.h, lines 65 and 69), for every call.
CallsAreLegal == \A i \in DOMAIN calls : CallIsLegal(calls[i])

\* A code of an error is never longer than LIMIT, which bounds the size of a
\* scan; of an interruption together with its run, J[RUNindex] + 1 bits more.
CodesWithinLimit ==
    code # <<>> /\ code.kind # "run" => Len(BitsOfCalls(calls)) <= code.limit

\* The tables for short codes are complete and unambiguous: of the codes of a
\* table at most one starts the code that is read (the ASSERT of AddEntry,
\* lookup_table.h, line 49), a code of up to 8 bits always has one, and it is
\* what the code read in full means.
TablesAgree ==
    code # <<>> /\ code.kind = "regular" =>
        LET bits == BitsOfCalls(calls)
            full == DecodeValue(code.k, code.limit, code.qbpp, bits)
        IN  /\ Len(bits) <= 8 <=> TableMatches(code.k, bits) # {}
            /\ \A c \in TableMatches(code.k, bits) :
                   c.value = UnMapErrVal(full.value) /\ Len(c.bits) = Len(bits) - Len(full.rest)
=============================================================================

-------------------------------- MODULE Scan --------------------------------
(***************************************************************************)
(* A scan (src/scan.h): DoScan of an encoder and DoScan of a decoder, one  *)
(* pixel or run after the other.  The two sides share nothing but the bits *)
(* in between; the decoder repeats the encoder's decisions from what it    *)
(* has decoded so far.                                                     *)
(*                                                                         *)
(* A pixel is a sequence of samples: one, or three or four of a Triplet or *)
(* a Quad when the components are interleaved by sample.  Lines of several *)
(* components follow one another when they are interleaved by line.        *)
(***************************************************************************)
EXTENDS EntropyCoding

CONSTANT Scans   \* the images: their frame, NEAR, interleave mode, preset
                 \* coding parameters, and the values their samples can have

Factory == INSTANCE CodecFactory

MakeCodec(p) == Factory!CreateCodec(p.bits, p.near, p.mode, p.components, p.preset)

ASSUME ScansAssumption ==
    \A p \in Scans :
        /\ p.bits \in 2..16 /\ p.near \in 0..((2^p.bits - 1) \div 2)
        /\ p.width \in Nat \ {0} /\ p.height \in Nat \ {0}
        /\ p.components \in 1..255 /\ p.mode \in {"none", "line", "sample"}
        /\ p.samples \subseteq 0..(2^p.bits - 1)
        /\ Factory!IsValid(p.preset, 2^p.bits - 1, p.near)

\* A codec of single samples for pixels of several is left out: the pixels it
\* skips belong to the conversion of lines.
ASSUME PixelAssumption ==
    \A p \in Scans : p.mode = "sample" => MakeCodec(p).pixel = p.components

VARIABLES scan,       \* the image, with the traits of its codec and its presets
          enc, dec,   \* the two codecs
          source,     \* the lines of the image that are being coded
          calls,      \* the encoder's calls for the pixel or run in flight
          unread,     \* the bits of it that the decoder left
          line,       \* the number of lines that are complete
          turn        \* "begin", "encode", "decode" or "end"
vars == <<scan, enc, dec, source, calls, unread, line, turn>>

\* CreateCodec, and SetPresets of the codec it made.
WithCodec(p) ==
    LET codec == MakeCodec(p)
    IN  [bits |-> p.bits, near |-> p.near, width |-> p.width, height |-> p.height,
         samples |-> p.samples, pixel |-> codec.pixel,
         lines |-> IF p.mode = "line" THEN p.components ELSE 1,
         maxval |-> codec.maxval, lossless |-> codec.lossless,
         presets |-> Factory!Presets(p.preset, codec.maxval, p.near)]

traits == INSTANCE Traits WITH BitsPerSample <- scan.bits, NEAR <- scan.near,
                               MAXVAL <- scan.maxval, Lossless <- scan.lossless
Regular == INSTANCE JlsContext WITH NEAR <- scan.near, RESET <- scan.presets.reset
RunMode == INSTANCE RunModeContext WITH RESET <- scan.presets.reset

\* Components that DoScan visits in turn for each line.
Lines == 1..scan.lines
Black == [i \in 1..scan.pixel |-> 0]

(* What a codec keeps: the contexts that have left their initial state, the *)
(* two run contexts, RUNindex, that of each component between its lines,    *)
(* the lines with a pixel to spare at either end, where it is in them, and  *)
(* whether it has thrown nothing yet.                                       *)
InitialA == Largest(2, (traits!RANGE + 32) \div 64)

InitCodec ==
    [contexts   |-> <<>>,
     run        |-> [type \in {0, 1} |-> RunMode!InitRunContext(InitialA)],
     runIndex   |-> 0,
     rgRunIndex |-> [c \in Lines |-> 0],
     previous   |-> [c \in Lines |-> [i \in -1..scan.width |-> Black]],
     current    |-> [c \in Lines |-> [i \in -1..scan.width |-> Black]],
     component  |-> 1,
     index      |-> 0,
     ok         |-> TRUE]

Context(s, id) == IF id \in DOMAIN s.contexts THEN s.contexts[id] ELSE Regular!InitContext(InitialA)

WithContext(s, id, c) ==
    [s EXCEPT !.contexts = [i \in DOMAIN @ \cup {id} |-> IF i = id THEN c ELSE @[i]]]

-----------------------------------------------------------------------------
(* Prediction and context selection. *)

GetPredictedValue(Ra, Rb, Rc) ==
    IF Rc >= Largest(Ra, Rb) THEN Smallest(Ra, Rb)
    ELSE IF Rc <= Smallest(Ra, Rb) THEN Largest(Ra, Rb)
    ELSE Ra + Rb - Rc

\* QuantizeGradientOrg; the tables hold its values.
QuantizeGradient(d) ==
    IF d <= -scan.presets.T3 THEN -4
    ELSE IF d <= -scan.presets.T2 THEN -3
    ELSE IF d <= -scan.presets.T1 THEN -2
    ELSE IF d < -scan.near THEN -1
    ELSE IF d <= scan.near THEN 0
    ELSE IF d < scan.presets.T1 THEN 1
    ELSE IF d < scan.presets.T2 THEN 2
    ELSE IF d < scan.presets.T3 THEN 3
    ELSE 4

ComputeContextID(Q1, Q2, Q3) == (Q1 * 9 + Q2) * 9 + Q3

\* The neighbours of the pixel that is next.
Left(s)       == s.current[s.component][s.index - 1]
Above(s)      == s.previous[s.component][s.index]
AboveLeft(s)  == s.previous[s.component][s.index - 1]
AboveRight(s) == s.previous[s.component][s.index + 1]

ContextOf(s, j) ==
    ComputeContextID(QuantizeGradient(AboveRight(s)[j] - Above(s)[j]),
                     QuantizeGradient(Above(s)[j] - AboveLeft(s)[j]),
                     QuantizeGradient(AboveLeft(s)[j] - Left(s)[j]))

\* DoLine: a pixel starts a run when its surroundings are flat.
InRunMode(s) == \A j \in DOMAIN Black : ContextOf(s, j) = 0

ApplySign(v, sign) == IF sign = -1 THEN -v ELSE v

\* What both versions of DoRegular compute before the error is known.
Modelled(s, j) ==
    LET Qs   == ContextOf(s, j)
        sign == BitWiseSign(Qs)
        ctx  == Context(s, ApplySign(Qs, sign))
        pred == GetPredictedValue(Left(s)[j], Above(s)[j], AboveLeft(s)[j])
    IN  [sign |-> sign, id |-> ApplySign(Qs, sign), ctx |-> ctx, k |-> Regular!GetGolomb(ctx),
         Px |-> traits!CorrectPrediction(pred + ApplySign(ctx.C, sign))]

-----------------------------------------------------------------------------
(* The encoder.  Its functions take what has been coded of a step so far,   *)
(* the codec, the calls and the samples, and add to it.                     *)

EncodeSample(r, j) ==
    LET q == Modelled(r.codec, j)
        x == r.codec.current[r.codec.component][r.codec.index][j]
        e == traits!ComputeErrVal(ApplySign(x - q.Px, q.sign))
        m == GetMappedErrVal(XorSign(Regular!GetErrorCorrection(q.ctx, q.k + scan.near), e))
    IN  [codec  |-> WithContext(r.codec, q.id, Regular!UpdateVariables(q.ctx, e)),
         calls  |-> r.calls \o EncodeMappedValue(q.k, m, traits!LIMIT, traits!qbpp),
         sample |-> Append(r.sample, traits!ComputeReconstructedSample(q.Px, ApplySign(e, q.sign)))]

\* EncodeRIError
EncodeRIError(r, type, e) ==
    LET ctx == r.codec.run[type]
        k   == RunMode!GetRunGolomb(ctx, type)
        em  == RunMode!RunMappedError(ctx, type, e, k)
        limit == traits!LIMIT - RunLengthBits(r.codec.runIndex) - 1
    IN  [r EXCEPT !.codec.run[type] = RunMode!UpdateRunVariables(ctx, type, e, em),
                  !.calls = @ \o EncodeMappedValue(k, em, limit, traits!qbpp)]

\* Mutant: the two run contexts are swapped.
InterruptionOfOtherType(Ra, Rb) ==
    IF scan.pixel = 1 /\ traits!NearSample(Ra, Rb)
    THEN [type |-> 0, base |-> Ra, sign |-> 1]
    ELSE [type |-> 1, base |-> Rb, sign |-> Sign(Rb - Ra)]

\* Where EncodeRIPixel and DecodeRIPixel start from: a sample that stands
\* alone is predicted from the left when its neighbours are near each other.
Interruption(Ra, Rb) ==
    IF scan.pixel = 1 /\ traits!NearSample(Ra, Rb)
    THEN [type |-> 1, base |-> Ra, sign |-> 1]
    ELSE [type |-> 0, base |-> Rb, sign |-> Sign(Rb - Ra)]

EncodeRISample(r, x, Ra, Rb) ==
    LET from == Interruption(Ra, Rb)
        e    == traits!ComputeErrVal((x - from.base) * from.sign)
    IN  [EncodeRIError(r, from.type, e) EXCEPT
            !.sample = Append(@, traits!ComputeReconstructedSample(from.base, e * from.sign))]

SamplesOfPixel == [j \in DOMAIN Black |-> j]

SetPixels(s, first, count, pixel) ==
    [s EXCEPT !.current[s.component] =
        [i \in DOMAIN @ |-> IF i \in first..(first + count - 1) THEN pixel ELSE @[i]]]

EncodeRegular(s) ==
    LET r == FoldLeft(EncodeSample, [codec |-> s, calls |-> <<>>, sample |-> <<>>], SamplesOfPixel)
    IN  [codec |-> [SetPixels(r.codec, s.index, 1, r.sample) EXCEPT !.index = @ + 1],
         calls |-> r.calls]

RunLength(s) ==
    CHOOSE n \in 0..(scan.width - s.index) :
        /\ \A i \in 0..(n - 1) : traits!IsNear(s.current[s.component][s.index + i], Left(s))
        /\ n < scan.width - s.index => ~traits!IsNear(s.current[s.component][s.index + n], Left(s))

\* DoRunMode of the encoder.
EncodeRun(s) ==
    LET n   == RunLength(s)
        end == s.index + n
        run == EncodeRunPixels(n, end = scan.width, s.runIndex)
        s1  == [SetPixels(s, s.index, n, Left(s)) EXCEPT !.runIndex = run.runIndex, !.index = end]
        x   == s.current[s.component][end]
        Rb  == s.previous[s.component][end]
        r   == FoldLeft(LAMBDA acc, j : EncodeRISample(acc, x[j], Left(s)[j], Rb[j]),
                        [codec |-> s1, calls |-> run.calls, sample |-> <<>>], SamplesOfPixel)
    IN  IF end = scan.width THEN [codec |-> s1, calls |-> run.calls]
        ELSE [codec |-> [SetPixels(r.codec, end, 1, r.sample) EXCEPT
                            !.runIndex = DecrementRunIndex(@), !.index = @ + 1],
              calls |-> r.calls]

-----------------------------------------------------------------------------
(* The decoder.  Its functions take the codec, the bits still to be read    *)
(* and the samples, and add to them.                                        *)

\* Mutant: the decoder does not undo the bias correction of the error.
DecodeSampleWithoutCorrection(r, j) ==
    LET q == Modelled(r.codec, j)
        v == DecodeErrVal(q.k, traits!LIMIT, traits!qbpp, r.bits)
    IN  [codec  |-> [WithContext(r.codec, q.id, Regular!UpdateVariables(q.ctx, v.value)) EXCEPT !.ok = @ /\ v.ok],
         bits   |-> v.rest,
         sample |-> Append(r.sample, traits!ComputeReconstructedSample(q.Px, ApplySign(v.value, q.sign)))]

DecodeSample(r, j) ==
    LET q == Modelled(r.codec, j)
        v == DecodeErrVal(q.k, traits!LIMIT, traits!qbpp, r.bits)
        e == IF q.k = 0 THEN XorSign(Regular!GetErrorCorrection(q.ctx, scan.near), v.value) ELSE v.value
    IN  [codec  |-> [WithContext(r.codec, q.id, Regular!UpdateVariables(q.ctx, e)) EXCEPT !.ok = @ /\ v.ok],
         bits   |-> v.rest,
         sample |-> Append(r.sample, traits!ComputeReconstructedSample(q.Px, ApplySign(e, q.sign)))]

\* DecodeRIError, and the sample that DecodeRIPixel makes of it.
DecodeRISample(r, Ra, Rb) ==
    LET from == Interruption(Ra, Rb)
        ctx  == r.codec.run[from.type]
        k    == RunMode!GetRunGolomb(ctx, from.type)
        em   == DecodeValue(k, traits!LIMIT - RunLengthBits(r.codec.runIndex) - 1, traits!qbpp, r.bits)
        e    == RunMode!ComputeRunErrVal(ctx, from.type, em.value, k)
    IN  [codec  |-> [r.codec EXCEPT !.ok = @ /\ em.ok,
                        !.run[from.type] = RunMode!UpdateRunVariables(ctx, from.type, e, em.value)],
         bits   |-> em.rest,
         sample |-> Append(r.sample, traits!ComputeReconstructedSample(from.base, e * from.sign))]

DecodeRegular(s, bits) ==
    LET r == FoldLeft(DecodeSample, [codec |-> s, bits |-> bits, sample |-> <<>>], SamplesOfPixel)
    IN  [codec |-> [SetPixels(r.codec, s.index, 1, r.sample) EXCEPT !.index = @ + 1],
         bits |-> r.bits]

\* DoRunMode of the decoder.
DecodeRun(s, bits) ==
    LET run == DecodeRunPixels(scan.width - s.index, s.runIndex, bits)
        end == s.index + run.value
        s1  == [SetPixels(s, s.index, run.value, Left(s)) EXCEPT
                   !.runIndex = run.runIndex, !.index = end, !.ok = @ /\ run.ok]
        Rb  == s.previous[s.component][end]
        r   == FoldLeft(LAMBDA acc, j : DecodeRISample(acc, Left(s)[j], Rb[j]),
                        [codec |-> s1, bits |-> run.rest, sample |-> <<>>], SamplesOfPixel)
    IN  IF end = scan.width \/ ~run.ok THEN [codec |-> s1, bits |-> run.rest]
        ELSE [codec |-> [SetPixels(r.codec, end, 1, r.sample) EXCEPT
                            !.runIndex = DecrementRunIndex(@), !.index = @ + 1],
              bits |-> r.bits]

-----------------------------------------------------------------------------
(* DoScan *)

\* A component of a line begins: the pixels beyond its ends, and its RUNindex.
StartComponent(s, c) ==
    [s EXCEPT !.component = c, !.index = 0, !.runIndex = s.rgRunIndex[c],
              !.previous[c][scan.width] = s.previous[c][scan.width - 1],
              !.current[c][-1] = s.previous[c][0]]

\* It ends: RUNindex is kept for the component's next line.
EndComponent(s) == [s EXCEPT !.rgRunIndex[s.component] = s.runIndex]

SwapLines(s) == [s EXCEPT !.previous = s.current, !.current = s.previous]

\* OnLineBegin of the encoder.
ReadLines(s, lines) ==
    [s EXCEPT !.current = [c \in Lines |->
        [i \in -1..scan.width |-> IF i \in 0..(scan.width - 1) THEN lines[c][i] ELSE @[c][i]]]]

Init ==
    /\ \E p \in Scans : scan = WithCodec(p)
    /\ enc = InitCodec /\ dec = InitCodec
    /\ source = <<>> /\ calls = <<>> /\ unread = <<>>
    /\ line = 0 /\ turn = "begin"

BeginLine ==
    /\ turn = "begin"
    /\ source' \in [Lines -> [0..(scan.width - 1) -> [DOMAIN Black -> scan.samples]]]
    /\ enc' = StartComponent(ReadLines(enc, source'), 1)
    /\ dec' = StartComponent(dec, 1)
    /\ turn' = "encode"
    /\ UNCHANGED <<scan, calls, unread, line>>

Encode(r) ==
    /\ enc' = r.codec
    /\ calls' = r.calls
    /\ turn' = "decode"
    /\ UNCHANGED <<scan, dec, source, unread, line>>

EncodePixel ==
    /\ turn = "encode" /\ enc.index < scan.width /\ ~InRunMode(enc)
    /\ Encode(EncodeRegular(enc))
EncodePixels ==
    /\ turn = "encode" /\ enc.index < scan.width /\ InRunMode(enc)
    /\ Encode(EncodeRun(enc))

Decode(r) ==
    /\ dec' = r.codec
    /\ unread' = r.bits
    /\ calls' = <<>>
    /\ turn' = "encode"
    /\ UNCHANGED <<scan, enc, source, line>>

DecodePixel ==
    /\ turn = "decode" /\ ~InRunMode(dec)
    /\ Decode(DecodeRegular(dec, BitsOfCalls(calls)))
DecodePixels ==
    /\ turn = "decode" /\ InRunMode(dec)
    /\ Decode(DecodeRun(dec, BitsOfCalls(calls)))

NextComponent ==
    /\ turn = "encode" /\ enc.index = scan.width /\ enc.component + 1 \in Lines
    /\ enc' = StartComponent(EndComponent(enc), enc.component + 1)
    /\ dec' = StartComponent(EndComponent(dec), dec.component + 1)
    /\ UNCHANGED <<scan, source, calls, unread, line, turn>>

\* The last component of a line ends, and the decoder writes the line.
EndLine ==
    /\ turn = "encode" /\ enc.index = scan.width /\ enc.component + 1 \notin Lines
    /\ enc' = SwapLines(EndComponent(enc))
    /\ dec' = SwapLines(EndComponent(dec))
    /\ line' = line + 1
    /\ source' = <<>>
    /\ turn' = IF line' = scan.height THEN "end" ELSE "begin"
    /\ UNCHANGED <<scan, calls, unread>>

\* The scan is complete.
Done == turn = "end" /\ UNCHANGED vars

Next == \/ BeginLine \/ NextComponent \/ EndLine \/ Done
        \/ EncodePixel \/ EncodePixels \/ DecodePixel \/ DecodePixels

Spec == Init /\ [][Next]_vars

-----------------------------------------------------------------------------
\* The pixels of the current lines that both sides have coded.
CodedPixels ==
    {p \in Lines \X (0..(scan.width - 1)) :
        p[1] < dec.component \/ (p[1] = dec.component /\ p[2] < dec.index)}

\* The gradients are quantised with thresholds in order, also for the smallest
\* samples: those that compute_default gives the codec of each scan (scan.h:432-441
\* tests one after the other).
DefaultsOrdered ==
    Factory!ThresholdsOrdered(Factory!ComputeDefault(scan.maxval, scan.near), scan.maxval, scan.near)

\* The same of those that the scan is coded with when a preset gives some of them
\* (jpegls_preset_coding_parameters.h:83 says that the valid values are those of
\* the table).
UsedPresetsOrdered == Factory!ThresholdsOrdered(scan.presets, scan.maxval, scan.near)

\* After every step the decoder is where the encoder is: it has read exactly
\* the bits of the step, has thrown nothing, and has the same statistics in
\* every context, the same RUNindex and the same reconstructed lines.
Lockstep ==
    /\ dec.ok
    /\ unread = <<>>
    /\ turn # "decode" =>
           /\ \A f \in {"contexts", "run", "runIndex", "rgRunIndex", "previous", "component", "index"} :
                  enc[f] = dec[f]
           /\ turn = "encode" =>
                  \A p \in CodedPixels : dec.current[p[1]][p[2]] = enc.current[p[1]][p[2]]

\* ASSERT(traits.IsNear(...)) of DoRegular (scan.h, line 285), and what the
\* format promises for runs and their interruptions too: a decoded sample
\* differs from the sample of the image by at most NEAR.
NearLossless ==
    turn = "encode" =>
        \A p \in CodedPixels : \A j \in DOMAIN Black :
            traits!NearSample(dec.current[p[1]][p[2]][j], source[p[1]][p[2]][j])

\* Every call of AppendToBitStream that the scan makes is one that its ASSERTs
\* accept: no mapped error is negative or has bits beyond the length announced.
CallsAreLegal == \A i \in DOMAIN calls : CallIsLegal(calls[i])
=============================================================================

----------------------------- MODULE CodecFactory -----------------------------
(***************************************************************************)
(* JlsCodecFactory (src/jpegls.cpp): which instance of JlsCodec codes a    *)
(* scan.  The instances differ in their traits and in the number of        *)
(* samples of a pixel.                                                     *)
(***************************************************************************)
EXTENDS PresetParameters

\* The combinations with a LosslessTraits codec of their own.
HasLosslessCodec(bits, near, interleave, components) ==
    /\ near = 0
    /\ IF interleave = "sample" THEN bits = 8 /\ components \in {3, 4}
       ELSE bits \in {8, 12, 16}

\* CreateOptimizedCodec; no codec is found for samples interleaved in any
\* other number than 3 or 4.
FindsOptimizedCodec(interleave, components) ==
    interleave = "sample" => components \in {3, 4}

OptimizedCodec(bits, near, interleave, components) ==
    [maxval   |-> CalculateMaximumSampleValue(bits),
     lossless |-> HasLosslessCodec(bits, near, interleave, components),
     pixel    |-> IF interleave = "sample" THEN components ELSE 1]

\* CreateCodec: another reset value than the default calls for DefaultTraits
\* with MAXVAL set to what the preset parameters say, and a codec of single
\* samples.
CreateCodec(bits, near, interleave, components, preset) ==
    IF preset.reset \in {0, DefaultResetValue} /\ FindsOptimizedCodec(interleave, components)
    THEN OptimizedCodec(bits, near, interleave, components)
    ELSE [maxval |-> preset.maxval, lossless |-> FALSE, pixel |-> 1]
=============================================================================

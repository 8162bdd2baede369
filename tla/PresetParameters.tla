--------------------------- MODULE PresetParameters ---------------------------
(***************************************************************************)
(* The preset coding parameters (jpegls_preset_coding_parameters.h and     *)
(* constants.h): their defaults and which sets of them are valid.  0 in a  *)
(* field stands for its default.                                           *)
(***************************************************************************)
EXTENDS Util

DefaultThreshold1 == 3
DefaultThreshold2 == 7
DefaultThreshold3 == 21
DefaultResetValue == 64

\* calculate_maximum_sample_value (util.h).
CalculateMaximumSampleValue(bits) == 2^bits - 1

MaximumNearLossless(maxval) == Smallest(255, maxval \div 2)

\* Mutant: a value above the range stays.
ClampWithoutUpperBound(i, j, maxval) == IF i < j THEN j ELSE i

\* Not the clamping of other languages: a value above the range becomes the
\* lower bound j too.
Clamp(i, j, maxval) == IF i > maxval \/ i < j THEN j ELSE i

\* compute_default
ComputeDefault(maxval, near) ==
    LET up   == (Smallest(maxval, 4095) + 128) \div 256
        down == 256 \div (maxval + 1)
        d1 == IF maxval >= 128 THEN up * (DefaultThreshold1 - 2) + 2 + 3 * near
              ELSE Largest(2, DefaultThreshold1 \div down + 3 * near)
        d2 == IF maxval >= 128 THEN up * (DefaultThreshold2 - 3) + 3 + 5 * near
              ELSE Largest(3, DefaultThreshold2 \div down + 5 * near)
        d3 == IF maxval >= 128 THEN up * (DefaultThreshold3 - 4) + 4 + 7 * near
              ELSE Largest(4, DefaultThreshold3 \div down + 7 * near)
        T1 == Clamp(d1, near + 1, maxval)
        T2 == Clamp(d2, T1, maxval)
    IN  [maxval |-> maxval, T1 |-> T1, T2 |-> T2, T3 |-> Clamp(d3, T2, maxval),
         reset |-> DefaultResetValue]

\* jpegls_pc_parameters as it is initialised.
NoPreset == [maxval |-> 0, T1 |-> 0, T2 |-> 0, T3 |-> 0, reset |-> 0]

Or(v, default) == IF v # 0 THEN v ELSE default

IsDefault(p) == p = NoPreset

\* is_valid
IsValid(p, maximum, near) ==
    LET maxval  == Or(p.maxval, maximum)
        default == ComputeDefault(maxval, near)
        T1 == Or(p.T1, default.T1)
        T2 == Or(p.T2, default.T2)
    IN  /\ p.maxval # 0 => p.maxval \in 1..maximum
        /\ p.T1 # 0 => p.T1 \in (near + 1)..maxval
        /\ p.T2 # 0 => p.T2 \in T1..maxval
        /\ p.T3 # 0 => p.T3 \in T2..maxval
        /\ p.reset # 0 => p.reset \in 3..Largest(255, maxval)

\* JlsCodec::SetPresets: the parameters a scan is coded with.  The thresholds
\* come from the codec's own MAXVAL and NEAR.
Presets(p, maxval, near) ==
    LET default == ComputeDefault(maxval, near)
    IN  [T1 |-> Or(p.T1, default.T1), T2 |-> Or(p.T2, default.T2),
         T3 |-> Or(p.T3, default.T3), reset |-> Or(p.reset, default.reset)]

\* Table C.1 of ISO/IEC 14495-1: the intervals that gradients are quantised with
\* follow one another.
ThresholdsOrdered(t, maxval, near) ==
    near < t.T1 /\ t.T1 <= t.T2 /\ t.T2 <= t.T3 /\ t.T3 <= maxval
=============================================================================

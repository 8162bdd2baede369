-------------------------- MODULE MCLegacyInterface --------------------------
(* Instances of LegacyInterface for TLC.                                   *)
EXTENDS LegacyInterface

\* Two components, colour of more than 12 bits and of few, and not an image.
FramesAsked == {[bits |-> 8, components |-> 2], [bits |-> 16, components |-> 3],
                [bits |-> 4, components |-> 3], [bits |-> 1, components |-> 1]}
FramesSet == {[bits |-> 8, components |-> 3]}
Planar == {[bits |-> 8, components |-> 2]}

\* One that samples of 8 bits can have, one that is never valid, and one that with
\* NEAR 7 is valid for 8 bits and not for 16.
CustomPresets == {[maxval |-> 15, T1 |-> 10, T2 |-> 12, T3 |-> 14, reset |-> 31],
                  [maxval |-> 0, T1 |-> 20, T2 |-> 12, T3 |-> 30, reset |-> 0],
                  [maxval |-> 0, T1 |-> 0, T2 |-> 30, T3 |-> 40, reset |-> 0]}

WrittenStreams == [written |-> [segments |-> {}, length |-> 20]]
=============================================================================

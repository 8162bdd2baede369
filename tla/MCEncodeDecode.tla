--------------------------- MODULE MCEncodeDecode ---------------------------
(* Instances of EncodeDecode for TLC.                                      *)
EXTENDS EncodeDecode

\* Gray, colour of few bits, and colour of more than 12 bits.
ManyFrames == {[bits |-> 8, components |-> 1], [bits |-> 4, components |-> 3],
               [bits |-> 16, components |-> 3]}
TwoComponents == {[bits |-> 8, components |-> 2]}

\* One that samples of 8 bits can have, and one that is never valid.
CustomPresets == {[maxval |-> 255, T1 |-> 12, T2 |-> 20, T3 |-> 30, reset |-> 31],
                  [maxval |-> 0, T1 |-> 20, T2 |-> 12, T3 |-> 30, reset |-> 0]}

WrittenStreams == [written |-> [segments |-> {}, length |-> 60]]
=============================================================================

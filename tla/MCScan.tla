------------------------------- MODULE MCScan -------------------------------
(* Instances of Scan for TLC. *)
EXTENDS Scan

NoParameters == [maxval |-> 0, T1 |-> 0, T2 |-> 0, T3 |-> 0, reset |-> 0]

\* Lossless images of 4 by 2 samples of 2 bits: every one of them.
Plain == [bits |-> 2, near |-> 0, mode |-> "none", components |-> 1,
          preset |-> NoParameters, samples |-> 0..3, width |-> 4, height |-> 2]

\* Near-lossless, with contexts that are halved every 3 samples.
Near == [bits |-> 4, near |-> 1, mode |-> "none", components |-> 1,
         preset |-> [maxval |-> 15, T1 |-> 2, T2 |-> 4, T3 |-> 9, reset |-> 3],
         samples |-> {0, 1, 5, 7, 15}, width |-> 3, height |-> 2]

\* Runs and their interruptions, so that RUNindex rises, falls and ends lines.
Runs == [Plain EXCEPT !.preset = [maxval |-> 3, T1 |-> 1, T2 |-> 2, T3 |-> 3, reset |-> 3],
                      !.samples = {0, 3}, !.width = 7]

\* Three components, each line with a RUNindex of its own, and the lossless
\* traits; interleaved by sample, runs are of triplets.
Colour(mode) == [bits |-> 8, near |-> 0, mode |-> mode, components |-> 3,
                 preset |-> NoParameters, samples |-> {0, 200}, width |-> 2, height |-> 2]

ManyScans == {Plain, Near, Runs, Colour("line"), Colour("sample")}

QuadScan == {[Colour("sample") EXCEPT !.components = 4, !.height = 1]}
\* A T1 above the defaults of T2 and T3.
MixedScan ==
    {[Colour("none") EXCEPT !.components = 1, !.preset.T1 = 30]}
ResetOnlyScan ==
    {[Colour("none") EXCEPT !.components = 1, !.samples = {0, 7, 200},
                            !.preset.reset = 63]}
MaxvalScan ==
    {[Plain EXCEPT !.samples = 0..2, !.width = 2,
                   !.preset.maxval = 2, !.preset.reset = 63]}
=============================================================================

------------------------ MODULE MCRegularStatistics ------------------------
(* Instances of RegularStatistics for TLC. *)
EXTENDS RegularStatistics

\* Every error of a coder with RANGE = 10.
MCErrors == -5..4

\* The extreme error of 16-bit lossless samples, and the zero error alone.
ExtremeErrors == {-32768}
ZeroErrors == {0}
=============================================================================

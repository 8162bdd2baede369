----------------------------- MODULE JlsContext -----------------------------
(***************************************************************************)
(* One regular-mode context (src/context.h): the statistics from which the *)
(* codec takes, for each sample, a Golomb parameter and a correction of    *)
(* the prediction.  A context is a record; the scan keeps 365 of them.     *)
(***************************************************************************)
EXTENDS Util

CONSTANTS NEAR,   \* largest error the image may be reconstructed with
          RESET   \* number of samples after which the sums are halved

\* JlsContext(a): what JlsCodec::InitParams stores in every context.
InitContext(a) == [A |-> a, B |-> 0, C |-> 0, N |-> 1]

\* The bias correction of the error mapping, applied only when k (or'd with
\* NEAR by the encoder) is 0.
GetErrorCorrection(c, k) ==
    IF k # 0 THEN 0 ELSE BitWiseSign(2 * c.B + c.N - 1)

GetGolomb(c) == LeastShift(c.N, c.A)

\* What is left of the accumulated error b once the correction C has taken a
\* step against it; n is the number of samples it was accumulated over.
BiasLeft(b, n) ==
    IF b + n <= 0 THEN Largest(b + n, 1 - n)
    ELSE IF b > 0 THEN Smallest(b - n, 0)
    ELSE b

CorrectionStep(C, b, n) ==
    IF b + n <= 0 THEN Largest(C - 1, -128)
    ELSE IF b > 0 THEN Smallest(C + 1, 127)
    ELSE C

\* Mutant: A is not halved with the other sums.
UpdateWithoutHalvingA(c, e) ==
    LET half == c.N = RESET
        b == c.B + e * (2 * NEAR + 1)
        n == (IF half THEN c.N \div 2 ELSE c.N) + 1
        b1 == IF half THEN b \div 2 ELSE b
    IN  [A |-> c.A + Absolute(e), B |-> BiasLeft(b1, n),
         C |-> CorrectionStep(c.C, b1, n), N |-> ToInt16(n)]

\* UpdateVariables(errorValue): halve the sums at RESET, count the sample,
\* then move C one step and keep B in (-N, 0].
UpdateVariables(c, e) ==
    LET half == c.N = RESET
        a == c.A + Absolute(e)
        b == c.B + e * (2 * NEAR + 1)
        n == (IF half THEN c.N \div 2 ELSE c.N) + 1
        b1 == IF half THEN b \div 2 ELSE b
    IN  [A |-> IF half THEN a \div 2 ELSE a,
         B |-> BiasLeft(b1, n),
         C |-> CorrectionStep(c.C, b1, n),
         N |-> ToInt16(n)]
=============================================================================

--------------------------- MODULE RunModeContext ---------------------------
(***************************************************************************)
(* The contexts of the sample that interrupts a run (context_run_mode.h).  *)
(* There are two, told apart by nRItype: 1 when the neighbours left and    *)
(* above are near each other, 0 when they are not.                         *)
(***************************************************************************)
EXTENDS Util

CONSTANT RESET   \* number of samples after which the sums are halved

\* nReset_ is a uint8_t: a reset value above 255 is stored modulo 256.
nReset == ToUInt8(RESET)

InitRunContext(a) == [A |-> a, N |-> 1, Nn |-> 0]

\* Mutant: the search starts at half of N.
GetRunGolombOfHalf(c, type) == LeastShift(c.N \div 2, c.A + (c.N \div 2) * type)

GetRunGolomb(c, type) == LeastShift(c.N, c.A + (c.N \div 2) * type)

\* Mutant: A is not halved with the other sums.
UpdateRunKeepingA(c, type, e, em) ==
    LET half == c.N = nReset
        nn   == ToUInt8(c.Nn + (IF e < 0 THEN 1 ELSE 0))
    IN  [A  |-> c.A + (em + 1 - type) \div 2,
         Nn |-> IF half THEN nn \div 2 ELSE nn,
         N  |-> ToUInt8((IF half THEN c.N \div 2 ELSE c.N) + 1)]

\* UpdateVariables(errorValue, EMErrval).  N and Nn are uint8_t.
UpdateRunVariables(c, type, e, em) ==
    LET half == c.N = nReset
        nn   == ToUInt8(c.Nn + (IF e < 0 THEN 1 ELSE 0))
        a    == c.A + (em + 1 - type) \div 2
    IN  [A  |-> IF half THEN a \div 2 ELSE a,
         Nn |-> IF half THEN nn \div 2 ELSE nn,
         N  |-> ToUInt8((IF half THEN c.N \div 2 ELSE c.N) + 1)]

\* Mutant: the map bit of a negative error ignores Nn.
ComputeMapIgnoringNn(c, e, k) ==
    \/ k = 0 /\ e > 0 /\ 2 * c.Nn < c.N
    \/ e < 0 /\ k # 0

\* The map bit the encoder folds into the mapped error of a run interruption.
ComputeMap(c, e, k) ==
    \/ k = 0 /\ e > 0 /\ 2 * c.Nn < c.N
    \/ e < 0 /\ 2 * c.Nn >= c.N
    \/ e < 0 /\ k # 0

\* ComputeErrVal(EMErrval + nRItype, k): the error the decoder reads back from
\* the mapped error em.
ComputeRunErrVal(c, type, em, k) ==
    LET temp == em + type
        map  == temp % 2 = 1
        abs  == (temp + 1) \div 2
    IN  IF (k # 0 \/ 2 * c.Nn >= c.N) = map THEN -abs ELSE abs

\* EMErrval of EncodeRIError: the magnitude doubled, with the map bit below it.
RunMappedError(c, type, e, k) ==
    2 * Absolute(e) - type - (IF ComputeMap(c, e, k) THEN 1 ELSE 0)
=============================================================================

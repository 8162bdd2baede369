-------------------------- MODULE RegularStatistics --------------------------
(***************************************************************************)
(* The life of one regular-mode context: created by InitParams and then    *)
(* updated by DoRegular with the error of every sample that falls in it.   *)
(* Encoder and decoder run the same updates, so one context stands for     *)
(* both; which errors arrive, and in which order, is up to the image.      *)
(***************************************************************************)
EXTENDS JlsContext

CONSTANTS ErrorValues, \* the errors a sample can have after ModuloRange
          MaxError,    \* a bound on their magnitude
          InitialA     \* the A every context starts with

ASSUME NearAssumption    == NEAR \in Nat
ASSUME ResetAssumption   == RESET \in Nat \ {0}
ASSUME InitialAssumption == InitialA \in Nat \ {0}
ASSUME ErrorAssumption   == /\ MaxError \in Nat
                            /\ ErrorValues \subseteq -MaxError..MaxError

VARIABLE ctx
vars == <<ctx>>

Init == ctx = InitContext(InitialA)

\* The context part of DoRegular, for encoder and decoder alike.
Sample(e) == ctx' = UpdateVariables(ctx, e)

Next == \E e \in ErrorValues : Sample(e)

Spec == Init /\ [][Next]_vars

-----------------------------------------------------------------------------
TypeOK == ctx \in [A : Nat, B : Int, C : -128..127, N : Int]

\* The largest mean the magnitudes can have.
Magnitude == Largest(InitialA, MaxError)

\* The statistics stay in the range the standard's coder relies on: N counts
\* at least one sample and never passes RESET, B is a remainder of less than
\* one step of C per sample, and A never exceeds the largest magnitude for
\* each counted sample, in particular not after a halving.
StatisticsBounded ==
    /\ ctx.N \in 1..RESET
    /\ ctx.B \in (1 - ctx.N)..0
    /\ ctx.A <= Magnitude * ctx.N

\* The Golomb parameter never exceeds the one that a single sample of the
\* largest magnitude calls for.  With errors of 16-bit samples that is 15, so
\* that decodingTables[k] in DoRegular is an entry of the 16 tables.
GolombBounded == GetGolomb(ctx) <= LeastShift(1, Magnitude)

\* ASSERT(a < 65536 * 256) and ASSERT(std::abs(b) < 65536 * 256) at the next
\* sample (context.h, lines 45 and 46).
SumAssertsHold ==
    \A e \in ErrorValues :
        /\ ctx.A + Absolute(e) < 65536 * 256
        /\ Absolute(ctx.B + e * (2 * NEAR + 1)) < 65536 * 256

\* ASSERT(N != 0) and the ASSERT(k <= 32) of the search (context.h, lines 38
\* and 96): the counter is one the search for a parameter can end with.
CounterAssertsHold == ctx.N # 0 /\ GetGolomb(ctx) # SearchNeverEnds
=============================================================================

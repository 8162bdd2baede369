---------------------------- MODULE RunStatistics ----------------------------
(***************************************************************************)
(* The life of one run-interruption context: created by InitParams and     *)
(* updated by EncodeRIError (and, with the same numbers, DecodeRIError)    *)
(* for every sample that ends a run.                                       *)
(***************************************************************************)
EXTENDS RunModeContext

CONSTANTS MaxError,  \* the largest magnitude of an error after ModuloRange
          InitialA,  \* the A both contexts start with
          RITypes    \* the context types that are modelled

ASSUME ResetAssumption   == RESET \in Nat \ {0}
ASSUME ErrorAssumption   == MaxError \in Nat \ {0}
ASSUME InitialAssumption == InitialA \in Nat \ {0}
ASSUME TypeAssumption    == RITypes \subseteq {0, 1}

VARIABLES run,    \* the context
          nRItype \* its type, fixed at construction
vars == <<run, nRItype>>

\* An error of 0 with a type 1 context would have continued the run.
Errors == {e \in -MaxError..MaxError : nRItype = 1 => e # 0}

Init == run = InitRunContext(InitialA) /\ nRItype \in RITypes

\* EncodeRIError / DecodeRIError for the error e.
Interrupt(e) ==
    /\ run' = UpdateRunVariables(run, nRItype, e,
                  RunMappedError(run, nRItype, e, GetRunGolomb(run, nRItype)))
    /\ UNCHANGED nRItype

Next == \E e \in Errors : Interrupt(e)

Spec == Init /\ [][Next]_vars

-----------------------------------------------------------------------------
TypeOK == /\ run \in [A : Nat, N : 0..255, Nn : 0..255]
          /\ nRItype \in {0, 1}

Magnitude == Largest(InitialA, MaxError)

\* At most N - 1 of the counted errors are negative, N never passes nReset,
\* and the sum A is at most the largest magnitude for each counted error, in
\* particular across the halvings and for both types.
RunStatisticsBounded ==
    /\ run.N \in 1..nReset
    /\ run.Nn < run.N
    /\ run.A <= Magnitude * run.N

\* ASSERT(errorValue == ctx.ComputeErrVal(EMErrval + nRItype, k)) of
\* EncodeRIError (scan.h, line 465): whatever statistics the context has
\* reached, the decoder recovers every error the encoder can map, and the
\* mapped error is not negative.
RunErrorRoundTrip ==
    \A e \in Errors :
        LET k  == GetRunGolomb(run, nRItype)
            em == RunMappedError(run, nRItype, e, k)
        IN  /\ em >= 0
            /\ ComputeRunErrVal(run, nRItype, em, k) = e

\* ASSERT(k <= 32) of GetGolomb (context_run_mode.h, line 42): the search for
\* the Golomb parameter ends.
RunSearchEnds == GetRunGolomb(run, nRItype) # SearchNeverEnds
=============================================================================

----------------------------- MODULE MCCodeWords -----------------------------
(* An instance of CodeWords for TLC. *)
EXTENDS CodeWords

MCDepths == {2, 3, 7, 8, 12, 16}

\* All mapped errors of samples of up to 8 bits, and those around the powers of
\* 2, where codes change length, beyond.
MCMappedErrors ==
    [depth \in MCDepths |->
        IF depth <= 8 THEN 0..2^depth
        ELSE {2^i + d : i \in 0..(depth - 1), d \in -1..1} \cup {2^depth - 1, 2^depth}]
=============================================================================

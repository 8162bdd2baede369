-------------------------- MODULE MCRunStatistics --------------------------
(* Instances of RunStatistics for TLC. *)
EXTENDS RunStatistics
=============================================================================

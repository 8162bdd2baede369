-------------------------------- MODULE Util --------------------------------
(***************************************************************************)
(* The integer helpers of src/util.h that the coder is built from, and the *)
(* search for a Golomb parameter that context.h and context_run_mode.h     *)
(* share.  Integers are unbounded here; where the code stores one in a     *)
(* narrow field the module that models the field wraps it with ToInt16 or  *)
(* ToUInt8.                                                                *)
(***************************************************************************)
EXTENDS Integers

\* A value stored in an int16_t, and in a uint8_t.
ToInt16(v) == ((v + 32768) % 65536) - 32768
ToUInt8(v) == v % 256

Absolute(v)  == IF v < 0 THEN -v ELSE v
Largest(a, b)  == IF a > b THEN a ELSE b
Smallest(a, b) == IF a < b THEN a ELSE b

\* The sign bit of v smeared over a word: 0 or -1.
BitWiseSign(v) == IF v < 0 THEN -1 ELSE 0

\* Exclusive or with the result s of BitWiseSign: the one's complement of v
\* when s is -1.
XorSign(s, v) == IF s = -1 THEN -v - 1 ELSE v

\* Sign never returns 0: sign(0) is 1.
Sign(v) == IF v < 0 THEN -1 ELSE 1

\* The smallest x with 2^x >= n.
Log2(n) == CHOOSE x \in 0..30 : 2^x >= n /\ \A y \in 0..(x - 1) : 2^y < n

(***************************************************************************)
(* The search both context classes run for the Golomb parameter: the       *)
(* smallest k with n * 2^k >= a.  The sums the contexts keep stay below    *)
(* 2^24 (context.h, line 45), so for n >= 1 the search has ended by        *)
(* k = 24; SearchNeverEnds stands for a search that does not end, because  *)
(* n is not positive, and that fails the code's ASSERT(k <= 32).           *)
(***************************************************************************)
SearchNeverEnds == 25

LeastShift(n, a) ==
    IF n <= 0
    THEN IF n >= a THEN 0 ELSE SearchNeverEnds
    ELSE CHOOSE k \in 0..SearchNeverEnds :
             /\ k = SearchNeverEnds \/ n * 2^k >= a
             /\ \A j \in 0..(k - 1) : n * 2^j < a
=============================================================================

---------------------------- MODULE MCBitStream ----------------------------
(* Instances of BitStream for TLC. *)
EXTENDS BitStream

Ones(n) == [i \in 1..n |-> 1]

\* Bytes of 3 bits: runs of 1 bits make 0xFF bytes at every alignment; 11
\* bits are the most that fit one AppendToBitStream with a buffer of 12 bits.
NarrowCodes == {<<1>>, <<0, 0, 1>>, Ones(6), Ones(11)}

\* Bytes of 8 bits: 31 is the most that fits a buffer of 32 bits.
WideCodes == {Ones(16), Ones(31)}
=============================================================================

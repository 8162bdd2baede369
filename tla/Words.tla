-------------------------------- MODULE Words --------------------------------
(***************************************************************************)
(* Machine words as the sets of the positions of their 1 bits, position 0  *)
(* the least significant: or is union, a shift moves the positions, and    *)
(* what is shifted out is dropped.  The bit buffers of the encoder and the *)
(* decoder, and the bytes between them, are such words.                    *)
(***************************************************************************)
EXTENDS Integers, Sequences

CONSTANT ByteBits   \* bits in a byte, 8 in the code

\* A flush leaves at most two bits behind, which have to be less than a byte.
ASSUME ByteBitsAssumption == ByteBits \in Nat /\ ByteBits >= 3

\* A 32-bit and a 64-bit buffer are 4 and 8 bytes.
ShiftLeft(word, n, width) == {p + n : p \in {q \in word : q + n < width}}
ShiftRight(word, n)       == {p - n : p \in {q \in word : q >= n}}

\* The n most significant bits of a word of the given width, as a word.
TopBits(word, n, width) == ShiftRight(word, width - n)

\* JpegMarkerStartByte, and the bytes that follow it in a marker: those with
\* the most significant bit set.
FF == 0..(ByteBits - 1)
IsMarkerCode(byte) == (ByteBits - 1) \in byte

\* The n least significant bits of a word as a sequence, first the highest.
BitsOf(word, n) == [i \in 1..n |-> IF (n - i) \in word THEN 1 ELSE 0]

\* A sequence of bits as a word.
WordOf(bits) == {Len(bits) - i : i \in {j \in 1..Len(bits) : bits[j] = 1}}
=============================================================================

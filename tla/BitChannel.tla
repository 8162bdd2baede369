------------------------------ MODULE BitChannel ------------------------------
(***************************************************************************)
(* What the entropy coder is promised by the two halves of the bit stream  *)
(* (encoder_strategy.h and decoder_strategy.h) together: a channel that    *)
(* delivers the codewords of a scan, whole, unchanged and in order.        *)
(*                                                                         *)
(* A scan is written first and read afterwards.  Writing may stop because  *)
(* the destination is full; reading back a scan that was written to its    *)
(* end never fails.                                                        *)
(***************************************************************************)
EXTENDS Sequences

CONSTANT Codewords   \* the sequences of bits a codeword can be

VARIABLES queue,      \* the codewords written and not yet read
          delivered,  \* the codeword last read
          phase       \* "writing", "full", "reading" or "closed"
vars == <<queue, delivered, phase>>

Init == queue = <<>> /\ delivered = <<>> /\ phase = "writing"

Put(w) ==
    /\ phase = "writing"
    /\ queue' = Append(queue, w)
    /\ UNCHANGED <<delivered, phase>>

\* The destination cannot take the next codeword, or the end of the scan, and
\* what has been written is of no use.
RunFull ==
    /\ phase = "writing"
    /\ phase' = "full"
    /\ queue' = <<>>
    /\ UNCHANGED delivered

EndOfWriting ==
    /\ phase = "writing"
    /\ phase' = "reading"
    /\ UNCHANGED <<queue, delivered>>

Get ==
    /\ phase = "reading"
    /\ queue # <<>>
    /\ delivered' = Head(queue)
    /\ queue' = Tail(queue)
    /\ UNCHANGED phase

EndOfReading ==
    /\ phase = "reading"
    /\ queue = <<>>
    /\ phase' = "closed"
    /\ UNCHANGED <<queue, delivered>>

Next == \/ \E w \in Codewords : Put(w)
        \/ RunFull \/ EndOfWriting \/ Get \/ EndOfReading

Spec == Init /\ [][Next]_vars
=============================================================================

------------------------------- MODULE MCCan -------------------------------
EXTENDS MCMcp251x, CanDriver

(* every bit of an identifier alone, and all of them *)
ElevenBits == {2^i : i \in 0..10} \cup {0, 2^11 - 1}
TwentyNineBits == {2^i : i \in 0..28} \cup {0, 2^29 - 1}
Bytes(n) == [i \in 1..n |-> 16 * i + 1]
LeftOver == [i \in 1..13 |-> 255 - i]
=============================================================================

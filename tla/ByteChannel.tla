---------------------------- MODULE ByteChannel ----------------------------
(***************************************************************************)
(* What the dummy serial driver promises the tty on one port: the bytes    *)
(* counted as transmitted reach the manager in user space in order, each   *)
(* exactly once, and none of them stays behind for ever.                   *)
(***************************************************************************)
EXTENDS Integers, Sequences

VARIABLES sent,       \* number of bytes counted in icount.tx
          delivered   \* the bytes handed to the manager

Init == sent = 0 /\ delivered = <<>>

Transmit ==
  /\ sent' \in Nat /\ sent' > sent
  /\ UNCHANGED delivered

Deliver ==
  /\ \E n \in (Len(delivered) + 1)..sent : delivered' = [i \in 1..n |-> i]
  /\ UNCHANGED sent

Next == Transmit \/ Deliver

Spec == Init /\ [][Next]_<<sent, delivered>>

(* Nothing stays behind: the channel goes on delivering while it holds bytes. *)
FairSpec == Spec /\ WF_<<sent, delivered>>(Deliver)
=============================================================================

------------------------------ MODULE Channel ------------------------------
(* What a connection promises the layer above it: of the messages 1, 2,    *)
(* 3, ... that one side sends, the other side is given a beginning, each   *)
(* message once and in order.  How far it gets is not promised.            *)
EXTENDS Naturals, Sequences

VARIABLES sent,      \* how many messages were sent
          delivered  \* what the other side was given

Init == sent = 0 /\ delivered = <<>>

Send == sent' = sent + 1 /\ UNCHANGED delivered

Deliver ==
    /\ \E k \in (Len(delivered) + 1) .. sent : delivered' = [i \in 1 .. k |-> i]
    /\ UNCHANGED sent

(* A listener that is called for a message may send one in the same step.  *)
SendAndDeliver ==
    /\ sent' = sent + 1
    /\ \E k \in (Len(delivered) + 1) .. sent : delivered' = [i \in 1 .. k |-> i]

Next == Send \/ Deliver \/ SendAndDeliver

Spec == Init /\ [][Next]_<<sent, delivered>>
=============================================================================

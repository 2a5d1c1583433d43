-------------------------------- MODULE Fifo --------------------------------
(***************************************************************************)
(* What a clocked bounded FIFO promises its writer and its reader.  At an  *)
(* edge it may take a word, hand out its oldest word, or both; a word that *)
(* meets a full queue is dropped (even when the same edge frees a place),  *)
(* and a read that meets an empty queue is not acknowledged.  RingBuffer   *)
(* implements it with Capacity = RAM_DEPTH - 1.                            *)
(***************************************************************************)
EXTENDS Naturals, Sequences

CONSTANTS Word, Capacity

VARIABLES queue,   \* the stored words, oldest first
          in,      \* the ports sampled at the next edge
          out      \* <<w>> when the last edge delivered w, << >> otherwise

vars == <<queue, in, out>>

Ports == [rst : BOOLEAN, wr_en : BOOLEAN, wr_data : Word, rd_en : BOOLEAN]

Pushed == IF in.wr_en /\ Len(queue) < Capacity THEN <<in.wr_data>> ELSE << >>

Init == queue = << >> /\ in \in Ports /\ out = << >>

Clear == /\ in.rst
         /\ queue' = << >> /\ out' = << >>

Deliver == /\ ~in.rst /\ in.rd_en /\ queue # << >>
           /\ queue' = Tail(queue) \o Pushed
           /\ out' = <<Head(queue)>>

Keep == /\ ~in.rst /\ (~in.rd_en \/ queue = << >>)
        /\ queue' = queue \o Pushed
        /\ out' = << >>

Next == (Clear \/ Deliver \/ Keep) /\ in' \in Ports

Spec == Init /\ [][Next]_vars
=============================================================================

----------------------------- MODULE RingBuffer -----------------------------
(***************************************************************************)
(* One ring_buffer with an arbitrary writer and reader: between two edges  *)
(* its ports take any values.                                              *)
(***************************************************************************)
EXTENDS RingBufferRtl, Sequences

VARIABLES buf,   \* the registers of the buffer
          in     \* its input ports, sampled at the next rising edge

vars == <<buf, in>>

Init == PowerUp(buf) /\ in \in Ports

clk == buf' = Edge(buf, in)

Next == clk /\ in' \in Ports

Spec == Init /\ [][Next]_vars

-----------------------------------------------------------------------------
(* The registers stay in the ranges ring_buffer.vhd declares (lines 43-53):*)
(* an index out of range is an error in simulation and a wrong address in  *)
(* hardware.                                                               *)
TypeOK == buf \in RingBufferRegisters /\ in \in Ports

(* The words delivered by rd_valid are exactly the words accepted on wr_en,*)
(* each once and oldest first, and the buffer holds RAM_DEPTH - 1 of them: *)
(* the write that PROC_RAM does at every edge never reaches a stored word, *)
(* and rd_data is the word the tail pointed to when the read was accepted  *)
(* (ring_buffer.vhd 78-130).                                               *)
FifoView ==
  INSTANCE Fifo WITH Capacity <- RAM_DEPTH - 1,
                     queue <- Contents(buf),
                     out <- IF buf.rd_valid THEN <<buf.rd_data>> ELSE << >>

ImplementsFifo == FifoView!Spec
=============================================================================

-------------------------- MODULE RingBufferProofs --------------------------
(***************************************************************************)
(* For every set of words and every depth: the registers of a ring buffer  *)
(* stay in range, and the ring buffer implements the bounded FIFO.         *)
(***************************************************************************)
EXTENDS RingBuffer, RingBufferLemmas

(* Every register of the buffer stays in its declared range                *)
(* (ring_buffer.vhd 43-53).                                                *)
THEOREM TypeCorrect == Spec => []TypeOK
<1>1. Init => TypeOK
  BY DEF Init, PowerUp, TypeOK
<1>2. TypeOK /\ [Next]_vars => TypeOK'
  BY EdgeType DEF TypeOK, Next, clk, vars
<1> QED
  BY <1>1, <1>2, PTL DEF Spec

-----------------------------------------------------------------------------
(* Every edge of the ring buffer is a step of the FIFO.                    *)
LEMMA EdgeRefines ==
  ASSUME TypeOK, Next
  PROVE  FifoView!Next
<1> USE DEF TypeOK
<1> DEFINE q == Contents(buf)
<1>1. buf \in RingBufferRegisters /\ in \in Ports /\ buf' = Edge(buf, in)
  BY DEF Next, clk
<1>2. in' \in FifoView!Ports
  BY DEF Next, Ports, FifoView!Ports
<1>3. /\ q \in Seq(Word) /\ Len(q) = fill_count(buf)
      /\ fill_count(buf) \in Nat
      /\ q # << >> <=> ~empty(buf)
  BY <1>1, ContentsType, FillRange, EmptySeq, RingBufferAssumption DEF empty
<1>4. /\ Contents(buf)' = Contents(buf')
      /\ buf'.rd_valid = accepts_read(buf, in)
      /\ buf'.rd_data = buf.ram[buf.tail]
  BY <1>1 DEF Edge, Contents, fill_count, Slot
<1>5. FifoView!Pushed = IF in.wr_en /\ fill_count(buf) < RAM_DEPTH - 1
                          THEN <<in.wr_data>> ELSE << >>
  BY <1>3 DEF FifoView!Pushed
<1>6. CASE in.rst
  <2>1. Contents(buf') = << >>
    <3>1. fill_count(Edge(buf, in)) = 0
      BY <1>6 DEF Edge, fill_count, PROC_HEAD, PROC_TAIL
    <3>2. Len(Contents(buf')) = 0 /\ Contents(buf') \in Seq(Word)
      BY <1>1, <3>1, EdgeType, ContentsType
    <3> QED
      BY <3>2, EmptySeq
  <2>2. ~buf'.rd_valid
    BY <1>4, <1>6 DEF accepts_read
  <2> QED
    BY <1>2, <1>4, <1>6, <2>1, <2>2 DEF FifoView!Next, FifoView!Clear
<1>7. CASE ~in.rst /\ accepts_read(buf, in)
  <2>1. Contents(buf') = Tail(q) \o FifoView!Pushed
    BY <1>1, <1>5, <1>7, ContentsStep
  <2>2. buf'.rd_data = Head(q)
    <3>1. Head(q) = q[1] /\ fill_count(buf) >= 1
      BY <1>3, <1>7 DEF accepts_read, empty
    <3>2. q[1] = buf.ram[Slot(buf.tail, 1)]
      BY <1>1, <1>3, <3>1, ContentsType
    <3>3. Slot(buf.tail, 1) = buf.tail
      BY <1>1, RingBufferAssumption DEF RingBufferRegisters, index_type, Slot
    <3> QED
      BY <1>4, <3>1, <3>2, <3>3
  <2>3. in.rd_en /\ q # << >> /\ buf'.rd_valid
    BY <1>3, <1>4, <1>7 DEF accepts_read
  <2> QED
    BY <1>2, <1>4, <1>7, <2>1, <2>2, <2>3 DEF FifoView!Next, FifoView!Deliver
<1>8. CASE ~in.rst /\ ~accepts_read(buf, in)
  <2>1. Contents(buf') = q \o FifoView!Pushed
    BY <1>1, <1>5, <1>8, ContentsStep
  <2>2. (~in.rd_en \/ q = << >>) /\ ~buf'.rd_valid
    BY <1>3, <1>4, <1>8 DEF accepts_read
  <2> QED
    BY <1>2, <1>4, <1>8, <2>1, <2>2 DEF FifoView!Next, FifoView!Keep
<1> QED
  BY <1>6, <1>7, <1>8

(* For every depth and every set of words, the ring buffer implements the  *)
(* bounded FIFO of capacity RAM_DEPTH - 1 (ring_buffer.vhd 78-130): no     *)
(* accepted word is lost, changed, repeated or overtaken.                  *)
THEOREM RingBufferImplementsFifo == Spec => ImplementsFifo
<1>1. Init => FifoView!Init
  <2> SUFFICES ASSUME Init PROVE FifoView!Init
    OBVIOUS
  <2>1. buf \in RingBufferRegisters /\ fill_count(buf) = 0
    BY DEF Init, PowerUp, fill_count
  <2>2. Contents(buf) = << >>
    BY <2>1, ContentsType, EmptySeq
  <2> QED
    BY <2>2 DEF Init, PowerUp, Ports, FifoView!Init, FifoView!Ports
<1>2. TypeOK /\ [Next]_vars => [FifoView!Next]_(FifoView!vars)
  <2>1. TypeOK /\ Next => FifoView!Next
    BY EdgeRefines
  <2>2. UNCHANGED vars => UNCHANGED FifoView!vars
    BY DEF vars, FifoView!vars, Contents, fill_count, Slot
  <2> QED
    BY <2>1, <2>2
<1> QED
  BY <1>1, <1>2, TypeCorrect, PTL DEF Spec, ImplementsFifo, FifoView!Spec
=============================================================================

--------------------------- MODULE RingBufferRtl ---------------------------
(***************************************************************************)
(* The synchronous FIFO of sources/src/ring_buffer.vhd, as a function from *)
(* the registers and the input ports at a rising edge of clk to the        *)
(* registers after it.  The registers are one record                       *)
(*                                                                         *)
(*     [ram, head, tail, rd_valid, rd_data]                                *)
(*                                                                         *)
(* so that a design that instantiates several buffers (TDC_4ch) keeps      *)
(* a function from its channels to such records.                           *)
(***************************************************************************)
EXTENDS Integers

CONSTANTS Word,       \* the words of RAM_WIDTH bits
          RAM_DEPTH   \* the number of slots of the RAM

(* The type ram_type has at least one slot and a slot holds a word. *)
ASSUME RingBufferAssumption == RAM_DEPTH \in Nat \ {0} /\ Word # {}

index_type == 0 .. RAM_DEPTH - 1

RingBufferRegisters ==
  [ram : [index_type -> Word], head : index_type, tail : index_type,
   rd_valid : BOOLEAN, rd_data : Word]

(* The input ports a buffer samples at a rising edge. *)
Ports == [rst : BOOLEAN, wr_en : BOOLEAN, wr_data : Word, rd_en : BOOLEAN]

(* Mistakes for the properties to find: an index that does not wrap, and a *)
(* buffer that fills its last slot.                                        *)
incr_without_wrap(index) == index + 1

(* Increment and wrap. *)
incr(index) == IF index = RAM_DEPTH - 1 THEN 0 ELSE index + 1

(* PROC_COUNT and the flags: combinational functions of the two pointers.  *)
fill_count(b) ==
  IF b.head < b.tail THEN b.head - b.tail + RAM_DEPTH ELSE b.head - b.tail

empty(b) == fill_count(b) = 0

full_one_late(b) == fill_count(b) >= RAM_DEPTH

full(b) == fill_count(b) >= RAM_DEPTH - 1

(* Power-up: the pointers start at the low end of their range; the RAM and *)
(* its output register have no initial value, so they hold any word.       *)
PowerUp(b) ==
  /\ b \in RingBufferRegisters
  /\ b.head = 0 /\ b.tail = 0 /\ b.rd_valid = FALSE

(* PROC_HEAD: a write that finds the buffer full leaves the head alone.    *)
PROC_HEAD(b, in) ==
  IF in.rst THEN 0
  ELSE IF in.wr_en /\ ~full(b) THEN incr(b.head) ELSE b.head

(* PROC_TAIL: a read of an empty buffer is neither done nor acknowledged.  *)
accepts_read(b, in) == ~in.rst /\ in.rd_en /\ ~empty(b)

(* Mistake: the read is acknowledged, but the tail stays.                  *)
PROC_TAIL_stays(b, in) == IF in.rst THEN 0 ELSE b.tail

PROC_TAIL(b, in) ==
  IF in.rst THEN 0
  ELSE IF accepts_read(b, in) THEN incr(b.tail) ELSE b.tail

(* Mistake: the guard one would expect, a write only where wr_en is high.  *)
PROC_RAM_guarded(b, in) ==
  IF in.wr_en THEN [b.ram EXCEPT ![b.head] = in.wr_data] ELSE b.ram

(* PROC_RAM: the slot at the head takes wr_data at EVERY edge, whether or  *)
(* not wr_en is high, and rd_data takes the slot at the tail, as it was    *)
(* before the edge, whether or not rd_en is high.                          *)
PROC_RAM(b, in) == [b.ram EXCEPT ![b.head] = in.wr_data]

(* Mistake: rd_data takes the slot behind the one that is read.            *)
Edge_reads_next_tail(b, in) ==
  [ram      |-> PROC_RAM(b, in),
   head     |-> PROC_HEAD(b, in),
   tail     |-> PROC_TAIL(b, in),
   rd_valid |-> accepts_read(b, in),
   rd_data  |-> b.ram[PROC_TAIL(b, in)]]

(* One rising edge of clk: the three processes together.                   *)
Edge(b, in) ==
  [ram      |-> PROC_RAM(b, in),
   head     |-> PROC_HEAD(b, in),
   tail     |-> PROC_TAIL(b, in),
   rd_valid |-> accepts_read(b, in),
   rd_data  |-> b.ram[b.tail]]

(***************************************************************************)
(* What the registers mean: the i-th stored word counted from the tail.    *)
(***************************************************************************)
Slot(tail, i) ==
  IF tail + i - 1 >= RAM_DEPTH THEN tail + i - 1 - RAM_DEPTH ELSE tail + i - 1

Contents(b) == [i \in 1 .. fill_count(b) |-> b.ram[Slot(b.tail, i)]]
=============================================================================

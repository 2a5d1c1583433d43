-------------------------- MODULE RingBufferLemmas --------------------------
(***************************************************************************)
(* What one edge does to the registers of a ring buffer and to the words   *)
(* they stand for, for every set of words and every depth.                 *)
(***************************************************************************)
EXTENDS RingBufferRtl, SequenceTheorems, TLAPS

(* The number of stored words is a number of slots, and one stays free.    *)
LEMMA FillRange ==
  ASSUME NEW b \in RingBufferRegisters
  PROVE  /\ fill_count(b) \in 0 .. RAM_DEPTH - 1
         /\ fill_count(b) = 0 <=> b.head = b.tail
  BY RingBufferAssumption
  DEF RingBufferRegisters, index_type, fill_count

(* One edge keeps every register in the range it is declared with.         *)
LEMMA EdgeType ==
  ASSUME NEW b \in RingBufferRegisters, NEW p \in Ports
  PROVE  Edge(b, p) \in RingBufferRegisters
<1>1. PROC_RAM(b, p) \in [index_type -> Word]
  BY DEF PROC_RAM, RingBufferRegisters, Ports
<1>2. PROC_HEAD(b, p) \in index_type /\ PROC_TAIL(b, p) \in index_type
  BY RingBufferAssumption
  DEF PROC_HEAD, PROC_TAIL, incr, RingBufferRegisters, index_type
<1>3. accepts_read(b, p) \in BOOLEAN /\ b.ram[b.tail] \in Word
  BY DEF accepts_read, RingBufferRegisters
<1> QED
  BY <1>1, <1>2, <1>3 DEF Edge, RingBufferRegisters

(* The slots of the stored words are indices, none of them is the head, and*)
(* the slot after the last of them is the head.                            *)
LEMMA Slots ==
  ASSUME NEW b \in RingBufferRegisters
  PROVE  /\ \A i \in 1 .. fill_count(b) :
              Slot(b.tail, i) \in index_type /\ Slot(b.tail, i) # b.head
         /\ Slot(b.tail, fill_count(b) + 1) = b.head
<1>1. b.head \in index_type /\ b.tail \in index_type
  BY DEF RingBufferRegisters
<1>2. CASE b.head < b.tail
  BY <1>1, <1>2, RingBufferAssumption DEF index_type, fill_count, Slot
<1>3. CASE ~(b.head < b.tail)
  BY <1>1, <1>3, RingBufferAssumption DEF index_type, fill_count, Slot
<1> QED
  BY <1>2, <1>3

(* Advancing the tail renumbers the stored words from the second on.       *)
LEMMA SlotShift ==
  ASSUME NEW t \in index_type, NEW i \in 1 .. RAM_DEPTH - 1
  PROVE  Slot(incr(t), i) = Slot(t, i + 1)
  BY RingBufferAssumption DEF index_type, incr, Slot

(* The queue a buffer holds is a sequence of words as long as its fill     *)
(* count.                                                                  *)
LEMMA ContentsType ==
  ASSUME NEW b \in RingBufferRegisters
  PROVE  /\ Contents(b) \in Seq(Word)
         /\ Len(Contents(b)) = fill_count(b)
         /\ \A i \in 1 .. fill_count(b) :
              Contents(b)[i] = b.ram[Slot(b.tail, i)]
<1>1. fill_count(b) \in Nat
  BY FillRange, RingBufferAssumption
<1>2. \A i \in 1 .. fill_count(b) : b.ram[Slot(b.tail, i)] \in Word
  BY Slots DEF RingBufferRegisters
<1> QED
  BY <1>1, <1>2 DEF Contents

(* How an edge without reset changes the number of stored words.           *)
LEMMA FillStep ==
  ASSUME NEW b \in RingBufferRegisters, NEW p \in Ports, ~p.rst
  PROVE  fill_count(Edge(b, p)) =
           fill_count(b) + (IF p.wr_en /\ fill_count(b) < RAM_DEPTH - 1
                              THEN 1 ELSE 0)
                         - (IF accepts_read(b, p) THEN 1 ELSE 0)
<1> DEFINE h == PROC_HEAD(b, p)
           t == PROC_TAIL(b, p)
<1>1. fill_count(Edge(b, p)) = IF h < t THEN h - t + RAM_DEPTH ELSE h - t
  BY DEF Edge, fill_count
<1>2. h = IF p.wr_en /\ fill_count(b) < RAM_DEPTH - 1
            THEN incr(b.head) ELSE b.head
  BY FillRange, RingBufferAssumption DEF PROC_HEAD, full
<1>3. t = IF accepts_read(b, p) THEN incr(b.tail) ELSE b.tail
  BY DEF PROC_TAIL
<1>4. accepts_read(b, p) => b.head # b.tail
  BY FillRange DEF accepts_read, empty
<1>5. b.head \in index_type /\ b.tail \in index_type
  BY DEF RingBufferRegisters
<1> QED
  BY <1>1, <1>2, <1>3, <1>4, <1>5, RingBufferAssumption
  DEF fill_count, incr, index_type

(* The stored words after an edge without reset: those before it, less the *)
(* oldest if a read was accepted, and the written word if one was accepted.*)
LEMMA ContentsStep ==
  ASSUME NEW b \in RingBufferRegisters, NEW p \in Ports, ~p.rst
  PROVE  Contents(Edge(b, p)) =
           (IF accepts_read(b, p) THEN Tail(Contents(b)) ELSE Contents(b))
             \o (IF p.wr_en /\ fill_count(b) < RAM_DEPTH - 1
                  THEN <<p.wr_data>> ELSE << >>)
<1> DEFINE n    == fill_count(b)
           c    == Edge(b, p)
           read == IF accepts_read(b, p) THEN 1 ELSE 0
           rest == IF accepts_read(b, p) THEN Tail(Contents(b)) ELSE Contents(b)
           push == IF p.wr_en /\ n < RAM_DEPTH - 1 THEN <<p.wr_data>> ELSE << >>
<1>1. c \in RingBufferRegisters
  BY EdgeType
<1>2. n \in 0 .. RAM_DEPTH - 1 /\ (accepts_read(b, p) => n > 0)
  BY FillRange, RingBufferAssumption DEF accepts_read, empty
<1>3. /\ rest \in Seq(Word) /\ Len(rest) = n - read
      /\ \A i \in 1 .. n - read : rest[i] = b.ram[Slot(b.tail, i + read)]
  <2>1. CASE accepts_read(b, p)
    <3>1. Contents(b) # << >>
      BY <1>2, <2>1, ContentsType
    <3>2. /\ Tail(Contents(b)) \in Seq(Word)
          /\ Len(Tail(Contents(b))) = n - 1
          /\ \A i \in 1 .. n - 1 : Tail(Contents(b))[i] = Contents(b)[i + 1]
      BY <3>1, <1>2, ContentsType, HeadTailProperties
    <3>3. \A i \in 1 .. n - 1 : i + 1 \in 1 .. n
      BY <1>2, RingBufferAssumption
    <3> QED
      BY <2>1, <3>2, <3>3, ContentsType
  <2>2. CASE ~accepts_read(b, p)
    <3>1. \A i \in 1 .. n : i + 0 = i
      BY <1>2, RingBufferAssumption
    <3> QED
      BY <2>2, <3>1, <1>2, ContentsType
  <2> QED
    BY <2>1, <2>2
<1>4. /\ push \in Seq(Word)
      /\ Len(push) = (IF p.wr_en /\ n < RAM_DEPTH - 1 THEN 1 ELSE 0)
      /\ Len(push) = 1 => push[1] = p.wr_data
  BY DEF Ports
<1>5. fill_count(c) = n - read + Len(push)
  BY <1>2, <1>4, FillStep, RingBufferAssumption
<1>6. Contents(c) \in Seq(Word) /\ Len(Contents(c)) = n - read + Len(push)
  BY <1>1, <1>5, ContentsType
<1>7. read \in {0, 1} /\ Len(push) \in {0, 1} /\ Len(rest) = n - read
  BY <1>3
<1>8. n \in Nat /\ n >= read
  BY <1>2, RingBufferAssumption
<1>9. Contents(c) = rest \o push =>
        Contents(Edge(b, p)) =
           (IF accepts_read(b, p) THEN Tail(Contents(b)) ELSE Contents(b))
             \o (IF p.wr_en /\ fill_count(b) < RAM_DEPTH - 1
                  THEN <<p.wr_data>> ELSE << >>)
  BY Zenon
<1> HIDE DEF rest, push
<1>10. /\ rest \o push \in Seq(Word)
      /\ Len(rest \o push) = Len(rest) + Len(push)
      /\ \A i \in 1 .. Len(rest) + Len(push) :
           (rest \o push)[i] =
             IF i <= Len(rest) THEN rest[i] ELSE push[i - Len(rest)]
  BY <1>3, <1>4, ConcatProperties
<1>11. ASSUME NEW i \in 1 .. n - read + Len(push)
      PROVE  Contents(c)[i] = (rest \o push)[i]
  <2>1. Contents(c)[i] = c.ram[Slot(c.tail, i)]
    BY <1>1, <1>5, ContentsType
  <2>2. Slot(c.tail, i) = Slot(b.tail, i + read)
    <3>1. CASE accepts_read(b, p)
      <4>1. c.tail = incr(b.tail) /\ b.tail \in index_type
        BY <3>1 DEF Edge, PROC_TAIL, accepts_read, RingBufferRegisters
      <4>2. i \in 1 .. RAM_DEPTH - 1
        BY <1>2, <1>4, <3>1, RingBufferAssumption
      <4> QED
        BY <3>1, <4>1, <4>2, SlotShift
    <3>2. CASE ~accepts_read(b, p)
      BY <3>2, <1>2, <1>4, RingBufferAssumption DEF Edge, PROC_TAIL
    <3> QED
      BY <3>1, <3>2
  <2>3. c.ram = [b.ram EXCEPT ![b.head] = p.wr_data]
    BY DEF Edge, PROC_RAM
  <2>4. CASE i \in 1 .. n - read
    <3>1. i + read \in 1 .. n
      BY <2>4, <1>2, RingBufferAssumption
    <3>2. /\ Slot(b.tail, i + read) \in index_type
          /\ Slot(b.tail, i + read) # b.head
      BY <3>1, Slots
    <3>3. c.ram[Slot(b.tail, i + read)] = b.ram[Slot(b.tail, i + read)]
      BY <2>3, <3>2 DEF RingBufferRegisters
    <3>4. (rest \o push)[i] = rest[i]
      BY <2>4, <1>2, <1>3, <1>4, <1>7, <1>10, RingBufferAssumption
    <3> QED
      BY <2>1, <2>2, <2>4, <3>3, <3>4, <1>3
  <2>5. CASE i = n - read + 1 /\ Len(push) = 1
    <3>1. Slot(b.tail, i + read) = b.head
      BY <2>5, <1>2, Slots, RingBufferAssumption
    <3>2. c.ram[b.head] = p.wr_data
      BY <2>3 DEF RingBufferRegisters
    <3>3. (rest \o push)[i] = push[1]
      <4> HIDE DEF n, read
      <4> QED
        BY <2>5, <1>8, <1>7, <1>10
    <3> QED
      BY <2>1, <2>2, <2>5, <3>1, <3>2, <3>3, <1>4
  <2>6. i \in 1 .. n - read \/ (i = n - read + 1 /\ Len(push) = 1)
    <3> DEFINE l == Len(push)
               m == n - read
    <3>1. i \in 1 .. m + l /\ l \in {0, 1} /\ m \in Nat
      BY <1>8, <1>7
    <3> HIDE DEF l, m
    <3>2. i \in 1 .. m \/ (i = m + 1 /\ l = 1)
      BY <3>1
    <3> QED
      BY <3>2 DEF l, m
  <2> QED
    BY <2>4, <2>5, <2>6
<1>12. Len(Contents(c)) = Len(rest \o push)
  BY <1>3, <1>6, <1>10
<1>13. Contents(c) = rest \o push
  BY <1>6, <1>10, <1>11, <1>12, SeqEqual
<1> QED
  BY <1>13, <1>9

(* A buffer that is not read at an edge keeps what it holds.               *)
LEMMA StaysNonEmpty ==
  ASSUME NEW b \in RingBufferRegisters, NEW p \in Ports,
         ~p.rst, ~p.rd_en, ~empty(b)
  PROVE  ~empty(Edge(b, p))
<1>1. fill_count(Edge(b, p)) =
        fill_count(b) + (IF p.wr_en /\ fill_count(b) < RAM_DEPTH - 1
                           THEN 1 ELSE 0)
  BY FillStep, FillRange, RingBufferAssumption DEF accepts_read
<1>2. fill_count(b) \in Nat \ {0}
  BY FillRange, RingBufferAssumption DEF empty
<1> QED
  BY <1>1, <1>2 DEF empty
=============================================================================

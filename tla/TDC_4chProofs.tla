--------------------------- MODULE TDC_4chProofs ---------------------------
(***************************************************************************)
(* For every number of requesters, every depth and every stream of hits:   *)
(* the registers stay in range, the arbiter never waits for a FIFO that    *)
(* will not answer, a pulse of valid_o begins with a stored hit, the hits  *)
(* that begin pulses keep the order of their channel, and a block of       *)
(* buffers with three slots or more never sends a word left in a RAM.      *)
(***************************************************************************)
EXTENDS TDC_4ch, RingBufferLemmas, WellFoundedInduction

(* A set of naturals has a least element: the induction these proofs need. *)
LEMMA Minimum ==
  ASSUME NEW T, T \subseteq Nat, T # {}
  PROVE  \E x \in T : \A y \in T : x <= y
<1>1. \E x \in T : \A y \in T : ~(<<y, x>> \in OpToRel(<, Nat))
  BY NatLessThanWellFounded, WFMin
<1>2. \A x, y \in Nat : y < x => <<y, x>> \in OpToRel(<, Nat)
  BY DEF OpToRel
<1>3. \E x \in T : \A y \in T : ~(y < x)
  BY <1>1, <1>2, Zenon
<1> QED
  BY <1>3

(* The inputs of the buffers and of the arbiter are of their types.        *)
LEMMA PortTypes ==
  ASSUME TypeOK
  PROVE  /\ \A c \in Req : \A H \in SUBSET Req : \A w \in Word :
              buf_ports(c, H, w) \in Ports
         /\ arb_inputs \in ArbiterInputs
<1>1. \A c \in Req : /\ buf[c] \in RingBufferRegisters
                     /\ empty(buf[c]) \in BOOLEAN
                     /\ buf[c].rd_valid \in BOOLEAN
                     /\ buf[c].rd_data \in DataWord
                     /\ arb.enable_out[c] \in BOOLEAN
  BY TDC_4chAssumption
  DEF TypeOK, RingBufferRegisters, ArbiterRegisters, empty
<1>2. reset_s \in BOOLEAN
  BY DEF TypeOK
<1>3. arb_inputs \in ArbiterInputs
  BY <1>1 DEF arb_inputs, ArbiterInputs
<1> QED
  BY <1>1, <1>2, <1>3 DEF buf_ports, Ports

(* A state s(k) is a requester's number, so s_idle and s_tx are none.      *)
LEMMA States ==
  /\ state = {s_idle, s_tx} \cup Req
  /\ s_idle \notin Req /\ s_tx \notin Req /\ s_tx # s_idle
  /\ 0 \in Req
  BY RrArbiterAssumption DEF state, s, s_idle, s_tx, Req

(* What an edge of the arbiter can be.                                     *)
LEMMA ArbiterCases ==
  ASSUME NEW a, NEW rst \in BOOLEAN, NEW inp
  PROVE  \/ rst /\ ArbiterEdge(a, rst, inp) = ArbiterReset
         \/ ~rst /\ a.present_state = s_tx
              /\ ArbiterEdge(a, rst, inp) = Transmit(a, inp)
         \/ ~rst /\ a.present_state # s_tx
              /\ ArbiterEdge(a, rst, inp) = NoGrant(a)
         \/ ~rst /\ a.present_state # s_tx
              /\ \E r \in Req : /\ request_reg(inp)[r]
                                /\ ArbiterEdge(a, rst, inp) = Grant(a, r)
<1> DEFINE granted == {r \in Req : first_request(a.present_state, request_reg(inp), r)}
<1>1. CASE ~rst /\ a.present_state # s_tx /\ granted # {}
  <2>1. PICK r : r \in granted /\ r = (CHOOSE q \in granted : TRUE)
    BY <1>1
  <2>2. request_reg(inp)[r] /\ r \in Req
    BY <2>1 DEF first_request
  <2>3. ArbiterEdge(a, rst, inp) = Grant(a, r)
    BY <1>1, <2>1 DEF ArbiterEdge, Arbitrate
  <2> QED
    BY <1>1, <2>2, <2>3
<1>2. CASE ~rst /\ a.present_state # s_tx /\ granted = {}
  BY <1>2 DEF ArbiterEdge, Arbitrate
<1>3. CASE rst \/ a.present_state = s_tx
  BY <1>3 DEF ArbiterEdge
<1> QED
  BY <1>1, <1>2, <1>3

(* One edge keeps every register of the arbiter in its range.              *)
LEMMA ArbiterType ==
  ASSUME NEW a \in ArbiterRegisters, NEW rst \in BOOLEAN,
         NEW inp \in ArbiterInputs
  PROVE  ArbiterEdge(a, rst, inp) \in ArbiterRegisters
<1> USE States
<1>1. ArbiterReset \in ArbiterRegisters
  BY RrArbiterAssumption DEF ArbiterReset, ArbiterRegisters, Disabled
<1>2. Transmit(a, inp) \in ArbiterRegisters
  BY DEF Transmit, ArbiterRegisters, ArbiterInputs
<1>3. NoGrant(a) \in ArbiterRegisters
  BY RrArbiterAssumption DEF NoGrant, ArbiterRegisters, Disabled
<1>4. ASSUME NEW r \in Req PROVE Grant(a, r) \in ArbiterRegisters
  BY DEF Grant, ArbiterRegisters, s
<1> QED
  BY <1>1, <1>2, <1>3, <1>4, ArbiterCases

-----------------------------------------------------------------------------
(* Every edge of clk0 is an edge of every register, with some hits.        *)
LEMMA EdgeOfAll ==
  ASSUME TypeOK, Next
  PROVE  /\ \E H \in SUBSET Req : \E word \in [Req -> Word] : Registers(H, word)
         /\ reset_s' \in BOOLEAN
         /\ hits' \in [Req -> 0 .. MaxHits]
<1>1. ASSUME NEW H \in SUBSET Req, Run(H)
      PROVE  /\ \E word \in [Req -> Word] : Registers(H, word)
             /\ hits' \in [Req -> 0 .. MaxHits]
  <2>1. \A c \in H : hits[c] + 1 \in 1 .. MaxHits
    BY <1>1, TDC_4chAssumption DEF Run, TypeOK
  <2>2. \A c \in H : NextHit(c) \in Word
    BY <2>1, TDC_4chAssumption DEF NextHit
  <2>3. [c \in Req |-> IF c \in H THEN NextHit(c) ELSE Zeros] \in [Req -> Word]
    BY <2>2, TDC_4chAssumption, RrArbiterAssumption
  <2>4. hits' \in [Req -> 0 .. MaxHits]
    BY <1>1, <2>1, TDC_4chAssumption DEF Run, TypeOK
  <2> QED
    BY <1>1, <2>3, <2>4 DEF Run
<1>2. ASSUME Reset
      PROVE  /\ \E word \in [Req -> Word] : Registers({}, word)
             /\ hits' \in [Req -> 0 .. MaxHits]
  <2>1. [c \in Req |-> Zeros] \in [Req -> Word]
    BY TDC_4chAssumption, RrArbiterAssumption
  <2> QED
    BY <1>2, <2>1 DEF Reset, TypeOK
<1>3. reset_s' \in BOOLEAN
  BY DEF Next, clk0, Run, Reset, reset_register
<1> QED
  BY <1>1, <1>2, <1>3 DEF Next, clk0

(* An edge of clk0 keeps the types.                                        *)
LEMMA TypeStep == TypeOK /\ [Next]_vars => TypeOK'
<1> SUFFICES ASSUME TypeOK, [Next]_vars PROVE TypeOK'
  OBVIOUS
<1>1. CASE Next
  <2>1. PICK H \in SUBSET Req, word \in [Req -> Word] : Registers(H, word)
    BY <1>1, EdgeOfAll
  <2>2. \A c \in Req : Edge(buf[c], buf_ports(c, H, word[c])) \in RingBufferRegisters
    BY PortTypes, EdgeType DEF TypeOK
  <2>3. buf' \in [Req -> RingBufferRegisters]
    BY <2>1, <2>2 DEF Registers
  <2>4. arb' \in ArbiterRegisters
    BY <2>1, PortTypes, ArbiterType DEF Registers, TypeOK
  <2> QED
    BY <1>1, <2>3, <2>4, EdgeOfAll DEF TypeOK
<1>2. CASE UNCHANGED vars
  BY <1>2 DEF vars, TypeOK
<1> QED
  BY <1>1, <1>2

(* The registers have their types after power-up.                          *)
LEMMA TypeInit == Init => TypeOK
<1> SUFFICES ASSUME Init PROVE TypeOK
  OBVIOUS
<1>1. 0 \in index_type /\ Zeros \in Word
  BY RingBufferAssumption, RrArbiterAssumption, TDC_4chAssumption DEF index_type
<1>2. buf \in [Req -> RingBufferRegisters]
  BY <1>1 DEF Init, RingBufferRegisters
<1>3. arb \in ArbiterRegisters
  BY States, RrArbiterAssumption DEF Init, ArbiterReset, ArbiterRegisters, Disabled
<1>4. hits \in [Req -> 0 .. MaxHits]
  BY TDC_4chAssumption DEF Init
<1> QED
  BY <1>2, <1>3, <1>4 DEF Init, TypeOK

(* Every register stays in its declared range.                             *)
THEOREM TypeCorrect == Spec => []TypeOK
  BY TypeInit, TypeStep, PTL DEF Spec

-----------------------------------------------------------------------------
(* A FIFO that is told to read and holds a word answers; one that is not   *)
(* told to read keeps its words.                                           *)
LEMMA BufferAnswers ==
  ASSUME TypeOK, ~reset_s, NEW H \in SUBSET Req, NEW word \in [Req -> Word],
         Registers(H, word), NEW c \in Req, ~empty(buf[c])
  PROVE  /\ arb.enable_out[c] => buf'[c].rd_valid
         /\ ~arb.enable_out[c] => ~empty(buf'[c])
<1> DEFINE p == buf_ports(c, H, word[c])
<1>1. buf'[c] = Edge(buf[c], p) /\ p \in Ports /\ buf[c] \in RingBufferRegisters
  BY PortTypes DEF Registers, TypeOK
<1>2. ~p.rst /\ p.rd_en = arb.enable_out[c]
  BY DEF buf_ports
<1>3. arb.enable_out[c] => buf'[c].rd_valid
  <2>1. buf'[c].rd_valid = (~p.rst /\ p.rd_en /\ ~empty(buf[c]))
    BY <1>1 DEF Edge, accepts_read
  <2> QED
    BY <1>2, <2>1
<1>4. ~arb.enable_out[c] => ~empty(buf'[c])
  BY <1>1, <1>2, StaysNonEmpty
<1> QED
  BY <1>3, <1>4

IInv == TypeOK /\ GrantsHold /\ NeverWedged

(* An edge keeps the grants sound and the arbiter answered.                *)
LEMMA IInvStep ==
  ASSUME IInv, Next
  PROVE  GrantsHold' /\ NeverWedged'
<1>1. TypeOK /\ GrantsHold /\ NeverWedged
  BY DEF IInv
<1>2. PICK H \in SUBSET Req, word \in [Req -> Word] : Registers(H, word)
  BY <1>1, EdgeOfAll
<1>3. arb' = ArbiterEdge(arb, reset_s, arb_inputs) /\ reset_s \in BOOLEAN
  BY <1>1, <1>2 DEF Registers, TypeOK
<1>4. arb \in ArbiterRegisters
  BY <1>1 DEF TypeOK
<1>5. CASE arb' = ArbiterReset
  BY <1>5, States DEF ArbiterReset, GrantsHold, NeverWedged, Disabled
<1>6. CASE ~reset_s /\ arb.present_state = s_tx /\ arb' = Transmit(arb, arb_inputs)
  <2> DEFINE w == arb.which_fifo
  <2>1. w \in Req /\ arb.enable_out \in [Req -> BOOLEAN]
    BY <1>4 DEF ArbiterRegisters
  <2>2. /\ arb'.present_state = arb.next_state /\ arb'.which_fifo = w
        /\ arb'.buffer_state = arb.buffer_state
        /\ arb'.next_state = IF buf[w].rd_valid THEN arb.buffer_state
                                                ELSE arb.next_state
        /\ arb'.enable_out = [arb.enable_out EXCEPT ![w] = FALSE]
    BY <1>4, <1>6, <2>1 DEF Transmit, ArbiterRegisters, arb_inputs
  <2>3. \A c \in Req : ~arb'.enable_out[c]
    BY <1>1, <2>1, <2>2 DEF GrantsHold
  <2>4. CASE arb.next_state = s_tx /\ ~buf[w].rd_valid
    <3>1. arb.enable_out[w] /\ ~empty(buf[w])
      BY <1>1, <1>6, <2>4 DEF NeverWedged
    <3>2. buf'[w].rd_valid
      BY <1>1, <1>2, <1>6, <2>1, <3>1, BufferAnswers
    <3> QED
      BY <1>1, <2>2, <2>3, <2>4, <3>2 DEF GrantsHold, NeverWedged
  <2>5. CASE arb.next_state # s_tx \/ buf[w].rd_valid
    <3>1. arb'.next_state # s_tx
      BY <1>1, <2>2, <2>5 DEF GrantsHold
    <3> QED
      BY <1>1, <2>2, <2>3, <3>1 DEF GrantsHold, NeverWedged
  <2> QED
    BY <2>4, <2>5
<1>7. CASE arb' = NoGrant(arb)
  <2>1. /\ arb'.next_state = s_idle /\ arb'.buffer_state = s_idle
        /\ arb'.enable_out = Disabled
    BY <1>4, <1>7 DEF NoGrant, ArbiterRegisters
  <2> QED
    BY <2>1, States DEF GrantsHold, NeverWedged, Disabled
<1>8. ASSUME ~reset_s, arb.present_state # s_tx,
             NEW r \in Req, request_reg(arb_inputs)[r], arb' = Grant(arb, r)
      PROVE  GrantsHold' /\ NeverWedged'
  <2>1. /\ arb'.present_state = arb.next_state /\ arb'.next_state = s_tx
        /\ arb'.buffer_state = r /\ arb'.which_fifo = r
        /\ arb'.enable_out = [q \in Req |-> q = r]
    BY <1>4, <1>8 DEF Grant, ArbiterRegisters, s
  <2>2. ~empty(buf[r])
    BY <1>8 DEF request_reg, arb_inputs
  <2>3. /\ arb.enable_out[r] => buf'[r].rd_valid
        /\ ~arb.enable_out[r] => ~empty(buf'[r])
    BY <1>1, <1>2, <1>8, <2>2, BufferAnswers
  <2>4. arb.enable_out[r] => arb.next_state = s_tx
    BY <1>1 DEF GrantsHold
  <2>5. arb'.enable_out[r] /\ r # s_tx
    BY <2>1, States
  <2>6. GrantsHold'
    <3>1. arb'.present_state # s_tx => ~empty(buf'[r])
      BY <2>1, <2>3, <2>4
    <3>2. empty(buf[r])' = empty(buf'[r])
      BY DEF empty, fill_count
    <3> QED
      BY <2>1, <2>5, <3>1 DEF GrantsHold, empty, fill_count
  <2>7. NeverWedged'
    BY <2>1, <2>3, <2>5 DEF NeverWedged, empty, fill_count
  <2> QED
    BY <2>6, <2>7
<1> QED
  BY <1>3, <1>5, <1>6, <1>7, <1>8, ArbiterCases

(* The invariant of the grants holds after power-up.                       *)
LEMMA IInvInit == Init => IInv
<1>1. Init => GrantsHold /\ NeverWedged
  BY States DEF Init, ArbiterReset, GrantsHold, NeverWedged, Disabled
<1> QED
  BY <1>1, TypeInit DEF IInv

(* And it is inductive.                                                    *)
LEMMA IInvNext == IInv /\ [Next]_vars => IInv'
<1>1. IInv /\ Next => GrantsHold' /\ NeverWedged'
  BY IInvStep
<1>2. IInv /\ UNCHANGED vars => GrantsHold' /\ NeverWedged'
  BY DEF IInv, vars, GrantsHold, NeverWedged, empty, fill_count
<1>3. IInv /\ [Next]_vars => TypeOK'
  BY TypeStep DEF IInv
<1> QED
  BY <1>1, <1>2, <1>3 DEF IInv

(* The arbiter never waits for a FIFO that will not answer                 *)
(* (rr_arbiter_41.vhd 219-229 against ring_buffer.vhd 94-111).             *)
THEOREM ArbiterNeverWedged == Spec => []NeverWedged
<1>1. IInv => NeverWedged
  BY DEF IInv
<1> QED
  BY <1>1, IInvInit, IInvNext, PTL DEF Spec

-----------------------------------------------------------------------------
(* The order of hits.  Before(c, u, v): if u and v are hits of channel c,  *)
(* then c presented u first.                                               *)
Before(c, u, v) ==
  \A m, n \in 1 .. MaxHits : u = Timestamp[c][m] /\ v = Timestamp[c][n] => m < n

HitsOf(c) == {Timestamp[c][m] : m \in 1 .. hits[c]}

(* What a buffer holds are stored hits of its channel, in order.           *)
HeldAreHits ==
  \A c \in Req : \A i \in 1 .. fill_count(buf[c]) :
    /\ Contents(buf[c])[i] \in stored /\ Contents(buf[c])[i] \in HitsOf(c)
    /\ \A j \in 1 .. fill_count(buf[c]) :
         i < j => Before(c, Contents(buf[c])[i], Contents(buf[c])[j])

(* A word that began a pulse is a stored hit that was presented before     *)
(* every word that its buffer still holds.                                 *)
BegunAreGone ==
  /\ first \in Seq(Word)
  /\ \A i \in 1 .. Len(first) :
       /\ first[i] \in stored /\ \E d \in Req : first[i] \in HitsOf(d)
       /\ \A c \in Req : \A j \in 1 .. fill_count(buf[c]) :
            Before(c, first[i], Contents(buf[c])[j])

(* The arbiter is about to begin a pulse.                                  *)
Pending == arb.present_state = s_tx /\ ~arb.valid_out

(* The word that will begin it comes after all that began a pulse before,  *)
(* and is either the oldest word of the granted FIFO, which is being told  *)
(* to read it, or already out of it.                                       *)
PendingIsNext ==
  Pending =>
    LET w == arb.which_fifo
        v == buf[w].rd_data
    IN  /\ arb.next_state = s_tx
        /\ v \in stored /\ v \in HitsOf(w)
        /\ \A i \in 1 .. Len(first) : Before(w, first[i], v)
        /\ buf[w].rd_valid =>
             \A j \in 1 .. fill_count(buf[w]) : Before(w, v, Contents(buf[w])[j])
        /\ ~buf[w].rd_valid => fill_count(buf[w]) > 0 /\ Contents(buf[w])[1] = v

OrderInv == HeldAreHits /\ BegunAreGone /\ PendingIsNext /\ PulsesInOrder

(* Since the arbiter has left s_idle an empty FIFO shows zeros, as at each *)
(* edge without reset the slot at its head has been written.               *)
EmptyShowsZeros ==
  (arb.present_state # s_idle \/ arb.next_state # s_idle) =>
    \A c \in Req : empty(buf[c]) => buf[c].ram[buf[c].head] = Zeros

TransmitsClean ==
  arb.present_state = s_tx => \A c \in Req : buf[c].rd_data \in stored \cup {Zeros}

CleanInv == EmptyShowsZeros /\ TransmitsClean /\ NothingStale

(* A channel's next hit comes after all hits there have been.              *)
LEMMA BeforeNext ==
  ASSUME TypeOK, NEW c \in Req, hits[c] < MaxHits, NEW d \in Req, NEW u \in HitsOf(d)
  PROVE  Before(c, u, NextHit(c))
<1>1. hits[c] + 1 \in 1 .. MaxHits /\ hits[c] \in Nat
  BY TDC_4chAssumption DEF TypeOK
<1>2. PICK k \in 1 .. hits[d] : u = Timestamp[d][k]
  BY DEF HitsOf
<1>3. k \in 1 .. MaxHits
  BY TDC_4chAssumption DEF TypeOK
<1>4. ASSUME NEW m \in 1 .. MaxHits, NEW n \in 1 .. MaxHits,
             u = Timestamp[c][m], NextHit(c) = Timestamp[c][n]
      PROVE  m < n
  <2>1. \A e, f \in Req : \A i, j \in 1 .. MaxHits :
          Timestamp[e][i] = Timestamp[f][j] => e = f /\ i = j
    BY TDC_4chAssumption
  <2>2. d = c /\ k = m
    <3>1. Timestamp[d][k] = Timestamp[c][m]
      BY <1>2, <1>4
    <3> QED
      BY <3>1, <2>1, <1>3
  <2>3. n = hits[c] + 1
    BY <1>1, <1>4, <2>1 DEF NextHit
  <2> QED
    BY <1>1, <1>2, <2>2, <2>3
<1> QED
  BY <1>4 DEF Before

(* Hits of different channels have no order to keep.                       *)
LEMMA BeforeOther ==
  ASSUME TypeOK, NEW c \in Req, NEW d \in Req, c # d, NEW v \in HitsOf(d), NEW u
  PROVE  Before(c, u, v) /\ Before(c, v, u)
<1>1. PICK k \in 1 .. hits[d] : v = Timestamp[d][k]
  BY DEF HitsOf
<1>2. k \in 1 .. MaxHits
  BY TDC_4chAssumption DEF TypeOK
<1> QED
  BY <1>1, <1>2, TDC_4chAssumption DEF Before

(* What a buffer holds after an edge without reset: the words it held,     *)
(* less the oldest if it was told to read, and its channel's hit if there  *)
(* was one and a place for it.                                             *)
LEMMA HeldStep ==
  ASSUME TypeOK, NEW H \in SUBSET Req, Run(H), NEW c \in Req,
         NEW n, n = fill_count(buf[c]), NEW n2, n2 = fill_count(buf'[c]),
         NEW r, r = IF arb.enable_out[c] /\ n > 0 THEN 1 ELSE 0
  PROVE  /\ n \in 0 .. RAM_DEPTH - 1 /\ n2 \in {n - r, n - r + 1}
         /\ \A j \in 1 .. n - r : Contents(buf'[c])[j] = Contents(buf[c])[j + r]
         /\ n2 = n - r + 1 => /\ c \in H /\ ~full(buf[c])
                              /\ Contents(buf'[c])[n2] = NextHit(c)
         /\ buf'[c].rd_valid <=> r = 1
         /\ n > 0 => buf'[c].rd_data = Contents(buf[c])[1]
<1> DEFINE w == IF c \in H THEN NextHit(c) ELSE Zeros
           p == buf_ports(c, H, w)
           q == Contents(buf[c])
           rest == IF accepts_read(buf[c], p) THEN Tail(q) ELSE q
           push == IF p.wr_en /\ n < RAM_DEPTH - 1 THEN <<p.wr_data>> ELSE << >>
<1>1. buf[c] \in RingBufferRegisters /\ ~reset_s
  BY DEF TypeOK, Run
<1>2. w \in Word
  <2>1. c \in H => hits[c] + 1 \in 1 .. MaxHits
    BY TDC_4chAssumption DEF Run, TypeOK
  <2> QED
    BY <2>1, TDC_4chAssumption, RrArbiterAssumption DEF NextHit
<1>3. buf'[c] = Edge(buf[c], p) /\ p \in Ports
  BY <1>2, PortTypes DEF Run, Registers
<1>4. /\ ~p.rst /\ p.rd_en = arb.enable_out[c]
      /\ p.wr_en = (c \in H) /\ p.wr_data = w
  BY <1>1 DEF buf_ports
<1>5. n \in 0 .. RAM_DEPTH - 1 /\ n \in Nat
  BY <1>1, FillRange, RingBufferAssumption
<1>6. accepts_read(buf[c], p) <=> r = 1
  BY <1>4, <1>5 DEF accepts_read, empty
<1>7. r \in {0, 1} /\ (r = 1 => n > 0)
  OBVIOUS
<1>8. q \in Seq(Word) /\ Len(q) = n
  BY <1>1, ContentsType
<1>9. /\ rest \in Seq(Word) /\ Len(rest) = n - r
      /\ \A j \in 1 .. n - r : rest[j] = q[j + r]
  <2>1. CASE r = 1
    <3>1. q # << >>
      BY <2>1, <1>5, <1>7, <1>8
    <3>2. /\ Tail(q) \in Seq(Word) /\ Len(Tail(q)) = n - 1
          /\ \A j \in 1 .. n - 1 : Tail(q)[j] = q[j + 1]
      BY <3>1, <1>8, HeadTailProperties
    <3> QED
      BY <2>1, <3>2, <1>6
  <2>2. CASE r = 0
    <3>1. rest = q /\ n - r = n /\ \A j \in 1 .. n : j + r = j
      BY <2>2, <1>5, <1>6
    <3> QED
      BY <3>1, <1>8
  <2> QED
    BY <2>1, <2>2, <1>7
<1>10. /\ push \in Seq(Word) /\ Len(push) \in {0, 1}
       /\ Len(push) = 1 => c \in H /\ n < RAM_DEPTH - 1 /\ push[1] = w
  <2>1. CASE p.wr_en /\ n < RAM_DEPTH - 1
    <3>1. push = <<w>>
      BY <2>1, <1>4
    <3>2. c \in H
      BY <2>1, <1>4
    <3> HIDE DEF push, w
    <3>3. push \in Seq(Word) /\ Len(push) = 1 /\ push[1] = w
      BY <3>1, <1>2
    <3> QED
      BY <3>2, <3>3, <2>1
  <2>2. CASE ~(p.wr_en /\ n < RAM_DEPTH - 1)
    <3>1. push = << >>
      BY <2>2
    <3> HIDE DEF push
    <3> QED
      BY <3>1
  <2> QED
    BY <2>1, <2>2
<1>11. Contents(buf'[c]) = rest \o push
  BY <1>1, <1>3, <1>4, ContentsStep
<1>12. n2 = Len(Contents(buf'[c]))
  BY <1>1, <1>3, EdgeType, ContentsType
<1> HIDE DEF rest, push
<1>13. /\ Len(rest \o push) = Len(rest) + Len(push)
       /\ \A j \in 1 .. Len(rest) + Len(push) :
            (rest \o push)[j] = IF j <= Len(rest) THEN rest[j] ELSE push[j - Len(rest)]
  BY <1>9, <1>10, ConcatProperties
<1>14. n2 \in {n - r, n - r + 1} /\ n - r \in Nat
  <2>1. n2 = (n - r) + Len(push) /\ n - r \in Int
    BY <1>5, <1>7, <1>9, <1>11, <1>12, <1>13
  <2>2. n - r \in Nat
    BY <1>5, <1>7
  <2> DEFINE l == Len(push)
             m == n - r
  <2>3. l \in {0, 1} /\ n2 = m + l /\ m \in Nat
    BY <2>1, <2>2, <1>10
  <2> HIDE DEF l, m
  <2>4. n2 \in {m, m + 1}
    BY <2>3
  <2> QED
    BY <2>2, <2>4 DEF m
<1>15. \A j \in 1 .. n - r : Contents(buf'[c])[j] = q[j + r]
  BY <1>9, <1>10, <1>11, <1>13, <1>14
<1>16. n2 = n - r + 1 => c \in H /\ n < RAM_DEPTH - 1 /\ Contents(buf'[c])[n2] = NextHit(c)
  <2>1. SUFFICES ASSUME n2 = n - r + 1
                 PROVE  c \in H /\ n < RAM_DEPTH - 1 /\ (rest \o push)[n2] = NextHit(c)
    BY <1>11
  <2>2. Len(push) = 1
    BY <2>1, <1>9, <1>10, <1>11, <1>12, <1>13, <1>14
  <2>3. (rest \o push)[n2] = push[1]
    BY <2>1, <2>2, <1>9, <1>13, <1>14
  <2> QED
    BY <2>2, <2>3, <1>10
<1>17. n < RAM_DEPTH - 1 => ~full(buf[c])
  BY <1>5, RingBufferAssumption DEF full
<1>18. /\ buf'[c].rd_valid = accepts_read(buf[c], p)
       /\ buf'[c].rd_data = buf[c].ram[buf[c].tail]
  BY <1>3 DEF Edge
<1>19. n > 0 => buf'[c].rd_data = q[1]
  <2>1. Slot(buf[c].tail, 1) = buf[c].tail
    BY <1>1, RingBufferAssumption DEF RingBufferRegisters, index_type, Slot
  <2>2. n > 0 => q[1] = buf[c].ram[Slot(buf[c].tail, 1)]
    BY <1>1, <1>5, ContentsType
  <2> QED
    BY <2>1, <2>2, <1>18
<1> QED
  BY <1>5, <1>6, <1>14, <1>15, <1>16, <1>17, <1>18, <1>19

(* What an edge without reset adds to the history.                         *)
LEMMA HistoryStep ==
  ASSUME TypeOK, NEW H \in SUBSET Req, Run(H)
  PROVE  /\ stored \subseteq stored'
         /\ \A c \in Req : HitsOf(c) \subseteq HitsOf(c)'
         /\ \A c \in H : /\ hits[c] < MaxHits /\ NextHit(c) \in HitsOf(c)'
                         /\ ~full(buf[c]) => NextHit(c) \in stored'
<1>1. \A c \in Req : hits'[c] = IF c \in H THEN hits[c] + 1 ELSE hits[c]
  BY DEF Run
<1>2. \A c \in Req : hits[c] \in Nat
  BY TDC_4chAssumption DEF TypeOK
<1>3. \A c \in Req : HitsOf(c)' = {Timestamp[c][m] : m \in 1 .. hits'[c]}
  BY DEF HitsOf
<1> QED
  BY <1>1, <1>2, <1>3 DEF Run, HitsOf, NextHit

(* What a buffer holds stays stored and in order: a new word is younger    *)
(* than all the others.                                                    *)
LEMMA HeldAreHitsStep ==
  ASSUME TypeOK, HeldAreHits, NEW H \in SUBSET Req, Run(H)
  PROVE  HeldAreHits'
<1>1. ASSUME NEW c \in Req, NEW i \in 1 .. fill_count(buf'[c])
      PROVE  /\ Contents(buf'[c])[i] \in stored' /\ Contents(buf'[c])[i] \in HitsOf(c)'
             /\ \A j \in 1 .. fill_count(buf'[c]) :
                  i < j => Before(c, Contents(buf'[c])[i], Contents(buf'[c])[j])
  <2> DEFINE n  == fill_count(buf[c])
             n2 == fill_count(buf'[c])
             r  == IF arb.enable_out[c] /\ n > 0 THEN 1 ELSE 0
             q  == Contents(buf[c])
             q2 == Contents(buf'[c])
  <2>1. /\ n \in 0 .. RAM_DEPTH - 1 /\ n2 \in {n - r, n - r + 1}
        /\ \A j \in 1 .. n - r : q2[j] = q[j + r]
        /\ n2 = n - r + 1 => /\ c \in H /\ ~full(buf[c])
                             /\ q2[n2] = NextHit(c)
    BY HeldStep
  <2>2. n \in Nat /\ r \in {0, 1}
    BY <2>1, RingBufferAssumption
  <2>3. \A k \in 1 .. n : /\ q[k] \in stored /\ q[k] \in HitsOf(c)
                          /\ \A j \in 1 .. n : k < j => Before(c, q[k], q[j])
    BY DEF HeldAreHits
  <2> HIDE DEF n, n2, r, q, q2
  <2>4. i \in 1 .. n2
    BY DEF n2
  <2>5. CASE i \in 1 .. n - r
    <3>1. i + r \in 1 .. n /\ q2[i] = q[i + r]
      BY <2>1, <2>2, <2>5
    <3>2. q2[i] \in stored' /\ q2[i] \in HitsOf(c)'
      BY <3>1, <2>3, HistoryStep
    <3>3. ASSUME NEW j \in 1 .. n2, i < j PROVE Before(c, q2[i], q2[j])
      <4>1. CASE j \in 1 .. n - r
        <5>1. j + r \in 1 .. n /\ i + r < j + r /\ q2[j] = q[j + r]
          BY <3>3, <2>1, <2>2, <2>5, <4>1
        <5> QED
          BY <5>1, <3>1, <2>3
      <4>2. CASE n2 = n - r + 1 /\ j = n2
        BY <4>2, <3>1, <2>1, <2>3, HistoryStep, BeforeNext
      <4>3. j \in 1 .. n - r \/ (n2 = n - r + 1 /\ j = n2)
        BY <2>1, <2>2
      <4> QED
        BY <4>1, <4>2, <4>3
    <3> QED
      BY <3>2, <3>3 DEF n2, q2
  <2>6. CASE n2 = n - r + 1 /\ i = n2
    <3>1. q2[i] \in stored' /\ q2[i] \in HitsOf(c)'
      BY <2>6, <2>1, HistoryStep
    <3>2. \A j \in 1 .. n2 : ~(i < j)
      BY <2>6, <2>1, <2>2
    <3> QED
      BY <3>1, <3>2 DEF n2, q2
  <2>7. i \in 1 .. n - r \/ (n2 = n - r + 1 /\ i = n2)
    BY <2>1, <2>2, <2>4
  <2> QED
    BY <2>5, <2>6, <2>7
<1> QED
  BY <1>1 DEF HeldAreHits, Contents, fill_count, Slot, Before, HitsOf

(* A hit that comes before all that a buffer holds comes before all it     *)
(* holds after the edge; so does the oldest word if the edge takes it out. *)
LEMMA StillBefore ==
  ASSUME TypeOK, HeldAreHits, NEW H \in SUBSET Req, Run(H),
         NEW c \in Req, NEW d \in Req, NEW u \in HitsOf(d),
         \/ \A j \in 1 .. fill_count(buf[c]) : Before(c, u, Contents(buf[c])[j])
         \/ arb.enable_out[c] /\ fill_count(buf[c]) > 0 /\ u = Contents(buf[c])[1]
  PROVE  \A j \in 1 .. fill_count(buf'[c]) : Before(c, u, Contents(buf'[c])[j])
<1> DEFINE n  == fill_count(buf[c])
           n2 == fill_count(buf'[c])
           r  == IF arb.enable_out[c] /\ n > 0 THEN 1 ELSE 0
           q  == Contents(buf[c])
           q2 == Contents(buf'[c])
<1>1. /\ n \in 0 .. RAM_DEPTH - 1 /\ n2 \in {n - r, n - r + 1}
      /\ \A j \in 1 .. n - r : q2[j] = q[j + r]
      /\ n2 = n - r + 1 => c \in H /\ q2[n2] = NextHit(c)
  BY HeldStep
<1>2. n \in Nat /\ r \in {0, 1}
  BY <1>1, RingBufferAssumption
<1>3. \A k, j \in 1 .. n : k < j => Before(c, q[k], q[j])
  BY DEF HeldAreHits
<1>4. (\A j \in 1 .. n : Before(c, u, q[j])) \/ (r = 1 /\ n > 0 /\ u = q[1])
  OBVIOUS
<1> HIDE DEF n, n2, r, q, q2
<1>5. ASSUME NEW j \in 1 .. n2 PROVE Before(c, u, q2[j])
  <2>1. CASE j \in 1 .. n - r
    <3>1. j + r \in 1 .. n /\ q2[j] = q[j + r]
      BY <2>1, <1>1, <1>2
    <3>2. CASE \A k \in 1 .. n : Before(c, u, q[k])
      BY <3>1, <3>2
    <3>3. CASE r = 1 /\ n > 0 /\ u = q[1]
      <4>1. 1 \in 1 .. n /\ 1 < j + r
        BY <2>1, <3>3, <1>2
      <4> QED
        BY <4>1, <3>1, <3>3, <1>3
    <3> QED
      BY <3>2, <3>3, <1>4
  <2>2. CASE n2 = n - r + 1 /\ j = n2
    BY <2>2, <1>1, HistoryStep, BeforeNext
  <2>3. j \in 1 .. n - r \/ (n2 = n - r + 1 /\ j = n2)
    BY <1>1, <1>2
  <2> QED
    BY <2>1, <2>2, <2>3
<1> QED
  BY <1>5 DEF n2, q2

(* Where a FIFO asks, the arbiter grants one that does: turn gives every   *)
(* requester a place, and one of the places taken is the first.            *)
LEMMA SomeGrant ==
  ASSUME NEW a \in ArbiterRegisters, NEW inp, a.present_state # s_tx,
         NEW q \in Req, request_reg(inp)[q]
  PROVE  \E r \in Req : /\ request_reg(inp)[r]
                        /\ ArbiterEdge(a, FALSE, inp) = Grant(a, r)
<1> DEFINE asks    == {r \in Req : request_reg(inp)[r]}
           places  == {turn(a.present_state, r) : r \in asks}
           granted == {r \in Req : first_request(a.present_state, request_reg(inp), r)}
<1>1. a.present_state \in Req \cup {s_idle}
  BY States DEF ArbiterRegisters
<1>2. \A r \in Req : turn(a.present_state, r) \in Nat
  BY <1>1, RrArbiterAssumption DEF turn, Req, s_idle
<1>3. places \subseteq Nat /\ places # {}
  BY <1>2
<1>4. PICK x \in places : \A y \in places : x <= y
  BY <1>3, Minimum
<1>5. PICK r \in asks : x = turn(a.present_state, r)
  BY <1>4
<1>6. r \in granted
  BY <1>4, <1>5 DEF first_request
<1>7. (CHOOSE g \in granted : TRUE) \in granted
  BY <1>6
<1>8. ArbiterEdge(a, FALSE, inp) = Grant(a, CHOOSE g \in granted : TRUE)
  BY <1>6 DEF ArbiterEdge, Arbitrate
<1> QED
  BY <1>7, <1>8 DEF first_request

(* valid_o rises only out of s_tx, with rd_data of the granted FIFO.       *)
LEMMA DataFromGranted ==
  ASSUME TypeOK, NEW H \in SUBSET Req, Run(H), arb'.valid_out
  PROVE  /\ arb.present_state = s_tx
         /\ arb'.data_out = buf[arb.which_fifo].rd_data
<1>1. arb.which_fifo \in Req /\ arb \in ArbiterRegisters
  BY DEF TypeOK, ArbiterRegisters
<1>2. arb' = ArbiterEdge(arb, FALSE, arb_inputs)
  BY DEF Run, Registers, TypeOK
<1>3. arb.present_state = s_tx
  <2>1. \A r : ~Grant(arb, r).valid_out /\ ~NoGrant(arb).valid_out
    BY <1>1 DEF Grant, NoGrant, ArbiterRegisters
  <2> QED
    BY <1>2, <2>1, ArbiterCases
<1>4. arb' = Transmit(arb, arb_inputs)
  BY <1>2, <1>3 DEF ArbiterEdge
<1> QED
  BY <1>1, <1>3, <1>4 DEF Transmit, ArbiterRegisters, arb_inputs

(* A word that begins a pulse at an edge is rd_data of the granted FIFO,   *)
(* and it comes after every word that began one before and before every    *)
(* word that a buffer holds after the edge.                                *)
LEMMA PulseBegins ==
  ASSUME IInv, OrderInv, NEW H \in SUBSET Req, Run(H),
         arb'.valid_out, ~arb.valid_out
  PROVE  \E w \in Req : \E v \in Word :
           /\ first' = Append(first, v)
           /\ v \in stored /\ v \in HitsOf(w)
           /\ \A c \in Req : \A i \in 1 .. Len(first) : Before(c, first[i], v)
           /\ \A c \in Req : \A j \in 1 .. fill_count(buf'[c]) :
                Before(c, v, Contents(buf'[c])[j])
<1> DEFINE w == arb.which_fifo
           v == buf[w].rd_data
<1>1. TypeOK /\ GrantsHold /\ NeverWedged /\ ~reset_s
  BY DEF IInv, Run
<1>2. w \in Req /\ v \in Word
  BY <1>1 DEF TypeOK, ArbiterRegisters, RingBufferRegisters
<1>3. arb.present_state = s_tx /\ arb'.data_out = v
  BY <1>1, DataFromGranted
<1>4. first' = Append(first, v)
  BY <1>3 DEF Run
<1>5. /\ arb.next_state = s_tx
      /\ v \in stored /\ v \in HitsOf(w)
      /\ \A i \in 1 .. Len(first) : Before(w, first[i], v)
      /\ buf[w].rd_valid =>
           \A j \in 1 .. fill_count(buf[w]) : Before(w, v, Contents(buf[w])[j])
      /\ ~buf[w].rd_valid => fill_count(buf[w]) > 0 /\ Contents(buf[w])[1] = v
  BY <1>3 DEF OrderInv, PendingIsNext, Pending
<1>6. ~buf[w].rd_valid => arb.enable_out[w]
  BY <1>1, <1>3, <1>5 DEF NeverWedged
<1>7. \A j \in 1 .. fill_count(buf'[w]) : Before(w, v, Contents(buf'[w])[j])
  BY <1>1, <1>2, <1>5, <1>6, StillBefore DEF OrderInv
<1>8. \A c \in Req : c # w => \A u : Before(c, u, v) /\ Before(c, v, u)
  BY <1>1, <1>2, <1>5, BeforeOther
<1> HIDE DEF w, v
<1> QED
  BY <1>2, <1>4, <1>5, <1>7, <1>8

(* The words that began pulses stay gone and in order.                     *)
LEMMA BegunStep ==
  ASSUME IInv, OrderInv, NEW H \in SUBSET Req, Run(H)
  PROVE  BegunAreGone' /\ PulsesInOrder'
<1>1. TypeOK /\ HeldAreHits /\ BegunAreGone /\ PulsesInOrder
  BY DEF IInv, OrderInv
<1>2. ASSUME NEW u \in stored, NEW d \in Req, u \in HitsOf(d)
      PROVE  u \in stored' /\ u \in HitsOf(d)'
  BY <1>1, <1>2, HistoryStep
<1>3. ASSUME NEW i \in 1 .. Len(first)
      PROVE  /\ first[i] \in stored' /\ \E d \in Req : first[i] \in HitsOf(d)'
             /\ \A c \in Req : \A j \in 1 .. fill_count(buf'[c]) :
                  Before(c, first[i], Contents(buf'[c])[j])
  <2>1. PICK d \in Req : first[i] \in HitsOf(d)
    BY <1>1 DEF BegunAreGone
  <2>2. first[i] \in stored /\ \A c \in Req : \A j \in 1 .. fill_count(buf[c]) :
                                 Before(c, first[i], Contents(buf[c])[j])
    BY <1>1 DEF BegunAreGone
  <2> QED
    BY <1>1, <1>2, <2>1, <2>2, StillBefore
<1>4. first \in Seq(Word) /\ Len(first) \in Nat
  BY <1>1 DEF BegunAreGone
<1>5. CASE arb'.valid_out /\ ~arb.valid_out
  <2>1. PICK w \in Req, v \in Word :
           /\ first' = Append(first, v)
           /\ v \in stored /\ v \in HitsOf(w)
           /\ \A c \in Req : \A i \in 1 .. Len(first) : Before(c, first[i], v)
           /\ \A c \in Req : \A j \in 1 .. fill_count(buf'[c]) :
                Before(c, v, Contents(buf'[c])[j])
    BY <1>5, PulseBegins
  <2>2. /\ first' \in Seq(Word) /\ Len(first') = Len(first) + 1
        /\ \A i \in 1 .. Len(first) : first'[i] = first[i]
        /\ first'[Len(first) + 1] = v
    BY <1>4, <2>1, AppendProperties
  <2>3. \A i \in 1 .. Len(first') : i \in 1 .. Len(first) \/ i = Len(first) + 1
    BY <1>4, <2>2
  <2>4. \A i \in 1 .. Len(first') :
          /\ first'[i] \in stored' /\ \E d \in Req : first'[i] \in HitsOf(d)'
          /\ \A c \in Req : \A j \in 1 .. fill_count(buf'[c]) :
               Before(c, first'[i], Contents(buf'[c])[j])
    BY <1>2, <1>3, <2>1, <2>2, <2>3
  <2>5. ASSUME NEW i \in 1 .. Len(first'), NEW j \in 1 .. Len(first'), NEW c \in Req,
               NEW m \in 1 .. MaxHits, NEW n \in 1 .. MaxHits,
               i < j, first'[i] = Timestamp[c][m], first'[j] = Timestamp[c][n]
        PROVE  m < n
    <3>1. i \in 1 .. Len(first)
      BY <2>5, <2>2, <2>3, <1>4
    <3>2. CASE j \in 1 .. Len(first)
      BY <3>1, <3>2, <2>2, <2>5, <1>1 DEF PulsesInOrder
    <3>3. CASE j = Len(first) + 1
      <4>1. Before(c, first'[i], first'[j])
        BY <3>1, <3>3, <2>1, <2>2
      <4> QED
        BY <4>1, <2>5 DEF Before
    <3> QED
      BY <3>2, <3>3, <2>3
  <2>6. PulsesInOrder'
    BY <2>5 DEF PulsesInOrder
  <2> QED
    BY <2>2, <2>4, <2>6 DEF BegunAreGone, Contents, fill_count, Slot, Before, HitsOf
<1>6. CASE ~(arb'.valid_out /\ ~arb.valid_out)
  <2>1. first' = first
    BY <1>6 DEF Run
  <2>2. PulsesInOrder'
    BY <2>1, <1>1 DEF PulsesInOrder
  <2>3. /\ first' \in Seq(Word)
        /\ \A i \in 1 .. Len(first') :
             /\ first'[i] \in stored' /\ \E d \in Req : first'[i] \in HitsOf(d)'
             /\ \A c \in Req : \A j \in 1 .. fill_count(buf'[c]) :
                  Before(c, first'[i], Contents(buf'[c])[j])
    BY <2>1, <1>3, <1>4
  <2> QED
    BY <2>2, <2>3 DEF BegunAreGone, Contents, fill_count, Slot, Before, HitsOf
<1> QED
  BY <1>5, <1>6

(* When the arbiter is about to begin a pulse, it has just granted a FIFO  *)
(* that holds a word, and rd_data has taken that word.                     *)
LEMMA PendingStep ==
  ASSUME IInv, OrderInv, NEW H \in SUBSET Req, Run(H)
  PROVE  PendingIsNext'
<1>1. TypeOK /\ GrantsHold /\ HeldAreHits /\ BegunAreGone
  BY DEF IInv, OrderInv
<1>2. arb' = ArbiterEdge(arb, FALSE, arb_inputs) /\ arb \in ArbiterRegisters
  BY <1>1 DEF Run, Registers, TypeOK
<1>3. SUFFICES ASSUME arb'.present_state = s_tx, ~arb'.valid_out
               PROVE  PendingIsNext'
  BY DEF PendingIsNext, Pending
<1>4. arb.present_state # s_tx
  BY <1>2, <1>3 DEF ArbiterEdge, Transmit, ArbiterRegisters
<1>5. arb.next_state = s_tx
  <2>1. \A r : /\ Grant(arb, r).present_state = arb.next_state
               /\ NoGrant(arb).present_state = arb.next_state
    BY <1>2 DEF Grant, NoGrant, ArbiterRegisters
  <2>2. arb' = NoGrant(arb) \/ \E r \in Req : arb' = Grant(arb, r)
    BY <1>2, <1>4, ArbiterCases
  <2> QED
    BY <2>1, <2>2, <1>3
<1>6. PICK g \in Req : request_reg(arb_inputs)[g] /\ arb' = Grant(arb, g)
  <2>1. arb.which_fifo \in Req /\ ~empty(buf[arb.which_fifo])
    BY <1>1, <1>2, <1>4, <1>5 DEF GrantsHold, ArbiterRegisters
  <2>2. request_reg(arb_inputs)[arb.which_fifo]
    BY <2>1 DEF request_reg, arb_inputs
  <2> QED
    BY <1>2, <1>4, <2>1, <2>2, SomeGrant
<1> DEFINE n  == fill_count(buf[g])
           n2 == fill_count(buf'[g])
           r  == IF arb.enable_out[g] /\ n > 0 THEN 1 ELSE 0
           v  == Contents(buf[g])[1]
<1>7. n \in Nat \ {0}
  <2>1. ~empty(buf[g])
    BY <1>6 DEF request_reg, arb_inputs
  <2> QED
    BY <2>1, <1>1, FillRange, RingBufferAssumption DEF TypeOK, empty
<1>8. /\ n2 \in {n - r, n - r + 1}
      /\ \A j \in 1 .. n - r : Contents(buf'[g])[j] = Contents(buf[g])[j + r]
      /\ buf'[g].rd_valid <=> r = 1
      /\ buf'[g].rd_data = v
  BY <1>1, <1>7, HeldStep
<1>9. v \in stored /\ v \in HitsOf(g)
  BY <1>1, <1>7 DEF HeldAreHits
<1>10. v \in stored' /\ v \in HitsOf(g)'
  BY <1>1, <1>9, HistoryStep
<1>11. \A i \in 1 .. Len(first) : Before(g, first[i], v)
  BY <1>1, <1>7 DEF BegunAreGone
<1>12. first' = first
  BY <1>3 DEF Run
<1>13. buf'[g].rd_valid =>
         \A j \in 1 .. n2 : Before(g, v, Contents(buf'[g])[j])
  <2>1. SUFFICES ASSUME buf'[g].rd_valid
                 PROVE  \A j \in 1 .. n2 : Before(g, v, Contents(buf'[g])[j])
    OBVIOUS
  <2>2. arb.enable_out[g]
    BY <2>1, <1>8
  <2> QED
    BY <2>2, <1>1, <1>7, <1>9, StillBefore
<1>14. ~buf'[g].rd_valid => n2 > 0 /\ Contents(buf'[g])[1] = v
  <2>1. SUFFICES ASSUME ~buf'[g].rd_valid
                 PROVE  n2 > 0 /\ Contents(buf'[g])[1] = v
    OBVIOUS
  <2>2. r = 0
    BY <2>1, <1>8
  <2>3. n2 \in {n, n + 1} /\ \A j \in 1 .. n : Contents(buf'[g])[j] = Contents(buf[g])[j]
    BY <2>2, <1>7, <1>8
  <2> QED
    BY <2>3, <1>7
<1>15. arb'.which_fifo = g /\ arb'.next_state = s_tx
  BY <1>2, <1>6 DEF Grant, ArbiterRegisters
<1>16. /\ arb'.next_state = s_tx
       /\ buf'[g].rd_data \in stored' /\ buf'[g].rd_data \in HitsOf(g)'
       /\ \A i \in 1 .. Len(first') : Before(g, first'[i], buf'[g].rd_data)
       /\ buf'[g].rd_valid =>
            \A j \in 1 .. fill_count(buf'[g]) :
              Before(g, buf'[g].rd_data, Contents(buf'[g])[j])
       /\ ~buf'[g].rd_valid => /\ fill_count(buf'[g]) > 0
                               /\ Contents(buf'[g])[1] = buf'[g].rd_data
  BY <1>8, <1>10, <1>11, <1>12, <1>13, <1>14, <1>15
<1> QED
  BY <1>15, <1>16
  DEF PendingIsNext, Pending, Contents, fill_count, Slot, Before, HitsOf

(* A reset edge empties the buffers, and the histories begin anew.         *)
LEMMA ResetEdge ==
  ASSUME TypeOK, Reset
  PROVE  /\ arb' = ArbiterReset
         /\ \A c \in Req : fill_count(buf'[c]) = 0
         /\ stored' = {} /\ sent' = {} /\ first' = << >>
<1>1. arb' = ArbiterReset
  BY DEF Reset, Registers, ArbiterEdge
<1>2. ASSUME NEW c \in Req PROVE fill_count(buf'[c]) = 0
  <2>1. buf'[c] = Edge(buf[c], buf_ports(c, {}, Zeros))
    BY DEF Reset, Registers
  <2>2. buf'[c].head = 0 /\ buf'[c].tail = 0
    BY <2>1 DEF Reset, Edge, PROC_HEAD, PROC_TAIL, buf_ports
  <2> QED
    BY <2>2 DEF fill_count
<1> QED
  BY <1>1, <1>2 DEF Reset

(* An edge keeps the order of what is stored, read, granted and sent.      *)
LEMMA OrderStep ==
  ASSUME IInv, OrderInv, [Next]_vars
  PROVE  OrderInv'
<1>1. CASE \E H \in SUBSET Req : Run(H)
  <2>1. PICK H \in SUBSET Req : Run(H)
    BY <1>1
  <2>2. HeldAreHits'
    BY <2>1, HeldAreHitsStep DEF IInv, OrderInv
  <2> QED
    BY <2>1, <2>2, BegunStep, PendingStep DEF OrderInv
<1>2. CASE Reset
  <2>1. /\ arb' = ArbiterReset /\ first' = << >>
        /\ \A c \in Req : 1 .. fill_count(buf'[c]) = {}
    BY <1>2, ResetEdge DEF IInv
  <2>2. HeldAreHits'
    BY <2>1 DEF HeldAreHits, fill_count
  <2>3. BegunAreGone' /\ PulsesInOrder'
    BY <2>1 DEF BegunAreGone, PulsesInOrder
  <2>4. PendingIsNext'
    BY <2>1, States DEF PendingIsNext, Pending, ArbiterReset
  <2> QED
    BY <2>2, <2>3, <2>4 DEF OrderInv
<1>3. CASE UNCHANGED vars
  <2>1. buf' = buf /\ arb' = arb /\ hits' = hits /\ stored' = stored /\ first' = first
    BY <1>3 DEF vars, history
  <2>2. HeldAreHits /\ BegunAreGone /\ PendingIsNext /\ PulsesInOrder
    BY DEF OrderInv
  <2>3. HeldAreHits'
    <3>1. \A c \in Req : HitsOf(c)' = HitsOf(c)
      BY <2>1 DEF HitsOf
    <3>2. \A c \in Req : \A i \in 1 .. fill_count(buf'[c]) :
            /\ Contents(buf'[c])[i] \in stored' /\ Contents(buf'[c])[i] \in HitsOf(c)'
            /\ \A j \in 1 .. fill_count(buf'[c]) :
                 i < j => Before(c, Contents(buf'[c])[i], Contents(buf'[c])[j])
      BY <2>1, <2>2, <3>1 DEF HeldAreHits
    <3> QED
      BY <3>2 DEF HeldAreHits, Contents, fill_count, Slot, Before, HitsOf
  <2>4. BegunAreGone'
    <3>1. \A d \in Req : HitsOf(d)' = HitsOf(d)
      BY <2>1 DEF HitsOf
    <3>2. /\ first' \in Seq(Word)
          /\ \A i \in 1 .. Len(first') :
               /\ first'[i] \in stored' /\ \E d \in Req : first'[i] \in HitsOf(d)'
               /\ \A c \in Req : \A j \in 1 .. fill_count(buf'[c]) :
                    Before(c, first'[i], Contents(buf'[c])[j])
      BY <2>1, <2>2, <3>1 DEF BegunAreGone
    <3> QED
      BY <3>2 DEF BegunAreGone, Contents, fill_count, Slot, Before, HitsOf
  <2>5. PendingIsNext'
    <3> DEFINE w == arb'.which_fifo
               v == buf'[w].rd_data
    <3>1. (arb'.present_state = s_tx /\ ~arb'.valid_out) =>
             /\ arb'.next_state = s_tx
             /\ v \in stored' /\ v \in {Timestamp[w][m] : m \in 1 .. hits'[w]}
             /\ \A i \in 1 .. Len(first') : Before(w, first'[i], v)
             /\ buf'[w].rd_valid =>
                  \A j \in 1 .. fill_count(buf'[w]) : Before(w, v, Contents(buf'[w])[j])
             /\ ~buf'[w].rd_valid => fill_count(buf'[w]) > 0 /\ Contents(buf'[w])[1] = v
      BY <2>1, <2>2 DEF PendingIsNext, Pending, HitsOf
    <3> QED
      BY <3>1 DEF PendingIsNext, Pending, Contents, fill_count, Slot, Before, HitsOf
  <2>6. PulsesInOrder'
    BY <2>1, <2>2 DEF PulsesInOrder
  <2> QED
    BY <2>3, <2>4, <2>5, <2>6 DEF OrderInv
<1> QED
  BY <1>1, <1>2, <1>3 DEF Next, clk0

(* The order holds after power-up.                                         *)
LEMMA OrderInit == Init => OrderInv
<1> SUFFICES ASSUME Init PROVE OrderInv
  OBVIOUS
<1>1. first = << >> /\ arb = ArbiterReset
      /\ \A c \in Req : fill_count(buf[c]) = 0
  BY DEF Init, fill_count
<1> QED
  BY <1>1, States
  DEF OrderInv, HeldAreHits, BegunAreGone, PendingIsNext, Pending, ArbiterReset,
      PulsesInOrder

(* A pulse of valid_o begins with a stored hit (rr_arbiter_41.vhd 219-224).*)
THEOREM PulsesBeginWithHits == Spec => []PulseBeginsWithHit
<1>1. IInv /\ OrderInv => PulseBeginsWithHit
  BY DEF OrderInv, BegunAreGone, PulseBeginsWithHit
<1> QED
  BY <1>1, IInvInit, IInvNext, OrderInit, OrderStep, PTL DEF Spec

(* The hits that begin pulses appear in the order in which their channel   *)
(* presented them, none of them twice (rr_arbiter_41.vhd 219-229 against   *)
(* ring_buffer.vhd 113-119).                                               *)
THEOREM PulsesKeepOrder == Spec => []PulsesInOrder
<1>1. IInv /\ OrderInv => PulsesInOrder
  BY DEF OrderInv
<1> QED
  BY <1>1, IInvInit, IInvNext, OrderInit, OrderStep, PTL DEF Spec

-----------------------------------------------------------------------------
(* After an edge without reset, an empty buffer of three slots or more has *)
(* just written zeros at its head: the hit of a full one would have left a *)
(* word in it.                                                             *)
LEMMA EmptyAfterZeros ==
  ASSUME TypeOK, RAM_DEPTH > 2, NEW H \in SUBSET Req, Run(H),
         NEW c \in Req, fill_count(buf'[c]) = 0
  PROVE  buf'[c].ram[buf'[c].head] = Zeros
<1>1. buf[c] \in RingBufferRegisters /\ ~reset_s
  BY DEF TypeOK, Run
<1>2. c \notin H
  <2> DEFINE n == fill_count(buf[c])
             p == buf_ports(c, H, IF c \in H THEN NextHit(c) ELSE Zeros)
  <2>1. n \in 0 .. RAM_DEPTH - 1
    BY <1>1, FillRange
  <2>2. buf'[c] = Edge(buf[c], p) /\ p \in Ports
    <3>1. c \in H => hits[c] + 1 \in 1 .. MaxHits
      BY TDC_4chAssumption DEF Run, TypeOK
    <3>2. (IF c \in H THEN NextHit(c) ELSE Zeros) \in Word
      BY <3>1, TDC_4chAssumption, RrArbiterAssumption DEF NextHit
    <3> QED
      BY <3>2, PortTypes DEF Run, Registers
  <2>3. ~p.rst /\ p.wr_en = (c \in H)
    BY <1>1 DEF buf_ports
  <2>4. fill_count(buf'[c]) = n + (IF p.wr_en /\ n < RAM_DEPTH - 1 THEN 1 ELSE 0)
                                - (IF accepts_read(buf[c], p) THEN 1 ELSE 0)
    BY <1>1, <2>2, <2>3, FillStep
  <2>5. accepts_read(buf[c], p) => n # 0
    BY DEF accepts_read, empty
  <2>6. n \in Nat /\ RAM_DEPTH \in Nat
    BY <2>1, RingBufferAssumption
  <2> HIDE DEF n, p
  <2>7. SUFFICES ASSUME c \in H PROVE FALSE
    OBVIOUS
  <2>8. fill_count(buf'[c]) = n + (IF n < RAM_DEPTH - 1 THEN 1 ELSE 0)
                                - (IF accepts_read(buf[c], p) THEN 1 ELSE 0)
    BY <2>3, <2>4, <2>7
  <2> QED
    BY <2>5, <2>6, <2>8
<1>3. buf'[c] = Edge(buf[c], buf_ports(c, H, Zeros))
  BY <1>2 DEF Run, Registers
<1>4. buf'[c].head = buf[c].head /\ buf'[c].ram = [buf[c].ram EXCEPT ![buf[c].head] = Zeros]
  <2> DEFINE p == buf_ports(c, H, Zeros)
  <2>1. ~p.rst /\ ~p.wr_en /\ p.wr_data = Zeros
    BY <1>1, <1>2 DEF buf_ports
  <2> HIDE DEF p
  <2>2. buf'[c] = Edge(buf[c], p)
    BY <1>3 DEF p
  <2> QED
    BY <2>1, <2>2 DEF Edge, PROC_HEAD, PROC_RAM
<1> QED
  BY <1>1, <1>4 DEF RingBufferRegisters

(* While the arbiter is away from s_idle, a FIFO that holds nothing shows  *)
(* zeros next, and one that holds a word shows its oldest.                 *)
LEMMA ShowsClean ==
  ASSUME TypeOK, HeldAreHits, EmptyShowsZeros, NEW H \in SUBSET Req, Run(H),
         arb.next_state # s_idle, NEW c \in Req
  PROVE  buf'[c].rd_data \in stored' \cup {Zeros}
<1>1. buf[c] \in RingBufferRegisters
  BY DEF TypeOK
<1>2. fill_count(buf[c]) \in 0 .. RAM_DEPTH - 1
  BY <1>1, FillRange
<1>3. CASE fill_count(buf[c]) = 0
  <2>1. buf[c].head = buf[c].tail
    BY <1>1, <1>3, FillRange
  <2>2. buf'[c].rd_data = buf[c].ram[buf[c].tail]
    BY DEF Run, Registers, Edge
  <2> QED
    BY <2>1, <2>2, <1>3 DEF EmptyShowsZeros, empty
<1>4. CASE fill_count(buf[c]) # 0
  <2>1. 1 \in 1 .. fill_count(buf[c]) /\ fill_count(buf[c]) > 0
    BY <1>2, <1>4, RingBufferAssumption
  <2>2. buf'[c].rd_data = Contents(buf[c])[1]
    BY <2>1, HeldStep
  <2>3. Contents(buf[c])[1] \in stored
    BY <2>1 DEF HeldAreHits
  <2> QED
    BY <2>2, <2>3, HistoryStep
<1> QED
  BY <1>3, <1>4

(* With three slots or more, an edge brings no stale word to a read        *)
(* register or to the output.                                              *)
LEMMA CleanStep ==
  ASSUME IInv, OrderInv, CleanInv, RAM_DEPTH > 2, [Next]_vars
  PROVE  CleanInv'
<1>1. TypeOK /\ HeldAreHits
  BY DEF IInv, OrderInv
<1>2. CASE \E H \in SUBSET Req : Run(H)
  <2>1. PICK H \in SUBSET Req : Run(H)
    BY <1>2
  <2>2. ~reset_s /\ arb' = ArbiterEdge(arb, FALSE, arb_inputs)
    BY <1>1, <2>1 DEF Run, Registers, TypeOK
  <2>3. EmptyShowsZeros'
    <3>1. \A c \in Req : fill_count(buf'[c]) = 0 => buf'[c].ram[buf'[c].head] = Zeros
      BY <1>1, <2>1, EmptyAfterZeros
    <3> QED
      BY <3>1 DEF EmptyShowsZeros, empty, fill_count
  <2>4. TransmitsClean'
    <3>1. \A r : /\ Grant(arb, r).present_state = arb.next_state
                 /\ NoGrant(arb).present_state = arb.next_state
                 /\ Transmit(arb, arb_inputs).present_state = arb.next_state
      BY <1>1 DEF Grant, NoGrant, Transmit, TypeOK, ArbiterRegisters
    <3>2. \/ arb' = Transmit(arb, arb_inputs) \/ arb' = NoGrant(arb)
          \/ \E r \in Req : arb' = Grant(arb, r)
      BY <2>2, ArbiterCases
    <3>3. arb'.present_state = arb.next_state
      BY <3>1, <3>2
    <3>4. arb.next_state = s_tx => \A c \in Req : buf'[c].rd_data \in stored' \cup {Zeros}
      BY <1>1, <2>1, ShowsClean, States DEF CleanInv
    <3> QED
      BY <3>3, <3>4 DEF TransmitsClean
  <2>5. NothingStale'
    <3>1. CASE arb'.valid_out
      <4>1. arb.present_state = s_tx /\ arb'.data_out = buf[arb.which_fifo].rd_data
        BY <1>1, <2>1, <3>1, DataFromGranted
      <4>2. arb'.data_out \in stored \cup {Zeros}
        BY <1>1, <4>1 DEF CleanInv, TransmitsClean, TypeOK, ArbiterRegisters
      <4> QED
        BY <1>1, <2>1, <4>2, HistoryStep DEF Run, CleanInv, NothingStale
    <3>2. CASE ~arb'.valid_out
      BY <1>1, <2>1, <3>2, HistoryStep DEF Run, CleanInv, NothingStale
    <3> QED
      BY <3>1, <3>2
  <2> QED
    BY <2>3, <2>4, <2>5 DEF CleanInv
<1>3. CASE Reset
  <2>1. arb' = ArbiterReset /\ sent' = {}
    BY <1>1, <1>3, ResetEdge
  <2> QED
    BY <2>1, States
    DEF CleanInv, EmptyShowsZeros, TransmitsClean, NothingStale, ArbiterReset
<1>4. CASE UNCHANGED vars
  BY <1>4
  DEF vars, history, CleanInv, EmptyShowsZeros, TransmitsClean, NothingStale,
      empty, fill_count
<1> QED
  BY <1>2, <1>3, <1>4 DEF Next, clk0

(* What data_o shows while valid_o is high is a hit stored since the reset *)
(* or all zeros (ring_buffer.vhd 117-118), in a buffer of three slots or   *)
(* more.  In one of two slots a hit that arrives while the other slot is   *)
(* taken is refused and yet left in the RAM, where rd_data shows it next.  *)
THEOREM NothingStaleSent == ASSUME RAM_DEPTH > 2 PROVE Spec => []NothingStale
<1>1. Init => CleanInv
  BY States
  DEF Init, ArbiterReset, CleanInv, EmptyShowsZeros, TransmitsClean, NothingStale
<1>2. IInv /\ OrderInv /\ CleanInv /\ [Next]_vars => CleanInv'
  BY CleanStep
<1>3. CleanInv => NothingStale
  BY DEF CleanInv
<1> QED
  BY <1>1, <1>2, <1>3, IInvInit, IInvNext, OrderInit, OrderStep, PTL DEF Spec
=============================================================================

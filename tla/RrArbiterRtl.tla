---------------------------- MODULE RrArbiterRtl ----------------------------
(***************************************************************************)
(* The round-robin arbiter of sources/src/rr_arbiter_41.vhd, as a function *)
(* from its registers and its inputs at a rising edge of clk to its        *)
(* registers after it.  The entity has NReq = 4 requesters; nothing in it  *)
(* depends on that number.                                                 *)
(*                                                                         *)
(* next_state is itself a register, so the case on present_state runs      *)
(* TWICE in every state: once on entry, and once more while present_state  *)
(* takes the next_state that the first pass chose.                         *)
(***************************************************************************)
EXTENDS Integers

CONSTANTS NReq,      \* number of requester FIFOs
          DataWord,  \* words of DWIDTH bits
          Zeros      \* the word of all zeros

ASSUME RrArbiterAssumption == NReq \in Nat \ {0} /\ Zeros \in DataWord

Req == 0 .. NReq - 1

(* The states: s(k) remembers that requester k was served last.            *)
s(k)   == k
s_idle == -1
s_tx   == -2
state  == {s_idle, s_tx} \cup {s(k) : k \in Req}

ArbiterRegisters ==
  [present_state : state, next_state : state, buffer_state : state,
   enable_out : [Req -> BOOLEAN], which_fifo : Req,
   data_out : DataWord, valid_out : BOOLEAN]

(* The inputs: one empty flag, valid flag and data word per requester.     *)
ArbiterInputs ==
  [empty_in : [Req -> BOOLEAN], valid_in : [Req -> BOOLEAN],
   data_in : [Req -> DataWord]]

Disabled == [r \in Req |-> FALSE]

ArbiterReset ==
  [present_state |-> s_idle, next_state |-> s_idle, buffer_state |-> s_idle,
   enable_out |-> Disabled, which_fifo |-> 0,
   data_out |-> Zeros, valid_out |-> FALSE]

(* Mistake: a fixed priority, whoever was served last.                     *)
turn_fixed(st, r) == r + 1

(* The place of requester r in the elsif chain of a state: s(k) tries      *)
(* k+1, k+2, ... and k last; s_idle tries them in the order of s(NReq-1).  *)
turn(st, r) ==
  LET k == IF st = s_idle THEN NReq - 1 ELSE st
  IN  IF r > k THEN r - k ELSE r - k + NReq

(* Mistake: the empty flags taken for requests.                            *)
request_reg_inverted(inp) == [r \in Req |-> inp.empty_in[r]]

request_reg(inp) == [r \in Req |-> ~inp.empty_in[r]]

(* Requester r is the one the elsif chain of state st grants.              *)
first_request(st, request, r) ==
  /\ request[r]
  /\ \A q \in Req : request[q] => turn(st, r) <= turn(st, q)

Grant(a, r) ==
  [a EXCEPT !.present_state = a.next_state,
            !.next_state    = s_tx,
            !.buffer_state  = s(r),
            !.enable_out    = [q \in Req |-> q = r],
            !.which_fifo    = r,
            !.valid_out     = FALSE]

NoGrant(a) ==
  [a EXCEPT !.present_state = a.next_state,
            !.next_state    = s_idle,
            !.buffer_state  = s_idle,
            !.enable_out    = Disabled,
            !.which_fifo    = 0,
            !.data_out      = Zeros,
            !.valid_out     = FALSE]

(* s_tx: pass on what the granted FIFO shows, valid or not, and leave when *)
(* it reports a valid read.                                                *)
Transmit(a, inp) ==
  [a EXCEPT !.present_state = a.next_state,
            !.next_state    = IF inp.valid_in[a.which_fifo]
                                THEN a.buffer_state ELSE a.next_state,
            !.enable_out    = [@ EXCEPT ![a.which_fifo] = FALSE],
            !.data_out      = inp.data_in[a.which_fifo],
            !.valid_out     = TRUE]

Arbitrate(a, inp) ==
  LET granted == {r \in Req : first_request(a.present_state, request_reg(inp), r)}
  IN  IF granted = {} THEN NoGrant(a)
                      ELSE Grant(a, CHOOSE r \in granted : TRUE)

ArbiterEdge(a, rst, inp) ==
  IF rst THEN ArbiterReset
  ELSE IF a.present_state = s_tx THEN Transmit(a, inp)
  ELSE Arbitrate(a, inp)
=============================================================================

------------------------------ MODULE TDC_4ch ------------------------------
(***************************************************************************)
(* The four-channel block of sources/src/TDC_4ch.vhd behind its TDC        *)
(* channels: one ring buffer per channel and one arbiter, all on clk0 and  *)
(* all cleared by the registered reset.  A TDC channel is an environment   *)
(* that at each edge either presents its next hit or nothing; the word     *)
(* beside a low valid is all zeros, as the encoder drives it.              *)
(***************************************************************************)
EXTENDS RingBufferRtl, RrArbiterRtl, FiniteSets, Sequences, Functions

CONSTANTS Timestamp,  \* Timestamp[c][n]: the word of the n-th hit of channel c
          MaxHits,    \* bound: hits per channel
          MaxTotal,   \* bound: hits of all channels
          MaxResets   \* bound: resets after power-up

(* A word carries the channel and the time of its hit, so two hits never   *)
(* have the same word and none of them is all zeros.                       *)
ASSUME TDC_4chAssumption ==
  /\ DataWord = Word
  /\ MaxHits \in Nat /\ MaxTotal \in Nat /\ MaxResets \in Nat
  /\ Timestamp \in [Req -> [1 .. MaxHits -> Word \ {Zeros}]]
  /\ \A c, d \in Req : \A m, n \in 1 .. MaxHits :
       Timestamp[c][m] = Timestamp[d][n] => c = d /\ m = n

VARIABLES buf,     \* the registers of the ring buffers, per channel
          arb,     \* the registers of the arbiter
          reset_s, \* the registered reset
          hits,    \* hits[c]: how many hits channel c has presented
          resets,  \* how many resets have begun
          stored,  \* history: the hits the buffers accepted since the reset
          sent,    \* history: the words seen on data_o while valid_o was high
          first    \* history: the words with which a pulse of valid_o began

history == <<stored, sent, first>>
vars == <<buf, arb, reset_s, hits, resets, history>>

(* The state the start-up reset leaves.                                    *)
Init ==
  /\ buf = [c \in Req |-> [ram |-> [i \in index_type |-> Zeros], head |-> 0,
                           tail |-> 0, rd_valid |-> FALSE, rd_data |-> Zeros]]
  /\ arb = ArbiterReset
  /\ reset_s = FALSE
  /\ hits = [c \in Req |-> 0] /\ resets = 0
  /\ stored = {} /\ sent = {} /\ first = << >>

-----------------------------------------------------------------------------
NextHit(c) == Timestamp[c][hits[c] + 1]

(* The ports of channel c's buffer when the channels of the set H present a*)
(* hit at this edge, w being what channel c has on its data output.        *)
buf_ports(c, H, w) ==
  [rst     |-> reset_s,
   wr_en   |-> c \in H,
   wr_data |-> w,
   rd_en   |-> arb.enable_out[c]]

(* What the arbiter sees of the buffers.                                   *)
arb_inputs ==
  [empty_in |-> [c \in Req |-> empty(buf[c])],
   valid_in |-> [c \in Req |-> buf[c].rd_valid],
   data_in  |-> [c \in Req |-> buf[c].rd_data]]

(* One rising edge of clk0 at the buffers and the arbiter.                 *)
Registers(H, word) ==
  /\ buf' = [c \in Req |-> Edge(buf[c], buf_ports(c, H, word[c]))]
  /\ arb' = ArbiterEdge(arb, reset_s, arb_inputs)

(* The register in front of the reset inputs.                              *)
reset_register ==
  \/ /\ resets < MaxResets
     /\ reset_s' = TRUE /\ resets' = resets + 1
  \/ reset_s' = FALSE /\ UNCHANGED resets

(* The bound on all hits, counting those of H.                             *)
WithinTotal(H) == FoldFunction(+, 0, hits) + Cardinality(H) <= MaxTotal

(* An edge in normal operation, at which the channels of H present a hit.  *)
Run(H) ==
  /\ ~reset_s
  /\ \A c \in H : hits[c] < MaxHits
  /\ WithinTotal(H)
  /\ Registers(H, [c \in Req |-> IF c \in H THEN NextHit(c) ELSE Zeros])
  /\ reset_register
  /\ hits' = [c \in Req |-> IF c \in H THEN hits[c] + 1 ELSE hits[c]]
  /\ stored' = stored \cup {NextHit(c) : c \in {d \in H : ~full(buf[d])}}
  /\ sent' = IF arb'.valid_out THEN sent \cup {arb'.data_out} ELSE sent
  /\ first' = IF arb'.valid_out /\ ~arb.valid_out
                THEN Append(first, arb'.data_out) ELSE first

(* An edge in reset, at which the buffers ignore wr_en.  What was stored   *)
(* before it is given up.                                                  *)
Reset ==
  /\ reset_s
  /\ Registers({}, [c \in Req |-> Zeros])
  /\ reset_register
  /\ UNCHANGED hits
  /\ stored' = {} /\ sent' = {} /\ first' = << >>

clk0 == Reset \/ \E H \in SUBSET Req : Run(H)

Next == clk0

Spec == Init /\ [][Next]_vars

(* Hits without end: every channel may present one at any edge, for ever.  *)
(* The histories, which would grow without end, are left out, and so is    *)
(* what the words say, on which no control register depends.               *)
Traffic ==
  \E H \in SUBSET Req :
    /\ Registers(H, [c \in Req |-> Zeros])
    /\ UNCHANGED <<reset_s, hits, resets, history>>

(* The clock never stops.                                                  *)
TrafficSpec == Init /\ [][Traffic]_vars /\ WF_vars(Traffic)
-----------------------------------------------------------------------------
(* Every register of the buffers and of the arbiter stays in its declared  *)
(* range (ring_buffer.vhd 43-53, rr_arbiter_41.vhd 44-48).                 *)
TypeOK ==
  /\ buf \in [Req -> RingBufferRegisters]
  /\ arb \in ArbiterRegisters
  /\ reset_s \in BOOLEAN
  /\ hits \in [Req -> 0 .. MaxHits]

(* The arbiter never waits in s_tx for a FIFO that will not answer: when it*)
(* waits, the granted FIFO is answering now, or has a word and is being    *)
(* told to read it.  Nothing else ends the wait (rr_arbiter_41.vhd 226), so*)
(* a grant that outlives its FIFO's last word would stop the block for     *)
(* ever.                                                                   *)
NeverWedged ==
  (arb.present_state = s_tx /\ arb.next_state = s_tx) =>
    LET w == arb.which_fifo
    IN  buf[w].rd_valid \/ (arb.enable_out[w] /\ ~empty(buf[w]))

(* Why: read enables exist only while a grant is on its way, for the FIFO  *)
(* that is granted, and a grant is of a FIFO that holds a word; and the    *)
(* state to return to is never s_tx.                                       *)
GrantsHold ==
  /\ \A c \in Req : arb.enable_out[c] => (c = arb.which_fifo /\ arb.next_state = s_tx)
  /\ (arb.present_state # s_tx /\ arb.next_state = s_tx) =>
       (arb.enable_out[arb.which_fifo] /\ ~empty(buf[arb.which_fifo]))
  /\ arb.buffer_state # s_tx

(* A pulse of valid_o begins with a stored hit, never with the leftovers   *)
(* that follow it (rr_arbiter_41.vhd 219-224: data_out follows rd_data     *)
(* whether or not the FIFO says it is valid).                              *)
PulseBeginsWithHit == \A i \in 1 .. Len(first) : first[i] \in stored

(* The hits that begin pulses appear in the order in which their channel   *)
(* presented them, none of them twice, although rd_data shows a word       *)
(* before it is read and the arbiter sends it while it shows.              *)
PulsesInOrder ==
  \A i, j \in 1 .. Len(first) : \A c \in Req : \A m, n \in 1 .. MaxHits :
    (i < j /\ first[i] = Timestamp[c][m] /\ first[j] = Timestamp[c][n]) => m < n

(* Whatever is on data_o while valid_o is high is a hit stored since the   *)
(* last reset or all zeros: no word of an earlier run is left in a RAM slot*)
(* that rd_data can show (ring_buffer.vhd 117-118).                        *)
NothingStale == sent \subseteq stored \cup {Zeros}

(* Under endless traffic on all channels, every buffer that holds a hit is *)
(* read: the elsif chains of s0-s3 give every requester its turn           *)
(* (rr_arbiter_41.vhd 103-218).                                            *)
NoStarvation == \A c \in Req : ~empty(buf[c]) ~> buf[c].rd_valid

(* rr_arbiter_41.vhd:220 says that the read enable is dropped so that no   *)
(* data in the FIFOs is lost if there are multiple hits: once everything   *)
(* has come to rest, every stored hit has been on data_o with valid_o.     *)
AtRest ==
  /\ ~reset_s /\ ~arb.valid_out
  /\ arb.present_state = s_idle /\ arb.next_state = s_idle
  /\ \A c \in Req : empty(buf[c]) /\ ~buf[c].rd_valid

NoHitLost == AtRest => stored \subseteq sent
=============================================================================

--------------------------- MODULE TDC_64ch_2BRAM ---------------------------
(***************************************************************************)
(* The end of sources/src/TDC_64ch_2BRAM.vhd: the process that writes the  *)
(* words of the last arbiter into one of two BRAMs and the state machine   *)
(* that, on a trigger, switches BRAMs and hands the filled one to the      *)
(* processing system (PS).  One action, clk0, is one rising edge.          *)
(*                                                                         *)
(* A word is the number of its arrival in the bank's turn, a turn being    *)
(* what happens to a bank between two clearings of its address.            *)
(***************************************************************************)
EXTENDS Integers

CONSTANTS BRAM_WORDS,   \* 64-bit words in a BRAM
          MISSED_MOD,   \* 2^6: missed_trigs is unsigned(5 downto 0)
          MaxWords,     \* bound: words per turn of a bank
          MaxResets     \* bound: resets after power-up

ASSUME BramAssumption ==
  /\ BRAM_WORDS \in Nat \ {0} /\ MISSED_MOD \in Nat \ {0}
  /\ MaxWords \in Nat /\ MaxResets \in Nat

VARIABLES
  state,          \* the state machine
  which_bram_s,   \* the bank being written, 1 or 2
  busy_last, trig_last, tdc64ch_valid_s_last, reset_s,  \* registered inputs
  irq_o,          \* PL -> PS interrupt request
  we, en,         \* BRAM_b_we_b and BRAM_b_en_b, per bank b
  addr,           \* addr1, addr2
  wrdata,         \* BRAM_b_wrdata_b
  missed_trigs,
  bram,           \* what each bank holds; 0 is a word of no current turn
  resets          \* resets begun so far

regs == <<state, which_bram_s, irq_o, we, en, addr, wrdata, missed_trigs>>
sampled == <<busy_last, trig_last, tdc64ch_valid_s_last, reset_s>>
pl_vars == <<regs, sampled, bram, resets>>

Bank == {1, 2}
other(b) == 3 - b

PL_Init ==
  /\ state = "s_idle" /\ which_bram_s = 1
  /\ busy_last = FALSE /\ trig_last = FALSE
  /\ tdc64ch_valid_s_last = FALSE /\ reset_s = FALSE
  /\ irq_o = FALSE /\ missed_trigs = 0
  /\ we = [b \in Bank |-> FALSE] /\ en = [b \in Bank |-> FALSE]
  /\ addr = [b \in Bank |-> 0] /\ wrdata = [b \in Bank |-> 0]
  /\ bram = [b \in Bank |-> [a \in 0 .. BRAM_WORDS - 1 |-> 0]]
  /\ resets = 0

(* The inputs at an edge: [trigger, tdc64ch_valid_s, rd_busy].  A word     *)
(* counts when valid rises, a trigger when trigger rises.                  *)
new_word(in) == in.tdc64ch_valid_s /\ ~tdc64ch_valid_s_last
new_trigger(in) == in.trigger /\ ~trig_last

(* The bank is handed over at this edge.                                   *)
switching(in) == state = "s_idle" /\ new_trigger(in) /\ ~in.rd_busy

(* Mistake: the address is cleared one state late.                         *)
released_late == state = "s_idle" /\ ~busy_last

(* The bank that was read is cleared at this edge.                         *)
released == state = "s_busy" /\ ~busy_last

(* The registers in front of the process.                                  *)
SampleInputs(in) ==
  /\ busy_last' = in.rd_busy
  /\ trig_last' = in.trigger
  /\ tdc64ch_valid_s_last' = in.tdc64ch_valid_s
  /\ \/ resets < MaxResets /\ reset_s' = TRUE /\ resets' = resets + 1
     \/ reset_s' = FALSE /\ UNCHANGED resets

(* Mistake: the address counts the edges at which valid is high.           *)
WriteSide_by_level(in) ==
  /\ we' = [b \in Bank |-> b = which_bram_s /\ new_word(in)]
  /\ en' = [b \in Bank |-> b = which_bram_s \/ switching(in)]
  /\ wrdata' = [b \in Bank |-> IF b = which_bram_s THEN addr[b] + 1 ELSE 0]
  /\ addr' = [b \in Bank |->
       IF b = which_bram_s
         THEN (IF in.tdc64ch_valid_s THEN addr[b] + 1 ELSE addr[b])
       ELSE IF released THEN 0 ELSE addr[b]]

(* Write enables and address.  The enable is registered at the edge that   *)
(* increments the address, so the write that follows uses the new address. *)
WriteSide(in) ==
  /\ we' = [b \in Bank |-> b = which_bram_s /\ new_word(in)]
  /\ en' = [b \in Bank |-> b = which_bram_s \/ switching(in)]
  /\ wrdata' = [b \in Bank |-> IF b = which_bram_s THEN addr[b] + 1 ELSE 0]
  /\ addr' = [b \in Bank |->
       IF b = which_bram_s THEN (IF new_word(in) THEN addr[b] + 1 ELSE addr[b])
       ELSE IF released THEN 0 ELSE addr[b]]

(* Mistake: the counter does not wrap.                                     *)
missed_without_wrap == missed_trigs' = missed_trigs + 1

missed == missed_trigs' = (missed_trigs + 1) % MISSED_MOD

(* Mistake: the interrupt goes out at the switch, with a write under way.  *)
s_idle_irq_at_once(in) ==
  /\ state = "s_idle"
  /\ irq_o' = switching(in)
  /\ IF switching(in) THEN which_bram_s' = other(which_bram_s) /\ state' = "s_trigd"
                      ELSE UNCHANGED <<state, which_bram_s>>
  /\ IF new_trigger(in) /\ in.rd_busy THEN missed ELSE UNCHANGED missed_trigs

s_idle(in) ==
  /\ state = "s_idle"
  /\ irq_o' = FALSE
  /\ \/ /\ switching(in)
        /\ which_bram_s' = other(which_bram_s)
        /\ state' = "s_trigd"
        /\ UNCHANGED missed_trigs
     \/ /\ new_trigger(in) /\ in.rd_busy
        /\ missed
        /\ UNCHANGED <<state, which_bram_s>>
     \/ /\ ~new_trigger(in)
        /\ UNCHANGED <<state, which_bram_s, missed_trigs>>

(* Mistake: the interrupt is a pulse that nobody has to answer.            *)
s_trigd_one_shot ==
  /\ state = "s_trigd"
  /\ irq_o' = ~irq_o
  /\ state' = IF irq_o THEN "s_busy" ELSE state
  /\ UNCHANGED <<which_bram_s, missed_trigs>>

s_trigd ==
  /\ state = "s_trigd"
  /\ irq_o' = ~busy_last
  /\ state' = IF busy_last THEN "s_busy" ELSE state
  /\ UNCHANGED <<which_bram_s, missed_trigs>>

s_busy(in) ==
  /\ state = "s_busy"
  /\ IF in.trigger THEN missed ELSE UNCHANGED missed_trigs
  /\ state' = IF busy_last THEN state ELSE "s_idle"
  /\ UNCHANGED <<irq_o, which_bram_s>>

(* The reset branch: neither state nor missed_trigs is reset.              *)
ResetBranch ==
  /\ reset_s
  /\ which_bram_s' = 1 /\ irq_o' = FALSE
  /\ we' = [b \in Bank |-> FALSE] /\ en' = [b \in Bank |-> FALSE]
  /\ addr' = [b \in Bank |-> 0]
  /\ UNCHANGED <<state, missed_trigs, wrdata>>

(* The BRAM: an enabled write at the edge goes to the low bits of the      *)
(* address.  Its reset input clears no word.                               *)
BramPort ==
  bram' = [b \in Bank |->
    IF en[b] /\ we[b] THEN [bram[b] EXCEPT ![addr[b] % BRAM_WORDS] = wrdata[b]]
    ELSE bram[b]]

(* The word of an edge is within the bound on words.                       *)
WithinWords(in) == new_word(in) => addr[which_bram_s] < MaxWords

clk0(in) ==
  /\ WithinWords(in)
  /\ SampleInputs(in)
  /\ \/ ResetBranch
     \/ ~reset_s /\ WriteSide(in) /\ (s_idle(in) \/ s_trigd \/ s_busy(in))
  /\ BramPort
=============================================================================

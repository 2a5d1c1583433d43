------------------------------ MODULE Readout ------------------------------
(***************************************************************************)
(* The trigger and readout handshake: the bank switch of TDC_64ch_2BRAM in *)
(* the PL and the daemon in the PS, joined by the interrupt line, the      *)
(* read_busy GPIO and the which_bram GPIO.                                 *)
(*                                                                         *)
(* The PS is asynchronous to clk0 and slower: it completes at most one     *)
(* device access between two edges of clk0 (an AXI access takes several    *)
(* clock periods), and may take any number of edges for it.                *)
(***************************************************************************)
EXTENDS TDC_64ch_2BRAM, daemon

VARIABLES
  slot,      \* the PS may still complete an access before the next edge
  owed,      \* history: triggers accepted less readouts finished
  orphaned   \* history: an interrupt was consumed by no daemon or by one
             \* that ended before it had served it

vars == <<pl_vars, ps_vars, slot, owed, orphaned>>

Init == PL_Init /\ PS_Init /\ slot = TRUE /\ owed = 0 /\ orphaned = FALSE

(* A rising edge of irq_o is latched by the interrupt controller.          *)
PL == \E in \in [trigger : BOOLEAN, tdc64ch_valid_s : BOOLEAN, rd_busy : {rd_busy}] :
  /\ clk0(in)
  /\ latched' = (latched \/ (irq_o' /\ ~irq_o))
  /\ slot' = TRUE
  /\ owed' = IF ~reset_s /\ switching(in) THEN owed + 1 ELSE owed
  /\ UNCHANGED <<pc, rd_busy, which_bram, i, masked, event, exits, orphaned>>

PS(A) == slot /\ slot' = FALSE /\ A /\ UNCHANGED pl_vars

DaemonLoop ==
  /\ PS(Loop(which_bram_s))
  /\ owed' = IF rd_busy /\ ~rd_busy' THEN owed - 1 ELSE owed
  /\ UNCHANGED orphaned

DaemonOpen == PS(Open) /\ UNCHANGED <<owed, orphaned>>

DaemonExit ==
  /\ PS(Exit)
  /\ orphaned' = (orphaned \/ event \/ pc # "unmask")
  /\ UNCHANGED owed

Interrupt ==
  /\ PS(Deliver)
  /\ orphaned' = (orphaned \/ pc = "closed")
  /\ UNCHANGED owed

Next == PL \/ DaemonLoop \/ DaemonOpen \/ DaemonExit \/ Interrupt

Spec == Init /\ [][Next]_vars

FairSpec ==
  Spec /\ WF_vars(PL) /\ WF_vars(DaemonLoop) /\ WF_vars(Interrupt)
-----------------------------------------------------------------------------
(* Every register, wire and device stays in its range.                     *)
TypeOK ==
  /\ state \in {"s_idle", "s_trigd", "s_busy"} /\ which_bram_s \in Bank
  /\ {busy_last, trig_last, tdc64ch_valid_s_last, reset_s, irq_o,
      rd_busy, latched, masked, event, slot, orphaned} \subseteq BOOLEAN
  /\ we \in [Bank -> BOOLEAN] /\ en \in [Bank -> BOOLEAN]
  /\ addr \in [Bank -> Nat] /\ wrdata \in [Bank -> Nat]
  /\ missed_trigs \in 0 .. MISSED_MOD - 1
  /\ bram \in [Bank -> [0 .. BRAM_WORDS - 1 -> Nat]]
  /\ pc \in {"closed", "unmask", "wait", "raise", "select", "read"}
  /\ which_bram \in Bank /\ i \in 0 .. READS
  /\ owed \in Int /\ resets \in Nat

(* While the daemon reads, the bank it selected is still the one that the  *)
(* which_bram GPIO names: the PL does not switch under a reader, although  *)
(* it decides on rd_busy before the daemon has read which_bram             *)
(* (TDC_64ch_2BRAM.vhd 382-395, daemon.c 138-204).  A reset moves          *)
(* which_bram_s in the middle of a readout; this is about runs without.    *)
SelectionHolds == (resets = 0 /\ pc = "read") => which_bram = which_bram_s

(* Every readout the daemon finishes answers a trigger of its own, and no  *)
(* trigger is accepted while one is owed a readout: no interrupt is served *)
(* twice, none of two is merged (TDC_64ch_2BRAM.vhd 376-427, daemon.c      *)
(* 117-216), also when the daemon ends and is started again.  A reset      *)
(* during s_trigd raises the interrupt a second time.                      *)
OneReadoutPerTrigger == resets = 0 => owed \in {0, 1}

(* The bank that a trigger will switch to starts at address 0 again        *)
(* (TDC_64ch_2BRAM.vhd 411-422).                                           *)
FreshBank == state = "s_idle" => addr[other(which_bram_s)] = 0

(* Why, in the terms of both sides: at any time a request is in one place  *)
(* only, and none is anywhere while the PL waits for a trigger.  The slot  *)
(* matters: rd_busy stays up long enough for the PL to see it because the  *)
(* daemon makes one access per clock period at most.                       *)
Serving == pc \in {"raise", "select", "read"}
Unasked == ~latched /\ ~event /\ ~Serving /\ ~rd_busy /\ ~busy_last

Handshake ==
  resets = 0 =>
    /\ ~reset_s
    /\ state = "s_idle" => (~irq_o /\ Unasked /\ owed = 0)
    /\ state = "s_trigd" =>
         /\ owed = 1
         /\ ~irq_o => Unasked
         /\ busy_last => rd_busy
         /\ latched => ~event
         /\ (latched \/ event) => (~Serving /\ ~rd_busy)
         /\ pc = "raise" => ~rd_busy
         /\ pc \in {"select", "read"} => rd_busy
         /\ (pc = "select" /\ slot) => busy_last
         /\ pc = "read" => (busy_last /\ ~slot)
    /\ state = "s_busy" =>
         /\ ~irq_o /\ ~latched /\ ~event /\ pc # "raise"
         /\ rd_busy => (owed = 1 /\ busy_last)
         /\ ~rd_busy => (owed = 0 /\ ~Serving)
    /\ pc = "read" => which_bram = which_bram_s

(* And of the banks: a write to the bank that is not current can only be   *)
(* the one in the pipeline at the switch, which the PL lets pass before it *)
(* raises the interrupt.                                                   *)
BanksApart ==
  LET b == other(which_bram_s)
  IN  /\ FreshBank
      /\ we[b] => (state = "s_trigd" /\ ~irq_o /\ ~busy_last)

(* From the interrupt to the end of the readout no write reaches the bank  *)
(* handed over, the one in the pipeline when the banks were switched       *)
(* included (TDC_64ch_2BRAM.vhd 335-361, 401-406).                         *)
HandedOver == irq_o \/ state = "s_busy"

HandedBankQuiet ==
  LET b == other(which_bram_s) IN HandedOver => ~(en[b] /\ we[b])

(* The bank handed over holds every word of its turn, the k-th at address  *)
(* k, except those a wrap of the address has overwritten                   *)
(* (TDC_64ch_2BRAM.vhd 335-373, 433-434).                                  *)
HandedBankHoldsWords ==
  LET b == other(which_bram_s)
  IN  HandedOver =>
        \A k \in 1 .. addr[b] :
          addr[b] - k < BRAM_WORDS => bram[b][k % BRAM_WORDS] = k

(* A trigger that was accepted is read out and the PL is ready for the     *)
(* next, unless the daemon is not running, or ended before it had served   *)
(* an interrupt, or the interrupt came before the daemon had opened its    *)
(* device: then the PL waits for read_busy for ever.                       *)
TriggerServed ==
  state = "s_trigd" ~> (state = "s_idle" \/ orphaned \/ pc = "closed")

(* daemon.c:17 says that the PL names the BRAM to read from: the daemon    *)
(* reads a bank that is not being written.  which_bram_s is the bank being *)
(* written (TDC_64ch_2BRAM.vhd:59).                                        *)
ReadsFilledBank == pc = "read" => bank_read # which_bram_s
=============================================================================

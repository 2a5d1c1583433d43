--------------------------- MODULE ReadoutProofs ---------------------------
(***************************************************************************)
(* For every size of the banks, every length of the readout loop and any   *)
(* number of resets and of ends of the daemon: types, the handshake        *)
(* between the PL and the daemon, and the hand-over of the banks.          *)
(***************************************************************************)
EXTENDS Readout, TLAPS

(* There are two banks, each the other of the other.                       *)
LEMMA Banks ==
  /\ Bank = {1, 2} /\ 1 \in Bank
  /\ \A b \in Bank : other(b) \in Bank /\ other(b) # b /\ other(other(b)) = b
  BY DEF Bank, other

(* The range of a counter that wraps.                                      *)
LEMMA ModRange == \A n \in Nat, m \in Nat \ {0} : n % m \in 0 .. m - 1
  OBVIOUS

PL_Inputs == [trigger : BOOLEAN, tdc64ch_valid_s : BOOLEAN, rd_busy : BOOLEAN]

(* An edge of clk0 is taken by one of the states or by the reset branch.   *)
LEMMA PLStep ==
  ASSUME PL, rd_busy \in BOOLEAN
  PROVE  \E in \in PL_Inputs : /\ in.rd_busy = rd_busy
                               /\ clk0(in)
                               /\ latched' = (latched \/ (irq_o' /\ ~irq_o))
                               /\ slot' = TRUE
                               /\ owed' = IF ~reset_s /\ switching(in)
                                            THEN owed + 1 ELSE owed
                               /\ UNCHANGED <<pc, rd_busy, which_bram, i, masked,
                                              event, exits, orphaned>>
  BY DEF PL, PL_Inputs

(* An edge of clk0 keeps the types.                                        *)
LEMMA TypeStepPL ==
  ASSUME TypeOK, PL
  PROVE  TypeOK'
<1> USE DEF TypeOK
<1>1. PICK in \in PL_Inputs :
        /\ in.rd_busy = rd_busy
        /\ clk0(in)
        /\ latched' = (latched \/ (irq_o' /\ ~irq_o))
        /\ slot' = TRUE
        /\ owed' = IF ~reset_s /\ switching(in) THEN owed + 1 ELSE owed
        /\ UNCHANGED <<pc, rd_busy, which_bram, i, masked, event, exits, orphaned>>
  BY PLStep
<1>2. /\ in.trigger \in BOOLEAN /\ in.tdc64ch_valid_s \in BOOLEAN
      /\ in.rd_busy \in BOOLEAN
  BY DEF PL_Inputs
<1>3. {busy_last, trig_last, tdc64ch_valid_s_last, reset_s}' \subseteq BOOLEAN
  BY <1>1, <1>2 DEF clk0, SampleInputs
<1>4. bram' \in [Bank -> [0 .. BRAM_WORDS - 1 -> Nat]]
  BY <1>1 DEF clk0, BramPort
<1>5. /\ we' \in [Bank -> BOOLEAN] /\ en' \in [Bank -> BOOLEAN]
      /\ addr' \in [Bank -> Nat] /\ wrdata' \in [Bank -> Nat]
  <2>1. CASE ResetBranch
    BY <2>1 DEF ResetBranch
  <2>2. CASE WriteSide(in)
    <3>1. new_word(in) \in BOOLEAN /\ switching(in) \in BOOLEAN /\ released \in BOOLEAN
      BY DEF new_word, switching, released
    <3> QED
      BY <2>2, <3>1 DEF WriteSide
  <2> QED
    BY <1>1, <2>1, <2>2 DEF clk0
<1>6. missed => missed_trigs' \in 0 .. MISSED_MOD - 1
  <2>1. missed_trigs + 1 \in Nat
    BY BramAssumption
  <2> QED
    BY <2>1, ModRange, BramAssumption DEF missed
<1>7. /\ state' \in {"s_idle", "s_trigd", "s_busy"} /\ which_bram_s' \in Bank
      /\ irq_o' \in BOOLEAN /\ missed_trigs' \in 0 .. MISSED_MOD - 1
  <2>1. CASE ResetBranch
    BY <2>1, Banks DEF ResetBranch
  <2>2. CASE s_idle(in)
    BY <2>2, <1>6, Banks DEF s_idle
  <2>3. CASE s_trigd
    BY <2>3 DEF s_trigd
  <2>4. CASE s_busy(in)
    BY <2>4, <1>6 DEF s_busy
  <2> QED
    BY <1>1, <2>1, <2>2, <2>3, <2>4 DEF clk0
<1>8. latched' \in BOOLEAN /\ owed' \in Int
  BY <1>1
<1>9. resets' \in Nat
  BY <1>1 DEF clk0, SampleInputs
<1> QED
  BY <1>1, <1>3, <1>4, <1>5, <1>7, <1>8, <1>9

(* And so does a step of the daemon or of its interrupt device.            *)
LEMMA TypeStepPS ==
  ASSUME TypeOK, UNCHANGED pl_vars, slot' = FALSE,
         \/ Loop(which_bram_s) /\ UNCHANGED orphaned
              /\ owed' = IF rd_busy /\ ~rd_busy' THEN owed - 1 ELSE owed
         \/ Open /\ UNCHANGED <<owed, orphaned>>
         \/ Exit /\ orphaned' \in BOOLEAN /\ UNCHANGED owed
         \/ Deliver /\ orphaned' \in BOOLEAN /\ UNCHANGED owed
  PROVE  TypeOK'
<1> USE DEF TypeOK
<1>1. UNCHANGED <<regs, sampled, bram, resets>>
  BY DEF pl_vars
<1>2. /\ rd_busy' \in BOOLEAN /\ {latched, masked, event}' \subseteq BOOLEAN
      /\ pc' \in {"closed", "unmask", "wait", "raise", "select", "read"}
      /\ which_bram' \in Bank /\ i' \in 0 .. READS
  <2>1. CASE Loop(which_bram_s)
    <3>1. CASE Unmask \/ Wait \/ RaiseBusy
      BY <3>1 DEF Unmask, Wait, RaiseBusy, uio
    <3>2. CASE Select(which_bram_s)
      BY <3>2, DaemonAssumption DEF Select, uio
    <3>3. CASE ReadWord
      BY <3>3, DaemonAssumption DEF ReadWord, uio
    <3>4. CASE LowerBusy
      BY <3>4 DEF LowerBusy, uio
    <3> QED
      BY <2>1, <3>1, <3>2, <3>3, <3>4 DEF Loop
  <2>2. CASE Open \/ Exit \/ Deliver
    BY <2>2 DEF Open, Exit, Deliver, uio
  <2> QED
    BY <2>1, <2>2
<1>3. orphaned' \in BOOLEAN /\ slot' \in BOOLEAN /\ owed' \in Int
  <2>1. orphaned \in BOOLEAN /\ owed \in Int /\ owed - 1 \in Int
    OBVIOUS
  <2> HIDE DEF TypeOK
  <2>2. orphaned' \in BOOLEAN /\ slot' \in BOOLEAN
    BY <2>1
  <2>3. owed' = owed \/ owed' = owed - 1
    OBVIOUS
  <2> QED
    BY <2>1, <2>2, <2>3
<1>4. /\ state' = state /\ which_bram_s' = which_bram_s /\ irq_o' = irq_o
      /\ we' = we /\ en' = en /\ addr' = addr /\ wrdata' = wrdata
      /\ missed_trigs' = missed_trigs /\ bram' = bram
      /\ busy_last' = busy_last /\ trig_last' = trig_last
      /\ tdc64ch_valid_s_last' = tdc64ch_valid_s_last /\ reset_s' = reset_s
      /\ resets' = resets
  BY <1>1 DEF regs, sampled
<1> QED
  BY <1>2, <1>3, <1>4

(* Every register, wire and device stays in its range.                     *)
THEOREM TypeCorrect == Spec => []TypeOK
<1>1. Init => TypeOK
  <2>1. 0 \in 0 .. MISSED_MOD - 1 /\ 0 \in 0 .. READS
    BY BramAssumption, DaemonAssumption
  <2>2. Init => bram \in [Bank -> [0 .. BRAM_WORDS - 1 -> Nat]]
    BY DEF Init, PL_Init
  <2>3. Init => /\ we \in [Bank -> BOOLEAN] /\ en \in [Bank -> BOOLEAN]
                /\ addr \in [Bank -> Nat] /\ wrdata \in [Bank -> Nat]
    BY DEF Init, PL_Init
  <2>4. Init => which_bram_s \in Bank /\ which_bram \in Bank
    BY Banks DEF Init, PL_Init, PS_Init
  <2> SUFFICES ASSUME Init PROVE TypeOK
    OBVIOUS
  <2>5. {busy_last, trig_last, tdc64ch_valid_s_last, reset_s, irq_o, rd_busy,
         latched, masked, event, slot, orphaned} \subseteq BOOLEAN
    BY DEF Init, PL_Init, PS_Init
  <2>6. /\ state = "s_idle" /\ missed_trigs = 0 /\ pc = "closed" /\ i = 0
        /\ owed = 0 /\ resets = 0
    BY DEF Init, PL_Init, PS_Init
  <2> QED
    BY <2>1, <2>2, <2>3, <2>4, <2>5, <2>6 DEF TypeOK
<1>2. TypeOK /\ [Next]_vars => TypeOK'
  <2> SUFFICES ASSUME TypeOK, [Next]_vars PROVE TypeOK'
    OBVIOUS
  <2>1. CASE PL
    BY <2>1, TypeStepPL
  <2>2. CASE DaemonLoop
    BY <2>2, TypeStepPS DEF DaemonLoop, PS
  <2>3. CASE DaemonOpen
    BY <2>3, TypeStepPS DEF DaemonOpen, PS
  <2>4. CASE DaemonExit
    <3>1. (orphaned \/ event \/ pc # "unmask") \in BOOLEAN
      OBVIOUS
    <3> QED
      BY <2>4, <3>1, TypeStepPS DEF DaemonExit, PS
  <2>5. CASE Interrupt
    <3>1. (orphaned \/ pc = "closed") \in BOOLEAN
      OBVIOUS
    <3> QED
      BY <2>5, <3>1, TypeStepPS DEF Interrupt, PS
  <2>6. CASE UNCHANGED vars
    BY <2>6 DEF vars, pl_vars, ps_vars, regs, sampled, TypeOK
  <2> QED
    BY <2>1, <2>2, <2>3, <2>4, <2>5, <2>6 DEF Next
<1> QED
  BY <1>1, <1>2, PTL DEF Spec
-----------------------------------------------------------------------------
(* The handshake is inductive: an edge of clk0 without a reset.            *)
LEMMA HandshakeStepPL ==
  ASSUME TypeOK, Handshake, PL
  PROVE  Handshake'
<1> SUFFICES ASSUME resets' = 0
             PROVE  Handshake'
  BY DEF Handshake
<1>1. PICK in \in PL_Inputs :
        /\ in.rd_busy = rd_busy
        /\ clk0(in)
        /\ latched' = (latched \/ (irq_o' /\ ~irq_o))
        /\ slot' = TRUE
        /\ owed' = IF ~reset_s /\ switching(in) THEN owed + 1 ELSE owed
        /\ UNCHANGED <<pc, rd_busy, which_bram, i, masked, event, exits, orphaned>>
  BY PLStep DEF TypeOK
<1>2. resets = 0 /\ ~reset_s' /\ busy_last' = rd_busy
  <2>1. resets \in Nat /\ SampleInputs(in)
    BY <1>1 DEF TypeOK, clk0
  <2> QED
    BY <1>1, <2>1 DEF SampleInputs
<1>3. ~reset_s
  BY <1>2 DEF Handshake
<1>4. s_idle(in) \/ s_trigd \/ s_busy(in)
  BY <1>1, <1>3 DEF clk0, ResetBranch
<1>5. CASE s_idle(in)
  <2>1. /\ state = "s_idle" /\ ~latched /\ ~event /\ ~Serving /\ ~rd_busy
        /\ ~busy_last /\ ~irq_o /\ owed = 0
    BY <1>2, <1>5 DEF Handshake, Unasked, s_idle
  <2>2. ~irq_o' /\ ~latched' /\ ~event' /\ ~Serving' /\ ~rd_busy' /\ ~busy_last'
    BY <1>1, <1>2, <1>5, <2>1 DEF s_idle, Serving
  <2>3. pc' \notin {"raise", "select", "read"}
    BY <2>2 DEF Serving
  <2>4. CASE switching(in)
    <3>1. state' = "s_trigd" /\ owed' = 1
      BY <1>1, <1>3, <1>5, <2>1, <2>4 DEF s_idle, switching
    <3> QED
      BY <1>2, <2>2, <2>3, <3>1 DEF Handshake, Unasked
  <2>5. CASE ~switching(in)
    <3>1. state' = "s_idle" /\ owed' = 0
      BY <1>1, <1>5, <2>1, <2>5 DEF s_idle
    <3> QED
      BY <1>2, <2>2, <2>3, <3>1 DEF Handshake, Unasked
  <2> QED
    BY <2>4, <2>5
<1>6. CASE s_trigd
  <2>1. /\ state = "s_trigd" /\ owed = 1 /\ owed' = 1
        /\ irq_o' = ~busy_last /\ which_bram_s' = which_bram_s
        /\ state' = IF busy_last THEN "s_busy" ELSE "s_trigd"
    BY <1>1, <1>2, <1>6 DEF Handshake, s_trigd, switching
  <2>2. /\ ~irq_o => Unasked
        /\ busy_last => rd_busy
        /\ latched => ~event
        /\ (latched \/ event) => (~Serving /\ ~rd_busy)
        /\ pc = "raise" => ~rd_busy
        /\ pc \in {"select", "read"} => rd_busy
        /\ (pc = "select" /\ slot) => busy_last
        /\ pc = "read" => (busy_last /\ ~slot)
        /\ pc = "read" => which_bram = which_bram_s
    BY <1>2, <2>1 DEF Handshake
  <2>3. /\ pc' = pc /\ rd_busy' = rd_busy /\ event' = event
        /\ which_bram' = which_bram /\ Serving' = Serving /\ slot' = TRUE
    BY <1>1 DEF Serving
  <2>4. CASE busy_last
    <3>1. state' = "s_busy" /\ ~irq_o' /\ rd_busy /\ ~latched /\ ~event /\ pc # "raise"
      BY <2>1, <2>2, <2>4
    <3>2. ~latched' /\ busy_last'
      BY <1>1, <1>2, <3>1
    <3> QED
      BY <1>2, <2>1, <2>2, <2>3, <3>1, <3>2 DEF Handshake
  <2>5. CASE ~busy_last
    <3>1. state' = "s_trigd" /\ irq_o' /\ pc # "read"
      BY <2>1, <2>2, <2>5
    <3>2. (latched' /\ ~latched) => Unasked
      BY <1>1, <2>2
    <3>3. latched' => (~event' /\ ~Serving' /\ ~rd_busy')
      <4>1. latched => (~event /\ ~Serving /\ ~rd_busy)
        BY <2>2
      <4> QED
        BY <3>2, <4>1, <2>3 DEF Unasked
    <3>4. (pc' = "select" /\ slot') => busy_last'
      BY <1>2, <2>2, <2>3
    <3> QED
      BY <1>2, <2>1, <2>2, <2>3, <3>1, <3>3, <3>4 DEF Handshake
  <2> QED
    BY <2>4, <2>5
<1>7. CASE s_busy(in)
  <2>1. /\ state = "s_busy" /\ irq_o' = irq_o /\ owed' = owed
        /\ which_bram_s' = which_bram_s
        /\ state' = IF busy_last THEN "s_busy" ELSE "s_idle"
    BY <1>1, <1>7 DEF s_busy, switching
  <2>2. /\ ~irq_o /\ ~latched /\ ~event /\ pc # "raise"
        /\ rd_busy => (owed = 1 /\ busy_last)
        /\ ~rd_busy => (owed = 0 /\ ~Serving)
        /\ pc = "read" => which_bram = which_bram_s
    BY <1>2, <2>1 DEF Handshake
  <2>3. /\ pc' = pc /\ rd_busy' = rd_busy /\ event' = event /\ Serving' = Serving
        /\ which_bram' = which_bram /\ ~latched' /\ ~irq_o'
    <3>1. ~irq_o' /\ ~latched'
      BY <1>1, <2>1, <2>2
    <3> QED
      BY <1>1, <3>1 DEF Serving
  <2>4. CASE busy_last
    BY <1>2, <2>1, <2>2, <2>3, <2>4 DEF Handshake
  <2>5. CASE ~busy_last
    <3>1. ~rd_busy /\ ~Serving /\ owed = 0
      BY <2>2, <2>5
    <3>2. Unasked'
      BY <1>2, <2>2, <2>3, <3>1 DEF Unasked
    <3> QED
      BY <1>2, <2>1, <2>2, <2>3, <2>5, <3>1, <3>2 DEF Handshake
  <2> QED
    BY <2>4, <2>5
<1> QED
  BY <1>4, <1>5, <1>6, <1>7

(* And a step of the PS.                                                   *)
LEMMA HandshakeStepPS ==
  ASSUME TypeOK, Handshake, PS(TRUE), UNCHANGED pl_vars,
         \/ Loop(which_bram_s)
              /\ owed' = IF rd_busy /\ ~rd_busy' THEN owed - 1 ELSE owed
         \/ Open /\ UNCHANGED owed
         \/ Exit /\ UNCHANGED owed
         \/ Deliver /\ UNCHANGED owed
  PROVE  Handshake'
<1> SUFFICES ASSUME resets = 0
             PROVE  Handshake'
  BY DEF Handshake, pl_vars
<1>1. /\ slot /\ ~slot' /\ state' = state /\ irq_o' = irq_o /\ busy_last' = busy_last
      /\ reset_s' = reset_s /\ which_bram_s' = which_bram_s /\ resets' = resets
  BY DEF PS, pl_vars, regs, sampled
<1>2. ~reset_s' /\ state \in {"s_idle", "s_trigd", "s_busy"}
  BY <1>1 DEF Handshake, TypeOK
<1>3. CASE state = "s_idle"
  <2>1. ~irq_o /\ Unasked /\ owed = 0
    BY <1>3 DEF Handshake
  <2>2. Unasked' /\ owed' = 0
    <3>1. ~latched' /\ ~event'
      BY <2>1 DEF Unasked, Loop, Unmask, Wait, RaiseBusy, Select, ReadWord,
                  LowerBusy, Open, Exit, Deliver, uio, Serving
    <3>2. ~rd_busy'
      BY <2>1 DEF Unasked, Loop, Unmask, Wait, RaiseBusy, Select, ReadWord,
                  LowerBusy, Open, Exit, Deliver, uio, Serving
    <3>3. ~Serving'
      BY <2>1 DEF Unasked, Loop, Unmask, Wait, RaiseBusy, Select, ReadWord,
                  LowerBusy, Open, Exit, Deliver, uio, Serving
    <3>4. owed' = 0
      BY <2>1, <3>2 DEF Unasked
    <3> QED
      BY <1>1, <2>1, <3>1, <3>2, <3>3, <3>4 DEF Unasked
  <2> QED
    BY <1>1, <1>2, <1>3, <2>1, <2>2 DEF Handshake, Unasked, Serving
<1>4. CASE state = "s_trigd"
  <2>1. /\ owed = 1
        /\ ~irq_o => Unasked
        /\ busy_last => rd_busy
        /\ latched => ~event
        /\ (latched \/ event) => (~Serving /\ ~rd_busy)
        /\ pc = "raise" => ~rd_busy
        /\ pc \in {"select", "read"} => rd_busy
        /\ (pc = "select" /\ slot) => busy_last
        /\ pc # "read"
    BY <1>1, <1>4 DEF Handshake
  <2> DEFINE After ==
        /\ owed = 1
        /\ ~irq_o => Unasked
        /\ busy_last => rd_busy
        /\ latched => ~event
        /\ (latched \/ event) => (~Serving /\ ~rd_busy)
        /\ pc = "raise" => ~rd_busy
        /\ pc \in {"select", "read"} => rd_busy
        /\ pc = "read" => busy_last /\ which_bram = which_bram_s
  <2>2. After'
    <3>1. CASE Unmask \/ Open
      BY <1>1, <2>1, <3>1 DEF Unmask, Open, uio, Unasked, Serving
    <3>2. CASE Wait
      BY <1>1, <2>1, <3>2 DEF Wait, uio, Unasked, Serving
    <3>3. CASE RaiseBusy
      BY <1>1, <2>1, <3>3 DEF RaiseBusy, uio, Unasked, Serving
    <3>4. CASE Select(which_bram_s)
      BY <1>1, <2>1, <3>4 DEF Select, uio, Unasked, Serving
    <3>5. CASE Exit \/ Deliver
      BY <1>1, <2>1, <3>5 DEF Exit, Deliver, uio, Unasked, Serving
    <3> QED
      BY <2>1, <3>1, <3>2, <3>3, <3>4, <3>5 DEF Loop, ReadWord, LowerBusy
  <2> QED
    BY <1>1, <1>2, <1>4, <2>2 DEF Handshake
<1>5. CASE state = "s_busy"
  <2>1. /\ ~irq_o /\ ~latched /\ ~event /\ pc # "raise"
        /\ rd_busy => (owed = 1 /\ busy_last)
        /\ ~rd_busy => (owed = 0 /\ ~Serving)
        /\ pc = "read" => which_bram = which_bram_s
    BY <1>5 DEF Handshake
  <2> DEFINE After ==
        /\ ~irq_o /\ ~latched /\ ~event /\ pc # "raise"
        /\ rd_busy => (owed = 1 /\ busy_last)
        /\ ~rd_busy => (owed = 0 /\ ~Serving)
        /\ pc = "read" => which_bram = which_bram_s
  <2>2. After'
    <3>1. CASE Unmask \/ Wait \/ RaiseBusy \/ ReadWord
      BY <1>1, <2>1, <3>1 DEF Unmask, Wait, RaiseBusy, ReadWord, uio, Serving
    <3>2. CASE Select(which_bram_s)
      BY <1>1, <2>1, <3>2 DEF Select, uio, Serving
    <3>3. CASE LowerBusy
      <4>1. pc = "read" /\ pc' = "unmask" /\ ~rd_busy' /\ UNCHANGED uio
        BY <3>3 DEF LowerBusy
      <4>2. rd_busy /\ owed = 1
        BY <2>1, <4>1 DEF Serving
      <4>3. ~Open /\ ~Exit /\ ~Deliver
        BY <4>1 DEF Open, Exit, Deliver
      <4>4. owed' = 0
        BY <4>1, <4>2, <4>3
      <4> QED
        BY <1>1, <2>1, <4>1, <4>4 DEF uio, Serving
    <3>4. CASE Open \/ Exit \/ Deliver
      BY <1>1, <2>1, <3>4 DEF Open, Exit, Deliver, uio, Serving
    <3> QED
      BY <3>1, <3>2, <3>3, <3>4 DEF Loop
  <2> QED
    BY <1>1, <1>2, <1>5, <2>2 DEF Handshake
<1> QED
  BY <1>2, <1>3, <1>4, <1>5

(* The handshake holds in every reachable state.                           *)
LEMMA HandshakeHolds == Spec => []Handshake
<1>1. Init => Handshake
  BY DEF Init, PL_Init, PS_Init, Handshake, Unasked, Serving
<1>2. TypeOK /\ Handshake /\ [Next]_vars => Handshake'
  <2> SUFFICES ASSUME TypeOK, Handshake, [Next]_vars PROVE Handshake'
    OBVIOUS
  <2>1. CASE PL
    BY <2>1, HandshakeStepPL
  <2>2. CASE DaemonLoop
    BY <2>2, HandshakeStepPS DEF DaemonLoop, PS
  <2>3. CASE DaemonOpen
    BY <2>3, HandshakeStepPS DEF DaemonOpen, PS
  <2>4. CASE DaemonExit
    BY <2>4, HandshakeStepPS DEF DaemonExit, PS
  <2>5. CASE Interrupt
    BY <2>5, HandshakeStepPS DEF Interrupt, PS
  <2>6. CASE UNCHANGED vars
    BY <2>6 DEF vars, pl_vars, ps_vars, regs, sampled, Handshake, Unasked, Serving
  <2> QED
    BY <2>1, <2>2, <2>3, <2>4, <2>5, <2>6 DEF Next
<1> QED
  BY <1>1, <1>2, TypeCorrect, PTL DEF Spec

(* The PL never switches banks under a reader (TDC_64ch_2BRAM.vhd 382-395, *)
(* daemon.c 138-204).                                                      *)
THEOREM NoSwitchUnderReader == Spec => []SelectionHolds
<1>1. TypeOK /\ Handshake => SelectionHolds
  BY DEF TypeOK, Handshake, SelectionHolds, Unasked, Serving
<1> QED
  BY <1>1, TypeCorrect, HandshakeHolds, PTL

(* Every finished readout answers a trigger of its own, and no trigger is  *)
(* accepted before the last one was read out (TDC_64ch_2BRAM.vhd 376-427,  *)
(* daemon.c 117-216).                                                      *)
THEOREM ReadoutsAnswerTriggers == Spec => []OneReadoutPerTrigger
<1>1. TypeOK /\ Handshake => OneReadoutPerTrigger
  <2> SUFFICES ASSUME TypeOK, Handshake, resets = 0 PROVE owed \in {0, 1}
    BY DEF OneReadoutPerTrigger
  <2> QED
    BY DEF TypeOK, Handshake
<1> QED
  BY <1>1, TypeCorrect, HandshakeHolds, PTL
-----------------------------------------------------------------------------
(* The banks stay apart at an edge of clk0, resets included.               *)
LEMMA BanksStepPL ==
  ASSUME TypeOK, BanksApart, PL
  PROVE  BanksApart'
<1>1. PICK in \in PL_Inputs : clk0(in)
  BY PLStep DEF TypeOK
<1>2. /\ which_bram_s \in Bank /\ we \in [Bank -> BOOLEAN] /\ addr \in [Bank -> Nat]
      /\ busy_last \in BOOLEAN
  BY DEF TypeOK
<1> DEFINE b == other(which_bram_s)
<1>3. /\ b \in Bank /\ b # which_bram_s /\ other(b) = which_bram_s
      /\ state = "s_idle" => addr[b] = 0
      /\ we[b] => (state = "s_trigd" /\ ~irq_o /\ ~busy_last)
  BY <1>2, Banks DEF BanksApart, FreshBank
<1>4. CASE ResetBranch
  <2>1. /\ which_bram_s' \in Bank
        /\ \A c \in Bank : we'[c] = FALSE /\ addr'[c] = 0
    BY <1>4, Banks DEF ResetBranch
  <2>2. other(which_bram_s)' \in Bank
    BY <2>1, Banks
  <2> QED
    BY <2>1, <2>2 DEF BanksApart, FreshBank
<1>5. CASE ~reset_s /\ WriteSide(in) /\ (s_idle(in) \/ s_trigd \/ s_busy(in))
  <2>1. /\ we'[b] = FALSE
        /\ addr'[b] = IF released THEN 0 ELSE addr[b]
    BY <1>3, <1>5 DEF WriteSide
  <2>2. CASE s_idle(in) /\ switching(in)
    <3>1. state' = "s_trigd" /\ ~irq_o' /\ which_bram_s' = b
      BY <1>3, <2>2 DEF s_idle, switching
    <3>2. ~busy_last'
      BY <1>1, <2>2 DEF clk0, SampleInputs, switching
    <3> QED
      BY <3>1, <3>2 DEF BanksApart, FreshBank
  <2>3. CASE s_idle(in) /\ ~switching(in)
    <3>1. state' = "s_idle" /\ which_bram_s' = which_bram_s /\ ~released
      BY <2>3 DEF s_idle, released
    <3> QED
      BY <1>3, <2>1, <2>3, <3>1 DEF s_idle, BanksApart, FreshBank
  <2>4. CASE s_trigd
    <3>1. state' # "s_idle" /\ which_bram_s' = which_bram_s
      BY <2>4 DEF s_trigd
    <3> QED
      BY <2>1, <3>1 DEF BanksApart, FreshBank
  <2>5. CASE s_busy(in)
    <3>1. /\ which_bram_s' = which_bram_s
          /\ state' = "s_idle" => released
      BY <2>5 DEF s_busy, released
    <3> QED
      BY <2>1, <3>1 DEF BanksApart, FreshBank
  <2> QED
    BY <1>5, <2>2, <2>3, <2>4, <2>5
<1> QED
  BY <1>1, <1>4, <1>5 DEF clk0

(* The banks stay apart in every reachable state.                          *)
LEMMA BanksHold == Spec => []BanksApart
<1>1. Init => BanksApart
  <2> SUFFICES ASSUME Init PROVE BanksApart
    OBVIOUS
  <2>1. /\ other(which_bram_s) \in Bank
        /\ we = [b \in Bank |-> FALSE] /\ addr = [b \in Bank |-> 0]
    BY Banks DEF Init, PL_Init
  <2> QED
    BY <2>1 DEF BanksApart, FreshBank
<1>2. TypeOK /\ BanksApart /\ [Next]_vars => BanksApart'
  <2> SUFFICES ASSUME TypeOK, BanksApart, [Next]_vars PROVE BanksApart'
    OBVIOUS
  <2>1. CASE PL
    BY <2>1, BanksStepPL
  <2>2. CASE UNCHANGED pl_vars
    BY <2>2 DEF pl_vars, regs, sampled, BanksApart, FreshBank
  <2>3. PL \/ UNCHANGED pl_vars
    BY DEF Next, vars, DaemonLoop, DaemonOpen, DaemonExit, Interrupt, PS
  <2> QED
    BY <2>1, <2>2, <2>3
<1> QED
  BY <1>1, <1>2, TypeCorrect, PTL DEF Spec

(* The bank a trigger will switch to starts at address 0, also after resets*)
(* (TDC_64ch_2BRAM.vhd 319-333, 411-422).                                  *)
THEOREM SwitchesToFreshBank == Spec => []FreshBank
<1>1. BanksApart => FreshBank
  BY DEF BanksApart
<1> QED
  BY <1>1, BanksHold, PTL

(* No write reaches a bank from its interrupt to the end of its readout    *)
(* (TDC_64ch_2BRAM.vhd 335-361, 401-406).                                  *)
THEOREM HandedBankUntouched == Spec => []HandedBankQuiet
<1>1. TypeOK /\ BanksApart => HandedBankQuiet
  BY DEF TypeOK, BanksApart, HandedBankQuiet, HandedOver
<1> QED
  BY <1>1, TypeCorrect, BanksHold, PTL
-----------------------------------------------------------------------------
(* Two words less than a bank apart have different addresses in it.        *)
LEMMA ModApart ==
  ASSUME NEW m \in Nat \ {0}, NEW a \in Nat, NEW k \in Nat, k < a, a - k < m
  PROVE  a % m # k % m
<1>1. /\ a = (m * (a \div m)) + (a % m) /\ k = (m * (k \div m)) + (k % m)
      /\ a \div m \in Int /\ k \div m \in Int /\ a % m \in Int /\ k % m \in Int
  OBVIOUS
<1> DEFINE d == (a \div m) - (k \div m)
<1>2. SUFFICES ASSUME a % m = k % m
               PROVE  FALSE
  OBVIOUS
<1>3. a - k = m * d /\ d \in Int
  BY <1>1, <1>2
<1> HIDE DEF d
<1>4. CASE d <= 0
  <2>1. m * d <= 0
    BY <1>3, <1>4
  <2> QED
    BY <1>3, <2>1
<1>5. CASE d >= 1
  <2>1. m * d >= m
    BY <1>3, <1>5
  <2> QED
    BY <1>3, <2>1
<1> QED
  BY <1>3, <1>4, <1>5

(* What bank b has of its turn: every word the address has counted, but    *)
(* the last while the write port still holds it, and those a wrap of the   *)
(* address has overwritten.                                                *)
TurnKept(b) ==
  /\ we[b] => en[b] /\ wrdata[b] = addr[b]
  /\ \A k \in 1 .. addr[b] :
       addr[b] - k < BRAM_WORDS => \/ bram[b][k % BRAM_WORDS] = k
                                   \/ we[b] /\ k = addr[b]

TurnsKept == \A b \in Bank : TurnKept(b)

(* The write port's word goes where it belongs and over no other that      *)
(* counts.                                                                 *)
LEMMA WordLands ==
  ASSUME TypeOK, NEW b \in Bank, TurnKept(b), BramPort
  PROVE  \A k \in 1 .. addr[b] :
           addr[b] - k < BRAM_WORDS => bram'[b][k % BRAM_WORDS] = k
<1> DEFINE a == addr[b]
<1>1. /\ a \in Nat /\ BRAM_WORDS \in Nat \ {0} /\ we[b] \in BOOLEAN
      /\ bram[b] \in [0 .. BRAM_WORDS - 1 -> Nat]
  BY BramAssumption DEF TypeOK
<1>2. SUFFICES ASSUME NEW k \in 1 .. a, a - k < BRAM_WORDS
               PROVE  bram'[b][k % BRAM_WORDS] = k
  OBVIOUS
<1>3. bram'[b] = IF en[b] /\ we[b] THEN [bram[b] EXCEPT ![a % BRAM_WORDS] = wrdata[b]]
                                   ELSE bram[b]
  BY DEF BramPort
<1>4. bram[b][k % BRAM_WORDS] = k \/ (we[b] /\ k = a)
  BY <1>2 DEF TurnKept
<1>5. k \in Nat /\ k <= a /\ k % BRAM_WORDS \in 0 .. BRAM_WORDS - 1
  BY <1>1, ModRange
<1>6. CASE ~we[b]
  BY <1>3, <1>4, <1>6
<1>7. CASE we[b]
  <2>1. bram'[b] = [bram[b] EXCEPT ![a % BRAM_WORDS] = a]
    BY <1>3, <1>7 DEF TurnKept
  <2>2. CASE k = a
    BY <1>1, <1>5, <2>1, <2>2
  <2>3. CASE k # a
    <3>1. a % BRAM_WORDS # k % BRAM_WORDS
      BY <1>1, <1>2, <1>5, <2>3, ModApart
    <3> QED
      BY <1>1, <1>4, <1>5, <2>1, <2>3, <3>1
  <2> QED
    BY <2>2, <2>3
<1> QED
  BY <1>1, <1>6, <1>7

(* An edge of clk0 keeps the turns, resets and switches included.          *)
LEMMA TurnsStepPL ==
  ASSUME TypeOK, TurnsKept, PL
  PROVE  TurnsKept'
<1>1. PICK in \in PL_Inputs : clk0(in)
  BY PLStep DEF TypeOK
<1> SUFFICES ASSUME NEW b \in Bank
             PROVE  TurnKept(b)'
  BY DEF TurnsKept
<1>2. \A k \in 1 .. addr[b] : addr[b] - k < BRAM_WORDS => bram'[b][k % BRAM_WORDS] = k
  BY <1>1, WordLands DEF TurnsKept, clk0
<1>3. addr[b] \in Nat /\ BRAM_WORDS \in Nat \ {0}
  BY BramAssumption DEF TypeOK
<1>4. CASE ResetBranch
  <2>1. addr'[b] = 0 /\ we'[b] = FALSE
    BY <1>4 DEF ResetBranch
  <2> QED
    BY <2>1 DEF TurnKept
<1>5. CASE WriteSide(in)
  <2>1. CASE b = which_bram_s /\ new_word(in)
    <3>1. we'[b] = TRUE /\ en'[b] = TRUE /\ wrdata'[b] = addr[b] + 1 /\ addr'[b] = addr[b] + 1
      BY <1>5, <2>1 DEF WriteSide
    <3>2. ASSUME NEW k \in 1 .. addr[b] + 1, addr[b] + 1 - k < BRAM_WORDS, k # addr[b] + 1
          PROVE  bram'[b][k % BRAM_WORDS] = k
      <4>1. k \in 1 .. addr[b] /\ addr[b] - k < BRAM_WORDS
        BY <1>3, <3>2
      <4> QED
        BY <1>2, <4>1
    <3>3. \A k \in 1 .. addr'[b] :
            addr'[b] - k < BRAM_WORDS => \/ bram'[b][k % BRAM_WORDS] = k
                                         \/ we'[b] /\ k = addr'[b]
      BY <1>3, <3>1, <3>2
    <3>4. we'[b] => en'[b] /\ wrdata'[b] = addr'[b]
      BY <3>1
    <3> QED
      BY <3>3, <3>4, Zenon DEF TurnKept
  <2>2. CASE ~(b = which_bram_s /\ new_word(in))
    <3>1. we'[b] = FALSE /\ (addr'[b] = addr[b] \/ addr'[b] = 0)
      BY <1>5, <2>2 DEF WriteSide
    <3> QED
      BY <1>2, <3>1 DEF TurnKept
  <2> QED
    BY <2>1, <2>2
<1> QED
  BY <1>1, <1>4, <1>5 DEF clk0

(* The turns are kept in every reachable state.                            *)
LEMMA TurnsHold == Spec => []TurnsKept
<1>1. Init => TurnsKept
  BY DEF Init, PL_Init, TurnsKept, TurnKept
<1>2. TypeOK /\ TurnsKept /\ [Next]_vars => TurnsKept'
  <2> SUFFICES ASSUME TypeOK, TurnsKept, [Next]_vars PROVE TurnsKept'
    OBVIOUS
  <2>1. CASE PL
    BY <2>1, TurnsStepPL
  <2>2. CASE UNCHANGED pl_vars
    BY <2>2 DEF pl_vars, regs, sampled, TurnsKept, TurnKept
  <2>3. PL \/ UNCHANGED pl_vars
    BY DEF Next, vars, DaemonLoop, DaemonOpen, DaemonExit, Interrupt, PS
  <2> QED
    BY <2>1, <2>2, <2>3
<1> QED
  BY <1>1, <1>2, TypeCorrect, PTL DEF Spec

(* The bank handed over holds every word of its turn that no wrap of the   *)
(* address has overwritten, each at its own address, also after resets     *)
(* (TDC_64ch_2BRAM.vhd 335-373, 401-406, 433-434).                         *)
THEOREM HandedBankKeepsWords == Spec => []HandedBankHoldsWords
<1>1. TypeOK /\ BanksApart /\ TurnsKept => HandedBankHoldsWords
  <2> SUFFICES ASSUME TypeOK, BanksApart, TurnsKept
               PROVE  HandedBankHoldsWords
    OBVIOUS
  <2> DEFINE b == other(which_bram_s)
  <2>1. b \in Bank
    BY Banks DEF TypeOK
  <2>2. HandedOver => ~we[b]
    BY DEF BanksApart, HandedOver
  <2>3. TurnKept(b)
    BY <2>1 DEF TurnsKept
  <2> QED
    BY <2>2, <2>3 DEF TurnKept, HandedBankHoldsWords
<1> QED
  BY <1>1, TypeCorrect, BanksHold, TurnsHold, PTL
=============================================================================

------------------------- MODULE TDC_channelProofs -------------------------
(***************************************************************************)
(* For every duration, width of the counters, pulse and reset: a channel   *)
(* drives a word for one clk0 edge and zeros otherwise, which is what the  *)
(* buffers of TDC_4ch are specified with; its registers stay in their      *)
(* ranges; and its fine count is locked to clk_RF from eight clk0 edges on.*)
(***************************************************************************)
EXTENDS TDC_channel, SequenceTheorems, TLAPS

(* The output is the idle one except after DONE, and IDLE takes it back.   *)
OutputInv ==
  /\ valid_o \in BOOLEAN
  /\ valid_o => enc_state = "IDLE"
  /\ ~valid_o => timestamp_o = AllZeros

(* One edge of the encoder's state machine.                                *)
LEMMA FsmStep ==
  ASSUME OutputInv, NEW reset_i,
         IF reset_i THEN FsmReset ELSE IDLE \/ READY \/ DONE
  PROVE  OutputInv' /\ (valid_o => ~valid_o')
<1>1. CASE FsmReset
  BY <1>1 DEF FsmReset, OutputInv
<1>2. CASE IDLE
  BY <1>2 DEF IDLE, OutputInv
<1>3. CASE READY
  BY <1>3 DEF READY, OutputInv
<1>4. CASE DONE
  BY <1>4 DEF DONE, OutputInv
<1> QED
  BY <1>1, <1>2, <1>3, <1>4

(* A tick is an edge of the encoder or leaves its output alone.            *)
LEMMA TickStep ==
  ASSUME OutputInv, [Next]_vars
  PROVE  OutputInv' /\ (clk0_rises /\ valid_o /\ tick => ~valid_o')
<1>1. CASE tick /\ clk0_rises
  <2>1. IF reset THEN FsmReset ELSE IDLE \/ READY \/ DONE
    BY <1>1 DEF tick, encoder_clk_0
  <2> QED
    BY <2>1, FsmStep
<1>2. CASE tick /\ ~clk0_rises
  BY <1>2 DEF tick, encoder_vars, OutputInv
<1>3. CASE UNCHANGED vars /\ ~tick
  BY <1>3 DEF vars, encoder_vars, OutputInv
<1> QED
  BY <1>1, <1>2, <1>3 DEF Next

(* A word is on the output for one clk0 edge, and zeros otherwise          *)
(* (encoder.vhd 105-109, 126-132).                                         *)
THEOREM WordsLastOneEdge == Spec => OneEdgeWords
<1>1. Init => OutputInv
  BY DEF Init, Encoder_Init, OutputInv
<1>2. OutputInv /\ [Next]_vars => OutputInv'
  BY TickStep
<1>3. OutputInv /\ [Next]_vars
        => [ /\ ~valid_o' => timestamp_o' = AllZeros
             /\ (clk0_rises /\ valid_o) => ~valid_o' ]_vars
  BY TickStep DEF Next, OutputInv
<1> QED
  BY <1>1, <1>2, <1>3, PTL DEF Spec, OneEdgeWords
-----------------------------------------------------------------------------
(* Types: what TypeOK says and the registers that feed those it names.     *)
Typed ==
  /\ TypeOK
  /\ true_fine_period \in 0 .. 3
  /\ coarse_s \in 0 .. COARSE_MOD - 1 /\ coarse_count \in 0 .. COARSE_MOD - 1

(* The bounds that the constants give.                                     *)
LEMMA ModRange == \A n \in Int, m \in Nat \ {0} : n % m \in 0 .. m - 1
  OBVIOUS

(* What is encoded fits the 32 intervals of a period of clk_RF.            *)
LEMMA EncodedRange ==
  ASSUME true_fine_period \in 0 .. 3
  PROVE  encoded \in 0 .. 31
<1> DEFINE js == {j \in 1 .. 7 : fine_last = [k \in Sample |-> k > j]}
<1>1. fine_in_period(fine_last) \in 0 .. 7
  <2>1. CASE js = {}
    BY <2>1 DEF fine_in_period
  <2>2. CASE js # {}
    <3>1. (CHOOSE j \in js : TRUE) \in js
      BY <2>2
    <3>2. fine_in_period(fine_last) = CHOOSE j \in js : TRUE
      BY <2>2 DEF fine_in_period
    <3> QED
      BY <3>1, <3>2
  <2> QED
    BY <2>1, <2>2
<1> QED
  BY <1>1 DEF encoded

(* An edge of the encoder keeps the types.                                 *)
LEMMA EncoderTyped ==
  ASSUME Typed, NEW coarse \in 0 .. COARSE_MOD - 1,
         encoder_clk_0(reset, register_cdc, clk0_count_store, coarse)
  PROVE  /\ enc_state' \in {"IDLE", "READY", "DONE"}
         /\ saturation_counter' \in 0 .. COUNTER_MOD - 1
         /\ encoded_fine_time' \in 0 .. 31
         /\ true_coarse_period' \in 0 .. COARSE_MOD - 1
         /\ true_fine_period' \in 0 .. 3 /\ coarse_s' \in 0 .. COARSE_MOD - 1
<1>1. COARSE_MOD \in Nat \ {0} /\ COUNTER_MOD \in Nat \ {0}
  BY EncoderAssumption
<1>2. true_fine_period' \in 0 .. 3 /\ coarse_s' \in 0 .. COARSE_MOD - 1
  BY DEF encoder_clk_0, p_shift, Typed, TypeOK
<1>3. encoded_fine_time' \in 0 .. 31
  BY EncodedRange DEF encoder_clk_0, p_encode, Typed, TypeOK
<1>4. true_coarse \in 0 .. COARSE_MOD - 1
  BY <1>1, ModRange DEF true_coarse, Typed
<1>5. true_coarse_period' \in 0 .. COARSE_MOD - 1
  BY <1>4 DEF encoder_clk_0, p_encode, Typed, TypeOK
<1>6. enc_state' \in {"IDLE", "READY", "DONE"}
  BY DEF encoder_clk_0, FsmReset, IDLE, READY, DONE, Typed, TypeOK
<1>7. saturation_counter' \in 0 .. COUNTER_MOD - 1
  <2>1. (saturation_counter + 1) % COUNTER_MOD \in 0 .. COUNTER_MOD - 1
    BY <1>1, ModRange DEF Typed, TypeOK
  <2> QED
    BY <1>1, <2>1 DEF encoder_clk_0, FsmReset, IDLE, READY, DONE, count_on, Typed, TypeOK
<1> QED
  BY <1>2, <1>3, <1>5, <1>6, <1>7

(* The registers stay in their ranges, for every width of the counters.    *)
THEOREM TypeCorrect == Spec => []TypeOK
<1>1. Init => Typed
  BY EncoderAssumption DEF Init, Sampler_Init, Encoder_Init, Typed, TypeOK
<1>2. Typed /\ [Next]_vars => Typed'
  <2> SUFFICES ASSUME Typed, [Next]_vars
               PROVE  Typed'
    OBVIOUS
  <2>1. CASE tick
    <3>1. clk0_count' \in 0 .. 3 /\ clk0_count_store' \in 0 .. 3
      BY <2>1 DEF tick, sampler_tick, p_fine_count, p_store_clk0, Typed, TypeOK
    <3>2. coarse_count' \in 0 .. COARSE_MOD - 1
      <4>1. COARSE_MOD \in Nat \ {0}
        BY EncoderAssumption
      <4>2. (coarse_count + 1) % COARSE_MOD \in 0 .. COARSE_MOD - 1
        BY <4>1, ModRange DEF Typed
      <4> QED
        BY <2>1, <4>1, <4>2 DEF tick, CoarseCounter, Typed
    <3>3. CASE clk0_rises
      <4> DEFINE coarse == seen_by_clk0(coarse_count, coarse_count')
      <4>1. encoder_clk_0(reset, register_cdc, clk0_count_store, coarse)
        BY <2>1, <3>3 DEF tick
      <4>2. coarse \in 0 .. COARSE_MOD - 1
        BY <3>2 DEF seen_by_clk0, Typed
      <4> HIDE DEF coarse
      <4>3. /\ enc_state' \in {"IDLE", "READY", "DONE"}
            /\ saturation_counter' \in 0 .. COUNTER_MOD - 1
            /\ encoded_fine_time' \in 0 .. 31
            /\ true_coarse_period' \in 0 .. COARSE_MOD - 1
            /\ true_fine_period' \in 0 .. 3 /\ coarse_s' \in 0 .. COARSE_MOD - 1
        BY <4>1, <4>2, EncoderTyped
      <4> QED
        BY <3>1, <3>2, <4>3 DEF Typed, TypeOK
    <3>4. CASE ~clk0_rises
      BY <2>1, <3>1, <3>2, <3>4 DEF tick, encoder_vars, Typed, TypeOK
    <3> QED
      BY <3>3, <3>4
  <2>2. CASE UNCHANGED vars
    BY <2>2 DEF vars, encoder_vars, sampler_vars, sample_vars, fine_count_vars, Typed, TypeOK
  <2> QED
    BY <2>1, <2>2 DEF Next
<1> QED
  BY <1>1, <1>2, PTL DEF Spec, Typed
-----------------------------------------------------------------------------
(* The quarter of the period of clk_RF in which the last clk0 edge fell, as *)
(* far as clk0 can know: with LATENCY.                                     *)
place == ((now - 1 - LATENCY) % 32) \div 8

(* What that edge read in the toggle.  It differs from what the toggle is  *)
(* now if the edge was shared and read it as it was before.                *)
seen == IF ~RF_first /\ place = 3 THEN ~toggle ELSE toggle

(* And what the edge j edges before that one read: it changes at place 0.  *)
Past(j) == seen <=> j <= place

(* The shift register holds what the last edges read, as far as there were *)
(* any; shift_lst what it held one edge before.                            *)
Shifted ==
  /\ RF_first \in BOOLEAN
  /\ now \in 0 .. 31 /\ toggle \in BOOLEAN /\ edges \in 0 .. StartUp
  /\ shift_reg \in Seq(BOOLEAN) /\ Len(shift_reg) = 4
  /\ shift_lst \in Seq(BOOLEAN) /\ Len(shift_lst) = 4
  /\ \A j \in 1 .. 4 : shift_reg[j] <=> edges >= j /\ Past(j - 1)
  /\ \A j \in 1 .. 4 : shift_lst[j] <=> edges >= j + 1 /\ Past(j)
  /\ startup_true \in BOOLEAN /\ (startup_true <=> edges > 0)

(* The count is right from the first place 0 on that comes after the       *)
(* fourth edge.                                                            *)
Counted ==
  /\ clk0_count \in 0 .. 3
  /\ edges - place >= 5 => clk0_count = place

(* The place moves on at a clk0 edge and at no other tick; what such an    *)
(* edge reads in the toggle changes at place 0.                            *)
LEMMA PlaceStep ==
  ASSUME Shifted, now' = (now + 1) % 32, RF_first' = RF_first, p_toggle
  PROVE  /\ place \in 0 .. 3 /\ now' \in 0 .. 31 /\ seen \in BOOLEAN
         /\ clk0_rises => /\ place' = (place + 1) % 4
                          /\ seen' = seen_by_clk0(toggle, toggle')
                          /\ seen' = IF place' = 0 THEN ~seen ELSE seen
         /\ ~clk0_rises => place' = place /\ toggle' = toggle
<1>1. now \in 0 .. 31 /\ RF_first \in BOOLEAN /\ toggle \in BOOLEAN /\ now' \in 0 .. 31
  BY DEF Shifted
<1>2. place \in 0 .. 3
  BY <1>1 DEF place, LATENCY
<1>3. ASSUME clk0_rises
      PROVE  /\ place' = (place + 1) % 4
             /\ seen' = seen_by_clk0(toggle, toggle')
             /\ seen' = IF place' = 0 THEN ~seen ELSE seen
  <2>1. now \in {0, 8, 16, 24} /\ now' = now + 1
    BY <1>1, <1>3 DEF clk0_rises
  <2>2. toggle' = IF now = 0 THEN ~toggle ELSE toggle
    BY DEF p_toggle, clk_RF_rises
  <2>3. CASE RF_first
    <3>1. place = ((now - 1) % 32) \div 8 /\ place' = ((now' - 1) % 32) \div 8
      BY <1>1, <2>3 DEF place, LATENCY
    <3>2. place' = now \div 8 /\ place' = (place + 1) % 4 /\ (place' = 0 <=> now = 0)
      BY <2>1, <3>1
    <3>3. seen = toggle /\ seen' = toggle' /\ seen_by_clk0(toggle, toggle') = toggle'
      BY <2>3 DEF seen, seen_by_clk0
    <3> QED
      BY <2>2, <3>2, <3>3
  <2>4. CASE ~RF_first
    <3>1. place = ((now - 9) % 32) \div 8 /\ place' = ((now' - 9) % 32) \div 8
      BY <1>1, <2>4 DEF place, LATENCY
    <3>2. /\ place' = (place + 1) % 4 /\ (place' = 0 <=> now = 8)
          /\ (place' = 3 <=> now = 0) /\ (place = 3 <=> now = 8)
      BY <2>1, <3>1
    <3>3. /\ seen = IF now = 8 THEN ~toggle ELSE toggle
          /\ seen' = IF now = 0 THEN ~toggle' ELSE toggle'
          /\ seen_by_clk0(toggle, toggle') = toggle
      BY <2>4, <3>2 DEF seen, seen_by_clk0
    <3>4. seen' = toggle
      BY <1>1, <2>2, <3>3
    <3> QED
      BY <1>1, <3>2, <3>3, <3>4
  <2> QED
    BY <2>3, <2>4
<1>4. ASSUME ~clk0_rises
      PROVE  place' = place /\ toggle' = toggle
  <2>1. toggle' = toggle
    BY <1>1, <1>4 DEF p_toggle, clk0_rises, clk_RF_rises
  <2>2. place' = place
    BY <1>1, <1>4 DEF place, LATENCY, clk0_rises
  <2> QED
    BY <2>1, <2>2
<1>5. seen \in BOOLEAN
  BY <1>1 DEF seen
<1> QED
  BY <1>1, <1>2, <1>3, <1>4, <1>5

(* What was read before stays what it was, an edge further back.           *)
LEMMA PastStep ==
  ASSUME place \in 0 .. 3, place' = (place + 1) % 4, seen \in BOOLEAN,
         seen' = IF place' = 0 THEN ~seen ELSE seen
  PROVE  /\ \A j \in 1 .. 4 : Past(j)' <=> Past(j - 1)
         /\ Past(0)' <=> seen'
<1>1. CASE place = 3
  <2>1. place' = 0 /\ seen' = ~seen
    BY <1>1
  <2>2. \A j \in 1 .. 4 : ~(j <= place') /\ j - 1 <= place
    BY <1>1, <2>1
  <2>3. 0 <= place'
    BY <2>1
  <2>4. \A j \in 1 .. 4 : (Past(j)' <=> ~seen') /\ (Past(j - 1) <=> seen)
    BY <2>2, Zenon DEF Past
  <2>5. Past(0)' <=> seen'
    BY <2>3, Zenon DEF Past
  <2>6. seen <=> ~seen'
    BY <2>1
  <2> QED
    BY <2>4, <2>5, <2>6, Zenon
<1>2. CASE place # 3
  <2>1. place' = place + 1 /\ seen' = seen
    BY <1>2
  <2>2. \A j \in 1 .. 4 : j <= place' <=> j - 1 <= place
    BY <2>1
  <2>3. 0 <= place'
    BY <2>1
  <2>4. seen' <=> seen
    BY <2>1
  <2>5. \A j \in 1 .. 4 : Past(j)' <=> Past(j - 1)
    BY <2>2, <2>4, Zenon DEF Past
  <2>6. Past(0)' <=> seen'
    BY <2>3, Zenon DEF Past
  <2> QED
    BY <2>5, <2>6
<1> QED
  BY <1>1, <1>2

(* A bit is shifted into four.                                             *)
LEMMA ShiftFour ==
  ASSUME NEW t \in BOOLEAN, NEW s \in Seq(BOOLEAN), Len(s) = 4
  PROVE  LET u == <<t>> \o SubSeq(s, 1, 3)
         IN  /\ u \in Seq(BOOLEAN) /\ Len(u) = 4
             /\ u[1] = t /\ \A j \in 2 .. 4 : u[j] = s[j - 1]
<1> DEFINE v == SubSeq(s, 1, 3)
<1>1. v \in Seq(BOOLEAN) /\ Len(v) = 3 /\ \A j \in 1 .. 3 : v[j] = s[j]
  <2>1. \A j \in 1 .. 3 : s[j] \in BOOLEAN
    <3>1. \A j \in 1 .. Len(s) : s[j] \in BOOLEAN
      BY ElementOfSeq, Zenon
    <3> QED
      BY <3>1
  <2>2. v \in Seq(BOOLEAN)
    BY <2>1, SubSeqProperties
  <2>3. Len(v) = 3
    OBVIOUS
  <2>4. \A j \in 1 .. 3 : v[j] = s[j]
    OBVIOUS
  <2> QED
    BY <2>2, <2>3, <2>4, Zenon
<1> HIDE DEF v
<1> DEFINE w == <<t>>
<1>2. w \in Seq(BOOLEAN) /\ Len(w) = 1 /\ w[1] = t
  OBVIOUS
<1> HIDE DEF w
<1>3. /\ w \o v \in Seq(BOOLEAN) /\ Len(w \o v) = 4 /\ (w \o v)[1] = t
      /\ \A j \in 2 .. 4 : (w \o v)[j] = v[j - 1]
  <2>1. \A x \in Seq(BOOLEAN), y \in Seq(BOOLEAN) :
          /\ x \o y \in Seq(BOOLEAN) /\ Len(x \o y) = Len(x) + Len(y)
          /\ \A j \in 1 .. Len(x) + Len(y) :
                (x \o y)[j] = IF j <= Len(x) THEN x[j] ELSE y[j - Len(x)]
    BY ConcatProperties, Zenon
  <2>2. /\ w \o v \in Seq(BOOLEAN) /\ Len(w \o v) = Len(w) + Len(v)
        /\ \A j \in 1 .. Len(w) + Len(v) :
              (w \o v)[j] = IF j <= Len(w) THEN w[j] ELSE v[j - Len(w)]
    BY <1>1, <1>2, <2>1, Zenon
  <2>3. /\ w \o v \in Seq(BOOLEAN) /\ Len(w \o v) = 4
        /\ \A j \in 1 .. 4 : (w \o v)[j] = IF j <= 1 THEN w[j] ELSE v[j - 1]
    BY <1>1, <1>2, <2>2
  <2> QED
    BY <1>2, <2>3
<1>4. \A j \in 2 .. 4 : v[j - 1] = s[j - 1]
  BY <1>1
<1> QED
  BY <1>3, <1>4 DEF v, w

(* A clk0 edge shifts what has been read.                                  *)
LEMMA ShiftedStep ==
  ASSUME StartUp >= 8, Shifted, clk0_rises, tick
  PROVE  Shifted'
<1>1. /\ now' = (now + 1) % 32 /\ RF_first' = RF_first /\ p_toggle /\ p_fine_count
      /\ edges' = IF edges < StartUp THEN edges + 1 ELSE edges
  BY DEF tick, sampler_tick
<1>2. /\ place \in 0 .. 3 /\ place' = (place + 1) % 4 /\ now' \in 0 .. 31
      /\ seen \in BOOLEAN /\ seen' = seen_by_clk0(toggle, toggle')
      /\ seen' = IF place' = 0 THEN ~seen ELSE seen
  BY <1>1, PlaceStep
<1>3. /\ edges \in 0 .. StartUp /\ StartUp \in Nat /\ toggle \in BOOLEAN
      /\ startup_true \in BOOLEAN /\ (startup_true <=> edges > 0)
  BY ChannelAssumption DEF Shifted
<1>4. /\ \A j \in 1 .. 4 : Past(j)' <=> Past(j - 1)
      /\ Past(0)' <=> seen'
  BY <1>2, PastStep
<1>5. /\ edges' \in 0 .. StartUp /\ edges' >= 1
      /\ \A j \in 1 .. 4 : edges' >= j + 1 <=> edges >= j
  BY <1>1, <1>3
<1>6. /\ shift_reg' \in Seq(BOOLEAN) /\ Len(shift_reg') = 4
      /\ shift_reg'[1] = seen' /\ \A j \in 2 .. 4 : shift_reg'[j] = shift_reg[j - 1]
      /\ shift_lst' = shift_reg
  <2>1. shift_reg' = <<seen'>> \o SubSeq(shift_reg, 1, 3) /\ shift_lst' = shift_reg
    BY <1>1, <1>2, Zenon DEF p_fine_count
  <2>2. seen' \in BOOLEAN
    BY <1>2
  <2> HIDE DEF seen
  <2> QED
    BY <2>1, <2>2, ShiftFour DEF Shifted
<1>7. \A j \in 1 .. 4 : shift_reg'[j] <=> edges' >= j /\ Past(j - 1)'
  <2>1. shift_reg'[1] <=> edges' >= 1 /\ Past(0)'
    BY <1>4, <1>5, <1>6
  <2>2. ASSUME NEW j \in 2 .. 4
        PROVE  shift_reg'[j] <=> edges' >= j /\ Past(j - 1)'
    <3>1. j - 1 \in 1 .. 4 /\ (j - 1) + 1 = j
      OBVIOUS
    <3>2. shift_reg[j - 1] <=> edges >= j - 1 /\ Past((j - 1) - 1)
      BY <3>1 DEF Shifted
    <3>3. (edges' >= j <=> edges >= j - 1) /\ (Past(j - 1)' <=> Past((j - 1) - 1))
      BY <1>4, <1>5, <3>1
    <3> QED
      BY <1>6, <3>2, <3>3
  <2>3. \A j \in 1 .. 4 : j = 1 \/ j \in 2 .. 4
    OBVIOUS
  <2> QED
    BY <2>1, <2>2, <2>3
<1>8. \A j \in 1 .. 4 : shift_lst'[j] <=> edges' >= j + 1 /\ Past(j)'
  BY <1>4, <1>5, <1>6 DEF Shifted
<1>9. startup_true'
  <2>1. CASE edges = 0
    <3>1. \A j \in 1 .. 4 : ~shift_reg[j] /\ ~shift_lst[j]
      BY <2>1 DEF Shifted
    <3>2. shift_lst = shift_reg
      BY <3>1 DEF Shifted
    <3> QED
      BY <1>1, <3>2, Zenon DEF p_fine_count
  <2>2. CASE edges # 0
    BY <1>1, <1>3, <2>2 DEF p_fine_count
  <2> QED
    BY <2>1, <2>2
<1>10. startup_true' \in BOOLEAN
  BY <1>1, Zenon DEF p_fine_count
<1>11. toggle' \in BOOLEAN /\ RF_first' \in BOOLEAN
  BY <1>1, <1>3 DEF p_toggle, Shifted
<1> QED
  BY <1>2, <1>5, <1>6, <1>7, <1>8, <1>9, <1>10, <1>11 DEF Shifted

(* And the count goes on or starts again.                                  *)
LEMMA CountedStep ==
  ASSUME StartUp >= 8, Shifted, Counted, clk0_rises, tick
  PROVE  Counted'
<1>1. /\ now' = (now + 1) % 32 /\ RF_first' = RF_first /\ p_toggle /\ p_fine_count
      /\ edges' = IF edges < StartUp THEN edges + 1 ELSE edges
  BY DEF tick, sampler_tick
<1>2. place \in 0 .. 3 /\ place' = (place + 1) % 4 /\ place' \in 0 .. 3 /\ seen \in BOOLEAN
  BY <1>1, PlaceStep
<1>3. /\ edges \in 0 .. StartUp /\ StartUp \in Nat /\ toggle \in BOOLEAN
      /\ startup_true \in BOOLEAN /\ (startup_true <=> edges > 0)
      /\ clk0_count \in 0 .. 3
  BY ChannelAssumption DEF Shifted, Counted
<1> DEFINE restart == IF startup_true THEN shift_lst[4] # shift_lst[3]
                                      ELSE shift_reg[4] # shift_reg[3]
<1>4. clk0_count' = IF shift_lst = shift_reg \/ restart THEN 0 ELSE (clk0_count + 1) % 4
  BY <1>1 DEF p_fine_count
<1>5. clk0_count' \in 0 .. 3
  BY <1>3, <1>4
<1>6. SUFFICES ASSUME edges' - place' >= 5
               PROVE  clk0_count' = place'
  BY <1>5 DEF Counted
<1>7. /\ \A j \in 1 .. 4 : shift_reg[j] \in BOOLEAN /\ shift_lst[j] \in BOOLEAN
      /\ \A j \in 1 .. 4 : shift_reg[j] <=> edges >= j /\ Past(j - 1)
      /\ \A j \in 1 .. 4 : shift_lst[j] <=> edges >= j + 1 /\ Past(j)
  <2>1. \A j \in 1 .. 4 : shift_reg[j] \in BOOLEAN /\ shift_lst[j] \in BOOLEAN
    <3>1. /\ shift_reg \in Seq(BOOLEAN) /\ shift_lst \in Seq(BOOLEAN)
          /\ Len(shift_reg) = 4 /\ Len(shift_lst) = 4
      BY Zenon DEF Shifted
    <3> QED
      BY <3>1, ElementOfSeq
  <2>2. /\ \A j \in 1 .. 4 : shift_reg[j] <=> edges >= j /\ Past(j - 1)
        /\ \A j \in 1 .. 4 : shift_lst[j] <=> edges >= j + 1 /\ Past(j)
    BY Zenon DEF Shifted
  <2> QED
    BY <2>1, <2>2
<1>8. CASE place = 3
  <2>1. place' = 0 /\ edges >= 4
    BY <1>1, <1>2, <1>3, <1>6, <1>8
  <2>3. /\ \A j \in 1 .. 4 : shift_reg[j] <=> seen
        /\ \A j \in 1 .. 3 : shift_lst[j] <=> seen
        /\ shift_lst[4] <=> edges >= 5 /\ ~seen
    <3>1. (Past(0) <=> seen) /\ (Past(1) <=> seen) /\ (Past(2) <=> seen)
          /\ (Past(3) <=> seen) /\ (Past(4) <=> ~seen)
      BY <1>2, <1>8 DEF Past
    <3> QED
      BY <1>2, <1>3, <1>7, <2>1, <3>1
  <2>4. CASE shift_lst[4]
    <3>1. shift_lst[4] # shift_lst[3]
      <4>1. ~shift_lst[3]
        BY <2>3, <2>4
      <4> QED
        BY <2>4, <4>1
    <3> QED
      BY <1>3, <1>4, <2>1, <3>1
  <2>5. CASE ~shift_lst[4] /\ ~seen
    <3>1. \A j \in 1 .. 4 : shift_reg[j] = shift_lst[j]
      BY <1>7, <2>3, <2>5
    <3>2. shift_reg = shift_lst
      BY <3>1 DEF Shifted
    <3> QED
      BY <1>4, <2>1, <3>2
  <2>6. CASE ~shift_lst[4] /\ seen
    <3>1. shift_lst[4] # shift_lst[3]
      <4>1. shift_lst[3]
        BY <2>3, <2>6
      <4> QED
        BY <2>6, <4>1
    <3> QED
      BY <1>3, <1>4, <2>1, <3>1
  <2> QED
    BY <2>4, <2>5, <2>6
<1>9. CASE place # 3
  <2>1. place' = place + 1 /\ edges >= 5 /\ edges - place >= 5
    BY <1>1, <1>2, <1>3, <1>6, <1>9
  <2>2. clk0_count = place
    BY <2>1 DEF Counted
  <2>3. \A j \in 1 .. 4 : (shift_reg[j] <=> Past(j - 1)) /\ (shift_lst[j] <=> Past(j))
    BY <1>3, <1>7, <2>1
  <2>4. shift_lst[3] = shift_lst[4]
    <3>1. (Past(3) <=> ~seen) /\ (Past(4) <=> ~seen)
      BY <1>2, <1>9 DEF Past
    <3> QED
      BY <1>7, <2>3, <3>1
  <2>5. shift_lst # shift_reg
    <3>1. (Past(place) <=> seen) /\ (Past(place + 1) <=> ~seen)
      BY <1>2 DEF Past
    <3>2. place + 1 \in 1 .. 4 /\ (place + 1) - 1 = place
      BY <1>2
    <3>3. shift_lst[place + 1] # shift_reg[place + 1]
      BY <1>2, <1>7, <2>3, <3>1, <3>2
    <3> QED
      BY <3>3
  <2>6. ~restart
    BY <1>3, <2>1, <2>4
  <2> QED
    BY <1>2, <1>4, <1>9, <2>1, <2>2, <2>5, <2>6
<1> QED
  BY <1>8, <1>9

(* A tick on which clk0 does not rise leaves the count and the place.      *)
LEMMA IdleStep ==
  ASSUME Shifted, Counted, ~clk0_rises, tick
  PROVE  Shifted' /\ Counted'
<1>1. /\ now' = (now + 1) % 32 /\ RF_first' = RF_first /\ p_toggle
      /\ UNCHANGED <<clk0_count, shift_reg, shift_lst, startup_true, edges>>
  BY DEF tick, sampler_tick
<1>2. place' = place /\ now' \in 0 .. 31 /\ toggle' = toggle
  BY <1>1, PlaceStep
<1>3. \A j \in 0 .. 4 : Past(j)' = Past(j)
  BY <1>1, <1>2 DEF Past, seen
<1>4. Shifted'
  BY <1>1, <1>2, <1>3 DEF Shifted
<1>5. Counted'
  BY <1>1, <1>2 DEF Counted
<1> QED
  BY <1>4, <1>5

(* From eight clk0 edges on the fine count is locked to clk_RF, whichever  *)
(* period of clk_RF and whichever toggle clk0 starts with, whether or not  *)
(* it reads the toggle as a shared edge leaves it, and no reset or hit     *)
(* moves it (sampler.vhd 409-414, 446-475).  Seven edges are too few.      *)
THEOREM LocksFineCount ==
  ASSUME StartUp >= 8
  PROVE  Spec => []FineCountLocked
<1>1. Init => Shifted /\ Counted
  <2> SUFFICES ASSUME Init
               PROVE  Shifted /\ Counted
    OBVIOUS
  <2>1. /\ RF_first \in BOOLEAN
        /\ now \in {0, 8, 16, 24} /\ toggle \in BOOLEAN /\ edges = 0 /\ clk0_count = 0
        /\ shift_reg = <<FALSE, FALSE, FALSE, FALSE>> /\ shift_lst = shift_reg
        /\ startup_true = FALSE
    BY DEF Init, Sampler_Init
  <2>2. Shifted
    <3>1. /\ shift_reg \in Seq(BOOLEAN) /\ Len(shift_reg) = 4
          /\ \A j \in 1 .. 4 : ~shift_reg[j]
      BY <2>1
    <3>2. now \in 0 .. 31 /\ edges \in 0 .. StartUp
      BY <2>1, ChannelAssumption
    <3>3. /\ shift_lst \in Seq(BOOLEAN) /\ Len(shift_lst) = 4
          /\ \A j \in 1 .. 4 : ~shift_lst[j]
      BY <2>1, <3>1
    <3>4. \A j \in 1 .. 4 : ~(edges >= j) /\ ~(edges >= j + 1)
      BY <2>1
    <3>5. startup_true \in BOOLEAN /\ (startup_true <=> edges > 0)
      <4>1. startup_true = FALSE /\ ~(edges > 0)
        BY <2>1
      <4> QED
        BY <4>1
    <3> QED
      BY <2>1, <3>1, <3>2, <3>3, <3>4, <3>5 DEF Shifted
  <2>3. Counted
    BY <2>1 DEF Counted, place, LATENCY
  <2> QED
    BY <2>2, <2>3
<1>2. Shifted /\ Counted /\ [Next]_vars => Shifted' /\ Counted'
  <2> SUFFICES ASSUME Shifted, Counted, [Next]_vars
               PROVE  Shifted' /\ Counted'
    OBVIOUS
  <2>1. CASE tick /\ clk0_rises
    BY <2>1, ShiftedStep, CountedStep
  <2>2. CASE tick /\ ~clk0_rises
    BY <2>2, IdleStep
  <2>3. CASE UNCHANGED vars
    BY <2>3 DEF vars, sampler_vars, fine_count_vars, Shifted, Counted, Past, seen, place, LATENCY
  <2> QED
    BY <2>1, <2>2, <2>3 DEF Next
<1>3. Shifted /\ Counted => FineCountLocked
  <2> SUFFICES ASSUME Shifted, Counted, edges = StartUp
               PROVE  clk0_count = place
    BY DEF FineCountLocked, enable, place
  <2>1. place \in 0 .. 3 /\ edges >= 8
    BY DEF Shifted, place, LATENCY
  <2> QED
    BY <2>1 DEF Counted, Shifted
<1> QED
  BY <1>1, <1>2, <1>3, PTL DEF Spec
=============================================================================

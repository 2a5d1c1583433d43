------------------------------ MODULE encoder ------------------------------
(***************************************************************************)
(* The encoder of sources/src/encoder.vhd: from the sampler's hit pattern  *)
(* to a timestamp, and the state machine that decides which pulses count.  *)
(* One action, encoder_clk_0, is one rising edge of clk_0: the three       *)
(* processes together, each reading the registers as they were before it.  *)
(*                                                                         *)
(* A hit pattern, fine_i(9 downto 2), is a function from the eight samples *)
(* of a clk_0 period, in the order they are taken, to BOOLEAN; bit 7 of    *)
(* the code is sample 0.                                                   *)
(***************************************************************************)
EXTENDS Integers

CONSTANTS g_sat_duration,   \* saturated clk_0 cycles a valid hit must have
          COUNTER_MOD,      \* 2^bitSize(g_sat_duration)
          COARSE_MOD        \* 2^g_coarse_bits

ASSUME EncoderAssumption ==
  /\ g_sat_duration \in 1 .. 5 /\ COARSE_MOD \in Nat \ {0}
  /\ COUNTER_MOD = IF g_sat_duration = 1 THEN 2
                   ELSE IF g_sat_duration < 4 THEN 4 ELSE 8

VARIABLES
  fine_last,           \* the last pattern
  true_fine_period,    \* and the fine count beside it
  coarse_s,            \* the last coarse count
  enc_state, saturation_counter,
  hit_finished, is_saturated,
  encoded_fine_time, true_coarse_period,
  timestamp_o,         \* [coarse, fine]; the channel's number is left out
  valid_o

encoder_vars ==
  <<fine_last, true_fine_period, coarse_s, enc_state, saturation_counter,
    hit_finished, is_saturated, encoded_fine_time, true_coarse_period,
    timestamp_o, valid_o>>

Sample == 0 .. 7
AllZeros == [coarse |-> 0, fine |-> 0]
NoHit == [k \in Sample |-> FALSE]
saturated(pattern) == \A k \in Sample : pattern[k]

Encoder_Init ==
  /\ fine_last = NoHit /\ true_fine_period = 0 /\ coarse_s = 0
  /\ enc_state = "IDLE" /\ saturation_counter = 0
  /\ hit_finished = FALSE /\ is_saturated = FALSE
  /\ encoded_fine_time = 0 /\ true_coarse_period = 0
  /\ timestamp_o = AllZeros /\ valid_o = FALSE

(* p_shift                                                                 *)
p_shift(pattern, count, coarse) ==
  fine_last' = pattern /\ true_fine_period' = count /\ coarse_s' = coarse

(* A hit that comes after sample j of a period is seen from sample j+1 on. *)
(* The else branch takes every pattern that is not of that form for j = 0, *)
(* the saturated one included.                                             *)
fine_in_period(pattern) ==
  LET js == {j \in 1 .. 7 : pattern = [k \in Sample |-> k > j]}
  IN  IF js = {} THEN 0 ELSE CHOOSE j \in js : TRUE

(* The edge case: the hit is taken for the first of the current RF period. *)
on_rising_edge == fine_last = NoHit /\ true_fine_period = 3

encoded ==
  IF on_rising_edge THEN 0 ELSE 8 * true_fine_period + fine_in_period(fine_last)

(* Mistake: the correction of the coarse count does not wrap.              *)
true_coarse_without_wrap ==
  IF true_fine_period = 0 \/ on_rising_edge THEN coarse_s ELSE coarse_s - 1

(* The coarse count has gone on meanwhile, unless the hit came in the first*)
(* quarter of the RF period.                                               *)
true_coarse ==
  IF true_fine_period = 0 \/ on_rising_edge THEN coarse_s
  ELSE (coarse_s - 1) % COARSE_MOD

(* p_encode                                                                *)
p_encode(pattern) ==
  IF saturated(pattern)
    THEN /\ hit_finished' = FALSE /\ is_saturated' = TRUE
         /\ encoded_fine_time' = encoded /\ true_coarse_period' = true_coarse
    ELSE /\ is_saturated' = FALSE
         /\ hit_finished' = (hit_finished \/ saturated(fine_last))
         /\ UNCHANGED <<encoded_fine_time, true_coarse_period>>

(* p_is_valid.  The increment in IDLE overrides the reset of the counter   *)
(* and counts on from whatever the last pulse left.                        *)
count_on == saturation_counter' = (saturation_counter + 1) % COUNTER_MOD

(* Mistake: the word is not taken back.                                    *)
IDLE_keeps_word ==
  /\ enc_state = "IDLE"
  /\ IF is_saturated THEN enc_state' = "READY" /\ count_on
     ELSE saturation_counter' = 0 /\ UNCHANGED enc_state
  /\ UNCHANGED <<timestamp_o, valid_o>>

IDLE ==
  /\ enc_state = "IDLE"
  /\ timestamp_o' = AllZeros /\ valid_o' = FALSE
  /\ IF is_saturated THEN enc_state' = "READY" /\ count_on
     ELSE saturation_counter' = 0 /\ UNCHANGED enc_state

(* Mistake: one saturated cycle more than the generic says.                *)
READY_one_more ==
  /\ enc_state = "READY"
  /\ \/ /\ saturation_counter = g_sat_duration
        /\ enc_state' = "DONE" /\ UNCHANGED saturation_counter
     \/ /\ saturation_counter # g_sat_duration /\ is_saturated
        /\ count_on /\ UNCHANGED enc_state
     \/ /\ saturation_counter # g_sat_duration /\ ~is_saturated
        /\ enc_state' = "IDLE" /\ UNCHANGED saturation_counter
  /\ UNCHANGED <<timestamp_o, valid_o>>

READY ==
  /\ enc_state = "READY"
  /\ \/ /\ saturation_counter = g_sat_duration - 1
        /\ enc_state' = "DONE" /\ UNCHANGED saturation_counter
     \/ /\ saturation_counter # g_sat_duration - 1 /\ is_saturated
        /\ count_on /\ UNCHANGED enc_state
     \/ /\ saturation_counter # g_sat_duration - 1 /\ ~is_saturated
        /\ enc_state' = "IDLE" /\ UNCHANGED saturation_counter
  /\ UNCHANGED <<timestamp_o, valid_o>>

DONE ==
  /\ enc_state = "DONE"
  /\ IF hit_finished
       THEN /\ valid_o' = TRUE
            /\ timestamp_o' = [coarse |-> true_coarse_period,
                               fine |-> encoded_fine_time]
            /\ enc_state' = "IDLE"
       ELSE UNCHANGED <<valid_o, timestamp_o, enc_state>>
  /\ UNCHANGED saturation_counter

FsmReset ==
  /\ enc_state' = "IDLE" /\ saturation_counter' = 0
  /\ valid_o' = FALSE /\ timestamp_o' = AllZeros

encoder_clk_0(reset_i, pattern, count, coarse) ==
  /\ p_shift(pattern, count, coarse)
  /\ p_encode(pattern)
  /\ IF reset_i THEN FsmReset ELSE IDLE \/ READY \/ DONE
=============================================================================

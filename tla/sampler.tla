------------------------------ MODULE sampler ------------------------------
(***************************************************************************)
(* The sampler of sources/src/sampler.vhd.  Time goes in ticks of an       *)
(* eighth of a clk0 period: sample k of the period is taken at the k-th    *)
(* tick, by the rising edges of clk0, clk45, clk90, clk135 for k = 0..3    *)
(* and by their falling edges for k = 4..7.  clk_RF is four times slower   *)
(* than clk0 and rises with it at tick 0 of 32.                            *)
(*                                                                         *)
(* Flip-flops of one clock that share an edge read each other as they were *)
(* before it.  From clk_RF to clk0 the code leaves that open: clk_RF is the*)
(* input of the MMCM that makes clk0, nothing but their alignment is said  *)
(* of them (466), and RF_first is either.                                  *)
(***************************************************************************)
EXTENDS Integers, Sequences

VARIABLES
  RF_first,          \* clk0 reads clk_RF's registers as a shared edge leaves
                     \* them, else as they were before it; never changes
  now,               \* the tick that comes next, in the period of clk_RF
  first_stage,       \* register_rising and register_falling, per sample
  second_stage,      \* register_rising_ss and register_falling_ss
  register_cdc,      \* all samples in the clk0 domain: the data output
  hit_last,
  clk0_count,        \* counts clk0 periods within a period of clk_RF
  clk0_count_store,  \* its value when the hit came: the data output
  toggle, shift_reg, shift_lst, startup_true

fine_count_vars == <<clk0_count, toggle, shift_reg, shift_lst, startup_true>>
sample_vars ==
  <<first_stage, second_stage, register_cdc, hit_last, clk0_count_store>>
sampler_vars == <<RF_first, now, sample_vars, fine_count_vars>>

LOCAL Zeros == [k \in 0 .. 7 |-> FALSE]

(* clk0 starts with some period of clk_RF, whatever the toggle is by then. *)
Sampler_Init ==
  /\ RF_first \in BOOLEAN
  /\ now \in {0, 8, 16, 24} /\ toggle \in BOOLEAN
  /\ first_stage = Zeros /\ second_stage = Zeros /\ register_cdc = Zeros
  /\ hit_last = FALSE /\ clk0_count = 0 /\ clk0_count_store = 0
  /\ shift_reg = <<FALSE, FALSE, FALSE, FALSE>> /\ shift_lst = shift_reg
  /\ startup_true = FALSE

clk0_rises == now % 8 = 0
clk90_rises == now % 8 = 2
clk_RF_rises == now = 0

(* What a flip-flop of clk0 reads in a register of clk_RF.                 *)
seen_by_clk0(before, after) == IF RF_first THEN after ELSE before

(* The flip-flop of the first stage that this tick clocks.                 *)
FirstStage(reset_i, enable_i, hit_i) ==
  first_stage' = [first_stage EXCEPT ![now % 8] =
                    IF reset_i THEN FALSE ELSE IF enable_i THEN hit_i ELSE @]

(* The second stage: samples 0 to 5 at the rising edge of clk0, the last   *)
(* two at that of clk90.                                                   *)
SecondStage(reset_i, enable_i) ==
  LET clocked(k) == IF k < 6 THEN clk0_rises ELSE clk90_rises
  IN  second_stage' = [k \in 0 .. 7 |->
        IF ~clocked(k) THEN second_stage[k]
        ELSE IF reset_i THEN FALSE
        ELSE IF enable_i THEN first_stage[k] ELSE second_stage[k]]

(* Mistake: the last two samples skip the second stage.                    *)
p_latch_cdc_direct(reset_i) ==
  register_cdc' = IF reset_i THEN Zeros
                  ELSE [k \in 0 .. 7 |->
                         IF k < 6 THEN second_stage[k] ELSE first_stage[k]]

p_latch_cdc(reset_i) == register_cdc' = IF reset_i THEN Zeros ELSE second_stage

(* Mistake: the count goes on being stored while the hit lasts.            *)
p_store_clk0_by_level(reset_i, hit_i) ==
  /\ hit_last' = (~reset_i /\ hit_i)
  /\ clk0_count_store' = IF reset_i THEN 0
                         ELSE IF hit_i THEN clk0_count ELSE clk0_count_store

(* The arrival of a hit in the clk0 domain and the fine count it stores.   *)
p_store_clk0(reset_i, hit_i) ==
  /\ hit_last' = (~reset_i /\ hit_i)
  /\ clk0_count_store' = IF reset_i THEN 0
                         ELSE IF ~hit_last /\ hit_i THEN clk0_count
                         ELSE clk0_count_store

(* Mistake: the restart after a change of the toggle is found in the       *)
(* current shift register throughout.                                      *)
p_fine_count_early ==
  /\ shift_lst' = shift_reg
  /\ shift_reg' = <<seen_by_clk0(toggle, toggle')>> \o SubSeq(shift_reg, 1, 3)
  /\ startup_true' = (startup_true \/ shift_lst = shift_reg)
  /\ clk0_count' = IF shift_lst = shift_reg \/ shift_reg[4] # shift_reg[3]
                     THEN 0 ELSE (clk0_count + 1) % 4

(* The fine count is 0 again some clk0 cycles after a change of the toggle.*)
(* shift_reg[1] is bit 0, the newest.                                      *)
p_fine_count ==
  LET restart == IF startup_true THEN shift_lst[4] # shift_lst[3]
                                 ELSE shift_reg[4] # shift_reg[3]
  IN  /\ shift_lst' = shift_reg
      /\ shift_reg' = <<seen_by_clk0(toggle, toggle')>> \o SubSeq(shift_reg, 1, 3)
      /\ startup_true' = (startup_true \/ shift_lst = shift_reg)
      /\ clk0_count' = IF shift_lst = shift_reg \/ restart THEN 0
                       ELSE (clk0_count + 1) % 4

p_toggle == toggle' = IF clk_RF_rises THEN ~toggle ELSE toggle

sampler_tick(reset_i, enable_i, hit_i) ==
  /\ UNCHANGED RF_first
  /\ now' = (now + 1) % 32
  /\ FirstStage(reset_i, enable_i, hit_i)
  /\ SecondStage(reset_i, enable_i)
  /\ p_toggle
  /\ IF clk0_rises
       THEN p_latch_cdc(reset_i) /\ p_store_clk0(reset_i, hit_i) /\ p_fine_count
       ELSE UNCHANGED <<register_cdc, hit_last, clk0_count_store, clk0_count,
                        shift_reg, shift_lst, startup_true>>
=============================================================================

---------------------------- MODULE TDC_channel ----------------------------
(***************************************************************************)
(* One channel of sources/src/TDC_channel.vhd: sampler, coarse counter and *)
(* encoder behind a hit input that rises and falls at any tick.  One       *)
(* action, tick, is an eighth of a clk0 period.                            *)
(***************************************************************************)
EXTENDS sampler, encoder, SequencesExt

CONSTANTS
  HitWidths,    \* bound: ticks for which a hit keeps the input high
  ShortWidths,  \* bound: and for which a pulse does that is no hit
  MinGap,       \* bound: ticks between two pulses
  AtRest,       \* ticks after which nothing of a pulse is under way
  StartUp       \* clk0 edges before the MMCM reports its lock

ASSUME ChannelAssumption ==
  /\ AtRest \in Nat /\ StartUp \in Nat /\ MinGap \in 1 .. AtRest
  /\ HitWidths \subseteq 1 .. AtRest /\ ShortWidths \subseteq 1 .. AtRest
  /\ HitWidths \cap ShortWidths = {}

VARIABLES
  coarse_count,  \* CoarseCounter
  reset,         \* the reset, registered by clk0
  edges,         \* clk0 edges since clk0 started, up to StartUp
  hit,           \* the hit input
  lasts,         \* ticks for which it has been as it is, up to AtRest
  latest,        \* history: when the latest pulse began, unless at rest
  open           \* history: the hits that wait for their word, oldest first

vars ==
  <<sampler_vars, encoder_vars, coarse_count, reset, edges, hit, lasts, latest,
    open>>

(* top_2BRAM drives enable with the lock of the MMCM.                      *)
enable == edges = StartUp

(* When a pulse begins: the RF period the counter is in and the interval in *)
(* it, between the last tick and the next.                                 *)
arrival == [coarse |-> coarse_count, fine |-> (now - 1) % 32]

unknown == [coarse |-> 0, fine |-> 0]

Init ==
  /\ Sampler_Init /\ Encoder_Init
  /\ coarse_count = 0 /\ reset = TRUE /\ edges = 0
  /\ hit = FALSE /\ lasts = AtRest
  /\ latest = unknown /\ open = << >>

(* The counter of clk_RF periods.  Its reset is asynchronous.              *)
CoarseCounter ==
  coarse_count' = IF reset THEN 0
                  ELSE IF clk_RF_rises THEN (coarse_count + 1) % COARSE_MOD
                  ELSE coarse_count

(* The hit input between two ticks keeps its level or changes it.          *)
rises == hit' /\ ~hit
falls == hit /\ ~hit'
short == lasts \in ShortWidths

HitInput ==
  \/ /\ UNCHANGED hit
     /\ hit => lasts < Max(HitWidths \cup ShortWidths)
     /\ lasts' = IF lasts < AtRest THEN lasts + 1 ELSE lasts
  \/ /\ hit' = ~hit
     /\ IF hit THEN lasts \in HitWidths \cup ShortWidths
               ELSE enable /\ ~reset /\ lasts >= MinGap
     /\ lasts' = 1

(* The reset is given up some time after the lock, and raised again only   *)
(* while no hit is under way.                                              *)
ResetInput ==
  \/ reset' = reset
  \/ clk0_rises /\ reset /\ enable /\ reset' = FALSE
  \/ clk0_rises /\ ~reset /\ ~hit' /\ lasts = AtRest /\ reset' = TRUE

(* A word answers the oldest hit that waits for one.                       *)
word == valid_o' /\ ~valid_o

Record ==
  LET waiting == IF word /\ open # << >> THEN Tail(open) ELSE open
  IN  /\ latest' = IF rises THEN arrival
                   ELSE IF lasts' = AtRest THEN unknown ELSE latest
      /\ open' = IF rises THEN Append(waiting, arrival)
                 ELSE IF falls /\ short THEN Front(waiting)
                 ELSE waiting

tick ==
  /\ HitInput
  /\ sampler_tick(reset, enable, hit')
  /\ CoarseCounter
  /\ ResetInput
  /\ IF clk0_rises
       THEN /\ encoder_clk_0(reset, register_cdc, clk0_count_store,
                             seen_by_clk0(coarse_count, coarse_count'))
            /\ edges' = IF edges < StartUp THEN edges + 1 ELSE edges
       ELSE UNCHANGED <<encoder_vars, edges>>
  /\ Record

Next == tick

Spec == Init /\ [][Next]_vars
-----------------------------------------------------------------------------
(* The registers stay in their ranges.                                     *)
TypeOK ==
  /\ clk0_count \in 0 .. 3 /\ clk0_count_store \in 0 .. 3
  /\ enc_state \in {"IDLE", "READY", "DONE"}
  /\ saturation_counter \in 0 .. COUNTER_MOD - 1
  /\ encoded_fine_time \in 0 .. 31 /\ true_coarse_period \in 0 .. COARSE_MOD - 1

(* How far the channel's time is behind: nothing if clk0 reads clk_RF's    *)
(* registers as a shared edge leaves them, one clk0 period if it reads     *)
(* them as they were before.  The source has the first in mind: the count  *)
(* is the hit's own quarter (sampler.vhd 405, 445, encoder.vhd 147-148), a *)
(* hit on the rising edge of clk_RF shows count 3, and its RF period comes *)
(* out right (encoder.vhd 162-171).  Under the second none of this is so:  *)
(* a hit of the first quarter has count 3 and the RF period before its     *)
(* own, and a hit on that rising edge count 2.  The properties below hold  *)
(* under either rule, with this difference.                                *)
LATENCY == IF RF_first THEN 0 ELSE 8

(* From whatever period of clk_RF and whatever toggle clk0 starts, the fine*)
(* count is locked to clk_RF before the channel is enabled, and no reset   *)
(* moves it: to the quarter of the RF period, or to the one before it      *)
(* (sampler.vhd 409-414, 446-475).                                         *)
FineCountLocked ==
  enable => clk0_count = ((now - 1 - LATENCY) % 32) \div 8

(* Time as the channel counts it: LATENCY after the arrival, and the last  *)
(* interval of an RF period rounded up to the first of the next            *)
(* (encoder.vhd 162-176).                                                  *)
counted(a) ==
  LET t == a.coarse * 32 + a.fine - LATENCY
  IN  (IF t % 32 = 31 THEN t + 1 ELSE t) % (32 * COARSE_MOD)

(* The first time the encoder encodes a hit it has the arrival exactly, in *)
(* 1/32 of the RF period and less LATENCY, so that it is the arrival as the*)
(* source describes it if and only if RF_first: the eight samples that four clocks take, the two *)
(* stages that bring them to clk0, the fine count stored on the way, the   *)
(* coarse count and its correction by one belong to the same period        *)
(* (sampler.vhd 179-475, encoder.vhd 84-92, 139-306).                      *)
FirstEncodingExact ==
  [][ (is_saturated' /\ ~is_saturated) =>
        true_coarse_period' * 32 + encoded_fine_time' = counted(latest) ]_vars

(* Every hit of the required width and gap gets one word, no word comes    *)
(* without a hit, and a word carries the quarter of the RF period of the   *)
(* hit it answers, not of the next that has begun meanwhile                *)
(* (encoder.vhd 95-136, sampler.vhd 417-443).                              *)
WordAnswersOldestHit ==
  [][ word => /\ open # << >>
              /\ timestamp_o'.fine \div 8
                   = ((Head(open).fine - LATENCY) % 32) \div 8 ]_vars

(* And every hit gets it before the channel is at rest, no more than two   *)
(* being under way: none is merged into the next or dropped on the way     *)
(* (encoder.vhd 95-136).                                                   *)
NoHitForgotten ==
  /\ Len(open) <= 2
  /\ (~hit /\ lasts = AtRest) => open = << >>

(* What the ring buffer behind the channel relies on: a word is on the     *)
(* output for one clk0 edge and all zeros otherwise (encoder.vhd 105-109). *)
OneEdgeWords ==
  [][ /\ ~valid_o' => timestamp_o' = AllZeros
      /\ (clk0_rises /\ valid_o) => ~valid_o' ]_vars

(* encoder.vhd:138 says that the arrival is encoded as one of 32 intervals *)
(* of an RF period: the word that is sent keeps the interval within the    *)
(* clk0 period.                                                            *)
IntervalSent ==
  [][ word => timestamp_o'.fine % 8 = counted(Head(open)) % 8 ]_vars
=============================================================================

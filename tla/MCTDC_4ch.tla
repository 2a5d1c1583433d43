----------------------------- MODULE MCTDC_4ch -----------------------------
(* Words for the small instances of TDC_4ch: the n-th hit of channel c is  *)
(* 10n + c, and 0 is the word of all zeros.                                *)
EXTENDS TDC_4ch

MCTimestamp == [c \in Req |-> [n \in 1 .. MaxHits |-> 10 * n + c]]

MCWord == {0} \cup {10 * n + c : n \in 1 .. MaxHits, c \in Req}
=============================================================================

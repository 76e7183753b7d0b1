---------------------------- MODULE MCSignalEngine --------------------------
(* Readings on each side of the rules: an up-trend in the pullback zone, one  *)
(* whose close is above it, a range, and one without EMA 50.  A bar after one *)
(* with the same EMA has no slope, which with a strong ADX proposes no_trade. *)
EXTENDS SignalEngine

Reading(ema, adx, close) ==
    [ ema50 |-> ema, ema200 |-> 10, adx |-> adx, atr |-> 2, bb |-> 5, rsi |-> 50,
      close |-> close ]

MCReadings ==
    { Reading(13, 25, 13), Reading(14, 25, 15), Reading(12, 20, 12),
      Reading(Missing, 25, 13) }
=============================================================================

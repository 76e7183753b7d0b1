----------------------------- MODULE RegimeRules ----------------------------
(***************************************************************************)
(* The rules of RegimeDetector (regimes/service.py): which regime one bar's *)
(* indicators propose, and whether the snapshot written for that bar takes  *)
(* it or keeps the regime of the snapshot before it.  Values and thresholds *)
(* are whole numbers on one scale; times are instants.                      *)
(***************************************************************************)
EXTENDS Integers, FiniteSets

CONSTANTS Missing,            \* an indicator without a row
          NoSnapshot,         \* no MarketRegimeSnapshotModel row for a bar
          ConfirmationBars, Cooldown, MaxDataAge,
          TrendAdx, RangeAdx, HighAtr, LowAtr, HighBb, LowBb

ASSUME RegimeDetectorConfig ==
    /\ ConfirmationBars \in Nat \ {0}
    /\ Cooldown \in Nat
    /\ MaxDataAge \in Nat \ {0}

MarketRegime == { "trend_up", "trend_down", "range", "high_volatility",
                  "low_volatility", "no_trade" }

RegimeInputs == {"ema50", "ema200", "adx", "atr", "bb"}

HighVolatility(r) == r.atr >= HighAtr \/ r.bb >= HighBb
LowVolatility(r)  == r.atr <= LowAtr /\ r.bb <= LowBb
TrendUp(r, slope)   == r.ema50 > r.ema200 /\ slope > 0 /\ r.adx >= TrendAdx
TrendDown(r, slope) == r.ema50 < r.ema200 /\ slope < 0 /\ r.adx >= TrendAdx

\* Mutant: a bar is classified however old it is.
CandidateOfAnyAge(r, previousEma, age) ==
    IF previousEma = Missing \/ \E i \in RegimeInputs : r[i] = Missing THEN "no_trade"
    ELSE IF HighVolatility(r) THEN "high_volatility"
    ELSE IF LowVolatility(r) THEN "low_volatility"
    ELSE IF TrendUp(r, r.ema50 - previousEma) THEN "trend_up"
    ELSE IF TrendDown(r, r.ema50 - previousEma) THEN "trend_down"
    ELSE IF r.adx <= RangeAdx THEN "range"
    ELSE "no_trade"

\* _classify_candidate: r are the indicators of the bar, previousEma the EMA 50
\* of the indicator row before it, age the time since the bar ended.
Candidate(r, previousEma, age) ==
    IF \/ age > MaxDataAge
       \/ \E i \in RegimeInputs : r[i] = Missing
       \/ previousEma = Missing THEN "no_trade"
    ELSE IF HighVolatility(r) THEN "high_volatility"
    ELSE IF LowVolatility(r) THEN "low_volatility"
    ELSE IF TrendUp(r, r.ema50 - previousEma) THEN "trend_up"
    ELSE IF TrendDown(r, r.ema50 - previousEma) THEN "trend_down"
    ELSE IF r.adx <= RangeAdx THEN "range"
    ELSE "no_trade"

-----------------------------------------------------------------------------
(* snapshots is a function from the numbers of bars, in time order.         *)

Earlier(snapshots, n) == { m \in DOMAIN snapshots : m < n /\ snapshots[m] # NoSnapshot }

\* _latest_previous_snapshot
Previous(snapshots, n) ==
    IF Earlier(snapshots, n) = {} THEN NoSnapshot
    ELSE snapshots[CHOOSE m \in Earlier(snapshots, n) :
                       \A k \in Earlier(snapshots, n) : k <= m]

\* 1 + _prior_candidate_confirmation_count: the snapshots just before bar n whose
\* evidence proposes the same candidate, without a break.
Confirmations(snapshots, n, candidate) ==
    1 + Cardinality({ m \in Earlier(snapshots, n) :
                        \A k \in Earlier(snapshots, n) :
                            k >= m => snapshots[k].candidate = candidate })

\* Mutant: the cooldown is not looked at.
TransitionWithoutCooldown(candidate, previous, confirmations, barEnd, at) ==
    IF \/ previous = NoSnapshot
       \/ candidate = "no_trade"
       \/ previous.regime = "no_trade" THEN [regime |-> candidate, starts |-> barEnd]
    ELSE IF candidate = previous.regime \/ confirmations < ConfirmationBars
         THEN [regime |-> previous.regime, starts |-> previous.starts]
    ELSE [regime |-> candidate, starts |-> barEnd]

\* Mutant: a regime that is kept is stamped with the bar that kept it.
TransitionRestarting(candidate, previous, confirmations, barEnd, at) ==
    IF \/ previous = NoSnapshot
       \/ candidate = "no_trade"
       \/ previous.regime = "no_trade" THEN [regime |-> candidate, starts |-> barEnd]
    ELSE IF at - previous.confirmed < Cooldown \/ confirmations < ConfirmationBars
         THEN [regime |-> previous.regime, starts |-> barEnd]
    ELSE [regime |-> candidate, starts |-> barEnd]

\* _apply_transition_rules: the regime a snapshot gets, and since when.
Transition(candidate, previous, confirmations, barEnd, at) ==
    IF \/ previous = NoSnapshot
       \/ candidate = "no_trade"
       \/ previous.regime = "no_trade" THEN [regime |-> candidate, starts |-> barEnd]
    ELSE IF \/ candidate = previous.regime
            \/ at - previous.confirmed < Cooldown
            \/ confirmations < ConfirmationBars
         THEN [regime |-> previous.regime, starts |-> previous.starts]
    ELSE [regime |-> candidate, starts |-> barEnd]

=============================================================================

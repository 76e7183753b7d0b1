---------------------------- MODULE SignalEngine ----------------------------
(***************************************************************************)
(* The signal half of a worker tick (runtime/paper_loop.py, regimes and     *)
(* strategies): refreshed reference bars, the signal bar of the tick, its   *)
(* indicators, its regime snapshot, the decision gate and the strategy run. *)
(* A tick is one transaction, so it is one step; a tick that fails leaves   *)
(* nothing and is an instant that passes.                                   *)
(*                                                                          *)
(* Bar n ends at n * BarWidth and may be used from SignalDelay after that.  *)
(* Every tick computes the indicators of the signal bar anew, from bars a   *)
(* refresh may have revised, and rewrites its rows.                         *)
(***************************************************************************)
EXTENDS RegimeRules, Sequences

CONSTANTS Bars,               \* the number of bars
          BarWidth, SignalDelay, DecisionInterval,
          Readings,           \* the indicator values (and close) a bar may have
          MinRsi, MaxRsi, MaxCloseAbove, RateScale,  \* TrendUpPullbackConfig
          StrategyEnabled,    \* strategies.enabled
          MaxTime             \* bound on the clock

VARIABLES now,
          stored,             \* the reference bars in the database
          indicator,          \* IndicatorSnapshotModel rows of each bar, or NoSnapshot
          snapshot,           \* MarketRegimeSnapshotModel row of each bar, or NoSnapshot
          runs                \* StrategyRunModel rows

vars == <<now, stored, indicator, snapshot, runs>>

ASSUME SignalAssumption ==
    /\ {Bars, BarWidth, DecisionInterval} \subseteq Nat \ {0}
    /\ {SignalDelay, MaxTime, MinRsi, MaxRsi, MaxCloseAbove} \subseteq Nat
    /\ StrategyEnabled \in BOOLEAN
    /\ Readings \subseteq [RegimeInputs \cup {"rsi", "close"} -> Int \cup {Missing}]
    /\ NoSnapshot \notin [regime: MarketRegime, candidate: MarketRegime,
                          starts: Nat, confirmed: Nat]

BarNumbers == 1..Bars
BarEnd(n) == n * BarWidth

SnapshotRow == [ regime: MarketRegime, candidate: MarketRegime,
                 starts: Nat, confirmed: Nat ]
RunRow      == [ bar: BarNumbers, at: Nat, regime: MarketRegime, intent: BOOLEAN ]

TypeOK ==
    /\ now \in Nat
    /\ stored \subseteq BarNumbers
    /\ \A n \in BarNumbers : indicator[n] # NoSnapshot => \A i \in DOMAIN indicator[n] :
          \E r \in Readings : indicator[n][i] = r[i]
    /\ snapshot \in [BarNumbers -> SnapshotRow \cup {NoSnapshot}]
    /\ runs \in Seq(RunRow)

Init ==
    /\ now = 0 /\ stored = {} /\ runs = <<>>
    /\ indicator = [n \in BarNumbers |-> NoSnapshot]
    /\ snapshot = [n \in BarNumbers |-> NoSnapshot]

-----------------------------------------------------------------------------

\* Mutant: a bar counts as soon as it ended.
UsableAtEnd(bars) == { n \in bars : BarEnd(n) <= now }

\* The bars _latest_signal_bar may look at: signal_available_at has passed.
Usable(bars) == { n \in bars : BarEnd(n) + SignalDelay <= now }

\* _latest_signal_bar
SignalBar(bars) == CHOOSE n \in Usable(bars) : \A m \in Usable(bars) : m <= n

\* calculate_and_cache of each indicator: inserted or overwritten; one that cannot
\* be calculated leaves the row there is.
Cached(n, r) ==
    [ i \in DOMAIN r |-> IF r[i] = Missing /\ indicator[n] # NoSnapshot
                         THEN indicator[n][i] ELSE r[i] ]

\* _previous_indicator_value: the EMA 50 of the last indicator row before bar n.
PreviousEma(n) ==
    LET rows == { m \in BarNumbers : /\ m < n /\ indicator[m] # NoSnapshot
                                     /\ indicator[m].ema50 # Missing }
    IN  IF rows = {} THEN Missing
        ELSE indicator[CHOOSE m \in rows : \A k \in rows : k <= m].ema50

\* Mutant: only a regime the bar itself proposes is confirmed.
DetectedUnconfirmed(n, r) ==
    LET candidate == Candidate(r, PreviousEma(n), now - BarEnd(n))
        t == Transition(candidate, Previous(snapshot, n),
                        Confirmations(snapshot, n, candidate), BarEnd(n), now)
    IN  [ regime |-> t.regime, candidate |-> candidate, starts |-> t.starts,
          confirmed |-> IF t.regime = candidate THEN now ELSE Missing ]

\* Mutant: a row keeps the time it was first written at.
DetectedOnce(n, r) ==
    LET candidate == Candidate(r, PreviousEma(n), now - BarEnd(n))
        t == Transition(candidate, Previous(snapshot, n),
                        Confirmations(snapshot, n, candidate), BarEnd(n), now)
    IN  [ regime |-> t.regime, candidate |-> candidate, starts |-> t.starts,
          confirmed |-> IF snapshot[n] = NoSnapshot THEN now ELSE snapshot[n].confirmed ]

\* detect_and_cache: the row of bar n, inserted or overwritten.
Detected(n, r) ==
    LET candidate == Candidate(r, PreviousEma(n), now - BarEnd(n))
        t == Transition(candidate, Previous(snapshot, n),
                        Confirmations(snapshot, n, candidate), BarEnd(n), now)
    IN  [ regime |-> t.regime, candidate |-> candidate,
          starts |-> t.starts, confirmed |-> now ]

\* _decision_gate
DecisionDue(n) ==
    LET last == runs[Len(runs)]
    IN  runs = <<>> \/ (last.bar # n /\ now >= last.at + DecisionInterval)

\* Mutant: the strategy trusts the proposal of the bar, not its regime.
CreatesIntentOnProposal(row, r, age) ==
    /\ StrategyEnabled /\ age <= MaxDataAge /\ row.candidate = "trend_up"
    /\ \A i \in {"ema50", "ema200", "rsi", "atr"} : r[i] # Missing
    /\ r.close * RateScale <= r.ema50 * (RateScale + MaxCloseAbove)
    /\ r.close >= r.ema200 /\ r.rsi \in MinRsi..MaxRsi /\ r.atr > 0

\* evaluate_trend_up_pullback: a buy in an up-trend, on a fresh bar that pulled
\* back to EMA 50.
CreatesIntent(row, r, age) ==
    /\ StrategyEnabled
    /\ age <= MaxDataAge
    /\ row.regime = "trend_up"
    /\ \A i \in {"ema50", "ema200", "rsi", "atr"} : r[i] # Missing
    /\ r.close * RateScale <= r.ema50 * (RateScale + MaxCloseAbove)
    /\ r.close >= r.ema200
    /\ r.rsi \in MinRsi..MaxRsi
    /\ r.atr > 0

\* PaperRuntime.tick from the refresh to StrategyEngine.run.
Tick(new, r) ==
    LET bars == stored \cup new
        n    == SignalBar(bars)
        read == Cached(n, r)
        row  == Detected(n, read)
    IN  /\ now < MaxTime /\ now' = now + 1
        /\ stored' = bars
        /\ IF Usable(bars) = {} THEN UNCHANGED <<indicator, snapshot, runs>>
           ELSE /\ indicator' = [indicator EXCEPT ![n] = read]
                /\ snapshot' = [snapshot EXCEPT ![n] = row]
                /\ runs' = IF DecisionDue(n)
                           THEN Append(runs, [ bar |-> n, at |-> now, regime |-> row.regime,
                                               intent |-> CreatesIntent(row, read, now - BarEnd(n)) ])
                           ELSE runs

\* The refresh may bring any bars that have ended: the provider leaves some out.
RefreshedTick ==
    \E new \in SUBSET { n \in BarNumbers \ stored : BarEnd(n) <= now }, r \in Readings :
        Tick(new, r)

\* No tick, or one that failed and was rolled back.
Pass == now < MaxTime /\ now' = now + 1 /\ UNCHANGED <<stored, indicator, snapshot, runs>>

Next == RefreshedTick \/ Pass
Spec == Init /\ [][Next]_vars

-----------------------------------------------------------------------------
(* Properties *)

Written == { n \in BarNumbers : snapshot[n] # NoSnapshot }

\* The last count snapshots up to bar n.
LastWritten(n, count) ==
    { m \in Written : m <= n /\ Cardinality({ k \in Written : m < k /\ k <= n }) < count }

\* Bar n and the snapshots before it have proposed this regime often enough.
ProposedOftenEnough(n, regime) ==
    LET rows == LastWritten(n, ConfirmationBars)
    IN  /\ Cardinality(rows) = ConfirmationBars
        /\ \A m \in rows : snapshot[m].candidate = regime

\* A regime gives way to another one only when the last ConfirmationBars
\* snapshots proposed it without a break and the one before was last confirmed
\* a cooldown ago -- unless one of the two is no_trade.
SwitchesAreConfirmed ==
    \A n \in Written :
        LET s == snapshot[n]
            p == Previous(snapshot, n)
        IN  p # NoSnapshot /\ "no_trade" \notin {s.regime, p.regime} /\ s.regime # p.regime =>
                /\ ProposedOftenEnough(n, s.regime)
                /\ s.confirmed - p.confirmed >= Cooldown

\* starts_at is the end of the first bar of the unbroken stretch of snapshots
\* with that regime, through every rewrite and every switch that was held back.
StartsAtTheFirstBar ==
    \A n \in Written : snapshot[n].regime # "no_trade" =>
        \E m \in Written :
            /\ BarEnd(m) = snapshot[n].starts /\ m <= n
            /\ \A k \in Written : m <= k /\ k <= n => snapshot[k].regime = snapshot[n].regime
            /\ Previous(snapshot, m) # NoSnapshot =>
                   Previous(snapshot, m).regime # snapshot[n].regime

\* Rows are well formed, and what a strategy run saw and what the snapshot it refers to says differ only
\* when the snapshot was written again after the run.
RunsAgreeWithSnapshots ==
    TypeOK /\ \A i \in 1..Len(runs) :
        LET s == snapshot[runs[i].bar]
        IN  /\ s # NoSnapshot
            /\ s.regime # runs[i].regime => s.confirmed > runs[i].at

\* A run on a bar past MaxDataAge sees no_trade.  A run that buys uses a bar whose
\* time had come, and its up-trend was proposed by that bar or an earlier one and
\* kept since: no snapshot in between proposed no_trade or has another regime.
RunsActOnLiveTrends ==
    \A i \in 1..Len(runs) :
        LET n   == runs[i].bar
            age == runs[i].at - BarEnd(n)
        IN  /\ age > MaxDataAge => runs[i].regime = "no_trade"
            /\ runs[i].intent => age >= SignalDelay
            /\ runs[i].intent /\ snapshot[n].confirmed = runs[i].at =>
                 \E m \in Written :
                     /\ m <= n /\ snapshot[m].candidate = "trend_up"
                     /\ \A k \in Written : m <= k /\ k <= n =>
                          snapshot[k].candidate # "no_trade" /\ snapshot[k].regime = "trend_up"

\* Rows are written only for a bar that may be used, and never for one that an
\* evaluated bar has followed: the past of a regime is not rewritten.
PastRowsStay ==
    [][\A n \in BarNumbers :
          snapshot'[n] # snapshot[n] \/ indicator'[n] # indicator[n] =>
              /\ BarEnd(n) + SignalDelay <= now
              /\ \A m \in Written : m <= n]_vars

-----------------------------------------------------------------------------
(* What the documents say and the code does not do *)

\* ROADMAP.md, Hysteresis: "Do not switch regime on one candle.": between two
\* different regimes there are at least ConfirmationBars snapshots that propose
\* the new one.
NoSwitchOnOneCandle ==
    \A m, n \in Written :
        /\ m < n /\ "no_trade" \notin {snapshot[m].regime, snapshot[n].regime}
        /\ snapshot[m].regime # snapshot[n].regime
        => \E k \in Written :
              m < k /\ k <= n /\ ProposedOftenEnough(k, snapshot[n].regime)

=============================================================================

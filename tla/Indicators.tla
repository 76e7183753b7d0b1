------------------------------ MODULE Indicators ------------------------------
(***************************************************************************)
(* The indicators of indicators/calculators.py over a history of closed    *)
(* bars: EMA, RSI, ATR, ADX and the Bollinger band width.  Prices are       *)
(* integers; an indicator is an integer over Unit, which the bounds make    *)
(* large enough for every average of prices to be exact.  The ratios of RSI *)
(* and ADX are rounded down; the band width is kept as its square.          *)
(*                                                                         *)
(* The running averages are recursive functions over the positions of a    *)
(* sequence, as the loops of the code are.                                  *)
(***************************************************************************)
EXTENDS Integers, Sequences, FiniteSets, FiniteSetsExt

CONSTANTS Candles,            \* the [high, low, close] a bar may have
          EmaPeriod, Period,  \* of the EMA, and of RSI, ATR and ADX
          Unit,
          Undefined,          \* None
          MaxHistory          \* bound on the history

VARIABLE history              \* the closed bars, oldest first

Square(x) == x * x

\* base to the power of n, as a recursive function.
Power(base, n) ==
    LET power[i \in 0..n] == IF i = 0 THEN 1 ELSE base * power[i - 1] IN power[n]

ASSUME IndicatorAssumption ==
    /\ Candles \subseteq { c \in [high: Nat, low: Nat, close: Nat] : c.close \in c.low..c.high }
    /\ EmaPeriod \in Nat \ {0} /\ Period \in Nat \ {0, 1}
    /\ Unit \in Nat \ {0} /\ MaxHistory \in Nat /\ Undefined \notin Int
    /\ (Unit % (EmaPeriod * Power(EmaPeriod + 1, MaxHistory))) = 0
    /\ (Unit % Power(Period, MaxHistory)) = 0

Abs(x)    == IF x < 0 THEN -x ELSE x
Larger(x, y) == IF x > y THEN x ELSE y

\* sum(...) of the values up to position n.
SumTo(values, n) ==
    LET sum[i \in 0..n] == IF i = 0 THEN 0 ELSE sum[i - 1] + values[i] IN sum[n]

-----------------------------------------------------------------------------
(* Averages *)

Closes(bars) == [n \in DOMAIN bars |-> bars[n].close * Unit]

\* Mutant: the average starts from the first close.
EmaFromFirst(bars) ==
    LET ema[n \in 1..Len(bars)] ==
            IF n = 1 THEN Closes(bars)[1]
            ELSE ema[n - 1] + (2 * (Closes(bars)[n] - ema[n - 1])) \div (EmaPeriod + 1)
    IN  ema[Len(bars)]

\* calculate_ema: the mean of the first period closes, smoothed over the others.
Ema(bars) ==
    LET close == Closes(bars)
        ema[n \in EmaPeriod..Len(bars)] ==
            IF n = EmaPeriod THEN SumTo(close, EmaPeriod) \div EmaPeriod
            ELSE ema[n - 1] + (2 * (close[n] - ema[n - 1])) \div (EmaPeriod + 1)
    IN  ema[Len(bars)]

\* Mutant: the second value that exists starts the average.
RmaFromTheSecond(values) ==
    LET existing(n) == { i \in 1..n : values[i] # Undefined }
        average[n \in 0..Len(values)] ==
            IF n = 0 THEN Undefined
            ELSE IF values[n] = Undefined THEN average[n - 1]
            ELSE IF Cardinality(existing(n)) <= 2 THEN values[n]
            ELSE (values[n] + (Period - 1) * average[n - 1]) \div Period
    IN  [n \in 1..Len(values) |-> IF values[n] = Undefined THEN Undefined ELSE average[n]]

\* _rma_optional: the first value that exists starts the average; a missing
\* value leaves it alone and is missing in the result.
Rma(values) ==
    LET average[n \in 0..Len(values)] ==
            IF n = 0 THEN Undefined
            ELSE IF values[n] = Undefined THEN average[n - 1]
            ELSE IF average[n - 1] = Undefined THEN values[n]
            ELSE (values[n] + (Period - 1) * average[n - 1]) \div Period
    IN  [n \in 1..Len(values) |-> IF values[n] = Undefined THEN Undefined ELSE average[n]]

Last(values) == values[Len(values)]

\* Mutant: gaps between two bars do not count.
TrueRangeOfBar(bars, n) == (bars[n].high - bars[n].low) * Unit

\* _true_range, of the first bar its own range.
TrueRange(bars, n) ==
    LET bar == bars[n]
    IN  Unit * (IF n = 1 THEN bar.high - bar.low
                ELSE Max({ bar.high - bar.low, Abs(bar.high - bars[n - 1].close),
                           Abs(bar.low - bars[n - 1].close) }))

\* The mean of the true ranges from position first to last at position at, the
\* single ranges after it, nothing before.
Presmoothed(bars, first, last, at) ==
    [n \in 1..Len(bars) |->
        IF n < at THEN Undefined
        ELSE IF n > at THEN TrueRange(bars, n)
        ELSE SumTo([m \in 1..(last - first + 1) |-> TrueRange(bars, first + m - 1)],
                   last - first + 1) \div (last - first + 1)]

\* calculate_atr
Atr(bars) == Last(Rma(Presmoothed(bars, 1, Period, Period)))

\* _atr_series, for ADX: without the first bar's range.
AtrSeries(bars) == Rma(Presmoothed(bars, 2, Period, Period))

-----------------------------------------------------------------------------
(* Ratios *)

Changes(bars) == [n \in 1..(Len(bars) - 1) |-> Unit * (bars[n + 1].close - bars[n].close)]

\* Mutant: losses keep their sign.
RatioSigned(gain, loss) == IF gain + loss = 0 THEN 0 ELSE (100 * Unit * gain) \div (gain + loss)

\* Mutant: without movement the index is in the middle.
RatioFlatInTheMiddle(gain, loss) ==
    IF gain = 0 /\ loss = 0 THEN 50 * Unit ELSE (100 * Unit * gain) \div (gain + Abs(loss))

\* 100 * gain / (gain + |loss|); a history that stood still has RSI 0.
Ratio(gain, loss) ==
    IF gain = 0 /\ loss = 0 THEN 0 ELSE (100 * Unit * gain) \div (gain + Abs(loss))

\* calculate_rsi
Rsi(bars) ==
    LET change == Changes(bars)
        gains  == [n \in DOMAIN change |-> Larger(change[n], 0)]
        losses == [n \in DOMAIN change |-> -Larger(-change[n], 0)]
    IN  Ratio(Last(Rma(gains)), Last(Rma(losses)))

\* Directional movement into bar n: up minus down, the larger one counts.
PlusMove(bars, n) ==
    LET up == bars[n].high - bars[n - 1].high  down == bars[n - 1].low - bars[n].low
    IN  IF up > down /\ up > 0 THEN up * Unit ELSE 0
MinusMove(bars, n) ==
    LET up == bars[n].high - bars[n - 1].high  down == bars[n - 1].low - bars[n].low
    IN  IF down > up /\ down > 0 THEN down * Unit ELSE 0

\* The running average of movements from the second bar on.
Moves(move, count) == Rma([n \in 1..count |-> IF n = 1 THEN Undefined ELSE move[n]])

\* Mutant: a bar without movement has no index.
DirectionalIndexOrNone(atr, plus, minus) ==
    IF Undefined \in {atr, plus, minus} \/ atr = 0 \/ plus + minus = 0 THEN Undefined
    ELSE (100 * Unit * Abs(plus - minus)) \div (plus + minus)

\* The average range cancels, unless it is zero.
DirectionalIndex(atr, plus, minus) ==
    IF Undefined \in {atr, plus, minus} \/ atr = 0 THEN Undefined
    ELSE IF plus + minus = 0 THEN 0
    ELSE (100 * Unit * Abs(plus - minus)) \div (plus + minus)

\* calculate_adx; Undefined is its failed assertion.
Adx(bars) ==
    LET atr   == AtrSeries(bars)
        plus  == Moves([n \in 2..Len(bars) |-> PlusMove(bars, n)], Len(bars))
        minus == Moves([n \in 2..Len(bars) |-> MinusMove(bars, n)], Len(bars))
    IN  Last(Rma([n \in 1..Len(bars) |-> DirectionalIndex(atr[n], plus[n], minus[n])]))

-----------------------------------------------------------------------------
(* Spread *)

\* Mutant: the first closes, not the last ones.
WindowFromTheStart(bars) == [n \in 1..Period |-> bars[n].close]

\* bars[-period:]
Window(bars) == [n \in 1..Period |-> bars[Len(bars) - Period + n].close]

\* calculate_bollinger_band_width with two standard deviations and ddof = 1, as the
\* square of the width, which is 100 * 4 * deviation / mean: a ratio of integers.
\* A mean of zero is a ValueError.
BandWidthSquared(bars) ==
    LET close == Window(bars)
        total == SumTo(close, Period)
        apart == SumTo([n \in 1..Period |-> Square(Period * close[n] - total)], Period)
    IN  IF total = 0 THEN Undefined
        ELSE [over |-> 160000 * apart, under |-> (Period - 1) * Square(total)]

-----------------------------------------------------------------------------
(* A history grows by one closed bar at a time. *)

HistoryInit == history = <<>>
HistoryNext ==
    /\ Len(history) < MaxHistory
    /\ \E c \in Candles : history' = Append(history, c)
HistorySpec == HistoryInit /\ [][HistoryNext]_history

-----------------------------------------------------------------------------
(* Properties *)

\* Where an indicator has enough bars it has a value on its scale, except ADX,
\* which may be missing.
IndicatorsInRange ==
    /\ history \in Seq(Candles)
    /\ Len(history) > Period => Rsi(history) \in 0..(100 * Unit) /\ Atr(history) >= 0
    /\ Len(history) >= 2 * Period => Adx(history) \in 0..(100 * Unit) \cup {Undefined}

\* The EMA is the mean of the closes with the weights of the textbook: each later
\* close counts 2 / (period + 1), and (period - 1) / (period + 1) less with each
\* close after it; what is left is the mean of the first period closes.
EmaIsWeightedMean ==
    Len(history) >= EmaPeriod =>
        LET later == Len(history) - EmaPeriod
            close == Closes(history)
        IN  Ema(history) * EmaPeriod * Power(EmaPeriod + 1, later)
              = SumTo(close, EmaPeriod) * Power(EmaPeriod - 1, later)
                + EmaPeriod * SumTo([n \in 1..later |->
                      2 * Power(EmaPeriod - 1, later - n) * Power(EmaPeriod + 1, n - 1)
                        * close[EmaPeriod + n]], later)

\* Wilder's running average of the values from position first to last, as the numerator
\* over Power(Period, last - first): the first value starts it, and each later one counts
\* 1 / Period, the average before it the rest.
WilderSum(values, first, last) ==
    LET later == last - first
    IN  Power(Period - 1, later) * values[first]
        + SumTo([n \in 1..later |-> Power(Period - 1, later - n) * Power(Period, n - 1)
                                      * values[first + n]], later)

\* A share of nothing is zero.
Percent(part, whole) == IF whole = 0 THEN 0 ELSE (100 * Unit * part) \div whole

\* The ATR is Wilder's average of the moves of the price from one bar to the next,
\* gaps included: it starts with the mean of the first Period moves.
AtrIsWildersAverage ==
    Len(history) > Period =>
        LET low(n)  == IF n = 1 THEN history[1].low ELSE Min({history[n].low, history[n - 1].close})
            high(n) == IF n = 1 THEN history[1].high ELSE Max({history[n].high, history[n - 1].close})
            moved   == [n \in DOMAIN history |-> Unit * (high(n) - low(n))]
            terms   == [n \in DOMAIN history |->
                           IF n = Period THEN SumTo(moved, Period) ELSE Period * moved[n]]
        IN  Atr(history) * Period * Power(Period, Len(history) - Period)
              = WilderSum(terms, Period, Len(history))

\* The RSI is the share of the gains, among gains and losses, of the closes from one bar
\* to the next, each averaged Wilder's way from the first change on.
RsiIsWildersShare ==
    Len(history) > Period =>
        LET last == Len(history) - 1
            rose == [n \in 1..last |-> Larger(history[n + 1].close - history[n].close, 0)]
            fell == [n \in 1..last |-> Larger(history[n].close - history[n + 1].close, 0)]
            gain == WilderSum(rose, 1, last)
            loss == WilderSum(fell, 1, last)
        IN  Rsi(history) = Percent(gain, gain + loss)

\* The band follows how far apart the last closes are: it is at least as wide as the
\* lowest and the highest of them alone make it, and at most as wide as if every
\* other close were one of the two.
BandWidthFollowsTheRange ==
    Len(history) >= Period =>
        LET width == BandWidthSquared(history)
            last  == { history[n].close : n \in (Len(history) - Period + 1)..Len(history) }
            range == Max(last) - Min(last)
            total == SumTo([n \in 1..Period |-> history[Len(history) - Period + n].close], Period)
            scale == 160000 * Square(Period * range)
        IN  IF last = {0} THEN width = Undefined
            ELSE /\ 2 * width.over * (Period - 1) * Square(total) >= scale * width.under
                 /\ 4 * width.over * (Period - 1) * Square(total) <= Period * scale * width.under

\* Turning the market upside down exchanges gains and losses: the two RSI add up
\* to 100, less a unit of rounding.  Only a market that never moved has the RSI of one that only fell, 0.
RsiMirrors ==
    Len(history) > Period =>
        LET top    == Max({ history[n].high : n \in DOMAIN history })
            mirror == [n \in DOMAIN history |->
                         [ high |-> top - history[n].low, low |-> top - history[n].high,
                           close |-> top - history[n].close ]]
            flat   == \A n \in DOMAIN history : history[n].close = history[1].close
        IN  Rsi(history) + Rsi(mirror) \in
                IF flat THEN {0} ELSE {100 * Unit - 1, 100 * Unit}

\* calculate_adx is Wilder's average of the directional indexes, at most Period - 1 units
\* below it, as it is rounded down at every bar: from the first bar of at least Period at which the price has moved since
\* the first one.  Without such a bar its assertion fails, and the tick with it, as only
\* ValueError is caught.
AdxIsWildersAverage ==
    Len(history) >= 2 * Period =>
        LET last    == Len(history)
            up      == [n \in 2..last |-> history[n].high - history[n - 1].high]
            down    == [n \in 2..last |-> history[n - 1].low - history[n].low]
            plus    == [n \in 2..last |-> IF up[n] > Larger(down[n], 0) THEN up[n] ELSE 0]
            minus   == [n \in 2..last |-> IF down[n] > Larger(up[n], 0) THEN down[n] ELSE 0]
            index   == [n \in 2..last |->
                           LET rise == WilderSum(plus, 2, n)  fall == WilderSum(minus, 2, n)
                           IN  Percent(Abs(rise - fall), rise + fall)]
            moved   == { n \in Period..last : \E k \in 2..n : TrueRange(history, k) > 0 }
            first   == Min(moved)
            scale   == Power(Period, last - first)
            exact   == WilderSum(index, first, last)
        IN  /\ Adx(history) = Undefined <=> moved = {}
            /\ moved # {} => Adx(history) * scale \in (exact - (Period - 1) * scale)..exact

\* Every calculator against its reference, over every history.
IndicatorsMatchTheirDefinitions ==
    /\ IndicatorsInRange
    /\ EmaIsWeightedMean
    /\ AtrIsWildersAverage
    /\ BandWidthFollowsTheRange
    /\ RsiIsWildersShare
    /\ RsiMirrors
    /\ AdxIsWildersAverage

===============================================================================

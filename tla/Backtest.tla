------------------------------- MODULE Backtest -------------------------------
(***************************************************************************)
(* BacktestEngine.run (backtests/service.py): the strategy, RiskManager and *)
(* PaperBroker replayed over stored bars on an account made for the run.    *)
(* Bar n is replayed at instant n and evaluated a latency later; quote k    *)
(* was observed at instant k.  The account, the dataset identity and the    *)
(* run's rows are written in one transaction: an exception leaves nothing.  *)
(***************************************************************************)
EXTENDS RiskPolicy, FiniteSetsExt, Functions

CONSTANTS Account, Instrument, Source, Bank, NoDecision,
          InitialCash,        \* [{Account} -> Nat]
          QuotedPrices,       \* the <<buy, sell>> pairs of the stored quotes
          OrderCash,          \* cash_amount of a strategy intent
          Latency,            \* decision_latency
          DrawdownScale,      \* a drawdown is an integer over it
          BarCount            \* bound on the bars of the range

VARIABLES bar,                \* the bar in replay
          pc,
          quote,              \* stored quotes; fixed
          wallet, position, orders, trades, ledger, decision,
          intents,            \* cash and bar of each TradeIntentModel row
          portfolio,          \* _PortfolioState: peak and current drawdown
          curve,              \* portfolio_curve
          unfilled            \* bars of no_trade_reasons and of rejected_trades

book         == <<wallet, position, orders, trades, ledger>>
backtestVars == <<bar, pc, quote, book, decision, intents, portfolio, curve, unfilled>>

QuoteIds  == 0..(BarCount + Latency)
IntentIds == 1..BarCount

Broker == INSTANCE PaperBroker WITH
            Accounts <- {Account}, Instruments <- {Instrument}, DecisionIds <- IntentIds,
            OpeningCash <- InitialCash, Approvals <- {}, Prices <- {}

\* The prices are those the table admits, or refused for their spread.
ASSUME BacktestAssumption ==
    /\ {OrderCash, DrawdownScale, BarCount} \subseteq Nat \ {0}
    /\ Latency \in Nat /\ InitialCash \in [{Account} -> Nat \ {0}]
    /\ Bank.step \in Nat \ {0} /\ Bank.minTrade \in Nat
    /\ QuotedPrices \subseteq {p \in Nat \X Nat : p[1] <= p[2]}
    /\ MaxSpread < RateScale \/ \A p \in QuotedPrices : p[2] > 0

Point == [total: Nat, drawdown: 0..DrawdownScale]

BacktestTypeOK ==
    /\ Broker!BookTypeOK
    /\ bar \in 1..(BarCount + 1)
    /\ pc \in {"strategy", "risk", "execute", "point", "done", "aborted"}
    /\ intents \in Seq([bar: 1..BarCount, cash: Nat \ {0}])
    /\ curve \in Seq(Point)
    /\ portfolio.peak \in Nat /\ portfolio.drawdown \in 0..DrawdownScale
    /\ unfilled \subseteq 1..BarCount

StoredQuote(k, p) ==
    [ instrument |-> Instrument, source |-> Source, buy |-> p[1], sell |-> p[2],
      observed |-> k, fetched |-> k, status |-> "fresh" ]

ASSUME ReplayRowAssumption ==
    /\ NoDecision \notin Broker!DecisionRow
    /\ NoQuote \notin QuoteIds \cup Broker!QuoteRow
    /\ \A k \in QuoteIds, p \in QuotedPrices : StoredQuote(k, p) # NoQuote

\* _create_simulated_account and the first point, without a quote.
BacktestInit ==
    /\ Broker!BookInit
    /\ decision = [n \in IntentIds |-> NoDecision]
    /\ \E prices \in [QuoteIds -> QuotedPrices \cup {NoQuote}] :
          quote = [k \in QuoteIds |->
                     IF prices[k] = NoQuote THEN NoQuote ELSE StoredQuote(k, prices[k])]
    /\ bar = 1 /\ pc = "strategy" /\ intents = <<>> /\ unfilled = {}
    /\ portfolio = [peak |-> InitialCash[Account], drawdown |-> 0]
    /\ curve = <<[total |-> InitialCash[Account], drawdown |-> 0]>>

-----------------------------------------------------------------------------

\* The simulated clock of the bar.
EvaluatedAt == bar + Latency

Newest == LatestQuotes(quote, Instrument, Source, EvaluatedAt)

Held == position[Account][Instrument]

\* _position_value, and that of _portfolio_point
PositionValue ==
    IF Newest = {} THEN 0
    ELSE HalfEven(Held.quantity * quote[CHOOSE k \in Newest : TRUE].buy, QuantityScale)

\* StrategyEngine.run finds an intent or does not.
RunStrategy(signal) ==
    /\ pc = "strategy" /\ bar <= BarCount
    /\ IF signal
       THEN /\ intents' = Append(intents, [bar |-> bar, cash |-> OrderCash])
            /\ pc' = "risk" /\ UNCHANGED unfilled
       ELSE unfilled' = unfilled \cup {bar} /\ pc' = "point" /\ UNCHANGED intents
    /\ UNCHANGED <<bar, quote, book, decision, portfolio, curve>>

\* Mutant: the context of the worker, without the drawdown.
ReplayContextUndrawn ==
    [ positionCash |-> PositionValue, drawdown |-> 0, dailyLoss |-> 0,
      edge |-> 0, divergence |-> Missing, cooldown |-> FALSE, noTrade |-> FALSE,
      event |-> NoEvent ]

\* Mutant: the context of the worker, without the position.
ReplayContextUnexposed ==
    [ positionCash |-> 0, drawdown |-> portfolio.drawdown, dailyLoss |-> 0,
      edge |-> 0, divergence |-> Missing, cooldown |-> FALSE, noTrade |-> FALSE,
      event |-> NoEvent ]

\* The position at this bar's quote, the drawdown of the previous bar.
ReplayContext ==
    [ positionCash |-> PositionValue, drawdown |-> portfolio.drawdown, dailyLoss |-> 0,
      edge |-> 0, divergence |-> Missing, cooldown |-> FALSE, noTrade |-> FALSE,
      event |-> NoEvent ]

\* The listing of the account's own instrument.
ReplayListing ==
    [ known |-> TRUE, active |-> TRUE, sameVenue |-> TRUE, allowed |-> TRUE,
      hasBank |-> TRUE, bankActive |-> TRUE, sameBank |-> TRUE,
      mapped |-> TRUE, matches |-> TRUE ]

ReplayRisk ==
    /\ pc = "risk"
    /\ LET n == Len(intents)
           k == IF Newest = {} THEN NoQuote ELSE CHOOSE q \in Newest : TRUE
           p == Payload(intents[n].cash, ReplayListing, Bank, wallet[Account],
                        IF k = NoQuote THEN NoQuote ELSE quote[k], ReplayContext, EvaluatedAt)
       IN  /\ decision' = [decision EXCEPT ![n] =
                 [ account |-> Account, instrument |-> Instrument,
                   outcome |-> p.outcome, quantity |-> p.quantity, quote |-> k ]]
           /\ IF p.outcome = "reject"
              THEN unfilled' = unfilled \cup {bar} /\ pc' = "point"
              ELSE pc' = "execute" /\ UNCHANGED unfilled
    /\ UNCHANGED <<bar, quote, book, intents, portfolio, curve>>

\* Every approved intent is bought, on the quote of its decision.  If the broker
\* raises, so does the run, and nothing of it is kept.
ReplayExecute ==
    /\ pc = "execute"
    /\ LET n == Len(intents)
       IN  IF Broker!Accepts(n, "buy", NoQuote)
           THEN Broker!Execute(n, "buy", NoQuote) /\ pc' = "point"
           ELSE pc' = "aborted" /\ UNCHANGED <<book, decision, quote>>
    /\ UNCHANGED <<bar, intents, portfolio, curve, unfilled>>

\* The fall from a peak, of the curve and of _PortfolioState alike.
Drawdown(peak, total) ==
    IF peak <= 0 THEN 0 ELSE HalfEven((peak - total) * DrawdownScale, peak)

\* Mutant: the fall since the last bar only.
UpdatedFromLast(total) ==
    [ peak |-> total, drawdown |-> Drawdown(Max({portfolio.peak, total}), total) ]

\* _PortfolioState.update
Updated(total) ==
    LET peak == Max({portfolio.peak, total})
    IN  [ peak |-> peak, drawdown |-> Drawdown(peak, total) ]

\* _portfolio_point with the newest quote, and the next bar.
AddPoint ==
    LET total == wallet[Account] + PositionValue
        peak  == Max({portfolio.peak, InitialCash[Account], total})
    IN  /\ pc = "point"
        /\ curve' = Append(curve, [total |-> total, drawdown |-> Drawdown(peak, total)])
        /\ portfolio' = Updated(total)
        /\ bar' = bar + 1
        /\ pc' = IF bar = BarCount THEN "done" ELSE "strategy"
        /\ UNCHANGED <<quote, book, decision, intents, unfilled>>

BacktestNext ==
    \/ \E signal \in BOOLEAN : RunStrategy(signal)
    \/ ReplayRisk \/ ReplayExecute \/ AddPoint

BacktestSpec == BacktestInit /\ [][BacktestNext]_backtestVars

-----------------------------------------------------------------------------
(* The report *)

TotalOf(amounts) == SumFunctionOnSet(amounts, DOMAIN amounts)

\* Mutant: the spread is not a cost.
TotalCostsWithoutSpread == TotalOf([n \in DOMAIN trades |-> trades[n].fees + trades[n].taxes])

\* _total_costs
TotalCosts ==
    TotalOf([n \in DOMAIN trades |-> trades[n].fees + trades[n].taxes + trades[n].spread])

FinalValue     == curve[Len(curve)].total
PnlAfterCosts  == FinalValue - InitialCash[Account]
PnlBeforeCosts == PnlAfterCosts + TotalCosts
MaxReported    == Max({ curve[n].drawdown : n \in DOMAIN curve })

-----------------------------------------------------------------------------
(* Properties *)

\* The profit before costs is what the metal gained in the bank's own price since
\* it was bought, up to the roundings of each trade: fees, taxes and spread are
\* the whole difference between the market and the account.
CostsExplainTheProfit ==
    pc = "done" /\ Newest # {} =>
        LET price == quote[CHOOSE k \in LatestQuotes(quote, Instrument, Source,
                                                     BarCount + Latency) : TRUE].buy
            gain  == TotalOf([n \in DOMAIN trades |->
                       trades[n].quantity * (price - quote[trades[n].quote].buy)])
            slack == QuantityScale * (2 * Len(trades) + 1)
        IN  2 * (QuantityScale * PnlBeforeCosts - gain) \in -slack .. slack

\* The reported drawdown is the deepest fall between any two points of the curve,
\* and what risk is told is the fall from the highest point so far.
DrawdownIsTheDeepestFall ==
    LET fall(m, n) == Drawdown(curve[m].total, curve[n].total)
        falls(n)   == { fall(m, n) : m \in 1..n }
    IN  /\ portfolio.drawdown = Max(falls(Len(curve)))
        /\ MaxReported = Max(UNION { falls(n) : n \in DOMAIN curve })

\* The report explains the account.
CurveTellsTheProfit == BacktestTypeOK /\ CostsExplainTheProfit /\ DrawdownIsTheDeepestFall

\* No bar is bought at after a bar that ended in a drawdown beyond the limit.
BuysStopInADrawdown ==
    \A n \in DOMAIN orders : curve[intents[orders[n].decision].bar].drawdown <= MaxDrawdown

\* A buy never takes the position beyond max_position_cash, valued at the quote it
\* is made on: the replay passes its exposure on, which the worker does not.
ReplayStaysWithinLimit ==
    pc = "execute" =>
        LET row == decision[Len(intents)]
        IN  PositionValue + SizedCash(row.quantity, quote[row.quote]) <= MaxPositionCash

\* The run breaks off for one reason only: risk compared the order with the cash
\* without the costs that the broker then asks for.
AbortsForCostsOnly ==
    pc = "aborted" =>
        LET row   == decision[Len(intents)]
            costs == Broker!CostsOf(Len(intents), "buy", row.quote)
        IN  /\ wallet[Account] >= SizedCash(row.quantity, quote[row.quote])
            /\ wallet[Account] < costs.net

\* What the replay may buy, and the one way in which it fails.
ReplayKeepsItsLimits == BuysStopInADrawdown /\ ReplayStaysWithinLimit /\ AbortsForCostsOnly

===============================================================================

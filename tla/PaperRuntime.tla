---------------------------- MODULE PaperRuntime ---------------------------
(***************************************************************************)
(* The worker (runtime/paper_loop.py): PaperRuntime.tick and the loop that  *)
(* repeats it.  A tick is one database transaction: collect a quote, build  *)
(* the last closed bar, pass the warm-up gates, pass the decision gate, run *)
(* the strategy, derive exits, and send every intent through RiskManager    *)
(* and PaperBroker.  It commits once, with the tick record, or rolls back   *)
(* and commits a failed tick record alone.                                  *)
(*                                                                          *)
(* The book, the decisions, the intents and the runs are the session's      *)
(* view; saved is what is committed.  Regimes, signals and warm-up come     *)
(* from other components and are chosen freely.                             *)
(***************************************************************************)
EXTENDS RiskPolicy, FiniteSets

CONSTANTS Account, Instrument, Source, Bank, NoDecision,
          OpeningCash,        \* [{Account} -> Nat]
          Prices,             \* the <<buy, sell>> pairs the bank may quote
          OrderCash,          \* order_cash_amount of the strategy
          CollectInterval,    \* runtime_collect_interval_seconds, in instants
          DecisionInterval,   \* runtime_decision_interval_seconds, in instants
          BarWidth,           \* the 5m of runtime_bar_timeframe, in instants
          SignalWidth,        \* runtime_reference_timeframe, in instants
          StopLoss, TakeProfit, ExitFraction,   \* over RateScale; StopLoss > 0 is a loss
          MaxCollected,       \* bound on the optional collector's quotes; 0: not running
          MaxTime, MaxIntents \* bounds on the clock and on the intents of a run

VARIABLES now, pc, tickAt, wakeAt,
          mine,               \* the quote this tick inserted, or NoQuote
          todo,               \* the intents this tick still has to send to risk
          barEnd,             \* bar_end_at of the latest usable signal bar
          quote, wallet, position, orders, trades, ledger, decision,
          intents,            \* TradeIntentModel rows; intent n has decision n
          runs,               \* StrategyRunModel rows
          saved,              \* the committed session state
          status              \* RuntimeTickModel.status of the last tick

QuoteIds  == (IF MaxCollected > 0 THEN {"worker", "collector"} ELSE {"worker"}) \X (0..MaxTime)
IntentIds == 1..MaxIntents

Broker == INSTANCE PaperBroker WITH
            Accounts <- {Account}, Instruments <- {Instrument},
            DecisionIds <- IntentIds, Approvals <- {}

view    == <<wallet, position, orders, trades, ledger, decision, intents, runs>>
loop    == <<now, pc, tickAt, wakeAt, mine, todo, status>>
vars    == <<view, loop, barEnd, quote, saved>>

\* The provider reports no time of its own, so a quote is observed when it is
\* fetched: after the instant the tick calls now.
NewQuote(p, at) ==
    [ instrument |-> Instrument, source |-> Source, buy |-> p[1], sell |-> p[2],
      observed |-> at, fetched |-> at, status |-> "fresh" ]

\* The strategy refuses an order_cash_amount that is not positive; the provider
\* refuses prices that are not positive or that cross; quantity_step is positive.
ASSUME RuntimeAssumption ==
    /\ {CollectInterval, DecisionInterval, BarWidth, SignalWidth, OrderCash, Bank.step}
          \subseteq Nat \ {0}
    /\ {MaxTime, MaxIntents, MaxCollected, StopLoss, TakeProfit, Bank.minTrade} \subseteq Nat
    /\ ExitFraction \in 0..RateScale
    /\ OpeningCash \in [{Account} -> Nat]
    /\ Prices \subseteq {p \in (Nat \ {0}) \X Nat : p[1] <= p[2]}

\* A missing row is none of the rows.
ASSUME RowAssumption ==
    /\ NoDecision \notin Broker!DecisionRow
    /\ NoQuote \notin QuoteIds \cup Broker!QuoteRow
    /\ \A p \in Prices, at \in 0..MaxTime : NewQuote(p, at) # NoQuote

Snapshot == [ wallet |-> wallet, position |-> position, orders |-> orders,
              trades |-> trades, ledger |-> ledger, decision |-> decision,
              intents |-> intents, runs |-> runs ]

IntentRow == [side: Sides, cash: Nat \ {0}, run: Nat \ {0}]
RunRow    == [bar: 0..MaxTime, at: 0..MaxTime]

TypeOK ==
    /\ Broker!BookTypeOK
    /\ \A n \in IntentIds : decision[n] # NoDecision =>
          decision[n].quantity \in Nat /\ decision[n].quote \in QuoteIds \cup {NoQuote}
    /\ now \in 0..MaxTime /\ tickAt \in 0..MaxTime /\ barEnd \in 0..MaxTime
    /\ wakeAt \in 0..(MaxTime + CollectInterval)
    /\ pc \in {"asleep", "collect", "assess", "decide", "risk", "execute", "record", "failed"}
    /\ mine \in QuoteIds \cup {NoQuote}
    /\ todo \in Seq(IntentIds)
    /\ intents \in Seq(IntentRow) /\ runs \in Seq(RunRow)
    /\ status \in {"none", "ok", "warming_up", "failed"}

Init ==
    /\ Broker!Init
    /\ intents = <<>> /\ runs = <<>>
    /\ saved = Snapshot
    /\ now = 0 /\ pc = "asleep" /\ tickAt = 0 /\ wakeAt = 0
    /\ mine = NoQuote /\ todo = <<>> /\ barEnd = 0 /\ status = "none"

-----------------------------------------------------------------------------
(* The loop *)

\* main: now is read before the session opens.  (Bounds on time and intents.)
Wake ==
    /\ pc = "asleep" /\ now >= wakeAt
    /\ now + 2 <= MaxTime /\ Len(intents) + 2 <= MaxIntents
    /\ tickAt' = now /\ pc' = "collect"
    /\ UNCHANGED <<view, barEnd, quote, saved, now, wakeAt, mine, todo, status>>

Sleep ==
    /\ pc = "asleep" /\ now < wakeAt /\ now < MaxTime
    /\ now' = now + 1
    /\ UNCHANGED <<view, barEnd, quote, saved, pc, tickAt, wakeAt, mine, todo, status>>

CollectQuote ==
    /\ pc = "collect"
    /\ now' = now + 1
    /\ mine' = <<"worker", now + 1>>
    /\ \E p \in Prices : quote' = [quote EXCEPT ![mine'] = NewQuote(p, now + 1)]
    /\ pc' = "assess"
    /\ UNCHANGED <<view, barEnd, saved, tickAt, wakeAt, todo, status>>

\* The provider is unavailable or its data are refused.
FetchFails ==
    /\ pc = "collect"
    /\ now' = now + 1 /\ pc' = "failed"
    /\ UNCHANGED <<view, barEnd, quote, saved, tickAt, wakeAt, mine, todo, status>>

-----------------------------------------------------------------------------
(* The gates between the quote and the strategy *)

\* What tick calls now: every query and every rule of the tick uses it.
DecisionTime == tickAt

\* _build_latest_closed_bar: the last whole bar before now needs a fresh quote.
BarCloses ==
    LET end == (DecisionTime \div BarWidth) * BarWidth
    IN  \E k \in QuoteIds : quote[k] # NoQuote
                              /\ quote[k].observed \in (end - BarWidth)..(end - 1)

\* Mutant: only the interval gates a decision.
DecisionDueByInterval ==
    LET last == runs[Len(runs)]
    IN  runs = <<>> \/ DecisionTime >= last.at + DecisionInterval

\* _decision_gate: once per signal bar, and not before the interval is over.
DecisionDue ==
    LET last == runs[Len(runs)]
    IN  runs = <<>> \/ (last.bar # barEnd /\ DecisionTime >= last.at + DecisionInterval)

\* ready: the source gate is open and the warm-up complete.
Assess(ready) ==
    /\ pc = "assess"
    /\ IF ready /\ BarCloses /\ DecisionDue THEN pc' = "decide" /\ UNCHANGED status
       ELSE pc' = "record" /\ status' = IF ready /\ BarCloses THEN "ok" ELSE "warming_up"
    /\ UNCHANGED <<view, barEnd, quote, saved, now, tickAt, wakeAt, mine, todo>>

-----------------------------------------------------------------------------
(* Strategy, exits, risk, broker *)

Held == position[Account][Instrument]

PricedBy == LatestQuotes(quote, Instrument, Source, DecisionTime)

\* What a query for the latest quote may return: equal rows may tie, each time anew.
QuoteFound == IF PricedBy = {} THEN {NoQuote} ELSE PricedBy

\* _exit_intents: how much of the position the first matching rule sells.
ExitQuantity(regime, buyPrice) ==
    LET gain == (buyPrice - Held.average) * RateScale
    IN  IF regime = "trend_down" THEN Held.quantity
        ELSE IF regime = "high_volatility"
             THEN HalfEven(Held.quantity * ExitFraction, RateScale)
        ELSE IF gain <= -StopLoss * Held.average \/ gain >= TakeProfit * Held.average
             THEN Held.quantity
        ELSE 0

\* Mutant: every rule that matches sends an exit of its own.
ExitIntentsOfEveryRule(regime, run, k) ==
    IF Held.quantity <= 0 \/ k = NoQuote THEN <<>>
    ELSE LET exits == SelectSeq(<<ExitQuantity(regime, quote[k].buy),
                                  ExitQuantity("range", quote[k].buy)>>, LAMBDA q : q > 0)
         IN  [ n \in DOMAIN exits |->
                 [side |-> "sell", run |-> run,
                  cash |-> HalfEven(exits[n] * quote[k].buy, QuantityScale)] ]

ExitIntents(regime, run, k) ==
    IF Held.quantity <= 0 \/ k = NoQuote THEN <<>>
    ELSE LET price    == quote[k].buy
             quantity == ExitQuantity(regime, price)
         IN  IF quantity <= 0 THEN <<>>
             ELSE << [side |-> "sell", run |-> run,
                      cash |-> HalfEven(quantity * price, QuantityScale)] >>

\* StrategyEngine.run writes the run and, in an up-trend whose other conditions
\* hold, a buy; the exits are computed on the position before that buy.  The table
\* refuses an intent of no cash, which an exit of next to nothing rounds to.
Decide(regime, signal) ==
    \E k \in QuoteFound :
        LET run == Len(runs) + 1
            new == (IF regime = "trend_up" /\ signal
                    THEN <<[side |-> "buy", run |-> run, cash |-> OrderCash]>> ELSE <<>>)
                     \o ExitIntents(regime, run, k)
        IN  /\ pc = "decide"
            /\ IF \E n \in 1..Len(new) : new[n].cash = 0
               THEN pc' = "failed" /\ UNCHANGED <<runs, intents, todo, status>>
               ELSE /\ runs' = Append(runs, [bar |-> barEnd, at |-> DecisionTime])
                    /\ intents' = intents \o new
                    /\ todo' = [n \in 1..Len(new) |-> Len(intents) + n]
                    /\ IF new = <<>> THEN pc' = "record" /\ status' = "ok"
                                     ELSE pc' = "risk" /\ UNCHANGED status
            /\ UNCHANGED <<wallet, position, orders, trades, ledger, decision,
                           barEnd, quote, saved, now, tickAt, wakeAt, mine>>

\* _risk_context: no exposure, loss or drawdown is ever passed on.
RuntimeContext ==
    [ positionCash |-> 0, drawdown |-> 0, dailyLoss |-> 0, edge |-> 0,
      divergence |-> Missing, cooldown |-> FALSE, noTrade |-> FALSE, event |-> NoEvent ]

\* The listing bootstrap_paper_runtime seeds.
SeededListing ==
    [ known |-> TRUE, active |-> TRUE, sameVenue |-> TRUE, allowed |-> TRUE,
      hasBank |-> TRUE, bankActive |-> TRUE, sameBank |-> TRUE,
      mapped |-> TRUE, matches |-> TRUE ]

PayloadWith(n, k) ==
    Payload(intents[n].cash, SeededListing, Bank, wallet[Account],
            IF k = NoQuote THEN NoQuote ELSE quote[k], RuntimeContext, DecisionTime)

\* Mutant: an intent is never taken off the list.
NextIntentKeepsHead == pc' = "risk" /\ UNCHANGED <<todo, status>>

NextIntent ==
    /\ todo' = Tail(todo)
    /\ IF Len(todo) = 1 THEN pc' = "record" /\ status' = "ok"
                        ELSE pc' = "risk" /\ UNCHANGED status

AssessRisk ==
    /\ pc = "risk"
    /\ \E k \in QuoteFound :
          LET n == Head(todo)
              p == PayloadWith(n, k)
          IN  /\ decision' = [decision EXCEPT ![n] =
                    [ account |-> Account, instrument |-> Instrument,
                      outcome |-> p.outcome, quantity |-> p.quantity, quote |-> k ]]
              /\ IF p.outcome = "reject" THEN NextIntent
                 ELSE pc' = "execute" /\ UNCHANGED <<todo, status>>
    /\ UNCHANGED <<wallet, position, orders, trades, ledger, intents, runs,
                   barEnd, quote, saved, now, tickAt, wakeAt, mine>>

ExecuteIntent ==
    /\ pc = "execute"
    /\ LET n == Head(todo)
       IN  IF Broker!Accepts(n, intents[n].side, decision[n].quote)
           THEN Broker!Execute(n, intents[n].side, decision[n].quote) /\ NextIntent
           ELSE pc' = "failed" /\ UNCHANGED <<view, quote, todo, status>>
    /\ UNCHANGED <<intents, runs, barEnd, saved, now, tickAt, wakeAt, mine>>

-----------------------------------------------------------------------------
(* Commit, rollback, crash *)

GoToSleep(at) == pc' = "asleep" /\ wakeAt' = at /\ mine' = NoQuote /\ todo' = <<>>

\* Mutant: the session keeps the wallet it had in memory.
RestoreKeepsWallet ==
    /\ wallet' = wallet /\ position' = saved.position /\ orders' = saved.orders
    /\ trades' = saved.trades /\ ledger' = saved.ledger /\ decision' = saved.decision
    /\ intents' = saved.intents /\ runs' = saved.runs
    /\ quote' = IF mine = NoQuote THEN quote ELSE [quote EXCEPT ![mine] = NoQuote]

\* Mutant: the broker commits its trade by itself.
RestoreAfterBrokerCommit ==
    /\ UNCHANGED <<wallet, position, orders, trades, ledger>>
    /\ decision' = saved.decision /\ intents' = saved.intents /\ runs' = saved.runs
    /\ quote' = IF mine = NoQuote THEN quote ELSE [quote EXCEPT ![mine] = NoQuote]

\* Nothing of the transaction survives, the quote it inserted included.
Restore ==
    /\ wallet' = saved.wallet /\ position' = saved.position /\ orders' = saved.orders
    /\ trades' = saved.trades /\ ledger' = saved.ledger /\ decision' = saved.decision
    /\ intents' = saved.intents /\ runs' = saved.runs
    /\ quote' = IF mine = NoQuote THEN quote ELSE [quote EXCEPT ![mine] = NoQuote]

\* _record_tick commits; the loop then sleeps.
Record ==
    /\ pc = "record"
    /\ saved' = Snapshot
    /\ now' = now + 1
    /\ GoToSleep(now + 1 + CollectInterval)
    /\ UNCHANGED <<view, barEnd, quote, tickAt, status>>

\* The except clause: roll back, then commit the failed tick on its own.
RecordFailure ==
    /\ pc = "failed"
    /\ Restore
    /\ status' = "failed"
    /\ now' = now + 1
    /\ GoToSleep(now + 1 + CollectInterval)
    /\ UNCHANGED <<barEnd, saved, tickAt>>

\* The process dies, awake or asleep, and its container is restarted.
Crash ==
    /\ Restore
    /\ GoToSleep(now)
    /\ UNCHANGED <<barEnd, saved, now, tickAt, status>>

-----------------------------------------------------------------------------
(* The rest of the system *)

\* Delayed reference data: a later bar has become available.
SignalBarArrives ==
    LET latest == (now \div SignalWidth) * SignalWidth
    IN  /\ pc = "asleep" /\ barEnd < latest
        /\ barEnd' = latest
        /\ UNCHANGED <<view, loop, quote, saved>>

\* The collector container commits a quote of its own at any moment, when it
\* was observed now or an instant ago.
CollectorInserts ==
    /\ Cardinality({k \in QuoteIds : k[1] = "collector" /\ quote[k] # NoQuote}) < MaxCollected
    /\ \E p \in Prices, at \in {now - 1, now} \cap Nat :
          /\ quote[<<"collector", at>>] = NoQuote
          /\ quote' = [quote EXCEPT ![<<"collector", at>>] = NewQuote(p, at)]
    /\ UNCHANGED <<view, loop, barEnd, saved>>

Worker ==
    \/ Wake \/ Sleep \/ CollectQuote \/ FetchFails
    \/ \E ready \in BOOLEAN : Assess(ready)
    \/ \E regime \in {"trend_up", "trend_down", "high_volatility", "range"},
          signal \in BOOLEAN : Decide(regime, signal)
    \/ AssessRisk \/ ExecuteIntent \/ Record \/ RecordFailure

Next == Worker \/ Crash \/ SignalBarArrives \/ CollectorInserts

\* The loop is scheduled as long as the container runs.
Spec == Init /\ [][Next]_vars /\ WF_vars(Worker)

-----------------------------------------------------------------------------
(* Properties *)

Approving(n) == decision[n] # NoDecision /\ decision[n].outcome \in {"approve", "reduce"}

\* Cash and metal can be recomputed from the ledger and the trades at every
\* moment of every tick, however many ticks failed or died in between
\* (ROADMAP.md 24.4; 24.6: a failed transaction leaves no partial state), and what
\* is held has a cost, which _exit_intents divides by.
BookReconciles ==
    /\ TypeOK
    /\ Broker!BookReconciles
    /\ Held.quantity > 0 => Held.average > 0

\* The chain behind an order survives every rollback: its decision approves just
\* this quantity, its intent asks for this side, and the quote that priced the
\* trade is still there.
OrdersHaveTheirReasons ==
    \A n \in 1..Len(orders) :
        LET d == orders[n].decision
        IN  /\ d \in 1..Len(intents) /\ Approving(d)
            /\ orders[n].side = intents[d].side
            /\ orders[n].quantity = decision[d].quantity
            /\ intents[d].run \in 1..Len(runs)
            /\ quote[trades[n].quote] # NoQuote

\* The strategy runs once per signal bar and no sooner than the decision interval
\* after its last run, whatever restarts happen (docs/source-policy-v1.md: at
\* most once per decision window, never twice on one candle).
OneRunPerSignalBar ==
    \A m, n \in 1..Len(runs) : m < n =>
        /\ runs[m].bar # runs[n].bar
        /\ runs[n].at - runs[m].at >= DecisionInterval

\* What a run buys or sells is priced by a quote that had been seen when the run
\* was made, and not long before it.
PricedInTime ==
    \A n \in 1..Len(intents) : Approving(n) =>
        runs[intents[n].run].at - quote[decision[n].quote].observed \in 0..QuoteFreshness

\* An exit that risk lets through goes through: the sized quantity does not exceed
\* the holding, although it is sized from the other side of the spread and although
\* the same tick may have bought in between.  The one exception is a cheaper quote
\* that the collector commits in mid-tick, or that ties with the worker's: the
\* refusal then rolls the tick back.
ExitsFailByARaceOnly ==
    pc = "execute" /\ intents[Head(todo)].side = "sell" =>
        LET d == decision[Head(todo)]
        IN  \/ Broker!Accepts(Head(todo), "sell", d.quote)
            \/ \E k \in PricedBy : k[1] = "collector"

\* Every tick ends: recorded, failed, or cut short by a restart.
TicksEnd == pc # "asleep" ~> pc = "asleep"

-----------------------------------------------------------------------------
(* What the documents say and the code does not do *)

\* ROADMAP.md 10 lists "Max position size" among the guards of RiskManager: what
\* the account spent on the metal it holds stays within it.
PositionWithinLimit ==
    pc = "asleep" => Held.quantity * Held.average
                        <= QuantityScale * (MaxPositionCash + Fees(MaxPositionCash) + 1)

\* docs/deployment.md: the normal live paper flow runs through worker alone.  So a
\* tick that follows one that collected a quote has a quote it may trade on.
WorkerCanTrade ==
    pc = "risk" => \E k \in PricedBy : DecisionTime - quote[k].observed <= QuoteFreshness

=============================================================================

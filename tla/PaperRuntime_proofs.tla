------------------------ MODULE PaperRuntime_proofs ------------------------
(***************************************************************************)
(* What the worker guarantees for every policy, price, timing and listing,  *)
(* and any interleaving of ticks, failures, restarts and collected quotes.  *)
(*                                                                          *)
(* A rollback makes the committed state the session's state again, so what  *)
(* is claimed of the book, of the chain from runs to trades and of the      *)
(* spacing of runs is claimed of both records, Snapshot and saved.  The     *)
(* rest of the invariant is about the clock, the quotes and the place of    *)
(* the tick, which say that no approved quote is the one a rollback takes   *)
(* back and that no intent is sent to the broker twice.                     *)
(*                                                                          *)
(* That exits go through needs more, ExitInv, on top of it: holdings and    *)
(* sizes are whole steps of the bank, and an approved exit fits the holding *)
(* unless its tick saw a quote of the collector.                            *)
(***************************************************************************)
EXTENDS PaperRuntime, Accounting_proofs

\* The broker over this book, and the risk manager as the tick calls it.
P == INSTANCE PaperBroker_proofs WITH
        Accounts <- {Account}, Instruments <- {Instrument},
        DecisionIds <- IntentIds, Approvals <- {}

RuntimeQuotes == {NewQuote(p, at) : p \in Prices, at \in 0..MaxTime}

R == INSTANCE RiskManager_proofs WITH
        Intents <- IntentIds, Requested <- [n \in IntentIds |-> OrderCash],
        QuoteRows <- RuntimeQuotes, Listings <- {SeededListing},
        Contexts <- {RuntimeContext}, Balances <- Nat,
        available <- wallet[Account], listing <- SeededListing

-----------------------------------------------------------------------------
(* The invariant: of a record v that holds the rows of the session          *)

HoldingRow == { p \in P!PositionRow : /\ p.quantity >= 0 /\ p.average >= 0
                                      /\ p.quantity > 0 => p.average > 0 }

\* The book is well typed and reconciles.
BookOf(v) ==
    /\ v.wallet \in [{Account} -> Nat]
    /\ v.position \in [{Account} -> [{Instrument} -> HoldingRow]]
    /\ v.orders \in Seq(P!OrderRow) /\ v.trades \in Seq(P!TradeRow)
    /\ v.ledger \in Seq(P!EntryRow)
    /\ v.wallet[Account] =
          OpeningCash[Account] + P!Tally(v.ledger, P!Amounts, P!EntriesOf(Account))
    /\ v.position[Account][Instrument].quantity =
          P!Tally(v.trades, P!Signed, P!TradesIn(Account, Instrument))
    /\ \A n \in 1..Len(v.ledger) : v.ledger[n].trade \in 1..Len(v.trades)
    /\ \A m, n \in 1..Len(v.ledger) :
          v.ledger[m].trade = v.ledger[n].trade /\ v.ledger[m].kind = v.ledger[n].kind => m = n
    /\ \A t \in 1..Len(v.trades) :
          P!Tally(v.ledger, P!Amounts, P!PostingsOf(t))
             = P!CashMoved(v.trades[t].side, v.trades[t].net)

\* Intents and runs, and decisions of intents only.
RowsOf(v) ==
    /\ v.intents \in Seq(IntentRow) /\ v.runs \in Seq(RunRow)
    /\ Len(v.intents) <= MaxIntents
    /\ \A n \in 1..Len(v.intents) : v.intents[n].run \in 1..Len(v.runs)
    /\ v.decision \in [IntentIds -> Broker!DecisionRow \cup {NoDecision}]
    /\ \A n \in IntentIds : n > Len(v.intents) => v.decision[n] = NoDecision

ApprovingIn(v, n) ==
    v.decision[n] # NoDecision /\ v.decision[n].outcome \in {"approve", "reduce"}

\* An approval rests on a quote that stays, was fresh at the run, and makes the order
\* worth something.
Backed(v, n, quotes, own) ==
    LET row == v.decision[n]
    IN  /\ row.quote \in QuoteIds /\ row.quote # own /\ quotes[row.quote] # NoQuote
        /\ v.runs[v.intents[n].run].at - quotes[row.quote].observed \in 0..QuoteFreshness
        /\ row.quantity * quotes[row.quote].sell >= QuantityScale

ReasonsOf(v, quotes, own) ==
    /\ \A n \in 1..Len(v.intents) : ApprovingIn(v, n) => Backed(v, n, quotes, own)
    /\ Len(v.orders) = Len(v.trades)
    /\ \A n \in 1..Len(v.orders) :
          LET d == v.orders[n].decision
          IN  /\ d \in 1..Len(v.intents) /\ ApprovingIn(v, d)
              /\ v.orders[n].side = v.intents[d].side
              /\ v.orders[n].quantity = v.decision[d].quantity
              /\ v.trades[n].quote = v.decision[d].quote

RunsApart(v, bar) ==
    /\ \A n \in 1..Len(v.runs) : v.runs[n].bar <= bar
    /\ \A m, n \in 1..Len(v.runs) : m < n =>
          /\ v.runs[m].bar < v.runs[n].bar
          /\ v.runs[n].at - v.runs[m].at >= DecisionInterval

SoundView(v, quotes, own, bar) ==
    BookOf(v) /\ RowsOf(v) /\ ReasonsOf(v, quotes, own) /\ RunsApart(v, bar)

Committed == [ wallet |-> saved.wallet, position |-> saved.position, orders |-> saved.orders,
               trades |-> saved.trades, ledger |-> saved.ledger, decision |-> saved.decision,
               intents |-> saved.intents, runs |-> saved.runs ]

-----------------------------------------------------------------------------
(* The invariant: clock, quotes and the place of the tick                   *)

ClockSound ==
    /\ now \in 0..MaxTime /\ tickAt \in 0..MaxTime /\ barEnd \in 0..MaxTime /\ tickAt <= now
    /\ wakeAt \in 0..(MaxTime + CollectInterval)
    /\ pc \in {"asleep", "collect", "assess", "decide", "risk", "execute", "record", "failed"}
    /\ status \in {"none", "ok", "warming_up", "failed"}
    /\ pc # "asleep" => now + 1 <= MaxTime
    /\ pc = "collect" => now + 2 <= MaxTime

QuotesSound ==
    /\ DOMAIN quote = QuoteIds
    /\ \A k \in QuoteIds : quote[k] # NoQuote =>
          k[2] <= now /\ \E p \in Prices : quote[k] = NewQuote(p, k[2])
    /\ mine # NoQuote => mine \in QuoteIds /\ mine[2] > tickAt
    /\ pc \in {"asleep", "collect"} => mine = NoQuote

TodoSound ==
    /\ todo \in Seq(1..Len(intents))
    /\ \A i \in 1..Len(todo) :
          /\ intents[todo[i]].run = Len(runs)
          /\ ~Broker!AlreadyOrdered(todo[i])
    /\ \A i, j \in 1..Len(todo) : i # j => todo[i] # todo[j]
    /\ pc \in {"risk", "execute"} => todo # <<>> /\ runs # <<>> /\ runs[Len(runs)].at = tickAt

TickSound ==
    /\ pc \in {"collect", "assess", "decide"} => Len(intents) + 2 <= MaxIntents
    /\ pc = "decide" => DecisionDue
    /\ TodoSound
    /\ pc = "execute" => Approving(Head(todo))

RuntimeInv ==
    /\ SoundView(Snapshot, quote, mine, barEnd)
    /\ SoundView(Committed, quote, mine, barEnd)
    /\ ClockSound /\ QuotesSound /\ TickSound

-----------------------------------------------------------------------------
(* The parts proved elsewhere, as they are used here                        *)

\* The types of the bounds and intervals.
LEMMA Bounds ==
    /\ MaxTime \in Nat /\ MaxIntents \in Nat
    /\ CollectInterval \in Nat \ {0} /\ DecisionInterval \in Nat \ {0}
    /\ BarWidth \in Nat \ {0} /\ SignalWidth \in Nat \ {0}
BY RuntimeAssumption

\* The assumptions of PaperBroker hold of the constants the worker gives it.
LEMMA BrokerAssumptions == P!CostAssumption /\ P!BrokerAssumption
<1>1. P!CostAssumption
  BY CostAssumption DEF P!CostAssumption
<1>2. P!DecisionRow = Broker!DecisionRow /\ P!QuoteRow = Broker!QuoteRow
  BY DEF P!DecisionRow, Broker!DecisionRow, P!QuoteRow, Broker!QuoteRow
<1>3. Prices \subseteq {p \in Nat \X Nat : p[1] <= p[2]}
  BY RuntimeAssumption
<1>4. P!BrokerAssumption
  BY <1>2, <1>3, RuntimeAssumption, RowAssumption DEF P!BrokerAssumption
<1> QED
  BY <1>1, <1>4

\* The assumptions of RiskManager hold of the constants the worker gives it.
LEMMA ManagerAssumptions ==
    R!CostAssumption /\ R!PolicyAssumption /\ R!ManagerAssumption /\ R!InputAssumption
<1>1. R!CostAssumption
  BY CostAssumption DEF R!CostAssumption
<1>2. R!PolicyAssumption
  BY PolicyAssumption DEF R!PolicyAssumption
<1>3. R!ManagerAssumption
  BY RuntimeAssumption DEF R!ManagerAssumption
<1>4. R!InputAssumption
  <2>1. ASSUME NEW q \in RuntimeQuotes
        PROVE  /\ q.observed \in Nat /\ q.sell \in Nat /\ q.buy \in Nat /\ q.sell > 0
               /\ q # NoQuote
    <3>1. PICK p \in Prices, at \in 0..MaxTime : q = NewQuote(p, at)
      BY DEF RuntimeQuotes
    <3>2. p[1] \in Nat \ {0} /\ p[2] \in Nat /\ p[1] <= p[2] /\ MaxTime \in Nat
      BY RuntimeAssumption
    <3> QED
      BY <3>1, <3>2, RowAssumption DEF NewQuote
  <2> QED
    BY <2>1, RowAssumption DEF R!InputAssumption, RuntimeContext
<1> QED
  BY <1>1, <1>2, <1>3, <1>4

\* The copies of the operators that two instances bring are the same.
LEMMA SameBroker ==
    /\ P!BookTypeOK <=> Broker!BookTypeOK
    /\ P!BookReconciles <=> Broker!BookReconciles
    /\ P!DecisionRow = Broker!DecisionRow
<1>1. P!BookTypeOK <=> Broker!BookTypeOK
  BY DEF P!BookTypeOK, Broker!BookTypeOK, P!PositionRow, Broker!PositionRow, P!OrderRow,
         Broker!OrderRow, P!TradeRow, Broker!TradeRow, P!EntryRow, Broker!EntryRow,
         P!EntryKinds, Broker!EntryKinds, P!Sides, Broker!Sides
<1>2. \A f, S : P!SumFunctionOnSet(f, S) = Broker!SumFunctionOnSet(f, S)
  BY DEF P!SumFunctionOnSet, Broker!SumFunctionOnSet, P!FoldFunctionOnSet,
         Broker!FoldFunctionOnSet, P!MapThenFoldSet, Broker!MapThenFoldSet
<1>3. P!LedgerPostsTradesOnce <=> Broker!LedgerPostsTradesOnce
  BY <1>2, Zenon DEF P!LedgerPostsTradesOnce, Broker!LedgerPostsTradesOnce
<1>4. P!CashReconciles <=> Broker!CashReconciles
  BY <1>2, Zenon DEF P!CashReconciles, Broker!CashReconciles
<1>5. P!PositionReconciles <=> Broker!PositionReconciles
  BY <1>2, Zenon DEF P!PositionReconciles, Broker!PositionReconciles
<1>6. P!DecisionRow = Broker!DecisionRow
  BY DEF P!DecisionRow, Broker!DecisionRow
<1> QED
  BY <1>1, <1>3, <1>4, <1>5, <1>6 DEF P!BookReconciles, Broker!BookReconciles

\* The broker of the worker accepts and fills what PaperBroker does.
LEMMA SameExecution ==
    ASSUME NEW n, NEW side, NEW k
    PROVE  /\ P!Approved(n) <=> Broker!Approved(n)
           /\ P!QuoteUsable(n, k) <=> Broker!QuoteUsable(n, k)
           /\ P!Affordable(n, side, k) <=> Broker!Affordable(n, side, k)
           /\ P!Fill(n, side, k) <=> Broker!Fill(n, side, k)
<1>1. P!CostsOf(n, side, k) = Broker!CostsOf(n, side, k)
  BY DEF P!CostsOf, Broker!CostsOf, P!Costs, Broker!Costs, P!GrossCash, Broker!GrossCash,
         P!Fees, Broker!Fees, P!Taxes, Broker!Taxes, P!NetCash, Broker!NetCash,
         P!ExecutionPrice, Broker!ExecutionPrice, P!HalfUp, Broker!HalfUp
<1>2. /\ \A p, q, net : P!PositionAfterBuy(p, q, net) = Broker!PositionAfterBuy(p, q, net)
      /\ \A p, q, net : P!RealizedPnl(p, q, net) = Broker!RealizedPnl(p, q, net)
      /\ \A m, a, s, c : P!TradeEntries(m, a, s, c) = Broker!TradeEntries(m, a, s, c)
  BY DEF P!PositionAfterBuy, Broker!PositionAfterBuy, P!RealizedPnl, Broker!RealizedPnl,
         P!HalfUp, Broker!HalfUp, P!TradeEntries, Broker!TradeEntries
<1>3. \A p, q, net : P!PositionAfterSell(p, q, net) = Broker!PositionAfterSell(p, q, net)
  BY <1>2, Zenon DEF P!PositionAfterSell, Broker!PositionAfterSell
<1>4. P!Fill(n, side, k) <=> Broker!Fill(n, side, k)
  BY <1>1, <1>2, <1>3, Zenon DEF P!Fill, Broker!Fill
<1>5. P!Affordable(n, side, k) <=> Broker!Affordable(n, side, k)
  BY <1>1, Zenon DEF P!Affordable, Broker!Affordable, P!CostInputsValid, Broker!CostInputsValid,
     P!ExecutionPrice, Broker!ExecutionPrice
<1> QED
  BY <1>4, <1>5 DEF P!Approved, Broker!Approved, P!QuoteUsable, Broker!QuoteUsable

\* The risk evaluation of the worker is that of RiskManager.
LEMMA SamePayload ==
    ASSUME NEW requested, NEW there, NEW q, NEW at
    PROVE  Payload(requested, SeededListing, Bank, there, q, RuntimeContext, at)
              = R!Payload(requested, SeededListing, Bank, there, q, RuntimeContext, at)
<1>1. \A checks : FirstFailure(checks) = R!FirstFailure(checks)
  BY DEF FirstFailure, R!FirstFailure
<1>2. \A e, t : EventAction(e, t) = R!EventAction(e, t)
  BY DEF EventAction, R!EventAction
<1>3. \A c : ContextComplete(c) <=> R!ContextComplete(c)
  BY DEF ContextComplete, R!ContextComplete
<1>4. \A l : ExecutionReason(l) = R!ExecutionReason(l)
  BY <1>1, Zenon DEF ExecutionReason, R!ExecutionReason
<1>5. \A x : SpreadWithin(x) = R!SpreadWithin(x)
  BY DEF SpreadWithin, R!SpreadWithin
<1>6. ASSUME NEW x, NEW c, NEW t PROVE MarketReason(x, c, t) = R!MarketReason(x, c, t)
  <2> DEFINE age == t - x.observed
             checks(spread, action) ==
               << <<x.status = "fresh", "stale_execution_quote">>,
                  <<x.observed <= t, "future_quote">>,
                  <<age <= QuoteFreshness, "stale_execution_quote">>,
                  <<age <= MaxQuoteLag, "stale_execution_quote">>,
                  <<spread, "spread_above_threshold">>,
                  <<c.dailyLoss <= MaxDailyLoss, "daily_loss_limit_breached">>,
                  <<c.drawdown <= MaxDrawdown, "max_drawdown_breached">>,
                  <<~c.cooldown, "cooldown_active">>,
                  <<~c.noTrade, "no_trade_window_active">>,
                  <<action # "veto", "event_risk_veto">>,
                  <<action # "no_trade", "event_risk_no_trade">>,
                  <<\/ MaxDivergence = Missing
                    \/ c.divergence <= MaxDivergence, "source_divergence_above_threshold">>,
                  <<c.edge >= MinEdge, "expected_edge_below_costs">> >>
  <2>1. MarketReason(x, c, t)
           = FirstFailure(checks(SpreadWithin(x), EventAction(c.event, t)))
    BY DEF MarketReason
  <2>2. R!MarketReason(x, c, t)
           = R!FirstFailure(checks(R!SpreadWithin(x), R!EventAction(c.event, t)))
    BY DEF R!MarketReason
  <2> HIDE DEF checks
  <2>3. checks(SpreadWithin(x), EventAction(c.event, t))
           = checks(R!SpreadWithin(x), R!EventAction(c.event, t))
    BY <1>2, <1>5, Zenon
  <2> QED
    BY <1>1, <2>1, <2>2, <2>3, Zenon
<1>7. \A m, c, t : CappedCash(m, c, t) = R!CappedCash(m, c, t)
  BY <1>2 DEF CappedCash, R!CappedCash, Smaller, R!Smaller, Down, R!Down
<1>8. \A m, x, b : SizeFor(m, x, b) = R!SizeFor(m, x, b)
  BY DEF SizeFor, R!SizeFor
<1>9. \A m, x : SizedCash(m, x) = R!SizedCash(m, x)
  BY DEF SizedCash, R!SizedCash, Down, R!Down
<1>10. \A m, t, x, b : SizeReason(m, t, x, b) = R!SizeReason(m, t, x, b)
  <2> DEFINE checks(m, t, b, size, worth) ==
               << <<t >= m, "insufficient_balance">>,
                  <<m >= MinOrderCash, "approved_size_below_min_order">>,
                  <<m >= b.minTrade, "approved_size_below_bank_min_trade">>,
                  <<size > 0, "approved_quantity_below_precision">>,
                  <<worth >= MinOrderCash, "approved_size_below_min_order_after_precision">>,
                  <<worth >= b.minTrade,
                    "approved_size_below_bank_min_trade_after_precision">> >>
  <2>1. ASSUME NEW m, NEW t, NEW x, NEW b
        PROVE  SizeReason(m, t, x, b) = R!SizeReason(m, t, x, b)
    <3> DEFINE size == SizeFor(m, x, b)
               worth == SizedCash(size, x)
    <3>1. SizeReason(m, t, x, b) = FirstFailure(checks(m, t, b, size, worth))
      BY DEF SizeReason
    <3>2. R!SizeReason(m, t, x, b)
            = R!FirstFailure(checks(m, t, b, R!SizeFor(m, x, b), R!SizedCash(R!SizeFor(m, x, b), x)))
      BY DEF R!SizeReason
    <3>3. R!SizeFor(m, x, b) = size /\ R!SizedCash(R!SizeFor(m, x, b), x) = worth
      BY <1>8, <1>9, Zenon
    <3> HIDE DEF checks, size, worth
    <3> QED
      BY <1>1, <3>1, <3>2, <3>3, Zenon
  <2> QED
    BY <2>1
<1>11. \A x : Rejected(x) = R!Rejected(x)
  BY DEF Rejected, R!Rejected
<1> QED
  BY <1>3, <1>4, <1>6, <1>7, <1>8, <1>9, <1>10, <1>11, Zenon DEF Payload, R!Payload

\* What a tick gets back from risk: a rejection without a size, or an approval on a
\* quote that is fresh and makes the order worth something.
LEMMA PayloadSound ==
    ASSUME NEW requested \in Nat \ {0}, NEW q \in RuntimeQuotes \cup {NoQuote}, NEW there,
           NEW at \in Nat, NEW p,
           p = Payload(requested, SeededListing, Bank, there, q, RuntimeContext, at)
    PROVE  /\ p.outcome \in {"approve", "reduce", "reject"} /\ p.quantity \in Nat
           /\ p.outcome # "reject" =>
                 /\ q \in RuntimeQuotes /\ p.quantity > 0
                 /\ at - q.observed \in 0..QuoteFreshness
                 /\ p.quantity * q.sell >= QuantityScale
<1>1. RuntimeContext \in {RuntimeContext}
  OBVIOUS
<1>2. p = R!Payload(requested, SeededListing, Bank, there, q, RuntimeContext, at)
  BY SamePayload
<1>3. /\ p.outcome \in {"approve", "reduce", "reject"}
      /\ p.cash \in Nat /\ p.quantity \in Nat
      /\ p.outcome # "reject" =>
            /\ q \in RuntimeQuotes
            /\ p.cash >= MinOrderCash /\ p.quantity > 0
            /\ QuantityScale * p.cash <= p.quantity * q.sell
            /\ at - q.observed \in 0..R!Smaller(QuoteFreshness, MaxQuoteLag)
  BY <1>1, <1>2, ManagerAssumptions, R!PayloadWithinLimits
<1>4. ASSUME p.outcome # "reject"
      PROVE  /\ at - q.observed \in 0..QuoteFreshness
             /\ p.quantity * q.sell >= QuantityScale
  <2>1. p.cash >= 1 /\ p.cash \in Nat /\ QuantityScale \in Nat
    BY <1>3, <1>4, PolicyAssumption, CostAssumption
  <2>2. QuantityScale * (p.cash - 1) \in Nat
    BY <2>1, ProductNat
  <2>3. QuantityScale * p.cash = QuantityScale * (p.cash - 1) + QuantityScale
    BY <2>1
  <2>4. q.sell \in Nat
    <3>1. PICK r \in Prices, t \in 0..MaxTime : q = NewQuote(r, t)
      BY <1>3, <1>4 DEF RuntimeQuotes
    <3> QED
      BY <3>1, RuntimeAssumption DEF NewQuote
  <2>5. p.quantity * q.sell \in Nat
    BY <1>3, <2>4, ProductNat
  <2>6. p.quantity * q.sell >= QuantityScale
    BY <1>3, <1>4, <2>1, <2>2, <2>3, <2>5
  <2>7. R!Smaller(QuoteFreshness, MaxQuoteLag) <= QuoteFreshness
        /\ R!Smaller(QuoteFreshness, MaxQuoteLag) \in Nat /\ QuoteFreshness \in Nat
    BY PolicyAssumption DEF R!Smaller
  <2> QED
    BY <1>3, <1>4, <2>6, <2>7
<1> QED
  BY <1>3, <1>4

-----------------------------------------------------------------------------
(* Records of rows                                                          *)

\* What the invariant says of the session's book, in the broker's words.
LEMMA BookIs ==
    BookOf(Snapshot) <=>
        (P!BookTypeOK /\ P!NeverOverdrawn /\ P!BookReconciles /\ P!HeldHasCost)
<1>1. /\ Snapshot.wallet = wallet /\ Snapshot.position = position /\ Snapshot.orders = orders
      /\ Snapshot.trades = trades /\ Snapshot.ledger = ledger
  BY DEF Snapshot
<1>2. (/\ wallet \in [{Account} -> Nat]
       /\ position \in [{Account} -> [{Instrument} -> HoldingRow]])
      <=> (/\ wallet \in [{Account} -> Int]
           /\ position \in [{Account} -> [{Instrument} -> P!PositionRow]]
           /\ P!NeverOverdrawn /\ P!HeldHasCost)
  BY DEF HoldingRow, P!NeverOverdrawn, P!HeldHasCost
<1>3. ASSUME ledger \in Seq(P!EntryRow), trades \in Seq(P!TradeRow)
      PROVE  /\ P!CashReconciles <=>
                   wallet[Account] = OpeningCash[Account]
                      + P!Tally(ledger, P!Amounts, P!EntriesOf(Account))
             /\ P!PositionReconciles <=>
                   position[Account][Instrument].quantity =
                      P!Tally(trades, P!Signed, P!TradesIn(Account, Instrument))
             /\ P!LedgerPostsTradesOnce <=>
                   /\ \A n \in 1..Len(ledger) : ledger[n].trade \in 1..Len(trades)
                   /\ \A m, n \in 1..Len(ledger) :
                        ledger[m].trade = ledger[n].trade /\ ledger[m].kind = ledger[n].kind
                           => m = n
                   /\ \A t \in 1..Len(trades) :
                        P!Tally(ledger, P!Amounts, P!PostingsOf(t))
                           = P!CashMoved(trades[t].side, trades[t].net)
  <2>1. /\ \A a : P!SumFunctionOnSet([n \in DOMAIN ledger |-> ledger[n].amount],
                                     {n \in DOMAIN ledger : ledger[n].account = a})
                     = P!Tally(ledger, P!Amounts, P!EntriesOf(a))
        /\ \A t : P!SumFunctionOnSet([n \in DOMAIN ledger |-> ledger[n].amount],
                                     {n \in DOMAIN ledger : ledger[n].trade = t})
                     = P!Tally(ledger, P!Amounts, P!PostingsOf(t))
    BY <1>3, BrokerAssumptions, P!LedgerTallies
  <2>2. \A a, i : P!SumFunctionOnSet([n \in DOMAIN trades |->
                 IF trades[n].side = "buy" THEN trades[n].quantity ELSE -trades[n].quantity],
                 {n \in DOMAIN trades : trades[n].account = a /\ trades[n].instrument = i})
              = P!Tally(trades, P!Signed, P!TradesIn(a, i))
    BY <1>3, BrokerAssumptions, P!TradeTallies
  <2>3. P!CashReconciles <=>
           wallet[Account] = OpeningCash[Account]
              + P!Tally(ledger, P!Amounts, P!EntriesOf(Account))
    BY <2>1, Zenon DEF P!CashReconciles
  <2>4. P!PositionReconciles <=>
           position[Account][Instrument].quantity =
              P!Tally(trades, P!Signed, P!TradesIn(Account, Instrument))
    BY <2>2, Zenon DEF P!PositionReconciles
  <2>5. P!LedgerPostsTradesOnce <=>
           /\ \A n \in 1..Len(ledger) : ledger[n].trade \in 1..Len(trades)
           /\ \A m, n \in 1..Len(ledger) :
                ledger[m].trade = ledger[n].trade /\ ledger[m].kind = ledger[n].kind => m = n
           /\ \A t \in 1..Len(trades) :
                P!Tally(ledger, P!Amounts, P!PostingsOf(t))
                   = P!CashMoved(trades[t].side, trades[t].net)
    BY <2>1, Zenon DEF P!LedgerPostsTradesOnce, P!CashMoved
  <2> QED
    BY <2>3, <2>4, <2>5
<1> QED
  BY <1>1, <1>2, <1>3, Zenon DEF BookOf, P!BookTypeOK, P!BookReconciles

\* Approvals keep their reasons when quotes come, and when the tick's own quote goes.
LEMMA ReasonsKept ==
    ASSUME NEW v, NEW q, NEW own, NEW q2, NEW own2, ReasonsOf(v, q, own),
           \A k \in QuoteIds : q[k] # NoQuote /\ k # own => q2[k] = q[k] /\ k # own2
    PROVE  ReasonsOf(v, q2, own2)
<1>1. ASSUME NEW n, Backed(v, n, q, own) PROVE Backed(v, n, q2, own2)
  BY <1>1 DEF Backed
<1> QED
  BY <1>1 DEF ReasonsOf

\* Runs stay apart as bars end.
LEMMA RunsKept ==
    ASSUME NEW v, NEW b \in Nat, NEW b2 \in Nat, RowsOf(v), RunsApart(v, b), b <= b2
    PROVE  RunsApart(v, b2)
<1>1. \A n \in 1..Len(v.runs) : v.runs[n] \in RunRow
  BY DEF RowsOf
<1>2. \A n \in 1..Len(v.runs) : v.runs[n].bar \in Nat
  BY <1>1 DEF RunRow
<1> QED
  BY <1>2 DEF RunsApart

\* What a step may do to the quotes as far as approvals are concerned.
QuotesStay == \A k \in QuoteIds : quote[k] # NoQuote /\ k # mine => quote'[k] = quote[k] /\ k # mine'

\* What a view says stays true while quotes are only inserted and bars end.
LEMMA ViewKept ==
    ASSUME NEW v, SoundView(v, quote, mine, barEnd), QuotesStay,
           barEnd \in Nat, barEnd' \in Nat, barEnd <= barEnd'
    PROVE  SoundView(v, quote', mine', barEnd')
<1>1. ReasonsOf(v, quote', mine')
  BY ReasonsKept DEF SoundView, QuotesStay
<1>2. RunsApart(v, barEnd')
  BY RunsKept DEF SoundView
<1> QED
  BY <1>1, <1>2 DEF SoundView

\* A step that leaves the rows alone, or makes one of the two records the other.
LEMMA ViewsKept ==
    ASSUME RuntimeInv, QuotesStay, barEnd' \in Nat, barEnd <= barEnd',
           Snapshot' \in {Snapshot, Committed}, Committed' \in {Snapshot, Committed}
    PROVE  /\ SoundView(Snapshot', quote', mine', barEnd')
           /\ SoundView(Committed', quote', mine', barEnd')
<1>1. barEnd \in Nat
  BY RuntimeAssumption DEF RuntimeInv, ClockSound
<1>2. SoundView(Snapshot, quote', mine', barEnd') /\ SoundView(Committed, quote', mine', barEnd')
  BY <1>1, ViewKept DEF RuntimeInv
<1> QED
  BY <1>2
-----------------------------------------------------------------------------
(* The loop, the gates and the rest of the system                           *)

\* A step that leaves the book and the chain alone and the tick where it may be.
LEMMA QuietKeeps ==
    ASSUME RuntimeInv, UNCHANGED <<view, saved>>, QuotesStay, barEnd' \in Nat,
           barEnd <= barEnd', ClockSound', QuotesSound', TickSound'
    PROVE  RuntimeInv'
<1>1. Snapshot' = Snapshot /\ Committed' = Committed
  BY DEF view, Snapshot, Committed
<1>2. /\ SoundView(Snapshot', quote', mine', barEnd')
      /\ SoundView(Committed', quote', mine', barEnd')
  BY <1>1, ViewsKept
<1> QED
  BY <1>2 DEF RuntimeInv

LEMMA WakeKeeps == RuntimeInv /\ Wake => RuntimeInv'
<1> SUFFICES ASSUME RuntimeInv, Wake PROVE RuntimeInv'
  OBVIOUS
<1>1. UNCHANGED <<view, saved>> /\ UNCHANGED <<barEnd, quote, now, wakeAt, mine, todo, status>>
      /\ UNCHANGED <<orders, intents, runs>>
  BY DEF Wake, view
<1>2. ClockSound'
  BY <1>1, Bounds DEF Wake, RuntimeInv, ClockSound
<1>3. QuotesSound' /\ QuotesStay
  BY <1>1 DEF Wake, RuntimeInv, QuotesSound, QuotesStay
<1>4. TickSound'
  BY <1>1 DEF Wake, RuntimeInv, TickSound, TodoSound, Broker!AlreadyOrdered
<1> QED
  BY <1>1, <1>2, <1>3, <1>4, QuietKeeps DEF RuntimeInv, ClockSound

LEMMA SleepKeeps == RuntimeInv /\ Sleep => RuntimeInv'
<1> SUFFICES ASSUME RuntimeInv, Sleep PROVE RuntimeInv'
  OBVIOUS
<1>1. UNCHANGED <<view, saved>> /\ UNCHANGED <<barEnd, quote, tickAt, pc, wakeAt, mine, todo, status>>
      /\ UNCHANGED <<orders, intents, runs>>
  BY DEF Sleep, view
<1>2. ClockSound'
  BY <1>1, RuntimeAssumption DEF Sleep, RuntimeInv, ClockSound
<1>3. QuotesSound' /\ QuotesStay
  <2>1. \A k \in QuoteIds : k[2] \in Nat
    BY RuntimeAssumption DEF QuoteIds
  <2>2. now \in Nat /\ now' = now + 1
    BY RuntimeAssumption DEF Sleep, RuntimeInv, ClockSound
  <2> QED
    BY <1>1, <2>1, <2>2 DEF RuntimeInv, QuotesSound, QuotesStay
<1>4. TickSound'
  BY <1>1 DEF Sleep, RuntimeInv, TickSound, TodoSound, Broker!AlreadyOrdered
<1> QED
  BY <1>1, <1>2, <1>3, <1>4, QuietKeeps DEF RuntimeInv, ClockSound

LEMMA CollectKeeps == RuntimeInv /\ CollectQuote => RuntimeInv'
<1> SUFFICES ASSUME RuntimeInv, CollectQuote PROVE RuntimeInv'
  OBVIOUS
<1>1. UNCHANGED <<view, saved>> /\ UNCHANGED <<barEnd, tickAt, wakeAt, todo, status>>
      /\ UNCHANGED <<orders, intents, runs>>
  BY DEF CollectQuote, view
<1>2. pc = "collect" /\ pc' = "assess" /\ now' = now + 1 /\ mine' = <<"worker", now + 1>>
  BY DEF CollectQuote
<1>3. PICK p \in Prices : quote' = [quote EXCEPT ![<<"worker", now + 1>>] = NewQuote(p, now + 1)]
  BY <1>2 DEF CollectQuote
<1>4. ClockSound'
  BY <1>1, <1>2, RuntimeAssumption DEF RuntimeInv, ClockSound
<1>5. /\ now \in Nat /\ tickAt \in Nat /\ MaxTime \in Nat /\ tickAt <= now /\ now + 2 <= MaxTime
      /\ mine = NoQuote
  BY <1>2, RuntimeAssumption DEF RuntimeInv, ClockSound, QuotesSound
<1>6. mine' \in QuoteIds /\ mine'[2] = now + 1
  BY <1>2, <1>5 DEF QuoteIds
<1>7. ASSUME NEW k \in QuoteIds, quote[k] # NoQuote
      PROVE  /\ k # mine' /\ quote'[k] = quote[k] /\ k[2] <= now'
             /\ \E r \in Prices : quote[k] = NewQuote(r, k[2])
  <2>1. k[2] <= now /\ \E r \in Prices : quote[k] = NewQuote(r, k[2])
    BY <1>7 DEF RuntimeInv, QuotesSound
  <2>2. k[2] \in Nat
    BY <1>5 DEF QuoteIds
  <2>3. k # mine'
    BY <1>5, <1>6, <2>1, <2>2
  <2>4. k[2] <= now + 1
    BY <1>5, <2>1, <2>2
  <2> QED
    BY <1>2, <1>3, <2>1, <2>3, <2>4
<1>8. QuotesStay
  BY <1>7 DEF QuotesStay
<1>9. QuotesSound'
  <2>1. DOMAIN quote' = QuoteIds
    BY <1>3 DEF RuntimeInv, QuotesSound
  <2>2. ASSUME NEW k \in QuoteIds, quote'[k] # NoQuote
        PROVE  k[2] <= now' /\ \E r \in Prices : quote'[k] = NewQuote(r, k[2])
    <3>1. CASE k = mine'
      <4>1. quote'[k] = NewQuote(p, now + 1) /\ k[2] = now + 1
        BY <1>2, <1>3, <1>6, <3>1 DEF RuntimeInv, QuotesSound
      <4> QED
        BY <1>2, <1>5, <4>1
    <3>2. CASE k # mine'
      <4>1. quote'[k] = quote[k]
        BY <1>2, <1>3, <3>2 DEF RuntimeInv, QuotesSound
      <4> QED
        BY <1>7, <2>2, <4>1
    <3> QED
      BY <3>1, <3>2
  <2>3. mine' # NoQuote => mine' \in QuoteIds /\ mine'[2] > tickAt'
    BY <1>1, <1>5, <1>6
  <2> QED
    BY <1>2, <2>1, <2>2, <2>3 DEF QuotesSound
<1>10. TickSound'
  BY <1>1, <1>2 DEF RuntimeInv, TickSound, TodoSound, Broker!AlreadyOrdered
<1> QED
  BY <1>1, <1>4, <1>8, <1>9, <1>10, QuietKeeps DEF RuntimeInv, ClockSound

LEMMA FetchFailsKeeps == RuntimeInv /\ FetchFails => RuntimeInv'
<1> SUFFICES ASSUME RuntimeInv, FetchFails PROVE RuntimeInv'
  OBVIOUS
<1>1. UNCHANGED <<view, saved>> /\ UNCHANGED <<barEnd, quote, tickAt, wakeAt, mine, todo, status>>
      /\ UNCHANGED <<orders, intents, runs>>
  BY DEF FetchFails, view
<1>2. ClockSound'
  BY <1>1, RuntimeAssumption DEF FetchFails, RuntimeInv, ClockSound
<1>3. QuotesSound' /\ QuotesStay
  <2>1. \A k \in QuoteIds : k[2] \in Nat
    BY RuntimeAssumption DEF QuoteIds
  <2>2. now \in Nat /\ now' = now + 1 /\ pc' = "failed"
    BY RuntimeAssumption DEF FetchFails, RuntimeInv, ClockSound
  <2> QED
    BY <1>1, <2>1, <2>2 DEF RuntimeInv, QuotesSound, QuotesStay
<1>4. TickSound'
  BY <1>1 DEF FetchFails, RuntimeInv, TickSound, TodoSound, Broker!AlreadyOrdered
<1> QED
  BY <1>1, <1>2, <1>3, <1>4, QuietKeeps DEF RuntimeInv, ClockSound

LEMMA AssessKeeps ==
    ASSUME RuntimeInv, NEW ready \in BOOLEAN, Assess(ready) PROVE RuntimeInv'
<1>1. UNCHANGED <<view, saved>> /\ UNCHANGED <<barEnd, quote, now, tickAt, wakeAt, mine, todo>>
      /\ UNCHANGED <<orders, intents, runs>>
  BY DEF Assess, view
<1>2. /\ pc = "assess"
      /\ \/ pc' = "decide" /\ status' = status /\ DecisionDue
         \/ pc' = "record" /\ status' \in {"ok", "warming_up"}
  BY DEF Assess
<1>3. ClockSound'
  BY <1>1, <1>2, RuntimeAssumption DEF RuntimeInv, ClockSound
<1>4. QuotesSound' /\ QuotesStay
  BY <1>1, <1>2 DEF RuntimeInv, QuotesSound, QuotesStay
<1>5. DecisionDue' <=> DecisionDue
  BY <1>1 DEF DecisionDue, DecisionTime
<1>6. TickSound'
  BY <1>1, <1>2, <1>5 DEF RuntimeInv, TickSound, TodoSound, Broker!AlreadyOrdered
<1> QED
  BY <1>1, <1>3, <1>4, <1>6, QuietKeeps DEF RuntimeInv, ClockSound

LEMMA BarKeeps == RuntimeInv /\ SignalBarArrives => RuntimeInv'
<1> SUFFICES ASSUME RuntimeInv, SignalBarArrives PROVE RuntimeInv'
  OBVIOUS
<1>1. UNCHANGED <<view, saved>> /\ UNCHANGED <<quote, now, pc, tickAt, wakeAt, mine, todo, status>>
      /\ UNCHANGED <<orders, intents, runs>>
  BY DEF SignalBarArrives, view, loop
<1>2. pc = "asleep" /\ barEnd < barEnd' /\ barEnd' = (now \div SignalWidth) * SignalWidth
  BY DEF SignalBarArrives
<1>3. barEnd' \in 0..now
  <2>1. now \in Nat /\ SignalWidth \in Nat \ {0}
    BY RuntimeAssumption DEF RuntimeInv, ClockSound
  <2>2. now \div SignalWidth \in Nat /\ SignalWidth * (now \div SignalWidth) <= now
    BY <2>1, Division
  <2>3. (now \div SignalWidth) * SignalWidth = SignalWidth * (now \div SignalWidth)
    BY <2>1, <2>2
  <2>4. SignalWidth * (now \div SignalWidth) \in Nat
    BY <2>1, <2>2, ProductNat
  <2> QED
    BY <1>2, <2>1, <2>2, <2>3, <2>4
<1>4. ClockSound'
  BY <1>1, <1>3, RuntimeAssumption DEF RuntimeInv, ClockSound
<1>5. QuotesSound' /\ QuotesStay
  BY <1>1 DEF RuntimeInv, QuotesSound, QuotesStay
<1>6. TickSound'
  BY <1>1, <1>2 DEF RuntimeInv, TickSound, TodoSound, Broker!AlreadyOrdered
<1> QED
  BY <1>1, <1>2, <1>3, <1>4, <1>5, <1>6, QuietKeeps, RuntimeAssumption DEF RuntimeInv, ClockSound

LEMMA CollectorKeeps == RuntimeInv /\ CollectorInserts => RuntimeInv'
<1> SUFFICES ASSUME RuntimeInv, CollectorInserts PROVE RuntimeInv'
  OBVIOUS
<1>1. UNCHANGED <<view, saved>> /\ UNCHANGED <<barEnd, now, pc, tickAt, wakeAt, mine, todo, status>>
      /\ UNCHANGED <<orders, intents, runs>>
  BY DEF CollectorInserts, view, loop
<1>2. PICK p \in Prices, at \in {now - 1, now} \cap Nat :
          /\ quote[<<"collector", at>>] = NoQuote
          /\ quote' = [quote EXCEPT ![<<"collector", at>>] = NewQuote(p, at)]
  BY DEF CollectorInserts
<1>3. at <= now /\ at \in Nat /\ now \in Nat
  BY <1>2, RuntimeAssumption DEF RuntimeInv, ClockSound
<1> DEFINE c == <<"collector", at>>
<1>4. c[2] = at
  OBVIOUS
<1>5. DOMAIN quote = QuoteIds /\ DOMAIN quote' = QuoteIds
      /\ \A k \in QuoteIds : quote'[k] = IF k = c THEN NewQuote(p, at) ELSE quote[k]
  BY <1>2 DEF RuntimeInv, QuotesSound
<1> HIDE DEF c
<1>6. quote[c] = NoQuote
  BY <1>2 DEF c
<1>7. QuotesStay
  BY <1>1, <1>5, <1>6 DEF QuotesStay
<1>8. QuotesSound'
  <2>1. ASSUME NEW k \in QuoteIds, quote'[k] # NoQuote
        PROVE  k[2] <= now' /\ \E r \in Prices : quote'[k] = NewQuote(r, k[2])
    <3>1. CASE k = c
      BY <1>1, <1>3, <1>4, <1>5, <3>1
    <3>2. CASE k # c
      BY <1>1, <1>5, <2>1, <3>2 DEF RuntimeInv, QuotesSound
    <3> QED
      BY <3>1, <3>2
  <2> QED
    BY <1>1, <1>5, <2>1 DEF RuntimeInv, QuotesSound
<1>9. ClockSound'
  BY <1>1 DEF RuntimeInv, ClockSound
<1>10. TickSound'
  <2>1. DecisionDue' <=> DecisionDue
    BY <1>1 DEF DecisionDue, DecisionTime
  <2>2. \A n : Approving(n)' <=> Approving(n)
    BY <1>1 DEF Approving, view
  <2> QED
    BY <1>1, <2>1, <2>2 DEF RuntimeInv, TickSound, TodoSound, Broker!AlreadyOrdered
<1> QED
  BY <1>1, <1>7, <1>8, <1>9, <1>10, QuietKeeps, RuntimeAssumption DEF RuntimeInv, ClockSound
-----------------------------------------------------------------------------
(* Commit, rollback, crash                                                  *)

\* Asleep, a tick holds neither a quote nor intents.
LEMMA AsleepIsSound ==
    ASSUME NEW at, GoToSleep(at) PROVE TickSound'
<1>1. pc' = "asleep" /\ todo' = <<>>
  BY DEF GoToSleep
<1>2. TodoSound'
  <2>1. todo' \in Seq(1..Len(intents')) /\ Len(todo') = 0
    BY <1>1
  <2> QED
    BY <1>1, <2>1 DEF TodoSound
<1> QED
  BY <1>1, <1>2 DEF TickSound

LEMMA RecordKeeps == RuntimeInv /\ Record => RuntimeInv'
<1> SUFFICES ASSUME RuntimeInv, Record PROVE RuntimeInv'
  OBVIOUS
<1>1. /\ UNCHANGED view /\ UNCHANGED <<barEnd, quote, tickAt, status>>
      /\ saved' = Snapshot /\ GoToSleep(now + 1 + CollectInterval) /\ now' = now + 1
      /\ pc = "record"
  BY DEF Record
<1>2. pc' = "asleep" /\ wakeAt' = now + 1 + CollectInterval /\ mine' = NoQuote
  BY <1>1 DEF GoToSleep
<1>3. Snapshot' = Snapshot /\ Committed' = Snapshot
  BY <1>1 DEF view, Snapshot, Committed
<1>4. ClockSound'
  BY <1>1, <1>2, RuntimeAssumption DEF RuntimeInv, ClockSound
<1>5. QuotesSound' /\ QuotesStay
  <2>1. \A k \in QuoteIds : k[2] \in Nat /\ k # NoQuote
    BY RuntimeAssumption, RowAssumption DEF QuoteIds
  <2>2. now \in Nat
    BY RuntimeAssumption DEF RuntimeInv, ClockSound
  <2> QED
    BY <1>1, <1>2, <2>1, <2>2 DEF RuntimeInv, QuotesSound, QuotesStay
<1>6. TickSound'
  BY <1>1, AsleepIsSound
<1>7. barEnd' \in Nat /\ barEnd <= barEnd'
  BY <1>1, RuntimeAssumption DEF RuntimeInv, ClockSound
<1>8. /\ SoundView(Snapshot', quote', mine', barEnd')
      /\ SoundView(Committed', quote', mine', barEnd')
  BY <1>3, <1>5, <1>7, ViewsKept
<1> QED
  BY <1>4, <1>5, <1>6, <1>8 DEF RuntimeInv

\* Whenever the session is lost, what was committed is what there is.
LEMMA RestoreKeeps ==
    ASSUME RuntimeInv, Restore, NEW at, GoToSleep(at), UNCHANGED <<barEnd, saved>>,
           now' \in {now, now + 1}, ClockSound'
    PROVE  RuntimeInv'
<1>1. Snapshot' = Committed /\ Committed' = Committed
  BY DEF Restore, Snapshot, Committed
<1>2. quote' = IF mine = NoQuote THEN quote ELSE [quote EXCEPT ![mine] = NoQuote]
  BY DEF Restore
<1>3. pc' = "asleep" /\ mine' = NoQuote
  BY DEF GoToSleep
<1>4. \A k \in QuoteIds : k[2] \in Nat /\ k # NoQuote
  BY RuntimeAssumption, RowAssumption DEF QuoteIds
<1>5. now \in Nat /\ DOMAIN quote = QuoteIds
  BY RuntimeAssumption DEF RuntimeInv, ClockSound, QuotesSound
<1>6. QuotesStay
  BY <1>2, <1>3, <1>4, <1>5 DEF QuotesStay
<1>7. QuotesSound'
  <2>1. DOMAIN quote' = QuoteIds
    BY <1>2, <1>5
  <2>2. ASSUME NEW k \in QuoteIds, quote'[k] # NoQuote
        PROVE  k[2] <= now' /\ \E p \in Prices : quote'[k] = NewQuote(p, k[2])
    <3>1. quote'[k] = quote[k]
      BY <1>2, <1>5, <2>2
    <3>2. k[2] <= now /\ \E p \in Prices : quote[k] = NewQuote(p, k[2])
      BY <2>2, <3>1 DEF RuntimeInv, QuotesSound
    <3> QED
      BY <1>4, <1>5, <3>1, <3>2
  <2> QED
    BY <1>3, <2>1, <2>2 DEF QuotesSound
<1>8. TickSound'
  BY AsleepIsSound
<1>9. barEnd' \in Nat /\ barEnd <= barEnd'
  BY RuntimeAssumption DEF RuntimeInv, ClockSound
<1>10. /\ SoundView(Snapshot', quote', mine', barEnd')
       /\ SoundView(Committed', quote', mine', barEnd')
  BY <1>1, <1>6, <1>9, ViewsKept
<1> QED
  BY <1>7, <1>8, <1>10 DEF RuntimeInv

LEMMA FailureKeeps == RuntimeInv /\ RecordFailure => RuntimeInv'
<1> SUFFICES ASSUME RuntimeInv, RecordFailure PROVE RuntimeInv'
  OBVIOUS
<1>1. /\ Restore /\ GoToSleep(now + 1 + CollectInterval) /\ UNCHANGED <<barEnd, saved>>
      /\ now' = now + 1
  BY DEF RecordFailure
<1>2. pc = "failed" /\ pc' = "asleep" /\ wakeAt' = now + 1 + CollectInterval
      /\ tickAt' = tickAt /\ status' = "failed"
  BY DEF RecordFailure, GoToSleep
<1>3. ClockSound'
  BY <1>1, <1>2, RuntimeAssumption DEF RuntimeInv, ClockSound
<1> QED
  BY <1>1, <1>3, RestoreKeeps

LEMMA CrashKeeps == RuntimeInv /\ Crash => RuntimeInv'
<1> SUFFICES ASSUME RuntimeInv, Crash PROVE RuntimeInv'
  OBVIOUS
<1>1. /\ Restore /\ GoToSleep(now) /\ UNCHANGED <<barEnd, saved>> /\ now' = now
  BY DEF Crash
<1>2. ClockSound'
  BY Bounds DEF Crash, GoToSleep, RuntimeInv, ClockSound
<1> QED
  BY <1>1, <1>2, RestoreKeeps
-----------------------------------------------------------------------------
(* Strategy and risk                                                        *)

\* The quote a query of the tick finds: seen in time, and never the tick's own.
LEMMA FoundIs ==
    ASSUME RuntimeInv, NEW k \in QuoteFound, k # NoQuote
    PROVE  /\ k \in QuoteIds /\ quote[k] # NoQuote /\ k # mine
           /\ quote[k] \in RuntimeQuotes
           /\ quote[k].buy \in Nat /\ quote[k].sell \in Nat
<1>1. k \in QuoteIds /\ quote[k] # NoQuote /\ quote[k].observed <= tickAt
  BY DEF QuoteFound, PricedBy, LatestQuotes, DecisionTime, RuntimeInv, QuotesSound
<1>2. PICK p \in Prices : quote[k] = NewQuote(p, k[2])
  BY <1>1 DEF RuntimeInv, QuotesSound
<1>3. k[2] \in 0..MaxTime
  BY <1>1 DEF QuoteIds
<1>4. p[1] \in Nat /\ p[2] \in Nat
  BY RuntimeAssumption
<1>5. quote[k] \in RuntimeQuotes
  BY <1>2, <1>3 DEF RuntimeQuotes
<1>6. k # mine
  <2>1. quote[k].observed = k[2]
    BY <1>2 DEF NewQuote
  <2>2. tickAt \in Nat
    BY RuntimeAssumption DEF RuntimeInv, ClockSound
  <2>3. k = mine => k[2] > tickAt
    BY <1>1, RowAssumption DEF RuntimeInv, QuotesSound
  <2> QED
    BY <1>1, <1>3, <2>1, <2>2, <2>3
<1> QED
  BY <1>1, <1>2, <1>4, <1>5, <1>6 DEF NewQuote

\* There is at most one exit, and it sells for a natural number of cash quanta.
LEMMA ExitIs ==
    ASSUME RuntimeInv, NEW k \in QuoteFound, NEW regime, NEW run
    PROVE  \/ ExitIntents(regime, run, k) = <<>>
           \/ \E c \in Nat :
                ExitIntents(regime, run, k) = <<[side |-> "sell", run |-> run, cash |-> c]>>
<1>1. CASE Held.quantity <= 0 \/ k = NoQuote
  BY <1>1 DEF ExitIntents
<1>2. CASE ~(Held.quantity <= 0 \/ k = NoQuote)
  <2> DEFINE quantity == ExitQuantity(regime, quote[k].buy)
  <2>1. quote[k].buy \in Nat
    BY <1>2, FoundIs
  <2>2. Held.quantity \in Nat
    <3>1. Held \in HoldingRow
      BY DEF RuntimeInv, SoundView, BookOf, Snapshot, Held
    <3> QED
      BY <3>1 DEF HoldingRow, P!PositionRow
  <2>3. quantity \in Nat
    <3>1. ExitFraction \in Nat /\ RateScale \in Nat \ {0}
      BY RuntimeAssumption, CostAssumption
    <3>2. HalfEven(Held.quantity * ExitFraction, RateScale) \in Nat
      BY <2>2, <3>1, ProductNat, HalfEvenNat
    <3> HIDE DEF Held
    <3> QED
      BY <2>2, <3>2 DEF ExitQuantity
  <2> HIDE DEF quantity
  <2>4. HalfEven(quantity * quote[k].buy, QuantityScale) \in Nat
    BY <2>1, <2>3, ProductNat, HalfEvenNat, CostAssumption
  <2>5. ExitIntents(regime, run, k) =
          IF quantity <= 0 THEN <<>>
          ELSE <<[side |-> "sell", run |-> run,
                  cash |-> HalfEven(quantity * quote[k].buy, QuantityScale)]>>
    BY <1>2 DEF ExitIntents, quantity
  <2> QED
    BY <2>4, <2>5
<1> QED
  BY <1>1, <1>2

\* A decision fails, or adds a run with at most two intents, each of some cash.
LEMMA DecideIs ==
    ASSUME RuntimeInv, NEW regime, NEW signal \in BOOLEAN, Decide(regime, signal)
    PROVE  \/ pc' = "failed" /\ UNCHANGED <<runs, intents, todo, status>>
           \/ \E new \in Seq(IntentRow) :
                /\ Len(new) <= 2 /\ \A n \in 1..Len(new) : new[n].run = Len(runs) + 1
                /\ runs' = Append(runs, [bar |-> barEnd, at |-> tickAt])
                /\ intents' = intents \o new
                /\ todo' = [n \in 1..Len(new) |-> Len(intents) + n]
                /\ \/ new = <<>> /\ pc' = "record" /\ status' = "ok"
                   \/ new # <<>> /\ pc' = "risk" /\ status' = status
<1> DEFINE run == Len(runs) + 1
           buys == IF regime = "trend_up" /\ signal
                   THEN <<[side |-> "buy", run |-> run, cash |-> OrderCash]>> ELSE <<>>
           AnyRow == [side: Sides, cash: Nat, run: {run}]
<1>1. PICK k \in QuoteFound :
        LET new == buys \o ExitIntents(regime, run, k)
        IN  IF \E n \in 1..Len(new) : new[n].cash = 0
            THEN pc' = "failed" /\ UNCHANGED <<runs, intents, todo, status>>
            ELSE /\ runs' = Append(runs, [bar |-> barEnd, at |-> tickAt])
                 /\ intents' = intents \o new
                 /\ todo' = [n \in 1..Len(new) |-> Len(intents) + n]
                 /\ IF new = <<>> THEN pc' = "record" /\ status' = "ok"
                                  ELSE pc' = "risk" /\ UNCHANGED status
  BY DEF Decide, DecisionTime
<1> DEFINE exits == ExitIntents(regime, run, k)
           new == buys \o exits
<1>2. buys \in Seq(AnyRow) /\ Len(buys) <= 1
  <2> DEFINE buy == [side |-> "buy", run |-> run, cash |-> OrderCash]
  <2>1. buy \in AnyRow
    BY RuntimeAssumption DEF Sides
  <2>2. buys = <<buy>> \/ buys = <<>>
    OBVIOUS
  <2> HIDE DEF AnyRow, buy, buys
  <2>3. CASE buys = <<buy>>
    BY <2>1, <2>3
  <2>4. CASE buys = <<>>
    BY <2>4
  <2> QED
    BY <2>2, <2>3, <2>4
<1>3. exits \in Seq(AnyRow) /\ Len(exits) <= 1
  <2> HIDE DEF run, buys
  <2>1. CASE exits = <<>>
    BY <2>1
  <2>2. ASSUME NEW c \in Nat, exits = <<[side |-> "sell", run |-> run, cash |-> c]>>
        PROVE  exits \in Seq(AnyRow) /\ Len(exits) <= 1
    <3>1. [side |-> "sell", run |-> run, cash |-> c] \in AnyRow
      BY DEF Sides
    <3> HIDE DEF AnyRow, exits
    <3> QED
      BY <2>2, <3>1
  <2> QED
    BY <2>1, <2>2, ExitIs
<1> HIDE DEF buys, exits
<1>4. new \in Seq(AnyRow) /\ Len(new) = Len(buys) + Len(exits)
  BY <1>2, <1>3, ConcatProperties
<1>5. Len(new) <= 2 /\ Len(new) \in Nat
  BY <1>2, <1>3, <1>4
<1>6. CASE \E n \in 1..Len(new) : new[n].cash = 0
  BY <1>1, <1>6 DEF exits
<1>7. CASE ~ \E n \in 1..Len(new) : new[n].cash = 0
  <2>1. /\ runs' = Append(runs, [bar |-> barEnd, at |-> tickAt])
        /\ intents' = intents \o new
        /\ todo' = [n \in 1..Len(new) |-> Len(intents) + n]
        /\ \/ new = <<>> /\ pc' = "record" /\ status' = "ok"
           \/ new # <<>> /\ pc' = "risk" /\ status' = status
    BY <1>1, <1>7 DEF exits
  <2> HIDE DEF new
  <2>2. run \in Nat \ {0}
    BY DEF RuntimeInv, SoundView, RowsOf, Snapshot
  <2>3. \A n \in 1..Len(new) : new[n] \in AnyRow /\ new[n].run = run
    <3>1. \A r \in AnyRow : r.run = run
      OBVIOUS
    <3> HIDE DEF AnyRow
    <3>2. \A n \in 1..Len(new) : new[n] \in AnyRow
      BY <1>4
    <3> QED
      BY <3>1, <3>2
  <2>4. \A n \in 1..Len(new) : new[n] \in IntentRow
    BY <1>7, <2>2, <2>3 DEF IntentRow
  <2>5. new \in Seq(IntentRow)
    BY <1>4, <2>4
  <2> QED
    BY <1>5, <2>1, <2>3, <2>5
<1> QED
  BY <1>6, <1>7

\* A run is made on a later bar than the last and not too soon after it.
LEMMA RunsExtended ==
    ASSUME RuntimeInv, DecisionDue, NEW r \in RunRow, r.bar = barEnd, r.at = tickAt,
           runs' = Append(runs, r), barEnd' = barEnd
    PROVE  RunsApart(Snapshot', barEnd')
<1>1. /\ runs \in Seq(RunRow) /\ \A n \in 1..Len(runs) : runs[n].bar <= barEnd
      /\ \A m, n \in 1..Len(runs) : m < n =>
            runs[m].bar < runs[n].bar /\ runs[n].at - runs[m].at >= DecisionInterval
  BY DEF RuntimeInv, SoundView, RunsApart, RowsOf, Snapshot
<1>2. /\ Len(runs) \in Nat /\ Len(runs') = Len(runs) + 1 /\ runs'[Len(runs) + 1] = r
      /\ \A n \in 1..Len(runs) : runs'[n] = runs[n]
  BY <1>1
<1>3. \A n \in 1..Len(runs) : runs[n].bar \in Nat /\ runs[n].at \in Nat
  <2>1. \A n \in 1..Len(runs) : runs[n] \in RunRow
    BY <1>1
  <2>2. \A x \in RunRow : x.bar \in Nat /\ x.at \in Nat
    BY RuntimeAssumption DEF RunRow
  <2> HIDE DEF RunRow
  <2> QED
    BY <2>1, <2>2
<1>4. barEnd \in Nat /\ tickAt \in Nat /\ DecisionInterval \in Nat
  BY Bounds DEF RuntimeInv, ClockSound
<1>5. ASSUME NEW m \in 1..Len(runs)
      PROVE  runs[m].bar < barEnd /\ tickAt - runs[m].at >= DecisionInterval
  <2>1. /\ Len(runs) \in 1..Len(runs) /\ runs # <<>>
    BY <1>2
  <2>2. runs[Len(runs)].bar # barEnd /\ tickAt >= runs[Len(runs)].at + DecisionInterval
    BY <2>1 DEF DecisionDue, DecisionTime
  <2>3. runs[Len(runs)].bar <= barEnd /\ runs[Len(runs)].bar \in Nat
        /\ runs[Len(runs)].at \in Nat
    BY <1>1, <1>3, <2>1
  <2>4. CASE m = Len(runs)
    BY <1>4, <2>2, <2>3, <2>4
  <2>5. CASE m # Len(runs)
    <3>1. m < Len(runs)
      BY <1>2, <2>5
    <3>2. runs[m].bar < runs[Len(runs)].bar
          /\ runs[Len(runs)].at - runs[m].at >= DecisionInterval
      BY <1>1, <2>1, <3>1
    <3>3. runs[m].bar \in Nat /\ runs[m].at \in Nat
      BY <1>3
    <3> QED
      <4>1. runs[m].bar < barEnd
        BY <1>4, <2>2, <2>3, <3>2, <3>3
      <4>2. runs[Len(runs)].at >= runs[m].at /\ tickAt >= runs[Len(runs)].at + DecisionInterval
        BY <1>4, <2>2, <2>3, <3>2, <3>3
      <4>3. tickAt - runs[m].at >= DecisionInterval
        BY <1>4, <2>3, <3>3, <4>2
      <4> QED
        BY <4>1, <4>3
  <2> QED
    BY <2>4, <2>5
<1>6. \A n \in 1..Len(runs') : runs'[n].bar <= barEnd'
  BY <1>1, <1>2, <1>4
<1>7. ASSUME NEW m \in 1..Len(runs'), NEW n \in 1..Len(runs'), m < n
      PROVE  runs'[m].bar < runs'[n].bar /\ runs'[n].at - runs'[m].at >= DecisionInterval
  <2>1. m \in 1..Len(runs) /\ runs'[m] = runs[m]
    BY <1>2, <1>7
  <2>2. CASE n \in 1..Len(runs)
    <3>1. runs'[n] = runs[n]
      BY <1>2, <2>2
    <3> QED
      BY <1>1, <1>7, <2>1, <2>2, <3>1
  <2>3. CASE n = Len(runs) + 1
    BY <1>2, <1>5, <2>1, <2>3
  <2> QED
    BY <1>2, <2>2, <2>3
<1>8. Snapshot'.runs = runs'
  BY DEF Snapshot
<1> QED
  BY <1>6, <1>7, <1>8 DEF RunsApart


\* The decision: a run, and the intents of its exits and its signal.
LEMMA DecideKeeps ==
    ASSUME RuntimeInv, NEW regime, NEW signal \in BOOLEAN, Decide(regime, signal)
    PROVE  RuntimeInv'
<1>1. /\ UNCHANGED <<wallet, position, orders, trades, ledger, decision>>
      /\ UNCHANGED <<barEnd, quote, saved, now, tickAt, wakeAt, mine>>
      /\ pc = "decide"
  BY DEF Decide
<1>2. QuotesStay /\ barEnd' \in Nat /\ barEnd <= barEnd' /\ DecisionDue
  BY <1>1, RuntimeAssumption DEF QuotesStay, RuntimeInv, ClockSound, TickSound
<1>3. pc' \in {"failed", "record", "risk"} /\ status' \in {status, "ok"}
  BY DecideIs
<1>4. ClockSound'
  BY <1>1, <1>3 DEF RuntimeInv, ClockSound
<1>5. QuotesSound'
  BY <1>1, <1>3 DEF RuntimeInv, QuotesSound
<1>6. CASE pc' = "failed" /\ UNCHANGED <<runs, intents, todo, status>>
  <2>1. TickSound'
    BY <1>1, <1>6 DEF RuntimeInv, TickSound, TodoSound, Broker!AlreadyOrdered
  <2> QED
    BY <1>1, <1>2, <1>4, <1>5, <1>6, <2>1, QuietKeeps DEF view
<1>7. ASSUME NEW new \in Seq(IntentRow),
             Len(new) <= 2, \A n \in 1..Len(new) : new[n].run = Len(runs) + 1,
             runs' = Append(runs, [bar |-> barEnd, at |-> tickAt]),
             intents' = intents \o new,
             todo' = [n \in 1..Len(new) |-> Len(intents) + n],
             \/ new = <<>> /\ pc' = "record"
             \/ new # <<>> /\ pc' = "risk"
      PROVE  RuntimeInv'
  <2>1. /\ intents \in Seq(IntentRow) /\ runs \in Seq(RunRow)
        /\ \A n \in 1..Len(intents) : intents[n].run \in 1..Len(runs)
        /\ decision \in [IntentIds -> Broker!DecisionRow \cup {NoDecision}]
        /\ \A n \in IntentIds : n > Len(intents) => decision[n] = NoDecision
    BY DEF RuntimeInv, SoundView, RowsOf, Snapshot
  <2>2. Len(intents) + 2 <= MaxIntents /\ MaxIntents \in Nat
    BY <1>1, RuntimeAssumption DEF RuntimeInv, TickSound
  <2>3. /\ intents' \in Seq(IntentRow) /\ Len(intents') = Len(intents) + Len(new)
        /\ Len(intents) \in Nat /\ Len(new) \in Nat
        /\ \A n \in 1..Len(intents) : intents'[n] = intents[n]
        /\ \A n \in 1..Len(new) : intents'[Len(intents) + n] = new[n]
    BY <1>7, <2>1, ConcatProperties
  <2>4. [bar |-> barEnd, at |-> tickAt] \in RunRow
    BY DEF RuntimeInv, ClockSound, RunRow
  <2>5. /\ runs' \in Seq(RunRow) /\ Len(runs') = Len(runs) + 1 /\ Len(runs) \in Nat
        /\ \A n \in 1..Len(runs) : runs'[n] = runs[n]
        /\ runs'[Len(runs')] = [bar |-> barEnd, at |-> tickAt]
    BY <1>7, <2>1, <2>4
  <2>6. /\ Snapshot'.wallet = Snapshot.wallet /\ Snapshot'.position = Snapshot.position
        /\ Snapshot'.orders = Snapshot.orders /\ Snapshot'.trades = Snapshot.trades
        /\ Snapshot'.ledger = Snapshot.ledger /\ Snapshot'.decision = Snapshot.decision
        /\ Snapshot'.intents = intents' /\ Snapshot'.runs = runs'
        /\ Snapshot.decision = decision /\ Snapshot.orders = orders /\ Snapshot.trades = trades
        /\ Snapshot.intents = intents /\ Snapshot.runs = runs
    BY <1>1 DEF Snapshot
  <2>7. BookOf(Snapshot')
    BY <2>6, Zenon DEF RuntimeInv, SoundView, BookOf
  <2>8. RowsOf(Snapshot')
    <3>1. ASSUME NEW n \in 1..Len(intents') PROVE intents'[n].run \in 1..Len(runs')
      <4>1. CASE n \in 1..Len(intents)
        BY <2>1, <2>3, <2>5, <4>1
      <4>2. CASE n \notin 1..Len(intents)
        <5>1. n - Len(intents) \in 1..Len(new) /\ n = Len(intents) + (n - Len(intents))
          BY <2>3, <4>2
        <5>2. intents'[n] = new[n - Len(intents)]
          BY <2>3, <5>1
        <5> QED
          BY <1>7, <2>5, <5>1, <5>2
      <4> QED
        BY <4>1, <4>2
    <3>2. Len(intents') <= MaxIntents
      BY <1>7, <2>2, <2>3
    <3>3. \A n \in IntentIds : n > Len(intents') => decision[n] = NoDecision
      BY <2>1, <2>2, <2>3 DEF IntentIds
    <3> QED
      BY <2>1, <2>3, <2>5, <2>6, <3>1, <3>2, <3>3 DEF RowsOf
  <2>9. ReasonsOf(Snapshot', quote', mine')
    <3>1. ASSUME NEW n \in 1..Len(intents'), ApprovingIn(Snapshot', n)
          PROVE  n \in 1..Len(intents) /\ ApprovingIn(Snapshot, n)
      <4>1. ApprovingIn(Snapshot, n)
        BY <2>6, <3>1 DEF ApprovingIn
      <4>2. n \in IntentIds
        BY <1>7, <2>2, <2>3 DEF IntentIds
      <4>3. ~(n > Len(intents))
        BY <2>1, <2>6, <4>1, <4>2 DEF ApprovingIn
      <4> QED
        BY <2>3, <4>1, <4>3
    <3>2. ASSUME NEW n \in 1..Len(intents), ApprovingIn(Snapshot, n)
          PROVE  Backed(Snapshot', n, quote', mine')
      <4>1. Backed(Snapshot, n, quote, mine)
        BY <2>6, <3>2 DEF RuntimeInv, SoundView, ReasonsOf
      <4>2. intents'[n] = intents[n] /\ runs'[intents[n].run] = runs[intents[n].run]
        BY <2>1, <2>3, <2>5
      <4> QED
        BY <1>1, <2>6, <4>1, <4>2 DEF Backed
    <3>3. ASSUME NEW n \in 1..Len(orders)
          PROVE  LET d == orders[n].decision
                 IN  /\ d \in 1..Len(intents') /\ ApprovingIn(Snapshot', d)
                     /\ orders[n].side = intents'[d].side
                     /\ orders[n].quantity = decision[d].quantity
                     /\ trades[n].quote = decision[d].quote
      <4> DEFINE d == orders[n].decision
      <4>1. /\ d \in 1..Len(intents) /\ ApprovingIn(Snapshot, d)
            /\ orders[n].side = intents[d].side
            /\ orders[n].quantity = decision[d].quantity
            /\ trades[n].quote = decision[d].quote
        BY <2>6 DEF RuntimeInv, SoundView, ReasonsOf
      <4>2. d \in 1..Len(intents') /\ intents'[d] = intents[d]
        BY <2>3, <4>1
      <4>3. ApprovingIn(Snapshot', d)
        BY <2>6, <4>1 DEF ApprovingIn
      <4> QED
        BY <4>1, <4>2, <4>3
    <3>4. Len(orders) = Len(trades)
      BY <2>6 DEF RuntimeInv, SoundView, ReasonsOf
    <3> QED
      BY <2>6, <3>1, <3>2, <3>3, <3>4 DEF ReasonsOf
  <2>10. RunsApart(Snapshot', barEnd')
    <3>1. [bar |-> barEnd, at |-> tickAt].bar = barEnd /\ [bar |-> barEnd, at |-> tickAt].at = tickAt
      OBVIOUS
    <3> DEFINE r == [bar |-> barEnd, at |-> tickAt]
    <3> HIDE DEF r
    <3> QED
      BY <1>1, <1>2, <1>7, <2>4, <3>1, RunsExtended DEF r
  <2>11. SoundView(Committed', quote', mine', barEnd')
    <3>1. Committed' = Committed
      BY <1>1 DEF Committed
    <3> QED
      BY <1>1, <3>1 DEF RuntimeInv
  <2>12. TickSound'
    <3>1. todo' \in Seq(1..Len(intents')) /\ Len(todo') = Len(new)
      <4>1. \A n \in 1..Len(new) : Len(intents) + n \in 1..Len(intents')
        BY <2>3
      <4> QED
        BY <1>7, <2>3, <4>1
    <3>2. \A i \in 1..Len(todo') : todo'[i] = Len(intents) + i
      BY <1>7, <3>1
    <3>3. ASSUME NEW i \in 1..Len(todo')
          PROVE  intents'[todo'[i]].run = Len(runs') /\ ~Broker!AlreadyOrdered(todo[i])'
      <4>1. intents'[todo'[i]] = new[i] /\ i \in 1..Len(new)
        BY <2>3, <3>1, <3>2
      <4>2. intents'[todo'[i]].run = Len(runs')
        BY <1>7, <2>5, <4>1
      <4>3. \A n \in 1..Len(orders) : orders[n].decision \in 1..Len(intents)
        BY <2>6 DEF RuntimeInv, SoundView, ReasonsOf
      <4>4. ~ \E n \in 1..Len(orders) : orders[n].decision = todo'[i]
        BY <2>3, <3>1, <3>2, <4>3
      <4>5. ~Broker!AlreadyOrdered(todo[i])'
        BY <1>1, <4>4 DEF Broker!AlreadyOrdered
      <4> QED
        BY <4>2, <4>5
    <3>4. \A i, j \in 1..Len(todo') : i # j => todo'[i] # todo'[j]
      BY <2>3, <3>1, <3>2
    <3>5. pc' \in {"risk", "execute"} =>
             todo' # <<>> /\ runs' # <<>> /\ runs'[Len(runs')].at = tickAt'
      <4>1. pc' \in {"risk", "execute"} => Len(todo') # 0 /\ Len(runs') # 0
        BY <1>7, <2>3, <2>5, <3>1
      <4>2. runs'[Len(runs')].at = tickAt'
        BY <1>1, <2>5
      <4> QED
        BY <4>1, <4>2
    <3>6. TodoSound'
      BY <3>1, <3>3, <3>4, <3>5 DEF TodoSound
    <3> QED
      BY <1>7, <3>6 DEF TickSound
  <2> QED
    BY <1>4, <1>5, <2>7, <2>8, <2>9, <2>10, <2>11, <2>12 DEF RuntimeInv, SoundView
<1> QED
  BY <1>6, <1>7, DecideIs

\* The head and the tail of a list of intents.
LEMMA TailIs ==
    ASSUME NEW S, NEW s \in Seq(S), s # <<>>
    PROVE  /\ Len(s) \in Nat \ {0} /\ Head(s) = s[1] /\ s[1] \in S
           /\ Tail(s) \in Seq(S) /\ Len(Tail(s)) = Len(s) - 1
           /\ \A i \in 1..Len(Tail(s)) : Tail(s)[i] = s[i + 1]
BY HeadTailProperties, EmptySeq

\* The tick goes on with the next intent, if the others are still to be ordered.
LEMMA NextIntentKeeps ==
    ASSUME RuntimeInv, pc \in {"risk", "execute"}, NextIntent,
           UNCHANGED <<intents, runs, tickAt>>,
           \A i \in 2..Len(todo), n \in 1..Len(orders') : orders'[n].decision # todo[i]
    PROVE  TickSound' /\ pc' \in {"risk", "record"} /\ status' \in {status, "ok"}
<1>1. todo' = Tail(todo) /\ pc' = IF Len(todo) = 1 THEN "record" ELSE "risk"
  BY DEF NextIntent
<1>2. /\ todo \in Seq(1..Len(intents)) /\ todo # <<>>
      /\ runs # <<>> /\ runs[Len(runs)].at = tickAt
      /\ \A i \in 1..Len(todo) : intents[todo[i]].run = Len(runs)
      /\ \A i, j \in 1..Len(todo) : i # j => todo[i] # todo[j]
  BY DEF RuntimeInv, TickSound, TodoSound
<1>3. /\ Len(todo) \in Nat \ {0} /\ Tail(todo) \in Seq(1..Len(intents))
      /\ Len(Tail(todo)) = Len(todo) - 1
      /\ \A i \in 1..Len(Tail(todo)) : Tail(todo)[i] = todo[i + 1]
  BY <1>2, TailIs
<1>4. todo' \in Seq(1..Len(intents'))
  BY <1>1, <1>3
<1>5. ASSUME NEW i \in 1..Len(todo')
      PROVE  intents'[todo'[i]].run = Len(runs') /\ ~Broker!AlreadyOrdered(todo[i])'
  <2>1. i + 1 \in 2..Len(todo) /\ todo'[i] = todo[i + 1]
    BY <1>1, <1>3
  <2>2. \A n \in 1..Len(orders') : orders'[n].decision # todo'[i]
    BY <2>1
  <2> QED
    BY <1>2, <1>3, <2>1, <2>2 DEF Broker!AlreadyOrdered
<1>6. \A i, j \in 1..Len(todo') : i # j => todo'[i] # todo'[j]
  <2>1. \A i \in 1..Len(todo') : i + 1 \in 1..Len(todo) /\ todo'[i] = todo[i + 1]
    BY <1>1, <1>3
  <2> QED
    BY <1>2, <1>3, <2>1
<1>7. pc' \in {"risk", "execute"} =>
         todo' # <<>> /\ runs' # <<>> /\ runs'[Len(runs')].at = tickAt'
  <2>1. pc' \in {"risk", "execute"} => Len(todo') # 0
    BY <1>1, <1>3
  <2> QED
    BY <1>2, <2>1
<1>8. TodoSound'
  BY <1>4, <1>5, <1>6, <1>7 DEF TodoSound
<1>9. pc' \in {"risk", "record"} /\ status' \in {status, "ok"}
  BY DEF NextIntent
<1> QED
  BY <1>8, <1>9 DEF TickSound

\* The intent at the head of the list, in a tick that is past its decision.
LEMMA HeadIs ==
    ASSUME RuntimeInv, pc \in {"risk", "execute"}
    PROVE  LET n == Head(todo)
           IN  /\ todo # <<>> /\ n = todo[1] /\ n \in 1..Len(intents) /\ n \in IntentIds
               /\ intents[n] \in IntentRow /\ intents[n].cash \in Nat \ {0}
               /\ intents[n].run \in 1..Len(runs) /\ runs[intents[n].run].at = tickAt
               /\ \A m \in 1..Len(orders) : orders[m].decision # n
               /\ \A i \in 2..Len(todo) : todo[i] # n
<1>1. /\ todo \in Seq(1..Len(intents)) /\ todo # <<>> /\ runs[Len(runs)].at = tickAt
      /\ \A i \in 1..Len(todo) : /\ intents[todo[i]].run = Len(runs)
                                 /\ ~Broker!AlreadyOrdered(todo[i])
      /\ \A i, j \in 1..Len(todo) : i # j => todo[i] # todo[j]
  BY DEF RuntimeInv, TickSound, TodoSound
<1>2. /\ intents \in Seq(IntentRow) /\ Len(intents) <= MaxIntents
      /\ \A n \in 1..Len(intents) : intents[n].run \in 1..Len(runs)
  BY DEF RuntimeInv, SoundView, RowsOf, Snapshot
<1>3. Len(todo) \in Nat \ {0} /\ Head(todo) = todo[1] /\ todo[1] \in 1..Len(intents)
  BY <1>1, TailIs
<1> DEFINE n == Head(todo)
<1>4. n \in IntentIds
  BY <1>2, <1>3, Bounds DEF IntentIds
<1>5. intents[n] \in IntentRow
  BY <1>2, <1>3
<1>6. intents[n].cash \in Nat \ {0}
  BY <1>5 DEF IntentRow
<1>7. \A i \in 2..Len(todo) : todo[i] # n
  BY <1>1, <1>3
<1>8. \A m \in 1..Len(orders) : orders[m].decision # n
  BY <1>1, <1>3 DEF Broker!AlreadyOrdered
<1>9. runs[intents[n].run].at = tickAt
  BY <1>1, <1>3
<1> QED
  BY <1>1, <1>2, <1>3, <1>4, <1>5, <1>6, <1>7, <1>8, <1>9

LEMMA AssessRiskKeeps == RuntimeInv /\ AssessRisk => RuntimeInv'
<1> SUFFICES ASSUME RuntimeInv, AssessRisk PROVE RuntimeInv'
  OBVIOUS
<1>1. /\ UNCHANGED <<wallet, position, orders, trades, ledger, intents, runs>>
      /\ UNCHANGED <<barEnd, quote, saved, now, tickAt, wakeAt, mine>>
      /\ pc = "risk"
  BY DEF AssessRisk
<1> DEFINE n == Head(todo)
<1>2. /\ todo # <<>> /\ n = todo[1] /\ n \in 1..Len(intents) /\ n \in IntentIds
      /\ intents[n].cash \in Nat \ {0}
      /\ intents[n].run \in 1..Len(runs) /\ runs[intents[n].run].at = tickAt
      /\ \A m \in 1..Len(orders) : orders[m].decision # n
      /\ \A i \in 2..Len(todo) : todo[i] # n
  BY <1>1, HeadIs
<1>3. PICK k \in QuoteFound :
        LET p == PayloadWith(n, k)
        IN  /\ decision' = [decision EXCEPT ![n] =
                    [ account |-> Account, instrument |-> Instrument,
                      outcome |-> p.outcome, quantity |-> p.quantity, quote |-> k ]]
            /\ IF p.outcome = "reject" THEN NextIntent
               ELSE pc' = "execute" /\ UNCHANGED <<todo, status>>
  BY DEF AssessRisk
<1> DEFINE p == PayloadWith(n, k)
           q == IF k = NoQuote THEN NoQuote ELSE quote[k]
           row == [ account |-> Account, instrument |-> Instrument,
                    outcome |-> p.outcome, quantity |-> p.quantity, quote |-> k ]
<1>4. q \in RuntimeQuotes \cup {NoQuote} /\ k \in QuoteIds \cup {NoQuote}
  BY FoundIs
<1>5. tickAt \in Nat
  BY RuntimeAssumption DEF RuntimeInv, ClockSound
<1>6. p = Payload(intents[n].cash, SeededListing, Bank, wallet[Account], q, RuntimeContext, tickAt)
  BY DEF PayloadWith, DecisionTime
<1>7. /\ p.outcome \in {"approve", "reduce", "reject"} /\ p.quantity \in Nat
      /\ p.outcome # "reject" =>
            /\ q \in RuntimeQuotes /\ p.quantity > 0
            /\ tickAt - q.observed \in 0..QuoteFreshness
            /\ p.quantity * q.sell >= QuantityScale
  <2> HIDE DEF p, q, n
  <2> QED
    BY <1>2, <1>4, <1>5, <1>6, PayloadSound
<1>8. decision' = [decision EXCEPT ![n] = row]
      /\ IF p.outcome = "reject" THEN NextIntent
         ELSE pc' = "execute" /\ UNCHANGED <<todo, status>>
  BY <1>3
<1>9. row \in Broker!DecisionRow /\ row.outcome = p.outcome /\ row.quantity = p.quantity
      /\ row.quote = k
  BY <1>4, <1>7 DEF Broker!DecisionRow
<1>10. NoQuote \notin RuntimeQuotes
  BY RowAssumption DEF RuntimeQuotes
<1>11. p.outcome # "reject" =>
          /\ k \in QuoteIds /\ quote[k] # NoQuote /\ k # mine
          /\ tickAt - quote[k].observed \in 0..QuoteFreshness
          /\ p.quantity * quote[k].sell >= QuantityScale
  BY <1>7, <1>10, FoundIs
<1> HIDE DEF n, p, q, row
<1>12. /\ decision \in [IntentIds -> Broker!DecisionRow \cup {NoDecision}]
       /\ \A m \in IntentIds : m > Len(intents) => decision[m] = NoDecision
       /\ intents \in Seq(IntentRow) /\ Len(intents) <= MaxIntents
  BY DEF RuntimeInv, SoundView, RowsOf, Snapshot
<1>13. /\ decision' \in [IntentIds -> Broker!DecisionRow \cup {NoDecision}]
       /\ decision'[n] = row /\ row # NoDecision
       /\ \A m \in IntentIds : m # n => decision'[m] = decision[m]
  BY <1>2, <1>8, <1>9, <1>12, RowAssumption
<1>14. /\ Snapshot'.wallet = Snapshot.wallet /\ Snapshot'.position = Snapshot.position
       /\ Snapshot'.orders = Snapshot.orders /\ Snapshot'.trades = Snapshot.trades
       /\ Snapshot'.ledger = Snapshot.ledger /\ Snapshot'.decision = decision'
       /\ Snapshot'.intents = Snapshot.intents /\ Snapshot'.runs = Snapshot.runs
       /\ Snapshot.decision = decision /\ Snapshot.orders = orders /\ Snapshot.trades = trades
       /\ Snapshot.intents = intents /\ Snapshot.runs = runs
  BY <1>1 DEF Snapshot
<1>15. BookOf(Snapshot')
  BY <1>14, Zenon DEF RuntimeInv, SoundView, BookOf
<1>16. RowsOf(Snapshot')
  <2>1. \A m \in IntentIds : m > Len(intents) => decision'[m] = NoDecision
    BY <1>2, <1>12, <1>13
  <2>2. RowsOf(Snapshot)
    BY DEF RuntimeInv, SoundView
  <2> QED
    BY <1>13, <1>14, <2>1, <2>2 DEF RowsOf
<1>17. ReasonsOf(Snapshot', quote', mine')
  <2>1. ASSUME NEW m \in 1..Len(intents), ApprovingIn(Snapshot', m)
        PROVE  Backed(Snapshot', m, quote', mine')
    <3>1. CASE m = n
      <4>1. p.outcome # "reject"
        BY <1>9, <1>13, <1>14, <2>1, <3>1 DEF ApprovingIn
      <4> QED
        BY <1>1, <1>2, <1>9, <1>11, <1>13, <1>14, <3>1, <4>1 DEF Backed
    <3>2. CASE m # n
      <4>1. m \in IntentIds
        BY <1>12, Bounds DEF IntentIds
      <4>2. decision'[m] = decision[m]
        BY <1>13, <3>2, <4>1
      <4>3. ApprovingIn(Snapshot, m)
        BY <1>14, <2>1, <4>2 DEF ApprovingIn
      <4>4. Backed(Snapshot, m, quote, mine)
        BY <1>14, <4>3 DEF RuntimeInv, SoundView, ReasonsOf
      <4> QED
        BY <1>1, <1>14, <4>2, <4>4 DEF Backed
    <3> QED
      BY <3>1, <3>2
  <2>2. ASSUME NEW m \in 1..Len(orders)
        PROVE  LET d == orders[m].decision
               IN  /\ d \in 1..Len(intents) /\ ApprovingIn(Snapshot', d)
                   /\ orders[m].side = intents[d].side
                   /\ orders[m].quantity = decision'[d].quantity
                   /\ trades[m].quote = decision'[d].quote
    <3> DEFINE d == orders[m].decision
    <3>1. /\ d \in 1..Len(intents) /\ ApprovingIn(Snapshot, d)
          /\ orders[m].side = intents[d].side
          /\ orders[m].quantity = decision[d].quantity
          /\ trades[m].quote = decision[d].quote
      BY <1>14 DEF RuntimeInv, SoundView, ReasonsOf
    <3>2. d # n /\ d \in IntentIds
      BY <1>2, <1>12, <3>1, Bounds DEF IntentIds
    <3>3. decision'[d] = decision[d]
      BY <1>13, <3>2
    <3>4. ApprovingIn(Snapshot', d)
      BY <1>14, <3>1, <3>3 DEF ApprovingIn
    <3> QED
      BY <3>1, <3>3, <3>4
  <2>3. Len(orders) = Len(trades)
    BY <1>14 DEF RuntimeInv, SoundView, ReasonsOf
  <2> QED
    BY <1>14, <2>1, <2>2, <2>3 DEF ReasonsOf
<1>18. RunsApart(Snapshot', barEnd')
  BY <1>1, <1>14 DEF RuntimeInv, SoundView, RunsApart
<1>19. SoundView(Committed', quote', mine', barEnd')
  <2>1. Committed' = Committed
    BY <1>1 DEF Committed
  <2> QED
    BY <1>1, <2>1 DEF RuntimeInv
<1>20. TickSound' /\ pc' \in {"risk", "execute", "record"} /\ status' \in {status, "ok"}
  <2>1. CASE p.outcome = "reject"
    <3>1. NextIntent
      BY <1>8, <2>1
    <3>2. \A i \in 2..Len(todo), m \in 1..Len(orders') : orders'[m].decision # todo[i]
      <4>1. \A i \in 2..Len(todo) : i \in 1..Len(todo)
        BY <1>2, TailIs DEF RuntimeInv, TickSound, TodoSound
      <4> QED
        BY <1>1, <4>1 DEF RuntimeInv, TickSound, TodoSound, Broker!AlreadyOrdered
    <3> QED
      BY <1>1, <3>1, <3>2, NextIntentKeeps
  <2>2. CASE p.outcome # "reject"
    <3>1. pc' = "execute" /\ UNCHANGED <<todo, status>>
      BY <1>8, <2>2
    <3>2. TodoSound'
      BY <1>1, <3>1 DEF RuntimeInv, TickSound, TodoSound, Broker!AlreadyOrdered
    <3>3. Approving(Head(todo))'
      <4>1. decision'[Head(todo)] = row
        BY <1>13 DEF n
      <4>2. Head(todo') = Head(todo)
        BY <3>1
      <4> QED
        BY <1>7, <1>9, <1>13, <2>2, <4>1, <4>2 DEF Approving
    <3> QED
      BY <3>1, <3>2, <3>3 DEF TickSound
  <2> QED
    BY <2>1, <2>2
<1>21. ClockSound'
  BY <1>1, <1>20 DEF RuntimeInv, ClockSound
<1>22. QuotesSound'
  BY <1>1, <1>20 DEF RuntimeInv, QuotesSound
<1> QED
  BY <1>15, <1>16, <1>17, <1>18, <1>19, <1>20, <1>21, <1>22 DEF RuntimeInv, SoundView

\* What the broker needs to know of the rows it is called on.
LEMMA SoundForBroker == RuntimeInv => P!Sound
<1> SUFFICES ASSUME RuntimeInv PROVE P!Sound
  OBVIOUS
<1>1. P!BookTypeOK /\ P!NeverOverdrawn
  BY BookIs DEF RuntimeInv, SoundView
<1>2. decision \in [IntentIds -> P!DecisionRow \cup {NoDecision}]
  BY SameBroker DEF RuntimeInv, SoundView, RowsOf, Snapshot
<1>3. ASSUME NEW k \in QuoteIds, quote[k] # NoQuote
      PROVE  quote[k].buy \in Nat /\ quote[k].sell \in Nat /\ quote[k].buy <= quote[k].sell
  <2>1. PICK p \in Prices : quote[k] = NewQuote(p, k[2])
    BY <1>3 DEF RuntimeInv, QuotesSound
  <2> QED
    BY <2>1, RuntimeAssumption DEF NewQuote
<1> QED
  BY <1>1, <1>2, <1>3 DEF P!Sound, P!RowsSound

\* What an order that goes through adds to the book.
LEMMA FillKeepsBook ==
    ASSUME RuntimeInv, pc = "execute", NEW n, n = Head(todo), NEW k, k = decision[n].quote,
           Broker!Execute(n, intents[n].side, k)
    PROVE  /\ k \in QuoteIds /\ Approving(n)
           /\ P!BookTypeOK' /\ P!NeverOverdrawn' /\ P!BookReconciles' /\ P!HeldHasCost'
           /\ Len(orders') = Len(orders) + 1 /\ Len(trades') = Len(trades) + 1
           /\ \A m \in 1..Len(orders) : orders'[m] = orders[m]
           /\ \A m \in 1..Len(trades) : trades'[m] = trades[m]
           /\ orders'[Len(orders')].decision = n
           /\ orders'[Len(orders')].side = intents[n].side
           /\ orders'[Len(orders')].quantity = decision[n].quantity
           /\ trades'[Len(trades')].quote = k
<1> DEFINE side == intents[n].side
<1>1. /\ n \in 1..Len(intents) /\ n \in IntentIds /\ intents[n] \in IntentRow
      /\ \A m \in 1..Len(orders) : orders[m].decision # n
  BY HeadIs
<1>2. Approving(n)
  BY DEF RuntimeInv, TickSound
<1>3. k \in QuoteIds /\ decision[n].quantity * quote[k].sell >= QuantityScale
  <2>1. Backed(Snapshot, n, quote, mine)
    BY <1>1, <1>2 DEF RuntimeInv, SoundView, ReasonsOf, ApprovingIn, Approving, Snapshot
  <2> QED
    BY <2>1 DEF Backed, Snapshot
<1>4. Broker!QuoteOf(n, k) = k
  BY <1>3, RowAssumption DEF Broker!QuoteOf
<1>5. ~Broker!AlreadyOrdered(n)
  BY <1>1 DEF Broker!AlreadyOrdered
<1>6. Broker!Approved(n) /\ Broker!QuoteUsable(n, k) /\ Broker!Affordable(n, side, k)
      /\ Broker!Fill(n, side, k)
  BY <1>4, <1>5 DEF Broker!Execute, Broker!Accepts
<1>7. P!Approved(n) /\ P!QuoteUsable(n, k) /\ P!Affordable(n, side, k) /\ P!Fill(n, side, k)
  BY <1>6, SameExecution
<1>8. side \in P!Sides
  BY <1>1 DEF IntentRow, Sides, P!Sides
<1>9. P!Sound /\ P!BookReconciles /\ P!HeldHasCost
  BY SoundForBroker, BookIs DEF RuntimeInv, SoundView
<1> HIDE DEF side
<1>10. P!BookTypeOK' /\ P!NeverOverdrawn'
  BY <1>1, <1>3, <1>7, <1>8, <1>9, BrokerAssumptions, P!FillBookInv
<1>11. P!BookReconciles'
  BY <1>1, <1>3, <1>7, <1>8, <1>9, BrokerAssumptions, P!FillReconciles
<1>12. P!HeldHasCost'
  BY <1>1, <1>3, <1>7, <1>8, <1>9, BrokerAssumptions, P!FillKeepsCost
<1>13. /\ Len(orders') = Len(orders) + 1 /\ Len(trades') = Len(trades) + 1
       /\ \A m \in 1..Len(orders) : orders'[m] = orders[m]
       /\ \A m \in 1..Len(trades) : trades'[m] = trades[m]
       /\ trades'[Len(trades) + 1].quote = k
  BY <1>1, <1>3, <1>7, <1>8, <1>9, BrokerAssumptions, P!FillAppends
<1>14. /\ orders'[Len(orders')].decision = n /\ orders'[Len(orders')].side = side
       /\ orders'[Len(orders')].quantity = decision[n].quantity
  <2>1. orders' = Append(orders, [decision |-> n, account |-> decision[n].account,
                                  instrument |-> decision[n].instrument,
                                  side |-> side, quantity |-> decision[n].quantity])
    BY <1>7 DEF P!Fill
  <2>2. orders \in Seq(P!OrderRow)
    BY <1>9 DEF P!Sound, P!BookTypeOK
  <2> QED
    BY <1>13, <2>1, <2>2
<1> QED
  BY <1>2, <1>3, <1>10, <1>11, <1>12, <1>13, <1>14 DEF side

LEMMA ExecuteKeeps == RuntimeInv /\ ExecuteIntent => RuntimeInv'
<1> SUFFICES ASSUME RuntimeInv, ExecuteIntent PROVE RuntimeInv'
  OBVIOUS
<1> DEFINE n == Head(todo)
           k == decision[n].quote
<1>1. /\ UNCHANGED <<intents, runs, barEnd, saved, now, tickAt, wakeAt, mine>>
      /\ pc = "execute"
      /\ \/ Broker!Execute(n, intents[n].side, k) /\ NextIntent
         \/ pc' = "failed" /\ UNCHANGED <<view, quote, todo, status>>
  BY DEF ExecuteIntent
<1>2. QuotesStay /\ UNCHANGED <<quote, decision>> /\ barEnd' \in Nat /\ barEnd <= barEnd'
  <2>1. UNCHANGED <<quote, decision>>
    BY <1>1 DEF Broker!Execute, view
  <2> QED
    BY <1>1, <2>1, RuntimeAssumption DEF QuotesStay, RuntimeInv, ClockSound
<1>3. CASE pc' = "failed" /\ UNCHANGED <<view, quote, todo, status>>
  <2>1. ClockSound'
    BY <1>1, <1>3 DEF RuntimeInv, ClockSound
  <2>2. QuotesSound'
    BY <1>1, <1>3 DEF RuntimeInv, QuotesSound
  <2>3. TickSound'
    BY <1>1, <1>3 DEF RuntimeInv, TickSound, TodoSound, Broker!AlreadyOrdered, view
  <2> QED
    BY <1>1, <1>2, <1>3, <2>1, <2>2, <2>3, QuietKeeps
<1>4. CASE Broker!Execute(n, intents[n].side, k) /\ NextIntent
  <2>1. /\ n \in 1..Len(intents) /\ \A i \in 2..Len(todo) : todo[i] # n
    BY <1>1, HeadIs
  <2>2. /\ Approving(n)
        /\ P!BookTypeOK' /\ P!NeverOverdrawn' /\ P!BookReconciles' /\ P!HeldHasCost'
        /\ Len(orders') = Len(orders) + 1 /\ Len(trades') = Len(trades) + 1
        /\ \A m \in 1..Len(orders) : orders'[m] = orders[m]
        /\ \A m \in 1..Len(trades) : trades'[m] = trades[m]
        /\ orders'[Len(orders')].decision = n
        /\ orders'[Len(orders')].side = intents[n].side
        /\ orders'[Len(orders')].quantity = decision[n].quantity
        /\ trades'[Len(trades')].quote = k
    BY <1>1, <1>4, FillKeepsBook
  <2> HIDE DEF n, k
  <2>3. BookOf(Snapshot)'
    BY <2>2, BookIs, PTL
  <2>4. BookOf(Snapshot')
    BY <2>3 DEF BookOf
  <2>5. /\ Snapshot'.decision = decision /\ Snapshot'.intents = intents /\ Snapshot'.runs = runs
        /\ Snapshot'.orders = orders' /\ Snapshot'.trades = trades'
        /\ Snapshot.decision = decision /\ Snapshot.intents = intents /\ Snapshot.runs = runs
        /\ Snapshot.orders = orders /\ Snapshot.trades = trades
    BY <1>1, <1>2 DEF Snapshot
  <2>6. RowsOf(Snapshot') /\ RunsApart(Snapshot', barEnd')
    BY <1>1, <2>5 DEF RuntimeInv, SoundView, RowsOf, RunsApart
  <2>7. ReasonsOf(Snapshot', quote', mine')
    <3>1. ReasonsOf(Snapshot, quote, mine)
      BY DEF RuntimeInv, SoundView
    <3>2. ASSUME NEW m \in 1..Len(intents), ApprovingIn(Snapshot', m)
          PROVE  Backed(Snapshot', m, quote', mine')
      BY <1>1, <1>2, <2>5, <3>1, <3>2 DEF ReasonsOf, ApprovingIn, Backed
    <3>3. Len(orders) = Len(trades) /\ Len(orders) \in Nat
      <4>1. orders \in Seq(P!OrderRow)
        BY DEF RuntimeInv, SoundView, BookOf, Snapshot
      <4> QED
        BY <2>5, <3>1, <4>1 DEF ReasonsOf
    <3>4. ASSUME NEW m \in 1..Len(orders')
          PROVE  LET d == orders'[m].decision
                 IN  /\ d \in 1..Len(intents) /\ ApprovingIn(Snapshot', d)
                     /\ orders'[m].side = intents[d].side
                     /\ orders'[m].quantity = decision[d].quantity
                     /\ trades'[m].quote = decision[d].quote
      <4>1. CASE m \in 1..Len(orders)
        BY <2>2, <2>5, <3>1, <3>3, <4>1 DEF ReasonsOf, ApprovingIn
      <4>2. CASE m = Len(orders')
        BY <2>1, <2>2, <2>5, <3>3, <4>2 DEF ApprovingIn, Approving, k
      <4> QED
        BY <2>2, <3>3, <4>1, <4>2
    <3> QED
      BY <2>2, <2>5, <3>2, <3>3, <3>4 DEF ReasonsOf
  <2>8. SoundView(Committed', quote', mine', barEnd')
    <3>1. Committed' = Committed
      BY <1>1 DEF Committed
    <3> QED
      BY <1>1, <1>2, <3>1 DEF RuntimeInv
  <2>9. TickSound' /\ pc' \in {"risk", "record"} /\ status' \in {status, "ok"}
    <3>1. ASSUME NEW i \in 2..Len(todo), NEW m \in 1..Len(orders')
          PROVE  orders'[m].decision # todo[i]
      <4>1. i \in 1..Len(todo)
        BY <1>1, TailIs DEF RuntimeInv, TickSound, TodoSound
      <4>2. \A j \in 1..Len(orders) : orders[j].decision # todo[i]
        BY <4>1 DEF RuntimeInv, TickSound, TodoSound, Broker!AlreadyOrdered
      <4>3. Len(orders) \in Nat
        BY DEF RuntimeInv, SoundView, BookOf, Snapshot
      <4>4. CASE m \in 1..Len(orders)
        BY <2>2, <4>2, <4>4
      <4>5. CASE m = Len(orders')
        BY <2>1, <2>2, <4>5
      <4> QED
        BY <2>2, <4>3, <4>4, <4>5
    <3> QED
      BY <1>1, <1>4, <3>1, NextIntentKeeps
  <2>10. ClockSound'
    BY <1>1, <2>9 DEF RuntimeInv, ClockSound
  <2>11. QuotesSound'
    BY <1>1, <1>2, <2>9 DEF RuntimeInv, QuotesSound
  <2> QED
    BY <2>4, <2>6, <2>7, <2>8, <2>9, <2>10, <2>11 DEF RuntimeInv, SoundView
<1> QED
  BY <1>1, <1>3, <1>4

-----------------------------------------------------------------------------
(* The invariant and what it says                                           *)

LEMMA InitKeeps == Init => RuntimeInv
<1> SUFFICES ASSUME Init PROVE RuntimeInv
  OBVIOUS
<1>1. P!Init
  BY DEF Init, Broker!Init, Broker!BookInit, P!Init, P!BookInit,
         Broker!EmptyPosition, P!EmptyPosition
<1>2. /\ intents = <<>> /\ runs = <<>> /\ saved = Snapshot
      /\ now = 0 /\ pc = "asleep" /\ tickAt = 0 /\ wakeAt = 0
      /\ mine = NoQuote /\ todo = <<>> /\ barEnd = 0 /\ status = "none"
      /\ orders = <<>> /\ trades = <<>>
      /\ position = [a \in {Account} |-> [i \in {Instrument} |-> P!EmptyPosition]]
      /\ decision = [n \in IntentIds |-> NoDecision]
      /\ quote = [k \in QuoteIds |-> NoQuote]
  BY <1>1 DEF Init, P!Init, P!BookInit
<1>3. BookOf(Snapshot)
  <2>1. P!BookTypeOK /\ P!NeverOverdrawn
    BY <1>1, BrokerAssumptions, P!InitBookInv DEF P!BookInv, P!TypeOK
  <2>2. P!BookReconciles
    BY <1>1, BrokerAssumptions, P!StartReconciles
  <2>3. P!HeldHasCost
    BY <1>2 DEF P!HeldHasCost, P!EmptyPosition
  <2> QED
    BY <2>1, <2>2, <2>3, BookIs
<1>4. /\ Snapshot.intents = <<>> /\ Snapshot.runs = <<>>
      /\ Snapshot.orders = <<>> /\ Snapshot.trades = <<>>
      /\ Snapshot.decision = [n \in IntentIds |-> NoDecision]
  BY <1>2 DEF Snapshot
<1>5. RowsOf(Snapshot)
  BY <1>4, RuntimeAssumption DEF RowsOf
<1>6. ReasonsOf(Snapshot, quote, mine) /\ RunsApart(Snapshot, barEnd)
  BY <1>4 DEF ReasonsOf, RunsApart
<1>7. Committed = Snapshot
  BY <1>2 DEF Committed, Snapshot
<1>8. ClockSound
  BY <1>2, RuntimeAssumption DEF ClockSound
<1>9. QuotesSound
  BY <1>2 DEF QuotesSound
<1>10. TickSound
  BY <1>2 DEF TickSound, TodoSound
<1> QED
  BY <1>3, <1>5, <1>6, <1>7, <1>8, <1>9, <1>10 DEF RuntimeInv, SoundView

LEMMA NextKeeps == RuntimeInv /\ [Next]_vars => RuntimeInv'
<1> SUFFICES ASSUME RuntimeInv, [Next]_vars PROVE RuntimeInv'
  OBVIOUS
<1>1. CASE UNCHANGED vars
  <2>1. /\ UNCHANGED <<view, saved>>
        /\ UNCHANGED <<barEnd, quote, now, pc, tickAt, wakeAt, mine, todo, status>>
        /\ UNCHANGED <<orders, intents, runs, decision>>
    BY <1>1 DEF vars, view, loop
  <2>2. QuotesStay /\ barEnd' \in Nat /\ barEnd <= barEnd'
    BY <2>1, RuntimeAssumption DEF QuotesStay, RuntimeInv, ClockSound
  <2>3. ClockSound'
    BY <2>1 DEF RuntimeInv, ClockSound
  <2>4. QuotesSound'
    BY <2>1 DEF RuntimeInv, QuotesSound
  <2>5. TickSound'
    BY <2>1 DEF RuntimeInv, TickSound, TodoSound, Broker!AlreadyOrdered, DecisionDue,
                DecisionTime, Approving
  <2> QED
    BY <2>1, <2>2, <2>3, <2>4, <2>5, QuietKeeps
<1>2. CASE Worker
  BY <1>2, WakeKeeps, SleepKeeps, CollectKeeps, FetchFailsKeeps, AssessKeeps, DecideKeeps,
     AssessRiskKeeps, ExecuteKeeps, RecordKeeps, FailureKeeps DEF Worker
<1>3. CASE Crash \/ SignalBarArrives \/ CollectorInserts
  BY <1>3, CrashKeeps, BarKeeps, CollectorKeeps
<1> QED
  BY <1>1, <1>2, <1>3 DEF Next

\* In whatever order ticks, failures, restarts and collected quotes come, wallet and
\* holding can be recomputed from the ledger and the trades at every moment, in the
\* middle of a tick and after every rollback, and what is held has a cost
\* (PaperRuntime.tick, main and PaperBroker.execute).
THEOREM RuntimeReconciles == Spec => []BookReconciles
<1>1. RuntimeInv => BookReconciles
  <2> SUFFICES ASSUME RuntimeInv PROVE BookReconciles
    OBVIOUS
  <2>1. P!BookTypeOK /\ P!BookReconciles /\ P!HeldHasCost
    BY BookIs DEF RuntimeInv, SoundView
  <2>2. Broker!BookTypeOK /\ Broker!BookReconciles
    BY <2>1, SameBroker
  <2>3. Held.quantity > 0 => Held.average > 0
    BY <2>1 DEF P!HeldHasCost, Held
  <2>4. ASSUME NEW n \in IntentIds, decision[n] # NoDecision
        PROVE  decision[n].quantity \in Nat /\ decision[n].quote \in QuoteIds \cup {NoQuote}
    <3>1. decision[n] \in Broker!DecisionRow
      BY <2>4 DEF RuntimeInv, SoundView, RowsOf, Snapshot
    <3> QED
      BY <3>1 DEF Broker!DecisionRow
  <2>5. intents \in Seq(IntentRow) /\ runs \in Seq(RunRow)
    BY DEF RuntimeInv, SoundView, RowsOf, Snapshot
  <2>6. todo \in Seq(IntentIds)
    <3>1. todo \in Seq(1..Len(intents)) /\ Len(intents) \in Nat /\ Len(intents) <= MaxIntents
      BY <2>5 DEF RuntimeInv, SoundView, RowsOf, Snapshot, TickSound, TodoSound
    <3>2. 1..Len(intents) \subseteq IntentIds
      BY <3>1, RuntimeAssumption DEF IntentIds
    <3> QED
      BY <3>1, <3>2
  <2>7. mine \in QuoteIds \cup {NoQuote}
    BY DEF RuntimeInv, QuotesSound
  <2> QED
    BY <2>2, <2>3, <2>4, <2>5, <2>6, <2>7 DEF BookReconciles, TypeOK, RuntimeInv, ClockSound
<1> QED
  BY InitKeeps, NextKeeps, <1>1, PTL DEF Spec

\* Every order keeps the decision, the intent, the run and the quote it was made for,
\* however many ticks were rolled back around it (PaperRuntime.tick, main).
THEOREM ReasonsSurvive == Spec => []OrdersHaveTheirReasons
<1>1. RuntimeInv => OrdersHaveTheirReasons
  <2> SUFFICES ASSUME RuntimeInv, NEW n \in 1..Len(orders)
               PROVE  LET d == orders[n].decision
                      IN  /\ d \in 1..Len(intents) /\ Approving(d)
                          /\ orders[n].side = intents[d].side
                          /\ orders[n].quantity = decision[d].quantity
                          /\ intents[d].run \in 1..Len(runs)
                          /\ quote[trades[n].quote] # NoQuote
    BY DEF OrdersHaveTheirReasons
  <2> DEFINE d == orders[n].decision
  <2>1. /\ d \in 1..Len(intents) /\ ApprovingIn(Snapshot, d)
        /\ orders[n].side = intents[d].side
        /\ orders[n].quantity = decision[d].quantity
        /\ trades[n].quote = decision[d].quote
    BY DEF RuntimeInv, SoundView, ReasonsOf, Snapshot
  <2>2. Approving(d)
    BY <2>1 DEF ApprovingIn, Approving, Snapshot
  <2>3. Backed(Snapshot, d, quote, mine)
    BY <2>1 DEF RuntimeInv, SoundView, ReasonsOf, Snapshot
  <2>4. intents[d].run \in 1..Len(runs)
    BY <2>1 DEF RuntimeInv, SoundView, RowsOf, Snapshot
  <2>5. quote[decision[d].quote] # NoQuote
    BY <2>3 DEF Backed, Snapshot
  <2> QED
    BY <2>1, <2>2, <2>4, <2>5
<1> QED
  BY InitKeeps, NextKeeps, <1>1, PTL DEF Spec

\* The strategy never runs twice on one signal bar, nor sooner than the decision interval
\* after its last run, whatever fails or restarts in between (_decision_gate).
THEOREM RunsKeepTheirDistance == Spec => []OneRunPerSignalBar
<1>1. RuntimeInv => OneRunPerSignalBar
  <2> SUFFICES ASSUME RuntimeInv, NEW m \in 1..Len(runs), NEW n \in 1..Len(runs), m < n
               PROVE  runs[m].bar # runs[n].bar /\ runs[n].at - runs[m].at >= DecisionInterval
    BY DEF OneRunPerSignalBar
  <2>1. runs[m].bar < runs[n].bar /\ runs[n].at - runs[m].at >= DecisionInterval
    BY DEF RuntimeInv, SoundView, RunsApart, Snapshot
  <2>2. runs[m] \in RunRow
    BY DEF RuntimeInv, SoundView, RowsOf, Snapshot
  <2>3. runs[m].bar \in Int
    BY <2>2, Bounds DEF RunRow
  <2> QED
    BY <2>1, <2>3
<1> QED
  BY InitKeeps, NextKeeps, <1>1, PTL DEF Spec

\* What is approved was priced by a quote seen when the run was made and still fresh then
\* (_latest_quote, RiskManager.evaluate), and that quote is never rolled back.
THEOREM PricesAreSeenInTime == Spec => []PricedInTime
<1>1. RuntimeInv => PricedInTime
  <2> SUFFICES ASSUME RuntimeInv, NEW n \in 1..Len(intents), Approving(n)
               PROVE  runs[intents[n].run].at - quote[decision[n].quote].observed
                         \in 0..QuoteFreshness
    BY DEF PricedInTime
  <2>1. Backed(Snapshot, n, quote, mine)
    BY DEF RuntimeInv, SoundView, ReasonsOf, ApprovingIn, Approving, Snapshot
  <2> QED
    BY <2>1 DEF Backed, Snapshot
<1> QED
  BY InitKeeps, NextKeeps, <1>1, PTL DEF Spec

-----------------------------------------------------------------------------
(* Exits go through                                                         *)
(*                                                                          *)
(* An exit is asked for in cash, at the bank's buy price, and sized in      *)
(* metal, at its sell price, each time with a rounding of its own.  That    *)
(* the size never exceeds the holding rests on both being whole steps: what *)
(* the cash gained by rounding up would have to buy a whole step more.      *)

\* A step is worth more than half a money quantum.  (The seeded listing trades steps
\* of 1/10000 gram, and money is kept in 1/100000000.)
PreciseSteps == \A p \in Prices : QuantityScale < 2 * (p[2] * Bank.step)

\* What is held and what is approved are whole steps of the bank.
OnGrid(v) ==
    /\ (v.position[Account][Instrument].quantity % Bank.step) = 0
    /\ \A n \in 1..Len(v.intents) :
          ApprovingIn(v, n) => (v.decision[n].quantity % Bank.step) = 0

\* A quote of the collector prices the tick.
Raced == \E k \in PricedBy : k[1] = "collector"

\* The cash of an exit is what the holding is worth at quote k, or half a quantum more.
Covered(cash, k) ==
    2 * (QuantityScale * cash) <= 2 * (Held.quantity * quote[k].buy) + QuantityScale

\* The exit comes after the tick's buy, and the holding covers it at the quote that
\* prices the tick.
ExitsCovered ==
    pc \in {"risk", "execute"} =>
        \A i \in 1..Len(todo) : intents[todo[i]].side = "sell" =>
            /\ i = Len(todo)
            /\ Raced \/ \E k \in PricedBy : Covered(intents[todo[i]].cash, k)

\* The approved exit fits the holding.
ExitFits ==
    pc = "execute" /\ intents[Head(todo)].side = "sell" =>
        Raced \/ decision[Head(todo)].quantity <= Held.quantity

ExitInv == OnGrid(Snapshot) /\ OnGrid(Committed) /\ ExitsCovered /\ ExitFits

\* A rounded share of the holding is no more than the holding.
LEMMA ShareWithin ==
    ASSUME NEW h \in Nat, NEW f \in Nat, NEW r \in Nat \ {0}, f <= r
    PROVE  HalfEven(h * f, r) \in 0..h
<1> DEFINE e == HalfEven(h * f, r)
<1>1. h * f \in Nat /\ h * r \in Nat /\ h * (r - f) \in Nat
  BY ProductNat
<1>2. e \in Nat /\ 2 * (r * e) <= 2 * (h * f) + r
  BY <1>1, HalfEvenNear
<1>3. h * r = h * f + h * (r - f)
  OBVIOUS
<1>4. 2 * (r * e) <= 2 * (h * r) + r
  BY <1>1, <1>2, <1>3, ProductNat
<1> HIDE DEF e
<1>5. e <= h
  <2> SUFFICES ASSUME e >= h + 1 PROVE FALSE
    BY <1>2
  <2>1. r * (e - (h + 1)) \in Nat
    BY <1>2, ProductNat
  <2>2. r * e = h * r + r + r * (e - (h + 1))
    BY <1>2
  <2> QED
    BY <1>1, <1>2, <1>4, <2>1, <2>2
<1> QED
  BY <1>2, <1>5 DEF e

LEMMA GridIs ==
    ASSUME NEW x \in Nat, NEW s \in Nat \ {0}, (x % s) = 0
    PROVE  \E m \in Nat : x = s * m
<1>1. x \div s \in Nat /\ x = s * (x \div s) + (x % s)
  BY Division
<1>2. s * (x \div s) \in Nat
  BY <1>1, ProductNat
<1>3. x = s * (x \div s)
  BY <1>1, <1>2
<1> QED
  BY <1>1, <1>3

LEMMA OnTheGrid ==
    ASSUME NEW m \in Nat, NEW s \in Nat \ {0}
    PROVE  ((s * m) % s) = 0
<1> DEFINE x == s * m
<1>1. x \in Nat
  BY ProductNat
<1>2. x \div s \in Nat /\ x = s * (x \div s) + (x % s) /\ x % s \in 0..(s - 1)
  BY <1>1, Division
<1> DEFINE q == x \div s
           r == x % s
<1>3. s * (m - q) = r
  BY <1>1, <1>2
<1>4. m - q \in Int /\ q \in Nat /\ r \in Nat /\ r < s
  BY <1>2
<1> HIDE DEF q, r, x
<1>5. m - q = 0
  <2>1. CASE m - q >= 1
    <3>1. s * (m - q - 1) \in Nat /\ s * (m - q) = s * (m - q - 1) + s
      BY <1>4, <2>1, ProductNat
    <3> QED
      BY <1>3, <1>4, <3>1
  <2>2. CASE m - q <= -1
    <3>1. q - m - 1 \in Nat
      BY <1>4, <2>2
    <3>2. s * (q - m - 1) \in Nat
      BY <3>1, ProductNat
    <3>3. s * (m - q) = -(s * (q - m - 1)) - s
      BY <1>4
    <3> QED
      BY <1>3, <1>4, <3>2, <3>3
  <2> QED
    BY <1>4, <2>1, <2>2
<1>6. r = 0
  BY <1>3, <1>5
<1> QED
  BY <1>6 DEF r, x

\* Whole steps stay whole steps when they are added and taken away.
LEMMA GridSums ==
    ASSUME NEW x \in Nat, NEW y \in Nat, NEW s \in Nat \ {0}, (x % s) = 0, (y % s) = 0
    PROVE  ((x + y) % s) = 0 /\ (y <= x => ((x - y) % s) = 0)
<1>1. PICK m \in Nat : x = s * m
  BY GridIs
<1>2. PICK n \in Nat : y = s * n
  BY GridIs
<1>3. x + y = s * (m + n) /\ m + n \in Nat
  BY <1>1, <1>2
<1>4. ASSUME y <= x PROVE ((x - y) % s) = 0
  <2>1. n <= m
    <3> SUFFICES ASSUME n >= m + 1 PROVE FALSE
      OBVIOUS
    <3>1. s * (n - (m + 1)) \in Nat /\ s * n = s * m + s + s * (n - (m + 1))
      BY ProductNat
    <3> QED
      BY <1>1, <1>2, <1>4, <3>1
  <2>2. m - n \in Nat /\ x - y = s * (m - n)
    BY <1>1, <1>2, <2>1
  <2> QED
    BY <2>2, OnTheGrid
<1> QED
  BY <1>3, <1>4, OnTheGrid

\* The arithmetic of an exit: h held, c the cash asked for, x the size it buys, all at
\* buy price b and sell price p, with s the bank's step and z the quantity scale.
LEMMA ExitSizeFits ==
    ASSUME NEW h \in Nat, NEW x \in Nat, NEW c \in Nat, NEW b \in Nat, NEW p \in Nat,
           NEW s \in Nat \ {0}, NEW z \in Nat \ {0}, b <= p,
           (h % s) = 0, (x % s) = 0, z < 2 * (p * s),
           2 * (z * c) <= 2 * (h * b) + z, x * p <= c * z
    PROVE  x <= h
<1> SUFFICES ASSUME x >= h + 1 PROVE FALSE
  OBVIOUS
<1>1. ((x - h) % s) = 0 /\ x - h \in Nat
  <2>1. h <= x /\ x - h \in Nat
    OBVIOUS
  <2>2. h <= x => ((x - h) % s) = 0
    BY GridSums, Zenon
  <2> QED
    BY <2>1, <2>2, Zenon
<1>2. PICK m \in Nat : x - h = s * m
  BY <1>1, GridIs
<1>3. m >= 1
  <2>1. m # 0
    <3> SUFFICES ASSUME m = 0 PROVE FALSE
      OBVIOUS
    <3>1. s * m = 0
      OBVIOUS
    <3> QED
      BY <1>1, <1>2, <3>1
  <2> QED
    BY <2>1
<1>4. /\ p * (s * (m - 1)) \in Nat /\ h * (p - b) \in Nat /\ h * p \in Nat /\ h * b \in Nat
      /\ p * s \in Nat /\ x * p \in Nat /\ c * z \in Nat
  BY <1>3, ProductNat
<1>5. x * p = h * p + p * s + p * (s * (m - 1))
  <2>1. x = h + s + s * (m - 1)
    BY <1>1, <1>2
  <2>2. s * (m - 1) \in Nat
    BY <1>3, ProductNat
  <2> QED
    BY <2>1, <2>2
<1>6. h * p = h * b + h * (p - b)
  OBVIOUS
<1>7. z * c = c * z
  OBVIOUS
<1> QED
  BY <1>4, <1>5, <1>6, <1>7

\* The holding in the session's record is a natural number of quanta.
LEMMA HoldingIs ==
    ASSUME RuntimeInv
    PROVE  Held.quantity \in Nat /\ Snapshot.position[Account][Instrument] = Held
<1>1. Snapshot.position = position
  BY DEF Snapshot
<1>2. Held \in HoldingRow
  BY <1>1 DEF RuntimeInv, SoundView, BookOf, Held
<1>3. Held.quantity \in Nat
  BY <1>2 DEF HoldingRow, P!PositionRow
<1> QED
  BY <1>1, <1>3 DEF Held

\* A quote that prices the tick, and the time in its key.
LEMMA PricingIs ==
    ASSUME RuntimeInv, NEW k \in PricedBy
    PROVE  /\ k \in QuoteIds /\ quote[k] # NoQuote
           /\ quote[k].instrument = Instrument /\ quote[k].observed = k[2]
           /\ quote[k].buy \in Nat \ {0} /\ quote[k].sell \in Nat /\ quote[k].buy <= quote[k].sell
           /\ PreciseSteps => QuantityScale < 2 * (quote[k].sell * Bank.step)
<1>1. k \in QuoteIds /\ quote[k] # NoQuote
  BY DEF PricedBy, LatestQuotes, RuntimeInv, QuotesSound
<1>2. PICK p \in Prices : quote[k] = NewQuote(p, k[2])
  BY <1>1 DEF RuntimeInv, QuotesSound
<1>3. p[1] \in Nat \ {0} /\ p[2] \in Nat /\ p[1] <= p[2]
  BY RuntimeAssumption
<1>4. /\ quote[k].instrument = Instrument /\ quote[k].observed = k[2]
      /\ quote[k].buy = p[1] /\ quote[k].sell = p[2]
  BY <1>2 DEF NewQuote
<1> QED
  BY <1>1, <1>3, <1>4 DEF PreciseSteps

\* The worker has one quote for each time, so that without the collector nothing ties.
LEMMA OneQuoteUnraced ==
    ASSUME RuntimeInv, ~Raced, NEW j \in PricedBy, NEW k \in PricedBy
    PROVE  j = k
<1>1. j \in QuoteIds /\ k \in QuoteIds /\ quote[j].observed = j[2] /\ quote[k].observed = k[2]
  BY PricingIs
<1>2. ~(quote[j].observed > quote[k].observed) /\ ~(quote[k].observed > quote[j].observed)
  BY DEF PricedBy, LatestQuotes
<1>3. j[1] # "collector" /\ k[1] # "collector"
  BY DEF Raced
<1>4. MaxTime \in Nat
  BY Bounds
<1>5. /\ j = <<j[1], j[2]>> /\ k = <<k[1], k[2]>> /\ j[2] \in Nat /\ k[2] \in Nat
      /\ j[1] = "worker" /\ k[1] = "worker"
  BY <1>1, <1>3, <1>4 DEF QuoteIds
<1> QED
  BY <1>1, <1>2, <1>5

\* An approved size is whole steps and costs no more than what was asked for.
LEMMA SizeIs ==
    ASSUME NEW requested \in Nat \ {0}, NEW q \in RuntimeQuotes \cup {NoQuote}, NEW there,
           NEW at \in Nat, NEW p, p.outcome # "reject",
           p = Payload(requested, SeededListing, Bank, there, q, RuntimeContext, at)
    PROVE  (p.quantity % Bank.step) = 0 /\ p.quantity * q.sell <= requested * QuantityScale
<1> DEFINE cash     == R!CappedCash(requested, RuntimeContext, at)
           quantity == R!SizeFor(cash, q, Bank)
<1>1. p = R!Payload(requested, SeededListing, Bank, there, q, RuntimeContext, at)
  BY SamePayload
<1>2. q # NoQuote /\ p.quantity = quantity
  BY <1>1, ManagerAssumptions, R!PayloadCases
<1>3. PICK r \in Prices, t \in 0..MaxTime : q = NewQuote(r, t)
  BY <1>2 DEF RuntimeQuotes
<1>4. q.sell \in Nat \ {0}
  <2>1. r[1] \in Nat \ {0} /\ r[2] \in Nat /\ r[1] <= r[2]
    BY RuntimeAssumption
  <2>2. q.sell = r[2]
    BY <1>3 DEF NewQuote
  <2> QED
    BY <2>1, <2>2
<1>5. Bank.step \in Nat \ {0} /\ QuantityScale \in Nat \ {0}
  BY RuntimeAssumption, CostAssumption
<1>6. cash \in Nat /\ cash <= requested
  <2>1. RuntimeContext.positionCash \in Nat
    BY DEF RuntimeContext
  <2> QED
    BY <2>1, ManagerAssumptions, R!CapsHold
<1> HIDE DEF cash
<1>7. /\ quantity \in Nat /\ (quantity % Bank.step) = 0
      /\ quantity * q.sell <= cash * QuantityScale
  BY <1>4, <1>5, <1>6, ManagerAssumptions, R!SizeFits
<1> HIDE DEF quantity
<1>8. (requested - cash) * QuantityScale \in Nat /\ cash * QuantityScale \in Nat
      /\ quantity * q.sell \in Nat
  BY <1>4, <1>5, <1>6, <1>7, ProductNat
<1>9. requested * QuantityScale = cash * QuantityScale + (requested - cash) * QuantityScale
  BY <1>5, <1>6
<1>10. quantity * q.sell <= requested * QuantityScale
  BY <1>7, <1>8, <1>9
<1> QED
  BY <1>2, <1>7, <1>10

\* The cash of an exit covers what is held at the quote it was computed from.
LEMMA ExitIsCovered ==
    ASSUME RuntimeInv, NEW k \in QuoteFound, NEW regime, NEW run
    PROVE  \/ ExitIntents(regime, run, k) = <<>>
           \/ /\ k \in PricedBy
              /\ \E c \in Nat :
                   /\ ExitIntents(regime, run, k)
                         = <<[side |-> "sell", run |-> run, cash |-> c]>>
                   /\ Covered(c, k)
<1>1. CASE Held.quantity <= 0 \/ k = NoQuote
  BY <1>1 DEF ExitIntents
<1>2. CASE ~(Held.quantity <= 0 \/ k = NoQuote)
  <2> DEFINE b        == quote[k].buy
             h        == Held.quantity
             quantity == ExitQuantity(regime, b)
             cash     == HalfEven(quantity * b, QuantityScale)
  <2>1. k \in PricedBy
    BY <1>2 DEF QuoteFound
  <2>2. b \in Nat /\ h \in Nat
    BY <2>1, PricingIs, HoldingIs
  <2>3. quantity \in 0..h
    <3>1. ExitFraction \in Nat /\ RateScale \in Nat \ {0} /\ ExitFraction <= RateScale
      BY RuntimeAssumption, CostAssumption
    <3>2. HalfEven(h * ExitFraction, RateScale) \in 0..h
      BY <2>2, <3>1, ShareWithin
    <3>3. quantity \in {h, 0, HalfEven(h * ExitFraction, RateScale)}
      BY DEF ExitQuantity
    <3> QED
      BY <2>2, <3>2, <3>3
  <2>4. ExitIntents(regime, run, k) =
          IF quantity <= 0 THEN <<>>
          ELSE <<[side |-> "sell", run |-> run, cash |-> cash]>>
    BY <1>2 DEF ExitIntents
  <2> HIDE DEF quantity, b, h
  <2>5. QuantityScale \in Nat \ {0} /\ quantity \in Nat
    BY <2>2, <2>3, CostAssumption
  <2>6. quantity * b \in Nat /\ h * b \in Nat /\ (h - quantity) * b \in Nat
    BY <2>2, <2>3, <2>5, ProductNat
  <2>7. cash \in Nat /\ 2 * (QuantityScale * cash) <= 2 * (quantity * b) + QuantityScale
    BY <2>5, <2>6, HalfEvenNear
  <2>8. h * b = quantity * b + (h - quantity) * b
    BY <2>2, <2>5
  <2> HIDE DEF cash
  <2>9. 2 * (QuantityScale * cash) <= 2 * (h * b) + QuantityScale
    <3>1. QuantityScale * cash \in Nat
      BY <2>5, <2>7, ProductNat
    <3> QED
      BY <2>5, <2>6, <2>7, <2>8, <3>1
  <2>10. Covered(cash, k)
    BY <2>9 DEF Covered, h, b
  <2> QED
    BY <2>1, <2>4, <2>7, <2>10
<1> QED
  BY <1>1, <1>2

\* Outside the risk and the execution of intents only the records of rows matter.
LEMMA QuietExits ==
    ASSUME ExitInv, pc' \notin {"risk", "execute"},
           Snapshot' \in {Snapshot, Committed}, Committed' \in {Snapshot, Committed}
    PROVE  ExitInv'
<1>1. OnGrid(Snapshot') /\ OnGrid(Committed')
  BY DEF ExitInv
<1>2. ExitsCovered' /\ ExitFits'
  BY DEF ExitsCovered, ExitFits
<1> QED
  BY <1>1, <1>2 DEF ExitInv

\* A quote that comes in leaves the ones that price the tick alone, unless it is newer
\* or as new: then it prices the tick itself.
LEMMA CollectorPrices ==
    ASSUME RuntimeInv, RuntimeInv', CollectorInserts
    PROVE  Raced' \/ \A k \in PricedBy : k \in PricedBy' /\ quote'[k] = quote[k]
<1>1. PICK p \in Prices, at \in {now - 1, now} \cap Nat :
          /\ quote[<<"collector", at>>] = NoQuote
          /\ quote' = [quote EXCEPT ![<<"collector", at>>] = NewQuote(p, at)]
  BY DEF CollectorInserts
<1> DEFINE c == <<"collector", at>>
<1>2. c[1] = "collector"
  OBVIOUS
<1>3. /\ DOMAIN quote = QuoteIds /\ DOMAIN quote' = QuoteIds /\ quote[c] = NoQuote
      /\ \A k \in QuoteIds : k # c => quote'[k] = quote[k]
  BY <1>1 DEF RuntimeInv, QuotesSound
<1>4. tickAt' = tickAt
  BY DEF CollectorInserts, loop
<1> HIDE DEF c
<1>5. ASSUME NEW k \in QuoteIds, quote'[k] # NoQuote
      PROVE  quote'[k].observed \in Nat /\ quote'[k].fetched \in Nat
  <2>1. PICK r \in Prices : quote'[k] = NewQuote(r, k[2])
    BY <1>5 DEF RuntimeInv, QuotesSound
  <2>2. k[2] \in Nat
    BY Bounds DEF QuoteIds
  <2> QED
    BY <2>1, <2>2 DEF NewQuote
<1> DEFINE Seen(k) == /\ k \in QuoteIds /\ quote'[k] # NoQuote
                      /\ quote'[k].instrument = Instrument /\ quote'[k].source = Source
                      /\ quote'[k].observed <= tickAt
           Newer(j, k) ==
              \/ quote'[j].observed > quote'[k].observed
              \/ quote'[j].observed = quote'[k].observed /\ quote'[j].fetched > quote'[k].fetched
<1>6. \A k : k \in PricedBy' <=> Seen(k) /\ ~\E j : Seen(j) /\ Newer(j, k)
  BY <1>3, <1>4 DEF PricedBy, LatestQuotes, DecisionTime
<1>7. ASSUME NEW k \in PricedBy
      PROVE  /\ k # c /\ quote'[k] = quote[k] /\ Seen(k)
             /\ \A j : Seen(j) /\ j # c => ~Newer(j, k)
  <2>1. k \in QuoteIds /\ k # c /\ quote'[k] = quote[k]
    BY <1>3 DEF PricedBy, LatestQuotes
  <2> QED
    BY <1>3, <2>1 DEF PricedBy, LatestQuotes, DecisionTime
<1>8. ASSUME NEW i, NEW j, NEW k, Seen(i), Seen(j), Seen(k), Newer(i, j), Newer(j, k)
      PROVE  Newer(i, k)
  <2>1. /\ quote'[i].observed \in Nat /\ quote'[i].fetched \in Nat
        /\ quote'[j].observed \in Nat /\ quote'[j].fetched \in Nat
        /\ quote'[k].observed \in Nat /\ quote'[k].fetched \in Nat
    BY <1>5, <1>8
  <2> QED
    BY <1>8, <2>1
<1>9. ASSUME NEW k, Seen(k) PROVE ~Newer(k, k)
  BY <1>5, <1>9
<1> HIDE DEF Seen, Newer
<1>10. ASSUME NEW k \in PricedBy, k \notin PricedBy' PROVE Raced'
  <2>1. PICK j : Seen(j) /\ Newer(j, k)
    BY <1>6, <1>7, <1>10
  <2>2. j = c /\ Seen(c) /\ Newer(c, k)
    BY <1>7, <1>10, <2>1
  <2>3. ASSUME NEW i, Seen(i), Newer(i, c) PROVE FALSE
    <3>1. Newer(i, k)
      BY <1>7, <1>8, <1>10, <2>2, <2>3
    <3>2. i # c
      BY <1>9, <2>2, <2>3
    <3> QED
      BY <1>7, <1>10, <2>3, <3>1, <3>2
  <2>4. c \in PricedBy'
    BY <1>6, <2>2, <2>3
  <2> QED
    BY <1>2, <2>4 DEF Raced
<1> QED
  BY <1>7, <1>10

LEMMA CollectorExits ==
    ASSUME RuntimeInv, RuntimeInv', ExitInv, CollectorInserts PROVE ExitInv'
<1>1. UNCHANGED <<view, saved>> /\ UNCHANGED <<pc, tickAt, todo>>
      /\ UNCHANGED <<position, intents, decision>>
  BY DEF CollectorInserts, view, loop
<1>2. Snapshot' = Snapshot /\ Committed' = Committed /\ Held' = Held
  BY <1>1 DEF view, Snapshot, Committed, Held
<1>3. Raced' \/ \A k \in PricedBy : k \in PricedBy' /\ quote'[k] = quote[k]
  BY CollectorPrices
<1>4. Raced => Raced'
  BY <1>3 DEF Raced
<1>5. ExitsCovered'
  <2>1. ASSUME NEW cash, Raced \/ \E k \in PricedBy : Covered(cash, k)
        PROVE  Raced' \/ \E k \in PricedBy' : Covered(cash, k)'
    BY <1>2, <1>3, <1>4, <2>1 DEF Covered
  <2> QED
    BY <1>1, <2>1 DEF ExitInv, ExitsCovered
<1>6. ExitFits'
  BY <1>1, <1>2, <1>4 DEF ExitInv, ExitFits
<1> QED
  BY <1>2, <1>5, <1>6 DEF ExitInv

\* The intents of a decision: the buy, if any, before the exit, if any.
LEMMA DecideExits ==
    ASSUME RuntimeInv, ExitInv, NEW regime, NEW signal \in BOOLEAN, Decide(regime, signal)
    PROVE  ExitInv'
<1>1. /\ UNCHANGED <<wallet, position, orders, trades, ledger, decision>>
      /\ UNCHANGED <<quote, saved, tickAt>> /\ pc = "decide"
  BY DEF Decide
<1> DEFINE run == Len(runs) + 1
           buys == IF regime = "trend_up" /\ signal
                   THEN <<[side |-> "buy", run |-> run, cash |-> OrderCash]>> ELSE <<>>
<1>2. PICK k \in QuoteFound :
        LET new == buys \o ExitIntents(regime, run, k)
        IN  \/ pc' = "failed" /\ intents' = intents
            \/ /\ intents' = intents \o new
               /\ todo' = [n \in 1..Len(new) |-> Len(intents) + n]
               /\ pc' \in {"record", "risk"}
  BY DEF Decide
<1> DEFINE exits == ExitIntents(regime, run, k)
           new == buys \o exits
<1>3. \/ exits = <<>>
      \/ /\ k \in PricedBy
         /\ \E c \in Nat : /\ exits = <<[side |-> "sell", run |-> run, cash |-> c]>>
                           /\ Covered(c, k)
  BY ExitIsCovered
<1>4. \/ buys = <<>>
      \/ buys = <<[side |-> "buy", run |-> run, cash |-> OrderCash]>>
  OBVIOUS
<1>5. intents \in Seq(IntentRow) /\ Len(runs) \in Nat
  BY DEF RuntimeInv, SoundView, RowsOf, Snapshot
<1> DEFINE AnyRow == [side : Sides, cash : Nat, run : Nat]
<1>6. intents \in Seq(AnyRow) /\ Len(intents) \in Nat
  <2>1. IntentRow \subseteq AnyRow
    BY DEF IntentRow
  <2> HIDE DEF AnyRow
  <2> QED
    BY <1>5, <2>1
<1> HIDE DEF buys, exits, new
<1>7. /\ new \in Seq(AnyRow) /\ Len(new) \in Nat
      /\ \A n \in 1..Len(new) : new[n].side = "sell" =>
            n = Len(new) /\ \E j \in PricedBy : Covered(new[n].cash, j)
  <2> DEFINE buy == [side |-> "buy", run |-> run, cash |-> OrderCash]
  <2>1. buy \in AnyRow /\ buy.side # "sell"
    BY <1>5, RuntimeAssumption DEF Sides
  <2>2. buys = <<>> \/ buys = <<buy>>
    BY <1>4
  <2> HIDE DEF buy
  <2>3. CASE exits = <<>>
    <3>1. new = buys
      <4>1. CASE buys = <<>>
        BY <2>3, <4>1 DEF new
      <4>2. CASE buys = <<buy>>
        BY <2>3, <4>2 DEF new
      <4> QED
        BY <2>2, <4>1, <4>2
    <3> HIDE DEF AnyRow
    <3>2. CASE buys = <<>>
      BY <3>1, <3>2
    <3>3. CASE buys = <<buy>>
      <4>1. Len(new) = 1 /\ new[1] = buy /\ new \in Seq(AnyRow)
        BY <2>1, <3>1, <3>3
      <4> QED
        BY <2>1, <4>1
    <3> QED
      BY <2>2, <3>2, <3>3
  <2>4. ASSUME NEW c \in Nat, exits = <<[side |-> "sell", run |-> run, cash |-> c]>>,
               Covered(c, k), k \in PricedBy
        PROVE  /\ new \in Seq(AnyRow) /\ Len(new) \in Nat
               /\ \A n \in 1..Len(new) : new[n].side = "sell" =>
                     n = Len(new) /\ \E j \in PricedBy : Covered(new[n].cash, j)
    <3> DEFINE sell == [side |-> "sell", run |-> run, cash |-> c]
    <3>1. sell \in AnyRow /\ sell.cash = c
      BY <1>5 DEF Sides
    <3>2. exits = <<sell>>
      BY <2>4
    <3> HIDE DEF sell, AnyRow
    <3>3. buys \in Seq(AnyRow) /\ exits \in Seq(AnyRow)
      <4>1. <<buy>> \in Seq(AnyRow) /\ <<sell>> \in Seq(AnyRow) /\ <<>> \in Seq(AnyRow)
        BY <2>1, <3>1
      <4> QED
        BY <2>2, <3>2, <4>1, Zenon
    <3>4. /\ new \in Seq(AnyRow) /\ Len(new) = Len(buys) + Len(exits)
          /\ \A n \in 1..Len(buys) : new[n] = buys[n]
          /\ \A n \in 1..Len(exits) : new[Len(buys) + n] = exits[n]
      BY <3>3, ConcatProperties DEF new
    <3>5. Len(exits) = 1 /\ exits[1] = sell
      BY <3>2
    <3>6. /\ Len(buys) \in {0, 1}
          /\ \A n \in 1..Len(buys) : buys[n] = buy
      BY <2>2
    <3>7. Len(new) = Len(buys) + 1 /\ new[Len(new)] = sell
      BY <3>4, <3>5, <3>6
    <3>8. ASSUME NEW n \in 1..Len(new), n # Len(new) PROVE new[n].side # "sell"
      <4>1. n \in 1..Len(buys)
        BY <3>6, <3>7, <3>8
      <4> QED
        BY <2>1, <3>4, <3>6, <4>1
    <3> QED
      BY <2>4, <3>1, <3>4, <3>6, <3>7, <3>8
  <2> QED
    BY <1>3, <2>3, <2>4
<1>8. Held' = Held /\ PricedBy' = PricedBy /\ Committed' = Committed /\ quote' = quote
  BY <1>1 DEF Held, PricedBy, DecisionTime, Committed
<1>9. \/ pc' = "failed" /\ intents' = intents
      \/ /\ intents' = intents \o new
         /\ todo' = [n \in 1..Len(new) |-> Len(intents) + n]
         /\ pc' \in {"record", "risk"}
  BY <1>2 DEF new, exits
<1>10. OnGrid(Snapshot')
  <2>1. /\ Snapshot'.position = position /\ Snapshot'.decision = decision
        /\ Snapshot'.intents = intents' /\ Snapshot.intents = intents
        /\ Snapshot.position = position /\ Snapshot.decision = decision
    BY <1>1 DEF Snapshot
  <2>2. ASSUME NEW n \in 1..Len(intents'), ApprovingIn(Snapshot', n)
        PROVE  (decision[n].quantity % Bank.step) = 0
    <3>1. RuntimeInv'
      BY DecideKeeps
    <3>2. intents' \in Seq(IntentRow) /\ Len(intents') <= MaxIntents
      BY <3>1 DEF RuntimeInv, SoundView, RowsOf, Snapshot
    <3>3. n \in IntentIds
      BY <2>2, <3>2, Bounds DEF IntentIds
    <3>4. ~(n > Len(intents))
      BY <2>1, <2>2, <3>3 DEF RuntimeInv, SoundView, RowsOf, ApprovingIn
    <3>5. n \in 1..Len(intents)
      BY <1>6, <3>3, <3>4, Bounds DEF IntentIds
    <3> QED
      BY <2>1, <2>2, <3>5 DEF ExitInv, OnGrid, ApprovingIn
  <2> QED
    BY <2>1, <2>2 DEF ExitInv, OnGrid
<1>11. ExitsCovered'
  <2>1. ASSUME pc' = "risk", NEW i \in 1..Len(todo'), intents'[todo'[i]].side = "sell"
        PROVE  i = Len(todo') /\ \E j \in PricedBy' : Covered(intents[todo[i]].cash, j)'
    <3>1. /\ intents' = intents \o new
          /\ todo' = [n \in 1..Len(new) |-> Len(intents) + n]
      BY <1>9, <2>1
    <3>2. Len(todo') = Len(new) /\ todo'[i] = Len(intents) + i /\ i \in 1..Len(new)
      BY <1>7, <2>1, <3>1
    <3>3. intents'[todo'[i]] = new[i]
      <4> HIDE DEF AnyRow
      <4>1. \A n \in 1..Len(new) : (intents \o new)[Len(intents) + n] = new[n]
        BY <1>6, <1>7, ConcatProperties
      <4> QED
        BY <3>1, <3>2, <4>1
    <3>4. PICK j \in PricedBy : i = Len(new) /\ Covered(new[i].cash, j)
      BY <1>7, <2>1, <3>2, <3>3
    <3>5. Covered(intents[todo[i]].cash, j)'
      BY <1>8, <3>3, <3>4 DEF Covered
    <3> QED
      BY <1>8, <3>2, <3>4, <3>5
  <2>2. pc' \in {"failed", "record", "risk"}
    BY <1>9
  <2> QED
    BY <2>1, <2>2 DEF ExitsCovered
<1>12. ExitFits'
  BY <1>9 DEF ExitFits
<1> QED
  BY <1>8, <1>10, <1>11, <1>12 DEF ExitInv

\* What the list holds when the next intent is taken up.
LEMMA ListIs ==
    ASSUME RuntimeInv, pc \in {"risk", "execute"}
    PROVE  /\ Len(todo) \in Nat \ {0} /\ Head(todo) = todo[1] /\ 1 \in 1..Len(todo)
           /\ Len(Tail(todo)) = Len(todo) - 1
           /\ \A i \in 1..Len(Tail(todo)) :
                 i + 1 \in 1..Len(todo) /\ Tail(todo)[i] = todo[i + 1]
<1>1. todo \in Seq(1..Len(intents)) /\ todo # <<>>
  BY DEF RuntimeInv, TickSound, TodoSound
<1>2. /\ Len(todo) \in Nat \ {0} /\ Head(todo) = todo[1]
      /\ Len(Tail(todo)) = Len(todo) - 1
      /\ \A i \in 1..Len(Tail(todo)) : Tail(todo)[i] = todo[i + 1]
  BY <1>1, TailIs
<1> QED
  BY <1>2

\* Risk sizes the exit by the quote that its cash was computed from, or races.
LEMMA AssessExits ==
    ASSUME PreciseSteps, RuntimeInv, ExitInv, AssessRisk PROVE ExitInv'
<1>1. /\ UNCHANGED <<position, intents, quote, saved, tickAt>> /\ pc = "risk"
  BY DEF AssessRisk
<1> DEFINE n == Head(todo)
<1>2. /\ n = todo[1] /\ n \in IntentIds /\ n \in 1..Len(intents) /\ intents[n].cash \in Nat \ {0}
  BY <1>1, HeadIs
<1>3. PICK k \in QuoteFound :
        LET p == PayloadWith(n, k)
        IN  /\ decision' = [decision EXCEPT ![n] =
                    [ account |-> Account, instrument |-> Instrument,
                      outcome |-> p.outcome, quantity |-> p.quantity, quote |-> k ]]
            /\ IF p.outcome = "reject" THEN NextIntent
               ELSE pc' = "execute" /\ UNCHANGED <<todo, status>>
  BY DEF AssessRisk
<1> DEFINE p == PayloadWith(n, k)
           q == IF k = NoQuote THEN NoQuote ELSE quote[k]
           row == [ account |-> Account, instrument |-> Instrument,
                    outcome |-> p.outcome, quantity |-> p.quantity, quote |-> k ]
<1>4. q \in RuntimeQuotes \cup {NoQuote}
  BY FoundIs
<1>5. tickAt \in Nat
  BY RuntimeAssumption DEF RuntimeInv, ClockSound
<1>6. p = Payload(intents[n].cash, SeededListing, Bank, wallet[Account], q, RuntimeContext, tickAt)
  BY DEF PayloadWith, DecisionTime
<1>7. /\ decision' = [decision EXCEPT ![n] = row]
      /\ IF p.outcome = "reject" THEN NextIntent
         ELSE pc' = "execute" /\ UNCHANGED <<todo, status>>
  BY <1>3
<1>8. row.outcome = p.outcome /\ row.quantity = p.quantity
  OBVIOUS
<1>9. p.quantity \in Nat /\ (p.outcome # "reject" => q \in RuntimeQuotes)
      /\ p.outcome \in {"approve", "reduce", "reject"}
  <2> HIDE DEF p, q, n
  <2> QED
    BY <1>2, <1>4, <1>5, <1>6, PayloadSound
<1>10. p.outcome # "reject" =>
          /\ (p.quantity % Bank.step) = 0
          /\ p.quantity * q.sell <= intents[n].cash * QuantityScale
  <2> HIDE DEF p, q, n
  <2> QED
    BY <1>2, <1>4, <1>5, <1>6, SizeIs
<1>11. p.outcome # "reject" => k \in PricedBy /\ q = quote[k]
  <2>1. NoQuote \notin RuntimeQuotes
    BY RowAssumption DEF RuntimeQuotes
  <2> QED
    BY <1>9, <2>1 DEF QuoteFound
<1> HIDE DEF n, p, q, row
<1>12. /\ decision \in [IntentIds -> Broker!DecisionRow \cup {NoDecision}]
       /\ intents \in Seq(IntentRow) /\ Len(intents) <= MaxIntents
  BY DEF RuntimeInv, SoundView, RowsOf, Snapshot
<1>13. decision'[n] = row /\ \A m \in IntentIds : m # n => decision'[m] = decision[m]
  BY <1>2, <1>7, <1>12
<1>14. /\ Held' = Held /\ PricedBy' = PricedBy /\ Committed' = Committed
       /\ Raced' = Raced
  BY <1>1 DEF Held, PricedBy, DecisionTime, Committed, Raced
<1>15. OnGrid(Snapshot')
  <2>1. /\ Snapshot'.position = position /\ Snapshot'.decision = decision'
        /\ Snapshot'.intents = intents /\ Snapshot.intents = intents
        /\ Snapshot.position = position /\ Snapshot.decision = decision
    BY <1>1 DEF Snapshot
  <2>2. ASSUME NEW m \in 1..Len(intents), ApprovingIn(Snapshot', m)
        PROVE  (decision'[m].quantity % Bank.step) = 0
    <3>1. m \in IntentIds
      BY <1>12, Bounds DEF IntentIds
    <3>2. CASE m = n
      BY <1>8, <1>10, <1>13, <2>1, <2>2, <3>2 DEF ApprovingIn
    <3>3. CASE m # n
      BY <1>13, <2>1, <2>2, <3>1, <3>3 DEF ExitInv, OnGrid, ApprovingIn
    <3> QED
      BY <3>2, <3>3
  <2> QED
    BY <2>1, <2>2 DEF ExitInv, OnGrid
<1>16. \A i \in 1..Len(todo) : intents[todo[i]].side = "sell" =>
          /\ i = Len(todo)
          /\ Raced \/ \E j \in PricedBy : Covered(intents[todo[i]].cash, j)
  BY <1>1 DEF ExitInv, ExitsCovered
<1>17. \A cash, j : Covered(cash, j)' <=> Covered(cash, j)
  BY <1>1, <1>14 DEF Covered
<1>18. CASE p.outcome = "reject"
  <2>1. todo' = Tail(todo) /\ pc' \in {"risk", "record"}
    BY <1>7, <1>18 DEF NextIntent
  <2>2. ASSUME NEW i \in 1..Len(todo'), intents'[todo'[i]].side = "sell"
        PROVE  /\ i = Len(todo')
               /\ Raced' \/ \E j \in PricedBy' : Covered(intents[todo[i]].cash, j)'
    <3>1. i + 1 \in 1..Len(todo) /\ todo'[i] = todo[i + 1] /\ Len(todo') = Len(todo) - 1
          /\ Len(todo) \in Nat
      BY <1>1, <2>1, ListIs
    <3>2. /\ i + 1 = Len(todo)
          /\ Raced \/ \E j \in PricedBy : Covered(intents[todo[i + 1]].cash, j)
      BY <1>1, <1>16, <2>2, <3>1
    <3> QED
      BY <1>1, <1>14, <3>1, <3>2 DEF Covered
  <2>3. ExitsCovered'
    BY <2>2 DEF ExitsCovered
  <2>4. ExitFits'
    BY <2>1 DEF ExitFits
  <2> QED
    BY <1>14, <1>15, <2>3, <2>4 DEF ExitInv
<1>19. CASE p.outcome # "reject"
  <2>1. todo' = todo /\ pc' = "execute"
    BY <1>7, <1>19
  <2>2. ExitsCovered'
    BY <1>1, <1>14, <1>16, <2>1 DEF ExitsCovered, Covered
  <2>3. ASSUME intents[n].side = "sell", ~Raced PROVE p.quantity <= Held.quantity
    <3>1. PICK j \in PricedBy : Covered(intents[n].cash, j)
      BY <1>1, <1>2, <1>16, <2>3, ListIs
    <3>2. k \in PricedBy /\ q = quote[k] /\ j = k
      BY <1>11, <1>19, <2>3, <3>1, OneQuoteUnraced
    <3>3. /\ quote[k].buy \in Nat /\ quote[k].sell \in Nat /\ quote[k].buy <= quote[k].sell
          /\ QuantityScale < 2 * (quote[k].sell * Bank.step)
      BY <3>2, PricingIs
    <3>4. Held.quantity \in Nat /\ (Held.quantity % Bank.step) = 0
      BY HoldingIs DEF ExitInv, OnGrid
    <3>5. Bank.step \in Nat \ {0} /\ QuantityScale \in Nat \ {0} /\ intents[n].cash \in Nat
      BY <1>2, RuntimeAssumption, CostAssumption
    <3>6. 2 * (QuantityScale * intents[n].cash)
             <= 2 * (Held.quantity * quote[k].buy) + QuantityScale
      BY <3>1, <3>2 DEF Covered
    <3>7. /\ (p.quantity % Bank.step) = 0
          /\ p.quantity * quote[k].sell <= intents[n].cash * QuantityScale
      BY <1>10, <1>19, <3>2
    <3> DEFINE h == Held.quantity
               x == p.quantity
               c == intents[n].cash
               b == quote[k].buy
               a == quote[k].sell
               s == Bank.step
               z == QuantityScale
    <3>8. /\ h \in Nat /\ x \in Nat /\ c \in Nat /\ b \in Nat /\ a \in Nat
          /\ s \in Nat \ {0} /\ z \in Nat \ {0}
      BY <1>9, <3>3, <3>4, <3>5
    <3>9. /\ b <= a /\ (h % s) = 0 /\ (x % s) = 0 /\ z < 2 * (a * s)
          /\ 2 * (z * c) <= 2 * (h * b) + z /\ x * a <= c * z
      BY <3>3, <3>4, <3>6, <3>7
    <3> HIDE DEF h, x, c, b, a, s, z
    <3>10. x <= h
      BY ONLY <3>8, <3>9, ExitSizeFits
    <3> QED
      BY <3>10 DEF x, h
  <2>4. ExitFits'
    <3>1. Head(todo') = n /\ decision'[n].quantity = p.quantity
      BY <1>8, <1>13, <2>1 DEF n
    <3> QED
      BY <1>1, <1>14, <2>3, <3>1 DEF ExitFits
  <2> QED
    BY <1>14, <1>15, <2>2, <2>4 DEF ExitInv
<1> QED
  BY <1>18, <1>19

\* The approved size at the broker, and the quote it comes with.
LEMMA ApprovedIs ==
    ASSUME RuntimeInv, ExitInv, pc = "execute", NEW n, n = Head(todo)
    PROVE  /\ decision[n] # NoDecision /\ decision[n].outcome \in {"approve", "reduce"}
           /\ decision[n].account = Account /\ decision[n].instrument = Instrument
           /\ decision[n].quantity \in Nat \ {0} /\ (decision[n].quantity % Bank.step) = 0
           /\ decision[n].quote \in QuoteIds /\ decision[n].quote # NoQuote
           /\ quote[decision[n].quote] # NoQuote
           /\ ~Broker!AlreadyOrdered(n)
<1>1. /\ n \in 1..Len(intents) /\ n \in IntentIds
      /\ \A m \in 1..Len(orders) : orders[m].decision # n
  BY HeadIs
<1>2. Approving(n)
  BY DEF RuntimeInv, TickSound
<1>3. ApprovingIn(Snapshot, n) /\ Snapshot.decision = decision /\ Snapshot.intents = intents
  BY <1>2 DEF ApprovingIn, Approving, Snapshot
<1>4. decision[n] \in Broker!DecisionRow
  BY <1>1, <1>2 DEF RuntimeInv, SoundView, RowsOf, Snapshot, Approving
<1>5. /\ decision[n].account = Account /\ decision[n].instrument = Instrument
      /\ decision[n].quantity \in Nat
  BY <1>4 DEF Broker!DecisionRow
<1>6. (decision[n].quantity % Bank.step) = 0
  BY <1>1, <1>3 DEF ExitInv, OnGrid
<1>7. /\ decision[n].quote \in QuoteIds /\ quote[decision[n].quote] # NoQuote
      /\ decision[n].quantity * quote[decision[n].quote].sell >= QuantityScale
  BY <1>1, <1>3 DEF RuntimeInv, SoundView, ReasonsOf, Backed
<1>8. decision[n].quantity # 0
  <2> SUFFICES ASSUME decision[n].quantity = 0 PROVE FALSE
    OBVIOUS
  <2>1. quote[decision[n].quote].sell \in Nat
    BY <1>7, SoundForBroker DEF P!Sound, P!RowsSound
  <2>2. decision[n].quantity * quote[decision[n].quote].sell = 0
    BY <2>1
  <2>3. QuantityScale \in Nat \ {0}
    BY CostAssumption
  <2> QED
    BY <1>7, <2>2, <2>3
<1>9. decision[n].quote # NoQuote
  BY <1>7, RowAssumption
<1>10. ~Broker!AlreadyOrdered(n)
  BY <1>1 DEF Broker!AlreadyOrdered
<1> QED
  BY <1>2, <1>5, <1>6, <1>7, <1>8, <1>9, <1>10 DEF Approving

\* A trade moves the holding by the approved size, and never below nothing.
LEMMA HeldAfter ==
    ASSUME RuntimeInv, ExitInv, pc = "execute", NEW n, n = Head(todo),
           Broker!Execute(n, intents[n].side, decision[n].quote)
    PROVE  \/ intents[n].side = "buy" /\ Held'.quantity = Held.quantity + decision[n].quantity
           \/ /\ intents[n].side = "sell" /\ decision[n].quantity <= Held.quantity
              /\ Held'.quantity = Held.quantity - decision[n].quantity
<1> DEFINE side == intents[n].side
           d    == decision[n]
           k    == d.quote
<1>1. /\ d.account = Account /\ d.instrument = Instrument /\ k # NoQuote
      /\ ~Broker!AlreadyOrdered(n)
  BY ApprovedIs
<1>2. Broker!QuoteOf(n, k) = k
  BY <1>1 DEF Broker!QuoteOf
<1>3. Broker!Affordable(n, side, k) /\ Broker!Fill(n, side, k)
  BY <1>1, <1>2 DEF Broker!Execute, Broker!Accepts
<1>4. position \in [{Account} -> [{Instrument} -> HoldingRow]]
  BY DEF RuntimeInv, SoundView, BookOf, Snapshot
<1> DEFINE costs == Broker!CostsOf(n, side, k)
           moved == IF side = "buy" THEN Broker!PositionAfterBuy(Held, d.quantity, costs.net)
                                    ELSE Broker!PositionAfterSell(Held, d.quantity, costs.net)
<1>5. position' = [position EXCEPT ![Account][Instrument] = moved]
  BY <1>1, <1>3, Zenon DEF Broker!Fill, Held
<1>6. Held' = moved
  BY <1>4, <1>5 DEF Held
<1>7. /\ Broker!PositionAfterBuy(Held, d.quantity, costs.net).quantity = Held.quantity + d.quantity
      /\ Broker!PositionAfterSell(Held, d.quantity, costs.net).quantity = Held.quantity - d.quantity
  BY DEF Broker!PositionAfterBuy, Broker!PositionAfterSell
<1>8. side = "buy" \/ (side = "sell" /\ d.quantity <= Held.quantity)
  BY <1>1, <1>3 DEF Broker!Affordable, Held
<1> HIDE DEF side, costs
<1>9. "buy" # "sell"
  OBVIOUS
<1>10. CASE side = "buy"
  BY <1>6, <1>7, <1>10 DEF side
<1>11. CASE side = "sell" /\ d.quantity <= Held.quantity
  BY <1>6, <1>7, <1>9, <1>11 DEF side
<1> QED
  BY <1>8, <1>10, <1>11

\* A buy leaves the exit that follows it more to sell.
LEMMA ExecuteExits ==
    ASSUME RuntimeInv, ExitInv, ExecuteIntent PROVE ExitInv'
<1> DEFINE n == Head(todo)
           k == decision[n].quote
<1>1. /\ UNCHANGED <<intents, saved, tickAt>> /\ pc = "execute"
      /\ \/ Broker!Execute(n, intents[n].side, k) /\ NextIntent
         \/ pc' = "failed" /\ UNCHANGED <<view, quote, todo, status>>
  BY DEF ExecuteIntent
<1>2. UNCHANGED <<quote, decision>> /\ Committed' = Committed
  BY <1>1 DEF Broker!Execute, view, Committed
<1>3. CASE pc' = "failed" /\ UNCHANGED <<view, quote, todo, status>>
  <2>1. Snapshot' = Snapshot
    BY <1>3 DEF view, Snapshot
  <2> QED
    BY <1>2, <1>3, <2>1, QuietExits
<1>4. CASE Broker!Execute(n, intents[n].side, k) /\ NextIntent
  <2>1. /\ decision[n].quantity \in Nat \ {0} /\ (decision[n].quantity % Bank.step) = 0
    BY <1>1, ApprovedIs
  <2>2. \/ intents[n].side = "buy" /\ Held'.quantity = Held.quantity + decision[n].quantity
        \/ /\ intents[n].side = "sell" /\ decision[n].quantity <= Held.quantity
           /\ Held'.quantity = Held.quantity - decision[n].quantity
    BY <1>1, <1>4, HeldAfter
  <2>3. Held.quantity \in Nat /\ (Held.quantity % Bank.step) = 0 /\ Bank.step \in Nat \ {0}
    BY HoldingIs, RuntimeAssumption DEF ExitInv, OnGrid
  <2>4. (Held'.quantity % Bank.step) = 0
    <3> DEFINE h == Held.quantity
               x == decision[n].quantity
               s == Bank.step
    <3>1. h \in Nat /\ x \in Nat /\ s \in Nat \ {0} /\ (h % s) = 0 /\ (x % s) = 0
      BY <2>1, <2>3
    <3> HIDE DEF h, x, s
    <3>2. ((h + x) % s) = 0 /\ (x <= h => ((h - x) % s) = 0)
      BY ONLY <3>1, GridSums
    <3> QED
      BY <2>2, <3>2 DEF h, x, s
  <2>5. OnGrid(Snapshot')
    <3>1. /\ Snapshot'.position[Account][Instrument] = Held'
          /\ Snapshot'.decision = decision /\ Snapshot.decision = decision
          /\ Snapshot'.intents = intents /\ Snapshot.intents = intents
      BY <1>1, <1>2 DEF Snapshot, Held
    <3> QED
      BY <2>4, <3>1 DEF ExitInv, OnGrid, ApprovingIn
  <2>6. todo' = Tail(todo) /\ pc' = IF Len(todo) = 1 THEN "record" ELSE "risk"
    BY <1>4 DEF NextIntent
  <2>7. ExitFits'
    BY <2>6 DEF ExitFits
  <2>8. PricedBy' = PricedBy /\ Raced' = Raced
    BY <1>1, <1>2 DEF PricedBy, DecisionTime, Raced
  <2>9. ASSUME intents[n].side = "buy", NEW j \in PricedBy, NEW m \in 1..Len(intents),
               Covered(intents[m].cash, j)
        PROVE  2 * (QuantityScale * intents[m].cash)
                  <= 2 * (Held'.quantity * quote'[j].buy) + QuantityScale
    <3>1. quote[j].buy \in Nat
      BY PricingIs
    <3>2. Held'.quantity = Held.quantity + decision[n].quantity
      BY <2>2, <2>9
    <3>3. /\ Held'.quantity * quote[j].buy
                = Held.quantity * quote[j].buy + decision[n].quantity * quote[j].buy
          /\ decision[n].quantity * quote[j].buy \in Nat /\ Held.quantity * quote[j].buy \in Nat
      <4>1. decision[n].quantity \in Nat
        BY <2>1
      <4>2. decision[n].quantity * quote[j].buy \in Nat /\ Held.quantity * quote[j].buy \in Nat
        BY <2>3, <3>1, <4>1, ProductNat
      <4>3. (Held.quantity + decision[n].quantity) * quote[j].buy
               = Held.quantity * quote[j].buy + decision[n].quantity * quote[j].buy
        BY <2>3, <3>1, <4>1
      <4> QED
        BY <3>2, <4>2, <4>3
    <3>4. 2 * (QuantityScale * intents[m].cash)
             <= 2 * (Held.quantity * quote[j].buy) + QuantityScale
      BY <2>9 DEF Covered
    <3>5. QuantityScale * intents[m].cash \in Nat
      <4>1. intents[m] \in IntentRow
        BY <2>9 DEF RuntimeInv, SoundView, RowsOf, Snapshot
      <4> QED
        BY <4>1, CostAssumption, ProductNat DEF IntentRow
    <3>6. QuantityScale \in Nat /\ quote'[j].buy = quote[j].buy
      BY <1>2, CostAssumption
    <3> DEFINE c == QuantityScale * intents[m].cash
               a == Held.quantity * quote[j].buy
               b == decision[n].quantity * quote[j].buy
               e == Held'.quantity * quote[j].buy
    <3> HIDE DEF a, b, c, e
    <3>7. a \in Nat /\ b \in Nat /\ c \in Nat /\ e = a + b /\ 2 * c <= 2 * a + QuantityScale
      BY <3>3, <3>4, <3>5 DEF a, b, c, e
    <3>8. 2 * c <= 2 * e + QuantityScale
      BY <3>6, <3>7
    <3> QED
      BY <3>6, <3>8 DEF c, e
  <2>10. ExitsCovered'
    <3>1. /\ Len(todo) \in Nat \ {0} /\ n = todo[1] /\ 1 \in 1..Len(todo)
          /\ Len(todo') = Len(todo) - 1
          /\ \A i \in 1..Len(todo') : i + 1 \in 1..Len(todo) /\ todo'[i] = todo[i + 1]
      BY <1>1, <2>6, ListIs
    <3>2. \A i \in 1..Len(todo) : intents[todo[i]].side = "sell" =>
             /\ i = Len(todo)
             /\ Raced \/ \E j \in PricedBy : Covered(intents[todo[i]].cash, j)
      BY <1>1 DEF ExitInv, ExitsCovered
    <3>3. ASSUME NEW i \in 1..Len(todo'), intents'[todo'[i]].side = "sell"
          PROVE  /\ i = Len(todo')
                 /\ Raced' \/ \E j \in PricedBy' : Covered(intents[todo[i]].cash, j)'
      <4>1. /\ i + 1 = Len(todo)
            /\ Raced \/ \E j \in PricedBy : Covered(intents[todo[i + 1]].cash, j)
        BY <1>1, <3>1, <3>2, <3>3
      <4>2. intents[n].side = "buy"
        <5>1. 1 # Len(todo)
          BY <3>1, <3>3
        <5>2. intents[n].side # "sell"
          BY <3>1, <3>2, <5>1
        <5> QED
          BY <2>2, <5>2
      <4>3. CASE Raced
        BY <2>8, <3>1, <4>1, <4>3
      <4>4. ASSUME NEW j \in PricedBy, Covered(intents[todo[i + 1]].cash, j)
            PROVE  Covered(intents[todo[i]].cash, j)'
        <5>1. todo[i + 1] \in 1..Len(intents)
          <6>1. todo \in Seq(1..Len(intents))
            BY DEF RuntimeInv, TickSound, TodoSound
          <6> QED
            BY <3>1, <3>3, <6>1
        <5>2. 2 * (QuantityScale * intents[todo[i + 1]].cash)
                 <= 2 * (Held'.quantity * quote'[j].buy) + QuantityScale
          BY <2>9, <4>2, <4>4, <5>1
        <5>3. intents'[todo'[i]] = intents[todo[i + 1]]
          BY <1>1, <3>1, <3>3
        <5> QED
          BY <5>2, <5>3 DEF Covered
      <4> QED
        BY <2>8, <3>1, <4>1, <4>3, <4>4
    <3> QED
      BY <3>3 DEF ExitsCovered
  <2> QED
    BY <1>2, <2>5, <2>7, <2>10 DEF ExitInv
<1> QED
  BY <1>1, <1>3, <1>4

LEMMA InitExits == Init => ExitInv
<1> SUFFICES ASSUME Init PROVE ExitInv
  OBVIOUS
<1>1. /\ position[Account][Instrument].quantity = 0 /\ intents = <<>> /\ saved = Snapshot
      /\ pc = "asleep"
  BY DEF Init, Broker!Init, Broker!BookInit, Broker!EmptyPosition
<1>2. /\ Snapshot.position[Account][Instrument].quantity = 0 /\ Snapshot.intents = <<>>
      /\ Committed = Snapshot
  BY <1>1 DEF Snapshot, Committed
<1>3. (0 % Bank.step) = 0
  BY RuntimeAssumption
<1>4. OnGrid(Snapshot)
  BY <1>2, <1>3 DEF OnGrid
<1> QED
  BY <1>1, <1>2, <1>4 DEF ExitInv, ExitsCovered, ExitFits

LEMMA NextExits ==
    ASSUME PreciseSteps, RuntimeInv, RuntimeInv', ExitInv, [Next]_vars PROVE ExitInv'
<1>1. CASE UNCHANGED vars
  <2>1. /\ UNCHANGED <<position, intents, decision, quote, saved, tickAt, pc, todo>>
        /\ Snapshot' = Snapshot
    BY <1>1 DEF vars, view, loop, Snapshot
  <2>2. Committed' = Committed /\ Held' = Held /\ PricedBy' = PricedBy
    BY <2>1 DEF Committed, Held, PricedBy, DecisionTime
  <2> QED
    BY <2>1, <2>2 DEF ExitInv, ExitsCovered, ExitFits, Covered, Raced
<1>2. CASE Wake \/ Sleep \/ CollectQuote \/ FetchFails \/ SignalBarArrives
  <2>1. UNCHANGED <<view, saved>> /\ pc' \notin {"risk", "execute"}
    BY <1>2 DEF Wake, Sleep, CollectQuote, FetchFails, SignalBarArrives, loop
  <2>2. Snapshot' = Snapshot /\ Committed' = Committed
    BY <2>1 DEF view, Snapshot, Committed
  <2> QED
    BY <2>1, <2>2, QuietExits
<1>3. ASSUME NEW ready \in BOOLEAN, Assess(ready) PROVE ExitInv'
  <2>1. UNCHANGED <<view, saved>> /\ pc' \notin {"risk", "execute"}
    BY <1>3 DEF Assess
  <2>2. Snapshot' = Snapshot /\ Committed' = Committed
    BY <2>1 DEF view, Snapshot, Committed
  <2> QED
    BY <2>1, <2>2, QuietExits
<1>4. CASE Record
  <2>1. Snapshot' = Snapshot /\ Committed' = Snapshot /\ pc' = "asleep"
    BY <1>4 DEF Record, GoToSleep, view, Snapshot, Committed
  <2> QED
    BY <2>1, QuietExits
<1>5. CASE RecordFailure \/ Crash
  <2>1. Snapshot' = Committed /\ Committed' = Committed /\ pc' = "asleep"
    BY <1>5 DEF RecordFailure, Crash, Restore, GoToSleep, Snapshot, Committed
  <2> QED
    BY <2>1, QuietExits
<1> QED
  BY <1>1, <1>2, <1>3, <1>4, <1>5, DecideExits, AssessExits, ExecuteExits, CollectorExits
  DEF Next, Worker

\* An exit that risk approves is accepted by the broker, although its cash is rounded at the
\* price the bank pays and its size at the price the bank asks, and although the tick may
\* have bought in between: the one thing that can make the broker refuse it is a quote
\* of the collector, committed in mid-tick or tied with the worker's (_exit_intents,
\* RiskManager.evaluate, PaperBroker.execute).
THEOREM ExitsGoThrough ==
    PreciseSteps /\ CostsAreMinor => (Spec => []ExitsFailByARaceOnly)
<1> SUFFICES ASSUME PreciseSteps, CostsAreMinor PROVE Spec => []ExitsFailByARaceOnly
  OBVIOUS
<1>1. RuntimeInv /\ ExitInv => ExitsFailByARaceOnly
  <2> SUFFICES ASSUME RuntimeInv, ExitInv, pc = "execute", intents[Head(todo)].side = "sell",
                      ~Raced
               PROVE  Broker!Accepts(Head(todo), "sell", decision[Head(todo)].quote)
    BY Zenon DEF ExitsFailByARaceOnly, Raced
  <2> DEFINE n == Head(todo)
             k == decision[n].quote
             x == decision[n].quantity
  <2>1. /\ decision[n] # NoDecision /\ decision[n].outcome \in {"approve", "reduce"}
        /\ decision[n].account = Account /\ decision[n].instrument = Instrument
        /\ x \in Nat \ {0} /\ k \in QuoteIds /\ k # NoQuote /\ quote[k] # NoQuote
    BY ApprovedIs
  <2>2. x <= Held.quantity
    BY DEF ExitInv, ExitFits
  <2>3. /\ quote[k].instrument = Instrument
        /\ quote[k].buy \in Nat \ {0} /\ quote[k].sell \in Nat /\ quote[k].buy <= quote[k].sell
    <3>1. PICK p \in Prices : quote[k] = NewQuote(p, k[2])
      BY <2>1 DEF RuntimeInv, QuotesSound
    <3> QED
      BY <3>1, RuntimeAssumption DEF NewQuote
  <2>4. wallet[Account] \in Nat
    BY DEF RuntimeInv, SoundView, BookOf, Snapshot
  <2> HIDE DEF n, k, x
  <2>5. Broker!CostsOf(n, "sell", k).net \in Nat
    <3>1. Broker!CostsOf(n, "sell", k) = Costs("sell", x, quote[k].buy, quote[k].sell)
      BY DEF x, Broker!CostsOf, Broker!Costs, Costs, Broker!GrossCash, GrossCash,
             Broker!Fees, Fees, Broker!Taxes, Taxes, Broker!NetCash, NetCash,
             Broker!ExecutionPrice, ExecutionPrice, Broker!HalfUp, HalfUp
    <3>2. x \in Nat
      BY <2>1
    <3> QED
      BY <2>3, <3>1, <3>2, SellNetNat
  <2>6. Broker!QuoteOf(n, k) = k /\ Broker!QuoteUsable(n, k)
    BY <2>1, <2>3 DEF Broker!QuoteOf, Broker!QuoteUsable
  <2>7. Broker!Affordable(n, "sell", k)
    <3>1. Broker!CostInputsValid(decision[n].quantity, quote[k].buy, quote[k].sell)
      BY <2>1, <2>3 DEF x, Broker!CostInputsValid
    <3>2. Broker!ExecutionPrice("sell", quote[k].buy, quote[k].sell) > 0
      BY <2>3 DEF Broker!ExecutionPrice
    <3>3. wallet[decision[n].account] + Broker!CostsOf(n, "sell", k).net >= 0
      BY <2>1, <2>4, <2>5
    <3>4. decision[n].quantity <= position[decision[n].account][decision[n].instrument].quantity
      BY <2>1, <2>2 DEF x, Held
    <3> QED
      BY <3>1, <3>2, <3>3, <3>4 DEF Broker!Affordable
  <2>8. Broker!Approved(n)
    BY <2>1 DEF x, Broker!Approved
  <2>9. Broker!Accepts(n, "sell", k)
    BY <2>6, <2>7, <2>8 DEF Broker!Accepts
  <2> QED
    BY <2>9 DEF n, k
<1>2. RuntimeInv /\ RuntimeInv' /\ ExitInv /\ [Next]_vars => ExitInv'
  BY NextExits
<1> QED
  BY InitKeeps, NextKeeps, InitExits, <1>1, <1>2, PTL DEF Spec

=============================================================================

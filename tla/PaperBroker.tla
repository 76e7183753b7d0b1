---------------------------- MODULE PaperBroker ----------------------------
(***************************************************************************)
(* PaperBroker.execute and LedgerService.append (paper_trading/service.py)  *)
(* over the rows they read and write: one wallet per account in its base    *)
(* currency, one position per account and bank instrument, orders, trades   *)
(* and ledger entries.                                                      *)
(*                                                                          *)
(* A call that raises leaves nothing behind, because its caller rolls the   *)
(* session back: a refused call is the absence of a step.  Several sessions *)
(* at once are the subject of PaperSessions.                                *)
(*                                                                          *)
(* decision and quote are written elsewhere (RiskManager, PriceCollector)   *)
(* and read here; Decide and Publish stand for those writers.               *)
(***************************************************************************)
EXTENDS CostModel, Sequences, Functions

CONSTANTS Accounts, Instruments, DecisionIds, QuoteIds,
          OpeningCash,      \* [Accounts -> Nat]: the wallet before any trade
          NoDecision, NoQuote, \* the row is missing / quote_id is None
          Approvals,        \* the rows RiskManager may leave in a decision
          Prices            \* the <<buy, sell>> pairs a quote may carry

VARIABLES wallet,      \* wallet[a]: WalletModel.available_amount
          position,    \* position[a][i]: PositionModel; a missing row is all zeros
          orders,      \* PaperOrderModel rows, in insertion order
          trades,      \* PaperTradeModel rows, in insertion order
          ledger,      \* LedgerEntryModel rows, in insertion order
          decision,    \* decision[d]: RiskDecisionModel, or NoDecision
          quote        \* quote[k]: PriceQuoteModel, or NoQuote

book == <<wallet, position, orders, trades, ledger>>
vars == <<wallet, position, orders, trades, ledger, decision, quote>>

PositionRow == [quantity: Int, average: Int, pnl: Int]
OrderRow    == [decision: DecisionIds, account: Accounts, instrument: Instruments,
                side: Sides, quantity: Nat \ {0}]
\* Order and trade are inserted together, so order n is the order of trade n.
TradeRow    == [account: Accounts, instrument: Instruments, quote: QuoteIds,
                side: Sides, quantity: Nat \ {0}, gross: Nat, fees: Nat, taxes: Nat,
                spread: Nat, net: Int, pnl: Int]
EntryKinds  == {"cash", "fee", "tax"}
EntryRow    == [trade: Nat \ {0}, account: Accounts, kind: EntryKinds, amount: Int]
DecisionRow == [account: Accounts, instrument: Instruments,
                outcome: {"approve", "reduce", "reject"},
                quantity: Nat, quote: QuoteIds \cup {NoQuote}]
QuoteRow    == [instrument: Instruments, buy: Nat, sell: Nat]

ASSUME BrokerAssumption ==
    /\ OpeningCash \in [Accounts -> Nat]
    /\ Approvals \subseteq DecisionRow
    /\ NoDecision \notin DecisionRow
    /\ NoQuote \notin QuoteRow
    /\ NoQuote \notin QuoteIds
    /\ Prices \subseteq {p \in Nat \X Nat : p[1] <= p[2]}

EmptyPosition == [quantity |-> 0, average |-> 0, pnl |-> 0]

BookTypeOK ==
    /\ wallet \in [Accounts -> Int]
    /\ position \in [Accounts -> [Instruments -> PositionRow]]
    /\ orders \in Seq(OrderRow)
    /\ trades \in Seq(TradeRow)
    /\ ledger \in Seq(EntryRow)

TypeOK ==
    /\ BookTypeOK
    /\ decision \in [DecisionIds -> DecisionRow \cup {NoDecision}]
    /\ quote \in [QuoteIds -> QuoteRow \cup {NoQuote}]

BookInit ==
    /\ wallet = OpeningCash
    /\ position = [a \in Accounts |-> [i \in Instruments |-> EmptyPosition]]
    /\ orders = <<>>
    /\ trades = <<>>
    /\ ledger = <<>>

Init ==
    /\ BookInit
    /\ decision = [d \in DecisionIds |-> NoDecision]
    /\ quote = [k \in QuoteIds |-> NoQuote]

-----------------------------------------------------------------------------
(* The rows execute() loads, and what makes it raise ValueError.           *)

\* _load_approved_decision
Approved(d) ==
    /\ decision[d] # NoDecision
    /\ decision[d].outcome \in {"approve", "reduce"}
    /\ decision[d].quantity > 0

\* Mutant: an order counts only while it still matches the decision.
AlreadyOrderedAlike(d) ==
    \E n \in 1..Len(orders) :
        orders[n].decision = d /\ orders[n].quantity = decision[d].quantity

\* execute() looks the order up by risk_decision_id before anything else.
AlreadyOrdered(d) == \E n \in 1..Len(orders) : orders[n].decision = d

\* _load_quote: the request's quote wins over the decision's.
QuoteOf(d, requested) == IF requested # NoQuote THEN requested ELSE decision[d].quote

QuoteUsable(d, k) ==
    /\ k # NoQuote
    /\ quote[k] # NoQuote
    /\ quote[k].instrument = decision[d].instrument

CostsOf(d, side, k) ==
    Costs(side, decision[d].quantity, quote[k].buy, quote[k].sell)

-----------------------------------------------------------------------------
(* The two ways a trade changes wallet and position.                       *)

\* Mutant: the average is the price last paid.
PositionAfterBuyLastPrice(p, quantity, net) ==
    [ p EXCEPT !.quantity = @ + quantity,
               !.average  = HalfUp(net * QuantityScale, quantity) ]

\* Mutant: a buy replaces the position.
PositionAfterBuyReplaces(p, quantity, net) ==
    [ p EXCEPT !.quantity = quantity, !.average = HalfUp(net * QuantityScale, quantity) ]

\* _apply_buy: the cost of the trade, fees included, joins the average.
PositionAfterBuy(p, quantity, net) ==
    [ quantity |-> p.quantity + quantity,
      average  |-> HalfUp(p.quantity * p.average + net * QuantityScale,
                          p.quantity + quantity),
      pnl      |-> p.pnl ]

\* _apply_sell: profit is measured against the average cost of what is sold.
RealizedPnl(p, quantity, net) == net - HalfUp(quantity * p.average, QuantityScale)

\* Mutant: every sell forgets the average cost.
PositionAfterSellForgetsCost(p, quantity, net) ==
    [ quantity |-> p.quantity - quantity, average |-> 0,
      pnl |-> p.pnl + RealizedPnl(p, quantity, net) ]

PositionAfterSell(p, quantity, net) ==
    [ quantity |-> p.quantity - quantity,
      average  |-> IF p.quantity = quantity THEN 0 ELSE p.average,
      pnl      |-> p.pnl + RealizedPnl(p, quantity, net) ]

\* Mutant: the wallet is compared with the price, not with price and costs.
AffordableGross(d, side, k) ==
    LET a == decision[d].account
        costs == CostsOf(d, side, k)
    IN  \/ side = "buy"  /\ costs.gross <= wallet[a]
        \/ side = "sell" /\ decision[d].quantity
                               <= position[a][decision[d].instrument].quantity

\* Mutant: a sell is not compared with the holding.
AffordableShort(d, side, k) ==
    side = "buy" => CostsOf(d, side, k).net <= wallet[decision[d].account]

\* What calculate, _apply_buy and _apply_sell ask for, and the CHECK constraints of
\* wallets and paper_trades that the flush can still trip over.
Affordable(d, side, k) ==
    LET a == decision[d].account
        costs == CostsOf(d, side, k)
    IN  /\ CostInputsValid(decision[d].quantity, quote[k].buy, quote[k].sell)
        /\ ExecutionPrice(side, quote[k].buy, quote[k].sell) > 0
        /\ \/ side = "buy"  /\ costs.net <= wallet[a]
           \/ side = "sell" /\ decision[d].quantity
                                 <= position[a][decision[d].instrument].quantity
                            /\ wallet[a] + costs.net >= 0

\* Mutant: taxes are never posted.
TradeEntriesUntaxed(n, a, side, costs) ==
    LET entry(kind, amount) ==
            [trade |-> n, account |-> a, kind |-> kind, amount |-> amount]
    IN  << entry("cash", IF side = "buy" THEN -costs.gross ELSE costs.gross),
           entry("fee", -costs.fees) >>

\* Mutant: only buys are posted.
TradeEntriesBuysOnly(n, a, side, costs) ==
    IF side = "sell" THEN <<>>
    ELSE <<[trade |-> n, account |-> a, kind |-> "cash", amount |-> -costs.net]>>

\* _append_trade_ledger: the entries of trade n.
TradeEntries(n, a, side, costs) ==
    LET entry(kind, amount) ==
            [trade |-> n, account |-> a, kind |-> kind, amount |-> amount]
        gross == IF side = "buy" THEN -costs.gross ELSE costs.gross
    IN  <<entry("cash", gross)>>
          \o (IF costs.fees > 0 THEN <<entry("fee", -costs.fees)>> ELSE <<>>)
          \o (IF costs.taxes > 0 THEN <<entry("tax", -costs.taxes)>> ELSE <<>>)

-----------------------------------------------------------------------------

\* The body of execute() once no order exists for d: wallet, position, order,
\* trade and ledger entries in one go.
Fill(d, side, k) ==
    LET row   == decision[d]
        a     == row.account
        i     == row.instrument
        q     == row.quantity
        held  == position[a][i]
        costs == CostsOf(d, side, k)
    IN  /\ wallet' = [wallet EXCEPT ![a] =
                        IF side = "buy" THEN @ - costs.net ELSE @ + costs.net]
        /\ position' = [position EXCEPT ![a][i] =
                          IF side = "buy" THEN PositionAfterBuy(held, q, costs.net)
                                          ELSE PositionAfterSell(held, q, costs.net)]
        /\ orders' = Append(orders, [decision |-> d, account |-> a, instrument |-> i,
                                     side |-> side, quantity |-> q])
        /\ trades' = Append(trades,
              [account |-> a, instrument |-> i, quote |-> k, side |-> side,
               quantity |-> q, gross |-> costs.gross, fees |-> costs.fees,
               taxes |-> costs.taxes, spread |-> costs.spread, net |-> costs.net,
               pnl |-> IF side = "buy" THEN 0 ELSE RealizedPnl(held, q, costs.net)])
        /\ ledger' = ledger \o TradeEntries(Len(trades) + 1, a, side, costs)

\* execute(PaperOrderRequest(d, side, requested)) returns rather than raises.
Accepts(d, side, requested) ==
    /\ Approved(d)
    /\ \/ AlreadyOrdered(d)
       \/ QuoteUsable(d, QuoteOf(d, requested)) /\ Affordable(d, side, QuoteOf(d, requested))

\* The call, when it returns.  A retry gets the existing order and trade.  The
\* broker never compares side with the side of the intent behind d.
Execute(d, side, requested) ==
    /\ Accepts(d, side, requested)
    /\ \/ AlreadyOrdered(d) /\ UNCHANGED book
       \/ ~AlreadyOrdered(d) /\ Fill(d, side, QuoteOf(d, requested))
    /\ UNCHANGED <<decision, quote>>

\* RiskManager.evaluate writes the row of d, and may write it again later; the
\* account is the intent's and stays, the quote must exist (a foreign key).
Decide(d) ==
    /\ \E row \in Approvals :
          /\ decision[d] # NoDecision => row.account = decision[d].account
          /\ row.quote # NoQuote => quote[row.quote] # NoQuote
          /\ decision' = [decision EXCEPT ![d] = row]
    /\ UNCHANGED <<book, quote>>

\* PriceCollector inserts a quote; quote rows are never updated.
Publish(k) ==
    /\ quote[k] = NoQuote
    /\ \E i \in Instruments, p \in Prices :
          quote' = [quote EXCEPT ![k] = [instrument |-> i, buy |-> p[1], sell |-> p[2]]]
    /\ UNCHANGED <<book, decision>>

Next ==
    \/ \E d \in DecisionIds, side \in Sides, k \in QuoteIds \cup {NoQuote} :
          Execute(d, side, k)
    \/ \E d \in DecisionIds : Decide(d)
    \/ \E k \in QuoteIds : Publish(k)

Spec == Init /\ [][Next]_vars

-----------------------------------------------------------------------------
(* Properties *)

\* No account is overdrawn and no position is short, whatever order of
\* decisions, re-decisions and retries led here (_apply_buy and _apply_sell
\* refuse; ROADMAP.md 24.4).
NeverOverdrawn ==
    /\ \A a \in Accounts : wallet[a] >= 0
    /\ \A a \in Accounts, i \in Instruments :
          position[a][i].quantity >= 0 /\ position[a][i].average >= 0

\* However often a decision is executed, and however often it is re-decided in
\* between, it is ordered once: execute() answers a retry with the order it has.
OneOrderPerDecision ==
    \A m, n \in 1..Len(orders) : orders[m].decision = orders[n].decision => m = n

\* The ledger alone reconstructs the cash: a wallet is its opening balance plus
\* every entry of its account, fees and taxes included (ROADMAP.md 24.4).
CashReconciles ==
    \A a \in Accounts :
        wallet[a] = OpeningCash[a]
                      + SumFunctionOnSet([n \in DOMAIN ledger |-> ledger[n].amount],
                                         {n \in DOMAIN ledger : ledger[n].account = a})

\* The trades alone reconstruct the metal: a position is what was bought less
\* what was sold (ROADMAP.md 24.4).
PositionReconciles ==
    \A a \in Accounts, i \in Instruments :
        position[a][i].quantity =
            SumFunctionOnSet(
                [n \in DOMAIN trades |->
                    IF trades[n].side = "buy" THEN trades[n].quantity ELSE -trades[n].quantity],
                {n \in DOMAIN trades : trades[n].account = a /\ trades[n].instrument = i})

\* Every trade is posted exactly once, by entries that add up to its net cash:
\* one cash entry, and a fee and a tax entry exactly when there is something
\* to post (_append_trade_ledger).
LedgerPostsTradesOnce ==
    /\ \A n \in 1..Len(ledger) : ledger[n].trade \in 1..Len(trades)
    /\ \A m, n \in 1..Len(ledger) :
          ledger[m].trade = ledger[n].trade /\ ledger[m].kind = ledger[n].kind => m = n
    /\ \A t \in 1..Len(trades) :
          LET amounts == [n \in DOMAIN ledger |-> ledger[n].amount]
              posted  == {n \in DOMAIN ledger : ledger[n].trade = t}
          IN  SumFunctionOnSet(amounts, posted) =
                  IF trades[t].side = "buy" THEN -trades[t].net ELSE trades[t].net

\* Wallet, holdings, trades and ledger tell the same story.
BookReconciles == CashReconciles /\ PositionReconciles /\ LedgerPostsTradesOnce

\* Double-entry identity: the cash an account is missing is the cost basis of
\* what it holds less the profit it has realized.  Rounding the average of a
\* buy moves the basis by at most half a quantum per quantity quantum held,
\* rounding the basis of a sell by at most half a quantum.
BookValueConserved ==
    \A a \in Accounts :
        LET basis(i)  == position[a][i].quantity * position[a][i].average
            profit(i) == position[a][i].pnl
            mine      == {n \in DOMAIN trades : trades[n].account = a}
            slack     == SumFunctionOnSet(
                           [n \in DOMAIN trades |->
                              QuantityScale + SumFunctionOnSet(
                                  [m \in DOMAIN trades |-> trades[m].quantity],
                                  {m \in mine : m <= n /\ trades[m].side = "buy"})], mine)
            drift     == QuantityScale * (wallet[a] - OpeningCash[a])
                           + SumFunctionOnSet([i \in Instruments |-> basis(i)], Instruments)
                           - QuantityScale *
                             SumFunctionOnSet([i \in Instruments |-> profit(i)], Instruments)
        IN  2 * drift \in -slack .. slack

\* Buying and selling the same quantity on the same quote never returns more
\* than it cost (plan/phase-08: same-quote round trips lose money).
NoFreeRoundTrip ==
    \A m, n \in 1..Len(trades) :
        /\ trades[m].side = "buy" /\ trades[n].side = "sell"
        /\ trades[m].quote = trades[n].quote
        /\ trades[m].quantity = trades[n].quantity
        => trades[n].net <= trades[m].net - trades[m].fees - trades[n].fees

\* History is append-only: no step removes or rewrites an order, a trade or a
\* ledger entry (ROADMAP.md 24.4), and cash never moves without an entry.
HistoryOnlyGrows ==
    /\ \A n \in 1..Len(orders) : n <= Len(orders') /\ orders'[n] = orders[n]
    /\ \A n \in 1..Len(trades) : n <= Len(trades') /\ trades'[n] = trades[n]
    /\ \A n \in 1..Len(ledger) : n <= Len(ledger') /\ ledger'[n] = ledger[n]
    /\ wallet' # wallet => Len(ledger') > Len(ledger)

AppendOnly == [][HistoryOnlyGrows]_vars

\* The broker keeps the promise of AccountBook.
Book == INSTANCE AccountBook WITH
            Authorisations <- DecisionIds,
            cash    <- wallet,
            metal   <- [a \in Accounts |-> [i \in Instruments |-> position[a][i].quantity]],
            settled <- {orders[n].decision : n \in 1..Len(orders)}

ImplementsAccountBook == Book!Spec

=============================================================================

------------------------- MODULE PaperBroker_proofs ------------------------
(***************************************************************************)
(* What PaperBroker guarantees for every set of accounts, instruments,      *)
(* decisions and quotes, every opening balance, price and rate.             *)
(*                                                                          *)
(* BookInv is inductive: types, the signs of balances and holdings, and the *)
(* order of a quote's two prices.  The types need the signs, because the    *)
(* average cost divides by the quantity held.                               *)
(***************************************************************************)
EXTENDS PaperBroker, Accounting_proofs, SequenceTheorems

QuotesOrdered ==
    \A k \in QuoteIds : quote[k] # NoQuote => quote[k].buy <= quote[k].sell

BookInv == TypeOK /\ QuotesOrdered /\ NeverOverdrawn

\* What a fill needs of the rows it reads, whatever else a quote row holds.
RowsSound ==
    /\ decision \in [DecisionIds -> DecisionRow \cup {NoDecision}]
    /\ \A k \in QuoteIds : quote[k] # NoQuote =>
          quote[k].buy \in Nat /\ quote[k].sell \in Nat /\ quote[k].buy <= quote[k].sell

Sound == BookTypeOK /\ NeverOverdrawn /\ RowsSound

\* The type invariant gives what the cost lemmas ask of quotes.
LEMMA BookInvSound == BookInv => Sound
<1> SUFFICES ASSUME BookInv, NEW k \in QuoteIds, quote[k] # NoQuote
             PROVE  quote[k].buy \in Nat /\ quote[k].sell \in Nat /\ quote[k].buy <= quote[k].sell
  BY DEF BookInv, Sound, TypeOK, RowsSound
<1>1. quote[k] \in QuoteRow
  BY DEF BookInv, TypeOK
<1> QED
  BY <1>1 DEF QuoteRow, BookInv, QuotesOrdered

-----------------------------------------------------------------------------

\* What a call that is about to fill knows about its rows.
LEMMA RowsType ==
    ASSUME Sound, NEW d \in DecisionIds, NEW k \in QuoteIds \cup {NoQuote},
           Approved(d), QuoteUsable(d, k)
    PROVE  /\ decision[d] \in DecisionRow /\ decision[d].quantity \in Nat \ {0}
           /\ decision[d].account \in Accounts /\ decision[d].instrument \in Instruments
           /\ k \in QuoteIds
           /\ quote[k].buy \in Nat /\ quote[k].sell \in Nat
           /\ quote[k].buy <= quote[k].sell
<1>1. decision[d] \in DecisionRow
  BY DEF Sound, RowsSound, Approved
<1>2. decision[d].quantity \in Nat \ {0}
  BY <1>1 DEF DecisionRow, Approved
<1> QED
  BY <1>1, <1>2 DEF DecisionRow, Sound, RowsSound, QuoteUsable

\* A buy leaves a position row with more metal and a cost that is not negative.
LEMMA PositionAfterBuyType ==
    ASSUME NEW p \in PositionRow, p.quantity >= 0, p.average >= 0,
           NEW quantity \in Nat \ {0}, NEW net \in Nat
    PROVE  LET r == PositionAfterBuy(p, quantity, net)
           IN  r \in PositionRow /\ r.quantity >= 0 /\ r.average >= 0
<1>1. p.quantity \in Nat /\ p.average \in Nat /\ p.pnl \in Int
  BY DEF PositionRow
<1>2. p.quantity * p.average + net * QuantityScale \in Nat
  BY <1>1, ProductNat, CostAssumption
<1>3. p.quantity + quantity \in Nat \ {0}
  BY <1>1
<1>4. HalfUp(p.quantity * p.average + net * QuantityScale, p.quantity + quantity) \in Nat
  BY <1>2, <1>3, HalfUpNat
<1> QED
  BY <1>1, <1>3, <1>4 DEF PositionAfterBuy, PositionRow

\* A sell of no more than is held leaves a position row that is not short.
LEMMA PositionAfterSellType ==
    ASSUME NEW p \in PositionRow, p.quantity >= 0, p.average >= 0,
           NEW quantity \in Nat \ {0}, quantity <= p.quantity, NEW net \in Int
    PROVE  LET r == PositionAfterSell(p, quantity, net)
           IN  /\ r \in PositionRow /\ r.quantity >= 0 /\ r.average >= 0
               /\ RealizedPnl(p, quantity, net) \in Int
<1>1. p.quantity \in Nat /\ p.average \in Nat /\ p.pnl \in Int
  BY DEF PositionRow
<1>2. RealizedPnl(p, quantity, net) \in Int
  <2>1. quantity * p.average \in Nat
    BY <1>1, ProductNat
  <2>2. HalfUp(quantity * p.average, QuantityScale) \in Nat
    BY <2>1, HalfUpNat, CostAssumption
  <2> QED
    BY <2>2 DEF RealizedPnl
<1>3. p.quantity - quantity \in Nat
  BY <1>1
<1> QED
  BY <1>1, <1>2, <1>3 DEF PositionAfterSell, PositionRow

\* The entries of a trade are ledger rows, at least one and at most three.
LEMMA TradeEntriesType ==
    ASSUME NEW n \in Nat \ {0}, NEW a \in Accounts, NEW side \in Sides, NEW costs,
           costs.gross \in Nat, costs.fees \in Nat, costs.taxes \in Nat
    PROVE  /\ TradeEntries(n, a, side, costs) \in Seq(EntryRow)
           /\ Len(TradeEntries(n, a, side, costs)) >= 1
<1> DEFINE entry(kind, amount) ==
              [trade |-> n, account |-> a, kind |-> kind, amount |-> amount]
           gross == IF side = "buy" THEN -costs.gross ELSE costs.gross
           cash == <<entry("cash", gross)>>
           fee  == IF costs.fees > 0 THEN <<entry("fee", -costs.fees)>> ELSE <<>>
           tax  == IF costs.taxes > 0 THEN <<entry("tax", -costs.taxes)>> ELSE <<>>
<1>1. /\ entry("cash", gross) \in EntryRow
      /\ entry("fee", -costs.fees) \in EntryRow
      /\ entry("tax", -costs.taxes) \in EntryRow
  BY DEF EntryRow, EntryKinds
<1>2. cash \in Seq(EntryRow) /\ fee \in Seq(EntryRow) /\ tax \in Seq(EntryRow)
      /\ Len(cash) = 1
  BY <1>1
<1> HIDE DEF cash, fee, tax
<1>3. Len(fee) \in Nat /\ Len(tax) \in Nat
  BY <1>2
<1>4. cash \o fee \in Seq(EntryRow) /\ Len(cash \o fee) = 1 + Len(fee)
  BY <1>2, ConcatProperties
<1>5. (cash \o fee) \o tax \in Seq(EntryRow)
      /\ Len((cash \o fee) \o tax) = Len(cash \o fee) + Len(tax)
  BY <1>2, <1>4, ConcatProperties
<1>6. TradeEntries(n, a, side, costs) = (cash \o fee) \o tax
  BY DEF TradeEntries, cash, fee, tax
<1>7. Len((cash \o fee) \o tax) >= 1
  BY <1>3, <1>4, <1>5
<1> QED
  BY <1>5, <1>6, <1>7

-----------------------------------------------------------------------------

LEMMA InitBookInv == Init => BookInv
<1> SUFFICES ASSUME Init PROVE BookInv
  OBVIOUS
<1>1. EmptyPosition \in PositionRow /\ EmptyPosition.quantity = 0 /\ EmptyPosition.average = 0
  BY DEF EmptyPosition, PositionRow
<1>2. BookTypeOK
  BY <1>1, BrokerAssumption DEF Init, BookInit, BookTypeOK
<1>3. NeverOverdrawn
  BY <1>1, BrokerAssumption DEF Init, BookInit, NeverOverdrawn
<1> QED
  BY <1>2, <1>3 DEF Init, BookInv, TypeOK, QuotesOrdered

\* A fill whose guards held keeps types and signs.
LEMMA FillBookInv ==
    ASSUME Sound, NEW d \in DecisionIds, NEW side \in Sides,
           NEW k \in QuoteIds \cup {NoQuote},
           Approved(d), QuoteUsable(d, k), Affordable(d, side, k), Fill(d, side, k)
    PROVE  BookTypeOK' /\ NeverOverdrawn'
<1> DEFINE a     == decision[d].account
           i     == decision[d].instrument
           q     == decision[d].quantity
           held  == position[a][i]
           costs == CostsOf(d, side, k)
<1>1. /\ a \in Accounts /\ i \in Instruments /\ q \in Nat \ {0} /\ k \in QuoteIds
      /\ decision[d] \in DecisionRow
      /\ quote[k].buy \in Nat /\ quote[k].sell \in Nat /\ quote[k].buy <= quote[k].sell
  BY RowsType
<1>2. /\ costs.gross \in Nat /\ costs.fees \in Nat /\ costs.taxes \in Nat
      /\ costs.spread \in Nat /\ costs.net \in Int
      /\ side = "buy" => costs.net \in Nat
  BY <1>1, CostsType DEF CostsOf
<1>3. /\ wallet \in [Accounts -> Int] /\ wallet[a] >= 0
      /\ position \in [Accounts -> [Instruments -> PositionRow]]
      /\ held \in PositionRow /\ held.quantity >= 0 /\ held.average >= 0
  BY <1>1 DEF Sound, BookTypeOK, NeverOverdrawn
<1>4. \/ side = "buy" /\ costs.net <= wallet[a]
      \/ side = "sell" /\ q <= held.quantity /\ wallet[a] + costs.net >= 0
  BY DEF Affordable
<1> HIDE DEF costs
<1>5. wallet' \in [Accounts -> Int] /\ wallet'[a] >= 0
      /\ \A x \in Accounts \ {a} : wallet'[x] = wallet[x]
  <2> DEFINE cash == IF side = "buy" THEN wallet[a] - costs.net ELSE wallet[a] + costs.net
  <2>1. wallet' = [wallet EXCEPT ![a] = cash]
    BY <1>3 DEF Fill, costs
  <2>2. cash \in Int /\ cash >= 0
    <3>1. wallet[a] \in Int /\ costs.net \in Int
      BY <1>1, <1>2, <1>3
    <3>2. \/ side = "buy" /\ costs.net <= wallet[a]
          \/ side # "buy" /\ wallet[a] + costs.net >= 0
      BY <1>4
    <3> QED
      BY <3>1, <3>2
  <2> HIDE DEF cash
  <2> QED
    BY <1>1, <1>3, <2>1, <2>2
<1>6. PICK new \in PositionRow :
          /\ position' = [position EXCEPT ![a][i] = new]
          /\ new.quantity >= 0 /\ new.average >= 0
  <2>1. CASE side = "buy"
    <3>1. position' = [position EXCEPT ![a][i] = PositionAfterBuy(held, q, costs.net)]
      BY <2>1, <1>1, <1>3 DEF Fill, costs
    <3> QED
      BY <2>1, <3>1, <1>1, <1>2, <1>3, PositionAfterBuyType
  <2>2. CASE side = "sell"
    <3>1. position' = [position EXCEPT ![a][i] = PositionAfterSell(held, q, costs.net)]
      BY <2>2, <1>1, <1>3 DEF Fill, costs
    <3> QED
      BY <2>2, <3>1, <1>1, <1>2, <1>3, <1>4, PositionAfterSellType
  <2> QED
    BY <2>1, <2>2 DEF Sides
<1>7. position' \in [Accounts -> [Instruments -> PositionRow]]
      /\ \A x \in Accounts, y \in Instruments :
            position'[x][y].quantity >= 0 /\ position'[x][y].average >= 0
  <2>1. \A x \in Accounts, y \in Instruments :
            position'[x][y] = IF x = a /\ y = i THEN new ELSE position[x][y]
    BY <1>1, <1>3, <1>6
  <2> QED
    BY <1>1, <1>3, <1>6, <2>1 DEF Sound, NeverOverdrawn
<1>8. orders' \in Seq(OrderRow)
  <2>1. [decision |-> d, account |-> a, instrument |-> i, side |-> side, quantity |-> q]
            \in OrderRow
    BY <1>1 DEF OrderRow
  <2> QED
    BY <2>1 DEF Fill, Sound, BookTypeOK
<1>9. trades' \in Seq(TradeRow)
  <2> DEFINE pnl == IF side = "buy" THEN 0 ELSE RealizedPnl(held, q, costs.net)
             row == [account |-> a, instrument |-> i, quote |-> k, side |-> side,
                     quantity |-> q, gross |-> costs.gross, fees |-> costs.fees,
                     taxes |-> costs.taxes, spread |-> costs.spread, net |-> costs.net,
                     pnl |-> pnl]
  <2>1. pnl \in Int
    BY <1>1, <1>2, <1>3, <1>4, PositionAfterSellType
  <2>2. row \in TradeRow
    BY <1>1, <1>2, <2>1 DEF TradeRow
  <2>3. trades' = Append(trades, row)
    BY DEF Fill, costs
  <2> QED
    BY <2>2, <2>3 DEF Sound, BookTypeOK
<1>10. ledger' \in Seq(EntryRow)
  <2>1. Len(trades) + 1 \in Nat \ {0}
    BY DEF Sound, BookTypeOK
  <2>2. TradeEntries(Len(trades) + 1, a, side, costs) \in Seq(EntryRow)
    BY <1>1, <1>2, <2>1, TradeEntriesType
  <2>3. ledger' = ledger \o TradeEntries(Len(trades) + 1, a, side, costs)
    BY DEF Fill, costs
  <2> QED
    BY <2>2, <2>3, ConcatProperties DEF Sound, BookTypeOK
<1>11. \A x \in Accounts : wallet'[x] >= 0
  BY <1>5 DEF Sound, NeverOverdrawn
<1> QED
  BY <1>5, <1>7, <1>8, <1>9, <1>10, <1>11 DEF BookTypeOK, NeverOverdrawn

LEMMA NextBookInv == BookInv /\ [Next]_vars => BookInv'
<1> SUFFICES ASSUME BookInv, [Next]_vars PROVE BookInv'
  OBVIOUS
<1>1. ASSUME NEW d \in DecisionIds, NEW side \in Sides,
             NEW k \in QuoteIds \cup {NoQuote}, Execute(d, side, k)
      PROVE  BookInv'
  <2>1. UNCHANGED <<decision, quote>>
    BY <1>1 DEF Execute
  <2>2. BookTypeOK' /\ NeverOverdrawn'
    <3>1. CASE AlreadyOrdered(d)
      BY <1>1, <3>1 DEF Execute, book, BookInv, TypeOK, BookTypeOK, NeverOverdrawn
    <3>2. CASE ~AlreadyOrdered(d)
      <4>1. QuoteOf(d, k) \in QuoteIds \cup {NoQuote}
        BY <1>1 DEF QuoteOf, Execute, Accepts, Approved, BookInv, TypeOK, DecisionRow
      <4> QED
        BY <1>1, <3>2, <4>1, FillBookInv, BookInvSound DEF Execute, Accepts
    <3> QED
      BY <3>1, <3>2
  <2> QED
    BY <2>1, <2>2 DEF BookInv, TypeOK, QuotesOrdered
<1>2. ASSUME NEW d \in DecisionIds, Decide(d)
      PROVE  BookInv'
  <2>1. decision' \in [DecisionIds -> DecisionRow \cup {NoDecision}]
    BY <1>2, BrokerAssumption DEF Decide, BookInv, TypeOK
  <2> QED
    BY <1>2, <2>1 DEF Decide, book, BookInv, TypeOK, BookTypeOK, QuotesOrdered, NeverOverdrawn
<1>3. ASSUME NEW k \in QuoteIds, Publish(k)
      PROVE  BookInv'
  <2>1. PICK i \in Instruments, p \in Prices :
            quote' = [quote EXCEPT ![k] = [instrument |-> i, buy |-> p[1], sell |-> p[2]]]
    BY <1>3 DEF Publish
  <2>2. p[1] \in Nat /\ p[2] \in Nat /\ p[1] <= p[2]
    BY BrokerAssumption
  <2>3. [instrument |-> i, buy |-> p[1], sell |-> p[2]] \in QuoteRow
    BY <2>2 DEF QuoteRow
  <2>4. quote' \in [QuoteIds -> QuoteRow \cup {NoQuote}] /\ QuotesOrdered'
    BY <2>1, <2>2, <2>3 DEF BookInv, TypeOK, QuotesOrdered
  <2> QED
    BY <1>3, <2>4 DEF Publish, book, BookInv, TypeOK, BookTypeOK, NeverOverdrawn
<1>4. CASE UNCHANGED vars
  BY <1>4 DEF vars, BookInv, TypeOK, BookTypeOK, QuotesOrdered, NeverOverdrawn
<1> QED
  BY <1>1, <1>2, <1>3, <1>4 DEF Next

\* The book is well typed in every reachable state.
THEOREM TypeCorrect == Spec => []TypeOK
<1>1. BookInv => TypeOK
  BY DEF BookInv
<1> QED
  BY InitBookInv, NextBookInv, <1>1, PTL DEF Spec

\* No account is ever overdrawn and no position short (_apply_buy, _apply_sell).
THEOREM NoOverdraft == Spec => []NeverOverdrawn
<1>1. BookInv => NeverOverdrawn
  BY DEF BookInv
<1> QED
  BY InitBookInv, NextBookInv, <1>1, PTL DEF Spec

-----------------------------------------------------------------------------

\* A step leaves the book alone or is the one fill of a decision without order.
LEMMA StepShape ==
    ASSUME BookInv, [Next]_vars
    PROVE  \/ UNCHANGED book
           \/ \E d \in DecisionIds, side \in Sides, k \in QuoteIds :
                 /\ Approved(d) /\ QuoteUsable(d, k) /\ Affordable(d, side, k)
                 /\ ~AlreadyOrdered(d) /\ Fill(d, side, k) /\ UNCHANGED quote
<1>1. ASSUME NEW d \in DecisionIds, NEW side \in Sides,
             NEW k \in QuoteIds \cup {NoQuote}, Execute(d, side, k), ~AlreadyOrdered(d)
      PROVE  /\ QuoteOf(d, k) \in QuoteIds /\ Approved(d) /\ QuoteUsable(d, QuoteOf(d, k))
             /\ Affordable(d, side, QuoteOf(d, k))
             /\ Fill(d, side, QuoteOf(d, k)) /\ UNCHANGED quote
  <2>1. /\ Approved(d) /\ QuoteUsable(d, QuoteOf(d, k))
        /\ Affordable(d, side, QuoteOf(d, k))
    BY <1>1 DEF Execute, Accepts
  <2>2. QuoteOf(d, k) \in QuoteIds
    BY <1>1, <2>1 DEF QuoteOf, QuoteUsable, Approved, BookInv, TypeOK, DecisionRow
  <2> QED
    BY <1>1, <2>1, <2>2 DEF Execute
<1>2. ASSUME NEW d \in DecisionIds, NEW side \in Sides,
             NEW k \in QuoteIds \cup {NoQuote}, Execute(d, side, k), AlreadyOrdered(d)
      PROVE  UNCHANGED book
  BY <1>2 DEF Execute
<1>3. ASSUME NEW d \in DecisionIds, Decide(d) PROVE UNCHANGED book
  BY <1>3 DEF Decide
<1>4. ASSUME NEW k \in QuoteIds, Publish(k) PROVE UNCHANGED book
  BY <1>4 DEF Publish
<1>5. CASE UNCHANGED vars
  BY <1>5 DEF vars, book
<1> QED
  BY <1>1, <1>2, <1>3, <1>4, <1>5 DEF Next

\* A fill appends one order and one trade, and one ledger entry or more.
LEMMA FillAppends ==
    ASSUME Sound, NEW d \in DecisionIds, NEW side \in Sides, NEW k \in QuoteIds,
           Approved(d), QuoteUsable(d, k), Fill(d, side, k)
    PROVE  /\ Len(orders') = Len(orders) + 1 /\ Len(trades') = Len(trades) + 1
           /\ Len(ledger') > Len(ledger)
           /\ \A n \in 1..Len(orders) : orders'[n] = orders[n]
           /\ \A n \in 1..Len(trades) : trades'[n] = trades[n]
           /\ \A n \in 1..Len(ledger) : ledger'[n] = ledger[n]
           /\ orders'[Len(orders) + 1].decision = d
           /\ LET t == trades'[Len(trades) + 1]
                  c == CostsOf(d, side, k)
              IN  /\ t.quote = k /\ t.side = side /\ t.quantity = decision[d].quantity
                  /\ t.gross = c.gross /\ t.fees = c.fees /\ t.taxes = c.taxes
                  /\ t.net = c.net
<1> DEFINE a      == decision[d].account
           costs  == CostsOf(d, side, k)
           posted == TradeEntries(Len(trades) + 1, a, side, costs)
<1>1. orders \in Seq(OrderRow) /\ trades \in Seq(TradeRow) /\ ledger \in Seq(EntryRow)
  BY DEF Sound, BookTypeOK
<1>2. posted \in Seq(EntryRow) /\ Len(posted) >= 1
  <2>1. a \in Accounts /\ decision[d].quantity \in Nat
        /\ quote[k].buy \in Nat /\ quote[k].sell \in Nat /\ quote[k].buy <= quote[k].sell
    BY RowsType
  <2>2. costs.gross \in Nat /\ costs.fees \in Nat /\ costs.taxes \in Nat
    BY <2>1, CostsType DEF CostsOf
  <2>3. Len(trades) + 1 \in Nat \ {0}
    BY <1>1
  <2> HIDE DEF a, costs
  <2> QED
    BY <2>1, <2>2, <2>3, TradeEntriesType DEF a
<1>3. PICK o : orders' = Append(orders, o) /\ o.decision = d
  BY DEF Fill
<1>4. PICK t : /\ trades' = Append(trades, t)
               /\ t.quote = k /\ t.side = side /\ t.quantity = decision[d].quantity
               /\ t.gross = costs.gross /\ t.fees = costs.fees /\ t.taxes = costs.taxes
               /\ t.net = costs.net
  <2> DEFINE pnl == IF side = "buy" THEN 0
                    ELSE RealizedPnl(position[a][decision[d].instrument],
                                     decision[d].quantity, costs.net)
  <2>1. trades' = Append(trades,
            [account |-> a, instrument |-> decision[d].instrument, quote |-> k,
             side |-> side, quantity |-> decision[d].quantity, gross |-> costs.gross,
             fees |-> costs.fees, taxes |-> costs.taxes, spread |-> costs.spread,
             net |-> costs.net, pnl |-> pnl])
    BY DEF Fill
  <2> HIDE DEF costs, pnl
  <2> QED
    BY <2>1
<1>5. ledger' = ledger \o posted
  BY DEF Fill
<1> HIDE DEF costs, posted
<1>6. Len(ledger') = Len(ledger) + Len(posted)
      /\ \A n \in 1..Len(ledger) : ledger'[n] = ledger[n]
  BY <1>1, <1>2, <1>5, ConcatProperties
<1>7. /\ Len(orders') = Len(orders) + 1 /\ Len(trades') = Len(trades) + 1
      /\ \A n \in 1..Len(orders) : orders'[n] = orders[n]
      /\ \A n \in 1..Len(trades) : trades'[n] = trades[n]
      /\ orders'[Len(orders) + 1] = o /\ trades'[Len(trades) + 1] = t
  BY <1>1, <1>3, <1>4
<1>8. Len(ledger') > Len(ledger)
  BY <1>1, <1>2, <1>6
<1> QED
  BY <1>3, <1>4, <1>6, <1>7, <1>8 DEF costs

\* Orders, trades and ledger entries are never removed or rewritten, and cash
\* moves only with an entry (execute and LedgerService.append only insert).
THEOREM HistoryGrows == Spec => AppendOnly
<1>1. BookInv /\ [Next]_vars => [HistoryOnlyGrows]_vars
  <2> SUFFICES ASSUME BookInv, [Next]_vars PROVE HistoryOnlyGrows
    OBVIOUS
  <2>1. orders \in Seq(OrderRow) /\ trades \in Seq(TradeRow) /\ ledger \in Seq(EntryRow)
    BY DEF BookInv, TypeOK, BookTypeOK
  <2>2. CASE UNCHANGED book
    BY <2>1, <2>2 DEF book, HistoryOnlyGrows
  <2>3. ASSUME NEW d \in DecisionIds, NEW side \in Sides, NEW k \in QuoteIds,
               Approved(d), QuoteUsable(d, k), Fill(d, side, k)
        PROVE  HistoryOnlyGrows
    <3>1. Sound
      BY BookInvSound
    <3> QED
      BY <2>1, <2>3, <3>1, FillAppends DEF HistoryOnlyGrows
  <2> QED
    BY <2>2, <2>3, StepShape
<1> QED
  BY <1>1, InitBookInv, NextBookInv, PTL DEF Spec, AppendOnly

\* A decision is ordered at most once, whatever is re-decided and retried
\* (the lookup by risk_decision_id at the top of execute).
THEOREM OrderedOnce == Spec => []OneOrderPerDecision
<1>1. Init => OneOrderPerDecision
  BY DEF Init, BookInit, OneOrderPerDecision
<1>2. BookInv /\ OneOrderPerDecision /\ [Next]_vars => OneOrderPerDecision'
  <2> SUFFICES ASSUME BookInv, OneOrderPerDecision, [Next]_vars
               PROVE  OneOrderPerDecision'
    OBVIOUS
  <2>1. CASE UNCHANGED book
    BY <2>1 DEF book, OneOrderPerDecision
  <2>2. ASSUME NEW d \in DecisionIds, NEW side \in Sides, NEW k \in QuoteIds,
               Approved(d), QuoteUsable(d, k), ~AlreadyOrdered(d), Fill(d, side, k)
        PROVE  OneOrderPerDecision'
    <3>1. orders \in Seq(OrderRow) /\ Len(orders) \in Nat
      BY DEF BookInv, TypeOK, BookTypeOK
    <3>2. /\ Len(orders') = Len(orders) + 1
          /\ \A n \in 1..Len(orders) : orders'[n] = orders[n]
          /\ orders'[Len(orders) + 1].decision = d
      BY <2>2, FillAppends, BookInvSound
    <3>3. \A n \in 1..Len(orders) : orders[n].decision # d
      BY <2>2 DEF AlreadyOrdered
    <3> QED
      BY <3>1, <3>2, <3>3 DEF OneOrderPerDecision
  <2> QED
    BY <2>1, <2>2, StepShape
<1> QED
  BY <1>1, <1>2, InitBookInv, NextBookInv, PTL DEF Spec

-----------------------------------------------------------------------------

\* Every trade carries the amounts its quote gives, and that quote is still there
\* as it was: quotes are inserted and never updated.
TradesPriced ==
    \A n \in 1..Len(trades) :
        LET t == trades[n]
            q == quote[t.quote]
            c == Costs(t.side, t.quantity, q.buy, q.sell)
        IN  /\ q # NoQuote
            /\ t.gross = c.gross /\ t.fees = c.fees /\ t.taxes = c.taxes /\ t.net = c.net

\* Every trade stays priced by the quote its decision was made on.
LEMMA NextTradesPriced == BookInv /\ TradesPriced /\ [Next]_vars => TradesPriced'
<1> SUFFICES ASSUME BookInv, TradesPriced, [Next]_vars PROVE TradesPriced'
  OBVIOUS
<1>1. trades \in Seq(TradeRow) /\ Len(trades) \in Nat
  BY DEF BookInv, TypeOK, BookTypeOK
<1>2. \A k \in QuoteIds : quote[k] # NoQuote => quote'[k] = quote[k]
  <2>1. quote \in [QuoteIds -> QuoteRow \cup {NoQuote}]
    BY DEF BookInv, TypeOK
  <2>2. ASSUME NEW k \in QuoteIds, Publish(k)
        PROVE  \A j \in QuoteIds : quote[j] # NoQuote => quote'[j] = quote[j]
    BY <2>1, <2>2 DEF Publish
  <2> QED
    BY <2>2 DEF Next, vars, Execute, Decide
<1>3. \A n \in 1..Len(trades) : trades[n].quote \in QuoteIds
  <2>1. \A n \in 1..Len(trades) : trades[n] \in TradeRow
    BY <1>1
  <2> QED
    BY <2>1 DEF TradeRow
<1>4. CASE UNCHANGED book
  BY <1>1, <1>2, <1>3, <1>4 DEF book, TradesPriced
<1>5. ASSUME NEW d \in DecisionIds, NEW side \in Sides, NEW k \in QuoteIds,
             Approved(d), QuoteUsable(d, k), Fill(d, side, k), UNCHANGED quote
      PROVE  TradesPriced'
  <2> DEFINE t == trades'[Len(trades) + 1]
             c == CostsOf(d, side, k)
  <2>1. /\ Len(trades') = Len(trades) + 1
        /\ \A n \in 1..Len(trades) : trades'[n] = trades[n]
        /\ t.quote = k /\ t.side = side /\ t.quantity = decision[d].quantity
        /\ t.gross = c.gross /\ t.fees = c.fees /\ t.taxes = c.taxes /\ t.net = c.net
    BY <1>5, FillAppends, BookInvSound
  <2>2. c = Costs(t.side, t.quantity, quote'[t.quote].buy, quote'[t.quote].sell)
        /\ quote'[t.quote] # NoQuote
    BY <1>5, <2>1 DEF CostsOf, QuoteUsable
  <2>3. /\ t.gross = Costs(t.side, t.quantity, quote'[t.quote].buy, quote'[t.quote].sell).gross
        /\ t.fees = Costs(t.side, t.quantity, quote'[t.quote].buy, quote'[t.quote].sell).fees
        /\ t.taxes = Costs(t.side, t.quantity, quote'[t.quote].buy, quote'[t.quote].sell).taxes
        /\ t.net = Costs(t.side, t.quantity, quote'[t.quote].buy, quote'[t.quote].sell).net
    BY <2>1, <2>2, Zenon
  <2>4. \A n \in 1..Len(trades') : n = Len(trades) + 1 \/ n \in 1..Len(trades)
    BY <1>1, <2>1
  <2>5. quote' = quote
    BY <1>5
  <2> HIDE DEF c
  <2> SUFFICES ASSUME NEW n \in 1..Len(trades')
               PROVE  LET r == trades'[n]
                          q == quote'[r.quote]
                          k1 == Costs(r.side, r.quantity, q.buy, q.sell)
                      IN  /\ q # NoQuote
                          /\ r.gross = k1.gross /\ r.fees = k1.fees
                          /\ r.taxes = k1.taxes /\ r.net = k1.net
    BY DEF TradesPriced
  <2>6. CASE n = Len(trades) + 1
    BY <2>2, <2>3, <2>6, Zenon
  <2>7. CASE n \in 1..Len(trades)
    BY <2>1, <2>5, <2>7, Zenon DEF TradesPriced
  <2> QED
    BY <2>4, <2>6, <2>7
<1> QED
  BY <1>4, <1>5, StepShape

\* Buying and selling one quantity on one quote loses at least the two fees, in
\* every pair of trades there ever is (CostModelService.calculate).
THEOREM RoundTripsLose == Spec => []NoFreeRoundTrip
<1>1. Init => TradesPriced
  BY DEF Init, BookInit, TradesPriced
<1>2. BookInv /\ TradesPriced => NoFreeRoundTrip
  <2> SUFFICES ASSUME BookInv, TradesPriced,
                      NEW m \in 1..Len(trades), NEW n \in 1..Len(trades),
                      trades[m].side = "buy", trades[n].side = "sell",
                      trades[m].quote = trades[n].quote,
                      trades[m].quantity = trades[n].quantity
               PROVE  trades[n].net <= trades[m].net - trades[m].fees - trades[n].fees
    BY DEF NoFreeRoundTrip
  <2> DEFINE q == quote[trades[m].quote]
  <2>1. trades[m] \in TradeRow
    BY DEF BookInv, TypeOK, BookTypeOK
  <2>2. trades[m].quantity \in Nat /\ trades[m].quote \in QuoteIds
    BY <2>1 DEF TradeRow
  <2>3. q \in QuoteRow /\ q # NoQuote
    BY <2>2 DEF BookInv, TypeOK, TradesPriced
  <2>4. q.buy \in Nat /\ q.sell \in Nat /\ q.buy <= q.sell
    BY <2>2, <2>3 DEF QuoteRow, BookInv, QuotesOrdered
  <2> DEFINE bought == Costs("buy", trades[m].quantity, q.buy, q.sell)
             sold   == Costs("sell", trades[m].quantity, q.buy, q.sell)
  <2>5. /\ trades[m].net = bought.net /\ trades[m].fees = bought.fees
        /\ trades[n].net = sold.net /\ trades[n].fees = sold.fees
    BY DEF TradesPriced
  <2>6. sold.net <= bought.net - bought.fees - sold.fees
    BY <2>2, <2>4, RoundTripLoses
  <2> QED
    BY <2>5, <2>6
<1> QED
  BY <1>1, <1>2, InitBookInv, NextBookInv, NextTradesPriced, PTL DEF Spec

-----------------------------------------------------------------------------
(* Wallet, holdings, trades and ledger tell the same story.  Each sum of the *)
(* property is a Tally of rows, and a fill appends rows to both tables.       *)

Amounts    == [e \in EntryRow |-> e.amount]
EntriesOf(a)  == {e \in EntryRow : e.account = a}
PostingsOf(t) == {e \in EntryRow : e.trade = t}
Signed     == [t \in TradeRow |-> IF t.side = "buy" THEN t.quantity ELSE -t.quantity]
TradesIn(a, i) == {t \in TradeRow : t.account = a /\ t.instrument = i}

\* The cash a trade moves.
CashMoved(side, net) == IF side = "buy" THEN -net ELSE net

\* The sums the properties take over table rows are tallies.
LEMMA LedgerTallies ==
    ASSUME NEW L \in Seq(EntryRow)
    PROVE  /\ \A a : SumFunctionOnSet([n \in DOMAIN L |-> L[n].amount],
                                      {n \in DOMAIN L : L[n].account = a})
                        = Tally(L, Amounts, EntriesOf(a))
           /\ \A t : SumFunctionOnSet([n \in DOMAIN L |-> L[n].amount],
                                      {n \in DOMAIN L : L[n].trade = t})
                        = Tally(L, Amounts, PostingsOf(t))
<1>1. \A n \in DOMAIN L : L[n] \in EntryRow
  OBVIOUS
<1>2. [n \in DOMAIN L |-> L[n].amount] = [n \in DOMAIN L |-> Amounts[L[n]]]
  BY <1>1 DEF Amounts
<1>3. \A a : {n \in DOMAIN L : L[n].account = a} = {n \in DOMAIN L : L[n] \in EntriesOf(a)}
  BY <1>1 DEF EntriesOf
<1>4. \A t : {n \in DOMAIN L : L[n].trade = t} = {n \in DOMAIN L : L[n] \in PostingsOf(t)}
  BY <1>1 DEF PostingsOf
<1> QED
  BY <1>2, <1>3, <1>4, Zenon DEF Tally

\* What QuantitySold and the like add up over trades is a tally.
LEMMA TradeTallies ==
    ASSUME NEW T \in Seq(TradeRow), NEW a, NEW i
    PROVE  SumFunctionOnSet([n \in DOMAIN T |->
                                IF T[n].side = "buy" THEN T[n].quantity ELSE -T[n].quantity],
                            {n \in DOMAIN T : T[n].account = a /\ T[n].instrument = i})
              = Tally(T, Signed, TradesIn(a, i))
<1>1. \A n \in DOMAIN T : T[n] \in TradeRow
  OBVIOUS
<1>2. [n \in DOMAIN T |-> IF T[n].side = "buy" THEN T[n].quantity ELSE -T[n].quantity]
         = [n \in DOMAIN T |-> Signed[T[n]]]
  BY <1>1 DEF Signed
<1>3. {n \in DOMAIN T : T[n].account = a /\ T[n].instrument = i}
         = {n \in DOMAIN T : T[n] \in TradesIn(a, i)}
  BY <1>1 DEF TradesIn
<1> QED
  BY <1>2, <1>3, Zenon DEF Tally

LEMMA AmountsType == Amounts \in [EntryRow -> Int] /\ Signed \in [TradeRow -> Int]
<1>1. \A e \in EntryRow : e.amount \in Int
  BY DEF EntryRow
<1>2. \A t \in TradeRow : t.quantity \in Nat
  BY DEF TradeRow
<1> QED
  BY <1>1, <1>2 DEF Amounts, Signed

\* One ledger entry adds its amount to the tallies it belongs to.
LEMMA OneEntryMore ==
    ASSUME NEW M \in Seq(EntryRow), NEW e \in EntryRow, NEW K
    PROVE  /\ M \o <<e>> \in Seq(EntryRow)
           /\ Tally(M \o <<e>>, Amounts, K)
                 = Tally(M, Amounts, K) + (IF e \in K THEN Amounts[e] ELSE 0)
           /\ M \o <<>> = M /\ Tally(M, Amounts, K) \in Int
<1>1. M \o <<e>> = Append(M, e) /\ M \o <<>> = M /\ Append(M, e) \in Seq(EntryRow)
  OBVIOUS
<1>2. Amounts \in [EntryRow -> Int]
  BY AmountsType
<1>3. Tally(Append(M, e), Amounts, K)
         = Tally(M, Amounts, K) + (IF e \in K THEN Amounts[e] ELSE 0)
  BY <1>2, TallyAppend
<1>4. Tally(M, Amounts, K) \in Int
  BY <1>2, TallyInt
<1> QED
  BY <1>1, <1>3, <1>4

LEMMA Regroup == \A p, q, r \in Seq(EntryRow) : (p \o q) \o r = p \o (q \o r)
BY ConcatAssociative

\* Posting a trade adds the cash it moved to every tally that counts its entries.
LEMMA PostingAdds ==
    ASSUME NEW L \in Seq(EntryRow), NEW n \in Nat \ {0}, NEW a \in Accounts,
           NEW side \in Sides, NEW costs,
           costs.gross \in Nat, costs.fees \in Nat, costs.taxes \in Nat,
           costs.net = IF side = "buy" THEN costs.gross + costs.fees + costs.taxes
                                       ELSE costs.gross - costs.fees - costs.taxes,
           NEW K, NEW counts \in BOOLEAN,
           \A e \in EntryRow : e.trade = n /\ e.account = a => (e \in K <=> counts)
    PROVE  Tally(L \o TradeEntries(n, a, side, costs), Amounts, K)
              = Tally(L, Amounts, K) + (IF counts THEN CashMoved(side, costs.net) ELSE 0)
<1> DEFINE entry(kind, amount) ==
              [trade |-> n, account |-> a, kind |-> kind, amount |-> amount]
           gross == IF side = "buy" THEN -costs.gross ELSE costs.gross
           c == entry("cash", gross)
           f == entry("fee", -costs.fees)
           x == entry("tax", -costs.taxes)
           S(M) == Tally(M, Amounts, K)
           fee  == IF costs.fees > 0 THEN <<f>> ELSE <<>>
           tax  == IF costs.taxes > 0 THEN <<x>> ELSE <<>>
           L1 == L \o <<c>>
           L2 == L1 \o fee
           L3 == L2 \o tax
<1>1. /\ c \in EntryRow /\ f \in EntryRow /\ x \in EntryRow
      /\ (c \in K <=> counts) /\ (f \in K <=> counts) /\ (x \in K <=> counts)
      /\ Amounts[c] = gross /\ Amounts[f] = -costs.fees /\ Amounts[x] = -costs.taxes
  <2>1. c \in EntryRow /\ f \in EntryRow /\ x \in EntryRow
    BY DEF EntryRow, EntryKinds
  <2> QED
    BY <2>1 DEF Amounts
<1>2. TradeEntries(n, a, side, costs) = (<<c>> \o fee) \o tax
  BY DEF TradeEntries
<1> HIDE DEF c, f, x
<1>3. ASSUME NEW M \in Seq(EntryRow), NEW e \in EntryRow
      PROVE  /\ M \o <<e>> \in Seq(EntryRow)
             /\ S(M \o <<e>>) = S(M) + IF e \in K THEN Amounts[e] ELSE 0
             /\ M \o <<>> = M /\ S(M) \in Int
  BY OneEntryMore
<1> HIDE DEF S
<1>4. /\ L1 \in Seq(EntryRow)
      /\ S(L1) = S(L) + IF counts THEN gross ELSE 0
  BY <1>1, <1>3
<1>5. /\ L2 \in Seq(EntryRow)
      /\ S(L2) = S(L1) + IF counts THEN -costs.fees ELSE 0
  <2> HIDE DEF L1
  <2>1. S(L1) \in Int /\ L1 \o <<>> = L1
    BY <1>1, <1>3, <1>4
  <2>2. CASE costs.fees > 0
    BY <1>1, <1>3, <1>4, <2>2
  <2>3. CASE costs.fees = 0
    BY <2>1, <1>4, <2>3
  <2> QED
    BY <2>2, <2>3
<1>6. S(L3) = S(L2) + IF counts THEN -costs.taxes ELSE 0
  <2> HIDE DEF L2
  <2>1. S(L2) \in Int /\ L2 \o <<>> = L2
    BY <1>1, <1>3, <1>5
  <2>2. CASE costs.taxes > 0
    BY <1>1, <1>3, <1>5, <2>2
  <2>3. CASE costs.taxes = 0
    BY <2>1, <1>5, <2>3
  <2> QED
    BY <2>2, <2>3
<1>7. L \o ((<<c>> \o fee) \o tax) = L3
  <2>1. <<c>> \in Seq(EntryRow) /\ fee \in Seq(EntryRow) /\ tax \in Seq(EntryRow)
    BY <1>1
  <2> HIDE DEF fee, tax
  <2>2. <<c>> \o fee \in Seq(EntryRow)
    BY <2>1, ConcatProperties
  <2>3. L \o ((<<c>> \o fee) \o tax) = (L \o (<<c>> \o fee)) \o tax
    BY <2>1, <2>2, Regroup
  <2>4. L \o (<<c>> \o fee) = (L \o <<c>>) \o fee
    BY <2>1, Regroup
  <2> QED
    BY <2>3, <2>4
<1>8. S(L) \in Int
  BY <1>1, <1>3
<1> HIDE DEF L1, L2, L3
<1>9. S(L3) = S(L) + IF counts THEN CashMoved(side, costs.net) ELSE 0
  <2>1. CASE counts
    <3>1. S(L1) = S(L) + gross
      BY <2>1, <1>4
    <3>2. S(L2) = S(L1) - costs.fees
      BY <2>1, <1>4, <1>5
    <3>3. S(L3) = S(L2) - costs.taxes
      BY <2>1, <1>6
    <3>4. gross - costs.fees - costs.taxes = CashMoved(side, costs.net)
      BY DEF CashMoved, Sides
    <3>5. S(L3) = S(L) + CashMoved(side, costs.net)
      BY <1>8, <3>1, <3>2, <3>3, <3>4
    <3> QED
      BY <2>1, <3>5
  <2>2. CASE ~counts
    BY <2>2, <1>4, <1>5, <1>6, <1>8
  <2> QED
    BY <2>1, <2>2
<1> QED
  BY <1>2, <1>7, <1>9 DEF S

LEMMA Strings ==
    ASSUME NEW S, NEW a \in S, NEW b \in S, NEW c \in S
    PROVE  /\ <<a>> \o <<b>> = <<a, b>> /\ <<a, b>> \o <<c>> = <<a, b, c>>
           /\ <<a>> \o <<>> = <<a>> /\ <<a, b>> \o <<>> = <<a, b>>
<1>1. <<a>> \o <<b>> = Append(<<a>>, b)
  OBVIOUS
<1>2. <<a, b>> \o <<c>> = Append(<<a, b>>, c)
  OBVIOUS
<1>4. <<a, b>> = Append(<<a>>, b)
  OBVIOUS
<1>5. <<a, b, c>> = Append(<<a, b>>, c)
  OBVIOUS
<1>3. <<a>> \o <<>> = <<a>> /\ <<a, b>> \o <<>> = <<a, b>>
  OBVIOUS
<1> QED
  BY <1>1, <1>2, <1>3, <1>4, <1>5

\* The entries of a trade name it and its account, and no kind comes twice.
LEMMA EntriesShape ==
    ASSUME NEW n \in Nat \ {0}, NEW a \in Accounts, NEW side \in Sides, NEW costs,
           costs.gross \in Nat, costs.fees \in Nat, costs.taxes \in Nat
    PROVE  LET E == TradeEntries(n, a, side, costs)
           IN  /\ E \in Seq(EntryRow)
               /\ \A p \in 1..Len(E) : E[p].trade = n /\ E[p].account = a
               /\ \A p, q \in 1..Len(E) : E[p].kind = E[q].kind => p = q
<1> DEFINE entry(kind, amount) ==
              [trade |-> n, account |-> a, kind |-> kind, amount |-> amount]
           gross == IF side = "buy" THEN -costs.gross ELSE costs.gross
           c == entry("cash", gross)
           f == entry("fee", -costs.fees)
           x == entry("tax", -costs.taxes)
           E == TradeEntries(n, a, side, costs)
<1>1. /\ c.trade = n /\ c.account = a /\ c.kind = "cash"
      /\ f.trade = n /\ f.account = a /\ f.kind = "fee"
      /\ x.trade = n /\ x.account = a /\ x.kind = "tax"
  OBVIOUS
<1>2. \/ E = <<c>> \/ E = <<c, f>> \/ E = <<c, x>> \/ E = <<c, f, x>>
  <2>1. E = (<<c>> \o (IF costs.fees > 0 THEN <<f>> ELSE <<>>))
              \o (IF costs.taxes > 0 THEN <<x>> ELSE <<>>)
    BY DEF TradeEntries
  <2>2. c \in EntryRow /\ f \in EntryRow /\ x \in EntryRow
    BY DEF EntryRow, EntryKinds
  <2> HIDE DEF c, f, x, E
  <2>3. /\ <<c>> \o <<f>> = <<c, f>> /\ <<c, f>> \o <<x>> = <<c, f, x>>
        /\ <<c>> \o <<x>> = <<c, x>>
        /\ <<c>> \o <<>> = <<c>> /\ <<c, f>> \o <<>> = <<c, f>>
    <3>1. /\ <<c>> \o <<f>> = <<c, f>> /\ <<c, f>> \o <<x>> = <<c, f, x>>
          /\ <<c>> \o <<>> = <<c>> /\ <<c, f>> \o <<>> = <<c, f>>
      BY <2>2, Strings, Zenon
    <3>2. <<c>> \o <<x>> = <<c, x>>
      BY <2>2, Strings, Zenon
    <3> QED
      BY <3>1, <3>2
  <2> QED
    <3>1. CASE costs.fees > 0 /\ costs.taxes > 0
      BY <2>1, <2>3, <3>1
    <3>2. CASE costs.fees > 0 /\ ~(costs.taxes > 0)
      BY <2>1, <2>3, <3>2
    <3>3. CASE ~(costs.fees > 0) /\ costs.taxes > 0
      BY <2>1, <2>3, <3>3
    <3>4. CASE ~(costs.fees > 0) /\ ~(costs.taxes > 0)
      BY <2>1, <2>3, <3>4
    <3> QED
      BY <3>1, <3>2, <3>3, <3>4
<1>3. E \in Seq(EntryRow)
  BY TradeEntriesType
<1> HIDE DEF c, f, x, E
<1>4. /\ \A p \in 1..Len(E) : E[p].trade = n /\ E[p].account = a
      /\ \A p, q \in 1..Len(E) : E[p].kind = E[q].kind => p = q
  <2>1. CASE E = <<c>>
    BY <1>1, <2>1
  <2>2. CASE E = <<c, f>>
    BY <1>1, <2>2
  <2>3. CASE E = <<c, x>>
    BY <1>1, <2>3
  <2>4. CASE E = <<c, f, x>>
    BY <1>1, <2>4
  <2> QED
    BY <1>2, <2>1, <2>2, <2>3, <2>4
<1> QED
  BY <1>3, <1>4 DEF E

\* A trade that is inserted with its entries.
Posts(t) ==
    /\ trades' = Append(trades, t)
    /\ ledger' = ledger \o TradeEntries(Len(trades) + 1, t.account, t.side, t)
    /\ t \in TradeRow
    /\ t.net = IF t.side = "buy" THEN t.gross + t.fees + t.taxes
                                 ELSE t.gross - t.fees - t.taxes

\* What its entries add to a tally that counts all of them, or none.
LEMMA PostedTally ==
    ASSUME BookTypeOK, NEW t, Posts(t), NEW K
    PROVE  LET mine == {e \in EntryRow : e.trade = Len(trades) + 1 /\ e.account = t.account}
           IN  /\ mine \subseteq K => Tally(ledger', Amounts, K)
                                       = Tally(ledger, Amounts, K) + CashMoved(t.side, t.net)
               /\ mine \cap K = {} => Tally(ledger', Amounts, K) = Tally(ledger, Amounts, K)
<1> DEFINE n == Len(trades) + 1
           mine == {e \in EntryRow : e.trade = n /\ e.account = t.account}
           E == TradeEntries(n, t.account, t.side, t)
<1>1. /\ t.account \in Accounts /\ t.side \in Sides
      /\ t.gross \in Nat /\ t.fees \in Nat /\ t.taxes \in Nat
      /\ ledger \in Seq(EntryRow) /\ n \in Nat \ {0}
      /\ t.net = IF t.side = "buy" THEN t.gross + t.fees + t.taxes
                                   ELSE t.gross - t.fees - t.taxes
  BY DEF Posts, TradeRow, BookTypeOK
<1>2. ledger' = ledger \o E
  BY DEF Posts
<1> HIDE DEF n
<1>3. ASSUME NEW counts \in BOOLEAN,
             \A e \in EntryRow : e.trade = n /\ e.account = t.account => (e \in K <=> counts)
      PROVE  Tally(ledger \o E, Amounts, K)
                = Tally(ledger, Amounts, K) + (IF counts THEN CashMoved(t.side, t.net) ELSE 0)
  BY <1>1, <1>3, PostingAdds
<1>4. ASSUME mine \subseteq K
      PROVE  Tally(ledger', Amounts, K) = Tally(ledger, Amounts, K) + CashMoved(t.side, t.net)
  <2>1. \A e \in EntryRow : e.trade = n /\ e.account = t.account => (e \in K <=> TRUE)
    BY <1>4
  <2> HIDE DEF E, mine
  <2>2. Tally(ledger \o E, Amounts, K)
           = Tally(ledger, Amounts, K) + (IF TRUE THEN CashMoved(t.side, t.net) ELSE 0)
    BY <1>3, <2>1
  <2> QED
    BY <1>2, <2>2
<1>5. ASSUME mine \cap K = {}
      PROVE  Tally(ledger', Amounts, K) = Tally(ledger, Amounts, K)
  <2>1. \A e \in EntryRow : e.trade = n /\ e.account = t.account => (e \in K <=> FALSE)
    BY <1>5
  <2> HIDE DEF E, mine
  <2>2. Tally(ledger \o E, Amounts, K)
           = Tally(ledger, Amounts, K) + (IF FALSE THEN CashMoved(t.side, t.net) ELSE 0)
    BY <1>3, <2>1
  <2>3. Tally(ledger, Amounts, K) \in Int
    BY <1>1, AmountsType, TallyInt
  <2> QED
    BY <1>2, <2>2, <2>3
<1> QED
  BY <1>4, <1>5 DEF n, mine

\* Inserting a trade keeps every trade posted once.
LEMMA PostingOnce ==
    ASSUME BookTypeOK, LedgerPostsTradesOnce, NEW t, Posts(t)
    PROVE  LedgerPostsTradesOnce'
<1> DEFINE n == Len(trades) + 1
           E == TradeEntries(n, t.account, t.side, t)
<1>1. /\ t.account \in Accounts /\ t.side \in Sides /\ t.net \in Int
      /\ t.gross \in Nat /\ t.fees \in Nat /\ t.taxes \in Nat
      /\ trades \in Seq(TradeRow) /\ ledger \in Seq(EntryRow) /\ n \in Nat \ {0}
  BY DEF Posts, TradeRow, BookTypeOK
<1>2. /\ trades' \in Seq(TradeRow) /\ Len(trades') = n /\ trades'[n] = t
      /\ \A m \in 1..Len(trades) : trades'[m] = trades[m]
  BY <1>1 DEF Posts
<1>3. /\ E \in Seq(EntryRow)
      /\ \A p \in 1..Len(E) : E[p].trade = n /\ E[p].account = t.account
      /\ \A p, q \in 1..Len(E) : E[p].kind = E[q].kind => p = q
  BY <1>1, EntriesShape
<1>4. ledger' = ledger \o E
  BY DEF Posts
<1> HIDE DEF E
<1>5. /\ ledger' \in Seq(EntryRow) /\ Len(ledger') = Len(ledger) + Len(E)
      /\ \A p \in 1..Len(ledger') :
            ledger'[p] = IF p <= Len(ledger) THEN ledger[p] ELSE E[p - Len(ledger)]
  BY <1>1, <1>3, <1>4, ConcatProperties
<1>6. \A p \in 1..Len(ledger) : ledger[p].trade \in 1..Len(trades)
  BY DEF LedgerPostsTradesOnce
<1>7. \A p \in 1..Len(ledger') :
         \/ p \in 1..Len(ledger) /\ ledger'[p] = ledger[p] /\ ledger'[p].trade \in 1..Len(trades)
         \/ /\ p - Len(ledger) \in 1..Len(E) /\ ledger'[p] = E[p - Len(ledger)]
            /\ ledger'[p].trade = n
  <2>1. Len(ledger) \in Nat /\ Len(E) \in Nat
    BY <1>1, <1>3
  <2> HIDE DEF n
  <2>2. ASSUME NEW p \in 1..Len(ledger'), ~(p <= Len(ledger))
        PROVE  p - Len(ledger) \in 1..Len(E) /\ ledger'[p] = E[p - Len(ledger)]
    BY <1>5, <2>1, <2>2
  <2>3. ASSUME NEW p \in 1..Len(ledger'), p <= Len(ledger)
        PROVE  p \in 1..Len(ledger) /\ ledger'[p] = ledger[p]
    BY <1>5, <2>1, <2>3
  <2> QED
    BY <1>3, <1>6, <2>2, <2>3
<1>8. \A p \in 1..Len(ledger') : ledger'[p].trade \in 1..Len(trades')
  BY <1>1, <1>2, <1>7
<1>9. \A p, q \in 1..Len(ledger') :
         ledger'[p].trade = ledger'[q].trade /\ ledger'[p].kind = ledger'[q].kind => p = q
  <2>1. SUFFICES ASSUME NEW p \in 1..Len(ledger'), NEW q \in 1..Len(ledger'),
                        ledger'[p].trade = ledger'[q].trade, ledger'[p].kind = ledger'[q].kind
                 PROVE  p = q
    OBVIOUS
  <2>2. CASE p \in 1..Len(ledger) /\ q \in 1..Len(ledger)
    <3>1. ledger'[p] = ledger[p] /\ ledger'[q] = ledger[q]
      BY <1>1, <1>5, <2>2
    <3>2. \A x, y \in 1..Len(ledger) :
              ledger[x].trade = ledger[y].trade /\ ledger[x].kind = ledger[y].kind => x = y
      BY DEF LedgerPostsTradesOnce
    <3> QED
      BY <2>1, <2>2, <3>1, <3>2
  <2>3. CASE p - Len(ledger) \in 1..Len(E) /\ q - Len(ledger) \in 1..Len(E)
    <3>1. ledger'[p] = E[p - Len(ledger)] /\ ledger'[q] = E[q - Len(ledger)]
      BY <1>1, <1>5, <2>3
    <3>2. p - Len(ledger) = q - Len(ledger)
      BY <1>3, <2>1, <2>3, <3>1
    <3> QED
      BY <1>1, <3>2
  <2>4. \A x \in 1..Len(ledger') : x \in 1..Len(ledger) \/ x - Len(ledger) \in 1..Len(E)
    BY <1>1, <1>7
  <2>5. ASSUME NEW x \in 1..Len(ledger), NEW y \in 1..Len(ledger'),
               y - Len(ledger) \in 1..Len(E)
        PROVE  ledger'[x].trade # ledger'[y].trade
    <3>1. Len(ledger) \in Nat /\ Len(E) \in Nat /\ Len(trades) \in Nat
      BY <1>1, <1>3
    <3>2. ledger'[y].trade = n
      BY <1>7, <2>5, <3>1
    <3>3. x \in 1..Len(ledger') /\ ledger'[x].trade \in 1..Len(trades)
      BY <1>5, <1>7, <3>1
    <3> QED
      BY <3>1, <3>2, <3>3
  <2> QED
    BY <2>1, <2>2, <2>3, <2>4, <2>5
<1> DEFINE mine == {e \in EntryRow : e.trade = n /\ e.account = t.account}
<1>10. ASSUME NEW u \in 1..Len(trades')
       PROVE  Tally(ledger', Amounts, PostingsOf(u)) = CashMoved(trades'[u].side, trades'[u].net)
  <2>1. /\ u = n => mine \subseteq PostingsOf(u)
        /\ u # n => mine \cap PostingsOf(u) = {}
    BY DEF PostingsOf
  <2>2. CASE u = n
    <3>1. \A p \in DOMAIN ledger : ledger[p] \notin PostingsOf(u)
      BY <1>1, <1>6, <2>2 DEF PostingsOf
    <3>2. Tally(ledger, Amounts, PostingsOf(u)) = 0
      BY <3>1, TallyNone
    <3>3. CashMoved(t.side, t.net) \in Int
      BY <1>1 DEF CashMoved
    <3>4. Tally(ledger', Amounts, PostingsOf(u))
             = Tally(ledger, Amounts, PostingsOf(u)) + CashMoved(t.side, t.net)
      BY <2>1, <2>2, PostedTally
    <3> QED
      BY <1>2, <2>2, <3>2, <3>3, <3>4
  <2>3. CASE u # n
    <3>1. u \in 1..Len(trades) /\ trades'[u] = trades[u]
      BY <1>1, <1>2, <2>3
    <3>2. Tally(ledger, Amounts, PostingsOf(u)) = CashMoved(trades[u].side, trades[u].net)
      BY <1>1, <3>1, LedgerTallies DEF LedgerPostsTradesOnce, CashMoved
    <3>3. Tally(ledger', Amounts, PostingsOf(u)) = Tally(ledger, Amounts, PostingsOf(u))
      BY <2>1, <2>3, PostedTally
    <3> QED
      BY <3>1, <3>2, <3>3
  <2> QED
    BY <2>2, <2>3
<1>11. \A u \in 1..Len(trades') :
          SumFunctionOnSet([p \in DOMAIN ledger' |-> ledger'[p].amount],
                           {p \in DOMAIN ledger' : ledger'[p].trade = u})
             = CashMoved(trades'[u].side, trades'[u].net)
  BY <1>5, <1>10, LedgerTallies
<1> QED
  BY <1>8, <1>9, <1>11 DEF LedgerPostsTradesOnce, CashMoved

\* Inserting a trade keeps the cash reconciled if the wallet moves with it.
LEMMA PostingCash ==
    ASSUME BookTypeOK, CashReconciles, BrokerAssumption, NEW t, Posts(t),
           wallet' = [wallet EXCEPT ![t.account] = @ + CashMoved(t.side, t.net)]
    PROVE  CashReconciles'
<1> DEFINE n == Len(trades) + 1
<1>1. /\ t.account \in Accounts /\ t.side \in Sides /\ t.net \in Int
      /\ t.gross \in Nat /\ t.fees \in Nat /\ t.taxes \in Nat
      /\ trades \in Seq(TradeRow) /\ ledger \in Seq(EntryRow) /\ n \in Nat \ {0}
      /\ wallet \in [Accounts -> Int]
  BY DEF Posts, TradeRow, BookTypeOK
<1>2. /\ ledger' = ledger \o TradeEntries(n, t.account, t.side, t)
      /\ TradeEntries(n, t.account, t.side, t) \in Seq(EntryRow)
  BY <1>1, EntriesShape DEF Posts
<1>3. ledger' \in Seq(EntryRow)
  BY <1>1, <1>2, ConcatProperties
<1> DEFINE mine == {e \in EntryRow : e.trade = n /\ e.account = t.account}
<1>4. ASSUME NEW a \in Accounts
      PROVE  wallet'[a] = OpeningCash[a] + Tally(ledger', Amounts, EntriesOf(a))
  <2>1. /\ a = t.account => Tally(ledger', Amounts, EntriesOf(a))
                  = Tally(ledger, Amounts, EntriesOf(a)) + CashMoved(t.side, t.net)
        /\ a # t.account => Tally(ledger', Amounts, EntriesOf(a))
                  = Tally(ledger, Amounts, EntriesOf(a))
    <3>1. /\ a = t.account => mine \subseteq EntriesOf(a)
          /\ a # t.account => mine \cap EntriesOf(a) = {}
      BY DEF EntriesOf
    <3> QED
      BY <3>1, PostedTally
  <2>2. wallet[a] = OpeningCash[a] + Tally(ledger, Amounts, EntriesOf(a))
    BY <1>1, LedgerTallies DEF CashReconciles
  <2>3. /\ Tally(ledger, Amounts, EntriesOf(a)) \in Int /\ OpeningCash[a] \in Nat
        /\ CashMoved(t.side, t.net) \in Int
    <3>1. Tally(ledger, Amounts, EntriesOf(a)) \in Int
      BY <1>1, AmountsType, TallyInt
    <3> QED
      BY <1>1, <3>1 DEF CashMoved, BrokerAssumption
  <2>4. wallet'[a] = wallet[a] + (IF a = t.account THEN CashMoved(t.side, t.net) ELSE 0)
    BY <1>1
  <2> QED
    BY <2>1, <2>2, <2>3, <2>4
<1> QED
  BY <1>3, <1>4, LedgerTallies DEF CashReconciles

\* Inserting a trade keeps the metal reconciled if its position moves with it.
LEMMA PostingMetal ==
    ASSUME BookTypeOK, PositionReconciles, NEW t, Posts(t),
           \A a \in Accounts, i \in Instruments :
              position'[a][i].quantity = position[a][i].quantity
                  + IF a = t.account /\ i = t.instrument THEN Signed[t] ELSE 0
    PROVE  PositionReconciles'
<1>1. /\ t \in TradeRow /\ trades \in Seq(TradeRow) /\ trades' = Append(trades, t)
      /\ position \in [Accounts -> [Instruments -> PositionRow]]
  BY DEF Posts, BookTypeOK
<1>2. trades' \in Seq(TradeRow)
  BY <1>1
<1>3. ASSUME NEW a \in Accounts, NEW i \in Instruments
      PROVE  position'[a][i].quantity = Tally(trades', Signed, TradesIn(a, i))
  <2>1. Tally(Append(trades, t), Signed, TradesIn(a, i))
           = Tally(trades, Signed, TradesIn(a, i))
                + (IF t \in TradesIn(a, i) THEN Signed[t] ELSE 0)
    BY <1>1, AmountsType, TallyAppend
  <2>2. position[a][i].quantity = Tally(trades, Signed, TradesIn(a, i))
    <3>1. position[a][i].quantity =
             SumFunctionOnSet([n \in DOMAIN trades |->
                IF trades[n].side = "buy" THEN trades[n].quantity ELSE -trades[n].quantity],
                {n \in DOMAIN trades : trades[n].account = a /\ trades[n].instrument = i})
      BY DEF PositionReconciles
    <3> QED
      BY <1>1, <3>1, TradeTallies
  <2>3. t \in TradesIn(a, i) <=> a = t.account /\ i = t.instrument
    BY <1>1 DEF TradesIn
  <2> QED
    BY <1>1, <2>1, <2>2, <2>3
<1> QED
  BY <1>2, <1>3, TradeTallies DEF PositionReconciles

\* A fill is a posted trade, and moves wallet and position with it.
LEMMA FillReconciles ==
    ASSUME Sound, BookReconciles, NEW d \in DecisionIds, NEW side \in Sides, NEW k \in QuoteIds,
           Approved(d), QuoteUsable(d, k), Affordable(d, side, k), Fill(d, side, k)
    PROVE  BookReconciles'
<1> DEFINE a     == decision[d].account
           i     == decision[d].instrument
           q     == decision[d].quantity
           held  == position[a][i]
           costs == CostsOf(d, side, k)
           pnl   == IF side = "buy" THEN 0 ELSE RealizedPnl(held, q, costs.net)
           t     == [account |-> a, instrument |-> i, quote |-> k, side |-> side,
                     quantity |-> q, gross |-> costs.gross, fees |-> costs.fees,
                     taxes |-> costs.taxes, spread |-> costs.spread, net |-> costs.net,
                     pnl |-> pnl]
           new   == IF side = "buy" THEN PositionAfterBuy(held, q, costs.net)
                                    ELSE PositionAfterSell(held, q, costs.net)
<1>1. /\ a \in Accounts /\ i \in Instruments /\ q \in Nat \ {0} /\ k \in QuoteIds
      /\ quote[k].buy \in Nat /\ quote[k].sell \in Nat /\ quote[k].buy <= quote[k].sell
  BY RowsType
<1>2. /\ costs.gross \in Nat /\ costs.fees \in Nat /\ costs.taxes \in Nat
      /\ costs.spread \in Nat /\ costs.net \in Int
  BY <1>1, CostsType DEF CostsOf
<1>3. costs.net = IF side = "buy" THEN costs.gross + costs.fees + costs.taxes
                                  ELSE costs.gross - costs.fees - costs.taxes
  BY DEF CostsOf, Costs, NetCash
<1>4. /\ BookTypeOK /\ wallet \in [Accounts -> Int]
      /\ position \in [Accounts -> [Instruments -> PositionRow]]
      /\ held \in PositionRow /\ held.quantity >= 0 /\ held.average >= 0
  BY <1>1 DEF Sound, BookTypeOK, NeverOverdrawn
<1>5. side = "sell" => q <= held.quantity
  BY DEF Affordable
<1>6. /\ wallet' = [wallet EXCEPT ![a] = IF side = "buy" THEN @ - costs.net ELSE @ + costs.net]
      /\ position' = [position EXCEPT ![a][i] = new]
      /\ trades' = Append(trades, t)
      /\ ledger' = ledger \o TradeEntries(Len(trades) + 1, a, side, costs)
  BY DEF Fill
<1>7. pnl \in Int
  BY <1>1, <1>2, <1>4, <1>5, PositionAfterSellType DEF Sides
<1>8. new.quantity = held.quantity + (IF side = "buy" THEN q ELSE -q)
  <2>1. held.quantity \in Int
    BY <1>4 DEF PositionRow
  <2> HIDE DEF costs
  <2> QED
    BY <1>1, <2>1 DEF PositionAfterBuy, PositionAfterSell, Sides
<1> HIDE DEF costs, new, pnl
<1>9. t \in TradeRow
  BY <1>1, <1>2, <1>7 DEF TradeRow
<1>10. Posts(t)
  <2>1. TradeEntries(Len(trades) + 1, a, side, costs) = TradeEntries(Len(trades) + 1, a, side, t)
    BY DEF TradeEntries
  <2>2. /\ t.account = a /\ t.side = side /\ t.gross = costs.gross
        /\ t.fees = costs.fees /\ t.taxes = costs.taxes /\ t.net = costs.net
    OBVIOUS
  <2> HIDE DEF t
  <2> QED
    BY <1>3, <1>6, <1>9, <2>1, <2>2 DEF Posts
<1>11. Signed[t] = IF side = "buy" THEN q ELSE -q
  BY <1>9 DEF Signed
<1>12. t.account = a /\ t.instrument = i /\ t.side = side /\ t.net = costs.net
  OBVIOUS
<1> HIDE DEF t
<1>13. wallet' = [wallet EXCEPT ![t.account] = @ + CashMoved(t.side, t.net)]
  <2>1. wallet[a] \in Int
    BY <1>1, <1>4
  <2>2. (IF side = "buy" THEN wallet[a] - costs.net ELSE wallet[a] + costs.net)
           = wallet[a] + CashMoved(side, costs.net)
    BY <1>2, <2>1 DEF CashMoved
  <2> QED
    BY <1>6, <1>12, <2>2
<1>14. \A x \in Accounts, y \in Instruments :
          position'[x][y].quantity = position[x][y].quantity
              + IF x = t.account /\ y = t.instrument THEN Signed[t] ELSE 0
  <2>1. SUFFICES ASSUME NEW x \in Accounts, NEW y \in Instruments
                 PROVE  position'[x][y].quantity = position[x][y].quantity
                           + IF x = a /\ y = i THEN Signed[t] ELSE 0
    BY <1>12
  <2>2. position'[x][y] = IF x = a /\ y = i THEN new ELSE position[x][y]
    BY <1>1, <1>4, <1>6
  <2>3. position[x][y].quantity \in Int
    BY <1>4 DEF PositionRow
  <2>4. CASE x = a /\ y = i
    BY <1>8, <1>11, <2>2, <2>4
  <2>5. CASE ~(x = a /\ y = i)
    BY <2>2, <2>3, <2>5
  <2> QED
    BY <2>4, <2>5
<1>15. CashReconciles'
  BY <1>4, <1>10, <1>13, PostingCash, BrokerAssumption DEF BookReconciles
<1>16. PositionReconciles'
  BY <1>4, <1>10, <1>14, PostingMetal DEF BookReconciles
<1>17. LedgerPostsTradesOnce'
  BY <1>4, <1>10, PostingOnce DEF BookReconciles
<1> QED
  BY <1>15, <1>16, <1>17 DEF BookReconciles

\* A trade of at least one quantity quantum's worth is not rounded away.
LEMMA GrossBound ==
    ASSUME NEW q \in Nat, NEW price \in Nat, q * price >= QuantityScale
    PROVE  2 * (QuantityScale * HalfUp(q * price, QuantityScale)) >= q * price
<1>1. q * price \in Nat
  BY ProductNat
<1> DEFINE n == q * price
<1>2. n \in Nat /\ n >= QuantityScale
  BY <1>1
<1> HIDE DEF n
<1>3. 2 * (QuantityScale * HalfUp(n, QuantityScale)) > 2 * n - QuantityScale
  BY <1>2, HalfUpAtLeast, CostAssumption
<1>4. QuantityScale * HalfUp(n, QuantityScale) \in Nat
  BY <1>2, HalfUpNat, ProductNat, CostAssumption
<1>5. 2 * (QuantityScale * HalfUp(n, QuantityScale)) >= n
  BY <1>2, <1>3, <1>4, CostAssumption
<1> QED
  BY <1>5 DEF n

\* What is held has a cost.
HeldHasCost ==
    \A a \in Accounts, i \in Instruments :
        position[a][i].quantity > 0 => position[a][i].average > 0

\* The average cost of a holding that a buy of some worth joins is not zero.
LEMMA BuyHasCost ==
    ASSUME NEW p \in PositionRow, p.quantity >= 0, p.average >= 0,
           p.quantity > 0 => p.average > 0,
           NEW q \in Nat \ {0}, NEW price \in Nat, q * price >= QuantityScale,
           NEW net \in Nat, net >= HalfUp(q * price, QuantityScale)
    PROVE  PositionAfterBuy(p, q, net).average > 0
<1> DEFINE gross == HalfUp(q * price, QuantityScale)
           old   == p.quantity * p.average
           paid  == net * QuantityScale
<1>1. p.quantity \in Nat /\ p.average \in Nat
  BY DEF PositionRow
<1>2. old \in Nat /\ old >= p.quantity
  <2>1. CASE p.quantity = 0
    BY <1>1, <2>1
  <2>2. CASE p.quantity # 0
    <3>1. p.average - 1 \in Nat
      BY <1>1, <2>2
    <3>2. p.quantity * (p.average - 1) \in Nat
      BY <1>1, <3>1, ProductNat
    <3>3. \A x, y \in Nat : x * y = x * (y - 1) + x
      OBVIOUS
    <3>4. old = p.quantity * (p.average - 1) + p.quantity
      BY <1>1, <3>3
    <3> HIDE DEF old
    <3> QED
      BY <1>1, <3>2, <3>4
  <2> QED
    BY <2>1, <2>2
<1>3. gross \in Nat /\ gross <= net
  BY ProductNat, HalfUpNat, CostAssumption
<1>4. paid \in Nat /\ QuantityScale * gross <= paid
  <2> HIDE DEF gross
  <2>1. QuantityScale * (net - gross) \in Nat
    BY <1>3, ProductNat, CostAssumption
  <2>2. paid = QuantityScale * gross + QuantityScale * (net - gross)
    BY <1>3, CostAssumption
  <2>3. QuantityScale * gross \in Nat
    BY <1>3, ProductNat, CostAssumption
  <2> QED
    BY <2>1, <2>2, <2>3
<1>5. 2 * paid >= q
  <2>1. price # 0
    BY CostAssumption
  <2>2. q * (price - 1) \in Nat
    BY <2>1, ProductNat
  <2>3. q * price = q * (price - 1) + q
    OBVIOUS
  <2>4. q * price >= q /\ q * price \in Nat
    BY <2>2, <2>3
  <2>5. 2 * (QuantityScale * gross) >= q * price
    BY GrossBound
  <2>6. QuantityScale * gross \in Nat
    BY <1>3, ProductNat, CostAssumption
  <2> HIDE DEF gross, paid
  <2> QED
    BY <1>4, <2>4, <2>5, <2>6
<1> HIDE DEF old, paid
<1>6. 2 * (old + paid) >= p.quantity + q
  BY <1>1, <1>2, <1>4, <1>5
<1>7. HalfUp(old + paid, p.quantity + q) > 0
  BY <1>1, <1>2, <1>4, <1>6, HalfUpPositive
<1> QED
  BY <1>7 DEF PositionAfterBuy, old, paid

\* A fill keeps a cost behind every holding, if a buy is worth something.
LEMMA FillKeepsCost ==
    ASSUME Sound, HeldHasCost, NEW d \in DecisionIds, NEW side \in Sides, NEW k \in QuoteIds,
           Approved(d), QuoteUsable(d, k), Affordable(d, side, k), Fill(d, side, k),
           side = "buy" => decision[d].quantity * quote[k].sell >= QuantityScale
    PROVE  HeldHasCost'
<1> DEFINE a     == decision[d].account
           i     == decision[d].instrument
           q     == decision[d].quantity
           held  == position[a][i]
           costs == CostsOf(d, side, k)
           new   == IF side = "buy" THEN PositionAfterBuy(held, q, costs.net)
                                    ELSE PositionAfterSell(held, q, costs.net)
<1>1. /\ a \in Accounts /\ i \in Instruments /\ q \in Nat \ {0}
      /\ quote[k].buy \in Nat /\ quote[k].sell \in Nat /\ quote[k].buy <= quote[k].sell
  BY RowsType
<1>2. /\ position \in [Accounts -> [Instruments -> PositionRow]]
      /\ held \in PositionRow /\ held.quantity >= 0 /\ held.average >= 0
      /\ held.quantity > 0 => held.average > 0
  BY <1>1 DEF Sound, BookTypeOK, NeverOverdrawn, HeldHasCost
<1>3. position' = [position EXCEPT ![a][i] = new]
  BY DEF Fill
<1>4. new.quantity > 0 => new.average > 0
  <2>1. CASE side = "buy"
    <3>1. /\ costs.gross = HalfUp(q * quote[k].sell, QuantityScale)
          /\ costs.net = costs.gross + costs.fees + costs.taxes
      BY <2>1 DEF CostsOf, Costs, GrossCash, ExecutionPrice, NetCash
    <3>2. costs.gross \in Nat /\ costs.fees \in Nat /\ costs.taxes \in Nat
      BY <1>1, <2>1, CostsType DEF CostsOf
    <3> HIDE DEF costs, held, q
    <3>3. costs.net \in Nat /\ costs.net >= HalfUp(q * quote[k].sell, QuantityScale)
      BY <3>1, <3>2
    <3>4. q * quote[k].sell >= QuantityScale
      BY <2>1 DEF q
    <3>5. PositionAfterBuy(held, q, costs.net).average > 0
      BY <1>1, <1>2, <3>3, <3>4, BuyHasCost
    <3> QED
      BY <2>1, <3>5
  <2>2. CASE side = "sell"
    <3>1. q <= held.quantity /\ held.quantity \in Int
      BY <1>2, <2>2 DEF Affordable, PositionRow
    <3> HIDE DEF costs, held, q
    <3> QED
      BY <1>1, <1>2, <2>2, <3>1 DEF PositionAfterSell
  <2> QED
    BY <2>1, <2>2 DEF Sides
<1> HIDE DEF new
<1> QED
  BY <1>1, <1>2, <1>3, <1>4 DEF HeldHasCost

\* An empty book reconciles.
LEMMA StartReconciles == Init => BookReconciles
<1> SUFFICES ASSUME Init PROVE BookReconciles
  OBVIOUS
<1>1. /\ wallet = OpeningCash /\ trades = <<>> /\ ledger = <<>>
      /\ position = [a \in Accounts |-> [i \in Instruments |-> EmptyPosition]]
  BY DEF Init, BookInit
<1>2. \A f : SumFunctionOnSet(f, {}) = 0
  BY SumEmpty
<1>3. CashReconciles
  <2>1. \A a : {n \in DOMAIN ledger : ledger[n].account = a} = {}
    BY <1>1
  <2>2. \A a \in Accounts : wallet[a] = OpeningCash[a] + 0
    BY <1>1, BrokerAssumption
  <2> QED
    BY <1>2, <2>1, <2>2, Zenon DEF CashReconciles
<1>4. PositionReconciles
  <2>1. \A a, i : {n \in DOMAIN trades : trades[n].account = a /\ trades[n].instrument = i} = {}
    BY <1>1
  <2>2. \A a \in Accounts, i \in Instruments : position[a][i].quantity = 0
    BY <1>1 DEF EmptyPosition
  <2> QED
    BY <1>2, <2>1, <2>2, Zenon DEF PositionReconciles
<1>5. LedgerPostsTradesOnce
  BY <1>1 DEF LedgerPostsTradesOnce
<1> QED
  BY <1>3, <1>4, <1>5 DEF BookReconciles

\* The book reconciles from scratch in every reachable state: the ledger adds up to the
\* wallets, the trades to the positions, and every trade is posted once by entries worth
\* its net cash, for every amount and rate (PaperBroker.execute and _append_trade_ledger;
\* ROADMAP.md 24.4).
THEOREM BooksReconcile == Spec => []BookReconciles
<1>1. BookInv /\ BookReconciles /\ [Next]_vars => BookReconciles'
  <2> SUFFICES ASSUME BookInv, BookReconciles, [Next]_vars PROVE BookReconciles'
    OBVIOUS
  <2>1. CASE UNCHANGED book
    <3>1. wallet' = wallet /\ position' = position /\ trades' = trades /\ ledger' = ledger
      BY <2>1 DEF book
    <3> QED
      BY <3>1 DEF BookReconciles, CashReconciles, PositionReconciles, LedgerPostsTradesOnce
  <2> QED
    BY <2>1, StepShape, FillReconciles, BookInvSound
<1> QED
  BY <1>1, StartReconciles, InitBookInv, NextBookInv, PTL DEF Spec

-----------------------------------------------------------------------------
(* The value of the book: what an account misses in cash is the cost of what *)
(* it holds less what it has earned, up to the roundings.  A buy rounds the   *)
(* average of what is then held, a sell the cost of what it sells; and no     *)
(* more can be held than was bought.                                          *)

Quantities == [t \in TradeRow |-> t.quantity]
BuysOf(a)  == {t \in TradeRow : t.account = a /\ t.side = "buy"}

\* What account a has bought so far.
Bought(T, a) == Tally(T, Quantities, BuysOf(a))

\* The trades of account a, and the roundings the property allows for each.
Mine(T, a) == {n \in DOMAIN T : T[n].account = a}
Slacks(T, a) ==
    [n \in DOMAIN T |->
        QuantityScale + SumFunctionOnSet([m \in DOMAIN T |-> T[m].quantity],
                                         {m \in Mine(T, a) : m <= n /\ T[m].side = "buy"})]
Slack(T, a) == SumFunctionOnSet(Slacks(T, a), Mine(T, a))

\* p is the positions of an account, w its wallet.
Basis(p)  == SumFunctionOnSet([i \in Instruments |-> p[i].quantity * p[i].average], Instruments)
Profit(p) == SumFunctionOnSet([i \in Instruments |-> p[i].pnl], Instruments)
Drift(w, p, a) == QuantityScale * (w - OpeningCash[a]) + Basis(p) - QuantityScale * Profit(p)

ValueInv ==
    \A a \in Accounts :
        /\ 2 * Drift(wallet[a], position[a], a) \in -Slack(trades, a) .. Slack(trades, a)
        /\ \A i \in Instruments : position[a][i].quantity <= Bought(trades, a)

\* One more trade adds to what was bought.
LEMMA BoughtGrows ==
    ASSUME NEW T \in Seq(TradeRow), NEW t \in TradeRow, NEW a
    PROVE  /\ Bought(T, a) \in Nat
           /\ Bought(Append(T, t), a)
                 = Bought(T, a) + (IF t.account = a /\ t.side = "buy" THEN t.quantity ELSE 0)
<1>1. Quantities \in [TradeRow -> Int]
  BY DEF Quantities, TradeRow
<1>2. Bought(T, a) \in Nat
  <2> DEFINE f == [n \in DOMAIN T |-> Quantities[T[n]]]
             N == {n \in DOMAIN T : T[n] \in BuysOf(a)}
  <2>1. DOMAIN T = 1..Len(T) /\ Len(T) \in Nat /\ \A n \in DOMAIN T : T[n] \in TradeRow
    OBVIOUS
  <2>2. IsFiniteSet(1..Len(T)) /\ N \subseteq 1..Len(T)
    BY <2>1, FS_Interval
  <2>3. IsFiniteSet(N)
    BY <2>2, FS_Subset
  <2>4. \A n \in N : f[n] \in Nat
    BY <2>1 DEF Quantities, TradeRow
  <2> HIDE DEF f, N
  <2>5. SumFunctionOnSet(f, N) \in Nat
    BY <2>3, <2>4, SumNat
  <2> QED
    BY <2>5 DEF f, N, Bought, Tally
<1>3. Tally(Append(T, t), Quantities, BuysOf(a))
         = Tally(T, Quantities, BuysOf(a)) + (IF t \in BuysOf(a) THEN Quantities[t] ELSE 0)
  BY <1>1, TallyAppend
<1>4. Quantities[t] = t.quantity /\ (t \in BuysOf(a) <=> t.account = a /\ t.side = "buy")
  BY DEF Quantities, BuysOf
<1> QED
  BY <1>2, <1>3, <1>4 DEF Bought

\* One more trade adds its roundings to the slack of its account.
LEMMA SlackGrows ==
    ASSUME NEW T \in Seq(TradeRow), NEW t \in TradeRow, NEW a
    PROVE  /\ Slack(T, a) \in Nat
           /\ Slack(Append(T, t), a)
                 = Slack(T, a)
                     + (IF t.account = a THEN QuantityScale + Bought(Append(T, t), a) ELSE 0)
<1> DEFINE U == Append(T, t)
           m == Len(T) + 1
           Before(V, n) == {k \in Mine(V, a) : k <= n /\ V[k].side = "buy"}
           f(V) == [k \in DOMAIN V |-> V[k].quantity]
<1>1. /\ DOMAIN T = 1..Len(T) /\ Len(T) \in Nat /\ \A n \in DOMAIN T : T[n] \in TradeRow
      /\ DOMAIN U = 1..m /\ U[m] = t /\ \A n \in DOMAIN T : U[n] = T[n]
      /\ U \in Seq(TradeRow) /\ m \in Nat /\ m \notin DOMAIN T
  OBVIOUS
<1> HIDE DEF U
<1>2. ASSUME NEW V \in Seq(TradeRow)
      PROVE  /\ IsFiniteSet(Mine(V, a)) /\ Mine(V, a) \subseteq DOMAIN V
             /\ \A n \in DOMAIN V : /\ IsFiniteSet(Before(V, n))
                                    /\ SumFunctionOnSet(f(V), Before(V, n)) \in Nat
             /\ \A n \in DOMAIN V : Slacks(V, a)[n] \in Nat
  <2>1. DOMAIN V = 1..Len(V) /\ Len(V) \in Nat /\ \A n \in DOMAIN V : V[n] \in TradeRow
    OBVIOUS
  <2>2. IsFiniteSet(DOMAIN V)
    BY <2>1, FS_Interval
  <2>3. Mine(V, a) \subseteq DOMAIN V
    BY DEF Mine
  <2>4. IsFiniteSet(Mine(V, a))
    BY <2>2, <2>3, FS_Subset
  <2>5. ASSUME NEW n \in DOMAIN V
        PROVE  /\ IsFiniteSet(Before(V, n)) /\ SumFunctionOnSet(f(V), Before(V, n)) \in Nat
               /\ Slacks(V, a)[n] \in Nat
    <3>1. IsFiniteSet(Before(V, n))
      <4>1. Before(V, n) \subseteq Mine(V, a)
        OBVIOUS
      <4> HIDE DEF Before
      <4> QED
        BY <2>4, <4>1, FS_Subset
    <3>2. \A k \in Before(V, n) : f(V)[k] \in Nat
      <4>1. \A k \in Before(V, n) : k \in DOMAIN V
        BY <2>3
      <4>2. \A k \in DOMAIN V : V[k].quantity \in Nat
        BY <2>1 DEF TradeRow
      <4> HIDE DEF Before
      <4> QED
        BY <4>1, <4>2
    <3>3. Slacks(V, a)[n] = QuantityScale + SumFunctionOnSet(f(V), Before(V, n))
      BY DEF Slacks
    <3> HIDE DEF Before, f
    <3>4. SumFunctionOnSet(f(V), Before(V, n)) \in Nat
      BY <3>1, <3>2, SumNat
    <3> QED
      BY <3>1, <3>3, <3>4, CostAssumption
  <2> QED
    BY <2>3, <2>4, <2>5
<1>3. ASSUME NEW n \in DOMAIN T PROVE Slacks(U, a)[n] = Slacks(T, a)[n]
  <2>1. Before(U, n) = Before(T, n)
    <3>1. \A k \in Mine(T, a) : k \in DOMAIN T
      BY DEF Mine
    <3>2. \A k \in DOMAIN U : k <= n => k \in DOMAIN T
      BY <1>1
    <3>3. \A k \in Mine(U, a) : k <= n => k \in Mine(T, a) /\ U[k] = T[k]
      BY <1>1, <3>2 DEF Mine
    <3>4. \A k \in Mine(T, a) : k \in Mine(U, a) /\ U[k] = T[k]
      BY <1>1 DEF Mine
    <3> QED
      BY <3>3, <3>4
  <2>2. IsFiniteSet(Before(T, n)) /\ \A k \in Before(T, n) : f(U)[k] = f(T)[k]
    <3>1. \A k \in Before(T, n) : k \in DOMAIN T /\ k \in DOMAIN U /\ U[k] = T[k]
      BY <1>1 DEF Mine
    <3>2. IsFiniteSet(Before(T, n))
      BY <1>2
    <3> HIDE DEF Before
    <3> QED
      BY <3>1, <3>2
  <2>3. Slacks(U, a)[n] = QuantityScale + SumFunctionOnSet(f(U), Before(U, n))
        /\ Slacks(T, a)[n] = QuantityScale + SumFunctionOnSet(f(T), Before(T, n))
    BY <1>1 DEF Slacks
  <2> HIDE DEF Before, f
  <2>4. SumFunctionOnSet(f(U), Before(T, n)) = SumFunctionOnSet(f(T), Before(T, n))
    BY <2>2, SumSame
  <2> QED
    BY <2>1, <2>3, <2>4
<1>4. SumFunctionOnSet(Slacks(U, a), Mine(T, a)) = SumFunctionOnSet(Slacks(T, a), Mine(T, a))
  <2>1. IsFiniteSet(Mine(T, a)) /\ \A n \in Mine(T, a) : Slacks(U, a)[n] = Slacks(T, a)[n]
    BY <1>2, <1>3
  <2> QED
    BY <2>1, SumSame
<1>5. Slack(T, a) \in Nat
  <2>1. IsFiniteSet(Mine(T, a)) /\ \A n \in Mine(T, a) : Slacks(T, a)[n] \in Nat
    BY <1>2
  <2> QED
    BY <2>1, SumNat DEF Slack
<1>6. CASE t.account = a
  <2>1. Mine(U, a) = Mine(T, a) \cup {m} /\ m \notin Mine(T, a)
    BY <1>1, <1>6 DEF Mine
  <2>2. IsFiniteSet(Mine(T, a)) /\ \A n \in Mine(T, a) \cup {m} : Slacks(U, a)[n] \in Int
    BY <1>1, <1>2, <2>1
  <2>3. SumFunctionOnSet(Slacks(U, a), Mine(T, a) \cup {m})
           = SumFunctionOnSet(Slacks(U, a), Mine(T, a)) + Slacks(U, a)[m]
    BY <2>1, <2>2, SumAdd
  <2>4. Slacks(U, a)[m] = QuantityScale + Bought(U, a)
    <3>1. Before(U, m) = {n \in DOMAIN U : U[n] \in BuysOf(a)}
      <4>1. \A n \in DOMAIN U : n <= m /\ U[n] \in TradeRow
        BY <1>1
      <4> QED
        BY <4>1 DEF Mine, BuysOf
    <3>2. f(U) = [n \in DOMAIN U |-> Quantities[U[n]]]
      <4>1. \A n \in DOMAIN U : U[n] \in TradeRow
        BY <1>1
      <4> QED
        BY <4>1 DEF Quantities
    <3>3. m \in DOMAIN U
      BY <1>1
    <3>4. Slacks(U, a)[m] = QuantityScale + SumFunctionOnSet(f(U), Before(U, m))
      BY <3>3 DEF Slacks
    <3>5. Bought(U, a) = SumFunctionOnSet([n \in DOMAIN U |-> Quantities[U[n]]],
                                          {n \in DOMAIN U : U[n] \in BuysOf(a)})
      BY DEF Bought, Tally
    <3> HIDE DEF f, Before
    <3> QED
      BY <3>1, <3>2, <3>4, <3>5
  <2>5. Slack(U, a) = Slack(T, a) + (QuantityScale + Bought(U, a))
    BY <1>4, <2>1, <2>3, <2>4 DEF Slack
  <2> QED
    BY <1>5, <1>6, <2>5 DEF U
<1>7. CASE t.account # a
  <2>1. Mine(U, a) = Mine(T, a)
    BY <1>1, <1>7 DEF Mine
  <2>2. Slack(U, a) = Slack(T, a)
    BY <1>4, <2>1 DEF Slack
  <2> QED
    BY <1>5, <1>7, <2>2 DEF U
<1> QED
  BY <1>6, <1>7

\* Rounding the average moves the cost of what is held by at most half a quantum for
\* each quantity quantum.
LEMMA RoundedAverage ==
    ASSUME NEW n \in Nat, NEW d \in Nat \ {0}
    PROVE  2 * (d * HalfUp(n, d) - n) \in -d .. d
<1>1. d * HalfUp(n, d) \in Nat
  BY HalfUpNat, ProductNat
<1>2. 2 * (d * HalfUp(n, d)) <= 2 * n + d /\ 2 * (d * HalfUp(n, d)) > 2 * n - d
  BY HalfUpBound, HalfUpAtLeast
<1> DEFINE x == d * HalfUp(n, d)
<1> HIDE DEF x
<1>3. x \in Nat /\ 2 * x <= 2 * n + d /\ 2 * x > 2 * n - d
  BY <1>1, <1>2 DEF x
<1>4. 2 * (x - n) \in -d .. d
  BY <1>3
<1> QED
  BY <1>4 DEF x

\* What changing one position does to the basis and the profit of an account.
LEMMA OnePositionChanges ==
    ASSUME IsFiniteSet(Instruments), NEW p \in [Instruments -> PositionRow],
           NEW i \in Instruments, NEW r \in PositionRow
    PROVE  LET n == [p EXCEPT ![i] = r]
           IN  /\ Basis(p) \in Int /\ Profit(p) \in Int
               /\ Basis(n) = Basis(p) + (r.quantity * r.average - p[i].quantity * p[i].average)
               /\ Profit(n) = Profit(p) + (r.pnl - p[i].pnl)
<1> DEFINE n == [p EXCEPT ![i] = r]
           f(x) == [j \in Instruments |-> x[j].quantity * x[j].average]
           g(x) == [j \in Instruments |-> x[j].pnl]
<1>1. n \in [Instruments -> PositionRow] /\ n[i] = r /\ \A j \in Instruments \ {i} : n[j] = p[j]
  OBVIOUS
<1>2. ASSUME NEW x \in [Instruments -> PositionRow], NEW j \in Instruments
      PROVE  f(x)[j] \in Int /\ g(x)[j] \in Int
  <2>1. x[j].quantity \in Int /\ x[j].average \in Int /\ x[j].pnl \in Int
    BY DEF PositionRow
  <2> QED
    BY <2>1
<1>3. /\ f(n)[i] = r.quantity * r.average /\ f(p)[i] = p[i].quantity * p[i].average
      /\ g(n)[i] = r.pnl /\ g(p)[i] = p[i].pnl
      /\ \A j \in Instruments \ {i} : f(p)[j] = f(n)[j] /\ g(p)[j] = g(n)[j]
  BY <1>1
<1>4. /\ Basis(p) = SumFunctionOnSet(f(p), Instruments)
      /\ Basis(n) = SumFunctionOnSet(f(n), Instruments)
      /\ Profit(p) = SumFunctionOnSet(g(p), Instruments)
      /\ Profit(n) = SumFunctionOnSet(g(n), Instruments)
  BY DEF Basis, Profit
<1> HIDE DEF n, f, g
<1>5. SumFunctionOnSet(f(p), Instruments) \in Int /\ SumFunctionOnSet(g(p), Instruments) \in Int
  BY <1>2, SumInt
<1>6. SumFunctionOnSet(f(n), Instruments)
         = SumFunctionOnSet(f(p), Instruments) + (f(n)[i] - f(p)[i])
  BY <1>1, <1>2, <1>3, SumChange
<1>7. SumFunctionOnSet(g(n), Instruments)
         = SumFunctionOnSet(g(p), Instruments) + (g(n)[i] - g(p)[i])
  BY <1>1, <1>2, <1>3, SumChange
<1> QED
  BY <1>3, <1>4, <1>5, <1>6, <1>7 DEF n

\* What a fill of net cash for quantity q adds to the drift of its account: the
\* rounding of the new average, or of the cost of what is sold.
LEMMA FillDrifts ==
    ASSUME IsFiniteSet(Instruments), NEW a \in Accounts, OpeningCash[a] \in Int,
           NEW w \in Int, NEW p \in [Instruments -> PositionRow], NEW i \in Instruments,
           p[i].quantity \in Nat, p[i].average \in Nat, NEW q \in Nat \ {0}, NEW net \in Int
    PROVE  /\ Drift(w, p, a) \in Int
           /\ net \in Nat =>
                LET n == [p EXCEPT ![i] = PositionAfterBuy(p[i], q, net)]
                    e == Drift(w - net, n, a) - Drift(w, p, a)
                IN  Drift(w - net, n, a) \in Int
                    /\ 2 * e \in -(p[i].quantity + q) .. (p[i].quantity + q)
           /\ q <= p[i].quantity =>
                LET n == [p EXCEPT ![i] = PositionAfterSell(p[i], q, net)]
                    e == Drift(w + net, n, a) - Drift(w, p, a)
                IN  Drift(w + net, n, a) \in Int /\ 2 * e \in -QuantityScale .. QuantityScale
<1> DEFINE h == p[i].quantity
           v == p[i].average
           G == p[i].pnl
           S == QuantityScale
           O == OpeningCash[a]
           B == Basis(p)
           P == Profit(p)
<1>1. /\ h \in Nat /\ v \in Nat /\ S \in Nat \ {0} /\ O \in Int
      /\ p[i] \in PositionRow /\ G \in Int /\ h * v \in Nat
  <2>1. p[i] \in PositionRow
    OBVIOUS
  <2>2. h * v \in Nat
    BY ProductNat
  <2> QED
    BY <2>1, <2>2, CostAssumption DEF PositionRow
<1>2. B \in Int /\ P \in Int
  BY <1>1, OnePositionChanges
<1>3. Drift(w, p, a) = S * (w - O) + B - S * P
  BY DEF Drift
<1>4. Drift(w, p, a) \in Int
  <2> HIDE DEF S, O, B, P
  <2> QED
    BY <1>1, <1>2, <1>3
<1>5. ASSUME net \in Nat
      PROVE  LET n == [p EXCEPT ![i] = PositionAfterBuy(p[i], q, net)]
                 e == Drift(w - net, n, a) - Drift(w, p, a)
             IN  Drift(w - net, n, a) \in Int /\ 2 * e \in -(h + q) .. (h + q)
  <2> DEFINE r == PositionAfterBuy(p[i], q, net)
             n == [p EXCEPT ![i] = r]
             m == h * v + net * S
             x == (h + q) * HalfUp(m, h + q)
  <2>1. r \in PositionRow /\ r.pnl = G /\ r.quantity = h + q /\ r.average = HalfUp(m, h + q)
    <3>1. r \in PositionRow
      BY <1>1, <1>5, PositionAfterBuyType
    <3> QED
      BY <3>1 DEF PositionAfterBuy
  <2>2. m \in Nat /\ h + q \in Nat \ {0} /\ net * S \in Nat
    <3>1. net * S \in Nat
      BY <1>1, <1>5, ProductNat
    <3> HIDE DEF h, v, S
    <3> QED
      BY <1>1, <3>1
  <2>3. 2 * (x - m) \in -(h + q) .. (h + q)
    <3> HIDE DEF m, h
    <3> QED
      BY <2>2, RoundedAverage
  <2>4. x \in Nat
    <3> HIDE DEF m, h
    <3> QED
      BY <2>2, HalfUpNat, ProductNat
  <2>5. Basis(n) = B + (x - h * v) /\ Profit(n) = P + (G - G)
    <3>1. Basis(n) = B + (r.quantity * r.average - h * v) /\ Profit(n) = P + (r.pnl - G)
      BY <2>1, OnePositionChanges
    <3> QED
      BY <2>1, <3>1
  <2>6. Drift(w - net, n, a) = S * ((w - net) - O) + Basis(n) - S * Profit(n)
    BY DEF Drift
  <2> HIDE DEF h, v, G, S, O, B, P, n, x
  <2>7. Profit(n) = P
    BY <1>1, <1>2, <2>5
  <2>8. S * ((w - net) - O) = S * (w - O) - net * S
    BY <1>1, <1>5
  <2>9. S * (w - O) \in Int /\ S * P \in Int
    BY <1>1, <1>2
  <2>10. m = h * v + net * S
    OBVIOUS
  <2> HIDE DEF m
  <2>11. Drift(w - net, n, a) - Drift(w, p, a) = x - m /\ Drift(w - net, n, a) \in Int
    BY <1>1, <1>2, <1>3, <2>2, <2>4, <2>5, <2>6, <2>7, <2>8, <2>9, <2>10
  <2> QED
    BY <2>3, <2>11 DEF n
<1>6. ASSUME q <= h
      PROVE  LET n == [p EXCEPT ![i] = PositionAfterSell(p[i], q, net)]
                 e == Drift(w + net, n, a) - Drift(w, p, a)
             IN  Drift(w + net, n, a) \in Int /\ 2 * e \in -S .. S
  <2> DEFINE r == PositionAfterSell(p[i], q, net)
             n == [p EXCEPT ![i] = r]
             c == HalfUp(q * v, S)
  <2>1. r \in PositionRow
    BY <1>1, <1>6, PositionAfterSellType
  <2>2. q * v \in Nat
    BY <1>1, ProductNat
  <2>3. c \in Nat
    BY <1>1, <2>2, HalfUpNat
  <2>4. 2 * (S * c - q * v) \in -S .. S
    <3> HIDE DEF S, v
    <3> QED
      BY <1>1, <2>2, RoundedAverage
  <2>5. r.pnl = G + (net - c)
    BY DEF PositionAfterSell, RealizedPnl
  <2>6. r.quantity * r.average = h * v - q * v
    <3>1. CASE h = q
      <4>1. r.quantity = 0 /\ r.average = 0
        BY <1>1, <3>1 DEF PositionAfterSell
      <4> HIDE DEF r, h, v
      <4> QED
        BY <1>1, <2>2, <3>1, <4>1
    <3>2. CASE h # q
      <4>1. r.quantity = h - q /\ r.average = v
        BY <3>2 DEF PositionAfterSell
      <4> HIDE DEF r, h, v
      <4>2. (h - q) * v = h * v - q * v
        BY <1>1
      <4> QED
        BY <4>1, <4>2
    <3> QED
      BY <3>1, <3>2
  <2>7. Basis(n) = B + ((h * v - q * v) - h * v) /\ Profit(n) = P + ((G + (net - c)) - G)
    <3>1. Basis(n) = B + (r.quantity * r.average - h * v) /\ Profit(n) = P + (r.pnl - G)
      BY <2>1, OnePositionChanges
    <3> HIDE DEF r
    <3> QED
      BY <2>5, <2>6, <3>1
  <2>8. Drift(w + net, n, a) = S * ((w + net) - O) + Basis(n) - S * Profit(n)
    BY DEF Drift
  <2> HIDE DEF h, v, G, S, O, B, P, n, c
  <2>9. Basis(n) = B - q * v /\ Profit(n) = P + (net - c)
    BY <1>1, <1>2, <2>2, <2>3, <2>7
  <2>10. S * ((w + net) - O) = S * (w - O) + S * net
    BY <1>1
  <2>11. S * (P + (net - c)) = S * P + S * net - S * c
    BY <1>1, <1>2, <2>3
  <2>12. S * (w - O) \in Int /\ S * P \in Int /\ S * net \in Int /\ S * c \in Int
    BY <1>1, <1>2, <2>3
  <2>13. Drift(w + net, n, a) - Drift(w, p, a) = S * c - q * v /\ Drift(w + net, n, a) \in Int
    BY <1>2, <1>3, <2>2, <2>8, <2>9, <2>10, <2>11, <2>12
  <2> QED
    BY <2>4, <2>13 DEF n
<1> QED
  BY <1>4, <1>5, <1>6

\* A fill keeps the drift of every account within its roundings, and what is held
\* within what was bought.
LEMMA FillKeepsValue ==
    ASSUME IsFiniteSet(Instruments), Sound, ValueInv,
           NEW d \in DecisionIds, NEW side \in Sides, NEW k \in QuoteIds,
           Approved(d), QuoteUsable(d, k), Affordable(d, side, k), Fill(d, side, k)
    PROVE  ValueInv'
<1> DEFINE a     == decision[d].account
           i     == decision[d].instrument
           q     == decision[d].quantity
           held  == position[a][i]
           costs == CostsOf(d, side, k)
           net   == costs.net
           pnl   == IF side = "buy" THEN 0 ELSE RealizedPnl(held, q, net)
           t     == [account |-> a, instrument |-> i, quote |-> k, side |-> side,
                     quantity |-> q, gross |-> costs.gross, fees |-> costs.fees,
                     taxes |-> costs.taxes, spread |-> costs.spread, net |-> costs.net,
                     pnl |-> pnl]
           new   == IF side = "buy" THEN PositionAfterBuy(held, q, net)
                                    ELSE PositionAfterSell(held, q, net)
           cash  == IF side = "buy" THEN wallet[a] - net ELSE wallet[a] + net
<1>1. /\ a \in Accounts /\ i \in Instruments /\ q \in Nat \ {0} /\ k \in QuoteIds
      /\ quote[k].buy \in Nat /\ quote[k].sell \in Nat /\ quote[k].buy <= quote[k].sell
  BY RowsType
<1>2. /\ costs.gross \in Nat /\ costs.fees \in Nat /\ costs.taxes \in Nat
      /\ costs.spread \in Nat /\ net \in Int
      /\ side = "buy" => net \in Nat
  BY <1>1, CostsType DEF CostsOf
<1>3. /\ trades \in Seq(TradeRow) /\ wallet \in [Accounts -> Int]
      /\ position \in [Accounts -> [Instruments -> PositionRow]]
      /\ position[a] \in [Instruments -> PositionRow] /\ held \in PositionRow
      /\ held.quantity \in Nat /\ held.average \in Nat /\ wallet[a] \in Int
  <2>1. /\ trades \in Seq(TradeRow) /\ wallet \in [Accounts -> Int]
        /\ position \in [Accounts -> [Instruments -> PositionRow]]
        /\ held.quantity >= 0 /\ held.average >= 0
    BY <1>1 DEF Sound, BookTypeOK, NeverOverdrawn
  <2>2. held \in PositionRow
    BY <1>1, <2>1
  <2> QED
    BY <1>1, <2>1, <2>2 DEF PositionRow
<1>4. side = "sell" => q <= held.quantity
  BY DEF Affordable
<1>5. /\ wallet' = [wallet EXCEPT ![a] = cash]
      /\ position' = [position EXCEPT ![a][i] = new]
      /\ trades' = Append(trades, t)
  BY DEF Fill
<1>6. pnl \in Int
  <2>1. held.quantity >= 0 /\ held.average >= 0
    BY <1>3
  <2>2. side = "sell" => RealizedPnl(held, q, net) \in Int
    <3> HIDE DEF costs, held, q
    <3> QED
      BY <1>1, <1>2, <1>3, <1>4, <2>1, PositionAfterSellType
  <2> QED
    BY <2>2 DEF Sides
<1>7. new.quantity = held.quantity + (IF side = "buy" THEN q ELSE -q)
  <2> HIDE DEF costs
  <2> QED
    BY <1>1, <1>3 DEF PositionAfterBuy, PositionAfterSell, Sides
<1>8. t \in TradeRow
  <2> HIDE DEF costs, pnl
  <2> QED
    BY <1>1, <1>2, <1>6 DEF TradeRow
<1>9. t.account = a /\ t.side = side /\ t.quantity = q
  OBVIOUS
<1>10. OpeningCash[a] \in Int
  BY <1>1, BrokerAssumption
<1>11. LET n == [position[a] EXCEPT ![i] = new]
           e == Drift(cash, n, a) - Drift(wallet[a], position[a], a)
           bound == IF side = "buy" THEN held.quantity + q ELSE QuantityScale
       IN  /\ Drift(wallet[a], position[a], a) \in Int /\ Drift(cash, n, a) \in Int
           /\ 2 * e \in -bound .. bound
  <2>1. CASE side = "buy"
    <3>1. new = PositionAfterBuy(held, q, net) /\ cash = wallet[a] - net /\ net \in Nat
      BY <1>2, <2>1
    <3> HIDE DEF costs, new, cash
    <3> QED
      BY <1>1, <1>2, <1>3, <1>10, <2>1, <3>1, FillDrifts
  <2>2. CASE side = "sell"
    <3>1. new = PositionAfterSell(held, q, net) /\ cash = wallet[a] + net
      BY <2>2
    <3> HIDE DEF costs, new, cash
    <3> QED
      BY <1>1, <1>2, <1>3, <1>4, <1>10, <2>2, <3>1, FillDrifts
  <2> QED
    BY <2>1, <2>2 DEF Sides
<1> HIDE DEF costs, t, new, cash, pnl
<1>12. /\ wallet'[a] = cash /\ position'[a] = [position[a] EXCEPT ![i] = new]
       /\ \A x \in Accounts \ {a} : wallet'[x] = wallet[x] /\ position'[x] = position[x]
  BY <1>1, <1>3, <1>5
<1>13. SUFFICES ASSUME NEW x \in Accounts
               PROVE  /\ 2 * Drift(wallet'[x], position'[x], x)
                              \in -Slack(trades', x) .. Slack(trades', x)
                      /\ \A y \in Instruments : position'[x][y].quantity <= Bought(trades', x)
  BY DEF ValueInv, Drift, Basis, Profit
<1>14. /\ 2 * Drift(wallet[x], position[x], x) \in -Slack(trades, x) .. Slack(trades, x)
       /\ \A y \in Instruments : position[x][y].quantity <= Bought(trades, x)
  BY DEF ValueInv
<1>15. /\ Bought(trades, x) \in Nat /\ Slack(trades, x) \in Nat
       /\ Bought(trades', x) = Bought(trades, x) + (IF x = a /\ side = "buy" THEN q ELSE 0)
       /\ Slack(trades', x) = Slack(trades, x)
                                + (IF x = a THEN QuantityScale + Bought(trades', x) ELSE 0)
  BY <1>3, <1>5, <1>8, <1>9, BoughtGrows, SlackGrows
<1>16. CASE x # a
  <2>1. wallet'[x] = wallet[x] /\ position'[x] = position[x]
    BY <1>12, <1>16
  <2>2. Bought(trades', x) = Bought(trades, x) /\ Slack(trades', x) = Slack(trades, x)
    BY <1>15, <1>16
  <2> QED
    BY <1>14, <2>1, <2>2
<1>17. CASE x = a
  <2> DEFINE new_drift == Drift(wallet'[a], position'[a], a)
             old_drift == Drift(wallet[a], position[a], a)
             bound == IF side = "buy" THEN held.quantity + q ELSE QuantityScale
  <2>1. /\ old_drift \in Int /\ new_drift \in Int
        /\ 2 * (new_drift - old_drift) \in -bound .. bound
    BY <1>11, <1>12
  <2>2. held.quantity <= Bought(trades, a)
    BY <1>1, <1>14, <1>17
  <2>3. \A y \in Instruments : position'[a][y].quantity <= Bought(trades', a)
    <3> SUFFICES ASSUME NEW y \in Instruments PROVE position'[a][y].quantity <= Bought(trades', a)
      OBVIOUS
    <3>1. CASE y = i
      <4>1. position'[a][y].quantity = held.quantity + (IF side = "buy" THEN q ELSE -q)
        BY <1>1, <1>3, <1>7, <1>12, <3>1
      <4> HIDE DEF held, q
      <4> QED
        BY <1>1, <1>3, <1>15, <1>17, <2>2, <4>1 DEF Sides
    <3>2. CASE y # i
      <4>1. position'[a][y].quantity = position[a][y].quantity
        BY <1>1, <1>3, <1>12, <3>2
      <4>2. position[a][y].quantity \in Int
        BY <1>3 DEF PositionRow
      <4> HIDE DEF q
      <4> QED
        BY <1>1, <1>14, <1>15, <1>17, <4>1, <4>2
    <3> QED
      BY <3>1, <3>2
  <2>4. bound \in Nat /\ bound <= QuantityScale + Bought(trades', a)
    <3>1. QuantityScale \in Nat
      BY CostAssumption
    <3>2. held.quantity \in Nat /\ q \in Nat /\ Bought(trades, a) \in Nat
      BY <1>1, <1>3, <1>15, <1>17 DEF PositionRow
    <3>3. Bought(trades', a) = Bought(trades, a) + (IF side = "buy" THEN q ELSE 0)
      BY <1>15, <1>17
    <3> HIDE DEF held, q
    <3> QED
      BY <2>2, <3>1, <3>2, <3>3
  <2>5. 2 * old_drift \in -Slack(trades, a) .. Slack(trades, a)
    BY <1>14, <1>17
  <2>6. /\ Bought(trades', a) \in Nat /\ Slack(trades, a) \in Nat /\ QuantityScale \in Nat
        /\ Slack(trades', a) = Slack(trades, a) + (QuantityScale + Bought(trades', a))
    <3> HIDE DEF q
    <3> QED
      BY <1>1, <1>15, <1>17, CostAssumption
  <2> HIDE DEF new_drift, old_drift, bound
  <2>7. 2 * new_drift \in -Slack(trades', a) .. Slack(trades', a)
    BY <2>1, <2>4, <2>5, <2>6
  <2> QED
    BY <1>17, <2>3, <2>7 DEF new_drift
<1> QED
  BY <1>16, <1>17

\* An empty book has no value to miss.
LEMMA StartValue == ASSUME IsFiniteSet(Instruments) PROVE Init => ValueInv
<1> SUFFICES ASSUME Init, NEW a \in Accounts
             PROVE  /\ 2 * Drift(wallet[a], position[a], a)
                            \in -Slack(trades, a) .. Slack(trades, a)
                    /\ \A i \in Instruments : position[a][i].quantity <= Bought(trades, a)
  BY DEF ValueInv
<1>1. /\ wallet = OpeningCash /\ trades = <<>>
      /\ position[a] = [i \in Instruments |-> EmptyPosition]
  BY DEF Init, BookInit
<1>2. /\ Basis(position[a]) = SumFunctionOnSet([i \in Instruments |-> 0], Instruments)
      /\ Profit(position[a]) = SumFunctionOnSet([i \in Instruments |-> 0], Instruments)
  <2>1. [i \in Instruments |-> position[a][i].quantity * position[a][i].average]
            = [i \in Instruments |-> 0]
    BY <1>1 DEF EmptyPosition
  <2>2. [i \in Instruments |-> position[a][i].pnl] = [i \in Instruments |-> 0]
    BY <1>1 DEF EmptyPosition
  <2> QED
    BY <2>1, <2>2 DEF Basis, Profit
<1>3. SumFunctionOnSet([i \in Instruments |-> 0], Instruments) = 0
  BY SumZero
<1>4. wallet[a] - OpeningCash[a] = 0 /\ QuantityScale \in Nat
  BY <1>1, BrokerAssumption, CostAssumption
<1>5. Drift(wallet[a], position[a], a) = 0
  BY <1>2, <1>3, <1>4 DEF Drift
<1>6. trades \in Seq(TradeRow)
  BY <1>1
<1>7. Slack(trades, a) = 0
  <2>1. Mine(trades, a) = {}
    BY <1>1 DEF Mine
  <2> QED
    BY <2>1, SumEmpty DEF Slack
<1>8. Bought(trades, a) = 0
  <2>1. \A n \in DOMAIN trades : trades[n] \notin BuysOf(a)
    BY <1>1
  <2> QED
    BY <2>1, TallyNone DEF Bought
<1>9. \A i \in Instruments : position[a][i].quantity = 0
  BY <1>1 DEF EmptyPosition
<1> QED
  BY <1>5, <1>7, <1>8, <1>9

\* The invariant says of the book what the property says.
LEMMA ValueIsConserved == ValueInv => BookValueConserved
<1> SUFFICES ASSUME ValueInv PROVE BookValueConserved
  OBVIOUS
<1>1. \A a \in Accounts :
          2 * (QuantityScale * (wallet[a] - OpeningCash[a]) + Basis(position[a])
                  - QuantityScale * Profit(position[a])) \in -Slack(trades, a) .. Slack(trades, a)
  BY DEF ValueInv, Drift
<1> QED
  BY <1>1, Zenon DEF BookValueConserved, Basis, Profit, Slack, Slacks, Mine

\* However long an account trades, the cash it misses is the cost of what it holds less
\* the profit it has realized: the roundings add up to at most half a quantum for every
\* quantity quantum bought so far, and half a quantum, for each of its trades
\* (PaperBroker._apply_buy and _apply_sell).
THEOREM BookValueHolds == IsFiniteSet(Instruments) => (Spec => []BookValueConserved)
<1> SUFFICES ASSUME IsFiniteSet(Instruments) PROVE Spec => []BookValueConserved
  OBVIOUS
<1>1. BookInv /\ ValueInv /\ [Next]_vars => ValueInv'
  <2> SUFFICES ASSUME BookInv, ValueInv, [Next]_vars PROVE ValueInv'
    OBVIOUS
  <2>1. CASE UNCHANGED book
    <3>1. wallet' = wallet /\ position' = position /\ trades' = trades
      BY <2>1 DEF book
    <3> QED
      BY <3>1 DEF ValueInv, Drift, Basis, Profit, Slack, Slacks, Mine, Bought, Tally
  <2> QED
    BY <2>1, StepShape, FillKeepsValue, BookInvSound
<1> QED
  BY <1>1, StartValue, ValueIsConserved, InitBookInv, NextBookInv, PTL DEF Spec

-----------------------------------------------------------------------------
(* The broker implements AccountBook, as long as selling does not cost.      *)

Settled == {orders[n].decision : n \in 1..Len(orders)}
Metal   == [a \in Accounts |-> [i \in Instruments |-> position[a][i].quantity]]

\* One entry of a table changes.
LEMMA EntryChanges ==
    ASSUME NEW S, NEW U, NEW V, NEW f \in [S -> [U -> V]], NEW g \in [S -> [U -> V]],
           NEW a \in S, NEW i \in U, NEW v,
           \A x \in S, y \in U : g[x][y] = IF x = a /\ y = i THEN v ELSE f[x][y]
    PROVE  g = [f EXCEPT ![a][i] = v]
<1>1. g[a] = [f[a] EXCEPT ![i] = v]
  OBVIOUS
<1>2. ASSUME NEW x \in S, x # a PROVE g[x] = f[x]
  <2>1. g[x] \in [U -> V] /\ f[x] \in [U -> V]
    BY <1>2
  <2> QED
    BY <1>2, <2>1
<1> QED
  BY <1>1, <1>2

\* A fill is a settlement of its decision.
LEMMA FillSettles ==
    ASSUME CostsAreMinor, BookInv,
           NEW d \in DecisionIds, NEW side \in Sides, NEW k \in QuoteIds,
           Approved(d), QuoteUsable(d, k), Affordable(d, side, k), ~AlreadyOrdered(d),
           Fill(d, side, k)
    PROVE  \E a \in Accounts, i \in Instruments : Book!Settle(d, a, i)
<1>0. PICK a \in Accounts, i \in Instruments :
          a = decision[d].account /\ i = decision[d].instrument
  BY RowsType, BookInvSound
<1> DEFINE q    == decision[d].quantity
           held == position[a][i]
           net  == CostsOf(d, side, k).net
           new  == IF side = "buy" THEN PositionAfterBuy(held, q, net)
                                   ELSE PositionAfterSell(held, q, net)
<1>1. /\ q \in Nat \ {0}
      /\ quote[k].buy \in Nat /\ quote[k].sell \in Nat /\ quote[k].buy <= quote[k].sell
  BY RowsType, BookInvSound
<1>2. net \in Nat
  <2>1. CASE side = "buy"
    BY <1>1, <2>1, CostsType DEF CostsOf
  <2>2. CASE side = "sell"
    BY <1>1, <2>2, SellNetNat DEF CostsOf
  <2> QED
    BY <2>1, <2>2 DEF Sides
<1>3. /\ wallet \in [Accounts -> Int] /\ wallet[a] >= 0
      /\ position \in [Accounts -> [Instruments -> PositionRow]]
      /\ held.quantity \in Nat /\ orders \in Seq(OrderRow)
  BY <1>0, <1>1 DEF BookInv, TypeOK, BookTypeOK, NeverOverdrawn, PositionRow
<1>4. \/ side = "buy" /\ net <= wallet[a]
      \/ side = "sell" /\ q <= held.quantity
  BY <1>0 DEF Affordable
<1>5. /\ wallet' = [wallet EXCEPT ![a] = IF side = "buy" THEN @ - net ELSE @ + net]
      /\ position' = [position EXCEPT ![a][i] = new]
      /\ orders' = Append(orders, [decision |-> d, account |-> a, instrument |-> i,
                                   side |-> side, quantity |-> q])
  BY <1>0 DEF Fill
<1>6. new.quantity = IF side = "buy" THEN held.quantity + q ELSE held.quantity - q
  BY DEF PositionAfterBuy, PositionAfterSell
<1> HIDE DEF net, new
<1>7. /\ wallet' = [wallet EXCEPT ![a] = wallet'[a]]
      /\ wallet'[a] = IF side = "buy" THEN wallet[a] - net ELSE wallet[a] + net
  BY <1>1, <1>3, <1>5
<1>8. \A x \in Accounts, y \in Instruments :
          position'[x][y] = IF x = a /\ y = i THEN new ELSE position[x][y]
  BY <1>1, <1>3, <1>5
<1>9. /\ Metal' = [Metal EXCEPT ![a][i] = new.quantity]
      /\ Metal'[a][i] = new.quantity /\ Metal[a][i] = held.quantity
  <2>1. Metal' = [x \in Accounts |-> [y \in Instruments |-> position'[x][y].quantity]]
    BY DEF Metal
  <2>2. Metal = [x \in Accounts |-> [y \in Instruments |-> position[x][y].quantity]]
    BY DEF Metal
  <2>3. Metal[a][i] = held.quantity /\ Metal'[a][i] = new.quantity
    BY <1>1, <1>8, <2>1, <2>2
  <2>4. \A x \in Accounts, y \in Instruments :
            Metal'[x][y] = IF x = a /\ y = i THEN new.quantity ELSE Metal[x][y]
    BY <1>8, <2>1, <2>2
  <2>5. Metal \in [Accounts -> [Instruments -> Int]] /\ Metal' \in [Accounts -> [Instruments -> Int]]
    <3>1. BookTypeOK'
      BY FillBookInv, BookInvSound
    <3>2. \A x \in Accounts, y \in Instruments :
              position[x][y].quantity \in Int /\ position'[x][y].quantity \in Int
      BY <1>3, <3>1 DEF BookTypeOK, PositionRow
    <3> QED
      BY <2>1, <2>2, <3>2
  <2>6. Metal' = [Metal EXCEPT ![a][i] = new.quantity]
    BY <2>4, <2>5, EntryChanges
  <2> QED
    BY <2>3, <2>6
<1>10. d \notin Settled /\ Settled' = Settled \cup {d}
  <2>1. d \notin Settled
    BY DEF Settled, AlreadyOrdered
  <2>2. PICK o : orders' = Append(orders, o) /\ o.decision = d
    BY <1>5
  <2>3. /\ Len(orders) \in Nat /\ Len(orders') = Len(orders) + 1
        /\ orders'[Len(orders) + 1].decision = d
        /\ \A n \in 1..Len(orders) : orders'[n] = orders[n]
    BY <1>3, <2>2
  <2>4. \A x : x \in Settled' <=> x \in Settled \cup {d}
    BY <2>3 DEF Settled
  <2> QED
    BY <2>1, <2>4
<1>11. /\ wallet'[a] >= 0 /\ Metal'[a][i] >= 0
       /\ \/ Metal'[a][i] > Metal[a][i] /\ wallet'[a] <= wallet[a]
          \/ Metal'[a][i] < Metal[a][i] /\ wallet'[a] >= wallet[a]
  BY <1>1, <1>2, <1>3, <1>4, <1>6, <1>7, <1>9 DEF Sides
<1>12. Metal' = [Metal EXCEPT ![a][i] = Metal'[a][i]]
  BY <1>9
<1> QED
  BY <1>7, <1>10, <1>11, <1>12 DEF Book!Settle, Metal, Settled

\* The broker implements AccountBook for every decision, quote and price: what it does
\* to cash and metal is one settlement per authorisation, as long as fee and tax take
\* at most half of the price (PaperBroker.execute; ROADMAP.md 24.4).
THEOREM BrokerIsAnAccountBook == CostsAreMinor => (Spec => ImplementsAccountBook)
<1> SUFFICES ASSUME CostsAreMinor PROVE Spec => ImplementsAccountBook
  OBVIOUS
<1>1. Init => Book!Init
  <2> SUFFICES ASSUME Init PROVE Book!Init
    OBVIOUS
  <2>1. Settled = {}
    BY DEF Settled, Init, BookInit
  <2>2. Metal = [a \in Accounts |-> [i \in Instruments |-> 0]]
    BY DEF Metal, Init, BookInit, EmptyPosition
  <2> QED
    BY <2>1, <2>2 DEF Book!Init, Settled, Metal, Init, BookInit
<1>2. BookInv /\ [Next]_vars => [Book!Next]_(Book!vars)
  <2> SUFFICES ASSUME BookInv, [Next]_vars PROVE [Book!Next]_(Book!vars)
    OBVIOUS
  <2>1. CASE UNCHANGED book
    BY <2>1 DEF book, Book!vars
  <2>2. ASSUME NEW d \in DecisionIds, NEW side \in Sides, NEW k \in QuoteIds,
               Approved(d), QuoteUsable(d, k), Affordable(d, side, k), ~AlreadyOrdered(d),
               Fill(d, side, k)
        PROVE  Book!Next
    BY <2>2, FillSettles DEF Book!Next
  <2> QED
    BY <2>1, <2>2, StepShape
<1> QED
  BY <1>1, <1>2, InitBookInv, NextBookInv, PTL DEF Spec, ImplementsAccountBook, Book!Spec

=============================================================================

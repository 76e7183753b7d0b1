-------------------------- MODULE RiskManager_proofs ------------------------
(***************************************************************************)
(* Every approval stays within every limit, for any policy, any quotes and  *)
(* any order of evaluations and changes of the rows they read.              *)
(*                                                                          *)
(* The arithmetic is that of one payload (PayloadWithinLimits), from the    *)
(* refusals it passed and the rounding of its size; the invariant adds that *)
(* the quote a decision names is still the row it was made on, because rows *)
(* of price_quotes are only inserted.                                       *)
(***************************************************************************)
EXTENDS RiskManager, WellFoundedInduction, TLAPS

\* A non-empty set of natural numbers has a least element.
LEMMA LeastExists ==
  ASSUME NEW S, S \subseteq Nat, S # {}
  PROVE  \E n \in S : \A m \in S : n <= m
<1> DEFINE R == OpToRel(<, Nat)
<1>1. PICK x \in S : \A y \in S : ~(<<y, x>> \in R)
  <2>1. IsWellFoundedOn(R, Nat)
    BY NatLessThanWellFounded
  <2> HIDE DEF R
  <2> QED
    BY <2>1, WFMin
<1>2. \A y \in S : ~(y < x)
  BY <1>1 DEF OpToRel
<1> QED
  BY <1>2

\* A handler that names no reason has passed every one of its checks.
LEMMA AllChecksPass ==
  ASSUME NEW checks, DOMAIN checks \subseteq Nat,
         \A n \in DOMAIN checks : checks[n][2] # "none",
         FirstFailure(checks) = "none"
  PROVE  \A n \in DOMAIN checks : checks[n][1]
<1> DEFINE failing == { n \in DOMAIN checks : ~checks[n][1] }
<1>1. SUFFICES ASSUME failing # {} PROVE FALSE
  OBVIOUS
<1>2. FirstFailure(checks) = checks[CHOOSE n \in failing : \A m \in failing : n <= m][2]
  BY <1>1 DEF FirstFailure
<1>3. (CHOOSE n \in failing : \A m \in failing : n <= m) \in failing
  <2>1. failing \subseteq Nat
    OBVIOUS
  <2> HIDE DEF failing
  <2>2. \E n \in failing : \A m \in failing : n <= m
    BY <1>1, <2>1, LeastExists
  <2> QED
    BY <2>2
<1> QED
  BY <1>2, <1>3

\* What a quote and a context must have been when the market checks pass.
LEMMA MarketPasses ==
  ASSUME NEW q, NEW ctx, NEW at, MarketReason(q, ctx, at) = "none"
  PROVE  /\ q.observed <= at
         /\ at - q.observed <= QuoteFreshness /\ at - q.observed <= MaxQuoteLag
         /\ SpreadWithin(q) /\ ctx.drawdown <= MaxDrawdown
<1> DEFINE p1 == q.status = "fresh"
           p2 == q.observed <= at
           p3 == at - q.observed <= QuoteFreshness
           p4 == at - q.observed <= MaxQuoteLag
           p5 == SpreadWithin(q)
           p6 == ctx.dailyLoss <= MaxDailyLoss
           p7 == ctx.drawdown <= MaxDrawdown
           p8 == ~ctx.cooldown
           p9 == ~ctx.noTrade
           p10 == EventAction(ctx.event, at) # "veto"
           p11 == EventAction(ctx.event, at) # "no_trade"
           p12 == MaxDivergence = Missing \/ ctx.divergence <= MaxDivergence
           p13 == ctx.edge >= MinEdge
           checks == << <<p1, "stale_execution_quote">>, <<p2, "future_quote">>,
                        <<p3, "stale_execution_quote">>, <<p4, "stale_execution_quote">>,
                        <<p5, "spread_above_threshold">>, <<p6, "daily_loss_limit_breached">>,
                        <<p7, "max_drawdown_breached">>, <<p8, "cooldown_active">>,
                        <<p9, "no_trade_window_active">>, <<p10, "event_risk_veto">>,
                        <<p11, "event_risk_no_trade">>,
                        <<p12, "source_divergence_above_threshold">>,
                        <<p13, "expected_edge_below_costs">> >>
<1>1. FirstFailure(checks) = "none"
  BY DEF MarketReason
<1> HIDE DEF p1, p2, p3, p4, p5, p6, p7, p8, p9, p10, p11, p12, p13
<1>2. DOMAIN checks = 1..13 /\ \A n \in 1..13 : checks[n][2] # "none"
  OBVIOUS
<1>3. /\ checks[2][1] => p2
      /\ checks[3][1] => p3
      /\ checks[4][1] => p4
      /\ checks[5][1] => p5
      /\ checks[7][1] => p7
  OBVIOUS
<1>4. \A n \in 1..13 : checks[n][1]
  <2> HIDE DEF checks
  <2> QED
    BY <1>1, <1>2, AllChecksPass
<1>5. p2 /\ p3 /\ p4 /\ p5 /\ p7
  <2> HIDE DEF checks
  <2> QED
    BY <1>3, <1>4
<1> QED
  BY <1>5 DEF p2, p3, p4, p5, p7

\* What the sizing must have come to when its checks pass.
LEMMA SizePasses ==
  ASSUME NEW cash, NEW cashThere, NEW q, NEW bank,
         SizeReason(cash, cashThere, q, bank) = "none"
  PROVE  /\ cashThere >= cash /\ SizeFor(cash, q, bank) > 0
         /\ SizedCash(SizeFor(cash, q, bank), q) >= MinOrderCash
         /\ SizedCash(SizeFor(cash, q, bank), q) >= bank.minTrade
<1> DEFINE quantity == SizeFor(cash, q, bank)
           p1 == cashThere >= cash
           p2 == cash >= MinOrderCash
           p3 == cash >= bank.minTrade
           p4 == quantity > 0
           p5 == SizedCash(quantity, q) >= MinOrderCash
           p6 == SizedCash(quantity, q) >= bank.minTrade
           checks == << <<p1, "insufficient_balance">>,
                        <<p2, "approved_size_below_min_order">>,
                        <<p3, "approved_size_below_bank_min_trade">>,
                        <<p4, "approved_quantity_below_precision">>,
                        <<p5, "approved_size_below_min_order_after_precision">>,
                        <<p6, "approved_size_below_bank_min_trade_after_precision">> >>
<1>1. FirstFailure(checks) = "none"
  BY DEF SizeReason
<1> HIDE DEF p1, p2, p3, p4, p5, p6
<1>2. DOMAIN checks = 1..6 /\ \A n \in 1..6 : checks[n][2] # "none"
  OBVIOUS
<1>3. /\ checks[1][1] => p1
      /\ checks[4][1] => p4
      /\ checks[5][1] => p5
      /\ checks[6][1] => p6
  OBVIOUS
<1>4. \A n \in 1..6 : checks[n][1]
  <2> HIDE DEF checks
  <2> QED
    BY <1>1, <1>2, AllChecksPass
<1>5. p1 /\ p4 /\ p5 /\ p6
  <2> HIDE DEF checks
  <2> QED
    BY <1>3, <1>4
<1> QED
  BY <1>5 DEF p1, p4, p5, p6

-----------------------------------------------------------------------------

\* The quotient of an integer division, from both sides.
LEMMA DivBounds ==
  ASSUME NEW n \in Nat, NEW d \in Nat \ {0}
  PROVE  /\ n \div d \in Nat /\ d * (n \div d) <= n /\ n < d * ((n \div d) + 1)
OBVIOUS

\* The size is on the bank's grid and costs no more than the cash it is for.
LEMMA SizeFits ==
  ASSUME NEW cash \in Nat, NEW q, NEW bank, q.sell \in Nat \ {0}, bank.step \in Nat \ {0}
  PROVE  /\ SizeFor(cash, q, bank) \in Nat
         /\ (SizeFor(cash, q, bank) % bank.step) = 0
         /\ SizeFor(cash, q, bank) * q.sell <= cash * QuantityScale
<1> DEFINE s == q.sell
           t == bank.step
           c == cash * QuantityScale
           n == c \div (s * t)
<1>1. QuantityScale \in Nat /\ s \in Nat \ {0} /\ t \in Nat \ {0}
  BY CostAssumption
<1>2. c \in Nat /\ s * t \in Nat \ {0}
  BY <1>1
<1>3. SizeFor(cash, q, bank) = t * n
  BY DEF SizeFor
<1> HIDE DEF s, t, c
<1>4. n \in Nat /\ (s * t) * n <= c
  BY <1>2, DivBounds
<1> HIDE DEF n
<1>5. (t * n) * s <= c
  <2>1. (t * n) * s = (s * t) * n
    BY <1>1, <1>4
  <2> QED
    BY <1>4, <2>1
<1>6. t * n \in Nat /\ ((t * n) % t) = 0
  BY <1>1, <1>4
<1> QED
  BY <1>3, <1>5, <1>6 DEF s, t, c

\* No overlay and no cap lets an order use more than was asked for, more than the
\* order limit or more than the position leaves of its limit.
LEMMA CapsHold ==
  ASSUME NEW requested \in Nat \ {0}, NEW ctx, NEW at, ctx.positionCash \in Nat
  PROVE  /\ CappedCash(requested, ctx, at) \in Nat
         /\ CappedCash(requested, ctx, at) <= requested
         /\ CappedCash(requested, ctx, at) <= MaxOrderCash
         /\ CappedCash(requested, ctx, at) <= MaxPositionCash
         /\ CappedCash(requested, ctx, at) > 0 =>
               ctx.positionCash + CappedCash(requested, ctx, at) <= MaxPositionCash
<1> DEFINE reduced == IF EventAction(ctx.event, at) = "reduce_risk"
                      THEN Down(requested * Reduction, RateScale) ELSE requested
           capped  == IF requested > MaxOrderCash THEN Smaller(reduced, MaxOrderCash)
                                                  ELSE reduced
           room    == MaxPositionCash - ctx.positionCash
<1>1. /\ RateScale \in Nat \ {0} /\ Reduction \in Nat /\ Reduction <= RateScale
      /\ MaxOrderCash \in Nat /\ MaxPositionCash \in Nat
  BY CostAssumption, PolicyAssumption
<1>2. Down(requested * Reduction, RateScale) \in 0..requested
  <2> DEFINE d == (requested * Reduction) \div RateScale
  <2>1. requested * Reduction \in Nat /\ requested * Reduction <= requested * RateScale
    BY <1>1
  <2>2. d \in Nat /\ RateScale * d <= requested * Reduction
    BY <1>1, <2>1, DivBounds
  <2> HIDE DEF d
  <2>3. d <= requested
    <3>1. SUFFICES ASSUME d >= requested + 1 PROVE FALSE
      BY <2>2
    <3>2. RateScale * d >= RateScale * (requested + 1)
      BY <1>1, <2>2, <3>1
    <3>3. RateScale * (requested + 1) = requested * RateScale + RateScale
      BY <1>1
    <3> QED
      BY <1>1, <2>1, <2>2, <3>2, <3>3
  <2> QED
    BY <2>2, <2>3 DEF Down, d
<1>3. reduced \in 0..requested
  BY <1>2
<1> HIDE DEF reduced
<1>4. capped \in 0..requested /\ capped <= MaxOrderCash
  BY <1>1, <1>3 DEF Smaller
<1>5. CappedCash(requested, ctx, at) =
        IF room < capped THEN (IF room > 0 THEN room ELSE 0) ELSE capped
  BY DEF CappedCash, reduced
<1> HIDE DEF capped
<1> QED
  BY <1>1, <1>4, <1>5

-----------------------------------------------------------------------------

\* The outcome of a payload and the cash and quantity it carries.
LEMMA PayloadCases ==
  ASSUME NEW requested, NEW rows, NEW bank, NEW cashThere, NEW q, NEW ctx, NEW at
  PROVE  LET p        == Payload(requested, rows, bank, cashThere, q, ctx, at)
             cash     == CappedCash(requested, ctx, at)
             quantity == SizeFor(cash, q, bank)
         IN  \/ p.outcome = "reject" /\ p.cash = 0 /\ p.quantity = 0
             \/ /\ ContextComplete(ctx) /\ q # NoQuote
                /\ MarketReason(q, ctx, at) = "none"
                /\ SizeReason(cash, cashThere, q, bank) = "none"
                /\ p.quantity = quantity /\ p.cash = SizedCash(quantity, q)
                /\ p.outcome = IF p.cash < requested THEN "reduce" ELSE "approve"
BY DEF Payload, Rejected

\* Everything ApprovalsWithinLimits asks of an approval, of one payload.
LEMMA PayloadWithinLimits ==
  ASSUME NEW requested \in Nat \ {0}, NEW rows, NEW cashThere, NEW q \in QuoteRows \cup {NoQuote},
         NEW ctx \in Contexts, NEW at \in Nat,
         NEW p, p = Payload(requested, rows, Bank, cashThere, q, ctx, at)
  PROVE  /\ p.outcome \in {"approve", "reduce", "reject"}
         /\ p.cash \in Nat /\ p.quantity \in Nat
         /\ p.outcome # "reject" =>
               /\ q \in QuoteRows
               /\ p.cash <= requested /\ p.cash <= MaxOrderCash /\ p.cash <= MaxPositionCash
               /\ p.cash >= MinOrderCash /\ p.cash >= Bank.minTrade
               /\ p.quantity > 0 /\ (p.quantity % Bank.step) = 0
               /\ QuantityScale * p.cash <= p.quantity * q.sell
               /\ p.quantity * q.sell < QuantityScale * (p.cash + 1)
               /\ at - q.observed \in 0..Smaller(QuoteFreshness, MaxQuoteLag)
               /\ p.outcome = "approve" <=> p.cash = requested
               /\ q.sell > 0 /\ ctx.drawdown <= MaxDrawdown
               /\ ctx.positionCash + p.cash <= MaxPositionCash
               /\ cashThere \in Nat => p.cash <= cashThere
<1> DEFINE cash     == CappedCash(requested, ctx, at)
           quantity == SizeFor(cash, q, Bank)
<1>1. CASE p.outcome = "reject" /\ p.cash = 0 /\ p.quantity = 0
  BY <1>1
<1>2. CASE /\ ContextComplete(ctx) /\ q # NoQuote
           /\ MarketReason(q, ctx, at) = "none"
           /\ SizeReason(cash, cashThere, q, Bank) = "none"
           /\ p.quantity = quantity /\ p.cash = SizedCash(quantity, q)
           /\ p.outcome = IF p.cash < requested THEN "reduce" ELSE "approve"
  <2>1. /\ q \in QuoteRows /\ q.sell \in Nat /\ q.observed \in Nat
        /\ ctx.positionCash \in Nat
        /\ Bank.step \in Nat \ {0} /\ Bank.minTrade \in Nat
    BY <1>2, InputAssumption, ManagerAssumption DEF ContextComplete
  <2>2. /\ q.observed <= at /\ SpreadWithin(q)
        /\ at - q.observed <= QuoteFreshness /\ at - q.observed <= MaxQuoteLag
        /\ ctx.drawdown <= MaxDrawdown
    BY <1>2, MarketPasses
  <2>3. q.sell \in Nat \ {0}
    <3>1. /\ MaxSpread \in Nat /\ RateScale \in Nat
          /\ MaxSpread < RateScale \/ q.sell > 0
      BY <2>1, InputAssumption, CostAssumption, PolicyAssumption
    <3> QED
      BY <2>1, <2>2, <3>1 DEF SpreadWithin
  <2>4. /\ cash \in Nat /\ cash <= requested /\ cash <= MaxOrderCash /\ cash <= MaxPositionCash
        /\ cash > 0 => ctx.positionCash + cash <= MaxPositionCash
    BY <2>1, CapsHold
  <2>5. /\ quantity > 0 /\ cashThere >= cash
        /\ SizedCash(quantity, q) >= MinOrderCash /\ SizedCash(quantity, q) >= Bank.minTrade
    BY <1>2, SizePasses
  <2> HIDE DEF cash
  <2>6. /\ quantity \in Nat /\ (quantity % Bank.step) = 0
        /\ quantity * q.sell <= cash * QuantityScale
    BY <2>1, <2>3, <2>4, SizeFits
  <2> HIDE DEF quantity
  <2>7. /\ p.cash \in Nat /\ QuantityScale * p.cash <= quantity * q.sell
        /\ quantity * q.sell < QuantityScale * (p.cash + 1)
    <3>1. quantity * q.sell \in Nat /\ QuantityScale \in Nat \ {0}
      BY <2>3, <2>6, CostAssumption
    <3>2. p.cash = (quantity * q.sell) \div QuantityScale
      BY <1>2 DEF SizedCash, Down
    <3> QED
      BY <3>1, <3>2, DivBounds
  <2>8. p.cash <= cash
    <3>1. QuantityScale * p.cash <= cash * QuantityScale
      <4> DEFINE a == QuantityScale * p.cash
                 b == quantity * q.sell
                 c == cash * QuantityScale
      <4>1. a \in Int /\ b \in Int /\ c \in Int /\ a <= b /\ b <= c
        BY <2>3, <2>4, <2>6, <2>7, CostAssumption
      <4> HIDE DEF a, b, c
      <4>2. a <= c
        BY <4>1
      <4> QED
        BY <4>2 DEF a, c
    <3>2. SUFFICES ASSUME p.cash >= cash + 1 PROVE FALSE
      BY <2>4, <2>7
    <3>3. QuantityScale * p.cash >= QuantityScale * (cash + 1)
      BY <2>4, <2>7, <3>2, CostAssumption
    <3>4. QuantityScale * (cash + 1) = cash * QuantityScale + QuantityScale
      BY <2>4, CostAssumption
    <3> QED
      BY <2>4, <2>7, <3>1, <3>3, <3>4, CostAssumption
  <2>9. at - q.observed \in 0..Smaller(QuoteFreshness, MaxQuoteLag)
    BY <2>1, <2>2, PolicyAssumption DEF Smaller
  <2>10. /\ p.cash <= requested /\ p.cash <= MaxOrderCash /\ p.cash <= MaxPositionCash
    BY <2>4, <2>7, <2>8, PolicyAssumption
  <2>11. /\ ctx.positionCash + p.cash <= MaxPositionCash
         /\ cashThere \in Nat => p.cash <= cashThere
    <3>1. p.cash \in Nat \ {0} /\ ctx.positionCash \in Nat /\ MaxPositionCash \in Nat
      BY <1>2, <2>1, <2>5, <2>7, PolicyAssumption
    <3>2. cash > 0 /\ ctx.positionCash + cash <= MaxPositionCash
      BY <2>4, <2>8, <3>1
    <3> QED
      BY <2>4, <2>5, <2>8, <3>1, <3>2
  <2>12. p.outcome \in {"approve", "reduce"} /\ (p.outcome = "approve" <=> p.cash = requested)
    BY <1>2, <2>7, <2>10
  <2> QED
    BY <1>2, <2>1, <2>2, <2>3, <2>5, <2>6, <2>7, <2>9, <2>10, <2>11, <2>12
<1> QED
  BY <1>1, <1>2, PayloadCases

-----------------------------------------------------------------------------

Rows == QuoteRows \cup {NoQuote}

\* A decision's row, given the quotes: what TypeOK and ApprovalsWithinLimits say of it,
\* and that an approval names a stored quote.
RowIsSound(n, row, quotes) ==
    /\ row.outcome \in {"approve", "reduce", "reject"}
    /\ row.cash \in Nat /\ row.quantity \in Nat
    /\ row.quote \in QuoteIds \cup {NoQuote} /\ row.at \in 0..MaxTime
    /\ row.outcome # "reject" =>
          /\ row.quote \in QuoteIds /\ quotes[row.quote] \in QuoteRows
          /\ row.cash <= Requested[n] /\ row.cash <= MaxOrderCash /\ row.cash <= MaxPositionCash
          /\ row.cash >= MinOrderCash /\ row.cash >= Bank.minTrade
          /\ row.quantity > 0 /\ (row.quantity % Bank.step) = 0
          /\ QuantityScale * row.cash <= row.quantity * quotes[row.quote].sell
          /\ row.quantity * quotes[row.quote].sell < QuantityScale * (row.cash + 1)
          /\ row.at - quotes[row.quote].observed \in 0..Smaller(QuoteFreshness, MaxQuoteLag)
          /\ quotes[row.quote].instrument = Instrument /\ quotes[row.quote].source = Source
          /\ row.outcome = "approve" <=> row.cash = Requested[n]

RiskInv ==
    /\ now \in 0..MaxTime
    /\ quote \in [QuoteIds -> Rows]
    /\ available \in Balances
    /\ listing \in Listings
    /\ \A n \in Intents : decision[n] # NoDecision => RowIsSound(n, decision[n], quote)

LEMMA RiskInitial == Init => RiskInv
BY ManagerAssumption DEF Init, RiskInv, Rows

\* The rows _latest_quote may return: none, or a row of the account's instrument.
LEMMA QuoteOfKey ==
  ASSUME RiskInv, NEW k \in QuotesFor(now)
  PROVE  \/ k = NoQuote
         \/ /\ k \in QuoteIds /\ k # NoQuote /\ quote[k] \in QuoteRows
            /\ quote[k].instrument = Instrument /\ quote[k].source = Source
BY InputAssumption DEF QuotesFor, LatestQuotes, RiskInv, Rows

LEMMA EvaluateKeeps ==
  ASSUME RiskInv, NEW n \in Intents, NEW ctx \in Contexts, Evaluate(n, ctx)
  PROVE  RiskInv'
<1>1. PICK k \in QuotesFor(now) :
        decision' = [decision EXCEPT ![n] = Row(PayloadOf(n, ctx, k), k, now)]
  BY DEF Evaluate
<1> DEFINE q   == IF k = NoQuote THEN NoQuote ELSE quote[k]
           p   == PayloadOf(n, ctx, k)
           row == Row(p, k, now)
<1>2. \/ k = NoQuote
      \/ /\ k \in QuoteIds /\ k # NoQuote /\ quote[k] \in QuoteRows
         /\ quote[k].instrument = Instrument /\ quote[k].source = Source
  BY QuoteOfKey
<1>3. Requested[n] \in Nat \ {0} /\ now \in Nat /\ now \in 0..MaxTime
  BY ManagerAssumption DEF RiskInv
<1>4. /\ p.outcome \in {"approve", "reduce", "reject"}
      /\ p.cash \in Nat /\ p.quantity \in Nat
      /\ p.outcome # "reject" =>
            /\ q \in QuoteRows
            /\ p.cash <= Requested[n] /\ p.cash <= MaxOrderCash /\ p.cash <= MaxPositionCash
            /\ p.cash >= MinOrderCash /\ p.cash >= Bank.minTrade
            /\ p.quantity > 0 /\ (p.quantity % Bank.step) = 0
            /\ QuantityScale * p.cash <= p.quantity * q.sell
            /\ p.quantity * q.sell < QuantityScale * (p.cash + 1)
            /\ now - q.observed \in 0..Smaller(QuoteFreshness, MaxQuoteLag)
            /\ p.outcome = "approve" <=> p.cash = Requested[n]
  <2>1. q \in QuoteRows \cup {NoQuote}
    BY <1>2
  <2>2. p = Payload(Requested[n], listing, Bank, available, q, ctx, now)
    BY DEF PayloadOf
  <2> HIDE DEF p, q
  <2> QED
    BY <1>3, <2>1, <2>2, PayloadWithinLimits
<1>5. /\ row.outcome = p.outcome /\ row.cash = p.cash /\ row.quantity = p.quantity
      /\ row.quote = k /\ row.at = now
  BY DEF Row
<1> HIDE DEF p, row
<1>6. RowIsSound(n, row, quote)
  <2>1. CASE p.outcome = "reject"
    BY <1>2, <1>3, <1>4, <1>5, <2>1 DEF RowIsSound
  <2>2. CASE p.outcome # "reject"
    <3>1. q \in QuoteRows
      BY <1>4, <2>2
    <3>2. k \in QuoteIds /\ q = quote[k] /\ q.instrument = Instrument /\ q.source = Source
      BY <1>2, <3>1, InputAssumption
    <3> HIDE DEF q
    <3> QED
      BY <1>3, <1>4, <1>5, <2>2, <3>1, <3>2 DEF RowIsSound
  <2> QED
    BY <2>1, <2>2
<1>7. UNCHANGED <<now, quote, available, listing>>
  BY DEF Evaluate
<1>8. \A m \in Intents : decision'[m] # NoDecision =>
        decision'[m] = decision[m] \/ (m = n /\ decision'[m] = row)
  BY <1>1 DEF row, p
<1> QED
  BY <1>6, <1>7, <1>8 DEF RiskInv

LEMMA CollectKeeps == ASSUME RiskInv, NEW k \in QuoteIds, Collect(k) PROVE RiskInv'
<1>1. PICK new \in QuoteRows : quote' = [quote EXCEPT ![k] = new]
  BY DEF Collect
<1>2. /\ quote[k] = NoQuote /\ NoQuote \notin QuoteRows
      /\ quote \in [QuoteIds -> Rows] /\ UNCHANGED <<now, available, listing, decision>>
  BY InputAssumption DEF Collect, RiskInv
<1>3. quote' \in [QuoteIds -> Rows]
  BY <1>1, <1>2 DEF Rows
<1>4. ASSUME NEW n \in Intents, decision[n] # NoDecision
      PROVE  RowIsSound(n, decision[n], quote')
  <2>1. RowIsSound(n, decision[n], quote)
    BY <1>4 DEF RiskInv
  <2>2. decision[n].outcome # "reject" => quote'[decision[n].quote] = quote[decision[n].quote]
    BY <1>1, <1>2, <2>1 DEF RowIsSound
  <2> QED
    BY <2>1, <2>2 DEF RowIsSound
<1> QED
  BY <1>2, <1>3, <1>4 DEF RiskInv

LEMMA RiskInvariant == Spec => []RiskInv
<1>1. ASSUME RiskInv, [Next]_vars PROVE RiskInv'
  <2>1. CASE UNCHANGED vars
    BY <1>1, <2>1 DEF vars, RiskInv
  <2>2. CASE Advance
    BY <1>1, <2>2, ManagerAssumption DEF Advance, RiskInv
  <2>3. CASE MoveCash
    BY <1>1, <2>3 DEF MoveCash, RiskInv
  <2>4. CASE Relist
    BY <1>1, <2>4 DEF Relist, RiskInv
  <2> QED
    BY <1>1, <2>1, <2>2, <2>3, <2>4, EvaluateKeeps, CollectKeeps DEF Next
<1> QED
  BY RiskInitial, <1>1, PTL DEF Spec

\* For any policy, bank, quotes and order of evaluations: an approval is within what was
\* asked for and every limit, is a whole number of the bank's steps worth the cash it
\* names, and was made on a quote of the account's instrument that was fresh then
\* (RiskManager._evaluate_payload).
THEOREM ApprovalsStayWithinLimits == Spec => []ApprovalsWithinLimits
<1>1. RiskInv => ApprovalsWithinLimits
  <2> SUFFICES ASSUME RiskInv PROVE ApprovalsWithinLimits
    OBVIOUS
  <2>1. TypeOK
    BY DEF RiskInv, TypeOK, RowIsSound, Rows
  <2>2. ASSUME NEW n \in Intents, Approving(decision[n])
        PROVE  /\ RowIsSound(n, decision[n], quote) /\ decision[n].outcome # "reject"
               /\ decision[n].cash <= Smaller(Requested[n], Smaller(MaxOrderCash, MaxPositionCash))
    BY <2>2 DEF RiskInv, Approving, RowIsSound, Smaller
  <2> QED
    BY <2>1, <2>2 DEF ApprovalsWithinLimits, RowIsSound
<1> QED
  BY RiskInvariant, <1>1, PTL

\* The next size on the bank's grid costs more than the cash.
LEMMA NextSizeCostsMore ==
  ASSUME NEW cash \in Nat, NEW q, NEW bank, q.sell \in Nat \ {0}, bank.step \in Nat \ {0}
  PROVE  (SizeFor(cash, q, bank) + bank.step) * q.sell > cash * QuantityScale
<1> DEFINE s == q.sell
           t == bank.step
           c == cash * QuantityScale
           n == c \div (s * t)
<1>1. QuantityScale \in Nat /\ s \in Nat \ {0} /\ t \in Nat \ {0}
  BY CostAssumption
<1>2. c \in Nat /\ s * t \in Nat \ {0}
  BY <1>1
<1>3. SizeFor(cash, q, bank) = t * n
  BY DEF SizeFor
<1> HIDE DEF s, t, c
<1>4. n \in Nat /\ c < (s * t) * (n + 1)
  BY <1>2, DivBounds
<1> HIDE DEF n
<1>5. (t * n + t) * s = (s * t) * (n + 1)
  BY <1>1, <1>4
<1> QED
  BY <1>3, <1>4, <1>5 DEF s, t, c

\* Whatever the limits, the size is the largest they allow: the next quantity on the
\* bank's grid costs more than the caps leave, and the wallet holds what they leave.
THEOREM SizesAreMaximal == Spec => []NoLargerSizeFits
<1>1. RiskInv => NoLargerSizeFits
  <2>1. SUFFICES ASSUME RiskInv, NEW n \in Intents, NEW ctx \in Contexts, NEW k \in QuotesFor(now),
                        PayloadOf(n, ctx, k).outcome # "reject"
                 PROVE  LET cap == CappedCash(Requested[n], ctx, now)
                        IN  /\ cap <= available
                            /\ PayloadOf(n, ctx, k).quantity * quote[k].sell <= cap * QuantityScale
                            /\ (PayloadOf(n, ctx, k).quantity + Bank.step) * quote[k].sell
                                  > cap * QuantityScale
    BY DEF NoLargerSizeFits
  <2> DEFINE q   == IF k = NoQuote THEN NoQuote ELSE quote[k]
             cap == CappedCash(Requested[n], ctx, now)
  <2>2. /\ ContextComplete(ctx) /\ q # NoQuote
        /\ MarketReason(q, ctx, now) = "none" /\ SizeReason(cap, available, q, Bank) = "none"
        /\ PayloadOf(n, ctx, k).quantity = SizeFor(cap, q, Bank)
    BY <2>1, PayloadCases DEF PayloadOf
  <2>3. q = quote[k] /\ q \in QuoteRows
    BY <2>1, <2>2, QuoteOfKey
  <2>4. q.sell \in Nat \ {0}
    <3>1. SpreadWithin(q)
      BY <2>2, MarketPasses
    <3>2. /\ MaxSpread \in Nat /\ RateScale \in Nat /\ q.sell \in Nat
          /\ MaxSpread < RateScale \/ q.sell > 0
      BY <2>3, InputAssumption, CostAssumption, PolicyAssumption
    <3> QED
      BY <3>1, <3>2 DEF SpreadWithin
  <2>5. cap \in Nat /\ Bank.step \in Nat \ {0}
    BY <2>2, CapsHold, InputAssumption, ManagerAssumption DEF ContextComplete
  <2>6. cap <= available
    BY <2>2, SizePasses
  <2> HIDE DEF cap, q
  <2>7. SizeFor(cap, q, Bank) * q.sell <= cap * QuantityScale
    BY <2>4, <2>5, SizeFits
  <2>8. (SizeFor(cap, q, Bank) + Bank.step) * q.sell > cap * QuantityScale
    BY <2>4, <2>5, NextSizeCostsMore
  <2> QED
    BY <2>2, <2>3, <2>6, <2>7, <2>8 DEF cap
<1> QED
  BY RiskInvariant, <1>1, PTL

\* No approval is made on an older quote than the newest one observed by then, whatever
\* the quotes and however many arrive (RiskManager._latest_quote).
THEOREM NewestQuoteIsUsed == Spec => UsesNewestQuote
<1> DEFINE Newest ==
      \A n \in Intents :
        (decision'[n] # decision[n] /\ Approving(decision'[n])) =>
            \A k \in QuoteIds :
                (quote[k] # NoQuote /\ quote[k].instrument = Instrument
                    /\ quote[k].source = Source /\ quote[k].observed <= now)
                => quote[k].observed <= quote[decision'[n].quote].observed
<1>1. ASSUME RiskInv, RiskInv', Next PROVE Newest
  <2>1. CASE UNCHANGED decision
    BY <2>1
  <2>2. ASSUME NEW m \in Intents, NEW ctx \in Contexts, Evaluate(m, ctx) PROVE Newest
    <3>1. PICK j \in QuotesFor(now) :
            decision' = [decision EXCEPT ![m] = Row(PayloadOf(m, ctx, j), j, now)]
      BY <2>2 DEF Evaluate
    <3>2. SUFFICES ASSUME NEW n \in Intents, decision'[n] # decision[n], Approving(decision'[n]),
                          NEW k \in QuoteIds, quote[k] # NoQuote,
                          quote[k].instrument = Instrument, quote[k].source = Source,
                          quote[k].observed <= now
                   PROVE  quote[k].observed <= quote[decision'[n].quote].observed
      OBVIOUS
    <3>3. n = m /\ decision'[n].quote = j
      BY <3>1, <3>2 DEF Row
    <3>4. decision'[n].quote \in QuoteIds
      BY <1>1, <3>2 DEF RiskInv, Approving, RowIsSound
    <3>5. quote[k] \in QuoteRows
      BY <1>1, <3>2 DEF RiskInv, Rows
    <3>6. j \in LatestQuotes(quote, Instrument, Source, now)
      BY <3>3, <3>4, InputAssumption DEF QuotesFor
    <3>7. quote[j] \in QuoteRows /\ ~(quote[k].observed > quote[j].observed)
      BY <1>1, <3>2, <3>6 DEF LatestQuotes, RiskInv, Rows
    <3> QED
      BY <3>3, <3>5, <3>7, InputAssumption
  <2>3. CASE ~UNCHANGED decision
    <3>1. PICK m \in Intents, ctx \in Contexts : Evaluate(m, ctx)
      BY <1>1, <2>3 DEF Next, Advance, Collect, MoveCash, Relist
    <3> QED
      BY <2>2, <3>1
  <2> QED
    BY <2>1, <2>3
<1>2. RiskInv /\ RiskInv' /\ [Next]_vars => [Newest]_vars
  BY <1>1
<1>3. Spec => [][Newest]_vars
  BY RiskInvariant, <1>2, PTL DEF Spec
<1> QED
  BY <1>3 DEF UsesNewestQuote

\* A listing passes the resolver only when nothing about it is missing or closed.
LEMMA ListingPasses ==
  ASSUME NEW l, ExecutionReason(l) = "none"
  PROVE  /\ l.known /\ l.active /\ l.sameVenue /\ l.allowed /\ l.hasBank
         /\ l.bankActive /\ l.sameBank /\ l.mapped /\ l.matches
<1> DEFINE p1 == l.known
           p2 == l.active
           p3 == l.sameVenue
           p4 == l.allowed
           p5 == l.hasBank
           p6 == l.bankActive
           p7 == l.sameBank
           p8 == l.mapped
           p9 == l.matches
           checks == << <<p1, "execution_instrument_not_found">>,
                        <<p2, "execution_instrument_inactive">>,
                        <<p3, "execution_instrument_wrong_venue">>,
                        <<p4, "execution_instrument_not_allowed">>,
                        <<p5, "missing_bank_instrument">>,
                        <<p6, "bank_instrument_inactive">>,
                        <<p7, "bank_instrument_wrong_bank">>,
                        <<p8, "missing_reference_execution_mapping">>,
                        <<p9, "execution_instrument_mismatch">> >>
<1>1. FirstFailure(checks) = "none"
  BY DEF ExecutionReason
<1> HIDE DEF p1, p2, p3, p4, p5, p6, p7, p8, p9
<1>2. DOMAIN checks = 1..9 /\ \A n \in 1..9 : checks[n][2] # "none"
  OBVIOUS
<1>3. /\ checks[1][1] => p1
      /\ checks[2][1] => p2
      /\ checks[3][1] => p3
      /\ checks[4][1] => p4
      /\ checks[5][1] => p5
      /\ checks[6][1] => p6
      /\ checks[7][1] => p7
      /\ checks[8][1] => p8
      /\ checks[9][1] => p9
  OBVIOUS
<1>4. \A n \in 1..9 : checks[n][1]
  <2> HIDE DEF checks
  <2> QED
    BY <1>1, <1>2, AllChecksPass
<1>5. p1 /\ p2 /\ p3 /\ p4 /\ p5 /\ p6 /\ p7 /\ p8 /\ p9
  <2> HIDE DEF checks
  <2> QED
    BY <1>3, <1>4
<1> QED
  BY <1>5 DEF p1, p2, p3, p4, p5, p6, p7, p8, p9

\* No other input makes up for one that is missing or for a listing that is closed.
THEOREM MissingIsRefused == Spec => []NothingMissingIsApproved
<1>1. NothingMissingIsApproved
  <2>1. SUFFICES ASSUME NEW n \in Intents, NEW ctx \in Contexts, NEW k \in QuotesFor(now),
                        PayloadOf(n, ctx, k).outcome # "reject"
                 PROVE  /\ ContextComplete(ctx) /\ available # Missing /\ k # NoQuote
                        /\ \A f \in {"known", "active", "sameVenue", "allowed", "hasBank",
                                     "bankActive", "sameBank", "mapped", "matches"} : listing[f]
    BY Zenon DEF NothingMissingIsApproved
  <2>2. /\ ContextComplete(ctx) /\ available # Missing /\ k # NoQuote
        /\ ExecutionReason(listing) = "none"
    BY <2>1 DEF PayloadOf, Payload, Rejected
  <2> QED
    BY <2>2, ListingPasses
<1> QED
  BY <1>1, PTL

=============================================================================

---------------------------- MODULE RiskPolicy -----------------------------
(***************************************************************************)
(* How RiskManager turns one intent into approve, reduce or reject         *)
(* (risks/service.py): the account-bound resolution, the event-risk        *)
(* overlay, the ordered refusals and the sizing.  Pure: no state.          *)
(***************************************************************************)
EXTENDS CostModel, Sequences

CONSTANTS
    MaxPositionCash, MaxOrderCash, MinOrderCash,  \* money quanta
    MaxDailyLoss, MaxDrawdown, MinEdge,           \* compared with the context
    MaxDivergence,            \* max_source_divergence_pct, or Missing
    QuoteFreshness,           \* min_quote_freshness, in clock units
    MaxQuoteLag,              \* max_quote_lag, in clock units
    MaxSpread,                \* max_spread_pct, over RateScale
    MinConfidence,            \* min_event_risk_confidence
    Reduction,                \* event_risk_reduction_factor, over RateScale
    Missing,                  \* a value the caller left out (None)
    NoQuote,                  \* no row matches the query
    NoEvent                   \* RiskContext.event_risk is None

\* RiskPolicy.__post_init__
ASSUME PolicyAssumption ==
    /\ {MaxPositionCash, MaxOrderCash, MinOrderCash, QuoteFreshness} \subseteq Nat \ {0}
    /\ {MaxDailyLoss, MaxDrawdown, MaxQuoteLag, MaxSpread, MinConfidence} \subseteq Nat
    /\ MinEdge \in Int
    /\ Reduction \in 1..RateScale

Smaller(x, y) == IF x < y THEN x ELSE y

\* The ordered early returns of a handler: the reason of the first check that
\* fails, "none" when all hold.
FirstFailure(checks) ==
    LET failing == {n \in DOMAIN checks : ~checks[n][1]}
    IN  IF failing = {} THEN "none"
        ELSE checks[CHOOSE n \in failing : \A m \in failing : n <= m][2]

-----------------------------------------------------------------------------

\* Mutant: a missing reference mapping is not noticed.
ExecutionReasonUnmapped(listing) ==
    FirstFailure(<<
        <<listing.known,     "execution_instrument_not_found">>,
        <<listing.active,    "execution_instrument_inactive">>,
        <<listing.allowed,   "execution_instrument_not_allowed">>,
        <<listing.hasBank,   "missing_bank_instrument">> >>)

\* AccountBoundExecutionResolver.resolve over what it finds in the database.
\* mapped is about a strategy run on a reference market, matches about one run on
\* an execution instrument; the check of the other kind holds.
ExecutionReason(listing) ==
    FirstFailure(<<
        <<listing.known,       "execution_instrument_not_found">>,
        <<listing.active,      "execution_instrument_inactive">>,
        <<listing.sameVenue,   "execution_instrument_wrong_venue">>,
        <<listing.allowed,     "execution_instrument_not_allowed">>,
        <<listing.hasBank,     "missing_bank_instrument">>,
        <<listing.bankActive,  "bank_instrument_inactive">>,
        <<listing.sameBank,    "bank_instrument_wrong_bank">>,
        <<listing.mapped,      "missing_reference_execution_mapping">>,
        <<listing.matches,     "execution_instrument_mismatch">> >>)

\* _event_risk_action with EventRiskContext.is_active_at: the expiry is exclusive.
EventAction(event, at) ==
    IF /\ event # NoEvent
       /\ event.from <= at /\ at < event.until
       /\ event.confidence >= MinConfidence
       /\ event.action \in {"veto", "no_trade", "reduce_risk"}
    THEN event.action ELSE "none"

\* Mutant: the query lost its ordering.
LatestQuotesUnordered(quote, instrument, source, at) ==
    {k \in DOMAIN quote : /\ quote[k] # NoQuote
                          /\ quote[k].instrument = instrument
                          /\ quote[k].source = source
                          /\ quote[k].observed <= at}

\* _latest_quote: the newest row observed at or before the evaluation, by
\* observed_at and then fetched_at.  A set, since equal rows may tie.
LatestQuotes(quote, instrument, source, at) ==
    LET seen == {k \in DOMAIN quote :
                   /\ quote[k] # NoQuote
                   /\ quote[k].instrument = instrument
                   /\ quote[k].source = source
                   /\ quote[k].observed <= at}
        newer(j, k) ==
            \/ quote[j].observed > quote[k].observed
            \/ quote[j].observed = quote[k].observed /\ quote[j].fetched > quote[k].fetched
    IN  {k \in seen : ~\E j \in seen : newer(j, k)}

-----------------------------------------------------------------------------

ContextComplete(ctx) ==
    /\ Missing \notin {ctx.positionCash, ctx.drawdown, ctx.dailyLoss, ctx.edge}
    /\ MaxDivergence # Missing => ctx.divergence # Missing

\* _spread_pct(q) <= max_spread_pct; a price of zero counts as a spread of one.
SpreadWithin(q) ==
    IF q.sell <= 0 THEN RateScale <= MaxSpread
                   ELSE (q.sell - q.buy) * RateScale <= MaxSpread * q.sell

\* Mutant: the status stored with the quote is trusted for ever.
MarketReasonTrustsStatus(q, ctx, at) ==
    FirstFailure(<< <<q.status = "fresh", "stale_execution_quote">>,
                    <<SpreadWithin(q),    "spread_above_threshold">> >>)

\* The refusals that need the quote, in the order of _evaluate_payload.
MarketReason(q, ctx, at) ==
    LET age == at - q.observed
    IN  FirstFailure(<<
            <<q.status = "fresh",       "stale_execution_quote">>,
            <<q.observed <= at,         "future_quote">>,
            <<age <= QuoteFreshness,    "stale_execution_quote">>,
            <<age <= MaxQuoteLag,       "stale_execution_quote">>,
            <<SpreadWithin(q),          "spread_above_threshold">>,
            <<ctx.dailyLoss <= MaxDailyLoss, "daily_loss_limit_breached">>,
            <<ctx.drawdown <= MaxDrawdown,   "max_drawdown_breached">>,
            <<~ctx.cooldown,            "cooldown_active">>,
            <<~ctx.noTrade,             "no_trade_window_active">>,
            <<EventAction(ctx.event, at) # "veto",     "event_risk_veto">>,
            <<EventAction(ctx.event, at) # "no_trade", "event_risk_no_trade">>,
            <<\/ MaxDivergence = Missing
              \/ ctx.divergence <= MaxDivergence, "source_divergence_above_threshold">>,
            <<ctx.edge >= MinEdge,      "expected_edge_below_costs">> >>)

\* Mutant: the order limit is forgotten.
CappedCashNoOrderLimit(requested, ctx, at) ==
    Smaller(requested, MaxPositionCash - ctx.positionCash)

\* The cash an order may use: halved by event risk, capped by the order limit
\* and by the room the position limit leaves.
CappedCash(requested, ctx, at) ==
    LET reduced == IF EventAction(ctx.event, at) = "reduce_risk"
                   THEN Down(requested * Reduction, RateScale) ELSE requested
        capped  == IF requested > MaxOrderCash THEN Smaller(reduced, MaxOrderCash)
                                               ELSE reduced
        room    == MaxPositionCash - ctx.positionCash
    IN  IF room < capped THEN (IF room > 0 THEN room ELSE 0) ELSE capped

\* Mutant: the size is computed from the price the bank pays.
SizeForBuyPrice(cash, q, bank) ==
    bank.step * ((cash * QuantityScale) \div (q.buy * bank.step))

\* The metal that cash buys at the bank's sell price, whatever the side of the
\* intent, rounded down to the bank's quantity step.
SizeFor(cash, q, bank) ==
    bank.step * ((cash * QuantityScale) \div (q.sell * bank.step))

SizedCash(quantity, q) == Down(quantity * q.sell, QuantityScale)

SizeReason(cash, available, q, bank) ==
    LET quantity == SizeFor(cash, q, bank)
    IN  FirstFailure(<<
            <<available >= cash,      "insufficient_balance">>,
            <<cash >= MinOrderCash,   "approved_size_below_min_order">>,
            <<cash >= bank.minTrade,  "approved_size_below_bank_min_trade">>,
            <<quantity > 0,           "approved_quantity_below_precision">>,
            <<SizedCash(quantity, q) >= MinOrderCash,
                "approved_size_below_min_order_after_precision">>,
            <<SizedCash(quantity, q) >= bank.minTrade,
                "approved_size_below_bank_min_trade_after_precision">> >>)

Rejected(reason) ==
    [outcome |-> "reject", cash |-> 0, quantity |-> 0, reason |-> reason]

\* _evaluate_payload.  available is the wallet's cash or Missing, q the quote
\* row or NoQuote.
Payload(requested, listing, bank, available, q, ctx, at) ==
    IF ~ContextComplete(ctx) THEN Rejected("missing_risk_context")
    ELSE IF ExecutionReason(listing) # "none" THEN Rejected(ExecutionReason(listing))
    ELSE IF available = Missing THEN Rejected("missing_base_currency_wallet")
    ELSE IF q = NoQuote THEN Rejected("missing_execution_quote")
    ELSE IF MarketReason(q, ctx, at) # "none" THEN Rejected(MarketReason(q, ctx, at))
    ELSE LET cash     == CappedCash(requested, ctx, at)
             quantity == SizeFor(cash, q, bank)
         IN  IF SizeReason(cash, available, q, bank) # "none"
             THEN Rejected(SizeReason(cash, available, q, bank))
             ELSE [ outcome  |-> IF SizedCash(quantity, q) < requested
                                 THEN "reduce" ELSE "approve",
                    cash     |-> SizedCash(quantity, q),
                    quantity |-> quantity,
                    reason   |-> "none" ]

=============================================================================

---------------------------- MODULE RiskManager ----------------------------
(***************************************************************************)
(* RiskManager.evaluate (risks/service.py) as a handler over database rows  *)
(* that others keep changing: quotes arrive, the wallet moves, an operator  *)
(* switches a listing off, and an intent may be evaluated again, because    *)
(* nothing ever takes it out of pending_risk.                               *)
(***************************************************************************)
EXTENDS RiskPolicy, FiniteSets

CONSTANTS Intents,
          Requested,      \* [Intents -> Nat \ {0}]: TradeIntentModel.cash_amount
          Instrument, Source,   \* what the context names
          Bank,           \* [step, minTrade]: the bank instrument's limits
          QuoteIds, QuoteRows,  \* the quotes a collector may insert
          Listings,       \* what the resolver may find
          Contexts,       \* the RiskContext inputs a caller may pass
          Balances,       \* what the wallet may hold, or Missing
          NoDecision,
          MaxTime         \* bound on the clock

VARIABLES now, quote, available, listing, decision

vars == <<now, quote, available, listing, decision>>

ASSUME ManagerAssumption ==
    /\ Requested \in [Intents -> Nat \ {0}]
    /\ Bank.step \in Nat \ {0} /\ Bank.minTrade \in Nat
    /\ MaxTime \in Nat

\* The table keeps prices non-negative; a price of zero is refused for its spread
\* as long as the policy allows less than all of the price.
ASSUME InputAssumption ==
    /\ NoQuote \notin QuoteIds /\ NoQuote \notin QuoteRows
    /\ \A q \in QuoteRows : q.observed \in Nat /\ q.sell \in Nat /\ q.buy \in Nat
    /\ MaxSpread < RateScale \/ \A q \in QuoteRows : q.sell > 0
    /\ \A ctx \in Contexts : ctx.positionCash \in Nat \cup {Missing}
    /\ Balances \subseteq Nat \cup {Missing}

\* Mutant: the row is stamped with the next instant.
RowStampedLate(payload, k, at) ==
    [ outcome |-> payload.outcome, cash |-> payload.cash, quantity |-> payload.quantity,
      quote |-> k, at |-> at + 1 ]

\* The columns of risk_decisions that are read again; the reasons only explain.
Row(payload, k, at) ==
    [ outcome |-> payload.outcome, cash |-> payload.cash, quantity |-> payload.quantity,
      quote |-> k, at |-> at ]

TypeOK ==
    /\ now \in 0..MaxTime
    /\ quote \in [QuoteIds -> QuoteRows \cup {NoQuote}]
    /\ available \in Balances
    /\ listing \in Listings
    /\ \A n \in Intents : decision[n] # NoDecision =>
          /\ decision[n].outcome \in {"approve", "reduce", "reject"}
          /\ decision[n].cash \in Nat /\ decision[n].quantity \in Nat
          /\ decision[n].quote \in QuoteIds \cup {NoQuote}
          /\ decision[n].at \in 0..MaxTime

Init ==
    /\ now = 0
    /\ quote = [k \in QuoteIds |-> NoQuote]
    /\ available \in Balances
    /\ listing \in Listings
    /\ decision = [n \in Intents |-> NoDecision]

-----------------------------------------------------------------------------

\* The ids _latest_quote may return; without a bank instrument it is not asked.
QuotesFor(at) ==
    LET found == LatestQuotes(quote, Instrument, Source, at)
    IN  IF ~listing.hasBank \/ found = {} THEN {NoQuote} ELSE found

PayloadOf(n, ctx, k) ==
    Payload(Requested[n], listing, Bank, available,
            IF k = NoQuote THEN NoQuote ELSE quote[k], ctx, now)

\* evaluate: an account that is not active raises, any other call inserts the
\* row of the intent and policy version or overwrites it.
Evaluate(n, ctx) ==
    /\ listing.accountActive
    /\ \E k \in QuotesFor(now) :
          decision' = [decision EXCEPT ![n] = Row(PayloadOf(n, ctx, k), k, now)]
    /\ UNCHANGED <<now, quote, available, listing>>

\* The rest of the system.
Advance ==
    /\ now < MaxTime
    /\ now' = now + 1
    /\ UNCHANGED <<quote, available, listing, decision>>

Collect(k) ==
    /\ quote[k] = NoQuote
    /\ \E row \in QuoteRows :
          row.fetched <= now /\ quote' = [quote EXCEPT ![k] = row]
    /\ UNCHANGED <<now, available, listing, decision>>

MoveCash ==
    /\ available # Missing
    /\ available' \in Balances \ {available, Missing}
    /\ UNCHANGED <<now, quote, listing, decision>>

Relist ==
    /\ listing' \in Listings \ {listing}
    /\ UNCHANGED <<now, quote, available, decision>>

Next ==
    \/ \E n \in Intents, ctx \in Contexts : Evaluate(n, ctx)
    \/ Advance
    \/ \E k \in QuoteIds : Collect(k)
    \/ MoveCash
    \/ Relist

Spec == Init /\ [][Next]_vars

-----------------------------------------------------------------------------
(* Properties *)

Approving(row) == row # NoDecision /\ row.outcome \in {"approve", "reduce"}

\* Rows are well formed, and an approval stays inside every limit at once, whichever of them did the
\* reducing, on a quote that was fresh when it was used (plan/phase-07: sizes
\* above account, policy, or instrument limits; stale quotes).
ApprovalsWithinLimits ==
    TypeOK /\ \A n \in Intents : Approving(decision[n]) =>
        LET row == decision[n]
            q   == quote[row.quote]
        IN  /\ row.cash <= Smaller(Requested[n], Smaller(MaxOrderCash, MaxPositionCash))
            /\ row.cash >= MinOrderCash /\ row.cash >= Bank.minTrade
            /\ row.quantity > 0 /\ row.quantity % Bank.step = 0
            /\ QuantityScale * row.cash <= row.quantity * q.sell
            /\ row.quantity * q.sell < QuantityScale * (row.cash + 1)
            /\ row.at - q.observed \in 0..Smaller(QuoteFreshness, MaxQuoteLag)
            /\ q.instrument = Instrument /\ q.source = Source
            /\ row.outcome = "approve" <=> row.cash = Requested[n]

\* A decision is made on the newest price there is: an approval never uses a
\* quote when a later one had already been observed by then.
UsesNewestQuote ==
    [][\A n \in Intents :
        (decision'[n] # decision[n] /\ Approving(decision'[n])) =>
            \A k \in QuoteIds :
                (quote[k] # NoQuote /\ quote[k].instrument = Instrument
                    /\ quote[k].source = Source /\ quote[k].observed <= now)
                => quote[k].observed <= quote[decision'[n].quote].observed]_vars

\* The size is the best the limits allow: no larger quantity on the bank's grid
\* costs, at the price used, no more than what the caps and the wallet leave.
NoLargerSizeFits ==
    \A n \in Intents, ctx \in Contexts : \A k \in QuotesFor(now) :
        LET p == PayloadOf(n, ctx, k)
            cap == CappedCash(Requested[n], ctx, now)
        IN  p.outcome # "reject" =>
                /\ cap <= available
                /\ p.quantity * quote[k].sell <= cap * QuantityScale
                /\ (p.quantity + Bank.step) * quote[k].sell > cap * QuantityScale

\* A call that leaves an input out, or finds the listing closed, is refused
\* whatever the rest says (plan/phase-07: missing inputs are not safe).
NothingMissingIsApproved ==
    \A n \in Intents, ctx \in Contexts : \A k \in QuotesFor(now) :
        \/ ~ContextComplete(ctx)
        \/ available = Missing
        \/ k = NoQuote
        \/ \E f \in {"known", "active", "sameVenue", "allowed", "hasBank",
                     "bankActive", "sameBank", "mapped", "matches"} : ~listing[f]
        => PayloadOf(n, ctx, k).outcome = "reject"

=============================================================================

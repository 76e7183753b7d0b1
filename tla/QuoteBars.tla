------------------------------ MODULE QuoteBars ------------------------------
(***************************************************************************)
(* Bank quotes and the execution bars built from them                       *)
(* (collectors/price_collector.py).  Two processes persist quotes of the    *)
(* same instrument: the worker, whose tick also builds the last closed bar  *)
(* and commits at its end, and the optional collector, which commits each   *)
(* quote.  Each looks for an equal row first and inserts after that, and    *)
(* the table has no unique constraint.                                      *)
(*                                                                          *)
(* Interval i is [i * Width, (i + 1) * Width).  A price stands for the      *)
(* payload: its mid price and its source hash.                              *)
(***************************************************************************)
EXTENDS Integers, Sequences, FiniteSets, FiniteSetsExt, Functions

CONSTANTS Prices,
          NoQuote, NoCandle, NotBuilt, NoSession,
          Width,              \* the bar timeframe
          Ttl,                \* DEFAULT_FRESHNESS_TTL
          QuoteMaxTime, MaxQuotes  \* bounds on the clock and on the quotes

VARIABLES clock,
          quotes,             \* committed PriceQuoteModel rows, in commit order
          candle,             \* committed execution bars: candle[i] or NoCandle
          session             \* the open transaction of each process

quoteVars == <<clock, quotes, candle, session>>

Processes == {"worker", "collector"}
Intervals == 0..(QuoteMaxTime \div Width)

ASSUME QuoteAssumption ==
    /\ Prices \subseteq Nat
    /\ {Width, Ttl} \subseteq Nat \ {0}
    /\ {QuoteMaxTime, MaxQuotes} \subseteq Nat

\* stored is when the row was committed; no column records it.
QuoteRow  == [ price: Prices, observed: Nat, fetched: Nat,
               status: {"fresh", "stale"}, by: Processes, stored: Nat ]
CandleRow == [ open: Prices, high: Prices, low: Prices, close: Prices, count: Nat \ {0} ]

QuoteTypeOK ==
    /\ clock \in Nat
    /\ quotes \in Seq(QuoteRow)
    /\ candle \in [Intervals -> CandleRow \cup {NoCandle}]
    /\ \A p \in Processes : session[p] # NoSession =>
          /\ session[p].row \in QuoteRow \cup {NoQuote}
          /\ session[p].at <= clock
          /\ session[p].built \in CandleRow \cup {NoCandle, NotBuilt}

QuoteInit ==
    /\ clock = 0 /\ quotes = <<>>
    /\ candle = [i \in Intervals |-> NoCandle]
    /\ session = [p \in Processes |-> NoSession]

-----------------------------------------------------------------------------
(* Persisting a quote *)

\* classify_quote_freshness, as the row keeps it.
Freshness(observed, fetched) ==
    IF observed > fetched THEN "future"
    ELSE IF fetched - observed > Ttl THEN "stale" ELSE "fresh"

\* Mutant: the table takes any row.
StorableAnyhow(observed, fetched) == TRUE

\* The table's check constraint fetched_at >= observed_at.
Storable(observed, fetched) == Freshness(observed, fetched) # "future"

\* Mutant: every fetch is a new row.
NeverKnown(observed, price) == FALSE

\* persist_provider_quote's lookup, in what is committed.
Known(observed, price) ==
    \E k \in DOMAIN quotes : quotes[k].observed = observed /\ quotes[k].price = price

\* Fetch and look up.  A quote from the future breaks the table's check
\* constraint: the transaction fails and leaves nothing.
Fetch(p, observed, price) ==
    /\ session[p] = NoSession
    /\ Len(quotes) < MaxQuotes
    /\ Storable(observed, clock)
    /\ session' = [session EXCEPT ![p] =
         [ at |-> IF p = "worker" THEN clock ELSE 0, built |-> IF p = "worker" THEN NotBuilt ELSE NoCandle,
           row |-> IF Known(observed, price) THEN NoQuote
                   ELSE [ price |-> price, observed |-> observed, fetched |-> clock,
                          status |-> Freshness(observed, clock), by |-> p, stored |-> clock ] ]]
    /\ UNCHANGED <<clock, quotes, candle>>

-----------------------------------------------------------------------------
(* QuoteBarBuilder.build_execution_bar *)

\* What the worker's transaction sees: committed rows and the one it inserted.
Visible ==
    IF session["worker"].row = NoQuote THEN quotes ELSE Append(quotes, session["worker"].row)

\* Mutant: a quote on the end of the interval belongs to it.
InIntervalClosed(q, i) == q.status = "fresh" /\ q.observed \in (i * Width)..((i + 1) * Width)

\* Mutant: freshness is judged again when the bar is built.
InIntervalStillFresh(q, i) ==
    /\ Freshness(q.observed, clock) = "fresh"
    /\ q.observed >= i * Width /\ q.observed < (i + 1) * Width

\* The quotes of a bar.
InInterval(q, i) ==
    /\ q.status = "fresh"
    /\ q.observed >= i * Width
    /\ q.observed < (i + 1) * Width

\* Observed before, or observed together and fetched before.
Earlier(a, b) == a.observed < b.observed \/ (a.observed = b.observed /\ a.fetched < b.fetched)

\* The bars that the quotes seen[k] of these numbers k may give: rows observed and
\* fetched together come in any order.
BarsOf(seen, counted) ==
    LET prices == { seen[k].price : k \in counted }
        firsts == { k \in counted : \A j \in counted : ~Earlier(seen[j], seen[k]) }
        lasts  == { k \in counted : \A j \in counted : ~Earlier(seen[k], seen[j]) }
    IN  { [ open |-> seen[ends[1]].price, close |-> seen[ends[2]].price, high |-> Max(prices),
            low |-> Min(prices), count |-> Cardinality(counted) ] : ends \in firsts \X lasts }

\* _build_latest_closed_bar: the whole interval before the tick's time; without
\* quotes the tick goes on warming up.
LastClosed == session["worker"].at \div Width - 1

Build ==
    LET counted == { k \in DOMAIN Visible : InInterval(Visible[k], LastClosed) }
    IN  /\ session["worker"] # NoSession /\ session["worker"].built = NotBuilt
        /\ \E b \in IF LastClosed < 0 \/ counted = {} THEN {NoCandle}
                    ELSE BarsOf(Visible, counted) :
              session' = [session EXCEPT !["worker"].built = b]
        /\ UNCHANGED <<clock, quotes, candle>>

-----------------------------------------------------------------------------

\* The end of the tick, or of the collector's run.
Commit(p) ==
    /\ session[p] # NoSession /\ session[p].built # NotBuilt
    /\ Len(quotes) < MaxQuotes
    /\ quotes' = IF session[p].row = NoQuote THEN quotes
                 ELSE Append(quotes, [session[p].row EXCEPT !.stored = clock])
    /\ candle' = IF session[p].built = NoCandle THEN candle
                 ELSE [candle EXCEPT ![LastClosed] = session[p].built]
    /\ session' = [session EXCEPT ![p] = NoSession]
    /\ UNCHANGED clock

\* A failure later in the tick, or the end of the process.
Rollback(p) ==
    /\ session[p] # NoSession
    /\ session' = [session EXCEPT ![p] = NoSession]
    /\ UNCHANGED <<clock, quotes, candle>>

Elapse == clock < QuoteMaxTime /\ clock' = clock + 1 /\ UNCHANGED <<quotes, candle, session>>

QuoteNext ==
    \/ \E p \in Processes :
          \/ \E observed \in 0..(clock + 1), price \in Prices : Fetch(p, observed, price)
          \/ Commit(p) \/ Rollback(p)
    \/ Build \/ Elapse

QuoteSpec == QuoteInit /\ [][QuoteNext]_quoteVars

-----------------------------------------------------------------------------
(* Properties *)

\* The same quote is stored twice only when two processes fetched it in
\* transactions that overlapped: the later row was looked up before the earlier
\* one was committed.
DuplicatesNeedARace ==
    \A j, k \in DOMAIN quotes :
        /\ j < k /\ quotes[j].observed = quotes[k].observed
        /\ quotes[j].price = quotes[k].price
        => quotes[j].by # quotes[k].by /\ quotes[k].fetched <= quotes[j].stored

\* No quote counts in two bars, and none that is stale or not stored in any.
QuotesCountOnce ==
    LET counts == [i \in Intervals |-> IF candle[i] = NoCandle THEN 0 ELSE candle[i].count]
    IN  SumFunctionOnSet(counts, Intervals)
          <= Cardinality({ k \in DOMAIN quotes : quotes[k].status = "fresh" })

\* What the races of the two processes leave in the tables.
QuotesAreAccountedFor == QuoteTypeOK /\ DuplicatesNeedARace /\ QuotesCountOnce

\* A bar that is built again has lost nothing: it counts at least the quotes it
\* counted, and its range is as wide.
BarsOnlyGrow ==
    [][\A i \in Intervals : candle[i] # NoCandle =>
          /\ candle'[i] # NoCandle
          /\ candle'[i].count >= candle[i].count
          /\ candle'[i].high >= candle[i].high /\ candle'[i].low <= candle[i].low]_quoteVars

=============================================================================

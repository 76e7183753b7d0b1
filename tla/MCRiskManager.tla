--------------------------- MODULE MCRiskManager ---------------------------
(* Two intents, one within the order limit and one above it; two quotes   *)
(* of the account's instrument or of a cheaper source.                       *)
EXTENDS RiskManager, TLC

CONSTANTS i1, i2, q1, q2, missing, none

MCRequested == (i1 :> 12) @@ (i2 :> 20)
MCBank == [step |-> 2, minTrade |-> 4]

QuoteOf(source, buy, sell, observed, fetched, status) ==
    [instrument |-> "xag", source |-> source, buy |-> buy, sell |-> sell,
     observed |-> observed, fetched |-> fetched, status |-> status]

MCQuoteRows ==
    { QuoteOf("kuveyt", 9, 10, 0, 0, "fresh"),
      QuoteOf("kuveyt", 5, 6, 1, 1, "fresh"),
      QuoteOf("kuveyt", 5, 9, 1, 2, "fresh"),       \* spread too wide
      QuoteOf("other", 3, 3, 1, 1, "fresh") }

Open == [accountActive |-> TRUE, known |-> TRUE, active |-> TRUE, sameVenue |-> TRUE,
         allowed |-> TRUE, hasBank |-> TRUE, bankActive |-> TRUE, sameBank |-> TRUE,
         mapped |-> TRUE, matches |-> TRUE]
MCListings ==
    { Open, [Open EXCEPT !.accountActive = FALSE],
      [Open EXCEPT !.hasBank = FALSE, !.allowed = FALSE], [Open EXCEPT !.mapped = FALSE],
      [Open EXCEPT !.matches = FALSE] }

Calm == [positionCash |-> 0, drawdown |-> 0, dailyLoss |-> 0, edge |-> 0,
         divergence |-> 0, cooldown |-> FALSE, noTrade |-> FALSE, event |-> none]
Event(action, confidence) ==
    [action |-> action, confidence |-> confidence, from |-> 1, until |-> 2]

MCContexts ==
    { Calm,
      [Calm EXCEPT !.positionCash = 20],
      [Calm EXCEPT !.positionCash = 26],
      [Calm EXCEPT !.drawdown = 3],
      [Calm EXCEPT !.dailyLoss = 4],
      [Calm EXCEPT !.edge = missing],
      [Calm EXCEPT !.edge = -1],
      [Calm EXCEPT !.divergence = 3],
      [Calm EXCEPT !.cooldown = TRUE],
      [Calm EXCEPT !.noTrade = TRUE],
      [Calm EXCEPT !.event = Event("reduce_risk", 2)],
      [Calm EXCEPT !.event = Event("reduce_risk", 0)],
      [Calm EXCEPT !.event = Event("veto", 2)] }

MCBalances == {missing, 7, 40}

=============================================================================

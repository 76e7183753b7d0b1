----------------------------- MODULE MCMarketData -----------------------------
(* A small instance of the market data: bank quotes and their bars, and the  *)
(* reference bars.  The two share no state, so a behaviour explores one of   *)
(* them and leaves the other in its initial state.                           *)
EXTENDS QuoteBars, ReferenceData

VARIABLE part

MCInit == QuoteInit /\ Init /\ part \in {"quotes", "reference"}

MCNext ==
    \/ part = "quotes" /\ QuoteNext /\ UNCHANGED <<vars, part>>
    \/ part = "reference" /\ Next /\ UNCHANGED <<quoteVars, part>>

MCSpec == MCInit /\ [][MCNext]_<<quoteVars, vars, part>>

===============================================================================

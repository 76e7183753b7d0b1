------------------------------ MODULE MCServices ------------------------------
(* A small instance of the services beside the trading loop: the status bot  *)
(* and the interpretation of news.  The two share no state, so a behaviour   *)
(* explores one of them and leaves the other in its initial state.           *)
EXTENDS TelegramBot, NewsRisk

VARIABLE part

\* The rules of DEFAULT_HERMES_RISK_POLICY, in its order.
MCRules == <<"central_bank_tightening", "market_dislocation", "commodity_supply_disruption">>
MCActionOf ==
    [ central_bank_tightening |-> "no_trade", market_dislocation |-> "veto",
      commodity_supply_disruption |-> "reduce_risk" ]

MCEvents == {"halt"}

MCInit == BotInit /\ NewsInit /\ part \in {"bot", "news"}

MCNext ==
    \/ part = "bot" /\ BotNext /\ UNCHANGED <<newsVars, part>>
    \/ part = "news" /\ NewsNext /\ UNCHANGED <<botVars, part>>

MCSpec == MCInit /\ [][MCNext]_<<botVars, newsVars, part>> /\ BotFairness

===============================================================================

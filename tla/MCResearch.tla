------------------------------ MODULE MCResearch ------------------------------
(* A small instance of what runs offline, on stored data: the indicators, a  *)
(* backtest and an ML experiment.  They share no state, so a behaviour       *)
(* explores one of them and leaves the others in their initial state.        *)
EXTENDS Indicators, Backtest, MLExperiments, TLC

CONSTANTS acct, missing, none

VARIABLE part

MCCandle(h, l, c) == [high |-> h, low |-> l, close |-> c]
MCCandles == { MCCandle(2, 1, 1), MCCandle(2, 1, 2), MCCandle(2, 2, 2),
               MCCandle(3, 2, 2), MCCandle(3, 1, 3) }

MCBank         == [step |-> 1, minTrade |-> 4]
MCInitialCash  == acct :> 41
MCQuotedPrices == { <<9, 10>>, <<6, 7>> }

MCInit ==
    /\ HistoryInit /\ BacktestInit /\ MLInit
    /\ part \in {"indicators", "backtest", "experiment"}
    /\ part # "experiment" => library
    /\ part # "backtest" => \A k \in QuoteIds : quote[k] = NoQuote

MCNext ==
    \/ part = "indicators" /\ HistoryNext /\ UNCHANGED <<backtestVars, mlVars, part>>
    \/ part = "backtest" /\ BacktestNext /\ UNCHANGED <<history, mlVars, part>>
    \/ part = "experiment" /\ MLNext /\ UNCHANGED <<history, backtestVars, part>>

MCSpec == MCInit /\ [][MCNext]_<<history, backtestVars, mlVars, part>>

===============================================================================

--------------------------- MODULE MCPaperRuntime --------------------------
(* One account and one metal; a few ticks, each on one of a few prices.     *)
EXTENDS PaperRuntime, TLC

CONSTANTS acct, missing, none

MCOpeningCash == acct :> 42
MCPrices == {<<9, 10>>, <<6, 7>>}
MCBank == [step |-> 1, minTrade |-> 4]

=============================================================================

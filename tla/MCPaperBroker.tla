--------------------------- MODULE MCPaperBroker ---------------------------
(* Two accounts, one bank instrument, three decisions and two quotes.       *)
EXTENDS PaperBroker, TLC

CONSTANTS a1, a2, xag, d1, d2, d3, q1, q2, none

MCOpeningCash == (a1 :> 40) @@ (a2 :> 9)
MCPrices == {<<7, 9>>, <<10, 11>>}

\* What RiskManager may leave: a fill that fits, one that a2 cannot pay, and a
\* reject that overwrites an approval.
MCApprovals ==
    {[account |-> a, instrument |-> xag, outcome |-> "approve", quantity |-> n, quote |-> k] :
        a \in {a1, a2}, n \in {2, 3}, k \in {q1}}
    \cup {[account |-> a1, instrument |-> xag, outcome |-> "reject",
           quantity |-> 0, quote |-> none]}

=============================================================================

-------------------------- MODULE MCPaperSessions --------------------------
(* Two sessions; three decisions of a1 (two buys and a sell) and one of a2. *)
EXTENDS PaperSessions, TLC

CONSTANTS a1, a2, xag, b1, b2, x1, c1, q1, q2, s1, s2, none

MCOpeningCash == (a1 :> 40) @@ (a2 :> 20)
MCQuotes == (q1 :> [instrument |-> xag, buy |-> 9, sell |-> 10])
              @@ (q2 :> [instrument |-> xag, buy |-> 12, sell |-> 13])

Row(a, quantity, k) ==
    [account |-> a, instrument |-> xag, outcome |-> "approve", quantity |-> quantity, quote |-> k]

MCDecisions == (b1 :> Row(a1, 3, q1)) @@ (b2 :> Row(a1, 2, q2))
                 @@ (x1 :> Row(a1, 2, q2)) @@ (c1 :> Row(a2, 2, q1))
MCSideOf == (b1 :> "buy") @@ (b2 :> "buy") @@ (x1 :> "sell") @@ (c1 :> "buy")

\* Both sessions serve a1; one of them serves a2 as well.
Together == (s1 :> {b1, x1, c1}) @@ (s2 :> {b1, b2, x1})

=============================================================================

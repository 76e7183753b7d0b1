---------------------------- MODULE AccountBook ----------------------------
(***************************************************************************)
(* What a paper account promises (ROADMAP.md 24.4 and 24.5), with no order, *)
(* trade, cost or ledger row in sight: an authorisation is settled at most  *)
(* once, and a settlement moves the cash and the metal of one account in    *)
(* opposite directions without overdrawing either.                          *)
(***************************************************************************)
EXTENDS Integers

CONSTANTS Accounts, Instruments, Authorisations, OpeningCash

VARIABLES cash,      \* [Accounts -> Int]
          metal,     \* [Accounts -> [Instruments -> Int]]
          settled    \* the authorisations already used

vars == <<cash, metal, settled>>

Init ==
    /\ cash = OpeningCash
    /\ metal = [a \in Accounts |-> [i \in Instruments |-> 0]]
    /\ settled = {}

\* The new balances are any that keep the promise, so they are constrained
\* rather than computed.
Settle(d, a, i) ==
    /\ d \notin settled
    /\ settled' = settled \cup {d}
    /\ cash'  = [cash  EXCEPT ![a] = cash'[a]]
    /\ metal' = [metal EXCEPT ![a][i] = metal'[a][i]]
    /\ cash'[a] >= 0
    /\ metal'[a][i] >= 0
    /\ \/ metal'[a][i] > metal[a][i] /\ cash'[a] <= cash[a]
       \/ metal'[a][i] < metal[a][i] /\ cash'[a] >= cash[a]

Next == \E d \in Authorisations, a \in Accounts, i \in Instruments : Settle(d, a, i)

Spec == Init /\ [][Next]_vars

=============================================================================

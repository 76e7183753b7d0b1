--------------------------- MODULE PaperSessions ---------------------------
(***************************************************************************)
(* PaperBroker.execute as several database sessions run it at once: two     *)
(* worker processes, or the old and the new container of a deployment.      *)
(*                                                                          *)
(* A session reads rows into its identity map and keeps them; the flush     *)
(* writes absolute values computed from what was read, and holds the row    *)
(* locks until the commit; PostgreSQL runs at READ COMMITTED, so a session  *)
(* that waited for a lock overwrites what the holder committed.  The code   *)
(* takes no lock and compares no version.  What stops two sessions are the  *)
(* unique constraints of paper_orders and positions.                        *)
(*                                                                          *)
(* The variables of PaperBroker are the committed rows.  Decisions and      *)
(* quotes are given.                                                        *)
(***************************************************************************)
EXTENDS CostModel, Sequences, FiniteSets

CONSTANTS Accounts, Instruments, DecisionIds, QuoteIds, OpeningCash,
          NoDecision, NoQuote,
          Decisions,     \* [DecisionIds -> rows of risk_decisions], all approving
          Quotes,        \* [QuoteIds -> rows of price_quotes]
          SideOf,        \* [DecisionIds -> Sides]: the side of the intent
          Sessions,
          Serves         \* [Sessions -> SUBSET DecisionIds]: what a session may execute

VARIABLES wallet, position, orders, trades, ledger,
          session,       \* session[s]: what the session has read and where it stands
          overtaken      \* accounts where a commit overwrote one it had not read

Broker == INSTANCE PaperBroker WITH
            Approvals <- {}, Prices <- {}, decision <- Decisions, quote <- Quotes

book == <<wallet, position, orders, trades, ledger>>
vars == <<book, session, overtaken>>

\* What RiskManager left: approvals on a quote of their instrument, which has a price.
ASSUME SessionsAssumption ==
    /\ OpeningCash \in [Accounts -> Nat]
    /\ SideOf \in [DecisionIds -> Sides]
    /\ Serves \in [Sessions -> SUBSET DecisionIds]
    /\ Decisions \in [DecisionIds -> Broker!DecisionRow] /\ NoDecision \notin Broker!DecisionRow
    /\ Quotes \in [QuoteIds -> Broker!QuoteRow] /\ NoQuote \notin Broker!QuoteRow \cup QuoteIds
    /\ \A d \in DecisionIds : /\ Decisions[d].outcome \in {"approve", "reduce"}
                              /\ Decisions[d].quantity > 0
                              /\ Decisions[d].quote \in QuoteIds
                              /\ Quotes[Decisions[d].quote].instrument = Decisions[d].instrument
    /\ \A k \in QuoteIds : Quotes[k].buy > 0 /\ Quotes[k].buy <= Quotes[k].sell

AccountOf(d) == Decisions[d].account

\* Mutant: the code compares the cash with the price alone.
CostsForGross(d) ==
    LET costs == Broker!CostsOf(d, SideOf[d], Decisions[d].quote)
    IN  [costs EXCEPT !.net = costs.gross]

CostsFor(d) == Broker!CostsOf(d, SideOf[d], Decisions[d].quote)

\* A position row, once inserted, is never deleted.
RowExists(a, i) == \E n \in 1..Len(trades) : trades[n].account = a /\ trades[n].instrument = i
HasRow(d)       == RowExists(AccountOf(d), Decisions[d].instrument)

Idle == [pc |-> "idle"]
Active(s)     == session[s].pc # "idle"
Works(s, a)   == Active(s) /\ AccountOf(session[s].decision) = a
Holds(s, a)   == Works(s, a) /\ session[s].pc = "flushed"

TypeOK ==
    /\ Broker!BookTypeOK
    /\ overtaken \subseteq Accounts
    /\ \A s \in Sessions : Active(s) =>
          /\ session[s].pc \in {"opened", "loaded", "flushed"}
          /\ session[s].decision \in Serves[s]
          /\ session[s].wallet \in Int /\ session[s].behind \in BOOLEAN

Init ==
    /\ Broker!BookInit
    /\ session = [s \in Sessions |-> Idle]
    /\ overtaken = {}

-----------------------------------------------------------------------------

\* Mutant: a session takes a decision it does not serve.
OpenAny(s, d) ==
    /\ ~Active(s)
    /\ session' = [session EXCEPT ![s] =
                     [pc |-> "opened", decision |-> d, wallet |-> wallet[AccountOf(d)],
                      behind |-> FALSE]]
    /\ UNCHANGED <<book, overtaken>>

\* RiskManager.evaluate loads the wallet row; the identity map then answers the
\* broker's own query with it.
Open(s, d) ==
    /\ ~Active(s) /\ d \in Serves[s]
    /\ session' = [session EXCEPT ![s] =
                     [pc |-> "opened", decision |-> d, wallet |-> wallet[AccountOf(d)],
                      behind |-> FALSE]]
    /\ UNCHANGED <<book, overtaken>>

\* execute(): the order lookup, the position query, the guards.  An existing
\* order is returned; a guard that fails raises and the session rolls back.
Load(s) ==
    LET mine == session[s]
        d    == mine.decision
        held == position[AccountOf(d)][Decisions[d].instrument]
        fits == IF SideOf[d] = "buy" THEN CostsFor(d).net <= mine.wallet
                                     ELSE Decisions[d].quantity <= held.quantity
    IN  /\ mine.pc = "opened"
        /\ session' = [session EXCEPT ![s] =
              IF Broker!AlreadyOrdered(d) \/ ~fits THEN Idle
              ELSE [pc |-> "loaded", decision |-> d, wallet |-> mine.wallet,
                    behind |-> mine.behind, position |-> held, insert |-> ~HasRow(d)]]
        /\ UNCHANGED <<book, overtaken>>

\* Mutant: orders have no unique risk decision.
ConflictsOnPositionOnly(s) == session[s].insert /\ HasRow(session[s].decision)

\* Mutant: positions are not unique, a second first buy inserts its own row.
ConflictsOnOrderOnly(s) == Broker!AlreadyOrdered(session[s].decision)

\* The rows the flush would duplicate, and the constraint that refuses them:
\* uq_paper_orders_risk_decision_id, uq_positions_account_bank.
Conflicts(s) ==
    LET mine == session[s]
    IN  Broker!AlreadyOrdered(mine.decision) \/ (mine.insert /\ HasRow(mine.decision))

\* Mutant: a session that fails to flush keeps waiting.
FlushNeverRaises(s) ==
    /\ session[s].pc = "loaded" /\ ~Conflicts(s)
    /\ ~\E t \in Sessions \ {s} : Holds(t, AccountOf(session[s].decision))
    /\ session' = [session EXCEPT ![s].pc = "flushed"]
    /\ UNCHANGED <<book, overtaken>>

\* The flush waits for the row locks of the account, then writes or raises.
Flush(s) ==
    /\ session[s].pc = "loaded"
    /\ ~\E t \in Sessions \ {s} : Holds(t, AccountOf(session[s].decision))
    /\ session' = [session EXCEPT ![s] =
                     IF Conflicts(s) THEN Idle ELSE [@ EXCEPT !.pc = "flushed"]]
    /\ UNCHANGED <<book, overtaken>>

Commit(s) ==
    LET mine  == session[s]
        d     == mine.decision
        a     == AccountOf(d)
        i     == Decisions[d].instrument
        q     == Decisions[d].quantity
        side  == SideOf[d]
        costs == CostsFor(d)
    IN  /\ mine.pc = "flushed"
        /\ wallet' = [wallet EXCEPT ![a] =
              IF side = "buy" THEN mine.wallet - costs.net ELSE mine.wallet + costs.net]
        /\ position' = [position EXCEPT ![a][i] =
              IF side = "buy" THEN Broker!PositionAfterBuy(mine.position, q, costs.net)
                              ELSE Broker!PositionAfterSell(mine.position, q, costs.net)]
        /\ orders' = Append(orders, [decision |-> d, account |-> a, instrument |-> i,
                                     side |-> side, quantity |-> q])
        /\ trades' = Append(trades,
              [account |-> a, instrument |-> i, quote |-> Decisions[d].quote, side |-> side,
               quantity |-> q, gross |-> costs.gross, fees |-> costs.fees,
               taxes |-> costs.taxes, spread |-> costs.spread, net |-> costs.net,
               pnl |-> IF side = "buy" THEN 0
                       ELSE Broker!RealizedPnl(mine.position, q, costs.net)])
        /\ ledger' = ledger \o Broker!TradeEntries(Len(trades) + 1, a, side, costs)
        /\ overtaken' = overtaken \cup (IF mine.behind THEN {a} ELSE {})
        /\ session' = [t \in Sessions |->
              IF t = s THEN Idle
              ELSE IF Works(t, a) THEN [session[t] EXCEPT !.behind = TRUE]
              ELSE session[t]]

\* Mutant: a rolled back session has written its wallet all the same.
AbortKeepsWallet(s) ==
    /\ Active(s)
    /\ wallet' = [wallet EXCEPT ![AccountOf(session[s].decision)] = session[s].wallet]
    /\ session' = [session EXCEPT ![s] = Idle]
    /\ UNCHANGED <<position, orders, trades, ledger, overtaken>>

\* Anything else in the tick raises, the process dies, or the connection drops.
Abort(s) ==
    /\ Active(s)
    /\ session' = [session EXCEPT ![s] = Idle]
    /\ UNCHANGED <<book, overtaken>>

Step(s) == Load(s) \/ Commit(s)

Next == \E s \in Sessions :
           \/ \E d \in DecisionIds : Open(s, d)
           \/ Step(s) \/ Flush(s) \/ Abort(s)

\* Row locks are granted in the order they were asked for, so a flush that is
\* possible again and again goes through.
Spec == Init /\ [][Next]_vars /\ \A s \in Sessions : WF_vars(Step(s)) /\ SF_vars(Flush(s))

-----------------------------------------------------------------------------
(* Properties *)

\* A transaction that overwrites no commit it has not read leaves the book
\* reconciled: reading late is the only thing that can go wrong here.
ReconcilesUnlessOvertaken ==
    overtaken = {} => Broker!CashReconciles /\ Broker!PositionReconciles

\* However many sessions execute one decision at once, it is ordered once: the
\* check in execute() is a race, the unique constraint decides it.  The races never
\* overdraw an account or sell what is not held, and every trade is posted once,
\* even when one session overwrites another.
RacesKeepTheRules ==
    /\ TypeOK
    /\ Broker!OneOrderPerDecision
    /\ Broker!NeverOverdrawn
    /\ Broker!LedgerPostsTradesOnce

\* Every transaction ends: nobody waits for a lock for ever.
SessionsEnd == \A s \in Sessions : Active(s) ~> ~Active(s)

\* As long as no commit has overwritten one its session had not read, the sessions
\* implement PaperBroker: a commit is one execute(), and reads, waits, conflicts and
\* rollbacks are invisible.
\* (Decisions and quotes exist from the start here, so only the book's Init.)
ImplementsPaperBroker ==
    Broker!BookInit /\ [][Broker!Next \/ overtaken' # {}]_(Broker!vars)

=============================================================================

------------------------ MODULE PaperSessions_proofs ------------------------
(***************************************************************************)
(* What sessions that execute decisions at once can and cannot do to each   *)
(* other, for any number of sessions, decisions and accounts.               *)
(*                                                                          *)
(* The invariant follows a session through its transaction: what it has     *)
(* read pays for what it will write (SoundRow), the row locks keep two      *)
(* flushed sessions apart (LocksExclude), so the order that a flush found   *)
(* missing is still missing at the commit (FlushedIsFirst), and what it has *)
(* read still stands unless it is marked behind (ReadsStand).               *)
(***************************************************************************)
EXTENDS PaperSessions, Accounting_proofs, SequenceTheorems

Holding == { p \in Broker!PositionRow : p.quantity >= 0 /\ p.average >= 0 }

OpenedRow == [pc: {"opened"}, decision: DecisionIds, wallet: Nat, behind: BOOLEAN]
LoadedRow == [pc: {"loaded", "flushed"}, decision: DecisionIds, wallet: Nat,
              behind: BOOLEAN, position: Holding, insert: BOOLEAN]

\* What was read pays for the decision.
Pays(r) ==
    IF SideOf[r.decision] = "buy" THEN CostsFor(r.decision).net <= r.wallet
                                  ELSE Decisions[r.decision].quantity <= r.position.quantity

SoundRow(s, r) ==
    \/ r = Idle
    \/ r \in OpenedRow /\ r.decision \in Serves[s]
    \/ r \in LoadedRow /\ r.decision \in Serves[s] /\ Pays(r)

SessionsSound ==
    /\ session = [s \in Sessions |-> session[s]]
    /\ \A s \in Sessions : SoundRow(s, session[s])

LocksExclude ==
    \A s, t \in Sessions :
        s # t /\ session[s].pc = "flushed" /\ session[t].pc = "flushed" =>
            AccountOf(session[s].decision) # AccountOf(session[t].decision)

FlushedIsFirst ==
    \A s \in Sessions :
        session[s].pc = "flushed" => ~Broker!AlreadyOrdered(session[s].decision)

\* What a session that is not behind has read is what is committed.
Stands(r) ==
    /\ r.wallet = wallet[AccountOf(r.decision)]
    /\ r.pc # "opened" =>
          r.position = position[AccountOf(r.decision)][Decisions[r.decision].instrument]

ReadsStand ==
    \A s \in Sessions : Active(s) => session[s].behind = TRUE \/ Stands(session[s])

BookSound == Broker!BookTypeOK /\ Broker!NeverOverdrawn /\ Broker!OneOrderPerDecision

SessionsInv ==
    /\ BookSound /\ overtaken \subseteq Accounts
    /\ SessionsSound /\ LocksExclude /\ FlushedIsFirst /\ ReadsStand

-----------------------------------------------------------------------------
(* The rows of the decisions and the costs of their trades.                 *)

\* What the assumptions say of the decisions and the quotes they name.
LEMMA DecisionFacts ==
    ASSUME NEW d \in DecisionIds
    PROVE  /\ AccountOf(d) \in Accounts /\ Decisions[d].instrument \in Instruments
           /\ Decisions[d].quantity \in Nat \ {0} /\ Decisions[d].quote \in QuoteIds
           /\ SideOf[d] \in Sides
           /\ LET q == Quotes[Decisions[d].quote]
              IN  q.buy \in Nat /\ q.sell \in Nat /\ q.buy > 0 /\ q.buy <= q.sell
<1>1. Decisions[d] \in Broker!DecisionRow /\ Decisions[d].quote \in QuoteIds
  BY SessionsAssumption
<1>2. Quotes[Decisions[d].quote] \in Broker!QuoteRow
  BY <1>1, SessionsAssumption
<1> QED
  BY <1>1, <1>2, SessionsAssumption DEF AccountOf, Broker!DecisionRow, Broker!QuoteRow

\* The broker's arithmetic is that of the cost model.
LEMMA SameHalfUp == \A n, d : Broker!HalfUp(n, d) = HalfUp(n, d)
BY DEF Broker!HalfUp, HalfUp

\* The broker of the sessions has the costs of CostModel.
LEMMA SameCosts ==
    ASSUME NEW side, NEW quantity, NEW b, NEW s
    PROVE  Broker!Costs(side, quantity, b, s) = Costs(side, quantity, b, s)
BY DEF Broker!Costs, Broker!GrossCash, Broker!ExecutionPrice, Broker!Fees, Broker!Taxes,
       Broker!NetCash, Broker!HalfUp, Costs, GrossCash, ExecutionPrice, Fees, Taxes, NetCash,
       HalfUp

\* The costs of a decision are natural numbers.
LEMMA CostsForType ==
    ASSUME CostsAreMinor, NEW d \in DecisionIds
    PROVE  /\ CostsFor(d).gross \in Nat /\ CostsFor(d).fees \in Nat
           /\ CostsFor(d).taxes \in Nat /\ CostsFor(d).spread \in Nat
           /\ CostsFor(d).net \in Nat
<1> DEFINE q == Quotes[Decisions[d].quote]
           n == Decisions[d].quantity
<1>1. CostsFor(d) = Costs(SideOf[d], n, q.buy, q.sell)
  BY SameCosts DEF CostsFor, Broker!CostsOf
<1>2. /\ n \in Nat /\ q.buy \in Nat /\ q.sell \in Nat /\ q.buy <= q.sell /\ SideOf[d] \in Sides
  BY DecisionFacts
<1> HIDE DEF q, n
<1>3. SideOf[d] = "sell" => Costs(SideOf[d], n, q.buy, q.sell).net \in Nat
  BY <1>2, SellNetNat
<1> QED
  BY <1>1, <1>2, <1>3, CostsType DEF Sides

\* A buy leaves a holding.
LEMMA BuyHolding ==
    ASSUME NEW p \in Holding, NEW quantity \in Nat \ {0}, NEW net \in Nat
    PROVE  Broker!PositionAfterBuy(p, quantity, net) \in Holding
<1>1. p.quantity \in Nat /\ p.average \in Nat /\ p.pnl \in Int
  BY DEF Holding, Broker!PositionRow
<1>2. p.quantity * p.average + net * QuantityScale \in Nat
  BY <1>1, ProductNat, CostAssumption
<1>3. p.quantity + quantity \in Nat \ {0}
  BY <1>1
<1>4. Broker!HalfUp(p.quantity * p.average + net * QuantityScale, p.quantity + quantity) \in Nat
  BY <1>2, <1>3, HalfUpNat, SameHalfUp
<1> QED
  BY <1>1, <1>3, <1>4 DEF Broker!PositionAfterBuy, Broker!PositionRow, Holding

\* A sell of what is held leaves a holding and a profit or a loss.
LEMMA SellHolding ==
    ASSUME NEW p \in Holding, NEW quantity \in Nat \ {0}, quantity <= p.quantity, NEW net \in Nat
    PROVE  /\ Broker!PositionAfterSell(p, quantity, net) \in Holding
           /\ Broker!RealizedPnl(p, quantity, net) \in Int
<1>1. p.quantity \in Nat /\ p.average \in Nat /\ p.pnl \in Int
  BY DEF Holding, Broker!PositionRow
<1>2. Broker!RealizedPnl(p, quantity, net) \in Int
  <2>1. quantity * p.average \in Nat
    BY <1>1, ProductNat
  <2>2. Broker!HalfUp(quantity * p.average, QuantityScale) \in Nat
    BY <2>1, HalfUpNat, SameHalfUp, CostAssumption
  <2> QED
    BY <2>2 DEF Broker!RealizedPnl
<1>3. p.quantity - quantity \in Nat
  BY <1>1
<1> QED
  BY <1>1, <1>2, <1>3 DEF Broker!PositionAfterSell, Broker!PositionRow, Holding

\* The entries of a trade are rows of the ledger.
LEMMA EntriesType ==
    ASSUME NEW n \in Nat \ {0}, NEW a \in Accounts, NEW side \in Sides, NEW costs,
           costs.gross \in Nat, costs.fees \in Nat, costs.taxes \in Nat
    PROVE  Broker!TradeEntries(n, a, side, costs) \in Seq(Broker!EntryRow)
<1> DEFINE entry(kind, amount) ==
              [trade |-> n, account |-> a, kind |-> kind, amount |-> amount]
           gross == IF side = "buy" THEN -costs.gross ELSE costs.gross
           cash == <<entry("cash", gross)>>
           fee  == IF costs.fees > 0 THEN <<entry("fee", -costs.fees)>> ELSE <<>>
           tax  == IF costs.taxes > 0 THEN <<entry("tax", -costs.taxes)>> ELSE <<>>
<1>1. /\ entry("cash", gross) \in Broker!EntryRow
      /\ entry("fee", -costs.fees) \in Broker!EntryRow
      /\ entry("tax", -costs.taxes) \in Broker!EntryRow
  BY DEF Broker!EntryRow, Broker!EntryKinds
<1>2. /\ cash \in Seq(Broker!EntryRow) /\ fee \in Seq(Broker!EntryRow)
      /\ tax \in Seq(Broker!EntryRow)
  BY <1>1
<1> HIDE DEF cash, fee, tax
<1>3. (cash \o fee) \o tax \in Seq(Broker!EntryRow)
  BY <1>2, ConcatProperties
<1>4. Broker!TradeEntries(n, a, side, costs) = (cash \o fee) \o tax
  BY DEF Broker!TradeEntries, cash, fee, tax
<1> QED
  BY <1>3, <1>4

-----------------------------------------------------------------------------
(* The rows of the sessions.                                                *)

\* What the state of a session says of its decision.
LEMMA RowShape ==
    ASSUME NEW s \in Sessions, NEW r, SoundRow(s, r)
    PROVE  /\ r = Idle <=> r.pc = "idle"
           /\ r # Idle => /\ r.decision \in Serves[s] /\ r.decision \in DecisionIds
                          /\ r.wallet \in Nat /\ r.behind \in BOOLEAN
                          /\ r.pc \in {"opened", "loaded", "flushed"}
           /\ r.pc \in {"loaded", "flushed"} =>
                 r \in LoadedRow /\ r.position \in Holding /\ r.insert \in BOOLEAN /\ Pays(r)
           /\ r.pc = "opened" => r \in OpenedRow
BY SessionsAssumption DEF SoundRow, Idle, OpenedRow, LoadedRow

\* A session falls behind: nothing else in its row changes.
LEMMA FallsBehind ==
    ASSUME NEW s \in Sessions, NEW r, SoundRow(s, r), r # Idle
    PROVE  LET m == [r EXCEPT !.behind = TRUE]
           IN  /\ SoundRow(s, m) /\ m.behind = TRUE
               /\ m.pc = r.pc /\ m.decision = r.decision
<1> DEFINE m == [r EXCEPT !.behind = TRUE]
<1>1. CASE r \in OpenedRow /\ r.decision \in Serves[s]
  <2>1. m \in OpenedRow /\ m.decision = r.decision /\ m.pc = r.pc /\ m.behind = TRUE
    BY <1>1 DEF OpenedRow
  <2> QED
    BY <1>1, <2>1 DEF SoundRow
<1>2. CASE r \in LoadedRow /\ r.decision \in Serves[s] /\ Pays(r)
  <2>1. /\ m \in LoadedRow /\ m.decision = r.decision /\ m.pc = r.pc /\ m.behind = TRUE
        /\ m.wallet = r.wallet /\ m.position = r.position
    BY <1>2 DEF LoadedRow
  <2>2. Pays(m)
    BY <1>2, <2>1 DEF Pays
  <2> QED
    BY <1>2, <2>1, <2>2 DEF SoundRow
<1> QED
  BY <1>1, <1>2 DEF SoundRow

\* A session flushes: its row keeps what it has read.
LEMMA FlushesRow ==
    ASSUME NEW s \in Sessions, NEW r, SoundRow(s, r), r.pc = "loaded"
    PROVE  LET m == [r EXCEPT !.pc = "flushed"]
           IN  /\ SoundRow(s, m) /\ m # Idle /\ m.pc = "flushed"
               /\ m.decision = r.decision /\ m.behind = r.behind
               /\ m.wallet = r.wallet /\ m.position = r.position
<1> DEFINE m == [r EXCEPT !.pc = "flushed"]
<1>1. r \in LoadedRow /\ r.decision \in Serves[s] /\ Pays(r)
  BY RowShape DEF Idle
<1>2. /\ m \in LoadedRow /\ m.decision = r.decision /\ m.behind = r.behind
      /\ m.wallet = r.wallet /\ m.position = r.position /\ m.pc = "flushed"
  BY <1>1 DEF LoadedRow
<1>3. Pays(m)
  BY <1>1, <1>2 DEF Pays
<1> QED
  BY <1>1, <1>2, <1>3 DEF SoundRow, Idle

-----------------------------------------------------------------------------
(* The steps of a session that write no committed row.                      *)

\* A step of one session that writes nothing keeps the invariant.
LEMMA QuietStep ==
    ASSUME SessionsInv, UNCHANGED <<book, overtaken>>,
           NEW s \in Sessions, NEW r, session' = [session EXCEPT ![s] = r],
           SoundRow(s, r),
           r.pc = "flushed" =>
              /\ ~Broker!AlreadyOrdered(r.decision)
              /\ \A t \in Sessions \ {s} : session[t].pc = "flushed" =>
                    AccountOf(session[t].decision) # AccountOf(r.decision),
           r.pc # "idle" => r.behind = TRUE \/ Stands(r)
    PROVE  SessionsInv'
<1>1. \A t \in Sessions : session'[t] = IF t = s THEN r ELSE session[t]
  BY DEF SessionsInv, SessionsSound
<1>2. /\ wallet' = wallet /\ position' = position /\ orders' = orders
      /\ trades' = trades /\ ledger' = ledger /\ overtaken' = overtaken
  BY DEF book
<1>3. BookSound'
  BY <1>2 DEF SessionsInv, BookSound, Broker!BookTypeOK, Broker!NeverOverdrawn,
     Broker!OneOrderPerDecision
<1>4. SessionsSound'
  <2>1. session' = [t \in Sessions |-> session'[t]]
    BY DEF SessionsInv, SessionsSound
  <2>2. \A t \in Sessions : SoundRow(t, session'[t])
    BY <1>1 DEF SessionsInv, SessionsSound
  <2> QED
    BY <2>1, <2>2 DEF SessionsSound
<1>5. LocksExclude'
  BY <1>1 DEF SessionsInv, LocksExclude
<1>6. FlushedIsFirst'
  BY <1>1, <1>2 DEF SessionsInv, FlushedIsFirst, Broker!AlreadyOrdered
<1>7. ReadsStand'
  BY <1>1, <1>2 DEF SessionsInv, ReadsStand, Stands, Active
<1> QED
  BY <1>2, <1>3, <1>4, <1>5, <1>6, <1>7 DEF SessionsInv

\* A session opens and reads the wallet.
LEMMA OpenKeeps ==
    ASSUME SessionsInv, NEW s \in Sessions, NEW d \in DecisionIds, Open(s, d)
    PROVE  SessionsInv'
<1> DEFINE r == [pc |-> "opened", decision |-> d, wallet |-> wallet[AccountOf(d)],
                 behind |-> FALSE]
<1>1. wallet[AccountOf(d)] \in Nat
  BY DecisionFacts
     DEF SessionsInv, BookSound, Broker!BookTypeOK, Broker!NeverOverdrawn
<1>2. r \in OpenedRow /\ r.decision \in Serves[s]
  BY <1>1 DEF OpenedRow, Open
<1>3. Stands(r) /\ r.pc = "opened"
  BY DEF Stands
<1>4. session' = [session EXCEPT ![s] = r] /\ UNCHANGED <<book, overtaken>>
  BY DEF Open
<1> HIDE DEF r
<1> QED
  BY <1>2, <1>3, <1>4, QuietStep DEF SoundRow

LEMMA AbortKeeps ==
    ASSUME SessionsInv, NEW s \in Sessions, Abort(s)
    PROVE  SessionsInv'
<1>1. SoundRow(s, Idle) /\ Idle.pc = "idle"
  BY DEF SoundRow, Idle
<1> QED
  BY <1>1, QuietStep DEF Abort

\* A session reads the rows of its decision and checks them.
LEMMA LoadKeeps ==
    ASSUME SessionsInv, NEW s \in Sessions, Load(s)
    PROVE  SessionsInv'
<1> DEFINE mine == session[s]
           d    == mine.decision
           held == position[AccountOf(d)][Decisions[d].instrument]
           fits == IF SideOf[d] = "buy" THEN CostsFor(d).net <= mine.wallet
                                        ELSE Decisions[d].quantity <= held.quantity
           new  == [pc |-> "loaded", decision |-> d, wallet |-> mine.wallet,
                    behind |-> mine.behind, position |-> held, insert |-> ~HasRow(d)]
<1>1. /\ UNCHANGED <<book, overtaken>> /\ mine.pc = "opened"
      /\ session' = [session EXCEPT ![s] =
                       IF Broker!AlreadyOrdered(d) \/ ~fits THEN Idle ELSE new]
  BY DEF Load
<1>2. SoundRow(s, mine)
  BY DEF SessionsInv, SessionsSound
<1>3. /\ mine \in OpenedRow /\ d \in Serves[s] /\ d \in DecisionIds
      /\ mine.wallet \in Nat /\ mine.behind \in BOOLEAN
  BY <1>1, <1>2, RowShape DEF Idle
<1>4. CASE Broker!AlreadyOrdered(d) \/ ~fits
  <2>1. SoundRow(s, Idle) /\ Idle.pc = "idle"
    BY DEF SoundRow, Idle
  <2>2. session' = [session EXCEPT ![s] = Idle]
    BY <1>1, <1>4
  <2> QED
    BY <1>1, <2>1, <2>2, QuietStep
<1>5. CASE fits /\ ~Broker!AlreadyOrdered(d)
  <2>1. held \in Holding
    <3>1. AccountOf(d) \in Accounts /\ Decisions[d].instrument \in Instruments
      BY <1>3, DecisionFacts
    <3> QED
      BY <3>1 DEF Holding, SessionsInv, BookSound, Broker!BookTypeOK, Broker!NeverOverdrawn
  <2>2. HasRow(d) \in BOOLEAN
    BY DEF HasRow, RowExists
  <2>3. /\ new.pc = "loaded" /\ new.decision = d /\ new.wallet = mine.wallet
        /\ new.behind = mine.behind /\ new.position = held
    OBVIOUS
  <2>4. new \in LoadedRow
    BY <1>3, <2>1, <2>2, Zenon DEF LoadedRow
  <2>5. session' = [session EXCEPT ![s] = new]
    BY <1>1, <1>5
  <2>6. mine.behind = TRUE \/ Stands(mine)
    BY <1>1 DEF SessionsInv, ReadsStand, Active
  <2> HIDE DEF new
  <2>7. Pays(new)
    BY <1>5, <2>3 DEF Pays
  <2>8. new.behind = TRUE \/ Stands(new)
    BY <2>3, <2>6 DEF Stands
  <2>9. SoundRow(s, new)
    BY <1>3, <2>3, <2>4, <2>7 DEF SoundRow
  <2> QED
    BY <1>1, <2>3, <2>5, <2>8, <2>9, QuietStep
<1> QED
  BY <1>4, <1>5

\* A session writes its rows, or finds that another one got ahead.
LEMMA FlushKeeps ==
    ASSUME SessionsInv, NEW s \in Sessions, Flush(s)
    PROVE  SessionsInv'
<1> DEFINE mine == session[s]
           new  == [mine EXCEPT !.pc = "flushed"]
<1>1. /\ UNCHANGED <<book, overtaken>> /\ mine.pc = "loaded"
      /\ \A t \in Sessions \ {s} : ~Holds(t, AccountOf(mine.decision))
      /\ session' = [session EXCEPT ![s] = IF Conflicts(s) THEN Idle ELSE new]
  BY DEF Flush
<1>2. SoundRow(s, mine)
  BY DEF SessionsInv, SessionsSound
<1>3. CASE Conflicts(s)
  <2>1. SoundRow(s, Idle) /\ Idle.pc = "idle"
    BY DEF SoundRow, Idle
  <2>2. session' = [session EXCEPT ![s] = Idle]
    BY <1>1, <1>3
  <2> QED
    BY <1>1, <2>1, <2>2, QuietStep
<1>4. CASE ~Conflicts(s)
  <2>1. /\ SoundRow(s, new) /\ new # Idle /\ new.pc = "flushed"
        /\ new.decision = mine.decision /\ new.behind = mine.behind
        /\ new.wallet = mine.wallet /\ new.position = mine.position
    BY <1>1, <1>2, FlushesRow
  <2>2. ~Broker!AlreadyOrdered(mine.decision)
    BY <1>4 DEF Conflicts
  <2>3. \A t \in Sessions \ {s} : session[t].pc = "flushed" =>
            AccountOf(session[t].decision) # AccountOf(mine.decision)
    BY <1>1 DEF Holds, Works, Active
  <2>4. mine.behind = TRUE \/ Stands(mine)
    BY <1>1 DEF SessionsInv, ReadsStand, Active
  <2>5. session' = [session EXCEPT ![s] = new]
    BY <1>1, <1>4
  <2> HIDE DEF new
  <2>6. new.behind = TRUE \/ Stands(new)
    BY <1>1, <2>1, <2>4 DEF Stands
  <2> QED
    BY <1>1, <2>1, <2>2, <2>3, <2>5, <2>6, QuietStep
<1> QED
  BY <1>3, <1>4

-----------------------------------------------------------------------------
(* The commit.                                                              *)

\* What a session that is about to commit knows.
LEMMA CommitKnows ==
    ASSUME CostsAreMinor, SessionsInv, NEW s \in Sessions, session[s].pc = "flushed"
    PROVE  LET r == session[s]
           IN  /\ SoundRow(s, r) /\ r \in LoadedRow /\ Pays(r) /\ Active(s)
               /\ r.decision \in DecisionIds /\ r.wallet \in Nat /\ r.position \in Holding
               /\ ~Broker!AlreadyOrdered(r.decision)
               /\ r.behind = TRUE \/ Stands(r)
<1> DEFINE r == session[s]
<1>1. SoundRow(s, r)
  BY DEF SessionsInv, SessionsSound
<1>2. r \in LoadedRow /\ Pays(r) /\ r # Idle /\ r.position \in Holding
  BY <1>1, RowShape DEF Idle
<1>3. Active(s) /\ r.decision \in DecisionIds /\ r.wallet \in Nat
  BY <1>1, <1>2, RowShape DEF Active
<1>4. ~Broker!AlreadyOrdered(r.decision) /\ (r.behind = TRUE \/ Stands(r))
  BY <1>3 DEF SessionsInv, FlushedIsFirst, ReadsStand
<1> QED
  BY <1>1, <1>2, <1>3, <1>4

\* A commit keeps the book sound and touches one account and one decision.
LEMMA CommitKeepsBook ==
    ASSUME CostsAreMinor, SessionsInv, NEW s \in Sessions, Commit(s)
    PROVE  /\ BookSound'
           /\ \A d \in DecisionIds : Broker!AlreadyOrdered(d)' =>
                 Broker!AlreadyOrdered(d) \/ d = session[s].decision
           /\ \A x \in Accounts \ {AccountOf(session[s].decision)} :
                 wallet'[x] = wallet[x] /\ position'[x] = position[x]
<1> DEFINE mine == session[s]
<1>1. PICK d \in DecisionIds, a \in Accounts, i \in Instruments :
          d = mine.decision /\ a = AccountOf(d) /\ i = Decisions[d].instrument
  BY CommitKnows, DecisionFacts DEF Commit
<1> DEFINE q     == Decisions[d].quantity
           side  == SideOf[d]
           k     == Decisions[d].quote
           costs == CostsFor(d)
           new   == IF side = "buy" THEN Broker!PositionAfterBuy(mine.position, q, costs.net)
                                    ELSE Broker!PositionAfterSell(mine.position, q, costs.net)
           pnl   == IF side = "buy" THEN 0 ELSE Broker!RealizedPnl(mine.position, q, costs.net)
           order == [decision |-> d, account |-> a, instrument |-> i,
                     side |-> side, quantity |-> q]
           trade == [account |-> a, instrument |-> i, quote |-> k, side |-> side,
                     quantity |-> q, gross |-> costs.gross, fees |-> costs.fees,
                     taxes |-> costs.taxes, spread |-> costs.spread, net |-> costs.net,
                     pnl |-> pnl]
<1>2. /\ costs.gross \in Nat /\ costs.fees \in Nat /\ costs.taxes \in Nat
      /\ costs.spread \in Nat /\ costs.net \in Nat
      /\ q \in Nat \ {0} /\ side \in Sides /\ k \in QuoteIds
  BY CostsForType, DecisionFacts
<1>3. /\ mine.wallet \in Nat /\ mine.position \in Holding /\ Pays(mine)
      /\ ~Broker!AlreadyOrdered(d)
  BY <1>1, CommitKnows DEF Commit
<1>4. IF side = "buy" THEN costs.net <= mine.wallet ELSE q <= mine.position.quantity
  BY <1>1, <1>3 DEF Pays
<1>5. /\ wallet \in [Accounts -> Nat]
      /\ position \in [Accounts -> [Instruments -> Holding]]
      /\ orders \in Seq(Broker!OrderRow) /\ trades \in Seq(Broker!TradeRow)
      /\ ledger \in Seq(Broker!EntryRow)
  BY DEF SessionsInv, BookSound, Broker!BookTypeOK, Broker!NeverOverdrawn, Holding
<1>6. /\ wallet' = [wallet EXCEPT ![a] = IF side = "buy" THEN mine.wallet - costs.net
                                                         ELSE mine.wallet + costs.net]
      /\ position' = [position EXCEPT ![a][i] = new]
      /\ orders' = Append(orders, order) /\ trades' = Append(trades, trade)
      /\ ledger' = ledger \o Broker!TradeEntries(Len(trades) + 1, a, side, costs)
  BY <1>1 DEF Commit
<1> HIDE DEF costs, mine, order, trade, new, pnl
<1>7. wallet' \in [Accounts -> Nat] /\ \A x \in Accounts \ {a} : wallet'[x] = wallet[x]
  <2> DEFINE left == IF side = "buy" THEN mine.wallet - costs.net ELSE mine.wallet + costs.net
  <2>1. left \in Nat
    BY <1>2, <1>3, <1>4
  <2>2. wallet' = [wallet EXCEPT ![a] = left]
    BY <1>6
  <2> HIDE DEF left
  <2> QED
    BY <1>5, <2>1, <2>2
<1>8. new \in Holding /\ pnl \in Int
  <2>1. CASE side = "buy"
    BY <1>2, <1>3, <2>1, BuyHolding DEF new, pnl
  <2>2. CASE side = "sell"
    BY <1>2, <1>3, <1>4, <2>2, SellHolding DEF new, pnl
  <2> QED
    BY <1>2, <2>1, <2>2 DEF Sides
<1>9. /\ position' \in [Accounts -> [Instruments -> Holding]]
      /\ \A x \in Accounts \ {a} : position'[x] = position[x]
  BY <1>5, <1>6, <1>8
<1>10. order \in Broker!OrderRow /\ order.decision = d
  BY <1>2 DEF order, Broker!OrderRow, Broker!Sides, Sides
<1>11. trade \in Broker!TradeRow
  BY <1>2, <1>8 DEF trade, Broker!TradeRow, Broker!Sides, Sides
<1>12. /\ orders' \in Seq(Broker!OrderRow) /\ trades' \in Seq(Broker!TradeRow)
       /\ Len(orders') = Len(orders) + 1 /\ Len(orders) \in Nat
       /\ orders'[Len(orders) + 1].decision = d
       /\ \A n \in 1..Len(orders) : orders'[n] = orders[n]
  BY <1>5, <1>6, <1>10, <1>11
<1>13. ledger' \in Seq(Broker!EntryRow)
  <2>1. Len(trades) + 1 \in Nat \ {0}
    BY <1>5
  <2>2. Broker!TradeEntries(Len(trades) + 1, a, side, costs) \in Seq(Broker!EntryRow)
    BY <1>2, <2>1, EntriesType
  <2> QED
    BY <1>5, <1>6, <2>2, ConcatProperties
<1>14. Broker!BookTypeOK' /\ Broker!NeverOverdrawn'
  BY <1>7, <1>9, <1>12, <1>13 DEF Broker!BookTypeOK, Broker!NeverOverdrawn, Holding
<1>15. Broker!OneOrderPerDecision'
  BY <1>3, <1>12 DEF SessionsInv, BookSound, Broker!OneOrderPerDecision, Broker!AlreadyOrdered
<1>16. \A c \in DecisionIds : Broker!AlreadyOrdered(c)' => Broker!AlreadyOrdered(c) \/ c = d
  BY <1>12 DEF Broker!AlreadyOrdered
<1> QED
  BY <1>1, <1>7, <1>9, <1>14, <1>15, <1>16 DEF BookSound, mine

\* A commit keeps the sessions sound.
LEMMA CommitKeeps ==
    ASSUME CostsAreMinor, SessionsInv, NEW s \in Sessions, Commit(s)
    PROVE  SessionsInv'
<1> DEFINE mine == session[s]
           a    == AccountOf(mine.decision)
<1>1. /\ mine.pc = "flushed" /\ Active(s) /\ mine.decision \in DecisionIds /\ a \in Accounts
  BY CommitKnows, DecisionFacts DEF Commit
<1>2. \A t \in Sessions :
          session'[t] = IF t = s THEN Idle
                        ELSE IF Works(t, a) THEN [session[t] EXCEPT !.behind = TRUE]
                        ELSE session[t]
  BY DEF Commit
<1>3. overtaken' \subseteq Accounts
  BY <1>1 DEF Commit, SessionsInv
\* What a row of the next state is.
<1>4. ASSUME NEW t \in Sessions
      PROVE  /\ SoundRow(t, session'[t])
             /\ session'[t].pc # "idle" =>
                   /\ t # s /\ Active(t)
                   /\ session'[t].pc = session[t].pc
                   /\ session'[t].decision = session[t].decision
                   /\ \/ session'[t].behind = TRUE
                      \/ session'[t] = session[t] /\ AccountOf(session[t].decision) # a
  <2>1. SoundRow(t, session[t])
    BY DEF SessionsInv, SessionsSound
  <2>2. CASE t = s
    <3>1. session'[t] = Idle /\ Idle.pc = "idle"
      BY <1>2, <2>2 DEF Idle
    <3>2. SoundRow(t, Idle)
      BY DEF SoundRow
    <3> QED
      BY <3>1, <3>2
  <2>3. CASE t # s /\ Works(t, a)
    <3>1. session[t] # Idle /\ Active(t)
      BY <2>3 DEF Works, Active, Idle
    <3> QED
      BY <1>2, <2>1, <2>3, <3>1, FallsBehind
  <2>4. CASE t # s /\ ~Works(t, a)
    BY <1>2, <2>1, <2>4 DEF Works, Active
  <2> QED
    BY <2>2, <2>3, <2>4
<1>5. SessionsSound'
  <2>1. session' = [t \in Sessions |-> session'[t]]
    BY DEF Commit
  <2> QED
    BY <1>4, <2>1 DEF SessionsSound
<1>6. LocksExclude'
  <2>1. SUFFICES ASSUME NEW t \in Sessions, NEW u \in Sessions, t # u,
                        session'[t].pc = "flushed", session'[u].pc = "flushed"
                 PROVE  AccountOf(session'[t].decision) # AccountOf(session'[u].decision)
    BY DEF LocksExclude, AccountOf
  <2>2. /\ session[t].pc = "flushed" /\ session'[t].decision = session[t].decision
        /\ session[u].pc = "flushed" /\ session'[u].decision = session[u].decision
    BY <1>4, <2>1
  <2> QED
    BY <2>1, <2>2 DEF SessionsInv, LocksExclude, AccountOf
<1>7. FlushedIsFirst'
  <2>1. SUFFICES ASSUME NEW t \in Sessions, session'[t].pc = "flushed"
                 PROVE  ~Broker!AlreadyOrdered(session[t].decision)'
    BY DEF FlushedIsFirst
  <2>2. t # s /\ session[t].pc = "flushed" /\ session'[t].decision = session[t].decision
    BY <1>4, <2>1
  <2>3. PICK c \in DecisionIds : c = session[t].decision
    BY <2>2, CommitKnows
  <2>4. c # mine.decision
    BY <1>1, <2>2, <2>3 DEF SessionsInv, LocksExclude
  <2>5. ~Broker!AlreadyOrdered(c)
    BY <2>2, <2>3 DEF SessionsInv, FlushedIsFirst
  <2>6. ~Broker!AlreadyOrdered(c)'
    BY <2>4, <2>5, CommitKeepsBook
  <2> QED
    BY <2>2, <2>3, <2>6 DEF Broker!AlreadyOrdered
<1>8. ReadsStand'
  <2>1. SUFFICES ASSUME NEW t \in Sessions, session'[t].pc # "idle", session'[t].behind # TRUE
                 PROVE  Stands(session[t])'
    BY DEF ReadsStand, Active
  <2>2. /\ session'[t] = session[t] /\ Active(t) /\ AccountOf(session[t].decision) # a
        /\ SoundRow(t, session[t])
    BY <1>4, <2>1
  <2>3. session[t].decision \in DecisionIds
    BY <2>2, RowShape DEF Active
  <2>4. Stands(session[t])
    BY <2>1, <2>2 DEF SessionsInv, ReadsStand
  <2>5. PICK x \in Accounts : x = AccountOf(session[t].decision)
    BY <2>3, DecisionFacts
  <2>6. wallet'[x] = wallet[x] /\ position'[x] = position[x]
    BY <2>2, <2>5, CommitKeepsBook
  <2> QED
    BY <2>2, <2>4, <2>5, <2>6 DEF Stands, AccountOf
<1> QED
  BY <1>3, <1>5, <1>6, <1>7, <1>8, CommitKeepsBook DEF SessionsInv

-----------------------------------------------------------------------------

LEMMA SessionsInitial == Init => SessionsInv
<1> SUFFICES ASSUME Init PROVE SessionsInv
  OBVIOUS
<1>1. /\ wallet = OpeningCash /\ orders = <<>> /\ trades = <<>> /\ ledger = <<>>
      /\ position = [a \in Accounts |-> [i \in Instruments |-> Broker!EmptyPosition]]
      /\ session = [s \in Sessions |-> Idle] /\ overtaken = {}
  BY DEF Init, Broker!BookInit
<1>2. Broker!EmptyPosition \in Holding
  BY DEF Broker!EmptyPosition, Broker!PositionRow, Holding
<1>3. BookSound
  BY <1>1, <1>2, SessionsAssumption
     DEF BookSound, Broker!BookTypeOK, Broker!NeverOverdrawn, Broker!OneOrderPerDecision, Holding
<1>4. \A s \in Sessions : session[s] = Idle /\ session[s].pc = "idle"
  BY <1>1 DEF Idle
<1>5. SessionsSound
  BY <1>1, <1>4 DEF SessionsSound, SoundRow
<1> QED
  BY <1>1, <1>3, <1>4, <1>5
     DEF SessionsInv, LocksExclude, FlushedIsFirst, ReadsStand, Active

LEMMA SessionsStep ==
    ASSUME CostsAreMinor, SessionsInv, [Next]_vars PROVE SessionsInv'
<1>1. CASE UNCHANGED vars
  <2>1. /\ wallet' = wallet /\ position' = position /\ orders' = orders /\ trades' = trades
        /\ ledger' = ledger /\ session' = session /\ overtaken' = overtaken
    BY <1>1 DEF vars, book
  <2>2. BookSound'
    BY <2>1 DEF SessionsInv, BookSound, Broker!BookTypeOK, Broker!NeverOverdrawn,
       Broker!OneOrderPerDecision
  <2>3. SessionsSound' /\ LocksExclude'
    BY <2>1 DEF SessionsInv, SessionsSound, LocksExclude
  <2>4. FlushedIsFirst' /\ ReadsStand'
    BY <2>1 DEF SessionsInv, FlushedIsFirst, ReadsStand, Broker!AlreadyOrdered, Stands, Active
  <2> QED
    BY <2>1, <2>2, <2>3, <2>4 DEF SessionsInv
<1> QED
  BY <1>1, OpenKeeps, LoadKeeps, CommitKeeps, FlushKeeps, AbortKeeps DEF Next, Step

-----------------------------------------------------------------------------
(* What the races leave of the book's story.                                *)

\* What is proved of the atomic broker's postings holds of these: same rows, same entries.
P == INSTANCE PaperBroker_proofs WITH
        Approvals <- {}, Prices <- {}, decision <- Decisions, quote <- Quotes

\* The copies of the operators that the two instances bring are the same.
LEMMA SameBook ==
    /\ P!BookTypeOK <=> Broker!BookTypeOK
    /\ P!LedgerPostsTradesOnce <=> Broker!LedgerPostsTradesOnce
    /\ P!CashReconciles <=> Broker!CashReconciles
    /\ P!PositionReconciles <=> Broker!PositionReconciles
<1>1. P!BookTypeOK <=> Broker!BookTypeOK
  BY DEF P!BookTypeOK, Broker!BookTypeOK, P!PositionRow, Broker!PositionRow, P!OrderRow,
         Broker!OrderRow, P!TradeRow, Broker!TradeRow, P!EntryRow, Broker!EntryRow,
         P!EntryKinds, Broker!EntryKinds, P!Sides, Broker!Sides
<1>2. \A f, S : P!SumFunctionOnSet(f, S) = Broker!SumFunctionOnSet(f, S)
  BY DEF P!SumFunctionOnSet, Broker!SumFunctionOnSet, P!FoldFunctionOnSet,
         Broker!FoldFunctionOnSet, P!MapThenFoldSet, Broker!MapThenFoldSet
<1>3. P!LedgerPostsTradesOnce <=> Broker!LedgerPostsTradesOnce
  BY <1>2, Zenon DEF P!LedgerPostsTradesOnce, Broker!LedgerPostsTradesOnce
<1>4. P!CashReconciles <=> Broker!CashReconciles
  BY <1>2, Zenon DEF P!CashReconciles, Broker!CashReconciles
<1>5. P!PositionReconciles <=> Broker!PositionReconciles
  BY <1>2, Zenon DEF P!PositionReconciles, Broker!PositionReconciles
<1> QED
  BY <1>1, <1>3, <1>4, <1>5

LEMMA BrokerAssumptions == P!CostAssumption /\ P!BrokerAssumption
<1>1. P!CostAssumption
  BY CostAssumption DEF P!CostAssumption
<1>2. P!DecisionRow = Broker!DecisionRow /\ P!QuoteRow = Broker!QuoteRow
  BY DEF P!DecisionRow, Broker!DecisionRow, P!QuoteRow, Broker!QuoteRow
<1>3. P!BrokerAssumption
  BY <1>2, SessionsAssumption DEF P!BrokerAssumption
<1> QED
  BY <1>1, <1>3

\* A commit inserts one trade with its entries; a session that is not behind also moves
\* the committed wallet and position by what it trades.
LEMMA CommitPosts ==
    ASSUME CostsAreMinor, SessionsInv, NEW s \in Sessions, Commit(s)
    PROVE  \E t : /\ P!Posts(t)
                  /\ session[s].behind # TRUE =>
                        /\ wallet' = [wallet EXCEPT ![t.account] = @ + P!CashMoved(t.side, t.net)]
                        /\ \A x \in Accounts, y \in Instruments :
                              position'[x][y].quantity = position[x][y].quantity
                                + IF x = t.account /\ y = t.instrument THEN P!Signed[t] ELSE 0
<1> DEFINE mine == session[s]
<1>1. PICK d \in DecisionIds, a \in Accounts, i \in Instruments :
          d = mine.decision /\ a = AccountOf(d) /\ i = Decisions[d].instrument
  BY CommitKnows, DecisionFacts DEF Commit
<1> DEFINE q     == Decisions[d].quantity
           side  == SideOf[d]
           k     == Decisions[d].quote
           costs == CostsFor(d)
           new   == IF side = "buy" THEN Broker!PositionAfterBuy(mine.position, q, costs.net)
                                    ELSE Broker!PositionAfterSell(mine.position, q, costs.net)
           pnl   == IF side = "buy" THEN 0 ELSE Broker!RealizedPnl(mine.position, q, costs.net)
           t     == [account |-> a, instrument |-> i, quote |-> k, side |-> side,
                     quantity |-> q, gross |-> costs.gross, fees |-> costs.fees,
                     taxes |-> costs.taxes, spread |-> costs.spread, net |-> costs.net,
                     pnl |-> pnl]
<1>2. /\ costs.gross \in Nat /\ costs.fees \in Nat /\ costs.taxes \in Nat
      /\ costs.spread \in Nat /\ costs.net \in Nat
      /\ q \in Nat \ {0} /\ side \in Sides /\ k \in QuoteIds
  BY CostsForType, DecisionFacts
<1>3. costs.net = IF side = "buy" THEN costs.gross + costs.fees + costs.taxes
                                  ELSE costs.gross - costs.fees - costs.taxes
  BY DEF CostsFor, Broker!CostsOf, Broker!Costs, Broker!NetCash
<1>4. /\ mine.position \in Holding /\ Pays(mine) /\ (mine.behind = TRUE \/ Stands(mine))
      /\ mine.pc = "flushed"
  BY CommitKnows DEF Commit
<1>5. side = "sell" => q <= mine.position.quantity
  BY <1>1, <1>4 DEF Pays
<1>6. /\ wallet \in [Accounts -> Nat]
      /\ position \in [Accounts -> [Instruments -> Holding]]
  BY DEF SessionsInv, BookSound, Broker!BookTypeOK, Broker!NeverOverdrawn, Holding
<1>7. /\ wallet' = [wallet EXCEPT ![a] = IF side = "buy" THEN mine.wallet - costs.net
                                                         ELSE mine.wallet + costs.net]
      /\ position' = [position EXCEPT ![a][i] = new]
      /\ trades' = Append(trades, t)
      /\ ledger' = ledger \o Broker!TradeEntries(Len(trades) + 1, a, side, costs)
  BY <1>1 DEF Commit
<1>8. mine.behind # TRUE => mine.wallet = wallet[a] /\ mine.position = position[a][i]
  BY <1>1, <1>4 DEF Stands
<1> HIDE DEF costs, mine, new, pnl
<1>9. pnl \in Int
  <2>1. CASE side = "buy"
    BY <2>1 DEF pnl
  <2>2. CASE side = "sell"
    BY <1>2, <1>4, <1>5, <2>2, SellHolding DEF pnl
  <2> QED
    BY <1>2, <2>1, <2>2 DEF Sides
<1>10. t \in P!TradeRow
  BY <1>2, <1>9 DEF P!TradeRow, P!Sides, Sides
<1>11. P!Posts(t)
  <2>1. Broker!TradeEntries(Len(trades) + 1, a, side, costs)
           = P!TradeEntries(Len(trades) + 1, a, side, t)
    BY DEF Broker!TradeEntries, P!TradeEntries
  <2>2. /\ t.account = a /\ t.side = side /\ t.gross = costs.gross
        /\ t.fees = costs.fees /\ t.taxes = costs.taxes /\ t.net = costs.net
    OBVIOUS
  <2> HIDE DEF t
  <2> QED
    BY <1>3, <1>7, <1>10, <2>1, <2>2 DEF P!Posts
<1>12. P!Signed[t] = IF side = "buy" THEN q ELSE -q
  BY <1>10 DEF P!Signed
<1>13. t.account = a /\ t.instrument = i /\ t.side = side /\ t.net = costs.net
  OBVIOUS
<1> HIDE DEF t
<1>14. ASSUME mine.behind # TRUE
       PROVE  wallet' = [wallet EXCEPT ![t.account] = @ + P!CashMoved(t.side, t.net)]
  <2>1. (IF side = "buy" THEN mine.wallet - costs.net ELSE mine.wallet + costs.net)
           = wallet[a] + P!CashMoved(side, costs.net)
    BY <1>2, <1>6, <1>8, <1>14 DEF P!CashMoved
  <2> QED
    BY <1>7, <1>13, <2>1
<1>15. ASSUME mine.behind # TRUE, NEW x \in Accounts, NEW y \in Instruments
       PROVE  position'[x][y].quantity = position[x][y].quantity
                 + IF x = a /\ y = i THEN P!Signed[t] ELSE 0
  <2>1. position'[x][y] = IF x = a /\ y = i THEN new ELSE position[x][y]
    BY <1>6, <1>7
  <2>2. position[x][y].quantity \in Int
    BY <1>6 DEF Holding, Broker!PositionRow
  <2>3. new.quantity = mine.position.quantity + (IF side = "buy" THEN q ELSE -q)
    <3>1. mine.position.quantity \in Int
      BY <1>4 DEF Holding, Broker!PositionRow
    <3> QED
      BY <1>2, <3>1 DEF new, Broker!PositionAfterBuy, Broker!PositionAfterSell, Sides
  <2>4. CASE x = a /\ y = i
    BY <1>8, <1>12, <1>15, <2>1, <2>3, <2>4
  <2>5. CASE ~(x = a /\ y = i)
    BY <2>1, <2>2, <2>5
  <2> QED
    BY <2>4, <2>5
<1>16. mine.behind # TRUE =>
          \A x \in Accounts, y \in Instruments :
              position'[x][y].quantity = position[x][y].quantity
                 + IF x = t.account /\ y = t.instrument THEN P!Signed[t] ELSE 0
  BY <1>13, <1>15
<1> QED
  BY <1>11, <1>14, <1>16 DEF mine

\* The story the book tells, as far as the races leave it.
StoryInv == Broker!LedgerPostsTradesOnce /\ ReconcilesUnlessOvertaken

\* A commit of a session that was not overtaken is a trade posted once.
LEMMA CommitTells ==
    ASSUME CostsAreMinor, SessionsInv, StoryInv, NEW s \in Sessions, Commit(s)
    PROVE  StoryInv'
<1>1. PICK t : /\ P!Posts(t)
               /\ session[s].behind # TRUE =>
                     /\ wallet' = [wallet EXCEPT ![t.account] = @ + P!CashMoved(t.side, t.net)]
                     /\ \A x \in Accounts, y \in Instruments :
                           position'[x][y].quantity = position[x][y].quantity
                             + IF x = t.account /\ y = t.instrument THEN P!Signed[t] ELSE 0
  BY CommitPosts
<1>2. P!BookTypeOK /\ P!LedgerPostsTradesOnce
  BY SameBook DEF SessionsInv, BookSound, StoryInv
<1>3. Broker!LedgerPostsTradesOnce'
  <2>1. P!LedgerPostsTradesOnce'
    BY <1>1, <1>2, P!PostingOnce, BrokerAssumptions
  <2> QED
    BY <2>1, SameBook, PTL
<1>4. ASSUME overtaken' = {}
      PROVE  Broker!CashReconciles' /\ Broker!PositionReconciles'
  <2>1. overtaken = {} /\ session[s].behind # TRUE
    BY <1>4 DEF Commit
  <2>2. P!CashReconciles /\ P!PositionReconciles
    BY <2>1, SameBook DEF StoryInv, ReconcilesUnlessOvertaken
  <2>3. P!CashReconciles'
    BY <1>1, <1>2, <2>1, <2>2, P!PostingCash, BrokerAssumptions
  <2>4. P!PositionReconciles'
    BY <1>1, <1>2, <2>1, <2>2, P!PostingMetal, BrokerAssumptions
  <2> QED
    BY <2>3, <2>4, SameBook, PTL
<1> QED
  BY <1>3, <1>4 DEF StoryInv, ReconcilesUnlessOvertaken

LEMMA StoryInitial == Init => StoryInv
<1> SUFFICES ASSUME Init PROVE StoryInv
  OBVIOUS
<1>1. /\ wallet = OpeningCash /\ trades = <<>> /\ ledger = <<>>
      /\ position = [a \in Accounts |-> [i \in Instruments |-> Broker!EmptyPosition]]
  BY DEF Init, Broker!BookInit
<1>2. \A f : Broker!SumFunctionOnSet(f, {}) = 0
  BY SumEmpty DEF Broker!SumFunctionOnSet, SumFunctionOnSet, Broker!FoldFunctionOnSet,
     FoldFunctionOnSet, Broker!MapThenFoldSet, MapThenFoldSet
<1>3. Broker!CashReconciles
  <2>1. \A a : {n \in DOMAIN ledger : ledger[n].account = a} = {}
    BY <1>1
  <2>2. \A a \in Accounts : wallet[a] = OpeningCash[a] + 0
    BY <1>1, SessionsAssumption
  <2> QED
    BY <1>2, <2>1, <2>2, Zenon DEF Broker!CashReconciles
<1>4. Broker!PositionReconciles
  <2>1. \A a, i : {n \in DOMAIN trades : trades[n].account = a /\ trades[n].instrument = i} = {}
    BY <1>1
  <2>2. \A a \in Accounts, i \in Instruments : position[a][i].quantity = 0
    BY <1>1 DEF Broker!EmptyPosition
  <2> QED
    BY <1>2, <2>1, <2>2, Zenon DEF Broker!PositionReconciles
<1>5. Broker!LedgerPostsTradesOnce
  BY <1>1 DEF Broker!LedgerPostsTradesOnce
<1> QED
  BY <1>3, <1>4, <1>5 DEF StoryInv, ReconcilesUnlessOvertaken

LEMMA StoryStep ==
    ASSUME CostsAreMinor, SessionsInv, StoryInv, [Next]_vars PROVE StoryInv'
<1>1. ASSUME UNCHANGED <<book, overtaken>> PROVE StoryInv'
  <2>1. /\ wallet' = wallet /\ position' = position /\ trades' = trades /\ ledger' = ledger
        /\ overtaken' = overtaken
    BY <1>1 DEF book
  <2> QED
    BY <2>1 DEF StoryInv, ReconcilesUnlessOvertaken, Broker!LedgerPostsTradesOnce,
       Broker!CashReconciles, Broker!PositionReconciles
<1> QED
  BY <1>1, CommitTells DEF Next, Step, Open, Load, Flush, Abort, vars

\* However many sessions execute at once, whatever they have read and whenever they abort:
\* no decision is ordered twice, no wallet is overdrawn, no position short and every trade
\* posted once, even when one session overwrites what another has committed
\* (PaperBroker.execute and the unique constraints of paper_orders), as long as fee and tax
\* take at most half of the price.
THEOREM RacesStayInBounds == CostsAreMinor => (Spec => []RacesKeepTheRules)
<1> SUFFICES ASSUME CostsAreMinor PROVE Spec => []RacesKeepTheRules
  OBVIOUS
<1>1. SessionsInv /\ [Next]_vars => SessionsInv'
  BY SessionsStep
<1>2. SessionsInv /\ StoryInv /\ [Next]_vars => StoryInv'
  BY StoryStep
<1>3. SessionsInv /\ StoryInv => RacesKeepTheRules
  <2> SUFFICES ASSUME SessionsInv, StoryInv PROVE RacesKeepTheRules
    OBVIOUS
  <2>1. ASSUME NEW s \in Sessions, Active(s)
        PROVE  /\ session[s].pc \in {"opened", "loaded", "flushed"}
               /\ session[s].decision \in Serves[s]
               /\ session[s].wallet \in Int /\ session[s].behind \in BOOLEAN
    BY <2>1, RowShape DEF Active, SessionsInv, SessionsSound
  <2> QED
    BY <2>1 DEF RacesKeepTheRules, TypeOK, SessionsInv, BookSound, StoryInv
<1> QED
  BY SessionsInitial, StoryInitial, <1>1, <1>2, <1>3, PTL DEF Spec

\* Reading late is the only way to lose money from the books: until a commit overwrites one
\* that its session had not read, wallets and positions are what ledger and trades add up
\* to, for any number of sessions (PaperBroker.execute takes no lock and compares no version).
THEOREM OnlyLateReadsLose == CostsAreMinor => (Spec => []ReconcilesUnlessOvertaken)
<1> SUFFICES ASSUME CostsAreMinor PROVE Spec => []ReconcilesUnlessOvertaken
  OBVIOUS
<1>1. SessionsInv /\ [Next]_vars => SessionsInv'
  BY SessionsStep
<1>2. SessionsInv /\ StoryInv /\ [Next]_vars => StoryInv'
  BY StoryStep
<1>3. StoryInv => ReconcilesUnlessOvertaken
  BY DEF StoryInv
<1> QED
  BY SessionsInitial, StoryInitial, <1>1, <1>2, <1>3, PTL DEF Spec

-----------------------------------------------------------------------------

\* The commit of a session that is not behind is one call of execute().
LEMMA CommitExecutes ==
    ASSUME CostsAreMinor, SessionsInv, NEW s \in Sessions, Commit(s), overtaken' = {}
    PROVE  Broker!Next
<1> DEFINE mine == session[s]
<1>1. PICK d \in DecisionIds : d = mine.decision
  BY CommitKnows DEF Commit
<1> DEFINE k == Decisions[d].quote
           a == AccountOf(d)
           i == Decisions[d].instrument
<1>2. /\ mine.behind # TRUE /\ Stands(mine) /\ mine.pc = "flushed" /\ Pays(mine)
      /\ ~Broker!AlreadyOrdered(d)
  BY <1>1, CommitKnows DEF Commit
<1>3. mine.wallet = wallet[a] /\ mine.position = position[a][i]
  BY <1>1, <1>2 DEF Stands
<1>4. /\ a \in Accounts /\ i \in Instruments /\ Decisions[d].quantity \in Nat \ {0}
      /\ k \in QuoteIds /\ SideOf[d] \in Sides
      /\ Quotes[k].buy \in Nat /\ Quotes[k].sell \in Nat
      /\ Quotes[k].buy > 0 /\ Quotes[k].buy <= Quotes[k].sell
  BY DecisionFacts
<1>5. Broker!Approved(d) /\ Broker!QuoteUsable(d, k) /\ k # NoQuote
  BY <1>4, SessionsAssumption DEF Broker!Approved, Broker!QuoteUsable
<1>6. Broker!Affordable(d, SideOf[d], k)
  <2>1. /\ CostsFor(d).net \in Nat /\ wallet[a] \in Nat
        /\ Broker!CostsOf(d, SideOf[d], k) = CostsFor(d)
    BY <1>4, CostsForType
       DEF CostsFor, SessionsInv, BookSound, Broker!BookTypeOK, Broker!NeverOverdrawn
  <2>2. /\ Broker!CostInputsValid(Decisions[d].quantity, Quotes[k].buy, Quotes[k].sell)
        /\ Broker!ExecutionPrice(SideOf[d], Quotes[k].buy, Quotes[k].sell) > 0
    BY <1>4 DEF Broker!CostInputsValid, Broker!ExecutionPrice
  <2>3. IF SideOf[d] = "buy" THEN CostsFor(d).net <= wallet[a]
                             ELSE Decisions[d].quantity <= position[a][i].quantity
    BY <1>1, <1>2, <1>3 DEF Pays
  <2> QED
    BY <1>4, <2>1, <2>2, <2>3 DEF Broker!Affordable, Sides, AccountOf
<1>7. Broker!QuoteOf(d, k) = k
  BY <1>5 DEF Broker!QuoteOf
<1>8. Broker!Fill(d, SideOf[d], k)
  BY <1>1, <1>3 DEF Commit, Broker!Fill, CostsFor, AccountOf
<1>9. Broker!Execute(d, SideOf[d], k)
  BY <1>2, <1>5, <1>6, <1>7, <1>8 DEF Broker!Execute, Broker!Accepts
<1> QED
  BY <1>4, <1>9 DEF Broker!Next, Broker!Sides, Sides

\* Up to the first commit that overwrites one its session has not read, concurrent
\* sessions implement the atomic broker: the locks and constraints of the database do all
\* that one transaction at a time would, for any number of sessions and decisions.
THEOREM SessionsImplementTheBroker == CostsAreMinor => (Spec => ImplementsPaperBroker)
<1> SUFFICES ASSUME CostsAreMinor PROVE Spec => ImplementsPaperBroker
  OBVIOUS
<1>1. SessionsInv /\ [Next]_vars => SessionsInv'
  BY SessionsStep
<1>2. SessionsInv /\ [Next]_vars => [Broker!Next \/ overtaken' # {}]_(Broker!vars)
  <2> SUFFICES ASSUME SessionsInv, [Next]_vars, overtaken' = {}
               PROVE  Broker!Next \/ UNCHANGED Broker!vars
    OBVIOUS
  <2>1. ASSUME UNCHANGED book PROVE UNCHANGED Broker!vars
    BY <2>1 DEF book, Broker!vars
  <2>2. ASSUME NEW s \in Sessions, Commit(s) PROVE Broker!Next
    BY <2>2, CommitExecutes
  <2> QED
    BY <2>1, <2>2 DEF Next, Step, Open, Load, Flush, Abort, vars, book
<1>3. Init => Broker!BookInit
  BY DEF Init
<1> QED
  BY SessionsInitial, <1>1, <1>2, <1>3, PTL DEF Spec, ImplementsPaperBroker

=============================================================================

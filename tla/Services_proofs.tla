--------------------------- MODULE Services_proofs --------------------------
(***************************************************************************)
(* What the market data and the services beside the trading loop keep to:   *)
(* the backfills of reference bars, the quotes and the bars built of them,  *)
(* the status bot, the interpretation of news.  They share no state; each   *)
(* has its invariant and its theorems below.                                *)
(***************************************************************************)
EXTENDS ReferenceData, QuoteBars, TelegramBot, NewsRisk, Accounting_proofs

-----------------------------------------------------------------------------
(***************************************************************************)
(* What the backfills leave behind, for any instruments, delays, intervals  *)
(* and numbers of bars and runs.  BackfillsAreSound is inductive once the    *)
(* runs are known to have started no later than now (StartsArePast): a       *)
(* refresh interval of zero rests on it, and so does a bar having ended when *)
(* its run started.                                                          *)
(***************************************************************************)

StartsArePast == \A s \in Symbols : \A k \in DOMAIN backfills[s] : backfills[s][k].started <= now

RefInv == BackfillsAreSound /\ StartsArePast

\* What is said of one instrument, of its rows and its runs.
SoundFor(rows, runs) ==
    /\ runs \in Seq(RunRow) /\ rows \in [BarNumbers -> BarRow \cup {NoBar}]
    /\ \A k \in DOMAIN runs : runs[k].started <= now
    /\ \A j, k \in DOMAIN runs : j < k /\ runs[k].by = "worker" =>
          runs[k].started - runs[j].started >= RefreshInterval
    /\ \A n \in BarNumbers : rows[n] # NoBar =>
          /\ rows[n].batch \in DOMAIN runs
          /\ runs[rows[n].batch].status = "completed"
          /\ BarEnd(n) <= runs[rows[n].batch].started
    /\ \A k \in DOMAIN runs : runs[k].by = "command" /\ runs[k].status = "completed" =>
          \E j \in 1..(k - 1) : runs[j].status = "dry_run"

\* A non-empty set of bar numbers has a latest one.
LEMMA LatestBarExists ==
  ASSUME NEW S, S \subseteq BarNumbers, S # {}
  PROVE  \E n \in S : \A m \in S : m <= n
<1> DEFINE R    == OpToRel(<, Nat)
           From == { Bars - n : n \in S }
<1>1. Bars \in Nat /\ \A n \in S : n \in Nat /\ Bars - n \in Nat
  BY ReferenceAssumption DEF BarNumbers
<1>2. From \subseteq Nat /\ From # {}
  BY <1>1
<1>3. PICK x \in From : \A y \in From : ~(<<y, x>> \in R)
  <2>1. IsWellFoundedOn(R, Nat)
    BY NatLessThanWellFounded
  <2> HIDE DEF R, From
  <2> QED
    BY <1>2, <2>1, WFMin
<1>4. \A y \in From : ~(y < x)
  BY <1>2, <1>3 DEF OpToRel
<1>5. PICK n \in S : x = Bars - n
  BY <1>3
<1>6. \A m \in S : m <= n
  BY <1>1, <1>4, <1>5
<1> QED
  BY <1>6

\* The signal bar of a tick is a stored bar of the calendar, or none.
LEMMA SignalBarType ==
  ASSUME NEW rows, NEW at PROVE SignalBar(rows, at) \in BarNumbers \cup {NoSignal}
<1> DEFINE usable == Usable(rows, SignalSymbol, at)
<1>1. usable \subseteq BarNumbers
  BY DEF Usable
<1> HIDE DEF usable
<1>2. CASE usable = {}
  BY <1>2 DEF SignalBar, usable
<1>3. CASE usable # {}
  <2>1. \E n \in usable : \A m \in usable : m <= n
    BY <1>1, <1>3, LatestBarExists
  <2>2. (CHOOSE n \in usable : \A m \in usable : m <= n) \in usable
    BY <2>1
  <2> QED
    BY <1>1, <1>3, <2>2 DEF SignalBar, usable
<1> QED
  BY <1>2, <1>3

-----------------------------------------------------------------------------

LEMMA RefInitial == Init => RefInv
<1> SUFFICES ASSUME Init PROVE RefInv
  OBVIOUS
<1>1. TypeOK
  <2>1. /\ now \in Nat /\ approved \in BOOLEAN
        /\ bar \in [Symbols -> [BarNumbers -> BarRow \cup {NoBar}]]
    BY DEF Init
  <2>2. backfills \in [Symbols -> Seq(RunRow)]
    <3>1. <<>> \in Seq(RunRow)
      OBVIOUS
    <3> QED
      BY <3>1 DEF Init
  <2>3. tick \in [at: Nat, complete: BOOLEAN, signal: BarNumbers \cup {NoSignal}]
    BY DEF Init
  <2> QED
    BY <2>1, <2>2, <2>3 DEF TypeOK
<1>2. \A s \in Symbols : DOMAIN backfills[s] = {}
  BY DEF Init
<1>3. \A s \in Symbols, n \in BarNumbers : bar[s][n] = NoBar
  BY DEF Init
<1>4. RefreshesAreSpaced /\ CommandWritesWereReviewed /\ StartsArePast
  BY <1>2 DEF RefreshesAreSpaced, CommandWritesWereReviewed, StartsArePast
<1>5. BarsComeFromCompletedRuns
  BY <1>3 DEF BarsComeFromCompletedRuns
<1> QED
  BY <1>1, <1>4, <1>5 DEF RefInv, BackfillsAreSound

LEMMA ClosedBars == Closed \subseteq BarNumbers /\ \A n \in Closed : BarEnd(n) <= now
BY DEF Closed

\* One more run of an instrument keeps what is said of that instrument's runs and
\* bars, when a worker's run kept its distance and a command's followed a dry run.
LEMMA RunKeeps ==
  ASSUME RefInv, NEW s \in Symbols, NEW fetched \in SUBSET Closed, NEW dryRun,
         NEW delay \in Nat, NEW by \in {"worker", "command"},
         NEW status \in {"completed", "dry_run", "failed", "blocked"},
         NEW rows, NEW runs, runs = Recorded(s, by, status),
         by = "worker" => RefreshDue(s),
         by = "command" /\ status = "completed" => ReviewedRuns(s) # {},
         \/ rows = bar[s]
         \/ status = RunStatus(fetched, dryRun) /\ rows = Stored(s, fetched, dryRun, delay)
  PROVE  SoundFor(rows, runs)
<1> DEFINE old == backfills[s]
           L   == Len(old)
           new == [by |-> by, started |-> now, status |-> status]
<1>1. /\ old \in Seq(RunRow) /\ L \in Nat /\ now \in Nat /\ new \in RunRow
      /\ bar[s] \in [BarNumbers -> BarRow \cup {NoBar}] /\ RefreshInterval \in Nat
  BY ReferenceAssumption DEF RefInv, BackfillsAreSound, TypeOK, RunRow
<1>2. /\ runs = Append(old, new)
      /\ runs \in Seq(RunRow) /\ Len(runs) = L + 1
      /\ \A k \in 1..L : runs[k] = old[k]
      /\ runs[L + 1] = new
      /\ DOMAIN runs = 1..(L + 1) /\ DOMAIN old = 1..L
  BY <1>1 DEF Recorded
<1>3. new.by = by /\ new.started = now /\ new.status = status
  OBVIOUS
<1>4. /\ \A k \in 1..L : old[k].started \in Nat /\ old[k].started <= now
      /\ \A j, k \in 1..L : j < k /\ old[k].by = "worker" =>
            old[k].started - old[j].started >= RefreshInterval
      /\ \A k \in 1..L : old[k].by = "command" /\ old[k].status = "completed" =>
            \E j \in 1..(k - 1) : old[j].status = "dry_run"
  <2>1. \A k \in 1..L : old[k] \in RunRow
    BY <1>1, <1>2
  <2>2. \A k \in 1..L : old[k].started \in Nat
    BY <2>1 DEF RunRow
  <2>3. \A k \in 1..L : old[k].started <= now
    BY <1>2 DEF RefInv, StartsArePast
  <2>4. \A j, k \in 1..L : j < k /\ old[k].by = "worker" =>
            old[k].started - old[j].started >= RefreshInterval
    BY <1>2 DEF RefInv, BackfillsAreSound, RefreshesAreSpaced
  <2>5. \A k \in 1..L : old[k].by = "command" /\ old[k].status = "completed" =>
            \E j \in 1..(k - 1) : old[j].status = "dry_run"
    BY <1>2 DEF RefInv, BackfillsAreSound, CommandWritesWereReviewed
  <2> QED
    BY <2>2, <2>3, <2>4, <2>5
<1>5. \A n \in BarNumbers : bar[s][n] # NoBar =>
        /\ bar[s][n].batch \in 1..L
        /\ old[bar[s][n].batch].status = "completed"
        /\ BarEnd(n) <= old[bar[s][n].batch].started
  BY <1>2 DEF RefInv, BackfillsAreSound, BarsComeFromCompletedRuns
<1>6. by = "worker" => \A j \in 1..L : now - old[j].started >= RefreshInterval
  BY <1>1, <1>2, <1>4 DEF RefreshDue
<1>7. by = "command" /\ status = "completed" => \E j \in 1..L : old[j].status = "dry_run"
  BY <1>2 DEF ReviewedRuns
<1>8. /\ rows \in [BarNumbers -> BarRow \cup {NoBar}]
      /\ \A n \in BarNumbers :
            \/ rows[n] = bar[s][n]
            \/ n \in fetched /\ status = "completed" /\ rows[n].batch = L + 1
  <2> DEFINE Row(n) == [available |-> BarEnd(n) + delay, delay |-> delay, batch |-> L + 1]
  <2>1. \A n \in BarNumbers : Row(n) \in BarRow /\ Row(n).batch = L + 1
    BY <1>1, ReferenceAssumption DEF BarRow, BarEnd, BarNumbers
  <2>2. CASE rows = bar[s]
    BY <1>1, <2>2
  <2>3. CASE status = "completed" /\ rows = Stored(s, fetched, dryRun, delay)
                /\ RunStatus(fetched, dryRun) = "completed"
    <3>1. rows = [n \in BarNumbers |-> IF n \in fetched THEN Row(n) ELSE bar[s][n]]
      BY <2>3 DEF Stored
    <3> HIDE DEF Row
    <3> QED
      BY <1>1, <2>1, <2>3, <3>1
  <2>4. CASE RunStatus(fetched, dryRun) # "completed" /\ rows = Stored(s, fetched, dryRun, delay)
    BY <2>2, <2>4 DEF Stored
  <2> QED
    BY <2>2, <2>3, <2>4
<1> HIDE DEF old, L, new
<1>9. \A k \in DOMAIN runs : runs[k].started <= now
  BY <1>1, <1>2, <1>3, <1>4
<1>10. \A j, k \in DOMAIN runs : j < k /\ runs[k].by = "worker" =>
          runs[k].started - runs[j].started >= RefreshInterval
  <2>1. SUFFICES ASSUME NEW j \in 1..(L + 1), NEW k \in 1..(L + 1),
                        j < k, runs[k].by = "worker"
                 PROVE  runs[k].started - runs[j].started >= RefreshInterval
    BY <1>2
  <2>2. CASE k = L + 1
    BY <1>1, <1>2, <1>3, <1>6, <2>1, <2>2
  <2>3. CASE k # L + 1
    BY <1>1, <1>2, <1>4, <2>1, <2>3
  <2> QED
    BY <2>2, <2>3
<1>11. \A n \in BarNumbers : rows[n] # NoBar =>
          /\ rows[n].batch \in DOMAIN runs
          /\ runs[rows[n].batch].status = "completed"
          /\ BarEnd(n) <= runs[rows[n].batch].started
  <2>1. SUFFICES ASSUME NEW n \in BarNumbers, rows[n] # NoBar
                 PROVE  /\ rows[n].batch \in DOMAIN runs
                        /\ runs[rows[n].batch].status = "completed"
                        /\ BarEnd(n) <= runs[rows[n].batch].started
    OBVIOUS
  <2>2. CASE rows[n] = bar[s][n]
    <3>1. /\ rows[n].batch \in 1..L /\ old[rows[n].batch].status = "completed"
          /\ BarEnd(n) <= old[rows[n].batch].started
      BY <1>5, <2>1, <2>2
    <3> QED
      BY <1>1, <1>2, <3>1
  <2>3. CASE n \in fetched /\ status = "completed" /\ rows[n].batch = L + 1
    <3>1. BarEnd(n) <= now
      BY <2>3, ClosedBars
    <3> QED
      BY <1>1, <1>2, <1>3, <2>3, <3>1
  <2> QED
    BY <1>8, <2>2, <2>3
<1>12. \A k \in DOMAIN runs : runs[k].by = "command" /\ runs[k].status = "completed" =>
          \E j \in 1..(k - 1) : runs[j].status = "dry_run"
  <2>1. SUFFICES ASSUME NEW k \in 1..(L + 1), runs[k].by = "command", runs[k].status = "completed"
                 PROVE  \E j \in 1..(k - 1) : runs[j].status = "dry_run"
    BY <1>2
  <2>2. CASE k = L + 1
    <3>1. PICK j \in 1..L : old[j].status = "dry_run"
      BY <1>2, <1>3, <1>7, <2>1, <2>2
    <3> QED
      BY <1>1, <1>2, <2>2, <3>1
  <2>3. CASE k # L + 1
    <3>1. k \in 1..L /\ old[k].by = "command" /\ old[k].status = "completed"
      BY <1>1, <1>2, <2>1, <2>3
    <3>2. PICK j \in 1..(k - 1) : old[j].status = "dry_run"
      BY <1>4, <3>1
    <3> QED
      BY <1>1, <1>2, <3>1, <3>2
  <2> QED
    BY <2>2, <2>3
<1> QED
  BY <1>2, <1>8, <1>9, <1>10, <1>11, <1>12 DEF SoundFor

-----------------------------------------------------------------------------

\* The invariant speaks of each instrument on its own.
EachIsSound ==
    /\ now \in Nat /\ approved \in BOOLEAN
    /\ tick \in [at: Nat, complete: BOOLEAN, signal: BarNumbers \cup {NoSignal}]
    /\ bar = [s \in Symbols |-> bar[s]] /\ backfills = [s \in Symbols |-> backfills[s]]
    /\ \A s \in Symbols : SoundFor(bar[s], backfills[s])

LEMMA RefInvOfEach == RefInv <=> EachIsSound
<1>1. TypeOK <=> /\ now \in Nat /\ approved \in BOOLEAN
                 /\ tick \in [at: Nat, complete: BOOLEAN, signal: BarNumbers \cup {NoSignal}]
                 /\ bar = [s \in Symbols |-> bar[s]]
                 /\ backfills = [s \in Symbols |-> backfills[s]]
                 /\ \A s \in Symbols : /\ backfills[s] \in Seq(RunRow)
                                       /\ bar[s] \in [BarNumbers -> BarRow \cup {NoBar}]
  BY Zenon DEF TypeOK
<1> QED
  BY <1>1 DEF RefInv, BackfillsAreSound, RefreshesAreSpaced, BarsComeFromCompletedRuns,
     CommandWritesWereReviewed, StartsArePast, SoundFor, EachIsSound

LEMMA RefInvOfEachNext == RefInv' <=> EachIsSound'
BY RefInvOfEach, PTL

LEMMA CommandKeeps == ASSUME RefInv, RunCommand PROVE RefInv'
<1>1. PICK s \in Symbols, dryRun \in BOOLEAN, delay \in CommandDelays, fetched \in SUBSET Closed,
           reviewed \in 0..MaxRuns : Command(s, dryRun, reviewed, delay, fetched)
  BY DEF RunCommand, Answers
<1>2. delay \in Nat
  BY ReferenceAssumption
<1>3. UNCHANGED <<now, approved, tick>>
  BY <1>1 DEF Command
<1>4. CASE UNCHANGED <<bar, backfills>>
  BY <1>3, <1>4 DEF RefInv, BackfillsAreSound, TypeOK, RefreshesAreSpaced,
     BarsComeFromCompletedRuns, CommandWritesWereReviewed, StartsArePast
<1>5. ASSUME NEW status \in {"completed", "dry_run", "failed", "blocked"}, NEW rows,
             status = "completed" => ReviewedRuns(s) # {},
             \/ rows = bar[s]
             \/ status = RunStatus(fetched, dryRun) /\ rows = Stored(s, fetched, dryRun, delay),
             bar' = [bar EXCEPT ![s] = rows],
             backfills' = [backfills EXCEPT ![s] = Recorded(s, "command", status)]
      PROVE  RefInv'
  <2>1. SoundFor(rows, Recorded(s, "command", status))
    BY <1>2, <1>5, RunKeeps
  <2>2. \A t \in Symbols : SoundFor(bar'[t], backfills'[t])
    <3>1. bar = [t \in Symbols |-> bar[t]] /\ backfills = [t \in Symbols |-> backfills[t]]
      BY RefInvOfEach DEF EachIsSound
    <3>2. \A t \in Symbols : SoundFor(bar[t], backfills[t])
      BY RefInvOfEach DEF EachIsSound
    <3>3. \A t \in Symbols : t # s => bar'[t] = bar[t] /\ backfills'[t] = backfills[t]
      BY <1>5, <3>1
    <3>4. bar'[s] = rows /\ backfills'[s] = Recorded(s, "command", status)
      BY <1>5, <3>1
    <3> QED
      BY <2>1, <3>2, <3>3, <3>4
  <2>3. \A t \in Symbols : SoundFor(bar[t], backfills[t])'
    BY <1>3, <2>2 DEF SoundFor
  <2>4. bar' = [t \in Symbols |-> bar'[t]] /\ backfills' = [t \in Symbols |-> backfills'[t]]
    BY <1>5, RefInvOfEach DEF EachIsSound
  <2> QED
    BY <1>3, <2>3, <2>4, RefInvOfEach, RefInvOfEachNext DEF EachIsSound
<1>6. CASE ~UNCHANGED <<bar, backfills>> /\ ~(~dryRun /\ reviewed \notin ReviewedRuns(s))
  <2>1. /\ bar' = [bar EXCEPT ![s] = Stored(s, fetched, dryRun, delay)]
        /\ backfills' = [backfills EXCEPT
              ![s] = Recorded(s, "command", RunStatus(fetched, dryRun))]
    BY <1>1, <1>6 DEF Command
  <2>2. RunStatus(fetched, dryRun) \in {"completed", "dry_run", "failed", "blocked"}
    BY DEF RunStatus
  <2>3. RunStatus(fetched, dryRun) = "completed" => ReviewedRuns(s) # {}
    BY <1>6 DEF RunStatus
  <2> QED
    BY <1>5, <2>1, <2>2, <2>3
<1>7. CASE ~UNCHANGED <<bar, backfills>> /\ ~dryRun /\ reviewed \notin ReviewedRuns(s)
  <2>1. bar' = bar /\ backfills' = [backfills EXCEPT ![s] = Recorded(s, "command", "blocked")]
    BY <1>1, <1>7 DEF Command
  <2>2. bar' = [bar EXCEPT ![s] = bar[s]]
    BY <2>1, RefInvOfEach DEF EachIsSound
  <2> QED
    BY <1>5, <2>1, <2>2
<1> QED
  BY <1>4, <1>6, <1>7

LEMMA TickKeeps == ASSUME RefInv, RunTick PROVE RefInv'
<1>1. PICK fetched \in [Symbols -> SUBSET Closed] : Tick(fetched)
  BY DEF RunTick, Answers
<1> DEFINE due   == { s \in Symbols : RefreshDue(s) }
           after == [s \in Symbols |->
                       IF s \in due THEN Stored(s, fetched[s], FALSE, RuntimeDelay) ELSE bar[s]]
<1>2. /\ bar' = after
      /\ backfills' = [s \in Symbols |->
           IF s \in due THEN Recorded(s, "worker", RunStatus(fetched[s], FALSE))
           ELSE backfills[s]]
      /\ tick' = [ at |-> now, complete |-> WarmedUp(after, now),
                   signal |-> IF WarmedUp(after, now) THEN SignalBar(after, now) ELSE NoSignal ]
      /\ UNCHANGED <<now, approved>>
  BY <1>1 DEF Tick
<1>3. tick' \in [at: Nat, complete: BOOLEAN, signal: BarNumbers \cup {NoSignal}]
  <2>1. WarmedUp(after, now) \in BOOLEAN
    BY DEF WarmedUp
  <2>2. now \in Nat
    BY DEF RefInv, BackfillsAreSound, TypeOK
  <2> HIDE DEF after
  <2> QED
    BY <1>2, <2>1, <2>2, SignalBarType
<1> HIDE DEF due
<1>4. \A s \in Symbols : SoundFor(bar'[s], backfills'[s])
  <2>1. SUFFICES ASSUME NEW s \in Symbols PROVE SoundFor(bar'[s], backfills'[s])
    OBVIOUS
  <2>2. CASE s \in due
    <3>1. /\ bar'[s] = Stored(s, fetched[s], FALSE, RuntimeDelay)
          /\ backfills'[s] = Recorded(s, "worker", RunStatus(fetched[s], FALSE))
      BY <1>2, <2>2
    <3>2. /\ RunStatus(fetched[s], FALSE) \in {"completed", "dry_run", "failed", "blocked"}
          /\ fetched[s] \in SUBSET Closed /\ RuntimeDelay \in Nat /\ RefreshDue(s)
      BY <2>2, ReferenceAssumption DEF RunStatus, due
    <3> QED
      BY <3>1, <3>2, RunKeeps
  <2>3. CASE s \notin due
    BY <1>2, <2>3, RefInvOfEach DEF EachIsSound
  <2> QED
    BY <2>2, <2>3
<1>5. \A s \in Symbols : SoundFor(bar[s], backfills[s])'
  <2>1. ASSUME NEW s \in Symbols PROVE SoundFor(bar[s], backfills[s])'
    <3>1. now' = now
      BY <1>2
    <3>2. SoundFor(bar'[s], backfills'[s])
      BY <1>4
    <3> QED
      BY ONLY <3>1, <3>2 DEF SoundFor
  <2> QED
    BY <2>1
<1>6. bar' = [s \in Symbols |-> bar'[s]] /\ backfills' = [s \in Symbols |-> backfills'[s]]
  BY <1>2
<1>7. now' \in Nat /\ approved' \in BOOLEAN
  BY <1>2 DEF RefInv, BackfillsAreSound, TypeOK
<1> QED
  BY <1>3, <1>5, <1>6, <1>7, RefInvOfEachNext DEF EachIsSound

LEMMA RefInvariant == Spec => []RefInv
<1>1. ASSUME RefInv, [Next]_vars PROVE RefInv'
  <2> USE DEF RefInv, BackfillsAreSound, TypeOK, RefreshesAreSpaced,
              BarsComeFromCompletedRuns, CommandWritesWereReviewed, StartsArePast
  <2>1. CASE UNCHANGED vars
    BY <1>1, <2>1 DEF vars
  <2>2. CASE Bootstrap
    BY <1>1, <2>2 DEF Bootstrap
  <2>3. CASE Pass
    <3>1. /\ \A s \in Symbols : \A k \in DOMAIN backfills[s] : backfills[s][k].started \in Nat
          /\ now \in Nat /\ now' = now + 1
      <4>1. \A s \in Symbols : \A k \in DOMAIN backfills[s] : backfills[s][k] \in RunRow
        BY <1>1
      <4> QED
        BY <1>1, <2>3, <4>1 DEF Pass, RunRow
    <3>2. StartsArePast'
      BY <1>1, <2>3, <3>1 DEF Pass
    <3> QED
      BY <1>1, <2>3, <3>1, <3>2 DEF Pass
  <2> QED
    BY <1>1, <2>1, <2>2, <2>3, CommandKeeps, TickKeeps DEF Next
<1> QED
  BY RefInitial, <1>1, PTL DEF Spec

\* Whatever the provider returns and whoever runs a backfill, however it ends: the rows
\* are well formed, the worker keeps its distance from the last recorded run, every bar
\* was written by a completed run that started after the bar's end, and the command
\* wrote only after a dry run of the same instrument.
THEOREM BackfillsStaySound == Spec => []BackfillsAreSound
<1>1. RefInv => BackfillsAreSound
  BY DEF RefInv
<1> QED
  BY RefInvariant, <1>1, PTL

\* A bar may be used its delay after its end, and the worker has but one delay.
DelaysTold ==
    \A s \in Symbols, n \in BarNumbers : bar[s][n] # NoBar =>
        /\ bar[s][n].available = BarEnd(n) + bar[s][n].delay
        /\ backfills[s][bar[s][n].batch].by = "worker" => bar[s][n].delay = RuntimeDelay

\* What one run by this actor does to the rows of an instrument.
RunWrites(s, rows, runs) ==
    LET last == Len(backfills[s]) + 1
    IN  /\ last \in DOMAIN runs
        /\ \A k \in DOMAIN backfills[s] : k \in DOMAIN runs /\ runs[k] = backfills[s][k]
        /\ \A n \in BarNumbers :
              \/ rows[n] = bar[s][n]
              \/ \E delay \in Nat :
                    /\ rows[n] = [available |-> BarEnd(n) + delay, delay |-> delay, batch |-> last]
                    /\ runs[last].by = "worker" => delay = RuntimeDelay

LEMMA RunIs ==
  ASSUME RefInv, NEW s \in Symbols, NEW by, NEW status, NEW fetched, NEW dryRun, NEW delay \in Nat,
         by = "worker" => delay = RuntimeDelay,
         NEW rows, rows = bar[s] \/ rows = Stored(s, fetched, dryRun, delay)
  PROVE  RunWrites(s, rows, Recorded(s, by, status))
<1> DEFINE runs == Recorded(s, by, status)
           last == Len(backfills[s]) + 1
<1>1. backfills[s] \in Seq(RunRow)
  BY DEF RefInv, BackfillsAreSound, TypeOK
<1>2. /\ last \in DOMAIN runs /\ runs[last].by = by
      /\ \A k \in DOMAIN backfills[s] : k \in DOMAIN runs /\ runs[k] = backfills[s][k]
  BY <1>1 DEF Recorded
<1>3. \A n \in BarNumbers :
         \/ rows[n] = bar[s][n]
         \/ rows[n] = [available |-> BarEnd(n) + delay, delay |-> delay, batch |-> last]
  BY DEF Stored
<1> QED
  BY <1>2, <1>3 DEF RunWrites

\* A step runs a backfill of an instrument or leaves its rows alone.
LEMMA RunsOfAStep ==
  ASSUME RefInv, [Next]_vars, NEW s \in Symbols
  PROVE  \/ bar'[s] = bar[s] /\ backfills'[s] = backfills[s]
         \/ RunWrites(s, bar'[s], backfills'[s])
<1>0. bar = [t \in Symbols |-> bar[t]] /\ backfills = [t \in Symbols |-> backfills[t]]
  BY RefInvOfEach DEF EachIsSound
<1>1. CASE RunTick
  <2>1. PICK fetched \in [Symbols -> SUBSET Closed] : Tick(fetched)
    BY <1>1 DEF RunTick, Answers
  <2>2. /\ bar'[s] = IF RefreshDue(s) THEN Stored(s, fetched[s], FALSE, RuntimeDelay) ELSE bar[s]
        /\ backfills'[s] = IF RefreshDue(s)
                           THEN Recorded(s, "worker", RunStatus(fetched[s], FALSE)) ELSE backfills[s]
    BY <2>1 DEF Tick
  <2>3. RuntimeDelay \in Nat
    BY ReferenceAssumption
  <2> QED
    BY <2>2, <2>3, RunIs
<1>2. CASE RunCommand
  <2>1. PICK t \in Symbols, dryRun \in BOOLEAN, delay \in CommandDelays, fetched \in SUBSET Closed,
             reviewed \in 0..MaxRuns : Command(t, dryRun, reviewed, delay, fetched)
    BY <1>2 DEF RunCommand, Answers
  <2>2. delay \in Nat
    BY ReferenceAssumption
  <2>3. CASE t # s \/ UNCHANGED <<bar, backfills>>
    BY <1>0, <2>1, <2>3 DEF Command
  <2>4. CASE t = s /\ ~UNCHANGED <<bar, backfills>>
    <3>1. \/ /\ bar' = bar
             /\ backfills' = [backfills EXCEPT ![s] = Recorded(s, "command", "blocked")]
          \/ /\ bar' = [bar EXCEPT ![s] = Stored(s, fetched, dryRun, delay)]
             /\ backfills' = [backfills EXCEPT
                   ![s] = Recorded(s, "command", RunStatus(fetched, dryRun))]
      BY <2>1, <2>4 DEF Command
    <3>2. CASE bar' = bar /\ backfills' = [backfills EXCEPT ![s] = Recorded(s, "command", "blocked")]
      <4>1. backfills'[s] = Recorded(s, "command", "blocked") /\ bar'[s] = bar[s]
        BY <1>0, <3>2
      <4> QED
        BY <2>2, <4>1, RunIs
    <3>3. CASE /\ bar' = [bar EXCEPT ![s] = Stored(s, fetched, dryRun, delay)]
               /\ backfills' = [backfills EXCEPT
                     ![s] = Recorded(s, "command", RunStatus(fetched, dryRun))]
      <4>1. /\ backfills'[s] = Recorded(s, "command", RunStatus(fetched, dryRun))
            /\ bar'[s] = Stored(s, fetched, dryRun, delay)
        BY <1>0, <3>3
      <4> QED
        BY <2>2, <4>1, RunIs
    <3> QED
      BY <3>1, <3>2, <3>3
  <2> QED
    BY <2>3, <2>4
<1>3. CASE Bootstrap \/ Pass \/ UNCHANGED vars
  BY <1>3 DEF Bootstrap, Pass, vars
<1> QED
  BY <1>1, <1>2, <1>3 DEF Next

LEMMA DelaysInvariant == Spec => []DelaysTold
<1>1. Init => DelaysTold
  BY DEF Init, DelaysTold
<1>2. ASSUME RefInv, DelaysTold, [Next]_vars PROVE DelaysTold'
  <2> SUFFICES ASSUME NEW s \in Symbols, NEW n \in BarNumbers, bar'[s][n] # NoBar
               PROVE  /\ bar'[s][n].available = BarEnd(n) + bar'[s][n].delay
                      /\ backfills'[s][bar'[s][n].batch].by = "worker" => bar'[s][n].delay = RuntimeDelay
    BY DEF DelaysTold
  <2>1. CASE bar'[s][n] = bar[s][n]
    <3>1. bar[s][n].batch \in DOMAIN backfills[s]
      BY <1>2, <2>1 DEF RefInv, BackfillsAreSound, BarsComeFromCompletedRuns
    <3>2. backfills'[s][bar[s][n].batch] = backfills[s][bar[s][n].batch]
      BY <1>2, <3>1, RunsOfAStep DEF RunWrites
    <3> QED
      BY <1>2, <2>1, <3>2 DEF DelaysTold
  <2>2. CASE bar'[s][n] # bar[s][n]
    <3>1. RunWrites(s, bar'[s], backfills'[s])
      BY <1>2, <2>2, RunsOfAStep
    <3>2. PICK delay \in Nat :
             /\ bar'[s][n] = [ available |-> BarEnd(n) + delay, delay |-> delay,
                               batch |-> Len(backfills[s]) + 1 ]
             /\ backfills'[s][Len(backfills[s]) + 1].by = "worker" => delay = RuntimeDelay
      BY <2>2, <3>1 DEF RunWrites
    <3> QED
      BY <3>2
  <2> QED
    BY <2>1, <2>2
<1> QED
  BY <1>1, <1>2, RefInvariant, PTL DEF Spec

\* The signal bar is one that may be used.
LEMMA SignalBarIsUsable ==
  ASSUME NEW rows, NEW at, SignalBar(rows, at) # NoSignal
  PROVE  SignalBar(rows, at) \in Usable(rows, SignalSymbol, at)
<1> DEFINE usable == Usable(rows, SignalSymbol, at)
<1>1. usable \subseteq BarNumbers
  BY DEF Usable
<1> HIDE DEF usable
<1>2. usable # {}
  BY DEF SignalBar, usable
<1>3. \E n \in usable : \A m \in usable : m <= n
  BY <1>1, <1>2, LatestBarExists
<1>4. (CHOOSE n \in usable : \A m \in usable : m <= n) \in usable
  BY <1>3
<1> QED
  BY <1>2, <1>4 DEF SignalBar, usable

\* Whoever wrote a bar last, and with whatever delay: a tick uses it no earlier than
\* that delay, earlier than the worker's own only after the command, and what may be
\* used stays so unless a longer delay is written (_latest_signal_bar, _persist_bars).
THEOREM BarsStayInTime == Spec => BarsAreUsedInTime
<1> DEFINE NotEarly ==
             tick' # tick /\ tick'.signal # NoSignal =>
                LET row == bar'[SignalSymbol][tick'.signal]
                IN  /\ row # NoBar /\ tick'.at >= row.available
                    /\ tick'.at < BarEnd(tick'.signal) + RuntimeDelay =>
                         backfills'[SignalSymbol][row.batch].by = "command"
           Stay ==
             \A s \in Symbols, n \in BarNumbers :
                n \in Usable(bar, s, now) =>
                    \/ n \in Usable(bar', s, now')
                    \/ bar'[s][n] # NoBar /\ bar'[s][n].delay > bar[s][n].delay
<1>0. ReferenceAssumption /\ MissingBarAssumption
  BY ReferenceAssumption, MissingBarAssumption
<1>1. ASSUME RefInv, RefInv', DelaysTold, DelaysTold', [Next]_vars PROVE NotEarly
  <2> SUFFICES ASSUME tick' # tick, tick'.signal # NoSignal
               PROVE  LET row == bar'[SignalSymbol][tick'.signal]
                      IN  /\ row # NoBar /\ tick'.at >= row.available
                          /\ tick'.at < BarEnd(tick'.signal) + RuntimeDelay =>
                               backfills'[SignalSymbol][row.batch].by = "command"
    OBVIOUS
  <2>1. RunTick
    BY <1>1 DEF Next, vars, Bootstrap, RunCommand, Command, Pass
  <2>2. PICK fetched \in [Symbols -> SUBSET Closed] : Tick(fetched)
    BY <2>1 DEF RunTick, Answers
  <2>3. tick' = [ at |-> now, complete |-> WarmedUp(bar', now),
                  signal |-> IF WarmedUp(bar', now) THEN SignalBar(bar', now) ELSE NoSignal ]
    BY <2>2 DEF Tick
  <2> DEFINE n == tick'.signal
             row == bar'[SignalSymbol][n]
  <2>4. n = SignalBar(bar', now) /\ tick'.at = now
    BY <2>3
  <2>5. n \in Usable(bar', SignalSymbol, now)
    BY <2>4, SignalBarIsUsable
  <2>6. n \in BarNumbers /\ row # NoBar /\ row.available <= now
    BY <2>5 DEF Usable
  <2>7. /\ row.available = BarEnd(n) + row.delay
        /\ backfills'[SignalSymbol][row.batch].by = "worker" => row.delay = RuntimeDelay
    BY <1>0, <1>1, <2>6 DEF DelaysTold, ReferenceAssumption
  <2>8. /\ row \in BarRow /\ now \in Nat
        /\ backfills'[SignalSymbol][row.batch] \in RunRow
    <3>1. /\ bar' \in [Symbols -> [BarNumbers -> BarRow \cup {NoBar}]] /\ now \in Nat
          /\ backfills' \in [Symbols -> Seq(RunRow)] /\ SignalSymbol \in Symbols
          /\ row.batch \in DOMAIN backfills'[SignalSymbol]
      BY <1>0, <1>1, <2>6
         DEF RefInv, BackfillsAreSound, TypeOK, BarsComeFromCompletedRuns, ReferenceAssumption
    <3> HIDE DEF n
    <3> QED
      BY <2>6, <3>1
  <2>9. BarEnd(n) \in Int /\ row.delay \in Nat /\ RuntimeDelay \in Nat /\ row.available \in Nat
    BY <1>0, <2>6, <2>8 DEF BarRow, BarEnd, BarNumbers, ReferenceAssumption
  <2>10. backfills'[SignalSymbol][row.batch].by \in {"worker", "command"}
    BY <2>8 DEF RunRow
  <2> HIDE DEF n, row
  <2>11. tick'.at < BarEnd(n) + RuntimeDelay => backfills'[SignalSymbol][row.batch].by = "command"
    BY <2>4, <2>6, <2>7, <2>8, <2>9, <2>10
  <2>12. tick'.at >= row.available
    BY <2>4, <2>6, <2>8, <2>9
  <2> QED
    BY <2>6, <2>11, <2>12 DEF n, row
<1>2. ASSUME RefInv, RefInv', DelaysTold, DelaysTold', [Next]_vars PROVE Stay
  <2> SUFFICES ASSUME NEW s \in Symbols, NEW n \in BarNumbers, n \in Usable(bar, s, now)
               PROVE  \/ n \in Usable(bar', s, now')
                      \/ bar'[s][n] # NoBar /\ bar'[s][n].delay > bar[s][n].delay
    OBVIOUS
  <2>1. now \in Nat /\ now' \in Nat /\ now <= now'
    <3>1. now \in Nat
      BY <1>2 DEF RefInv, BackfillsAreSound, TypeOK
    <3>2. now' = now \/ now' = now + 1
      BY <1>2 DEF Next, vars, Bootstrap, RunCommand, Command, RunTick, Tick, Pass
    <3> QED
      BY <3>1, <3>2
  <2>2. /\ bar[s][n] # NoBar /\ bar[s][n].available <= now /\ bar[s][n] \in BarRow
        /\ bar[s][n].available = BarEnd(n) + bar[s][n].delay
    BY <1>2 DEF Usable, RefInv, BackfillsAreSound, TypeOK, DelaysTold
  <2>3. CASE bar'[s][n] = bar[s][n]
    BY <2>1, <2>2, <2>3 DEF Usable, BarRow
  <2>4. CASE bar'[s][n] # bar[s][n]
    <3>1. RunWrites(s, bar'[s], backfills'[s])
      BY <1>2, <2>4, RunsOfAStep
    <3>2. PICK delay \in Nat :
             bar'[s][n] = [ available |-> BarEnd(n) + delay, delay |-> delay,
                            batch |-> Len(backfills[s]) + 1 ]
      BY <2>4, <3>1 DEF RunWrites
    <3>3. Len(backfills[s]) + 1 \in Nat \ {0} /\ BarEnd(n) \in Nat
      <4>1. backfills[s] \in Seq(RunRow)
        BY <1>2 DEF RefInv, BackfillsAreSound, TypeOK
      <4>2. BarWidth \in Nat /\ n \in Nat
        BY <1>0 DEF ReferenceAssumption, BarNumbers
      <4> QED
        BY <4>1, <4>2 DEF BarEnd
    <3>4. bar'[s][n] \in BarRow
      BY <3>2, <3>3 DEF BarRow
    <3>5. bar'[s][n] # NoBar
      BY <1>0, <3>4 DEF MissingBarAssumption
    <3>6. bar[s][n].delay \in Nat
      BY <2>2 DEF BarRow
    <3>7. CASE delay <= bar[s][n].delay
      <4>1. bar'[s][n].available = BarEnd(n) + delay
        BY <3>2
      <4>2. bar'[s][n].available <= now'
        BY <2>1, <2>2, <3>3, <3>6, <3>7, <4>1
      <4> QED
        BY <3>5, <4>2 DEF Usable
    <3>8. CASE delay > bar[s][n].delay
      BY <3>2, <3>5, <3>8
    <3> QED
      BY <3>6, <3>7, <3>8
  <2> QED
    BY <2>3, <2>4
<1>3. RefInv /\ RefInv' /\ DelaysTold /\ DelaysTold' /\ [Next]_vars => [NotEarly]_vars /\ [Stay]_vars
  BY <1>1, <1>2
<1>4. Spec => [][NotEarly]_vars /\ [][Stay]_vars
  <2> HIDE DEF NotEarly, Stay
  <2> QED
    BY <1>3, RefInvariant, DelaysInvariant, PTL DEF Spec
<1> QED
  BY <1>4 DEF BarsAreUsedInTime, SignalsAreNotEarly, UsableBarsStay

-----------------------------------------------------------------------------
(***************************************************************************)
(* Quotes and execution bars.  The invariant says of each open transaction  *)
(* what its look-up still rules out (LookupSound), and of each bar, written *)
(* or about to be, that the quotes it counts are there (CandleSound).       *)
(* Quotes are only ever added, so both stay true while others commit.       *)
(***************************************************************************)

\* The rows of interval i, their prices, and the rows with one that is not committed.
CountedIn(rows, i) == {k \in DOMAIN rows : InInterval(rows[k], i)}
PricesIn(rows, i)  == {rows[k].price : k \in CountedIn(rows, i)}
Seen(rows, row)    == IF row = NoQuote THEN rows ELSE Append(rows, row)

\* Bar c of interval i counts rows that are there, and its range is that of some.
CandleSound(rows, c, i) ==
    c # NoCandle => /\ c.count <= Cardinality(CountedIn(rows, i))
                    /\ c.high \in PricesIn(rows, i) /\ c.low \in PricesIn(rows, i)

\* A bar b that loses nothing of bar c.
Covers(b, c) == c # NoCandle => b.count >= c.count /\ b.high >= c.high /\ b.low <= c.low

\* The row that p is to insert was not there when p looked it up: what is now equal to
\* it has been committed since, by the other process.
LookupSound(rows, row, p, t) ==
    row # NoQuote =>
        /\ row.by = p /\ row.fetched <= t
        /\ \A j \in DOMAIN rows :
              rows[j].observed = row.observed /\ rows[j].price = row.price =>
                  rows[j].by # p /\ row.fetched <= rows[j].stored

\* The bar that the worker is to write counts what it sees, and replaces a smaller one.
BuiltSound(s, rows, candles) ==
    LET i == s.at \div Width - 1
    IN  s.built \notin {NotBuilt, NoCandle} =>
            /\ CandleSound(Seen(rows, s.row), s.built, i)
            /\ i \in Intervals => Covers(s.built, candles[i])

SessionRow == [ at: Nat, built: CandleRow \cup {NoCandle, NotBuilt}, row: QuoteRow \cup {NoQuote} ]

QuoteInv ==
    /\ QuoteTypeOK /\ DuplicatesNeedARace
    /\ session \in [Processes -> SessionRow \cup {NoSession}]
    /\ \A i \in Intervals : CandleSound(quotes, candle[i], i)
    /\ \A p \in Processes :
          session[p] # NoSession => LookupSound(quotes, session[p].row, p, clock)
    /\ session["collector"] # NoSession => session["collector"].built = NoCandle
    /\ session["worker"] # NoSession => BuiltSound(session["worker"], quotes, candle)

-----------------------------------------------------------------------------
\* A finite set of natural numbers has a greatest and a least element.
LEMMA MaxMinOf ==
    ASSUME NEW S, S \subseteq Nat, IsFiniteSet(S), S # {}
    PROVE  /\ Max(S) \in S /\ Min(S) \in S
           /\ \A y \in S : Min(S) <= y /\ y <= Max(S)
<1> DEFINE Tops(T) == \E x \in T : \A y \in T : y <= x
           Bottoms(T) == \E x \in T : \A y \in T : x <= y
           P == {T \in SUBSET S : T # {} => Tops(T) /\ Bottoms(T)}
<1>1. {} \in P
  OBVIOUS
<1>2. ASSUME NEW T \in SUBSET S, NEW z \in S, T \in P, z \notin T PROVE T \cup {z} \in P
  <2>1. CASE T = {}
    BY <2>1
  <2>2. CASE T # {}
    <3>1. PICK x \in T : \A y \in T : y <= x
      BY <1>2, <2>2
    <3>2. PICK w \in T : \A y \in T : w <= y
      BY <1>2, <2>2
    <3>3. Tops(T \cup {z})
      <4>1. CASE z <= x
        BY <3>1, <4>1
      <4>2. CASE ~(z <= x)
        BY <3>1, <4>2
      <4> QED
        BY <4>1, <4>2
    <3>4. Bottoms(T \cup {z})
      <4>1. CASE w <= z
        BY <3>2, <4>1
      <4>2. CASE ~(w <= z)
        BY <3>2, <4>2
      <4> QED
        BY <4>1, <4>2
    <3> QED
      BY <3>3, <3>4
  <2> QED
    BY <2>1, <2>2
<1>3. S \in P
  <2> HIDE DEF P
  <2> QED
    BY <1>1, <1>2, SubsetInduction
<1>4. Tops(S) /\ Bottoms(S)
  BY <1>3
<1> QED
  BY <1>4 DEF Max, Min

\* What one more row adds to an interval.
LEMMA AppendCounts ==
    ASSUME NEW rows \in Seq(QuoteRow), NEW r \in QuoteRow, NEW i
    PROVE  LET own == IF InInterval(r, i) THEN 1 ELSE 0
           IN  /\ IsFiniteSet(CountedIn(rows, i))
               /\ Cardinality(CountedIn(rows, i)) \in Nat
               /\ Cardinality(CountedIn(Append(rows, r), i)) = Cardinality(CountedIn(rows, i)) + own
               /\ PricesIn(Append(rows, r), i)
                     = PricesIn(rows, i) \cup {p \in {r.price} : InInterval(r, i)}
<1> DEFINE new == Append(rows, r)
           n   == Len(rows) + 1
<1>1. /\ DOMAIN rows = 1..Len(rows) /\ DOMAIN new = 1..n /\ Len(rows) \in Nat
      /\ new[n] = r /\ \A k \in 1..Len(rows) : new[k] = rows[k]
  OBVIOUS
<1>2. IsFiniteSet(1..Len(rows))
  <2>1. Len(rows) \in Int
    BY <1>1
  <2> QED
    BY <2>1, FS_Interval
<1>3. IsFiniteSet(CountedIn(rows, i)) /\ Cardinality(CountedIn(rows, i)) \in Nat
  <2>1. CountedIn(rows, i) \subseteq 1..Len(rows)
    BY <1>1 DEF CountedIn
  <2> QED
    BY <1>2, <2>1, FS_Subset, FS_CardinalityType
<1>4. n \notin CountedIn(rows, i)
  BY <1>1 DEF CountedIn
<1>5. CASE InInterval(r, i)
  <2>1. CountedIn(new, i) = CountedIn(rows, i) \cup {n}
    BY <1>1, <1>5 DEF CountedIn
  <2>2. Cardinality(CountedIn(rows, i) \cup {n}) = Cardinality(CountedIn(rows, i)) + 1
    BY <1>3, <1>4, FS_AddElement
  <2>3. PricesIn(new, i) = PricesIn(rows, i) \cup {r.price}
    <3>1. ASSUME NEW k \in CountedIn(rows, i) PROVE new[k] = rows[k]
      BY <1>1, <3>1 DEF CountedIn
    <3> HIDE DEF new, n
    <3> QED
      BY <1>1, <2>1, <3>1 DEF PricesIn
  <2> HIDE DEF new, n
  <2>4. Cardinality(CountedIn(new, i)) = Cardinality(CountedIn(rows, i)) + 1
    BY <2>1, <2>2
  <2> QED
    BY <1>3, <1>5, <2>3, <2>4 DEF new
<1>6. CASE ~InInterval(r, i)
  <2>1. CountedIn(new, i) = CountedIn(rows, i)
    BY <1>1, <1>6 DEF CountedIn
  <2>2. PricesIn(new, i) = PricesIn(rows, i)
    <3>1. ASSUME NEW k \in CountedIn(rows, i) PROVE new[k] = rows[k]
      BY <1>1, <3>1 DEF CountedIn
    <3> HIDE DEF new, n
    <3> QED
      BY <2>1, <3>1 DEF PricesIn
  <2> HIDE DEF new, n
  <2>3. Cardinality(CountedIn(new, i)) = Cardinality(CountedIn(rows, i)) + 0
    BY <1>3, <2>1
  <2> QED
    BY <1>3, <1>6, <2>2, <2>3 DEF new
<1> QED
  BY <1>5, <1>6

\* More committed rows leave a bar sound, whether its own row is committed or not.
LEMMA CandleStaysSound ==
    ASSUME NEW rows \in Seq(QuoteRow), NEW r \in QuoteRow, NEW row \in QuoteRow \cup {NoQuote},
           NEW c, c # NoCandle => c.count \in Nat, NEW i,
           CandleSound(Seen(rows, row), c, i)
    PROVE  CandleSound(Seen(Append(rows, r), row), c, i)
<1>1. CASE row = NoQuote
  <2>1. Seen(rows, row) = rows /\ Seen(Append(rows, r), row) = Append(rows, r)
    BY <1>1 DEF Seen
  <2> QED
    BY <2>1, AppendCounts DEF CandleSound
<1>2. CASE row # NoQuote
  <2>1. Seen(rows, row) = Append(rows, row) /\ Seen(Append(rows, r), row) = Append(Append(rows, r), row)
    BY <1>2 DEF Seen
  <2>2. Append(rows, r) \in Seq(QuoteRow) /\ row \in QuoteRow
    BY <1>2
  <2> DEFINE old == Append(rows, row)
             mid == Append(rows, r)
             new == Append(mid, row)
  <2>3. /\ Cardinality(CountedIn(old, i)) <= Cardinality(CountedIn(new, i))
        /\ Cardinality(CountedIn(old, i)) \in Nat /\ Cardinality(CountedIn(new, i)) \in Nat
        /\ PricesIn(old, i) \subseteq PricesIn(new, i)
    <3> HIDE DEF mid
    <3>1. /\ Cardinality(CountedIn(rows, i)) \in Nat /\ Cardinality(CountedIn(mid, i)) \in Nat
          /\ Cardinality(CountedIn(old, i))
                = Cardinality(CountedIn(rows, i)) + (IF InInterval(row, i) THEN 1 ELSE 0)
          /\ PricesIn(old, i) = PricesIn(rows, i) \cup {p \in {row.price} : InInterval(row, i)}
          /\ Cardinality(CountedIn(new, i))
                = Cardinality(CountedIn(mid, i)) + (IF InInterval(row, i) THEN 1 ELSE 0)
          /\ PricesIn(new, i) = PricesIn(mid, i) \cup {p \in {row.price} : InInterval(row, i)}
      BY <2>2, AppendCounts DEF mid
    <3>2. /\ Cardinality(CountedIn(mid, i))
                = Cardinality(CountedIn(rows, i)) + (IF InInterval(r, i) THEN 1 ELSE 0)
          /\ PricesIn(rows, i) \subseteq PricesIn(mid, i)
      BY AppendCounts DEF mid
    <3> HIDE DEF old, new
    <3> QED
      BY <3>1, <3>2
  <2> QED
    BY <2>1, <2>3 DEF CandleSound
<1> QED
  BY <1>1, <1>2

\* What is true of every bar that given rows may give.
LEMMA BarIs ==
    ASSUME NEW seen \in Seq(QuoteRow), NEW counted, counted \subseteq DOMAIN seen, counted # {},
           NEW b, b \in BarsOf(seen, counted)
    PROVE  /\ b \in CandleRow /\ b.count = Cardinality(counted)
           /\ b.high \in {seen[k].price : k \in counted} /\ b.low \in {seen[k].price : k \in counted}
           /\ \A k \in counted : b.low <= seen[k].price /\ seen[k].price <= b.high
<1> DEFINE prices == {seen[k].price : k \in counted}
<1>1. DOMAIN seen = 1..Len(seen) /\ Len(seen) \in Nat /\ \A k \in DOMAIN seen : seen[k] \in QuoteRow
  OBVIOUS
<1>2. IsFiniteSet(counted) /\ Cardinality(counted) \in Nat \ {0}
  <2>1. IsFiniteSet(1..Len(seen))
    BY <1>1, FS_Interval
  <2>2. IsFiniteSet(counted)
    BY <1>1, <2>1, FS_Subset
  <2> QED
    BY <2>2, FS_CardinalityType, FS_EmptySet
<1>3. prices \subseteq Prices /\ prices # {} /\ IsFiniteSet(prices)
  <2>1. \A k \in counted : seen[k].price \in Prices
    BY <1>1 DEF QuoteRow
  <2>2. IsFiniteSet(prices)
    <3> DEFINE f == [k \in counted |-> seen[k].price]
    <3>1. f \in Surjection(counted, prices)
      BY DEF Surjection
    <3> QED
      BY <1>2, <3>1, FS_Surjection
  <2> QED
    BY <2>1, <2>2
<1>4. /\ Max(prices) \in prices /\ Min(prices) \in prices
      /\ \A y \in prices : Min(prices) <= y /\ y <= Max(prices)
  <2> HIDE DEF prices
  <2> QED
    BY <1>3, QuoteAssumption, MaxMinOf
<1>5. PICK f \in counted, l \in counted :
         b = [ open |-> seen[f].price, close |-> seen[l].price, high |-> Max(prices),
               low |-> Min(prices), count |-> Cardinality(counted) ]
  <2> DEFINE firsts == {k \in counted : \A j \in counted : ~Earlier(seen[j], seen[k])}
             lasts  == {k \in counted : \A j \in counted : ~Earlier(seen[k], seen[j])}
             high == Max(prices)
             low  == Min(prices)
             size == Cardinality(counted)
  <2>1. firsts \subseteq counted /\ lasts \subseteq counted
    OBVIOUS
  <2>2. b \in {[ open |-> seen[ends[1]].price, close |-> seen[ends[2]].price, high |-> high,
                 low |-> low, count |-> size ] : ends \in firsts \X lasts}
    BY DEF BarsOf
  <2> HIDE DEF firsts, lasts, high, low, size
  <2>3. PICK f \in firsts, l \in lasts :
           b = [ open |-> seen[f].price, close |-> seen[l].price, high |-> high,
                 low |-> low, count |-> size ]
    BY <2>2
  <2> QED
    BY <2>1, <2>3 DEF high, low, size
<1>6. seen[f].price \in prices /\ seen[l].price \in prices
  OBVIOUS
<1>7. \A k \in counted : seen[k].price \in prices
  OBVIOUS
<1> HIDE DEF prices
<1>8. b \in CandleRow
  BY <1>2, <1>3, <1>4, <1>5, <1>6 DEF CandleRow
<1>9. b.count = Cardinality(counted) /\ b.high = Max(prices) /\ b.low = Min(prices)
  BY <1>5
<1>10. b.high \in prices /\ b.low \in prices
  BY <1>4, <1>9
<1>11. \A k \in counted : b.low <= seen[k].price /\ seen[k].price <= b.high
  BY <1>4, <1>7, <1>9
<1> QED
  BY <1>8, <1>9, <1>10, <1>11 DEF prices

LEMMA QuoteInitial == QuoteInit => QuoteInv
<1> SUFFICES ASSUME QuoteInit PROVE QuoteInv
  OBVIOUS
<1>1. QuoteTypeOK /\ session \in [Processes -> SessionRow \cup {NoSession}]
  BY DEF QuoteInit, QuoteTypeOK
<1>2. DuplicatesNeedARace
  BY DEF QuoteInit, DuplicatesNeedARace
<1> QED
  BY <1>1, <1>2 DEF QuoteInit, QuoteInv, CandleSound, Processes

LEMMA FetchKeeps ==
    ASSUME QuoteInv, NEW p \in Processes, NEW observed \in 0..(clock + 1), NEW price \in Prices,
           Fetch(p, observed, price)
    PROVE  QuoteInv'
<1> DEFINE row == IF Known(observed, price) THEN NoQuote
                  ELSE [ price |-> price, observed |-> observed, fetched |-> clock,
                         status |-> Freshness(observed, clock), by |-> p, stored |-> clock ]
           s == [ at |-> IF p = "worker" THEN clock ELSE 0,
                  built |-> IF p = "worker" THEN NotBuilt ELSE NoCandle, row |-> row ]
<1>1. clock \in Nat /\ observed \in Nat /\ QuoteTypeOK
  BY DEF QuoteInv, QuoteTypeOK
<1>2. Freshness(observed, clock) \in {"fresh", "stale"}
  BY DEF Fetch, Storable, Freshness
<1>3. row \in QuoteRow \cup {NoQuote}
  <2>1. [ price |-> price, observed |-> observed, fetched |-> clock,
          status |-> Freshness(observed, clock), by |-> p, stored |-> clock ] \in QuoteRow
    BY <1>1, <1>2 DEF QuoteRow
  <2> QED
    BY <2>1
<1>4. s \in SessionRow
  <2> HIDE DEF row
  <2> QED
    BY <1>1, <1>3 DEF SessionRow
<1>5. session' = [session EXCEPT ![p] = s] /\ UNCHANGED <<clock, quotes, candle>>
  BY DEF Fetch
<1>6. LookupSound(quotes, row, p, clock)
  BY <1>1 DEF LookupSound, Known
<1>7. s.row = row /\ s.at <= clock /\ (p = "worker" => s.built = NotBuilt)
                  /\ (p = "collector" => s.built = NoCandle)
  BY <1>1
<1> HIDE DEF s, row
<1>8. session' \in [Processes -> SessionRow \cup {NoSession}]
  BY <1>4, <1>5 DEF QuoteInv
<1>9. session'[p] = s /\ \A q \in Processes \ {p} : session'[q] = session[q]
  BY <1>5 DEF QuoteInv
<1>10. QuoteTypeOK'
  <2>1. \A q \in Processes : session'[q] # NoSession =>
           /\ session'[q].row \in QuoteRow \cup {NoQuote}
           /\ session'[q].at <= clock
           /\ session'[q].built \in CandleRow \cup {NoCandle, NotBuilt}
    BY <1>1, <1>4, <1>7, <1>9 DEF QuoteTypeOK, SessionRow
  <2> QED
    BY <1>1, <1>5, <2>1 DEF QuoteTypeOK
<1>11. DuplicatesNeedARace'
  BY <1>5 DEF QuoteInv, DuplicatesNeedARace
<1>12. \A i \in Intervals : CandleSound(quotes', candle'[i], i)
  BY <1>5 DEF QuoteInv
<1>13. \A q \in Processes : session'[q] # NoSession => LookupSound(quotes', session'[q].row, q, clock')
  BY <1>5, <1>6, <1>7, <1>9 DEF QuoteInv
<1>14. session'["collector"] # NoSession => session'["collector"].built = NoCandle
  BY <1>7, <1>9 DEF QuoteInv, Processes
<1>15. session'["worker"] # NoSession => BuiltSound(session'["worker"], quotes', candle')
  BY <1>5, <1>7, <1>9 DEF QuoteInv, BuiltSound, Processes
<1> QED
  BY <1>8, <1>10, <1>11, <1>12, <1>13, <1>14, <1>15 DEF QuoteInv

\* The parts of the invariant that a session and the tables share.
Consistent(rows, candles, s, t) ==
    /\ \A i \in Intervals : CandleSound(rows, candles[i], i)
    /\ \A p \in Processes : s[p] # NoSession => LookupSound(rows, s[p].row, p, t)
    /\ s["collector"] # NoSession => s["collector"].built = NoCandle
    /\ s["worker"] # NoSession => BuiltSound(s["worker"], rows, candles)

LEMMA BuildKeeps == ASSUME QuoteInv, Build PROVE QuoteInv'
<1> DEFINE s == session["worker"]
           seen == Seen(quotes, s.row)
           i == s.at \div Width - 1
           counted == CountedIn(seen, i)
<1>1. s \in SessionRow /\ s # NoSession /\ quotes \in Seq(QuoteRow) /\ Visible = seen /\ LastClosed = i
  BY DEF QuoteInv, QuoteTypeOK, Build, Processes, Seen, Visible, LastClosed
<1>2. PICK b \in IF i < 0 \/ counted = {} THEN {NoCandle} ELSE BarsOf(seen, counted) :
         session' = [session EXCEPT !["worker"].built = b]
  BY <1>1 DEF Build, CountedIn
<1>3. UNCHANGED <<clock, quotes, candle>>
  BY DEF Build
<1>4. seen \in Seq(QuoteRow)
  BY <1>1 DEF Seen, SessionRow
<1>5. Cardinality(counted) \in Nat /\ IsFiniteSet(counted)
  <2>1. DOMAIN seen = 1..Len(seen) /\ Len(seen) \in Nat
    BY <1>4
  <2>2. counted \subseteq 1..Len(seen) /\ IsFiniteSet(1..Len(seen))
    BY <2>1, FS_Interval DEF CountedIn
  <2> HIDE DEF counted
  <2> QED
    BY <2>2, FS_Subset, FS_CardinalityType
<1>6. /\ b \in CandleRow \cup {NoCandle}
      /\ b # NoCandle =>
            /\ CandleSound(seen, b, i)
            /\ \A k \in counted : b.low <= seen[k].price /\ seen[k].price <= b.high
            /\ b.count = Cardinality(counted)
  <2>1. CASE i < 0 \/ counted = {}
    BY <1>2, <2>1
  <2>2. CASE ~(i < 0 \/ counted = {})
    <3>1. counted \subseteq DOMAIN seen /\ PricesIn(seen, i) = {seen[k].price : k \in counted}
      BY DEF CountedIn, PricesIn
    <3> HIDE DEF counted, seen, i
    <3>2. /\ b \in CandleRow /\ b.count = Cardinality(counted)
          /\ b.high \in PricesIn(seen, i) /\ b.low \in PricesIn(seen, i)
          /\ \A k \in counted : b.low <= seen[k].price /\ seen[k].price <= b.high
      BY <1>2, <1>4, <2>2, <3>1, BarIs
    <3> QED
      BY <1>5, <3>2 DEF CandleSound, counted
  <2> QED
    BY <2>1, <2>2
\* What is committed of the interval is seen.
<1>7. /\ Cardinality(CountedIn(quotes, i)) \in Nat
      /\ Cardinality(CountedIn(quotes, i)) <= Cardinality(counted)
      /\ PricesIn(quotes, i) \subseteq PricesIn(seen, i)
  <2>0. Cardinality(CountedIn(quotes, i)) \in Nat
    <3>1. DOMAIN quotes = 1..Len(quotes) /\ Len(quotes) \in Nat
      BY <1>1
    <3>2. CountedIn(quotes, i) \subseteq 1..Len(quotes) /\ IsFiniteSet(1..Len(quotes))
      BY <3>1, FS_Interval DEF CountedIn
    <3> QED
      BY <3>2, FS_Subset, FS_CardinalityType
  <2>1. CASE s.row = NoQuote
    BY <2>0, <2>1 DEF Seen
  <2>2. CASE s.row # NoQuote
    <3>1. s.row \in QuoteRow /\ seen = Append(quotes, s.row)
      BY <1>1, <2>2 DEF Seen, SessionRow
    <3> HIDE DEF seen, i, s
    <3>2. /\ Cardinality(CountedIn(Append(quotes, s.row), i))
                = Cardinality(CountedIn(quotes, i)) + (IF InInterval(s.row, i) THEN 1 ELSE 0)
          /\ PricesIn(quotes, i) \subseteq PricesIn(Append(quotes, s.row), i)
      BY <1>1, <3>1, AppendCounts
    <3> QED
      BY <2>0, <3>1, <3>2 DEF counted
  <2> QED
    BY <2>1, <2>2
<1>8. b # NoCandle /\ i \in Intervals => Covers(b, candle[i])
  <2> SUFFICES ASSUME b # NoCandle, i \in Intervals, candle[i] # NoCandle
               PROVE  b.count >= candle[i].count /\ b.high >= candle[i].high /\ b.low <= candle[i].low
    BY DEF Covers
  <2> DEFINE c == candle[i]
  <2>1. c \in CandleRow /\ CandleSound(quotes, c, i)
    BY DEF QuoteInv, QuoteTypeOK
  <2> HIDE DEF seen, i, c
  <2>2. PICK h \in counted, l \in counted : c.high = seen[h].price /\ c.low = seen[l].price
    BY <1>7, <2>1 DEF CandleSound, PricesIn, c, counted
  <2>3. c.count \in Nat /\ c.count <= Cardinality(CountedIn(quotes, i))
    BY <2>1 DEF CandleSound, c, CandleRow
  <2> QED
    BY <1>5, <1>6, <1>7, <2>2, <2>3 DEF c
<1>9. [s EXCEPT !.built = b] \in SessionRow /\ [s EXCEPT !.built = b].built = b
       /\ [s EXCEPT !.built = b].at = s.at /\ [s EXCEPT !.built = b].row = s.row
  BY <1>1, <1>6 DEF SessionRow
<1>10. session' = [session EXCEPT !["worker"] = [s EXCEPT !.built = b]]
  BY <1>2
<1>11. session'["worker"] = [s EXCEPT !.built = b] /\ session'["collector"] = session["collector"]
  BY <1>10 DEF QuoteInv, Processes
<1>12. session' \in [Processes -> SessionRow \cup {NoSession}]
  BY <1>9, <1>10 DEF QuoteInv
<1>13. BuiltSound(session'["worker"], quotes, candle)
  BY <1>6, <1>8, <1>9, <1>11 DEF BuiltSound
<1>14. \A p \in Processes : session'[p] # NoSession =>
          session[p] # NoSession /\ session'[p].row = session[p].row /\ session'[p].at = session[p].at
  BY <1>1, <1>9, <1>11 DEF Processes
<1> HIDE DEF s, seen, i, counted
<1>15. QuoteTypeOK'
  <2>1. \A p \in Processes : session'[p] # NoSession =>
           /\ session'[p].row \in QuoteRow \cup {NoQuote}
           /\ session'[p].at <= clock
           /\ session'[p].built \in CandleRow \cup {NoCandle, NotBuilt}
    BY <1>12, <1>14 DEF QuoteInv, QuoteTypeOK, SessionRow
  <2> QED
    BY <1>3, <2>1 DEF QuoteTypeOK, QuoteInv
<1>16. DuplicatesNeedARace'
  BY <1>3 DEF QuoteInv, DuplicatesNeedARace
<1>17. Consistent(quotes, candle, session', clock)
  BY <1>11, <1>13, <1>14 DEF QuoteInv, Consistent
<1> QED
  BY <1>3, <1>12, <1>15, <1>16, <1>17 DEF QuoteInv, Consistent

LEMMA CommitKeeps == ASSUME QuoteInv, NEW p \in Processes, Commit(p) PROVE QuoteInv'
<1> DEFINE s == session[p]
           i == LastClosed
<1>1. /\ s \in SessionRow /\ s # NoSession /\ s.built \in CandleRow \cup {NoCandle}
      /\ quotes \in Seq(QuoteRow) /\ clock \in Nat
  BY DEF QuoteInv, QuoteTypeOK, Commit, SessionRow
<1>2. session' \in [Processes -> SessionRow \cup {NoSession}]
  BY DEF Commit, QuoteInv
<1>3. session'[p] = NoSession /\ \A q \in Processes \ {p} : session'[q] = session[q]
  BY DEF Commit, QuoteInv
<1>4. clock' = clock
  BY DEF Commit
<1>5. s.built # NoCandle => p = "worker"
  BY <1>1 DEF QuoteInv, Processes
<1>6. candle' \in [Intervals -> CandleRow \cup {NoCandle}]
       /\ \A j \in Intervals : candle'[j] = IF s.built # NoCandle /\ j = i THEN s.built ELSE candle[j]
  <2>1. candle \in [Intervals -> CandleRow \cup {NoCandle}]
    BY DEF QuoteInv, QuoteTypeOK
  <2>2. candle' = IF s.built = NoCandle THEN candle ELSE [candle EXCEPT ![i] = s.built]
    BY DEF Commit
  <2> QED
    BY <1>1, <2>1, <2>2
<1> DEFINE new == [s.row EXCEPT !.stored = clock]
<1>7. s.row # NoQuote =>
        /\ new \in QuoteRow /\ quotes' = Append(quotes, new) /\ new.stored = clock
        /\ new.observed = s.row.observed /\ new.price = s.row.price
        /\ new.by = p /\ new.fetched = s.row.fetched /\ new.status = s.row.status
  <2> SUFFICES ASSUME s.row # NoQuote
               PROVE /\ new \in QuoteRow /\ quotes' = Append(quotes, new) /\ new.stored = clock
                     /\ new.observed = s.row.observed /\ new.price = s.row.price
                     /\ new.by = p /\ new.fetched = s.row.fetched /\ new.status = s.row.status
    OBVIOUS
  <2>1. s.row \in QuoteRow
    BY <1>1 DEF SessionRow
  <2>2. s.row.by = p
    BY <1>1 DEF QuoteInv, LookupSound
  <2> QED
    BY <1>1, <2>1, <2>2 DEF Commit, QuoteRow
<1>8. s.row = NoQuote => quotes' = quotes
  BY DEF Commit
<1>9. quotes' \in Seq(QuoteRow)
  BY <1>1, <1>7, <1>8
<1>10. LookupSound(quotes, s.row, p, clock)
  BY <1>1 DEF QuoteInv
<1>11. s.row # NoQuote => /\ DOMAIN quotes' = 1..(Len(quotes) + 1) /\ DOMAIN quotes = 1..Len(quotes)
                          /\ quotes'[Len(quotes) + 1] = new
                          /\ \A j \in 1..Len(quotes) : quotes'[j] = quotes[j]
                          /\ Len(quotes) \in Nat
  BY <1>1, <1>7
<1>12. DuplicatesNeedARace'
  <2>1. CASE s.row = NoQuote
    BY <1>8, <2>1 DEF QuoteInv, DuplicatesNeedARace
  <2>2. CASE s.row # NoQuote
    <3> SUFFICES ASSUME NEW j \in DOMAIN quotes', NEW k \in DOMAIN quotes', j < k,
                        quotes'[j].observed = quotes'[k].observed, quotes'[j].price = quotes'[k].price
                 PROVE  quotes'[j].by # quotes'[k].by /\ quotes'[k].fetched <= quotes'[j].stored
      BY DEF DuplicatesNeedARace
    <3>1. CASE k \in 1..Len(quotes)
      BY <1>11, <2>2, <3>1 DEF QuoteInv, DuplicatesNeedARace
    <3>2. CASE k = Len(quotes) + 1
      <4> HIDE DEF new, s
      <4>1. j \in DOMAIN quotes /\ quotes'[j] = quotes[j] /\ quotes'[k] = new
        BY <1>11, <2>2, <3>2
      <4>2. quotes[j].by # p /\ s.row.fetched <= quotes[j].stored
        BY <1>7, <1>10, <2>2, <4>1 DEF LookupSound
      <4> QED
        BY <1>7, <2>2, <4>1, <4>2
    <3> QED
      BY <1>11, <2>2, <3>1, <3>2
  <2> QED
    BY <2>1, <2>2
<1>13. ASSUME NEW c, c # NoCandle => c.count \in Nat, NEW j, NEW row \in QuoteRow \cup {NoQuote},
              CandleSound(Seen(quotes, row), c, j)
       PROVE  CandleSound(Seen(quotes', row), c, j)
  BY <1>1, <1>7, <1>8, <1>13, CandleStaysSound
<1>14. ASSUME NEW j \in Intervals PROVE CandleSound(quotes', candle'[j], j)
  <2>1. CASE s.built # NoCandle /\ j = i
    <3>1. p = "worker" /\ candle'[j] = s.built /\ i = s.at \div Width - 1
      BY <1>5, <1>6, <2>1 DEF LastClosed
    <3>2. CandleSound(Seen(quotes, s.row), s.built, i)
      BY <1>1, <2>1, <3>1 DEF QuoteInv, BuiltSound, Commit
    <3>3. CASE s.row = NoQuote
      BY <1>8, <2>1, <3>1, <3>2, <3>3 DEF Seen
    <3>4. CASE s.row # NoQuote
      <4>1. s.row \in QuoteRow /\ Seen(quotes, s.row) = Append(quotes, s.row)
        BY <1>1, <3>4 DEF SessionRow, Seen
      <4>2. InInterval(new, i) <=> InInterval(s.row, i)
        BY <1>7, <3>4 DEF InInterval
      <4> HIDE DEF new, i, s
      <4>3. /\ Cardinality(CountedIn(Append(quotes, s.row), i))
                  = Cardinality(CountedIn(quotes, i)) + (IF InInterval(s.row, i) THEN 1 ELSE 0)
            /\ PricesIn(Append(quotes, s.row), i)
                  = PricesIn(quotes, i) \cup {x \in {s.row.price} : InInterval(s.row, i)}
        BY <1>1, <4>1, AppendCounts
      <4>4. /\ Cardinality(CountedIn(Append(quotes, new), i))
                  = Cardinality(CountedIn(quotes, i)) + (IF InInterval(new, i) THEN 1 ELSE 0)
            /\ PricesIn(Append(quotes, new), i)
                  = PricesIn(quotes, i) \cup {x \in {new.price} : InInterval(new, i)}
        BY <1>1, <1>7, <3>4, AppendCounts
      <4>5. /\ Cardinality(CountedIn(quotes', i)) = Cardinality(CountedIn(Seen(quotes, s.row), i))
            /\ PricesIn(quotes', i) = PricesIn(Seen(quotes, s.row), i)
        BY <1>7, <3>4, <4>1, <4>2, <4>3, <4>4
      <4> QED
        BY <2>1, <3>1, <3>2, <4>5 DEF CandleSound
    <3> QED
      BY <3>3, <3>4
  <2>2. CASE ~(s.built # NoCandle /\ j = i)
    <3>1. candle'[j] = candle[j]
      BY <1>6, <2>2
    <3>2. candle[j] # NoCandle => candle[j].count \in Nat
      BY DEF QuoteInv, QuoteTypeOK, CandleRow
    <3>3. CandleSound(Seen(quotes, NoQuote), candle[j], j)
      BY DEF QuoteInv, Seen
    <3>4. CandleSound(Seen(quotes', NoQuote), candle[j], j)
      BY <1>13, <3>2, <3>3
    <3> QED
      BY <3>1, <3>4 DEF Seen
  <2> QED
    BY <2>1, <2>2
<1>15. ASSUME NEW q \in Processes, session'[q] # NoSession
       PROVE  LookupSound(quotes', session'[q].row, q, clock)
  <2>1. q # p /\ session'[q] = session[q] /\ LookupSound(quotes, session[q].row, q, clock)
    BY <1>3, <1>15 DEF QuoteInv
  <2>2. CASE s.row = NoQuote
    BY <1>8, <2>1, <2>2
  <2>3. CASE s.row # NoQuote
    <3> HIDE DEF new, s
    <3> SUFFICES ASSUME session[q].row # NoQuote, NEW j \in DOMAIN quotes',
                        quotes'[j].observed = session[q].row.observed,
                        quotes'[j].price = session[q].row.price
                 PROVE  quotes'[j].by # q /\ session[q].row.fetched <= quotes'[j].stored
      BY <2>1 DEF LookupSound
    <3>1. CASE j = Len(quotes) + 1
      BY <1>7, <1>11, <2>1, <2>3, <3>1 DEF LookupSound
    <3>2. CASE j # Len(quotes) + 1
      BY <1>11, <2>1, <2>3, <3>2 DEF LookupSound
    <3> QED
      BY <3>1, <3>2
  <2> QED
    BY <2>2, <2>3
<1>16. session'["collector"] # NoSession => session'["collector"].built = NoCandle
  BY <1>3 DEF QuoteInv, Processes
<1>17. session'["worker"] # NoSession => BuiltSound(session'["worker"], quotes', candle')
  <2> SUFFICES ASSUME session'["worker"] # NoSession PROVE BuiltSound(session'["worker"], quotes', candle')
    OBVIOUS
  <2> DEFINE w == session["worker"]
             j == w.at \div Width - 1
  <2>1. p # "worker" /\ session'["worker"] = w /\ w \in SessionRow /\ BuiltSound(w, quotes, candle)
    BY <1>3 DEF QuoteInv, Processes
  <2>2. \A k \in Intervals : candle'[k] = candle[k]
    BY <1>5, <1>6, <2>1
  <2>3. w.built \notin {NotBuilt, NoCandle} => CandleSound(Seen(quotes', w.row), w.built, j)
    <3> SUFFICES ASSUME w.built \notin {NotBuilt, NoCandle}
                 PROVE  CandleSound(Seen(quotes', w.row), w.built, j)
      OBVIOUS
    <3>1. w.built.count \in Nat /\ w.row \in QuoteRow \cup {NoQuote}
      BY <2>1 DEF SessionRow, CandleRow
    <3>2. CandleSound(Seen(quotes, w.row), w.built, j)
      BY <2>1 DEF BuiltSound
    <3> HIDE DEF w, j
    <3> QED
      BY <1>13, <3>1, <3>2
  <2> QED
    BY <2>1, <2>2, <2>3 DEF BuiltSound
<1>18. QuoteTypeOK'
  <2>1. \A q \in Processes : session'[q] # NoSession =>
           /\ session'[q].row \in QuoteRow \cup {NoQuote}
           /\ session'[q].at <= clock
           /\ session'[q].built \in CandleRow \cup {NoCandle, NotBuilt}
    BY <1>2, <1>3 DEF QuoteInv, QuoteTypeOK, SessionRow
  <2> QED
    BY <1>1, <1>4, <1>6, <1>9, <2>1 DEF QuoteTypeOK
<1> QED
  BY <1>2, <1>4, <1>12, <1>14, <1>15, <1>16, <1>17, <1>18 DEF QuoteInv

LEMMA OtherQuoteStepsKeep ==
    ASSUME QuoteInv, (\E p \in Processes : Rollback(p)) \/ Elapse \/ UNCHANGED quoteVars
    PROVE  QuoteInv'
<1>1. CASE UNCHANGED quoteVars
  BY <1>1 DEF quoteVars, QuoteInv, QuoteTypeOK, DuplicatesNeedARace
<1>2. CASE Elapse
  <2>1. UNCHANGED <<quotes, candle, session>> /\ clock \in Nat /\ clock' = clock + 1
    BY <1>2 DEF Elapse, QuoteInv, QuoteTypeOK
  <2>2. \A p \in Processes : session[p] # NoSession => session[p] \in SessionRow /\ session[p].at <= clock
    BY DEF QuoteInv, QuoteTypeOK
  <2>3. QuoteTypeOK' /\ DuplicatesNeedARace'
    BY <2>1, <2>2 DEF QuoteInv, QuoteTypeOK, DuplicatesNeedARace, SessionRow
  <2>4. ASSUME NEW p \in Processes, session[p] # NoSession
        PROVE  LookupSound(quotes, session[p].row, p, clock')
    BY <2>1, <2>2, <2>4 DEF QuoteInv, LookupSound, SessionRow, QuoteRow
  <2> QED
    BY <2>1, <2>3, <2>4 DEF QuoteInv
<1>3. CASE \E p \in Processes : Rollback(p)
  <2>1. PICK p \in Processes : Rollback(p)
    BY <1>3
  <2>2. /\ UNCHANGED <<clock, quotes, candle>> /\ session' \in [Processes -> SessionRow \cup {NoSession}]
        /\ \A q \in Processes : session'[q] # NoSession => session'[q] = session[q]
    BY <2>1 DEF Rollback, QuoteInv
  <2>3. QuoteTypeOK' /\ DuplicatesNeedARace'
    BY <2>2 DEF QuoteInv, QuoteTypeOK, DuplicatesNeedARace
  <2>4. Consistent(quotes, candle, session', clock)
    BY <2>2 DEF QuoteInv, Consistent, Processes
  <2> QED
    BY <2>2, <2>3, <2>4 DEF QuoteInv, Consistent
<1> QED
  BY <1>1, <1>2, <1>3

LEMMA QuoteInvariant == QuoteSpec => []QuoteInv
<1>1. QuoteInv /\ [QuoteNext]_quoteVars => QuoteInv'
  BY FetchKeeps, BuildKeeps, CommitKeeps, OtherQuoteStepsKeep DEF QuoteNext
<1> QED
  BY <1>1, QuoteInitial, PTL DEF QuoteSpec

\* No observation lies in two intervals.
LEMMA IntervalsAreApart ==
    ASSUME NEW rows \in Seq(QuoteRow), NEW i \in Intervals, NEW j \in Intervals, i # j
    PROVE  CountedIn(rows, i) \cap CountedIn(rows, j) = {}
<1>0. Width \in Nat \ {0} /\ i \in Int /\ j \in Int
  BY QuoteAssumption DEF Intervals
<1>1. \A m, n \in Int : m < n => (m + 1) * Width <= n * Width
  <2> SUFFICES ASSUME NEW m \in Int, NEW n \in Int, m < n PROVE (m + 1) * Width <= n * Width
    OBVIOUS
  <2>1. PICK d \in Nat : n = m + 1 + d
    <3>1. n - (m + 1) \in Nat /\ n = m + 1 + (n - (m + 1))
      OBVIOUS
    <3> QED
      BY <3>1
  <2>2. d * Width \in Nat /\ (m + 1) * Width \in Int
    BY <1>0
  <2>3. n * Width = (m + 1) * Width + d * Width
    BY <1>0, <2>1
  <2> QED
    BY <2>2, <2>3
<1>2. ASSUME NEW k \in CountedIn(rows, i), k \in CountedIn(rows, j) PROVE FALSE
  <2>1. rows[k].observed \in Int
    <3>1. k \in DOMAIN rows /\ DOMAIN rows = 1..Len(rows) /\ Len(rows) \in Nat
      BY DEF CountedIn
    <3>2. rows[k] \in QuoteRow
      BY <3>1
    <3> QED
      BY <3>2 DEF QuoteRow
  <2>2. /\ rows[k].observed >= i * Width /\ rows[k].observed < (i + 1) * Width
        /\ rows[k].observed >= j * Width /\ rows[k].observed < (j + 1) * Width
    BY <1>2 DEF CountedIn, InInterval
  <2>3. i * Width \in Int /\ j * Width \in Int /\ (i + 1) * Width \in Int /\ (j + 1) * Width \in Int
    BY <1>0
  <2>4. CASE i < j
    BY <1>0, <1>1, <2>1, <2>2, <2>3, <2>4
  <2>5. CASE j < i
    BY <1>0, <1>1, <2>1, <2>2, <2>3, <2>5
  <2> QED
    BY <1>0, <2>4, <2>5
<1> QED
  BY <1>2

\* However many intervals there are, their bars count no more than the fresh quotes.
LEMMA CountsAddUp == ASSUME QuoteInv PROVE QuotesCountOnce
<1> DEFINE counts == [i \in Intervals |-> IF candle[i] = NoCandle THEN 0 ELSE candle[i].count]
           fresh == {k \in DOMAIN quotes : quotes[k].status = "fresh"}
           Among(T) == UNION {CountedIn(quotes, i) : i \in T}
           P == {T \in SUBSET Intervals : SumFunctionOnSet(counts, T) <= Cardinality(Among(T))}
<1>1. IsFiniteSet(Intervals)
  <2>1. QuoteMaxTime \div Width \in Int
    BY QuoteAssumption
  <2> QED
    BY <2>1, FS_Interval DEF Intervals
<1>2. quotes \in Seq(QuoteRow) /\ \A i \in Intervals : CandleSound(quotes, candle[i], i)
  BY DEF QuoteInv, QuoteTypeOK
<1>3. IsFiniteSet(fresh)
  <2>1. DOMAIN quotes = 1..Len(quotes) /\ Len(quotes) \in Nat
    BY <1>2
  <2>2. fresh \subseteq 1..Len(quotes) /\ IsFiniteSet(1..Len(quotes))
    BY <2>1, FS_Interval
  <2> HIDE DEF fresh
  <2> QED
    BY <2>2, FS_Subset
<1>4. \A i \in Intervals : CountedIn(quotes, i) \subseteq fresh
  BY DEF CountedIn, InInterval
<1>5. \A T \in SUBSET Intervals : Among(T) \subseteq fresh
  BY <1>4
<1>6. \A i \in Intervals : counts[i] \in Nat /\ counts[i] <= Cardinality(CountedIn(quotes, i))
  <2> SUFFICES ASSUME NEW i \in Intervals
               PROVE  counts[i] \in Nat /\ counts[i] <= Cardinality(CountedIn(quotes, i))
    OBVIOUS
  <2>1. IsFiniteSet(CountedIn(quotes, i)) /\ Cardinality(CountedIn(quotes, i)) \in Nat
    <3> HIDE DEF fresh
    <3> QED
      BY <1>3, <1>4, FS_Subset, FS_CardinalityType
  <2>2. CASE candle[i] = NoCandle
    BY <2>1, <2>2
  <2>3. CASE candle[i] # NoCandle
    BY <1>2, <2>1, <2>3 DEF CandleSound, QuoteInv, QuoteTypeOK, CandleRow
  <2> QED
    BY <2>2, <2>3
<1> HIDE DEF counts, fresh
<1>7. {} \in P
  <2>1. Among({}) = {}
    OBVIOUS
  <2>2. SumFunctionOnSet(counts, {}) = 0 /\ Cardinality(Among({})) = 0
    <3> HIDE DEF Among
    <3> QED
      BY <2>1, SumEmpty, FS_EmptySet
  <2> HIDE DEF Among
  <2> QED
    BY <2>2
<1>8. ASSUME NEW T \in SUBSET Intervals, NEW i \in Intervals, T \in P, i \notin T
      PROVE  T \cup {i} \in P
  <2> DEFINE C == CountedIn(quotes, i)
  <2>1. Among(T \cup {i}) = Among(T) \cup C
    OBVIOUS
  <2>2. Among(T) \cap C = {}
    <3>1. ASSUME NEW j \in T PROVE CountedIn(quotes, j) \cap C = {}
      BY <1>2, <1>8, <3>1, IntervalsAreApart
    <3> HIDE DEF C
    <3> QED
      BY <3>1
  <2>3. IsFiniteSet(Among(T)) /\ IsFiniteSet(C)
    <3> HIDE DEF Among
    <3> QED
      BY <1>3, <1>4, <1>5, FS_Subset
  <2> HIDE DEF Among, C
  <2>4. /\ Cardinality(Among(T) \cup C) = Cardinality(Among(T)) + Cardinality(C)
        /\ Cardinality(Among(T)) \in Nat /\ Cardinality(C) \in Nat
    <3>1. Cardinality(Among(T) \cup C)
            = Cardinality(Among(T)) + Cardinality(C) - Cardinality(Among(T) \cap C)
      BY <2>3, FS_Union
    <3>2. Cardinality(Among(T) \cap C) = 0
      BY <2>2, FS_EmptySet
    <3>3. Cardinality(Among(T)) \in Nat /\ Cardinality(C) \in Nat
      BY <2>3, FS_CardinalityType
    <3> QED
      BY <3>1, <3>2, <3>3
  <2>5. IsFiniteSet(T) /\ \A x \in T \cup {i} : counts[x] \in Int
    BY <1>1, <1>6, FS_Subset
  <2>6. SumFunctionOnSet(counts, T \cup {i}) = SumFunctionOnSet(counts, T) + counts[i]
    BY <1>8, <2>5, SumAdd
  <2>7. SumFunctionOnSet(counts, T) \in Int
    BY <2>5, SumInt
  <2>8. counts[i] \in Nat /\ counts[i] <= Cardinality(C)
    BY <1>6 DEF C
  <2>9. SumFunctionOnSet(counts, T) <= Cardinality(Among(T))
    BY <1>8
  <2>10. Cardinality(Among(T \cup {i})) = Cardinality(Among(T)) + Cardinality(C)
    BY <2>1, <2>4
  <2>11. SumFunctionOnSet(counts, T \cup {i}) <= Cardinality(Among(T \cup {i}))
    BY <2>4, <2>6, <2>7, <2>8, <2>9, <2>10
  <2> QED
    BY <1>8, <2>11
<1> HIDE DEF P, Among
<1>9. Intervals \in P
  BY <1>1, <1>7, <1>8, SubsetInduction
<1>10. Cardinality(Among(Intervals)) <= Cardinality(fresh)
        /\ Cardinality(Among(Intervals)) \in Nat /\ Cardinality(fresh) \in Nat
  <2>1. Among(Intervals) \subseteq fresh
    BY <1>5
  <2> QED
    BY <1>3, <2>1, FS_Subset, FS_CardinalityType
<1>11. SumFunctionOnSet(counts, Intervals) \in Int
  BY <1>1, <1>6, SumInt
<1>12. SumFunctionOnSet(counts, Intervals) <= Cardinality(fresh)
  BY <1>9, <1>10, <1>11 DEF P
<1> QED
  BY <1>12 DEF QuotesCountOnce, counts, fresh

\* Whatever the two processes fetch, and whichever transactions overlap or are
\* rolled back: an equal quote is stored twice only in a race, and every quote counts
\* in at most one bar (persist_provider_quote, build_execution_bar).
THEOREM QuotesStayAccountedFor == QuoteSpec => []QuotesAreAccountedFor
<1>1. QuoteInv => QuotesAreAccountedFor
  BY CountsAddUp DEF QuotesAreAccountedFor, QuoteInv
<1> QED
  BY <1>1, QuoteInvariant, PTL

\* A bar that is written again counts at least what it counted, in a range as wide,
\* whatever has been collected in between and however often a tick was rolled back.
THEOREM BarsGrow == QuoteSpec => BarsOnlyGrow
<1> DEFINE Grows == \A i \in Intervals : candle[i] # NoCandle =>
                        /\ candle'[i] # NoCandle
                        /\ candle'[i].count >= candle[i].count
                        /\ candle'[i].high >= candle[i].high /\ candle'[i].low <= candle[i].low
<1>1. QuoteInv /\ [QuoteNext]_quoteVars => Grows \/ UNCHANGED quoteVars
  <2> SUFFICES ASSUME QuoteInv, QuoteNext PROVE Grows
    OBVIOUS
  <2>1. \A i \in Intervals : candle[i] # NoCandle =>
           candle[i].count \in Nat /\ candle[i].high \in Nat /\ candle[i].low \in Nat
    BY QuoteAssumption DEF QuoteInv, QuoteTypeOK, CandleRow
  <2>2. candle' = candle => Grows
    BY <2>1
  <2>3. ASSUME NEW p \in Processes, Commit(p) PROVE Grows
    <3>1. CASE session[p].built = NoCandle
      BY <2>2, <2>3, <3>1 DEF Commit
    <3>2. CASE session[p].built # NoCandle
      <4>1. p = "worker"
        BY <2>3, <3>2 DEF QuoteInv, Commit, Processes
      <4>2. \A i \in Intervals :
               candle'[i] = IF i = LastClosed THEN session["worker"].built ELSE candle[i]
        BY <2>3, <3>2, <4>1 DEF Commit, QuoteInv, QuoteTypeOK
      <4>3. LastClosed \in Intervals => Covers(session["worker"].built, candle[LastClosed])
        BY <2>3, <3>2, <4>1 DEF Commit, QuoteInv, BuiltSound, LastClosed
      <4>4. session["worker"].built # NoCandle
        BY <3>2, <4>1
      <4> QED
        BY <2>1, <4>2, <4>3, <4>4 DEF Covers
    <3> QED
      BY <3>1, <3>2
  <2> QED
    BY <2>2, <2>3 DEF QuoteNext, Fetch, Build, Rollback, Elapse
<1>2. QuoteInv /\ [QuoteNext]_quoteVars => [Grows]_quoteVars
  BY <1>1
<1> QED
  BY <1>2, QuoteInvariant, PTL DEF QuoteSpec, BarsOnlyGrow

-----------------------------------------------------------------------------
(***************************************************************************)
(* The bot keeps its place, for every number of updates, crashes and every  *)
(* batch size: the offset passes only what was handled, and an update is    *)
(* answered again only after a crash.                                       *)
(*                                                                          *)
(* The property is not inductive: a tick moves the session's offset update  *)
(* by update, and a crash throws it back.  The invariant below says where   *)
(* the tick stands (BatchFollows), that everything up to the session's      *)
(* offset is handled (HandledUpTo), and that an update beyond it has been   *)
(* answered only as often as there were crashes (Unanswered).               *)
(***************************************************************************)

\* The batch is what comes after the session's offset; only a tick that handles
\* updates has one, and only from then on does the offset move.
BatchFollows ==
    /\ \A k \in 1..Len(batch) : batch[k] = pending + k
    /\ pending + Len(batch) <= Len(sent)
    /\ botPc # "handling" => batch = <<>>
    /\ botPc \in {"asleep", "polling"} => pending = lastUpdate

HandledUpTo == \A n \in 1..pending : answers[n] > 0 \/ sent[n] = "ignored" \/ n \in failed

Unanswered ==
    \A n \in 1..MaxUpdates :
        /\ answers[n] <= 1 + crashes
        /\ n > pending => answers[n] <= crashes

BotInv == BotTypeOK /\ Len(sent) <= MaxUpdates /\ BatchFollows /\ HandledUpTo /\ Unanswered

LEMMA BotInitial == BotInit => BotInv
BY BotAssumption
   DEF BotInit, BotInv, BotTypeOK, BatchFollows, HandledUpTo, Unanswered, UpdateKinds

LEMMA UserSendsKeeps == ASSUME BotInv, NEW kind \in UpdateKinds, UserSends(kind) PROVE BotInv'
<1> USE BotAssumption DEF BotInv, BotTypeOK, UserSends
<1>1. /\ sent' \in Seq(UpdateKinds) /\ Len(sent') = Len(sent) + 1
      /\ \A n \in 1..Len(sent) : sent'[n] = sent[n]
  OBVIOUS
<1>2. BotTypeOK'
  <2>1. batch' \in Seq(1..Len(sent'))
    BY <1>1
  <2> QED
    BY <1>1, <2>1
<1>3. BatchFollows'
  BY <1>1 DEF BatchFollows
<1>4. HandledUpTo'
  BY <1>1 DEF HandledUpTo
<1>5. Unanswered'
  BY DEF Unanswered
<1> QED
  BY <1>1, <1>2, <1>3, <1>4, <1>5

LEMMA PollKeeps == ASSUME BotInv, Poll PROVE BotInv'
<1> DEFINE waiting == Len(sent) - lastUpdate
           size    == IF waiting < BatchSize THEN waiting ELSE BatchSize
<1> USE BotAssumption DEF BotInv, BotTypeOK
<1>1. waiting \in Nat /\ size \in Nat /\ size <= waiting
  OBVIOUS
<1>2. pending = lastUpdate
  BY DEF BatchFollows, Poll
<1>3. batch' = [k \in 1..size |-> lastUpdate + k]
  BY DEF Poll
<1> HIDE DEF waiting
<1> HIDE DEF size
<1>4. /\ batch' \in Seq(1..Len(sent)) /\ Len(batch') = size
      /\ \A k \in 1..size : batch'[k] = pending + k
  <2>1. \A k \in 1..size : lastUpdate + k \in 1..Len(sent)
    BY <1>1 DEF waiting
  <2> QED
    BY <1>1, <1>2, <1>3, <2>1
<1>5. BotTypeOK'
  BY <1>4 DEF Poll
<1>6. BatchFollows'
  BY <1>1, <1>2, <1>4 DEF Poll, BatchFollows, waiting
<1>7. HandledUpTo' /\ Unanswered'
  BY DEF Poll, HandledUpTo, Unanswered
<1> QED
  BY <1>5, <1>6, <1>7 DEF Poll

\* Handling an update answers it, raises, or has nothing to answer.
LEMMA OutcomesOf ==
  ASSUME NEW kind \in UpdateKinds, NEW o \in Outcomes(kind)
  PROVE  o.raised = TRUE \/ o.delivered = TRUE \/ kind = "ignored"
<1>1. CASE kind = "command"
  <2>1. Outcomes(kind) = { [delivered |-> TRUE, raised |-> FALSE],
                               [delivered |-> TRUE, raised |-> TRUE],
                               [delivered |-> FALSE, raised |-> TRUE] }
    BY <1>1 DEF Outcomes
  <2>2. \/ o = [delivered |-> TRUE, raised |-> FALSE]
        \/ o = [delivered |-> TRUE, raised |-> TRUE]
        \/ o = [delivered |-> FALSE, raised |-> TRUE]
    BY <2>1
  <2> QED BY <2>2
<1>2. CASE kind = "ignored"
  BY <1>2
<1>3. CASE kind = "blank"
  <2>1. Outcomes(kind) = {[delivered |-> FALSE, raised |-> TRUE]}
    BY <1>3 DEF Outcomes
  <2> QED BY <2>1
<1> QED BY <1>1, <1>2, <1>3 DEF UpdateKinds

LEMMA HandleKeeps == ASSUME BotInv, Handle PROVE BotInv'
<1> DEFINE n        == Head(batch)
           Answered == answers' = [answers EXCEPT ![n] = answers[n] + 1]
           Raised   == /\ failed' = failed \cup {n} /\ batch' = <<>>
                       /\ botPc' = "ending" /\ outcome' = "degraded"
           GoesOn   == batch' = Tail(batch) /\ UNCHANGED <<failed, botPc, outcome>>
<1>1. /\ n = pending + 1 /\ n \in 1..Len(sent) /\ n \in 1..MaxUpdates
      /\ Tail(batch) \in Seq(1..Len(sent)) /\ Len(Tail(batch)) = Len(batch) - 1
      /\ \A k \in 1..Len(Tail(batch)) : Tail(batch)[k] = batch[k + 1]
  BY BotAssumption DEF BotInv, BotTypeOK, BatchFollows, Handle
<1>0. /\ MaxUpdates \in Nat /\ crashes \in Nat /\ pending \in Nat
      /\ Len(sent) \in Nat /\ Len(sent) <= MaxUpdates
      /\ answers \in [1..MaxUpdates -> Nat] /\ failed \subseteq 1..Len(sent)
      /\ batch \in Seq(1..Len(sent))
      /\ BatchFollows /\ HandledUpTo /\ Unanswered
  BY BotAssumption DEF BotInv, BotTypeOK
<1>2. /\ Answered \/ answers' = answers
      /\ Raised \/ GoesOn
      /\ Answered \/ Raised \/ sent[n] = "ignored"
      /\ pending' = Moved(n)
  <2>1. sent[n] \in UpdateKinds
    BY <1>1 DEF BotInv, BotTypeOK
  <2>2. PICK o \in Outcomes(sent[n]) :
          /\ pending' = Moved(n)
          /\ IF o.delivered THEN Answered ELSE answers' = answers
          /\ IF o.raised THEN Raised ELSE GoesOn
    BY DEF Handle
  <2>3. o.raised = TRUE \/ o.delivered = TRUE \/ sent[n] = "ignored"
    BY <2>1, OutcomesOf
  <2> HIDE DEF n, Answered, Raised, GoesOn
  <2> QED
    BY <2>2, <2>3, Zenon
<1>3. /\ pending' = n /\ UNCHANGED <<sent, lastUpdate, botStatus, crashes>>
      /\ botPc = "handling"
  BY <1>0, <1>1, <1>2 DEF Moved, Handle
<1> HIDE DEF n
<1>4. /\ answers' \in [1..MaxUpdates -> Nat]
      /\ answers'[n] <= answers[n] + 1
      /\ \A m \in 1..MaxUpdates : m # n => answers'[m] = answers[m]
      /\ \A m \in 1..MaxUpdates : answers'[m] >= answers[m]
  <2>0. MaxUpdates \in Nat /\ answers \in [1..MaxUpdates -> Nat] /\ n \in 1..MaxUpdates
    BY <1>0, <1>1
  <2>1. CASE Answered
    <3>1. answers' = [answers EXCEPT ![n] = answers[n] + 1]
      BY <2>1
    <3> HIDE DEF Answered
    <3>2. /\ answers'[n] = answers[n] + 1
          /\ \A m \in 1..MaxUpdates : m # n => answers'[m] = answers[m]
      BY <2>0, <3>1
    <3>3. answers' \in [1..MaxUpdates -> Nat]
      BY <2>0, <3>1
    <3>4. \A m \in 1..MaxUpdates : answers[m] \in Nat
      BY <2>0
    <3> QED
      BY <2>0, <3>2, <3>3, <3>4
  <2>2. CASE answers' = answers
    BY <2>0, <2>2
  <2> QED
    BY <1>2, <2>1, <2>2
<1>5. answers'[n] > 0 \/ n \in failed' \/ sent[n] = "ignored"
  <2>1. CASE Answered
    BY <1>0, <1>1, <2>1
  <2>2. CASE Raised
    BY <2>2
  <2> QED
    BY <1>2, <2>1, <2>2
<1>6. /\ batch' = <<>> \/ batch' = Tail(batch)
      /\ batch' \in Seq(1..Len(sent))
      /\ failed \subseteq failed' /\ failed' \subseteq 1..Len(sent)
      /\ botPc' \in {"handling", "ending"} /\ (botPc' # "handling" => batch' = <<>>)
      /\ outcome' \in {"disabled", "polling", "degraded"}
  <2>1. CASE Raised
    BY <1>0, <1>1, <2>1
  <2>2. CASE GoesOn
    BY <1>0, <1>1, <1>3, <2>2 DEF BotInv, BotTypeOK
  <2> QED
    BY <1>2, <2>1, <2>2
<1> HIDE DEF Answered, Raised, GoesOn
<1>7. BotTypeOK'
  <2>1. /\ sent' \in Seq(UpdateKinds)
        /\ lastUpdate' \in 0..Len(sent') /\ pending' \in lastUpdate'..Len(sent')
        /\ crashes' \in Nat /\ botStatus' \in {"disabled", "polling", "degraded"}
    BY <1>0, <1>1, <1>3 DEF BotInv, BotTypeOK
  <2>2. /\ batch' \in Seq(1..Len(sent')) /\ failed' \subseteq 1..Len(sent')
        /\ answers' \in [1..MaxUpdates -> Nat]
    BY <1>3, <1>4, <1>6
  <2> QED
    BY <1>6, <2>1, <2>2 DEF BotTypeOK
<1>8. BatchFollows'
  <2>1. \A k \in 1..Len(batch') : batch'[k] = pending' + k
    <3>1. CASE batch' = <<>>
      BY <3>1
    <3>2. CASE batch' = Tail(batch)
      <4>1. ASSUME NEW k \in 1..Len(Tail(batch)) PROVE Tail(batch)[k] = n + k
        <5>1. k + 1 \in 1..Len(batch)
          BY <1>0, <1>1
        <5>2. batch[k + 1] = pending + (k + 1)
          BY <1>0, <5>1 DEF BatchFollows
        <5> QED
          BY <1>0, <1>1, <5>2
      <4> QED
        BY <1>3, <3>2, <4>1
    <3> QED
      BY <1>6, <3>1, <3>2
  <2>2. pending' + Len(batch') <= Len(sent')
    BY <1>0, <1>1, <1>3, <1>6 DEF BatchFollows
  <2> QED
    BY <1>6, <2>1, <2>2 DEF BatchFollows
<1>9. HandledUpTo'
  <2>1. SUFFICES ASSUME NEW m \in 1..n
                 PROVE  answers'[m] > 0 \/ sent[m] = "ignored" \/ m \in failed'
    BY <1>3 DEF HandledUpTo
  <2>2. CASE m = n
    BY <1>5, <2>2
  <2>3. CASE m # n
    <3>1. m \in 1..pending /\ m \in 1..MaxUpdates
      BY <1>0, <1>1, <2>3
    <3> QED
      BY <1>0, <1>4, <1>6, <3>1 DEF HandledUpTo
  <2> QED
    BY <2>2, <2>3
<1>10. Unanswered'
  <2>1. SUFFICES ASSUME NEW m \in 1..MaxUpdates
                 PROVE  /\ answers'[m] <= 1 + crashes
                        /\ m > n => answers'[m] <= crashes
    BY <1>3 DEF Unanswered
  <2>2. answers[m] \in Nat /\ answers'[m] \in Nat
    BY <1>0, <1>4
  <2>3. CASE m = n
    <3>1. answers[n] <= crashes
      BY <1>0, <1>1 DEF Unanswered
    <3> QED
      BY <1>0, <1>1, <1>4, <2>2, <2>3, <3>1
  <2>4. CASE m # n
    <3>1. answers'[m] = answers[m]
      BY <1>4, <2>4
    <3>2. /\ answers[m] <= 1 + crashes
          /\ m > pending => answers[m] <= crashes
      BY <1>0 DEF Unanswered
    <3> QED
      BY <1>0, <1>1, <3>1, <3>2
  <2> QED
    BY <2>3, <2>4
<1> QED
  BY <1>0, <1>3, <1>7, <1>8, <1>9, <1>10 DEF BotInv

\* Everything else of a step either leaves the batch alone or ends it.
LEMMA OthersKeep ==
    ASSUME BotInv, StartTick \/ PollFails \/ Finish \/ EndTick \/ BotCrash
    PROVE  BotInv'
<1> USE BotAssumption DEF BotInv, BotTypeOK
<1>1. CASE StartTick
  BY <1>1 DEF StartTick, BatchFollows, HandledUpTo, Unanswered
<1>2. CASE PollFails
  BY <1>2 DEF PollFails, BatchFollows, HandledUpTo, Unanswered
<1>3. CASE Finish
  BY <1>3 DEF Finish, BatchFollows, HandledUpTo, Unanswered
<1>4. CASE EndTick
  BY <1>4 DEF EndTick, BatchFollows, HandledUpTo, Unanswered
<1>5. CASE BotCrash
  <2>1. BotTypeOK' /\ BatchFollows'
    BY <1>5 DEF BotCrash, BatchFollows
  <2>2. HandledUpTo'
    BY <1>5 DEF BotCrash, HandledUpTo
  <2>3. Unanswered'
    BY <1>5 DEF BotCrash, Unanswered
  <2> QED
    BY <1>5, <2>1, <2>2, <2>3 DEF BotCrash
<1> QED
  BY <1>1, <1>2, <1>3, <1>4, <1>5

LEMMA BotInvariant == BotSpec => []BotInv
<1>1. ASSUME BotInv, [BotNext]_botVars PROVE BotInv'
  <2>1. CASE UNCHANGED botVars
    BY <1>1, <2>1
       DEF botVars, BotInv, BotTypeOK, BatchFollows, HandledUpTo, Unanswered
  <2>2. CASE BotNext
    BY <1>1, <2>2, UserSendsKeeps, PollKeeps, HandleKeeps, OthersKeep DEF BotNext, BotStep
  <2> QED
    BY <1>1, <2>1, <2>2
<1> QED
  BY BotInitial, <1>1, PTL DEF BotSpec

\* The committed offset passes an update only when it was answered, asked for no
\* answer or raised, and no update is answered more often than the process started:
\* for every batch size and any number of updates and crashes (_poll_updates, _tick).
THEOREM BotStays == BotSpec => []BotKeepsItsPlace
<1>1. BotInv => BotKeepsItsPlace
  BY BotAssumption DEF BotInv, BotTypeOK, BotKeepsItsPlace, PassedMeansHandled,
     AnswersNeedACrash, HandledUpTo, Unanswered
<1> QED
  BY BotInvariant, <1>1, PTL

-----------------------------------------------------------------------------
(***************************************************************************)
(* What a risk snapshot may be held to, for any events, rules and order of  *)
(* fetches, recordings and interpretations.  The invariant adds to the      *)
(* properties that an event row holds a recorded fetch that has been made,  *)
(* and that evaluations lie in the past.                                    *)
(***************************************************************************)

\* HermesRiskPolicy.rules: no rule that lets trades through comes before one that
\* rejects them.
RejectingRulesComeFirst ==
    \A i, j \in DOMAIN Rules :
        i < j /\ ActionOf[Rules[j]] \in Rejecting => ActionOf[Rules[i]] \in Rejecting

RowsAreOfFetches ==
    /\ risk = [e \in Events |-> risk[e]]
    /\ \A e \in Events : event[e] # NoRow =>
          /\ <<e, event[e]>> \in recorded
          /\ event[e] \in 0..newsNow

EvaluationsArePast == \A i \in DOMAIN evaluations : evaluations[i].at <= newsNow

NewsInv ==
    /\ NewsTypeOK /\ RowsAreOfFetches /\ EvaluationsArePast
    /\ ExpiryFollowsAFetch /\ ReplaysAgreeUnlessReinterpreted

\* A non-empty set of natural numbers has a least element.
LEMMA LeastExists ==
  ASSUME NEW S, S \subseteq Nat, S # {}
  PROVE  \E n \in S : \A m \in S : n <= m
<1> DEFINE R == OpToRel(<, Nat)
<1>1. PICK x \in S : \A y \in S : ~(<<y, x>> \in R)
  <2>1. IsWellFoundedOn(R, Nat)
    BY NatLessThanWellFounded
  <2> HIDE DEF R
  <2> QED
    BY <2>1, WFMin
<1>2. \A y \in S : ~(y < x)
  BY <1>1 DEF OpToRel
<1> QED
  BY <1>2

\* The rule that decides about an event: the first of those that match.
LEMMA FirstMatch ==
  ASSUME NEW e
  PROVE  LET matching == { i \in DOMAIN Rules : Rules[i] \in matched[e] }
         IN  \/ matching = {} /\ RecommendedAction(e) = "monitor"
             \/ \E i \in matching : /\ \A j \in matching : i <= j
                                    /\ RecommendedAction(e) = ActionOf[Rules[i]]
<1> DEFINE matching == { i \in DOMAIN Rules : Rules[i] \in matched[e] }
           first == CHOOSE i \in matching : \A j \in matching : i <= j
<1>1. CASE matching = {}
  BY <1>1 DEF RecommendedAction
<1>2. CASE matching # {}
  <2>1. matching \subseteq Nat
    BY NewsAssumption
  <2>2. first \in matching /\ \A j \in matching : first <= j
    <3>1. \E i \in matching : \A j \in matching : i <= j
      <4> HIDE DEF matching
      <4> QED
        BY <1>2, <2>1, LeastExists
    <3> HIDE DEF matching
    <3> QED
      BY <3>1
  <2>3. RecommendedAction(e) = ActionOf[Rules[first]]
    BY <1>2 DEF RecommendedAction
  <2> HIDE DEF first
  <2> QED
    BY <2>2, <2>3
<1> QED
  BY <1>1, <1>2

LEMMA ActionType == ASSUME NEW e PROVE RecommendedAction(e) \in Actions
<1>1. \A i \in DOMAIN Rules : ActionOf[Rules[i]] \in Actions
  BY NewsAssumption
<1> QED
  BY <1>1, FirstMatch DEF Actions

LEMMA FieldsOfEvaluation ==
  ASSUME NEW v \in [event: Events, at: Nat, active: BOOLEAN]
  PROVE  v.event \in Events /\ v.at \in Nat
BY Zenon

LEMMA EvaluationType ==
  ASSUME NewsTypeOK, NEW i \in DOMAIN evaluations
  PROVE  evaluations[i].event \in Events /\ evaluations[i].at \in Nat
<1> DEFINE X == [event: Events, at: Nat, active: BOOLEAN]
<1>1. evaluations \in Seq(X)
  BY DEF NewsTypeOK
<1>2. evaluations[i] \in X
  <2> HIDE DEF X
  <2> QED
    BY <1>1
<1> QED
  BY <1>2, FieldsOfEvaluation

-----------------------------------------------------------------------------

LEMMA NewsInitial == NewsInit => NewsInv
<1> SUFFICES ASSUME NewsInit PROVE NewsInv
  OBVIOUS
<1>1. NewsTypeOK
  BY DEF NewsInit, NewsTypeOK
<1>2. RowsAreOfFetches /\ EvaluationsArePast /\ ExpiryFollowsAFetch
  BY DEF NewsInit, RowsAreOfFetches, EvaluationsArePast, ExpiryFollowsAFetch
<1>3. ReplaysAgreeUnlessReinterpreted
  <2>1. DOMAIN evaluations = {}
    BY DEF NewsInit
  <2> QED
    BY <2>1, Zenon DEF ReplaysAgreeUnlessReinterpreted
<1> QED
  BY <1>1, <1>2, <1>3 DEF NewsInv

\* Replays read the snapshots and the evaluations only.
LEMMA ReplaysKeep ==
  ASSUME ReplaysAgreeUnlessReinterpreted, UNCHANGED <<risk, evaluations>>
  PROVE  ReplaysAgreeUnlessReinterpreted'
BY DEF ReplaysAgreeUnlessReinterpreted, ActiveAt

LEMMA FetchesKeep ==
  ASSUME NewsInv, NewsElapse \/ \E e \in Events : FetchEvent(e)
  PROVE  NewsInv'
<1>1. /\ newsNow \in Nat /\ newsNow' \in Nat /\ newsNow <= newsNow'
      /\ UNCHANGED <<matched, event, risk, recorded, evaluations>>
      /\ fetches' \subseteq Events \X (0..newsNow')
  <2>1. CASE NewsElapse
    BY <2>1 DEF NewsElapse, NewsInv, NewsTypeOK
  <2>2. CASE \E e \in Events : FetchEvent(e)
    BY <2>2 DEF FetchEvent, NewsInv, NewsTypeOK
  <2> QED
    BY <2>1, <2>2
<1>2. recorded \subseteq Events \X (0..newsNow')
  BY <1>1 DEF NewsInv, NewsTypeOK
<1>3. NewsTypeOK'
  <2>1. \A e \in Events : risk[e] # NoRow =>
          /\ event[e] # NoRow /\ risk[e].action \in Actions
          /\ risk[e].interpreted \in 0..newsNow' /\ risk[e].expires > 0
    BY <1>1 DEF NewsInv, NewsTypeOK
  <2> QED
    BY <1>1, <1>2, <2>1 DEF NewsInv, NewsTypeOK
<1>4. RowsAreOfFetches'
  BY <1>1 DEF NewsInv, RowsAreOfFetches
<1>5. EvaluationsArePast'
  <2>1. \A i \in DOMAIN evaluations : evaluations[i].at \in Nat
    BY EvaluationType DEF NewsInv
  <2> QED
    BY <1>1, <2>1 DEF NewsInv, EvaluationsArePast
<1>6. ExpiryFollowsAFetch'
  BY <1>1 DEF NewsInv, ExpiryFollowsAFetch
<1>7. ReplaysAgreeUnlessReinterpreted'
  BY <1>1, ReplaysKeep DEF NewsInv
<1> QED
  BY <1>3, <1>4, <1>5, <1>6, <1>7 DEF NewsInv

LEMMA RecordKeeps ==
  ASSUME NewsInv, NEW f \in fetches, RecordEvent(f)
  PROVE  NewsInv'
<1>1. /\ f[1] \in Events /\ f[2] \in 0..newsNow /\ f = <<f[1], f[2]>>
      /\ newsNow \in Nat /\ f[2] # NoRow
  BY NewsAssumption DEF NewsInv, NewsTypeOK
<1>2. /\ event' = [event EXCEPT ![f[1]] = f[2]] /\ recorded' = recorded \cup {f}
      /\ fetches' \subseteq fetches
      /\ UNCHANGED <<newsNow, matched, risk, evaluations>>
  BY DEF RecordEvent
<1>3. /\ event \in [Events -> Nat \cup {NoRow}]
      /\ event' \in [Events -> Nat \cup {NoRow}]
      /\ \A e \in Events : event'[e] = IF e = f[1] THEN f[2] ELSE event[e]
  BY <1>1, <1>2 DEF NewsInv, NewsTypeOK
<1>4. NewsTypeOK'
  BY <1>1, <1>2, <1>3 DEF NewsInv, NewsTypeOK
<1>5. RowsAreOfFetches'
  BY <1>1, <1>2, <1>3 DEF NewsInv, RowsAreOfFetches
<1>6. EvaluationsArePast' /\ ExpiryFollowsAFetch'
  BY <1>2 DEF NewsInv, EvaluationsArePast, ExpiryFollowsAFetch
<1>7. ReplaysAgreeUnlessReinterpreted'
  BY <1>2, ReplaysKeep DEF NewsInv
<1> QED
  BY <1>4, <1>5, <1>6, <1>7 DEF NewsInv

LEMMA InterpretKeeps ==
  ASSUME NewsInv, NEW e \in Events, InterpretEvent(e)
  PROVE  NewsInv'
<1> DEFINE new == Interpreted(e)
<1>1. /\ event[e] # NoRow /\ newsNow - event[e] <= StaleAfter
      /\ UNCHANGED <<newsNow, matched, fetches, event, recorded, evaluations>>
      /\ newsNow \in Nat /\ StaleAfter \in Nat \ {0}
      /\ event[e] \in 0..newsNow /\ <<e, event[e]>> \in recorded
  BY NewsAssumption DEF InterpretEvent, NewsInv, NewsTypeOK, RowsAreOfFetches
<1>2. /\ new.action \in Actions /\ new.interpreted = newsNow
      /\ new.expires = event[e] + StaleAfter
  BY ActionType DEF Interpreted
<1>3. /\ risk' = [d \in Events |-> risk'[d]]
      /\ \A d \in Events : risk'[d] = IF d = e THEN new ELSE risk[d]
  BY DEF InterpretEvent, NewsInv, RowsAreOfFetches
<1> HIDE DEF new
<1>4. NewsTypeOK'
  <2>1. \A d \in Events : risk'[d] # NoRow =>
          /\ event[d] # NoRow /\ risk'[d].action \in Actions
          /\ risk'[d].interpreted \in 0..newsNow /\ risk'[d].expires > 0
    <3>1. ASSUME NEW d \in Events, risk'[d] # NoRow
          PROVE  /\ event[d] # NoRow /\ risk'[d].action \in Actions
                 /\ risk'[d].interpreted \in 0..newsNow /\ risk'[d].expires > 0
      <4>1. CASE d = e
        <5>1. risk'[d].action \in Actions /\ risk'[d].interpreted = newsNow
              /\ risk'[d].expires = event[e] + StaleAfter
          BY <1>2, <1>3, <4>1
        <5> QED
          BY <1>1, <4>1, <5>1
      <4>2. CASE d # e
        BY <1>3, <3>1, <4>2 DEF NewsInv, NewsTypeOK
      <4> QED
        BY <4>1, <4>2
    <3> QED
      BY <3>1
  <2> QED
    BY <1>1, <2>1 DEF NewsInv, NewsTypeOK
<1>5. RowsAreOfFetches' /\ EvaluationsArePast'
  BY <1>1, <1>3 DEF NewsInv, RowsAreOfFetches, EvaluationsArePast
<1>6. ExpiryFollowsAFetch'
  <2>1. SUFFICES ASSUME NEW d \in Events, risk'[d] # NoRow
                 PROVE  \E f \in recorded :
                          /\ f[1] = d /\ risk'[d].expires = f[2] + StaleAfter
                          /\ f[2] <= risk'[d].interpreted
                          /\ \E g \in recorded : g[1] = d /\ risk'[d].interpreted - g[2] <= StaleAfter
    BY <1>1 DEF ExpiryFollowsAFetch
  <2>2. CASE d = e
    <3> DEFINE f == <<e, event[e]>>
    <3>1. f \in recorded /\ f[1] = d /\ f[2] = event[e]
      BY <1>1, <2>2
    <3>2. risk'[d].expires = f[2] + StaleAfter /\ risk'[d].interpreted = newsNow
      BY <1>2, <1>3, <2>2
    <3> HIDE DEF f
    <3> QED
      BY <1>1, <3>1, <3>2
  <2>3. CASE d # e
    BY <1>3, <2>1, <2>3 DEF NewsInv, ExpiryFollowsAFetch
  <2> QED
    BY <2>2, <2>3
<1>7. ReplaysAgreeUnlessReinterpreted'
  <2>1. SUFFICES ASSUME NEW i \in DOMAIN evaluations,
                        ActiveAt(evaluations[i].event, evaluations[i].at)' # evaluations[i].active
                 PROVE  risk'[evaluations[i].event].interpreted >= evaluations[i].at
    BY <1>1, Zenon DEF ReplaysAgreeUnlessReinterpreted
  <2>2. evaluations[i].event \in Events /\ evaluations[i].at \in Nat
    BY EvaluationType DEF NewsInv
  <2>3. CASE evaluations[i].event = e
    <3>1. evaluations[i].at <= newsNow
      BY DEF NewsInv, EvaluationsArePast
    <3> QED
      BY <1>1, <1>2, <1>3, <2>2, <2>3, <3>1
  <2>4. CASE evaluations[i].event # e
    <3>1. risk'[evaluations[i].event] = risk[evaluations[i].event]
      BY <1>3, <2>2, <2>4
    <3>2. ActiveAt(evaluations[i].event, evaluations[i].at)'
            = ActiveAt(evaluations[i].event, evaluations[i].at)
      BY <1>1, <3>1 DEF ActiveAt
    <3> QED
      BY <2>1, <3>1, <3>2, Zenon DEF NewsInv, ReplaysAgreeUnlessReinterpreted
  <2> QED
    BY <2>3, <2>4
<1> QED
  BY <1>4, <1>5, <1>6, <1>7 DEF NewsInv

LEMMA EvaluateKeeps ==
  ASSUME NewsInv, NEW e \in Events, Evaluate(e)
  PROVE  NewsInv'
<1> DEFINE active == ActiveAt(e, newsNow)
           new    == [event |-> e, at |-> newsNow, active |-> active]
           EvalSet == [event: Events, at: Nat, active: BOOLEAN]
           L      == Len(evaluations)
<1>1. /\ UNCHANGED <<newsNow, matched, fetches, event, risk, recorded>>
      /\ newsNow \in Nat /\ evaluations \in Seq(EvalSet) /\ L \in Nat
      /\ evaluations' = Append(evaluations, new)
  BY DEF Evaluate, NewsInv, NewsTypeOK
<1>2. active \in BOOLEAN
  BY DEF ActiveAt
<1>3. new.event = e /\ new.at = newsNow /\ new.active = active
  BY Zenon
<1> HIDE DEF active
<1>4. new \in EvalSet
  BY <1>1, <1>2, Zenon
<1> HIDE DEF new, EvalSet
<1>5. /\ evaluations' \in Seq(EvalSet) /\ DOMAIN evaluations = 1..L
      /\ DOMAIN evaluations' = 1..(L + 1)
      /\ \A i \in 1..L : evaluations'[i] = evaluations[i]
      /\ evaluations'[L + 1] = new
  BY <1>1, <1>4
<1>6. NewsTypeOK'
  BY <1>1, <1>5 DEF NewsInv, NewsTypeOK, EvalSet
<1>7. RowsAreOfFetches' /\ ExpiryFollowsAFetch'
  BY <1>1 DEF NewsInv, RowsAreOfFetches, ExpiryFollowsAFetch
<1>8. EvaluationsArePast'
  <2>1. ASSUME NEW i \in 1..(L + 1) PROVE evaluations'[i].at <= newsNow
    <3>1. CASE i = L + 1
      BY <1>1, <1>3, <1>5, <3>1
    <3>2. CASE i # L + 1
      <4>1. i \in 1..L
        BY <1>1, <2>1, <3>2
      <4> QED
        BY <1>5, <4>1 DEF NewsInv, EvaluationsArePast
    <3> QED
      BY <3>1, <3>2
  <2> QED
    BY <1>1, <1>5, <2>1 DEF EvaluationsArePast
<1>9. ReplaysAgreeUnlessReinterpreted'
  <2>1. SUFFICES ASSUME NEW i \in 1..(L + 1), NEW v, v = evaluations'[i],
                        ActiveAt(v.event, v.at)' # v.active
                 PROVE  risk[v.event].interpreted >= v.at
    BY <1>1, <1>5, Zenon DEF ReplaysAgreeUnlessReinterpreted
  <2>2. ActiveAt(v.event, v.at)' = ActiveAt(v.event, v.at)
    BY <1>1 DEF ActiveAt
  <2>3. CASE i = L + 1
    <3>1. v = new
      BY <1>5, <2>1, <2>3
    <3>2. v.event = e /\ v.at = newsNow /\ v.active = active
      BY <1>3, <3>1, Zenon
    <3> QED
      BY <2>1, <2>2, <3>2, Zenon DEF active
  <2>4. CASE i # L + 1
    <3>1. i \in DOMAIN evaluations /\ v = evaluations[i]
      BY <1>1, <1>5, <2>1, <2>4
    <3> QED
      BY <2>1, <2>2, <3>1, Zenon DEF NewsInv, ReplaysAgreeUnlessReinterpreted
  <2> QED
    BY <2>3, <2>4
<1> QED
  BY <1>6, <1>7, <1>8, <1>9 DEF NewsInv

LEMMA NewsInvariant == NewsSpec => []NewsInv
<1>1. ASSUME NewsInv, [NewsNext]_newsVars PROVE NewsInv'
  <2>1. CASE UNCHANGED newsVars
    <3>1. NewsTypeOK' /\ RowsAreOfFetches' /\ EvaluationsArePast' /\ ExpiryFollowsAFetch'
      BY <1>1, <2>1 DEF newsVars, NewsInv, NewsTypeOK, RowsAreOfFetches, EvaluationsArePast,
         ExpiryFollowsAFetch
    <3>2. ReplaysAgreeUnlessReinterpreted'
      BY <1>1, <2>1, ReplaysKeep DEF newsVars, NewsInv
    <3> QED
      BY <3>1, <3>2 DEF NewsInv
  <2> QED
    BY <1>1, <2>1, FetchesKeep, RecordKeeps, InterpretKeeps, EvaluateKeeps DEF NewsNext
<1> QED
  BY NewsInitial, <1>1, PTL DEF NewsSpec

\* Whatever is interpreted in between, a stored snapshot answers an earlier evaluation as
\* it was answered then, unless its event was interpreted at that instant or later.
THEOREM ReplaysAgree == NewsSpec => []ReplaysAgreeUnlessReinterpreted
<1>1. NewsInv => ReplaysAgreeUnlessReinterpreted
  BY DEF NewsInv
<1> QED
  BY NewsInvariant, <1>1, PTL

\* A snapshot carries what the rules recommend for the text of its event.
ActionsFollowRules ==
    \A e \in Events : risk[e] # NoRow => risk[e].action = RecommendedAction(e)

LEMMA ActionsInvariant == NewsSpec => []ActionsFollowRules
<1>1. NewsInit => ActionsFollowRules
  BY DEF NewsInit, ActionsFollowRules
<1>2. ASSUME NewsInv, ActionsFollowRules, [NewsNext]_newsVars PROVE ActionsFollowRules'
  <2>1. matched' = matched
    BY <1>2 DEF NewsNext, newsVars, FetchEvent, InterpretEvent, Evaluate, RecordEvent, NewsElapse
  <2>2. \A d : RecommendedAction(d)' = RecommendedAction(d)
    BY <2>1 DEF RecommendedAction
  <2>3. CASE UNCHANGED risk
    BY <1>2, <2>2, <2>3 DEF ActionsFollowRules
  <2>4. ASSUME NEW e \in Events, InterpretEvent(e) PROVE ActionsFollowRules'
    <3>1. \A d \in Events : risk'[d] = IF d = e THEN Interpreted(e) ELSE risk[d]
      BY <1>2, <2>4 DEF InterpretEvent, NewsInv, RowsAreOfFetches
    <3>2. Interpreted(e).action = RecommendedAction(e)
      BY DEF Interpreted
    <3> QED
      BY <1>2, <2>2, <3>1, <3>2 DEF ActionsFollowRules
  <2> QED
    BY <1>2, <2>3, <2>4
       DEF NewsNext, newsVars, FetchEvent, Evaluate, RecordEvent, NewsElapse
<1> QED
  BY <1>1, <1>2, NewsInvariant, PTL DEF NewsSpec

\* While no rule that lets trades through precedes one that rejects them, a snapshot
\* rejects trades whenever a rule its event matches does, and it speaks for StaleAfter
\* from a recorded fetch: for any rules, events and order of recordings
\* (NewsInterpreter.interpret, _matching_rule).
THEOREM SnapshotsFollow == RejectingRulesComeFirst => (NewsSpec => []SnapshotsFollowTheirEvents)
<1> SUFFICES ASSUME RejectingRulesComeFirst PROVE NewsSpec => []SnapshotsFollowTheirEvents
  OBVIOUS
<1>1. NewsInv /\ ActionsFollowRules => SnapshotsFollowTheirEvents
  <2> SUFFICES ASSUME NewsInv, ActionsFollowRules PROVE SnapshotsFollowTheirEvents
    OBVIOUS
  <2>1. ASSUME NEW e \in Events, risk[e] # NoRow, NEW r \in matched[e], ActionOf[r] \in Rejecting
        PROVE  risk[e].action \in Rejecting
    <3>1. PICK j \in DOMAIN Rules : r = Rules[j]
      BY <2>1, NewsAssumption DEF NewsInv, NewsTypeOK
    <3>2. PICK i \in DOMAIN Rules : i <= j /\ RecommendedAction(e) = ActionOf[Rules[i]]
      BY <2>1, <3>1, FirstMatch
    <3>3. i = j \/ i < j
      BY <3>2, NewsAssumption
    <3> QED
      BY <2>1, <3>1, <3>2, <3>3 DEF RejectingRulesComeFirst, ActionsFollowRules
  <2>2. RejectingRulesPrevail
    BY <2>1 DEF RejectingRulesPrevail
  <2> QED
    BY <2>2 DEF SnapshotsFollowTheirEvents, NewsInv
<1> QED
  BY <1>1, NewsInvariant, ActionsInvariant, PTL

=============================================================================

---------------------------- MODULE ReferenceData ---------------------------
(***************************************************************************)
(* Delayed reference bars: the rows bootstrap_paper_runtime approves, the   *)
(* backfill command (collectors/reference_backfill_cli.py), the refresh in  *)
(* every worker tick, and the gates that use the bars: source approval,     *)
(* warm-up and the choice of the signal bar.                                *)
(*                                                                          *)
(* Bar n of an instrument ends at n * BarWidth.  The provider returns some  *)
(* of the bars that have ended, or nothing usable; a run with bars writes   *)
(* them over what was there, the time they may be used from included.       *)
(***************************************************************************)
EXTENDS Integers, Sequences, FiniteSets

CONSTANTS Symbols,            \* the reference and FX instruments of the runtime
          SignalSymbol,       \* the one whose bars are signals
          NoBar, NoSignal,
          Bars, BarWidth,
          RuntimeDelay,       \* 1800 s of assumed_conservative + ingestion delay
          CommandDelays,      \* the delays an operator may pass to the command
          RefreshInterval, WarmupBars,
          MaxTime, MaxRuns    \* bounds on the clock and on an instrument's runs

VARIABLES now,
          approved,           \* the instruments exist with the owner's approval
          bar,                \* MarketBarModel rows: bar[s][n] or NoBar
          backfills,          \* ReferenceDataBackfillRunModel rows of each instrument
          tick                \* what the last tick used: the warm-up and the signal

vars == <<now, approved, bar, backfills, tick>>

ASSUME ReferenceAssumption ==
    /\ SignalSymbol \in Symbols
    /\ {Bars, BarWidth} \subseteq Nat \ {0}
    /\ {RuntimeDelay, RefreshInterval, WarmupBars, MaxTime, MaxRuns} \subseteq Nat
    /\ CommandDelays \subseteq Nat

\* Hourly bars: 1h is the one timeframe that is approved, and the provider has it, so
\* that nothing is aggregated.
BarNumbers == 1..Bars
BarEnd(n) == n * BarWidth
Closed == { n \in BarNumbers : BarEnd(n) <= now }

\* What fetch_bars returns for one instrument: any of its bars that have ended.  None of
\* them is a request that fails, an answer that is none, or one without a usable bar.
Answers == SUBSET Closed

BarRow == [available: Nat, delay: Nat, batch: Nat \ {0}]
RunRow == [by: {"worker", "command"}, started: Nat,
           status: {"completed", "dry_run", "failed", "blocked"}]

\* A missing bar is none of the rows.
ASSUME MissingBarAssumption == NoBar \notin BarRow

TypeOK ==
    /\ now \in Nat /\ approved \in BOOLEAN
    /\ bar \in [Symbols -> [BarNumbers -> BarRow \cup {NoBar}]]
    /\ backfills \in [Symbols -> Seq(RunRow)]
    /\ tick \in [at: Nat, complete: BOOLEAN, signal: BarNumbers \cup {NoSignal}]

Init ==
    /\ now = 0 /\ approved = FALSE
    /\ bar = [s \in Symbols |-> [n \in BarNumbers |-> NoBar]]
    /\ backfills = [s \in Symbols |-> <<>>]
    /\ tick = [at |-> 0, complete |-> FALSE, signal |-> NoSignal]

-----------------------------------------------------------------------------
(* A backfill run *)

\* Status of a run whose provider returned these bars; none is a failure.
RunStatus(fetched, dryRun) ==
    IF fetched = {} THEN "failed" ELSE IF dryRun THEN "dry_run" ELSE "completed"

\* Mutant: what the run fetched takes the place of everything stored.
StoredReplacing(s, fetched, dryRun, delay) ==
    IF RunStatus(fetched, dryRun) # "completed" THEN bar[s]
    ELSE [n \in BarNumbers |->
            IF n \in fetched
            THEN [available |-> BarEnd(n) + delay, delay |-> delay, batch |-> Len(backfills[s]) + 1]
            ELSE NoBar]

\* Mutant: a dry run writes as well.
StoredByDryRuns(s, fetched, dryRun, delay) ==
    [n \in BarNumbers |->
        IF n \in fetched
        THEN [available |-> BarEnd(n) + delay, delay |-> delay, batch |-> Len(backfills[s]) + 1]
        ELSE bar[s][n]]

\* _persist_bars: the bars of instrument s after a run, inserted or overwritten.
Stored(s, fetched, dryRun, delay) ==
    IF RunStatus(fetched, dryRun) # "completed" THEN bar[s]
    ELSE [n \in BarNumbers |->
            IF n \in fetched
            THEN [available |-> BarEnd(n) + delay, delay |-> delay, batch |-> Len(backfills[s]) + 1]
            ELSE bar[s][n]]

\* Mutant: the row keeps the status it was opened with.
RecordedAsOpened(s, by, status) ==
    Append(backfills[s], [by |-> by, started |-> now, status |-> "running"])

\* The runs of s with one more.
Recorded(s, by, status) ==
    Append(backfills[s], [by |-> by, started |-> now, status |-> status])

-----------------------------------------------------------------------------
(* The command line *)

\* bootstrap_paper_runtime: creates or re-approves the instruments and touches
\* nothing else of theirs.
Bootstrap ==
    /\ ~approved
    /\ approved' = TRUE
    /\ UNCHANGED <<now, bar, backfills, tick>>

\* Mutant: any earlier run of the instrument counts as reviewed.
ReviewedRunsOfAnyStatus(s) == DOMAIN backfills[s]

\* The runs an operator may name with --reviewed-dry-run-id.
ReviewedRuns(s) == { k \in DOMAIN backfills[s] : backfills[s][k].status = "dry_run" }

\* _blocked_reason and _reviewed_dry_run_blocked_reason, then the backfill.
Command(s, dryRun, reviewed, delay, fetched) ==
    /\ Len(backfills[s]) < MaxRuns
    /\ IF ~approved THEN UNCHANGED <<bar, backfills>>     \* no instrument, no row
       ELSE IF ~dryRun /\ reviewed \notin ReviewedRuns(s)
       THEN /\ backfills' = [backfills EXCEPT ![s] = Recorded(s, "command", "blocked")]
            /\ UNCHANGED bar
       ELSE /\ bar' = [bar EXCEPT ![s] = Stored(s, fetched, dryRun, delay)]
            /\ backfills' = [backfills EXCEPT
                 ![s] = Recorded(s, "command", RunStatus(fetched, dryRun))]
    /\ UNCHANGED <<now, approved, tick>>

\* The operator names the source and the timeframe of the runtime, with which
\* _blocked_reason has nothing against an approved instrument; a run that is blocked
\* for another of them is a row that nothing here reads.
RunCommand ==
    \E s \in Symbols, dryRun \in BOOLEAN, delay \in CommandDelays, fetched \in Answers,
       reviewed \in 0..MaxRuns :
        /\ dryRun => reviewed = 0
        /\ reviewed \in DOMAIN backfills[s] \cup {0}
        /\ Command(s, dryRun, reviewed, delay, fetched)

-----------------------------------------------------------------------------
(* The worker's tick *)

\* Mutant: only a run that brought bars postpones the next one.
RefreshDueSinceSuccess(s) ==
    \A k \in DOMAIN backfills[s] :
        backfills[s][k].status = "completed" => now - backfills[s][k].started >= RefreshInterval

\* _reference_refresh_due: since the last run of any kind started.
RefreshDue(s) ==
    \/ RefreshInterval <= 0
    \/ \A k \in DOMAIN backfills[s] : now - backfills[s][k].started >= RefreshInterval

\* The bars of s that a decision at this time may use.
Usable(rows, s, at) == { n \in BarNumbers : rows[s][n] # NoBar /\ rows[s][n].available <= at }

\* Mutant: the latest bar, usable or not.
LatestStored(rows, at) ==
    LET usable == { n \in BarNumbers : rows[SignalSymbol][n] # NoBar }
    IN  IF usable = {} THEN NoSignal
        ELSE CHOOSE n \in usable : \A m \in usable : m <= n

\* _latest_signal_bar
SignalBar(rows, at) ==
    LET usable == Usable(rows, SignalSymbol, at)
    IN  IF usable = {} THEN NoSignal
        ELSE CHOOSE n \in usable : \A m \in usable : m <= n

\* calculate_warmup_progress, reference market first.
WarmedUp(rows, at) == Cardinality(Usable(rows, SignalSymbol, at)) >= WarmupBars

\* _refresh_reference_inputs and the gates after it.  fetched[s] is what the
\* provider returns for s if it is asked.
Tick(fetched) ==
    LET due   == { s \in Symbols : RefreshDue(s) }
        after == [s \in Symbols |->
                    IF s \in due THEN Stored(s, fetched[s], FALSE, RuntimeDelay) ELSE bar[s]]
    IN  /\ approved                     \* _reference_source_gate_reason
        /\ \A s \in due : Len(backfills[s]) < MaxRuns
        /\ bar' = after
        /\ backfills' = [s \in Symbols |->
             IF s \in due THEN Recorded(s, "worker", RunStatus(fetched[s], FALSE))
             ELSE backfills[s]]
        /\ tick' = [ at |-> now, complete |-> WarmedUp(after, now),
                     signal |-> IF WarmedUp(after, now) THEN SignalBar(after, now) ELSE NoSignal ]
        /\ UNCHANGED <<now, approved>>

RunTick == \E fetched \in [Symbols -> Answers] : Tick(fetched)

\* Time passes; a tick that fails is rolled back with its refresh runs.
Pass == now < MaxTime /\ now' = now + 1 /\ UNCHANGED <<approved, bar, backfills, tick>>

Next == Bootstrap \/ RunCommand \/ RunTick \/ Pass
Spec == Init /\ [][Next]_vars

-----------------------------------------------------------------------------
(* Properties *)

\* The worker asks the provider again only an interval after the last recorded
\* run of the instrument, failed, blocked and dry runs included.
RefreshesAreSpaced ==
    \A s \in Symbols : \A j, k \in DOMAIN backfills[s] :
        j < k /\ backfills[s][k].by = "worker" =>
            backfills[s][k].started - backfills[s][j].started >= RefreshInterval

\* Every stored bar was written by a completed run that started after the bar had
\* ended: nothing of a failed, blocked or dry run stays behind.
BarsComeFromCompletedRuns ==
    \A s \in Symbols, n \in BarNumbers : bar[s][n] # NoBar =>
        LET batch == bar[s][n].batch
        IN  /\ batch \in DOMAIN backfills[s]
            /\ backfills[s][batch].status = "completed"
            /\ BarEnd(n) <= backfills[s][batch].started

\* What the command wrote, it wrote after a dry run of the same instrument that
\* had brought bars.
CommandWritesWereReviewed ==
    \A s \in Symbols : \A k \in DOMAIN backfills[s] :
        backfills[s][k].by = "command" /\ backfills[s][k].status = "completed" =>
            \E j \in 1..(k - 1) : backfills[s][j].status = "dry_run"

\* What the backfills leave behind, whoever runs them and however they end.
BackfillsAreSound ==
    TypeOK /\ RefreshesAreSpaced /\ BarsComeFromCompletedRuns /\ CommandWritesWereReviewed

\* A tick uses a bar earlier than the worker's own delay allows only when the
\* command has written that bar with a shorter delay.
SignalsAreNotEarly ==
    [][tick' # tick /\ tick'.signal # NoSignal =>
          LET row == bar'[SignalSymbol][tick'.signal]
          IN  /\ row # NoBar /\ tick'.at >= row.available
              /\ tick'.at < BarEnd(tick'.signal) + RuntimeDelay =>
                   backfills'[SignalSymbol][row.batch].by = "command"]_vars

\* A bar that may be used stays usable, so warm-up does not go back and the signal
\* bar does not get older, unless a run with a longer delay rewrites the bar.
UsableBarsStay ==
    [][\A s \in Symbols, n \in BarNumbers :
          n \in Usable(bar, s, now) =>
              \/ n \in Usable(bar', s, now')
              \/ bar'[s][n] # NoBar /\ bar'[s][n].delay > bar[s][n].delay]_vars

\* A bar is used from its time on, and stays in use.
BarsAreUsedInTime == SignalsAreNotEarly /\ UsableBarsStay

=============================================================================

# A TLA+ model of SilverPilot

SilverPilot trades bank silver on paper. A worker collects the bank's quote every few
minutes, builds bars, waits for delayed reference data, detects a market regime, runs a
strategy at most once per six-hour window, and sends what the strategy and the exit rules
want through a risk manager and a paper broker. Everything is rows in PostgreSQL. Beside
the worker run a status bot, the news interpretation, a backfill command, and offline
backtests and ML experiments on the stored rows.

Sources are below `src/src/silverpilot/app/`; every definition that models code is tied to
its lines by `PROJECT.json` ("map").

## 1. Inventory

| Component | State | Operations | Talks to |
|---|---|---|---|
| Cost model (`paper_trading/service.py`) | none | `calculate` | broker, backtest |
| Paper broker and ledger (same file) | wallet, position, order, trade, ledger rows | `execute`, `append` | called by worker and backtest; reads decision and quote |
| Risk manager (`risks/service.py`) | one decision row per intent and policy version | `evaluate` | reads intent, account, listing, wallet, newest quote |
| Worker (`runtime/paper_loop.py`) | tick and health rows; one transaction per tick | `main`, `tick` | calls everything |
| Database sessions (`db/session.py`, `db/models.py`) | identity map of each session | read, flush, commit, rollback | PostgreSQL at READ COMMITTED |
| Regime detector (`regimes/service.py`) | one snapshot per bar | `detect_and_cache` | bars, indicators, earlier snapshots |
| Strategy engine (`strategies/service.py`) | run and intent rows | `run` | regime, indicators, bar |
| Price collector, bar builder (`collectors/price_collector.py`) | quotes, execution bars | collect, build, prune | provider; worker and the optional collector container |
| Reference backfill, warm-up (`collectors/reference_backfill*.py`, `runtime/warmup.py`) | backfill runs, reference bars, approval of the sources | backfill command, refresh in a tick, count | Yahoo, worker |
| Indicators (`indicators/`) | snapshots per bar and parameters | `calculate_and_cache` | bars |
| Telegram bot (`runtime/telegram_bot.py`) | last update id, status | `_tick` | Telegram |
| News and event risk (`news/service.py`) | sources, events, risk snapshots | record, interpret | risk manager |
| Backtest (`backtests/service.py`) | datasets, runs, simulated accounts | `run` | strategy, risk, broker |
| ML experiments (`ml_experiments/service.py`) | datasets, runs, metrics per fold | `run` | bars, features, quotes |
| Providers, execution premium, API, health, bootstrap, migrations | little or none | queries and one-shot jobs | |

How they interact: the worker opens one session per tick, and everything a tick calls works
in it. There is one commit, in `_record_tick`; an exception rolls everything back and commits
a failed tick record instead. Between ticks the worker sleeps `runtime_collect_interval_seconds`
(300). The `collector` container, when its profile is on, commits quotes of its own in
between, and an operator may run the backfill command at any time. The API and the bot only
read financial rows.

### What is hard, and what has to be true

* **Money that adds up.** Costs, average cost and cost basis are rounded separately. Cash must
  equal the ledger, metal the trades, and cash + cost basis - profit must stay put up to
  rounding.
* **Doing it once.** `evaluate` overwrites the decision of an intent that stays `pending_risk`
  for ever, and `execute` may be retried; a decision may be filled once only. A Telegram
  update is passed in one transaction with the answers of its whole batch.
* **Limits that survive each other.** Event reduction, order limit and position room cap in
  turn, and the quantity is rounded afterwards.
* **Time.** Which quote counts as the newest, how old it is, what `now` means inside a tick,
  when a delayed bar may be used, when a snapshot stops to speak.
* **Rows that are written again.** A tick recomputes indicators and regime of the same bar;
  a backfill rewrites bars with another delay; an event is recorded and interpreted again.
* **Failure and restart** between any two steps of a tick.
* **Several sessions.** No lock, no version column: only unique constraints, and not for quotes.
* **Offline twins.** The backtest replays the same broker and policy with other inputs; an
  experiment must not learn from the future.

`PROJECT.json` lists the hazards one by one, each at its line, with the properties that
would show it going wrong, or why none does.

## 2. Plan

| # | Modules | State |
|---|---|---|
| 1 | `CostModel`, with `Accounting_proofs` for its arithmetic and for sums over rows | done |
| 2 | `PaperBroker`, the abstract `AccountBook`, `PaperBroker_proofs` | done |
| 3 | `RiskPolicy` (operators), `RiskManager` (handler), `RiskManager_proofs` | done |
| 4 | `PaperRuntime`, composed of `PaperBroker` and `RiskPolicy`, `PaperRuntime_proofs` | done |
| 5 | `PaperSessions`, refined to `PaperBroker`, `PaperSessions_proofs` | done |
| 6 | `RegimeRules`, `SignalEngine`: regimes, gate and strategy over rewritten bars, `SignalEngine_proofs` | done |
| 7 | `QuoteBars`, `ReferenceData`, proofs in `Services_proofs` | done |
| 8 | `TelegramBot`, proofs in `Services_proofs` | done |
| 9 | `NewsRisk`, proofs in `Services_proofs` | done |
| 10 | `Backtest` over the same broker and policy, proofs in `Research_proofs` | done |
| 11 | `Indicators` against direct definitions, proofs in `Research_proofs` | done |
| 12 | `ChronologicalSplits`, `MLExperiments`, proofs in `Research_proofs` | done |
| 13 | one tick of `PaperRuntime` with the signals of `SignalEngine` and the gates of `ReferenceData` | open |

Constants carry their assumptions in the module that declares them, no module uses
`RECURSIVE`, and every state machine is Init, one action per operation, Next, Spec.
Operators marked "Mutant" in a module are the plausible mistakes that `PROJECT.json`
("mutants") puts in the place of a definition to see a property fail; nothing else uses them.

## 3. The modules

**CostModel** - `CostModelService.calculate` over integers: cash in money quanta
(`0.00000001`), metal in quantity quanta, `QuantityScale` quanta to the unit, rates over
`RateScale`. There are two roundings: `HalfUp` is `_money` of the broker, which asks for
`ROUND_HALF_UP`; `HalfEven` is `quantize` without a mode, as in `_money` of the backtests
(`backtests/service.py`:896) and the worker's exits. Nothing is rounded that the code does not
round.

**PaperBroker** - state: `wallet`, `position`, `orders`, `trades`, `ledger`, the rows with the
same names; `decision` and `quote`, written by others. `Execute` is one call of
`PaperBroker.execute`: the approved-decision check, the look-up of the order first (a retry
gets what exists), the quote, the guards of `_apply_buy` and `_apply_sell`, and `Fill`, which
moves wallet and position and inserts order, trade and ledger entries together. A call that
raises is no step, as its caller rolls back. `Decide` is RiskManager overwriting its row at
any time, `Publish` the collector.

**AccountBook** - what an account promises, without orders, costs or ledger: an authorisation
settles once, cash and metal of one account move in opposite directions, and neither becomes
negative. `PaperBroker` implements it with `settled` = the decisions that have an order.

**RiskPolicy** - the refusals of `_evaluate_payload` as ordered lists of checks
(`FirstFailure` is the first early return), the resolver, the event overlay, the choice of the
newest quote, and the sizing. `Payload` is the whole function.

**RiskManager** - `evaluate` as a handler while quotes arrive, cash moves and listings close
around it, any number of times per intent.

**PaperRuntime** - one worker. `pc` is the place in the tick: `collect`, `assess` (bar, source
and warm-up gates, decision gate), `decide` (strategy and exits), `risk` and `execute` for each
intent, then `record` or `failed`. The variables named as in PaperBroker, with `intents` and
`runs`, are what the session sees; `saved` is what is committed; `Restore` is rollback and
crash alike. It instantiates PaperBroker and extends RiskPolicy, so the risk decision and the
fill are the very operators of those modules. Time: `now` advances when the quote is fetched
and when the tick is recorded; `tickAt` is the `now` that `main` takes before it opens the
session. Regime, signal, warm-up and source gate are free choices here; SignalEngine and
ReferenceData say what they can be. A quote of the collector may carry the instant of the tick's
own, and then either counts as the newest. A tick fails where an intent would ask for no cash,
which the table refuses (`trade_intent_cash_amount_positive`, `db/models.py`:971). The bounds of
the constants are named: `RuntimeAssumption`, and `RowAssumption` for what quote rows may hold.

**PaperSessions** - several sessions run `execute`: `Open` reads the wallet (in RiskManager;
the identity map then answers the broker), `Load` reads order and position and checks, `Flush`
waits for the account's row locks and trips over the unique constraints, `Commit` writes
absolute values. The ghost `overtaken` records accounts where a commit overwrote one it had
not read. Decisions are given as RiskManager leaves them: approvals on a priced quote of their
instrument (`SessionsAssumption`).

**RegimeRules, SignalEngine** - `RegimeRules` is the candidate of a bar (`_classify_candidate`)
and `_apply_transition_rules` with cooldown and hysteresis. `SignalEngine` is the signal half of
a tick as one transaction: reference bars come in (late, or not at all), the newest usable one
becomes the signal bar, its indicators and its regime row are computed and written again, and
the decision gate lets the strategy run. A reading is what indicators and close can say of a
bar, each input an integer or missing; a revised bar gets another reading. A tick that fails is an instant that passes.

**ReferenceData** - the approval that bootstrap gives, the backfill command with its review
flag, dry run and delay, the refresh in every tick with its interval, and the gates: source,
warm-up, signal bar. A run of either ends as completed, dry_run, failed or blocked; a bar row
keeps the delay and the run that wrote it. `Answers` is what `fetch_bars` may return, an empty
set for a failed request or an answer without a usable bar. All runs are of the runtime's own
source, timeframe (1h) and period, so nothing is aggregated to 4h bars, and a command blocked for
another source or timeframe leaves a row that no gate reads.

**QuoteBars** - worker and collector persist quotes, each in a transaction of its own: fetch,
the test for an equal row, insert, commit or rollback; the worker builds the execution bar of
the last closed interval from what it can see. `stored` (when a row was committed) is the
model's own: no column records it.

**TelegramBot** - a tick of the bot: `StartTick`, `Poll` or `PollFails`, one `Handle` per update
of the batch (an answer may fail, a blank command raises), `Finish` with the one commit, `EndTick`;
`BotCrash` at any place throws the session's `pending` offset back to the committed `lastUpdate`.

**NewsRisk** - `record_event` (an upsert, in whatever order fetches are recorded),
`NewsInterpreter.interpret` with the first matching rule of the policy and the expiry taken
from the fetch, and risk evaluations that read the snapshot.

**Indicators** - every calculator of `indicators/calculators.py` over exact integers scaled by
`Unit`: EMA, ATR with its presmoothed start, RSI, ADX with the histories it misses, band width.
A state is one history of candles. The references are written without the loops: a weighted sum
of the closes for the EMA, weighted sums in Wilder's weights (`WilderSum`) for ATR, RSI and ADX.
EMA, ATR and RSI have to agree exactly; ADX averages indexes that are ratios themselves, and has to
agree up to what rounding an average down at every bar can add up to, `Period - 1` units of
`1 / Unit`; the band width has bounds and no second definition.

**Backtest** - `BacktestEngine.run`: strategy, risk and broker of the modules above on stored
bars and quotes, with the replay's own context (exposure, drawdown after the previous bar),
the equity curve, and the abort when an approved buy is refused. Values and drawdowns are rounded
half to even, as the engine's `_money` does; costs and fills half up, as the broker's.

**ChronologicalSplits, MLExperiments** - `chronological_splits` as operators; the candidate rows
of a range of bars with their labels, the folds a run fits and tests, and how it ends. `Outcomes`
is `_predict` on one fold: predictions, or the first exception on its way. The two baselines never
fail. Logistic regression looks at the labels first, then imports scikit-learn, an optional
extra that is there or not (`library`), and then may fail in the estimator. `model_families` is
not validated, so a family may be one that `_predict` does not know. `run.status` and the
exception in the report (`error`) say which it was; what `run` does not catch (anything but
`ImportError` and `ValueError`) rolls the session back and is no step.

**MCMarketData, MCServices, MCResearch** check modules that share no state in one run: `part`
says which of them a behaviour explores while the others stay in their initial states. The
other MC modules only give the constants values.

## 4. Runs

| Run | Shows |
|---|---|
| `paper_broker` | two accounts, three decisions, two quotes, costs of 10 % + 10 %: cash and metal reconcile with ledger and trades (`BookReconciles`), the value of the book changes by the costs only (`BookValueConserved`), no decision is ordered twice, nothing is overdrawn, a round trip loses its fees, history only grows, and `ImplementsAccountBook` |
| `risk_manager` | 13 contexts, 5 listings, 4 quote rows, 2 intents: an approval asks for no more than request, order limit and position limit, is as large as they and the position's room allow, on the newest quote, never with an input missing |
| `paper_runtime` | four ticks and up to six intents with failures, rollbacks and restarts anywhere: the book reconciles at every step, every order keeps its decision, intent, run and quote, one run per signal bar, priced in time |
| `runtime_collector` | a collector quote in the middle of ticks: an exit that risk approved is refused by the broker only after such a quote; every tick ends |
| `sessions` | two sessions race: no double fill, no overdraft, every trade posted once; the book reconciles, and `PaperBroker` is implemented, up to the first commit that overwrites one it had not read; all end |
| `signals` | five bars, two of them to confirm and a cooldown of two: switches are confirmed unless `no_trade` lies between, `starts_at` is the start of the unbroken stretch, runs agree with the snapshot they saw, buy only on a live trend, and past rows stay |
| `market_data` | backfills of both kinds over two bars: refreshes keep their distance, bars stem from completed runs and reviewed commands, are used no earlier than their writer's delay and stay usable; quotes of two processes: duplicates need a race, each quote counts once, a rebuilt bar loses nothing |
| `services` | three updates in batches of two with a crash; one event with fetches recorded out of order: `BotKeepsItsPlace`, `UpdatesArePassed`, `SnapshotsFollowTheirEvents`, `ReplaysAgreeUnlessReinterpreted` |
| `research` | all histories of up to five candles; all price series of six quotes; all experiments on ten bars, with and without the library: the calculators agree with reference definitions, the curve explains the profit, the replay keeps limits the worker does not, folds do not leak, metrics and error tell how a run ended |
| `runtime_position_limit` (violated) | the position outgrows `max_position_cash`, because a tick reports an exposure of zero |
| `runtime_default_timing` (violated) | with the default interval no quote is ever fresh enough for the worker alone |
| `signals_one_candle` (violated) | one `no_trade` candle lets the next candle switch the regime at once |

The violated properties say what a document of the repository says; `PROJECT.json`
("findings") quotes the line and what the code does instead.

### Also seen while modelling

Weaker statements that the passing runs do check, with the case they leave out:

* An exit that risk approved may be refused in the same tick when the collector commits a
  cheaper quote in between (`ExitsFailByARaceOnly`); plan/phase-08:46 says "An approved risk
  decision becomes a paper order."
* Risk compares an order with the cash without the fee the broker then asks for
  (`risks/service.py`:347 and `paper_trading/service.py`:334): an approved buy of all the cash
  fails its tick, or the whole backtest (`AbortsForCostsOnly`).
* Two sessions on one account lose an update (`ReconcilesUnlessOvertaken`).
* `reduce_risk` caps the cash before the order limit does, so the reduced amount need not be a
  reduction of what would have been approved; plan/phase-12:58 says "reduce only the
  RiskManager-approved cash amount".
* The worker's refresh writes without a dry run; docs/source-feasibility-v1.md:182 asks for one
  before any write. `CommandWritesWereReviewed` is about the command.
* `split_spec` is not validated against the label horizon (ROADMAP.md:355 asks for an embargo
  "at least as long"); `NoLabelLeaks` carries that condition. With an embargo above the number of
  splits, as in the defaults, the last fold never has room and is not run.
* ADX asserts that its average exists, which a history without movement does not have
  (`AdxIsWildersAverage`); the callers catch `ValueError` only.
* The spread test divides by the sell price: a quote with a price of zero passes it only if the
  policy allows a spread of the whole price, which nothing rules out (`InputAssumption`).

### Bounds

Prices, balances and scales are small but chosen so that averages and costs do not come out
even (a third of a quantum, a tie), that one account can pay and another cannot, and that
every cap binds in some state. Three decisions allow buy, buy, sell and a retry of each; two
quotes allow a gain and a loss. `MaxTime` and `MaxIntents` of the runtime leave room for two
decision windows, hence a second buy and an exit after a failed or interrupted tick; a restart
may come after every step. Two sessions are enough for every pairwise race on a row, and the
code has no protocol among three. In `PaperRuntime` the decision window is as wide as the
signal bar, where both conditions of the gate matter.

`signals`: five bars are one to start a regime, two to confirm another, one that breaks the
stretch and one after it; the readings propose trends, range, no_trade and nothing, and lie on
each side of the strategy's conditions. `market_data`: three runs of an instrument are a dry
run, a write and a rewrite with another delay; two processes and two quotes make every race
on a quote, and prices differ so that a bar's range can grow. `services`: three updates make a
full batch and a second one, one crash tears any step; two recordings of one event in either
order need a clock of three. `research`: five candles are one more than EMA's and ADX's
start-up; `Unit` is a common multiple of the divisors so that the averages are exact; four bars
let a backtest buy, fall, and be stopped by its drawdown; ten bars give every shape of fold with
two splits, embargo 2 and horizon 2. `CHECK_DEADLOCK FALSE` appears where the bounds end the
run (time, intents, updates, bars used up).

### Fairness

The worker is a loop in one process under `restart: unless-stopped`: weak fairness of its next
step. For sessions, weak fairness of a session's own steps and strong fairness of its flush, as
PostgreSQL grants row locks in the order of the requests. For the bot, weak fairness of its loop
and strong fairness of a successful poll, as Telegram is not unreachable at every poll. Nothing
is assumed of the collector, the market, users, crashes, failing answers or aborts.

## 5. Proofs

All theorems hold for every value of the constants under the named assumptions of their
modules.

| Module | Theorems | Inductive invariant and argument |
|---|---|---|
| `Accounting_proofs` | `RoundTripLoses` | no state; monotonicity of division and of rounding half up, that a sale never costs cash (`SellNetNat`), and what a sum over rows does when a row is added or changed |
| `PaperBroker_proofs` | `TypeCorrect`, `NoOverdraft`, `OrderedOnce`, `HistoryGrows`, `RoundTripsLose`, `BooksReconcile`, `BookValueHolds`, `BrokerIsAnAccountBook` | `BookInv`: types, signs, and a quote's buy price is not above its sell price; with `ValueInv` for the value of the book |
| `PaperSessions_proofs` | `RacesStayInBounds`, `OnlyLateReadsLose`, `SessionsImplementTheBroker` | `SessionsInv`: what a session has read pays for what it will write, the locks keep flushed sessions apart, a flushed order is the first, and what was read stands unless marked behind; with `StoryInv` for the sums |
| `PaperRuntime_proofs` | `RuntimeReconciles`, `ReasonsSurvive`, `RunsKeepTheirDistance`, `PricesAreSeenInTime`, `ExitsGoThrough` | `RuntimeInv`: `SoundView` of what the session sees and of what is saved, `ClockSound`, `QuotesSound`, `TickSound`; with `ExitInv` for the exits |
| `RiskManager_proofs` | `ApprovalsStayWithinLimits`, `SizesAreMaximal`, `NewestQuoteIsUsed`, `MissingIsRefused` | `RiskInv`: the property, and every decision names a quote row that still stands |
| `SignalEngine_proofs` | `NoSwitchUnconfirmed`, `StretchesStartRight`, `RunsTellTheirRegime`, `IntentsNeedALiveTrend`, `ThePastStays` | `SignalInv`: `RowsInTime`, `RowSound` of every row, `RunSound` of every run |
| `Services_proofs` | `BackfillsStaySound`, `BarsStayInTime` | `RefInv`: the property and `StartsArePast`; with `DelaysTold` for when a bar may be used |
| | `QuotesStayAccountedFor`, `BarsGrow` | `QuoteInv`: what each open transaction's look-up rules out (`LookupSound`), what the bars count (`CandleSound`), what the worker is about to write (`BuiltSound`) |
| | `BotStays` | `BotInv`: where the tick stands (`BatchFollows`), what the session's offset passed (`HandledUpTo`), how often anything beyond was answered (`Unanswered`) |
| | `SnapshotsFollow`, `ReplaysAgree` | `NewsInv`: rows hold recorded fetches, evaluations are past; `ActionsFollowRules` |
| `Research_proofs` | `ReplayStaysInLimits`, `ReportExplainsTheRun` | `ReplayInv`: where the replay is (`PlaceSound`), the stored quotes (`RowsStand`), what each order and the last decision are (`OrdersSound`, `LastDecided`), the highest point and the deepest fall (`CurveSound`); `ReportInv` adds the sum of the money (`MoneySound`, `LastPoint`) |
| | `FoldsNeverLeak`, `MetricsTold` | `MLInv`: consecutive rows are at least a bar apart (`RowsAreSpread`); `RunInv` adds `FoldsInOrder` |
| | `CalculatorsAgree` | `HistoryInv`: the history is a sequence of candles no longer than `MaxHistory`; what the calculators compute from one is an induction over its positions |

**Broker.** Types alone are not inductive: the average cost divides by the quantity held, and
the amounts are naturals only because prices are ordered and holdings not negative. `StepShape`
reduces a step to "the book stands still" or "one fill of a decision without an order", and
`FillAppends` says what a fill appends; the theorems on history and orders follow from these two.
`RoundTripsLose` strengthens the invariant by `TradesPriced`: each trade carries the amounts its
quote gives, and quotes are never updated. `BrokerIsAnAccountBook` is the refinement: a step that
leaves the book alone is a stutter, and a fill maps to one `Settle` of its decision (`FillSettles`,
from `EntryChanges`: a fill moves one account's wallet and one of its holdings). It assumes
`CostsAreMinor`, fee and tax rate together at most one half: where they come near the whole price, a sale can
cost cash once both are rounded, which `AccountBook` forbids and the code would book. The
defaults are 0.001 and 0.

**Sums.** Ledger and holdings are sums over rows. `SumFunctionOnSet` takes its rows in an
arbitrary order; `Accounting_proofs` shows by induction over natural numbers (in the form of a
least counterexample, as the induction rule itself takes an operator) that the sum over a set is an
element and the sum over the rest, whichever element is taken. From there `SumChange` says what a
sum does when one term changes, and the `Tally` lemmas what a sum over the entries that pass
a test does when entries are appended, which is all a fill does. `BooksReconcile` then needs one
more fact of a fill: the sums move by what wallet and position move by.

**Value.** `BookValueConserved` bounds how far cash + cost basis - profit may drift by the
roundings so far. The drift of one account moves in a fill only: by the rounding of the new average
cost times the quantity held after a buy (`RoundedAverage`), by the rounding of the sold cost
after a sale (`FillDrifts`), and the bound grows by at least that much (`SlackGrows`), since nothing
is held that was not bought (`BoughtGrows`). Cost bases are summed over `Instruments`, so the
theorem assumes that set finite.

**Runtime.** The same facts have to hold of two copies of the tables, what the session sees and
what is saved, because a rollback or crash makes the second the first. `SoundView` states them
of any copy: it reconciles, its approvals rest on quotes that stay, its orders have their reasons,
its runs keep their distance. Each action is shown to keep it for the session's copy; `Record`
and `Restore` copy one to the other. `TickSound` carries what a tick has established from step to
step: the intents still to do are of the newest run, made at `tickAt`, and have no order, and one
that is sent to the broker is approved. `QuotesSound` says that the tick's own uncommitted quote
is later than `tickAt`, so no approval rests on a quote that a rollback takes back. Fill and risk
decision are those of the broker and the risk manager: `PaperRuntime_proofs` instantiates their
proof modules and cites their lemmas.

**Exits.** An exit's cash is the holding at the bank's buy price, rounded to the money quantum, and
its size is that cash at the sell price, rounded down to the bank's step. The broker refuses a
size above the holding, and the rounding of the cash may have gone up. `ExitsGoThrough` shows that
it never gets so far. Every size is a whole number of steps, hence every holding is (`OnGrid`,
through buys, sales and rollbacks). The rounding adds at most half a quantum, and
`PreciseSteps` says that a step costs more than that, so the cash cannot buy one step more than is
held (`ExitSizeFits`). Without the collector a tick has one quote, for the exit's cash and for its
size (`OneQuoteUnraced`); the exit is the tick's last intent,
and what was bought before it only adds to the holding (`ExitInv`). `PreciseSteps` is necessary: with a step of
1/8 gram, money in whole units and no fee, TLC finds metal bought at 3 and priced at 1 whose exit asks
for more than is held. The seeded listing trades steps of 1/10000 gram and money has eight
decimals (`bootstrap.py`, `domain/models.py`), so it holds of every price above 0.00005 per gram. The theorem also
assumes `CostsAreMinor`.

**Sessions.** A session's reads may be stale when it commits, so wallet and holdings cannot be
bounded from the committed rows alone. `SessionsInv` instead says of each session that what it
read pays for its decision (`SoundRow`): a commit writes from what was read, which is enough for
the signs, overtaken or not. That no decision is ordered twice needs both constraint and lock:
the flush finds no order, and until the commit nobody else can flush on the account
(`LocksExclude`, `FlushedIsFirst`). For the refinement, a session that is not behind has read what is
committed (`ReadsStand`), so its commit is `Broker!Execute` and every other action a stutter
(`CommitExecutes`).

**Risk.** `AllChecksPass` turns the first-failure lists into the conjunction of their checks,
`DivBounds` and `SizeFits` bound a size rounded down to the bank's grid, `CapsHold` chains the
three caps, and together they give the limits of one payload. The invariant carries them over
time: the quote of a decision is never updated, only others are inserted. `InputAssumption`
says what the rows may hold; its clause on a zero price is needed, as the code would divide by it.
`NothingMissingIsApproved` is a fact of the payload in any state, and so needs no invariant.

**Signals.** A tick recomputes rows that exist, with readings that may have changed, so nothing
said of a row by other rows survives unless the others stand still. They do: a tick never writes a
bar before the last one with a row (`ThePastStays`), so what `RowSound` says of a row in terms of the
rows up to it stays true when a later one is written (`RowSoundIsLocal`), and `NewRowSound` says it
of the row that is written. A switch is confirmed by the last `ConfirmationBars` rows; that there
are so many, and that they are the ones the code looks at, is a counting argument over finite
sets of numbers (`TopHasThatMany`, `TopIsInside`).

**Reference data.** A refresh interval of zero still needs that a run starts no earlier than the
one before; a bar had ended when its run started because only closed bars are returned and the
clock does not go back. `BarsStayInTime` needs where a bar's time comes from: its end and the
delay of the run that wrote it, and the worker's runs have but one delay (`DelaysTold`).

**Quotes.** The two processes see each other's rows only once they are committed. Rows are never
taken back after that, so whatever one transaction found stays true while the other commits: an
equal row that appears after the look-up is the other process's and younger than the fetch, and
a bar counts at most the rows of its interval. A bar built again sees everything that is
committed of its interval, hence covers the one it replaces (`BarsGrow`). The intervals are
disjoint (`IntervalsAreApart`), so the counts of any set of them add up to no more than the fresh
quotes in them, by induction over the set (`CountsAddUp`).

**Bot.** A tick moves the session's offset update by update while the committed one stands
still, and a crash throws it back; the property follows only from knowing which updates of the
batch lie between the two.

**News.** `SnapshotsFollow` assumes that no rule which lets trades through precedes one that
rejects them (`RejectingRulesComeFirst`), which is how the policy in `news/service.py` lists them;
the first match then rejects whenever any match does. `ReplaysAgree` does not need it.

**Replay.** The book and the limits of one decision are the lemmas of `PaperBroker_proofs` and
`RiskManager_proofs`, instantiated with the one account of the replay (`PartsAssumptions` shows
that what they assume of their constants holds of a replay's). The replay gives risk the position
and the drawdown, so an approval bounds both: `LastDecided` carries that bound from the decision to
the order, and `OrdersSound` keeps it for every order of the past, whose points are never rewritten.
The reported drawdown is a fall from the highest point so far; that a higher point
makes a deeper fall (`DrawdownMonotone`, across the rounding) makes it the deepest. For the costs,
`MoneySound` says for every price at once that cash, costs paid and metal at that price come to the
opening cash and the gain, up to the roundings: a buy adds its own two (`BuyCosts`) and nothing
else (`OneMore`). At the end that price is the one of the last point (`LastPoint`). The clause of
`BacktestAssumption` on a zero price is that of `InputAssumption`.

**Folds.** Rows are a subset of the bars, so indices that differ by more than the embargo are
bars that differ by more than it; labels lie `Horizon` bars ahead of their row. `MetricsTold`
needs that folds are run in the order of their tests (`FoldsInOrder`): when one fails, all that
have metrics come before it, and that what the run was started with, family and library, stays
what it is, so that an error of one fold says something of every other: a missing library or an
unknown family fails the first fold that gets so far.

**Indicators.** The calculators are loops, written as recursive functions over positions.
`RecursionExists` shows once, by induction over the length, that a loop computes a function; each
sum, power and average is then known by its steps, and every claim about one is an induction
over positions (a set of numbers that has 0 and with each its successor has them all). The EMA
is exact because `Unit` has a factor `EmaPeriod + 1` for every bar that can follow the first mean
(`EmaIsExact`), which gives the closed form with its weights (`EmaIsWeighted`). The running
average is Wilder's sum of what it is given, at most `Period - 1` units below it however long
the history (`RmaNearWilder`), and exactly it when the values are multiples of enough powers of `Period`
(`RmaIsWilder`). `IndicatorAssumption` makes `Unit` such a multiple, so ATR and RSI are exact
(`AtrIsWilder`, `RsiIsWilder`); of ADX the averages of the movements are (`MovesAreShares`), hence
each index is the share its reference says (`IndexIsShare`), and only the last average, of these
rounded ratios, is not (`AdxIsWilder`). The same assumption keeps an average of a market that
moved from decaying to zero (`RmaVanishes`). The `Unit` of the run satisfies it. It is an
assumption of the model's scale and not of the code, which computes in decimals: what is proved
holds as long as its digits do. The band is an inequality on each side, between the squares of
all closes and those of the two extremes (`SpreadAtLeast`, `SpreadAtMost`).

Only model-checked, and why:

* Liveness (`TicksEnd`, `SessionsEnd`, `UpdatesArePassed`), which the prover does not treat.

## 6. Not modelled

* Text of reasons, evidence, JSON, hashes and logging; the cost breakdown; the wording of the
  bot's answers. No decision of the modelled code reads them back, except the input hashes,
  whose equality stands for equal rows.
* HTTP, parsing, the estimators and artifacts of experiments: pure input and output, or numbers
  nothing else depends on.
* `prune_price_quotes`, execution premium and the notification service: nothing in the running
  system calls them.
* Read-only queries (API, health, bot commands) and migrations: no state of their own.
* The dataset identity of a backtest: a hash of row contents. What it leaves out is listed among
  the hazards.
* Exits between decision windows: the code looks at stop-loss and take-profit only when the gate
  opens, and no line of the repository promises more, so there is nothing to hold it to.
* `PaperRuntime`, `SignalEngine` and `ReferenceData` are not composed into one tick: the product of
  their clocks is beyond the bounds of a run. PaperRuntime instead lets signal, regime and gates
  be anything, which covers what the other two can produce.
* Wallets' `reserved_amount` is never written after the bootstrap. Decimal precision is that of
  the columns: values are exact integers, and no overflow of `Numeric(24, 8)` is considered.

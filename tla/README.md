# A verification project for Azureus-FinTech

Azureus-FinTech backtests equity strategies on Hong Kong stocks: a FastAPI service
accepts backtest jobs, RQ workers run them, a React page follows them, and Prefect
flows fill a Postgres/TimescaleDB store with prices and point-in-time fundamentals.
This directory models the parts of it that are hard to test in TLA+, checks them with
TLC on small instances, and proves with TLAPS, for every size, that the job life cycle,
the backtest engine's books, the point-in-time store, the price flows with the database
validation, adjusted prices and the features that read them, the selection of stocks, the
reference data and the walk-forward training have the safety properties that section 5
lists.

Paths below are relative to the repository root.

## 1. Inventory

| Component | State it keeps | Operations | What is hard |
|---|---|---|---|
| Job service (`azureus/api/services/backtests.py`, `queries/`, `routes/`) | tables `strategies`, `jobs`, `backtest_results` | create, status, result | concurrent creates, crash between commit and enqueue, enqueue that fails or whose reply is lost |
| Queue and worker (Redis/RQ, `azureus/worker/tasks.py`) | Redis list, work horse | `run_backtest_job`, `_mark_running/_completed/_failed` | alarm at any instruction, kill, failing transactions, two writers of a row |
| Result page (`frontend/src/api/backtests.ts`) | the last polled status, the fetched result | poll, fetch | stops polling at a terminal status |
| Engine (`azureus/backtesting/engine.py`, `portfolio.py`, `cost_model.py`) | cash, holdings, history, trades | mark, rebalance, snapshot | missing bars, untradable holdings, order of trades, costs, rounding |
| Results (`azureus/backtesting/results.py`, `metrics.py`) | none | tables, drawdown, statistics | equal peaks, no recovery, order of peak and trough |
| Calendar (`azureus/utils/dates.py`) | none | sessions, roll, previous, next | ad hoc closures, lookup window |
| Benchmark (`azureus/strategies/benchmark.py`) | none | availability, freezing, weights | stale signal date, float rounding |
| Multi-factor strategy (`multi_factor_v1.py`, `features/scoring.py`) | none | scores, sector quotas, selection | ties, small sectors, missing features |
| GBM strategy (`gbm_factors_v1.py`, `models/cv/`) | trained windows | fit, predict | train/test overlap, label horizon, month arithmetic |
| Point-in-time fundamentals (`pipelines/ingest_fundamentals_free.py`, `data/sources/yfinance_source.py`, `features/fundamentals/`) | `fundamentals_pit`, `ingestion_runs` | ingest, snapshot, history, trailing sum | made-up report dates, restatements, overlapping runs, crash between data and lineage |
| Price flows (`pipelines/ingest_prices_free.py`, `ingest_prices_batch.py`, `ingest_prices_webull.py`, `data/sources/webull_source.py`, `data/validators.py`) | `prices`, `ingestion_runs`, a batch's futures | batch, fetch, page, retry, validate, upsert, record, summarise | bounded concurrency, failures half-way, unfinished sessions, windows that must overlap, paging that must end |
| Database validation (`pipelines/validate_db_state.py`) | findings | checks, verdict | reads several states of a table that is being written |
| Price features (`features/market/`, `features/fundamentals/financial.py`, `data/sources/`) | none | as-of price query, momentum, daily returns, label, market value | `adjusted_close` of rows downloaded on different days |
| Reference data (`pipelines/ingest_tickers_free.py`, `scripts/seed_tickers.py`, `scripts/seed_universe.py`) | `tickers`, `universe_membership`, `ingestion_runs` | refresh of names, loads of the two files, universe queries | failure half-way, two writers of a name, corrected files |
| Look-ahead audit (`azureus/data/sources/auditing.py`) | two counters | wraps the queries | nothing: it compares an answer with the date asked for |
| Read-only and I/O parts: catalog and ML endpoints, MLflow logging, reproducibility capture, migrations, audit scripts | none of their own | reads, logs | nothing a model checker reaches |

How they interact: the API and the worker share only Postgres and the Redis list. The
API commits the row, then pushes the id; RQ pops the id, forks a horse and arms an
alarm; the horse loads the row, runs the strategy and the engine, and commits the
outcome. The page only reads rows. A strategy reads prices and fundamentals through a
`DataSource`; the ingestion flows write what it reads. The engine calls the strategy
once per rebalance date with the session before as its signal date.

## 2. Modules

| Module | What it is |
|---|---|
| `JobPromise` | abstract specification: what the API promises about a job |
| `JobLifecycle` | handler, tables, queue, worker and page, with seven kinds of fault |
| `JobLifecycleProofs` | TLAPS proofs about `JobLifecycle`: types, the inductive invariant, safety under every fault, that no job runs twice, and that it implements `JobPromise` |
| `TradingCalendar` | the date helpers as operators |
| `BacktestEngine` | `run()` with the portfolio and the cost model, the strategy left open |
| `Backtest` | the engine composed with a strategy: the benchmark, a factor strategy behind its liquidity filter, or any long-only one |
| `BacktestProofs` | TLAPS proofs about `BacktestEngine`, `Backtest` and `Results` |
| `SumTheorems` | lemmas the proofs share: sums over finite sets, induction, recursion, ranks |
| `Results` | the drawdown that a result reports, over the engine's equity curves |
| `Selection` | scores, sector quotas, selection and weights of the factor strategies |
| `PitStore` | yfinance, ingestion runs, the table, and the as-of queries, for one ticker and metric |
| `PitStoreProofs` | TLAPS proofs about `PitStore` |
| `PriceIngestion` | the price batches of both providers, their tasks and threads, tables and summaries |
| `DbValidation` | `PriceIngestion` composed with the database validation |
| `DbValidationProofs` | TLAPS proofs about the price flows of `PriceIngestion` and the validation beside them |
| `WalkForward` | windows, samples, feature columns, test folds and model choice of the GBM strategy |
| `WalkForwardProofs` | TLAPS proofs about `WalkForward` |
| `PriceHistory` | the payouts of a share, the adjusted closes that runs of different days store, and the features that read them |
| `FactorProofs` | TLAPS proofs about `Selection` and `PriceHistory` |
| `ReferenceData` | the tables of tickers and index members, their files, and the refresh of names |
| `ReferenceDataProofs` | TLAPS proofs about `ReferenceData` |
| `MCJobLifecycle`, `MCBacktest`, `MCPitStore`, `MCWalkForward`, `MCIngestion`, `MCSelection`, `MCPrices`, `MCReference` | instances for TLC |

### 2.1 JobLifecycle

A transaction is two steps: one that loads the row (`LoadRunning`, `LoadCompleted`,
`LoadFailed`, `LoadEnqueueFailed`) and one that flushes and commits (`SaveRunning`,
...). Postgres runs at READ COMMITTED and the code takes no row locks, so another
process may commit between the two. SQLAlchemy's UPDATE names only the columns that
differ from the loaded ones; `Flush` models that, and with it the rows that two
writers leave together.

`api[r].pc` is the line of `create_backtest_job` the handler of request r is at and
`worker[w].pc` the line of `run_backtest_job` a horse is at. `existing` is the answer
`ensure_strategy_record` got from its lookup. A second INSERT of the same strategy key
waits for the open transaction of the first (`InsertPending`), as Postgres does.

The faults, each at any step where it can happen, at most `MaxFaults` in a behaviour:

* `redis_down`: the push fails; `reply_lost`: it is applied and the client raises;
* `db_error`: a transaction raises and is rolled back; `commit_unknown`: a commit is
  applied and the client raises all the same;
* `timeout`: RQ's alarm, anywhere in the horse until it returns, once per job;
* `kill`: SIGKILL of the horse; `api_crash`: the API process dies with all requests
  in flight and nothing resumes them.

RQ pops an id before it runs the job and does not put it back, so a killed horse's job
is gone (`lost`). Not modelled: RQ's own registries, Redis losing its data, and the
Postgres server going down for good.

### 2.2 TradingCalendar, BacktestEngine and Backtest

Days are numbers, money and shares are whole quanta, target shares are rounded down.
The bars of a session are drawn when the clock reaches it, which is sound because
neither the engine nor the strategies of this composition read a later bar. A step of
the loop of `run()` is an action: `NextSession`, `MarkToMarket`, `Ask`/`Rebalance`,
`ExecuteTrade` (one trade, in symbol order), `EndRebalance`, `RecordSnapshot`; each
exception that ends a run is a phase (`no_mark`: KeyError of `mark_to_market`;
`no_volume`: ValueError of the volume lookup or the cost model; `short_sale`:
`LongOnlyError`; `no_session`: ValueError of the calendar).

Floats: `weight * value / price` may miss the share count the weight came from by the
last bit. The model lets any held ticker whose difference is below a quantum be traded
nonetheless (`Dust`), with a trade of zero quanta: the engine's test is
`delta_shares == 0.0`. Costs are `FeeRate` of the notional, plus `StampRate` for sales,
rounded up; the slippage formula is only required to have a positive median volume.

`Backtest` adds the strategy: `EqualWeight` is the benchmark in full, also for a portfolio
that is worth nothing or less: `Portfolio.weights` is then empty, nothing counts as frozen,
and equal shares of the negative value are asked for. The rate of costs in `Backtest.cfg` is
far above a market's (the code's slippage has no cap), so that the few days of the run bring
a portfolio below zero. `FactorTargets` is a
factor strategy with equal weights, of which only the filter in front of it (`Liquid`,
`_liquid_tickers`) is kept and the selection is any; `AnyTargets` stands for every
strategy whose weights are non-negative and add up to one at most (members of the index
at the signal date only). `Results` reads the engine's history as the equity
curve of the result and adds `max_drawdown_with_duration`; quotients of equities are
compared as products. The other statistics are formulas over real numbers.

### 2.3 PitStore

A figure is the edition of the report it is from and the number of quarters it sums;
values are not needed. The companies publish each period's report at most `Delay` days
after its end and may restate it; yfinance shows the latest `QuarterlyColumns` quarters
and every financial year. `gaps` are quarters whose quarterly column has no value for the
metric, which hides the annual value of the same date (`_merge_statement_frames` keeps the
first of two columns). `Fetch`, `Upsert`, `Record` are the three parts of
`_ingest_one_ticker`, each of which may fail where the code catches, and `Kill` ends the
process anywhere. A commit may also be applied and raise in the client, which leaves rows
in the table under a lineage row that says `failed`, with 0 rows. Two history variables
serve the properties: `unrecorded`, the rows whose commit no lineage row tells of, and
`overtaken`, the runs that fetched before another one committed. Runs overlap. `Snapshot`,
`History` and `Ttm` are the two queries and the trailing sum.

### 2.4 WalkForward

A sample is its ticker, its date and the date its label is known; samples without a label
are dropped, and nothing else is decided by that date (section 6). Month arithmetic is
the code's, over months of different lengths. Which members have closes on both ends of
a label (`usable`) is free. Of the features two things matter: where they have a value,
and whether they vary. `data.since` says from which date a ticker has a feature (a
bound: the gaps of real data need not be at the start), `data.flat` which features are
constant. `Eligible` is the greedy choice of columns of `_eligible_training_features`:
the fullest candidate first, each kept if enough rows stay complete. LightGBM,
hyperparameter search with the training rows of its folds, and MLflow are left out: they
choose parameters of LightGBM, and no property depends on those. Rebalancing
is monthly, the default.

### 2.5 PriceIngestion and DbValidation

A bar is its day and its edition: "partial" when it was fetched before the session
closed, "final" after. The clock ticks twice a day, so that a run can fall into a
session, after it, or across midnight. `tasks[b][i]` is a call of `_ingest_one_ticker`
(or of its Webull twin): `Begin` takes it from the pool's queue when one of `Threads`
threads is free and fixes its window (`end` is today, `start` is `Lookback` days
before, or Webull's fixed start), then `FetchYfinance` in one call or `FetchPage` and
`Throttled` page by page, `Validate` as part of the fetch that ends it, `Upsert`
(one statement in one transaction) and `Record` (the finally clause). `Start` and
`Summarise` are the two ends of the batch. The two batch flows differ only in the
fetch, in the window and in the order of two lines without effect, so that they share
these actions; the single-ticker flows are batches of one.

`source` is what the providers are like: `silent` are the sessions for which they show
no close, `heeds_end_time` whether Webull pages backward as it is asked to. Failures, at
most `MaxFaults`: `source_error` (an exception or a status other than 200, or a bar that
the schema rejects), `future_bar`, `db_error`, `commit_unknown`, `capture_error`
(`capture_reproducibility` raises within the finally clause), `kill`. `throttled` is not
counted: its retries are bounded by the code.

`DbValidation` runs the four checks about prices one transaction at a time between the
steps of the batches. Left out: the check of reported dates (see `NoFutureRow` of
`PitStore`). One clock serves the flows and the database: Postgres' CURRENT_DATE and
Python's `date.today()` are taken to agree. Deleting tickers, which no flow does, and
members that end are not modelled.

### 2.6 Selection

One action answers a question: `TargetWeights`. What is asked (`q`) is the set of
tickers that passed the liquidity filter and have every feature (`complete`), their
sectors, the feature values and the parameters. Only the order of values matters, since
a feature enters by its percentile rank. `_zscore` maps the ranks of one feature by one
increasing line for all tickers, and the family means and the composite are sums with
weights that are the same for all tickers: so one natural number for each feature,
`factor`, stands for slope, family size and weight together. Scores that tie do so by
symbol, as in the code; real scores tie less often.

Nothing is sorted in the model. The best n of a set are those with fewer than n of the
set before them (`Best`), and a list is the place of each of its tickers (`InOrder`),
which is what the code's `sort` and `head` come to for an order without ties.

The share of a sector is a float in the code. Whole parts and fractions are exact here:
where the float of a whole share falls just short of it, its fraction is the largest
there is and gives the place back. Of two equal fractions either may come first
(`Favoured`), since the floats differ by a last bit and the sort is not stable.
Clipping, topping up and the filler of `_select_long_tickers` are kept, although
`PlacesAreProportional` shows that they never have to do anything. The GBM strategy
uses the same selection on predictions, and equal weights. `n_long` is 10 to 40 in the
code; it is scaled down with the universe.

### 2.7 PriceHistory

One ticker. A day has a close, a holding (what a holder of one share has by then if every
payout is reinvested) and a bar or none; a payout is as large as the price that is left,
so that it doubles the holding and halves what earlier bars are adjusted to. `Fetch`
takes the window of a run as the providers show it on that day: yfinance's
`adjusted_close` is divided by the holding of the day of the download, Webull's is
missing, and features then take the raw close. A day with a bar begins with its session
`open` and a price (`quote`) that `CloseSession` replaces by the close; a run during the
session downloads the price of the moment as that day's close, as `PriceIngestion` has it
too. `Save` is the upsert, in any order and
on any later day; `Fail` covers every way a run ends without one (the failures of
`PriceIngestion` differ in what they report, which does not matter here).
`GetPrices`, `Momentum`, `DailyReturns`, `Label`, `LatestPrice`, `MarketCap` and
`ValueFeature` are the query and the features, with fractions instead of floats. The
figure and the number of shares are constants here, since `PitStore` says which of them a
date sees. The n-th row from the end is the one with n later ones (`NthRow`). Splits, for which
yfinance restates raw closes as well, are left out.

### 2.8 ReferenceData

`run[r]` is a call of `ingest_tickers_free`: `Start`, then for each ticker `LookUp` at
yfinance, `Load` (SELECT) and `Save` (UPDATE and COMMIT, one transaction per ticker), and
`Record` at the end. Of a ticker only the name is kept. A load of `tickers.csv` or
`hsi_members.csv` is one statement and one action; it may come between `Load` and `Save`,
and the UPDATE then names only the name, if it differs from the loaded one. The provider
renames, and others commit, at any point between `LookUp`, `Load` and `Save`. The history
fields `renamed` and `overwritten` are the tickers whose name changed at the provider
after the look-up, and those to which others wrote another name after the read. The
failures: `lookup_error` (caught, counted), `db_error` (not caught in the loop, logged by
`Record`), `commit_unknown`, `capture_error`, `kill`. The foreign key of
`universe_membership` is the guard of `SeedUniverse`.

## 3. Runs

| Run | Module, bounds | Shows |
|---|---|---|
| `JobFaults` | 2 jobs of one strategy, 1 worker, all 7 faults, 2 of them, fairness | `DeliveredHasRow`, `NoSilentLoss`, `ResultServed`, `NoRerun`, `AcceptedSettles`, `EveryRequestAnswered` |
| `JobPromise` | 2 jobs, 2 strategies, 2 workers, the 4 faults that leave nothing half known, 3 of them | refinement of `JobPromise`; `PageIsRight`, `OneWriter` |
| `Backtest` | 2 tickers, 6 days with a closure, 3 schedules, no bar / traded / untraded bars, 3 kinds of strategy | books balance, marks are of the day, the curve is complete, short only in debt, overdraft at most the costs, the drawdown is the worst fall |
| `PitStore` | 3 quarters of 2 editions, 2 overlapping runs, 5 days | no look-ahead, no future row, figures go forward, lineage explains the table |
| `WalkForward` | 2 tickers, 2 features, 9 months, 3 spans, 3 folds | windows tile, out of sample, a date is answered by its own window's model, every row tested, columns maximal |
| `Ingestion` | 1 batch of 2 tasks, both providers, 2 days of 2 halves, pages of 2 bars, one of 6 failures, throttling | no holes, true summaries and lineage, downloads end, no alarm, a clean bill holds |
| `Selection` | 4 tickers in 2 sectors with 2 features of 2 values; up to 6 tickers in 3 sectors of every size | places in proportion, no better ticker left out or weighted less |
| `Prices` | 1 ticker, 4 days, 2 runs of 2 lookbacks, before or after the close, both providers, 4 kinds of day | returns are earned, market values are rebased |
| `Reference` | 2 tickers, 2 names, 1 refresh with one of 5 failures, 2 ticker files, 4 member files, renames | a refresh is told and catches up, the universe is as loaded |
| `JobEnsureRace`, `BacktestSuspended`, `PitTtm` | as above | where code and words differ: section 6 |

Type invariants are not among the runs, where each property costs a run of its own: they
were checked while the models were written, and those of `JobLifecycle`, `PitStore`, the
engine, the price flows, `PriceHistory`, `ReferenceData` and `WalkForward` are proved.

Why the bounds are enough: two requests are the fewest that race for a strategy row and
one queue; a third would only repeat the race with one of them. Two faults are enough for
a failing enqueue and a failing record of it, or for a lost reply and a failure of the
worker in one behaviour (`JobPromise` has three, and the proofs any number). Six days hold
two rebalances with a signal day before each, a closure in the window and an index change
between them; three kinds of bar are the three cases that the code distinguishes (none,
tradable, no volume), at two prices. Three quarters with a year of two have a quarter that
rolls off the statement. The months of `WalkForward` are three and four days, so that a
window of one month started on the last day of a long month clamps; rows that do not
divide by three folds, folds that end inside a date, and windows without a model all
occur. In `Ingestion` the ticker that is listed twice gives two overlapping runs of one
ticker on different days, whose commits race; the unknown ticker gives a batch that is
partly successful; two members give a validation that sees the one without the other; a
page of two bars makes three pages of the window of Webull and the days before it. A run
of two batches would add only batches in different processes, which share no more than the
tasks of one batch do; a second failure mostly ends a task that has failed already.

In `Prices` the windows are of one to three days and two observations, so that four days
have a payout before, within and after a window; two runs are the fewest in which a short
one splits what a long one stored, an old one commits last, or a later one replaces the
bar of a session that had not ended. In `Reference` two tickers let a refresh fail between
them, and a list names one twice; two loads show every pair of editions. Two overlapping
refreshes of two tickers are beyond the time of a run; what one does to the other,
changing a name, the loads do as well, at every point between its look-up, read and
commit.

In `Selection` four tickers with two binary features have every pattern of ties and of
features that disagree; six tickers in three sectors have quotas with one and two places
left over, equal fractions, empty sectors, and sectors of one ticker.

In every run deadlock is checked: the states where the system really rests are
explicit steps (`Quiescent`, `Returned`, `Over`).

Fairness (`JobFaults`, for the two liveness properties): weak fairness of the steps of each handler
(the event loop), of each worker (RQ's loop; compose restarts the process) and of each
page. No fault is ever due and no new request is. A waiting INSERT is enabled when the
other transaction has ended, which fairness of the other handler brings about.

## 4. Properties

`JobLifecycle`

* `DeliveredHasRow`: an id in Redis or in a horse's hands names a committed row, because
  the commit comes before the push.
* `NoSilentLoss`: a row that says `queued` or `running` has a handler, a message or a
  horse in charge of it, or one of three failures explains it. It says precisely which
  failures leave a job hanging: the death of the API, an enqueue failure that could not
  be recorded, and the loss of a horse.
* `ResultServed`: a page told `completed` is never refused the result.
* `NoRerun`: a job that ended starts again only if it is `failed` because its own
  enqueue raised (a lost reply); nothing else delivers a job twice.
* `PromiseKept`, `OneWriter`, `PageIsRight`: without half-known faults, statuses move as
  the API promises and terminal ones are final. (`FailedHasNoResult`, which follows, is a
  theorem and not in a run.)
* `AcceptedSettles`, `EveryRequestAnswered`: liveness.

`BacktestEngine`, `Backtest`

* `EquityMatchesTrades`: the trade table explains cash and shares on every day.
* `SnapshotIsMarked`: each equity row is valued at the closes of its own day.
* `CurveIsComplete`: a row for each open day, none for a closure, all when it returns.
* `NeverShort`: a long-only strategy makes the engine raise `LongOnlyError` only when the
  portfolio was worth less than nothing before the day's trades. The run reaches that;
  no order of trades, rounding or cost of the day does it.
* `OverdraftIsCosts`, `OnlyCostsAreLost`: long-only weights overdraw by the costs at most,
  though buys precede the sales that fund them.
* `FrozenIsKept`: a frozen position keeps its size.
* `DrawdownIsWorst` (`Results`): no stretch of the curve lost more than the reported
  depth, and the reported days run from its peak until the equity is back there. Only for
  runs without debt (`NoDebt`): a part of less than nothing measures no loss.

`Selection`

* `PlacesAreProportional`: all places are taken, and each sector has its proportional
  share rounded down or up.
* `NoneBetterLeftOut`, `BetterGetsMore`: a ticker that is as good as another of its
  sector in every feature and better in one is never passed over for it, and never
  weighted less.

`PitStore`

* `NoLookahead`: no query sees a report before it came out (when `Delay <= Lag`).
* `NoFutureRow`: what the provider shows of tomorrow is not stored today, though a run may
  store on a later day what it fetched on an earlier one.
* `LineageExplains`: each row has a successful lineage row, or one to come, or is one of the
  `unrecorded`: the lineage row was lost, the process died, or the commit raised although
  it was applied.
* `EditionsGoForward`: no step puts a stored figure back to an older edition, quarterly or
  annual, unless the run that does was overtaken by another's commit between its fetch and its own.

`WalkForward`

* `WindowsTile`, `OutOfSample`, `EachRowTestedOnce`.
* `AnswerIsOfItsWindow`: windows without a model are skipped in the list of models, and the
  right one is asked all the same; there is none only in the warm-up and in a window of
  which no column had enough rows.
* `ColumnsAreMaximal`: a window is trained on all rows that are complete for its columns,
  enough of them, and on as many columns as that allows; without a model it has none.

`PriceHistory`

* `ReturnsAreEarned`: momentum, daily returns and labels are what a holder earned, asked
  for at any time, *if* since the last payout before a download one run reached back over
  the whole window, or, for Webull, if no payout fell into it; and if the bars are final:
  the last stored download that covers a day was made after its close (`Final`). `Base`
  and `Comparable` are these conditions, in terms of what was run; they say when the table may be
  trusted. Without `Final` TLC refutes both properties.
* `YieldIsRebased`: a ratio of a figure to a past market value is the ratio of that day
  times the payouts between that day and the download: never less, more with every payout.

`ReferenceData`

* `RefreshIsTold`: what a refresh reports it has done, and what it has done without
  reporting is explained by one of four failures.
* `RefreshCatchesUp`: after a successful refresh every known ticker on its list has the
  provider's name, except those that the provider renamed after their look-up and those
  that somebody else overwrote after they were read: whoever wrote before that does no
  harm, since the UPDATE is decided by what was read.
* `UniverseIsAsSeeded`: the universe of a date is that of the last file, however many
  editions were loaded before, if none corrects a start date.

`PriceIngestion`, `DbValidation`

* `NoHoles`: when runs are no further apart than the lookback and commit in the order of
  their windows, every past session has its final bar, although runs store unfinished
  bars and some fail.
* `SummaryIsTrue`: a summary never counts rows that were not stored, and, when no ticker
  is listed twice and no failure is half known, counts all of them; a batch that raises
  has then stored nothing.
* `WritesAreRecorded`: commits and successful lineage rows explain each other, or one of
  four failures explains the difference.
* `DownloadEnds`: Webull's paging ends even if the service repeats itself. That a batch
  ends is not a liveness property here, which would cost more than it shows: every step
  but the clock's is progress, and a state where a batch can do nothing is a deadlock,
  which the run checks.
* `NoAlarm`: the validation finds an error only where a check raised.
* `CleanBillHolds`: a verdict of success is true although it was put together from
  several states of the table.

## 5. Proofs

`JobLifecycleProofs` proves, for every set of requests, strategies and workers, every
set of faults and every bound on them:

* `TypeCorrect`: `Spec => []TypeOK`;
* `InvariantHolds`: `Spec => []JobInv`;
* `DeliveredRowExists`, `NothingLostSilently`, `CompletedIsServed`: the three safety
  properties of run `JobFaults`.

The only assumption is `Assumption` of `JobLifecycle`: `StrategyOf` is a function into
the strategies, `NoJob` is not a request, the faults are among the seven.

The properties are not inductive. `JobInv` adds what keeps them: `SingleCopy` (an id is
pushed once and is in one place at most), `HandlerView` and `HorseView` (what the row of
a job can say while its handler or its horse is at each line, and how the row loaded
earlier relates to the row now in the table), and `CompletedHasResult`. `HorseView` is
the heart: since only the enqueue error of the handler writes beside the horse, and it
writes only `failed`, a horse at `save_completed` finds `running` or `failed`, loaded
the one or the other, and whatever columns its UPDATE names, the status it leaves is
never `completed` without a result. The proof has one lemma per kind of step: moves of
the handler that leave the queue alone, the push, the pop, the horse's steps, its
faults, the crash, the page.

The second part of `JobLifecycleProofs` rests on `JobInv` and proves

* `NothingRunsTwice`: `Spec => NoRerun`, under every fault. Only `_mark_running` sets
  `running` (`WhoRuns`), and a horse that is about to finds a row that is queued, or
  failed by its own enqueue error (`HorseView`);
* under `FaultsAreWhole` (no `reply_lost`, `commit_unknown` or `timeout`):
  `RowsHaveOneWriter` (`OneWriter` is inductive beside `JobInv`: an enqueue that raised
  has pushed nothing, so what the handler or the horse loaded is still the row),
  `JobsKeepThePromise` (the refinement: each of the five commits that write a row is one
  action of `JobPromise`, and every other step a stutter), and from its step lemma
  `PageStaysRight` and `NoResultOfAFailure`.

The hypothesis is needed: a lost enqueue reply breaks the promise by itself (section 6), and
so does an alarm, or a commit of unknown outcome, that comes after `_mark_completed`.

`PitStoreProofs` proves, for every set of quarters, every lag, delay and bound, and any
number of overlapping runs, from `PitAssumption` (dates and bounds are naturals, the sum
has at least one period):

* `StoreIsSound`: `Spec => [](TypeOK /\ PitInv)`. `PitInv` says of each row in the table
  *and* of each row fetched and not yet stored that it is `Sound`: its reported date is
  the period end and the lag, is not after today, and the report came out in time.
  Fetched rows are part of it because a run stores what it fetched on an earlier day.
  It also says that a run fetches a key once, which keeps the primary key, and
  that lineage or `unrecorded` explains the table, whichever of its three ways an upsert goes;
* `StoreTypes`, `NothingOfTheFuture`, `TableIsExplained`: consequences of it;
* `NoQueryLooksAhead`: with `Delay <= Lag`, no snapshot and no trailing sum of any day
  uses a report that was not out on that day;
* `FiguresGoForward`, with `ForwardInv`: a run that nobody overtook holds, for each key it
  shares with the table, an edition no older than the table's, and no row is of an edition
  that is not out. The provider shows the last edition, of either statement, so that a
  fetch establishes it; a commit of another run makes those that have fetched `overtaken`.

`DbValidationProofs` proves, for any number of batches, tasks, threads, tickers and pages,
both providers and every failure, from `PriceAssumption` and `ValidationAssumption` (bounds
are naturals, a page, the threads and the attempts are at least one, lists are of tickers,
members are known tickers). Its specification is that of
the flows with a validation beside them; to the flows a step of the validation is a
stutter that may count a failure of its own (`Beside`). The lemmas
about the flows come first, one invariant on top of another:

* `FlowsAreTyped`, from `FlowInv`: types, one task for each ticker of a running batch, and
  of a task what its line in the code says: no rows before the commit, a status after it,
  one bar of a day in a frame, and as many pages as there are days in `seen`;
* `DownloadsEnd`: the stamps in `seen` are days and each is counted once, so that the pages
  are at most the days, whatever Webull sends;
* `EveryWriteIsRecorded` and `SummariesAreTrue`, from `BooksInv`. Between the commit and
  the lineage row only the task knows what was stored, and a batch sums rows by ticker and
  not by commit. So the invariant holds them to each other in both directions: each commit
  has its lineage row or one to come, and each lineage row with rows its commit
  (`Accounted`, `Entered`), a task has one commit at most and knows its rows unless a
  failure keeps them from it (`Tracked`), a task that counts rows has stored them
  (`Counted`), and a batch that has not begun has stored nothing (`Blank`). The sum over
  tickers is at most the one over commits because the tasks of a summary are different
  ones (`SumInjected`), and equals it when no ticker is listed twice;
* `OverlapLeavesNoHoles`, from `WindowInv`. `NoHoles` is about what runs together have left
  in the table; the invariant adds what one task holds before it commits: a frame
  of yfinance has every session of its window, and a download of Webull every session from
  the day it will ask about next. A commit then fills the days from its window's start,
  the earlier ones have final bars from the run before, and the last day of that run, whose
  bar may be of an unfinished session, is inside the window of this one;
* `TheFlowsGiveNoAlarm`. A check finds nothing because of what the table holds, and what
  enters the table was validated by a step of another day. So `AlarmInv` says three
  things: rows are of known tickers and of no future day, which a growing clock preserves;
  a frame about to be upserted has no bar of the future, which only `Validate` can bring
  about; and errors are checks that raised;
* `CleanBillIsTrue`: rows are replaced by rows of the same ticker and day and never
  deleted, so that what a check has found in its own transaction is still there when the
  last one ends (`CleanInv`).

`OverlapLeavesNoHoles` has one hypothesis, `FewSilentDays`: the days on which a Webull that
heeds `end_time` has no close are fewer than a page. It is needed: a page none of whose bars
is complete ends the download as if the listing began there (section 6), and TLC finds the hole
with pages of one bar. The code asks for pages of 1200 bars
(`azureus/data/sources/webull_source.py:22`); `MCIngestion` asserts the hypothesis of its
constants.

`BacktestProofs` proves, for any calendar, schedule, universe, prices and rates, and for
all three kinds of strategy, from `EngineAssumption`, `StrategyAssumption` and
`CalendarAssumption` (dates, money and rates are naturals, sessions after date 0, members
are tickers, a bar has a close above 0):

* `BaseHolds`: `Spec => []BaseInv`. The engine's properties speak of the end of a day, so
  the invariant says where a day is: the clock stands at an open day of the window
  (`ClockInv`), after the marking each position has a close of that day and is marked at
  it (`MarkedInv`), there is one trade at most to come for a ticker, and it has a close
  (`PendingInv`), and no row or trade is of a later day (`TablesInv`). With it go
  `TypeCorrect` and `CurveComplete`, which is inductive beside these;
* `EquityExplained`, `RowsAreMarked`, `NothingElseIsLost`: to the books a step is one of
  three, a trade, a row, or neither (`StepKinds`), and a trade adds its own cash flow and
  shares to the sums of its day and to no sum of an earlier row;
* `OverdraftIsOfCosts`, with `CoveredInv`: in the midst of the trades the cash may be
  anything, but the cash less what the trades to come will take (`Due`) covers the costs
  so far. A rebalance establishes it, since target shares are rounded down;
* `NothingIsShorted`, with `LongInv`: no trade to come would leave a position below zero
  (`AllLong`), or the portfolio was worth less than nothing before the day's trades were
  charged (`Broke`). For all three kinds of strategy and without a hypothesis: a rebalance of
  a value that is not negative asks for no negative target, and the trades of the day take
  only their costs from the value, which `Broke` adds back;
* `FrozenStays`: the value the weights are multiplied with is the value they were taken
  from, so that a frozen ticker's target is its position;
* `DrawdownIsDeepest`: a statement about sequences of rows, proved from types alone. `NoDebt`
  in the property is needed for comparing quotients by products, and the ratio to a peak
  that is not above zero means nothing.

`ReferenceDataProofs` proves, for any number of tickers, *overlapping* refreshes, loads,
renames and failures, from `ReferenceAssumption` (the files are well formed: one row per
key, no membership that ends before it starts):

* `RefInvHolds`: `Spec => []RefInv`. The properties speak of refreshes that have ended;
  `RefInv` says the same of those on their way: the counters are those of the commits
  (`IsCounted`), a lineage row is of a refresh that returned (`IsTold`), the tickers
  that are done have the provider's names unless they are among `renamed` or `overwritten`,
  and of the ticker at hand the table has the name that was loaded or the one that was found,
  unless it was overwritten (`IsUpToDate`);
* `RefTypeCorrect`, `RefreshTold`, `RefreshCaughtUp`, `UniverseSeeded`: consequences of it.
  The run has one refresh, the theorems any number.

`WalkForwardProofs` proves, for any calendar, lengths, features and samples, from
`CalendarAssumption` and `WalkForwardAssumption` (months start in order, last as long as
they are asked for, and every period is at least one of them; tickers and features are
finitely many):

* `WInvHolds`: `Spec => []WInv`: the windows so far cover the days from the warm-up to
  `from` and each trains until the day before it (`WindowsInv`), samples are of dates that
  are done with (`DatesInv`), each model is a maximal choice of columns for the rows of
  its window, and windows without one had no candidate (`ModelsInv`);
* `WalkForwardTypes`, `WindowsDoTile`, `ModelsAreOutOfSample`;
* `ColumnsAreChosen`: the greedy choice passes over a column once, beside fewer columns
  than in the end; more columns leave fewer rows, so it would be passed over again;
* `AnswersAreOfTheirWindow`: models are in the order of their windows, and windows tile the
  days, so that the model found by its window's dates is the one of the date asked about
  (`ModelForIs`);
* `RowsAreTestedOnce`: that folds partition the sorted rows is arithmetic of quotients and
  remainders.

`FactorProofs` has two parts. The first is about `Selection` and proves, for any finite
number of tickers, any sectors, features, factors and number of places, from
`SelectionAssumption` (tickers are numbers, questions are well formed, `Parts` is a common
multiple of the sizes a sector can have, so that percentile ranks are whole numbers of
parts):

* `Proportional`. An answer is the weights of one of the lists that `Selections` allows
  (`AnswersSelect`, a lemma), so that all three theorems are about lists. The fractions of
  the sectors add up to `Remainder` times the number of candidates, and each is less than
  that number. So the remaining places are no more than the sectors that have a fraction,
  each of these has a candidate left, and a sector without a fraction is never favoured
  before them: a quota is its share rounded down or up. The quotas add up to the number of
  places, so that the last loop of `_sector_quotas` and the filler have nothing to do.
  Both are in the model, and that they are idle is part of the proof;
* `NoneLeftOut` and `BetterGets`: whoever is before one of the best of a set is one of
  them. A ticker that is no worse in any feature that counts and better in one has percentile
  ranks of that kind among its peers (`BetterScores`), and factors below zero are excluded;
  so it has the higher score, comes first, and has the higher rank of weights.

The second is about `PriceHistory` and proves, for any market, any number of runs of any
lookbacks, committed in any order, and both providers, from `HistoryAssumption` (closes,
the figure, the number of shares and the horizon are above zero, the momentum skips no more
observations than it requires):

* `HistoryHolds`: `Spec => []HistInv`, which also holds in all states of the run `Prices`
  (TLC, before the proof). The properties relate the table to the windows that were
  stored, and no step preserves that by itself: a run stores what it downloaded on an
  earlier day, after runs that began later. So the invariant says of a frame on its way
  that it has the bars of its window as of the day of its download and of its hour, before
  the close or after it (`FramesAreBars`), of the stored windows that they are of the past
  (`LoadsArePast`), of each row that it is the bar of the last stored window that covers
  its day, unfinished if that was downloaded during its session (`RowsAreLatest`), and of
  each traded day of such a window that it has a row (`NoneIsMissing`). `HistoryTyped` is
  a consequence;
* `Earns`: the rows of a range and its traded days are one to one, so that the n-th row is
  of the n-th day (`NthRowIs`). When the range is comparable, all its bars are final and
  its prices in one unit, worth of a day over the holding of one day of download
  (`ComparablePrices`), which a ratio of two of them does not have any more;
* `Rebases`: the same for a single price, where the unit stays.

Of the library's induction theorems none can be used (they have an operator as
parameter). Where a proof needs induction, `SumTheorems` does it by a smallest
counterexample, with the library's `WFMin` for sets and numbers, and gets a recursive
function from the finite ones that agree with it (`RecursionExists`). Sums over sets,
the greedy choice of columns and ranks rest on these.

Every invariant and every action property that a passing run checks is stated by one of
these theorems. Only model-checked are `AcceptedSettles` and `EveryRequestAnswered`, since
liveness is out of the prover's reach, as is ENABLED; and the runs of section 6 show by
a behaviour that something can happen, which is nothing to prove.

## 6. Where code and words differ

Shown by a run:

* `JobEnsureRace`: two first requests of a strategy; one is answered 500
  (`azureus/api/queries/backtests.py:22`).
* `BacktestSuspended`: a factor strategy sells or buys a name that has no volume, and the
  engine ends the backtest, although the filter is said to exclude it
  (`azureus/strategies/multi_factor_v1.py:154`). The filter drops the days without volume
  before it asks for five of them and for their median, the engine takes the median of
  all days; and a held name that drops out of the targets is to be sold.
* `PitTtm`: a trailing-twelve-month sum may contain a full year among its quarters
  (`azureus/features/fundamentals/financial.py:229`).

Met while modelling, without a run of their own:

* The API dies between the commit and the push: the row stays `queued`, nothing looks
  for such rows, and the page says "Waiting for an RQ worker to pick up this job."
  (`azureus/api/services/backtests.py:98`, `frontend/src/pages/BacktestResultPage.tsx:46`).
  `NoSilentLoss` names it as one of its three explanations.
* A frozen position gets a trade of one float bit, and the engine cannot price it
  (`azureus/backtesting/engine.py:272`; `docs/PHASE_2_CHECKLIST.md:215`: "so the engine
  does not attempt impossible zero-MDV liquidations"). In the model this is `Dust`.
* After a payout the daily run, which looks back 30 days, replaces those rows by rows on
  the new base and leaves the older ones on the old: momentum and returns over that edge
  are wrong by the payout, until a run reaches back over the whole year
  (`azureus/pipelines/ingest_prices_free.py:97`, `azureus/features/market/price.py:155`).
  Drop the last conjunct of `Base` to see it. Webull's rows have no adjusted
  close, so that every payout is a loss in their returns.
* A market value of the past multiplies the shares of that day by a price that is
  adjusted for later payouts (`azureus/features/fundamentals/financial.py:257`):
  `YieldIsRebased` says by how much.
* The engine marks and trades at raw closes and credits no dividends
  (`azureus/backtesting/engine.py`), so that the benchmark loses every payout;
  `docs/ARCHITECTURE.md:324` says that corporate actions are "Sidestepped via adjusted
  close", and `azureus/data/sources/README.md:93` "Use `adjusted_close` for any
  return-based calculation."
* The made-up reporting lag is 90 days (`azureus/data/sources/yfinance_source.py:218`) and
  60 in `docs/ARCHITECTURE.md:321`.
* A corrected start date in `hsi_members.csv` leaves the old row beside the new one, so
  that the member is in the universe of dates it was to be taken from
  (`scripts/seed_universe.py:88`). `UniverseIsAsSeeded` excludes it (`Regular`).
* Loading `tickers.csv` puts its own names over the refreshed ones
  (`scripts/seed_tickers.py:35`).
* Whether a feature varies is judged on all rows of a window, not on those that are left
  after the other columns were chosen (`azureus/strategies/gbm_factors_v1.py:340`): a
  column of the model may be constant.

* A restatement overwrites the row it restates, and so does an annual figure whose
  quarter has left the quarterly statement: `reported_date` is the period end and 90
  days, so that the primary key is the same
  (`azureus/pipelines/ingest_fundamentals_free.py:60`). `azureus/data/models.py:117` says
  that "restatements are preserved as separate rows".
* `liquidity_threshold_usd` is compared with a turnover in Hong Kong dollars
  (`azureus/strategies/multi_factor_v1.py:161`, `gbm_factors_v1.py:276`).
* The drawdown starts at the first snapshot: a loss of the first day against the initial
  cash is in `daily_return` but not in `max_drawdown` (`azureus/backtesting/results.py:151`).
  Its peak is the first of several equal ones, so that its days may include an earlier
  fall that was already made good (`azureus/backtesting/metrics.py:152`).
* `avg_holdings` is the mean over the days with a holding, not over all days
  (`azureus/backtesting/results.py:160`).
* A ticker that is alone in its sector has percentile rank 1, so that under
  `score_weighted` small sectors weigh more (`azureus/features/scoring.py:59`).
* Training rows are chosen by their sample date, but their labels are returns up to 21
  sessions later: a row of 30 December is labelled with a close of early February, and
  the model of the window that starts on 1 January is asked as of 31 January
  (`azureus/strategies/gbm_factors_v1.py:111`).
* `_ingest_one_ticker` "NEVER raises" and "Always writes one `ingestion_runs` row"
  (`azureus/pipelines/ingest_prices_free.py:91`), but `capture_reproducibility()` is
  called in the finally clause: when it raises, there is no row, and the batch counts
  as failed a ticker whose bars are stored.
* A ticker listed twice in `--tickers` has one result: a batch may raise although one of
  its attempts succeeded, and `tickers_total` of the yfinance batch is not the sum of
  its successes and failures (`azureus/pipelines/ingest_prices_batch.py:94`, 123).
* A run during a session stores the price of the moment as that day's close
  (`azureus/pipelines/ingest_prices_free.py:97`), and until a later run covers the day the
  last return and the latest price are of that moment; `ReturnsAreEarned` and
  `YieldIsRebased` therefore ask for final bars.
* A run that commits late may put back the unfinished bar of a session over the final
  one (`azureus/pipelines/ingest_prices_free.py:83`); the next run within the lookback
  repairs it.
* A page of Webull none of whose bars is complete ends the download as if history ended
  there (`azureus/data/sources/webull_source.py:107`); with pages of the default size no
  ticker is silent that long.
* The ticker refresh ends without its lineage row when the database fails half-way
  (`azureus/pipelines/ingest_tickers_free.py:90`; its docstring, line 56, says one row
  per invocation). `RefreshIsTold` lists it.
* RQ's alarm after the commit of `_mark_completed` leaves a `failed` job with a result
  (`azureus/worker/tasks.py:28`; `tests/test_worker_tasks.py:243` asserts that a failed
  job has none). Add `"timeout"` to `Faults` of `JobPromise.cfg`, and
  `INVARIANT FailedHasNoResult`, to see it.
* A lost reply of the push lets a `failed` job run and complete after the page stopped
  polling (`azureus/api/services/backtests.py:100`), and its error message stays on the
  completed row, because None replaces None (`azureus/worker/tasks.py:102`).
* The strategy's volume window ends at the signal date and starts 45 days before it; the
  engine's starts 45 days before the fill date (`azureus/strategies/benchmark.py:77`,
  `azureus/backtesting/engine.py:221`): a ticker at the edge is tradable for the one and
  not for the other.
* The long-only portfolio may overdraw by its costs; `OverdraftIsCosts` bounds it. Should
  its value fall below zero, the next rebalance multiplies the weights by it
  (`azureus/backtesting/engine.py:272`), and a strategy that is long-only, the benchmark
  among them, ends in `LongOnlyError`. `NeverShort` says that nothing else brings it there.
* `AuditingDataSource` audits snapshot queries against the date the caller passes, not
  against the simulation date, and not prices or histories
  (`azureus/data/sources/auditing.py:77`).
* The purge of a fold holds training rows against the test fold's dates; rows after the
  embargo may start before the last test label has ended
  (`azureus/models/cv/purged_kfold.py:37`); its docstring, line 22, promises "no
  forward-label overlap".
* A lineage row that cannot be written is only logged
  (`azureus/pipelines/ingest_fundamentals_free.py:229`); and when the commit of the rows
  is applied but raises in the client, the run is on record as failed with 0 rows although
  they are in the table (line 81).
* A window without a model answers with no weights, and the engine sells everything
  (`azureus/strategies/gbm_factors_v1.py:188`).

## 7. Plan

Done, with their proofs: the job life cycle, the engine with its strategies and the
drawdown, the point-in-time store, the price flows and the database validation, adjusted
prices and the features that read them, selection, reference data, walk-forward training
with the choice of columns.

Worth doing next: the hazards without a property (`PROJECT.json`). Most of them are what the
code does today, so that a property that forbids them is false of it, and they wait for a
change of the code: a store that keeps restated figures, a purge by the ends of the labels
(before each window, and in the folds), no trade of a float bit, a lineage row of every
refresh. Which rebalance dates may be rolled away is a question for the documents first.

Not planned, and why: LightGBM, the standard deviation, beta and the statistics of a
result other than the drawdown (real numbers, no protocol), read-only endpoints,
migrations, configuration and audit scripts (pure I/O), the charts of the frontend
(layout).

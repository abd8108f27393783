# CrowdSignal backend: specifications, model checks and proofs

TLA+ specifications of the Django/Celery backend in `src/`, the TLC
configurations that model-check them on small instances, and TLAPS proofs of
what matters most for every instance. Paths below are relative to `src/`.

Run TLC with `tlc -workers 2 -config X.cfg MCModule.tla`, the prover with
`tlapm XProofs.tla`. `PROJECT.json` maps every definition to the lines it
models, lists the runs, the hazards and the theorems, and has for each checked
property a *mutant*: an operator next to the original that changes it as a
plausible bug would, under which TLC finds the property violated.

## 1. The system

Posts about stock tickers come in from social feeds and a news WebSocket, are
scored for sentiment and aggregated into a BUY/SELL/HOLD signal per ticker.
Signals are stored, logged, turned into alerts, run through users' strategy
rules and later compared with the market. Prices come from a market WebSocket,
for the charts that are open, and from the exchange's REST interface. Users
trade a simulated portfolio against them, and read reports, exports and
forecasts of all of it.

The processes are: web workers (ASGI: REST views and WebSocket consumers),
Celery workers and beat, a news stream daemon and a market stream daemon. They
share one PostgreSQL database (`ATOMIC_REQUESTS` is off, so outside an explicit
`transaction.atomic` every query commits by itself, at READ COMMITTED), a Django
cache (Redis if `REDIS_CACHE_URL` is set, otherwise the memory of each process)
and a Redis event bus that nothing in the repository reads. The only locks are
`select_for_update` in the orders and in storing a trade, one cache key, one
thread lock and the unique indexes. That is where the hard behaviour is: what
one process has read is used after others have written.

### Inventory

| component | state | operations | hard behaviour | what makes it correct |
|---|---|---|---|---|
| Portfolio trading (`apps/portfolio`) | Portfolio.cash, Position, Trade | buy, sell | concurrent orders of a user, a price read before the lock, rounding between 4 and 2 decimals, tickers deleted meanwhile | the books balance, nobody goes short or into debt, a fill is atomic |
| Schedule and lock (`apps/pipeline/tasks.py`, settings, `setup_schedule`) | beat entries, broker queue, cache key | publish, expire, run, skip | runs longer than the lock, dying workers, two beat entries, per-process caches | no overlap; the pipeline never stays blocked |
| Ticker pipeline, signal engine, alerts (`apps/pipeline/pipeline.py`, `apps/signals`) | SocialPost, SignalSnapshot, DecisionLog, ManipulationFlag, AlertFlag | fetch, score, compute, log, flag, alert | the periodic task and the news stream run one ticker at once; every query sees another database; crashes | posts get scored, decisions and flags are explained, alerts with a cooldown are bounded |
| Fetchers, cleaner, feeds (`apps/social`) | SocialPost; a run's cursor, page and attempt | fetch with retries and paging, store, list | any request may fail at any point; state is reset at different points | nothing read is lost, nothing is skipped, runs end unless a server keeps them, feeds keep their shares |
| News stream (`apps/social/news_stream.py`) | posts | store a story, run the pipeline for each symbol | redelivery, no lock, a run that raises | as above |
| Accuracy evaluation (`apps/signals/tasks.py`) | SignalAccuracy | hourly evaluation | overlapping runs, prices that arrive late, one-to-one key | every signal is judged once, by prices that do not change any more |
| Market stream and charts (`apps/market/alpaca_stream.py`, `consumers.py`) | ActiveMarketSubscription; symbols in memory | connect, heartbeat, expire, stream, monitor | threads, a loop and sockets share state; a monitor outlives its stream; calls fail half way; heartbeats are late | open charts keep their row and are streamed |
| Price store (`apps/market/alpaca_stream.py`, `views.py`, commands) | PriceSnapshot, TradeTick | fold trades into bars, quote, backfill, purge | several daemons write one bar; no unique key; seeded rows | no update is lost, bars account for trades, quotes are the newest |
| Strategies (`apps/strategies`) | rules, conditions, actions, executions | create, edit, toggle, delete; evaluate an event | edits row by row outside a transaction, beside each other and while events read; conditions that raise | no edit is lost; a rule acts only as the conditions it read say; none is skipped silently |
| Indicators and conditions (`apps/market/indicators.py`, `apps/strategies/engine.py`) | none | pure functions of stored rows | short series, equal prices, no losses, None | stay where their definitions put them |
| Pump detector, mood, memory (`apps/intelligence`) | ManipulationFlag, MarketMood | compute, insert | volumes that do not vary | more evidence never clears a suspicion |
| Analytics and forecasts (`apps/analytics`) | BacktestRun, forecast cache, model in memory | statistics, backtests, forecasts | prices end before signals; a model loaded lazily by concurrent threads | reports reconcile; one load; every forecast is answered |
| Data export (`apps/export`) | none | sections of stored rows | one query per section while the pipeline writes | no effect without its cause |
| Retraining (`apps/intelligence/retrainer.py`, `tasks.py`) | RetrainLog | check, train | cooldown checked then stored; trainers that die | at most one retraining per cooldown |
| ML predictor, sentiment scorer | files, models | predict, score | failures inside one call | outside a specification: their results are choices |
| Watchlist, signal/alert views, accounts, event bus, settings, seeding | rows edited by their owner, or nothing | CRUD, queries, pushes | little | library guarantees |

Interactions: beat → pipeline task → ticker pipeline → (fetchers, strategies,
alerts → strategies, detector, event bus, socket pushes); news stream → ticker
pipeline; signals → accuracy evaluation → retraining; consumers → subscription
rows → market stream → price store → (orders, accuracy evaluation, indicators,
conditions, detector, reports).

## 2. Modules

| module | models | proofs |
|---|---|---|
| `Money` | fixed-point amounts: cents in `cash`, ten-thousandths in prices, PostgreSQL's rounding | in `PortfolioProofs` |
| `Accounts` | what trading promises: atomic fills of an account, without requests, locks or transactions | |
| `Portfolio` | `BuyView`/`SellView` of concurrent requests; refines `Accounts` | `PortfolioProofs` |
| `PipelineSchedule` | beat, message expiry, the cache lock of `run_pipeline` | `PipelineScheduleProofs` |
| `TickerPipeline` | `run_pipeline_for_ticker`, `compute_signal`, `check_and_create_alert`, the news stream | `TickerPipelineProofs` |
| `Ingestion` | the fetchers of one run, the stories of the news stream, the feeds | `IngestionProofs` |
| `Accuracy` | `evaluate_signal_accuracy` and the prices it reads | `AccuracyProofs` |
| `MarketStream` | `MarketConsumer` and `AlpacaStreamManager.run`; extended together with `PriceStore` by their proofs, hence its `StreamSpec` and `StreamTypeOK` | `MarketProofs` |
| `PriceStore` | `_store_trade_and_bar`, quotes, charts and price commands | `MarketProofs` |
| `Fractions`, `Indicators`, `Conditions`, `Detector` | exact arithmetic; the indicators; the context and the comparison of strategy conditions; the suspicion of a pump: functions that `PriceStore` evaluates on its rows | |
| `Strategies` | strategy views and serializers, `evaluate_strategies_for_event` | `StrategiesProofs` |
| `Analytics` | movers, leaderboard, correlation, sectors, heatmap, breadth, `run_backtest` as functions of rows | |
| `Reports` | exports, backtests and forecasts by requests, while pipelines write; extends `Analytics` | `ReportsProofs` |

Each `MC…` module gives a component's constants their values for TLC.

A step of a model is one query, one transaction or one external call of the
code, because between any two of those every other process may run. What a
request has read is kept in per-request variables (`seen`, `batch`, `measured`,
`active`, `read`, `found`, `draft`…), and that is where staleness can show.

**Portfolio.** `Quote` is everything before the transaction: validation, the
latest price, the limit check. `LockPortfolio` is `get_or_create` with
`select_for_update`; `LoadPosition` the position row and the funds check;
`Commit` writes position, cash and trade at once, since READ COMMITTED shows
them at commit. `RejectOrder` and `RejectFill` are the early returns, `RollBack`
and `Crash` what PostgreSQL does with an exception or a lost connection,
`PublishPrice` and `DestroyTicker` the market and the ticker endpoint meanwhile.

**PipelineSchedule.** A Tick is a minute. `Beat` publishes; a worker
receives a message and starts (`Start`), skips because `cache.add` failed (`Skip`)
or discards it as expired (`Discard`); a run lists the
symbols (before the `try`), goes through them and deletes the key in its
`finally`, whoever holds it. `Crash` kills a worker, `KeyExpires` is the lock's
timeout. `CacheOf` says which cache a process uses.

**TickerPipeline.** A Tick is half an hour, the posts window; ages stop counting
where the code stops telling them apart, so that the number of runs needs no
bound. `BeginPeriodic`/`DeliverStory` start a run, `StorePost` the fetch,
`LoadUnscored`/`ScoreBatch`/`ScoringFails` the scoring, `CountPosts` and
`ReadPosts` the two queries of `compute_signal`, `CreateSnapshot`,
`EvaluateStrategies`, `LogDecision`, `DetectPump`, `RaisePump`, `CheckAlert`,
`CreateAlert` the rest in order. The detector stores a ManipulationFlag
(`DetectPump`), and the pipeline then an alert of type `pump_suspected` for it,
with no look at earlier ones (`RaisePump`), or fails to and goes on
(`RaisingFails`). `alerts` holds the other three types (`CooledTypes`), which
`check_and_create_alert` gives and which have a cooldown. What aggregation yields is any
of `Readings`; the hype dampener, the
consistency rule and the alert thresholds are arithmetic on it. The news stream
is one more process, which takes no lock.

**Ingestion** looks into the one step that the fetch is in `TickerPipeline`. A run goes
through Reddit (`AskToken`: OAuth, the public pages, or nothing) and the other
sources. Each request is answered (`Served`), retried after a pause (`Retry`,
`Waited`), given up (`GiveUp`) or ends its fetcher with an exception (`Raise`); `NextPlace` is the
end of one subreddit's pages. A pause is one of its own, or one that the server has
told it to make by `Retry-After`, of any length (stage `told`). The RSS
sources and Alpaca's news are asked without a timeout (`Untimed`). In these two
places a server may keep the process for ever (`AtMercy`). `StorePost` is `get_or_create` of one post,
`NextSource` the loop over the fetchers. `HandleNews`/`TakeSymbol` store a story
symbol by symbol and start a run for each. `LimitedFeed` and `DiversifiedFeed`
are the lists of the feed view, as functions of the stored rows.

**Accuracy.** `Begin` lists the due signals once, `Measure` reads the prices of
one (`Read`), `StoreRecord` stores its record, `RefuseRecord` is the unique key.
Prices arrive meanwhile as `PriceStore` has them: a `Trade` opens or revises a bar
of the running tick or of the last one, `StoreBar` adds the exchange's last bar
again and, while a chart that found no price fills in the past (`BeginFill`,
`EndFill`), any earlier one. Rows with one timestamp are unordered, so a query
gives any of them (`PricesNear`). `settled` is a history variable: the signals
whose first hour was judged on bars that had ended. The three prices of a signal
are read in one step, a bar is stored in the tick it was fetched in, and seeded
prices, which `purge_seed_prices` deletes, are left out.

**MarketStream.** `Connect`, `Register` (in a thread), `Heartbeat`,
`Disconnect`, `Unregister`, `Cancel` and `Vanish` are a chart's socket; `Poll`,
`Start`, `StreamEnds`, `WakeUp` the daemon's loop; `Check`, `Read`, `Apply` or
`ApplyFails`, `Assign` one round of a monitor thread. The loop does not join
it: a stream ends, and the next one starts with a monitor of its own while the
old one is still in its round. Both then go on with the same `subscribed`, `stream` and
`stop_monitor`, which the loop has rebound, so the old one need not end at
all. `Overlapping` names that. Deleting expired rows is
part of reading the active ones (`get_active_symbols`), as in the code.

**PriceStore.** A daemon stores a trade in one transaction with two visible
moments: the locking read of the minute's bar (`ReadBar`, which waits for a
daemon that holds the row and locks nothing if there is none) and the commit of
tick and bar (`StoreTrade`); `PushBar` follows. `TradeFails` is an exception or
the end of the process at any point. Requests read and then write: `AskQuote`,
then `ServeFound` or `FetchLatest`; `AskHistory`, then `CheckBar` and `CreateBar`
for each bar. `FetchLatestPrices` and `PurgeSeedPrices` are commands, `Minute`
the clock and the exchange. The bar's existence is not enforced by a key, so
several bars of one minute are reachable, as in the code.

**Strategies.** POST/PATCH are `Validate`, `SaveRule`, `ClearConditions`,
`CreateCondition`…, `ClearActions`, `CreateAction`…; the toggle endpoint is
`LoadRule`, `CheckRule`, `SaveActive`; `Delete` cascades. An event reads rules,
conditions and actions with three queries, then evaluates rule by rule
(`EvaluateRule`), from left to right and without precedence (`Matches`). A
condition that cannot be compared (`raises`: the serializer accepts a value of nan,
and Decimal refuses to order it) or an action that raises makes an execution
with `success` = FALSE and no actions, and the loop goes on; a rule that is gone
ends it (`EvaluationFails`). Whether one condition holds is a given there, and
worked out in `Conditions` for values that can be compared.

**Reports.** `StampSignal`/`InsertSignal`, `StampAlert`/`InsertAlert` are the
pipeline as reports see it: `created_at` is taken before the row is inserted. An
ticker export is asked for a window that ends at any date, also one after the request.
It reads its sections with `ExportSignals` and `ExportAlerts`; a backtest its
signals and then its prices; a forecast goes through the cache, the unlocked and
the locked check (`HasModel`, `WantModel`, `TakeLock`), `Load` or `LoadFails`,
`Infer` or `InferenceFails`.

Floats are exact fractions; where the code takes a root (standard deviations),
the square is kept, with a sign where the root had one.

## 3. Runs

| run | question | states | result |
|---|---|---|---|
| `portfolio` | Do the books balance, is each transaction isolated, do the endpoints implement atomic fills, is every order answered? | three requests, two users | passes |
| `pipeline_schedule` | With runs shorter than the lock timeout and one cache: no overlap, and never blocked? | 2 workers, 2 entries | passes |
| `pipeline_overlap` | Can a run last longer than its lock? | runs up to 20 minutes | **violated** |
| `ticker_pipeline` | Windows, audit trail of signals and flags, cooldown, eventual scoring with two concurrent runs | about 1 530 000 | passes |
| `ingestion` | Is anything lost or passed over when requests fail, does every run end unless one server keeps it, do feeds keep their shares? | about 690 000 | passes |
| `accuracy` | Are verdicts final and is every signal judged? | about 710 000 | passes |
| `accuracy_24h` | Is a signal judged over 24 hours, as the README says? | | **violated** |
| `market_stream` | Do open charts keep their rows and get their trades, beside monitors of earlier streams? | about 910 000 | passes |
| `market_stream_late` | And with one late heartbeat? | | **violated** |
| `price_store` | Are bars what the trades make them, quotes the newest, indicators sound? | about 1 310 000 | passes |
| `strategies` | Are edits kept that are written beside each other, and is any rule passed over meanwhile? | about 3 300 000 | passes |
| `reports` | Do reports agree with the rows they were made from, while these are written? | about 600 000 | passes |

### What the passing runs show

- *Trading.* Under any interleaving of three orders, price changes, deletion of
  the ticker, failures and rollbacks, what a transaction has loaded is what is
  committed when it writes (`TransactionIsolated`). So no fill is lost or doubled
  (`HoldingsMatchTrades`), cash is the starting cash less the trades to within
  half a cent per trade (`CashMatchesTrades`), nobody is
  short or in debt (`Solvent`), the average cost stays within the prices paid
  (`AvgPriceWithinPaid`), the endpoints refine `Accounts` (`AccountSpec`), and no
  path leaves a waiting order unanswered (`EveryOrderAnswered`).
- *Schedule.* If runs are shorter than the timeout and the cache is shared, no two
  runs overlap (`NoOverlap`), and after crashes, failures and skipped messages
  runs go on starting for ever (`KeepsRunning`).
- *Ticker pipeline.* Nothing leaves a run's window between its two queries
  (`CountedAreAggregated`); only crashes leave a snapshot without a decision log,
  and only crashes or an insert that fails a manipulation flag without its alert
  (`SnapshotsExplained`); the unlocked cooldown repeats an alert, but at most once
  per process (`AlertsBounded`, of the types that have a cooldown); every stored post is scored in the
  end, also when a story's run dies and its redelivery is a duplicate
  (`EveryPostScored`).
- *Ingestion.* Whatever requests fail, what was read and is worth it gets
  stored, and no page, subreddit or source is passed over without having been
  read, given up or raised for (`NothingSkipped`). Retries nest in pages, places,
  sources and stories, and still every run ends although servers may fail for
  ever (`RunsEnd`): only one that keeps a single request without a timeout, or a single
  pause it has asked for, for ever can keep the run; asking again and again cannot. The
  feeds keep their shares, list no irrelevant story,
  and leave out a post only for a limit (`FeedsBalanced`).
- *Accuracy.* A verdict on the first hour is one the complete price history
  gives, although it is taken while the window is still open, trades come late
  and bars are stored twice (`HourVerdictStands`). It is promised of signals whose
  window began with a bar older than the exchange's last when the prices were
  read, and not during a backfill; TLC refutes it with either condition dropped.
  Overlapping runs that end each
  other by the unique key still reach every signal (`EverySignalEvaluated`).
- *Market stream.* With heartbeats in time, no open chart loses its row
  (`OpenChartsKept`), and open charts are streamed again and again, also after a
  half-failed round, streams that end, and beside a monitor of an earlier stream
  once that has ended (`VisibleStreamed`; what may happen before is below, under
  "seen while modelling").
- *Price store.* The bar a daemon is about to write back is the stored one
  (`SeenIsCurrent`); the bars of a minute add up to its trades after any
  interleaving, failure or death, also when two daemons both inserted one
  (`BarsAddUp`); a quote is the newest live row there was, and stale only if the
  fetch failed or the market has nothing newer (`QuoteIsNewest`).
  `IndicatorsSound` evaluates the pure functions on every reachable set of rows:
  indicators keep their ranges and follow the trend; no operator of a condition
  holds of what could not be computed, and of two numbers the operators are
  consistent; a suspicion in calm sentiment comes only from a volume that few of the
  bars before had (none, in histories as short as those here), and follows volume,
  swing and consistency.
- *Strategies.* Edits of one rule delete and create its conditions row by row,
  beside each other and beside requests that leave conditions out: when all are
  answered, one of them has every condition that it gave (`EditsKept`). An
  evaluation without an error covers every rule it read unless the rule was deleted
  (`NoRuleSkipped`), also after conditions and actions that raise; a rule deleted
  meanwhile ends the evaluation with an error, it is not passed over. `TypeOK`
  includes the foreign keys. That a rule acts as the conditions an event has read
  say is proved (`ActsLeftToRight`) and not run: it is about the algorithm alone.
- *Reports.* A backtest reconciles with its trades (`BacktestReconciles`); the
  statistics agree with each other and with their definitions on every reachable
  set of rows (`StatisticsSound`); an export shows no alert without the signal it
  was raised on, unless that is outside the window or cut off, or the alert is
  younger than the request and the window still open
  (`ExportExplained`: it holds because the end of the window defaults to the time of the
  request; with a date after the request it holds of what there was at the request); the
  model is loaded once (`ModelLoadedOnce`) and every forecast is
  answered, also after failed loads (`ForecastsAnswered`).

### Disagreements between code and documents

1. **A run can outlive its lock** (`pipeline_overlap`). The lock lives 10
   minutes, runs have no limit and start every 15: a run of 15 minutes or more
   overlaps the next, and its `finally` deletes the other's key.
   `apps/pipeline/tasks.py:19` and `apps/pipeline/tests/test_beat_schedule.py:15`
   say runs do not overlap.
2. **No verdict over 24 hours** (`accuracy_24h`). Evaluation happens once, an hour
   after the signal, and the record is never updated. README.md:47 and the
   retrainer expect 24-hour verdicts.
3. **A late heartbeat closes the stream of an open chart for good**
   (`market_stream_late`). A heartbeat only updates an existing row.

Seen while modelling, not a matter for a run: `_get_price_near` is documented as
the closest price and returns the earliest in the window (`Accuracy` models
what it returns); without prices a record says FLAT, which
`train_signal_model.py:49` calls the observed direction; an edit activates a rule
without looking at what it already has, whereas `apps/strategies/views.py:45` says
an active rule needs a condition and an action (`Strategies` contains the
behaviour); README.md:135 says ingestion is every 2 minutes and
README.md:156, like the settings, 15; README.md:160 says
`CELERY_WORKER_MAX_TASKS_PER_CHILD` defaults to 1 and the settings say 50; a test
of the fetchers (`apps/social/tests/test_fetchers.py:98`) is named for a fetch that stops at a 429, and
the public pages of Reddit go on to the next subreddit
(`fetchers/reddit.py:126`).

Further behaviour that the models contain and a reader should know of:

- *Two monitors* (`MarketStream`). A monitor about to assign `subscribed` survives
  the end of its stream and the start of the next, and overwrites what the loop has
  set. From then on each of the two takes the other's symbols for
  streamed, and an open chart whose heartbeats all come may stay without trades as
  long as that stream runs. TLC shows it when `Overlapping` is left out of
  `VisibleStreamed`.
- *Alerts of type `pump_suspected`* have no cooldown: every run that suspects a
  pump stores one.
- *Edits of one rule* may mix: two requests that both delete first and then create
  leave the conditions of both. A rule deleted while it is edited comes back with
  `save()`, without what the edit leaves out.
- *An export whose window ends after the request* may show an alert without its
  signal, both stored between its two queries.
- *A server* that never answers `feedparser.parse` or the news client of Alpaca, or that
  sends a long `Retry-After`, keeps a run, and with it its worker.

## 4. Bounds and why they are enough

- `portfolio`: three requests of two users, one ticker, one or two shares, two
  prices off the whole cent so that every fill rounds, cash for two or three
  shares. Two requests of one user race for the last cash or share while a third
  belongs to another user; with three, a request can also wait behind two. No
  symmetry, since liveness is checked.
- `pipeline_schedule`: two workers, both kinds of entry, the real times in
  minutes (15, 1, 10), runs of up to `MaxRun` = 9. `MaxQueue` = 1 message per
  entry may wait: the properties concern whether any run starts, not how many.
  `pipeline_overlap` has `MaxRun` = 20, past the period.
- `ticker_pipeline`: one periodic and one streaming process, two posts, four
  readings (one for each branch of rule signal and alert), a cooldown of two
  half hours, one crash or alert that cannot be stored. A pump may be suspected from
  `PumpPosts` = 2 posts on, so runs with and without a suspicion meet. The theorems lift all of these.
- `ingestion`: one process, so that every path of one run is taken with every
  failure at every point; the rows it finds at the start stand for what others
  have stored. Two subreddits, two pages, one retry: one of each would hide what
  is reset between them. A feed takes four posts of eight candidates, two of a source
  and three of a ticker: each of the limits is met with fewer posts than there are.
  Two posts of one ticker have the same time, and a feed can end between them.
- `accuracy`: an hour is three ticks and a day six, with a tolerance of one: the
  windows are disjoint, as in the code. `MaxTime` = 4 covers the first hour's
  window to its end, 5 in the violation run reaches the 24-hour window. Three
  bars (`MaxBars`) are one near the signal and two near its hour, or two of one
  tick; the exchange has no bar of the last tick, so that its latest is stored
  again and traded in late while the window is open. Any number of runs die up to
  `LastCrash`.
- `market_stream`: two charts of two symbols, two monitors: one of an earlier stream
  beside the present one (with both at work a third stream has to wait until one
  has ended; nothing is promised at that time). Rows live one tick and
  charts are silent for one (`Lifetime` = `MaxSilence` = 1), so a heartbeat in time is
  one that comes before its row expires. `market_stream_late` has one monitor, rows
  that live two ticks and a chart that is silent for three: the late heartbeat alone
  is enough.
- `price_store`: two daemons, one reader, three trades of two prices and sizes,
  two minutes, at most four bars: enough for two bars of one minute, a late
  trade, a purge, and for every indicator to have a value with periods of two.
  Daemons are symmetric: nothing orders them, and only invariants are checked.
- `strategies`: two requests out of eight kinds of wish and one event; two stored
  rules and a new one; lists whose prefixes evaluate differently, with an AND
  after an OR and with a value of nan; two edits that give a rule other lists and
  one that empties it, so that their rows mix. One event
  suffices, as events share only the rules they read.
- `reports`: one pipeline and two requests, each of another mix of endpoints; a
  ticker export asks up to any time of the run, before and after its own; the
  histories at the start give the statistics several tickers and values.

`CHECK_DEADLOCK FALSE` appears where the system stops: all requests answered, or
time at its bound.

## 5. Fairness

Invariants need none. The liveness properties assume only that processes go on:

- `Portfolio`: weak fairness of each request's own steps. Taking the row lock
  needs no more: each request takes it once, so it is free for good in the end.
- `PipelineSchedule`: weak fairness of beat, the clock, delivery and work.
  `ListFails` and `Crash` stay possible in every run.
- `TickerPipeline`: weak fairness of a run's steps and of the periodic task, none
  of the news stream; strong fairness of `ScoreBatch`: the scorer does not fail
  every time, or nothing could be scored. Here and in `PipelineSchedule`, where a
  run's work is fair, no server keeps a fetch for ever; `Ingestion` says when one may.
- `Ingestion`: weak fairness of a process's steps together. Which of them is
  taken is open: the servers may fail for ever. Nothing is assumed of a process that
  waits for an answer without a timeout or makes a pause a server has told it to make
  (`AtMercy`), since nothing in the code ends either.
- `Accuracy`: time passes and runs go on; from `LastCrash` on none dies.
- `MarketStream`: clock, loop, monitors and sockets go on; strong fairness of
  opening the stream and of applying its changes, since these may fail but not
  for ever. `StreamEnds`, `ApplyFails` and `Vanish` have none.
- `Reports`: weak fairness of each forecast's steps; loads and inferences may
  fail every time. Each request takes the thread lock once, so it is free for
  good in the end.

## 6. What is proved

For all values of the constants under the named assumptions of each module:

- `PortfolioProofs`: `TypeCorrect`, `Isolation`, `Solvency`, `CashFollowsTrades`
  and `Refinement` (the endpoints implement `Accounts`). The inductive invariant
  is `IInv` = `TypeOK` ∧ `TransactionIsolated` ∧ `Solvent`. None of its parts is
  inductive alone: a fill keeps the account solvent because the funds were
  checked against loaded values and the lock kept those current. The refinement
  maps `Commit` to one `Buy` or `Sell` and every other step to `Open` or a
  stutter. `HoldingsAccounted`, `CashAccounted` and `AverageSound` compare the
  account with its whole history. That needs what a sum is: `FoldLeft` is a
  recursive function on sets of positions, so a lemma says that such a function
  exists (`Addable`, by induction on the positions, from the well-foundedness of
  the naturals) and then that one more trade adds one more amount. A commit adds
  the shares and the value of its trade; cash rounds once, by at most half a cent.
  The average is a weighted mean of the old one and the price paid, so it stays
  between the two, and rounding is monotone and keeps prices as they are.
- `PipelineScheduleProofs`: `TypeCorrect`; `LockKept`, under `ShortRuns`
  (`MaxRun < LockTimeout`); `Exclusion`, if moreover all workers use one cache
  (`OneCache`). The first condition makes `RunHoldsLock` inductive: the key's
  remaining time and the run's age add up to the timeout, so it cannot expire, and
  a held key keeps others out. Neither condition is enforced by the code, which is
  why both are hypotheses of the theorems and not assumptions of the module.
- `TickerPipelineProofs`: `TypeCorrect`, `Explained`, `CooldownHolds`,
  `AlertsFit`, `Aggregated`, with one strengthening each. `LogInv` also bounds the
  snapshots without log, and the flags without alert, from below. `AlertInv` counts the
  alerts runs are about to
  create: alerts of a cooled type plus `Pending` runs never exceed the processes, because
  a run becomes pending only when there is no alert. `DueInv` says an alert about
  to be created is due, which the arithmetic of the two thresholds turns into
  `AlertsFitSignal` for every reading. `CountInv` says a window never shrinks under
  a run between its queries.
- `MarketProofs`, of the price store: `TypeCorrect`, `NoLostUpdate` and `PushedIsStored`. `IInv` =
  `TypeOK` ∧ `SeenIsCurrent` ∧ `Locked` ∧ `SeenIsStreamed` ∧ `StoredIsSeen` ∧
  `ChartNotAhead`. The bar read is current because nobody else holds its row
  (`Locked`), and what purges and inserts touch is never a streamed bar
  (`SeenIsStreamed`). A chart is never pushed a bar that the rows have not
  reached, since later trades only add to it. `NewestIsServed` adds `QuoteInv`:
  no live row is ahead of the market, and what a request has found was the newest
  when it looked. `BooksBalance` proves for every minute that the bars and
  the trades have the same volume and extremes, and that there are bars whenever
  there are trades: a commit moves one trade into one bar, and a second bar of the minute starts its own
  account. The sums are `SumFunction`, unrolled by the same induction over finite
  sets. Of the rows at the start it is assumed that they are seeded ones
  (`SeedsAssumption`).
- `MarketProofs`, of the market stream: `StreamTypes`, and `ChartsKept` under `InTime`
  (`MaxSilence` ≤ `Lifetime`): what a row has left and what its chart has been
  silent always make up the lifetime (`RowLasts`), so no poll finds it expired.
  `InTime` is what the clients promise, not the code, so it is a hypothesis.
- `IngestionProofs`: `TypeCorrect`, `NothingLost` and `FeedsFair`. `TypeInv` and `StageInv` say
  what a process has in each stage; the one relation that matters is that the cursor
  is one page behind the next request (`RequestOK`), which is what keeps a request
  within the pages of its place. `SkipInv` is `NothingSkipped` while it comes about:
  the fetchers before the one at work have read each of their places to the end or
  gave it up (`Full`); of its own places the same holds of those before the present
  one, the present one has been read up to the cursor, and none of the later ones
  has been touched (`ReadOK`); and every good post read is stored or among those
  still held, unless its fetcher raised (`HeldOK`). Only the fetcher at work holds
  any, and it goes on only when none is left. That no two fetchers share a place
  (`PlacesApart`) keeps an answer from changing what another fetcher has read; it is
  an assumption on the lists in the code (`PlacesAssumption`), like the one that a
  listing has at least one page (`PagesAssumption`). The filters are folds: `Kept`
  is unrolled as a recursive function and keeps exactly the good members.
  `FeedsFair` holds of whatever finite table is stored (`RowsInv`): `Listed` names
  every row once, the newest first (`ListedOrder`, by induction on finite sets), so
  a post newer than a candidate is one as well; and what a turn of either loop has
  taken or left stays so (`FeedGrows`), so what was on the feed before a candidate's
  turn is what the finished feed has among newer ones, and the counts of the loop
  are the shares of the property. Posts may have the same time, and then which of
  them comes first is open: the property bounds a feed from both sides, by the
  posts that are newer and by those that are at least as new. Times and limits are
  naturals, and the table at the start is finite (`StampsAssumption`,
  `LimitsAssumption`).
- `AccuracyProofs`: `TypeCorrect` and `VerdictStands`. Without a backfill nothing is
  stored before the exchange's last bar, and none begins once there is a price
  (`PastIsFixed`), so the first price of a window is final when its bar is not
  the last any more (`FirstIsFinal`). `JudgedInv` says of a settled signal from its
  measurement on that its prices are still the first of both windows (`Judged`;
  the window of the signal lies before that of the hour).
- `StrategiesProofs`: `NothingPassedOver` (what an event has read and no longer
  before it is recorded, or deleted: `SkipInv`), `NoOrphans` (the foreign keys,
  `RowInv`), and from `RuleInv` `RowsTyped`, `ActsLeftToRight` and `ReadInOrder`.
  `ActsLeftToRight` is about the algorithm: `evaluate_rule` goes from left to right
  without precedence, so the first condition, or one after an OR, decides a list if
  it holds with every AND to its right, even past another OR (`HoldsFrom`,
  `DecidesStep`, `EvaluatesDecides`): with a AND b OR c AND d, where d alone fails, the
  rule does not act. And an execution is a failure only with a cause. `EditsSurvive`:
  of the requests that have deleted what they replace, one has all of its conditions
  stored or still to store (`Kept`, in `EditInv`), since the last to delete has its
  whole list before it and rows that others create take none away
  (`InsertedRange`). `ReadInOrder` says that each condition is inserted in its
  place, so an event reads the connectives in the order of the conditions although
  they are written one by one. The lists stored at the start are assumed
  to be sorted by their order (`ConditionsAssumption`), and the conditions of a
  request to be typed (`WishesAssumption`).
- `ReportsProofs`: `TypeCorrect`. That rows are typed and their keys distinct needs
  that new ones are above what was there (`IdsInv`: price ids count the rows, no
  other id or stamp is ahead of the clock, `StampsInv`), and that an answer is
  of one of the four kinds once it is given needs the type of what is computed for
  it, most of all of a backtest (`BacktestType`, `ResponsesInv`). `None`
  is assumed not to be a row or a report (`RowsAssumption`), and the histories at the
  start to have distinct ids and stamps that are not ahead of the clock
  (`IdsAssumption`).
  `ModelOnce` and `LoadExclusion` follow from `LoadInv`: only a request
  that loads holds the lock, and the model is missing while anyone holds it.
  `AlertsExplained`: an alert in an export comes with its signal. The signal is
  older than the alert (`TablesInv`: whatever is raised, inserted or not, follows a
  stored signal), so it was there when the signals were read, if the alert was
  stamped within the window and not after the request (`Limit`); and a section either is
  everything in the window or
  has exactly `MAX_EXPORT_ROWS` rows, which is shown by taking away the newest row
  of a finite set. That needs stamps to differ and the tables at the start to be
  finite (`HistoriesAssumption`). `LongHistories`: every forecast is of at least
  `MinHistory` stored prices, also when the cache answers or the model was waited
  for (`ForecastInv`). `BacktestsReconcile`: whatever signals and prices a backtest
  has read, it satisfies `Reconciles`. `WalkOK` is what each signal keeps: buying
  and selling alternate at prices that fit their signals; after an even number of
  trades all is cash, after an odd one all is shares, and either is worth what the
  gains so far compound to (`Holding`). The sort, the walk, the product and the
  drawdown are recursive functions; `RecursionExists` says that a function may be
  defined on the subsets of a finite set by taking away one member after the other,
  so each can be unrolled, and induction over positions does the rest. That no fall
  is deeper than the drawdown is the order of fractions (`AtMostTransitive`): a
  fall from the highest point so far is the deepest (`FallDeepest`). Prices are
  positive integers (`PricesAssumption`), those of trades that were executed: the
  code divides by them.

`CashFollowsTrades`, `LockKept`, `AlertsFit`, `PushedIsStored`, `NoOrphans`,
`ActsLeftToRight`, `ReadInOrder`, `LoadExclusion` and `LongHistories` state what no run lists by itself.

Only model-checked: liveness (`EveryOrderAnswered`, `KeepsRunning`,
`EveryPostScored`, `EverySignalEvaluated`, `VisibleStreamed`, `RunsEnd`,
`ForecastsAnswered`), which is out of the prover's reach; `IndicatorsSound` and
`StatisticsSound`, which compare pure functions with each other. These rest on
inequalities between products of fractions (Cantelli's and Cauchy's among them)
that the arithmetic of the provers does not find, and some of the functions are
sorted or filtered by operators of the library that it cannot expand
(`SetToSortSeq`, `SelectSeq`).

## 7. Not modelled, and why

- *Retraining.* It starts at 50 verdicts over 24 hours, and those come only from
  the seed script or from an evaluation that ran a day late (`accuracy_24h`): its
  races would be reached in seeded databases alone.
- *ML predictor and sentiment model.* Their outcomes are choices. So are the
  forecasting network's.
- *Aggregation and features.* Logarithmic and exponential weights of posts; what
  they yield is any reading of `TickerPipeline`. Trending and sentiment counts of
  `apps/social/views.py` are plain aggregates.
- *Mood records, similar past windows, what a flag's row says*: inserted, and read by
  no component that decides anything.
- *Event bus, socket pushes, notification texts*: nothing reads them back.
- *Accounts, permissions, watchlist, signal and alert endpoints*: predicates on
  one request and edits of one row by its owner.
- *Exports of one section* (`GlobalSignalExportView`) and of the portfolio, CSV
  layout; the portfolio summary, whose two queries may fall on either side of a
  trade.
- *`handle_bar`*: no caller; the daemon subscribes to trades only.
- *Settings* beyond schedule, cache and database; seeding; start scripts.
- In modelled components: the death of the market loop when the database fails,
  and more than two monitors at once; workers with caches of their own
  (`PipelineSchedule` has them, no run does); the news WebSocket's reconnection;
  which tickers a rule is for.

## 8. Plan

Done, what moves money or decides signals first: `Portfolio` with `Accounts`,
`PipelineSchedule`, `TickerPipeline`, `Accuracy`, `MarketStream`, `Strategies`;
then `PriceStore` with its indicators, conditions and detector, `Analytics` and
`Reports`, `Ingestion`; proofs of all state machines.

Left:

1. Aggregation and features against reference definitions over bounded inputs.
2. `Retrain`, composed with an evaluation that records 24-hour verdicts, should
   the code come to do so.
3. `PriceStore` shown to implement the price history that `Accuracy` describes.

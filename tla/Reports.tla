--------------------------------- MODULE Reports ---------------------------------
(***************************************************************************)
(* Reports over tables that the pipeline goes on writing: exports           *)
(* (apps/export/views.py), backtests, and volume forecasts with their cache *)
(* and their lazily loaded model (apps/analytics).                          *)
(*                                                                          *)
(* Each query sees what is committed when it runs; no view reads two tables *)
(* in one transaction.  created_at is taken before the row is inserted, so  *)
(* stamping and inserting are two steps; no two stamps are equal.           *)
(***************************************************************************)
EXTENDS Analytics

CONSTANTS Pipelines,       \* runs of run_pipeline_for_ticker
          Requests,        \* HTTP requests, each served once
          Endpoints,       \* what each may ask for: exports, backtests, forecasts
          Subject,         \* the ticker they are about
          Histories,       \* [signals, prices] there may be at the start
          Readings,        \* [signal, index, ratio] a pipeline may store
          Quotes,          \* prices there may be
          Windows,         \* how far exports and backtests go back
          Strategies,      \* <<strategy, threshold>> of backtests
          MAX_EXPORT_ROWS, MinHistory, CacheTTL,
          MaxTime, MaxRows \* bounds: the clock, rows of a table

\* What is inserted and answered; fractions are exact.
NewSignals == [id : Nat, ticker : {Subject}, at : Nat, signal : {x.signal : x \in Readings},
               index : {x.index : x \in Readings}, ratio : {x.ratio : x \in Readings}]
SignalRows == NewSignals \union UNION {h.signals : h \in Histories}
AlertRows  == [id : Nat, at : Nat, signal : NewSignals]
PriceRows  == [id : Nat, ticker : {Subject}, at : Nat, price : Quotes]
                \union UNION {h.prices : h \in Histories}
Ratios     == Int \X (Nat \ {0})
TradeRows  == [side : {"buy", "sell"}, at : Nat, price : Nat \ {0}]
Backtests  == [trades : Seq(TradeRows), equity : Seq(Ratios), wins : Nat, closed : Nat,
               max_drawdown : Ratios, total_return : Ratios]
Responses  ==
  [kind : {"ticker", "bulk"}, signals : SUBSET SignalRows, alerts : SUBSET AlertRows]
    \union [kind : {"backtest"}, prices : SUBSET PriceRows, run : Backtests]
    \union [kind : {"forecast"}, history : SUBSET PriceRows]
    \union [kind : {"refused"},
            code : {"INSUFFICIENT_HISTORY", "TIMESFM_UNAVAILABLE", "FORECAST_INFERENCE_FAILED"}]

ASSUME NoneAssumption == None \notin Requests
ASSUME RowsAssumption == None \notin NewSignals \union AlertRows \union Responses
ASSUME IdsAssumption ==
  \A h \in Histories :
    /\ \A x, y \in h.signals : x.id = y.id => x = y
    /\ \A x, y \in h.prices : x.id = y.id => x = y
    /\ \A x \in h.prices : x.id \in 1..Cardinality(h.prices)
    /\ \A x \in h.signals \union h.prices : x.at <= MaxTime
ASSUME HistoriesAssumption ==
  \A h \in Histories :
    /\ IsFiniteSet(h.signals) /\ IsFiniteSet(h.prices)
    /\ \A x \in h.signals \union h.prices : x.at \in Nat
    /\ \A x, y \in h.signals : x.at = y.at => x = y
ASSUME PricesAssumption ==
  /\ \A h \in Histories : \A x \in h.prices : x.price \in Nat \ {0}
  /\ Quotes \subseteq Nat \ {0}
ASSUME BoundsAssumption == Windows \subseteq Nat /\ {MAX_EXPORT_ROWS, MinHistory} \subseteq Nat
ASSUME SizesAssumption ==
  /\ IsFiniteSet(Pipelines) /\ IsFiniteSet(Requests)
  /\ {CacheTTL, MaxTime} \subseteq Nat /\ MinHistory # 0

VARIABLES
  now, signals, alerts, prices,  \* the clock and the tables
  stage, draft,                  \* of each pipeline: where it is, the row it has stamped
  pc, asked, read,               \* of each request: where it is, its parameters, what it has read
  answer,                        \* of each request: the response
  cache,                         \* the forecast cached: its history and its expiry
  model, lock, loads             \* _tfm_model, _tfm_lock, how often it was loaded

tables == <<signals, alerts, prices>>
pipelineVars == <<stage, draft>>
requestVars == <<pc, asked, read, answer>>
modelVars == <<cache, model, lock, loads>>
vars == <<now, tables, pipelineVars, requestVars, modelVars>>

NewestTime(rows) == CHOOSE t \in {0} \union {r.at : r \in rows} : \A r \in rows : r.at <= t

Init ==
  /\ \E h \in Histories : signals = h.signals /\ prices = h.prices
  /\ alerts = {} /\ now = NewestTime(signals \union prices)
  /\ stage = [p \in Pipelines |-> "idle"] /\ draft = [p \in Pipelines |-> None]
  /\ pc = [r \in Requests |-> "new"] /\ asked = [r \in Requests |-> None]
  /\ read = [r \in Requests |-> None] /\ answer = [r \in Requests |-> None]
  /\ cache = None /\ model = None /\ lock = None /\ loads = 0

Tick == now < MaxTime /\ now' = now + 1

Ids(rows) == {r.id : r \in rows}
NewId(rows) == CHOOSE n \in 1..Cardinality(rows) + Cardinality(Pipelines) + 1 :
                 n \notin Ids(rows) \union {draft[p].id : p \in {q \in Pipelines : draft[q] # None}}

-----------------------------------------------------------------------------
(* The pipeline: a signal, and then an alert if one is due.                 *)

StampSignal(p) ==
  /\ stage[p] = "idle" /\ Cardinality(signals) < MaxRows /\ Tick
  /\ \E x \in Readings : draft' = [draft EXCEPT ![p] =
       [id |-> NewId(signals), ticker |-> Subject, at |-> now + 1,
        signal |-> x.signal, index |-> x.index, ratio |-> x.ratio]]
  /\ stage' = [stage EXCEPT ![p] = "signal"]
  /\ UNCHANGED <<tables, requestVars, modelVars>>

InsertSignal(p) ==
  /\ stage[p] = "signal"
  /\ signals' = signals \union {draft[p]}
  /\ stage' = [stage EXCEPT ![p] = "decided"]
  /\ UNCHANGED <<now, alerts, prices, draft, requestVars, modelVars>>

\* check_and_create_alert, after the signal.
StampAlert(p) ==
  /\ stage[p] = "decided" /\ Tick
  /\ draft' = [draft EXCEPT ![p] = [id |-> @.id, at |-> now + 1, signal |-> @]]
  /\ stage' = [stage EXCEPT ![p] = "alert"]
  /\ UNCHANGED <<tables, requestVars, modelVars>>

EndRun(p) ==
  /\ stage' = [stage EXCEPT ![p] = "idle"]
  /\ draft' = [draft EXCEPT ![p] = None]
  /\ UNCHANGED <<now, signals, prices, requestVars, modelVars>>

InsertAlert(p) == stage[p] = "alert" /\ alerts' = alerts \union {draft[p]} /\ EndRun(p)
NoAlert(p) == stage[p] = "decided" /\ UNCHANGED alerts /\ EndRun(p)

Pipeline(p) ==
  StampSignal(p) \/ InsertSignal(p) \/ StampAlert(p) \/ InsertAlert(p) \/ NoAlert(p)

\* The market stream stores a live price.
StorePrice ==
  /\ Cardinality(prices) < MaxRows /\ Tick
  /\ \E q \in Quotes : prices' = prices \union
       {[id |-> Cardinality(prices) + 1, ticker |-> Subject, at |-> now + 1, price |-> q]}
  /\ UNCHANGED <<signals, alerts, pipelineVars, requestVars, modelVars>>

-----------------------------------------------------------------------------
(* Requests.                                                                *)

Goto(r, place) == pc' = [pc EXCEPT ![r] = place]
Reads(r, rows) == read' = [read EXCEPT ![r] = rows]

Answer(r, response) ==
  /\ Goto(r, "done")
  /\ answer' = [answer EXCEPT ![r] = response]

\* Mutant: `to' is no bound unless the request names one.
Unbounded(to) == to <= now

\* date_to bounds every section, whether it was given or is the default.
Bounding(to) == TRUE

\* A section is [: MAX_EXPORT_ROWS] of rows that come newest first.
Section(rows, from, to, bounded) ==
  LET within == {x \in rows : from <= x.at /\ (bounded => x.at <= to)}
  IN {x \in within : Cardinality({y \in within : y.at > x.at}) < MAX_EXPORT_ROWS}

\* TickerExportView: up to any date the client gives, even one to come, or by
\* default up to now.  PortfolioExportView has the default only, BulkExportView no
\* window at all, GlobalSignalExportView one section.
AskExport(r) ==
  /\ pc[r] = "new" /\ "export" \in Endpoints[r] /\ Tick
  /\ \/ \E w \in Windows, to \in 0..MaxTime :
          asked' = [asked EXCEPT ![r] = [kind |-> "ticker", at |-> now + 1, from |-> now + 1 - w,
                                         to |-> to, bounded |-> Bounding(to)]]
     \/ asked' = [asked EXCEPT ![r] = [kind |-> "bulk", at |-> now + 1, from |-> 0,
                                       to |-> now + 1, bounded |-> FALSE]]
  /\ Goto(r, "signals")
  /\ UNCHANGED <<tables, pipelineVars, read, answer, modelVars>>

Exported(r, rows) == Section(rows, asked[r].from, asked[r].to, asked[r].bounded)

ExportSignals(r) ==
  /\ pc[r] = "signals"
  /\ Reads(r, Exported(r, signals))
  /\ Goto(r, "alerts")
  /\ UNCHANGED <<now, tables, pipelineVars, asked, answer, modelVars>>

ExportAlerts(r) ==
  /\ pc[r] = "alerts"
  /\ Answer(r, [kind |-> asked[r].kind, signals |-> read[r], alerts |-> Exported(r, alerts)])
  /\ UNCHANGED <<now, tables, pipelineVars, asked, read, modelVars>>

\* run_backtest: the signals, then the prices.
AskBacktest(r) ==
  /\ pc[r] = "new" /\ "backtest" \in Endpoints[r]
  /\ \E w \in Windows, s \in Strategies :
       /\ asked' = [asked EXCEPT ![r] = [strategy |-> s[1], threshold |-> s[2],
                                         from |-> now - w, to |-> now]]
       /\ Reads(r, Within(Of(signals, Subject), now - w, now))
  /\ Goto(r, "prices")
  /\ UNCHANGED <<now, tables, pipelineVars, answer, modelVars>>

Backtest(r) ==
  /\ pc[r] = "prices"
  /\ LET shown == Within(Of(prices, Subject), asked[r].from, asked[r].to) IN
     Answer(r, [kind |-> "backtest", prices |-> shown,
                run |-> run_backtest(read[r], shown, asked[r].strategy, asked[r].threshold)])
  /\ UNCHANGED <<now, tables, pipelineVars, asked, read, modelVars>>

Export(r) ==
  AskExport(r) \/ ExportSignals(r) \/ ExportAlerts(r) \/ AskBacktest(r) \/ Backtest(r)

-----------------------------------------------------------------------------
(* VolumeForecastView, and get_timesfm_model.                               *)

forecastFrame == <<now, tables, pipelineVars, asked>>

Forecast(history) == [kind |-> "forecast", history |-> history]
Refusal(code) == [kind |-> "refused", code |-> code]

AskForecast(r) ==
  /\ pc[r] = "new" /\ "forecast" \in Endpoints[r]
  /\ IF cache # None /\ now < cache.expires
       THEN Answer(r, Forecast(cache.history)) /\ UNCHANGED read
       ELSE LET history == Of(prices, Subject) IN
            /\ Reads(r, history)
            /\ IF Cardinality(history) < MinHistory
                 THEN Answer(r, Refusal("INSUFFICIENT_HISTORY"))
                 ELSE Goto(r, "model") /\ UNCHANGED answer
  /\ UNCHANGED <<forecastFrame, modelVars>>

\* The first check, without the lock; the lock; and the second check.
HasModel(r) ==
  /\ pc[r] = "model" /\ model # None
  /\ Goto(r, "infer")
  /\ UNCHANGED <<forecastFrame, read, answer, modelVars>>

WantModel(r) ==
  /\ pc[r] = "model" /\ model = None
  /\ Goto(r, "lock")
  /\ UNCHANGED <<forecastFrame, read, answer, modelVars>>

\* Mutant: the model is loaded without looking again.
LoadAnyway == TRUE

StillMissing == model = None

TakeLock(r) ==
  /\ pc[r] = "lock" /\ lock = None
  /\ IF StillMissing THEN lock' = r /\ Goto(r, "load") ELSE Goto(r, "infer") /\ UNCHANGED lock
  /\ UNCHANGED <<forecastFrame, read, answer, cache, model, loads>>

Load(r) ==
  /\ pc[r] = "load"
  /\ model' = r /\ loads' = loads + 1 /\ lock' = None
  /\ Goto(r, "infer")
  /\ UNCHANGED <<forecastFrame, read, answer, cache>>

\* Mutant: a load that fails leaves the lock.
KeptLock == lock

\* `with' gives the lock back when an exception leaves it.
ReleasedLock == None

LoadFails(r) ==
  /\ pc[r] = "load"
  /\ lock' = ReleasedLock
  /\ Answer(r, Refusal("TIMESFM_UNAVAILABLE"))
  /\ UNCHANGED <<forecastFrame, read, cache, model, loads>>

\* Only a forecast is cached.
Infer(r) ==
  /\ pc[r] = "infer"
  /\ cache' = [history |-> read[r], expires |-> now + CacheTTL]
  /\ Answer(r, Forecast(read[r]))
  /\ UNCHANGED <<forecastFrame, read, model, lock, loads>>

InferenceFails(r) ==
  /\ pc[r] = "infer"
  /\ Answer(r, Refusal("FORECAST_INFERENCE_FAILED"))
  /\ UNCHANGED <<forecastFrame, read, modelVars>>

ForecastStep(r) ==
  \/ AskForecast(r) \/ HasModel(r) \/ WantModel(r) \/ TakeLock(r)
  \/ Load(r) \/ LoadFails(r) \/ Infer(r) \/ InferenceFails(r)

-----------------------------------------------------------------------------

Next ==
  \/ \E p \in Pipelines : Pipeline(p)
  \/ StorePrice
  \/ \E r \in Requests : Export(r) \/ ForecastStep(r)

\* A thread that forecasts goes on, and is given _tfm_lock once it is free.
Fairness == \A r \in Requests : WF_vars(pc[r] # "new" /\ ForecastStep(r))

Spec == Init /\ [][Next]_vars /\ Fairness

-----------------------------------------------------------------------------
(* Properties.                                                              *)

\* Where requests and pipelines may be, and what they hold there; rows have
\* identities of their own, and no two rows of a pipeline one time.
TypeOK ==
  /\ now \in 0..MaxTime /\ loads \in 0..Cardinality(Requests)
  /\ signals \subseteq SignalRows /\ alerts \subseteq AlertRows /\ prices \subseteq PriceRows
  /\ \A rows \in {signals, alerts, prices} : \A x, y \in rows : x.id = y.id => x = y
  /\ \A x, y \in signals \union alerts : x.at = y.at => x = y
  /\ \A p \in Pipelines : stage[p] = "idle" <=> draft[p] = None
  /\ \A p \in Pipelines : stage[p] \in {"idle", "signal", "decided", "alert"}
  /\ pc \in [Requests -> {"new", "signals", "alerts", "prices", "model", "lock", "load", "infer", "done"}]
  /\ answer \in [Requests -> Responses \union {None}]
  /\ \A r \in Requests : pc[r] = "done" <=> answer[r] # None
  /\ model \in Requests \union {None} /\ lock \in Requests \union {None}
  /\ \A r \in Requests : lock = r <=> pc[r] = "load"
  /\ cache # None => cache.history # {} /\ cache.expires \in 0..MaxTime + CacheTTL

Equal(a, b) == AtMost(a, b) /\ AtMost(b, a)

\* The gain of the k-th time shares were bought and sold again, and of all of them.
Gain(trades, k) == <<trades[2 * k].price, trades[2 * k - 1].price>>
Compound(trades, n) == FoldLeft(Times, Whole(1), [k \in 1..n |-> Gain(trades, k)])

Reconciles(run, shown) ==
  LET n == Len(run.trades)
      last == Last(Ordered(shown))
      closed == Compound(run.trades, n \div 2)
      total == IF n % 2 = 0 THEN closed ELSE Times(closed, <<last.price, run.trades[n].price>>)
      fall(i, j) == Minus(Times(run.equity[j], <<run.equity[i][2], run.equity[i][1]>>), Whole(1))
  IN /\ \A i \in 1..n : run.trades[i].side = IF i % 2 = 1 THEN "buy" ELSE "sell"
     /\ \A i \in 1..n : \E p \in shown :
          /\ p.price = run.trades[i].price
          /\ p.at >= run.trades[i].at \/ (p = last /\ p.at < run.trades[i].at)
     /\ Equal(run.total_return, Minus(total, Whole(1)))
     /\ run.closed = n \div 2 /\ run.wins <= run.closed
     /\ \A i, j \in DOMAIN run.equity : i < j => AtMost(run.max_drawdown, fall(i, j))
     /\ AtMost(Whole(-1), run.max_drawdown) /\ AtMost(run.max_drawdown, Whole(0))

\* A stored backtest is consistent in itself: buying and selling alternate, no
\* trade is at a price older than its signal unless there is no later one, the
\* return is what the trades compound to with an open position at the last
\* price, and no fall of the equity is deeper than the drawdown.
BacktestReconciles ==
  \A r \in Requests : answer[r] # None /\ answer[r].kind = "backtest" =>
    Reconciles(answer[r].run, answer[r].prices)

SeriesOf(ticker) == [i \in 1..Cardinality(Of(prices, ticker)) |-> Ordered(Of(prices, ticker))[i].price]

\* The statistics agree with each other and with their definitions: movers are
\* ranked, on their side of zero, and moved by what their signals add up to;
\* sectors count each ticker once and average within its extremes; price changes
\* stay within the prices; breadth adds up to buys over sells; coefficients are symmetric and at most one.
StatisticsSound ==
  LET indexed == {s \in signals : s.index # None}
      movers(direction) == compute_top_movers(signals, 0, now, Cardinality(Tickers), direction)
      leaders == compute_sentiment_leaderboard(signals, 0, now, Cardinality(Tickers))
      sectors == compute_sector_rollup(signals, 0, now)
      matrix == compute_correlation_matrix([t \in Tickers |-> SeriesOf(t)])
      breadth == breadth_history(signals, 2, DayLength)
      recent(signal) == Cardinality({s \in signals : s.at >= 2 /\ s.signal = signal})
      named(seq) == {seq[i].ticker : i \in DOMAIN seq}
      counts == FoldSet(LAMBDA row, sum : row.ticker_count + sum, 0, sectors)
      steps(t) == LET seq == Ordered(Of(indexed, t)) IN
                  FoldLeft(+, 0, [i \in 1..Len(seq) - 1 |-> seq[i + 1].index - seq[i].index])
      paid(t) == {p.price : p \in Of(prices, t)}
  IN /\ \A i \in DOMAIN movers("up") : movers("up")[i].delta >= 0
     /\ \A i \in DOMAIN movers("down") : movers("down")[i].delta <= 0
     /\ named(movers("both")) = named(movers("up")) \union named(movers("down"))
     /\ \A i \in DOMAIN movers("both") : movers("both")[i].delta = steps(movers("both")[i].ticker)
     /\ \A i, j \in DOMAIN movers("both") : i < j =>
          Size(movers("both")[i].delta) >= Size(movers("both")[j].delta)
     /\ \A i, j \in DOMAIN leaders : i < j =>
          leaders[i].ticker # leaders[j].ticker /\ leaders[i].bullish_ratio >= leaders[j].bullish_ratio
     /\ counts = Cardinality({s.ticker : s \in indexed})
     /\ \A row \in sectors :
          /\ \E s \in indexed : AtMost(Whole(s.index), row.avg_signal)
          /\ \E s \in indexed : AtMost(row.avg_signal, Whole(s.index))
     /\ \A t \in Tickers : \A bucket \in compute_signal_heatmap(Of(signals, t), Of(prices, t)) :
          \E p \in paid(t) : Equal(Plus(bucket.price_change, Whole(1)), <<p, SeriesOf(t)[1]>>)
     /\ breadth # <<>> => Last(breadth).cumulative = recent("BUY") - recent("SELL")
     /\ \A a, b \in Tickers : matrix[a, b] # None =>
          /\ matrix[a, b].above = matrix[b, a].above
          /\ matrix[a, b].above * matrix[a, b].above <= matrix[a, b].square

\* An export does not show an effect without its cause, although its sections
\* are read one after the other: an alert comes with the signal it was raised
\* on, unless that is older than the window or cut off with its section.  Of an
\* export without a window, or with one that was still open when it was asked for,
\* this holds for what there was at that time.
ExportExplained ==
  \A r \in Requests : answer[r] # None /\ answer[r].kind \in {"ticker", "bulk"} =>
    LET a == answer[r] IN
    \A x \in a.alerts :
      \/ x.signal \in a.signals
      \/ x.signal.at < asked[r].from
      \/ Cardinality(a.signals) = MAX_EXPORT_ROWS
      \/ (a.kind = "bulk" \/ asked[r].to > asked[r].at) /\ x.at > asked[r].at

\* "Concurrent Django requests don't race on init": the model is loaded once,
\* and whoever forecasts has it.
ModelLoadedOnce ==
  /\ loads <= 1 /\ (model # None <=> loads > 0)
  /\ \A r \in Requests : pc[r] = "infer" => model # None

\* Every forecast is answered, whatever fails while others wait for the model.
ForecastsAnswered == \A r \in Requests : pc[r] \in {"model", "lock"} ~> pc[r] = "done"

=================================================================================

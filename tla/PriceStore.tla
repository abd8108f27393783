------------------------------- MODULE PriceStore -------------------------------
(***************************************************************************)
(* The PriceSnapshot and TradeTick rows of one ticker: stream daemons fold  *)
(* trades into the bar of their minute (apps/market/alpaca_stream.py), and  *)
(* quotes, charts and management commands store bars of the REST interface  *)
(* (apps/market/views.py).  No constraint of the database makes a bar       *)
(* unique.                                                                  *)
(*                                                                          *)
(* A daemon stores a trade in one transaction, whose locking read of the    *)
(* bar and whose commit are two steps; every other query is a transaction   *)
(* of its own.  Time is counted in minutes.                                 *)
(***************************************************************************)
EXTENDS Conditions, Detector, FiniteSets

CONSTANTS Daemons,     \* processes of run_alpaca_stream
          Readers,     \* requests for quotes and charts
          Trades,      \* [price, size] of the trades that may arrive
          Exchange,    \* the exchange's bar of each minute: open, high, low, close, volume
          Seeds,       \* rows the seed script has left
          StaleAfter,  \* QUOTE_STALE_MINUTES
          MaxMinute, MaxTicks, MaxRows  \* bounds: minutes, trades stored, bars there are

LIVE_SOURCES == {"alpaca_stream", "alpaca_rest"}

Bar == [id : Nat, ts : 0..MaxMinute, source : LIVE_SOURCES \union {"seed"}, open : Nat,
        high : Nat, low : Nat, close : Nat, volume : Nat]
Trade == [minute : 0..MaxMinute, price : Nat \ {0}, size : Nat]
Quote == [row : Bar \union {None}, asked : 0..MaxMinute, newest : -1..MaxMinute]

ASSUME TradesAssumption == Trades \subseteq [price : Nat \ {0}, size : Nat]
ASSUME ExchangeAssumption == Exchange \in [0..MaxMinute -> [open : Nat, high : Nat, low : Nat,
                                                          close : Nat, volume : Nat]]
ASSUME SeedsAssumption ==
  /\ IsFiniteSet(Seeds) /\ Seeds \subseteq Bar
  /\ \A r, x \in Seeds : /\ r.source = "seed" /\ r.id <= Cardinality(Seeds)
                         /\ r.id = x.id => r = x
ASSUME BoundsAssumption ==
  StaleAfter \in Nat /\ MaxMinute \in Nat /\ MaxTicks \in Nat /\ MaxRows \in Nat
ASSUME NoneAssumption == None \notin Bar /\ None \notin Trade /\ None \notin Quote

VARIABLES
  now, market,          \* the minute it is; the exchange's last bar, -1 for none
  ticks,                \* TradeTick rows
  rows, lastId,         \* PriceSnapshot rows
  pc, trade, seen,      \* of each daemon: where it is, its trade, the bar it read
  stage, found, todo,   \* of each reader: where it is, the row it has, bars to store
  answer                \* the last quote it was given

daemonVars == <<pc, trade, seen>>
readerVars == <<stage, found, todo, answer>>
vars == <<now, market, ticks, rows, lastId, daemonVars, readerVars>>

Row(id, ts, source, bar) ==
  [id |-> id, ts |-> ts, source |-> source, open |-> bar.open, high |-> bar.high,
   low |-> bar.low, close |-> bar.close, volume |-> bar.volume]

Init ==
  /\ now = 0 /\ market = -1
  /\ ticks = <<>>
  /\ rows = Seeds /\ lastId = Cardinality(Seeds)
  /\ pc = [d \in Daemons |-> "idle"]
  /\ trade = [d \in Daemons |-> None]
  /\ seen = [d \in Daemons |-> None]
  /\ stage = [r \in Readers |-> "idle"]
  /\ found = [r \in Readers |-> None]
  /\ todo = [r \in Readers |-> <<>>]
  /\ answer = [r \in Readers |-> None]

\* A new row, in the one query that inserts it.
Insert(ts, source, bar) ==
  /\ Cardinality(rows) < MaxRows
  /\ lastId' = lastId + 1
  /\ rows' = rows \union {Row(lastId + 1, ts, source, bar)}

-----------------------------------------------------------------------------
(* _store_trade_and_bar and handle_trade.                                   *)

BarsOf(minute) == {r \in rows : r.ts = minute /\ r.source = "alpaca_stream"}

\* Mutant: first() without select_for_update().
NoLock(id) == TRUE

\* select_for_update() waits for the transaction that holds the row.
Unlocked(id) == \A d \in Daemons : pc[d] = "storing" /\ seen[d] # None => seen[d].id # id

\* Of several bars of the minute, first() returns any.  A trade of the last
\* minute may come late, of a minute the exchange has a bar of.
ReadBar(d) ==
  /\ pc[d] = "idle" /\ Len(ticks) + Cardinality({e \in Daemons : pc[e] = "storing"}) < MaxTicks
  /\ \E t \in Trades, minute \in {now} \union ({now - 1} \cap {market} \cap Nat) :
       /\ trade' = [trade EXCEPT ![d] = [minute |-> minute, price |-> t.price, size |-> t.size]]
       /\ \/ BarsOf(minute) = {} /\ seen' = [seen EXCEPT ![d] = None]
          \/ \E r \in BarsOf(minute) : Unlocked(r.id) /\ seen' = [seen EXCEPT ![d] = r]
  /\ pc' = [pc EXCEPT ![d] = "storing"]
  /\ UNCHANGED <<now, market, ticks, rows, lastId, readerVars>>

Larger(a, b) == IF a > b THEN a ELSE b
Smaller(a, b) == IF a < b THEN a ELSE b

\* save(update_fields=...) of what the daemon makes of the bar it read.
Folded(r, old, t) ==
  [id |-> r.id, ts |-> r.ts, source |-> r.source, open |-> r.open,
   high |-> Larger(old.high, t.price), low |-> Smaller(old.low, t.price),
   close |-> t.price, volume |-> old.volume + t.size]

\* Mutant: the first trade's size is left for the next update.
Unsized(t) ==
  [open |-> t.price, high |-> t.price, low |-> t.price, close |-> t.price, volume |-> None]

FirstBar(t) ==
  [open |-> t.price, high |-> t.price, low |-> t.price, close |-> t.price, volume |-> t.size]

\* The tick and the bar, in one transaction.
StoreTrade(d) ==
  /\ pc[d] = "storing"
  /\ ticks' = Append(ticks, trade[d])
  /\ IF seen[d] = None
       THEN /\ Insert(trade[d].minute, "alpaca_stream", FirstBar(trade[d]))
            /\ seen' = [seen EXCEPT ![d] =
                 Row(lastId + 1, trade[d].minute, "alpaca_stream", FirstBar(trade[d]))]
       ELSE /\ rows' = {IF r.id = seen[d].id THEN Folded(r, seen[d], trade[d]) ELSE r : r \in rows}
            /\ seen' = [seen EXCEPT ![d] = Folded(seen[d], seen[d], trade[d])]
            /\ UNCHANGED lastId
  /\ pc' = [pc EXCEPT ![d] = "stored"]
  /\ UNCHANGED <<now, market, trade, readerVars>>

\* push_market_update of seen[d], after the commit.
PushBar(d) ==
  /\ pc[d] = "stored"
  /\ pc' = [pc EXCEPT ![d] = "idle"]
  /\ trade' = [trade EXCEPT ![d] = None] /\ seen' = [seen EXCEPT ![d] = None]
  /\ UNCHANGED <<now, market, ticks, rows, lastId, readerVars>>

\* Mutant: the tick is stored in a transaction of its own, before the bar.
TickOutlives(d) == IF pc[d] = "storing" THEN Append(ticks, trade[d]) ELSE ticks

\* Nothing of a transaction that was not committed is left.
RolledBack(d) == ticks

\* An exception, which is logged, or the end of the process: the transaction is
\* rolled back, or nothing is pushed.
TradeFails(d) ==
  /\ pc[d] # "idle"
  /\ ticks' = RolledBack(d)
  /\ pc' = [pc EXCEPT ![d] = "idle"]
  /\ trade' = [trade EXCEPT ![d] = None] /\ seen' = [seen EXCEPT ![d] = None]
  /\ UNCHANGED <<now, market, rows, lastId, readerVars>>

-----------------------------------------------------------------------------
(* TickerQuoteView.                                                         *)

\* Mutant: seeded prices are served too.
AllRows == rows

LiveRows == {r \in rows : r.source \in LIVE_SOURCES}

\* order_by("-timestamp").first().
IsNewest(r) == r \in LiveRows /\ \A x \in LiveRows : x.ts <= r.ts

Answered(r, row, failed) ==
  answer' = [answer EXCEPT ![r] =
    [row |-> row, failed |-> failed, asked |-> found[r].asked, newest |-> found[r].newest,
     market |-> market]]

AskQuote(r) ==
  /\ stage[r] = "idle"
  /\ \E snap \in {x \in LiveRows : IsNewest(x)} \union (IF LiveRows = {} THEN {None} ELSE {}) :
       found' = [found EXCEPT ![r] = [row |-> snap, asked |-> now,
                   newest |-> IF snap = None THEN -1 ELSE snap.ts]]
  /\ stage' = [stage EXCEPT ![r] = "found"]
  /\ UNCHANGED <<now, market, ticks, rows, lastId, daemonVars, todo, answer>>

Fresh(r) == found[r].row # None /\ found[r].row.ts >= found[r].asked - StaleAfter

GoIdle(r) ==
  /\ stage' = [stage EXCEPT ![r] = "idle"]
  /\ found' = [found EXCEPT ![r] = None]
  /\ todo' = [todo EXCEPT ![r] = <<>>]

\* A fresh quote is served; so is a stale one when the fetch fails.  404 without.
ServeFound(r) ==
  /\ stage[r] = "found"
  /\ Answered(r, found[r].row, ~Fresh(r))
  /\ GoIdle(r)
  /\ UNCHANGED <<now, market, ticks, rows, lastId, daemonVars>>

\* _fetch_and_store_latest_bar: a row, whatever rows there are.
FetchLatest(r) ==
  /\ stage[r] = "found" /\ ~Fresh(r) /\ market >= 0
  /\ Insert(market, "alpaca_rest", Exchange[market])
  /\ Answered(r, Row(lastId + 1, market, "alpaca_rest", Exchange[market]), FALSE)
  /\ GoIdle(r)
  /\ UNCHANGED <<now, market, ticks, daemonVars>>

-----------------------------------------------------------------------------
(* TickerPriceListView: _fetch_and_store_recent_bars if nothing is live.    *)

AskHistory(r) ==
  /\ stage[r] = "idle" /\ LiveRows = {} /\ market >= 0
  /\ todo' = [todo EXCEPT ![r] = [i \in 1..market + 1 |-> i - 1]]
  /\ stage' = [stage EXCEPT ![r] = "backfill"]
  /\ UNCHANGED <<now, market, ticks, rows, lastId, daemonVars, found, answer>>

RestBarExists(minute) == \E x \in rows : x.ts = minute /\ x.source = "alpaca_rest"

CheckBar(r) ==
  /\ stage[r] = "backfill" /\ todo[r] # <<>>
  /\ IF RestBarExists(Head(todo[r]))
       THEN todo' = [todo EXCEPT ![r] = Tail(@)] /\ UNCHANGED stage
       ELSE stage' = [stage EXCEPT ![r] = "creating"] /\ UNCHANGED todo
  /\ UNCHANGED <<now, market, ticks, rows, lastId, daemonVars, found, answer>>

CreateBar(r) ==
  /\ stage[r] = "creating"
  /\ Insert(Head(todo[r]), "alpaca_rest", Exchange[Head(todo[r])])
  /\ todo' = [todo EXCEPT ![r] = Tail(@)]
  /\ stage' = [stage EXCEPT ![r] = "backfill"]
  /\ UNCHANGED <<now, market, ticks, daemonVars, found, answer>>

\* The list is served when the loop has ended, or has raised.
ServeHistory(r) ==
  /\ stage[r] \in {"backfill", "creating"}
  /\ GoIdle(r)
  /\ UNCHANGED <<now, market, ticks, rows, lastId, daemonVars, answer>>

-----------------------------------------------------------------------------
(* Management commands, and time.                                           *)

\* fetch_latest_prices.
FetchLatestPrices ==
  /\ market >= 0
  /\ Insert(market, "alpaca_rest", Exchange[market])
  /\ UNCHANGED <<now, market, ticks, daemonVars, readerVars>>

\* purge_seed_prices.
PurgeSeedPrices ==
  /\ rows' = {r \in rows : r.source # "seed"}
  /\ UNCHANGED <<now, market, ticks, lastId, daemonVars, readerVars>>

TradedIn(minute) ==
  \/ \E i \in DOMAIN ticks : ticks[i].minute = minute
  \/ \E d \in Daemons : trade[d] # None /\ trade[d].minute = minute

\* The exchange has a bar of each minute that was traded in.
Minute ==
  /\ now < MaxMinute
  /\ now' = now + 1
  /\ market' \in IF TradedIn(now) THEN {now} ELSE {market, now}
  /\ UNCHANGED <<ticks, rows, lastId, daemonVars, readerVars>>

Stream(d) == ReadBar(d) \/ StoreTrade(d) \/ PushBar(d) \/ TradeFails(d)

Read(r) ==
  \/ AskQuote(r) \/ ServeFound(r) \/ FetchLatest(r)
  \/ AskHistory(r) \/ CheckBar(r) \/ CreateBar(r) \/ ServeHistory(r)

Next ==
  \/ \E d \in Daemons : Stream(d)
  \/ \E r \in Readers : Read(r)
  \/ FetchLatestPrices \/ PurgeSeedPrices \/ Minute

Spec == Init /\ [][Next]_vars

-----------------------------------------------------------------------------
(* Properties.                                                              *)

\* The type of every variable; rows have identities of their own.
TypeOK ==
  /\ now \in 0..MaxMinute /\ market \in -1..MaxMinute
  /\ ticks \in Seq(Trade)
  /\ rows \subseteq Bar /\ lastId \in Nat
  /\ \A r, x \in rows : r.id <= lastId /\ (r.id = x.id => r = x)
  /\ pc \in [Daemons -> {"idle", "storing", "stored"}]
  /\ trade \in [Daemons -> Trade \union {None}]
  /\ seen \in [Daemons -> Bar \union {None}]
  /\ \A d \in Daemons : trade[d] = None <=> pc[d] = "idle"
  /\ stage \in [Readers -> {"idle", "found", "backfill", "creating"}]
  /\ found \in [Readers -> Quote \union {None}]
  /\ \A r \in Readers : stage[r] = "found" => found[r] # None
  /\ todo \in [Readers -> Seq(0..MaxMinute)]
  /\ \A r \in Readers : stage[r] = "creating" => todo[r] # <<>>
  /\ answer \in [Readers -> [row : Bar \union {None}, failed : BOOLEAN, asked : 0..MaxMinute,
                             newest : -1..MaxMinute, market : -1..MaxMinute] \union {None}]

\* No update is lost: while a daemon is about to write the bar it read, the row
\* is still as it read it, whatever the other daemons do.
SeenIsCurrent ==
  \A d \in Daemons : pc[d] = "storing" /\ seen[d] # None => seen[d] \in rows

HighestOf(S) == CHOOSE x \in S : \A y \in S : y <= x
LowestOf(S) == CHOOSE x \in S : \A y \in S : x <= y

\* After any interleaving of daemons, exceptions and deaths, the bars of a
\* minute account for exactly the trades stored for it: volume, high and low.
BarsAddUp ==
  \A minute \in 0..MaxMinute :
    LET bars == BarsOf(minute)
        sold == {i \in DOMAIN ticks : ticks[i].minute = minute}
    IN /\ bars = {} <=> sold = {}
       /\ SumFunction([b \in bars |-> b.volume]) = SumFunction([i \in sold |-> ticks[i].size])
       /\ bars # {} =>
            /\ HighestOf({b.high : b \in bars}) = HighestOf({ticks[i].price : i \in sold})
            /\ LowestOf({b.low : b \in bars}) = LowestOf({ticks[i].price : i \in sold})

\* A chart is never pushed a bar that is not stored: the bar a daemon is about to
\* push is one that the rows have reached, or passed.
ChartNotAhead ==
  \A d \in Daemons : pc[d] = "stored" =>
    \E r \in rows : /\ r.id = seen[d].id /\ r.ts = seen[d].ts /\ r.source = seen[d].source
                    /\ seen[d].volume <= r.volume
                    /\ seen[d].high <= r.high /\ r.low <= seen[d].low

\* What TickerQuoteView says of itself, that it returns the most recent row: no
\* live row was newer when it was asked.  And unless the fetch failed, the row
\* is not stale, or the exchange has nothing newer.
QuoteIsNewest ==
  \A r \in Readers : answer[r] # None =>
    LET a == answer[r] IN
    IF a.row = None THEN a.failed /\ a.newest = -1
    ELSE /\ a.row.source \in LIVE_SOURCES /\ a.newest <= a.row.ts
         /\ a.failed \/ a.asked - StaleAfter <= a.row.ts \/ a.market = a.row.ts

InOrder(S) == SetToSortSeq(S, LAMBDA a, b : a.ts < b.ts \/ (a.ts = b.ts /\ a.id < b.id))

\* What the indicator view reads, and what the true ranges are of.
Chronicle == InOrder(LiveRows)

Between(q, S) == AtMost(Whole(LowestOf(S)), q) /\ AtMost(q, Whole(HighestOf(S)))

\* The newest bar, seeded or live, and the volumes of the bars before it.
CurrentBar == CHOOSE r \in rows : \A x \in rows : x.ts < r.ts \/ (x.ts = r.ts /\ x.id <= r.id)

Baseline ==
  LET before == SetToSeq({r \in rows : r.ts < CurrentBar.ts})
  IN [i \in DOMAIN before |-> before[i].volume]

Suspected(volume, swing, consistency) ==
  detect_pump_pattern(volume, Baseline, swing, consistency, MIN_POST_COUNT)

\* What makes a suspicion is only volume out of line: while sentiment is calm, few
\* of the bars before had as much, fewer than one in 1 + PUMP_SCORE_THRESHOLD^2
\* (Cantelli's bound; in a short history that is none).  More volume or a larger
\* swing never clears a suspicion, more consistency never raises one.
SuspicionSound ==
  rows # {} =>
    LET volume == CurrentBar.volume IN
    /\ Suspected(volume, 0, 0) =>
         (1 + PUMP_SCORE_THRESHOLD * PUMP_SCORE_THRESHOLD)
           * Cardinality({i \in DOMAIN Baseline : Baseline[i] >= volume}) < Len(Baseline)
    /\ \A swing, consistency \in 0..2 : Suspected(volume, swing, consistency) =>
         /\ Suspected(volume + 1, swing, consistency)
         /\ Suspected(volume, -swing - 1, consistency)
         /\ consistency > 0 => Suspected(volume, swing, consistency - 1)

\* What an event is evaluated on that brings a sentiment and a signal: seeded rows count.
Context ==
  LET bars == InOrder(rows)
  IN build_evaluation_context(
       [sentiment |-> <<-4, 5>>, signal |-> "BUY", alert_type |-> None, price |-> None],
       [i \in DOMAIN bars |-> Whole(bars[i].close)], [i \in DOMAIN bars |-> Whole(bars[i].volume)])

\* A condition holds only of what could be computed, and never if its value is
\* no number where one is compared; of two numbers the operators say one thing.
\* Above the middle of the bands is above the average, and a volume that grew
\* is more than some volume before.
ConditionsSound ==
  LET context  == Context
      Holds(field, operator, number) ==
        compare(context[field], operator, [number |-> number, text |-> "BUY"], field)
      ordering == {"gt", "lt", "gte", "lte"}
      computed == {field \in NUMERIC_FIELDS \union ENUM_FIELDS : context[field] # None}
  IN /\ \A field \in (NUMERIC_FIELDS \union ENUM_FIELDS) \ computed :
          \A operator \in ordering \union {"eq", "neq", "contains"} : ~Holds(field, operator, Whole(0))
     /\ \A field \in ENUM_FIELDS, operator \in ordering : ~Holds(field, operator, Whole(0))
     /\ \A field \in NUMERIC_FIELDS \intersect computed, number \in {<<1, 2>>, Whole(3)} :
          LET less == Holds(field, "lt", number)  same == Holds(field, "eq", number)
              more == Holds(field, "gt", number)
          IN /\ Cardinality({i \in 1..3 : <<less, same, more>>[i]}) = 1
             /\ Holds(field, "gte", number) <=> ~less
             /\ Holds(field, "lte", number) <=> ~more
             /\ Holds(field, "neq", number) <=> ~same
             /\ ~Holds(field, "eq", None) /\ ~Holds(field, "neq", None)
     /\ "bollinger_position" \in computed =>
          (Holds("bollinger_position", "gt", <<1, 2>>) <=> Holds("price", "gt", context.sma_20))
     /\ Holds("volume_change", "gt", Whole(0)) =>
          \E older, newer \in rows : older.ts <= newer.ts /\ older.volume < newer.volume

\* The indicators of the stored prices stay where their definitions put them:
\* averages within the prices averaged, RSI from 0 to 100 and at 100 only
\* without a fall, bands apart only when prices differ, MACD with the trend.  The
\* suspicion of a pump follows volume, swing and consistency the way they point,
\* and what strategies compare is what was computed.
IndicatorsSound ==
  LET bars    == Chronicle
      closes  == [i \in DOMAIN bars |-> bars[i].close]
      prices  == [i \in DOMAIN bars |-> Whole(bars[i].close)]
      window  == {closes[i] : i \in {j \in DOMAIN closes : j > Len(closes) - 2}}
      rises   == \A i \in 1..Len(closes) - 1 : closes[i] <= closes[i + 1]
      falls   == \A i \in 1..Len(closes) - 1 : closes[i] >= closes[i + 1]
      index   == rsi(prices, 2)
      bands   == bollinger_bands(prices, 2)
      trend   == macd(prices, 1, 2, 2)
      range   == average_true_range(bars, 2)
  IN (\A d \in Daemons : pc[d] = "idle") /\ (\A r \in Readers : stage[r] = "idle") =>
     /\ sma(prices, 2) # None => Between(sma(prices, 2), window)
     /\ ema(prices, 2) # None => Between(ema(prices, 2), {closes[i] : i \in DOMAIN closes})
     /\ index # None =>
          /\ Between(index, {0, 100})
          /\ rises <=> index = Whole(100)
          /\ falls /\ ~rises => index[1] = 0
     /\ bands # None => (bands.variance[1] = 0 <=> Cardinality(window) = 1)
     /\ trend # None => /\ rises => AtMost(Whole(0), trend.macd)
                        /\ falls => AtMost(trend.macd, Whole(0))
                        /\ rises /\ falls => trend.signal[1] = 0
     /\ range # None => Between(range, {0, HighestOf({b.high : b \in LiveRows})
                                            - LowestOf({b.low : b \in LiveRows})})
     /\ SuspicionSound
     /\ ConditionsSound

=================================================================================

------------------------------- MODULE Analytics -------------------------------
(***************************************************************************)
(* The statistics of apps/analytics/services.py, as functions of the rows   *)
(* they read.  A signal is [id, ticker, at, signal, index, ratio], a price  *)
(* [id, ticker, at, price]; of indexes, ratios and sentiment, which are     *)
(* treated alike, the two numbers a row is ranked by are kept.  The square  *)
(* roots of the Sharpe ratio are left out.                                  *)
(***************************************************************************)
EXTENDS Fractions, FiniteSets

CONSTANTS None,       \* Python's None, of a column or a result
          SectorOf,   \* the sector of each ticker
          DayLength   \* units of time in a day

Tickers == DOMAIN SectorOf

Within(rows, start, end) == {r \in rows : start <= r.at /\ r.at <= end}
Of(rows, ticker) == {r \in rows : r.ticker = ticker}

Earliest(rows) == CHOOSE r \in rows : \A x \in rows : r.at <= x.at

\* order_by("created_at") or ("timestamp"), which leaves open how rows of one time
\* are ordered.
Ordered(rows) ==
  LET list[S \in SUBSET rows] ==
        IF S = {} THEN <<>> ELSE <<Earliest(S)>> \o list[S \ {Earliest(S)}]
  IN list[rows]

First(rows) == Ordered(rows)[1]
Latest(rows) == Last(Ordered(rows))

\* sort(key=..., reverse=True)[:limit].
Ranked(rows, key(_), limit) ==
  LET sorted == SetToSortSeq(rows, LAMBDA a, b : key(a) > key(b))
  IN SubSeq(sorted, 1, IF limit < Len(sorted) THEN limit ELSE Len(sorted))

Size(n) == IF n < 0 THEN -n ELSE n

\* Mutant: directions swapped.
Backwards(direction, delta) ==
  (direction = "up" => delta <= 0) /\ (direction = "down" => delta >= 0)

Moved(direction, delta) ==
  (direction = "up" => delta >= 0) /\ (direction = "down" => delta <= 0)

compute_top_movers(signals, start, end, limit, direction) ==
  LET rows(t) == Of({s \in Within(signals, start, end) : s.index # None}, t)
      mover(t) == [ticker |-> t, signal |-> Latest(rows(t)).signal,
                   prev_signal |-> First(rows(t)).signal,
                   delta |-> Latest(rows(t)).index - First(rows(t)).index]
      movers == {mover(t) : t \in {u \in Tickers : Cardinality(rows(u)) > 1}}
  IN Ranked({m \in movers : Moved(direction, m.delta)}, LAMBDA m : Size(m.delta), limit)

compute_sentiment_leaderboard(signals, start, end, limit) ==
  LET rows(t) == Of({s \in Within(signals, start, end) : s.ratio # None}, t)
      latest == {Latest(rows(t)) : t \in {u \in Tickers : rows(u) # {}}}
  IN Ranked({[ticker |-> s.ticker, bullish_ratio |-> s.ratio] : s \in latest},
            LAMBDA r : r.bullish_ratio, limit)

\* As the numerator and the square of the denominator of a coefficient.
pearson(x, y) ==
  LET n == Len(x)
      sum(f(_)) == FoldLeft(+, 0, [i \in 1..n |-> f(i)])
      covariance(u, v) == n * sum(LAMBDA i : u[i] * v[i]) - sum(LAMBDA i : u[i]) * sum(LAMBDA i : v[i])
      square == covariance(x, x) * covariance(y, y)
  IN IF n < 2 \/ Len(y) # n THEN None
     ELSE IF square = 0 THEN None
     ELSE [above |-> covariance(x, y), square |-> square]

\* The newest of each, as many as the shortest has; vals[-0:] is all of them.
\* On the diagonal a series that moves is 1.
compute_correlation_matrix(series) ==
  LET lengths == {Len(series[s]) : s \in DOMAIN series}
      min_len == CHOOSE n \in lengths : \A m \in lengths : n <= m
      tail(s) == IF min_len = 0 THEN s ELSE SubSeq(s, Len(s) - min_len + 1, Len(s))
  IN [a, b \in DOMAIN series |->
        IF a = b /\ pearson(tail(series[a]), tail(series[a])) # None THEN [above |-> 1, square |-> 1]
        ELSE pearson(tail(series[a]), tail(series[b]))]

compute_sector_rollup(signals, start, end) ==
  LET rows(t) == Of({s \in Within(signals, start, end) : s.index # None}, t)
      latest(sector) == {Latest(rows(t)) : t \in {u \in Tickers : SectorOf[u] = sector /\ rows(u) # {}}}
      total(S) == FoldLeft(+, 0, [i \in 1..Cardinality(S) |-> Ordered(S)[i].index])
  IN {[sector |-> sector, ticker_count |-> Cardinality(latest(sector)),
       avg_signal |-> <<total(latest(sector)), Cardinality(latest(sector))>>] :
      sector \in {x \in {SectorOf[t] : t \in Tickers} : latest(x) # {}}}

\* Of a day without prices, the last one before it, or else the last there is.
compute_signal_heatmap(signals, prices) ==
  LET seq == Ordered(prices)
      grouped(day) == {s \in signals : s.index # None /\ s.at \div DayLength = day}
      ofDay(day) == {p \in prices : p.at \div DayLength = day}
      before(day) == {p \in prices : p.at <= day * DayLength}
      reference(day) == IF ofDay(day) # {} THEN Latest(ofDay(day))
                        ELSE IF before(day) # {} THEN Latest(before(day)) ELSE Last(seq)
      days == {s.at \div DayLength : s \in {x \in signals : x.index # None}}
  IN IF prices = {} THEN {}
     ELSE {[day |-> d, count |-> Cardinality(grouped(d)),
            price_change |-> <<reference(d).price - seq[1].price, seq[1].price>>] : d \in days}

\* BreadthForecastView's history: buckets of the window, oldest first, with the
\* buys over the sells of each and up to it.
breadth_history(signals, since, bucket) ==
  LET rows(b) == {s \in signals : since <= s.at /\ s.at \div bucket = b}
      buckets == SetToSortSeq({b \in {s.at \div bucket : s \in signals} : rows(b) # {}}, <)
      count(b, signal) == Cardinality({s \in rows(b) : s.signal = signal})
      add(history, b) ==
        LET net == count(b, "BUY") - count(b, "SELL") IN
        Append(history, [bucket |-> b, net |-> net,
          cumulative |-> net + IF history = <<>> THEN 0 ELSE Last(history).cumulative])
  IN FoldLeft(add, <<>>, buckets)

-----------------------------------------------------------------------------
(* run_backtest.  The starting cash is the unit.                            *)

\* A ratio is a percentage; that of None is 0.
Ratio(s) == IF s.ratio = None THEN 0 ELSE s.ratio

BuyCondition(strategy, threshold, s) ==
  IF strategy = "signal" THEN s.signal = "BUY" ELSE Ratio(s) >= threshold

SellCondition(strategy, threshold, s) ==
  IF strategy = "signal" THEN s.signal \in {"SELL", "HOLD"} ELSE Ratio(s) <= 100 - threshold

\* Mutant: the last price before the signal.
PriceBefore(prices, from, at) ==
  LET earlier == {i \in from..Len(prices) : prices[i].at < at}
  IN IF earlier = {} THEN from ELSE CHOOSE i \in earlier : \A j \in earlier : j <= i

\* The first price not before the signal; the last one if there is none.
PriceIndex(prices, from, at) ==
  LET later == {i \in from..Len(prices) : prices[i].at >= at}
  IN IF later = {} THEN Len(prices) ELSE CHOOSE i \in later : \A j \in later : i <= j

Step(prices, strategy, threshold, state, s) ==
  LET index == PriceIndex(prices, state.index, s.at)
      price == prices[index].price
      trade(side) == [side |-> side, at |-> s.at, price |-> price]
      traded ==
        IF BuyCondition(strategy, threshold, s) /\ state.shares[1] = 0
          THEN [state EXCEPT !.shares = Times(state.cash, <<1, price>>), !.cash = Whole(0),
                             !.trades = Append(@, trade("buy"))]
        ELSE IF SellCondition(strategy, threshold, s) /\ state.shares[1] > 0
          THEN [state EXCEPT !.cash = Times(state.shares, Whole(price)), !.shares = Whole(0),
                             !.trades = Append(@, trade("sell"))]
        ELSE state
  IN [traded EXCEPT !.index = index,
                    !.equity = Append(@, Plus(traded.cash, Times(traded.shares, Whole(price))))]

Wins(trades) == {i \in DOMAIN trades : trades[i].side = "sell" /\ trades[i - 1].price < trades[i].price}

Peak(equity, i) == CHOOSE j \in 1..i : \A k \in 1..i : AtMost(equity[k], equity[j])

Fall(equity, i) ==
  LET top == equity[Peak(equity, i)]
  IN <<equity[i][1] * top[2] - top[1] * equity[i][2], top[1] * equity[i][2]>>

\* The deepest fall from a peak, as a fraction of the peak.
Drawdown(equity) ==
  FoldLeft(LAMBDA worst, i : IF AtMost(worst, Fall(equity, i)) THEN worst ELSE Fall(equity, i),
           Whole(0), [i \in DOMAIN equity |-> i])

\* The walk over the signals, along the prices.
Walk(list, seq, strategy, threshold) ==
  FoldLeft(LAMBDA state, s : Step(seq, strategy, threshold, state, s),
           [index |-> 1, cash |-> Whole(1), shares |-> Whole(0), trades |-> <<>>, equity |-> <<>>],
           list)

run_backtest(signals, prices, strategy, threshold) ==
  LET seq == Ordered(prices)
      end == Walk(Ordered(signals), seq, strategy, threshold)
      closed == {i \in DOMAIN end.trades : end.trades[i].side = "sell"}
  IN IF signals = {} \/ prices = {}
       THEN [trades |-> <<>>, equity |-> <<>>, wins |-> 0, closed |-> 0,
             max_drawdown |-> Whole(0), total_return |-> Whole(0)]
       ELSE [trades |-> end.trades, equity |-> end.equity,
             wins |-> Cardinality(Wins(end.trades)), closed |-> Cardinality(closed),
             max_drawdown |-> Drawdown(end.equity),
             total_return |-> Minus(Plus(end.cash, Times(end.shares, Whole(Last(seq).price))), Whole(1))]

=================================================================================

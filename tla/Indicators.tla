------------------------------- MODULE Indicators -------------------------------
(***************************************************************************)
(* The technical indicators of apps/market/indicators.py, as functions of a *)
(* sequence of prices, oldest first.  None stands for Python's None.        *)
(***************************************************************************)
EXTENDS Fractions

CONSTANT None

Newest(s, n) == SubSeq(s, Len(s) - n + 1, Len(s))
Rest(s, n) == SubSeq(s, n + 1, Len(s))

sma(prices, period) ==
  IF Len(prices) < period THEN None ELSE Average(Newest(prices, period))

\* Seeded with the average of the first prices.
ema(prices, period) ==
  LET step(value, price) == Plus(value, Times(<<2, period + 1>>, Minus(price, value)))
  IN IF Len(prices) < period THEN None
     ELSE FoldLeft(step, Average(SubSeq(prices, 1, period)), Rest(prices, period))

\* Wilder's smoothing, of gains and losses and of true ranges.
Smoothed(values, period) ==
  LET step(value, x) == Times(<<1, period>>, Plus(Times(Whole(period - 1), value), x))
  IN FoldLeft(step, Average(SubSeq(values, 1, period)), Rest(values, period))

Deltas(prices) == [i \in 1..Len(prices) - 1 |-> Minus(prices[i + 1], prices[i])]
Gain(d) == IF d[1] > 0 THEN d ELSE Whole(0)

\* Mutant: rises count as losses too.
Swing(d) == IF d[1] > 0 THEN d ELSE Minus(Whole(0), d)

Loss(d) == IF d[1] < 0 THEN Minus(Whole(0), d) ELSE Whole(0)

\* 100 - 100 / (1 + gain / loss), multiplied out.
rsi(prices, period) ==
  LET deltas == Deltas(prices)
      gain   == Smoothed([i \in DOMAIN deltas |-> Gain(deltas[i])], period)
      loss   == Smoothed([i \in DOMAIN deltas |-> Loss(deltas[i])], period)
      total  == Plus(gain, loss)
  IN IF Len(prices) < period + 1 THEN None
     ELSE IF loss[1] = 0 THEN Whole(100)
     ELSE <<100 * gain[1] * total[2], gain[2] * total[1]>>

\* The middle band, and the square of the deviation the bands are twice of.
bollinger_bands(prices, period) ==
  IF Len(prices) < period THEN None
  ELSE [middle |-> Average(Newest(prices, period)), variance |-> Variance(Newest(prices, period))]

macd(prices, fast, slow, signal_period) ==
  LET line(i) == Minus(ema(SubSeq(prices, 1, i), fast), ema(SubSeq(prices, 1, i), slow))
      series  == [i \in 1..Len(prices) - slow + 1 |-> line(i + slow - 1)]
  IN IF Len(prices) < slow + signal_period THEN None
     ELSE [macd |-> line(Len(prices)), signal |-> ema(series, signal_period)]

\* Of bars with a high, a low and a close.
TrueRange(bar, before) ==
  LET spans == {bar.high - bar.low, bar.high - before.close, before.close - bar.high,
                bar.low - before.close, before.close - bar.low}
  IN Whole(CHOOSE x \in spans : \A y \in spans : y <= x)

average_true_range(bars, period) ==
  IF Len(bars) < period + 1 THEN None
  ELSE Smoothed([i \in 1..Len(bars) - 1 |-> TrueRange(bars[i + 1], bars[i])], period)

=================================================================================

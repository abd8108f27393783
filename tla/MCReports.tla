-------------------------------- MODULE MCReports --------------------------------
(* Reports with one pipeline and two requests: tables that start empty, and  *)
(* histories of three tickers in two sectors that no row is added to.       *)
EXTENDS Reports, TLC

CONSTANTS t1, t2, t3, r1, r2

MCSectorOf == t1 :> "tech" @@ t2 :> "tech" @@ t3 :> "energy"

S(id, t, at, signal, index, ratio) ==
  [id |-> id, ticker |-> t, at |-> at, signal |-> signal, index |-> index, ratio |-> ratio]
P(id, t, at, price) == [id |-> id, ticker |-> t, at |-> at, price |-> price]

MCReadings == {[signal |-> "BUY", index |-> 2, ratio |-> 70]}

Kinds == {<<"BUY", 2, 70>>, <<"SELL", -1, 30>>, <<"HOLD", 1, None>>}

\* Signals and prices of the subject: what backtests are of.
Traded ==
  {[signals |-> {S(i, t1, 2 * i - 1, k[i][1], k[i][2], k[i][3]) : i \in 1..3},
    prices |-> {P(i, t1, at[i], q[i]) : i \in 1..3}] :
   k \in [1..3 -> Kinds], q \in {<<2, 3, 1>>, <<1, 4, 2>>, <<3, 2, 4>>},
   at \in {<<2, 3, 4>>}}

\* Signals and prices of several tickers: what is ranked and correlated.
Ranked3 ==
  {[signals |-> {S(1, t1, 1, "BUY", 1, 60), S(2, t2, 2, "BUY", i, 60), S(3, u, 4, "SELL", -2, j),
                 S(4, t3, 5, "HOLD", None, None)},
    prices |-> {P(1, t1, 1, 2), P(2, u, 2, 3), P(3, t2, 3, q), P(4, t2, 5, 1)}] :
   i \in {None, 0, 2}, j \in {None, 40}, u \in {t1, t2, t3}, q \in {1, 2}}

MCHistories == {[signals |-> {}, prices |-> {}]} \union Traded \union Ranked3

MCStrategies == {<<"signal", 0>>, <<"sentiment_threshold", 60>>}

MCEndpoints == r1 :> {"export", "backtest", "forecast"} @@ r2 :> {"forecast"}

=================================================================================

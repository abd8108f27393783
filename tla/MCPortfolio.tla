------------------------------- MODULE MCPortfolio -------------------------------
(* Portfolio on a small instance: requests of two users compete for one     *)
(* ticker.  The prices lie a little over and under a round number of cents, *)
(* so that every fill rounds; the starting cash buys three shares at the    *)
(* lower price and two at the higher one.                                   *)
EXTENDS Portfolio, TLC

CONSTANTS u1, u2, t1

Order(u, t, side, n) == [user |-> u, ticker |-> t, side |-> side,
                         quantity |-> n, type |-> "market", limit |-> 0]
Limit(u, t, side, n, p) == [user |-> u, ticker |-> t, side |-> side,
                            quantity |-> n, type |-> "limit", limit |-> p]

MCUsers == {u1, u2}
MCTickers == {t1}
MCPrices == {10030, 14970}
MCInitialCash == 305

MCOrders == {
  Order(u1, t1, "buy", 1), Limit(u1, t1, "buy", 2, 12000),
  Limit(u1, t1, "sell", 2, 12000), Order(u2, t1, "buy", 1) }

=================================================================================

-------------------------------- MODULE Portfolio --------------------------------
(***************************************************************************)
(* The buy and sell endpoints of apps/portfolio/views.py, run by concurrent *)
(* requests against PostgreSQL (config/settings/base.py) at its default     *)
(* isolation, READ COMMITTED.                                               *)
(*                                                                          *)
(* A request reads the latest price and checks it against its limit before  *)
(* its transaction opens; then it locks the user's Portfolio row (creating  *)
(* it if it is the first), loads the Position row, and commits the new      *)
(* position, the new cash and the Trade together.  Rows written inside a    *)
(* transaction are visible to the others at its commit, so each request     *)
(* keeps what it has read in `seen' and the tables change at Commit.        *)
(* Between any two steps prices move, other requests run, the ticker is     *)
(* deleted, or the worker dies and the database rolls the request back.     *)
(***************************************************************************)
EXTENDS Money, Sequences, SequencesExt

CONSTANTS Users, Tickers, Requests,
          Orders,            \* what a request may ask for
          Prices,            \* prices a snapshot may carry, in units
          InitialCash,       \* 100000.00 in the code, in cents
          NoRequest          \* the holder of a free row

ASSUME OrdersAssumption ==
  Orders \subseteq [user : Users, ticker : Tickers, side : {"buy", "sell"},
                    quantity : Int, type : {"market", "limit"}, limit : Int]
ASSUME PricesAssumption == Prices \subseteq Nat \ {0}
ASSUME InitialCashAssumption == InitialCash \in Nat
ASSUME NoRequestAssumption == NoRequest \notin Requests

VARIABLES
  tickers,      \* Ticker rows that exist
  latestPrice,  \* price of the newest PriceSnapshot of each ticker
  opened,       \* users that have a Portfolio row
  cash,         \* Portfolio.cash, or the cash the row would be created with
  rows,         \* Position rows that exist, as <<user, ticker>>
  quantity,     \* Position.quantity
  avgPrice,     \* Position.avg_price, in units
  trades,       \* Trade rows of each portfolio, in order
  lockedBy,     \* the request whose transaction holds the user's Portfolio row
  pc, order,    \* where each request stands, and what it asks for
  price,        \* the price a request read
  seen          \* the rows a request loaded inside its transaction

market   == <<tickers, latestPrice>>
tables   == <<opened, cash, rows, quantity, avgPrice, trades>>
requests == <<pc, order, price, seen>>
vars     == <<market, tables, lockedBy, requests>>

NoPrice == 0

InTransaction == {"locked", "loaded"}
Answered      == {"filled", "rejected", "failed"}
Stages        == {"received", "quoted"} \union InTransaction \union Answered

Key(r)  == <<order[r].user, order[r].ticker>>
Cost(r) == price[r] * order[r].quantity

Init ==
  /\ tickers = Tickers
  /\ latestPrice = [t \in Tickers |-> NoPrice]
  /\ opened = {}
  /\ cash = [u \in Users |-> InitialCash]
  /\ rows = {}
  /\ quantity = [k \in Users \X Tickers |-> 0]
  /\ avgPrice = [k \in Users \X Tickers |-> 0]
  /\ trades = [u \in Users |-> <<>>]
  /\ lockedBy = [u \in Users |-> NoRequest]
  /\ pc = [r \in Requests |-> "received"]
  /\ order \in [Requests -> Orders]
  /\ price = [r \in Requests |-> NoPrice]
  /\ seen = [r \in Requests |-> [cash |-> 0, quantity |-> 0, avg |-> 0]]

-----------------------------------------------------------------------------
(* The market the orders are quoted against.                                *)

\* A PriceSnapshot newer than the others is stored for a tracked ticker.
PublishPrice(t, p) ==
  /\ t \in tickers
  /\ latestPrice' = [latestPrice EXCEPT ![t] = p]
  /\ UNCHANGED <<tickers, tables, lockedBy, requests>>

\* on_delete=PROTECT: no committed Position or Trade row refers to the ticker.
Unreferenced(t) ==
  /\ \A u \in Users : <<u, t>> \notin rows
  /\ \A u \in Users : \A i \in 1..Len(trades[u]) : trades[u][i].ticker # t

\* DELETE of a ticker: its snapshots go with it.
DestroyTicker(t) ==
  /\ t \in tickers
  /\ Unreferenced(t)
  /\ tickers' = tickers \ {t}
  /\ latestPrice' = [latestPrice EXCEPT ![t] = NoPrice]
  /\ UNCHANGED <<tables, lockedBy, requests>>

-----------------------------------------------------------------------------
(* A request up to its transaction: validation and the quote.               *)

Marketable(o, p) ==
  o.type = "limit" => IF o.side = "buy" THEN p <= o.limit ELSE p >= o.limit

\* Mutant: a ticker without snapshots is traded at no price.
AcceptableUnpriced(o) ==
  /\ o.quantity > 0
  /\ o.ticker \in tickers
  /\ o.type = "limit" => o.limit > 0
  /\ Marketable(o, latestPrice[o.ticker])

Acceptable(o) ==
  /\ o.quantity > 0
  /\ o.ticker \in tickers
  /\ latestPrice[o.ticker] # NoPrice
  /\ o.type = "limit" => o.limit > 0
  /\ Marketable(o, latestPrice[o.ticker])

\* get_latest_price and parse_order: the price the whole request will use.
Quote(r) ==
  /\ pc[r] = "received"
  /\ Acceptable(order[r])
  /\ price' = [price EXCEPT ![r] = latestPrice[order[r].ticker]]
  /\ pc' = [pc EXCEPT ![r] = "quoted"]
  /\ UNCHANGED <<market, tables, lockedBy, order, seen>>

\* Any of the 400 answers given before the transaction.
RejectOrder(r) ==
  /\ pc[r] = "received"
  /\ ~Acceptable(order[r])
  /\ pc' = [pc EXCEPT ![r] = "rejected"]
  /\ UNCHANGED <<market, tables, lockedBy, order, price, seen>>

-----------------------------------------------------------------------------
(* The transaction.                                                         *)

\* Mutant: the row is read without select_for_update.
RowUnlocked(u) == TRUE

\* A second transaction waits for the row, or for the unique key of a row
\* that the first has inserted and not committed yet.
RowFree(u) == lockedBy[u] = NoRequest

\* Portfolio.objects.select_for_update().get_or_create(...)
LockPortfolio(r) ==
  LET u == order[r].user IN
  /\ pc[r] = "quoted"
  /\ RowFree(u)
  /\ lockedBy' = [lockedBy EXCEPT ![u] = r]
  /\ seen' = [seen EXCEPT ![r] = [cash |-> cash[u], quantity |-> 0, avg |-> 0]]
  /\ pc' = [pc EXCEPT ![r] = "locked"]
  /\ UNCHANGED <<market, tables, order, price>>

Held(k) == IF k \in rows THEN quantity[k] ELSE 0

\* Mutant: the comparison forgets the quantity.
AffordsOneShare(r) ==
  IF order[r].side = "buy" THEN price[r] <= Units(seen[r].cash)
                           ELSE order[r].quantity <= Held(Key(r))

\* The checks under the lock: enough cash to buy, enough shares to sell.
Fillable(r) ==
  IF order[r].side = "buy" THEN Cost(r) <= Units(seen[r].cash)
                           ELSE order[r].quantity <= Held(Key(r))

\* Position.objects.select_for_update(): the row, or the one to be created.
LoadPosition(r) ==
  LET k == Key(r) IN
  /\ pc[r] = "locked"
  /\ Fillable(r)
  /\ seen' = [seen EXCEPT ![r] =
                [cash |-> seen[r].cash, quantity |-> Held(k),
                 avg |-> IF k \in rows THEN avgPrice[k] ELSE price[r]]]
  /\ pc' = [pc EXCEPT ![r] = "loaded"]
  /\ UNCHANGED <<market, tables, lockedBy, order, price>>

\* Mutant: the early return of a rejection leaves the row locked.
KeepLock(u) == lockedBy

ReleasedLock(u) == [lockedBy EXCEPT ![u] = NoRequest]

\* The 400 answers given inside the atomic block return from it normally, so
\* the block commits: a Portfolio row created on the way stays.
RejectFill(r) ==
  LET u == order[r].user IN
  /\ pc[r] = "locked"
  /\ ~Fillable(r)
  /\ opened' = opened \union {u}
  /\ lockedBy' = ReleasedLock(u)
  /\ pc' = [pc EXCEPT ![r] = "rejected"]
  /\ UNCHANGED <<market, cash, rows, quantity, avgPrice, trades, order, price, seen>>

NewCash(r) ==
  LET before == Units(seen[r].cash) IN
  ToCents(IF order[r].side = "buy" THEN before - Cost(r) ELSE before + Cost(r))

NewQuantity(r) ==
  IF order[r].side = "buy" THEN seen[r].quantity + order[r].quantity
                           ELSE seen[r].quantity - order[r].quantity

\* Mutant: the average is taken over the lots, not over the shares.
UnweightedAvg(r) ==
  IF order[r].side = "buy"
    THEN RoundHalfUp(seen[r].avg * seen[r].quantity + price[r], NewQuantity(r))
    ELSE seen[r].avg

NewAvg(r) ==
  IF order[r].side = "buy"
    THEN RoundHalfUp(seen[r].avg * seen[r].quantity + Cost(r), NewQuantity(r))
    ELSE seen[r].avg

TradeOf(r) == [ticker |-> order[r].ticker, side |-> order[r].side,
               quantity |-> order[r].quantity, price |-> price[r]]

\* Mutant: the constraint is not enforced.
NoForeignKey(r) == TRUE

\* The deferred foreign keys of Position and Trade, checked at commit.
TickerStillExists(r) == order[r].ticker \in tickers

\* position.save(), or position.delete() once nothing is left.
RowsAfter(r) ==
  IF NewQuantity(r) = 0 THEN rows \ {Key(r)} ELSE rows \union {Key(r)}

\* Position, Portfolio and Trade are written and the block commits.
Commit(r) ==
  LET u == order[r].user IN
  /\ pc[r] = "loaded"
  /\ TickerStillExists(r)
  /\ opened' = opened \union {u}
  /\ cash' = [cash EXCEPT ![u] = NewCash(r)]
  /\ rows' = RowsAfter(r)
  /\ quantity' = [quantity EXCEPT ![Key(r)] = NewQuantity(r)]
  /\ avgPrice' = [avgPrice EXCEPT ![Key(r)] = NewAvg(r)]
  /\ trades' = [trades EXCEPT ![u] = Append(@, TradeOf(r))]
  /\ lockedBy' = ReleasedLock(u)
  /\ pc' = [pc EXCEPT ![r] = "filled"]
  /\ UNCHANGED <<market, order, price, seen>>

\* The foreign key check fails at commit: an exception, and a rollback.
RollBack(r) ==
  /\ pc[r] = "loaded"
  /\ ~TickerStillExists(r)
  /\ lockedBy' = ReleasedLock(order[r].user)
  /\ pc' = [pc EXCEPT ![r] = "failed"]
  /\ UNCHANGED <<market, tables, order, price, seen>>

\* The worker or its connection dies; the database rolls back what is open.
Crash(r) ==
  /\ pc[r] \notin Answered
  /\ lockedBy' = IF pc[r] \in InTransaction THEN ReleasedLock(order[r].user)
                                            ELSE lockedBy
  /\ pc' = [pc EXCEPT ![r] = "failed"]
  /\ UNCHANGED <<market, tables, order, price, seen>>

\* get_portfolio in the read-only views, and the sign-up adapter: one
\* autocommitted get_or_create, which waits for an uncommitted row.
OpenPortfolio(u) ==
  /\ u \notin opened
  /\ RowFree(u)
  /\ opened' = opened \union {u}
  /\ UNCHANGED <<market, cash, rows, quantity, avgPrice, trades, lockedBy, requests>>

-----------------------------------------------------------------------------
Serve(r) ==
  \/ Quote(r) \/ RejectOrder(r)
  \/ LockPortfolio(r) \/ LoadPosition(r) \/ RejectFill(r)
  \/ Commit(r) \/ RollBack(r)

Next ==
  \/ \E r \in Requests : Serve(r) \/ Crash(r)
  \/ \E u \in Users : OpenPortfolio(u)
  \/ \E t \in Tickers : DestroyTicker(t) \/ \E p \in Prices : PublishPrice(t, p)

\* A request thread keeps running; nobody has to crash, trade or publish.
Fairness == \A r \in Requests : WF_vars(Serve(r))

SafeSpec == Init /\ [][Next]_vars
Spec == SafeSpec /\ Fairness

-----------------------------------------------------------------------------
(* Properties.                                                              *)

Seen == [cash : Int, quantity : Int, avg : Int]
TradeRow == [ticker : Tickers, side : {"buy", "sell"},
             quantity : Nat \ {0}, price : Nat \ {0}]

\* The type of every variable.
TypeOK ==
  /\ tickers \subseteq Tickers
  /\ latestPrice \in [Tickers -> Prices \union {NoPrice}]
  /\ opened \subseteq Users
  /\ cash \in [Users -> Int]
  /\ rows \subseteq Users \X Tickers
  /\ quantity \in [Users \X Tickers -> Int]
  /\ avgPrice \in [Users \X Tickers -> Int]
  /\ trades \in [Users -> Seq(TradeRow)]
  /\ lockedBy \in [Users -> Requests \union {NoRequest}]
  /\ pc \in [Requests -> Stages]
  /\ order \in [Requests -> Orders]
  /\ price \in [Requests -> Prices \union {NoPrice}]
  /\ seen \in [Requests -> Seen]

\* Money and shares are never overdrawn whatever requests race: no cash
\* balance is negative, and a Position row always holds at least one share
\* of a ticker that still exists, in a portfolio that exists.
Solvent ==
  /\ \A u \in Users : cash[u] >= 0
  /\ \A u \in Users, t \in Tickers : <<u, t>> \in rows =>
       quantity[<<u, t>>] > 0 /\ u \in opened /\ t \in tickers

\* While a transaction is open no other request of the same user is inside one,
\* and the rows it has loaded are still the committed ones, so the cash and the
\* position it is about to write are computed from current values.
Isolated(r) ==
  /\ pc[r] \in {"quoted"} \union InTransaction =>
       price[r] \in Prices /\ order[r].quantity > 0
  /\ pc[r] \in InTransaction =>
       lockedBy[order[r].user] = r /\ seen[r].cash = cash[order[r].user]
  /\ pc[r] = "loaded" => seen[r].quantity = Held(Key(r)) /\ Fillable(r)

TransactionIsolated == \A r \in Requests : Isolated(r)

Signed(trade, amount) == IF trade.side = "buy" THEN amount ELSE -amount

\* The sum of a sequence of amounts.
Total(amounts) == FoldLeft(LAMBDA sum, x : sum + x, 0, amounts)

SharesIn(trade, t) == IF trade.ticker = t THEN Signed(trade, trade.quantity) ELSE 0

SharesTraded(u, t) ==
  Total([i \in DOMAIN trades[u] |-> SharesIn(trades[u][i], t)])

Value(trade) == trade.price * trade.quantity

Spent(u) ==
  Total([i \in DOMAIN trades[u] |-> Signed(trades[u][i], Value(trades[u][i]))])

\* Every share owned is accounted for by the trade history: no concurrent
\* buy or sell of the same user is lost or counted twice.
HoldingsMatchTrades ==
  \A u \in Users, t \in Tickers : Held(<<u, t>>) = SharesTraded(u, t)

\* The cash differs from the starting cash less what the trade history spent
\* by at most half a cent per trade, the rounding of DECIMAL(14,2).
CashMatchesTrades ==
  \A u \in Users :
    LET drift == Units(cash[u]) - (Units(InitialCash) - Spent(u)) IN
    /\ 2 * drift <= UnitsPerCent * Len(trades[u])
    /\ -2 * drift <= UnitsPerCent * Len(trades[u])

\* Cash moves only together with one new trade of the same user, by the value
\* of that trade to within half a cent.
CashMovesWithTrade ==
  [][\A u \in Users : cash'[u] # cash[u] =>
       /\ trades'[u] # <<>>
       /\ LET trade == trades'[u][Len(trades'[u])]
              error == Units(cash'[u] - cash[u]) + Signed(trade, Value(trade)) IN
          /\ trades'[u] = Append(trades[u], trade)
          /\ 2 * error <= UnitsPerCent /\ -2 * error <= UnitsPerCent]_vars

\* What the user ever paid for a share of the ticker.
Paid(u, t) ==
  {trades[u][i].price : i \in {j \in DOMAIN trades[u] :
     trades[u][j].ticker = t /\ trades[u][j].side = "buy"}}

\* A position's average cost lies between the lowest and the highest price
\* its owner ever paid for the ticker, through every partial sale, sell-out
\* and re-entry, and through the rounding at each purchase.
AvgPriceWithinPaid ==
  \A u \in Users, t \in Tickers : <<u, t>> \in rows =>
    /\ \E p \in Paid(u, t) : p <= avgPrice[<<u, t>>]
    /\ \E p \in Paid(u, t) : avgPrice[<<u, t>>] <= p

\* A request that has reached the server is answered: no early return leaves
\* the portfolio row locked for those behind it.
EveryOrderAnswered == \A r \in Requests : <>(pc[r] \in Answered)

\* The endpoints implement atomic fills of one account.
Shares == [k \in Users \X Tickers |-> Held(k)]
Quantities == {o.quantity : o \in Orders} \ {0}
Account == INSTANCE Accounts WITH shares <- Shares
AccountSpec == Account!Spec

=================================================================================

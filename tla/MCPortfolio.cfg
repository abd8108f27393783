SPECIFICATION Spec
CONSTANTS
  u1 = u1
  u2 = u2
  t1 = t1
  Users <- MCUsers
  Tickers <- MCTickers
  Prices <- MCPrices
  InitialCash <- MCInitialCash
  Orders <- MCOrders
  NoRequest = NoRequest
  Requests = {r1, r2, r3}
INVARIANT TypeOK
INVARIANT Solvent
INVARIANT TransactionIsolated
INVARIANT HoldingsMatchTrades
INVARIANT CashMatchesTrades
INVARIANT AvgPriceWithinPaid
PROPERTY AccountSpec
PROPERTY EveryOrderAnswered
CHECK_DEADLOCK FALSE

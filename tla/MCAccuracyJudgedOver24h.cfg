SPECIFICATION Spec
CONSTANTS
  Signals = {s1, s2}
  Evaluators = {e1, e2}
  Prices <- MCPrices
  Exchange <- MCExchange
  Predictions = {"BUY"}
  Tolerance = 1
  ShortHorizon = 3
  LongHorizon = 6
  MaxTime = 5
  LastCrash = 4
  MaxBars = 3
  NoSignal = NoSignal
CHECK_DEADLOCK FALSE
INVARIANT JudgedOver24h

SPECIFICATION StreamSpec
CONSTANTS
  c1 = c1
  c2 = c2
  AAPL = AAPL
  MSFT = MSFT
  Charts <- MCCharts
  Symbols <- MCSymbols
  SymbolOf <- MCSymbolOf
  Monitors = {monitor, next}
  Lifetime = 1
  MaxSilence = 1
INVARIANT StreamTypeOK
INVARIANT OpenChartsKept
PROPERTY VisibleStreamed

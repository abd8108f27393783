SPECIFICATION StreamSpec
CONSTANTS
  c1 = c1
  c2 = c2
  AAPL = AAPL
  MSFT = MSFT
  Charts <- MCCharts
  Symbols <- MCSymbols
  SymbolOf <- MCSymbolOf
  Monitors = {monitor}
  Lifetime = 2
  MaxSilence = 3
PROPERTY VisibleStreamed

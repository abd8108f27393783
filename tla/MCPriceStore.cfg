SPECIFICATION Spec
CONSTANTS
  None = None
  Daemons = {d1, d2}
  Readers = {reader}
  Trades <- MCTrades
  Exchange <- MCExchange
  Seeds <- MCSeeds
  StaleAfter = 0
  PUMP_SCORE_THRESHOLD = 3
  MIN_BASELINE_SAMPLES = 2
  MIN_POST_COUNT = 1
  SMA_PERIOD = 2
  EMA_PERIOD = 2
  RSI_PERIOD = 2
  MACD_FAST = 1
  MACD_SLOW = 2
  MACD_SIGNAL = 2
  PartOf <- MCPartOf
  MaxMinute = 1
  MaxTicks = 3
  MaxRows = 4
SYMMETRY MCSymmetry
CHECK_DEADLOCK FALSE
INVARIANT TypeOK
INVARIANT SeenIsCurrent
INVARIANT BarsAddUp
INVARIANT QuoteIsNewest
INVARIANT IndicatorsSound

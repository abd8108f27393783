SPECIFICATION Spec
CONSTANTS
  None = None
  t1 = t1
  t2 = t2
  t3 = t3
  SectorOf <- MCSectorOf
  DayLength = 3
  Pipelines = {p}
  r1 = r1
  r2 = r2
  Requests = {r1, r2}
  Endpoints <- MCEndpoints
  Subject = t1
  Histories <- MCHistories
  Readings <- MCReadings
  Quotes = {3}
  Windows = {2, 9}
  Strategies <- MCStrategies
  MAX_EXPORT_ROWS = 2
  MinHistory = 2
  CacheTTL = 2
  MaxTime = 6
  MaxRows = 2
CHECK_DEADLOCK FALSE
INVARIANT TypeOK
INVARIANT BacktestReconciles
INVARIANT StatisticsSound
INVARIANT ExportExplained
INVARIANT ModelLoadedOnce
PROPERTY ForecastsAnswered

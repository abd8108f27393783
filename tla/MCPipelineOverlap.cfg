SPECIFICATION Spec
CONSTANTS
  w1 = w1
  w2 = w2
  settings = settings
  database = database
  redis = redis
  Workers <- MCWorkers
  Caches = {redis}
  CacheOf <- MCCacheOf
  Entries = {settings}
  ExpiringEntries = {settings}
  BeatPeriod = 15
  ExpiresAfter = 1
  LockTimeout = 10
  NumSymbols = 2
  MaxRun = 20
  MaxQueue = 1
  NoWorker = NoWorker
INVARIANT NoOverlap

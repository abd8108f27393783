SPECIFICATION Spec
CONSTANTS
  Workers = {worker}
  Streams = {stream}
  Posts = {p1, p2}
  Stories = {p1}
  Readings <- MCReadings
  MinPosts = 2
  PumpPosts = 2
  Cooldown = 2
  MaxCrashes = 1
INVARIANT TypeOK
INVARIANT CountedAreAggregated
INVARIANT SnapshotsExplained
INVARIANT AlertsBounded
PROPERTY EveryPostScored

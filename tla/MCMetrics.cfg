\* Two handlers, two events that may each be delivered twice, a ring of three slots.
CONSTANTS
  Handlers = {h1, h2}
  Events <- TwoEvents
  Size = 3
  Latencies <- FourLatencies
  LongestWindow = 0
  Retention = 1
  CleanupPeriod = 0
  MaxDeliveries = 2
  MaxTime = 2
SPECIFICATION Spec
SYMMETRY Symmetry
VIEW View
INVARIANTS  SeriesComplete LatencyStatsSound QueriesCover

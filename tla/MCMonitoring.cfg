\* Windows of one and two seconds, two metrics, alerts evaluated every second.
CONSTANTS
  Windows = {1, 2}
  EvalEvery = 1
  MinRequests = 0
  P95s = {0, 150}
  KeepResolved = 2
  RecentLimit = 1
  MaxTime = 2
  MaxTraffic = 2
SPECIFICATION LiveSpec
INVARIANTS WindowCovers  AlertsNotLost
PROPERTIES AlertsSettle SnapshotPessimistic

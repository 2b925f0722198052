\* Everything at once: concurrent calls, statistics and eviction of a key.
CONSTANTS
  Keys = {Global, k1}
  Global = Global
  Procs = {p1, p2}
  Buckets = {b1, b2, b3, b4}
  Costs = {1, 2}
  BucketSize = 2
  UnitsPerToken = 1
  StaleDuration = 0
  MaxTime = 1
  None = None
SPECIFICATION Spec
SYMMETRY Symmetry
VIEW TokenView
INVARIANTS TypeOK SpentOnce SharedBucket

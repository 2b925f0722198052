\* One call at a time on each key.
CONSTANTS
  Keys = {Global, k1}
  Global = Global
  Procs = {p1, p2}
  Buckets = {b1, b2, b3}
  Costs = {1, 2}
  BucketSize = 2
  UnitsPerToken = 2
  StaleDuration = 1
  MaxTime = 4
  None = None
SPECIFICATION SerialSpec
SYMMETRY Symmetry
INVARIANTS RateRespected DeniedOnlyWhenBusy

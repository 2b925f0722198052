\* Two instances, an L2, an invalidation or a refresh: what TTLs alone guarantee.
CONSTANTS
  Nodes = {n1, n2}
  Keys = {k1}
  Procs = {p1}
  Fillers = {f1}
  Requests <- ByKey
  TTLs = {0}
  DefaultTTL = 0
  MaxTTL = 0
  MaxEntries = 1
  L2Enabled = TRUE
  MaxVersion = 1
  MaxEvents = 1
  MaxFaults = 0
  None = None
SPECIFICATION LiveSpec
VIEW LiveView
PROPERTIES EventuallyFresh

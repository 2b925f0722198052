\* Violated: an instance without the key does not tell the others.
CONSTANTS
  Nodes = {n1, n2}
  Keys = {k1}
  Procs = {p1}
  Fillers = {f1}
  Requests <- ByKey
  TTLs = {0}
  DefaultTTL = 0
  MaxTTL = 0
  MaxEntries = 1
  L2Enabled = FALSE
  MaxVersion = 1
  MaxEvents = 1
  MaxFaults = 0
  None = None
SPECIFICATION Spec
SYMMETRY Symmetry
INVARIANTS RequestedInvalidationsReach

\* Two instances that share an L2, invalidations and refreshes, and one failure,
\* redelivery or restart anywhere.
CONSTANTS
  Nodes = {n1, n2}
  Keys = {k1}
  Procs = {p1}
  Fillers = {f1}
  Requests <- ByPattern
  TTLs = {1}
  DefaultTTL = 1
  MaxTTL = 1
  MaxEntries = 1
  L2Enabled = TRUE
  MaxVersion = 1
  MaxEvents = 1
  MaxFaults = 1
  None = None
SPECIFICATION Spec
SYMMETRY Symmetry
VIEW SafetyView
INVARIANTS ServedWithinTTL PublishedInvalidationsReach

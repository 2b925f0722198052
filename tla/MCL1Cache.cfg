\* Two goroutines on a cache of capacity one: every interleaving of Get, Set,
\* purge, eviction and deletion of two keys, at and around the expiry instant.
CONSTANTS
  Keys = {k1, k2}
  Values = {v1, v2}
  Procs = {p1, p2}
  Entries = {e1, e2, e3}
  Patterns = {{k1, k2}}
  TTLs = {0}
  MaxEntries = 1
  MaxTime = 1
  None = None
  Torn = Torn
SPECIFICATION Spec
SYMMETRY Symmetry
VIEW View
INVARIANTS TypeOK LockDiscipline ListMapConsistent HeldEntryKeepsKey GetIsRegular GetNotExpired
PROPERTIES RefinesAbstractCache

\* Three keys on a cache of capacity two: the recency order.
CONSTANTS
  Keys = {k1, k2, k3}
  Values = {v1}
  Procs = {p1, p2}
  Entries = {e1, e2, e3, e4}
  Patterns = {{k1, k2}, {k3}}
  TTLs = {0}
  MaxEntries = 2
  MaxTime = 0
  None = None
  Torn = Torn
SPECIFICATION Spec
SYMMETRY Symmetry
VIEW View
INVARIANTS CapacityBound
PROPERTIES LRUOrder

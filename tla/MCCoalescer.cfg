\* Three callers, two keys, Forget and Clear: shared results, stampede
\* protection, and nobody waits for ever.
CONSTANTS
  Keys = {k1, k2}
  Callers = {p1, p2, p3}
  Calls = {c1, c2, c3}
  Results = {r1, r2}
  None = None
SPECIFICATION LiveSpec
VIEW View
INVARIANTS OneExecutionPerKey CoalescedResult JoinableIsLed
PROPERTIES EveryCallerReturns RefinesAbstractCoalescer

\* Two workers, three tasks for two keys, a queue of two, one retry; a timeout
\* that is just the threshold, so that the stop may be pulled and may not be.
CONSTANTS
  user = user
  posts = posts
  other = other
  Keys = {user, posts, other}
  keyDepth <- Depth
  Alphabetic <- Order
  Slowness <- Slow
  PlanCap = 3
  Requests <- TwoRequests
  Workers = {w1, w2}
  Clients = {c1, c2}
  QueueSize = 2
  RetryAttempts = 1
  OriginTimeout = 2
  EmergencyThreshold = 2
  Delays = {0, 1}
  None = None
SPECIFICATION LiveSpec
VIEW View
CHECK_DEADLOCK FALSE
INVARIANTS  OneOutcome WarmedBeforeSuccess StopIsRespected
PROPERTIES  ShutdownReturns

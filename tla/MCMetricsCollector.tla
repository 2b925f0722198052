-------------------------- MODULE MCMetricsCollector --------------------------
EXTENDS Queries

\* A hit with its latency, and an invalidation of two keys.
TwoEvents ==
  {[topic |-> "cache", op |-> "get", hit |-> TRUE, latency |-> TRUE],
   [topic |-> "invalidation", keys |-> 2]}

\* At the edges of histogram buckets, the later ones out of order.
FourLatencies == <<5, 1, 1000, 0>>

\* Without what is dead: the result of a disturbed GetAll, the locals of a
\* handler that is not in Add, the last event of an idle one.
View ==
  <<now, sent, deliveries, counters, ringVars, seriesVars, pc, todo,
    [h \in Handlers |-> IF InAdd(h) THEN my[h] ELSE << >>],
    [h \in Handlers |-> IF pc[h] = "idle" THEN << >> ELSE cur[h]],
    rpc, IF rpc = "done" THEN << >> ELSE <<rhead, ri>>,
    IF disturbed THEN << >> ELSE result, disturbed>>

Symmetry == Permutations(Handlers)
===============================================================================

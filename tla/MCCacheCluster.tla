---------------------------- MODULE MCCacheCluster ---------------------------
(* Instances of CacheCluster for TLC. *)
EXTENDS CacheCluster, TLC

Symmetry == Permutations(Nodes) \cup Permutations(Procs) \cup Permutations(Fillers)

\* One key by name, or all by a pattern.
ByKey == {[keys |-> {k}, pattern |-> {}] : k \in Keys}
ByPattern == {[keys |-> {}, pattern |-> Keys]}

\* Leave out the history variables a run does not look at: they neither enable
\* nor disable a step.
Bare(c) == IF c = None THEN None ELSE <<c.ver, c.exp, c.ttl>>
BareEvents(n) == {IF e.kind = "refresh" THEN <<e.kind, e.id, e.key, e.ver, e.ttl>>
                  ELSE <<e.kind, e.id, e.keys, e.pattern>> : e \in pending[n]}
LiveView ==
  <<origin, [n \in Nodes |-> [k \in Keys |-> Bare(l1[n][k])]], [k \in Keys |-> Bare(l2[k])], l2ttl,
    inflight, pc, at, key, [p \in Procs |-> Bare(ent[p])],
    [p \in Procs |-> IF req[p] = None THEN None ELSE <<req[p].keys, req[p].pattern>>], left, found,
    [f \in Fillers |-> IF fills[f] = None THEN None
                       ELSE <<fills[f].at, fills[f].key, Bare(fills[f].copy)>>],
    [n \in Nodes |-> BareEvents(n)], events, faults>>
SafetyView == <<store, inflight, request, fills, topic, faults, floor, published, late1>>
=============================================================================

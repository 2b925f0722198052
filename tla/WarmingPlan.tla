---------------------------- MODULE WarmingPlan ------------------------------
(***************************************************************************)
(* The warming strategies (warming/strategies.go): which of the keys of a  *)
(* request are warmed, and in which order.  A plan is a sequence of        *)
(* positions in the request's list of keys.  The pool takes tasks in the   *)
(* order of the plan and ignores their priorities, so that only the order  *)
(* matters here; sort.Slice may leave equal elements in any order, hence   *)
(* sets of plans.                                                          *)
(***************************************************************************)
EXTENDS Integers, Sequences, SequencesExt

CONSTANTS
  Keys,        \* cache keys
  keyDepth,    \* key -> number of its separators
  Alphabetic,  \* key -> its place in the order of strings
  Slowness,    \* key -> what its length and words add to the cost
  PlanCap      \* most tasks of a selective plan (1000)

ASSUME PlanAssumption ==
  /\ keyDepth \in [Keys -> Nat] /\ Alphabetic \in [Keys -> Nat] /\ Slowness \in [Keys -> Nat]
  /\ PlanCap \in Nat

Strategies == {"selective", "breadth", "priority"}

\* How many of n keys a limit leaves.
Limited(limit, n) == IF limit <= 0 \/ limit > n THEN n ELSE limit

\* The results of sort.Slice on positions 1 .. n; less is a set of pairs.
Sorts(n, less) ==
  {p \in SetToSeqs(1 .. n) : \A i, j \in 1 .. n : i < j => <<p[j], p[i]>> \notin less}

estimateFetchCost(key) == 50 + 10 * keyDepth[key] + Slowness[key]

\* The score of the i-th key, (importance * hotness * 100) / cost, in 0 .. 100.
priority(keys, i) ==
  LET n == Len(keys)
      hotness == IF i - 1 < n \div 10 THEN 2 ELSE 1
      score == ((n - i + 1) * hotness * 100) \div (n * estimateFetchCost(keys[i]))
  IN IF score > 100 THEN 100 ELSE score

\* SelectiveHotKeysStrategy.Plan: the first keys.
SelectivePlans(keys, limit) ==
  LET n == Limited(limit, Len(keys)) IN {[i \in 1 .. (IF n > PlanCap THEN PlanCap ELSE n) |-> i]}

\* Shallow keys come first, in alphabetical order among equals.
Shallower(keys, i, j) ==
  \/ keyDepth[keys[i]] < keyDepth[keys[j]]
  \/ keyDepth[keys[i]] = keyDepth[keys[j]] /\ Alphabetic[keys[i]] < Alphabetic[keys[j]]

\* mistake: the positions are cut to the limit and not sorted.
BreadthPlansUnsorted(keys, limit) == {[i \in 1 .. Limited(limit, Len(keys)) |-> i]}

\* BreadthFirstStrategy.Plan
BreadthPlans(keys, limit) ==
  LET less == {q \in (DOMAIN keys) \X (DOMAIN keys) : Shallower(keys, q[1], q[2])}
  IN {SubSeq(p, 1, Limited(limit, Len(keys))) : p \in Sorts(Len(keys), less)}

\* PriorityBasedStrategy.Plan
PriorityPlans(keys, limit) ==
  LET less == {q \in (DOMAIN keys) \X (DOMAIN keys) : priority(keys, q[1]) > priority(keys, q[2])}
  IN {SubSeq(p, 1, Limited(limit, Len(keys))) : p \in Sorts(Len(keys), less)}

Plans(strategy, keys, limit) ==
  CASE strategy = "selective" -> SelectivePlans(keys, limit)
    [] strategy = "breadth"   -> BreadthPlans(keys, limit)
    [] strategy = "priority"  -> PriorityPlans(keys, limit)
=============================================================================

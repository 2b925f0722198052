--------------------------- MODULE MCWarmingPool -----------------------------
(* Instances of WarmingPool for TLC. *)
EXTENDS WarmingPool, TLC

CONSTANTS user, posts, other

Depth == user :> 0 @@ posts :> 1 @@ other :> 0
Order == other :> 1 @@ user :> 2 @@ posts :> 3
Slow == user :> 0 @@ posts :> 100 @@ other :> 0

\* Two of three keys, the child before its parent, and the parent again.
TwoRequests ==
  {[api |-> "WarmPattern", keys |-> <<posts, user, other>>, strategy |-> None, limit |-> 2],
   [api |-> "WarmKey", keys |-> <<user>>, strategy |-> None, limit |-> 0]}

\* Without what is dead: the default strategy once no request will use it, the
\* strategy of a request with no two tasks left to compare, and which client has
\* which tasks to send.
Waiting(r) ==
  {t \in Tasks : t.request = r /\ (Contains(taskQueue, t) \/ \E c \in Clients : Contains(todo[c], t))}
View ==
  <<taskQueue, stopChan, emergencyStop,
    IF \E r \in Requests : r.api = "WarmPattern" /\ New(r) THEN defaultStrategy ELSE None,
    [r \in Requests |-> IF Cardinality(Waiting(r)) > 1 THEN strategy[r] ELSE None],
    {todo[c] : c \in Clients} \ {<<>>}, deduper, pc, task, attempt, publishing, cached, completed, accepted, dropped, lateFetches>>
=============================================================================

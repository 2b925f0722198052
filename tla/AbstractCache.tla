---------------------------- MODULE AbstractCache ----------------------------
(***************************************************************************)
(* What the cache manager relies on its L1 cache for: a lossy map.  A key  *)
(* holds the value last put under it or nothing at all; a Put may cost one *)
(* other key its value (eviction), and any keys may lose theirs at any     *)
(* time (deletion, expiry).                                                *)
(***************************************************************************)
EXTENDS FiniteSets, Naturals

CONSTANTS Keys, Values, None

VARIABLE store  \* key -> value, None where the cache has nothing

Without(s, K) == [k \in Keys |-> IF k \in K THEN None ELSE s[k]]

Init == store = [k \in Keys |-> None]

Put(k, v) ==
  \E lost \in {{}} \cup {{j} : j \in Keys \ {k}} :
    store' = [Without(store, lost) EXCEPT ![k] = v]

Drop(K) == store' = Without(store, K)

Next ==
  \/ \E k \in Keys, v \in Values : Put(k, v)
  \/ \E K \in SUBSET Keys : Drop(K)

Spec == Init /\ [][Next]_store
=============================================================================

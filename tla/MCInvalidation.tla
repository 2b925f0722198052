---------------------------- MODULE MCInvalidation ----------------------------
(***************************************************************************)
(* Three keys and four requests: two patterns, one of them with CacheKeys  *)
(* and of a shape that an L1 does not know, a regular expression, and keys *)
(* sent with a request id that was used before.                            *)
(***************************************************************************)
EXTENDS Invalidation

UserA == <<"user", "a">>
UserB == <<"user", "b">>
ItemA == <<"item", "a">>

ThreeKeys == {UserA, UserB, ItemA}

FourRequests ==
  {[id |-> 1, pattern |-> [shape |-> "prefix", text |-> "user"], keys |-> {}],
   [id |-> 2, pattern |-> [shape |-> "suffix", text |-> "a"], keys |-> {UserA, ItemA}],
   [id |-> 3, pattern |-> [shape |-> "regex", text |-> {UserB}], keys |-> {UserA, UserB}],
   [id |-> 1, pattern |-> None, keys |-> {ItemA}]}
===============================================================================

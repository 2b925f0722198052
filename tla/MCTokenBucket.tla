--------------------------- MODULE MCTokenBucket -----------------------------
(* Instances of TokenBucket for TLC. *)
EXTENDS TokenBucket, TLC

\* Goroutines and addresses are interchangeable.
Symmetry == Permutations(Procs) \cup Permutations(Buckets)

\* What is left in a bucket nothing refers to does not matter: it is made anew
\* before it is used again.
InUse == Buckets \ Free

\* Of the history, SpentOnce and SharedBucket depend on this only.
TokenView == <<now, buckets, evicting, call, evicted \ Free,
               [b \in InUse |-> <<tokens[b], lastRefill[b], spent[b] - credited[b]>>]>>
=============================================================================

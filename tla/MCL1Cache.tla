------------------------------ MODULE MCL1Cache ------------------------------
(* Instance of L1Cache for TLC. *)
EXTENDS L1Cache, TLC

\* Which entry struct, goroutine or payload is which makes no difference.
Symmetry == Permutations(Entries) \cup Permutations(Procs) \cup Permutations(Values)

\* The contents of an entry nobody can reach are never read again.
View == <<cache, lruList, [e \in Entries \ Free |-> heap[e]], mu, toDelete, now, local, ghost>>
=============================================================================

------------------------- MODULE MCRequestCoalescer --------------------------
(* Instance of RequestCoalescer for TLC. *)
EXTENDS RequestCoalescer

\* A call struct nobody can reach is never read again.
View == <<calls, [c \in Calls \ Free |-> <<result[c], done[c]>>], pc, key, call, got,
          forgotten>>
=============================================================================

-------------------------- MODULE AbstractCoalescer --------------------------
(***************************************************************************)
(* What a caller of Do relies on: a load of its key takes effect at one    *)
(* instant, for callers that have asked for that very key by then; and who *)
(* asks while one of these has yet to return may be given the same answer. *)
(***************************************************************************)
CONSTANTS Keys, Callers, Results, None

VARIABLES
  asked,   \* the key each caller has asked for, None outside Do
  answer,  \* what a load has answered it, None so far
  got      \* what Do returned to it

Init ==
  /\ asked = [p \in Callers |-> None]
  /\ answer = [p \in Callers |-> None]
  /\ got = [p \in Callers |-> None]

\* Callers for k with an answer that they have not returned yet.
Answered(k) == {p \in Callers : asked[p] = k /\ answer[p] # None /\ got[p] = None}

Ask(p, k) ==
  /\ asked[p] = None
  /\ asked' = [asked EXCEPT ![p] = k]
  /\ \E a \in {None} \cup {answer[q] : q \in Answered(k)} :
       answer' = [answer EXCEPT ![p] = a]
  /\ got' = got

Load(k, S, r) ==
  /\ S # {} /\ \A p \in S : asked[p] = k /\ answer[p] = None
  /\ answer' = [p \in Callers |-> IF p \in S THEN r ELSE answer[p]]
  /\ UNCHANGED <<asked, got>>

Give(p) ==
  /\ answer[p] # None /\ got[p] = None
  /\ got' = [got EXCEPT ![p] = answer[p]]
  /\ UNCHANGED <<asked, answer>>

Leave(p) ==
  /\ got[p] # None
  /\ asked' = [asked EXCEPT ![p] = None]
  /\ answer' = [answer EXCEPT ![p] = None]
  /\ got' = [got EXCEPT ![p] = None]

Next ==
  \/ \E p \in Callers : Give(p) \/ Leave(p) \/ \E k \in Keys : Ask(p, k)
  \/ \E k \in Keys, S \in SUBSET Callers, r \in Results : Load(k, S, r)

Spec == Init /\ [][Next]_<<asked, answer, got>>
=============================================================================

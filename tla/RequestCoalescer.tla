-------------------------- MODULE RequestCoalescer ---------------------------
(***************************************************************************)
(* The request coalescer of the cache manager                              *)
(* (cache-manager/singleflight.go): concurrent loads of the same key share *)
(* one execution of the load function.                                     *)
(*                                                                         *)
(* The map of calls is guarded by a mutex held only for the lookup and     *)
(* registration, and again for the removal of the key; the load function,  *)
(* the removal and the wake-up of the waiters are separate steps.          *)
(***************************************************************************)
EXTENDS Naturals, FiniteSets

CONSTANTS
  Keys,     \* what is loaded
  Callers,  \* goroutines that call Do
  Calls,    \* addresses of call structs; recycled by the collector
  Results,  \* what one execution of the load function may return
  None      \* no call, no result

ASSUME CoalescerAssumption == None \notin Keys \cup Callers \cup Calls \cup Results

VARIABLES
  calls,      \* the map: key -> call in flight, None where absent
  result,     \* call.val and call.err of each call struct
  done,       \* has wg.Done been called
  pc,         \* where each caller is inside Do
  key,        \* its key argument
  call,       \* the call it leads or waits for
  got,        \* what Do returned to it
  forgotten   \* history: keys that Forget or Clear removed since they last had no load under way

vars == <<calls, result, done, pc, key, call, got, forgotten>>

Steps   == {"idle", "run", "unregister", "signal", "wait", "returned"}
Leading == {"run", "unregister", "signal"}

-----------------------------------------------------------------------------
Goto(p, step) == pc' = [pc EXCEPT ![p] = step]

\* Who runs a load of k or is about to take it out of the map.
Loading(k) == {p \in Callers : pc[p] \in {"run", "unregister"} /\ key[p] = k}

\* Structs the runtime may hand out for a new call.
Free == {c \in Calls : (\A k \in Keys : calls[k] # c) /\ (\A p \in Callers : call[p] # c)}

Init ==
  /\ calls = [k \in Keys |-> None]
  /\ result = [c \in Calls |-> None]
  /\ done = [c \in Calls |-> FALSE]
  /\ pc = [p \in Callers |-> "idle"]
  /\ key = [p \in Callers |-> None]
  /\ call = [p \in Callers |-> None]
  /\ got = [p \in Callers |-> None]
  /\ forgotten = {}

(* Do, under the lock: join the call in flight, or register a new one. *)

JoinAny(p, k) ==  \* mistake: calls of different keys are mixed up
  /\ pc[p] = "idle"
  /\ \E j \in Keys : calls[j] # None /\ call' = [call EXCEPT ![p] = calls[j]]
  /\ Goto(p, "wait")
  /\ key' = [key EXCEPT ![p] = k]
  /\ UNCHANGED <<calls, result, done, got, forgotten>>

Join(p, k) ==
  /\ pc[p] = "idle"
  /\ calls[k] # None
  /\ Goto(p, "wait")
  /\ key' = [key EXCEPT ![p] = k]
  /\ call' = [call EXCEPT ![p] = calls[k]]
  /\ UNCHANGED <<calls, result, done, got, forgotten>>

LeadUnregistered(p, k) ==  \* mistake: the call is not put into the map
  /\ pc[p] = "idle"
  /\ calls[k] = None
  /\ \E c \in Free :
       /\ result' = [result EXCEPT ![c] = None]
       /\ done' = [done EXCEPT ![c] = FALSE]
       /\ call' = [call EXCEPT ![p] = c]
  /\ Goto(p, "run")
  /\ key' = [key EXCEPT ![p] = k]
  /\ UNCHANGED <<calls, got, forgotten>>

Lead(p, k) ==
  /\ pc[p] = "idle"
  /\ calls[k] = None
  /\ \E c \in Free :
       /\ calls' = [calls EXCEPT ![k] = c]
       /\ result' = [result EXCEPT ![c] = None]
       /\ done' = [done EXCEPT ![c] = FALSE]
       /\ call' = [call EXCEPT ![p] = c]
  /\ Goto(p, "run")
  /\ key' = [key EXCEPT ![p] = k]
  /\ UNCHANGED <<got, forgotten>>

(* The leader runs the load function with no lock held. *)

Run(p) ==
  /\ pc[p] = "run"
  /\ \E r \in Results : result' = [result EXCEPT ![call[p]] = r]
  /\ Goto(p, "unregister")
  /\ UNCHANGED <<calls, done, key, call, got, forgotten>>

(* It removes the key, whichever call the key has by then, ... *)

UnregisterNot(p) ==  \* mistake: the finished call stays in the map
  /\ pc[p] = "unregister"
  /\ Goto(p, "signal")
  /\ UNCHANGED <<calls, result, done, key, call, got, forgotten>>

Unregister(p) ==
  /\ pc[p] = "unregister"
  /\ calls' = [calls EXCEPT ![key[p]] = None]
  /\ forgotten' = IF \E q \in Loading(key[p]) : q # p THEN forgotten ELSE forgotten \ {key[p]}
  /\ Goto(p, "signal")
  /\ UNCHANGED <<result, done, key, call, got>>

(* ... releases the waiters and returns. *)

SignalNot(p) ==  \* mistake: wg.Done is skipped
  /\ pc[p] = "signal"
  /\ got' = [got EXCEPT ![p] = result[call[p]]]
  /\ Goto(p, "returned")
  /\ UNCHANGED <<calls, result, done, key, call, forgotten>>

Signal(p) ==
  /\ pc[p] = "signal"
  /\ done' = [done EXCEPT ![call[p]] = TRUE]
  /\ got' = [got EXCEPT ![p] = result[call[p]]]
  /\ Goto(p, "returned")
  /\ UNCHANGED <<calls, result, key, call, forgotten>>

WakeAny(p) ==  \* mistake: wg.Wait is left out
  /\ pc[p] = "wait"
  /\ got' = [got EXCEPT ![p] = result[call[p]]]
  /\ Goto(p, "returned")
  /\ UNCHANGED <<calls, result, done, key, call, forgotten>>

Wake(p) ==
  /\ pc[p] = "wait"
  /\ done[call[p]]
  /\ got' = [got EXCEPT ![p] = result[call[p]]]
  /\ Goto(p, "returned")
  /\ UNCHANGED <<calls, result, done, key, call, forgotten>>

Return(p) ==
  /\ pc[p] = "returned"
  /\ Goto(p, "idle")
  /\ key' = [key EXCEPT ![p] = None]
  /\ call' = [call EXCEPT ![p] = None]
  /\ got' = [got EXCEPT ![p] = None]
  /\ UNCHANGED <<calls, result, done, forgotten>>

(* Operations of the coalescer that the cache manager itself never calls. *)

Forget(k) ==
  /\ calls[k] # None
  /\ calls' = [calls EXCEPT ![k] = None]
  /\ forgotten' = forgotten \cup {k}
  /\ UNCHANGED <<result, done, pc, key, call, got>>

Clear ==
  /\ calls' = [k \in Keys |-> None]
  /\ forgotten' = forgotten \cup {k \in Keys : calls[k] # None}
  /\ UNCHANGED <<result, done, pc, key, call, got>>

-----------------------------------------------------------------------------
Progress(p) == Run(p) \/ Unregister(p) \/ Signal(p) \/ Wake(p) \/ Return(p)

Next ==
  \/ \E p \in Callers : Progress(p)
  \/ \E p \in Callers, k \in Keys : Join(p, k) \/ Lead(p, k)
  \/ \E k \in Keys : Forget(k)
  \/ Clear

\* The load function returns: it is bounded by the request's context.
Fairness == \A p \in Callers : WF_vars(Progress(p))

Spec == Init /\ [][Next]_vars
LiveSpec == Spec /\ Fairness

-----------------------------------------------------------------------------
TypeOK ==
  /\ calls \in [Keys -> Calls \cup {None}]
  /\ result \in [Calls -> Results \cup {None}]
  /\ done \in [Calls -> BOOLEAN]
  /\ pc \in [Callers -> Steps]
  /\ key \in [Callers -> Keys \cup {None}]
  /\ call \in [Callers -> Calls \cup {None}]
  /\ got \in [Callers -> Results \cup {None}]
  /\ forgotten \subseteq Keys

\* Stampede protection: while one caller executes the load function for a key,
\* no other does, unless Forget or Clear has cut in; and the protection is back
\* as soon as the loads that overlapped with that are over.
OneExecutionPerKey ==
  \A k \in Keys \ forgotten : \A p, q \in Callers :
    pc[p] = "run" /\ pc[q] = "run" /\ key[p] = k /\ key[q] = k => p = q

\* Even when Forget and Clear are called, every caller returns with a result of
\* the load function, and all those that share a call with the same one.
CoalescedResult ==
  \A p, q \in Callers : pc[p] = "returned" =>
    /\ got[p] \in Results
    /\ pc[q] = "returned" /\ call[p] = call[q] => got[p] = got[q]

\* A call that can be joined has not released its waiters yet, and is led by a
\* caller that will: nobody joins an abandoned call.
JoinableIsLed ==
  \A k \in Keys : calls[k] # None =>
    \E p \in Callers : pc[p] \in {"run", "unregister"} /\ call[p] = calls[k] /\ key[p] = k

\* Every call of Do returns, leader or waiter.
EveryCallerReturns == \A p \in Callers : pc[p] # "idle" ~> pc[p] = "returned"

-----------------------------------------------------------------------------
\* The coalescer as its callers see it: without calls, map and locks.
Abstract == INSTANCE AbstractCoalescer WITH
  asked <- key,
  answer <- [p \in Callers |-> IF call[p] = None THEN None ELSE result[call[p]]]

\* Whatever is joined, forgotten and recycled when: each caller returns the
\* result of one load of the key it asked for, which was over neither before it
\* asked nor before a caller it shares the load with returned.
RefinesAbstractCoalescer == Abstract!Spec
=============================================================================

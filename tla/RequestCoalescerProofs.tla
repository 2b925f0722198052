----------------------- MODULE RequestCoalescerProofs ------------------------
(***************************************************************************)
(* Proofs about RequestCoalescer, for any number of callers, keys and      *)
(* calls: type correctness, agreement on results, no abandoned call,       *)
(* stampede protection where Forget and Clear do not cut in, and the       *)
(* refinement of AbstractCoalescer.                                        *)
(***************************************************************************)
EXTENDS RequestCoalescer, TLAPS

-----------------------------------------------------------------------------
(* The inductive invariant. *)

\* A caller inside Do has a key and a call.
Frames == \A p \in Callers : pc[p] # "idle" => key[p] \in Keys /\ call[p] \in Calls

\* No two callers lead the same call.
OneLeader ==
  \A p, q \in Callers : pc[p] \in Leading /\ pc[q] \in Leading /\ call[p] = call[q] => p = q

\* A leader has not released its waiters, and has a result once the load
\* function has returned.
LeaderHolds ==
  \A p \in Callers :
    /\ pc[p] \in Leading => ~done[call[p]]
    /\ pc[p] \in {"unregister", "signal"} => result[call[p]] \in Results

\* A call whose waiters are released has a result, which is what they get.
Released ==
  \A p \in Callers :
    /\ pc[p] # "idle" /\ done[call[p]] => result[call[p]] \in Results
    /\ pc[p] = "returned" => done[call[p]] /\ got[p] = result[call[p]]

IndInv == TypeOK /\ Frames /\ OneLeader /\ LeaderHolds /\ Released /\ JoinableIsLed

\* Where Forget and Clear have not cut in, the call of a leader stays in the map
\* until the leader takes it out.
Registered ==
  \A p \in Callers :
    pc[p] \in {"run", "unregister"} /\ key[p] \notin forgotten => calls[key[p]] = call[p]

-----------------------------------------------------------------------------
\* NewRequestCoalescer: an empty map and no caller.
LEMMA IndInvInit ==
  ASSUME Init
  PROVE  IndInv /\ Registered
BY CoalescerAssumption DEF Init, IndInv, TypeOK, Frames, OneLeader, LeaderHolds, Released,
   JoinableIsLed, Registered, Steps, Leading

\* Joining a call.
LEMMA JoinPreserves ==
  ASSUME IndInv, NEW p \in Callers, NEW k \in Keys, Join(p, k)
  PROVE  IndInv'
<1>. USE DEF Join, Goto
<1>1. TypeOK' BY DEF IndInv, TypeOK, Steps
<1>2. Frames' BY DEF IndInv, TypeOK, Frames
<1>3. OneLeader' BY DEF IndInv, TypeOK, OneLeader, Leading
<1>4. LeaderHolds' BY DEF IndInv, TypeOK, LeaderHolds, Leading
<1>5. PICK q \in Callers : pc[q] \in {"run", "unregister"} /\ call[q] = calls[k]
  BY DEF IndInv, JoinableIsLed
<1>6. ~done[calls[k]] BY <1>5 DEF IndInv, LeaderHolds, Leading
<1>7. Released' BY <1>6 DEF IndInv, TypeOK, Released
<1>8. JoinableIsLed' BY DEF IndInv, TypeOK, JoinableIsLed
<1>. QED BY <1>1, <1>2, <1>3, <1>4, <1>7, <1>8 DEF IndInv

\* Registering a new call: its struct is one nobody else can reach.
LEMMA LeadPreserves ==
  ASSUME IndInv, NEW p \in Callers, NEW k \in Keys, Lead(p, k)
  PROVE  IndInv'
<1>1. PICK c \in Free :
        /\ calls' = [calls EXCEPT ![k] = c]
        /\ result' = [result EXCEPT ![c] = None]
        /\ done' = [done EXCEPT ![c] = FALSE]
        /\ call' = [call EXCEPT ![p] = c]
  BY DEF Lead
<1>2. c \in Calls /\ (\A j \in Keys : calls[j] # c) /\ (\A q \in Callers : call[q] # c)
  BY DEF Free
<1>3. /\ pc[p] = "idle" /\ pc' = [pc EXCEPT ![p] = "run"] /\ key' = [key EXCEPT ![p] = k]
      /\ got' = got /\ forgotten' = forgotten
  BY DEF Lead, Goto
<1>4. \A q \in Callers : q # p =>
        /\ pc'[q] = pc[q] /\ call'[q] = call[q] /\ key'[q] = key[q]
        /\ pc[q] # "idle" => /\ done'[call[q]] = done[call[q]]
                             /\ result'[call[q]] = result[call[q]]
  BY <1>1, <1>2, <1>3 DEF IndInv, TypeOK, Frames
<1>5. pc'[p] = "run" /\ call'[p] = c /\ key'[p] = k /\ ~done'[c]
  BY <1>1, <1>2, <1>3 DEF IndInv, TypeOK
<1>6. TypeOK' BY <1>1, <1>2, <1>3 DEF IndInv, TypeOK, Steps
<1>7. Frames' BY <1>2, <1>4, <1>5 DEF IndInv, Frames
<1>8. OneLeader' BY <1>2, <1>4, <1>5 DEF IndInv, OneLeader
<1>9. LeaderHolds' BY <1>4, <1>5 DEF IndInv, LeaderHolds, Leading
<1>10. Released' BY <1>3, <1>4, <1>5 DEF IndInv, Released
<1>11. JoinableIsLed'
  <2>. SUFFICES ASSUME NEW j \in Keys, calls'[j] # None
                PROVE  \E q \in Callers : /\ pc'[q] \in {"run", "unregister"}
                                          /\ call'[q] = calls'[j] /\ key'[q] = j
    BY DEF JoinableIsLed
  <2>1. CASE j = k BY <1>1, <1>5, <2>1 DEF IndInv, TypeOK
  <2>2. CASE j # k
    <3>1. calls'[j] = calls[j] BY <1>1, <2>2 DEF IndInv, TypeOK
    <3>2. PICK q \in Callers : /\ pc[q] \in {"run", "unregister"}
                               /\ call[q] = calls[j] /\ key[q] = j
      BY <3>1 DEF IndInv, JoinableIsLed
    <3>3. q # p BY <1>3, <3>2
    <3>. QED BY <1>4, <3>1, <3>2, <3>3
  <2>. QED BY <2>1, <2>2
<1>. QED BY <1>6, <1>7, <1>8, <1>9, <1>10, <1>11 DEF IndInv

\* The load function returns a result for the leader's own call.
LEMMA RunPreserves ==
  ASSUME IndInv, NEW p \in Callers, Run(p)
  PROVE  IndInv'
<1>1. PICK r \in Results : result' = [result EXCEPT ![call[p]] = r] BY DEF Run
<1>2. /\ pc[p] = "run" /\ pc' = [pc EXCEPT ![p] = "unregister"]
      /\ UNCHANGED <<calls, done, key, call, got, forgotten>>
  BY DEF Run, Goto
<1>3. call[p] \in Calls /\ ~done[call[p]] BY <1>2 DEF IndInv, Frames, LeaderHolds, Leading
<1>4. TypeOK' BY <1>1, <1>2 DEF IndInv, TypeOK, Steps
<1>5. Frames' BY <1>2 DEF IndInv, TypeOK, Frames
<1>6. OneLeader' BY <1>2 DEF IndInv, TypeOK, OneLeader, Leading
<1>7. LeaderHolds' BY <1>1, <1>2, <1>3 DEF IndInv, TypeOK, LeaderHolds, Leading
<1>8. Released' BY <1>1, <1>2, <1>3 DEF IndInv, TypeOK, Released
<1>9. JoinableIsLed' BY <1>2 DEF IndInv, TypeOK, JoinableIsLed
<1>. QED BY <1>4, <1>5, <1>6, <1>7, <1>8, <1>9 DEF IndInv

\* The leader removes the key; its own call is not in the map any more then.
LEMMA UnregisterPreserves ==
  ASSUME IndInv, NEW p \in Callers, Unregister(p)
  PROVE  IndInv'
<1>. USE DEF Unregister, Goto
<1>1. TypeOK' BY DEF IndInv, TypeOK, Steps
<1>2. Frames' BY DEF IndInv, TypeOK, Frames
<1>3. OneLeader' BY DEF IndInv, TypeOK, OneLeader, Leading
<1>4. LeaderHolds' BY DEF IndInv, TypeOK, LeaderHolds, Leading
<1>5. Released' BY DEF IndInv, TypeOK, Released
<1>6. JoinableIsLed'
  <2>. SUFFICES ASSUME NEW k \in Keys, calls'[k] # None
                PROVE  \E q \in Callers : /\ pc'[q] \in {"run", "unregister"}
                                          /\ call'[q] = calls'[k] /\ key'[q] = k
    BY DEF JoinableIsLed
  <2>1. k # key[p] /\ calls'[k] = calls[k] BY DEF IndInv, TypeOK
  <2>2. PICK q \in Callers : /\ pc[q] \in {"run", "unregister"}
                             /\ call[q] = calls[k] /\ key[q] = k
    BY <2>1 DEF IndInv, JoinableIsLed
  <2>3. q # p BY <2>1, <2>2
  <2>. QED BY <2>1, <2>2, <2>3 DEF IndInv, TypeOK
<1>. QED BY <1>1, <1>2, <1>3, <1>4, <1>5, <1>6 DEF IndInv

\* The leader releases the waiters of its call and of no other.
LEMMA SignalPreserves ==
  ASSUME IndInv, NEW p \in Callers, Signal(p)
  PROVE  IndInv'
<1>1. /\ pc[p] = "signal" /\ pc' = [pc EXCEPT ![p] = "returned"]
      /\ done' = [done EXCEPT ![call[p]] = TRUE] /\ got' = [got EXCEPT ![p] = result[call[p]]]
      /\ UNCHANGED <<calls, result, key, call, forgotten>>
  BY DEF Signal, Goto
<1>2. call[p] \in Calls /\ result[call[p]] \in Results
  BY <1>1 DEF IndInv, Frames, LeaderHolds
<1>3. \A q \in Callers : q # p /\ pc[q] \in Leading => call[q] # call[p]
  BY <1>1 DEF IndInv, OneLeader, Leading
<1>4. TypeOK' BY <1>1, <1>2 DEF IndInv, TypeOK, Steps
<1>5. Frames' BY <1>1 DEF IndInv, TypeOK, Frames
<1>6. OneLeader' BY <1>1 DEF IndInv, TypeOK, OneLeader, Leading
<1>7. LeaderHolds'
  <2>. SUFFICES ASSUME NEW q \in Callers, pc'[q] \in Leading
                PROVE  /\ ~done'[call[q]]
                       /\ pc'[q] \in {"unregister", "signal"} => result[call[q]] \in Results
    BY <1>1 DEF LeaderHolds, Leading
  <2>1. q # p /\ pc'[q] = pc[q] BY <1>1 DEF IndInv, TypeOK, Leading
  <2>2. call[q] # call[p] /\ ~done[call[q]] BY <1>3, <2>1 DEF IndInv, LeaderHolds
  <2>3. done'[call[q]] = done[call[q]]
    BY <1>1, <2>1, <2>2 DEF IndInv, TypeOK, Frames, Leading
  <2>. QED BY <2>1, <2>2, <2>3 DEF IndInv, LeaderHolds
<1>8. Released'
  <2>. SUFFICES ASSUME NEW q \in Callers
                PROVE  /\ pc'[q] # "idle" /\ done'[call[q]] => result[call[q]] \in Results
                       /\ pc'[q] = "returned" => done'[call[q]] /\ got'[q] = result[call[q]]
    BY <1>1 DEF Released
  <2>1. CASE q = p BY <1>1, <1>2, <2>1 DEF IndInv, TypeOK
  <2>2. CASE q # p
    <3>1. pc'[q] = pc[q] /\ got'[q] = got[q] BY <1>1, <2>2 DEF IndInv, TypeOK
    <3>2. CASE call[q] = call[p] BY <1>1, <1>2, <3>1, <3>2 DEF IndInv, TypeOK, Released
    <3>3. CASE call[q] # call[p]
      <4>1. pc[q] # "idle" => done'[call[q]] = done[call[q]]
        BY <1>1, <3>3 DEF IndInv, TypeOK, Frames
      <4>. QED BY <3>1, <4>1 DEF IndInv, Released
    <3>. QED BY <3>2, <3>3
  <2>. QED BY <2>1, <2>2
<1>9. JoinableIsLed' BY <1>1 DEF IndInv, TypeOK, JoinableIsLed
<1>. QED BY <1>4, <1>5, <1>6, <1>7, <1>8, <1>9 DEF IndInv

\* A waiter takes the result of its call once it is released.
LEMMA WakePreserves ==
  ASSUME IndInv, NEW p \in Callers, Wake(p)
  PROVE  IndInv'
<1>. USE DEF Wake, Goto
<1>1. result[call[p]] \in Results BY DEF IndInv, Released
<1>2. TypeOK' BY <1>1 DEF IndInv, TypeOK, Steps
<1>3. Frames' BY DEF IndInv, TypeOK, Frames
<1>4. OneLeader' BY DEF IndInv, TypeOK, OneLeader, Leading
<1>5. LeaderHolds' BY DEF IndInv, TypeOK, LeaderHolds, Leading
<1>6. Released' BY DEF IndInv, TypeOK, Released
<1>7. JoinableIsLed' BY DEF IndInv, TypeOK, JoinableIsLed
<1>. QED BY <1>2, <1>3, <1>4, <1>5, <1>6, <1>7 DEF IndInv

\* Do returns and its frame is gone.
LEMMA ReturnPreserves ==
  ASSUME IndInv, NEW p \in Callers, Return(p)
  PROVE  IndInv'
<1>. USE DEF Return, Goto
<1>1. TypeOK' BY DEF IndInv, TypeOK, Steps
<1>2. Frames' BY DEF IndInv, TypeOK, Frames
<1>3. OneLeader' BY DEF IndInv, TypeOK, OneLeader, Leading
<1>4. LeaderHolds' BY DEF IndInv, TypeOK, LeaderHolds, Leading
<1>5. Released' BY DEF IndInv, TypeOK, Released
<1>6. JoinableIsLed' BY DEF IndInv, TypeOK, JoinableIsLed
<1>. QED BY <1>1, <1>2, <1>3, <1>4, <1>5, <1>6 DEF IndInv

\* Forget and Clear only take calls out of the map.
LEMMA ForgetPreserves ==
  ASSUME IndInv, (\E k \in Keys : Forget(k)) \/ Clear
  PROVE  IndInv'
<1>1. UNCHANGED <<result, done, pc, key, call, got>> BY DEF Forget, Clear
<1>2. \A k \in Keys : calls'[k] = None \/ calls'[k] = calls[k]
  BY DEF Forget, Clear, IndInv, TypeOK
<1>3. TypeOK' BY DEF Forget, Clear, IndInv, TypeOK
<1>4. Frames' /\ OneLeader' BY <1>1 DEF IndInv, Frames, OneLeader
<1>5. LeaderHolds' /\ Released' BY <1>1 DEF IndInv, LeaderHolds, Released
<1>6. JoinableIsLed' BY <1>1, <1>2 DEF IndInv, JoinableIsLed
<1>. QED BY <1>3, <1>4, <1>5, <1>6 DEF IndInv

\* Every step preserves the invariant.
LEMMA IndInvStep ==
  ASSUME IndInv, [Next]_vars
  PROVE  IndInv'
<1>1. CASE UNCHANGED vars
  BY <1>1 DEF vars, IndInv, TypeOK, Frames, OneLeader, LeaderHolds, Released, JoinableIsLed
<1>2. CASE \E p \in Callers : Progress(p)
  BY <1>2, RunPreserves, UnregisterPreserves, SignalPreserves, WakePreserves, ReturnPreserves
  DEF Progress
<1>3. CASE \E p \in Callers, k \in Keys : Join(p, k) \/ Lead(p, k)
  BY <1>3, JoinPreserves, LeadPreserves
<1>4. CASE (\E k \in Keys : Forget(k)) \/ Clear BY <1>4, ForgetPreserves
<1>. QED BY <1>1, <1>2, <1>3, <1>4 DEF Next

\* A leader's call stays registered unless Forget or Clear removes it: the key
\* another leader removes in the end is not the key of this one.
LEMMA RegisteredStep ==
  ASSUME IndInv, Registered, [Next]_vars
  PROVE  Registered'
<1>1. CASE UNCHANGED vars BY <1>1 DEF vars, Registered
<1>2. ASSUME NEW p \in Callers, NEW k \in Keys, Join(p, k) PROVE Registered'
  BY <1>2 DEF IndInv, TypeOK, Registered, Join, Goto
<1>3. ASSUME NEW p \in Callers, NEW k \in Keys, Lead(p, k) PROVE Registered'
  <2>1. PICK c \in Calls : /\ calls' = [calls EXCEPT ![k] = c]
                           /\ call' = [call EXCEPT ![p] = c]
    BY <1>3 DEF Lead, Free
  <2>2. /\ calls[k] = None /\ pc' = [pc EXCEPT ![p] = "run"] /\ key' = [key EXCEPT ![p] = k]
        /\ forgotten' = forgotten
    BY <1>3 DEF Lead, Goto
  <2>. SUFFICES ASSUME NEW q \in Callers, pc'[q] \in {"run", "unregister"},
                       key'[q] \notin forgotten
                PROVE  calls'[key'[q]] = call'[q]
    BY <2>2 DEF Registered
  <2>3. CASE q = p BY <2>1, <2>2, <2>3 DEF IndInv, TypeOK
  <2>4. CASE q # p
    <3>1. /\ pc[q] \in {"run", "unregister"} /\ key'[q] = key[q] /\ call'[q] = call[q]
          /\ key[q] \in Keys /\ call[q] \in Calls
      BY <2>1, <2>2, <2>4 DEF IndInv, TypeOK, Frames
    <3>2. calls[key[q]] = call[q] BY <3>1 DEF Registered
    <3>3. call[q] # None BY <3>1, CoalescerAssumption
    <3>4. key[q] # k BY <2>2, <3>2, <3>3
    <3>. QED BY <2>1, <3>1, <3>2, <3>4 DEF IndInv, TypeOK
  <2>. QED BY <2>3, <2>4
<1>4. ASSUME NEW p \in Callers, Unregister(p) PROVE Registered'
  <2>1. /\ pc[p] = "unregister" /\ calls' = [calls EXCEPT ![key[p]] = None]
        /\ pc' = [pc EXCEPT ![p] = "signal"] /\ UNCHANGED <<key, call>>
        /\ forgotten' = IF \E q \in Loading(key[p]) : q # p THEN forgotten
                        ELSE forgotten \ {key[p]}
    BY <1>4 DEF Unregister, Goto
  <2>. SUFFICES ASSUME NEW q \in Callers, pc'[q] \in {"run", "unregister"},
                       key[q] \notin forgotten'
                PROVE  calls'[key[q]] = call[q]
    BY <2>1 DEF Registered
  <2>2. q # p /\ pc[q] \in {"run", "unregister"} BY <2>1 DEF IndInv, TypeOK
  <2>3. call[q] # call[p] BY <2>1, <2>2 DEF IndInv, OneLeader, Leading
  <2>4. key[q] \notin forgotten BY <2>1, <2>2 DEF Loading
  <2>5. calls[key[q]] = call[q] BY <2>2, <2>4 DEF Registered
  <2>6. key[q] # key[p]
    <3>. SUFFICES ASSUME key[q] = key[p] PROVE FALSE OBVIOUS
    <3>1. calls[key[p]] = call[p] BY <2>1, <2>4 DEF Registered
    <3>. QED BY <2>3, <2>5, <3>1
  <2>. QED BY <2>1, <2>2, <2>5, <2>6 DEF IndInv, TypeOK, Frames
<1>5. ASSUME NEW p \in Callers, Run(p) \/ Signal(p) \/ Wake(p) \/ Return(p) PROVE Registered'
  BY <1>5 DEF Run, Signal, Wake, Return, Goto, Registered, IndInv, TypeOK
<1>6. ASSUME (\E k \in Keys : Forget(k)) \/ Clear PROVE Registered'
  <2>1. UNCHANGED <<pc, key, call>> BY <1>6 DEF Forget, Clear
  <2>2. \A k \in Keys : k \notin forgotten' => k \notin forgotten /\ calls'[k] = calls[k]
    BY <1>6 DEF Forget, Clear, IndInv, TypeOK
  <2>. QED BY <2>1, <2>2 DEF IndInv, Frames, Registered
<1>. QED BY <1>1, <1>2, <1>3, <1>4, <1>5, <1>6 DEF Next, Progress

-----------------------------------------------------------------------------
\* The invariant of the coalescer, with all of its operations in use.
THEOREM Invariance == Spec => []IndInv
BY IndInvInit, IndInvStep, PTL DEF Spec

\* Every variable keeps its type under Do, Forget and Clear (singleflight.go).
THEOREM TypeCorrect == Spec => []TypeOK
<1>1. IndInv => TypeOK BY DEF IndInv
<1>. QED BY <1>1, Invariance, PTL

\* All the callers that share a call of Do return the same result of the load
\* function, even with Forget and Clear in use.
THEOREM ResultsAreShared == Spec => []CoalescedResult
<1>1. IndInv => CoalescedResult BY DEF IndInv, Released, CoalescedResult
<1>. QED BY <1>1, Invariance, PTL

\* Do never joins a call that nobody is going to finish.
THEOREM NoAbandonedCall == Spec => []JoinableIsLed
<1>1. IndInv => JoinableIsLed BY DEF IndInv
<1>. QED BY <1>1, Invariance, PTL

\* At most one load function runs per key unless Forget or Clear cuts in, which
\* the cache manager never does.
THEOREM StampedeProtection == Spec => []OneExecutionPerKey
<1>1. IndInv /\ Registered /\ [Next]_vars => (IndInv /\ Registered)'
  BY IndInvStep, RegisteredStep
<1>2. IndInv /\ Registered => OneExecutionPerKey
  BY DEF IndInv, OneLeader, Leading, Registered, OneExecutionPerKey
<1>3. Init => IndInv /\ Registered BY IndInvInit
<1>. QED BY <1>1, <1>2, <1>3, PTL DEF Spec

-----------------------------------------------------------------------------
(* The coalescer implements what its callers rely on. *)

\* A caller outside Do has left nothing behind.
Outside == \A p \in Callers : pc[p] = "idle" => key[p] = None /\ call[p] = None

\* The call of a leader whose load runs has no result, and a caller that has
\* not returned has none either.
NoAnswerYet ==
  \A p \in Callers :
    /\ pc[p] = "run" => result[call[p]] = None
    /\ pc[p] # "returned" => got[p] = None

\* A call loads one key.
OneKeyPerCall ==
  \A p, q \in Callers : call[p] # None /\ call[p] = call[q] => key[p] = key[q]

SharingInv == Outside /\ NoAnswerYet /\ OneKeyPerCall

\* Joining a call: its leader has the same key.
LEMMA JoinShares ==
  ASSUME IndInv, SharingInv, NEW p \in Callers, NEW k \in Keys, Join(p, k)
  PROVE  SharingInv'
<1>1. /\ pc[p] = "idle" /\ calls[k] # None /\ pc' = [pc EXCEPT ![p] = "wait"]
      /\ key' = [key EXCEPT ![p] = k] /\ call' = [call EXCEPT ![p] = calls[k]]
      /\ UNCHANGED <<calls, result, done, got, forgotten>>
  BY DEF Join, Goto
<1>2. PICK l \in Callers : /\ pc[l] \in {"run", "unregister"}
                           /\ call[l] = calls[k] /\ key[l] = k
  BY <1>1 DEF IndInv, JoinableIsLed
<1>3. Outside' BY <1>1 DEF SharingInv, Outside, IndInv, TypeOK
<1>4. NoAnswerYet' BY <1>1 DEF SharingInv, NoAnswerYet, IndInv, TypeOK
<1>5. \A q \in Callers : q # p /\ call[q] = calls[k] => key[q] = k
  BY <1>1, <1>2 DEF SharingInv, OneKeyPerCall
<1>6. \A q \in Callers : call'[q] = (IF q = p THEN calls[k] ELSE call[q])
                        /\ key'[q] = (IF q = p THEN k ELSE key[q])
  BY <1>1 DEF IndInv, TypeOK
<1>7. OneKeyPerCall' BY <1>5, <1>6 DEF SharingInv, OneKeyPerCall
<1>. QED BY <1>3, <1>4, <1>7 DEF SharingInv

\* Registering a new call: nobody else has it.
LEMMA LeadShares ==
  ASSUME IndInv, SharingInv, NEW p \in Callers, NEW k \in Keys, Lead(p, k)
  PROVE  SharingInv'
<1>1. PICK c \in Free :
        /\ calls' = [calls EXCEPT ![k] = c]
        /\ result' = [result EXCEPT ![c] = None]
        /\ done' = [done EXCEPT ![c] = FALSE]
        /\ call' = [call EXCEPT ![p] = c]
  BY DEF Lead
<1>2. c \in Calls /\ \A q \in Callers : call[q] # c BY DEF Free
<1>3. /\ pc[p] = "idle" /\ pc' = [pc EXCEPT ![p] = "run"] /\ key' = [key EXCEPT ![p] = k]
      /\ got' = got
  BY DEF Lead, Goto
<1>4. \A q \in Callers : /\ call'[q] = (IF q = p THEN c ELSE call[q])
                         /\ key'[q] = (IF q = p THEN k ELSE key[q])
                         /\ pc'[q] = (IF q = p THEN "run" ELSE pc[q])
  BY <1>1, <1>3 DEF IndInv, TypeOK
<1>5. \A d \in Calls : result'[d] = (IF d = c THEN None ELSE result[d])
  BY <1>1, <1>2 DEF IndInv, TypeOK
<1>6. Outside' BY <1>4 DEF SharingInv, Outside
<1>7. NoAnswerYet'
  BY <1>2, <1>3, <1>4, <1>5 DEF SharingInv, NoAnswerYet, IndInv, Frames
<1>8. OneKeyPerCall' BY <1>2, <1>4 DEF SharingInv, OneKeyPerCall
<1>. QED BY <1>6, <1>7, <1>8 DEF SharingInv

\* The load function returns to the one leader of its call.
LEMMA RunShares ==
  ASSUME IndInv, SharingInv, NEW p \in Callers, Run(p)
  PROVE  SharingInv'
<1>1. PICK r \in Results : result' = [result EXCEPT ![call[p]] = r] BY DEF Run
<1>2. /\ pc[p] = "run" /\ pc' = [pc EXCEPT ![p] = "unregister"]
      /\ UNCHANGED <<key, call, got>>
  BY DEF Run, Goto
<1>3. \A q \in Callers : pc'[q] = (IF q = p THEN "unregister" ELSE pc[q])
  BY <1>2 DEF IndInv, TypeOK
<1>4. \A q \in Callers : q # p /\ pc[q] = "run" => call[q] # call[p] /\ call[q] \in Calls
  BY <1>2 DEF IndInv, OneLeader, Leading, Frames
<1>5. \A q \in Callers : q # p /\ pc[q] = "run" => result'[call[q]] = result[call[q]]
  BY <1>1, <1>4 DEF IndInv, TypeOK
<1>6. Outside' BY <1>2, <1>3 DEF SharingInv, Outside
<1>7. NoAnswerYet' BY <1>2, <1>3, <1>5 DEF SharingInv, NoAnswerYet
<1>8. OneKeyPerCall' BY <1>2 DEF SharingInv, OneKeyPerCall
<1>. QED BY <1>6, <1>7, <1>8 DEF SharingInv

\* The other steps of Do, Forget and Clear.
LEMMA OthersShare ==
  ASSUME IndInv, SharingInv,
         \/ \E p \in Callers : Unregister(p) \/ Signal(p) \/ Wake(p) \/ Return(p)
         \/ (\E k \in Keys : Forget(k)) \/ Clear \/ UNCHANGED vars
  PROVE  SharingInv'
<1>1. ASSUME NEW p \in Callers, Unregister(p) PROVE SharingInv'
  BY <1>1 DEF Unregister, Goto, SharingInv, Outside, NoAnswerYet, OneKeyPerCall, IndInv, TypeOK
<1>2. ASSUME NEW p \in Callers, Signal(p) \/ Wake(p) PROVE SharingInv'
  BY <1>2 DEF Signal, Wake, Goto, SharingInv, Outside, NoAnswerYet, OneKeyPerCall, IndInv, TypeOK
<1>3. ASSUME NEW p \in Callers, Return(p) PROVE SharingInv'
  <2>1. /\ pc' = [pc EXCEPT ![p] = "idle"] /\ key' = [key EXCEPT ![p] = None]
        /\ call' = [call EXCEPT ![p] = None] /\ got' = [got EXCEPT ![p] = None]
        /\ result' = result
    BY <1>3 DEF Return, Goto
  <2>2. \A q \in Callers :
          IF q = p THEN pc'[q] = "idle" /\ key'[q] = None /\ call'[q] = None /\ got'[q] = None
          ELSE pc'[q] = pc[q] /\ key'[q] = key[q] /\ call'[q] = call[q] /\ got'[q] = got[q]
    BY <2>1 DEF IndInv, TypeOK
  <2>3. Outside' BY <2>2 DEF SharingInv, Outside
  <2>4. NoAnswerYet' BY <2>1, <2>2 DEF SharingInv, NoAnswerYet
  <2>5. OneKeyPerCall' BY <2>2 DEF SharingInv, OneKeyPerCall
  <2>. QED BY <2>3, <2>4, <2>5 DEF SharingInv
<1>4. ASSUME (\E k \in Keys : Forget(k)) \/ Clear \/ UNCHANGED vars PROVE SharingInv'
  <2>1. UNCHANGED <<result, pc, key, call, got>> BY <1>4 DEF Forget, Clear, vars
  <2>. QED BY <2>1 DEF SharingInv, Outside, NoAnswerYet, OneKeyPerCall
<1>. QED BY <1>1, <1>2, <1>3, <1>4

\* A call serves one key, and answers once: every step keeps it so.
LEMMA SharingStep ==
  ASSUME IndInv, SharingInv, [Next]_vars
  PROVE  SharingInv'
BY JoinShares, LeadShares, RunShares, OthersShare DEF Next, Progress

\* Joining a call is asking, and being given the answer of the leader if there
\* is one; the leader has not returned yet.
LEMMA JoinIsAbstract ==
  ASSUME IndInv, SharingInv, NEW p \in Callers, NEW k \in Keys, Join(p, k)
  PROVE  Abstract!Ask(p, k)
<1>1. /\ pc[p] = "idle" /\ calls[k] # None /\ calls[k] \in Calls
      /\ key' = [key EXCEPT ![p] = k] /\ call' = [call EXCEPT ![p] = calls[k]]
      /\ UNCHANGED <<result, got>>
  BY DEF Join, IndInv, TypeOK
<1>2. key[p] = None /\ call[p] = None BY <1>1 DEF SharingInv, Outside
<1>3. PICK l \in Callers : /\ pc[l] \in {"run", "unregister"}
                           /\ call[l] = calls[k] /\ key[l] = k
  BY <1>1 DEF IndInv, JoinableIsLed
<1> DEFINE a == result[calls[k]]
           ans == [q \in Callers |-> IF call[q] = None THEN None ELSE result[call[q]]]
<1>4. ans' = [ans EXCEPT ![p] = a] BY <1>1 DEF IndInv, TypeOK
<1>5. ans[l] = a BY <1>1, <1>3
<1>6. got[l] = None BY <1>3 DEF SharingInv, NoAnswerYet
<1>7. a \in {None} \cup {ans[q] : q \in {r \in Callers : key[r] = k /\ ans[r] # None /\ got[r] = None}}
  <2>. HIDE DEF ans, a
  <2>. QED BY <1>3, <1>5, <1>6
<1>8. \E b \in {None} \cup {ans[q] : q \in {r \in Callers : key[r] = k /\ ans[r] # None /\ got[r] = None}} :
        ans' = [ans EXCEPT ![p] = b]
  BY <1>4, <1>7
<1>. QED BY <1>1, <1>2, <1>8 DEF Abstract!Ask, Abstract!Answered

\* Registering a call is asking: the new call has no answer.
LEMMA LeadIsAbstract ==
  ASSUME IndInv, SharingInv, NEW p \in Callers, NEW k \in Keys, Lead(p, k)
  PROVE  Abstract!Ask(p, k)
<1>1. PICK c \in Free : /\ result' = [result EXCEPT ![c] = None]
                        /\ call' = [call EXCEPT ![p] = c]
  BY DEF Lead
<1>2. c \in Calls /\ c # None /\ \A q \in Callers : call[q] # c
  BY CoalescerAssumption DEF Free
<1>3. pc[p] = "idle" /\ key' = [key EXCEPT ![p] = k] /\ got' = got BY DEF Lead
<1>4. key[p] = None BY <1>3 DEF SharingInv, Outside
<1> DEFINE ans == [q \in Callers |-> IF call[q] = None THEN None ELSE result[call[q]]]
<1>5. ans' = [ans EXCEPT ![p] = None]
  <2>1. \A q \in Callers : call'[q] = (IF q = p THEN c ELSE call[q])
    BY <1>1 DEF IndInv, TypeOK
  <2>2. result'[c] = None BY <1>1, <1>2 DEF IndInv, TypeOK
  <2>3. \A q \in Callers : call[q] = None \/ (call[q] \in Calls /\ result'[call[q]] = result[call[q]])
    BY <1>1, <1>2 DEF IndInv, TypeOK
  <2>. QED BY <1>2, <2>1, <2>2, <2>3, ZenonT(30)
<1>6. \E a \in {None} \cup {ans[q] : q \in Abstract!Answered(k)} : ans' = [ans EXCEPT ![p] = a]
  BY <1>5
<1>. QED BY <1>3, <1>4, <1>6 DEF Abstract!Ask

\* The load function returns to everyone who has the call by then: they all
\* have the leader's key, and none of them an answer.
LEMMA RunIsAbstract ==
  ASSUME IndInv, SharingInv, NEW p \in Callers, Run(p)
  PROVE  Abstract!Next
<1>1. PICK r \in Results : result' = [result EXCEPT ![call[p]] = r] BY DEF Run
<1>2. pc[p] = "run" /\ UNCHANGED <<key, call, got>> BY DEF Run
<1>3. call[p] \in Calls /\ call[p] # None /\ key[p] \in Keys /\ result[call[p]] = None
  BY <1>2, CoalescerAssumption DEF IndInv, Frames, SharingInv, NoAnswerYet
<1> DEFINE S == {q \in Callers : call[q] = call[p]}
           ans == [q \in Callers |-> IF call[q] = None THEN None ELSE result[call[q]]]
<1>4. S \in SUBSET Callers /\ S # {} OBVIOUS
<1>5. \A q \in S : key[q] = key[p] /\ ans[q] = None
  BY <1>3 DEF SharingInv, OneKeyPerCall
<1>6. ans' = [q \in Callers |-> IF q \in S THEN r ELSE ans[q]]
  <2>1. \A c \in Calls : result'[c] = (IF c = call[p] THEN r ELSE result[c])
    BY <1>1, <1>3 DEF IndInv, TypeOK
  <2>2. \A q \in Callers : call[q] = None \/ call[q] \in Calls BY DEF IndInv, TypeOK
  <2>. QED BY <1>2, <1>3, <2>1, <2>2
<1>7. Abstract!Load(key[p], S, r)
  <2>. HIDE DEF S
  <2>. QED BY <1>2, <1>4, <1>5, <1>6 DEF Abstract!Load
<1>. HIDE DEF S
<1>. QED BY <1>1, <1>3, <1>4, <1>7 DEF Abstract!Next

\* Do returns what its call has been answered, to the leader and to a waiter.
LEMMA GiveIsAbstract ==
  ASSUME IndInv, SharingInv, NEW p \in Callers, Signal(p) \/ Wake(p)
  PROVE  Abstract!Give(p)
<1>1. /\ pc[p] \in {"signal", "wait"} /\ got' = [got EXCEPT ![p] = result[call[p]]]
      /\ UNCHANGED <<key, call, result>>
  BY DEF Signal, Wake
<1>2. call[p] \in Calls /\ call[p] # None /\ result[call[p]] \in Results
  BY <1>1, CoalescerAssumption DEF Signal, Wake, IndInv, Frames, LeaderHolds, Released
<1>3. result[call[p]] # None /\ got[p] = None
  BY <1>1, <1>2, CoalescerAssumption DEF SharingInv, NoAnswerYet
<1>. QED BY <1>1, <1>2, <1>3 DEF Abstract!Give

\* Do is over.
LEMMA ReturnIsAbstract ==
  ASSUME IndInv, NEW p \in Callers, Return(p)
  PROVE  Abstract!Leave(p)
<1>1. /\ pc[p] = "returned" /\ key' = [key EXCEPT ![p] = None]
      /\ call' = [call EXCEPT ![p] = None] /\ got' = [got EXCEPT ![p] = None]
      /\ result' = result
  BY DEF Return
<1>2. got[p] # None BY <1>1, CoalescerAssumption DEF IndInv, Released
<1> DEFINE ans == [q \in Callers |-> IF call[q] = None THEN None ELSE result[call[q]]]
<1>3. ans' = [ans EXCEPT ![p] = None] BY <1>1 DEF IndInv, TypeOK
<1>. QED BY <1>1, <1>2, <1>3 DEF Abstract!Leave

\* The coalescer implements AbstractCoalescer, Forget and Clear included: what
\* Do returns is the result of one load of the key asked for, which was over
\* neither before the caller asked nor before one it shares it with returned.
THEOREM Refinement == Spec => RefinesAbstractCoalescer
<1>1. Init => SharingInv /\ Abstract!Init
  BY DEF Init, SharingInv, Outside, NoAnswerYet, OneKeyPerCall, Abstract!Init
<1> DEFINE Seen == <<key, [p \in Callers |-> IF call[p] = None THEN None ELSE result[call[p]]], got>>
<1>2. IndInv /\ SharingInv /\ [Next]_vars => [Abstract!Next]_Seen
  <2> SUFFICES ASSUME IndInv, SharingInv, [Next]_vars PROVE Abstract!Next \/ UNCHANGED Seen
    OBVIOUS
  <2>1. CASE UNCHANGED <<key, call, result, got>> BY <2>1
  <2>2. ASSUME NEW p \in Callers, NEW k \in Keys, Join(p, k) \/ Lead(p, k) PROVE Abstract!Next
    <3>1. Abstract!Ask(p, k) BY <2>2, JoinIsAbstract, LeadIsAbstract
    <3>. QED BY <3>1 DEF Abstract!Next
  <2>3. ASSUME NEW p \in Callers, Signal(p) \/ Wake(p) \/ Return(p) PROVE Abstract!Next
    <3>1. Abstract!Give(p) \/ Abstract!Leave(p) BY <2>3, GiveIsAbstract, ReturnIsAbstract
    <3>. QED BY <3>1 DEF Abstract!Next
  <2>4. ASSUME \/ \E p \in Callers : Unregister(p)
               \/ (\E k \in Keys : Forget(k)) \/ Clear \/ UNCHANGED vars
        PROVE  UNCHANGED <<key, call, result, got>>
    BY <2>4 DEF Unregister, Forget, Clear, vars
  <2>. QED BY <2>1, <2>2, <2>3, <2>4, RunIsAbstract DEF Next, Progress
<1>3. IndInv /\ SharingInv /\ [Next]_vars => (IndInv /\ SharingInv)'
  BY IndInvStep, SharingStep
<1>4. Init => IndInv BY IndInvInit
<1>. QED
  BY <1>1, <1>2, <1>3, <1>4, PTL DEF Spec, RefinesAbstractCoalescer, Abstract!Spec
=============================================================================

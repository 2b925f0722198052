------------------------- MODULE CacheClusterProofs --------------------------
(***************************************************************************)
(* Proofs about CacheCluster, for any number of instances, keys, requests  *)
(* and events: type correctness, bounded staleness, and that a published   *)
(* invalidation reaches every instance.                                    *)
(***************************************************************************)
EXTENDS CacheCluster, TLAPS

-----------------------------------------------------------------------------
(* The inductive invariant. *)

\* A goroutine inside a handler has the arguments that the step needs.
Frames ==
  \A p \in Procs :
    /\ pc[p] # "idle" => at[p] \in Nodes
    /\ pc[p] \in {"do", "wait", "l2", "promote", "origin", "fill", "set", "inv_l2"}
         => key[p] \in Keys
    /\ pc[p] \in {"promote", "fill", "set"} => ent[p] \in Copies
    /\ pc[p] \in {"inv", "inv_l2", "inv_pattern_l2", "publish"} => req[p] \in Calls

\* The time a live copy has left and its age add up to at most the largest TTL.
Timely(c) == c # None /\ c.exp >= 0 => c.exp + c.age <= MaxTTL

TimelyL1    == \A n \in Nodes, k \in Keys : Timely(l1[n][k])
TimelyL2    == \A k \in Keys : Timely(l2[k])
TimelyHands == \A p \in Procs : Timely(ent[p])
TimelyFills == \A f \in Fillers : fills[f] # None => Timely(fills[f].copy)

\* A copy that was not late when it was stored is not older than what the
\* events its instance has handled allow.
NotBelowFloor ==
  \A n \in Nodes, k \in Keys :
    l1[n][k] # None /\ <<n, k>> \notin late1 => l1[n][k].ver >= floor[n][k]

\* An event that raises the floor of an instance to what was published is on
\* its way to the instance, unless the floor is there already.
OnItsWay ==
  \A n \in Nodes, k \in Keys :
    published[k] > floor[n][k] =>
      \E e \in pending[n] : /\ e.kind = "invalidate" /\ k \in e.keys \cup e.pattern
                            /\ e.versions[k] = published[k]

\* The invariant, by the part of the state it is about.
L1Type == l1 \in [Nodes -> [Keys -> Copies \cup {None}]] /\ late1 \subseteq Nodes \X Keys
L1Inv  == L1Type /\ TimelyL1 /\ NotBelowFloor

L2Inv  == /\ l2 \in [Keys -> Copies \cup {None}] /\ l2ttl \in [Keys -> 0 .. MaxTTL]
          /\ TimelyL2

ReqInv == /\ pc \in [Procs -> Steps] /\ at \in [Procs -> Nodes \cup {None}]
          /\ key \in [Procs -> Keys \cup {None}] /\ ent \in [Procs -> Copies \cup {None}]
          /\ req \in [Procs -> Calls \cup {None}] /\ left \in [Procs -> SUBSET Keys]
          /\ found \in [Procs -> BOOLEAN]
          /\ Frames /\ TimelyHands

FillInv == fills \in [Fillers -> Writes \cup {None}] /\ TimelyFills

TopicInv == /\ pending \in [Nodes -> SUBSET Events] /\ events \in Nat
            /\ floor \in [Nodes -> KeyVersions]
            /\ published \in KeyVersions /\ requested \in KeyVersions
            /\ OnItsWay

CoreInv == /\ origin \in KeyVersions /\ faults \in Nat
           /\ inflight \in [Nodes -> [Keys -> Procs \cup {None}]]

IndInv == L1Inv /\ L2Inv /\ ReqInv /\ FillInv /\ TopicInv /\ CoreInv

-----------------------------------------------------------------------------
(* Copies. *)

\* A fresh copy is well formed and has its whole life before it.
LEMMA CopyIsTimely ==
  ASSUME NEW v \in Versions, NEW ttl \in TTLs
  PROVE  Copy(v, ttl) \in Copies /\ Timely(Copy(v, ttl)) /\ Copy(v, ttl).ver = v
BY ClusterAssumption, SMT DEF Copy, Copies, Timely

\* A version fetched from the source is well formed and not live.
LEMMA FetchedIsTimely ==
  ASSUME NEW v \in Versions
  PROVE  Fetched(v) \in Copies /\ Timely(Fetched(v)) /\ Fetched(v).ver = v
BY ClusterAssumption, SMT DEF Fetched, Copies, Timely

\* The clock ages a copy and keeps it timely.
LEMMA AgedIsTimely ==
  ASSUME NEW c \in Copies \cup {None}, Timely(c)
  PROVE  /\ Aged(c) \in Copies \cup {None} /\ Timely(Aged(c))
         /\ c # None => Aged(c) \in Copies /\ Aged(c).ver = c.ver
         /\ c = None => Aged(c) = None
<1>1. CASE c = None BY <1>1 DEF Aged, Timely
<1>2. CASE c # None
  <2>1. c \in Copies BY <1>2
  <2>. DEFINE x == IF c.exp = -1 THEN -1 ELSE c.exp - 1
              a == IF c.age > MaxTTL THEN c.age ELSE c.age + 1
  <2>3. Aged(c) = [ver |-> c.ver, exp |-> x, age |-> a, ttl |-> c.ttl] BY <1>2 DEF Aged
  <2>4. /\ c.exp \in -1 .. MaxTTL /\ c.age \in 0 .. MaxTTL + 1
        /\ x \in -1 .. MaxTTL /\ a \in 0 .. MaxTTL + 1 /\ MaxTTL \in Nat
    BY <2>1, ClusterAssumption, SMT DEF Copies
  <2>5. x >= 0 => x + a <= MaxTTL BY <1>2, <2>4, SMT DEF Timely
  <2>6. c.ver \in Versions /\ c.ttl \in TTLs BY <2>1 DEF Copies
  <2>. HIDE DEF x, a
  <2>7. Aged(c) \in Copies BY <2>3, <2>4, <2>6 DEF Copies
  <2>8. Timely(Aged(c)) BY <2>3, <2>5 DEF Timely
  <2>. QED BY <1>2, <2>3, <2>7, <2>8
<1>. QED BY <1>1, <1>2

-----------------------------------------------------------------------------
(* The steps on one store. *)

\* Storing a timely copy in an L1, whatever is evicted.
LEMMA PutPreserves ==
  ASSUME L1Inv, floor \in [Nodes -> KeyVersions], UNCHANGED floor,
         NEW n \in Nodes, NEW k \in Keys, NEW c \in Copies, Timely(c), Put(n, k, c)
  PROVE  L1Inv'
<1>1. PICK gone : l1' = [l1 EXCEPT ![n] = [j \in Keys |-> IF j = k THEN c ELSE
                                              IF j \in gone THEN None ELSE l1[n][j]]]
  BY DEF Put
<1>2. late1' = IF c.ver < floor[n][k] THEN late1 \cup {<<n, k>>} ELSE late1 \ {<<n, k>>}
  BY DEF Put
<1>3. \A m \in Nodes, j \in Keys :
        l1'[m][j] = IF m = n THEN IF j = k THEN c ELSE IF j \in gone THEN None ELSE l1[n][j]
                    ELSE l1[m][j]
  BY <1>1 DEF L1Inv, L1Type
<1>4. L1Type' BY <1>1, <1>2 DEF L1Inv, L1Type
<1>5. TimelyL1' BY <1>3 DEF L1Inv, TimelyL1, Timely
<1>6. NotBelowFloor'
  <2>. SUFFICES ASSUME NEW m \in Nodes, NEW j \in Keys, l1'[m][j] # None, <<m, j>> \notin late1'
                PROVE  l1'[m][j].ver >= floor[m][j]
    BY DEF NotBelowFloor
  <2>1. CASE m = n /\ j = k
    <3>1. l1'[m][j] = c BY <1>3, <2>1
    <3>2. ~(c.ver < floor[n][k]) BY <1>2, <2>1
    <3>3. c.ver \in Int /\ floor[n][k] \in Int BY DEF Copies, KeyVersions, Versions
    <3>. QED BY <2>1, <3>1, <3>2, <3>3
  <2>2. CASE ~(m = n /\ j = k)
    <3>1. l1[m][j] # None /\ l1'[m][j] = l1[m][j] BY <1>3, <2>2
    <3>2. <<m, j>> \notin late1 BY <1>2, <2>2
    <3>. QED BY <3>1, <3>2 DEF L1Inv, NotBelowFloor
  <2>. QED BY <2>1, <2>2
<1>. QED BY <1>4, <1>5, <1>6 DEF L1Inv

\* Removing copies from an L1.
LEMMA RemovePreserves ==
  ASSUME L1Inv, UNCHANGED <<floor, late1>>, NEW n \in Nodes, NEW K, Remove(n, K)
  PROVE  L1Inv'
<1>1. \A m \in Nodes, j \in Keys :
        l1'[m][j] = IF m = n /\ j \in K THEN None ELSE l1[m][j]
  BY DEF Remove, L1Inv, L1Type
<1>2. L1Type' BY DEF L1Inv, L1Type, Remove
<1>3. TimelyL1' BY <1>1 DEF L1Inv, TimelyL1, Timely
<1>4. NotBelowFloor' BY <1>1 DEF L1Inv, NotBelowFloor
<1>. QED BY <1>2, <1>3, <1>4 DEF L1Inv

\* Writing a timely copy to the L2.
LEMMA PutL2Preserves ==
  ASSUME L2Inv, NEW k \in Keys, NEW c \in Copies, Timely(c), PutL2(k, c)
  PROVE  L2Inv'
<1>1. c.ttl \in 0 .. MaxTTL BY ClusterAssumption DEF Copies
<1>2. \A j \in Keys : l2'[j] = IF j = k THEN c ELSE l2[j] BY DEF PutL2, L2Inv
<1>3. TimelyL2' BY <1>2 DEF L2Inv, TimelyL2, Timely
<1>. QED BY <1>1, <1>3 DEF PutL2, L2Inv

\* Removing copies from the L2.
LEMMA RemoveL2Preserves ==
  ASSUME L2Inv, NEW K, RemoveL2(K)
  PROVE  L2Inv'
<1>1. \A j \in Keys : l2'[j] = IF j \in K THEN None ELSE l2[j] BY DEF RemoveL2
<1>2. TimelyL2' BY <1>1 DEF L2Inv, TimelyL2, Timely
<1>3. 0 \in 0 .. MaxTTL BY ClusterAssumption
<1>. QED BY <1>2, <1>3 DEF RemoveL2, L2Inv

\* Handlers that return leave nothing behind.
LEMMA ReturnPreserves ==
  ASSUME ReqInv, NEW Q, Return(Q)
  PROVE  ReqInv'
<1>1. /\ pc' \in [Procs -> Steps] /\ at' \in [Procs -> Nodes \cup {None}]
      /\ key' \in [Procs -> Keys \cup {None}] /\ ent' \in [Procs -> Copies \cup {None}]
      /\ req' \in [Procs -> Calls \cup {None}] /\ left' \in [Procs -> SUBSET Keys]
      /\ found' \in [Procs -> BOOLEAN]
  BY DEF ReqInv, Return, Steps
<1>2. Frames' BY DEF ReqInv, Return, Frames
<1>3. TimelyHands' BY DEF ReqInv, Return, TimelyHands, Timely
<1>. QED BY <1>1, <1>2, <1>3 DEF ReqInv

\* A load that ends frees its slot in the coalescer.
LEMMA FinishPreserves ==
  ASSUME ReqInv, inflight \in [Nodes -> [Keys -> Procs \cup {None}]], NEW p \in Procs, Finish(p)
  PROVE  ReqInv' /\ inflight' \in [Nodes -> [Keys -> Procs \cup {None}]]
<1>1. inflight' = [inflight EXCEPT ![at[p]][key[p]] = None] BY DEF Finish
<1>2. inflight' \in [Nodes -> [Keys -> Procs \cup {None}]] BY <1>1
<1>3. ReqInv' BY ReturnPreserves DEF Finish
<1>. QED BY <1>2, <1>3
-----------------------------------------------------------------------------
(* The invariant holds initially, and what a step leaves alone stays true. *)

\* Empty caches, idle goroutines and empty topics satisfy the invariant.
LEMMA IndInvInit ==
  ASSUME Init
  PROVE  IndInv
<1>1. L1Inv BY DEF Init, L1Inv, L1Type, TimelyL1, Timely, NotBelowFloor
<1>2. L2Inv BY ClusterAssumption DEF Init, L2Inv, TimelyL2, Timely
<1>3. ReqInv BY DEF Init, ReqInv, Frames, TimelyHands, Timely, Steps
<1>4. FillInv BY DEF Init, FillInv, TimelyFills
<1>5. 0 \in Versions BY ClusterAssumption DEF Versions
<1>6. TopicInv BY <1>5 DEF Init, TopicInv, OnItsWay, KeyVersions
<1>7. CoreInv BY <1>5 DEF Init, CoreInv, KeyVersions
<1>. QED BY <1>1, <1>2, <1>3, <1>4, <1>6, <1>7 DEF IndInv

\* What a step leaves unchanged keeps its part of the invariant.
LEMMA Stable ==
  ASSUME IndInv
  PROVE  /\ UNCHANGED <<l1, late1, floor>> => L1Inv'
         /\ UNCHANGED <<l2, l2ttl>> => L2Inv'
         /\ UNCHANGED <<pc, at, key, ent, req, left, found>> => ReqInv'
         /\ UNCHANGED fills => FillInv'
         /\ UNCHANGED <<pending, events, floor, published, requested>> => TopicInv'
         /\ UNCHANGED <<origin, faults, inflight>> => CoreInv'
<1>1. UNCHANGED <<l1, late1, floor>> => L1Inv'
  BY DEF IndInv, L1Inv, L1Type, TimelyL1, Timely, NotBelowFloor
<1>2. UNCHANGED <<l2, l2ttl>> => L2Inv' BY DEF IndInv, L2Inv, TimelyL2, Timely
<1>3. UNCHANGED <<pc, at, key, ent, req, left, found>> => ReqInv'
  BY DEF IndInv, ReqInv, Frames, TimelyHands, Timely
<1>4. UNCHANGED fills => FillInv' BY DEF IndInv, FillInv, TimelyFills, Timely
<1>5. UNCHANGED <<pending, events, floor, published, requested>> => TopicInv'
  BY DEF IndInv, TopicInv, OnItsWay
<1>6. UNCHANGED <<origin, faults, inflight>> => CoreInv' BY DEF IndInv, CoreInv
<1>. QED BY <1>1, <1>2, <1>3, <1>4, <1>5, <1>6

\* A failure is counted, the absence of one is not.
LEMMA FaultsCount ==
  ASSUME faults \in Nat, Fault \/ NoFault
  PROVE  faults' \in Nat
BY DEF Fault, NoFault

-----------------------------------------------------------------------------
(* Get. *)

\* GetMiss keeps the inductive invariant.
LEMMA GetMissPreserves ==
  ASSUME IndInv, NEW p \in Procs, NEW n \in Nodes, NEW k \in Keys, GetMiss(p, n, k)
  PROVE  IndInv'
<1>1. L1Inv' BY RemovePreserves DEF IndInv, GetMiss, ghost
<1>2. ReqInv' BY DEF IndInv, GetMiss, Goto, ReqInv, Frames, TimelyHands, Timely, Steps
<1>3. L2Inv' /\ FillInv' /\ TopicInv' /\ CoreInv' BY Stable DEF GetMiss, Remove, topic, ghost
<1>. QED BY <1>1, <1>2, <1>3 DEF IndInv

\* Do keeps the inductive invariant.
LEMMA DoPreserves ==
  ASSUME IndInv, NEW p \in Procs, Do(p)
  PROVE  IndInv'
<1>1. ReqInv' BY DEF IndInv, Do, Goto, ReqInv, Frames, TimelyHands, Timely, Steps
<1>2. at[p] \in Nodes /\ key[p] \in Keys BY DEF IndInv, ReqInv, Frames, Do
<1>3. CoreInv' BY <1>2 DEF IndInv, CoreInv, Do, store
<1>4. L1Inv' /\ L2Inv' /\ FillInv' /\ TopicInv' BY Stable DEF Do, store, topic, ghost
<1>. QED BY <1>1, <1>3, <1>4 DEF IndInv

\* ReadL2 keeps the inductive invariant.
LEMMA ReadL2Preserves ==
  ASSUME IndInv, NEW p \in Procs, ReadL2(p)
  PROVE  IndInv'
<1>1. key[p] \in Keys BY DEF IndInv, ReqInv, Frames, ReadL2
<1>2. l2[key[p]] # None => l2[key[p]] \in Copies /\ Timely(l2[key[p]])
  BY <1>1 DEF IndInv, L2Inv, TimelyL2
<1>3. ReqInv' BY <1>2 DEF IndInv, ReadL2, Goto, ReqInv, Frames, TimelyHands, Timely, Steps
<1>4. faults' \in Nat BY FaultsCount DEF IndInv, CoreInv, ReadL2
<1>5. CoreInv' BY <1>4 DEF IndInv, CoreInv, ReadL2, store
<1>6. L1Inv' /\ L2Inv' /\ FillInv' /\ TopicInv' BY Stable DEF ReadL2, store, topic, ghost
<1>. QED BY <1>3, <1>5, <1>6 DEF IndInv

\* Promote keeps the inductive invariant.
LEMMA PromotePreserves ==
  ASSUME IndInv, NEW p \in Procs, Promote(p)
  PROVE  IndInv'
<1>1. at[p] \in Nodes /\ key[p] \in Keys /\ ent[p] \in Copies /\ Timely(ent[p])
  BY DEF IndInv, ReqInv, Frames, TimelyHands, Promote
<1>2. L1Inv' BY <1>1, PutPreserves DEF IndInv, TopicInv, Promote
<1>3. ReqInv' /\ inflight' \in [Nodes -> [Keys -> Procs \cup {None}]]
  BY FinishPreserves DEF IndInv, CoreInv, Promote
<1>4. CoreInv' BY <1>3 DEF IndInv, CoreInv, Promote
<1>5. L2Inv' /\ FillInv' /\ TopicInv' BY Stable DEF Promote, topic
<1>. QED BY <1>2, <1>3, <1>4, <1>5 DEF IndInv

\* FetchOrigin keeps the inductive invariant.
LEMMA FetchOriginPreserves ==
  ASSUME IndInv, NEW p \in Procs, FetchOrigin(p)
  PROVE  IndInv'
<1>1. L1Inv' /\ L2Inv' /\ FillInv' /\ TopicInv' BY Stable DEF FetchOrigin, store, topic, ghost
<1>2. faults' \in Nat BY FaultsCount DEF IndInv, CoreInv, FetchOrigin
<1>3. CASE Finish(p)
  <2>1. ReqInv' /\ inflight' \in [Nodes -> [Keys -> Procs \cup {None}]]
    BY <1>3, FinishPreserves DEF IndInv, CoreInv
  <2>. QED BY <1>1, <1>2, <2>1 DEF IndInv, CoreInv, FetchOrigin, store
<1>4. CASE ~Finish(p)
  <2>1. key[p] \in Keys /\ at[p] \in Nodes BY DEF IndInv, ReqInv, Frames, FetchOrigin
  <2>2. origin[key[p]] \in Versions BY <2>1 DEF IndInv, CoreInv, KeyVersions
  <2>3. Fetched(origin[key[p]]) \in Copies /\ Timely(Fetched(origin[key[p]]))
    BY <2>2, FetchedIsTimely
  <2>4. ReqInv' BY <1>4, <2>1, <2>3
    DEF IndInv, FetchOrigin, Goto, ReqInv, Frames, TimelyHands, Timely, Steps
  <2>5. CoreInv' BY <1>2, <1>4 DEF IndInv, CoreInv, FetchOrigin, store
  <2>. QED BY <1>1, <2>4, <2>5 DEF IndInv
<1>. QED BY <1>3, <1>4

\* Fill keeps the inductive invariant.
LEMMA FillPreserves ==
  ASSUME IndInv, NEW p \in Procs, Fill(p)
  PROVE  IndInv'
<1>. DEFINE c == Copy(ent[p].ver, DefaultTTL)
<1>1. at[p] \in Nodes /\ key[p] \in Keys /\ ent[p].ver \in Versions
  BY DEF IndInv, ReqInv, Frames, Fill, Copies
<1>2. c \in Copies /\ Timely(c) BY <1>1, CopyIsTimely, ClusterAssumption
<1>3. Put(at[p], key[p], c) BY DEF Fill
<1>4. fills' = fills \/ \E f \in Fillers :
        fills' = [fills EXCEPT ![f] = [at |-> at[p], key |-> key[p], copy |-> c]]
  BY DEF Fill
<1>. HIDE DEF c
<1>5. L1Inv' BY <1>1, <1>2, <1>3, PutPreserves DEF IndInv, TopicInv, Fill
<1>6. FillInv'
  <2>1. CASE fills' = fills BY <2>1, Stable
  <2>2. CASE \E f \in Fillers : fills' = [fills EXCEPT ![f] = [at |-> at[p], key |-> key[p], copy |-> c]]
    <3>1. PICK f \in Fillers :
            fills' = [fills EXCEPT ![f] = [at |-> at[p], key |-> key[p], copy |-> c]] BY <2>2
    <3>. DEFINE w == [at |-> at[p], key |-> key[p], copy |-> c]
    <3>2. w \in Writes /\ w.copy = c BY <1>1, <1>2 DEF Writes
    <3>3. fills' = [fills EXCEPT ![f] = w] BY <3>1
    <3>. HIDE DEF w
    <3>. QED BY <1>2, <3>2, <3>3 DEF IndInv, FillInv, TimelyFills, Timely
  <2>. QED BY <1>4, <2>1, <2>2
<1>7. ReqInv' /\ inflight' \in [Nodes -> [Keys -> Procs \cup {None}]]
  BY FinishPreserves DEF IndInv, CoreInv, Fill
<1>8. CoreInv' BY <1>7 DEF IndInv, CoreInv, Fill
<1>9. L2Inv' /\ TopicInv' BY Stable DEF Fill, topic
<1>. QED BY <1>5, <1>6, <1>7, <1>8, <1>9 DEF IndInv

\* FillL2 keeps the inductive invariant.
LEMMA FillL2Preserves ==
  ASSUME IndInv, NEW f \in Fillers, FillL2(f)
  PROVE  IndInv'
<1>1. fills[f] \in Writes /\ Timely(fills[f].copy) BY DEF IndInv, FillInv, TimelyFills, FillL2
<1>2. fills[f].key \in Keys /\ fills[f].copy \in Copies BY <1>1 DEF Writes
<1>3. L2Inv'
  <2>1. CASE PutL2(fills[f].key, fills[f].copy) BY <1>1, <1>2, <2>1, PutL2Preserves DEF IndInv
  <2>2. CASE UNCHANGED <<l2, l2ttl>> BY <2>2, Stable
  <2>. QED BY <2>1, <2>2 DEF FillL2
<1>4. FillInv' BY DEF IndInv, FillInv, TimelyFills, Timely, FillL2
<1>5. faults' \in Nat BY FaultsCount DEF IndInv, CoreInv, FillL2
<1>6. CoreInv' BY <1>5 DEF IndInv, CoreInv, FillL2
<1>7. L1Inv' /\ ReqInv' /\ TopicInv' BY Stable DEF FillL2, request, topic
<1>. QED BY <1>3, <1>4, <1>6, <1>7 DEF IndInv
-----------------------------------------------------------------------------
(* Set. *)

\* SetL1 keeps the inductive invariant.
LEMMA SetL1Preserves ==
  ASSUME IndInv, NEW p \in Procs, NEW n \in Nodes, NEW k \in Keys, NEW ttl \in TTLs,
         SetL1(p, n, k, ttl)
  PROVE  IndInv'
<1>. DEFINE c == Copy(origin[k], ttl)
<1>1. origin[k] \in Versions BY DEF IndInv, CoreInv, KeyVersions
<1>2. c \in Copies /\ Timely(c) BY <1>1, CopyIsTimely
<1>3. Put(n, k, c) BY DEF SetL1
<1>4. \/ UNCHANGED <<pc, at, key, ent>>
      \/ /\ pc' = [pc EXCEPT ![p] = "set"] /\ at' = [at EXCEPT ![p] = n]
         /\ key' = [key EXCEPT ![p] = k] /\ ent' = [ent EXCEPT ![p] = c]
  BY DEF SetL1, Goto
<1>. HIDE DEF c
<1>5. L1Inv' BY <1>2, <1>3, PutPreserves DEF IndInv, TopicInv, SetL1
<1>6. ReqInv' BY <1>2, <1>4 DEF IndInv, SetL1, ReqInv, Frames, TimelyHands, Timely, Steps
<1>7. L2Inv' /\ FillInv' /\ TopicInv' /\ CoreInv' BY Stable DEF SetL1, topic
<1>. QED BY <1>5, <1>6, <1>7 DEF IndInv

\* SetL2 keeps the inductive invariant.
LEMMA SetL2Preserves ==
  ASSUME IndInv, NEW p \in Procs, SetL2(p)
  PROVE  IndInv'
<1>1. key[p] \in Keys /\ ent[p] \in Copies /\ Timely(ent[p])
  BY DEF IndInv, ReqInv, Frames, TimelyHands, SetL2
<1>2. L2Inv'
  <2>1. CASE PutL2(key[p], ent[p]) BY <1>1, <2>1, PutL2Preserves DEF IndInv
  <2>2. CASE UNCHANGED <<l2, l2ttl>> BY <2>2, Stable
  <2>. QED BY <2>1, <2>2 DEF SetL2
<1>3. ReqInv' BY ReturnPreserves DEF IndInv, SetL2
<1>4. faults' \in Nat BY FaultsCount DEF IndInv, CoreInv, SetL2
<1>5. CoreInv' BY <1>4 DEF IndInv, CoreInv, SetL2
<1>6. L1Inv' /\ FillInv' /\ TopicInv' BY Stable DEF SetL2, topic
<1>. QED BY <1>2, <1>3, <1>5, <1>6 DEF IndInv

-----------------------------------------------------------------------------
(* Invalidate. *)

\* Invalidate keeps the inductive invariant.
LEMMA InvalidatePreserves ==
  ASSUME IndInv, NEW p \in Procs, NEW n \in Nodes, NEW r \in Requests, Invalidate(p, n, r)
  PROVE  IndInv'
<1>. DEFINE q == [keys |-> r.keys, pattern |-> r.pattern, versions |-> origin]
<1>1. q \in Calls /\ r.keys \in SUBSET Keys
  BY ClusterAssumption DEF Calls, IndInv, CoreInv
<1>2. req' = [req EXCEPT ![p] = q] BY DEF Invalidate
<1>. HIDE DEF q
<1>3. ReqInv'
  BY <1>1, <1>2 DEF IndInv, Invalidate, Goto, ReqInv, Frames, TimelyHands, Timely, Steps
<1>4. L1Inv' /\ L2Inv' /\ FillInv' /\ TopicInv' /\ CoreInv'
  BY Stable DEF Invalidate, store, topic, ghost
<1>. QED BY <1>3, <1>4 DEF IndInv

\* InvalidateKeyL1 keeps the inductive invariant.
LEMMA InvalidateKeyL1Preserves ==
  ASSUME IndInv, NEW p \in Procs, InvalidateKeyL1(p)
  PROVE  IndInv'
<1>1. PICK k \in left[p] :
        /\ Remove(at[p], {k})
        /\ found' = [found EXCEPT ![p] = @ \/ l1[at[p]][k] # None]
        /\ IF L2Enabled THEN Goto(p, "inv_l2") ELSE UNCHANGED pc
        /\ key' = [key EXCEPT ![p] = IF L2Enabled THEN k ELSE None]
        /\ left' = [left EXCEPT ![p] = @ \ {k}]
  BY DEF InvalidateKeyL1
<1>2. at[p] \in Nodes /\ k \in Keys /\ pc[p] = "inv"
  BY DEF IndInv, ReqInv, Frames, InvalidateKeyL1
<1>3. L1Inv' BY <1>1, <1>2, RemovePreserves DEF IndInv, InvalidateKeyL1, ghost
<1>4. found' \in [Procs -> BOOLEAN] BY <1>1, Zenon DEF IndInv, ReqInv
<1>5. left' \in [Procs -> SUBSET Keys] BY <1>1 DEF IndInv, ReqInv
<1>6. ReqInv' BY <1>1, <1>2, <1>4, <1>5
  DEF IndInv, InvalidateKeyL1, Goto, ReqInv, Frames, TimelyHands, Timely, Steps
<1>7. L2Inv' /\ FillInv' /\ TopicInv' /\ CoreInv' BY Stable DEF InvalidateKeyL1, topic, ghost
<1>. QED BY <1>3, <1>6, <1>7 DEF IndInv

\* InvalidateKeyL2 keeps the inductive invariant.
LEMMA InvalidateKeyL2Preserves ==
  ASSUME IndInv, NEW p \in Procs, InvalidateKeyL2(p)
  PROVE  IndInv'
<1>1. L2Inv'
  <2>1. CASE RemoveL2({key[p]}) BY <2>1, RemoveL2Preserves DEF IndInv, InvalidateKeyL2, ghost
  <2>2. CASE UNCHANGED <<l2, l2ttl>> BY <2>2, Stable DEF InvalidateKeyL2, ghost
  <2>. QED BY <2>1, <2>2 DEF InvalidateKeyL2
<1>2. ReqInv'
  BY DEF IndInv, InvalidateKeyL2, Goto, ReqInv, Frames, TimelyHands, Timely, Steps
<1>3. faults' \in Nat BY FaultsCount DEF IndInv, CoreInv, InvalidateKeyL2
<1>4. CoreInv' BY <1>3 DEF IndInv, CoreInv, InvalidateKeyL2
<1>5. L1Inv' /\ FillInv' /\ TopicInv' BY Stable DEF InvalidateKeyL2, topic, ghost
<1>. QED BY <1>1, <1>2, <1>4, <1>5 DEF IndInv

\* InvalidatePatternL1 keeps the inductive invariant.
LEMMA InvalidatePatternL1Preserves ==
  ASSUME IndInv, NEW p \in Procs, InvalidatePatternL1(p)
  PROVE  IndInv'
<1>1. at[p] \in Nodes BY DEF IndInv, ReqInv, Frames, InvalidatePatternL1
<1>2. L1Inv' BY <1>1, RemovePreserves DEF IndInv, InvalidatePatternL1, ghost
<1>3. found' \in [Procs -> BOOLEAN] BY Zenon DEF IndInv, ReqInv, InvalidatePatternL1
<1>4. ReqInv' BY <1>3
  DEF IndInv, InvalidatePatternL1, Goto, ReqInv, Frames, TimelyHands, Timely, Steps
<1>5. L2Inv' /\ FillInv' /\ TopicInv' /\ CoreInv' BY Stable DEF InvalidatePatternL1, topic, ghost
<1>. QED BY <1>2, <1>4, <1>5 DEF IndInv

\* InvalidatePatternL2 keeps the inductive invariant.
LEMMA InvalidatePatternL2Preserves ==
  ASSUME IndInv, NEW p \in Procs, InvalidatePatternL2(p)
  PROVE  IndInv'
<1>1. L2Inv'
  <2>1. CASE RemoveL2(req[p].pattern)
    BY <2>1, RemoveL2Preserves DEF IndInv, InvalidatePatternL2, ghost
  <2>2. CASE UNCHANGED <<l2, l2ttl>> BY <2>2, Stable DEF InvalidatePatternL2, ghost
  <2>. QED BY <2>1, <2>2 DEF InvalidatePatternL2
<1>2. ReqInv'
  BY DEF IndInv, InvalidatePatternL2, Goto, ReqInv, Frames, TimelyHands, Timely, Steps
<1>3. faults' \in Nat BY FaultsCount DEF IndInv, CoreInv, InvalidatePatternL2
<1>4. CoreInv' BY <1>3 DEF IndInv, CoreInv, InvalidatePatternL2
<1>5. L1Inv' /\ FillInv' /\ TopicInv' BY Stable DEF InvalidatePatternL2, topic, ghost
<1>. QED BY <1>1, <1>2, <1>4, <1>5 DEF IndInv

-----------------------------------------------------------------------------
(* The topics. *)

\* Raising versions yields versions, none lower than before.
LEMMA RaisedIsKeyVersions ==
  ASSUME NEW f \in KeyVersions, NEW g \in KeyVersions, NEW K
  PROVE  /\ Raised(f, K, g) \in KeyVersions
         /\ \A k \in Keys : /\ Raised(f, K, g)[k] >= f[k]
                            /\ k \in K => Raised(f, K, g)[k] >= g[k]
                            /\ Raised(f, K, g)[k] # f[k] => k \in K /\ Raised(f, K, g)[k] = g[k]
BY SMT DEF Raised, KeyVersions, Versions

\* Publishing anything keeps what is on its way on its way.
LEMMA PublishPreserves ==
  ASSUME TopicInv, NEW e \in Events, Publish(e), UNCHANGED <<floor, published>>,
         requested' \in KeyVersions
  PROVE  TopicInv'
<1>1. events' \in Nat BY DEF Publish, TopicInv
<1>2. pending' \in [Nodes -> SUBSET Events] BY DEF Publish, TopicInv
<1>3. OnItsWay' BY DEF Publish, TopicInv, OnItsWay
<1>. QED BY <1>1, <1>2, <1>3 DEF TopicInv

\* Publishing an invalidation puts the event for the versions it raises on its way.
LEMMA PublishInvalidationPreserves ==
  ASSUME IndInv, NEW r, r.keys \in SUBSET Keys, r.pattern \in SUBSET Keys,
         Publish(Invalidation(r)),
         published' = Raised(published, r.keys \cup r.pattern, origin),
         requested' \in KeyVersions, UNCHANGED floor
  PROVE  TopicInv'
<1>. DEFINE e == Invalidation(r)
            K == r.keys \cup r.pattern
<1>1. /\ e \in Events /\ e.kind = "invalidate" /\ e.keys \cup e.pattern = K
      /\ e.versions = origin
  BY DEF IndInv, TopicInv, CoreInv, Events, Invalidation
<1>2. Publish(e) OBVIOUS
<1>3. published' = Raised(published, K, origin) OBVIOUS
<1>. HIDE DEF e, K
<1>4. events' \in Nat BY <1>2 DEF Publish, IndInv, TopicInv
<1>5. \A n \in Nodes : pending'[n] = pending[n] \cup {e} BY <1>2 DEF Publish
<1>6. pending' \in [Nodes -> SUBSET Events] BY <1>1, <1>2 DEF Publish, IndInv, TopicInv
<1>7. /\ published' \in KeyVersions
      /\ \A k \in Keys : published'[k] # published[k] => k \in K /\ published'[k] = origin[k]
  <2>1. published \in KeyVersions /\ origin \in KeyVersions BY DEF IndInv, TopicInv, CoreInv
  <2>2. /\ Raised(published, K, origin) \in KeyVersions
        /\ \A k \in Keys : Raised(published, K, origin)[k] # published[k] =>
             k \in K /\ Raised(published, K, origin)[k] = origin[k]
    BY <2>1, RaisedIsKeyVersions
  <2>. QED BY <1>3, <2>2
<1>8. OnItsWay'
  <2>. SUFFICES ASSUME NEW n \in Nodes, NEW k \in Keys, published'[k] > floor[n][k]
                PROVE  \E d \in pending'[n] : /\ d.kind = "invalidate"
                                              /\ k \in d.keys \cup d.pattern
                                              /\ d.versions[k] = published'[k]
    BY DEF OnItsWay
  <2>1. CASE published'[k] = published[k] BY <1>5, <2>1 DEF IndInv, TopicInv, OnItsWay
  <2>2. CASE published'[k] # published[k] BY <1>1, <1>5, <1>7, <2>2
  <2>. QED BY <2>1, <2>2
<1>. QED BY <1>4, <1>6, <1>7, <1>8 DEF IndInv, TopicInv

\* InvalidatePublish keeps the inductive invariant.
LEMMA InvalidatePublishPreserves ==
  ASSUME IndInv, NEW p \in Procs, InvalidatePublish(p)
  PROVE  IndInv'
<1>. DEFINE K == req[p].keys \cup req[p].pattern
<1>1. /\ req[p].keys \in SUBSET Keys /\ req[p].pattern \in SUBSET Keys
      /\ req[p].versions \in KeyVersions
  BY DEF IndInv, ReqInv, Frames, InvalidatePublish, Calls
<1>2. Raised(requested, K, req[p].versions) \in KeyVersions
  BY <1>1, RaisedIsKeyVersions DEF IndInv, TopicInv
<1>3. requested' \in KeyVersions BY <1>2 DEF InvalidatePublish, IndInv, TopicInv
<1>4. UNCHANGED floor BY DEF InvalidatePublish
<1>5. TopicInv'
  <2>1. CASE Publish(Invalidation(req[p])) /\ published' = Raised(published, K, origin)
    BY <1>1, <1>3, <1>4, <2>1, PublishInvalidationPreserves
  <2>2. CASE UNCHANGED <<topic, published>>
    BY <1>3, <1>4, <2>2 DEF IndInv, TopicInv, OnItsWay, topic
  <2>. QED BY <2>1, <2>2 DEF InvalidatePublish
<1>6. ReqInv' BY ReturnPreserves DEF IndInv, InvalidatePublish
<1>7. faults' \in Nat BY FaultsCount DEF IndInv, CoreInv, InvalidatePublish
<1>8. CoreInv' BY <1>7 DEF IndInv, CoreInv, InvalidatePublish, store
<1>9. L1Inv' /\ L2Inv' /\ FillInv' BY Stable DEF InvalidatePublish, store
<1>. QED BY <1>5, <1>6, <1>8, <1>9 DEF IndInv

\* InvalidateByService keeps the inductive invariant.
LEMMA InvalidateByServicePreserves ==
  ASSUME IndInv, NEW r \in Requests, InvalidateByService(r)
  PROVE  IndInv'
<1>1. r.keys \in SUBSET Keys /\ r.pattern \in SUBSET Keys BY ClusterAssumption
<1>2. requested' \in KeyVersions
  BY RaisedIsKeyVersions DEF IndInv, TopicInv, CoreInv, InvalidateByService
<1>3. TopicInv' BY <1>1, <1>2, PublishInvalidationPreserves DEF InvalidateByService
<1>4. L1Inv' /\ L2Inv' /\ ReqInv' /\ FillInv' /\ CoreInv'
  BY Stable DEF InvalidateByService, store, request
<1>. QED BY <1>3, <1>4 DEF IndInv

\* PublishRefresh keeps the inductive invariant.
LEMMA PublishRefreshPreserves ==
  ASSUME IndInv, NEW k \in Keys, NEW ttl \in TTLs \cup {0}, PublishRefresh(k, ttl)
  PROVE  IndInv'
<1>. DEFINE e == [id |-> events, kind |-> "refresh", key |-> k, ver |-> origin[k], ttl |-> ttl]
<1>1. origin[k] \in Versions /\ events \in Nat BY DEF IndInv, CoreInv, KeyVersions, TopicInv
<1>2. e \in Events BY <1>1 DEF Events
<1>3. Publish(e) /\ UNCHANGED ghost BY DEF PublishRefresh
<1>. HIDE DEF e
<1>4. TopicInv' BY <1>2, <1>3, PublishPreserves DEF IndInv, TopicInv, ghost
<1>5. L1Inv' /\ L2Inv' /\ ReqInv' /\ FillInv' /\ CoreInv'
  BY Stable DEF PublishRefresh, store, request, ghost
<1>. QED BY <1>4, <1>5 DEF IndInv
-----------------------------------------------------------------------------
(* The subscriptions. *)

\* An invalidation that is handled lifts the floor of the instance above
\* everything the event was needed for.
LEMMA HandleInvalidateEventPreserves ==
  ASSUME IndInv, NEW n \in Nodes, NEW e \in pending[n], HandleInvalidateEvent(n, e)
  PROVE  IndInv'
<1>. DEFINE K == e.keys \cup e.pattern
            raised == Raised(floor[n], K, e.versions)
<1>1. e \in Events /\ e.kind = "invalidate" BY DEF IndInv, TopicInv, HandleInvalidateEvent
<1>2. e.versions \in KeyVersions /\ floor[n] \in KeyVersions
  BY <1>1 DEF Events, IndInv, TopicInv
<1>3. /\ raised \in KeyVersions
      /\ \A k \in Keys : /\ raised[k] >= floor[n][k]
                         /\ k \in K => raised[k] >= e.versions[k]
                         /\ raised[k] # floor[n][k] => k \in K
  BY <1>2, RaisedIsKeyVersions
<1>4. Remove(n, K) /\ floor' = [floor EXCEPT ![n] = raised] BY DEF HandleInvalidateEvent
<1>5. K = e.keys \cup e.pattern OBVIOUS
<1>. HIDE DEF K, raised
<1>6. floor' \in [Nodes -> KeyVersions] BY <1>3, <1>4 DEF IndInv, TopicInv
<1>7. \A m \in Nodes : floor'[m] = IF m = n THEN raised ELSE floor[m]
  BY <1>4 DEF IndInv, TopicInv
<1>8. L1Inv'
  <2>1. \A m \in Nodes, k \in Keys : l1'[m][k] = IF m = n /\ k \in K THEN None ELSE l1[m][k]
    BY <1>4 DEF Remove, IndInv, L1Inv, L1Type
  <2>2. UNCHANGED late1 BY DEF HandleInvalidateEvent
  <2>3. L1Type' BY <1>4, <2>2 DEF IndInv, L1Inv, L1Type, Remove
  <2>4. TimelyL1' BY <2>1 DEF IndInv, L1Inv, TimelyL1, Timely
  <2>5. NotBelowFloor'
    <3>. SUFFICES ASSUME NEW m \in Nodes, NEW k \in Keys, l1'[m][k] # None,
                         <<m, k>> \notin late1'
                  PROVE  l1'[m][k].ver >= floor'[m][k]
      BY DEF NotBelowFloor
    <3>1. l1'[m][k] = l1[m][k] /\ ~(m = n /\ k \in K) BY <2>1
    <3>2. floor'[m][k] = floor[m][k] BY <1>3, <1>7, <3>1
    <3>. QED BY <2>2, <3>1, <3>2 DEF IndInv, L1Inv, NotBelowFloor
  <2>. QED BY <2>3, <2>4, <2>5 DEF L1Inv
<1>9. TopicInv'
  <2>1. pending' \in [Nodes -> SUBSET Events] BY DEF HandleInvalidateEvent, Delivered, IndInv, TopicInv
  <2>2. \A m \in Nodes : \A d \in pending[m] : d \in pending'[m] \/ (m = n /\ d = e)
    BY DEF HandleInvalidateEvent, Delivered, IndInv, TopicInv
  <2>3. UNCHANGED <<events, published, requested>> BY DEF HandleInvalidateEvent
  <2>4. OnItsWay'
    <3>. SUFFICES ASSUME NEW m \in Nodes, NEW k \in Keys, published[k] > floor'[m][k]
                  PROVE  \E d \in pending'[m] : /\ d.kind = "invalidate"
                                                /\ k \in d.keys \cup d.pattern
                                                /\ d.versions[k] = published[k]
      BY <2>3 DEF OnItsWay
    <3>1. /\ published[k] \in Int /\ floor[m][k] \in Int /\ floor'[m][k] \in Int
          /\ e.versions[k] \in Int
      BY <1>2, <1>6 DEF IndInv, TopicInv, KeyVersions, Versions
    <3>2. floor'[m][k] >= floor[m][k] BY <1>3, <1>7, <3>1
    <3>3. published[k] > floor[m][k] BY <3>1, <3>2
    <3>4. PICK d \in pending[m] : /\ d.kind = "invalidate" /\ k \in d.keys \cup d.pattern
                                  /\ d.versions[k] = published[k]
      BY <3>3 DEF IndInv, TopicInv, OnItsWay
    <3>5. ~(m = n /\ d = e)
      <4>. SUFFICES ASSUME m = n, d = e PROVE FALSE OBVIOUS
      <4>1. floor'[n][k] >= e.versions[k] BY <1>3, <1>5, <1>7, <3>4
      <4>. QED BY <3>1, <3>4, <4>1
    <3>. QED BY <2>2, <3>4, <3>5
  <2>. QED BY <1>6, <2>1, <2>3, <2>4 DEF IndInv, TopicInv
<1>10. faults' \in Nat BY FaultsCount DEF IndInv, CoreInv, HandleInvalidateEvent, Delivered
<1>11. CoreInv' BY <1>10 DEF IndInv, CoreInv, HandleInvalidateEvent
<1>12. L2Inv' /\ ReqInv' /\ FillInv' BY Stable DEF HandleInvalidateEvent, request
<1>. QED BY <1>8, <1>9, <1>11, <1>12 DEF IndInv

\* HandleRefreshEvent keeps the inductive invariant.
LEMMA HandleRefreshEventPreserves ==
  ASSUME IndInv, NEW n \in Nodes, NEW e \in pending[n], HandleRefreshEvent(n, e)
  PROVE  IndInv'
<1>. DEFINE c == Copy(e.ver, IF e.ttl = 0 THEN DefaultTTL ELSE e.ttl)
<1>1. e \in Events /\ e.kind = "refresh" BY DEF IndInv, TopicInv, HandleRefreshEvent
<1>2. e.key \in Keys /\ e.ver \in Versions /\ e.ttl \in TTLs \cup {0} BY <1>1 DEF Events
<1>3. c \in Copies /\ Timely(c) BY <1>2, CopyIsTimely, ClusterAssumption
<1>4. Put(n, e.key, c) /\ UNCHANGED <<events, floor, published, requested>>
  BY DEF HandleRefreshEvent
<1>. HIDE DEF c
<1>5. L1Inv' BY <1>2, <1>3, <1>4, PutPreserves DEF IndInv, TopicInv
<1>6. pending' \in [Nodes -> SUBSET Events] BY DEF HandleRefreshEvent, Delivered, IndInv, TopicInv
<1>7. \A m \in Nodes : \A d \in pending[m] : d \in pending'[m] \/ d = e
  BY DEF HandleRefreshEvent, Delivered, IndInv, TopicInv
<1>8. OnItsWay' BY <1>1, <1>4, <1>7 DEF IndInv, TopicInv, OnItsWay
<1>9. TopicInv' BY <1>4, <1>6, <1>8 DEF IndInv, TopicInv
<1>10. faults' \in Nat BY FaultsCount DEF IndInv, CoreInv, HandleRefreshEvent, Delivered
<1>11. CoreInv' BY <1>10 DEF IndInv, CoreInv, HandleRefreshEvent
<1>12. L2Inv' /\ ReqInv' /\ FillInv' BY Stable DEF HandleRefreshEvent, request
<1>. QED BY <1>5, <1>9, <1>11, <1>12 DEF IndInv

-----------------------------------------------------------------------------
(* The environment. *)

\* CleanupExpired keeps the inductive invariant.
LEMMA CleanupExpiredPreserves ==
  ASSUME IndInv, NEW n \in Nodes, CleanupExpired(n)
  PROVE  IndInv'
<1>1. L1Inv' BY RemovePreserves DEF IndInv, CleanupExpired, ghost
<1>2. L2Inv' /\ ReqInv' /\ FillInv' /\ TopicInv' /\ CoreInv'
  BY Stable DEF CleanupExpired, request, topic, ghost
<1>. QED BY <1>1, <1>2 DEF IndInv

\* UpdateOrigin keeps the inductive invariant.
LEMMA UpdateOriginPreserves ==
  ASSUME IndInv, NEW k \in Keys, UpdateOrigin(k)
  PROVE  IndInv'
<1>1. origin[k] + 1 \in Versions
  BY ClusterAssumption DEF IndInv, CoreInv, KeyVersions, Versions, UpdateOrigin
<1>2. origin' \in KeyVersions BY <1>1 DEF IndInv, CoreInv, KeyVersions, UpdateOrigin
<1>3. CoreInv' BY <1>2 DEF IndInv, CoreInv, UpdateOrigin
<1>4. L1Inv' /\ L2Inv' /\ ReqInv' /\ FillInv' /\ TopicInv'
  BY Stable DEF UpdateOrigin, request, topic, ghost
<1>. QED BY <1>3, <1>4 DEF IndInv

\* Restart keeps the inductive invariant.
LEMMA RestartPreserves ==
  ASSUME IndInv, NEW n \in Nodes, Restart(n)
  PROVE  IndInv'
<1>1. L1Inv' BY RemovePreserves DEF IndInv, Restart, ghost
<1>2. ReqInv' BY ReturnPreserves DEF IndInv, Restart
<1>3. FillInv' BY DEF IndInv, FillInv, TimelyFills, Timely, Restart
<1>4. faults' \in Nat BY FaultsCount DEF IndInv, CoreInv, Restart
<1>5. CoreInv' BY <1>4 DEF IndInv, CoreInv, Restart
<1>6. L2Inv' /\ TopicInv' BY Stable DEF Restart, topic, ghost
<1>. QED BY <1>1, <1>2, <1>3, <1>5, <1>6 DEF IndInv

\* Tick keeps the inductive invariant.
LEMMA TickPreserves ==
  ASSUME IndInv, Tick
  PROVE  IndInv'
<1>1. L1Inv'
  <2>1. \A n \in Nodes, k \in Keys : /\ l1'[n][k] = Aged(l1[n][k])
                                     /\ l1[n][k] \in Copies \cup {None} /\ Timely(l1[n][k])
    BY DEF IndInv, L1Inv, L1Type, TimelyL1, Tick
  <2>2. UNCHANGED <<late1, floor>> BY DEF Tick, ghost
  <2>3. \A n \in Nodes, k \in Keys :
          /\ l1'[n][k] \in Copies \cup {None} /\ Timely(l1'[n][k])
          /\ l1[n][k] # None => l1'[n][k].ver = l1[n][k].ver
          /\ l1[n][k] = None => l1'[n][k] = None
    BY <2>1, AgedIsTimely
  <2>4. l1' = [n \in Nodes |-> [k \in Keys |-> l1'[n][k]]] BY DEF Tick
  <2>5. L1Type' BY <2>2, <2>3, <2>4 DEF IndInv, L1Inv, L1Type
  <2>6. TimelyL1' BY <2>3 DEF TimelyL1, Timely
  <2>7. NotBelowFloor' BY <2>2, <2>3 DEF IndInv, L1Inv, NotBelowFloor
  <2>. QED BY <2>5, <2>6, <2>7 DEF L1Inv
<1>2. L2Inv'
  <2>1. \A k \in Keys : /\ l2'[k] = IF l2ttl[k] > 1 THEN Aged(l2[k]) ELSE None
                        /\ l2[k] \in Copies \cup {None} /\ Timely(l2[k])
    BY DEF IndInv, L2Inv, TimelyL2, Tick
  <2>2. \A k \in Keys : l2'[k] \in Copies \cup {None} /\ Timely(l2'[k])
    BY <2>1, AgedIsTimely DEF Timely
  <2>3. l2' = [k \in Keys |-> l2'[k]] BY DEF Tick
  <2>4. l2' \in [Keys -> Copies \cup {None}] BY <2>2, <2>3
  <2>5. l2ttl' \in [Keys -> 0 .. MaxTTL] BY ClusterAssumption DEF IndInv, L2Inv, Tick
  <2>6. TimelyL2' BY <2>2 DEF TimelyL2, Timely
  <2>. QED BY <2>4, <2>5, <2>6 DEF L2Inv
<1>3. ReqInv'
  <2>1. \A p \in Procs : /\ ent'[p] = Aged(ent[p])
                         /\ ent[p] \in Copies \cup {None} /\ Timely(ent[p])
    BY DEF IndInv, ReqInv, TimelyHands, Tick
  <2>2. \A p \in Procs : /\ ent'[p] \in Copies \cup {None} /\ Timely(ent'[p])
                         /\ ent[p] \in Copies => ent'[p] \in Copies
    BY <2>1, AgedIsTimely
  <2>3. ent' = [p \in Procs |-> ent'[p]] BY DEF Tick
  <2>4. UNCHANGED <<pc, at, key, req, left, found>> BY DEF Tick
  <2>5. ent' \in [Procs -> Copies \cup {None}] BY <2>2, <2>3
  <2>6. Frames' BY <2>2, <2>4 DEF IndInv, ReqInv, Frames
  <2>7. TimelyHands' BY <2>2 DEF TimelyHands, Timely
  <2>. QED BY <2>4, <2>5, <2>6, <2>7 DEF IndInv, ReqInv
<1>4. FillInv'
  <2>1. \A f \in Fillers : fills[f] # None =>
          /\ fills[f] \in Writes /\ fills[f].copy \in Copies /\ Timely(fills[f].copy)
    BY DEF IndInv, FillInv, TimelyFills, Writes
  <2>2. \A f \in Fillers : fills[f] # None =>
          Aged(fills[f].copy) \in Copies \cup {None} /\ Timely(Aged(fills[f].copy))
    BY <2>1, AgedIsTimely
  <2>3. \A f \in Fillers : fills[f] # None /\ fills[f].copy # None => Aged(fills[f].copy) \in Copies
    BY <2>1, AgedIsTimely
  <2>4. \A f \in Fillers : fills[f] # None /\ fills[f].copy = None => Aged(fills[f].copy) \in Copies
    BY <2>1 DEF Aged
  <2>5. \A f \in Fillers : fills[f] = None => fills'[f] = None BY DEF Tick
  <2>6. \A f \in Fillers : fills[f] # None =>
          fills'[f] = [at |-> fills[f].at, key |-> fills[f].key, copy |-> Aged(fills[f].copy)]
    BY DEF Tick
  <2>7. \A f \in Fillers : fills'[f] \in Writes \cup {None}
    <3>. SUFFICES ASSUME NEW f \in Fillers, fills[f] # None PROVE fills'[f] \in Writes
      BY <2>5
    <3>1. fills[f].at \in Nodes /\ fills[f].key \in Keys /\ Aged(fills[f].copy) \in Copies
      BY <2>1, <2>3, <2>4 DEF Writes
    <3>. DEFINE a == Aged(fills[f].copy)
    <3>2. fills'[f] = [at |-> fills[f].at, key |-> fills[f].key, copy |-> a] BY <2>6
    <3>3. a \in Copies BY <3>1
    <3>. HIDE DEF a
    <3>. QED BY <3>1, <3>2, <3>3 DEF Writes
  <2>8. fills' = [f \in Fillers |-> fills'[f]] BY DEF Tick
  <2>9. fills' \in [Fillers -> Writes \cup {None}] BY <2>7, <2>8
  <2>10. TimelyFills'
    <3>. SUFFICES ASSUME NEW f \in Fillers, fills'[f] # None PROVE Timely(fills'[f].copy)
      BY DEF TimelyFills, Timely
    <3>1. fills[f] # None BY <2>5
    <3>. DEFINE a == Aged(fills[f].copy)
    <3>2. fills'[f] = [at |-> fills[f].at, key |-> fills[f].key, copy |-> a] BY <2>6, <3>1
    <3>3. Timely(a) BY <2>2, <3>1
    <3>. HIDE DEF a
    <3>4. fills'[f].copy = a BY <3>2
    <3>. QED BY <3>3, <3>4
  <2>. QED BY <2>9, <2>10 DEF FillInv
<1>5. TopicInv' /\ CoreInv' BY Stable DEF Tick, topic, ghost
<1>. QED BY <1>1, <1>2, <1>3, <1>4, <1>5 DEF IndInv
-----------------------------------------------------------------------------
(* The theorems. *)

\* Every step of the cluster keeps the inductive invariant.
LEMMA IndInvStep ==
  ASSUME IndInv, [Next]_vars
  PROVE  IndInv'
<1>1. CASE UNCHANGED vars BY <1>1, Stable DEF vars, store, request, topic, ghost, IndInv
<1>2. CASE \E p \in Procs : Progress(p)
  BY <1>2, DoPreserves, ReadL2Preserves, PromotePreserves, FetchOriginPreserves, FillPreserves,
     SetL2Preserves, InvalidateKeyL1Preserves, InvalidateKeyL2Preserves,
     InvalidatePatternL1Preserves, InvalidatePatternL2Preserves, InvalidatePublishPreserves
  DEF Progress
<1>3. CASE \E p \in Procs, n \in Nodes, k \in Keys : GetMiss(p, n, k) BY <1>3, GetMissPreserves
<1>4. CASE \E p \in Procs, n \in Nodes, k \in Keys, ttl \in TTLs : SetL1(p, n, k, ttl)
  BY <1>4, SetL1Preserves
<1>5. CASE \E p \in Procs, n \in Nodes, r \in Requests : Invalidate(p, n, r)
  BY <1>5, InvalidatePreserves
<1>6. CASE \E r \in Requests : InvalidateByService(r) BY <1>6, InvalidateByServicePreserves
<1>7. CASE \E k \in Keys, ttl \in TTLs \cup {0} : PublishRefresh(k, ttl)
  BY <1>7, PublishRefreshPreserves
<1>8. CASE \E f \in Fillers : FillL2(f) BY <1>8, FillL2Preserves
<1>9. CASE \E n \in Nodes : Handle(n)
  BY <1>9, HandleInvalidateEventPreserves, HandleRefreshEventPreserves DEF Handle
<1>10. CASE \E n \in Nodes : CleanupExpired(n) BY <1>10, CleanupExpiredPreserves
<1>11. CASE \E n \in Nodes : Restart(n) BY <1>11, RestartPreserves
<1>12. CASE \E k \in Keys : UpdateOrigin(k) BY <1>12, UpdateOriginPreserves
<1>13. CASE Tick BY <1>13, TickPreserves
<1>. QED BY <1>1, <1>2, <1>3, <1>4, <1>5, <1>6, <1>7, <1>8, <1>9, <1>10, <1>11, <1>12, <1>13
  DEF Next

\* The inductive invariant holds in every reachable state, whatever fails,
\* is delivered late or twice, or restarts.
THEOREM Invariance == Spec => []IndInv
BY IndInvInit, IndInvStep, PTL DEF Spec

\* Every variable keeps its type under every handler (service.go, subscriptions.go).
THEOREM TypeCorrect == Spec => []TypeOK
<1>1. IndInv => TypeOK
  BY DEF IndInv, L1Inv, L1Type, L2Inv, ReqInv, FillInv, TopicInv, CoreInv, TypeOK, KeyVersions
<1>. QED BY <1>1, Invariance, PTL

\* fetchWithFallback never stretches the life of a copy: promoted from the L2,
\* written to it late or refreshed, it is served for at most the largest TTL.
THEOREM BoundedStaleness == Spec => []ServedWithinTTL
<1>1. IndInv => ServedWithinTTL
  <2>. SUFFICES ASSUME IndInv, NEW n \in Nodes, NEW k \in Keys, Hit(n, k)
                PROVE  l1[n][k].age <= MaxTTL
    BY DEF ServedWithinTTL
  <2>1. l1[n][k] \in Copies /\ l1[n][k].exp >= 0 BY DEF IndInv, L1Inv, L1Type, Hit
  <2>2. l1[n][k].exp + l1[n][k].age <= MaxTTL BY <2>1 DEF IndInv, L1Inv, TimelyL1, Timely, Hit
  <2>3. l1[n][k].exp \in Int /\ l1[n][k].age \in Int /\ MaxTTL \in Int
    BY <2>1, ClusterAssumption DEF Copies
  <2>. QED BY <2>1, <2>2, <2>3
<1>. QED BY <1>1, Invariance, PTL

\* HandleInvalidateEvent on every instance makes up for reordering, repetition
\* and restarts: no instance misses an invalidation once it is published.
THEOREM InvalidationsReach == Spec => []PublishedInvalidationsReach
<1>1. IndInv => PublishedInvalidationsReach
  <2>. SUFFICES ASSUME IndInv, NEW n \in Nodes, NEW k \in Keys, l1[n][k] # None,
                       l1[n][k].ver < published[k], <<n, k>> \notin late1
                PROVE  Awaited(n, k, l1[n][k].ver)
    BY DEF PublishedInvalidationsReach, Reaches
  <2>1. l1[n][k] \in Copies BY DEF IndInv, L1Inv, L1Type
  <2>2. l1[n][k].ver \in Int /\ floor[n][k] \in Int /\ published[k] \in Int
    BY <2>1 DEF Copies, IndInv, TopicInv, KeyVersions, Versions
  <2>3. l1[n][k].ver >= floor[n][k] BY DEF IndInv, L1Inv, NotBelowFloor
  <2>4. published[k] > floor[n][k] BY <2>2, <2>3
  <2>5. PICK e \in pending[n] : /\ e.kind = "invalidate" /\ k \in e.keys \cup e.pattern
                                /\ e.versions[k] = published[k]
    BY <2>4 DEF IndInv, TopicInv, OnItsWay
  <2>. QED BY <2>5 DEF Awaited
<1>. QED BY <1>1, Invariance, PTL
=============================================================================

---------------------------- MODULE CacheCluster -----------------------------
(***************************************************************************)
(* Several cache-manager instances in front of one source of truth: an L1  *)
(* cache and a request coalescer per instance, a shared L2 cache, and the  *)
(* invalidation and refresh topics (cache-manager/service.go,              *)
(* cache-manager/subscriptions.go and the publishing half of               *)
(* invalidation/service.go).                                               *)
(*                                                                         *)
(* The L1 cache is the lossy map of AbstractCache, which L1Cache is shown  *)
(* to implement; the coalescer is one leader per instance and key, which   *)
(* RequestCoalescer guarantees as long as nobody calls Forget.  A value is *)
(* the version of the key at the source of truth.  Every access to the L1, *)
(* to the L2, to the source and to a topic is a step of its own.  Times    *)
(* count down: a copy's exp is the time it has left, -1 once it has        *)
(* expired.                                                                *)
(***************************************************************************)
EXTENDS Integers, FiniteSets

CONSTANTS
  Nodes,       \* cache-manager instances
  Keys,        \* cache keys
  Procs,       \* request goroutines
  Fillers,     \* goroutines that populate the L2 asynchronously
  Requests,    \* invalidation requests: [keys, pattern], each a set of keys
  TTLs,        \* ttl arguments, in clock units
  DefaultTTL,  \* Config.DefaultTTL
  MaxTTL,      \* the largest of the TTLs
  MaxEntries,  \* Config.L1MaxEntries
  L2Enabled,   \* Config.L2Enabled
  MaxVersion,  \* bound on the writes to the source of truth
  MaxEvents,   \* bound on the events published
  MaxFaults,   \* bound on failures, redeliveries and restarts
  None         \* nothing

ASSUME ClusterAssumption ==
  /\ MaxTTL \in Nat /\ TTLs \subseteq 0 .. MaxTTL /\ DefaultTTL \in TTLs
  /\ Requests \subseteq [keys : SUBSET Keys, pattern : SUBSET Keys]
  /\ MaxEntries \in Nat /\ MaxVersion \in Nat /\ MaxEvents \in Nat /\ MaxFaults \in Nat
  /\ L2Enabled \in BOOLEAN

VARIABLES
  origin,      \* the version of each key at the source of truth
  l1,          \* instance -> key -> copy, None where absent
  l2, l2ttl,   \* key -> copy, None where absent; how long the L2 keeps it
  inflight,    \* the coalescer: instance -> key -> leading goroutine, or None
  pc,          \* where each goroutine is inside its handler
  at, key,     \* the instance it runs on and its key
  ent,         \* the copy it has in hand
  req,         \* Invalidate: the request ...
  left,        \* ... its keys not yet handled ...
  found,       \* ... and whether the L1 had any of its keys (count > 0)
  fills,       \* asynchronous L2 writes under way
  pending,     \* instance -> events published and not yet handled there
  events,      \* number of events published
  faults,      \* number of failures so far
  floor,       \* history: instance -> key -> the oldest version its handled events allow
  published,   \* history: key -> the same for the events published so far
  requested,   \* history: the same for the invalidations that reported success
  late1        \* history: L1 copies that were older than that when they were stored

store   == <<origin, l1, l2, l2ttl>>
request == <<pc, at, key, ent, req, left, found>>
topic   == <<pending, events>>
ghost   == <<floor, published, requested, late1>>
vars    == <<store, inflight, request, fills, topic, faults, ghost>>

Versions == 0 .. MaxVersion
Copies   == [ver : Versions, exp : -1 .. MaxTTL, age : 0 .. MaxTTL + 1, ttl : TTLs]
Steps    == {"idle", "do", "wait", "l2", "promote", "origin", "fill", "set",
             "inv", "inv_l2", "inv_pattern_l2", "publish"}
Loading  == {"l2", "promote", "origin", "fill"}

-----------------------------------------------------------------------------
\* A copy made now of version v, to live for ttl.
Copy(v, ttl) == [ver |-> v, exp |-> ttl, age |-> 0, ttl |-> ttl]

\* A version fetched from the source and not stored anywhere yet.
Fetched(v) == [ver |-> v, exp |-> -1, age |-> MaxTTL + 1, ttl |-> DefaultTTL]

HitAny(n, k) == l1[n][k] # None  \* mistake: the expiry is not looked at

Hit(n, k) == l1[n][k] # None /\ l1[n][k].exp >= 0

\* L1Cache.Set: at capacity a new key costs some other key its copy.
Put(n, k, c) ==
  /\ \E gone \in IF l1[n][k] = None /\ Cardinality({j \in Keys : l1[n][j] # None}) >= MaxEntries
                 THEN {{j} : j \in {i \in Keys : l1[n][i] # None}} ELSE {{}} :
       l1' = [l1 EXCEPT ![n] = [j \in Keys |-> IF j = k THEN c ELSE
                                               IF j \in gone THEN None ELSE l1[n][j]]]
  /\ late1' = IF c.ver < floor[n][k] THEN late1 \cup {<<n, k>>} ELSE late1 \ {<<n, k>>}

\* L1Cache.Delete and DeletePattern.
Remove(n, K) == l1' = [l1 EXCEPT ![n] = [k \in Keys |-> IF k \in K THEN None ELSE l1[n][k]]]

PutL2(k, c) ==
  /\ l2' = [l2 EXCEPT ![k] = c]
  /\ l2ttl' = [l2ttl EXCEPT ![k] = c.ttl]

RemoveL2(K) ==
  /\ l2' = [k \in Keys |-> IF k \in K THEN None ELSE l2[k]]
  /\ l2ttl' = [k \in Keys |-> IF k \in K THEN 0 ELSE l2ttl[k]]

Fault   == faults < MaxFaults /\ faults' = faults + 1
NoFault == UNCHANGED faults

Raised(f, K, versions) == [k \in Keys |-> IF k \in K /\ versions[k] > f[k] THEN versions[k] ELSE f[k]]

Goto(p, step) == pc' = [pc EXCEPT ![p] = step]

\* The handlers of these goroutines return.
Return(Q) ==
  /\ pc' = [q \in Procs |-> IF q \in Q THEN "idle" ELSE pc[q]]
  /\ at' = [q \in Procs |-> IF q \in Q THEN None ELSE at[q]]
  /\ key' = [q \in Procs |-> IF q \in Q THEN None ELSE key[q]]
  /\ ent' = [q \in Procs |-> IF q \in Q THEN None ELSE ent[q]]
  /\ req' = [q \in Procs |-> IF q \in Q THEN None ELSE req[q]]
  /\ left' = [q \in Procs |-> IF q \in Q THEN {} ELSE left[q]]
  /\ found' = [q \in Procs |-> IF q \in Q THEN FALSE ELSE found[q]]

\* The load is over: the coalescer hands its result to the callers that joined.
Finish(p) ==
  /\ inflight' = [inflight EXCEPT ![at[p]][key[p]] = None]
  /\ Return({p} \cup {q \in Procs : pc[q] = "wait" /\ at[q] = at[p] /\ key[q] = key[p]})

Publish(e) ==
  /\ events' = events + 1
  /\ pending' = [n \in Nodes |-> pending[n] \cup {e}]

Invalidation(r) == [id |-> events, kind |-> "invalidate", keys |-> r.keys, pattern |-> r.pattern,
                    versions |-> origin]

-----------------------------------------------------------------------------
Init ==
  /\ origin = [k \in Keys |-> 0]
  /\ l1 = [n \in Nodes |-> [k \in Keys |-> None]]
  /\ l2 = [k \in Keys |-> None]
  /\ l2ttl = [k \in Keys |-> 0]
  /\ inflight = [n \in Nodes |-> [k \in Keys |-> None]]
  /\ pc = [p \in Procs |-> "idle"]
  /\ at = [p \in Procs |-> None]
  /\ key = [p \in Procs |-> None]
  /\ ent = [p \in Procs |-> None]
  /\ req = [p \in Procs |-> None]
  /\ left = [p \in Procs |-> {}]
  /\ found = [p \in Procs |-> FALSE]
  /\ fills = [f \in Fillers |-> None]
  /\ pending = [n \in Nodes |-> {}]
  /\ events = 0
  /\ faults = 0
  /\ floor = [n \in Nodes |-> [k \in Keys |-> 0]]
  /\ published = [k \in Keys |-> 0]
  /\ requested = [k \in Keys |-> 0]
  /\ late1 = {}

(* Get.  An L1 hit returns at once and changes nothing the model keeps; an  *)
(* expired copy is purged on the way.                                       *)

GetMiss(p, n, k) ==
  /\ pc[p] = "idle"
  /\ ~Hit(n, k)
  /\ Remove(n, {k})
  /\ Goto(p, "do")
  /\ at' = [at EXCEPT ![p] = n]
  /\ key' = [key EXCEPT ![p] = k]
  /\ UNCHANGED <<origin, l2, l2ttl, inflight, ent, req, left, found, fills, topic, faults, ghost>>

\* Coalescer: join the load in flight on this instance, or lead one.
Do(p) ==
  /\ pc[p] = "do"
  /\ IF inflight[at[p]][key[p]] # None
     THEN /\ Goto(p, "wait")
          /\ UNCHANGED inflight
     ELSE /\ Goto(p, IF L2Enabled THEN "l2" ELSE "origin")
          /\ inflight' = [inflight EXCEPT ![at[p]][key[p]] = p]
  /\ UNCHANGED <<store, at, key, ent, req, left, found, fills, topic, faults, ghost>>

ReadL2(p) ==
  /\ pc[p] = "l2"
  /\ \/ /\ l2[key[p]] # None
        /\ ent' = [ent EXCEPT ![p] = l2[key[p]]]
        /\ Goto(p, "promote") /\ NoFault
     \/ /\ l2[key[p]] = None
        /\ Goto(p, "origin") /\ NoFault
        /\ UNCHANGED ent
     \/ /\ Goto(p, "origin") /\ Fault   \* the L2 fails, or its answer does not decode
        /\ UNCHANGED ent
  /\ UNCHANGED <<store, inflight, at, key, req, left, found, fills, topic, ghost>>

PromoteDefault(p) ==  \* mistake: the L1 copy gets a life of its own
  /\ pc[p] = "promote"
  /\ Put(at[p], key[p], [ent[p] EXCEPT !.exp = DefaultTTL])
  /\ Finish(p)
  /\ UNCHANGED <<origin, l2, l2ttl, fills, topic, faults, floor, published, requested>>

\* The L1 copy expires when the L2 copy was going to, which may be at once.
Promote(p) ==
  /\ pc[p] = "promote"
  /\ Put(at[p], key[p], ent[p])
  /\ Finish(p)
  /\ UNCHANGED <<origin, l2, l2ttl, fills, topic, faults, floor, published, requested>>

\* The source answers, or fails: then the load fails for everyone who joined it.
FetchOrigin(p) ==
  /\ pc[p] = "origin"
  /\ \/ /\ ent' = [ent EXCEPT ![p] = Fetched(origin[key[p]])]
        /\ Goto(p, "fill") /\ NoFault
        /\ UNCHANGED <<inflight, at, key, req, left, found>>
     \/ Fault /\ Finish(p)
  /\ UNCHANGED <<store, fills, topic, ghost>>

\* The L1 is filled before the load returns, the L2 some time later.
Fill(p) ==
  /\ pc[p] = "fill"
  /\ LET c == Copy(ent[p].ver, DefaultTTL) IN
       /\ Put(at[p], key[p], c)
       /\ IF L2Enabled
          THEN \E f \in {g \in Fillers : fills[g] = None} :
                 fills' = [fills EXCEPT ![f] = [at |-> at[p], key |-> key[p], copy |-> c]]
          ELSE UNCHANGED fills
  /\ Finish(p)
  /\ UNCHANGED <<origin, l2, l2ttl, topic, faults, floor, published, requested>>

FillL2(f) ==
  /\ fills[f] # None
  /\ \/ PutL2(fills[f].key, fills[f].copy) /\ NoFault
     \/ Fault /\ UNCHANGED <<l2, l2ttl>>
  /\ fills' = [fills EXCEPT ![f] = None]
  /\ UNCHANGED <<origin, l1, inflight, request, topic, floor, published, requested, late1>>

(* Set: the L1, then the L2.  The caller stores the version it has just     *)
(* written to the source.                                                   *)

SetL1(p, n, k, ttl) ==
  /\ pc[p] = "idle"
  /\ Put(n, k, Copy(origin[k], ttl))
  /\ IF L2Enabled
     THEN /\ Goto(p, "set")
          /\ at' = [at EXCEPT ![p] = n]
          /\ key' = [key EXCEPT ![p] = k]
          /\ ent' = [ent EXCEPT ![p] = Copy(origin[k], ttl)]
     ELSE UNCHANGED <<pc, at, key, ent>>
  /\ UNCHANGED <<origin, l2, l2ttl, inflight, req, left, found, fills, topic, faults,
                 floor, published, requested>>

SetL2(p) ==
  /\ pc[p] = "set"
  /\ \/ PutL2(key[p], ent[p]) /\ NoFault
     \/ Fault /\ UNCHANGED <<l2, l2ttl>>
  /\ Return({p})
  /\ UNCHANGED <<origin, l1, inflight, fills, topic, floor, published, requested, late1>>

(* Invalidate: key by key and then by pattern, the L1 before the L2. *)

Invalidate(p, n, r) ==
  /\ pc[p] = "idle" /\ events < MaxEvents
  /\ Goto(p, "inv")
  /\ at' = [at EXCEPT ![p] = n]
  /\ req' = [req EXCEPT ![p] = [keys |-> r.keys, pattern |-> r.pattern, versions |-> origin]]
  /\ left' = [left EXCEPT ![p] = r.keys]
  /\ UNCHANGED <<store, inflight, key, ent, found, fills, topic, faults, ghost>>

InvalidateKeyL1(p) ==
  /\ pc[p] = "inv"
  /\ \E k \in left[p] :
       /\ Remove(at[p], {k})
       /\ found' = [found EXCEPT ![p] = @ \/ l1[at[p]][k] # None]
       /\ IF L2Enabled THEN Goto(p, "inv_l2") ELSE UNCHANGED pc
       /\ key' = [key EXCEPT ![p] = IF L2Enabled THEN k ELSE None]
       /\ left' = [left EXCEPT ![p] = @ \ {k}]
  /\ UNCHANGED <<origin, l2, l2ttl, inflight, at, ent, req, fills, topic, faults, ghost>>

InvalidateKeyL2(p) ==
  /\ pc[p] = "inv_l2"
  /\ \/ RemoveL2({key[p]}) /\ NoFault
     \/ Fault /\ UNCHANGED <<l2, l2ttl>>
  /\ Goto(p, "inv")
  /\ key' = [key EXCEPT ![p] = None]
  /\ UNCHANGED <<origin, l1, inflight, at, ent, req, left, found, fills, topic, ghost>>

InvalidatePatternL1(p) ==
  /\ pc[p] = "inv"
  /\ left[p] = {}
  /\ Remove(at[p], req[p].pattern)
  /\ found' = [found EXCEPT ![p] = @ \/ \E k \in req[p].pattern : l1[at[p]][k] # None]
  /\ Goto(p, IF L2Enabled /\ req[p].pattern # {} THEN "inv_pattern_l2" ELSE "publish")
  /\ UNCHANGED <<origin, l2, l2ttl, inflight, at, key, ent, req, left, fills, topic, faults, ghost>>

InvalidatePatternL2(p) ==
  /\ pc[p] = "inv_pattern_l2"
  /\ \/ RemoveL2(req[p].pattern) /\ NoFault
     \/ Fault /\ UNCHANGED <<l2, l2ttl>>
  /\ Goto(p, "publish")
  /\ UNCHANGED <<origin, l1, inflight, at, key, ent, req, left, found, fills, topic, ghost>>

\* The event goes out only if this instance's own L1 had one of the keys; a
\* failure to publish is ignored.  The caller is told it succeeded either way.
InvalidatePublish(p) ==
  /\ pc[p] = "publish"
  /\ LET K == req[p].keys \cup req[p].pattern IN
       \/ /\ found[p] /\ NoFault
          /\ Publish(Invalidation(req[p]))
          /\ published' = Raised(published, K, origin)
          /\ requested' = Raised(requested, K, req[p].versions)
       \/ /\ found[p] /\ Fault
          /\ UNCHANGED <<topic, published, requested>>
       \/ /\ ~found[p] /\ NoFault
          /\ requested' = Raised(requested, K, req[p].versions)
          /\ UNCHANGED <<topic, published>>
  /\ Return({p})
  /\ UNCHANGED <<store, inflight, fills, floor, late1>>

(* The invalidation service's InvalidateKey and InvalidatePattern: the      *)
(* broadcast is all they do to the caches.                                  *)

InvalidateByService(r) ==
  /\ events < MaxEvents
  /\ Publish(Invalidation(r))
  /\ published' = Raised(published, r.keys \cup r.pattern, origin)
  /\ requested' = Raised(requested, r.keys \cup r.pattern, origin)
  /\ UNCHANGED <<store, inflight, request, fills, faults, floor, late1>>

PublishRefresh(k, ttl) ==
  /\ events < MaxEvents
  /\ Publish([id |-> events, kind |-> "refresh", key |-> k, ver |-> origin[k], ttl |-> ttl])
  /\ UNCHANGED <<store, inflight, request, fills, faults, ghost>>

(* The subscriptions.  Events arrive in any order and at least once. *)

Delivered(n, e) ==
  \/ pending' = [pending EXCEPT ![n] = @ \ {e}] /\ NoFault
  \/ Fault /\ UNCHANGED pending   \* to be delivered again

HandleInvalidateNoPattern(n, e) ==  \* mistake: only the matched keys are removed
  /\ e.kind = "invalidate"
  /\ Remove(n, e.keys)
  /\ floor' = [floor EXCEPT ![n] = Raised(@, e.keys \cup e.pattern, e.versions)]
  /\ Delivered(n, e)
  /\ UNCHANGED <<origin, l2, l2ttl, inflight, request, fills, events, published, requested, late1>>

HandleInvalidateEvent(n, e) ==
  /\ e.kind = "invalidate"
  /\ LET K == e.keys \cup e.pattern IN
       /\ Remove(n, K)
       /\ floor' = [floor EXCEPT ![n] = Raised(@, K, e.versions)]
  /\ Delivered(n, e)
  /\ UNCHANGED <<origin, l2, l2ttl, inflight, request, fills, events, published, requested, late1>>

\* The L1 only: storing the value in the L2 is not implemented.
HandleRefreshEvent(n, e) ==
  /\ e.kind = "refresh"
  /\ Put(n, e.key, Copy(e.ver, IF e.ttl = 0 THEN DefaultTTL ELSE e.ttl))
  /\ Delivered(n, e)
  /\ UNCHANGED <<origin, l2, l2ttl, inflight, request, fills, events, floor, published, requested>>

(* The environment and the background goroutine. *)

CleanupExpired(n) ==
  /\ Remove(n, {k \in Keys : ~Hit(n, k)})
  /\ UNCHANGED <<origin, l2, l2ttl, inflight, request, fills, topic, faults, ghost>>

UpdateOrigin(k) ==
  /\ origin[k] < MaxVersion
  /\ origin' = [origin EXCEPT ![k] = @ + 1]
  /\ UNCHANGED <<l1, l2, l2ttl, inflight, request, fills, topic, faults, ghost>>

\* An instance stops and starts again: its memory is gone, its subscription is not.
Restart(n) ==
  /\ Fault
  /\ Remove(n, Keys)
  /\ inflight' = [inflight EXCEPT ![n] = [k \in Keys |-> None]]
  /\ Return({p \in Procs : at[p] = n})
  /\ fills' = [f \in Fillers |-> IF fills[f] # None /\ fills[f].at = n THEN None ELSE fills[f]]
  /\ UNCHANGED <<origin, l2, l2ttl, topic, ghost>>

Aged(c) ==
  IF c = None THEN None
  ELSE [ver |-> c.ver, ttl |-> c.ttl,
        exp |-> IF c.exp = -1 THEN -1 ELSE c.exp - 1,
        age |-> IF c.age > MaxTTL THEN c.age ELSE c.age + 1]

Tick ==
  /\ l1' = [n \in Nodes |-> [k \in Keys |-> Aged(l1[n][k])]]
  /\ l2' = [k \in Keys |-> IF l2ttl[k] > 1 THEN Aged(l2[k]) ELSE None]
  /\ l2ttl' = [k \in Keys |-> IF l2ttl[k] > 1 THEN l2ttl[k] - 1 ELSE 0]
  /\ ent' = [p \in Procs |-> Aged(ent[p])]
  /\ fills' = [f \in Fillers |-> IF fills[f] = None THEN None
                                 ELSE [at |-> fills[f].at, key |-> fills[f].key,
                                       copy |-> Aged(fills[f].copy)]]
  /\ UNCHANGED <<origin, inflight, pc, at, key, req, left, found, topic, faults, ghost>>

-----------------------------------------------------------------------------
Progress(p) ==
  \/ Do(p) \/ ReadL2(p) \/ Promote(p) \/ FetchOrigin(p) \/ Fill(p) \/ SetL2(p)
  \/ InvalidateKeyL1(p) \/ InvalidateKeyL2(p)
  \/ InvalidatePatternL1(p) \/ InvalidatePatternL2(p) \/ InvalidatePublish(p)

Handle(n) == \E e \in pending[n] : HandleInvalidateEvent(n, e) \/ HandleRefreshEvent(n, e)

Next ==
  \/ \E p \in Procs : Progress(p)
  \/ \E p \in Procs, n \in Nodes, k \in Keys : GetMiss(p, n, k)
  \/ \E p \in Procs, n \in Nodes, k \in Keys, ttl \in TTLs : SetL1(p, n, k, ttl)
  \/ \E p \in Procs, n \in Nodes, r \in Requests : Invalidate(p, n, r)
  \/ \E r \in Requests : InvalidateByService(r)
  \/ \E k \in Keys, ttl \in TTLs \cup {0} : PublishRefresh(k, ttl)
  \/ \E f \in Fillers : FillL2(f)
  \/ \E n \in Nodes : Handle(n) \/ CleanupExpired(n) \/ Restart(n)
  \/ \E k \in Keys : UpdateOrigin(k)
  \/ Tick

Spec == Init /\ [][Next]_vars

\* Goroutines keep running and the L2 and the source answer in finite time, a
\* published event is delivered (at least once), and time passes.
Fairness ==
  /\ \A p \in Procs : WF_vars(Progress(p))
  /\ \A f \in Fillers : WF_vars(FillL2(f))
  /\ \A n \in Nodes : WF_vars(Handle(n))
  /\ WF_vars(Tick)

LiveSpec == Spec /\ Fairness
-----------------------------------------------------------------------------
KeyVersions == [Keys -> Versions]

Events ==
  [id : Nat, kind : {"invalidate"}, keys : SUBSET Keys, pattern : SUBSET Keys, versions : KeyVersions]
  \cup [id : Nat, kind : {"refresh"}, key : Keys, ver : Versions, ttl : TTLs \cup {0}]

\* The Invalidate calls and the asynchronous L2 writes.
Calls  == [keys : SUBSET Keys, pattern : SUBSET Keys, versions : KeyVersions]
Writes == [at : Nodes, key : Keys, copy : Copies]

TypeOK ==
  /\ origin \in [Keys -> Versions]
  /\ l1 \in [Nodes -> [Keys -> Copies \cup {None}]]
  /\ l2 \in [Keys -> Copies \cup {None}]
  /\ l2ttl \in [Keys -> 0 .. MaxTTL]
  /\ inflight \in [Nodes -> [Keys -> Procs \cup {None}]]
  /\ pc \in [Procs -> Steps]
  /\ at \in [Procs -> Nodes \cup {None}]
  /\ key \in [Procs -> Keys \cup {None}]
  /\ ent \in [Procs -> Copies \cup {None}]
  /\ req \in [Procs -> Calls \cup {None}]
  /\ left \in [Procs -> SUBSET Keys]
  /\ found \in [Procs -> BOOLEAN]
  /\ fills \in [Fillers -> Writes \cup {None}]
  /\ pending \in [Nodes -> SUBSET Events]
  /\ events \in Nat /\ faults \in Nat
  /\ floor \in [Nodes -> KeyVersions] /\ published \in KeyVersions /\ requested \in KeyVersions
  /\ late1 \subseteq Nodes \X Keys

\* Bounded staleness: whatever way it took (from the source, over the L2 and
\* the delayed write to it, by a refresh), no copy is served from an L1 for
\* longer than the largest TTL after it was first stored.
ServedWithinTTL == \A n \in Nodes, k \in Keys : Hit(n, k) => l1[n][k].age <= MaxTTL

\* An event for k older copies than ver still has to reach instance n.
Awaited(n, k, ver) ==
  \E e \in pending[n] : e.kind = "invalidate" /\ k \in e.keys \cup e.pattern /\ ver < e.versions[k]

\* An L1 copy older than an invalidation is still awaiting the event, or was
\* put there after the event by a load, a refresh or an L2 that was older.
Reaches(versions) ==
  \A n \in Nodes, k \in Keys :
    l1[n][k] # None /\ l1[n][k].ver < versions[k] =>
      Awaited(n, k, l1[n][k].ver) \/ <<n, k>> \in late1

\* No instance misses an invalidation that was published, whatever the order
\* and the repetition of the events and whoever restarts.
PublishedInvalidationsReach == Reaches(published)

\* No instance misses an invalidation whose caller was told it succeeded.
RequestedInvalidationsReach == Reaches(requested)

\* When the source stops changing, no L1 serves and the L2 holds an old version
\* for ever: the TTLs make up for every race and every lost invalidation.
EventuallyFresh ==
  <>[](\A k \in Keys :
         /\ l2[k] # None => l2[k].ver = origin[k]
         /\ \A n \in Nodes : Hit(n, k) => l1[n][k].ver = origin[k])
=============================================================================

------------------------------- MODULE L1Cache -------------------------------
(***************************************************************************)
(* The in-memory L1 cache of one cache-manager instance                    *)
(* (cache-manager/cache.go): a map from keys to heap-allocated entries and *)
(* a doubly linked list of the same entries in recency order, both guarded *)
(* by one RWMutex.                                                         *)
(*                                                                         *)
(* Get takes the lock twice and lets go of it in between: it looks the     *)
(* entry up under RLock, tests the expiry and copies the fields out of the *)
(* entry with no lock held, and takes Lock only to delete or to move the   *)
(* entry to the front.  Each of those is an action of its own here.  Every *)
(* other operation runs under Lock from start to end.  It is one action,   *)
(* except a Set that overwrites an entry in place, whose writes race with  *)
(* the unlocked reads of Get, and the loops of DeletePattern and           *)
(* CleanupExpired, which delete one key after the other.                   *)
(***************************************************************************)
EXTENDS Integers, SequencesExt

CONSTANTS
  Keys,        \* cache keys
  Values,      \* payloads
  Procs,       \* goroutines calling Get and Set
  Entries,     \* addresses of lruEntry structs; recycled by the collector
  Patterns,    \* what DeletePattern's argument matches, as sets of keys
  TTLs,        \* ttl arguments of Set, in clock units
  MaxEntries,  \* capacity given to NewL1Cache
  MaxTime,     \* bound on the clock
  None,        \* no entry, no lock holder, no value
  Torn         \* a field read half way through a write

ASSUME L1Assumption ==
  /\ MaxEntries \in Nat /\ MaxTime \in Nat
  /\ TTLs \subseteq Int
  /\ Patterns \subseteq SUBSET Keys
  /\ None \notin Keys \cup Values \cup Procs \cup Entries \cup Int
  /\ Torn \notin Values \cup Int \cup {None}

VARIABLES
  cache,       \* the map: key -> entry address, None where absent
  lruList,     \* the list, front (most recently used) first
  heap,        \* contents of the entries: key, value, expiresAt
  mu,          \* the goroutine holding Lock from one step to the next, or None
  toDelete,    \* the keys its DeletePattern or CleanupExpired has yet to delete
  now,         \* the wall clock
  pc,          \* where each goroutine is inside Get or Set
  key,         \* its key argument
  ent,         \* the entry pointer it holds
  val, exp,    \* Set: the fields it is writing; Get: the fields it has read
  window,      \* history: what the key held since the Get looked it up
  since,       \* history: when the Get looked the key up
  raced        \* history: did a read of the Get overlap a write of the entry

shared == <<cache, lruList, heap, mu, toDelete, now>>
local  == <<pc, key, ent, val, exp>>
ghost  == <<window, since, raced>>
vars   == <<shared, local, ghost>>

Time   == Int
Fields == [value : Values \cup {None}, expiresAt : Time]
Steps  == {"idle", "check", "purge", "touch", "value", "expiry", "returned", "set", "sweep"}
\* The steps between a Get's lookup and its return.
InGet  == Steps \ {"idle", "set", "sweep"}

-----------------------------------------------------------------------------
(* container/list: the operations the cache uses. *)

Linked(list, e) == \E i \in DOMAIN list : list[i] = e
IndexOf(list, e) == CHOOSE i \in DOMAIN list : list[i] = e

\* Remove and MoveToFront do nothing on an element that is not in this list:
\* one unlinked earlier, or one of the list that Clear threw away.
ListRemove(list, e) ==
  IF Linked(list, e) THEN RemoveAt(list, IndexOf(list, e)) ELSE list

MoveToFront(list, e) ==
  IF Linked(list, e) THEN Cons(e, ListRemove(list, e)) ELSE list

-----------------------------------------------------------------------------
(* Pieces of the critical sections. *)

\* Entries the runtime may hand out: reachable neither from the map nor from
\* a goroutine's stack.
Free == {e \in Entries : (\A k \in Keys : cache[k] # e) /\ (\A p \in Procs : ent[p] # e)}

Expired(e) == now > heap[e].expiresAt

deleteHole(k) ==  \* mistake: the element is cleared but stays in the list
  /\ cache' = [cache EXCEPT ![k] = None]
  /\ lruList' = [i \in DOMAIN lruList |-> IF lruList[i] = cache[k] THEN None ELSE lruList[i]]

deleteMapOnly(k) ==  \* mistake: the list is forgotten
  /\ cache' = [cache EXCEPT ![k] = None]
  /\ UNCHANGED lruList

deleteUnsafe(k) ==
  /\ cache' = [cache EXCEPT ![k] = None]
  /\ lruList' = ListRemove(lruList, cache[k])

EvictedLate ==  \* mistake: > for >=
  IF Len(lruList) > MaxEntries /\ lruList # <<>>
  THEN [list |-> Front(lruList), map |-> [cache EXCEPT ![heap[Last(lruList)].key] = None]]
  ELSE [list |-> lruList, map |-> cache]

EvictedNewest ==  \* mistake: Front() for Back()
  IF Len(lruList) >= MaxEntries /\ lruList # <<>>
  THEN [list |-> Tail(lruList), map |-> [cache EXCEPT ![heap[Head(lruList)].key] = None]]
  ELSE [list |-> lruList, map |-> cache]

\* The list and the map after evictLRUUnsafe, when Set calls it.
Evicted ==
  IF Len(lruList) >= MaxEntries /\ lruList # <<>>
  THEN LET oldest == Last(lruList) IN
       [list |-> Front(lruList),
        map  |-> [cache EXCEPT ![heap[oldest].key] = None]]
  ELSE [list |-> lruList, map |-> cache]

\* What an unlocked read of a field may return: its contents, or anything
\* between the old and the new contents while a Set is overwriting it.
BeingWritten(e) == mu # None /\ ent[mu] = e
Observed(e, old, new) == IF BeingWritten(e) THEN {old, new, Torn} ELSE {old}

\* A value stored under k widens the window of every Get of k in progress.
Record(k, v, x) ==
  window' = [p \in Procs |-> IF pc[p] \in InGet /\ key[p] = k
                             THEN window[p] \cup {[value |-> v, expiresAt |-> x]}
                             ELSE window[p]]

Goto(p, step) == pc' = [pc EXCEPT ![p] = step]

\* Return to the caller: the stack frame is gone.
Leave(p) ==
  /\ Goto(p, "idle")
  /\ key' = [key EXCEPT ![p] = None]
  /\ ent' = [ent EXCEPT ![p] = None]
  /\ val' = [val EXCEPT ![p] = None]
  /\ exp' = [exp EXCEPT ![p] = None]

Forget(p) ==
  /\ window' = [window EXCEPT ![p] = {}]
  /\ since' = [since EXCEPT ![p] = 0]
  /\ raced' = [raced EXCEPT ![p] = FALSE]

-----------------------------------------------------------------------------
Init ==
  /\ cache = [k \in Keys |-> None]
  /\ lruList = <<>>
  /\ heap = [e \in Entries |-> [key |-> None, value |-> None, expiresAt |-> 0]]
  /\ mu = None
  /\ toDelete = {}
  /\ now = 0
  /\ pc = [p \in Procs |-> "idle"]
  /\ key = [p \in Procs |-> None]
  /\ ent = [p \in Procs |-> None]
  /\ val = [p \in Procs |-> None]
  /\ exp = [p \in Procs |-> None]
  /\ window = [p \in Procs |-> {}]
  /\ since = [p \in Procs |-> 0]
  /\ raced = [p \in Procs |-> FALSE]

(* Get.  A lookup that misses returns at once and changes nothing. *)

GetLookup(p, k) ==
  /\ pc[p] = "idle" /\ mu = None
  /\ cache[k] # None
  /\ Goto(p, "check")
  /\ key' = [key EXCEPT ![p] = k]
  /\ ent' = [ent EXCEPT ![p] = cache[k]]
  /\ window' = [window EXCEPT ![p] = {[value |-> heap[cache[k]].value,
                                       expiresAt |-> heap[cache[k]].expiresAt]}]
  /\ since' = [since EXCEPT ![p] = now]
  /\ UNCHANGED <<shared, val, exp, raced>>

GetCheckNone(p) ==  \* mistake: the lazy expiry test is left out
  /\ pc[p] = "check"
  /\ Goto(p, "touch")
  /\ UNCHANGED <<shared, key, ent, val, exp, ghost>>

GetCheck(p) ==
  /\ pc[p] = "check"
  /\ \E x \in Observed(ent[p], heap[ent[p]].expiresAt, exp[mu]) :
       \E expired \in IF x = Torn THEN BOOLEAN ELSE {now > x} :
         Goto(p, IF expired THEN "purge" ELSE "touch")
  /\ raced' = [raced EXCEPT ![p] = @ \/ BeingWritten(ent[p])]
  /\ UNCHANGED <<shared, key, ent, val, exp, window, since>>

\* The delete is by key: whatever entry the key has by now goes.
GetPurge(p) ==
  /\ pc[p] = "purge" /\ mu = None
  /\ deleteUnsafe(key[p])
  /\ Leave(p) /\ Forget(p)
  /\ UNCHANGED <<heap, mu, toDelete, now>>

GetTouch(p) ==
  /\ pc[p] = "touch" /\ mu = None
  /\ lruList' = MoveToFront(lruList, ent[p])
  /\ Goto(p, "value")
  /\ UNCHANGED <<cache, heap, mu, toDelete, now, key, ent, val, exp, ghost>>

GetReadValue(p) ==
  /\ pc[p] = "value"
  /\ \E v \in Observed(ent[p], heap[ent[p]].value, val[mu]) :
       val' = [val EXCEPT ![p] = v]
  /\ raced' = [raced EXCEPT ![p] = @ \/ BeingWritten(ent[p])]
  /\ Goto(p, "expiry")
  /\ UNCHANGED <<shared, key, ent, exp, window, since>>

GetReadExpiry(p) ==
  /\ pc[p] = "expiry"
  /\ \E x \in Observed(ent[p], heap[ent[p]].expiresAt, exp[mu]) :
       exp' = [exp EXCEPT ![p] = x]
  /\ raced' = [raced EXCEPT ![p] = @ \/ BeingWritten(ent[p])]
  /\ Goto(p, "returned")
  /\ UNCHANGED <<shared, key, ent, val, window, since>>

GetReturn(p) ==
  /\ pc[p] = "returned"
  /\ Leave(p) /\ Forget(p)
  /\ UNCHANGED shared

(* Set of a key that is present: the fields are overwritten in place. *)

SetBegin(p, k, v, ttl) ==
  /\ pc[p] = "idle" /\ mu = None
  /\ cache[k] # None
  /\ mu' = p
  /\ Goto(p, "set")
  /\ key' = [key EXCEPT ![p] = k]
  /\ ent' = [ent EXCEPT ![p] = cache[k]]
  /\ val' = [val EXCEPT ![p] = v]
  /\ exp' = [exp EXCEPT ![p] = now + ttl]
  /\ Record(k, v, now + ttl)
  /\ UNCHANGED <<cache, lruList, heap, toDelete, now, since, raced>>

SetEndLocked(p) ==  \* mistake: a return without Unlock
  /\ pc[p] = "set"
  /\ heap' = [heap EXCEPT ![ent[p]] = [key |-> @.key, value |-> val[p], expiresAt |-> exp[p]]]
  /\ lruList' = MoveToFront(lruList, ent[p])
  /\ Leave(p)
  /\ UNCHANGED <<cache, mu, toDelete, now, ghost>>

SetEnd(p) ==
  /\ pc[p] = "set"
  /\ heap' = [heap EXCEPT ![ent[p]] = [key |-> @.key, value |-> val[p], expiresAt |-> exp[p]]]
  /\ lruList' = MoveToFront(lruList, ent[p])
  /\ mu' = None
  /\ Leave(p)
  /\ UNCHANGED <<cache, toDelete, now, ghost>>

(* Set of a key that is absent, from Lock to Unlock. *)

SetInsertRecycle(k, v, ttl) ==  \* mistake: the victim's struct is reused, its map slot kept
  /\ mu = None
  /\ cache[k] = None
  /\ \E e \in IF Len(lruList) >= MaxEntries /\ lruList # <<>> THEN {Last(lruList)} ELSE Free :
       /\ heap' = [heap EXCEPT ![e] = [key |-> k, value |-> v, expiresAt |-> now + ttl]]
       /\ lruList' = Cons(e, Evicted.list)
       /\ cache' = [cache EXCEPT ![k] = e]
  /\ Record(k, v, now + ttl)
  /\ UNCHANGED <<mu, toDelete, now, local, since, raced>>

SetInsert(k, v, ttl) ==
  /\ mu = None
  /\ cache[k] = None
  /\ \E e \in Free :
       /\ heap' = [heap EXCEPT ![e] = [key |-> k, value |-> v, expiresAt |-> now + ttl]]
       /\ lruList' = Cons(e, Evicted.list)
       /\ cache' = [Evicted.map EXCEPT ![k] = e]
  /\ Record(k, v, now + ttl)
  /\ UNCHANGED <<mu, toDelete, now, local, since, raced>>

(* The remaining operations hold Lock throughout. *)

Delete(k) ==
  /\ mu = None
  /\ deleteUnsafe(k)
  /\ UNCHANGED <<heap, mu, toDelete, now, local, ghost>>

Clear ==
  /\ mu = None
  /\ cache' = [k \in Keys |-> None]
  /\ lruList' = <<>>
  /\ UNCHANGED <<heap, mu, toDelete, now, local, ghost>>

\* The first loop: collect the keys.  With nothing collected nothing happens.
Collect(p, K) ==
  /\ pc[p] = "idle" /\ mu = None
  /\ K # {}
  /\ mu' = p
  /\ toDelete' = K
  /\ Goto(p, "sweep")
  /\ UNCHANGED <<cache, lruList, heap, now, key, ent, val, exp, ghost>>

DeletePattern(p, P) == Collect(p, {k \in P : cache[k] # None})

CleanupExpired(p) == Collect(p, {k \in Keys : cache[k] # None /\ Expired(cache[k])})

\* The second loop: delete them.
Sweep(p) ==
  /\ pc[p] = "sweep"
  /\ \E k \in toDelete :
       /\ deleteUnsafe(k)
       /\ toDelete' = toDelete \ {k}
       /\ IF toDelete = {k}
          THEN Goto(p, "idle") /\ mu' = None
          ELSE UNCHANGED <<pc, mu>>
  /\ UNCHANGED <<heap, now, key, ent, val, exp, ghost>>

Tick ==
  /\ now < MaxTime
  /\ now' = now + 1
  /\ UNCHANGED <<cache, lruList, heap, mu, toDelete, local, ghost>>

\* The steps of a goroutine that is inside Get or Set.
Progress(p) ==
  \/ GetCheck(p) \/ GetPurge(p) \/ GetTouch(p)
  \/ GetReadValue(p) \/ GetReadExpiry(p) \/ GetReturn(p)
  \/ SetEnd(p) \/ Sweep(p)

Next ==
  \/ \E p \in Procs : Progress(p)
  \/ \E p \in Procs, k \in Keys : GetLookup(p, k)
  \/ \E p \in Procs, k \in Keys, v \in Values, ttl \in TTLs : SetBegin(p, k, v, ttl)
  \/ \E k \in Keys, v \in Values, ttl \in TTLs : SetInsert(k, v, ttl)
  \/ \E k \in Keys : Delete(k)
  \/ \E p \in Procs, P \in Patterns : DeletePattern(p, P)
  \/ \E p \in Procs : CleanupExpired(p)
  \/ Clear
  \/ Tick

Spec == Init /\ [][Next]_vars

-----------------------------------------------------------------------------
TypeOK ==
  /\ cache \in [Keys -> Entries \cup {None}]
  /\ lruList \in Seq(Entries)
  /\ heap \in [Entries -> [key : Keys \cup {None}, value : Values \cup {None}, expiresAt : Time]]
  /\ mu \in Procs \cup {None}
  /\ toDelete \in SUBSET Keys
  /\ now \in Nat
  /\ pc \in [Procs -> Steps]
  /\ key \in [Procs -> Keys \cup {None}]
  /\ ent \in [Procs -> Entries \cup {None}]
  /\ val \in [Procs -> Values \cup {None, Torn}]
  /\ exp \in [Procs -> Time \cup {None, Torn}]
  /\ window \in [Procs -> SUBSET Fields]
  /\ since \in [Procs -> Time]
  /\ raced \in [Procs -> BOOLEAN]

\* The lock is held from one step to the next by exactly the goroutine that is
\* overwriting the entry its key maps to, or deleting the keys it collected.
LockDiscipline ==
  /\ \A p \in Procs : pc[p] \in {"set", "sweep"} <=> mu = p
  /\ \A p \in Procs : pc[p] = "set" =>
       /\ key[p] \in Keys /\ ent[p] = cache[key[p]] /\ ent[p] # None
       /\ val[p] \in Values /\ exp[p] \in Time
  /\ toDelete # {} <=> \E p \in Procs : pc[p] = "sweep"

\* The map and the list hold the same entries, each once and under its own
\* key, in every state in which another goroutine can take the lock or be
\* preempted: a purge, an eviction, a sweep and a Clear all keep both in step,
\* and MoveToFront on an entry deleted meanwhile does not put it back.
ListMapConsistent ==
  /\ \A i, j \in DOMAIN lruList : lruList[i] = lruList[j] => i = j
  /\ \A i \in DOMAIN lruList :
       LET k == heap[lruList[i]].key IN k \in Keys /\ cache[k] = lruList[i]
  /\ \A k \in Keys : cache[k] # None => Linked(lruList, cache[k]) /\ heap[cache[k]].key = k

\* The number of entries never exceeds the capacity (Set keeps the one entry
\* it inserts even at capacity zero).
CapacityBound == Len(lruList) <= IF MaxEntries = 0 THEN 1 ELSE MaxEntries

\* A change of the list that keeps two entries in their order unless the later
\* one came to the front, and that drops no entry before one it keeps when it
\* put a new entry in front.
RecencyKept(old, new) ==
  \A i, j \in DOMAIN old : i < j =>
    LET a == old[i]
        b == old[j]
    IN /\ Linked(new, a) /\ Linked(new, b)
            => IndexOf(new, a) < IndexOf(new, b) \/ new[1] = b
       /\ Linked(new, b) /\ ~Linked(old, new[1]) => Linked(new, a)

\* Recency: two entries swap their order only when the later one is used and
\* comes to the front, and an insertion that evicts an entry evicts every entry
\* behind it too, so the victim is the least recently used one.
LRUOrder == [][RecencyKept(lruList, lruList')]_vars

\* The entry a Get holds keeps the key it was looked up under, however often
\* the key is deleted, evicted and set again before the Get dereferences it.
HeldEntryKeepsKey ==
  \A p \in Procs : pc[p] \in InGet =>
    ent[p] # None /\ key[p] # None /\ heap[ent[p]].key = key[p]

\* Get is regular: absent a data race, each field it returns is one the key
\* had at some time between the lookup and the return.
GetIsRegular ==
  \A p \in Procs : pc[p] = "returned" /\ ~raced[p] =>
    /\ \E w \in window[p] : w.value = val[p]
    /\ \E w \in window[p] : w.expiresAt = exp[p]

\* Absent a data race, Get never returns an entry that had expired before the
\* Get began, unless a Set of the same key overlapped the Get (the cache manager
\* stores L2 entries with whatever time they have left, possibly none).
GetNotExpired ==
  \A p \in Procs : pc[p] = "returned" /\ ~raced[p] /\ (\A u, w \in window[p] : u = w)
                     => exp[p] >= since[p]

-----------------------------------------------------------------------------
\* The cache as its callers see it: the map seen through the heap.
Abstract == INSTANCE AbstractCache WITH
  store <- [k \in Keys |-> IF cache[k] = None THEN None ELSE heap[cache[k]].value]

\* The L1 cache implements the lossy map: no interleaving makes a key hold a
\* value that was not put under that very key, or changes two keys at once
\* other than by losing them.
RefinesAbstractCache == Abstract!Spec
=============================================================================

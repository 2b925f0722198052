---------------------------- MODULE L1CacheProofs ----------------------------
(* Machine-checked proofs about L1Cache, for any keys, goroutines, capacity. *)
EXTENDS L1Cache, SequenceTheorems, TLAPS

(***************************************************************************)
(* The list operations.                                                    *)
(***************************************************************************)

\* No element occurs twice: what IndexOf finds is the only occurrence.
Distinct(list) == \A i, j \in DOMAIN list : list[i] = list[j] => i = j

\* What is where after a removal.
LEMMA RemoveByPosition ==
  ASSUME NEW S, NEW list \in Seq(S), NEW e, Linked(list, e)
  PROVE  /\ IndexOf(list, e) \in 1..Len(list) /\ list[IndexOf(list, e)] = e
         /\ ListRemove(list, e) \in Seq(S)
         /\ Len(ListRemove(list, e)) = Len(list) - 1
         /\ \A i \in 1..Len(list)-1 :
              ListRemove(list, e)[i] = IF i < IndexOf(list, e) THEN list[i] ELSE list[i+1]
<1> DEFINE n == IndexOf(list, e)
           new == ListRemove(list, e)
<1>1. n \in 1..Len(list) /\ list[n] = e
  BY DEF Linked, IndexOf
<1>2. new = SubSeq(list, 1, n-1) \o SubSeq(list, n+1, Len(list))
  BY DEF ListRemove, RemoveAt
<1> HIDE DEF n, new
<1>3. /\ new \in Seq(S)
      /\ Len(new) = Len(list) - 1
      /\ \A i \in 1..Len(list)-1 : new[i] = IF i < n THEN list[i] ELSE list[i+1]
  <2> DEFINE a == SubSeq(list, 1, n-1)
             b == SubSeq(list, n+1, Len(list))
  <2>1. a \in Seq(S) /\ Len(a) = n-1 /\ \A i \in 1..n-1 : a[i] = list[i]
    BY <1>1, SubSeqProperties
  <2>2. b \in Seq(S) /\ Len(b) = Len(list)-n /\ \A i \in 1..Len(list)-n : b[i] = list[n+i]
    BY <1>1, SubSeqProperties
  <2> HIDE DEF a, b
  <2>3. new = a \o b
    BY <1>2 DEF a, b
  <2>4. new \in Seq(S) /\ Len(new) = Len(list) - 1
    BY <1>1, <2>1, <2>2, <2>3
  <2>5. ASSUME NEW i \in 1..Len(list)-1
        PROVE  new[i] = IF i < n THEN list[i] ELSE list[i+1]
    <3>1. new[i] = IF i <= Len(a) THEN a[i] ELSE b[i - Len(a)]
      BY <1>1, <2>1, <2>2, <2>3, ConcatProperties
    <3>2. QED BY <1>1, <2>1, <2>2, <3>1
  <2>6. QED BY <2>4, <2>5
<1>4. QED BY <1>1, <1>3 DEF n, new

\* Removing an element of a duplicate-free list leaves the other elements, each
\* once, and shortens the list by one.
LEMMA RemoveLinked ==
  ASSUME NEW S, NEW list \in Seq(S), NEW e, Distinct(list), Linked(list, e)
  PROVE  /\ ListRemove(list, e) \in Seq(S)
         /\ Len(ListRemove(list, e)) = Len(list) - 1
         /\ Distinct(ListRemove(list, e))
         /\ \A x : Linked(ListRemove(list, e), x) <=> Linked(list, x) /\ x # e
<1> DEFINE n == IndexOf(list, e)
           new == ListRemove(list, e)
<1>1. n \in 1..Len(list) /\ list[n] = e
  BY RemoveByPosition
<1>2. /\ new \in Seq(S) /\ Len(new) = Len(list) - 1
      /\ \A i \in 1..Len(list)-1 : new[i] = IF i < n THEN list[i] ELSE list[i+1]
  BY RemoveByPosition
<1> HIDE DEF n, new
<1>3. Distinct(new)
  <2> SUFFICES ASSUME NEW i \in 1..Len(list)-1, NEW j \in 1..Len(list)-1, new[i] = new[j]
               PROVE  i = j
    BY <1>2 DEF Distinct
  <2> DEFINE old(m) == IF m < n THEN m ELSE m + 1
  <2>1. old(i) \in DOMAIN list /\ old(j) \in DOMAIN list
    BY <1>1
  <2>2. list[old(i)] = list[old(j)]
    BY <1>2
  <2>3. old(i) = old(j)
    BY <2>1, <2>2 DEF Distinct
  <2>4. QED BY <1>1, <2>3
<1>4. ASSUME NEW x PROVE Linked(new, x) <=> Linked(list, x) /\ x # e
  <2>1. ASSUME Linked(new, x) PROVE Linked(list, x) /\ x # e
    BY <1>1, <1>2, <2>1, SMTT(30) DEF Linked, Distinct
  <2>2. ASSUME Linked(list, x), x # e PROVE Linked(new, x)
    <3>1. PICK i \in 1..Len(list) : list[i] = x
      BY <2>2 DEF Linked
    <3>2. CASE i < n
      BY <1>1, <1>2, <3>1, <3>2 DEF Linked
    <3>3. CASE i > n
      <4>1. i - 1 \in 1..Len(list)-1 /\ new[i-1] = list[i]
        BY <1>1, <1>2, <3>3
      <4>2. QED BY <1>2, <3>1, <4>1 DEF Linked
    <3>4. QED BY <1>1, <2>2, <3>1, <3>2, <3>3
  <2>3. QED BY <2>1, <2>2
<1>5. QED BY <1>2, <1>3, <1>4 DEF new

\* Pushing a new element in front.
LEMMA PushFront ==
  ASSUME NEW S, NEW list \in Seq(S), NEW e \in S, Distinct(list), ~Linked(list, e)
  PROVE  /\ Cons(e, list) \in Seq(S)
         /\ Len(Cons(e, list)) = Len(list) + 1
         /\ Distinct(Cons(e, list))
         /\ \A x : Linked(Cons(e, list), x) <=> Linked(list, x) \/ x = e
<1> DEFINE new == Cons(e, list)
<1>1. /\ new \in Seq(S)
      /\ Len(new) = Len(list) + 1
      /\ \A i \in 1..Len(list)+1 : new[i] = IF i = 1 THEN e ELSE list[i-1]
  BY DEF Cons
<1> HIDE DEF new
<1>2. Distinct(new)
  <2> SUFFICES ASSUME NEW i \in 1..Len(list)+1, NEW j \in 1..Len(list)+1, new[i] = new[j]
               PROVE  i = j
    BY <1>1 DEF Distinct
  <2>1. CASE i = 1 /\ j = 1
    BY <2>1
  <2>2. CASE i # 1 /\ j # 1
    <3>1. i-1 \in DOMAIN list /\ j-1 \in DOMAIN list /\ list[i-1] = list[j-1]
      BY <1>1, <2>2
    <3>2. i-1 = j-1
      BY <3>1 DEF Distinct
    <3>3. QED BY <3>2
  <2>3. ASSUME NEW m \in 1..Len(list)+1, m # 1 PROVE new[m] # e
    <3>1. m-1 \in DOMAIN list /\ new[m] = list[m-1]
      BY <1>1, <2>3
    <3>2. QED BY <3>1 DEF Linked
  <2>4. new[1] = e
    BY <1>1
  <2>5. QED BY <2>1, <2>2, <2>3, <2>4
<1>3. ASSUME NEW x PROVE Linked(new, x) <=> Linked(list, x) \/ x = e
  <2>1. ASSUME Linked(new, x) PROVE Linked(list, x) \/ x = e
    <3>1. PICK i \in 1..Len(list)+1 : new[i] = x
      BY <1>1, <2>1 DEF Linked
    <3>2. CASE i = 1
      BY <1>1, <3>1, <3>2
    <3>3. CASE i # 1
      <4>1. i-1 \in DOMAIN list /\ list[i-1] = x
        BY <1>1, <3>1, <3>3
      <4>2. QED BY <4>1 DEF Linked
    <3>4. QED BY <3>2, <3>3
  <2>2. ASSUME Linked(list, x) PROVE Linked(new, x)
    <3>1. PICK i \in 1..Len(list) : list[i] = x
      BY <2>2 DEF Linked
    <3>2. i+1 \in DOMAIN new /\ new[i+1] = x
      BY <1>1, <3>1
    <3>3. QED BY <3>2 DEF Linked
  <2>3. Linked(new, e)
    BY <1>1 DEF Linked
  <2>4. QED BY <2>1, <2>2, <2>3
<1>4. QED BY <1>1, <1>2, <1>3 DEF new

\* MoveToFront only reorders.
LEMMA MoveToFrontReorders ==
  ASSUME NEW S, NEW list \in Seq(S), NEW e, Distinct(list)
  PROVE  /\ MoveToFront(list, e) \in Seq(S)
         /\ Len(MoveToFront(list, e)) = Len(list)
         /\ Distinct(MoveToFront(list, e))
         /\ \A x : Linked(MoveToFront(list, e), x) <=> Linked(list, x)
<1>1. CASE ~Linked(list, e)
  BY <1>1 DEF MoveToFront
<1>2. CASE Linked(list, e)
  <2> DEFINE rest == ListRemove(list, e)
  <2>1. /\ rest \in Seq(S)
        /\ Len(rest) = Len(list) - 1
        /\ Distinct(rest)
        /\ \A x : Linked(rest, x) <=> Linked(list, x) /\ x # e
    BY <1>2, RemoveLinked
  <2>2. e \in S
    BY <1>2 DEF Linked
  <2>3. MoveToFront(list, e) = Cons(e, rest)
    BY <1>2 DEF MoveToFront
  <2> HIDE DEF rest
  <2>4. /\ Cons(e, rest) \in Seq(S)
        /\ Len(Cons(e, rest)) = Len(rest) + 1
        /\ Distinct(Cons(e, rest))
        /\ \A x : Linked(Cons(e, rest), x) <=> Linked(rest, x) \/ x = e
    BY <2>1, <2>2, PushFront
  <2>5. QED BY <1>2, <2>1, <2>3, <2>4
<1>3. QED BY <1>1, <1>2

\* Dropping the last element of a non-empty duplicate-free list.
LEMMA DropLast ==
  ASSUME NEW S, NEW list \in Seq(S), Distinct(list), list # <<>>
  PROVE  /\ Last(list) \in S /\ Linked(list, Last(list))
         /\ Front(list) \in Seq(S)
         /\ Len(Front(list)) = Len(list) - 1
         /\ Distinct(Front(list))
         /\ \A x : Linked(Front(list), x) <=> Linked(list, x) /\ x # Last(list)
<1> DEFINE new == Front(list)
<1>1. Len(list) \in Nat /\ Len(list) >= 1
  OBVIOUS
<1>2. /\ new \in Seq(S)
      /\ Len(new) = Len(list) - 1
      /\ \A i \in 1..Len(list)-1 : new[i] = list[i]
  <2> DEFINE n == Len(list)
             m == n - 1
  <2>1. n \in Nat /\ n >= 1 /\ m \in Int /\ \A i \in 1..m : list[i] \in S
    BY <1>1
  <2>2. new = SubSeq(list, 1, m)
    BY DEF Front
  <2> HIDE DEF new, m
  <2>3. /\ new \in Seq(S)
        /\ Len(new) = IF 1 <= m THEN m-1+1 ELSE 0
        /\ \A i \in 1..m-1+1 : new[i] = list[1+i-1]
    BY <2>1, <2>2, SubSeqProperties
  <2> HIDE DEF n
  <2>4. (IF 1 <= m THEN m-1+1 ELSE 0) = n - 1 /\ m-1+1 = n-1
    BY <2>1 DEF m
  <2>5. \A i \in 1..n-1 : 1+i-1 = i
    BY <2>1
  <2>6. Len(new) = n - 1 /\ \A i \in 1..n-1 : new[i] = list[i]
    BY <2>3, <2>4, <2>5
  <2>7. QED BY <2>3, <2>6 DEF n
<1>3. /\ Last(list) = list[Len(list)]
      /\ Last(list) \in S
      /\ Linked(list, Last(list))
  BY <1>1 DEF Last, Linked
<1> HIDE DEF new
<1>4. Distinct(new)
  BY <1>1, <1>2 DEF Distinct
<1>5. ASSUME NEW x PROVE Linked(new, x) <=> Linked(list, x) /\ x # Last(list)
  <2>1. ASSUME Linked(new, x) PROVE Linked(list, x) /\ x # Last(list)
    BY <1>1, <1>2, <1>3, <2>1 DEF Linked, Distinct
  <2>2. ASSUME Linked(list, x), x # Last(list) PROVE Linked(new, x)
    BY <1>1, <1>2, <1>3, <2>2 DEF Linked
  <2>3. QED BY <2>1, <2>2
<1>6. QED BY <1>2, <1>3, <1>4, <1>5 DEF new

(***************************************************************************)
(* The map and the list.  Structure is what every critical section         *)
(* preserves; it speaks of the shared state only.                          *)
(***************************************************************************)

SharedType ==
  /\ cache \in [Keys -> Entries \cup {None}]
  /\ lruList \in Seq(Entries)
  /\ heap \in [Entries -> [key : Keys \cup {None}, value : Values \cup {None}, expiresAt : Time]]

Structure == SharedType /\ ListMapConsistent /\ CapacityBound

\* ListMapConsistent in terms of membership, the form the list lemmas speak.
LEMMA ConsistentByMembership ==
  ASSUME SharedType
  PROVE  ListMapConsistent <=>
           /\ Distinct(lruList)
           /\ \A e \in Entries : Linked(lruList, e) =>
                heap[e].key \in Keys /\ cache[heap[e].key] = e
           /\ \A k \in Keys : cache[k] # None =>
                Linked(lruList, cache[k]) /\ heap[cache[k]].key = k
BY DEF SharedType, ListMapConsistent, Distinct, Linked

\* The same of the state after a step.
LEMMA ConsistentPrimed ==
  ASSUME SharedType',
         Distinct(lruList'),
         \A e \in Entries : Linked(lruList', e) =>
           heap'[e].key \in Keys /\ cache'[heap'[e].key] = e,
         \A k \in Keys : cache'[k] # None =>
           Linked(lruList', cache'[k]) /\ heap'[cache'[k]].key = k
  PROVE  ListMapConsistent'
BY DEF SharedType, ListMapConsistent, Distinct, Linked

\* Deleting a key, present or not, with the entries left alone.
LEMMA UnlinkPreserves ==
  ASSUME Structure, NEW k \in Keys, deleteUnsafe(k), heap' = heap
  PROVE  Structure'
<1>1. CASE cache[k] = None
  <2>1. ~Linked(lruList, cache[k])
    BY <1>1, L1Assumption DEF Structure, SharedType, Linked
  <2>2. cache' = cache /\ lruList' = lruList
    BY <1>1, <2>1 DEF deleteUnsafe, ListRemove, Structure, SharedType
  <2>3. QED BY <2>2 DEF Structure, SharedType, ListMapConsistent, CapacityBound, Linked
<1>2. CASE cache[k] # None
  <2> DEFINE e == cache[k]
  <2>1. e \in Entries /\ Linked(lruList, e) /\ heap[e].key = k /\ Distinct(lruList)
    BY <1>2, ConsistentByMembership DEF Structure, SharedType
  <2>2. /\ lruList' \in Seq(Entries)
        /\ Len(lruList') = Len(lruList) - 1
        /\ Distinct(lruList')
        /\ \A x : Linked(lruList', x) <=> Linked(lruList, x) /\ x # e
    BY <2>1, RemoveLinked DEF deleteUnsafe, Structure, SharedType
  <2>3. cache' = [cache EXCEPT ![k] = None]
    BY DEF deleteUnsafe
  <2>4. SharedType'
    BY <2>2, <2>3 DEF Structure, SharedType
  <2>5. \A x \in Entries : Linked(lruList', x) =>
          heap'[x].key \in Keys /\ cache'[heap'[x].key] = x
    BY <2>1, <2>2, <2>3, ConsistentByMembership DEF Structure, SharedType
  <2>6. \A j \in Keys : cache'[j] # None =>
          Linked(lruList', cache'[j]) /\ heap'[cache'[j]].key = j
    BY <2>1, <2>2, <2>3, ConsistentByMembership DEF Structure, SharedType
  <2>7. ListMapConsistent'
    BY <2>2, <2>4, <2>5, <2>6, ConsistentPrimed
  <2>8. CapacityBound'
    BY <2>2, L1Assumption DEF Structure, SharedType, CapacityBound
  <2>9. QED BY <2>4, <2>7, <2>8 DEF Structure
<1>3. QED BY <1>1, <1>2

\* Moving an entry, linked or not, to the front.
LEMMA TouchPreserves ==
  ASSUME Structure, NEW e, lruList' = MoveToFront(lruList, e), cache' = cache,
         heap' \in [Entries -> [key : Keys \cup {None}, value : Values \cup {None}, expiresAt : Time]],
         \A x \in Entries : heap'[x].key = heap[x].key
  PROVE  Structure'
<1>1. Distinct(lruList)
  BY ConsistentByMembership DEF Structure
<1>2. /\ lruList' \in Seq(Entries)
      /\ Len(lruList') = Len(lruList)
      /\ Distinct(lruList')
      /\ \A x : Linked(lruList', x) <=> Linked(lruList, x)
  BY <1>1, MoveToFrontReorders DEF Structure, SharedType
<1>3. SharedType'
  BY <1>2 DEF Structure, SharedType
<1>4. \A x \in Entries : Linked(lruList', x) =>
        heap'[x].key \in Keys /\ cache'[heap'[x].key] = x
  BY <1>2, ConsistentByMembership DEF Structure, SharedType
<1>5. \A j \in Keys : cache'[j] # None =>
        Linked(lruList', cache'[j]) /\ heap'[cache'[j]].key = j
  BY <1>2, ConsistentByMembership DEF Structure, SharedType
<1>6. ListMapConsistent'
  BY <1>2, <1>3, <1>4, <1>5, ConsistentPrimed
<1>7. CapacityBound'
  BY <1>2 DEF Structure, CapacityBound
<1>8. QED BY <1>3, <1>6, <1>7 DEF Structure

\* Evicting the oldest entry makes room: what is left is consistent, and short
\* enough for one more entry.
LEMMA EvictionMakesRoom ==
  ASSUME Structure
  PROVE  /\ Evicted.list \in Seq(Entries)
         /\ Evicted.map \in [Keys -> Entries \cup {None}]
         /\ Distinct(Evicted.list)
         /\ \A x : Linked(Evicted.list, x) => Linked(lruList, x)
         /\ \A x \in Entries : Linked(Evicted.list, x) =>
              heap[x].key \in Keys /\ Evicted.map[heap[x].key] = x
         /\ \A k \in Keys : Evicted.map[k] # None =>
              /\ Evicted.map[k] = cache[k]
              /\ Linked(Evicted.list, cache[k]) /\ heap[cache[k]].key = k
         /\ Len(Evicted.list) + 1 <= IF MaxEntries = 0 THEN 1 ELSE MaxEntries
<1>0. /\ Distinct(lruList)
      /\ \A x \in Entries : Linked(lruList, x) => heap[x].key \in Keys /\ cache[heap[x].key] = x
      /\ \A k \in Keys : cache[k] # None => Linked(lruList, cache[k]) /\ heap[cache[k]].key = k
  BY ConsistentByMembership DEF Structure
<1>1. CASE Len(lruList) >= MaxEntries /\ lruList # <<>>
  <2> DEFINE oldest == Last(lruList)
  <2>1. /\ oldest \in Entries /\ Linked(lruList, oldest)
        /\ Front(lruList) \in Seq(Entries)
        /\ Len(Front(lruList)) = Len(lruList) - 1
        /\ Distinct(Front(lruList))
        /\ \A x : Linked(Front(lruList), x) <=> Linked(lruList, x) /\ x # oldest
    BY <1>0, <1>1, DropLast DEF Structure, SharedType
  <2>2. /\ Evicted.list = Front(lruList)
        /\ Evicted.map = [cache EXCEPT ![heap[oldest].key] = None]
    BY <1>1 DEF Evicted
  <2> HIDE DEF oldest
  <2>3. heap[oldest].key \in Keys /\ cache[heap[oldest].key] = oldest
    BY <1>0, <2>1
  <2>4. Evicted.map \in [Keys -> Entries \cup {None}]
    BY <2>2, <2>3 DEF Structure, SharedType
  <2>5. \A x \in Entries : Linked(Evicted.list, x) =>
          heap[x].key \in Keys /\ Evicted.map[heap[x].key] = x
    BY <1>0, <2>1, <2>2, <2>3 DEF Structure, SharedType
  <2>6. \A k \in Keys : Evicted.map[k] # None =>
          /\ Evicted.map[k] = cache[k]
          /\ Linked(Evicted.list, cache[k]) /\ heap[cache[k]].key = k
    BY <1>0, <2>1, <2>2, <2>3 DEF Structure, SharedType
  <2>7. Len(Evicted.list) + 1 <= IF MaxEntries = 0 THEN 1 ELSE MaxEntries
    BY <2>1, <2>2 DEF Structure, SharedType, CapacityBound
  <2>8. QED BY <2>1, <2>2, <2>4, <2>5, <2>6, <2>7
<1>2. CASE ~(Len(lruList) >= MaxEntries /\ lruList # <<>>)
  <2>1. Evicted.list = lruList /\ Evicted.map = cache
    BY <1>2 DEF Evicted
  <2>2. Len(lruList) + 1 <= IF MaxEntries = 0 THEN 1 ELSE MaxEntries
    BY <1>2, L1Assumption DEF Structure, SharedType
  <2>3. QED BY <1>0, <2>1, <2>2 DEF Structure, SharedType
<1>3. QED BY <1>1, <1>2

\* Inserting a fresh entry for an absent key, after the eviction.
LEMMA InsertPreserves ==
  ASSUME Structure, NEW k \in Keys, NEW v \in Values, NEW x \in Int, NEW e \in Entries,
         cache[k] = None,
         \A j \in Keys : cache[j] # e,
         heap' = [heap EXCEPT ![e] = [key |-> k, value |-> v, expiresAt |-> x]],
         lruList' = Cons(e, Evicted.list),
         cache' = [Evicted.map EXCEPT ![k] = e]
  PROVE  Structure'
<1>1. /\ Evicted.list \in Seq(Entries)
      /\ Evicted.map \in [Keys -> Entries \cup {None}]
      /\ Distinct(Evicted.list)
      /\ \A y \in Entries : Linked(Evicted.list, y) =>
           heap[y].key \in Keys /\ Evicted.map[heap[y].key] = y
      /\ \A j \in Keys : Evicted.map[j] # None =>
           /\ Evicted.map[j] = cache[j]
           /\ Linked(Evicted.list, cache[j]) /\ heap[cache[j]].key = j
      /\ Len(Evicted.list) + 1 <= IF MaxEntries = 0 THEN 1 ELSE MaxEntries
  BY EvictionMakesRoom
<1>2. ~Linked(Evicted.list, e)
  BY <1>1, L1Assumption
<1> DEFINE rest == Evicted.list
           map  == Evicted.map
<1> HIDE DEF rest, map
<1>3. /\ lruList' \in Seq(Entries)
      /\ Len(lruList') = Len(rest) + 1
      /\ Distinct(lruList')
      /\ \A y : Linked(lruList', y) <=> Linked(rest, y) \/ y = e
  <2>1. rest \in Seq(Entries) /\ Distinct(rest) /\ ~Linked(rest, e) /\ lruList' = Cons(e, rest)
    BY <1>1, <1>2 DEF rest
  <2>2. QED BY <2>1, PushFront
<1>4. SharedType'
  BY <1>1, <1>3 DEF Structure, SharedType, Time
<1>5. \A y \in Entries : Linked(lruList', y) =>
        heap'[y].key \in Keys /\ cache'[heap'[y].key] = y
  <2> SUFFICES ASSUME NEW y \in Entries, Linked(lruList', y)
               PROVE  heap'[y].key \in Keys /\ cache'[heap'[y].key] = y
    OBVIOUS
  <2>1. CASE y = e
    BY <1>1, <2>1 DEF Structure, SharedType
  <2>2. CASE y # e
    <3>1. heap'[y] = heap[y] /\ Linked(rest, y)
      BY <1>3, <2>2 DEF Structure, SharedType
    <3>2. heap[y].key \in Keys /\ map[heap[y].key] = y
      BY <1>1, <3>1 DEF rest, map
    <3>3. heap[y].key # k
      BY <1>1, <3>2, L1Assumption DEF map
    <3>4. QED BY <1>1, <3>1, <3>2, <3>3 DEF map
  <2>3. QED BY <2>1, <2>2
<1>6. \A j \in Keys : cache'[j] # None =>
        Linked(lruList', cache'[j]) /\ heap'[cache'[j]].key = j
  <2> SUFFICES ASSUME NEW j \in Keys, cache'[j] # None
               PROVE  Linked(lruList', cache'[j]) /\ heap'[cache'[j]].key = j
    OBVIOUS
  <2>1. CASE j = k
    BY <1>1, <1>3, <2>1 DEF Structure, SharedType
  <2>2. CASE j # k
    <3>1. cache'[j] = map[j] /\ map[j] = cache[j] /\ Linked(rest, cache[j]) /\ heap[cache[j]].key = j
      BY <1>1, <2>2 DEF map, rest
    <3>2. cache[j] # e /\ cache[j] \in Entries
      BY <3>1 DEF Structure, SharedType
    <3>3. heap'[cache[j]] = heap[cache[j]]
      BY <3>2 DEF Structure, SharedType
    <3>4. QED BY <1>3, <3>1, <3>3
  <2>3. QED BY <2>1, <2>2
<1>7. ListMapConsistent'
  BY <1>3, <1>4, <1>5, <1>6, ConsistentPrimed
<1>8. CapacityBound'
  BY <1>1, <1>3 DEF CapacityBound, rest
<1>9. QED BY <1>4, <1>7, <1>8 DEF Structure

(***************************************************************************)
(* The inductive invariant.  ListMapConsistent is not inductive alone: a   *)
(* Set in place writes through the pointer it took when it got the lock,   *)
(* so the proof needs LockDiscipline, and a new entry must not be one that *)
(* a Get still holds, so HeldEntryKeepsKey.                                *)
(***************************************************************************)

IndInv == TypeOK /\ LockDiscipline /\ ListMapConsistent /\ CapacityBound /\ HeldEntryKeepsKey

\* The structural part of the invariant, for the lemmas that need only that.
LEMMA StructureOfIndInv ==
  ASSUME IndInv PROVE Structure
BY DEF IndInv, TypeOK, Structure, SharedType

\* NewL1Cache: the empty cache satisfies the invariant.
LEMMA IndInvInit == Init => IndInv
<1> SUFFICES ASSUME Init PROVE IndInv
  OBVIOUS
<1> USE L1Assumption DEF Init
<1>1. TypeOK
  BY DEF TypeOK, Time, Steps, Fields
<1>2. LockDiscipline
  BY DEF LockDiscipline
<1>3. ListMapConsistent /\ CapacityBound
  BY DEF ListMapConsistent, CapacityBound, Linked
<1>4. HeldEntryKeepsKey
  BY DEF HeldEntryKeepsKey, InGet
<1>5. QED BY <1>1, <1>2, <1>3, <1>4 DEF IndInv

\* GetLookup keeps the inductive invariant.
LEMMA GetLookupPreserves ==
  ASSUME IndInv, NEW p \in Procs, NEW k \in Keys, GetLookup(p, k)
  PROVE  IndInv'
<1> USE L1Assumption
<1>1. Structure'
  BY StructureOfIndInv DEF GetLookup, shared, Structure, SharedType, ListMapConsistent, CapacityBound, Linked
<1>2. TypeOK'
  BY <1>1 DEF Structure, SharedType, IndInv, TypeOK, LockDiscipline, HeldEntryKeepsKey,
    GetLookup, Goto, shared, Steps, InGet, Fields, Time
<1>3. LockDiscipline'
  BY DEF IndInv, TypeOK, LockDiscipline, GetLookup, Goto, shared, Steps, InGet, Time
<1>4. HeldEntryKeepsKey'
  BY DEF IndInv, TypeOK, HeldEntryKeepsKey, ListMapConsistent, GetLookup, Goto, shared, Steps, InGet
<1>5. QED BY <1>1, <1>2, <1>3, <1>4 DEF IndInv, Structure

\* GetCheck keeps the inductive invariant.
LEMMA GetCheckPreserves ==
  ASSUME IndInv, NEW p \in Procs, GetCheck(p)
  PROVE  IndInv'
<1> USE L1Assumption
<1>1. Structure'
  BY StructureOfIndInv DEF GetCheck, shared, Structure, SharedType, ListMapConsistent, CapacityBound, Linked
<1>2. TypeOK'
  BY <1>1 DEF Structure, SharedType, IndInv, TypeOK, LockDiscipline, HeldEntryKeepsKey,
    GetCheck, Goto, Observed, BeingWritten, shared, Steps, InGet, Time
<1>3. LockDiscipline'
  BY DEF IndInv, TypeOK, LockDiscipline, GetCheck, Goto, shared, Steps, InGet, Time
<1>4. HeldEntryKeepsKey'
  BY DEF IndInv, TypeOK, HeldEntryKeepsKey, ListMapConsistent, GetCheck, Goto, shared, Steps, InGet
<1>5. QED BY <1>1, <1>2, <1>3, <1>4 DEF IndInv, Structure

\* GetPurge keeps the inductive invariant.
LEMMA GetPurgePreserves ==
  ASSUME IndInv, NEW p \in Procs, GetPurge(p)
  PROVE  IndInv'
<1> USE L1Assumption
<1>1. Structure'
  <2>1. key[p] \in Keys
    BY DEF GetPurge, IndInv, TypeOK, HeldEntryKeepsKey, InGet, Steps
  <2>2. QED BY <2>1, StructureOfIndInv, UnlinkPreserves DEF GetPurge
<1>2. TypeOK'
  BY <1>1 DEF Structure, SharedType, IndInv, TypeOK, LockDiscipline, HeldEntryKeepsKey,
    GetPurge, Leave, Forget, Goto, deleteUnsafe, Steps, InGet, Time
<1>3. LockDiscipline'
  BY DEF IndInv, TypeOK, LockDiscipline, GetPurge, Leave, Goto, deleteUnsafe, Steps, InGet, Time
<1>4. HeldEntryKeepsKey'
  BY DEF IndInv, TypeOK, HeldEntryKeepsKey, ListMapConsistent, GetPurge, Leave, Goto, Steps, InGet
<1>5. QED BY <1>1, <1>2, <1>3, <1>4 DEF IndInv, Structure

\* GetTouch keeps the inductive invariant.
LEMMA GetTouchPreserves ==
  ASSUME IndInv, NEW p \in Procs, GetTouch(p)
  PROVE  IndInv'
<1> USE L1Assumption
<1>1. Structure'
  BY StructureOfIndInv, TouchPreserves DEF GetTouch, Structure, SharedType
<1>2. TypeOK'
  BY <1>1 DEF Structure, SharedType, IndInv, TypeOK, LockDiscipline, HeldEntryKeepsKey,
    GetTouch, Goto, ghost, Steps, InGet, Time
<1>3. LockDiscipline'
  BY DEF IndInv, TypeOK, LockDiscipline, GetTouch, Goto, Steps, InGet, Time
<1>4. HeldEntryKeepsKey'
  BY DEF IndInv, TypeOK, HeldEntryKeepsKey, ListMapConsistent, GetTouch, Goto, Steps, InGet
<1>5. QED BY <1>1, <1>2, <1>3, <1>4 DEF IndInv, Structure

\* GetReadValue keeps the inductive invariant.
LEMMA GetReadValuePreserves ==
  ASSUME IndInv, NEW p \in Procs, GetReadValue(p)
  PROVE  IndInv'
<1> USE L1Assumption
<1>1. Structure'
  BY StructureOfIndInv DEF GetReadValue, shared, Structure, SharedType, ListMapConsistent, CapacityBound, Linked
<1>2. TypeOK'
  <2>1. /\ ent[p] \in Entries
        /\ mu \in Procs \cup {None}
    BY DEF GetReadValue, IndInv, TypeOK, HeldEntryKeepsKey, InGet, Steps
  <2>2. val' \in [Procs -> Values \cup {None, Torn}]
    <3>1. PICK v \in Observed(ent[p], heap[ent[p]].value, val[mu]) : val' = [val EXCEPT ![p] = v]
      BY DEF GetReadValue
    <3>2. v \in Values \cup {None, Torn}
      BY <2>1, <3>1 DEF Observed, BeingWritten, IndInv, TypeOK
    <3>3. QED BY <3>1, <3>2 DEF IndInv, TypeOK
  <2>3. raced' \in [Procs -> BOOLEAN] /\ pc' \in [Procs -> Steps]
    BY DEF GetReadValue, Goto, Steps, IndInv, TypeOK, BeingWritten
  <2>4. QED BY <2>2, <2>3 DEF GetReadValue, shared, IndInv, TypeOK
<1>3. LockDiscipline'
  BY DEF IndInv, TypeOK, LockDiscipline, GetReadValue, Goto, shared, Steps, InGet, Time
<1>4. HeldEntryKeepsKey'
  BY DEF IndInv, TypeOK, HeldEntryKeepsKey, ListMapConsistent, GetReadValue, Goto, shared, Steps, InGet
<1>5. QED BY <1>1, <1>2, <1>3, <1>4 DEF IndInv, Structure

\* GetReadExpiry keeps the inductive invariant.
LEMMA GetReadExpiryPreserves ==
  ASSUME IndInv, NEW p \in Procs, GetReadExpiry(p)
  PROVE  IndInv'
<1> USE L1Assumption
<1>1. Structure'
  BY StructureOfIndInv DEF GetReadExpiry, shared, Structure, SharedType, ListMapConsistent, CapacityBound, Linked
<1>2. TypeOK'
  BY <1>1 DEF Structure, SharedType, IndInv, TypeOK, LockDiscipline, HeldEntryKeepsKey,
    GetReadExpiry, Goto, Observed, BeingWritten, shared, Steps, InGet, Time
<1>3. LockDiscipline'
  BY DEF IndInv, TypeOK, LockDiscipline, GetReadExpiry, Goto, shared, Steps, InGet, Time
<1>4. HeldEntryKeepsKey'
  BY DEF IndInv, TypeOK, HeldEntryKeepsKey, ListMapConsistent, GetReadExpiry, Goto, shared, Steps, InGet
<1>5. QED BY <1>1, <1>2, <1>3, <1>4 DEF IndInv, Structure

\* GetReturn keeps the inductive invariant.
LEMMA GetReturnPreserves ==
  ASSUME IndInv, NEW p \in Procs, GetReturn(p)
  PROVE  IndInv'
<1> USE L1Assumption
<1>1. Structure'
  BY StructureOfIndInv DEF GetReturn, shared, Structure, SharedType, ListMapConsistent, CapacityBound, Linked
<1>2. TypeOK'
  BY <1>1 DEF Structure, SharedType, IndInv, TypeOK, LockDiscipline, HeldEntryKeepsKey,
    GetReturn, Leave, Forget, Goto, shared, Steps, InGet, Time
<1>3. LockDiscipline'
  BY DEF IndInv, TypeOK, LockDiscipline, GetReturn, Leave, Goto, shared, Steps, InGet, Time
<1>4. HeldEntryKeepsKey'
  BY DEF IndInv, TypeOK, HeldEntryKeepsKey, ListMapConsistent, GetReturn, Leave, Goto, shared, Steps, InGet
<1>5. QED BY <1>1, <1>2, <1>3, <1>4 DEF IndInv, Structure

\* SetBegin keeps the inductive invariant.
LEMMA SetBeginPreserves ==
  ASSUME IndInv, NEW p \in Procs, NEW k \in Keys, NEW v \in Values, NEW ttl \in TTLs, SetBegin(p, k, v, ttl)
  PROVE  IndInv'
<1> USE L1Assumption
<1>1. Structure'
  BY StructureOfIndInv DEF SetBegin, shared, Structure, SharedType, ListMapConsistent, CapacityBound, Linked
<1>2. TypeOK'
  BY <1>1 DEF Structure, SharedType, IndInv, TypeOK, LockDiscipline, HeldEntryKeepsKey,
    SetBegin, Record, Goto, shared, Steps, InGet, Fields, Time
<1>3. LockDiscipline'
  BY DEF IndInv, TypeOK, LockDiscipline, SetBegin, Goto, shared, Steps, InGet, Time
<1>4. HeldEntryKeepsKey'
  BY DEF IndInv, TypeOK, HeldEntryKeepsKey, ListMapConsistent, SetBegin, Goto, shared, Steps, InGet
<1>5. QED BY <1>1, <1>2, <1>3, <1>4 DEF IndInv, Structure

\* SetEnd keeps the inductive invariant.
LEMMA SetEndPreserves ==
  ASSUME IndInv, NEW p \in Procs, SetEnd(p)
  PROVE  IndInv'
<1> USE L1Assumption
<1>1. Structure'
  <2>1. /\ ent[p] \in Entries
        /\ val[p] \in Values /\ exp[p] \in Time
    BY DEF IndInv, TypeOK, LockDiscipline, SetEnd
  <2>2. /\ heap' \in [Entries -> [key : Keys \cup {None}, value : Values \cup {None}, expiresAt : Time]]
        /\ \A x \in Entries : heap'[x].key = heap[x].key
    BY <2>1 DEF SetEnd, IndInv, TypeOK
  <2>3. QED BY <2>2, StructureOfIndInv, TouchPreserves DEF SetEnd
<1>2. TypeOK'
  BY <1>1 DEF Structure, SharedType, IndInv, TypeOK, LockDiscipline, HeldEntryKeepsKey,
    SetEnd, Leave, Goto, ghost, Steps, InGet, Time
<1>3. LockDiscipline'
  BY DEF IndInv, TypeOK, LockDiscipline, SetEnd, Leave, Goto, Steps, InGet, Time
<1>4. HeldEntryKeepsKey'
  BY DEF IndInv, TypeOK, HeldEntryKeepsKey, ListMapConsistent, SetEnd, Leave, Goto, Steps, InGet
<1>5. QED BY <1>1, <1>2, <1>3, <1>4 DEF IndInv, Structure

\* SetInsert keeps the inductive invariant.
LEMMA SetInsertPreserves ==
  ASSUME IndInv, NEW k \in Keys, NEW v \in Values, NEW ttl \in TTLs, SetInsert(k, v, ttl)
  PROVE  IndInv'
<1> USE L1Assumption
<1>1. Structure'
  <2>1. now + ttl \in Int
    BY DEF IndInv, TypeOK
  <2>2. QED BY <2>1, StructureOfIndInv, InsertPreserves DEF SetInsert, Free
<1>2. TypeOK'
  BY <1>1 DEF Structure, SharedType, IndInv, TypeOK, LockDiscipline, HeldEntryKeepsKey,
    SetInsert, Record, Free, local, Steps, InGet, Fields, Time
<1>3. LockDiscipline'
  BY DEF IndInv, TypeOK, LockDiscipline, SetInsert, Free, local, Steps, InGet, Time
<1>4. HeldEntryKeepsKey'
  BY DEF IndInv, TypeOK, HeldEntryKeepsKey, ListMapConsistent, SetInsert, Free, local, Steps, InGet
<1>5. QED BY <1>1, <1>2, <1>3, <1>4 DEF IndInv, Structure

\* Delete keeps the inductive invariant.
LEMMA DeletePreserves ==
  ASSUME IndInv, NEW k \in Keys, Delete(k)
  PROVE  IndInv'
<1> USE L1Assumption
<1>1. Structure'
  BY StructureOfIndInv, UnlinkPreserves DEF Delete
<1>2. TypeOK'
  BY <1>1 DEF Structure, SharedType, IndInv, TypeOK, LockDiscipline, HeldEntryKeepsKey,
    Delete, deleteUnsafe, local, ghost, Steps, InGet, Time
<1>3. LockDiscipline'
  BY DEF IndInv, TypeOK, LockDiscipline, Delete, deleteUnsafe, local, Steps, InGet, Time
<1>4. HeldEntryKeepsKey'
  BY DEF IndInv, TypeOK, HeldEntryKeepsKey, ListMapConsistent, Delete, local, Steps, InGet
<1>5. QED BY <1>1, <1>2, <1>3, <1>4 DEF IndInv, Structure

\* Clear keeps the inductive invariant.
LEMMA ClearPreserves ==
  ASSUME IndInv, Clear
  PROVE  IndInv'
<1> USE L1Assumption
<1>1. Structure'
  BY L1Assumption DEF Clear, IndInv, TypeOK, Structure, SharedType, ListMapConsistent, CapacityBound, Linked
<1>2. TypeOK'
  BY <1>1 DEF Structure, SharedType, IndInv, TypeOK, LockDiscipline, HeldEntryKeepsKey,
    Clear, local, ghost, Steps, InGet, Time
<1>3. LockDiscipline'
  BY DEF IndInv, TypeOK, LockDiscipline, Clear, local, Steps, InGet, Time
<1>4. HeldEntryKeepsKey'
  BY DEF IndInv, TypeOK, HeldEntryKeepsKey, ListMapConsistent, Clear, local, Steps, InGet
<1>5. QED BY <1>1, <1>2, <1>3, <1>4 DEF IndInv, Structure

\* Collect keeps the inductive invariant.
LEMMA CollectPreserves ==
  ASSUME IndInv, NEW p \in Procs, NEW K \in SUBSET Keys, Collect(p, K)
  PROVE  IndInv'
<1> USE L1Assumption
<1>1. Structure'
  BY StructureOfIndInv DEF Collect, shared, Structure, SharedType, ListMapConsistent, CapacityBound, Linked
<1>2. TypeOK'
  BY <1>1 DEF Structure, SharedType, IndInv, TypeOK, LockDiscipline, HeldEntryKeepsKey,
    Collect, Goto, ghost, Steps, InGet, Time
<1>3. LockDiscipline'
  BY DEF IndInv, TypeOK, LockDiscipline, Collect, Goto, Steps, InGet, Time
<1>4. HeldEntryKeepsKey'
  BY DEF IndInv, TypeOK, HeldEntryKeepsKey, ListMapConsistent, Collect, Goto, Steps, InGet
<1>5. QED BY <1>1, <1>2, <1>3, <1>4 DEF IndInv, Structure

\* Sweep keeps the inductive invariant.
LEMMA SweepPreserves ==
  ASSUME IndInv, NEW p \in Procs, Sweep(p)
  PROVE  IndInv'
<1> USE L1Assumption
<1>1. Structure'
  BY StructureOfIndInv, UnlinkPreserves DEF Sweep, IndInv, TypeOK
<1>2. PICK k \in toDelete :
        /\ deleteUnsafe(k)
        /\ toDelete' = toDelete \ {k}
        /\ IF toDelete = {k} THEN Goto(p, "idle") /\ mu' = None ELSE UNCHANGED <<pc, mu>>
  BY DEF Sweep
<1>3. TypeOK'
  <2>1. pc' \in [Procs -> Steps] /\ mu' \in Procs \cup {None} /\ toDelete' \in SUBSET Keys
    BY <1>2 DEF IndInv, TypeOK, Goto, Steps
  <2>2. QED BY <1>1, <2>1 DEF Structure, SharedType, IndInv, TypeOK, Sweep, ghost
<1>4. LockDiscipline'
  <2>1. mu = p /\ \A q \in Procs : pc[q] \in {"set", "sweep"} => q = p
    BY DEF Sweep, IndInv, LockDiscipline, TypeOK
  <2>2. CASE toDelete = {k}
    <3>1. pc' = [pc EXCEPT ![p] = "idle"] /\ mu' = None /\ toDelete' = {}
      BY <1>2, <2>2 DEF Goto
    <3>2. QED BY <2>1, <3>1 DEF Sweep, IndInv, LockDiscipline, TypeOK
  <2>3. CASE toDelete # {k}
    <3>1. pc' = pc /\ mu' = mu /\ toDelete' # {}
      BY <1>2, <2>3
    <3>2. QED BY <2>1, <3>1 DEF Sweep, IndInv, LockDiscipline, TypeOK
  <2>4. QED BY <2>2, <2>3
<1>5. HeldEntryKeepsKey'
  BY DEF IndInv, TypeOK, HeldEntryKeepsKey, ListMapConsistent, Sweep, Goto, Steps, InGet
<1>6. QED BY <1>1, <1>3, <1>4, <1>5 DEF IndInv, Structure

\* Tick keeps the inductive invariant.
LEMMA TickPreserves ==
  ASSUME IndInv, Tick
  PROVE  IndInv'
<1> USE L1Assumption
<1>1. Structure'
  BY StructureOfIndInv DEF Tick, shared, Structure, SharedType, ListMapConsistent, CapacityBound, Linked
<1>2. TypeOK'
  BY <1>1 DEF Structure, SharedType, IndInv, TypeOK, LockDiscipline, HeldEntryKeepsKey,
    Tick, local, ghost, Steps, InGet, Time
<1>3. LockDiscipline'
  BY DEF IndInv, TypeOK, LockDiscipline, Tick, local, Steps, InGet, Time
<1>4. HeldEntryKeepsKey'
  BY DEF IndInv, TypeOK, HeldEntryKeepsKey, ListMapConsistent, Tick, local, Steps, InGet
<1>5. QED BY <1>1, <1>2, <1>3, <1>4 DEF IndInv, Structure

\* Every step of the cache, and every step of anything else, keeps the invariant.
LEMMA IndInvStep == IndInv /\ [Next]_vars => IndInv'
<1> SUFFICES ASSUME IndInv, [Next]_vars PROVE IndInv'
  OBVIOUS
<1>1. CASE \E p \in Procs : Progress(p)
  BY <1>1, GetCheckPreserves, GetPurgePreserves, GetTouchPreserves, GetReadValuePreserves,
     GetReadExpiryPreserves, GetReturnPreserves, SetEndPreserves, SweepPreserves DEF Progress
<1>2. CASE \E p \in Procs, k \in Keys : GetLookup(p, k)
  BY <1>2, GetLookupPreserves
<1>3. CASE \E p \in Procs, k \in Keys, v \in Values, ttl \in TTLs : SetBegin(p, k, v, ttl)
  BY <1>3, SetBeginPreserves
<1>4. CASE \E k \in Keys, v \in Values, ttl \in TTLs : SetInsert(k, v, ttl)
  BY <1>4, SetInsertPreserves
<1>5. CASE \E k \in Keys : Delete(k)
  BY <1>5, DeletePreserves
<1>6. CASE \E p \in Procs, P \in Patterns : DeletePattern(p, P)
  <2>1. PICK p \in Procs, P \in Patterns : DeletePattern(p, P)
    BY <1>6
  <2>2. {k \in P : cache[k] # None} \in SUBSET Keys
    BY L1Assumption
  <2>3. QED BY <2>1, <2>2, CollectPreserves DEF DeletePattern
<1>7. CASE \E p \in Procs : CleanupExpired(p)
  <2>1. {k \in Keys : cache[k] # None /\ Expired(cache[k])} \in SUBSET Keys
    OBVIOUS
  <2>2. QED BY <1>7, <2>1, CollectPreserves DEF CleanupExpired
<1>8. CASE Clear
  BY <1>8, ClearPreserves
<1>9. CASE Tick
  BY <1>9, TickPreserves
<1>10. CASE UNCHANGED vars
  BY <1>10 DEF vars, shared, local, ghost, IndInv, TypeOK, LockDiscipline, ListMapConsistent,
     CapacityBound, HeldEntryKeepsKey, Linked, InGet, Steps, Time, Fields
<1>11. QED
  BY <1>1, <1>2, <1>3, <1>4, <1>5, <1>6, <1>7, <1>8, <1>9, <1>10 DEF Next

\* The inductive invariant holds in every reachable state.
LEMMA Invariance == Spec => []IndInv
BY IndInvInit, IndInvStep, PTL DEF Spec

(***************************************************************************)
(* What every run of Get returns.                                          *)
(***************************************************************************)

Contents(e) == [value |-> heap[e].value, expiresAt |-> heap[e].expiresAt]
Pending(q) == [value |-> val[q], expiresAt |-> exp[q]]

\* The history variable window covers what the entry holds now and what a Set
\* in progress is about to put there.
Covered(r) ==
  /\ Contents(ent[r]) \in window[r]
  /\ \A q \in Procs : pc[q] = "set" /\ ent[q] = ent[r] => Pending(q) \in window[r]

\* What the Get has read is in the window; past the expiry test nothing in a
\* window that no Set has widened had expired at the start.
Justified(r) ==
  /\ since[r] <= now
  /\ ~raced[r] /\ pc[r] \in {"expiry", "returned"} => \E w \in window[r] : w.value = val[r]
  /\ ~raced[r] /\ pc[r] = "returned" => \E w \in window[r] : w.expiresAt = exp[r]
  /\ ~raced[r] /\ pc[r] \notin {"check", "purge"} /\ (\A u, w \in window[r] : u = w) =>
       \A w \in window[r] : w.expiresAt >= since[r]

ReadInv == \A r \in Procs : pc[r] \in InGet => Covered(r) /\ Justified(r)

\* A Get that does not move stays justified while the window only widens.
LEMMA StaysJustified ==
  ASSUME NEW r \in Procs, Covered(r), Justified(r),
         pc'[r] = pc[r], val'[r] = val[r], exp'[r] = exp[r],
         since'[r] = since[r], raced'[r] = raced[r], window[r] \subseteq window'[r],
         now \in Int, now' \in Int, since[r] \in Int, now' >= now
  PROVE  Justified(r)'
<1>1. since'[r] <= now'
  BY DEF Justified
<1>2. ~raced'[r] /\ pc'[r] \in {"expiry", "returned"} => \E w \in window'[r] : w.value = val'[r]
  BY DEF Justified
<1>3. ~raced'[r] /\ pc'[r] = "returned" => \E w \in window'[r] : w.expiresAt = exp'[r]
  BY DEF Justified
<1>4. ASSUME ~raced'[r], pc'[r] \notin {"check", "purge"}, \A u, w \in window'[r] : u = w,
             NEW w \in window'[r]
      PROVE  w.expiresAt >= since'[r]
  <2>1. w = Contents(ent[r]) /\ w \in window[r]
    BY <1>4 DEF Covered
  <2>2. \A u, x \in window[r] : u = x
    BY <1>4
  <2>3. QED BY <1>4, <2>1, <2>2 DEF Justified
<1>5. QED BY <1>1, <1>2, <1>3, <1>4 DEF Justified

\* A Get stays covered by a step that neither rewrites its entry nor begins a
\* Set of it.
LEMMA StaysCovered ==
  ASSUME NEW r \in Procs, Covered(r), ent'[r] = ent[r], window[r] \subseteq window'[r],
         heap'[ent[r]] = heap[ent[r]],
         \A q \in Procs : pc'[q] = "set" =>
           pc[q] = "set" /\ ent'[q] = ent[q] /\ val'[q] = val[q] /\ exp'[q] = exp[q]
  PROVE  Covered(r)'
BY DEF Covered, Contents, Pending

\* No goroutine is inside a Get initially.
LEMMA ReadInvInit == Init => ReadInv
BY DEF Init, ReadInv, InGet

\* The step leaves goroutine r where it is.
Rests(r) ==
  /\ pc'[r] = pc[r] /\ ent'[r] = ent[r] /\ val'[r] = val[r] /\ exp'[r] = exp[r]
  /\ since'[r] = since[r] /\ raced'[r] = raced[r] /\ window[r] \subseteq window'[r]

\* No Set in place begins.
NoSetBegins ==
  \A q \in Procs : pc'[q] = "set" =>
    pc[q] = "set" /\ ent'[q] = ent[q] /\ val'[q] = val[q] /\ exp'[q] = exp[q]

\* A goroutine that rests keeps what justifies the value it has read.
LEMMA ResterKeeps ==
  ASSUME IndInv, IndInv', ReadInv, NEW r \in Procs, pc'[r] \in InGet, Rests(r),
         NoSetBegins, heap'[ent[r]] = heap[ent[r]], now' >= now
  PROVE  Covered(r)' /\ Justified(r)'
<1>1. now \in Int /\ now' \in Int /\ since[r] \in Int
  BY DEF IndInv, TypeOK, Time
<1>2. Covered(r) /\ Justified(r)
  BY DEF ReadInv, Rests
<1>3. Covered(r)'
  BY <1>2, StaysCovered DEF Rests, NoSetBegins
<1>4. Justified(r)'
  BY <1>1, <1>2, StaysJustified DEF Rests
<1>5. QED BY <1>3, <1>4

\* Every step, of the Get's own goroutine or of another, keeps what justifies
\* the values read so far.
LEMMA ReadInvStep == IndInv /\ IndInv' /\ ReadInv /\ [Next]_vars => ReadInv'
<1> SUFFICES ASSUME IndInv, IndInv', ReadInv, [Next]_vars,
                    NEW r \in Procs, pc'[r] \in InGet
             PROVE  Covered(r)' /\ Justified(r)'
  BY DEF ReadInv
<1> USE L1Assumption
<1>0. /\ now \in Int /\ since[r] \in Int /\ now >= now
      /\ pc[r] \in InGet => Covered(r) /\ Justified(r) /\ ent[r] \in Entries
  BY DEF IndInv, TypeOK, Time, ReadInv, HeldEntryKeepsKey
<1>1. ASSUME NEW p \in Procs, NEW k \in Keys, GetLookup(p, k) PROVE Covered(r)' /\ Justified(r)'
  <2>1. NoSetBegins /\ heap' = heap /\ now' = now /\ (r # p => Rests(r))
    BY <1>1 DEF GetLookup, Goto, shared, IndInv, TypeOK, NoSetBegins, Rests
  <2>2. CASE r # p
    BY <1>0, <2>1, <2>2, ResterKeeps
  <2>3. CASE r = p
    <3>1. /\ ent'[p] = cache[k] /\ pc'[p] = "check" /\ since'[p] = now
          /\ window'[p] = {Contents(cache[k])}
      BY <1>1 DEF GetLookup, Goto, IndInv, TypeOK, Contents
    <3>2. \A q \in Procs : pc'[q] # "set"
      BY <1>1, <2>1 DEF GetLookup, IndInv, LockDiscipline, NoSetBegins
    <3>3. Covered(p)'
      BY <2>1, <3>1, <3>2 DEF Covered, Contents
    <3>4. Justified(p)'
      BY <1>0, <2>1, <3>1 DEF Justified
    <3>5. QED BY <2>3, <3>3, <3>4
  <2>4. QED BY <2>2, <2>3
<1>2. ASSUME NEW p \in Procs, GetCheck(p) PROVE Covered(r)' /\ Justified(r)'
  <2>1. NoSetBegins /\ heap' = heap /\ now' = now /\ (r # p => Rests(r)) /\ pc[p] = "check"
    BY <1>2 DEF GetCheck, Goto, shared, IndInv, TypeOK, NoSetBegins, Rests
  <2>2. CASE r # p
    BY <1>0, <2>1, <2>2, ResterKeeps
  <2>3. CASE r = p
    <3>1. /\ ent' = ent /\ window' = window /\ since' = since
          /\ raced'[p] = (raced[p] \/ BeingWritten(ent[p]))
      BY <1>2 DEF GetCheck, IndInv, TypeOK
    <3>2. Covered(p) /\ Justified(p)
      BY <1>0, <2>1, <2>3 DEF InGet, Steps
    <3>3. Covered(p)'
      BY <2>1, <3>1, <3>2, StaysCovered DEF NoSetBegins
    <3>4. pc'[p] \in {"purge", "touch"}
      BY <1>2 DEF GetCheck, Goto, IndInv, TypeOK
    <3>5. CASE pc'[p] = "purge" \/ raced'[p]
      BY <2>1, <2>3, <3>1, <3>2, <3>3, <3>4, <3>5 DEF Justified
    <3>6. CASE pc'[p] = "touch" /\ ~raced'[p]
      <4>1. now <= heap[ent[p]].expiresAt
        <5>1. PICK x \in {heap[ent[p]].expiresAt} :
                \E expired \in IF x = Torn THEN BOOLEAN ELSE {now > x} :
                  pc' = [pc EXCEPT ![p] = IF expired THEN "purge" ELSE "touch"]
          BY <1>2, <3>1, <3>6 DEF GetCheck, Goto, Observed
        <5>2. x \in Int /\ x # Torn
          BY <1>0, <2>1, <2>3, <5>1 DEF IndInv, TypeOK, Time, InGet, Steps
        <5>3. ~(now > x)
          <6>1. PICK expired \in {now > x} :
                  pc' = [pc EXCEPT ![p] = IF expired THEN "purge" ELSE "touch"]
            BY <5>1, <5>2
          <6>2. pc'[p] = IF expired THEN "purge" ELSE "touch"
            BY <6>1 DEF IndInv, TypeOK
          <6>3. ~expired
            BY <3>6, <6>2
          <6>4. QED BY <6>1, <6>3
        <5>4. QED BY <1>0, <5>1, <5>2, <5>3
      <4>2. heap[ent[p]].expiresAt \in Int
        BY <1>0, <2>1, <2>3 DEF IndInv, TypeOK, Time, InGet, Steps
      <4>3. Contents(ent[p]) \in window[p] /\ Contents(ent[p]).expiresAt >= since[p]
        BY <1>0, <2>3, <3>2, <4>1, <4>2 DEF Covered, Justified, Contents
      <4>4. QED BY <2>1, <2>3, <3>1, <3>2, <3>3, <3>6, <4>3 DEF Justified
    <3>7. QED BY <2>3, <3>3, <3>4, <3>5, <3>6
  <2>4. QED BY <2>2, <2>3
<1>3. ASSUME NEW p \in Procs, GetPurge(p) \/ GetReturn(p) PROVE Covered(r)' /\ Justified(r)'
  <2>1. NoSetBegins /\ heap' = heap /\ now' = now /\ (r # p => Rests(r)) /\ pc'[p] = "idle"
    BY <1>3 DEF GetPurge, GetReturn, Leave, Forget, Goto, shared, IndInv, TypeOK, NoSetBegins, Rests
  <2>2. r # p
    BY <2>1 DEF InGet
  <2>3. QED BY <1>0, <2>1, <2>2, ResterKeeps
<1>4. ASSUME NEW p \in Procs, GetTouch(p) PROVE Covered(r)' /\ Justified(r)'
  <2>1. NoSetBegins /\ heap' = heap /\ now' = now /\ (r # p => Rests(r))
    BY <1>4 DEF GetTouch, Goto, ghost, IndInv, TypeOK, NoSetBegins, Rests
  <2>2. CASE r # p
    BY <1>0, <2>1, <2>2, ResterKeeps
  <2>3. CASE r = p
    <3>1. /\ pc[p] = "touch" /\ pc'[p] = "value" /\ ent' = ent
          /\ window' = window /\ since' = since /\ raced' = raced
      BY <1>4 DEF GetTouch, Goto, ghost, IndInv, TypeOK
    <3>2. Covered(p) /\ Justified(p)
      BY <1>0, <2>3, <3>1 DEF InGet, Steps
    <3>3. Covered(p)'
      BY <2>1, <3>1, <3>2, StaysCovered DEF NoSetBegins
    <3>4. QED BY <2>1, <2>3, <3>1, <3>2, <3>3 DEF Justified
  <2>4. QED BY <2>2, <2>3
<1>5. ASSUME NEW p \in Procs, GetReadValue(p) PROVE Covered(r)' /\ Justified(r)'
  <2>1. NoSetBegins /\ heap' = heap /\ now' = now /\ (r # p => Rests(r))
    BY <1>5 DEF GetReadValue, Goto, shared, IndInv, TypeOK, NoSetBegins, Rests
  <2>2. CASE r # p
    BY <1>0, <2>1, <2>2, ResterKeeps
  <2>3. CASE r = p
    <3>1. /\ pc[p] = "value" /\ pc'[p] = "expiry" /\ ent' = ent
          /\ window' = window /\ since' = since
          /\ raced'[p] = (raced[p] \/ BeingWritten(ent[p]))
      BY <1>5 DEF GetReadValue, Goto, IndInv, TypeOK
    <3>2. Covered(p) /\ Justified(p)
      BY <1>0, <2>3, <3>1 DEF InGet, Steps
    <3>3. Covered(p)'
      BY <2>1, <3>1, <3>2, StaysCovered DEF NoSetBegins
    <3>4. ASSUME ~raced'[p] PROVE val'[p] = Contents(ent[p]).value
      <4>1. PICK x \in {heap[ent[p]].value} : val' = [val EXCEPT ![p] = x]
        BY <1>5, <3>1, <3>4 DEF GetReadValue, Observed
      <4>2. QED BY <4>1 DEF Contents, IndInv, TypeOK
    <3>5. QED BY <2>1, <2>3, <3>1, <3>2, <3>3, <3>4 DEF Justified, Covered
  <2>4. QED BY <2>2, <2>3
<1>6. ASSUME NEW p \in Procs, GetReadExpiry(p) PROVE Covered(r)' /\ Justified(r)'
  <2>1. NoSetBegins /\ heap' = heap /\ now' = now /\ (r # p => Rests(r))
    BY <1>6 DEF GetReadExpiry, Goto, shared, IndInv, TypeOK, NoSetBegins, Rests
  <2>2. CASE r # p
    BY <1>0, <2>1, <2>2, ResterKeeps
  <2>3. CASE r = p
    <3>1. /\ pc[p] = "expiry" /\ pc'[p] = "returned" /\ ent' = ent /\ val' = val
          /\ window' = window /\ since' = since
          /\ raced'[p] = (raced[p] \/ BeingWritten(ent[p]))
      BY <1>6 DEF GetReadExpiry, Goto, IndInv, TypeOK
    <3>2. Covered(p) /\ Justified(p)
      BY <1>0, <2>3, <3>1 DEF InGet, Steps
    <3>3. Covered(p)'
      BY <2>1, <3>1, <3>2, StaysCovered DEF NoSetBegins
    <3>4. ASSUME ~raced'[p] PROVE exp'[p] = Contents(ent[p]).expiresAt
      <4>1. PICK x \in {heap[ent[p]].expiresAt} : exp' = [exp EXCEPT ![p] = x]
        BY <1>6, <3>1, <3>4 DEF GetReadExpiry, Observed
      <4>2. QED BY <4>1 DEF Contents, IndInv, TypeOK
    <3>5. QED BY <2>1, <2>3, <3>1, <3>2, <3>3, <3>4 DEF Justified, Covered
  <2>4. QED BY <2>2, <2>3
<1>7. ASSUME NEW p \in Procs, NEW k \in Keys, NEW v \in Values, NEW ttl \in TTLs, SetBegin(p, k, v, ttl)
      PROVE  Covered(r)' /\ Justified(r)'
  <2>1. /\ heap' = heap /\ now' = now /\ r # p /\ Rests(r)
        /\ ent'[p] = cache[k] /\ ent'[p] \in Entries /\ heap[cache[k]].key = k
        /\ Pending(p)' = [value |-> v, expiresAt |-> now + ttl]
        /\ \A q \in Procs : q # p => pc'[q] # "set"
    BY <1>7 DEF SetBegin, Goto, Record, InGet, IndInv, TypeOK, LockDiscipline, ListMapConsistent, Rests, Pending
  <2>2. ent'[p] = ent[r] => Pending(p)' \in window'[r]
    <3>1. ASSUME cache[k] = ent[r] PROVE key[r] = k /\ pc[r] \in InGet
      BY <2>1, <3>1 DEF Rests, IndInv, HeldEntryKeepsKey
    <3>2. QED BY <1>7, <2>1, <3>1 DEF SetBegin, Record
  <2>3. pc[r] \in InGet /\ Covered(r) /\ Justified(r)
    BY <1>0, <2>1 DEF Rests
  <2>4. Covered(r)'
    BY <2>1, <2>2, <2>3 DEF Covered, Contents, Rests
  <2>5. Justified(r)'
    BY <1>0, <2>1, <2>3, StaysJustified DEF Rests
  <2>6. QED BY <2>4, <2>5
<1>8. ASSUME NEW p \in Procs, SetEnd(p) PROVE Covered(r)' /\ Justified(r)'
  <2>1. /\ pc[p] = "set" /\ now' = now /\ r # p /\ Rests(r) /\ NoSetBegins
        /\ \A q \in Procs : pc'[q] # "set"
    BY <1>8 DEF SetEnd, Leave, Goto, ghost, InGet, IndInv, TypeOK, LockDiscipline, Rests, NoSetBegins
  <2>2. pc[r] \in InGet /\ Covered(r) /\ Justified(r) /\ ent[r] \in Entries
    BY <1>0, <2>1 DEF Rests
  <2>3. Contents(ent[r])' \in window'[r]
    <3>1. CASE ent[r] = ent[p]
      <4>1. Contents(ent[r])' = Pending(p)
        BY <1>8, <2>1, <2>2, <3>1 DEF SetEnd, Contents, Pending, IndInv, TypeOK, Rests
      <4>2. QED BY <2>1, <2>2, <3>1, <4>1 DEF Covered, Rests
    <3>2. CASE ent[r] # ent[p]
      <4>1. heap'[ent[r]] = heap[ent[r]] /\ ent'[r] = ent[r]
        BY <1>8, <2>1, <2>2, <3>2 DEF SetEnd, IndInv, TypeOK, Rests
      <4>2. QED BY <2>1, <2>2, <4>1 DEF Covered, Contents, Rests
    <3>3. QED BY <3>1, <3>2
  <2>4. Covered(r)'
    BY <2>1, <2>3 DEF Covered
  <2>5. Justified(r)'
    BY <1>0, <2>1, <2>2, StaysJustified DEF Rests
  <2>6. QED BY <2>4, <2>5
<1>9. ASSUME NEW k \in Keys, NEW v \in Values, NEW ttl \in TTLs, SetInsert(k, v, ttl)
      PROVE  Covered(r)' /\ Justified(r)'
  <2>1. now' = now /\ Rests(r) /\ NoSetBegins
    BY <1>9 DEF SetInsert, Record, local, IndInv, TypeOK, Rests, NoSetBegins
  <2>2. heap'[ent[r]] = heap[ent[r]]
    BY <1>0, <1>9, <2>1 DEF SetInsert, Free, IndInv, TypeOK, Rests
  <2>3. QED BY <1>0, <2>1, <2>2, ResterKeeps
<1>10. ASSUME NEW p \in Procs, NEW K, Collect(p, K) PROVE Covered(r)' /\ Justified(r)'
  <2>1. NoSetBegins /\ heap' = heap /\ now' = now /\ r # p /\ Rests(r)
    BY <1>10 DEF Collect, Goto, ghost, InGet, IndInv, TypeOK, NoSetBegins, Rests
  <2>2. QED BY <1>0, <2>1, ResterKeeps
<1>11. ASSUME NEW p \in Procs, Sweep(p) PROVE Covered(r)' /\ Justified(r)'
  <2>1. NoSetBegins /\ heap' = heap /\ now' = now
    BY <1>11 DEF Sweep, Goto, IndInv, TypeOK, NoSetBegins
  <2>2. r # p /\ Rests(r)
    BY <1>11 DEF Sweep, Goto, ghost, InGet, IndInv, TypeOK, Rests
  <2>3. QED BY <1>0, <2>1, <2>2, ResterKeeps
<1>12. ASSUME UNCHANGED <<heap, local, ghost>>, now' >= now PROVE Covered(r)' /\ Justified(r)'
  <2>1. NoSetBegins /\ Rests(r) /\ heap' = heap
    BY <1>12 DEF local, ghost, NoSetBegins, Rests
  <2>2. QED BY <1>12, <2>1, ResterKeeps
<1>13. ASSUME Tick \/ Clear \/ (\E k \in Keys : Delete(k)) \/ UNCHANGED vars
       PROVE  Covered(r)' /\ Justified(r)'
  BY <1>0, <1>12, <1>13 DEF Tick, Clear, Delete, vars, shared
<1>14. QED
  BY <1>1, <1>2, <1>3, <1>4, <1>5, <1>6, <1>7, <1>8, <1>9, <1>10, <1>11, <1>13
     DEF Next, Progress, DeletePattern, CleanupExpired

(***************************************************************************)
(* The theorems.                                                           *)
(***************************************************************************)

\* Every variable keeps its type.
THEOREM TypeCorrect == Spec => []TypeOK
BY Invariance, PTL DEF IndInv

\* Only a Set that overwrites an entry in place and the deletions of a sweep
\* keep the lock between two steps; every other path has released it.
THEOREM LockIsReleased == Spec => []LockDiscipline
BY Invariance, PTL DEF IndInv

\* The map and the list of the L1 cache never diverge, whatever the
\* interleaving of Get's unlocked steps with Set, Delete, DeletePattern,
\* CleanupExpired, Clear and eviction.
THEOREM MapAndListAgree == Spec => []ListMapConsistent
BY Invariance, PTL DEF IndInv

\* Set never lets the cache outgrow its capacity.
THEOREM CapacityIsRespected == Spec => []CapacityBound
BY Invariance, PTL DEF IndInv

\* A Get never finds the entry it holds reused for another key.
THEOREM HeldEntriesKeepTheirKey == Spec => []HeldEntryKeepsKey
BY Invariance, PTL DEF IndInv

\* What justifies the values read without the lock holds in every
\* reachable state.
LEMMA ReadInvariance == Spec => []ReadInv
<1>1. Spec => []IndInv
  BY Invariance
<1>2. QED BY <1>1, ReadInvInit, ReadInvStep, PTL DEF Spec

\* Absent a data race on the entry, each field that Get returns was stored under
\* the key at some time during the Get.
THEOREM GetsAreRegular == Spec => []GetIsRegular
<1>1. ReadInv => GetIsRegular
  BY DEF ReadInv, Justified, GetIsRegular, InGet, Steps
<1>2. QED BY <1>1, ReadInvariance, PTL

\* Absent a data race and an overlapping Set, Get returns nothing that had
\* expired when it began.
THEOREM GetsAreNotExpired == Spec => []GetNotExpired
<1>1. ASSUME ReadInv PROVE GetNotExpired
  <2> SUFFICES ASSUME NEW p \in Procs, pc[p] = "returned", ~raced[p],
                      \A u, w \in window[p] : u = w
               PROVE  exp[p] >= since[p]
    BY DEF GetNotExpired
  <2>1. Justified(p)
    BY <1>1 DEF ReadInv, InGet, Steps
  <2>2. PICK w \in window[p] : w.expiresAt = exp[p]
    BY <2>1 DEF Justified
  <2>3. w.expiresAt >= since[p]
    BY <2>1 DEF Justified
  <2>4. QED BY <2>2, <2>3
<1>2. QED BY <1>1, ReadInvariance, PTL

(***************************************************************************)
(* Recency.                                                                *)
(***************************************************************************)

Before(list, a, b) == \E i, j \in DOMAIN list : i < j /\ list[i] = a /\ list[j] = b

\* In a duplicate-free list, one of two elements comes first, and IndexOf tells
\* which.
LEMMA BeforeIsOrder ==
  ASSUME NEW S, NEW list \in Seq(S), Distinct(list), NEW a, NEW b
  PROVE  /\ Before(list, a, b) => IndexOf(list, a) < IndexOf(list, b)
         /\ Before(list, a, b) => ~Before(list, b, a)
         /\ Linked(list, a) /\ Linked(list, b) /\ a # b => Before(list, a, b) \/ Before(list, b, a)
<1>1. ASSUME NEW i \in DOMAIN list PROVE IndexOf(list, list[i]) = i
  <2>1. IndexOf(list, list[i]) \in DOMAIN list /\ list[IndexOf(list, list[i])] = list[i]
    BY DEF IndexOf
  <2>2. QED BY <2>1 DEF Distinct
<1>2. Before(list, a, b) => IndexOf(list, a) < IndexOf(list, b)
  BY <1>1 DEF Before
<1>3. Before(list, b, a) => IndexOf(list, b) < IndexOf(list, a)
  BY <1>1 DEF Before
<1>4. Before(list, a, b) => IndexOf(list, a) \in Int /\ IndexOf(list, b) \in Int
  BY <1>1 DEF Before
<1>5. Before(list, a, b) => ~Before(list, b, a)
  BY <1>2, <1>3, <1>4
<1>6. ASSUME Linked(list, a), Linked(list, b), a # b PROVE Before(list, a, b) \/ Before(list, b, a)
  <2>1. PICK i \in 1..Len(list) : list[i] = a
    BY <1>6 DEF Linked
  <2>2. PICK j \in 1..Len(list) : list[j] = b
    BY <1>6 DEF Linked
  <2>3. i < j \/ j < i
    BY <1>6, <2>1, <2>2
  <2>4. QED BY <2>1, <2>2, <2>3 DEF Before
<1>7. QED BY <1>2, <1>5, <1>6

\* What a removal leaves is in the order it had.
LEMMA RemoveKeepsOrder ==
  ASSUME NEW S, NEW list \in Seq(S), NEW e, NEW a, NEW b, Linked(list, e),
         Before(ListRemove(list, e), a, b)
  PROVE  Before(list, a, b)
<1> DEFINE n == IndexOf(list, e)
           new == ListRemove(list, e)
<1>1. n \in 1..Len(list)
  BY RemoveByPosition
<1>2. /\ new \in Seq(S) /\ Len(new) = Len(list) - 1
      /\ \A i \in 1..Len(list)-1 : new[i] = IF i < n THEN list[i] ELSE list[i+1]
  BY RemoveByPosition
<1>3. Before(new, a, b)
  OBVIOUS
<1> HIDE DEF n, new
<1>4. PICK i, j \in 1..Len(list)-1 : i < j /\ new[i] = a /\ new[j] = b
  BY <1>2, <1>3 DEF Before
<1> DEFINE old(m) == IF m < n THEN m ELSE m + 1
<1>5. old(i) \in 1..Len(list) /\ old(j) \in 1..Len(list) /\ old(i) < old(j)
  BY <1>1, <1>4
<1>6. list[old(i)] = a /\ list[old(j)] = b
  BY <1>2, <1>4
<1>7. QED BY <1>5, <1>6 DEF Before

\* A new head is before all others and disturbs no two of them.
LEMMA PushKeepsOrder ==
  ASSUME NEW S, NEW list \in Seq(S), NEW e \in S, NEW a, NEW b, Before(Cons(e, list), a, b)
  PROVE  a = e \/ Before(list, a, b)
<1> DEFINE new == Cons(e, list)
<1>1. /\ Len(new) = Len(list) + 1 /\ new \in Seq(S)
      /\ \A i \in 1..Len(list)+1 : new[i] = IF i = 1 THEN e ELSE list[i-1]
  BY DEF Cons
<1> HIDE DEF new
<1>2. PICK i, j \in 1..Len(list)+1 : i < j /\ new[i] = a /\ new[j] = b
  BY <1>1 DEF Before, new
<1>3. CASE i = 1
  BY <1>1, <1>2, <1>3
<1>4. CASE i # 1
  <2>1. /\ i-1 \in 1..Len(list) /\ j-1 \in 1..Len(list) /\ i-1 < j-1
        /\ list[i-1] = a /\ list[j-1] = b
    BY <1>1, <1>2, <1>4
  <2>2. QED BY <2>1 DEF Before
<1>5. QED BY <1>3, <1>4

\* The same of all but the last element, which was behind every other.
LEMMA DropLastKeepsOrder ==
  ASSUME NEW S, NEW list \in Seq(S), list # <<>>, Distinct(list), NEW a, NEW b
  PROVE  /\ Before(Front(list), a, b) => Before(list, a, b)
         /\ Before(list, a, b) => Linked(list, a) /\ a # Last(list)
<1>1. Len(list) \in Nat /\ Len(list) >= 1 /\ Last(list) = list[Len(list)]
  BY DEF Last
<1>2. Len(Front(list)) = Len(list)-1 /\ Front(list) \in Seq(S)
  BY DropLast
<1>3. \A i \in 1..Len(list)-1 : Front(list)[i] = list[i]
  <2> DEFINE m == Len(list) - 1
  <2>1. m \in Int /\ \A i \in 1..m : list[i] \in S
    BY <1>1
  <2>2. Front(list) = SubSeq(list, 1, m)
    BY DEF Front
  <2>3. \A i \in 1..m : i = 1 + i - 1 /\ i \in 1..m-1+1
    BY <2>1
  <2> HIDE DEF m
  <2>4. \A i \in 1..m-1+1 : SubSeq(list, 1, m)[i] = list[1+i-1]
    BY <2>1, SubSeqProperties
  <2>5. QED BY <2>2, <2>3, <2>4 DEF m
<1>4. ASSUME Before(Front(list), a, b) PROVE Before(list, a, b)
  <2>1. PICK i, j \in 1..Len(list)-1 : i < j /\ Front(list)[i] = a /\ Front(list)[j] = b
    BY <1>2, <1>4 DEF Before
  <2>2. QED BY <1>1, <1>3, <2>1 DEF Before
<1>5. ASSUME Before(list, a, b) PROVE Linked(list, a) /\ a # Last(list)
  <2>1. PICK i, j \in DOMAIN list : i < j /\ list[i] = a /\ list[j] = b
    BY <1>5 DEF Before
  <2>2. Len(list) \in DOMAIN list /\ i # Len(list)
    BY <1>1, <2>1
  <2>3. QED BY <1>1, <2>1, <2>2 DEF Linked, Distinct
<1>6. QED BY <1>4, <1>5

\* Recency in terms of the order.
LEMMA RecencyByOrder ==
  ASSUME NEW S, NEW old \in Seq(S), NEW new \in Seq(S), Distinct(old), Distinct(new),
         \A a, b : Before(new, a, b) => a = new[1] \/ Before(old, a, b),
         \A a, b : Before(old, a, b) /\ Linked(new, b) /\ ~Linked(old, new[1]) => Linked(new, a)
  PROVE  RecencyKept(old, new)
<1> SUFFICES ASSUME NEW i \in DOMAIN old, NEW j \in DOMAIN old, i < j
             PROVE  /\ Linked(new, old[i]) /\ Linked(new, old[j])
                         => IndexOf(new, old[i]) < IndexOf(new, old[j]) \/ new[1] = old[j]
                    /\ Linked(new, old[j]) /\ ~Linked(old, new[1]) => Linked(new, old[i])
  BY DEF RecencyKept
<1> DEFINE a == old[i]
           b == old[j]
<1>1. Before(old, a, b)
  BY DEF Before
<1>2. a # b
  BY DEF Distinct
<1> HIDE DEF a, b
<1>3. ~Before(old, b, a)
  BY <1>1, BeforeIsOrder
<1>4. Linked(new, a) /\ Linked(new, b) => Before(new, a, b) \/ Before(new, b, a)
  BY <1>2, BeforeIsOrder
<1>5. Before(new, a, b) => IndexOf(new, a) < IndexOf(new, b)
  BY BeforeIsOrder
<1>6. QED BY <1>1, <1>3, <1>4, <1>5 DEF a, b

\* A list that only lost elements, and one that did not change.
LEMMA RemoveKeepsRecency ==
  ASSUME NEW S, NEW list \in Seq(S), NEW e, Distinct(list)
  PROVE  RecencyKept(list, ListRemove(list, e)) /\ RecencyKept(list, list)
<1>1. RecencyKept(list, list)
  <2>1. \A a, b : Before(list, a, b) => Linked(list, a)
    BY DEF Before, Linked
  <2>2. QED BY <2>1, RecencyByOrder
<1>2. CASE ~Linked(list, e)
  BY <1>1, <1>2 DEF ListRemove
<1>3. CASE Linked(list, e)
  <2> DEFINE new == ListRemove(list, e)
  <2>1. /\ new \in Seq(S) /\ Distinct(new)
        /\ \A x : Linked(new, x) <=> Linked(list, x) /\ x # e
    BY <1>3, RemoveLinked
  <2>2. \A a, b : Before(new, a, b) => Before(list, a, b)
    BY <1>3, RemoveKeepsOrder
  <2> HIDE DEF new
  <2>3. ASSUME NEW b, Linked(new, b) PROVE Linked(list, new[1])
    <3>1. 1 \in DOMAIN new
      BY <2>1, <2>3 DEF Linked
    <3>2. Linked(new, new[1])
      BY <3>1 DEF Linked
    <3>3. QED BY <2>1, <3>2
  <2>4. \A a, b : Before(list, a, b) /\ Linked(new, b) /\ ~Linked(list, new[1]) => Linked(new, a)
    BY <2>3
  <2>5. RecencyKept(list, new)
    BY <2>1, <2>2, <2>4, RecencyByOrder
  <2>6. QED BY <1>1, <2>5 DEF new
<1>4. QED BY <1>2, <1>3

\* Using an element brings it before all others.
LEMMA TouchKeepsRecency ==
  ASSUME NEW S, NEW list \in Seq(S), NEW e, Distinct(list)
  PROVE  RecencyKept(list, MoveToFront(list, e))
<1>1. CASE ~Linked(list, e)
  BY <1>1, RemoveKeepsRecency DEF MoveToFront
<1>2. CASE Linked(list, e)
  <2> DEFINE rest == ListRemove(list, e)
             new == MoveToFront(list, e)
  <2>1. e \in S /\ rest \in Seq(S) /\ \A a, b : Before(rest, a, b) => Before(list, a, b)
    BY <1>2, RemoveLinked, RemoveKeepsOrder DEF Linked
  <2>2. new \in Seq(S) /\ Distinct(new) /\ \A x : Linked(new, x) <=> Linked(list, x)
    BY MoveToFrontReorders
  <2>3. new = Cons(e, rest)
    BY <1>2 DEF MoveToFront
  <2> HIDE DEF rest, new
  <2>4. new[1] = e
    BY <2>1, <2>3 DEF Cons
  <2>5. \A a, b : Before(new, a, b) => a = new[1] \/ Before(list, a, b)
    BY <2>1, <2>3, <2>4, PushKeepsOrder
  <2>6. \A a, b : Before(list, a, b) /\ Linked(new, b) /\ ~Linked(list, new[1]) => Linked(new, a)
    BY <1>2, <2>4
  <2>7. RecencyKept(list, new)
    BY <2>2, <2>5, <2>6, RecencyByOrder
  <2>8. QED BY <2>7 DEF new
<1>3. QED BY <1>1, <1>2

\* The eviction drops the last entry and nothing else, then the insertion
\* puts an entry in front that was not in the list.
LEMMA InsertKeepsRecency ==
  ASSUME Structure, NEW e \in Entries, ~Linked(lruList, e)
  PROVE  RecencyKept(lruList, Cons(e, Evicted.list))
<1> DEFINE rest == Evicted.list
           new == Cons(e, rest)
<1>1. lruList \in Seq(Entries) /\ Distinct(lruList)
  BY ConsistentByMembership DEF Structure, SharedType
<1>2. /\ rest \in Seq(Entries) /\ Distinct(rest)
      /\ \A x : Linked(rest, x) => Linked(lruList, x)
  BY EvictionMakesRoom
<1>3. \A a, b : /\ Before(rest, a, b) => Before(lruList, a, b)
                /\ Before(lruList, a, b) => Linked(rest, a)
  <2>1. CASE Len(lruList) >= MaxEntries /\ lruList # <<>>
    <3>1. rest = Front(lruList)
      BY <2>1 DEF Evicted
    <3>2. \A x : Linked(rest, x) <=> Linked(lruList, x) /\ x # Last(lruList)
      BY <1>1, <2>1, <3>1, DropLast
    <3> HIDE DEF rest
    <3>3. QED BY <1>1, <2>1, <3>1, <3>2, DropLastKeepsOrder
  <2>2. CASE ~(Len(lruList) >= MaxEntries /\ lruList # <<>>)
    <3>1. rest = lruList
      BY <2>2 DEF Evicted
    <3>2. \A a, b : Before(lruList, a, b) => Linked(lruList, a)
      BY DEF Before, Linked
    <3>3. QED BY <3>1, <3>2
  <2>3. QED BY <2>1, <2>2
<1> HIDE DEF rest
<1>4. /\ new \in Seq(Entries) /\ Distinct(new)
      /\ \A x : Linked(new, x) <=> Linked(rest, x) \/ x = e
  BY <1>2, PushFront
<1>5. new[1] = e
  BY <1>2 DEF Cons
<1>6. \A a, b : Before(new, a, b) => a = new[1] \/ Before(lruList, a, b)
  BY <1>2, <1>3, <1>5, PushKeepsOrder
<1> HIDE DEF new
<1>7. \A a, b : Before(lruList, a, b) /\ Linked(new, b) /\ ~Linked(lruList, new[1]) => Linked(new, a)
  BY <1>3, <1>4
<1>8. RecencyKept(lruList, new)
  BY <1>1, <1>4, <1>6, <1>7, RecencyByOrder
<1>9. QED BY <1>8 DEF new, rest

\* No step reorders the entries other than by using one, and no insertion
\* evicts an entry while it keeps one that was used longer ago.
THEOREM EvictionIsLRU == Spec => LRUOrder
<1>1. IndInv /\ [Next]_vars => RecencyKept(lruList, lruList')
  <2> SUFFICES ASSUME IndInv, [Next]_vars PROVE RecencyKept(lruList, lruList')
    OBVIOUS
  <2>1. Structure /\ lruList \in Seq(Entries) /\ Distinct(lruList)
    BY DEF IndInv, TypeOK, Structure, SharedType, ListMapConsistent, Distinct
  <2>2. ASSUME NEW k, deleteUnsafe(k) PROVE RecencyKept(lruList, lruList')
    BY <2>1, <2>2, RemoveKeepsRecency DEF deleteUnsafe
  <2>3. ASSUME NEW e, lruList' = MoveToFront(lruList, e) PROVE RecencyKept(lruList, lruList')
    BY <2>1, <2>3, TouchKeepsRecency
  <2>4. ASSUME lruList' = lruList PROVE RecencyKept(lruList, lruList')
    BY <2>1, <2>4, RemoveKeepsRecency
  <2>5. ASSUME NEW k \in Keys, NEW v \in Values, NEW ttl \in TTLs, SetInsert(k, v, ttl)
        PROVE  RecencyKept(lruList, lruList')
    <3>1. PICK e \in Free : lruList' = Cons(e, Evicted.list)
      BY <2>5 DEF SetInsert
    <3>2. e \in Entries /\ \A j \in Keys : cache[j] # e
      BY <3>1 DEF Free
    <3>3. ~Linked(lruList, e)
      BY <2>1, <3>2, ConsistentByMembership DEF Structure
    <3>4. QED BY <2>1, <3>1, <3>2, <3>3, InsertKeepsRecency
  <2>6. ASSUME Clear PROVE RecencyKept(lruList, lruList')
    BY <2>6 DEF Clear, RecencyKept, Linked
  <2>7. ASSUME NEW p \in Procs, Progress(p) PROVE RecencyKept(lruList, lruList')
    BY <2>2, <2>3, <2>4, <2>7
       DEF Progress, GetCheck, GetPurge, GetTouch, GetReadValue, GetReadExpiry, GetReturn,
           SetEnd, Sweep, shared
  <2>8. ASSUME NEW k \in Keys, Delete(k) PROVE RecencyKept(lruList, lruList')
    BY <2>2, <2>8 DEF Delete
  <2>9. ASSUME \/ \E p \in Procs, k \in Keys : GetLookup(p, k)
               \/ \E p \in Procs, k \in Keys, v \in Values, ttl \in TTLs : SetBegin(p, k, v, ttl)
               \/ \E p \in Procs, P \in Patterns : DeletePattern(p, P)
               \/ \E p \in Procs : CleanupExpired(p)
               \/ Tick
               \/ UNCHANGED vars
        PROVE  lruList' = lruList
    BY <2>9 DEF GetLookup, SetBegin, DeletePattern, CleanupExpired, Collect, Tick, vars, shared
  <2>10. QED BY <2>4, <2>5, <2>6, <2>7, <2>8, <2>9 DEF Next
<1>2. QED BY <1>1, Invariance, PTL DEF Spec, LRUOrder

(***************************************************************************)
(* The refinement.                                                         *)
(***************************************************************************)

\* The value the callers see under a key.
Seen == [k \in Keys |-> IF cache[k] = None THEN None ELSE heap[cache[k]].value]

\* A step that empties the slots of some keys and leaves all others alone.
LEMMA DropIsAbstract ==
  ASSUME IndInv, NEW K \in SUBSET Keys, heap' = heap,
         cache' = [k \in Keys |-> IF k \in K THEN None ELSE cache[k]]
  PROVE  Abstract!Next
<1>1. Seen' = [k \in Keys |-> IF k \in K THEN None ELSE Seen[k]]
  BY DEF Seen
<1>2. Abstract!Drop(K)
  BY <1>1 DEF Abstract!Drop, Abstract!Without, Seen
<1>3. QED BY <1>2 DEF Abstract!Next

\* Removing a key from the map and the list is a Drop.
LEMMA UnlinkIsAbstract ==
  ASSUME IndInv, NEW k \in Keys, deleteUnsafe(k), heap' = heap
  PROVE  Abstract!Next
<1>1. cache' = [j \in Keys |-> IF j \in {k} THEN None ELSE cache[j]]
  BY DEF deleteUnsafe, IndInv, TypeOK
<1>2. QED BY <1>1, DropIsAbstract

\* A step after which a key holds a new value, and at most one other key none.
LEMMA PutIsAbstract ==
  ASSUME NEW k \in Keys, NEW v \in Values, NEW lost \in {{}} \cup {{j} : j \in Keys \ {k}},
         \A j \in Keys : Seen'[j] = IF j = k THEN v ELSE IF j \in lost THEN None ELSE Seen[j]
  PROVE  Abstract!Next
<1>1. Seen' = [Abstract!Without(Seen, lost) EXCEPT ![k] = v]
  BY DEF Seen, Abstract!Without
<1>2. Abstract!Put(k, v)
  BY <1>1 DEF Abstract!Put, Seen
<1>3. QED BY <1>2 DEF Abstract!Next

\* Overwriting the entry of a key is a Put: the lock has kept it linked.
LEMMA SetEndIsAbstract ==
  ASSUME IndInv, NEW p \in Procs, SetEnd(p)
  PROVE  Abstract!Next
<1>1. /\ key[p] \in Keys /\ ent[p] = cache[key[p]] /\ ent[p] # None /\ ent[p] \in Entries
      /\ val[p] \in Values /\ cache' = cache
  BY DEF SetEnd, IndInv, LockDiscipline, TypeOK
<1>2. heap'[ent[p]].value = val[p] /\ \A e \in Entries : e # ent[p] => heap'[e] = heap[e]
  BY <1>1 DEF SetEnd, IndInv, TypeOK
<1>3. \A j \in Keys : j # key[p] => cache[j] # ent[p]
  BY <1>1 DEF IndInv, ListMapConsistent
<1>4. ASSUME NEW j \in Keys PROVE Seen'[j] = IF j = key[p] THEN val[p] ELSE Seen[j]
  <2>1. CASE j = key[p]
    BY <1>1, <1>2, <2>1 DEF Seen
  <2>2. CASE j # key[p]
    <3>1. cache[j] = None \/ (cache[j] \in Entries /\ heap'[cache[j]] = heap[cache[j]])
      BY <1>2, <1>3, <2>2 DEF IndInv, TypeOK
    <3>2. QED BY <1>1, <2>2, <3>1 DEF Seen
  <2>3. QED BY <2>1, <2>2
<1> DEFINE lost == {}
<1>5. \A j \in Keys : Seen'[j] = IF j = key[p] THEN val[p] ELSE IF j \in lost THEN None ELSE Seen[j]
  BY <1>4
<1>6. lost \in {{}} \cup {{j} : j \in Keys \ {key[p]}}
  OBVIOUS
<1> HIDE DEF lost
<1>7. QED BY <1>1, <1>5, <1>6, PutIsAbstract

\* Inserting an entry, with the eviction that goes before it, is a Put.
LEMMA SetInsertIsAbstract ==
  ASSUME IndInv, NEW k \in Keys, NEW v \in Values, NEW ttl \in TTLs, SetInsert(k, v, ttl)
  PROVE  Abstract!Next
<1>1. PICK e \in Free :
        /\ heap' = [heap EXCEPT ![e] = [key |-> k, value |-> v, expiresAt |-> now + ttl]]
        /\ lruList' = Cons(e, Evicted.list)
        /\ cache' = [Evicted.map EXCEPT ![k] = e]
  BY DEF SetInsert
<1>2. e \in Entries /\ e # None /\ \A j \in Keys : cache[j] # e
  BY L1Assumption DEF Free
<1>3. /\ heap'[e].value = v
      /\ \A x \in Entries : x # e => heap'[x] = heap[x]
  BY <1>1, <1>2 DEF IndInv, TypeOK
<1>4. PICK lost \in {{}} \cup {{j} : j \in Keys \ {k}} :
        Evicted.map = [j \in Keys |-> IF j \in lost THEN None ELSE cache[j]]
  <2>1. CASE Len(lruList) >= MaxEntries /\ lruList # <<>>
    <3> DEFINE victim == heap[Last(lruList)].key
    <3>1. Len(lruList) \in DOMAIN lruList
      BY <2>1 DEF IndInv, TypeOK
    <3>2. victim \in Keys /\ cache[victim] # None
      BY <3>1, L1Assumption DEF Last, IndInv, TypeOK, ListMapConsistent
    <3>3. victim # k
      BY <3>2 DEF SetInsert
    <3>4. Evicted.map = [cache EXCEPT ![victim] = None]
      BY <2>1 DEF Evicted
    <3> HIDE DEF victim
    <3>5. Evicted.map = [j \in Keys |-> IF j \in {victim} THEN None ELSE cache[j]]
      BY <3>2, <3>4 DEF IndInv, TypeOK
    <3>6. {victim} \in {{}} \cup {{j} : j \in Keys \ {k}}
      BY <3>2, <3>3
    <3> DEFINE gone == {victim}
    <3>7. gone \in {{}} \cup {{j} : j \in Keys \ {k}} /\
          Evicted.map = [j \in Keys |-> IF j \in gone THEN None ELSE cache[j]]
      BY <3>5, <3>6
    <3> HIDE DEF gone
    <3>8. QED BY <3>7
  <2>2. CASE ~(Len(lruList) >= MaxEntries /\ lruList # <<>>)
    <3>1. Evicted.map = cache
      BY <2>2 DEF Evicted
    <3> DEFINE gone == {}
    <3>2. gone \in {{}} \cup {{j} : j \in Keys \ {k}} /\
          Evicted.map = [j \in Keys |-> IF j \in gone THEN None ELSE cache[j]]
      BY <3>1 DEF IndInv, TypeOK
    <3> HIDE DEF gone
    <3>3. QED BY <3>2
  <2>3. QED BY <2>1, <2>2
<1>5. ASSUME NEW j \in Keys
      PROVE  Seen'[j] = IF j = k THEN v ELSE IF j \in lost THEN None ELSE Seen[j]
  <2>1. cache'[j] = IF j = k THEN e ELSE IF j \in lost THEN None ELSE cache[j]
    BY <1>1, <1>4
  <2>2. CASE j = k
    BY <1>2, <1>3, <2>1, <2>2 DEF Seen
  <2>3. CASE j # k /\ j \in lost
    BY <2>1, <2>3 DEF Seen
  <2>4. CASE j # k /\ j \notin lost
    <3>1. cache[j] = None \/ (cache[j] \in Entries /\ heap'[cache[j]] = heap[cache[j]])
      BY <1>2, <1>3 DEF IndInv, TypeOK
    <3>2. QED BY <2>1, <2>4, <3>1 DEF Seen
  <2>5. QED BY <2>2, <2>3, <2>4
<1>6. QED BY <1>4, <1>5, PutIsAbstract, SMTT(30)

\* The L1 cache implements the lossy map of AbstractCache.
THEOREM Refinement == Spec => RefinesAbstractCache
<1>1. Init => Abstract!Init
  BY DEF Init, Abstract!Init
<1>2. IndInv /\ [Next]_vars => [Abstract!Next]_Seen
  <2> SUFFICES ASSUME IndInv, [Next]_vars PROVE Abstract!Next \/ UNCHANGED Seen
    OBVIOUS
  <2>1. CASE UNCHANGED <<cache, heap>>
    BY <2>1 DEF Seen
  <2>2. ASSUME NEW p \in Procs, GetPurge(p) PROVE Abstract!Next
    <3>1. key[p] \in Keys
      BY <2>2 DEF GetPurge, IndInv, TypeOK, HeldEntryKeepsKey, InGet, Steps
    <3>2. QED BY <2>2, <3>1, UnlinkIsAbstract DEF GetPurge
  <2>3. ASSUME NEW p \in Procs, Sweep(p) PROVE Abstract!Next
    BY <2>3, UnlinkIsAbstract DEF Sweep, IndInv, TypeOK
  <2>4. ASSUME NEW k \in Keys, Delete(k) PROVE Abstract!Next
    BY <2>4, UnlinkIsAbstract DEF Delete
  <2>5. ASSUME Clear PROVE Abstract!Next
    <3>1. cache' = [k \in Keys |-> IF k \in Keys THEN None ELSE cache[k]] /\ heap' = heap
      BY <2>5 DEF Clear
    <3>2. QED BY <3>1, DropIsAbstract
  <2>6. ASSUME NEW p \in Procs,
               GetCheck(p) \/ GetTouch(p) \/ GetReadValue(p) \/ GetReadExpiry(p) \/ GetReturn(p)
        PROVE  UNCHANGED <<cache, heap>>
    BY <2>6 DEF GetCheck, GetTouch, GetReadValue, GetReadExpiry, GetReturn, shared
  <2>7. ASSUME \/ \E p \in Procs, k \in Keys : GetLookup(p, k)
               \/ \E p \in Procs, k \in Keys, v \in Values, ttl \in TTLs : SetBegin(p, k, v, ttl)
               \/ \E p \in Procs, P \in Patterns : DeletePattern(p, P)
               \/ \E p \in Procs : CleanupExpired(p)
               \/ Tick
               \/ UNCHANGED vars
        PROVE  UNCHANGED <<cache, heap>>
    BY <2>7 DEF GetLookup, SetBegin, DeletePattern, CleanupExpired, Collect, Tick, vars, shared
  <2>8. QED
    BY <2>1, <2>2, <2>3, <2>4, <2>5, <2>6, <2>7, SetEndIsAbstract, SetInsertIsAbstract DEF Next, Progress
<1>3. QED
  BY <1>1, <1>2, Invariance, PTL DEF Spec, RefinesAbstractCache, Abstract!Spec, Seen
=============================================================================

------------------------- MODULE TokenBucketProofs ---------------------------
(***************************************************************************)
(* Proofs about TokenBucket, for every number of keys, goroutines and      *)
(* buckets, every bucket size and refill rate, and without a bound on the  *)
(* clock other than MaxTime.                                               *)
(***************************************************************************)
EXTENDS TokenBucket, TLAPS

Consuming == {"clock", "tokens", "refill", "cas", "store_refill", "denied"}

\* A goroutine has a key and a bucket whenever it is going to use them.
Frames ==
  \A p \in Procs :
    /\ Inside(p) => key[p] \in Keys
    /\ pc[p] \in Consuming \cup {"store_bucket"} => bkt[p] \in Buckets

\* The tokens a goroutine is about to store are in range.
Offers == \A p \in Procs : pc[p] = "cas" => n[p] <= new[p] /\ new[p] <= BucketSize

\* The global bucket is there and stays there.
GlobalStays == buckets[Global] \in Buckets /\ evicting # Global

IndInv == TypeOK /\ Frames /\ Offers /\ GlobalStays /\ SpentOnce /\ SharedBucket

\* NewTokenBucket establishes the invariant.
LEMMA IndInvInit == Init => IndInv
<1> USE LimiterAssumption
<1> SUFFICES ASSUME Init PROVE IndInv
  OBVIOUS
<1>1. PICK b \in Buckets : buckets = [k \in Keys |-> IF k = Global THEN b ELSE None]
  BY DEF Init
<1>2. TypeOK
  BY <1>1 DEF Init, TypeOK, Steps
<1>3. Frames /\ Offers /\ SharedBucket
  BY DEF Init, Frames, Offers, SharedBucket, Inside, Consuming
<1>4. GlobalStays
  BY <1>1 DEF Init, GlobalStays
<1>5. SpentOnce
  BY DEF Init, SpentOnce
<1>. QED BY <1>2, <1>3, <1>4, <1>5 DEF IndInv

\* A call on a bucket, by AllowGlobal or by CurrentTokens, keeps the invariant.
LEMMA CallPreserves ==
  ASSUME IndInv, NEW p \in Procs,
         AllowGlobal(p) \/ (\E k \in Keys : CurrentTokens(p, k)) \/
         (\E k \in Keys, c \in Costs : Allow(p, k, c))
  PROVE  IndInv'
<1> USE LimiterAssumption
<1>1. /\ UNCHANGED <<now, buckets, tokens, lastRefill, evicting, arrived, current, new, ghost>>
      /\ pc' = [pc EXCEPT ![p] = "load"] \/ pc' = [pc EXCEPT ![p] = "clock"]
      /\ \E k \in Keys, c \in Nat : key' = [key EXCEPT ![p] = k] /\ n' = [n EXCEPT ![p] = c]
      /\ IF pc'[p] = "clock"
         THEN buckets[key'[p]] \in Buckets /\ bkt' = [bkt EXCEPT ![p] = buckets[key'[p]]]
         ELSE bkt' = bkt
  <2>1. CASE AllowGlobal(p)
    BY <2>1 DEF AllowGlobal, Goto, IndInv, TypeOK, GlobalStays
  <2>2. ASSUME NEW k \in Keys, CurrentTokens(p, k) PROVE <1>1!:
    BY <2>2 DEF CurrentTokens, Goto, IndInv, TypeOK
  <2>3. ASSUME NEW k \in Keys, NEW c \in Costs, Allow(p, k, c) PROVE <1>1!:
    BY <2>3 DEF Allow, Goto, IndInv, TypeOK
  <2>. QED BY <2>1, <2>2, <2>3
<1>2. TypeOK'
  BY <1>1 DEF IndInv, TypeOK, ghost, Steps
<1>3. Frames'
  BY <1>1 DEF IndInv, TypeOK, Frames, Inside, Consuming
<1>4. Offers' /\ GlobalStays' /\ SpentOnce'
  BY <1>1 DEF IndInv, TypeOK, Offers, GlobalStays, SpentOnce, ghost
<1>5. SharedBucket'
  BY <1>1 DEF IndInv, TypeOK, SharedBucket, ghost
<1>. QED BY <1>2, <1>3, <1>4, <1>5 DEF IndInv

\* Finding a key's bucket keeps the invariant.
LEMMA LoadPreserves ==
  ASSUME IndInv, NEW p \in Procs, Load(p)
  PROVE  IndInv'
<1> USE DEF Load, Goto, IndInv, TypeOK, Frames
<1>0. key[p] \in Keys /\ buckets[key[p]] \in Buckets \cup {None}
  BY DEF Inside
<1>1. TypeOK'
  BY <1>0 DEF Steps, ghost
<1>2. Frames' /\ Offers' /\ SharedBucket'
  BY <1>0 DEF Offers, SharedBucket, Inside, Consuming, ghost
<1>3. GlobalStays' /\ SpentOnce'
  BY DEF GlobalStays, SpentOnce, ghost
<1>. QED BY <1>1, <1>2, <1>3

\* A new bucket takes an address nobody uses: all others are untouched.
LEMMA CreatePreserves ==
  ASSUME IndInv, NEW p \in Procs, Create(p)
  PROVE  IndInv'
<1> USE LimiterAssumption
<1>1. PICK b \in Free : Make(b) /\ bkt' = [bkt EXCEPT ![p] = b]
  BY DEF Create
<1>2. b \in Buckets /\ (\A k \in Keys : buckets[k] # b) /\ (\A q \in Procs : bkt[q] # b)
  BY <1>1 DEF Free
<1>3. TypeOK'
  BY <1>1, <1>2 DEF Create, Goto, Make, IndInv, TypeOK, Steps
<1>4. Frames' /\ Offers'
  BY <1>1, <1>2 DEF Create, Goto, IndInv, TypeOK, Frames, Offers, Inside, Consuming
<1>5. GlobalStays'
  BY DEF Create, IndInv, GlobalStays
<1>6. SpentOnce'
  BY <1>1, <1>2 DEF Make, IndInv, TypeOK, SpentOnce
<1>7. SharedBucket'
  <2>1. \A q \in Procs : pc'[q] \in Consuming => q # p /\ pc[q] \in Consuming
    BY DEF Create, Goto, IndInv, TypeOK, Consuming
  <2>2. \A q \in Procs : q # p => bkt'[q] = bkt[q] /\ bkt[q] # b
    BY <1>1, <1>2 DEF IndInv, TypeOK
  <2>3. evicted' = evicted \ {b} /\ buckets' = buckets /\ key' = key
    BY <1>1 DEF Make, Create
  <2>. QED BY <2>1, <2>2, <2>3 DEF IndInv, SharedBucket, Consuming
<1>. QED BY <1>3, <1>4, <1>5, <1>6, <1>7 DEF IndInv

\* The winner's bucket becomes the key's, and the loser uses it.
LEMMA LoadOrStorePreserves ==
  ASSUME IndInv, NEW p \in Procs, LoadOrStore(p)
  PROVE  IndInv'
<1> USE LimiterAssumption DEF LoadOrStore, Goto, IndInv, TypeOK, Frames
<1>0. key[p] \in Keys /\ bkt[p] \in Buckets /\ buckets[key[p]] \in Buckets \cup {None}
  BY DEF Inside, Consuming
<1>1. TypeOK'
  BY <1>0 DEF Steps, ghost
<1>2. Frames' /\ Offers'
  BY <1>0 DEF Offers, Inside, Consuming
<1>3. GlobalStays' /\ SpentOnce'
  BY <1>0 DEF GlobalStays, SpentOnce, ghost
<1>4. SharedBucket'
  <2>1. ASSUME NEW q \in Procs, q # p, pc[q] \in Consuming
        PROVE  key[q] \in Keys /\ bkt[q] \in Buckets
    BY <2>1 DEF Inside, Consuming
  <2>. QED BY <1>0, <2>1 DEF SharedBucket, Consuming, ghost
<1>. QED BY <1>1, <1>2, <1>3, <1>4

\* The reads of tryConsume keep the invariant; a refill is in range or denied.
LEMMA ReadPreserves ==
  ASSUME IndInv, NEW p \in Procs, Clock(p) \/ LoadTokens(p) \/ Refill(p)
  PROVE  IndInv'
<1> USE LimiterAssumption DEF Goto, IndInv, TypeOK, Frames
<1>0. bkt[p] \in Buckets /\ key[p] \in Keys
  BY DEF Clock, LoadTokens, Refill, Consuming, Inside
<1>1. \A x \in Int : TokensToAdd(x) \in Int
  BY DEF TokensToAdd
<1>2. TypeOK'
  <2>1. CASE Clock(p)
    BY <2>1 DEF Clock, Steps, ghost
  <2>2. CASE LoadTokens(p)
    BY <1>0, <2>2 DEF LoadTokens, Steps, ghost
  <2>3. CASE Refill(p)
    <3>1. arrived[p] - lastRefill[bkt[p]] \in Int /\ current[p] \in Int
      BY <1>0
    <3>2. Capped(current[p] + TokensToAdd(arrived[p] - lastRefill[bkt[p]])) \in Int
      BY <1>1, <3>1 DEF Capped
    <3>. QED BY <2>3, <3>2 DEF Refill, Steps, ghost
  <2>. QED BY <2>1, <2>2, <2>3
<1>3. Frames'
  BY <1>0 DEF Clock, LoadTokens, Refill, Inside, Consuming
<1>4. Offers'
  <2>1. CASE Clock(p)
    BY <2>1 DEF Clock, Offers
  <2>2. CASE LoadTokens(p)
    BY <2>2 DEF LoadTokens, Offers
  <2>3. CASE Refill(p)
    <3>1. current[p] \in Int /\ TokensToAdd(arrived[p] - lastRefill[bkt[p]]) \in Int
      BY <1>0, <1>1
    <3> DEFINE t == Capped(current[p] + TokensToAdd(arrived[p] - lastRefill[bkt[p]]))
    <3>2. t \in Int /\ t <= BucketSize
      BY <3>1 DEF Capped
    <3>3. new' = [new EXCEPT ![p] = t] /\ pc' = [pc EXCEPT ![p] = IF t < n[p] THEN "denied" ELSE "cas"]
          /\ n' = n
      BY <2>3 DEF Refill
    <3> HIDE DEF t
    <3>. QED BY <3>2, <3>3 DEF Offers
  <2>. QED BY <2>1, <2>2, <2>3
<1>5. GlobalStays' /\ SpentOnce'
  BY DEF Clock, LoadTokens, Refill, GlobalStays, SpentOnce, ghost
<1>6. SharedBucket'
  BY DEF Clock, LoadTokens, Refill, SharedBucket, ghost
<1>. QED BY <1>2, <1>3, <1>4, <1>5, <1>6

\* The swap keeps the books: it spends what was there when it was compared.
LEMMA CompareAndSwapPreserves ==
  ASSUME IndInv, NEW p \in Procs, CompareAndSwap(p)
  PROVE  IndInv'
<1> USE LimiterAssumption DEF CompareAndSwap, Admit, Goto
<1>0. /\ bkt[p] \in Buckets /\ key[p] \in Keys /\ n[p] \in Nat /\ new[p] \in Int
      /\ n[p] <= new[p] /\ new[p] <= BucketSize /\ current[p] \in Int
  BY DEF IndInv, TypeOK, Frames, Offers, Consuming, Inside
<1>1. TypeOK'
  BY <1>0 DEF IndInv, TypeOK, Steps
<1>2. Frames' /\ Offers'
  BY <1>0 DEF IndInv, TypeOK, Frames, Offers, Inside, Consuming
<1>3. GlobalStays' /\ SharedBucket'
  BY DEF IndInv, TypeOK, GlobalStays, SharedBucket
<1>4. SpentOnce'
  <2>1. /\ tokens \in [Buckets -> 0 .. BucketSize] /\ spent \in [Buckets -> Nat]
        /\ credited \in [Buckets -> Int] /\ SpentOnce
    BY DEF IndInv, TypeOK
  <2>2. CASE tokens[bkt[p]] = current[p]
    <3>1. /\ tokens'[bkt[p]] = new[p] - n[p]
          /\ spent'[bkt[p]] = spent[bkt[p]] + n[p]
          /\ credited'[bkt[p]] = credited[bkt[p]] + new[p] - current[p]
      BY <1>0, <2>1, <2>2
    <3>2. \A b \in Buckets : b # bkt[p] =>
            tokens'[b] = tokens[b] /\ spent'[b] = spent[b] /\ credited'[b] = credited[b]
      BY <1>0, <2>1, <2>2
    <3>. QED BY <1>0, <2>1, <2>2, <3>1, <3>2 DEF SpentOnce
  <2>3. CASE tokens[bkt[p]] # current[p]
    BY <2>1, <2>3 DEF SpentOnce
  <2>. QED BY <2>2, <2>3
<1>. QED BY <1>1, <1>2, <1>3, <1>4 DEF IndInv

\* Returning keeps the invariant.
LEMMA ReturnPreserves ==
  ASSUME IndInv, NEW p \in Procs, StoreRefill(p) \/ Denied(p)
  PROVE  IndInv'
<1> USE LimiterAssumption DEF StoreRefill, Denied, Return, Goto, IndInv, TypeOK
<1>1. TypeOK'
  BY DEF Steps, ghost
<1>2. Frames' /\ Offers' /\ SharedBucket'
  BY DEF Frames, Offers, SharedBucket, Inside, Consuming, ghost
<1>3. GlobalStays' /\ SpentOnce'
  BY DEF GlobalStays, SpentOnce, ghost
<1>. QED BY <1>1, <1>2, <1>3

\* Evicting a key and the passing of time keep the invariant.
LEMMA EvictTickPreserves ==
  ASSUME IndInv, Tick \/ EvictDelete \/ (\E k \in Keys : EvictCheck(k))
  PROVE  IndInv'
<1> USE LimiterAssumption DEF IndInv, TypeOK
<1>1. CASE Tick
  BY <1>1 DEF Tick, Frames, Offers, GlobalStays, SpentOnce, SharedBucket, Inside, call, ghost
<1>2. ASSUME NEW k \in Keys, EvictCheck(k) PROVE IndInv'
  BY <1>2 DEF EvictCheck, Frames, Offers, GlobalStays, SpentOnce, SharedBucket, Inside, call, ghost
<1>3. CASE EvictDelete
  <2>1. TypeOK'
    BY <1>3 DEF EvictDelete, call
  <2>2. Frames' /\ Offers' /\ SpentOnce'
    BY <1>3 DEF EvictDelete, Frames, Offers, SpentOnce, Inside, call
  <2>3. GlobalStays'
    BY <1>3 DEF EvictDelete, GlobalStays
  <2>4. SharedBucket'
    <3>1. ASSUME NEW q \in Procs, pc[q] \in Consuming
          PROVE  key[q] \in Keys /\ bkt[q] \in Buckets
      BY <3>1 DEF Frames, Inside, Consuming
    <3>. QED BY <1>3, <3>1 DEF EvictDelete, SharedBucket, Consuming, call
  <2>. QED BY <2>1, <2>2, <2>3, <2>4
<1>. QED BY <1>1, <1>2, <1>3

\* Every step of the limiter keeps the invariant.
LEMMA IndInvStep == IndInv /\ [AllowNext \/ Stats \/ Evict]_vars => IndInv'
<1> SUFFICES ASSUME IndInv, [AllowNext \/ Stats \/ Evict]_vars PROVE IndInv'
  OBVIOUS
<1>1. ASSUME NEW p \in Procs, Step(p) PROVE IndInv'
  BY <1>1, LoadPreserves, CreatePreserves, LoadOrStorePreserves, ReadPreserves,
     CompareAndSwapPreserves, ReturnPreserves DEF Step
<1>2. ASSUME NEW p \in Procs, AllowGlobal(p) PROVE IndInv'
  BY <1>2, CallPreserves
<1>3. ASSUME NEW p \in Procs, NEW k \in Keys, NEW c \in Costs, Allow(p, k, c) PROVE IndInv'
  BY <1>3, CallPreserves
<1>4. CASE Stats
  BY <1>4, CallPreserves DEF Stats
<1>5. CASE Tick \/ Evict
  BY <1>5, EvictTickPreserves DEF Evict
<1>6. CASE UNCHANGED vars
  BY <1>6 DEF vars, call, ghost, IndInv, TypeOK, Frames, Offers, GlobalStays, SpentOnce,
              SharedBucket, Inside
<1>. QED BY <1>1, <1>2, <1>3, <1>4, <1>5, <1>6 DEF AllowNext

\* The inductive invariant holds in every reachable state.
THEOREM Invariance == Spec => []IndInv
<1>. QED BY IndInvInit, IndInvStep, PTL DEF Spec

\* Every bucket holds between zero and BucketSize tokens, whatever interleaves.
THEOREM TypeCorrect == Spec => []TypeOK
<1>1. IndInv => TypeOK
  BY DEF IndInv
<1>. QED BY <1>1, Invariance, PTL

\* No token is spent twice: tokens and spending add up to the refills.
THEOREM TokensAreSpentOnce == Spec => []SpentOnce
<1>1. IndInv => SpentOnce
  BY DEF IndInv
<1>. QED BY <1>1, Invariance, PTL

\* Callers of a key share its bucket, unless it has been evicted.
THEOREM BucketsAreShared == Spec => []SharedBucket
<1>1. IndInv => SharedBucket
  BY DEF IndInv
<1>. QED BY <1>1, Invariance, PTL

-----------------------------------------------------------------------------
(* Without statistics, lastRefill moves only when a call is admitted. *)

\* tokens and time, in both directions of the division.
LEMMA TimeOfTokens ==
  ASSUME NEW D \in Nat \ {0}, NEW t \in Int, NEW c \in Int
  PROVE  /\ t \div D \in Int
         /\ t \div D < c => t < c * D
         /\ (t \div D) * D <= t
         /\ c * D <= t => c <= t \div D
<1> DEFINE d == t \div D
           r == t % D
<1>1. d \in Int /\ r \in Int /\ t = D * d + r /\ 0 <= r /\ r < D
  OBVIOUS
<1>2. d < c => d + 1 <= c
  BY <1>1
<1>3. d + 1 <= c => D * (d + 1) <= D * c
  BY <1>1
<1>4. d < c => t < c * D
  BY <1>1, <1>2, <1>3
<1>5. d * D <= t
  BY <1>1
<1>6. c * D <= t => c <= d
  <2>1. SUFFICES ASSUME d + 1 <= c PROVE t < c * D
    BY <1>1
  <2>. QED BY <1>1, <1>3, <2>1
<1>. QED BY <1>1, <1>4, <1>5, <1>6

\* No refill time is later than the latest admitted arrival.
RefilledWhenSpent ==
  /\ \A b \in Buckets : lastRefill[b] <= lastSpent[b]
  /\ \A p \in Procs : pc[p] \in {"load", "create", "store_bucket"} \cup Consuming => n[p] > 0
  /\ \A p \in Procs : pc[p] = "store_refill" => arrived[p] <= lastSpent[bkt[p]]

BusyInv == IndInv /\ RefilledWhenSpent /\ DeniedOnlyWhenBusy

\* A new limiter has admitted nobody and denied nobody.
LEMMA BusyInit == Init => BusyInv
<1>1. Init => RefilledWhenSpent /\ DeniedOnlyWhenBusy
  BY DEF Init, RefilledWhenSpent, DeniedOnlyWhenBusy, Consuming
<1>. QED BY <1>1, IndInvInit DEF BusyInv

\* A denial: too few tokens even with the refill.
LEMMA RefillDenies ==
  ASSUME BusyInv, NEW p \in Procs, Refill(p), pc'[p] = "denied", n[p] <= BucketSize
  PROVE  arrived[p] - lastSpent[bkt[p]] < n[p] * UnitsPerToken
<1> DEFINE e == arrived[p] - lastRefill[bkt[p]]
<1>1. /\ bkt[p] \in Buckets /\ arrived[p] \in Int /\ lastRefill[bkt[p]] \in Int
      /\ lastSpent[bkt[p]] \in Int /\ current[p] \in 0 .. BucketSize /\ n[p] \in Nat
      /\ n[p] > 0 /\ lastRefill[bkt[p]] <= lastSpent[bkt[p]]
  BY DEF Refill, BusyInv, IndInv, TypeOK, Frames, Consuming, RefilledWhenSpent
<1>2. e \in Int /\ arrived[p] - lastSpent[bkt[p]] <= e
  BY <1>1
<1>3. Capped(current[p] + TokensToAdd(e)) < n[p]
  BY DEF Refill, Goto, BusyInv, IndInv, TypeOK
<1> HIDE DEF e
<1>4. n[p] * UnitsPerToken \in Int /\ n[p] * UnitsPerToken > 0
  BY <1>1, LimiterAssumption
<1>5. CASE e < 0
  BY <1>1, <1>2, <1>4, <1>5
<1>6. CASE e >= 0
  <2>1. e \div UnitsPerToken \in Int
    BY <1>2, LimiterAssumption, TimeOfTokens
  <2>2. e \div UnitsPerToken < n[p]
    BY <1>1, <1>2, <1>3, <1>6, <2>1, LimiterAssumption DEF Capped, TokensToAdd
  <2>3. e < n[p] * UnitsPerToken
    BY <1>1, <1>2, <2>2, LimiterAssumption, TimeOfTokens
  <2>. QED BY <1>1, <1>2, <1>4, <2>3
<1>. QED BY <1>2, <1>5, <1>6

\* Every step of Allow, AllowN and AllowGlobal keeps the invariant.
LEMMA BusyStep == BusyInv /\ [AllowNext]_vars => BusyInv'
<1> USE LimiterAssumption
<1> SUFFICES ASSUME BusyInv, [AllowNext]_vars PROVE RefilledWhenSpent' /\ DeniedOnlyWhenBusy'
  BY IndInvStep DEF BusyInv
<1>0. /\ IndInv /\ TypeOK /\ Frames
  BY DEF BusyInv, IndInv
<1> USE DEF Goto
<1>1. ASSUME NEW p \in Procs, NEW k \in Keys, NEW c \in Costs, Allow(p, k, c)
      PROVE  RefilledWhenSpent' /\ DeniedOnlyWhenBusy'
  BY <1>0, <1>1 DEF Allow, BusyInv, TypeOK, RefilledWhenSpent, DeniedOnlyWhenBusy, Consuming, Inside, ghost
<1>2. ASSUME NEW p \in Procs, AllowGlobal(p)
      PROVE  RefilledWhenSpent' /\ DeniedOnlyWhenBusy'
  BY <1>0, <1>2 DEF AllowGlobal, BusyInv, TypeOK, RefilledWhenSpent, DeniedOnlyWhenBusy, Consuming, Inside, ghost
<1>3. ASSUME NEW p \in Procs, Load(p) \/ LoadOrStore(p) \/ Clock(p) \/ LoadTokens(p)
      PROVE  RefilledWhenSpent' /\ DeniedOnlyWhenBusy'
  BY <1>0, <1>3 DEF Load, LoadOrStore, Clock, LoadTokens, BusyInv, TypeOK, RefilledWhenSpent,
                    DeniedOnlyWhenBusy, Consuming, ghost
<1>4. ASSUME NEW p \in Procs, Create(p)
      PROVE  RefilledWhenSpent' /\ DeniedOnlyWhenBusy'
  <2>1. PICK b \in Free : Make(b) /\ bkt' = [bkt EXCEPT ![p] = b]
    BY <1>4 DEF Create
  <2>2. b \in Buckets /\ \A q \in Procs : bkt[q] # b
    BY <2>1 DEF Free
  <2>3. \A q \in Procs : pc[q] \in {"denied", "store_refill"} => bkt[q] \in Buckets
    BY <1>0 DEF Frames, Consuming
  <2>. QED BY <1>0, <1>4, <2>1, <2>2, <2>3
           DEF Create, Make, BusyInv, TypeOK, RefilledWhenSpent, DeniedOnlyWhenBusy, Consuming
<1>5. ASSUME NEW p \in Procs, Refill(p)
      PROVE  RefilledWhenSpent' /\ DeniedOnlyWhenBusy'
  <2>1. RefilledWhenSpent'
    BY <1>0, <1>5 DEF Refill, BusyInv, TypeOK, RefilledWhenSpent, Consuming, ghost
  <2>2. DeniedOnlyWhenBusy'
    <3>1. \A q \in Procs : q # p => pc'[q] = pc[q]
      BY <1>0, <1>5 DEF Refill, TypeOK
    <3>2. UNCHANGED <<n, arrived, lastSpent, bkt>>
      BY <1>5 DEF Refill, ghost
    <3>3. pc'[p] = "denied" /\ n[p] <= BucketSize => arrived[p] - lastSpent[bkt[p]] < n[p] * UnitsPerToken
      BY <1>5, RefillDenies
    <3>. QED BY <3>1, <3>2, <3>3 DEF BusyInv, DeniedOnlyWhenBusy
  <2>. QED BY <2>1, <2>2
<1>6. ASSUME NEW p \in Procs, CompareAndSwap(p)
      PROVE  RefilledWhenSpent' /\ DeniedOnlyWhenBusy'
  <2>0. bkt[p] \in Buckets /\ n[p] > 0
    BY <1>0, <1>6 DEF CompareAndSwap, Frames, BusyInv, RefilledWhenSpent, Consuming
  <2>1. \A b \in Buckets : lastSpent[b] \in Nat /\ lastSpent'[b] \in Nat /\ lastSpent[b] <= lastSpent'[b]
    BY <1>0, <1>6, <2>0 DEF CompareAndSwap, Admit, TypeOK
  <2>2. pc'[p] = "store_refill" => arrived[p] <= lastSpent'[bkt[p]]
    BY <1>0, <1>6, <2>0 DEF CompareAndSwap, Admit, TypeOK
  <2>3. UNCHANGED <<n, arrived, bkt, lastRefill>> /\ \A q \in Procs : q # p => pc'[q] = pc[q]
    BY <1>0, <1>6 DEF CompareAndSwap, Admit, TypeOK
  <2>4. pc'[p] # "denied"
    BY <1>0, <1>6 DEF CompareAndSwap, Admit, TypeOK
  <2>5. \A q \in Procs : pc[q] \in {"denied", "store_refill"} => bkt[q] \in Buckets
    BY <1>0 DEF Frames, Consuming
  <2>6. RefilledWhenSpent'
    BY <1>0, <1>6, <2>0, <2>1, <2>2, <2>3, <2>5 DEF BusyInv, RefilledWhenSpent, TypeOK, Consuming
  <2>7. DeniedOnlyWhenBusy'
    <3> SUFFICES ASSUME NEW q \in Procs, pc'[q] = "denied", n[q] <= BucketSize
                 PROVE  arrived[q] - lastSpent'[bkt[q]] < n[q] * UnitsPerToken
      BY <2>3 DEF DeniedOnlyWhenBusy
    <3>1. arrived[q] - lastSpent[bkt[q]] < n[q] * UnitsPerToken /\ bkt[q] \in Buckets
      BY <2>3, <2>4, <2>5 DEF BusyInv, DeniedOnlyWhenBusy
    <3>2. arrived[q] \in Int /\ n[q] * UnitsPerToken \in Int
      BY <1>0 DEF TypeOK
    <3>. QED BY <2>1, <3>1, <3>2
  <2>. QED BY <2>6, <2>7
<1>7. ASSUME NEW p \in Procs, StoreRefill(p) \/ Denied(p)
      PROVE  RefilledWhenSpent' /\ DeniedOnlyWhenBusy'
  BY <1>0, <1>7, SMTT(30) DEF StoreRefill, Denied, Return, BusyInv, TypeOK, RefilledWhenSpent,
                    DeniedOnlyWhenBusy, Consuming, ghost
<1>8. CASE Tick \/ UNCHANGED vars
  BY <1>8 DEF Tick, vars, call, ghost, BusyInv, RefilledWhenSpent, DeniedOnlyWhenBusy
<1>. QED BY <1>1, <1>2, <1>3, <1>4, <1>5, <1>6, <1>7, <1>8 DEF AllowNext, Step

\* A call is denied only if another was admitted shortly before it came.
THEOREM DenialsAreJustified == AllowSpec => []DeniedOnlyWhenBusy
<1>1. BusyInv => DeniedOnlyWhenBusy
  BY DEF BusyInv
<1>. QED BY <1>1, BusyInit, BusyStep, PTL DEF AllowSpec

-----------------------------------------------------------------------------
(* The rate, when the calls on each key come one after the other. *)

\* Each bucket belongs to one key, or to the one goroutine that is creating it.
Owners ==
  /\ \A j, k \in Keys : buckets[j] # None /\ buckets[j] = buckets[k] => j = k
  /\ \A p \in Procs : pc[p] = "store_bucket" =>
       /\ \A k \in Keys : buckets[k] # bkt[p]
       /\ \A q \in Procs : q # p => bkt[q] # bkt[p]

Timed == {"tokens", "refill", "cas", "store_refill", "denied"}

\* Refills are not from the future, nor from after an arrival still being served.
InOrder ==
  /\ \A b \in Buckets : created[b] <= lastRefill[b] /\ lastRefill[b] <= now
  /\ \A p \in Procs : pc[p] \in Timed => lastRefill[bkt[p]] <= arrived[p] /\ arrived[p] <= now

\* What a refill adds has been earned since the one before it.
Earned ==
  \A p \in Procs : pc[p] = "cas" =>
    (new[p] - current[p]) * UnitsPerToken <= arrived[p] - lastRefill[bkt[p]]

\* All refills have been earned by the time lastRefill says, or is about to.
Books ==
  /\ \A p \in Procs : pc[p] = "store_refill" =>
       credited[bkt[p]] * UnitsPerToken <= arrived[p] - created[bkt[p]]
  /\ \A b \in Buckets : (\A p \in Procs : pc[p] = "store_refill" => bkt[p] # b) =>
       credited[b] * UnitsPerToken <= lastRefill[b] - created[b]

SerialInv == IndInv /\ evicted = {} /\ OneAtATime /\ Owners /\ InOrder /\ Earned /\ Books

\* A new limiter: nothing has been refilled.
LEMMA SerialInit == Init => SerialInv
<1> SUFFICES ASSUME Init PROVE evicted = {} /\ OneAtATime /\ Owners /\ InOrder /\ Earned /\ Books
  BY IndInvInit DEF SerialInv
<1>1. PICK b \in Buckets : buckets = [k \in Keys |-> IF k = Global THEN b ELSE None]
  BY DEF Init
<1>2. Owners
  BY <1>1, LimiterAssumption DEF Init, Owners
<1>3. OneAtATime /\ Earned
  BY DEF Init, OneAtATime, Earned, Inside
<1>4. InOrder
  BY DEF Init, InOrder, Timed
<1>5. Books
  BY LimiterAssumption DEF Init, Books
<1>. QED BY <1>2, <1>3, <1>4, <1>5 DEF Init

\* The goroutines that are consuming work on different buckets.
LEMMA Apart ==
  ASSUME SerialInv, NEW p \in Procs, NEW q \in Procs, p # q,
         pc[p] \in Consuming, pc[q] \in Consuming
  PROVE  bkt[p] # bkt[q]
<1>1. key[p] \in Keys /\ key[q] \in Keys /\ key[p] # key[q]
  BY DEF SerialInv, OneAtATime, IndInv, Frames, Inside, Consuming
<1>2. bkt[p] = buckets[key[p]] /\ bkt[q] = buckets[key[q]] /\ bkt[p] \in Buckets
  BY DEF SerialInv, IndInv, SharedBucket, Frames, Consuming
<1>. QED BY <1>1, <1>2, LimiterAssumption DEF SerialInv, Owners

\* Buckets keep their owners.
LEMMA OwnersStep ==
  ASSUME SerialInv, AllowNext
  PROVE  Owners' /\ evicted' = {}
<1> USE LimiterAssumption DEF Goto
<1>0. TypeOK /\ Frames /\ GlobalStays /\ Owners /\ evicted = {}
  BY DEF SerialInv, IndInv
<1>1. ASSUME NEW p \in Procs, Create(p) PROVE Owners' /\ evicted' = {}
  <2>1. PICK b \in Free : Make(b) /\ bkt' = [bkt EXCEPT ![p] = b]
    BY <1>1 DEF Create
  <2>2. b \in Buckets /\ (\A k \in Keys : buckets[k] # b) /\ (\A q \in Procs : bkt[q] # b)
    BY <2>1 DEF Free
  <2>. QED BY <1>0, <1>1, <2>1, <2>2 DEF Create, Make, Owners, TypeOK
<1>2. ASSUME NEW p \in Procs, LoadOrStore(p) PROVE Owners' /\ evicted' = {}
  <2>1. key[p] \in Keys /\ bkt[p] \in Buckets
    BY <1>0, <1>2 DEF LoadOrStore, Frames, Inside, Consuming
  <2>2. CASE buckets[key[p]] = None
    BY <1>0, <1>2, <2>1, <2>2 DEF LoadOrStore, Owners, TypeOK, ghost
  <2>3. CASE buckets[key[p]] # None
    BY <1>0, <1>2, <2>1, <2>3 DEF LoadOrStore, Owners, TypeOK, ghost
  <2>. QED BY <2>2, <2>3
<1>3. ASSUME NEW p \in Procs, Load(p) PROVE Owners' /\ evicted' = {}
  <2>1. key[p] \in Keys
    BY <1>0, <1>3 DEF Load, Frames, Inside
  <2>. QED BY <1>0, <1>3, <2>1 DEF Load, Owners, TypeOK, ghost
<1>4. ASSUME NEW p \in Procs, AllowGlobal(p) PROVE Owners' /\ evicted' = {}
  BY <1>0, <1>4 DEF AllowGlobal, Owners, TypeOK, GlobalStays, Inside, ghost
<1>5. ASSUME NEW p \in Procs, NEW k \in Keys, NEW c \in Costs, Allow(p, k, c)
      PROVE  Owners' /\ evicted' = {}
  BY <1>0, <1>5 DEF Allow, Owners, TypeOK, Inside, ghost
<1>6. ASSUME NEW p \in Procs, Clock(p) \/ LoadTokens(p) \/ Refill(p) \/ CompareAndSwap(p)
      PROVE  Owners' /\ evicted' = {}
  BY <1>0, <1>6 DEF Clock, LoadTokens, Refill, CompareAndSwap, Admit, Owners, TypeOK, ghost
<1>7. ASSUME NEW p \in Procs, StoreRefill(p) \/ Denied(p) PROVE Owners' /\ evicted' = {}
  <2>1. \A q \in Procs : pc[q] = "store_bucket" => bkt[q] \in Buckets
    BY <1>0 DEF Frames
  <2>. QED BY <1>0, <1>7, <2>1 DEF StoreRefill, Denied, Return, Owners, TypeOK, ghost
<1>8. CASE Tick
  BY <1>0, <1>8 DEF Tick, Owners, call, ghost
<1>. QED BY <1>1, <1>2, <1>3, <1>4, <1>5, <1>6, <1>7, <1>8 DEF AllowNext, Step

\* A step that changes neither the buckets nor a goroutine that is consuming.
LEMMA Aside ==
  ASSUME SerialInv, UNCHANGED <<lastRefill, created, credited, current, new, arrived>>,
         now <= now', now' \in Nat,
         \A q \in Procs : pc'[q] \in Timed => pc'[q] = pc[q] /\ bkt'[q] = bkt[q],
         \A q \in Procs : pc[q] = "store_refill" => pc'[q] = pc[q]
  PROVE  InOrder' /\ Earned' /\ Books'
<1>0. TypeOK /\ InOrder /\ Earned /\ Books
  BY DEF SerialInv, IndInv
<1>1. InOrder'
  BY <1>0 DEF TypeOK, InOrder, Timed
<1>2. Earned'
  BY <1>0 DEF Earned, Timed
<1>3. Books'
  <2>1. \A q \in Procs : pc'[q] = "store_refill" <=> pc[q] = "store_refill"
    BY DEF Timed
  <2>2. \A q \in Procs : pc[q] = "store_refill" => bkt'[q] = bkt[q]
    BY <2>1 DEF Timed
  <2>. QED BY <1>0, <2>1, <2>2 DEF Books
<1>. QED BY <1>1, <1>2, <1>3

\* A refill adds no more than the time since the last one has earned.
LEMMA RefillEarns ==
  ASSUME SerialInv, NEW p \in Procs, Refill(p)
  PROVE  (new'[p] - current[p]) * UnitsPerToken <= arrived[p] - lastRefill[bkt[p]]
<1> DEFINE e == arrived[p] - lastRefill[bkt[p]]
<1>1. /\ bkt[p] \in Buckets /\ arrived[p] \in Int /\ lastRefill[bkt[p]] \in Int
      /\ current[p] \in 0 .. BucketSize /\ lastRefill[bkt[p]] <= arrived[p]
  BY DEF Refill, SerialInv, IndInv, TypeOK, Frames, Consuming, InOrder, Timed
<1>2. e \in Int /\ e >= 0
  BY <1>1
<1>3. new'[p] = Capped(current[p] + TokensToAdd(e))
  BY DEF Refill, SerialInv, IndInv, TypeOK
<1> HIDE DEF e
<1>4. e \div UnitsPerToken \in Int /\ (e \div UnitsPerToken) * UnitsPerToken <= e
  BY <1>2, LimiterAssumption, TimeOfTokens
<1>5. new'[p] \in Int /\ new'[p] - current[p] <= e \div UnitsPerToken
  BY <1>1, <1>2, <1>3, <1>4, LimiterAssumption DEF Capped, TokensToAdd
<1>6. (new'[p] - current[p]) * UnitsPerToken <= (e \div UnitsPerToken) * UnitsPerToken
  BY <1>1, <1>4, <1>5, LimiterAssumption
<1>7. (new'[p] - current[p]) * UnitsPerToken \in Int
      /\ (e \div UnitsPerToken) * UnitsPerToken \in Int
  BY <1>1, <1>4, <1>5, LimiterAssumption
<1>8. (new'[p] - current[p]) * UnitsPerToken <= e
  BY <1>2, <1>4, <1>6, <1>7
<1>. QED BY <1>8 DEF e

\* The books stay balanced when a call is admitted.
LEMMA AdmitBalances ==
  ASSUME SerialInv, NEW p \in Procs, CompareAndSwap(p)
  PROVE  InOrder' /\ Earned' /\ Books'
<1> USE DEF CompareAndSwap, Goto
<1>0. TypeOK /\ InOrder /\ Earned /\ Books /\ Frames
  BY DEF SerialInv, IndInv
<1>1. UNCHANGED <<now, lastRefill, created, current, new, arrived, bkt>>
      /\ \A q \in Procs : q # p => pc'[q] = pc[q]
  BY <1>0 DEF Admit, TypeOK
<1>2. CASE tokens[bkt[p]] # current[p]
  <2>1. pc' = [pc EXCEPT ![p] = "tokens"] /\ credited' = credited
    BY <1>2
  <2>2. InOrder'
    BY <1>0, <1>1, <2>1 DEF InOrder, TypeOK, Timed
  <2>3. Earned' /\ Books'
    BY <1>0, <1>1, <2>1 DEF Earned, Books, TypeOK
  <2>. QED BY <2>2, <2>3
<1>3. CASE tokens[bkt[p]] = current[p]
  <2> DEFINE b == bkt[p]
             c == new[p] - current[p]
  <2>1. /\ pc' = [pc EXCEPT ![p] = "store_refill"]
        /\ credited' = [credited EXCEPT ![b] = @ + new[p] - current[p]]
    BY <1>3 DEF Admit
  <2>2. b \in Buckets /\ c \in Int /\ new[p] \in Int /\ current[p] \in Int
    BY <1>0 DEF TypeOK, Frames, Consuming
  <2>3. \A q \in Procs : q # p /\ pc[q] \in Consuming => bkt[q] # b
    BY Apart DEF Consuming
  <2>4. InOrder'
    BY <1>0, <1>1, <2>1 DEF InOrder, TypeOK, Timed
  <2>5. Earned'
    BY <1>0, <1>1, <2>1 DEF Earned, TypeOK
  <2>6. credited'[b] * UnitsPerToken <= arrived[p] - created[b]
    <3>1. credited[b] * UnitsPerToken <= lastRefill[b] - created[b]
      BY <1>0, <2>2, <2>3 DEF Books, Consuming
    <3>2. c * UnitsPerToken <= arrived[p] - lastRefill[b]
      BY <1>0 DEF Earned
    <3>3. credited[b] \in Int /\ arrived[p] \in Int /\ lastRefill[b] \in Int /\ created[b] \in Int
      BY <1>0, <2>2 DEF TypeOK
    <3>4. credited'[b] = credited[b] + c
      BY <1>0, <2>1, <2>2, <3>3 DEF TypeOK
    <3> HIDE DEF b, c
    <3>5. (credited[b] + c) * UnitsPerToken = credited[b] * UnitsPerToken + c * UnitsPerToken
          /\ credited[b] * UnitsPerToken \in Int /\ c * UnitsPerToken \in Int
      BY <2>2, <3>3, LimiterAssumption
    <3>. QED BY <3>1, <3>2, <3>3, <3>4, <3>5
  <2>7. \A a \in Buckets : a # b => credited'[a] = credited[a]
    BY <1>0, <2>1 DEF TypeOK
  <2>8. \A q \in Procs : q # p /\ pc[q] = "store_refill" => bkt[q] # b /\ bkt[q] \in Buckets
    BY <1>0, <2>3 DEF Frames, Consuming
  <2>9. pc'[p] = "store_refill"
    BY <1>0, <2>1 DEF TypeOK
  <2> HIDE DEF c
  <2>10. Books'
    BY <1>0, <1>1, <2>6, <2>7, <2>8, <2>9 DEF Books
  <2>. QED BY <2>4, <2>5, <2>10
<1>. QED BY <1>2, <1>3

\* Every step of the serial limiter keeps the books balanced.
LEMMA SerialStep == SerialInv /\ [AllowNext /\ OneAtATime']_vars => SerialInv'
<1> USE LimiterAssumption
<1>0. ASSUME SerialInv PROVE TypeOK /\ Frames /\ InOrder /\ Earned /\ Books
  BY <1>0 DEF SerialInv, IndInv
<1>1. ASSUME SerialInv, AllowNext PROVE InOrder' /\ Earned' /\ Books'
  <2> USE <1>0, <1>1 DEF Goto
  <2>1. ASSUME NEW p \in Procs, NEW k \in Keys, NEW c \in Costs, Allow(p, k, c)
        PROVE  InOrder' /\ Earned' /\ Books'
    BY <2>1, Aside DEF Allow, TypeOK, Timed, Inside, ghost
  <2>2. ASSUME NEW p \in Procs, AllowGlobal(p) PROVE InOrder' /\ Earned' /\ Books'
    BY <2>2, Aside DEF AllowGlobal, TypeOK, Timed, Inside, ghost
  <2>3. ASSUME NEW p \in Procs, Load(p) \/ LoadOrStore(p) PROVE InOrder' /\ Earned' /\ Books'
    BY <2>3, Aside DEF Load, LoadOrStore, TypeOK, Timed, ghost
  <2>4. ASSUME NEW p \in Procs, Denied(p) PROVE InOrder' /\ Earned' /\ Books'
    <3>1. pc[p] = "denied" /\ pc' = [pc EXCEPT ![p] = "idle"]
          /\ UNCHANGED <<now, lastRefill, created, credited>>
          /\ \A q \in Procs : q # p => /\ bkt'[q] = bkt[q] /\ arrived'[q] = arrived[q]
                                       /\ current'[q] = current[q] /\ new'[q] = new[q]
      BY <2>4 DEF Denied, Return, TypeOK, ghost
    <3>. QED BY <3>1 DEF InOrder, Earned, Books, TypeOK, Timed
  <2>5. ASSUME NEW p \in Procs, Create(p) PROVE InOrder' /\ Earned' /\ Books'
    <3>1. PICK b \in Free : Make(b) /\ bkt' = [bkt EXCEPT ![p] = b]
      BY <2>5 DEF Create
    <3>2. b \in Buckets /\ \A q \in Procs : bkt[q] # b
      BY <3>1 DEF Free
    <3>3. pc' = [pc EXCEPT ![p] = "store_bucket"] /\ UNCHANGED <<now, current, new, arrived>>
      BY <2>5 DEF Create
    <3>4. \A q \in Procs : pc[q] \in Timed => bkt[q] \in Buckets
      BY DEF Frames, Timed, Consuming
    <3>5. \A q \in Procs : pc'[q] \in Timed => q # p /\ pc'[q] = pc[q] /\ bkt'[q] = bkt[q]
      BY <3>1, <3>3 DEF TypeOK, Timed
    <3>6. \A a \in Buckets : a # b => /\ lastRefill'[a] = lastRefill[a] /\ created'[a] = created[a]
                                      /\ credited'[a] = credited[a]
      BY <3>1 DEF Make, TypeOK
    <3>7. lastRefill'[b] = now /\ created'[b] = now /\ credited'[b] = 0
      BY <3>1, <3>2 DEF Make, TypeOK
    <3>8. InOrder' /\ Earned'
      BY <3>2, <3>3, <3>4, <3>5, <3>6, <3>7 DEF InOrder, Earned, TypeOK, Timed
    <3>9. \A q \in Procs : pc[q] = "store_refill" => pc'[q] = pc[q] /\ bkt'[q] = bkt[q] /\ q # p
      BY <2>5, <3>1, <3>3 DEF Create, TypeOK
    <3>10. Books'
      <4>1. \A q \in Procs : pc'[q] = "store_refill" <=> pc[q] = "store_refill"
        BY <3>5, <3>9 DEF Timed
      <4>2. 0 * UnitsPerToken <= now - now
        BY DEF TypeOK
      <4>3. \A q \in Procs : pc[q] = "store_refill" => bkt'[q] \in Buckets /\ bkt'[q] = bkt[q] /\ bkt'[q] # b
        BY <3>2, <3>4, <3>9 DEF Timed
      <4>. QED BY <3>2, <3>3, <3>6, <3>7, <4>1, <4>2, <4>3 DEF Books
    <3>. QED BY <3>8, <3>10
  <2>6. ASSUME NEW p \in Procs, Clock(p) PROVE InOrder' /\ Earned' /\ Books'
    <3>1. bkt[p] \in Buckets
      BY <2>6 DEF Clock, Frames, Consuming
    <3>. QED BY <2>6, <3>1 DEF Clock, InOrder, Earned, Books, TypeOK, Timed, ghost
  <2>7. ASSUME NEW p \in Procs, LoadTokens(p) PROVE InOrder' /\ Earned' /\ Books'
    BY <2>7 DEF LoadTokens, InOrder, Earned, Books, TypeOK, Timed, ghost
  <2>8. ASSUME NEW p \in Procs, Refill(p) PROVE InOrder' /\ Earned' /\ Books'
    <3>1. /\ UNCHANGED <<now, bkt, lastRefill, created, credited, current, arrived>>
          /\ pc[p] = "refill" /\ pc'[p] \in {"denied", "cas"}
          /\ \A q \in Procs : q # p => pc'[q] = pc[q] /\ new'[q] = new[q]
      BY <2>8 DEF Refill, TypeOK, ghost
    <3>2. InOrder' /\ Books'
      BY <3>1 DEF InOrder, Books, Timed
    <3>3. Earned'
      BY <2>8, <3>1, RefillEarns DEF Earned
    <3>. QED BY <3>2, <3>3
  <2>9. ASSUME NEW p \in Procs, StoreRefill(p) PROVE InOrder' /\ Earned' /\ Books'
    <3>1. bkt[p] \in Buckets /\ \A q \in Procs : q # p /\ pc[q] \in Consuming => bkt[q] # bkt[p]
      BY <2>9, Apart DEF StoreRefill, Frames, Consuming
    <3>2. /\ pc[p] = "store_refill" /\ pc'[p] = "idle" /\ UNCHANGED <<now, created, credited>>
          /\ \A q \in Procs : q # p => /\ pc'[q] = pc[q] /\ bkt'[q] = bkt[q] /\ arrived'[q] = arrived[q]
                                       /\ current'[q] = current[q] /\ new'[q] = new[q]
      BY <2>9 DEF StoreRefill, Return, TypeOK, ghost
    <3>3. lastRefill'[bkt[p]] = arrived[p]
          /\ \A b \in Buckets : b # bkt[p] => lastRefill'[b] = lastRefill[b]
      BY <2>9, <3>1 DEF StoreRefill, TypeOK
    <3>4. \A q \in Procs : pc[q] \in Timed => bkt[q] \in Buckets /\ (q # p => bkt[q] # bkt[p])
      BY <3>1 DEF Frames, Timed, Consuming
    <3>5. InOrder'
      BY <3>1, <3>2, <3>3, <3>4 DEF InOrder, TypeOK, Timed
    <3>6. Earned'
      BY <3>2, <3>3, <3>4 DEF Earned, Timed
    <3>7. Books'
      BY <3>1, <3>2, <3>3, <3>4 DEF Books, Timed
    <3>. QED BY <3>5, <3>6, <3>7
  <2>10. CASE Tick
    BY <2>10, Aside DEF Tick, TypeOK, call, ghost
  <2>. QED BY <2>1, <2>2, <2>3, <2>4, <2>5, <2>6, <2>7, <2>8, <2>9, <2>10, AdmitBalances
           DEF AllowNext, Step
<1>2. ASSUME SerialInv, AllowNext, OneAtATime' PROVE SerialInv'
  <2>1. IndInv'
    BY <1>2, IndInvStep DEF SerialInv
  <2>. QED BY <1>1, <1>2, <2>1, OwnersStep DEF SerialInv
<1>3. ASSUME SerialInv, UNCHANGED vars PROVE SerialInv'
  <2>1. IndInv'
    BY <1>3, IndInvStep DEF SerialInv
  <2>. QED BY <1>3, <2>1 DEF vars, call, ghost, SerialInv, OneAtATime, Owners, InOrder, Earned, Books, Inside
<1>. QED BY <1>2, <1>3

\* Callers of one key that come one after the other never exceed its rate: the
\* bucket's size, and one token for every UnitsPerToken since it was made.
THEOREM SerialRate == SerialSpec => []RateRespected
<1>1. SerialInv => RateRespected
  <2> SUFFICES ASSUME SerialInv, NEW b \in Buckets
               PROVE  spent[b] <= BucketSize + (now - created[b]) \div UnitsPerToken
    BY DEF RateRespected
  <2>1. /\ tokens[b] \in 0 .. BucketSize /\ spent[b] \in Int /\ credited[b] \in Int /\ now \in Int
        /\ created[b] \in Int /\ lastRefill[b] \in Int /\ lastRefill[b] <= now
        /\ tokens[b] + spent[b] = BucketSize + credited[b]
    BY DEF SerialInv, IndInv, TypeOK, SpentOnce, InOrder
  <2>2. credited[b] * UnitsPerToken \in Int
    BY <2>1, LimiterAssumption
  <2>3. credited[b] * UnitsPerToken <= now - created[b]
    <3>1. CASE \E p \in Procs : pc[p] = "store_refill" /\ bkt[p] = b
      <4>1. PICK p \in Procs : pc[p] = "store_refill" /\ bkt[p] = b
        BY <3>1
      <4>2. credited[b] * UnitsPerToken <= arrived[p] - created[b] /\ arrived[p] <= now /\ arrived[p] \in Int
        BY <4>1 DEF SerialInv, IndInv, TypeOK, Books, InOrder, Timed
      <4>. QED BY <2>1, <2>2, <4>2
    <3>2. CASE \A p \in Procs : pc[p] = "store_refill" => bkt[p] # b
      BY <2>1, <2>2, <3>2 DEF SerialInv, Books
    <3>. QED BY <3>1, <3>2
  <2>4. (now - created[b]) \div UnitsPerToken \in Int
        /\ credited[b] <= (now - created[b]) \div UnitsPerToken
    BY <2>1, <2>3, LimiterAssumption, TimeOfTokens
  <2>. QED BY <2>1, <2>4, LimiterAssumption
<1>. QED BY <1>1, SerialInit, SerialStep, PTL DEF SerialSpec
=============================================================================

---------------------------- MODULE TokenBucket ------------------------------
(***************************************************************************)
(* The rate limiter of pkg/middleware/ratelimit.go: one token bucket per   *)
(* key in a sync.Map, and a global one.  A bucket's two words, tokens and  *)
(* lastRefill, are each accessed atomically but never together, so every   *)
(* access is a step of its own.  Time is counted in units of which         *)
(* UnitsPerToken make up one token (the inverse of refillRate), so that    *)
(* the rounding of a refill to whole tokens shows.                         *)
(***************************************************************************)
EXTENDS Integers, FiniteSets

CONSTANTS
  Keys,           \* limiter keys, the global bucket's name among them
  Global,         \* stands for the bucket of AllowGlobal
  Procs,          \* request goroutines
  Buckets,        \* addresses of buckets
  Costs,          \* tokens a call asks for: 1 for Allow, n for AllowN
  BucketSize,     \* bucketSize
  UnitsPerToken,  \* time to refill one token
  StaleDuration,  \* argument of EvictStaleKeys
  MaxTime,        \* bound on the clock
  None            \* nothing

ASSUME LimiterAssumption ==
  /\ BucketSize \in Nat \ {0} /\ UnitsPerToken \in Nat \ {0}
  /\ Costs \subseteq Nat \ {0}
  /\ StaleDuration \in Nat /\ MaxTime \in Nat
  /\ Global \in Keys /\ None \notin Keys \cup Buckets

VARIABLES
  now,         \* the clock
  buckets,     \* the sync.Map, and the global bucket: key -> address
  tokens,      \* the two words of each bucket
  lastRefill,
  evicting,    \* EvictStaleKeys: a key it found stale and is about to delete
  pc,          \* where each goroutine is
  key, n,      \* its arguments (n = 0: CurrentTokens)
  bkt,         \* its bucket
  arrived,     \* tryConsume: the time it started
  current,     \* ... currentTokens
  new,         \* ... newTokens
  created,     \* history: when each bucket was made
  spent,       \* history: the tokens taken from it
  credited,    \* history: the tokens refilled into it
  lastSpent,   \* history: the latest arrival that was admitted
  evicted      \* history: buckets that EvictStaleKeys has deleted

call  == <<pc, key, n, bkt, arrived, current, new>>
ghost == <<created, spent, credited, lastSpent, evicted>>
vars  == <<now, buckets, tokens, lastRefill, evicting, call, ghost>>

Steps == {"idle", "load", "create", "store_bucket", "clock", "tokens", "refill",
          "cas", "store_refill", "denied"}

-----------------------------------------------------------------------------
Inside(p) == pc[p] # "idle"

\* Addresses nothing refers to any more.
Free == Buckets \ ({buckets[k] : k \in Keys} \cup {bkt[p] : p \in Procs})

\* int64(refillRate * elapsed.Seconds()): rounds towards zero, also below zero.
TokensToAdd(elapsed) ==
  IF elapsed >= 0 THEN elapsed \div UnitsPerToken ELSE -((-elapsed) \div UnitsPerToken)

Capped(t) == IF t > BucketSize THEN BucketSize ELSE t

Goto(p, step) == pc' = [pc EXCEPT ![p] = step]

\* A full bucket at address b.
Make(b) ==
  /\ tokens' = [tokens EXCEPT ![b] = BucketSize]
  /\ lastRefill' = [lastRefill EXCEPT ![b] = now]
  /\ created' = [created EXCEPT ![b] = now]
  /\ spent' = [spent EXCEPT ![b] = 0]
  /\ credited' = [credited EXCEPT ![b] = 0]
  /\ lastSpent' = [lastSpent EXCEPT ![b] = now]
  /\ evicted' = evicted \ {b}

Init ==
  /\ now = 0
  /\ \E b \in Buckets : buckets = [k \in Keys |-> IF k = Global THEN b ELSE None]
  /\ tokens = [b \in Buckets |-> BucketSize]
  /\ lastRefill = [b \in Buckets |-> 0]
  /\ evicting = None
  /\ pc = [p \in Procs |-> "idle"]
  /\ key = [p \in Procs |-> None]
  /\ n = [p \in Procs |-> 0]
  /\ bkt = [p \in Procs |-> None]
  /\ arrived = [p \in Procs |-> 0]
  /\ current = [p \in Procs |-> 0]
  /\ new = [p \in Procs |-> 0]
  /\ created = [b \in Buckets |-> 0]
  /\ spent = [b \in Buckets |-> 0]
  /\ credited = [b \in Buckets |-> 0]
  /\ lastSpent = [b \in Buckets |-> 0]
  /\ evicted = {}

-----------------------------------------------------------------------------
(* The calls. *)

\* Allow and AllowN; an empty key or a cost of zero is refused without a step.
Allow(p, k, c) ==
  /\ ~Inside(p) /\ k # Global
  /\ Goto(p, "load")
  /\ key' = [key EXCEPT ![p] = k]
  /\ n' = [n EXCEPT ![p] = c]
  /\ UNCHANGED <<now, buckets, tokens, lastRefill, evicting, bkt, arrived, current, new, ghost>>

AllowGlobal(p) ==
  /\ ~Inside(p)
  /\ Goto(p, "clock")
  /\ key' = [key EXCEPT ![p] = Global]
  /\ n' = [n EXCEPT ![p] = 1]
  /\ bkt' = [bkt EXCEPT ![p] = buckets[Global]]
  /\ UNCHANGED <<now, buckets, tokens, lastRefill, evicting, arrived, current, new, ghost>>

\* GetStats asks a bucket it finds in the map for its CurrentTokens.
CurrentTokens(p, k) ==
  /\ ~Inside(p) /\ buckets[k] # None
  /\ Goto(p, "clock")
  /\ key' = [key EXCEPT ![p] = k]
  /\ n' = [n EXCEPT ![p] = 0]
  /\ bkt' = [bkt EXCEPT ![p] = buckets[k]]
  /\ UNCHANGED <<now, buckets, tokens, lastRefill, evicting, arrived, current, new, ghost>>

(* getOrCreateBucket. *)

Load(p) ==
  /\ pc[p] = "load"
  /\ bkt' = [bkt EXCEPT ![p] = buckets[key[p]]]
  /\ Goto(p, IF buckets[key[p]] = None THEN "create" ELSE "clock")
  /\ UNCHANGED <<now, buckets, tokens, lastRefill, evicting, key, n, arrived, current, new, ghost>>

Create(p) ==
  /\ pc[p] = "create"
  /\ \E b \in Free : Make(b) /\ bkt' = [bkt EXCEPT ![p] = b]
  /\ Goto(p, "store_bucket")
  /\ UNCHANGED <<now, buckets, evicting, key, n, arrived, current, new>>

StoreBucket(p) ==  \* mistake: Store for LoadOrStore
  /\ pc[p] = "store_bucket"
  /\ buckets' = [buckets EXCEPT ![key[p]] = bkt[p]]
  /\ Goto(p, "clock")
  /\ UNCHANGED <<now, tokens, lastRefill, evicting, key, n, bkt, arrived, current, new, ghost>>

\* The loser of the race to create a key's bucket uses the winner's.
LoadOrStore(p) ==
  /\ pc[p] = "store_bucket"
  /\ IF buckets[key[p]] = None
     THEN /\ buckets' = [buckets EXCEPT ![key[p]] = bkt[p]]
          /\ UNCHANGED bkt
     ELSE /\ bkt' = [bkt EXCEPT ![p] = buckets[key[p]]]
          /\ UNCHANGED buckets
  /\ Goto(p, "clock")
  /\ UNCHANGED <<now, tokens, lastRefill, evicting, key, n, arrived, current, new, ghost>>

(* tryConsume. *)

Clock(p) ==
  /\ pc[p] = "clock"
  /\ arrived' = [arrived EXCEPT ![p] = now]
  /\ Goto(p, "tokens")
  /\ UNCHANGED <<now, buckets, tokens, lastRefill, evicting, key, n, bkt, current, new, ghost>>

LoadTokens(p) ==
  /\ pc[p] = "tokens"
  /\ current' = [current EXCEPT ![p] = tokens[bkt[p]]]
  /\ Goto(p, "refill")
  /\ UNCHANGED <<now, buckets, tokens, lastRefill, evicting, key, n, bkt, arrived, new, ghost>>

RefillUncapped(p) ==  \* mistake: the cap is forgotten
  /\ pc[p] = "refill"
  /\ LET t == current[p] + TokensToAdd(arrived[p] - lastRefill[bkt[p]]) IN
       /\ new' = [new EXCEPT ![p] = t]
       /\ Goto(p, IF t < n[p] THEN "denied" ELSE "cas")
  /\ UNCHANGED <<now, buckets, tokens, lastRefill, evicting, key, n, bkt, arrived, current, ghost>>

\* lastRefill may be later than arrived: then tokens are taken away.
Refill(p) ==
  /\ pc[p] = "refill"
  /\ LET t == Capped(current[p] + TokensToAdd(arrived[p] - lastRefill[bkt[p]])) IN
       /\ new' = [new EXCEPT ![p] = t]
       /\ Goto(p, IF t < n[p] THEN "denied" ELSE "cas")
  /\ UNCHANGED <<now, buckets, tokens, lastRefill, evicting, key, n, bkt, arrived, current, ghost>>

Admit(p) ==
  /\ tokens' = [tokens EXCEPT ![bkt[p]] = new[p] - n[p]]
  /\ spent' = [spent EXCEPT ![bkt[p]] = @ + n[p]]
  /\ credited' = [credited EXCEPT ![bkt[p]] = @ + new[p] - current[p]]
  /\ lastSpent' = [lastSpent EXCEPT ![bkt[p]] = IF n[p] > 0 /\ arrived[p] > @ THEN arrived[p] ELSE @]
  /\ Goto(p, "store_refill")

PlainStore(p) ==  \* mistake: the tokens are stored without comparing them
  /\ pc[p] = "cas"
  /\ Admit(p)
  /\ UNCHANGED <<now, buckets, lastRefill, evicting, key, n, bkt, arrived, current, new, created, evicted>>

CompareAndSwap(p) ==
  /\ pc[p] = "cas"
  /\ IF tokens[bkt[p]] = current[p]
     THEN Admit(p)
     ELSE Goto(p, "tokens") /\ UNCHANGED <<tokens, spent, credited, lastSpent>>
  /\ UNCHANGED <<now, buckets, lastRefill, evicting, key, n, bkt, arrived, current, new, created, evicted>>

\* The call returns: its goroutine has no use for the bucket any more.
Return(p) ==
  /\ Goto(p, "idle")
  /\ key' = [key EXCEPT ![p] = None]
  /\ n' = [n EXCEPT ![p] = 0]
  /\ bkt' = [bkt EXCEPT ![p] = None]
  /\ arrived' = [arrived EXCEPT ![p] = 0]
  /\ current' = [current EXCEPT ![p] = 0]
  /\ new' = [new EXCEPT ![p] = 0]

ReturnUnrefilled(p) ==  \* mistake: lastRefill is not moved on
  /\ pc[p] = "store_refill"
  /\ Return(p)
  /\ UNCHANGED <<now, buckets, tokens, lastRefill, evicting, ghost>>

StoreRefill(p) ==
  /\ pc[p] = "store_refill"
  /\ lastRefill' = [lastRefill EXCEPT ![bkt[p]] = arrived[p]]
  /\ Return(p)
  /\ UNCHANGED <<now, buckets, tokens, evicting, ghost>>

DeniedRefilled(p) ==  \* mistake: a denied call moves lastRefill on as well
  /\ pc[p] = "denied"
  /\ lastRefill' = [lastRefill EXCEPT ![bkt[p]] = arrived[p]]
  /\ Return(p)
  /\ UNCHANGED <<now, buckets, tokens, evicting, ghost>>

Denied(p) ==
  /\ pc[p] = "denied"
  /\ Return(p)
  /\ UNCHANGED <<now, buckets, tokens, lastRefill, evicting, ghost>>

(* EvictStaleKeys looks at the bucket and deletes the key in two steps. *)

EvictCheck(k) ==
  /\ evicting = None /\ k # Global /\ buckets[k] # None
  /\ lastRefill[buckets[k]] < now - StaleDuration
  /\ evicting' = k
  /\ UNCHANGED <<now, buckets, tokens, lastRefill, call, ghost>>

EvictDelete ==
  /\ evicting # None
  /\ buckets' = [buckets EXCEPT ![evicting] = None]
  /\ evicted' = evicted \cup ({buckets[evicting]} \ {None})
  /\ evicting' = None
  /\ UNCHANGED <<now, tokens, lastRefill, call, created, spent, credited, lastSpent>>

Tick ==
  /\ now < MaxTime
  /\ now' = now + 1
  /\ UNCHANGED <<buckets, tokens, lastRefill, evicting, call, ghost>>

-----------------------------------------------------------------------------
Step(p) ==
  \/ Load(p) \/ Create(p) \/ LoadOrStore(p)
  \/ Clock(p) \/ LoadTokens(p) \/ Refill(p) \/ CompareAndSwap(p) \/ StoreRefill(p) \/ Denied(p)

\* Calls of Allow, AllowN and AllowGlobal ...
AllowNext ==
  \/ \E p \in Procs : Step(p) \/ AllowGlobal(p)
  \/ \E p \in Procs, k \in Keys, c \in Costs : Allow(p, k, c)
  \/ Tick

\* ... statistics, and eviction.
Stats == \E p \in Procs, k \in Keys : CurrentTokens(p, k)
Evict == EvictDelete \/ \E k \in Keys : EvictCheck(k)

Spec      == Init /\ [][AllowNext \/ Stats \/ Evict]_vars
AllowSpec == Init /\ [][AllowNext]_vars

\* Calls on one key one after the other.
OneAtATime == \A p, q \in Procs : p # q /\ Inside(p) /\ Inside(q) => key[p] # key[q]
SerialSpec == Init /\ [][AllowNext /\ OneAtATime']_vars
-----------------------------------------------------------------------------
\* Every bucket holds between none and BucketSize tokens, also when a refill is
\* negative, two refills overlap or the bucket has been evicted meanwhile.
TypeOK ==
  /\ now \in Nat
  /\ buckets \in [Keys -> Buckets \cup {None}]
  /\ tokens \in [Buckets -> 0 .. BucketSize]
  /\ lastRefill \in [Buckets -> Nat]
  /\ evicting \in Keys \cup {None}
  /\ pc \in [Procs -> Steps]
  /\ key \in [Procs -> Keys \cup {None}]
  /\ n \in [Procs -> Nat]
  /\ bkt \in [Procs -> Buckets \cup {None}]
  /\ arrived \in [Procs -> Nat]
  /\ current \in [Procs -> 0 .. BucketSize]
  /\ new \in [Procs -> Int]
  /\ created \in [Buckets -> Nat]
  /\ spent \in [Buckets -> Nat]
  /\ credited \in [Buckets -> Int]
  /\ lastSpent \in [Buckets -> Nat]
  /\ evicted \subseteq Buckets

\* No token is spent twice: however the calls interleave, what has been taken
\* from a bucket and what is left in it are what it started with and what was
\* refilled.
SpentOnce == \A b \in Buckets : tokens[b] + spent[b] = BucketSize + credited[b]

\* A caller that consumes uses the bucket every other caller of its key finds,
\* unless that bucket has been evicted.
SharedBucket ==
  \A p \in Procs :
    pc[p] \in {"clock", "tokens", "refill", "cas", "store_refill", "denied"} =>
      bkt[p] = buckets[key[p]] \/ bkt[p] \in evicted

\* A call for c tokens is denied only if another call was admitted less than
\* the time to refill c tokens before it came.
DeniedOnlyWhenBusy ==
  \A p \in Procs :
    pc[p] = "denied" /\ n[p] <= BucketSize =>
      arrived[p] - lastSpent[bkt[p]] < n[p] * UnitsPerToken

\* The rate: a bucket never gives out more than its size and one token for
\* every UnitsPerToken since it was made.
RateRespected ==
  \A b \in Buckets :
    spent[b] <= BucketSize + (now - created[b]) \div UnitsPerToken
=============================================================================

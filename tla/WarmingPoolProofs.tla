------------------------- MODULE WarmingPoolProofs ---------------------------
(***************************************************************************)
(* Proofs about WarmingPool, for any requests, keys, workers, clients and  *)
(* queue size: successes are in the cache, the emergency stop is kept,     *)
(* every accepted task has one outcome, and the queue follows the plans.   *)
(***************************************************************************)
EXTENDS WarmingPool, SequenceTheorems, FiniteSetTheorems, TLAPS

-----------------------------------------------------------------------------
(* The inductive invariant. *)

Steps == {"idle", "stopped", "execute", "do", "wait", "limit", "fetch", "check", "write",
          "failed", "finish"}

Types ==
  /\ taskQueue \in Seq(Tasks)
  /\ emergencyStop \in BOOLEAN
  /\ defaultStrategy \in Strategies
  /\ strategy \in [Requests -> Strategies \cup {None}]
  /\ \A r \in Requests : r.api = "WarmKey" => strategy[r] = None
  /\ todo \in [Clients -> Seq(Tasks)]
  /\ pc \in [Workers -> Steps]
  /\ task \in [Workers -> Tasks \cup {None}]
  /\ \A w \in Workers : pc[w] \notin {"idle", "stopped"} => task[w] \in Tasks
  /\ publishing \subseteq Tasks
  /\ completed \subseteq Tasks \X {"success", "failure"}
  /\ accepted \subseteq Tasks /\ dropped \subseteq Tasks
  /\ lateFetches \in Nat

\* Workers that have looked at the emergency stop and not yet begun to fetch.
Decided == {w \in Workers : pc[w] \in {"do", "limit"}}

\* Whoever pulls the stop is past its fetch; each of the others may have decided
\* on one.
FewDecided ==
  /\ ~emergencyStop => lateFetches = 0
  /\ emergencyStop => lateFetches + Cardinality(Decided) <= Cardinality(Workers) - 1

\* The places of a task exclude each other, and are taken once.
QueuedOnce == \A i, j \in DOMAIN taskQueue : taskQueue[i] = taskQueue[j] => i = j

HeldOnce == \A v, w \in Busy : task[v] = task[w] => v = w

OnePlace ==
  /\ \A i \in DOMAIN taskQueue :
       /\ \A w \in Busy : taskQueue[i] # task[w]
       /\ taskQueue[i] \notin publishing
       /\ \A s \in {"success", "failure"} : <<taskQueue[i], s>> \notin completed
  /\ \A w \in Busy :
       /\ task[w] \notin publishing
       /\ \A s \in {"success", "failure"} : <<task[w], s>> \notin completed
  /\ \A t \in publishing : \A s \in {"success", "failure"} : <<t, s>> \notin completed
  /\ \A t \in Tasks : ~(<<t, "success">> \in completed /\ <<t, "failure">> \in completed)

\* A task has a place if and only if the queue has taken it.
Placed(t) ==
  \/ \E i \in DOMAIN taskQueue : taskQueue[i] = t
  \/ \E w \in Busy : task[w] = t
  \/ t \in publishing
  \/ \E s \in {"success", "failure"} : <<t, s>> \in completed

AcceptedPlaced == \A t \in Tasks : t \in accepted <=> Placed(t)

\* What a client has to send is all of one request, no task twice, and neither
\* accepted nor dropped yet.
ToSendOnce ==
  /\ \A c \in Clients : \A i \in DOMAIN todo[c] : todo[c][i] \notin accepted \cup dropped
  /\ \A c \in Clients : \A i, j \in DOMAIN todo[c] : todo[c][i] = todo[c][j] => i = j
  /\ \A c, d \in Clients : \A i \in DOMAIN todo[c], j \in DOMAIN todo[d] :
       todo[c][i].request = todo[d][j].request => c = d

TaskInv == Types /\ QueuedOnce /\ HeldOnce /\ OnePlace /\ AcceptedPlaced /\ ToSendOnce

\* How a strategy orders two positions of a request.
Before(s, r, i, j) ==
  CASE s = "breadth"  -> keyDepth[r.keys[i]] <= keyDepth[r.keys[j]]
    [] s = "priority" -> priority(KeysToWarm(r), i) >= priority(KeysToWarm(r), j)
    [] OTHER          -> i <= j

\* The same for two tasks, with the strategies of all requests.
OrderedBy(s, t, u) == Before(s[t.request], t.request, t.i, u.i)

\* The order of the plan, in the queue and in what is still to be sent.
InOrder ==
  /\ \A i, j \in DOMAIN taskQueue :
       i < j /\ taskQueue[i].request = taskQueue[j].request => OrderedBy(strategy, taskQueue[i], taskQueue[j])
  /\ \A c \in Clients : \A i, j \in DOMAIN todo[c] :
       i < j /\ todo[c][i].request = todo[c][j].request => OrderedBy(strategy, todo[c][i], todo[c][j])
  /\ \A i \in DOMAIN taskQueue, c \in Clients : \A j \in DOMAIN todo[c] :
       taskQueue[i].request = todo[c][j].request => OrderedBy(strategy, taskQueue[i], todo[c][j])

\* The positions of a request that were sent, that wait to be sent, and that its
\* plan has.
Sent(r) == {t.i : t \in {t \in accepted \cup dropped : t.request = r}}

Unsent(r) == {t.i : t \in {t \in Tasks : t.request = r /\ \E c \in Clients : \E i \in DOMAIN todo[c] : todo[c][i] = t}}

PlanSize(r) ==
  LET n == Limited(r.limit, Len(r.keys)) IN
  IF strategy[r] = "selective" /\ n > PlanCap THEN PlanCap
  ELSE IF r.api = "WarmKey" THEN Len(r.keys) ELSE n

AllSent ==
  \A r \in Requests : Sent(r) \cup Unsent(r) # {} => Sent(r) \cup Unsent(r) = 1 .. PlanSize(r)

PlanInv == TaskInv /\ InOrder /\ AllSent
-----------------------------------------------------------------------------
(* The plans. *)

\* The keys of a task.
LEMMA TaskShape ==
  /\ \A t \in Tasks : /\ t.request \in Requests /\ t.i \in 1 .. Len(t.request.keys)
                       /\ t = [request |-> t.request, i |-> t.i] /\ TaskKey(t) \in Keys
  /\ \A r \in Requests : \A i \in 1 .. Len(r.keys) : [request |-> r, i |-> i] \in Tasks
<1>1. ASSUME NEW t \in Tasks
      PROVE  \E r \in Requests : \E i \in 1 .. Len(r.keys) : t = [request |-> r, i |-> i]
  BY DEF Tasks
<1>2. ASSUME NEW r \in Requests, NEW i \in 1 .. Len(r.keys)
      PROVE  [request |-> r, i |-> i] \in Tasks
  BY DEF Tasks
<1>3. ASSUME NEW r \in Requests, NEW i \in 1 .. Len(r.keys) PROVE r.keys[i] \in Keys
  BY PoolAssumption, ElementOfSeq
<1>. QED BY <1>1, <1>2, <1>3 DEF TaskKey

\* sort.Slice permutes the positions and leaves no pair in the wrong order.
LEMMA SortsPermute ==
  ASSUME NEW n \in Nat, NEW less, NEW p \in Sorts(n, less)
  PROVE  /\ p \in [1 .. n -> 1 .. n]
         /\ \A i, j \in 1 .. n : p[i] = p[j] => i = j
         /\ \A k \in 1 .. n : \E i \in 1 .. n : p[i] = k
         /\ \A i, j \in 1 .. n : i < j => <<p[j], p[i]>> \notin less
<1>1. IsFiniteSet(1 .. n) /\ Cardinality(1 .. n) = n BY FS_Interval
<1>2. /\ p \in [1 .. n -> 1 .. n]
      /\ \A i, j \in 1 .. n : i # j => p[i] # p[j]
      /\ \A i, j \in 1 .. n : i < j => <<p[j], p[i]>> \notin less
  BY <1>1 DEF Sorts, SetToSeqs
<1>3. p \in Injection(1 .. n, 1 .. n) BY <1>2 DEF Injection, IsInjective
<1>4. p \in Surjection(1 .. n, 1 .. n) BY <1>1, <1>3, FS_Injection
<1>. QED BY <1>2, <1>4 DEF Surjection

\* Cutting a sequence to its own length.
LEMMA WholeSubSeq ==
  ASSUME NEW n \in Nat, NEW S, NEW p \in [1 .. n -> S]
  PROVE  /\ SubSeq(p, 1, n) \in Seq(S) /\ Len(SubSeq(p, 1, n)) = n
         /\ \A i \in 1 .. n : SubSeq(p, 1, n)[i] = p[i]
<1>1. \A i \in 1 .. n : p[i] \in S OBVIOUS
<1>. QED BY <1>1, SubSeqProperties

\* A score is a number: the costs are positive.
LEMMA ScoreIsNumber ==
  ASSUME NEW keys \in Seq(Keys), NEW i \in 1 .. Len(keys)
  PROVE  priority(keys, i) \in Int
<1>1. keys[i] \in Keys BY ElementOfSeq
<1>2. Len(keys) \in Nat \ {0} OBVIOUS
<1>3. estimateFetchCost(keys[i]) \in Nat \ {0}
  <2>1. keyDepth[keys[i]] \in Nat /\ Slowness[keys[i]] \in Nat BY <1>1, PlanAssumption
  <2>. QED BY <2>1, SMTT(30) DEF estimateFetchCost
<1>4. ASSUME NEW n \in Nat \ {0}, NEW c \in Nat \ {0} PROVE n * c \in Nat \ {0}
  BY <1>4
<1>5. ASSUME NEW a \in Int, NEW d \in Nat \ {0} PROVE a \div d \in Int
  OBVIOUS
<1>. DEFINE d == Len(keys) * estimateFetchCost(keys[i])
<1>6. d \in Nat \ {0} BY <1>2, <1>3, <1>4
<1>. HIDE DEF d
<1>7. ASSUME NEW h \in {1, 2} PROVE ((Len(keys) - i + 1) * h * 100) \div d \in Int
  <2>1. (Len(keys) - i + 1) * h * 100 \in Int BY <1>2
  <2>. QED BY <1>5, <1>6, <2>1
<1>. QED BY <1>7 DEF priority, d

\* What the limit leaves of the keys.
LEMMA CutKeys ==
  ASSUME NEW r \in Requests
  PROVE  LET n == Limited(r.limit, Len(r.keys))
             keys == KeysToWarm(r) IN
         /\ n \in Nat \ {0} /\ n <= Len(r.keys)
         /\ keys \in Seq(Keys) /\ Len(keys) = n /\ Limited(r.limit, Len(keys)) = n
         /\ \A i \in 1 .. n : keys[i] = r.keys[i]
<1>. DEFINE n == Limited(r.limit, Len(r.keys))
<1>1. r.keys \in Seq(Keys) /\ r.keys # << >> /\ r.limit \in Int BY PoolAssumption
<1>2. Len(r.keys) \in Nat \ {0} BY <1>1, EmptySeq
<1>3. CASE r.limit > 0 /\ Len(r.keys) > r.limit
  <2>1. \A i \in 1 .. r.limit : r.keys[i] \in Keys BY <1>1, <1>2, <1>3, ElementOfSeq
  <2>2. KeysToWarm(r) = SubSeq(r.keys, 1, r.limit) BY <1>3 DEF KeysToWarm
  <2>3. /\ KeysToWarm(r) \in Seq(Keys) /\ Len(KeysToWarm(r)) = r.limit
        /\ \A i \in 1 .. r.limit : KeysToWarm(r)[i] = r.keys[i]
    BY <1>1, <1>3, <2>1, <2>2, SubSeqProperties
  <2>. QED BY <1>1, <1>2, <1>3, <2>3 DEF Limited
<1>4. CASE ~(r.limit > 0 /\ Len(r.keys) > r.limit)
  <2>1. KeysToWarm(r) = r.keys BY <1>4 DEF KeysToWarm
  <2>. QED BY <1>1, <1>2, <1>4, <2>1 DEF Limited
<1>. QED BY <1>3, <1>4

\* How many tasks a strategy plans for a request.
Size(s, r) ==
  LET n == Limited(r.limit, Len(r.keys)) IN
  IF s = "selective" /\ n > PlanCap THEN PlanCap ELSE n

\* A plan has each position up to its size once, in the order of its strategy.
LEMMA PlanShape ==
  ASSUME NEW r \in Requests, NEW s \in Strategies,
         NEW plan \in Plans(s, KeysToWarm(r), r.limit)
  PROVE  /\ Size(s, r) \in Nat /\ Size(s, r) <= Len(r.keys)
         /\ plan \in [1 .. Size(s, r) -> 1 .. Size(s, r)]
         /\ \A i, j \in 1 .. Size(s, r) : plan[i] = plan[j] => i = j
         /\ \A k \in 1 .. Size(s, r) : \E i \in 1 .. Size(s, r) : plan[i] = k
         /\ \A i, j \in 1 .. Size(s, r) : i < j => Before(s, r, plan[i], plan[j])
<1>. DEFINE n == Limited(r.limit, Len(r.keys))
            keys == KeysToWarm(r)
<1>1. /\ n \in Nat \ {0} /\ n <= Len(r.keys)
      /\ keys \in Seq(Keys) /\ Len(keys) = n /\ Limited(r.limit, Len(keys)) = n
      /\ \A i \in 1 .. n : keys[i] = r.keys[i]
  BY CutKeys
<1>2. Len(r.keys) \in Nat BY PoolAssumption
<1>. HIDE DEF n, keys
<1>3. CASE s = "selective"
  <2>1. Size(s, r) = IF n > PlanCap THEN PlanCap ELSE n BY <1>3 DEF Size, n
  <2>2. plan = [i \in 1 .. Size(s, r) |-> i] BY <1>1, <1>3, <2>1 DEF Plans, SelectivePlans, keys
  <2>3. Size(s, r) \in Nat /\ Size(s, r) <= Len(r.keys) BY <1>1, <1>2, <2>1, PlanAssumption
  <2>. HIDE DEF Size
  <2>. QED BY <1>3, <2>2, <2>3 DEF Before
<1>4. ASSUME NEW less, NEW p \in Sorts(n, less), plan = SubSeq(p, 1, n)
      PROVE  /\ plan \in [1 .. n -> 1 .. n]
             /\ \A i, j \in 1 .. n : plan[i] = plan[j] => i = j
             /\ \A k \in 1 .. n : \E i \in 1 .. n : plan[i] = k
             /\ \A i, j \in 1 .. n : i < j => <<plan[j], plan[i]>> \notin less
  <2>1. /\ p \in [1 .. n -> 1 .. n]
        /\ \A i, j \in 1 .. n : p[i] = p[j] => i = j
        /\ \A k \in 1 .. n : \E i \in 1 .. n : p[i] = k
        /\ \A i, j \in 1 .. n : i < j => <<p[j], p[i]>> \notin less
    BY <1>1, SortsPermute
  <2>2. /\ plan \in Seq(1 .. n) /\ Len(plan) = n
        /\ \A i \in 1 .. n : plan[i] = p[i]
    <3>. DEFINE D == 1 .. n
    <3>1. n \in Nat /\ p \in [1 .. n -> D] BY <1>1, <2>1
    <3>. HIDE DEF D
    <3>2. SubSeq(p, 1, n) \in Seq(D) /\ Len(SubSeq(p, 1, n)) = n
      BY <3>1, WholeSubSeq
    <3>3. \A i \in 1 .. n : SubSeq(p, 1, n)[i] = p[i] BY <3>1, WholeSubSeq
    <3>. QED BY <1>4, <3>2, <3>3 DEF D
  <2>3. plan \in [1 .. n -> 1 .. n] BY <2>2, LenProperties
  <2>. QED BY <1>1, <2>1, <2>2, <2>3
<1>5. CASE s = "breadth"
  <2>. DEFINE less == {q \in (DOMAIN keys) \X (DOMAIN keys) : Shallower(keys, q[1], q[2])}
  <2>1. Size(s, r) = n BY <1>5 DEF Size, n
  <2>2. PICK p \in Sorts(n, less) : plan = SubSeq(p, 1, n)
    BY <1>1, <1>5 DEF Plans, BreadthPlans, keys
  <2>3. DOMAIN keys = 1 .. n BY <1>1
  <2>4. /\ plan \in [1 .. n -> 1 .. n]
        /\ \A i, j \in 1 .. n : plan[i] = plan[j] => i = j
        /\ \A k \in 1 .. n : \E i \in 1 .. n : plan[i] = k
        /\ \A i, j \in 1 .. n : i < j => <<plan[j], plan[i]>> \notin less
    BY <1>4, <2>2
  <2>5. ASSUME NEW i \in 1 .. n, NEW j \in 1 .. n, i < j
        PROVE  Before(s, r, plan[i], plan[j])
    <3>1. ~Shallower(keys, plan[j], plan[i]) BY <2>3, <2>4, <2>5
    <3>2. keyDepth[keys[plan[i]]] \in Nat /\ keyDepth[keys[plan[j]]] \in Nat
      BY <1>1, <2>4, ElementOfSeq, PlanAssumption
    <3>3. keyDepth[keys[plan[i]]] <= keyDepth[keys[plan[j]]] BY <3>1, <3>2 DEF Shallower
    <3>. QED BY <1>1, <1>5, <2>4, <3>3 DEF Before
  <2>. QED BY <1>1, <1>2, <2>1, <2>4, <2>5
<1>6. CASE s = "priority"
  <2>. DEFINE less == {q \in (DOMAIN keys) \X (DOMAIN keys) :
                        priority(keys, q[1]) > priority(keys, q[2])}
  <2>1. Size(s, r) = n BY <1>6 DEF Size, n
  <2>2. PICK p \in Sorts(n, less) : plan = SubSeq(p, 1, n)
    BY <1>1, <1>6 DEF Plans, PriorityPlans, keys
  <2>3. DOMAIN keys = 1 .. n BY <1>1
  <2>4. /\ plan \in [1 .. n -> 1 .. n]
        /\ \A i, j \in 1 .. n : plan[i] = plan[j] => i = j
        /\ \A k \in 1 .. n : \E i \in 1 .. n : plan[i] = k
        /\ \A i, j \in 1 .. n : i < j => <<plan[j], plan[i]>> \notin less
    BY <1>4, <2>2
  <2>5. ASSUME NEW i \in 1 .. n, NEW j \in 1 .. n, i < j
        PROVE  Before(s, r, plan[i], plan[j])
    <3>1. ~(priority(keys, plan[j]) > priority(keys, plan[i])) BY <2>3, <2>4, <2>5
    <3>2. priority(keys, plan[i]) \in Int /\ priority(keys, plan[j]) \in Int
      BY <1>1, <2>4, ScoreIsNumber
    <3>3. priority(keys, plan[i]) >= priority(keys, plan[j]) BY <3>1, <3>2
    <3>. QED BY <1>6, <3>3 DEF Before, keys
  <2>. QED BY <1>1, <1>2, <2>1, <2>4, <2>5
<1>. QED BY <1>3, <1>5, <1>6 DEF Strategies

-----------------------------------------------------------------------------
(* Types. *)

\* The pool begins empty.
LEMMA TypesInit ==
  ASSUME Init
  PROVE  Types
<1>1. taskQueue \in Seq(Tasks) /\ todo \in [Clients -> Seq(Tasks)] BY EmptySeq DEF Init
<1>2. pc \in [Workers -> Steps] /\ \A w \in Workers : pc[w] = "idle" BY DEF Init, Steps
<1>3. /\ strategy \in [Requests -> Strategies \cup {None}] /\ defaultStrategy \in Strategies
      /\ \A r \in Requests : r.api = "WarmKey" => strategy[r] = None
  BY DEF Init, Strategies
<1>4. task \in [Workers -> Tasks \cup {None}] BY DEF Init
<1>5. /\ emergencyStop \in BOOLEAN /\ lateFetches \in Nat /\ publishing \subseteq Tasks
      /\ completed \subseteq Tasks \X {"success", "failure"}
      /\ accepted \subseteq Tasks /\ dropped \subseteq Tasks
  BY DEF Init
<1>. QED BY <1>1, <1>2, <1>3, <1>4, <1>5 DEF Types

\* The tasks of a plan.
LEMMA ToSendShape ==
  ASSUME NEW r \in Requests, NEW m \in Nat, m <= Len(r.keys), NEW plan \in [1 .. m -> 1 .. m]
  PROVE  /\ ToSend(r, plan) \in Seq(Tasks) /\ DOMAIN ToSend(r, plan) = 1 .. m
         /\ \A i \in 1 .. m : ToSend(r, plan)[i] = [request |-> r, i |-> plan[i]]
<1>1. Len(r.keys) \in Nat BY PoolAssumption
<1>2. \A i \in 1 .. m : [request |-> r, i |-> plan[i]] \in Tasks BY <1>1, TaskShape
<1>3. ToSend(r, plan) = [i \in 1 .. m |-> [request |-> r, i |-> plan[i]]] BY DEF ToSend
<1>4. ToSend(r, plan) \in [1 .. m -> Tasks] BY <1>2, <1>3
<1>5. ToSend(r, plan) \in Seq(Tasks) BY <1>4
<1>. QED BY <1>3, <1>5

\* What a request gives a client to send: the positions up to the size of its plan,
\* each once, in the order of the strategy that strategy' records.
Planned(c, r, m) ==
  /\ New(r) /\ todo[c] = <<>> /\ m \in Nat /\ m <= Len(r.keys)
  /\ \E plan \in [1 .. m -> 1 .. m] :
       /\ \A i, j \in 1 .. m : plan[i] = plan[j] => i = j
       /\ \A k \in 1 .. m : \E i \in 1 .. m : plan[i] = k
       /\ \A i, j \in 1 .. m : i < j => Before(strategy'[r], r, plan[i], plan[j])
       /\ todo' = [todo EXCEPT ![c] = ToSend(r, plan)]
  /\ defaultStrategy' = defaultStrategy /\ Requesting

\* WarmKey and WarmPattern plan.
LEMMA WarmKeyPlans ==
  ASSUME Types, NEW c \in Clients, NEW r \in Requests, WarmKey(c, r)
  PROVE  Planned(c, r, Len(r.keys)) /\ strategy' = strategy /\ strategy[r] = None
<1>. DEFINE plan == [i \in DOMAIN r.keys |-> i]
<1>1. Len(r.keys) \in Nat /\ DOMAIN r.keys = 1 .. Len(r.keys) BY PoolAssumption
<1>2. strategy[r] = None /\ strategy' = strategy BY DEF WarmKey, Types
<1>3. None \notin {"breadth", "priority"} BY PoolAssumption DEF Strategies
<1>4. plan \in [1 .. Len(r.keys) -> 1 .. Len(r.keys)] BY <1>1
<1>5. \A i, j \in 1 .. Len(r.keys) : i < j => Before(strategy'[r], r, plan[i], plan[j])
  BY <1>1, <1>2, <1>3 DEF Before
<1>6. \A i, j \in 1 .. Len(r.keys) : plan[i] = plan[j] => i = j BY <1>1
<1>7. \A k \in 1 .. Len(r.keys) : \E i \in 1 .. Len(r.keys) : plan[i] = k BY <1>1
<1>8. todo' = [todo EXCEPT ![c] = ToSend(r, plan)] BY DEF WarmKey
<1>. HIDE DEF plan
<1>9. New(r) /\ todo[c] = <<>> /\ defaultStrategy' = defaultStrategy /\ Requesting
  BY DEF WarmKey
<1>10. Len(r.keys) <= Len(r.keys) BY <1>1
<1>11. Planned(c, r, Len(r.keys)) BY <1>1, <1>4, <1>5, <1>6, <1>7, <1>8, <1>9, <1>10 DEF Planned
<1>. QED BY <1>2, <1>11

\* The default strategy is read when the request is planned.
LEMMA WarmPatternPlans ==
  ASSUME Types, NEW c \in Clients, NEW r \in Requests, WarmPattern(c, r)
  PROVE  \E s \in Strategies :
           Planned(c, r, Size(s, r)) /\ strategy' = [strategy EXCEPT ![r] = s]
<1>. DEFINE s == IF r.strategy = None THEN defaultStrategy ELSE r.strategy
<1>1. s \in Strategies BY PoolAssumption DEF Types
<1>2. strategy' = [strategy EXCEPT ![r] = s] BY DEF WarmPattern
<1>3. PICK plan \in Plans(s, KeysToWarm(r), r.limit) :
        todo' = [todo EXCEPT ![c] = ToSend(r, plan)]
  BY DEF WarmPattern
<1>. HIDE DEF s
<1>4. strategy'[r] = s BY <1>2 DEF Types
<1>5. /\ Size(s, r) \in Nat /\ Size(s, r) <= Len(r.keys)
      /\ plan \in [1 .. Size(s, r) -> 1 .. Size(s, r)]
      /\ \A i, j \in 1 .. Size(s, r) : plan[i] = plan[j] => i = j
      /\ \A k \in 1 .. Size(s, r) : \E i \in 1 .. Size(s, r) : plan[i] = k
      /\ \A i, j \in 1 .. Size(s, r) : i < j => Before(strategy'[r], r, plan[i], plan[j])
  BY <1>1, <1>4, PlanShape
<1>6. New(r) /\ todo[c] = <<>> /\ defaultStrategy' = defaultStrategy /\ Requesting
  BY DEF WarmPattern
<1>7. Planned(c, r, Size(s, r)) BY <1>3, <1>5, <1>6 DEF Planned
<1>. QED BY <1>1, <1>2, <1>7

\* A worker that moves between two steps with its task.
LEMMA TypesMove ==
  ASSUME Types, pc' \in [Workers -> Steps],
         \A w \in Workers : pc'[w] \notin {"idle", "stopped"} => pc[w] \notin {"idle", "stopped"},
         publishing' \subseteq Tasks, completed' \subseteq Tasks \X {"success", "failure"},
         emergencyStop' \in BOOLEAN, lateFetches' \in Nat,
         UNCHANGED <<taskQueue, requestVars, task, accepted, dropped>>
  PROVE  Types'
BY DEF Types, requestVars

\* The workers that share an execution.
LEMMA SharersAreBusy ==
  ASSUME NEW w \in Workers, pc[w] \in Steps \ {"idle", "stopped", "finish"}
  PROVE  Sharers(w) \subseteq Busy
BY DEF Sharers, Busy

\* Steps of the workers in which no task changes its place.
Stays ==
  /\ UNCHANGED <<taskQueue, requestVars, publishing, completed, accepted, dropped>>
  /\ Busy' = Busy /\ \A v \in Busy : task'[v] = task[v]

\* An execution fails and is tried again by all who share it.
LEMMA FailStays ==
  ASSUME Types, NEW w \in Workers, pc[w] \in {"limit", "fetch", "check", "write"}, Fail(w),
         UNCHANGED <<taskQueue, requestVars, task, completed, accepted, dropped>>,
         emergencyStop' \in BOOLEAN, lateFetches' \in Nat
  PROVE  Types' /\ Stays /\ Decided' \subseteq Decided
<1>1. pc' = [v \in Workers |-> IF v \in Sharers(w) THEN "failed" ELSE pc[v]] /\ publishing' = publishing
  BY DEF Fail
<1>2. \A v \in Workers : v \in Sharers(w) =>
        pc[v] \in {"wait", "limit", "fetch", "check", "write"}
  BY DEF Sharers
<1>3. pc' \in [Workers -> Steps] BY <1>1 DEF Types, Steps
<1>4. Types' BY <1>1, <1>2, <1>3, TypesMove DEF Types
<1>5. Busy' = Busy BY <1>1, <1>2 DEF Busy
<1>6. Decided' \subseteq Decided BY <1>1 DEF Decided
<1>. QED BY <1>1, <1>4, <1>5, <1>6 DEF Stays

\* A worker goes on with the task it has, or stops without one.
LEMMA GotoStays ==
  ASSUME Types, NEW w \in Workers, NEW step \in Steps, Goto(w, step),
         (pc[w] \in {"idle", "stopped", "finish"}) <=> (step \in {"idle", "stopped", "finish"}),
         step \notin {"idle", "stopped"} => pc[w] \notin {"idle", "stopped"},
         UNCHANGED <<taskQueue, requestVars, publishing, completed, accepted, dropped>>,
         \/ task' = task
         \/ step = "idle" /\ task' = [task EXCEPT ![w] = None],
         emergencyStop' \in BOOLEAN, lateFetches' \in Nat
  PROVE  Types' /\ Stays
<1>1. pc' = [pc EXCEPT ![w] = step] /\ pc \in [Workers -> Steps] BY DEF Goto, Types
<1>2. pc' \in [Workers -> Steps] BY <1>1
<1>3. Busy' = Busy BY <1>1 DEF Busy
<1>4. task' \in [Workers -> Tasks \cup {None}] BY DEF Types
<1>5. \A v \in Workers : pc'[v] \notin {"idle", "stopped"} => task'[v] \in Tasks
  BY <1>1 DEF Types
<1>6. \A v \in Busy : task'[v] = task[v] BY <1>1, <1>3 DEF Busy, Types
<1>7. Types' BY <1>2, <1>4, <1>5 DEF Types, requestVars
<1>. QED BY <1>3, <1>6, <1>7 DEF Stays

\* A success: all who shared the execution are done, and their tasks are published.
Succeeds(w) ==
  /\ Sharers(w) \subseteq Busy /\ Busy' = Busy \ Sharers(w) /\ task' = task
  /\ publishing' = publishing \cup {task[v] : v \in Sharers(w)}
  /\ UNCHANGED <<taskQueue, requestVars, completed, accepted, dropped>>

\* The last failure of a task is final.
GivesUp(w) ==
  /\ w \in Busy /\ Busy' = Busy \ {w} /\ task' = task
  /\ completed' = completed \cup {<<task[w], "failure">>}
  /\ UNCHANGED <<taskQueue, requestVars, publishing, accepted, dropped>>

\* A worker takes the first task of the queue.
Takes(w) ==
  /\ taskQueue # <<>> /\ taskQueue' = Tail(taskQueue)
  /\ w \in Workers \ Busy /\ Busy' = Busy \cup {w}
  /\ task' = [task EXCEPT ![w] = Head(taskQueue)]
  /\ UNCHANGED <<requestVars, publishing, completed, accepted, dropped>>

\* What the steps of a worker do to the tasks.
LEMMA WorkMoves ==
  ASSUME Types, NEW w \in Workers, Work(w) \/ Stop(w)
  PROVE  Types' /\ (Stays \/ Succeeds(w) \/ GivesUp(w) \/ Takes(w))
<1>. USE DEF requestVars
<1>0. emergencyStop \in BOOLEAN /\ lateFetches \in Nat /\ pc \in [Workers -> Steps] BY DEF Types
<1>1. CASE Take(w)
  <2>1. Head(taskQueue) \in Tasks /\ Tail(taskQueue) \in Seq(Tasks)
    BY <1>1, HeadTailProperties DEF Take, Types
  <2>2. pc' = [pc EXCEPT ![w] = "execute"] /\ pc' \in [Workers -> Steps]
    BY <1>0, <1>1 DEF Take, Goto, Steps
  <2>3. /\ task' \in [Workers -> Tasks \cup {None}]
        /\ \A v \in Workers : pc'[v] \notin {"idle", "stopped"} => task'[v] \in Tasks
    BY <1>0, <1>1, <2>1, <2>2 DEF Take, Types
  <2>4. Types' BY <1>1, <2>1, <2>2, <2>3 DEF Take, Types
  <2>5. w \in Workers \ Busy /\ Busy' = Busy \cup {w} BY <1>0, <1>1, <2>2 DEF Take, Busy
  <2>6. /\ taskQueue # <<>> /\ taskQueue' = Tail(taskQueue)
        /\ task' = [task EXCEPT ![w] = Head(taskQueue)]
        /\ UNCHANGED <<requestVars, publishing, completed, accepted, dropped>>
    BY <1>1 DEF Take
  <2>. QED BY <2>4, <2>5, <2>6 DEF Takes
<1>2. CASE Stop(w) \/ Execute(w) \/ Do(w) \/ FinishTask(w)
  <2>1. /\ task' = task \/ (pc[w] = "finish" /\ task' = [task EXCEPT ![w] = None])
        /\ \/ pc[w] = "idle" /\ Goto(w, "stopped") /\ task' = task
           \/ pc[w] = "finish" /\ Goto(w, "idle")
           \/ pc[w] \in {"execute", "do"} /\ task' = task
              /\ \E step \in {"failed", "do", "wait", "limit"} : Goto(w, step)
    <3>1. CASE Stop(w) BY <3>1 DEF Stop
    <3>2. CASE Execute(w) BY <3>2 DEF Execute
    <3>3. CASE Do(w) BY <3>3 DEF Do
    <3>4. CASE FinishTask(w) BY <3>4 DEF FinishTask
    <3>. QED BY <1>2, <3>1, <3>2, <3>3, <3>4
  <2>2. UNCHANGED <<taskQueue, requestVars, publishing, completed, accepted, dropped,
                    emergencyStop, lateFetches>>
    BY <1>2 DEF Stop, Execute, Do, FinishTask
  <2>. QED BY <1>0, <2>1, <2>2, GotoStays DEF Steps
<1>3. CASE Limit(w) \/ Fetch(w) \/ CheckLatency(w)
  <2>1. /\ UNCHANGED <<taskQueue, requestVars, task, completed, accepted, dropped>>
        /\ pc[w] \in {"limit", "fetch", "check"}
        /\ emergencyStop' \in BOOLEAN /\ lateFetches' \in Nat
    <3>1. CASE Limit(w)
      <4>1. lateFetches' = lateFetches + 1 \/ lateFetches' = lateFetches BY <3>1 DEF Limit
      <4>2. /\ UNCHANGED <<taskQueue, requestVars, task, completed, accepted, dropped, emergencyStop>>
            /\ pc[w] = "limit"
        BY <3>1 DEF Limit
      <4>. QED BY <1>0, <4>1, <4>2
    <3>2. CASE Fetch(w) BY <1>0, <3>2 DEF Fetch
    <3>3. CASE CheckLatency(w)
      <4>1. emergencyStop' = TRUE \/ emergencyStop' = emergencyStop BY <3>3, Zenon DEF CheckLatency
      <4>2. emergencyStop' \in BOOLEAN BY <1>0, <4>1, Zenon
      <4>3. /\ UNCHANGED <<taskQueue, requestVars, task, completed, accepted, dropped, lateFetches>>
            /\ pc[w] = "check"
        BY <3>3 DEF CheckLatency
      <4>. QED BY <1>0, <4>2, <4>3
    <3>. QED BY <1>3, <3>1, <3>2, <3>3
  <2>2. \/ Fail(w)
        \/ publishing' = publishing /\ \E step \in {"fetch", "check", "write"} : Goto(w, step)
    BY <1>3 DEF Limit, Fetch, CheckLatency
  <2>3. CASE Fail(w) BY <2>1, <2>3, FailStays
  <2>4. CASE publishing' = publishing /\ \E step \in {"fetch", "check", "write"} : Goto(w, step)
    <3>1. PICK step \in {"fetch", "check", "write"} : Goto(w, step) BY <2>4
    <3>. QED BY <2>1, <2>4, <3>1, GotoStays DEF Steps
  <2>. QED BY <2>2, <2>3, <2>4
<1>4. CASE Write(w)
  <2>1. /\ UNCHANGED <<taskQueue, requestVars, task, completed, accepted, dropped,
                       emergencyStop, lateFetches>>
        /\ pc[w] = "write" /\ (Fail(w) \/ Succeed(w))
    BY <1>4 DEF Write
  <2>2. CASE Fail(w) BY <1>0, <2>1, <2>2, FailStays
  <2>3. CASE Succeed(w)
    <3>1. /\ pc' = [v \in Workers |-> IF v \in Sharers(w) THEN "finish" ELSE pc[v]]
          /\ publishing' = publishing \cup {task[v] : v \in Sharers(w)}
      BY <2>3 DEF Succeed
    <3>2. \A v \in Sharers(w) : v \in Workers /\ pc[v] \in {"wait", "write"} BY <2>1 DEF Sharers
    <3>3. publishing' \subseteq Tasks BY <3>1, <3>2 DEF Types
    <3>4. pc' \in [Workers -> Steps] BY <1>0, <3>1 DEF Steps
    <3>5. \A v \in Workers : pc'[v] \notin {"idle", "stopped"} => pc[v] \notin {"idle", "stopped"}
      BY <3>1, <3>2
    <3>6. Types' BY <1>0, <2>1, <3>3, <3>4, <3>5, TypesMove DEF Types
    <3>7. Sharers(w) \subseteq Busy /\ Busy' = Busy \ Sharers(w) BY <3>1, <3>2 DEF Busy
    <3>. QED BY <2>1, <3>1, <3>6, <3>7 DEF Succeeds
  <2>. QED BY <2>1, <2>2, <2>3
<1>5. CASE RetryTask(w)
  <2>1. CASE attempt[w] < RetryAttempts
    <3>1. /\ UNCHANGED <<taskQueue, requestVars, task, completed, accepted, dropped, publishing,
                         emergencyStop, lateFetches>>
          /\ pc[w] = "failed" /\ Goto(w, "execute")
      BY <1>5, <2>1 DEF RetryTask
    <3>. QED BY <1>0, <3>1, GotoStays DEF Steps
  <2>2. CASE ~(attempt[w] < RetryAttempts)
    <3>1. /\ UNCHANGED <<taskQueue, requestVars, task, accepted, dropped, publishing,
                         emergencyStop, lateFetches>>
          /\ pc[w] = "failed" /\ pc' = [pc EXCEPT ![w] = "finish"]
          /\ completed' = completed \cup {<<task[w], "failure">>}
      BY <1>5, <2>2 DEF RetryTask, Goto
    <3>2. pc' \in [Workers -> Steps] BY <1>0, <3>1 DEF Steps
    <3>3. task[w] \in Tasks BY <3>1 DEF Types
    <3>4. completed' \subseteq Tasks \X {"success", "failure"} BY <3>1, <3>3 DEF Types
    <3>5. Types' BY <1>0, <3>1, <3>2, <3>4, TypesMove DEF Types
    <3>6. w \in Busy /\ Busy' = Busy \ {w} BY <1>0, <3>1 DEF Busy
    <3>. QED BY <3>1, <3>5, <3>6 DEF GivesUp
  <2>. QED BY <2>1, <2>2
<1>. QED BY <1>1, <1>2, <1>3, <1>4, <1>5 DEF Work

\* Requests, and what becomes of a planned task.
LEMMA TypesRequests ==
  ASSUME Types,
         \/ \E c \in Clients, r \in Requests : WarmKey(c, r) \/ WarmPattern(c, r)
         \/ \E c \in Clients : QueueTasks(c)
         \/ \E s \in Strategies : UpdateConfig(s)
         \/ PublishWarmCompletion \/ Shutdown \/ UNCHANGED vars
  PROVE  Types'
<1>. USE DEF requestVars
<1>1. ASSUME NEW c \in Clients, NEW r \in Requests, NEW m, Planned(c, r, m),
             strategy' \in [Requests -> Strategies \cup {None}],
             \A q \in Requests : q.api = "WarmKey" => strategy'[q] = None
      PROVE  Types'
  <2>1. PICK plan \in [1 .. m -> 1 .. m] : todo' = [todo EXCEPT ![c] = ToSend(r, plan)]
    BY <1>1 DEF Planned
  <2>2. ToSend(r, plan) \in Seq(Tasks) BY <1>1, ToSendShape DEF Planned
  <2>3. todo' \in [Clients -> Seq(Tasks)] BY <2>1, <2>2 DEF Types
  <2>. QED BY <1>1, <2>3 DEF Types, Planned, Requesting
<1>2. ASSUME NEW c \in Clients, NEW r \in Requests, WarmKey(c, r) PROVE Types'
  BY <1>1, <1>2, WarmKeyPlans DEF Types
<1>3. ASSUME NEW c \in Clients, NEW r \in Requests, WarmPattern(c, r) PROVE Types'
  <2>1. PICK s \in Strategies :
          Planned(c, r, Size(s, r)) /\ strategy' = [strategy EXCEPT ![r] = s]
    BY <1>3, WarmPatternPlans
  <2>2. r.api = "WarmPattern" BY <1>3 DEF WarmPattern
  <2>. QED BY <1>1, <2>1, <2>2 DEF Types
<1>4. ASSUME NEW c \in Clients, QueueTasks(c) PROVE Types'
  <2>1. todo[c] \in Seq(Tasks) /\ todo[c] # <<>> BY <1>4 DEF QueueTasks, Types
  <2>2. Head(todo[c]) \in Tasks /\ Tail(todo[c]) \in Seq(Tasks) BY <2>1, HeadTailProperties
  <2>3. todo' \in [Clients -> Seq(Tasks)] BY <1>4, <2>2 DEF QueueTasks, Types
  <2>4. CASE Len(taskQueue) < QueueSize
    <3>1. /\ taskQueue' = Append(taskQueue, Head(todo[c]))
          /\ accepted' = accepted \cup {Head(todo[c])} /\ dropped' = dropped
      BY <1>4, <2>4 DEF QueueTasks
    <3>2. taskQueue' \in Seq(Tasks) /\ accepted' \subseteq Tasks /\ dropped' \subseteq Tasks
      BY <2>2, <3>1, AppendProperties DEF Types
    <3>. QED BY <1>4, <2>3, <3>2 DEF QueueTasks, Types
  <2>5. CASE ~(Len(taskQueue) < QueueSize)
    <3>1. taskQueue' \in Seq(Tasks) /\ accepted' \subseteq Tasks /\ dropped' \subseteq Tasks
      BY <1>4, <2>2, <2>5 DEF QueueTasks, Types
    <3>. QED BY <1>4, <2>3, <3>1 DEF QueueTasks, Types
  <2>. QED BY <2>4, <2>5
<1>5. ASSUME NEW s \in Strategies, UpdateConfig(s) PROVE Types'
  BY <1>5 DEF UpdateConfig, Requesting, Types
<1>6. CASE PublishWarmCompletion
  <2>1. PICK t \in publishing : /\ publishing' = publishing \ {t}
                                /\ completed' = completed \cup {<<t, "success">>}
    BY <1>6 DEF PublishWarmCompletion
  <2>2. publishing' \subseteq Tasks /\ completed' \subseteq Tasks \X {"success", "failure"}
    BY <2>1 DEF Types
  <2>. QED BY <1>6, <2>2 DEF PublishWarmCompletion, Types
<1>7. CASE Shutdown \/ UNCHANGED vars BY <1>7 DEF Shutdown, vars, Types
<1>. QED BY <1>2, <1>3, <1>4, <1>5, <1>6, <1>7

\* Types are kept.
LEMMA TypesStep ==
  ASSUME Types, [Next]_vars
  PROVE  Types'
BY WorkMoves, TypesRequests DEF Next

-----------------------------------------------------------------------------
(* Successes are in the cache. *)

(***************************************************************************)
(* A task whose success is published, by its own execution or by one it    *)
(* joined, has its key in the cache.                                       *)
(***************************************************************************)
THEOREM SuccessesAreCached == Spec => []WarmedBeforeSuccess
<1>1. Init => Types /\ WarmedBeforeSuccess
  <2>1. Init => WarmedBeforeSuccess BY DEF Init, WarmedBeforeSuccess
  <2>. QED BY <2>1, TypesInit
<1>2. Types /\ WarmedBeforeSuccess /\ [Next]_vars => Types' /\ WarmedBeforeSuccess'
  <2>. SUFFICES ASSUME Types, WarmedBeforeSuccess, [Next]_vars PROVE WarmedBeforeSuccess'
    BY TypesStep
  <2>1. ASSUME NEW w \in Workers, Write(w), Succeed(w), cached' = cached \cup {TaskKey(task[w])}
        PROVE  WarmedBeforeSuccess'
    <3>1. /\ publishing' = publishing \cup {task[v] : v \in Sharers(w)}
          /\ completed' = completed
      BY <2>1 DEF Succeed, Write
    <3>2. \A v \in Sharers(w) : TaskKey(task[v]) \in cached' BY <2>1 DEF Sharers
    <3>. QED BY <2>1, <3>1, <3>2 DEF WarmedBeforeSuccess
  <2>2. CASE PublishWarmCompletion
    BY <2>2 DEF PublishWarmCompletion, WarmedBeforeSuccess
  <2>3. ASSUME UNCHANGED <<publishing, cached>>,
               completed' = completed \/ \E w \in Workers : completed' = completed \cup {<<task[w], "failure">>}
        PROVE  WarmedBeforeSuccess'
    BY <2>3 DEF WarmedBeforeSuccess
  <2>4. ASSUME NEW w \in Workers, Work(w) \/ Stop(w) PROVE WarmedBeforeSuccess'
    <3>1. CASE Write(w)
      <4>1. CASE UNCHANGED cached /\ Fail(w)
        BY <2>3, <3>1, <4>1 DEF Write, Fail
      <4>. QED BY <2>1, <3>1, <4>1 DEF Write
    <3>2. CASE RetryTask(w) BY <2>3, <3>2 DEF RetryTask
    <3>3. CASE Take(w) \/ Execute(w) \/ Do(w) \/ FinishTask(w) \/ Stop(w)
      BY <2>3, <3>3 DEF Take, Execute, Do, FinishTask, Stop
    <3>4. CASE Limit(w) \/ Fetch(w) \/ CheckLatency(w)
      BY <2>3, <3>4 DEF Limit, Fetch, CheckLatency, Fail
    <3>. QED BY <2>4, <3>1, <3>2, <3>3, <3>4 DEF Work
  <2>5. ASSUME \/ \E c \in Clients : QueueTasks(c)
               \/ \E c \in Clients, r \in Requests : WarmKey(c, r) \/ WarmPattern(c, r)
               \/ \E s \in Strategies : UpdateConfig(s)
               \/ Shutdown \/ UNCHANGED vars
        PROVE  WarmedBeforeSuccess'
    <3>1. UNCHANGED <<publishing, cached, completed>>
      BY <2>5 DEF QueueTasks, WarmKey, WarmPattern, UpdateConfig, Requesting, Shutdown, vars
    <3>. QED BY <2>3, <3>1
  <2>. QED BY <2>2, <2>4, <2>5 DEF Next
<1>. QED BY <1>1, <1>2, PTL DEF Spec

-----------------------------------------------------------------------------
(* The emergency stop. *)

\* Sets of workers are finite, and smaller ones have fewer workers.
LEMMA WorkerSets ==
  ASSUME NEW A \in SUBSET Workers, NEW B \in SUBSET A
  PROVE  /\ IsFiniteSet(A) /\ Cardinality(A) \in Nat /\ Cardinality(B) \in Nat
         /\ Cardinality(B) <= Cardinality(A)
<1>1. IsFiniteSet(A) BY PoolAssumption, FS_Subset
<1>2. IsFiniteSet(B) /\ Cardinality(B) <= Cardinality(A) BY <1>1, FS_Subset
<1>. QED BY <1>1, <1>2, FS_CardinalityType

\* Nothing more is decided, and nothing more is fetched late.
LEMMA FewStays ==
  ASSUME Types, FewDecided, UNCHANGED <<emergencyStop, lateFetches>>,
         emergencyStop => Decided' \subseteq Decided
  PROVE  FewDecided'
<1>1. CASE ~emergencyStop BY <1>1 DEF FewDecided
<1>2. CASE emergencyStop
  <2>1. Decided \subseteq Workers /\ Decided' \subseteq Decided BY <1>2 DEF Decided
  <2>. DEFINE D == Decided
              E == Decided'
  <2>2. Cardinality(D) \in Nat /\ Cardinality(E) \in Nat /\ Cardinality(E) <= Cardinality(D)
    BY <2>1, WorkerSets
  <2>3. Cardinality(Workers) \in Nat BY WorkerSets
  <2>4. lateFetches + Cardinality(D) <= Cardinality(Workers) - 1 BY <1>2 DEF FewDecided
  <2>. HIDE DEF D, E
  <2>5. lateFetches \in Nat BY DEF Types
  <2>6. lateFetches + Cardinality(E) <= Cardinality(Workers) - 1 BY <2>2, <2>3, <2>4, <2>5
  <2>. QED BY <1>2, <2>6 DEF FewDecided, E
<1>. QED BY <1>1, <1>2

\* A worker that had decided starts its fetch.
LEMMA FewLimit ==
  ASSUME Types, FewDecided, NEW w \in Workers, Limit(w)
  PROVE  FewDecided'
<1>1. CASE Fail(w) /\ UNCHANGED lateFetches
  <2>1. UNCHANGED <<emergencyStop, lateFetches>> BY <1>1 DEF Limit
  <2>2. Decided' \subseteq Decided BY <1>1 DEF Fail, Decided
  <2>. QED BY <2>1, <2>2, FewStays
<1>2. CASE Goto(w, "fetch") /\ lateFetches' = IF emergencyStop THEN lateFetches + 1 ELSE lateFetches
  <2>1. pc[w] = "limit" /\ pc' = [pc EXCEPT ![w] = "fetch"] /\ UNCHANGED emergencyStop
    BY <1>2 DEF Limit, Goto
  <2>2. Decided' = Decided \ {w} /\ w \in Decided /\ Decided \subseteq Workers
    BY <2>1 DEF Decided, Types
  <2>3. CASE ~emergencyStop BY <1>2, <2>1, <2>3 DEF FewDecided
  <2>4. CASE emergencyStop
    <3>. DEFINE D == Decided
    <3>1. lateFetches' = lateFetches + 1 BY <1>2, <2>4
    <3>2. lateFetches + Cardinality(D) <= Cardinality(Workers) - 1 BY <2>4 DEF FewDecided
    <3>. HIDE DEF D
    <3>3. IsFiniteSet(D) /\ Cardinality(D) \in Nat /\ Cardinality(Workers) \in Nat
      BY <2>2, WorkerSets DEF D
    <3>4. Cardinality(D \ {w}) = Cardinality(D) - 1 BY <2>2, <3>3, FS_RemoveElement DEF D
    <3>5. lateFetches \in Nat BY DEF Types
    <3>6. (lateFetches + 1) + Cardinality(D \ {w}) <= Cardinality(Workers) - 1
      BY <3>2, <3>3, <3>4, <3>5
    <3>. QED BY <2>1, <2>2, <2>4, <3>1, <3>6 DEF FewDecided, D
  <2>. QED BY <2>3, <2>4
<1>. QED BY <1>1, <1>2 DEF Limit

\* The worker that pulls the stop is past its fetch.
LEMMA FewCheckLatency ==
  ASSUME Types, FewDecided, NEW w \in Workers, CheckLatency(w)
  PROVE  FewDecided'
<1>1. pc[w] = "check" /\ UNCHANGED lateFetches BY DEF CheckLatency
<1>2. \/ emergencyStop' = TRUE /\ Fail(w)
      \/ Goto(w, "write") /\ UNCHANGED emergencyStop
  BY DEF CheckLatency
<1>3. Decided' \subseteq Decided /\ w \notin Decided'
  BY <1>1, <1>2 DEF Fail, Goto, Sharers, Decided, Types
<1>4. CASE UNCHANGED emergencyStop BY <1>1, <1>3, <1>4, FewStays
<1>5. CASE emergencyStop' = TRUE /\ ~emergencyStop
  <2>. DEFINE E == Decided'
  <2>1. E \subseteq Workers \ {w} BY <1>3 DEF Decided
  <2>. HIDE DEF E
  <2>2. IsFiniteSet(Workers) /\ Cardinality(Workers) \in Nat BY WorkerSets
  <2>3. Cardinality(Workers \ {w}) = Cardinality(Workers) - 1 BY <2>2, FS_RemoveElement
  <2>4. Cardinality(E) \in Nat /\ Cardinality(E) <= Cardinality(Workers \ {w})
    BY <2>1, WorkerSets
  <2>5. lateFetches = 0 BY <1>5 DEF FewDecided
  <2>6. 0 + Cardinality(E) <= Cardinality(Workers) - 1 BY <2>2, <2>3, <2>4
  <2>. QED BY <1>1, <1>5, <2>5, <2>6 DEF FewDecided, E
<1>6. emergencyStop \in BOOLEAN BY DEF Types
<1>. QED BY <1>2, <1>4, <1>5, <1>6

\* Each step keeps the account of decided workers and late fetches.
LEMMA FewStep ==
  ASSUME Types, FewDecided, [Next]_vars
  PROVE  FewDecided'
<1>1. ASSUME NEW w \in Workers, Execute(w) PROVE FewDecided'
  <2>1. UNCHANGED <<emergencyStop, lateFetches>> BY <1>1 DEF Execute
  <2>2. emergencyStop => Decided' \subseteq Decided BY <1>1 DEF Execute, Goto, Decided, Types
  <2>. QED BY <2>1, <2>2, FewStays
<1>2. ASSUME NEW w \in Workers, Do(w) PROVE FewDecided'
  <2>1. UNCHANGED <<emergencyStop, lateFetches>> BY <1>2 DEF Do
  <2>2. Decided' \subseteq Decided BY <1>2 DEF Do, Goto, Decided, Types
  <2>. QED BY <2>1, <2>2, FewStays
<1>3. ASSUME NEW w \in Workers,
             Take(w) \/ FinishTask(w) \/ Stop(w) \/ RetryTask(w) \/ Fetch(w) \/ Write(w)
      PROVE  FewDecided'
  <2>1. UNCHANGED <<emergencyStop, lateFetches>>
    BY <1>3 DEF Take, FinishTask, Stop, RetryTask, Fetch, Write
  <2>2. \/ \E step \in {"execute", "idle", "stopped", "finish", "check"} : Goto(w, step)
        \/ Fail(w) \/ Succeed(w)
    BY <1>3 DEF Take, FinishTask, Stop, RetryTask, Fetch, Write
  <2>3. Decided' \subseteq Decided BY <2>2 DEF Goto, Fail, Succeed, Decided, Types
  <2>. QED BY <2>1, <2>3, FewStays
<1>4. ASSUME \/ \E c \in Clients : QueueTasks(c)
             \/ \E c \in Clients, r \in Requests : WarmKey(c, r) \/ WarmPattern(c, r)
             \/ \E s \in Strategies : UpdateConfig(s)
             \/ PublishWarmCompletion \/ Shutdown \/ UNCHANGED vars
      PROVE  FewDecided'
  <2>1. UNCHANGED <<emergencyStop, lateFetches, pc>>
    BY <1>4 DEF QueueTasks, WarmKey, WarmPattern, UpdateConfig, Requesting, PublishWarmCompletion,
       Shutdown, vars
  <2>. QED BY <2>1, FewStays DEF Decided
<1>. QED BY <1>1, <1>2, <1>3, <1>4, FewLimit, FewCheckLatency DEF Next, Work

(***************************************************************************)
(* After the emergency stop at most one fetch per other worker begins:     *)
(* ExecuteWarmTask looks at the stop before it joins or starts an          *)
(* execution, and a worker decides on one fetch at a time.                 *)
(***************************************************************************)
THEOREM EmergencyStopHolds == Spec => []StopIsRespected
<1>1. Init => Types /\ FewDecided
  <2>1. Init => FewDecided BY DEF Init, FewDecided
  <2>. QED BY <2>1, TypesInit
<1>2. Types /\ FewDecided /\ [Next]_vars => Types' /\ FewDecided' BY TypesStep, FewStep
<1>3. Types /\ FewDecided => StopIsRespected
  <2>. SUFFICES ASSUME Types, FewDecided PROVE StopIsRespected
    OBVIOUS
  <2>1. lateFetches \in Nat /\ emergencyStop \in BOOLEAN BY DEF Types
  <2>2. Cardinality(Workers) \in Nat BY WorkerSets
  <2>3. CASE emergencyStop
    <3>1. lateFetches + Cardinality(Decided) <= Cardinality(Workers) - 1 BY <2>3 DEF FewDecided
    <3>2. Decided \subseteq Workers BY DEF Decided
    <3>3. Cardinality(Decided) \in Nat BY <3>2, WorkerSets
    <3>. QED BY <2>1, <2>2, <3>1, <3>3 DEF StopIsRespected
  <2>4. CASE ~emergencyStop
    <3>1. lateFetches = 0 BY <2>4 DEF FewDecided
    <3>2. Cardinality(Workers) # 0 BY WorkerSets, FS_EmptySet, PoolAssumption
    <3>. QED BY <2>2, <3>1, <3>2 DEF StopIsRespected
  <2>. QED BY <2>3, <2>4
<1>. QED BY <1>1, <1>2, <1>3, PTL DEF Spec

-----------------------------------------------------------------------------
(* One outcome of every task. *)

\* Nobody has made a request.
LEMMA TaskInit ==
  ASSUME Init
  PROVE  TaskInv
<1>1. DOMAIN taskQueue = {} /\ \A c \in Clients : DOMAIN todo[c] = {} BY DEF Init
<1>2. Busy = {} BY DEF Init, Busy
<1>3. publishing = {} /\ completed = {} /\ accepted = {} BY DEF Init
<1>4. QueuedOnce /\ HeldOnce /\ OnePlace BY <1>1, <1>2, <1>3 DEF QueuedOnce, HeldOnce, OnePlace
<1>5. AcceptedPlaced BY <1>1, <1>2, <1>3 DEF AcceptedPlaced, Placed
<1>6. ToSendOnce BY <1>1 DEF ToSendOnce
<1>. QED BY <1>4, <1>5, <1>6, TypesInit DEF TaskInv

\* No task changes its place.
LEMMA TaskStays ==
  ASSUME TaskInv, Types', Stays
  PROVE  TaskInv'
<1>1. QueuedOnce' BY DEF Stays, TaskInv, QueuedOnce
<1>2. HeldOnce' BY DEF Stays, TaskInv, HeldOnce
<1>3. OnePlace' BY DEF Stays, TaskInv, OnePlace
<1>4. \A t : Placed(t)' <=> Placed(t) BY DEF Stays, Placed
<1>5. AcceptedPlaced' BY <1>4 DEF Stays, TaskInv, AcceptedPlaced
<1>6. ToSendOnce' BY DEF Stays, TaskInv, ToSendOnce, requestVars
<1>. QED BY <1>1, <1>2, <1>3, <1>5, <1>6 DEF TaskInv

\* The tasks of an execution that succeeded go from its workers to publishing.
LEMMA TaskSucceeds ==
  ASSUME TaskInv, Types', NEW w \in Workers, Succeeds(w)
  PROVE  TaskInv'
<1>1. QueuedOnce' BY DEF Succeeds, TaskInv, QueuedOnce
<1>2. HeldOnce' BY DEF Succeeds, TaskInv, HeldOnce
<1>3. OnePlace'
  <2>1. \A i \in DOMAIN taskQueue' :
          /\ \A v \in Busy' : taskQueue'[i] # task'[v]
          /\ taskQueue'[i] \notin publishing'
          /\ \A s \in {"success", "failure"} : <<taskQueue'[i], s>> \notin completed'
    BY DEF Succeeds, TaskInv, OnePlace
  <2>2. \A v \in Busy' :
          /\ task'[v] \notin publishing'
          /\ \A s \in {"success", "failure"} : <<task'[v], s>> \notin completed'
    BY DEF Succeeds, TaskInv, OnePlace, HeldOnce
  <2>3. \A t \in publishing' : \A s \in {"success", "failure"} : <<t, s>> \notin completed'
    BY DEF Succeeds, TaskInv, OnePlace
  <2>4. completed' = completed BY DEF Succeeds
  <2>. QED BY <2>1, <2>2, <2>3, <2>4 DEF TaskInv, OnePlace
<1>4. \A t : Placed(t)' <=> Placed(t) BY DEF Succeeds, Placed
<1>5. AcceptedPlaced' BY <1>4 DEF Succeeds, TaskInv, AcceptedPlaced
<1>6. ToSendOnce' BY DEF Succeeds, TaskInv, ToSendOnce, requestVars
<1>. QED BY <1>1, <1>2, <1>3, <1>5, <1>6 DEF TaskInv

\* A task that failed for good goes from its worker to the completion events.
LEMMA TaskGivesUp ==
  ASSUME TaskInv, Types', NEW w \in Workers, GivesUp(w)
  PROVE  TaskInv'
<1>1. QueuedOnce' BY DEF GivesUp, TaskInv, QueuedOnce
<1>2. HeldOnce' BY DEF GivesUp, TaskInv, HeldOnce
<1>3. OnePlace'
  <2>1. \A i \in DOMAIN taskQueue' :
          /\ \A v \in Busy' : taskQueue'[i] # task'[v]
          /\ taskQueue'[i] \notin publishing'
          /\ \A s \in {"success", "failure"} : <<taskQueue'[i], s>> \notin completed'
    BY DEF GivesUp, TaskInv, OnePlace
  <2>2. \A v \in Busy' :
          /\ task'[v] \notin publishing'
          /\ \A s \in {"success", "failure"} : <<task'[v], s>> \notin completed'
    BY DEF GivesUp, TaskInv, OnePlace, HeldOnce
  <2>3. \A t \in publishing' : \A s \in {"success", "failure"} : <<t, s>> \notin completed'
    BY DEF GivesUp, TaskInv, OnePlace
  <2>4. \A t \in Tasks : ~(<<t, "success">> \in completed' /\ <<t, "failure">> \in completed')
    BY DEF GivesUp, TaskInv, OnePlace
  <2>. QED BY <2>1, <2>2, <2>3, <2>4 DEF OnePlace
<1>4. \A t : Placed(t)' <=> Placed(t) BY DEF GivesUp, Placed
<1>5. AcceptedPlaced' BY <1>4 DEF GivesUp, TaskInv, AcceptedPlaced
<1>6. ToSendOnce' BY DEF GivesUp, TaskInv, ToSendOnce, requestVars
<1>. QED BY <1>1, <1>2, <1>3, <1>5, <1>6 DEF TaskInv

\* What is left of a sequence without its head.
LEMMA TailShape ==
  ASSUME NEW S, NEW q \in Seq(S), q # <<>>
  PROVE  /\ DOMAIN q = 1 .. Len(q) /\ Len(q) \in Nat \ {0} /\ 1 \in DOMAIN q /\ Head(q) = q[1]
         /\ DOMAIN Tail(q) = 1 .. (Len(q) - 1)
         /\ \A i \in DOMAIN Tail(q) : i + 1 \in DOMAIN q /\ Tail(q)[i] = q[i + 1]
         /\ \A i \in DOMAIN q : i # 1 => i - 1 \in DOMAIN Tail(q) /\ Tail(q)[i - 1] = q[i]
<1>1. Len(q) \in Nat \ {0} /\ DOMAIN q = 1 .. Len(q) BY EmptySeq, LenProperties
<1>2. /\ Tail(q) \in Seq(S) /\ Len(Tail(q)) = Len(q) - 1
      /\ \A i \in 1 .. Len(Tail(q)) : Tail(q)[i] = q[i + 1]
  BY HeadTailProperties
<1>3. DOMAIN Tail(q) = 1 .. (Len(q) - 1) BY <1>2, LenProperties
<1>. QED BY <1>1, <1>2, <1>3

\* A task goes from the head of the queue to a worker.
LEMMA TaskTakes ==
  ASSUME TaskInv, Types', NEW w \in Workers, Takes(w)
  PROVE  TaskInv'
<1>. DEFINE q == taskQueue
            h == Head(taskQueue)
<1>0. q \in Seq(Tasks) /\ q # <<>> /\ taskQueue' = Tail(q) BY DEF TaskInv, Types, Takes
<1>1. /\ 1 \in DOMAIN q /\ h = q[1] /\ DOMAIN q \subseteq Nat /\ DOMAIN Tail(q) \subseteq Nat
      /\ \A i \in DOMAIN Tail(q) : i + 1 \in DOMAIN q /\ i + 1 # 1 /\ Tail(q)[i] = q[i + 1]
      /\ \A i \in DOMAIN q : i # 1 => i - 1 \in DOMAIN Tail(q) /\ Tail(q)[i - 1] = q[i]
  BY <1>0, TailShape
<1>2. \A i \in DOMAIN Tail(q) : Tail(q)[i] # h BY <1>1 DEF TaskInv, QueuedOnce
<1>3. \A v \in Busy' : (v = w /\ task'[v] = h) \/ (v # w /\ v \in Busy /\ task'[v] = task[v])
  BY DEF Takes, TaskInv, Types, Busy
<1>4. w \in Busy' /\ Busy \subseteq Busy' /\ task'[w] = h /\ \A v \in Busy : task'[v] = task[v]
  BY DEF Takes, TaskInv, Types, Busy
<1>5. UNCHANGED <<publishing, completed, accepted, dropped, todo>> BY DEF Takes, requestVars
<1>. HIDE DEF q, h
<1>6. \A v \in Busy : task[v] # h BY <1>1 DEF TaskInv, OnePlace, q
<1>7. QueuedOnce' BY <1>0, <1>1 DEF TaskInv, QueuedOnce, q
<1>8. HeldOnce' BY <1>3, <1>6 DEF TaskInv, HeldOnce
<1>9. OnePlace'
  <2>1. ASSUME NEW i \in DOMAIN taskQueue'
        PROVE  /\ \A v \in Busy' : taskQueue'[i] # task'[v]
               /\ taskQueue'[i] \notin publishing'
               /\ \A s \in {"success", "failure"} : <<taskQueue'[i], s>> \notin completed'
    <3>1. i + 1 \in DOMAIN taskQueue /\ taskQueue'[i] = taskQueue[i + 1] /\ taskQueue'[i] # h
      BY <1>0, <1>1, <1>2 DEF q
    <3>. QED BY <1>3, <1>5, <3>1 DEF TaskInv, OnePlace
  <2>2. h \notin publishing /\ \A s \in {"success", "failure"} : <<h, s>> \notin completed
    BY <1>1 DEF TaskInv, OnePlace, q
  <2>3. \A v \in Busy' :
          /\ task'[v] \notin publishing'
          /\ \A s \in {"success", "failure"} : <<task'[v], s>> \notin completed'
    BY <1>3, <1>5, <2>2 DEF TaskInv, OnePlace
  <2>. QED BY <1>5, <2>1, <2>3 DEF TaskInv, OnePlace
<1>10. \A t : Placed(t)' <=> Placed(t)
  <2>. SUFFICES ASSUME NEW t PROVE Placed(t)' <=> Placed(t)
    OBVIOUS
  <2>1. (\E i \in DOMAIN taskQueue : taskQueue[i] = t) <=>
          t = h \/ \E i \in DOMAIN taskQueue' : taskQueue'[i] = t
    BY <1>0, <1>1, ZenonT(30) DEF q
  <2>2. (\E v \in Busy' : task'[v] = t) <=> t = h \/ \E v \in Busy : task[v] = t
    BY <1>3, <1>4
  <2>. QED BY <1>5, <2>1, <2>2 DEF Placed
<1>11. AcceptedPlaced' BY <1>5, <1>10 DEF TaskInv, AcceptedPlaced
<1>12. ToSendOnce' BY <1>5 DEF TaskInv, ToSendOnce
<1>. QED BY <1>7, <1>8, <1>9, <1>11, <1>12 DEF TaskInv

\* A sequence with one more element.
LEMMA AppendShape ==
  ASSUME NEW S, NEW q \in Seq(S), NEW e \in S
  PROVE  /\ DOMAIN q = 1 .. Len(q) /\ Len(q) \in Nat
         /\ DOMAIN Append(q, e) = 1 .. (Len(q) + 1)
         /\ \A i \in DOMAIN q : i \in DOMAIN Append(q, e) /\ i < Len(q) + 1 /\ Append(q, e)[i] = q[i]
         /\ \A i \in DOMAIN Append(q, e) : i # Len(q) + 1 => i \in DOMAIN q
         /\ Append(q, e)[Len(q) + 1] = e
BY AppendProperties, LenProperties

\* What a client has left to send after its first task.
LEMMA ToSendTail ==
  ASSUME TaskInv, NEW c \in Clients, QueueTasks(c)
  PROVE  /\ Head(todo[c]) \in Tasks /\ Head(todo[c]) \notin accepted \cup dropped
         /\ \A d \in Clients : \A i \in DOMAIN todo'[d] :
              /\ todo'[d][i] # Head(todo[c])
              /\ todo'[d][i].request = Head(todo[c]).request => d = c
              /\ \E j \in DOMAIN todo[d] : todo[d][j] = todo'[d][i]
         /\ \A d \in Clients : \A i, j \in DOMAIN todo'[d] : todo'[d][i] = todo'[d][j] => i = j
         /\ \A t : (\E d \in Clients : \E i \in DOMAIN todo[d] : todo[d][i] = t) <=>
                   t = Head(todo[c]) \/ \E d \in Clients : \E i \in DOMAIN todo'[d] : todo'[d][i] = t
<1>. DEFINE q == todo[c]
            h == Head(todo[c])
<1>0. /\ todo \in [Clients -> Seq(Tasks)] /\ q \in Seq(Tasks) /\ q # <<>>
      /\ todo' = [todo EXCEPT ![c] = Tail(q)]
  BY DEF TaskInv, Types, QueueTasks
<1>1. todo'[c] = Tail(q) /\ \A d \in Clients : d # c => todo'[d] = todo[d] BY <1>0
<1>2. /\ 1 \in DOMAIN q /\ h = q[1] /\ DOMAIN q \subseteq Nat /\ DOMAIN Tail(q) \subseteq Nat
      /\ \A i \in DOMAIN Tail(q) : i + 1 \in DOMAIN q /\ i + 1 # 1 /\ Tail(q)[i] = q[i + 1]
      /\ \A i \in DOMAIN q : i # 1 => i - 1 \in DOMAIN Tail(q) /\ Tail(q)[i - 1] = q[i]
  BY <1>0, TailShape
<1>3. h \in Tasks /\ h \notin accepted \cup dropped BY <1>0, <1>2, HeadTailProperties DEF TaskInv, ToSendOnce
<1>4. /\ \A i \in DOMAIN q : i # 1 => q[i] # h
      /\ \A i, j \in DOMAIN q : q[i] = q[j] => i = j
      /\ \A d \in Clients : \A i \in DOMAIN todo[d] : todo[d][i].request = h.request => d = c
  BY <1>2 DEF TaskInv, ToSendOnce
<1>. HIDE DEF q, h
<1>5. ASSUME NEW d \in Clients, NEW i \in DOMAIN todo'[d]
      PROVE  /\ todo'[d][i] # h
             /\ todo'[d][i].request = h.request => d = c
             /\ \E j \in DOMAIN todo[d] : todo[d][j] = todo'[d][i]
  <2>1. CASE d = c
    <3>1. i + 1 \in DOMAIN todo[d] /\ todo'[d][i] = todo[d][i + 1] /\ i + 1 # 1
      BY <1>1, <1>2, <2>1 DEF q
    <3>. QED BY <1>4, <2>1, <3>1 DEF q
  <2>2. CASE d # c BY <1>1, <1>4, <2>2
  <2>. QED BY <2>1, <2>2
<1>6. ASSUME NEW d \in Clients, NEW i \in DOMAIN todo'[d], NEW j \in DOMAIN todo'[d],
             todo'[d][i] = todo'[d][j]
      PROVE  i = j
  <2>1. CASE d = c
    <3>1. i \in DOMAIN Tail(q) /\ j \in DOMAIN Tail(q) /\ Tail(q)[i] = Tail(q)[j] BY <1>1, <1>6, <2>1
    <3>2. i + 1 = j + 1 BY <1>2, <1>4, <3>1
    <3>. QED BY <1>2, <3>1, <3>2
  <2>2. CASE d # c BY <1>1, <1>6, <2>2 DEF TaskInv, ToSendOnce
  <2>. QED BY <2>1, <2>2
<1>7. ASSUME NEW t
      PROVE  (\E d \in Clients : \E i \in DOMAIN todo[d] : todo[d][i] = t) <=>
               t = h \/ \E d \in Clients : \E i \in DOMAIN todo'[d] : todo'[d][i] = t
  <2>1. ASSUME NEW d \in Clients, NEW i \in DOMAIN todo[d], todo[d][i] = t
        PROVE  t = h \/ \E e \in Clients : \E j \in DOMAIN todo'[e] : todo'[e][j] = t
    <3>1. CASE d = c
      <4>1. i = 1 \/ (i - 1 \in DOMAIN todo'[c] /\ todo'[c][i - 1] = t) BY <1>1, <1>2, <2>1, <3>1 DEF q
      <4>. QED BY <1>2, <2>1, <3>1, <4>1 DEF q
    <3>2. CASE d # c BY <1>1, <2>1, <3>2
    <3>. QED BY <3>1, <3>2
  <2>2. t = h => \E d \in Clients : \E i \in DOMAIN todo[d] : todo[d][i] = t BY <1>2 DEF q
  <2>. QED BY <1>5, <2>1, <2>2
<1>. QED BY <1>3, <1>5, <1>6, <1>7 DEF h

\* What is left to send is as distinct as before.
LEMMA ToSendQueue ==
  ASSUME TaskInv, NEW c \in Clients, QueueTasks(c),
         accepted' \cup dropped' \subseteq (accepted \cup dropped) \cup {Head(todo[c])}
  PROVE  ToSendOnce'
<1>1. \A d \in Clients : \A i \in DOMAIN todo'[d] : todo'[d][i] \notin accepted' \cup dropped'
  BY ToSendTail DEF TaskInv, ToSendOnce
<1>2. \A d \in Clients : \A i, j \in DOMAIN todo'[d] : todo'[d][i] = todo'[d][j] => i = j
  BY ToSendTail
<1>3. \A d, e \in Clients : \A i \in DOMAIN todo'[d], j \in DOMAIN todo'[e] :
        todo'[d][i].request = todo'[e][j].request => d = e
  <2>. SUFFICES ASSUME NEW d \in Clients, NEW e \in Clients, NEW i \in DOMAIN todo'[d],
                       NEW j \in DOMAIN todo'[e], todo'[d][i].request = todo'[e][j].request
                PROVE  d = e
    OBVIOUS
  <2>1. PICK k \in DOMAIN todo[d] : todo[d][k] = todo'[d][i] BY ToSendTail
  <2>2. PICK l \in DOMAIN todo[e] : todo[e][l] = todo'[e][j] BY ToSendTail
  <2>. QED BY <2>1, <2>2 DEF TaskInv, ToSendOnce
<1>. QED BY <1>1, <1>2, <1>3 DEF ToSendOnce

\* The queue takes a task, or drops it.
LEMMA TaskQueue ==
  ASSUME TaskInv, Types', NEW c \in Clients, QueueTasks(c)
  PROVE  TaskInv'
<1>. DEFINE h == Head(todo[c])
            q == taskQueue
<1>0. h \in Tasks /\ h \notin accepted \cup dropped BY ToSendTail
<1>1. UNCHANGED <<pc, task, publishing, completed>> /\ Busy' = Busy BY DEF QueueTasks, Busy
<1>2. CASE Len(taskQueue) < QueueSize
  <2>0. /\ taskQueue' = Append(q, h) /\ accepted' = accepted \cup {h} /\ dropped' = dropped
        /\ q \in Seq(Tasks)
    BY <1>2 DEF QueueTasks, TaskInv, Types
  <2>1. /\ DOMAIN q = 1 .. Len(q) /\ Len(q) \in Nat
        /\ DOMAIN taskQueue' = 1 .. (Len(q) + 1)
        /\ \A i \in DOMAIN q : i \in DOMAIN taskQueue' /\ i < Len(q) + 1 /\ taskQueue'[i] = q[i]
        /\ \A i \in DOMAIN taskQueue' : i # Len(q) + 1 => i \in DOMAIN q
        /\ taskQueue'[Len(q) + 1] = h
    BY <1>0, <2>0, AppendShape
  <2>2. ~Placed(h) BY <1>0 DEF TaskInv, AcceptedPlaced
  <2>. HIDE DEF q, h
  <2>3. QueuedOnce' BY <2>1, <2>2 DEF TaskInv, QueuedOnce, Placed, q
  <2>4. HeldOnce' BY <1>1 DEF TaskInv, HeldOnce
  <2>5. OnePlace'
    <3>1. ASSUME NEW i \in DOMAIN taskQueue'
          PROVE  /\ \A v \in Busy' : taskQueue'[i] # task'[v]
                 /\ taskQueue'[i] \notin publishing'
                 /\ \A s \in {"success", "failure"} : <<taskQueue'[i], s>> \notin completed'
      <4>1. CASE i = Len(q) + 1 BY <1>1, <2>1, <2>2, <4>1 DEF Placed
      <4>2. CASE i # Len(q) + 1 BY <1>1, <2>1, <4>2 DEF TaskInv, OnePlace, q
      <4>. QED BY <4>1, <4>2
    <3>. QED BY <1>1, <3>1 DEF TaskInv, OnePlace
  <2>6. \A t : Placed(t)' <=> Placed(t) \/ t = h
    <3>1. \A t : (\E i \in DOMAIN taskQueue' : taskQueue'[i] = t) <=>
                   t = h \/ \E i \in DOMAIN taskQueue : taskQueue[i] = t
      BY <2>1 DEF q
    <3>. QED BY <1>1, <3>1 DEF Placed
  <2>7. AcceptedPlaced' BY <2>0, <2>6 DEF TaskInv, AcceptedPlaced
  <2>8. ToSendOnce' BY <2>0, ToSendQueue DEF h
  <2>. QED BY <2>3, <2>4, <2>5, <2>7, <2>8 DEF TaskInv
<1>3. CASE ~(Len(taskQueue) < QueueSize)
  <2>1. UNCHANGED <<taskQueue, accepted>> /\ dropped' = dropped \cup {h} BY <1>3 DEF QueueTasks
  <2>2. QueuedOnce' /\ HeldOnce' /\ OnePlace' BY <1>1, <2>1 DEF TaskInv, QueuedOnce, HeldOnce, OnePlace
  <2>3. AcceptedPlaced' BY <1>1, <2>1 DEF TaskInv, AcceptedPlaced, Placed
  <2>4. ToSendOnce' BY <2>1, ToSendQueue
  <2>. QED BY <2>2, <2>3, <2>4 DEF TaskInv
<1>. QED BY <1>2, <1>3

\* A new request: none of its tasks is anywhere yet.
LEMMA TaskPlanned ==
  ASSUME TaskInv, Types', NEW c \in Clients, NEW r \in Requests, NEW m, Planned(c, r, m)
  PROVE  TaskInv'
<1>0. PICK plan \in [1 .. m -> 1 .. m] :
        /\ \A i, j \in 1 .. m : plan[i] = plan[j] => i = j
        /\ todo' = [todo EXCEPT ![c] = ToSend(r, plan)]
  BY DEF Planned
<1>1. /\ m \in Nat /\ m <= Len(r.keys) /\ New(r)
      /\ UNCHANGED <<taskQueue, pc, task, publishing, completed, accepted, dropped>>
  BY DEF Planned, Requesting
<1>2. /\ ToSend(r, plan) \in Seq(Tasks) /\ DOMAIN ToSend(r, plan) = 1 .. m
      /\ \A i \in 1 .. m : ToSend(r, plan)[i] = [request |-> r, i |-> plan[i]]
  BY <1>1, ToSendShape
<1>3. /\ todo'[c] = ToSend(r, plan)
      /\ \A d \in Clients : d # c => todo'[d] = todo[d]
  BY <1>0 DEF TaskInv, Types
<1>4. \A i \in DOMAIN todo'[c] : todo'[c][i] \in Tasks /\ todo'[c][i].request = r
  <2>. SUFFICES ASSUME NEW i \in 1 .. m
                PROVE  ToSend(r, plan)[i] \in Tasks /\ ToSend(r, plan)[i].request = r
    BY <1>2, <1>3
  <2>1. Len(r.keys) \in Nat BY PoolAssumption
  <2>2. plan[i] \in 1 .. Len(r.keys) BY <1>1, <2>1
  <2>. QED BY <1>2, <2>2, TaskShape
<1>5. \A t \in Tasks : t.request = r =>
        t \notin accepted \cup dropped /\ \A d \in Clients : \A i \in DOMAIN todo[d] : todo[d][i] # t
  <2>. SUFFICES ASSUME NEW t \in Tasks, t.request = r, NEW d \in Clients, NEW i \in DOMAIN todo[d]
                PROVE  todo[d][i] # t
    BY <1>1 DEF New
  <2>1. ~Contains(todo[d], t) BY <1>1 DEF New
  <2>2. DOMAIN todo[d] = 1 .. Len(todo[d]) BY DEF TaskInv, Types
  <2>. QED BY <2>1, <2>2 DEF Contains
<1>6. \A d \in Clients : \A i \in DOMAIN todo[d] : todo[d][i] \in Tasks
  BY ElementOfSeq, LenProperties DEF TaskInv, Types
<1>7. \A d \in Clients : d # c => \A i \in DOMAIN todo'[d] : todo'[d][i].request # r
  BY <1>3, <1>5, <1>6
<1>8. ToSendOnce'
  <2>1. \A d \in Clients : \A i \in DOMAIN todo'[d] : todo'[d][i] \notin accepted' \cup dropped'
    <3>. SUFFICES ASSUME NEW d \in Clients, NEW i \in DOMAIN todo'[d]
                  PROVE  todo'[d][i] \notin accepted \cup dropped
      BY <1>1
    <3>1. CASE d = c BY <1>4, <1>5, <3>1
    <3>2. CASE d # c BY <1>3, <3>2 DEF TaskInv, ToSendOnce
    <3>. QED BY <3>1, <3>2
  <2>2. \A d \in Clients : \A i, j \in DOMAIN todo'[d] : todo'[d][i] = todo'[d][j] => i = j
    <3>. SUFFICES ASSUME NEW d \in Clients, NEW i \in DOMAIN todo'[d], NEW j \in DOMAIN todo'[d],
                         todo'[d][i] = todo'[d][j]
                  PROVE  i = j
      OBVIOUS
    <3>1. CASE d = c
      <4>1. /\ i \in 1 .. m /\ j \in 1 .. m
            /\ [request |-> r, i |-> plan[i]] = [request |-> r, i |-> plan[j]]
        BY <1>2, <1>3, <3>1
      <4>2. plan[i] = plan[j] BY <4>1
      <4>. QED BY <1>0, <4>1, <4>2
    <3>2. CASE d # c BY <1>3, <3>2 DEF TaskInv, ToSendOnce
    <3>. QED BY <3>1, <3>2
  <2>3. \A d, e \in Clients : \A i \in DOMAIN todo'[d], j \in DOMAIN todo'[e] :
          todo'[d][i].request = todo'[e][j].request => d = e
    <3>. SUFFICES ASSUME NEW d \in Clients, NEW e \in Clients, NEW i \in DOMAIN todo'[d],
                         NEW j \in DOMAIN todo'[e], todo'[d][i].request = todo'[e][j].request
                  PROVE  d = e
      OBVIOUS
    <3>1. CASE d = c \/ e = c BY <1>4, <1>7, <3>1
    <3>2. CASE d # c /\ e # c BY <1>3, <3>2 DEF TaskInv, ToSendOnce
    <3>. QED BY <3>1, <3>2
  <2>. QED BY <2>1, <2>2, <2>3 DEF ToSendOnce
<1>9. Busy' = Busy BY <1>1 DEF Busy
<1>10. QueuedOnce' /\ HeldOnce' /\ OnePlace' BY <1>1, <1>9 DEF TaskInv, QueuedOnce, HeldOnce, OnePlace
<1>11. AcceptedPlaced' BY <1>1, <1>9 DEF TaskInv, AcceptedPlaced, Placed
<1>. QED BY <1>8, <1>10, <1>11 DEF TaskInv

\* The success of a task is published.
LEMMA TaskPublish ==
  ASSUME TaskInv, Types', PublishWarmCompletion
  PROVE  TaskInv'
<1>1. PICK t \in publishing :
        publishing' = publishing \ {t} /\ completed' = completed \cup {<<t, "success">>}
  BY DEF PublishWarmCompletion
<1>2. UNCHANGED <<taskQueue, todo, pc, task, accepted, dropped>> /\ Busy' = Busy
  BY DEF PublishWarmCompletion, Busy, requestVars
<1>3. QueuedOnce' /\ HeldOnce' BY <1>2 DEF TaskInv, QueuedOnce, HeldOnce
<1>4. OnePlace'
  <2>1. \A i \in DOMAIN taskQueue' :
          /\ \A v \in Busy' : taskQueue'[i] # task'[v]
          /\ taskQueue'[i] \notin publishing'
          /\ \A s \in {"success", "failure"} : <<taskQueue'[i], s>> \notin completed'
    BY <1>1, <1>2 DEF TaskInv, OnePlace
  <2>2. \A v \in Busy' :
          /\ task'[v] \notin publishing'
          /\ \A s \in {"success", "failure"} : <<task'[v], s>> \notin completed'
    BY <1>1, <1>2 DEF TaskInv, OnePlace
  <2>3. \A u \in publishing' : \A s \in {"success", "failure"} : <<u, s>> \notin completed'
    BY <1>1 DEF TaskInv, OnePlace
  <2>4. \A u \in Tasks : ~(<<u, "success">> \in completed' /\ <<u, "failure">> \in completed')
    BY <1>1 DEF TaskInv, OnePlace
  <2>. QED BY <2>1, <2>2, <2>3, <2>4 DEF OnePlace
<1>5. \A u : Placed(u)' <=> Placed(u) BY <1>1, <1>2 DEF Placed
<1>6. AcceptedPlaced' BY <1>2, <1>5 DEF TaskInv, AcceptedPlaced
<1>7. ToSendOnce' BY <1>2 DEF TaskInv, ToSendOnce
<1>. QED BY <1>3, <1>4, <1>6, <1>7 DEF TaskInv

\* Each step keeps every task in its one place.
LEMMA TaskStep ==
  ASSUME TaskInv, [Next]_vars
  PROVE  TaskInv'
<1>1. Types /\ Types' BY TypesStep DEF TaskInv
<1>2. ASSUME NEW w \in Workers, Work(w) \/ Stop(w) PROVE TaskInv'
  BY <1>1, <1>2, WorkMoves, TaskStays, TaskSucceeds, TaskGivesUp, TaskTakes
<1>3. ASSUME NEW c \in Clients, NEW r \in Requests, WarmKey(c, r) \/ WarmPattern(c, r) PROVE TaskInv'
  BY <1>1, <1>3, WarmKeyPlans, WarmPatternPlans, TaskPlanned
<1>4. ASSUME (\E s \in Strategies : UpdateConfig(s)) \/ Shutdown \/ UNCHANGED vars PROVE TaskInv'
  <2>1. UNCHANGED <<taskQueue, todo, pc, task, publishing, completed, accepted, dropped>>
    BY <1>4 DEF UpdateConfig, Requesting, Shutdown, requestVars, vars
  <2>2. Busy' = Busy BY <2>1 DEF Busy
  <2>3. QueuedOnce' /\ HeldOnce' /\ OnePlace' BY <2>1, <2>2 DEF TaskInv, QueuedOnce, HeldOnce, OnePlace
  <2>4. AcceptedPlaced' BY <2>1, <2>2 DEF TaskInv, AcceptedPlaced, Placed
  <2>5. ToSendOnce' BY <2>1 DEF TaskInv, ToSendOnce
  <2>. QED BY <1>1, <2>3, <2>4, <2>5 DEF TaskInv
<1>. QED BY <1>1, <1>2, <1>3, <1>4, TaskQueue, TaskPublish DEF Next

\* A set without two elements has no or one element.
LEMMA AtMostOne ==
  ASSUME NEW S, \A x, y \in S : x = y
  PROVE  Cardinality(S) = IF S = {} THEN 0 ELSE 1
<1>1. CASE S = {} BY <1>1, FS_EmptySet
<1>2. CASE S # {}
  <2>1. PICK x : x \in S BY <1>2
  <2>2. S = {x} BY <2>1
  <2>. QED BY <2>2, FS_Singleton
<1>. QED BY <1>1, <1>2

(***************************************************************************)
(* A task that the queue took is in the queue, with one worker, being      *)
(* published, or reported, and only one of them, whatever workers share,   *)
(* retry and stop; a task the queue dropped is nowhere.                    *)
(***************************************************************************)
THEOREM EveryTaskHasOneOutcome == Spec => []OneOutcome
<1>1. Init => TaskInv BY TaskInit
<1>2. TaskInv /\ [Next]_vars => TaskInv' BY TaskStep
<1>3. TaskInv => OneOutcome
  <2>. SUFFICES ASSUME TaskInv, NEW t \in Tasks
                PROVE  Places(t) = IF t \in accepted THEN 1 ELSE 0
    BY DEF OneOutcome
  <2>. DEFINE A == {i \in 1 .. Len(taskQueue) : taskQueue[i] = t}
              B == {w \in Busy : task[w] = t}
              C == {s \in {"success", "failure"} : <<t, s>> \in completed}
  <2>1. DOMAIN taskQueue = 1 .. Len(taskQueue) BY LenProperties DEF TaskInv, Types
  <2>2. Cardinality(A) = IF A = {} THEN 0 ELSE 1
    <3>1. \A i, j \in A : i = j BY <2>1 DEF TaskInv, QueuedOnce
    <3>. HIDE DEF A
    <3>. QED BY <3>1, AtMostOne
  <2>3. Cardinality(B) = IF B = {} THEN 0 ELSE 1
    <3>1. \A v, w \in B : v = w BY DEF TaskInv, HeldOnce
    <3>. HIDE DEF B
    <3>. QED BY <3>1, AtMostOne
  <2>4. Cardinality(C) = IF C = {} THEN 0 ELSE 1
    <3>1. \A v, w \in C : v = w BY DEF TaskInv, OnePlace
    <3>. HIDE DEF C
    <3>. QED BY <3>1, AtMostOne
  <2>5. /\ A # {} => B = {} /\ t \notin publishing /\ C = {}
        /\ B # {} => t \notin publishing /\ C = {}
        /\ t \in publishing => C = {}
    BY <2>1 DEF TaskInv, OnePlace
  <2>6. t \in accepted <=> A # {} \/ B # {} \/ t \in publishing \/ C # {}
    BY <2>1 DEF TaskInv, AcceptedPlaced, Placed
  <2>7. Places(t) = Cardinality(A) + Cardinality(B) + (IF t \in publishing THEN 1 ELSE 0) + Cardinality(C)
    BY DEF Places
  <2>. HIDE DEF A, B, C
  <2>. QED BY <2>2, <2>3, <2>4, <2>5, <2>6, <2>7
<1>. QED BY <1>1, <1>2, <1>3, PTL DEF Spec

-----------------------------------------------------------------------------
(* The queue follows the plans. *)

\* Tasks of one request are in plan order if their positions are.
LEMMA OrderOfPositions ==
  ASSUME NEW t \in Tasks, NEW u \in Tasks, t.request = u.request
  PROVE  InPlanOrder(t, u) <=> OrderedBy(strategy, t, u)
BY DEF InPlanOrder, OrderedBy, Before, TaskKey

\* Elements of the queue and of the clients' lists are tasks; those in the queue
\* have been accepted.
LEMMA Elements ==
  ASSUME TaskInv
  PROVE  /\ \A i \in DOMAIN taskQueue : taskQueue[i] \in Tasks /\ taskQueue[i] \in accepted
         /\ \A c \in Clients : \A i \in DOMAIN todo[c] : todo[c][i] \in Tasks
<1>1. \A i \in DOMAIN taskQueue : taskQueue[i] \in Tasks
  BY ElementOfSeq, LenProperties DEF TaskInv, Types
<1>2. \A i \in DOMAIN taskQueue : taskQueue[i] \in accepted
  BY <1>1 DEF TaskInv, AcceptedPlaced, Placed
<1>3. \A c \in Clients : \A i \in DOMAIN todo[c] : todo[c][i] \in Tasks
  BY ElementOfSeq, LenProperties DEF TaskInv, Types
<1>. QED BY <1>1, <1>2, <1>3

\* Nothing was requested.
LEMMA PlanInit ==
  ASSUME Init
  PROVE  PlanInv
<1>1. DOMAIN taskQueue = {} /\ \A c \in Clients : DOMAIN todo[c] = {} BY DEF Init
<1>2. accepted = {} /\ dropped = {} BY DEF Init
<1>3. InOrder BY <1>1 DEF InOrder
<1>4. \A r \in Requests : Sent(r) = {} /\ Unsent(r) = {} BY <1>1, <1>2 DEF Sent, Unsent
<1>5. AllSent BY <1>4 DEF AllSent
<1>. QED BY <1>3, <1>5, TaskInit DEF PlanInv

\* Steps that only take from the head of the queue, if anything.
LEMMA PlanKept ==
  ASSUME PlanInv, UNCHANGED <<strategy, todo, accepted, dropped>>,
         taskQueue' = taskQueue \/ (taskQueue # <<>> /\ taskQueue' = Tail(taskQueue))
  PROVE  InOrder' /\ AllSent'
<1>1. \A r \in Requests : Sent(r)' = Sent(r) /\ Unsent(r)' = Unsent(r) /\ PlanSize(r)' = PlanSize(r)
  BY DEF Sent, Unsent, PlanSize
<1>2. AllSent' BY <1>1 DEF PlanInv, AllSent
<1>4. CASE taskQueue' = taskQueue BY <1>2, <1>4 DEF PlanInv, InOrder
<1>5. CASE taskQueue # <<>> /\ taskQueue' = Tail(taskQueue)
  <2>1. taskQueue \in Seq(Tasks) BY DEF PlanInv, TaskInv, Types
  <2>2. /\ DOMAIN taskQueue' \subseteq Int
        /\ \A i \in DOMAIN taskQueue' : i + 1 \in DOMAIN taskQueue /\ taskQueue'[i] = taskQueue[i + 1]
    BY <1>5, <2>1, TailShape
  <2>3. \A i, j \in DOMAIN taskQueue' : i < j /\ taskQueue'[i].request = taskQueue'[j].request
          => OrderedBy(strategy, taskQueue'[i], taskQueue'[j])
    <3>. SUFFICES ASSUME NEW i \in DOMAIN taskQueue', NEW j \in DOMAIN taskQueue', i < j,
                         taskQueue'[i].request = taskQueue'[j].request
                  PROVE  OrderedBy(strategy, taskQueue'[i], taskQueue'[j])
      OBVIOUS
    <3>1. i + 1 < j + 1 BY <2>2
    <3>. QED BY <2>2, <3>1 DEF PlanInv, InOrder
  <2>4. \A i \in DOMAIN taskQueue', c \in Clients : \A j \in DOMAIN todo[c] :
          taskQueue'[i].request = todo[c][j].request => OrderedBy(strategy, taskQueue'[i], todo[c][j])
    BY <2>2 DEF PlanInv, InOrder
  <2>. QED BY <1>2, <2>3, <2>4 DEF PlanInv, InOrder
<1>. QED BY <1>2, <1>4, <1>5

\* A client sends its first task.
LEMMA PlanQueue ==
  ASSUME PlanInv, NEW c \in Clients, QueueTasks(c)
  PROVE  InOrder' /\ AllSent'
<1>. DEFINE h == Head(todo[c])
            q == taskQueue
<1>0. TaskInv BY DEF PlanInv
<1>1. /\ UNCHANGED <<strategy>> /\ todo[c] # <<>> /\ todo' = [todo EXCEPT ![c] = Tail(todo[c])]
      /\ todo \in [Clients -> Seq(Tasks)] /\ taskQueue \in Seq(Tasks)
  BY <1>0 DEF QueueTasks, TaskInv, Types
<1>2. /\ h \in Tasks
      /\ \A d \in Clients : \A i \in DOMAIN todo'[d] : todo'[d][i].request = h.request => d = c
      /\ \A t : (\E d \in Clients : \E i \in DOMAIN todo[d] : todo[d][i] = t) <=>
                t = h \/ \E d \in Clients : \E i \in DOMAIN todo'[d] : todo'[d][i] = t
  BY <1>0, ToSendTail
<1>3. /\ 1 \in DOMAIN todo[c] /\ h = todo[c][1] /\ todo'[c] = Tail(todo[c])
      /\ DOMAIN todo[c] \subseteq Int /\ DOMAIN todo'[c] \subseteq Int
      /\ \A i \in DOMAIN todo'[c] : i + 1 \in DOMAIN todo[c] /\ 1 < i + 1 /\ todo'[c][i] = todo[c][i + 1]
      /\ \A d \in Clients : d # c => todo'[d] = todo[d]
  BY <1>1, TailShape
<1>5. \/ taskQueue' = q /\ accepted' = accepted /\ dropped' = dropped \cup {h}
      \/ taskQueue' = Append(q, h) /\ accepted' = accepted \cup {h} /\ dropped' = dropped
  BY DEF QueueTasks
<1>. HIDE DEF h, q
<1>6. AllSent'
  <2>1. accepted' \cup dropped' = (accepted \cup dropped) \cup {h} BY <1>5
  <2>2. ASSUME NEW r \in Requests
        PROVE  /\ Sent(r)' \cup Unsent(r)' = Sent(r) \cup Unsent(r) /\ PlanSize(r)' = PlanSize(r)
    <3>1. PlanSize(r)' = PlanSize(r) BY <1>1 DEF PlanSize
    <3>2. \A i : i \in Sent(r) <=> \E t \in accepted \cup dropped : t.request = r /\ t.i = i
      BY DEF Sent
    <3>3. \A i : i \in Sent(r)' <=> \E t \in accepted' \cup dropped' : t.request = r /\ t.i = i
      BY DEF Sent
    <3>4. \A i : i \in Unsent(r) <=> \E t \in Tasks : t.request = r /\ t.i = i /\
            \E d \in Clients : \E j \in DOMAIN todo[d] : todo[d][j] = t
      BY DEF Unsent
    <3>5. \A i : i \in Unsent(r)' <=> \E t \in Tasks : t.request = r /\ t.i = i /\
            \E d \in Clients : \E j \in DOMAIN todo'[d] : todo'[d][j] = t
      BY DEF Unsent
    <3>6. ASSUME NEW i PROVE i \in Sent(r)' \/ i \in Unsent(r)' <=> i \in Sent(r) \/ i \in Unsent(r)
      <4>1. i \in Sent(r)' <=> i \in Sent(r) \/ (h.request = r /\ h.i = i) BY <2>1, <3>2, <3>3
      <4>2. i \in Unsent(r) <=> i \in Unsent(r)' \/ (h.request = r /\ h.i = i)
        <5>. DEFINE waits(t) == \E d \in Clients : \E j \in DOMAIN todo[d] : todo[d][j] = t
                    waits1(t) == \E d \in Clients : \E j \in DOMAIN todo'[d] : todo'[d][j] = t
        <5>1. h \in Tasks /\ \A t : waits(t) <=> t = h \/ waits1(t) BY <1>2
        <5>2. i \in Unsent(r) <=> \E t \in Tasks : t.request = r /\ t.i = i /\ waits(t) BY <3>4
        <5>3. i \in Unsent(r)' <=> \E t \in Tasks : t.request = r /\ t.i = i /\ waits1(t) BY <3>5
        <5>. HIDE DEF waits, waits1
        <5>. QED BY <5>1, <5>2, <5>3
      <4>. QED BY <4>1, <4>2
    <3>. QED BY <3>1, <3>6
  <2>. QED BY <2>2 DEF PlanInv, AllSent
<1>7. \A d \in Clients : \A i, j \in DOMAIN todo'[d] :
        i < j /\ todo'[d][i].request = todo'[d][j].request => OrderedBy(strategy, todo'[d][i], todo'[d][j])
  <2>. SUFFICES ASSUME NEW d \in Clients, NEW i \in DOMAIN todo'[d], NEW j \in DOMAIN todo'[d], i < j,
                       todo'[d][i].request = todo'[d][j].request
                PROVE  OrderedBy(strategy, todo'[d][i], todo'[d][j])
    OBVIOUS
  <2>1. CASE d = c
    <3>1. i \in DOMAIN todo'[c] /\ j \in DOMAIN todo'[c] BY <2>1
    <3>2. i + 1 \in DOMAIN todo[c] /\ j + 1 \in DOMAIN todo[c] BY <1>3, <3>1
    <3>3. i \in Int /\ j \in Int BY <1>3, <3>1
    <3>4. i + 1 < j + 1 BY <3>3
    <3>5. todo'[d][i] = todo[c][i + 1] /\ todo'[d][j] = todo[c][j + 1] BY <1>3, <2>1
    <3>. QED BY <3>2, <3>5, <3>4 DEF PlanInv, InOrder
  <2>2. CASE d # c BY <1>3, <2>2 DEF PlanInv, InOrder
  <2>. QED BY <2>1, <2>2
<1>8. \A i \in DOMAIN q, d \in Clients : \A j \in DOMAIN todo'[d] :
        q[i].request = todo'[d][j].request => OrderedBy(strategy, q[i], todo'[d][j])
  <2>. SUFFICES ASSUME NEW i \in DOMAIN q, NEW d \in Clients, NEW j \in DOMAIN todo'[d],
                       q[i].request = todo'[d][j].request
                PROVE  OrderedBy(strategy, q[i], todo'[d][j])
    OBVIOUS
  <2>1. \E k \in DOMAIN todo[d] : todo[d][k] = todo'[d][j] BY <1>0, ToSendTail
  <2>. QED BY <2>1 DEF PlanInv, InOrder, q
<1>9. CASE taskQueue' = q
  <2>1. \A i, j \in DOMAIN q : i < j /\ q[i].request = q[j].request => OrderedBy(strategy, q[i], q[j])
    BY DEF PlanInv, InOrder, q
  <2>. QED BY <1>1, <1>6, <1>7, <1>8, <1>9, <2>1 DEF InOrder
<1>10. CASE taskQueue' = Append(q, h)
  <2>1. /\ DOMAIN q = 1 .. Len(q) /\ Len(q) \in Nat
        /\ DOMAIN taskQueue' = 1 .. (Len(q) + 1)
        /\ \A i \in DOMAIN q : taskQueue'[i] = q[i]
        /\ \A i \in DOMAIN taskQueue' : i # Len(q) + 1 => i \in DOMAIN q
        /\ taskQueue'[Len(q) + 1] = h
    BY <1>1, <1>2, <1>10, AppendShape DEF q
  <2>2. \A i, j \in DOMAIN taskQueue' : i < j /\ taskQueue'[i].request = taskQueue'[j].request
          => OrderedBy(strategy, taskQueue'[i], taskQueue'[j])
    <3>. SUFFICES ASSUME NEW i \in DOMAIN taskQueue', NEW j \in DOMAIN taskQueue', i < j,
                         taskQueue'[i].request = taskQueue'[j].request
                  PROVE  OrderedBy(strategy, taskQueue'[i], taskQueue'[j])
      OBVIOUS
    <3>1. i \in DOMAIN q /\ taskQueue'[i] = q[i] BY <2>1
    <3>2. CASE j = Len(q) + 1
      <4>1. taskQueue'[j] = todo[c][1] BY <1>3, <2>1, <3>2
      <4>. QED BY <1>3, <3>1, <4>1 DEF PlanInv, InOrder, q
    <3>3. CASE j # Len(q) + 1
      <4>1. j \in DOMAIN q /\ taskQueue'[j] = q[j] BY <2>1, <3>3
      <4>. QED BY <3>1, <4>1 DEF PlanInv, InOrder, q
    <3>. QED BY <3>2, <3>3
  <2>3. \A i \in DOMAIN taskQueue', d \in Clients : \A j \in DOMAIN todo'[d] :
          taskQueue'[i].request = todo'[d][j].request => OrderedBy(strategy, taskQueue'[i], todo'[d][j])
    <3>. SUFFICES ASSUME NEW i \in DOMAIN taskQueue', NEW d \in Clients, NEW j \in DOMAIN todo'[d],
                         taskQueue'[i].request = todo'[d][j].request
                  PROVE  OrderedBy(strategy, taskQueue'[i], todo'[d][j])
      OBVIOUS
    <3>1. CASE i = Len(q) + 1
      <4>1. taskQueue'[i] = h /\ d = c BY <1>2, <2>1, <3>1
      <4>2. taskQueue'[i] = todo[c][1] /\ todo'[d][j] = todo[c][j + 1] /\ 1 < j + 1
            /\ j + 1 \in DOMAIN todo[c] /\ 1 \in DOMAIN todo[c]
        BY <1>3, <4>1
      <4>. QED BY <4>2 DEF PlanInv, InOrder
    <3>2. CASE i # Len(q) + 1
      <4>1. i \in DOMAIN q /\ taskQueue'[i] = q[i] BY <2>1, <3>2
      <4>. QED BY <1>8, <4>1
    <3>. QED BY <3>1, <3>2
  <2>. QED BY <1>1, <1>6, <1>7, <2>2, <2>3 DEF InOrder
<1>. QED BY <1>5, <1>9, <1>10

\* A request is planned: none of its tasks is anywhere yet, and all of them go to
\* one client in the order of the plan.
LEMMA PlanPlanned ==
  ASSUME PlanInv, NEW c \in Clients, NEW r \in Requests, NEW m, Planned(c, r, m),
         \A q \in Requests : q # r => strategy'[q] = strategy[q],
         m = PlanSize(r)'
  PROVE  InOrder' /\ AllSent'
<1>0. TaskInv BY DEF PlanInv
<1>1. PICK plan \in [1 .. m -> 1 .. m] :
        /\ \A k \in 1 .. m : \E i \in 1 .. m : plan[i] = k
        /\ \A i, j \in 1 .. m : i < j => Before(strategy'[r], r, plan[i], plan[j])
        /\ todo' = [todo EXCEPT ![c] = ToSend(r, plan)]
  BY DEF Planned
<1>2. /\ m \in Nat /\ m <= Len(r.keys) /\ New(r) /\ todo[c] = <<>>
      /\ UNCHANGED <<taskQueue, accepted, dropped>>
  BY DEF Planned, Requesting
<1>3. /\ todo'[c] = ToSend(r, plan)
      /\ \A d \in Clients : d # c => todo'[d] = todo[d]
      /\ \A d \in Clients : DOMAIN todo[d] = 1 .. Len(todo[d])
  BY <1>0, <1>1 DEF TaskInv, Types
<1>4. /\ DOMAIN todo'[c] = 1 .. m
      /\ \A i \in 1 .. m : todo'[c][i] = [request |-> r, i |-> plan[i]]
  BY <1>2, <1>3, ToSendShape
<1>5. \A i \in DOMAIN todo'[c] : todo'[c][i].request = r /\ todo'[c][i].i \in 1 .. m
  <2>. SUFFICES ASSUME NEW i \in 1 .. m PROVE todo'[c][i].request = r /\ todo'[c][i].i \in 1 .. m
    BY <1>4
  <2>1. todo'[c][i] = [request |-> r, i |-> plan[i]] /\ plan[i] \in 1 .. m BY <1>4
  <2>. QED BY <2>1
<1>6. /\ \A i \in DOMAIN taskQueue : taskQueue[i] \in Tasks /\ taskQueue[i] \in accepted
      /\ \A d \in Clients : \A i \in DOMAIN todo[d] : todo[d][i] \in Tasks
  BY <1>0, Elements
<1>7. \A t \in Tasks : t.request = r =>
        t \notin accepted \cup dropped /\ \A d \in Clients : \A i \in DOMAIN todo[d] : todo[d][i] # t
  BY <1>2, <1>3 DEF New, Contains
<1>8. /\ \A i \in DOMAIN taskQueue : taskQueue[i].request # r /\ taskQueue[i].request \in Requests
      /\ \A d \in Clients : \A i \in DOMAIN todo[d] :
           todo[d][i].request # r /\ todo[d][i].request \in Requests
  BY <1>6, <1>7, TaskShape
<1>9. InOrder'
  <2>1. \A t, u : t.request \in Requests /\ t.request # r =>
          (OrderedBy(strategy', t, u) <=> OrderedBy(strategy, t, u))
    BY DEF OrderedBy
  <2>2. \A i, j \in DOMAIN taskQueue : i < j /\ taskQueue[i].request = taskQueue[j].request
          => OrderedBy(strategy', taskQueue[i], taskQueue[j])
    BY <1>8, <2>1 DEF PlanInv, InOrder
  <2>3. \A d \in Clients : \A i, j \in DOMAIN todo'[d] :
          i < j /\ todo'[d][i].request = todo'[d][j].request
            => OrderedBy(strategy', todo'[d][i], todo'[d][j])
    <3>. SUFFICES ASSUME NEW d \in Clients, NEW i \in DOMAIN todo'[d], NEW j \in DOMAIN todo'[d], i < j,
                         todo'[d][i].request = todo'[d][j].request
                  PROVE  OrderedBy(strategy', todo'[d][i], todo'[d][j])
      OBVIOUS
    <3>1. CASE d = c
      <4>1. i \in 1 .. m /\ j \in 1 .. m BY <1>4, <3>1
      <4>2. todo'[d][i] = [request |-> r, i |-> plan[i]] /\ todo'[d][j] = [request |-> r, i |-> plan[j]]
        BY <1>4, <3>1, <4>1
      <4>3. Before(strategy'[r], r, plan[i], plan[j]) BY <1>1, <4>1
      <4>. QED BY <4>2, <4>3 DEF OrderedBy
    <3>2. CASE d # c BY <1>3, <1>8, <2>1, <3>2 DEF PlanInv, InOrder
    <3>. QED BY <3>1, <3>2
  <2>4. \A i \in DOMAIN taskQueue, d \in Clients : \A j \in DOMAIN todo'[d] :
          taskQueue[i].request = todo'[d][j].request => OrderedBy(strategy', taskQueue[i], todo'[d][j])
    <3>. SUFFICES ASSUME NEW i \in DOMAIN taskQueue, NEW d \in Clients, NEW j \in DOMAIN todo'[d],
                         taskQueue[i].request = todo'[d][j].request
                  PROVE  OrderedBy(strategy', taskQueue[i], todo'[d][j])
      OBVIOUS
    <3>1. CASE d = c
      <4>1. todo'[d][j].request = r BY <1>5, <3>1
      <4>. QED BY <1>8, <4>1
    <3>2. CASE d # c BY <1>3, <1>8, <2>1, <3>2 DEF PlanInv, InOrder
    <3>. QED BY <3>1, <3>2
  <2>. QED BY <1>2, <2>2, <2>3, <2>4 DEF InOrder
<1>10. AllSent'
  <2>. SUFFICES ASSUME NEW q \in Requests, Sent(q)' \cup Unsent(q)' # {}
                PROVE  Sent(q)' \cup Unsent(q)' = 1 .. PlanSize(q)'
    BY DEF AllSent
  <2>1. Sent(q)' = Sent(q) BY <1>2 DEF Sent
  <2>2. \A i : i \in Unsent(q) <=> \E t \in Tasks : t.request = q /\ t.i = i /\
          \E d \in Clients : \E j \in DOMAIN todo[d] : todo[d][j] = t
    BY DEF Unsent
  <2>3. \A i : i \in Unsent(q)' <=> \E t \in Tasks : t.request = q /\ t.i = i /\
          \E d \in Clients : \E j \in DOMAIN todo'[d] : todo'[d][j] = t
    BY DEF Unsent
  <2>4. CASE q = r
    <3>1. Sent(q) = {} BY <1>7, <2>4 DEF Sent, PlanInv, TaskInv, Types
    <3>2. ASSUME NEW i PROVE i \in Unsent(q)' <=> i \in 1 .. m
      <4>1. ASSUME NEW t \in Tasks, t.request = r, t.i = i, NEW d \in Clients,
                   NEW j \in DOMAIN todo'[d], todo'[d][j] = t
            PROVE  i \in 1 .. m
        <5>1. d = c BY <1>3, <1>7, <4>1
        <5>. QED BY <1>5, <4>1, <5>1
      <4>2. ASSUME i \in 1 .. m
            PROVE  \E t \in Tasks : t.request = r /\ t.i = i /\
                     \E d \in Clients : \E j \in DOMAIN todo'[d] : todo'[d][j] = t
        <5>1. PICK j \in 1 .. m : plan[j] = i BY <1>1, <4>2
        <5>2. todo'[c][j] = [request |-> r, i |-> i] /\ j \in DOMAIN todo'[c] BY <1>4, <5>1
        <5>3. Len(r.keys) \in Nat BY PoolAssumption
        <5>4. [request |-> r, i |-> i] \in Tasks BY <1>2, <4>2, <5>3, TaskShape
        <5>. QED BY <5>2, <5>4
      <4>. QED BY <2>3, <2>4, <4>1, <4>2
    <3>. QED BY <2>1, <2>4, <3>1, <3>2
  <2>5. CASE q # r
    <3>1. PlanSize(q)' = PlanSize(q) BY <2>5 DEF PlanSize
    <3>2. ASSUME NEW t \in Tasks, t.request = q
          PROVE  (\E d \in Clients : \E j \in DOMAIN todo'[d] : todo'[d][j] = t) <=>
                 (\E d \in Clients : \E j \in DOMAIN todo[d] : todo[d][j] = t)
      <4>1. DOMAIN todo[c] = {} BY <1>2
      <4>2. \A j \in DOMAIN todo'[c] : todo'[c][j] # t BY <1>5, <2>5, <3>2
      <4>. QED BY <1>3, <4>1, <4>2
    <3>3. Unsent(q)' = Unsent(q) BY <2>2, <2>3, <3>2
    <3>. QED BY <2>1, <3>1, <3>3 DEF PlanInv, AllSent
  <2>. QED BY <2>4, <2>5
<1>. QED BY <1>9, <1>10

\* Each step keeps the order and the positions.
LEMMA PlanStep ==
  ASSUME PlanInv, [Next]_vars
  PROVE  PlanInv'
<1>0. TaskInv /\ TaskInv' /\ Types BY TaskStep DEF PlanInv, TaskInv
<1>1. ASSUME NEW c \in Clients, NEW r \in Requests, WarmKey(c, r) PROVE InOrder' /\ AllSent'
  <2>1. Planned(c, r, Len(r.keys)) /\ strategy' = strategy /\ strategy[r] = None
    BY <1>0, <1>1, WarmKeyPlans
  <2>2. r.api = "WarmKey" BY <1>1 DEF WarmKey
  <2>3. None # "selective" BY PoolAssumption DEF Strategies
  <2>4. PlanSize(r)' = Len(r.keys) BY <2>1, <2>2, <2>3 DEF PlanSize
  <2>. QED BY <2>1, <2>4, PlanPlanned
<1>2. ASSUME NEW c \in Clients, NEW r \in Requests, WarmPattern(c, r) PROVE InOrder' /\ AllSent'
  <2>1. PICK s \in Strategies :
          Planned(c, r, Size(s, r)) /\ strategy' = [strategy EXCEPT ![r] = s]
    BY <1>0, <1>2, WarmPatternPlans
  <2>2. r.api = "WarmPattern" BY <1>2 DEF WarmPattern
  <2>3. strategy'[r] = s /\ \A q \in Requests : q # r => strategy'[q] = strategy[q]
    BY <1>0, <2>1 DEF Types
  <2>4. PlanSize(r)' = Size(s, r) BY <2>2, <2>3 DEF PlanSize, Size
  <2>. QED BY <2>1, <2>3, <2>4, PlanPlanned
<1>3. ASSUME NEW w \in Workers, Work(w) \/ Stop(w) PROVE InOrder' /\ AllSent'
  <2>1. Stays \/ Succeeds(w) \/ GivesUp(w) \/ Takes(w) BY <1>0, <1>3, WorkMoves
  <2>. QED BY <2>1, PlanKept DEF Stays, Succeeds, GivesUp, Takes, requestVars
<1>4. ASSUME \/ \E s \in Strategies : UpdateConfig(s)
             \/ PublishWarmCompletion \/ Shutdown \/ UNCHANGED vars
      PROVE  InOrder' /\ AllSent'
  <2>1. UNCHANGED <<strategy, todo, accepted, dropped, taskQueue>>
    BY <1>4 DEF UpdateConfig, Requesting, PublishWarmCompletion, Shutdown, requestVars, vars
  <2>. QED BY <2>1, PlanKept
<1>5. InOrder' /\ AllSent' BY <1>1, <1>2, <1>3, <1>4, PlanQueue DEF Next
<1>. QED BY <1>0, <1>5 DEF PlanInv

(***************************************************************************)
(* Tasks of one request wait in the order of the strategy that planned it, *)
(* and when its client has sent them all, the positions it sent are those  *)
(* up to the limit (and the cap of a selective plan), for every strategy,  *)
(* whatever the default strategy and the other clients do meanwhile.       *)
(***************************************************************************)
THEOREM QueueKeepsThePlan == Spec => []QueueFollowsPlan
<1>1. Init => PlanInv BY PlanInit
<1>2. PlanInv /\ [Next]_vars => PlanInv' BY PlanStep
<1>3. PlanInv => QueueFollowsPlan
  <2>. SUFFICES ASSUME PlanInv PROVE QueueFollowsPlan
    OBVIOUS
  <2>1. \A i, j \in DOMAIN taskQueue :
          i < j /\ taskQueue[i].request = taskQueue[j].request => InPlanOrder(taskQueue[i], taskQueue[j])
    <3>1. \A i \in DOMAIN taskQueue : taskQueue[i] \in Tasks BY Elements DEF PlanInv
    <3>. QED BY <3>1, OrderOfPositions DEF PlanInv, InOrder
  <2>2. ASSUME NEW r \in Requests, Sent(r) # {},
               \A c \in Clients : \A i \in DOMAIN todo[c] : todo[c][i].request # r
        PROVE  Sent(r) = 1 .. PlanSize(r)
    <3>1. Unsent(r) = {} BY <2>2 DEF Unsent
    <3>. QED BY <2>2, <3>1 DEF PlanInv, AllSent
  <2>. QED BY <2>1, <2>2 DEF QueueFollowsPlan, Sent, PlanSize
<1>. QED BY <1>1, <1>2, <1>3, PTL DEF Spec
=============================================================================

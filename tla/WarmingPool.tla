---------------------------- MODULE WarmingPool ------------------------------
(***************************************************************************)
(* Cache warming: requests put tasks into a bounded channel, a fixed pool  *)
(* of workers executes them, each with deduplication, a rate limit, a      *)
(* fetch from the source, an emergency stop and a cache write, and failed  *)
(* tasks are retried (warming/worker_pool.go, warming/service.go).  The    *)
(* fetcher and the cache client have been injected; the metrics are left   *)
(* out.  Nothing in the repository but tests records accesses with the     *)
(* predictor, which therefore predicts nothing: TriggerPredictive, the     *)
(* cron jobs and a WarmPattern without keys queue no task.                 *)
(***************************************************************************)
EXTENDS WarmingPlan, FiniteSets

CONSTANTS
  Requests,           \* [api, keys, strategy, limit]: api "WarmKey" or "WarmPattern";
                      \* strategy None if the request names none
  Workers,            \* the workers the pool was made with
  Clients,            \* goroutines that serve requests
  QueueSize,          \* capacity of taskQueue
  RetryAttempts,      \* Config.RetryAttempts
  OriginTimeout,      \* Config.OriginTimeout
  EmergencyThreshold, \* Config.EmergencyThreshold
  Delays,             \* how long a goroutine may be held up between two statements
  None                \* nothing

ASSUME PoolAssumption ==
  /\ \A r \in Requests : r.api \in {"WarmKey", "WarmPattern"} /\ r.keys \in Seq(Keys) \ {<< >>}
                         /\ r.strategy \in Strategies \cup {None} /\ r.limit \in Int
  /\ QueueSize \in Nat /\ RetryAttempts \in Nat \ {0}
  /\ OriginTimeout \in Nat /\ EmergencyThreshold \in Nat
  /\ Delays \subseteq Nat
  /\ IsFiniteSet(Workers) /\ Workers # {} /\ None \notin Workers \cup Strategies

\* A task is made for the i-th key of a request.
Tasks == UNION {{[request |-> r, i |-> i] : i \in 1 .. Len(r.keys)} : r \in Requests}
TaskKey(t) == t.request.keys[t.i]

VARIABLES
  taskQueue,      \* the channel
  stopChan,       \* whether it has been closed
  emergencyStop,
  defaultStrategy,\* Config.DefaultStrategy
  strategy,       \* request -> the strategy that planned it, or None
  todo,           \* client -> the tasks it has not sent yet
  deduper,        \* key -> the worker whose execution the others join, or None
  pc,             \* where each worker is
  task,           \* the task it has taken
  attempt,        \* 0 the first time, then the number of the retry
  publishing,     \* tasks whose success is being published by a goroutine
  cached,         \* keys written to the cache
  completed,      \* history: the completion events, <<task, status>>
  accepted,       \* history: tasks the channel took
  dropped,        \* history: tasks it had no room for
  lateFetches     \* history: fetches started after the emergency stop

requestVars == <<defaultStrategy, strategy, todo>>
vars == <<taskQueue, stopChan, emergencyStop, requestVars, deduper, pc, task, attempt,
          publishing, cached, completed, accepted, dropped, lateFetches>>

Init ==
  /\ taskQueue = <<>>
  /\ stopChan = FALSE
  /\ emergencyStop = FALSE
  /\ defaultStrategy = "priority"
  /\ strategy = [r \in Requests |-> None]
  /\ todo = [c \in Clients |-> <<>>]
  /\ deduper = [k \in Keys |-> None]
  /\ pc = [w \in Workers |-> "idle"]
  /\ task = [w \in Workers |-> None]
  /\ attempt = [w \in Workers |-> 0]
  /\ publishing = {}
  /\ cached = {}
  /\ completed = {}
  /\ accepted = {}
  /\ dropped = {}
  /\ lateFetches = 0

-----------------------------------------------------------------------------
Goto(w, step) == pc' = [pc EXCEPT ![w] = step]

\* Nobody has made this request yet.
New(r) ==
  \A t \in Tasks : t.request = r =>
    t \notin accepted \cup dropped /\ \A c \in Clients : ~Contains(todo[c], t)

Requesting == UNCHANGED <<taskQueue, stopChan, emergencyStop, deduper, pc, task, attempt,
                          publishing, cached, completed, accepted, dropped, lateFetches>>

(* The requests. *)

\* The tasks for the positions of a plan.
ToSend(r, plan) == [i \in DOMAIN plan |-> [request |-> r, i |-> plan[i]]]

\* One task for each key, in the order of the request; refused in an emergency.
WarmKey(c, r) ==
  /\ r.api = "WarmKey" /\ New(r) /\ todo[c] = <<>>
  /\ ~emergencyStop
  /\ todo' = [todo EXCEPT ![c] = ToSend(r, [i \in DOMAIN r.keys |-> i])]
  /\ Requesting /\ UNCHANGED <<defaultStrategy, strategy>>

\* The limit cuts the list of keys before the strategy sees it.
KeysToWarm(r) ==
  IF r.limit > 0 /\ Len(r.keys) > r.limit THEN SubSeq(r.keys, 1, r.limit) ELSE r.keys

\* A strategy that does not exist is an error and changes nothing.
WarmPattern(c, r) ==
  /\ r.api = "WarmPattern" /\ New(r) /\ todo[c] = <<>>
  /\ ~emergencyStop
  /\ LET s == IF r.strategy = None THEN defaultStrategy ELSE r.strategy IN
       /\ strategy' = [strategy EXCEPT ![r] = s]
       /\ \E plan \in Plans(s, KeysToWarm(r), r.limit) :
            todo' = [todo EXCEPT ![c] = ToSend(r, plan)]
  /\ Requesting /\ UNCHANGED defaultStrategy

\* UpdateConfig; the other fields it sets affect only the rate limiter and
\* estimates of the time a request will take.
UpdateConfig(s) ==
  /\ defaultStrategy # s
  /\ defaultStrategy' = s
  /\ Requesting /\ UNCHANGED <<strategy, todo>>

QueueTasksUnchecked(c) ==  \* mistake: a task counts as queued when it was dropped
  /\ todo[c] # <<>>
  /\ todo' = [todo EXCEPT ![c] = Tail(@)]
  /\ taskQueue' = IF Len(taskQueue) < QueueSize THEN Append(taskQueue, Head(todo[c])) ELSE taskQueue
  /\ accepted' = accepted \cup {Head(todo[c])}
  /\ UNCHANGED <<stopChan, emergencyStop, defaultStrategy, strategy, deduper, pc, task, attempt,
                 publishing, cached, completed, dropped, lateFetches>>

\* A full channel drops the task; the caller is told how many it took.
QueueTasks(c) ==
  /\ todo[c] # <<>>
  /\ todo' = [todo EXCEPT ![c] = Tail(@)]
  /\ LET t == Head(todo[c]) IN
       IF Len(taskQueue) < QueueSize
       THEN /\ taskQueue' = Append(taskQueue, t)
            /\ accepted' = accepted \cup {t}
            /\ UNCHANGED dropped
       ELSE /\ dropped' = dropped \cup {t}
            /\ UNCHANGED <<taskQueue, accepted>>
  /\ UNCHANGED <<stopChan, emergencyStop, defaultStrategy, strategy, deduper, pc, task, attempt,
                 publishing, cached, completed, lateFetches>>

Shutdown ==
  /\ ~stopChan
  /\ stopChan' = TRUE
  /\ UNCHANGED <<taskQueue, emergencyStop, requestVars, deduper, pc, task, attempt, publishing, cached,
                 completed, accepted, dropped, lateFetches>>

(* The worker loop. *)

Stop(w) ==
  /\ pc[w] = "idle" /\ stopChan
  /\ Goto(w, "stopped")
  /\ UNCHANGED <<taskQueue, stopChan, emergencyStop, requestVars, deduper, task, attempt, publishing,
                 cached, completed, accepted, dropped, lateFetches>>

\* With the channel both closed and not empty, either may be chosen.
Take(w) ==
  /\ pc[w] = "idle" /\ taskQueue # <<>>
  /\ task' = [task EXCEPT ![w] = Head(taskQueue)]
  /\ taskQueue' = Tail(taskQueue)
  /\ Goto(w, "execute")
  /\ UNCHANGED <<stopChan, emergencyStop, requestVars, deduper, attempt, publishing, cached, completed,
                 accepted, dropped, lateFetches>>

FinishTask(w) ==
  /\ pc[w] = "finish"
  /\ task' = [task EXCEPT ![w] = None]
  /\ attempt' = [attempt EXCEPT ![w] = 0]
  /\ Goto(w, "idle")
  /\ UNCHANGED <<taskQueue, stopChan, emergencyStop, requestVars, deduper, publishing, cached, completed,
                 accepted, dropped, lateFetches>>

RetryForever(w) ==  \* mistake: the attempts are not counted
  /\ pc[w] = "failed"
  /\ Goto(w, "execute")
  /\ UNCHANGED <<taskQueue, stopChan, emergencyStop, requestVars, deduper, task, attempt, publishing,
                 cached, completed, accepted, dropped, lateFetches>>

\* retryTask: after a pause the task is executed again; the last failure is final.
RetryTask(w) ==
  /\ pc[w] = "failed"
  /\ IF attempt[w] < RetryAttempts
     THEN /\ attempt' = [attempt EXCEPT ![w] = @ + 1]
          /\ Goto(w, "execute")
          /\ UNCHANGED completed
     ELSE /\ completed' = completed \cup {<<task[w], "failure">>}
          /\ Goto(w, "finish")
          /\ UNCHANGED attempt
  /\ UNCHANGED <<taskQueue, stopChan, emergencyStop, requestVars, deduper, task, publishing, cached,
                 accepted, dropped, lateFetches>>

(* ExecuteWarmTask. *)

ExecuteUnchecked(w) ==  \* mistake: the emergency stop is not looked at
  /\ pc[w] = "execute"
  /\ Goto(w, "do")
  /\ UNCHANGED <<taskQueue, stopChan, emergencyStop, requestVars, deduper, task, attempt, publishing,
                 cached, completed, accepted, dropped, lateFetches>>

Execute(w) ==
  /\ pc[w] = "execute"
  /\ Goto(w, IF emergencyStop THEN "failed" ELSE "do")
  /\ UNCHANGED <<taskQueue, stopChan, emergencyStop, requestVars, deduper, task, attempt, publishing,
                 cached, completed, accepted, dropped, lateFetches>>

\* Join the execution for this key, or start one.
Do(w) ==
  /\ pc[w] = "do"
  /\ LET k == TaskKey(task[w]) IN
       IF deduper[k] # None
       THEN Goto(w, "wait") /\ UNCHANGED deduper
       ELSE Goto(w, "limit") /\ deduper' = [deduper EXCEPT ![k] = w]
  /\ UNCHANGED <<taskQueue, stopChan, emergencyStop, requestVars, task, attempt, publishing, cached,
                 completed, accepted, dropped, lateFetches>>

Sharers(w) ==
  {w} \cup {v \in Workers : pc[v] = "wait" /\ TaskKey(task[v]) = TaskKey(task[w])}

\* The execution w leads ends, and with it the call of everyone who joined it.
Succeed(w) ==
  /\ deduper' = [deduper EXCEPT ![TaskKey(task[w])] = None]
  /\ pc' = [v \in Workers |-> IF v \in Sharers(w) THEN "finish" ELSE pc[v]]
  /\ publishing' = publishing \cup {task[v] : v \in Sharers(w)}

FailAlone(w) ==  \* mistake: those who joined are not told of a failure
  /\ deduper' = [deduper EXCEPT ![TaskKey(task[w])] = None]
  /\ pc' = [pc EXCEPT ![w] = "failed"]
  /\ UNCHANGED publishing

Fail(w) ==
  /\ deduper' = [deduper EXCEPT ![TaskKey(task[w])] = None]
  /\ pc' = [v \in Workers |-> IF v \in Sharers(w) THEN "failed" ELSE pc[v]]
  /\ UNCHANGED publishing

(* executeWarmTaskInternal: an error ends it at once. *)

\* The rate limiter grants a slot, or the context expires first.
Limit(w) ==
  /\ pc[w] = "limit"
  /\ \/ /\ Goto(w, "fetch")
        /\ lateFetches' = IF emergencyStop THEN lateFetches + 1 ELSE lateFetches
        /\ UNCHANGED <<deduper, publishing>>
     \/ Fail(w) /\ UNCHANGED lateFetches
  /\ UNCHANGED <<taskQueue, stopChan, emergencyStop, requestVars, task, attempt, cached, completed,
                 accepted, dropped>>

\* The source answers within the timeout, or the fetch fails.
Fetch(w) ==
  /\ pc[w] = "fetch"
  /\ \/ Goto(w, "check") /\ UNCHANGED <<deduper, publishing>>
     \/ Fail(w)
  /\ UNCHANGED <<taskQueue, stopChan, emergencyStop, requestVars, task, attempt, cached, completed,
                 accepted, dropped, lateFetches>>

\* fetchDuration is the time since (now - OriginTimeout): the timeout and what
\* passes between the two readings of the clock, however long the fetch took.
CheckLatency(w) ==
  /\ pc[w] = "check"
  /\ \E d \in Delays :
       IF OriginTimeout + d > EmergencyThreshold
       THEN emergencyStop' = TRUE /\ Fail(w)
       ELSE Goto(w, "write") /\ UNCHANGED <<emergencyStop, deduper, publishing>>
  /\ UNCHANGED <<taskQueue, stopChan, requestVars, task, attempt, cached, completed, accepted, dropped,
                 lateFetches>>

WriteIgnored(w) ==  \* mistake: an error of the cache is ignored
  /\ pc[w] = "write"
  /\ \/ cached' = cached \cup {TaskKey(task[w])}
     \/ UNCHANGED cached
  /\ Succeed(w)
  /\ UNCHANGED <<taskQueue, stopChan, emergencyStop, requestVars, task, attempt, completed, accepted,
                 dropped, lateFetches>>

Write(w) ==
  /\ pc[w] = "write"
  /\ \/ cached' = cached \cup {TaskKey(task[w])} /\ Succeed(w)
     \/ UNCHANGED cached /\ Fail(w)
  /\ UNCHANGED <<taskQueue, stopChan, emergencyStop, requestVars, task, attempt, completed, accepted,
                 dropped, lateFetches>>

\* The goroutine that publishes a success.
PublishWarmCompletion ==
  \E t \in publishing :
    /\ publishing' = publishing \ {t}
    /\ completed' = completed \cup {<<t, "success">>}
    /\ UNCHANGED <<taskQueue, stopChan, emergencyStop, requestVars, deduper, pc, task, attempt, cached,
                   accepted, dropped, lateFetches>>

-----------------------------------------------------------------------------
Work(w) ==
  \/ Take(w) \/ Execute(w) \/ Do(w) \/ Limit(w) \/ Fetch(w) \/ CheckLatency(w) \/ Write(w)
  \/ RetryTask(w) \/ FinishTask(w)

Next ==
  \/ \E w \in Workers : Work(w) \/ Stop(w)
  \/ \E c \in Clients : QueueTasks(c)
  \/ \E c \in Clients, r \in Requests : WarmKey(c, r) \/ WarmPattern(c, r)
  \/ \E s \in Strategies : UpdateConfig(s)
  \/ PublishWarmCompletion
  \/ Shutdown

Spec == Init /\ [][Next]_vars

\* Workers and publishing goroutines keep running; a select that can stop the
\* worker again and again does so in the end.
LiveSpec ==
  /\ Spec
  /\ \A w \in Workers : WF_vars(Work(w)) /\ SF_vars(Stop(w))
  /\ WF_vars(PublishWarmCompletion)
-----------------------------------------------------------------------------
Queued == {taskQueue[i] : i \in 1 .. Len(taskQueue)}

\* Workers whose task has no outcome yet.
Busy == {w \in Workers : pc[w] \notin {"idle", "stopped", "finish"}}

\* The strategy of a request lets t go first, or sees no difference.
InPlanOrder(t, u) ==
  LET keys == KeysToWarm(t.request) IN
  CASE strategy[t.request] = "breadth"  -> keyDepth[TaskKey(t)] <= keyDepth[TaskKey(u)]
    [] strategy[t.request] = "priority" -> priority(keys, t.i) >= priority(keys, u.i)
    [] OTHER                            -> t.i <= u.i

\* However the default strategy changes and requests interleave, the tasks of
\* a request wait in the queue in the order of the strategy that planned it,
\* and once they have been sent each key within the limit has been queued or
\* dropped, and no other (a selective plan has at most PlanCap).
QueueFollowsPlan ==
  /\ \A i, j \in DOMAIN taskQueue :
       i < j /\ taskQueue[i].request = taskQueue[j].request => InPlanOrder(taskQueue[i], taskQueue[j])
  /\ \A r \in Requests :
       LET sent == {t.i : t \in {t \in accepted \cup dropped : t.request = r}}
           n == Limited(r.limit, Len(r.keys)) IN
       sent # {} /\ (\A c \in Clients : \A i \in DOMAIN todo[c] : todo[c][i].request # r)
         => sent = 1 .. IF strategy[r] = "selective" /\ n > PlanCap THEN PlanCap
                        ELSE IF r.api = "WarmKey" THEN Len(r.keys) ELSE n

\* How many places account for a task: the queue, a worker, the goroutine that
\* publishes its success, and its completion events.
Places(t) ==
  Cardinality({i \in 1 .. Len(taskQueue) : taskQueue[i] = t})
  + Cardinality({w \in Busy : task[w] = t})
  + (IF t \in publishing THEN 1 ELSE 0)
  + Cardinality({s \in {"success", "failure"} : <<t, s>> \in completed})

\* A task the queue has taken is neither lost nor done twice nor reported as
\* both success and failure, through retries, sharing and shutdown; one that
\* the queue dropped leaves no trace.
OneOutcome == \A t \in Tasks : Places(t) = IF t \in accepted THEN 1 ELSE 0

\* A task reported as a success has its key in the cache, also when it only
\* joined the execution of another task for the key.
WarmedBeforeSuccess ==
  \A t \in Tasks : t \in publishing \/ <<t, "success">> \in completed => TaskKey(t) \in cached

\* The emergency stop protects the source: after it every worker but the one
\* that pulled it starts at most the one fetch it had already decided on.
StopIsRespected == lateFetches <= Cardinality(Workers) - 1

\* Every task the queue has taken is reported in the end, unless the service
\* is shut down first.
EveryTaskReported ==
  \A t \in Tasks :
    t \in accepted ~> stopChan \/ <<t, "success">> \in completed \/ <<t, "failure">> \in completed

\* Shutdown returns: all workers stop, also with tasks left in the queue and
\* executions that others wait for.
ShutdownReturns == stopChan ~> \A w \in Workers : pc[w] = "stopped"
=============================================================================

--------------------------- MODULE MetricsCollector ---------------------------
(***************************************************************************)
(* The metrics collector of the monitoring service (monitoring/metrics.go) *)
(* and the Pub/Sub handlers that feed it (monitoring/service.go).          *)
(*                                                                         *)
(* Handlers run concurrently and nothing orders their calls of             *)
(* RecordMetric: counters are atomic words, latency samples go to a ring   *)
(* buffer whose slots are claimed by compare-and-swap and then written     *)
(* without a lock, and the time series is a map of one-second buckets      *)
(* behind a mutex.  GetAll copies the ring without excluding writers.      *)
(*                                                                         *)
(* A latency sample is named by the number of the claim that made room     *)
(* for it, so that its slot is (n - 1) % Size; 0 is the zero Sample of a   *)
(* slot that was never written.                                            *)
(***************************************************************************)
EXTENDS Integers, Sequences, FiniteSets

CONSTANTS Handlers,        \* goroutines of the three subscriptions
          Events,          \* published events: records with a topic
          Size,            \* slots of the ring (10000 in the code)
          Retention,       \* MetricsRetention, in seconds
          CleanupPeriod,   \* seconds between clean-ups of the time series
          MaxDeliveries,   \* bound: deliveries of one event
          MaxTime          \* bound: the clock

ASSUME CollectorAssumption ==
  /\ Size \in Nat \ {0}
  /\ Retention \in Nat /\ CleanupPeriod \in Nat /\ MaxTime \in Nat
  /\ MaxDeliveries \in Nat

Counters == {"hit", "miss", "set", "delete", "invalidation", "warming", "error"}

\* The kinds a bucket keeps a total of (it has no sets, deletes or evictions).
Kept == {"hit", "miss", "latency", "error", "invalidation", "warming"}

Torn == -1  \* a Sample read while it is written: part old, part new

VARIABLES
  now, sent, deliveries,       \* clock; time each event was published (-1: not yet)
  counters,                    \* the atomic counters
  buffer, head, tail,          \* the ring
  buckets, lastCleanup,        \* the time series: second -> kind -> total
  pc, cur, todo, my,           \* handlers: step, event, metrics left, Add's locals
  rpc, rhead, ri, result,      \* a call of GetAll
  claimed, late, disturbed,    \* history: claims; slots an overtaken Add wrote last;
                               \* an Add was under way during the GetAll
  series                       \* history: metrics added to the time series

ringVars == <<buffer, head, tail, claimed, late>>
seriesVars == <<buckets, lastCleanup, series>>
readerVars == <<rpc, rhead, ri, result>>
vars == <<now, sent, deliveries, counters, ringVars, seriesVars, pc, cur, todo,
          my, readerVars, disturbed>>

Slots == 0 .. Size - 1
Next1(i) == (i + 1) % Size

Init ==
  /\ now = 0
  /\ sent = [e \in Events |-> -1]
  /\ deliveries = [e \in Events |-> 0]
  /\ counters = [c \in Counters |-> 0]
  /\ buffer = [i \in Slots |-> 0] /\ head = 0 /\ tail = 0
  /\ buckets = << >> /\ lastCleanup = 0
  /\ pc = [h \in Handlers |-> "idle"]
  /\ cur = [h \in Handlers |-> CHOOSE e \in Events : TRUE]
  /\ todo = [h \in Handlers |-> << >>]
  /\ my = [h \in Handlers |-> [head |-> 0, tail |-> 0, sample |-> 0]]
  /\ rpc = "idle" /\ rhead = 0 /\ ri = 0 /\ result = << >>
  /\ claimed = 0 /\ late = {} /\ disturbed = FALSE
  /\ series = [t \in 0 .. MaxTime |-> [k \in Kept |-> 0]]

-------------------------------------------------------------------------------
(* Pub/Sub: at-least-once, late, in any order, concurrently. *)

Publish(e) ==
  /\ sent[e] = -1
  /\ sent' = [sent EXCEPT ![e] = now]
  /\ UNCHANGED <<now, deliveries, counters, ringVars, seriesVars, pc, cur, todo,
                 my, readerVars, disturbed>>

HandleCacheMetric(e) ==
  (IF e.op = "get" THEN <<IF e.hit THEN "hit" ELSE "miss">>
   ELSE IF e.op \in {"set", "delete"} THEN <<e.op>> ELSE << >>)
  \o (IF e.latency THEN <<"latency">> ELSE << >>)

HandleWarmCompleted(e) ==
  <<"warming", "latency">> \o (IF e.ok THEN << >> ELSE <<"error">>)

HandleInvalidationMetric(e) == <<"invalidation", "latency">>

\* The calls of RecordMetric an event leads to.
Metrics(e) ==
  CASE e.topic = "cache"        -> HandleCacheMetric(e)
    [] e.topic = "warming"      -> HandleWarmCompleted(e)
    [] e.topic = "invalidation" -> HandleInvalidationMetric(e)

\* What a call adds to its counter; an invalidation counts keys.
Value(e, kind) == IF kind = "invalidation" THEN e.keys ELSE 1

Deliver(h, e) ==
  /\ pc[h] = "idle"
  /\ sent[e] >= 0 /\ deliveries[e] < MaxDeliveries
  /\ deliveries' = [deliveries EXCEPT ![e] = @ + 1]
  /\ cur' = [cur EXCEPT ![h] = e]
  /\ todo' = [todo EXCEPT ![h] = Metrics(e)]
  /\ pc' = [pc EXCEPT ![h] = IF Metrics(e) = << >> THEN "idle" ELSE "record"]
  /\ UNCHANGED <<now, sent, counters, ringVars, seriesVars, my, readerVars, disturbed>>

-------------------------------------------------------------------------------
(* RecordMetric: the counter or the ring first, then the time series. *)

Goto(h, from, to) == pc[h] = from /\ pc' = [pc EXCEPT ![h] = to]
Handling(h) == UNCHANGED <<now, sent, deliveries, cur, todo, readerVars>>

Count(h) ==
  /\ Goto(h, "record", "series")
  /\ Head(todo[h]) # "latency"
  /\ counters' = [counters EXCEPT ![Head(todo[h])] = @ + Value(cur[h], Head(todo[h]))]
  /\ Handling(h) /\ UNCHANGED <<ringVars, seriesVars, my, disturbed>>

\* RingBuffer.Add: load the head, or load it again after a failed swap.
AddLoad(h) ==
  /\ Goto(h, "record", "claim")
  /\ Head(todo[h]) = "latency"
  /\ my' = [my EXCEPT ![h].head = head]
  /\ disturbed' = TRUE
  /\ Handling(h) /\ UNCHANGED <<counters, ringVars, seriesVars>>

\* mistake: the head is stored, not swapped.
AddClaimStore(h) ==
  /\ Goto(h, "claim", "write")
  /\ head' = Next1(my[h].head)
  /\ claimed' = claimed + 1
  /\ my' = [my EXCEPT ![h].sample = claimed + 1]
  /\ Handling(h) /\ UNCHANGED <<counters, buffer, tail, late, seriesVars, disturbed>>

AddClaim(h) ==
  /\ Goto(h, "claim", "write")
  /\ head = my[h].head
  /\ head' = Next1(head)
  /\ claimed' = claimed + 1
  /\ my' = [my EXCEPT ![h].sample = claimed + 1]
  /\ Handling(h) /\ UNCHANGED <<counters, buffer, tail, late, seriesVars, disturbed>>

AddRetry(h) ==
  /\ Goto(h, "claim", "record")
  /\ head # my[h].head
  /\ Handling(h) /\ UNCHANGED <<counters, ringVars, seriesVars, my, disturbed>>

\* Handlers that are writing slot i.
WritingTo(i) == {h \in Handlers : pc[h] = "write" /\ my[h].head = i}

\* The plain write of the slot.  A writer that was overtaken by a whole lap
\* writes over a newer sample, or mixes with a write of the same slot.
AddWrite(h) ==
  /\ Goto(h, "write", "tail")
  /\ LET i == my[h].head IN
       /\ \E v \in {my[h].sample} \cup (IF WritingTo(i) = {h} THEN {} ELSE {Torn}) :
            buffer' = [buffer EXCEPT ![i] = v]
       /\ late' = IF my[h].sample + Size > claimed /\ WritingTo(i) = {h}
                  THEN late \ {i} ELSE late \cup {i}
  /\ Handling(h) /\ UNCHANGED <<counters, head, tail, claimed, seriesVars, my, disturbed>>

AddLoadTail(h) ==
  /\ Goto(h, "tail", IF Next1(my[h].head) > tail THEN "swap" ELSE "series")
  /\ my' = [my EXCEPT ![h].tail = tail]
  /\ Handling(h) /\ UNCHANGED <<counters, ringVars, seriesVars, disturbed>>

\* One attempt only: the tail may lag.
AddSwapTail(h) ==
  /\ Goto(h, "swap", "series")
  /\ tail' = IF tail = my[h].tail THEN Next1(my[h].head) ELSE tail
  /\ Handling(h)
  /\ UNCHANGED <<counters, buffer, head, claimed, late, seriesVars, my, disturbed>>

\* mistake: the bucket at the cutoff goes too.
CleanedTooMuch(b) ==
  IF now - lastCleanup > CleanupPeriod
  THEN [t \in {t \in DOMAIN b : t > now - Retention} |-> b[t]] ELSE b

\* cleanup: what is left of the buckets.
Cleaned(b) ==
  IF now - lastCleanup > CleanupPeriod
  THEN [t \in {t \in DOMAIN b : t >= now - Retention} |-> b[t]] ELSE b

\* TimeSeries.Add under its lock, with the periodic clean-up at its end.
SeriesAdd(h) ==
  LET t == sent[cur[h]]
      kind == Head(todo[h])
      empty == [k \in Kept |-> 0]
      bucket == IF t \in DOMAIN buckets THEN buckets[t] ELSE empty
      counted == IF kind \in Kept THEN [bucket EXCEPT ![kind] = @ + 1] ELSE bucket
  IN
  /\ Goto(h, "series", IF Len(todo[h]) = 1 THEN "idle" ELSE "record")
  /\ todo' = [todo EXCEPT ![h] = Tail(@)]
  /\ buckets' = Cleaned([s \in DOMAIN buckets \cup {t} |->
                           IF s = t THEN counted ELSE buckets[s]])
  /\ lastCleanup' = IF now - lastCleanup > CleanupPeriod THEN now ELSE lastCleanup
  /\ series' = IF kind \in Kept THEN [series EXCEPT ![t][kind] = @ + 1] ELSE series
  /\ UNCHANGED <<now, sent, deliveries, counters, ringVars, cur, my, readerVars,
                 disturbed>>

-------------------------------------------------------------------------------
(* RingBuffer.GetAll; its read lock excludes no writer. *)

InAdd(h) == pc[h] \in {"claim", "write", "tail", "swap"}
Reading == UNCHANGED <<now, sent, deliveries, counters, ringVars, seriesVars, pc,
                       cur, todo, my>>

GetAllHead ==
  /\ rpc \in {"idle", "done"}
  /\ rpc' = "tail" /\ rhead' = head /\ result' = << >>
  /\ disturbed' = \E h \in Handlers : InAdd(h)
  /\ UNCHANGED ri /\ Reading

GetAllTail ==
  /\ rpc = "tail"
  /\ ri' = tail
  /\ rpc' = IF rhead = tail THEN "done" ELSE "copy"
  /\ UNCHANGED <<rhead, result, disturbed>> /\ Reading

\* One iteration of the loop; a slot may be written at the same time.
GetAllCopy ==
  /\ rpc = "copy"
  /\ \E v \in {buffer[ri]} \cup {my[h].sample : h \in WritingTo(ri)}
              \cup (IF WritingTo(ri) = {} THEN {} ELSE {Torn}) :
       result' = Append(result, v)
  /\ ri' = Next1(ri)
  /\ rpc' = IF Next1(ri) = rhead THEN "done" ELSE "copy"
  /\ UNCHANGED <<rhead, disturbed>> /\ Reading

Tick ==
  /\ now < MaxTime
  /\ now' = now + 1
  /\ UNCHANGED <<sent, deliveries, counters, ringVars, seriesVars, pc, cur, todo,
                 my, readerVars, disturbed>>

HandlerStep(h) ==
  \/ Count(h) \/ AddLoad(h) \/ AddClaim(h) \/ AddRetry(h) \/ AddWrite(h)
  \/ AddLoadTail(h) \/ AddSwapTail(h) \/ SeriesAdd(h)

Next ==
  \/ \E e \in Events : Publish(e)
  \/ \E h \in Handlers, e \in Events : Deliver(h, e)
  \/ \E h \in Handlers : HandlerStep(h)
  \/ GetAllHead \/ GetAllTail \/ GetAllCopy
  \/ Tick

Spec == Init /\ [][Next]_vars

-------------------------------------------------------------------------------
(***************************************************************************)
(* GetLatencyStats, the alerts on latency and the histogram of the         *)
(* dashboard are computed from GetAll.  What it returns while no Add is    *)
(* under way are the newest samples, oldest first and without a gap,       *)
(* however the Adds before it raced for slots and for the tail, unless one *)
(* of them was overtaken by a whole lap of the ring.  (How many samples it *)
(* returns is another matter: often none.)                                 *)
(***************************************************************************)
WindowIsNewest ==
  rpc = "done" /\ ~disturbed /\ late = {} =>
    \A i \in 1 .. Len(result) : result[i] = claimed - Len(result) + i

(***************************************************************************)
(* Queries over more than a minute read the time series: no metric whose   *)
(* timestamp lies within the retention is missing from its bucket or       *)
(* counted twice, whatever arrives late and whoever triggers a clean-up.   *)
(***************************************************************************)
SeriesComplete ==
  \A t \in 0 .. MaxTime : t >= now - Retention =>
    series[t] = IF t \in DOMAIN buckets THEN buckets[t] ELSE [k \in Kept |-> 0]
===============================================================================

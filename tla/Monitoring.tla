------------------------------ MODULE Monitoring ------------------------------
(***************************************************************************)
(* The aggregator and the alert manager of the monitoring service          *)
(* (monitoring/aggregator.go, alerts.go, service.go, dashboard.go).        *)
(*                                                                         *)
(* Two background goroutines: the aggregator turns the collector's         *)
(* counters into a snapshot every second and puts it into sliding windows, *)
(* the alert manager evaluates its rules on the newest snapshot.  Requests *)
(* read windows, time series and alerts, each under a lock of its own.     *)
(* How the collector itself behaves is MetricsCollector: here a metric is  *)
(* counted in one step.                                                    *)
(***************************************************************************)
EXTENDS Integers, Sequences, FiniteSets, SequencesExt

CONSTANTS Windows,         \* seconds the sliding windows cover (1, 10, 60)
          EvalEvery,       \* AlertEvalInterval, in seconds
          MinRequests,     \* requests needed to judge the hit rate (100)
          P95s,            \* P95 latencies the ring buffer may yield, in ms
          KeepResolved,    \* resolved alerts the manager keeps (100)
          RecentLimit,     \* resolved alerts a reply holds (10)
          MaxTime,         \* bound: the clock, which then stands still
          MaxTraffic       \* bound: metrics recorded

ASSUME MonitoringAssumption ==
  /\ Windows \subseteq Nat /\ \E d \in Windows : \A e \in Windows : e <= d
  /\ EvalEvery \in Nat \ {0} /\ MinRequests \in Nat /\ P95s \subseteq Nat
  /\ KeepResolved \in Nat \ {0} /\ RecentLimit \in Nat /\ RecentLimit <= KeepResolved
  /\ MaxTime \in Nat /\ MaxTraffic \in Nat

Kinds == {"hit", "miss", "error"}
Rules == <<"high_error_rate", "low_hit_rate", "latency_spike", "high_eviction_rate">>
Longest == CHOOSE d \in Windows : \A e \in Windows : e <= d

VARIABLES
  now, ticks,            \* clock; tickers whose channel holds a tick
  counters, p95, traffic,\* the collector: counters; P95 of what the ring yields; metrics so far
  windows,               \* duration -> the snapshots its circular buffer holds, oldest first
  agg,                   \* the aggregator: step and the snapshot it builds
  active, resolved,      \* alerts: rule -> episode; ended episodes, oldest first
  stats,                 \* TotalTriggered and TotalResolved
  am,                    \* the alert manager: step, verdict on the latest snapshot, rule
  call,                  \* a GetAlerts request
  taken                  \* history: times of the last snapshots stored

alertVars == <<active, resolved, stats>>
vars == <<now, ticks, counters, p95, traffic, windows, agg, alertVars, am, call, taken>>

NoSnapshot == [t |-> -1, hits |-> 0, misses |-> 0, errors |-> 0, p95 |-> 0]

\* mistake: one snapshot too few.
CapacityShort(d) == d

\* NewSlidingWindow: room for one snapshot a second, both ends included.
Capacity(d) == d + 1

Init ==
  /\ now = 0 /\ ticks = {}
  /\ counters = [k \in Kinds |-> 0] /\ p95 = 0 /\ traffic = 0
  /\ windows = [d \in Windows |-> << >>]
  /\ agg = [pc |-> "idle", i |-> 1, snap |-> NoSnapshot]
  /\ active = << >> /\ resolved = << >> /\ stats = [triggered |-> 0, resolved |-> 0]
  /\ am = [pc |-> "idle", verdict |-> << >>, i |-> 1]
  /\ call = [pc |-> "idle", i |-> 1, known |-> {}, before |-> 0, reply |-> {}]
  /\ taken = << >>

-------------------------------------------------------------------------------
(* The environment: time and metrics. *)

\* A ticker drops a tick its channel has no room for.
Tick ==
  /\ now' = IF now < MaxTime THEN now + 1 ELSE now
  /\ ticks' = ticks \cup {"agg"}
                    \cup (IF now < MaxTime /\ now' % EvalEvery # 0 THEN {} ELSE {"am"})
  /\ UNCHANGED <<counters, p95, traffic, windows, agg, alertVars, am, call, taken>>

RecordMetric(k) ==
  /\ traffic < MaxTraffic /\ traffic' = traffic + 1
  /\ counters' = [counters EXCEPT ![k] = @ + 1]
  /\ UNCHANGED <<now, ticks, p95, windows, agg, alertVars, am, call, taken>>

\* A sample of latency: what the ring yields may have any of the P95s.
RecordLatency ==
  /\ traffic < MaxTraffic /\ traffic' = traffic + 1
  /\ p95' \in P95s \ {p95}
  /\ UNCHANGED <<now, ticks, counters, windows, agg, alertVars, am, call, taken>>

-------------------------------------------------------------------------------
(* Aggregator.Run and aggregate. *)

Aggregating == UNCHANGED <<now, counters, p95, traffic, alertVars, am, call>>

AggBegin ==
  /\ agg.pc = "idle" /\ "agg" \in ticks
  /\ ticks' = ticks \ {"agg"}
  /\ agg' = [pc |-> "load", i |-> 1, snap |-> [NoSnapshot EXCEPT !.t = now]]
  /\ Aggregating /\ UNCHANGED <<windows, taken>>

\* mistake: the misses are loaded before the hits.
LoadOrderSwapped == <<"miss", "hit", "error">>

\* GetCounters loads the counters one after the other, in this order.
LoadOrder == <<"hit", "miss", "error">>

AggLoad ==
  /\ agg.pc = "load"
  /\ LET k == LoadOrder[agg.i]
         v == counters[k] IN
       agg' = [pc |-> IF agg.i = Len(LoadOrder) THEN "store" ELSE "load", i |-> agg.i + 1,
               snap |-> [t |-> agg.snap.t,
                         hits |-> IF k = "hit" THEN v ELSE agg.snap.hits,
                         misses |-> IF k = "miss" THEN v ELSE agg.snap.misses,
                         errors |-> IF k = "error" THEN v ELSE agg.snap.errors,
                         p95 |-> IF k = "error" THEN p95 ELSE agg.snap.p95]]
  /\ Aggregating /\ UNCHANGED <<ticks, windows, taken>>

Newest(s, n) == IF Len(s) > n THEN SubSeq(s, Len(s) - n + 1, Len(s)) ELSE s

\* SlidingWindow.Add writes over the oldest snapshot of a full buffer.
Added(d, snap) == Newest(Append(windows[d], snap), Capacity(d))

\* The anomaly detector, which sees the snapshot too, is left out.
AggStore ==
  /\ agg.pc = "store"
  /\ windows' = [d \in Windows |-> Added(d, agg.snap)]
  /\ taken' = Newest(Append(taken, agg.snap.t), Longest + 1)
  /\ agg' = [pc |-> "idle", i |-> 1, snap |-> NoSnapshot]
  /\ Aggregating /\ UNCHANGED ticks

\* SlidingWindow.GetLatest; a slot never written is a zero snapshot.
GetLatest(d) == IF windows[d] = << >> THEN NoSnapshot ELSE Last(windows[d])

\* SlidingWindow.GetRange looks at every slot; these are the ones it returns.
GetRange(d, start, end) == {i \in DOMAIN windows[d] : windows[d][i].t \in start .. end}

\* GetStats: the window that serves a duration.
WindowFor(duration) ==
  CHOOSE d \in Windows : d >= duration /\ \A e \in Windows : e >= duration => d <= e

-------------------------------------------------------------------------------
(* The alert rules; rates are compared by cross-multiplication. *)

Total(s) == s.hits + s.misses
RateAbove(n, total, percent) == total > 0 /\ 100 * n > percent * total
RateBelow(n, total, percent) == total = 0 \/ 100 * n < percent * total

\* No event handler records an eviction, so that the rate stays 0.
Fires(rule, s) ==
  CASE rule = "high_error_rate"    -> RateAbove(s.errors, Total(s), 5)
    [] rule = "low_hit_rate"       -> Total(s) > MinRequests /\ RateBelow(s.hits, Total(s), 70)
    [] rule = "latency_spike"      -> s.p95 > 100
    [] rule = "high_eviction_rate" -> FALSE

Severity(rule, s) ==
  CASE rule = "high_error_rate" -> "critical"
    [] rule = "low_hit_rate"    -> IF RateBelow(s.hits, Total(s), 50) THEN "critical" ELSE "warning"
    [] rule = "latency_spike"   -> IF s.p95 > 200 THEN "critical" ELSE "warning"

\* Evaluate: the severity of the alert of each rule that fires.
Verdict(s) == [r \in {r \in Range(Rules) : Fires(r, s)} |-> Severity(r, s)]

(* AlertManager.Run and evaluateRules: one rule after the other, each under *)
(* the lock.                                                                *)

Evaluating == UNCHANGED <<now, counters, p95, traffic, windows, agg, call, taken>>

EvaluateRules ==
  /\ am.pc = "idle" /\ "am" \in ticks
  /\ ticks' = ticks \ {"am"}
  /\ am' = [pc |-> "rule", i |-> 1, verdict |-> Verdict(GetLatest(Longest))]
  /\ Evaluating /\ UNCHANGED alertVars

NextRule ==
  am' = IF am.i = Len(Rules) THEN [pc |-> "idle", verdict |-> << >>, i |-> 1]
                             ELSE [pc |-> "rule", verdict |-> am.verdict, i |-> am.i + 1]

\* mistake: the first alert ends the evaluation.
TriggerAlertLast ==
  LET rule == Rules[am.i] IN
  /\ am.pc = "rule" /\ rule \in DOMAIN am.verdict
  /\ IF rule \in DOMAIN active
     THEN UNCHANGED alertVars
     ELSE /\ active' = [r \in DOMAIN active \cup {rule} |->
                          IF r = rule THEN [at |-> now, severity |-> am.verdict[rule]]
                          ELSE active[r]]
          /\ stats' = [stats EXCEPT !.triggered = @ + 1]
          /\ UNCHANGED resolved
  /\ am' = [pc |-> "idle", verdict |-> << >>, i |-> 1]
  /\ Evaluating /\ UNCHANGED ticks

\* The severity is the one of the first evaluation that fired.
TriggerAlert ==
  LET rule == Rules[am.i] IN
  /\ am.pc = "rule" /\ rule \in DOMAIN am.verdict
  /\ IF rule \in DOMAIN active
     THEN UNCHANGED alertVars
     ELSE /\ active' = [r \in DOMAIN active \cup {rule} |->
                          IF r = rule THEN [at |-> now, severity |-> am.verdict[rule]]
                          ELSE active[r]]
          /\ stats' = [stats EXCEPT !.triggered = @ + 1]
          /\ UNCHANGED resolved
  /\ NextRule /\ Evaluating /\ UNCHANGED ticks

\* mistake: the alert stays in the map.
ResolveAlertKeep ==
  LET rule == Rules[am.i] IN
  /\ am.pc = "rule" /\ rule \notin DOMAIN am.verdict
  /\ IF rule \in DOMAIN active
     THEN /\ resolved' = Newest(Append(resolved, [rule |-> rule, at |-> active[rule].at,
                                                  until |-> now]), KeepResolved)
          /\ stats' = [stats EXCEPT !.resolved = @ + 1]
          /\ UNCHANGED active
     ELSE UNCHANGED alertVars
  /\ NextRule /\ Evaluating /\ UNCHANGED ticks

ResolveAlert ==
  LET rule == Rules[am.i] IN
  /\ am.pc = "rule" /\ rule \notin DOMAIN am.verdict
  /\ IF rule \in DOMAIN active
     THEN /\ resolved' = Newest(Append(resolved, [rule |-> rule, at |-> active[rule].at,
                                                  until |-> now]), KeepResolved)
          /\ active' = [r \in DOMAIN active \ {rule} |-> active[r]]
          /\ stats' = [stats EXCEPT !.resolved = @ + 1]
     ELSE UNCHANGED alertVars
  /\ NextRule /\ Evaluating /\ UNCHANGED ticks

-------------------------------------------------------------------------------
(* Service.GetAlerts: the active alerts, then the resolved ones. *)

Calling == UNCHANGED <<now, ticks, counters, p95, traffic, windows, agg, alertVars, am, taken>>
Open == {[rule |-> r, at |-> active[r].at] : r \in DOMAIN active}
Ended(s) == {[rule |-> e.rule, at |-> e.at] : e \in Range(s)}

CallBegin ==
  /\ call.pc = "idle"
  /\ call' = [pc |-> "read", i |-> 1, known |-> Open, before |-> stats.resolved, reply |-> {}]
  /\ Calling

\* mistake: the order in which Dashboard.GetOverview reads.
ReadOrderSwapped == <<"recent", "active">>

ReadOrder == <<"active", "recent">>

\* GetActiveAlerts and GetRecentResolvedAlerts, each under the read lock.
CallRead ==
  /\ call.pc = "read"
  /\ call' = [pc |-> IF call.i = 2 THEN "done" ELSE "read", i |-> call.i + 1,
              known |-> call.known, before |-> call.before,
              reply |-> call.reply \cup (IF ReadOrder[call.i] = "active" THEN Open
                                         ELSE Ended(Newest(resolved, RecentLimit)))]
  /\ Calling

CallReturn ==
  /\ call.pc = "done"
  /\ call' = [pc |-> "idle", i |-> 1, known |-> {}, before |-> 0, reply |-> {}]
  /\ Calling

-------------------------------------------------------------------------------
AggNext == AggBegin \/ AggLoad \/ AggStore
AmNext == EvaluateRules \/ TriggerAlert \/ ResolveAlert
Next ==
  \/ Tick \/ (\E k \in Kinds : RecordMetric(k)) \/ RecordLatency
  \/ AggNext \/ AmNext
  \/ CallBegin \/ CallRead \/ CallReturn

Spec == Init /\ [][Next]_vars

\* Tickers tick, and both goroutines run.
LiveSpec == Spec /\ WF_vars(Tick) /\ WF_vars(AggNext) /\ WF_vars(AmNext)

-------------------------------------------------------------------------------
RateLeq(a, b, c, d) == b = 0 \/ (d # 0 /\ a * d <= c * b)

(***************************************************************************)
(* GetCounters loads counters that grow while it runs.  Because of the     *)
(* order of its loads a snapshot errs on the side of alarm: when hits and  *)
(* misses are loaded its hit rate is at most the real one, and when the    *)
(* errors are loaded its error rate is at least the real one, unless it    *)
(* saw no request.                                                         *)
(***************************************************************************)
SnapshotPessimistic ==
  [][agg.pc = "load" /\ agg' # agg =>
       LET s == agg'.snap
           requests == counters["hit"] + counters["miss"] IN
       /\ agg.i = 2 => RateLeq(s.hits, Total(s), counters["hit"], requests)
       /\ agg.i = 3 /\ Total(s) > 0 =>
            RateLeq(counters["error"], requests, s.errors, Total(s))]_vars

(***************************************************************************)
(* GetStats of the last d seconds sees every snapshot of these seconds, up *)
(* to the d + 1 a timely aggregator takes; the circular buffer must not    *)
(* overwrite the one at the far edge.                                      *)
(***************************************************************************)
WindowCovers ==
  \A d \in 0 .. Longest :
    Cardinality(GetRange(WindowFor(d), now - d, now))
      >= LET n == Cardinality({i \in DOMAIN taken : taken[i] >= now - d})
         IN IF n > d + 1 THEN d + 1 ELSE n

(***************************************************************************)
(* Alerts have episodes: those of a rule follow one another without        *)
(* overlap, the list of the ended ones is in order of their ends and holds *)
(* the newest, and the counters add up to what is active.                  *)
(***************************************************************************)
AlertEpisodes ==
  /\ stats.triggered = stats.resolved + Cardinality(DOMAIN active)
  /\ Len(resolved) = IF stats.resolved > KeepResolved THEN KeepResolved ELSE stats.resolved
  /\ \A i \in DOMAIN resolved :
       /\ resolved[i].at <= resolved[i].until
       /\ \A j \in DOMAIN resolved : i < j =>
            /\ resolved[i].until <= resolved[j].until
            /\ resolved[i].rule = resolved[j].rule => resolved[i].until <= resolved[j].at
       /\ resolved[i].rule \in DOMAIN active => resolved[i].until <= active[resolved[i].rule].at

(***************************************************************************)
(* An alert that is active when a GetAlerts request arrives is in the      *)
(* reply, as active or as resolved, however the evaluation of the rules    *)
(* falls between its two reads, unless so many alerts end during the       *)
(* request that the limit cuts it off.                                     *)
(***************************************************************************)
AlertsNotLost ==
  call.pc = "done" /\ stats.resolved - call.before <= RecentLimit => call.known \subseteq call.reply

Snapshot == [NoSnapshot EXCEPT !.hits = counters["hit"], !.misses = counters["miss"],
                               !.errors = counters["error"], !.p95 = p95]

(***************************************************************************)
(* Once the traffic stops, the active alerts become and stay those whose   *)
(* rule fires on the final metrics.                                        *)
(***************************************************************************)
AlertsSettle ==
  <>[](DOMAIN active = {r \in Range(Rules) : Fires(r, Snapshot)})

===============================================================================

-------------------------------- MODULE Queries --------------------------------
(***************************************************************************)
(* What the monitoring service computes from the collector: statistics of  *)
(* the latency samples (monitoring/metrics.go, dashboard.go) and queries   *)
(* over the time series (aggregator.go, service.go, dashboard.go).  The    *)
(* handlers only read, so that they are operators on the state.            *)
(*                                                                         *)
(* Percentiles are in hundredths of a millisecond.                         *)
(***************************************************************************)
EXTENDS MetricsCollector, SequencesExt

CONSTANTS Latencies,       \* the values of the samples in ms, one after the other
          LongestWindow    \* ranges up to this length are served by the windows

ASSUME LatenciesAssumption == Latencies \in Seq(Nat) /\ Latencies # << >>

-------------------------------------------------------------------------------
(* Latency statistics. *)

\* The value of a sample, by its number; after the last one they start again.
Latency(n) == Latencies[1 + ((n - 1) % Len(Latencies))]

\* mistake: linear interpolation on values in order of arrival.
SortedNot(values) == values
Sorted(values) ==
  LET order == CHOOSE p \in Bijection(DOMAIN values, DOMAIN values) :
                 \A i, j \in DOMAIN values : i <= j => values[p[i]] <= values[p[j]]
  IN [i \in DOMAIN values |-> values[order[i]]]

\* percentile of sorted values, between the neighbours of index p * (n - 1)
percentile(values, p) ==
  LET index == p * (Len(values) - 1)
      lower == 1 + index \div 100
      weight == index % 100
  IN IF weight = 0 THEN 100 * values[lower]
     ELSE values[lower] * (100 - weight) + values[lower + 1] * weight

calculateLatencyStats(samples) ==
  LET values == [i \in DOMAIN samples |-> Latency(samples[i])]
      sorted == Sorted(values)
  IN [min |-> 100 * Min(Range(values)), max |-> 100 * Max(Range(values)),
      p50 |-> percentile(sorted, 50), p90 |-> percentile(sorted, 90),
      p95 |-> percentile(sorted, 95), p99 |-> percentile(sorted, 99)]

\* GetLatencyDistribution: the lower bounds of its buckets, the last one open.
Bounds == <<0, 1, 5, 10, 25, 50, 100, 250, 500, 1000>>
InBucket(v, i) == v >= Bounds[i] /\ (i = Len(Bounds) \/ v < Bounds[i + 1])
Histogram(samples) ==
  [i \in DOMAIN Bounds |->
     Cardinality({j \in DOMAIN samples : InBucket(Latency(samples[j]), i)})]

-------------------------------------------------------------------------------
(* Queries over the time series. *)

\* TimeSeries.GetRange: whole seconds, both ends included.
GetRange(start, end) == {t \in DOMAIN buckets : start <= t /\ t <= end}

\* GetStats of a range that is longer than the longest window.
aggregateFromTimeSeries(start, end) ==
  [k \in Kept |-> SumFunction([t \in GetRange(start, end) |-> buckets[t][k]])]

\* mistake: the loop ends one interval early.
DataPointsShort(start, end, interval) ==
  {[from |-> t, to |-> t + interval] :
     t \in {t \in start .. end : (t - start) % interval = 0 /\ t + interval < end}}

\* GetAggregated: consecutive intervals, the last one cut off at the end.
DataPoints(start, end, interval) ==
  {[from |-> t, to |-> IF t + interval > end THEN end ELSE t + interval] :
     t \in {t \in start .. end - 1 : (t - start) % interval = 0}}

\* generateTimeline: n intervals of equal length.
Timeline(start, end, n) ==
  LET interval == (end - start) \div n IN
  {[from |-> start + i * interval, to |-> start + (i + 1) * interval] : i \in 0 .. n - 1}

\* GetHeatmap: minutes of a column and number of columns, by minutes of the range.
Granularity(minutes) ==
  CASE minutes <= 60      -> <<1, 60>>
    [] minutes <= 6 * 60  -> <<5, 72>>
    [] minutes <= 24 * 60 -> <<15, 96>>
    [] OTHER              -> <<60, 24>>
HeatmapCovers(minutes) == Granularity(minutes)[1] * Granularity(minutes)[2] >= minutes

\* ExportMetrics: the columns of a row for each bucket, or the latest bucket;
\* JSON has the errors only as a rate, and averages of the latencies.
Columns(range, kinds) == [t \in range |-> [k \in kinds |-> buckets[t][k]]]
exportJSON(range) == Columns(range, {"hit", "miss", "invalidation", "warming"})
exportPrometheus(range) == Columns({t \in range : \A u \in range : u <= t}, Kept)
exportCSV(range) == Columns(range, {"hit", "miss", "error", "invalidation", "warming"})
ExportMetrics(format, start, end) ==
  LET range == GetRange(start, end) IN
  CASE format = "json"       -> exportJSON(range)
    [] format = "prometheus" -> exportPrometheus(range)
    [] format = "csv"        -> exportCSV(range)

-------------------------------------------------------------------------------
(***************************************************************************)
(* Whatever samples GetAll returns, the percentiles lie between the        *)
(* extremes and in order, and the histogram counts every sample once.      *)
(***************************************************************************)
LatencyStatsSound ==
  rpc = "done" /\ ~disturbed /\ result # << >> /\ Torn \notin Range(result) =>
    LET s == calculateLatencyStats(result)
        steps == <<s.min, s.p50, s.p90, s.p95, s.p99, s.max>>
    IN /\ \A i \in 1 .. 5 : steps[i] <= steps[i + 1]
       /\ SumFunction(Histogram(result)) = Len(result)

Covers(points, start, end) ==
  (\A p \in points : p.to - p.from > LongestWindow) =>
    \A k \in Kept :
      aggregateFromTimeSeries(start, end)[k]
        <= SumFunction([p \in points |-> aggregateFromTimeSeries(p.from, p.to)[k]])

HeatmapCoversADay == \A minutes \in 1 .. 24 * 60 : HeatmapCovers(minutes)

(***************************************************************************)
(* The data points of GetAggregated and of the overview's timeline leave   *)
(* out no metric of the range (one at the boundary of two intervals counts *)
(* in both), provided every interval is longer than the longest window;    *)
(* each column of an export adds up to the summary of its range (of its    *)
(* latest second for Prometheus), and the columns of a heatmap span a      *)
(* range of up to a day.                                                   *)
(***************************************************************************)
QueriesCover ==
  /\ HeatmapCoversADay
  /\ (\A h \in Handlers : pc[h] = "idle") =>
       \A start \in 0 .. MaxTime : \A end \in start + 1 .. MaxTime :
         /\ \A n \in 1 .. end - start :
              /\ Covers(DataPoints(start, end, n), start, end)
              /\ (end - start) % n = 0 => Covers(Timeline(start, end, n), start, end)
         /\ \A format \in {"json", "csv", "prometheus"} :
              LET rows == ExportMetrics(format, start, end)
                  from == IF format = "prometheus" THEN Max({start} \cup DOMAIN rows) ELSE start
              IN \A t \in DOMAIN rows : \A k \in DOMAIN rows[t] :
                   SumFunction([u \in DOMAIN rows |-> rows[u][k]])
                     = aggregateFromTimeSeries(from, end)[k]
================================================================================

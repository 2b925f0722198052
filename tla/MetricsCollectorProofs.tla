----------------------- MODULE MetricsCollectorProofs ------------------------
(***************************************************************************)
(* Proofs about MetricsCollector and Queries, for any handlers, events,    *)
(* ring size and retention: the time series keeps what it should, an       *)
(* undisturbed GetAll returns the newest samples, the statistics of what   *)
(* it returns are in order, and the queries leave out nothing.             *)
(***************************************************************************)
EXTENDS Queries, FiniteSetTheorems, SequenceTheorems, NaturalsInduction, TLAPS

-----------------------------------------------------------------------------
(* The time series. *)

Totals == [Kept -> Nat]
Seconds == 0 .. MaxTime
Empty == [k \in Kept |-> 0]

SeriesTypes ==
  /\ now \in Seconds
  /\ sent \in [Events -> -1 .. MaxTime]
  /\ pc \in [Handlers -> {"idle", "record", "series", "claim", "write", "tail", "swap"}]
  /\ series \in [Seconds -> Totals]
  /\ DOMAIN buckets \subseteq Seconds
  /\ \A t \in DOMAIN buckets : buckets[t] \in Totals

\* A handler at work has an event, and the event was published.
BusyWithEvent ==
  /\ DOMAIN cur = Handlers
  /\ \A h \in Handlers : pc[h] # "idle" => cur[h] \in Events /\ sent[cur[h]] >= 0

SeriesInv == SeriesTypes /\ BusyWithEvent /\ SeriesComplete

\* What a bucket holds, or would hold.
LEMMA BucketTypes ==
  ASSUME SeriesTypes, NEW t
  PROVE  (IF t \in DOMAIN buckets THEN buckets[t] ELSE Empty) \in Totals
<1>1. Empty \in Totals
  BY DEF Empty, Totals
<1> QED  BY <1>1 DEF SeriesTypes

\* A metric is added to the series, and old buckets go.
LEMMA SeriesAddStep ==
  ASSUME SeriesInv, NEW h \in Handlers, SeriesAdd(h)
  PROVE  SeriesInv'
<1> DEFINE t == sent[cur[h]]
           kind == Head(todo[h])
           bucket == IF t \in DOMAIN buckets THEN buckets[t] ELSE Empty
           counted == IF kind \in Kept THEN [bucket EXCEPT ![kind] = @ + 1] ELSE bucket
           all == [s \in DOMAIN buckets \cup {t} |-> IF s = t THEN counted ELSE buckets[s]]
<1>1. /\ pc[h] = "series"
      /\ pc' = [pc EXCEPT ![h] = IF Len(todo[h]) = 1 THEN "idle" ELSE "record"]
      /\ buckets' = Cleaned(all)
      /\ series' = IF kind \in Kept THEN [series EXCEPT ![t][kind] = @ + 1] ELSE series
      /\ now' = now /\ sent' = sent /\ cur' = cur
  BY DEF SeriesAdd, Goto, Empty
<1>2. /\ now \in Seconds /\ now \in Nat /\ MaxTime \in Nat /\ Retention \in Nat
      /\ sent \in [Events -> -1 .. MaxTime] /\ series \in [Seconds -> Totals]
      /\ \A s \in DOMAIN buckets : buckets[s] \in Totals
  BY CollectorAssumption DEF SeriesInv, SeriesTypes, Seconds
<1>3. t \in Seconds
  <2>1. cur[h] \in Events /\ t >= 0
    BY <1>1 DEF SeriesInv, BusyWithEvent
  <2>2. t \in -1 .. MaxTime
    BY <1>2, <2>1
  <2> QED  BY <1>2, <2>1, <2>2 DEF Seconds
<1>4. bucket \in Totals
  BY BucketTypes DEF SeriesInv
<1> HIDE DEF t, kind, bucket
<1>5. counted \in Totals
  BY <1>4 DEF Totals
<1>6. /\ series' \in [Seconds -> Totals]
      /\ \A s \in Seconds : s # t => series'[s] = series[s]
      /\ series[t] = bucket => series'[t] = counted
  <2>1. CASE kind \in Kept
    <3>1. series[t] \in Totals
      BY <1>2, <1>3
    <3>2. series' = [series EXCEPT ![t] = [series[t] EXCEPT ![kind] = series[t][kind] + 1]]
      BY <1>1, <2>1
    <3>3. [series[t] EXCEPT ![kind] = series[t][kind] + 1] \in Totals
      BY <2>1, <3>1 DEF Totals
    <3> DEFINE x == [series[t] EXCEPT ![kind] = series[t][kind] + 1]
    <3>4. series[t] = bucket => x = counted
      BY <2>1
    <3> HIDE DEF x, counted
    <3> QED  BY <1>2, <1>3, <3>2, <3>3, <3>4 DEF x
  <2>2. CASE kind \notin Kept
    BY <1>1, <1>2, <2>2
  <2> QED  BY <2>1, <2>2
<1> HIDE DEF counted
<1>7. /\ DOMAIN all = DOMAIN buckets \cup {t} /\ all[t] = counted
      /\ \A s \in DOMAIN buckets : s # t => all[s] = buckets[s]
  OBVIOUS
<1> HIDE DEF all
<1>8. /\ DOMAIN buckets' \subseteq DOMAIN all
      /\ \A s \in DOMAIN all : s >= now - Retention => s \in DOMAIN buckets'
      /\ \A s \in DOMAIN buckets' : buckets'[s] = all[s]
  BY <1>1 DEF Cleaned
<1>9. SeriesTypes'
  <2>1. pc' \in [Handlers -> {"idle", "record", "series", "claim", "write", "tail", "swap"}]
    BY <1>1 DEF SeriesInv, SeriesTypes
  <2>2. ASSUME NEW s \in DOMAIN buckets' PROVE buckets'[s] \in Totals
    BY <1>2, <1>5, <1>7, <1>8
  <2>3. DOMAIN buckets' \subseteq Seconds'
    <3>1. DOMAIN buckets \subseteq Seconds
      BY DEF SeriesInv, SeriesTypes
    <3> QED  BY <1>3, <1>7, <1>8, <3>1 DEF Seconds
  <2> QED  BY <1>1, <1>2, <1>6, <2>1, <2>2, <2>3 DEF SeriesTypes
<1>10. BusyWithEvent'
  BY <1>1 DEF SeriesInv, SeriesTypes, BusyWithEvent
<1>11. SeriesComplete'
  <2> SUFFICES ASSUME NEW s \in Seconds, s >= now - Retention
               PROVE  series'[s] = IF s \in DOMAIN buckets' THEN buckets'[s] ELSE Empty
    BY <1>1 DEF SeriesComplete, Seconds, Empty
  <2>1. series[s] = IF s \in DOMAIN buckets THEN buckets[s] ELSE Empty
    BY DEF SeriesInv, SeriesComplete, Seconds, Empty
  <2>2. CASE s = t
    <3>1. series[t] = bucket
      BY <2>1, <2>2 DEF bucket
    <3> QED  BY <1>6, <1>7, <1>8, <2>2, <3>1
  <2>3. CASE s # t
    <3>1. s \in DOMAIN buckets' <=> s \in DOMAIN buckets
      BY <1>7, <1>8, <2>3
    <3> QED  BY <1>6, <1>7, <1>8, <2>1, <2>3, <3>1
  <2> QED  BY <2>2, <2>3
<1> QED  BY <1>9, <1>10, <1>11 DEF SeriesInv

\* The other steps of a handler that is at work.
OtherStep(h) ==
  \/ Count(h) \/ AddLoad(h) \/ AddClaim(h) \/ AddRetry(h) \/ AddWrite(h)
  \/ AddLoadTail(h) \/ AddSwapTail(h)

\* They leave the time series alone.
LEMMA OtherStepFrame ==
  ASSUME SeriesTypes, NEW h \in Handlers, OtherStep(h)
  PROVE  /\ pc[h] # "idle"
         /\ pc' \in [Handlers -> {"idle", "record", "series", "claim", "write", "tail", "swap"}]
         /\ \A g \in Handlers : pc'[g] # "idle" => pc[g] # "idle"
         /\ UNCHANGED <<now, sent, cur, buckets, series>>
<1> DEFINE P == {"idle", "record", "series", "claim", "write", "tail", "swap"}
<1>0. pc \in [Handlers -> P]
  BY DEF SeriesTypes
<1>1. \E from \in P \ {"idle"}, to \in P : Goto(h, from, to)
  BY DEF OtherStep, Count, AddLoad, AddClaim, AddRetry, AddWrite, AddLoadTail, AddSwapTail
<1>2. UNCHANGED <<now, sent, cur, buckets, series>>
  BY DEF OtherStep, Count, AddLoad, AddClaim, AddRetry, AddWrite, AddLoadTail, AddSwapTail,
     Handling, seriesVars
<1> QED  BY <1>0, <1>1, <1>2 DEF Goto

\* The time series is complete, in every state.
LEMMA SeriesInvHolds == Spec => []SeriesInv
<1>1. Init => SeriesInv
  <2> SUFFICES ASSUME Init PROVE SeriesInv
    OBVIOUS
  <2>1. MaxTime \in Nat
    BY CollectorAssumption
  <2>2. /\ now = 0 /\ sent = [e \in Events |-> -1] /\ pc = [h \in Handlers |-> "idle"]
        /\ DOMAIN buckets = {} /\ series = [t \in Seconds |-> Empty]
    BY DEF Init, Seconds, Empty
  <2>3. Empty \in Totals
    BY DEF Empty, Totals
  <2>4. SeriesTypes
    BY <2>1, <2>2, <2>3 DEF SeriesTypes, Seconds
  <2>5. BusyWithEvent
    <3>1. DOMAIN cur = Handlers
      BY DEF Init
    <3> QED  BY <2>2, <3>1 DEF BusyWithEvent
  <2>6. SeriesComplete
    BY <2>2 DEF SeriesComplete, Seconds, Empty
  <2> QED  BY <2>4, <2>5, <2>6 DEF SeriesInv
<1>2. SeriesInv /\ [Next]_vars => SeriesInv'
  <2> SUFFICES ASSUME SeriesInv, [Next]_vars PROVE SeriesInv'
    OBVIOUS
  <2>0. now \in Seconds /\ MaxTime \in Nat /\ Retention \in Nat
    BY CollectorAssumption DEF SeriesInv, SeriesTypes
  <2>1. ASSUME NEW e \in Events, Publish(e) PROVE SeriesInv'
    <3>1. /\ sent' = [sent EXCEPT ![e] = now]
          /\ UNCHANGED <<now, cur, pc, buckets, series>>
      BY <2>1 DEF Publish, seriesVars
    <3>2. sent' \in [Events -> -1 .. MaxTime]
      BY <2>0, <3>1 DEF SeriesInv, SeriesTypes, Seconds
    <3>3. SeriesTypes'
      BY <3>1, <3>2 DEF SeriesInv, SeriesTypes
    <3>4. \A f \in Events : sent[f] >= 0 => sent'[f] >= 0
      BY <2>0, <3>1 DEF SeriesInv, SeriesTypes, Seconds
    <3>5. BusyWithEvent'
      BY <3>1, <3>4 DEF SeriesInv, BusyWithEvent
    <3>6. SeriesComplete'
      BY <3>1 DEF SeriesInv, SeriesComplete
    <3> QED  BY <3>3, <3>5, <3>6 DEF SeriesInv
  <2>2. ASSUME NEW h \in Handlers, NEW e \in Events, Deliver(h, e) PROVE SeriesInv'
    <3>1. /\ cur' = [cur EXCEPT ![h] = e] /\ sent[e] >= 0
          /\ pc' = [pc EXCEPT ![h] = IF Metrics(e) = << >> THEN "idle" ELSE "record"]
          /\ UNCHANGED <<now, sent, buckets, series>>
      BY <2>2 DEF Deliver, seriesVars
    <3>2. SeriesTypes'
      BY <3>1 DEF SeriesInv, SeriesTypes
    <3>3. \A g \in Handlers : g # h => pc'[g] = pc[g]
      BY <3>1 DEF SeriesInv, SeriesTypes
    <3>4. BusyWithEvent'
      <4>0. DOMAIN cur = Handlers /\ DOMAIN cur' = Handlers
        BY <3>1 DEF SeriesInv, BusyWithEvent
      <4> SUFFICES ASSUME NEW g \in Handlers, pc'[g] # "idle"
                   PROVE  cur'[g] \in Events /\ sent[cur'[g]] >= 0
        BY <3>1, <4>0 DEF BusyWithEvent
      <4>1. CASE g # h
        <5>1. pc[g] # "idle" /\ cur'[g] = cur[g]
          BY <3>1, <3>3, <4>1
        <5> QED  BY <5>1 DEF SeriesInv, BusyWithEvent
      <4>2. CASE g = h
        BY <3>1, <4>0, <4>2
      <4> QED  BY <4>1, <4>2
    <3>5. SeriesComplete'
      BY <3>1 DEF SeriesInv, SeriesComplete
    <3> QED  BY <3>2, <3>4, <3>5 DEF SeriesInv
  <2>3. ASSUME NEW h \in Handlers, OtherStep(h) PROVE SeriesInv'
    BY <2>3, OtherStepFrame DEF SeriesInv, SeriesTypes, BusyWithEvent, SeriesComplete
  <2>4. ASSUME NEW h \in Handlers, SeriesAdd(h) PROVE SeriesInv'
    BY <2>4, SeriesAddStep
  <2>5. CASE Tick
    <3>1. now' = now + 1 /\ now' \in Seconds /\ UNCHANGED <<sent, cur, pc, buckets, series>>
      BY <2>0, <2>5 DEF Tick, Seconds, seriesVars
    <3>2. \A t \in Seconds : t >= now' - Retention => t >= now - Retention
      BY <2>0, <3>1 DEF Seconds
    <3>3. SeriesComplete'
      BY <3>1, <3>2 DEF SeriesInv, SeriesComplete, Seconds
    <3>4. SeriesTypes' /\ BusyWithEvent'
      BY <3>1 DEF SeriesInv, SeriesTypes, BusyWithEvent
    <3> QED  BY <3>3, <3>4 DEF SeriesInv
  <2>6. CASE UNCHANGED <<now, sent, pc, cur, buckets, series>>
    BY <2>6 DEF SeriesInv, SeriesTypes, BusyWithEvent, SeriesComplete
  <2> QED
    BY <2>1, <2>2, <2>3, <2>4, <2>5, <2>6 DEF Next, HandlerStep, OtherStep, GetAllHead, GetAllTail,
       GetAllCopy, Reading, vars, seriesVars
<1> QED  BY <1>1, <1>2, PTL DEF Spec

(***************************************************************************)
(* No metric within the retention is missing from its bucket or counted    *)
(* twice (TimeSeries.Add and cleanup, metrics.go), however late the events *)
(* arrive, whatever the retention and the period of the clean-ups.         *)
(***************************************************************************)
THEOREM SeriesKeepsRetention == Spec => []SeriesComplete
<1>1. SeriesInv => SeriesComplete
  BY DEF SeriesInv
<1> QED  BY <1>1, SeriesInvHolds, PTL

-----------------------------------------------------------------------------
(* The ring of samples. *)

Steps == {"idle", "record", "series", "claim", "write", "tail", "swap"}
Locals == [head : Slots, tail : Slots, sample : Nat]

\* After c claims the head is at slot h: in the first lap, or laps later.
Lap(c, h) == (h = c /\ c < Size) \/ c >= Size + h

\* The newest sample that was given slot i; none if this is not positive.
SampleOf(c, h, i) == c - (h - 1 - i) - (IF i < h THEN 0 ELSE Size)

\* All slots before slot i were given away.
Behind(c, h, i) == i <= h \/ c >= Size

RingTypes ==
  /\ head \in Slots /\ tail \in Slots /\ claimed \in Nat
  /\ buffer \in [Slots -> Int]
  /\ pc \in [Handlers -> Steps]
  /\ my \in [Handlers -> Locals]

\* A slot nobody is writing holds its newest sample, unless an overtaken Add wrote it last.
SlotsHold ==
  \A i \in Slots : WritingTo(i) = {} /\ i \notin late =>
    buffer[i] = IF SampleOf(claimed, head, i) > 0 THEN SampleOf(claimed, head, i) ELSE 0

\* An Add writes the newest sample of its slot, or was overtaken by a lap.
WritersOwn ==
  \A h \in Handlers : pc[h] = "write" =>
    /\ my[h].sample > 0
    /\ \/ my[h].sample = SampleOf(claimed, head, my[h].head)
       \/ my[h].sample + Size <= claimed

\* The tail is put where the head has been.
TailBehind ==
  /\ Behind(claimed, head, tail)
  /\ \A h \in Handlers : pc[h] \in {"write", "tail", "swap"} =>
       Behind(claimed, head, Next1(my[h].head))

RingInv == RingTypes /\ Lap(claimed, head) /\ SlotsHold /\ WritersOwn /\ TailBehind

\* The slot after a slot.
LEMMA NextSlot ==
  ASSUME NEW i \in Slots
  PROVE  Next1(i) = (IF i + 1 = Size THEN 0 ELSE i + 1) /\ Next1(i) \in Slots
<1>1. Size \in Nat /\ Size > 0
  BY CollectorAssumption
<1>2. i \in Nat /\ i + 1 <= Size
  BY <1>1 DEF Slots
<1>3. CASE i + 1 = Size
  <2>1. Size % Size = 0
    BY <1>1
  <2> QED  BY <1>1, <1>3, <2>1 DEF Next1, Slots
<1>4. CASE i + 1 < Size
  <2>1. (i + 1) % Size = i + 1
    BY <1>1, <1>2, <1>4
  <2> QED  BY <1>1, <1>2, <1>4, <2>1 DEF Next1, Slots
<1> QED  BY <1>1, <1>2, <1>3, <1>4

\* A claim gives the slot at the head its next sample and changes no other.
LEMMA ClaimMoves ==
  ASSUME NEW c \in Nat, NEW h \in Slots, Lap(c, h), NEW n, n = Next1(h)
  PROVE  /\ n \in Slots /\ Lap(c + 1, n)
         /\ \A i \in Slots : i # h => SampleOf(c + 1, n, i) = SampleOf(c, h, i)
         /\ SampleOf(c + 1, n, h) = c + 1 /\ SampleOf(c, h, h) + Size = c + 1
         /\ \A i \in Slots : Behind(c, h, i) => Behind(c + 1, n, i)
         /\ Behind(c + 1, n, n)
<1>1. Size \in Nat /\ Size > 0 /\ h \in Nat /\ h + 1 <= Size
  BY CollectorAssumption DEF Slots
<1>2. n \in Slots /\ n = IF h + 1 = Size THEN 0 ELSE h + 1
  BY NextSlot
<1>3. \A i \in Slots : i \in Nat /\ i + 1 <= Size
  BY <1>1 DEF Slots
<1>4. CASE h + 1 = Size
  <2>1. n = 0
    BY <1>2, <1>4
  <2>2. Lap(c + 1, n)
    BY <1>1, <1>4, <2>1 DEF Lap
  <2>3. \A i \in Slots : i # h => SampleOf(c + 1, n, i) = SampleOf(c, h, i)
    BY <1>1, <1>3, <1>4, <2>1 DEF SampleOf
  <2>4. SampleOf(c + 1, n, h) = c + 1 /\ SampleOf(c, h, h) + Size = c + 1
    BY <1>1, <1>4, <2>1 DEF SampleOf
  <2>5. \A i \in Slots : Behind(c, h, i) => Behind(c + 1, n, i)
    BY <1>1, <1>3, <1>4, <2>1 DEF Behind, Lap
  <2>6. Behind(c + 1, n, n)
    BY <2>1 DEF Behind
  <2> QED  BY <1>2, <2>2, <2>3, <2>4, <2>5, <2>6
<1>5. CASE h + 1 # Size
  <2>1. n = h + 1
    BY <1>2, <1>5
  <2>2. Lap(c + 1, n)
    BY <1>1, <1>5, <2>1 DEF Lap
  <2>3. \A i \in Slots : i # h => SampleOf(c + 1, n, i) = SampleOf(c, h, i)
    BY <1>1, <1>3, <1>5, <2>1 DEF SampleOf
  <2>4. SampleOf(c + 1, n, h) = c + 1 /\ SampleOf(c, h, h) + Size = c + 1
    BY <1>1, <1>5, <2>1 DEF SampleOf
  <2>5. \A i \in Slots : Behind(c, h, i) => Behind(c + 1, n, i)
    BY <1>1, <1>3, <1>5, <2>1 DEF Behind
  <2>6. Behind(c + 1, n, n)
    BY <1>1, <2>1 DEF Behind
  <2> QED  BY <1>2, <2>2, <2>3, <2>4, <2>5, <2>6
<1> QED  BY <1>4, <1>5

\* The locals of an Add, one of them new.
WithHead(r, x) == [r EXCEPT !.head = x]
WithTail(r, x) == [r EXCEPT !.tail = x]
WithSample(r, x) == [r EXCEPT !.sample = x]

\* They change nothing else.
LEMMA LocalsKept ==
  ASSUME NEW r \in Locals
  PROVE  /\ \A x \in Slots : /\ WithHead(r, x) \in Locals /\ WithHead(r, x).head = x
         /\ \A x \in Slots : /\ WithTail(r, x) \in Locals /\ WithTail(r, x).head = r.head
                             /\ WithTail(r, x).sample = r.sample
         /\ \A x \in Nat : /\ WithSample(r, x) \in Locals /\ WithSample(r, x).head = r.head
                           /\ WithSample(r, x).sample = x
BY DEF Locals, WithHead, WithTail, WithSample

\* What a step that neither claims nor writes a slot leaves true.
LEMMA RingFrame ==
  ASSUME RingInv, RingTypes', UNCHANGED <<buffer, head, claimed, late>>,
         Behind(claimed, head, tail'),
         \A g \in Handlers : pc'[g] = "write" <=> pc[g] = "write",
         \A g \in Handlers : pc'[g] \in {"write", "tail", "swap"} =>
           pc[g] \in {"write", "tail", "swap"} /\ my'[g].head = my[g].head
             /\ my'[g].sample = my[g].sample
  PROVE  RingInv'
<1>1. Lap(claimed, head)'
  BY DEF RingInv, Lap
<1>2. \A g \in Handlers : pc[g] = "write" => my'[g].head = my[g].head
  OBVIOUS
<1>3. SlotsHold'
  <2>1. \A i : WritingTo(i)' = WritingTo(i)
    BY <1>2 DEF WritingTo
  <2> QED  BY <2>1 DEF RingInv, SlotsHold
<1>4. WritersOwn'
  BY DEF RingInv, WritersOwn
<1>5. TailBehind'
  BY DEF RingInv, TailBehind
<1> QED  BY <1>1, <1>3, <1>4, <1>5 DEF RingInv

\* A slot is claimed.
LEMMA ClaimStep ==
  ASSUME RingInv, NEW h \in Handlers, AddClaim(h)
  PROVE  RingInv'
<1>1. /\ pc[h] = "claim" /\ pc' = [pc EXCEPT ![h] = "write"] /\ head = my[h].head
      /\ head' = Next1(head) /\ claimed' = claimed + 1
      /\ my' = [my EXCEPT ![h].sample = claimed + 1]
      /\ UNCHANGED <<buffer, tail, late>>
  BY DEF AddClaim, Goto
<1>2. /\ head \in Slots /\ claimed \in Nat /\ pc \in [Handlers -> Steps]
      /\ my \in [Handlers -> Locals] /\ Lap(claimed, head)
      /\ tail \in Slots /\ buffer \in [Slots -> Int]
  BY DEF RingInv, RingTypes
<1>3. /\ my' \in [Handlers -> Locals]
      /\ my'[h].sample = claimed + 1 /\ my'[h].head = head
      /\ \A g \in Handlers : g # h => my'[g] = my[g]
  <2>1. my' = [my EXCEPT ![h] = WithSample(my[h], claimed + 1)]
    BY <1>1 DEF WithSample
  <2>2. my[h] \in Locals /\ claimed + 1 \in Nat
    BY <1>2
  <2> DEFINE r == WithSample(my[h], claimed + 1)
  <2>3. r \in Locals /\ r.head = my[h].head /\ r.sample = claimed + 1
    BY <2>2, LocalsKept
  <2>4. head = my[h].head
    BY <1>1
  <2> HIDE DEF r
  <2>5. my' = [my EXCEPT ![h] = r]
    BY <2>1 DEF r
  <2> QED  BY <1>2, <2>3, <2>4, <2>5
<1>4. /\ pc' \in [Handlers -> Steps] /\ pc'[h] = "write"
      /\ \A g \in Handlers : g # h => pc'[g] = pc[g]
  BY <1>1, <1>2 DEF Steps
<1>5. /\ head' \in Slots /\ Lap(claimed', head')
      /\ \A i \in Slots : i # head => SampleOf(claimed', head', i) = SampleOf(claimed, head, i)
      /\ SampleOf(claimed', head', head) = claimed + 1
      /\ SampleOf(claimed, head, head) + Size = claimed + 1
      /\ \A i \in Slots : Behind(claimed, head, i) => Behind(claimed', head', i)
      /\ Behind(claimed', head', head')
  BY <1>1, <1>2, ClaimMoves
<1>6. RingTypes'
  BY <1>1, <1>2, <1>3, <1>4, <1>5 DEF RingTypes
<1>7. SlotsHold'
  <2> SUFFICES ASSUME NEW i \in Slots, WritingTo(i)' = {}, i \notin late
               PROVE  buffer[i] = IF SampleOf(claimed', head', i) > 0
                                  THEN SampleOf(claimed', head', i) ELSE 0
    BY <1>1 DEF SlotsHold
  <2>1. i # head
    BY <1>3, <1>4 DEF WritingTo
  <2>2. WritingTo(i) = {}
    BY <1>1, <1>3, <1>4 DEF WritingTo
  <2> QED  BY <1>5, <2>1, <2>2 DEF RingInv, SlotsHold
<1>8. WritersOwn'
  <2> SUFFICES ASSUME NEW g \in Handlers, pc'[g] = "write"
               PROVE  /\ my'[g].sample > 0
                      /\ \/ my'[g].sample = SampleOf(claimed', head', my'[g].head)
                         \/ my'[g].sample + Size <= claimed'
    BY DEF WritersOwn
  <2>1. CASE g = h
    BY <1>2, <1>3, <1>5, <2>1
  <2>2. CASE g # h
    <3>1. /\ my'[g] = my[g] /\ my[g].sample \in Nat /\ my[g].head \in Slots
          /\ my[g].sample > 0
          /\ \/ my[g].sample = SampleOf(claimed, head, my[g].head)
             \/ my[g].sample + Size <= claimed
      BY <1>2, <1>3, <1>4, <2>2 DEF RingInv, WritersOwn, Locals
    <3>2. Size \in Nat
      BY CollectorAssumption
    <3> QED  BY <1>1, <1>2, <1>5, <3>1, <3>2
  <2> QED  BY <2>1, <2>2
<1>9. TailBehind'
  <2>1. Behind(claimed', head', tail')
    BY <1>1, <1>2, <1>5 DEF RingInv, TailBehind
  <2>2. ASSUME NEW g \in Handlers, pc'[g] \in {"write", "tail", "swap"}
        PROVE  Behind(claimed', head', Next1(my'[g].head))
    <3>1. CASE g = h
      BY <1>1, <1>3, <1>5, <3>1
    <3>2. CASE g # h
      <4>1. my'[g] = my[g] /\ my[g].head \in Slots /\ pc[g] \in {"write", "tail", "swap"}
        BY <1>2, <1>3, <1>4, <2>2, <3>2 DEF Locals
      <4> QED  BY <1>5, <4>1, NextSlot DEF RingInv, TailBehind
    <3> QED  BY <3>1, <3>2
  <2> QED  BY <2>1, <2>2 DEF TailBehind
<1> QED  BY <1>5, <1>6, <1>7, <1>8, <1>9 DEF RingInv

\* A slot is written.
LEMMA WriteStep ==
  ASSUME RingInv, NEW h \in Handlers, AddWrite(h)
  PROVE  RingInv'
<1> DEFINE i == my[h].head
<1>1. /\ pc[h] = "write" /\ pc' = [pc EXCEPT ![h] = "tail"]
      /\ UNCHANGED <<head, tail, claimed, my>>
  BY DEF AddWrite, Goto
<1>2. /\ head \in Slots /\ claimed \in Nat /\ pc \in [Handlers -> Steps]
      /\ my \in [Handlers -> Locals] /\ tail \in Slots /\ buffer \in [Slots -> Int]
  BY DEF RingInv, RingTypes
<1>3. i \in Slots /\ my[h].sample \in Nat
  BY <1>2 DEF Locals
<1>4. PICK v \in {my[h].sample} \cup (IF WritingTo(i) = {h} THEN {} ELSE {Torn}) :
        buffer' = [buffer EXCEPT ![i] = v]
  BY DEF AddWrite
<1>5. late' = IF my[h].sample + Size > claimed /\ WritingTo(i) = {h}
              THEN late \ {i} ELSE late \cup {i}
  BY DEF AddWrite
<1> HIDE DEF i
<1>6. /\ pc' \in [Handlers -> Steps] /\ pc'[h] = "tail"
      /\ \A g \in Handlers : g # h => pc'[g] = pc[g]
  BY <1>1, <1>2 DEF Steps
<1>7. v \in Int /\ (WritingTo(i) = {h} => v = my[h].sample)
  BY <1>3, <1>4 DEF Torn
<1>8. /\ buffer' \in [Slots -> Int] /\ buffer'[i] = v
      /\ \A j \in Slots : j # i => buffer'[j] = buffer[j]
  BY <1>2, <1>3, <1>4, <1>7
<1>9. RingTypes'
  BY <1>1, <1>2, <1>6, <1>8 DEF RingTypes
<1>10. SlotsHold'
  <2> SUFFICES ASSUME NEW j \in Slots, WritingTo(j)' = {}, j \notin late'
               PROVE  buffer'[j] = IF SampleOf(claimed, head, j) > 0
                                   THEN SampleOf(claimed, head, j) ELSE 0
    BY <1>1 DEF SlotsHold
  <2>1. CASE j = i
    <3>1. my[h].sample + Size > claimed /\ WritingTo(i) = {h}
      BY <1>5, <2>1
    <3>2. my[h].sample > 0 /\ my[h].sample = SampleOf(claimed, head, i)
      <4>1. Size \in Nat
        BY CollectorAssumption
      <4> QED  BY <1>1, <1>2, <1>3, <3>1, <4>1 DEF RingInv, WritersOwn, i
    <3> QED  BY <1>7, <1>8, <2>1, <3>1, <3>2
  <2>2. CASE j # i
    <3>1. WritingTo(j) = {}
      <4>1. ASSUME NEW g \in WritingTo(j) PROVE g \in WritingTo(j)'
        BY <1>1, <1>6, <2>2 DEF WritingTo, i
      <4> QED  BY <4>1
    <3>2. j \notin late
      BY <1>5, <2>2
    <3> QED  BY <1>8, <2>2, <3>1, <3>2 DEF RingInv, SlotsHold
  <2> QED  BY <2>1, <2>2
<1>11. WritersOwn'
  <2> SUFFICES ASSUME NEW g \in Handlers, pc'[g] = "write"
               PROVE  /\ my[g].sample > 0
                      /\ \/ my[g].sample = SampleOf(claimed, head, my[g].head)
                         \/ my[g].sample + Size <= claimed
    BY <1>1 DEF WritersOwn
  <2> QED  BY <1>6 DEF RingInv, WritersOwn
<1>12. TailBehind'
  BY <1>1, <1>6 DEF RingInv, TailBehind
<1>13. Lap(claimed, head)'
  BY <1>1 DEF RingInv, Lap
<1> QED  BY <1>9, <1>10, <1>11, <1>12, <1>13 DEF RingInv

\* The steps of an Add on its way to the claim and after the write.
LEMMA AddFrame ==
  ASSUME RingInv, NEW h \in Handlers,
         AddLoad(h) \/ AddRetry(h) \/ AddLoadTail(h) \/ AddSwapTail(h)
  PROVE  RingInv'
<1>0. /\ head \in Slots /\ tail \in Slots /\ claimed \in Nat /\ buffer \in [Slots -> Int]
      /\ pc \in [Handlers -> Steps] /\ my \in [Handlers -> Locals] /\ my[h] \in Locals
      /\ Behind(claimed, head, tail)
  BY DEF RingInv, RingTypes, TailBehind
<1>1. CASE AddLoad(h)
  <2> DEFINE r == WithHead(my[h], head)
  <2>1. /\ pc' = [pc EXCEPT ![h] = "claim"] /\ UNCHANGED <<buffer, head, tail, claimed, late>>
    BY <1>1 DEF AddLoad, Goto, ringVars
  <2>2. my' = [my EXCEPT ![h] = r]
    BY <1>1 DEF AddLoad, WithHead
  <2>3. r \in Locals
    BY <1>0, LocalsKept
  <2> HIDE DEF r
  <2>4. my' \in [Handlers -> Locals] /\ pc' \in [Handlers -> Steps]
    BY <1>0, <2>1, <2>2, <2>3 DEF Steps
  <2>5. /\ pc'[h] = "claim"
        /\ \A g \in Handlers : g # h => pc'[g] = pc[g] /\ my'[g] = my[g]
    BY <1>0, <2>1, <2>2
  <2>6. pc[h] = "record"
    BY <1>1 DEF AddLoad, Goto
  <2>7. RingTypes'
    BY <1>0, <2>1, <2>4 DEF RingTypes
  <2> QED  BY <1>0, <2>1, <2>5, <2>6, <2>7, RingFrame
<1>2. CASE AddRetry(h)
  <2>1. /\ pc[h] = "claim" /\ pc' = [pc EXCEPT ![h] = "record"]
        /\ UNCHANGED <<buffer, head, tail, claimed, late, my>>
    BY <1>2 DEF AddRetry, Goto, ringVars
  <2>2. pc' \in [Handlers -> Steps] /\ \A g \in Handlers : g # h => pc'[g] = pc[g]
    BY <1>0, <2>1 DEF Steps
  <2>3. pc'[h] = "record"
    BY <1>0, <2>1
  <2>4. RingTypes'
    BY <1>0, <2>1, <2>2 DEF RingTypes
  <2> QED  BY <1>0, <2>1, <2>2, <2>3, <2>4, RingFrame
<1>3. CASE AddLoadTail(h)
  <2> DEFINE r == WithTail(my[h], tail)
  <2>1. /\ pc[h] = "tail" /\ UNCHANGED <<buffer, head, tail, claimed, late>>
        /\ \E s \in {"swap", "series"} : pc' = [pc EXCEPT ![h] = s]
    BY <1>3 DEF AddLoadTail, Goto, ringVars
  <2>2. my' = [my EXCEPT ![h] = r]
    BY <1>3 DEF AddLoadTail, WithTail
  <2>3. r \in Locals /\ r.head = my[h].head /\ r.sample = my[h].sample
    BY <1>0, LocalsKept
  <2> HIDE DEF r
  <2>4. my' \in [Handlers -> Locals] /\ pc' \in [Handlers -> Steps]
    BY <1>0, <2>1, <2>2, <2>3 DEF Steps
  <2>5. /\ pc'[h] \in {"swap", "series"}
        /\ \A g \in Handlers : g # h => pc'[g] = pc[g] /\ my'[g] = my[g]
        /\ my'[h] = r
    BY <1>0, <2>1, <2>2
  <2>6. RingTypes'
    BY <1>0, <2>1, <2>4 DEF RingTypes
  <2> QED  BY <1>0, <2>1, <2>3, <2>5, <2>6, RingFrame
<1>4. CASE AddSwapTail(h)
  <2>1. /\ pc[h] = "swap" /\ pc' = [pc EXCEPT ![h] = "series"]
        /\ UNCHANGED <<buffer, head, claimed, late, my>>
        /\ tail' = tail \/ tail' = Next1(my[h].head)
    BY <1>4 DEF AddSwapTail, Goto
  <2>2. pc' \in [Handlers -> Steps] /\ \A g \in Handlers : g # h => pc'[g] = pc[g]
    BY <1>0, <2>1 DEF Steps
  <2>3. pc'[h] = "series"
    BY <1>0, <2>1
  <2>4. /\ Next1(my[h].head) \in Slots
        /\ Behind(claimed, head, Next1(my[h].head))
    BY <1>0, <2>1, NextSlot DEF RingInv, TailBehind, Locals
  <2>5. tail' \in Slots /\ Behind(claimed, head, tail')
    BY <1>0, <2>1, <2>4
  <2>6. RingTypes'
    BY <1>0, <2>1, <2>2, <2>5 DEF RingTypes
  <2> QED  BY <1>0, <2>1, <2>2, <2>3, <2>5, <2>6, RingFrame
<1> QED  BY <1>1, <1>2, <1>3, <1>4

\* What is not a step of an Add leaves the ring alone.
NoAdd ==
  /\ UNCHANGED <<ringVars, my>>
  /\ pc' \in [Handlers -> Steps]
  /\ \A g \in Handlers : InAdd(g)' => InAdd(g)
  /\ \A g \in Handlers : InAdd(g) => pc'[g] = pc[g]

\* The steps of the system, seen from the ring and its reader.
LEMMA RingSteps ==
  ASSUME RingTypes, [Next]_vars
  PROVE  \/ \E h \in Handlers : \/ AddLoad(h) \/ AddClaim(h) \/ AddRetry(h) \/ AddWrite(h)
                                \/ AddLoadTail(h) \/ AddSwapTail(h)
         \/ NoAdd /\ (GetAllHead \/ GetAllTail \/ GetAllCopy \/ UNCHANGED <<readerVars, disturbed>>)
<1>0. pc \in [Handlers -> Steps]
  BY DEF RingTypes
<1>1. ASSUME NEW h \in Handlers, NEW from \in {"idle", "record", "series"},
             NEW to \in {"idle", "record", "series"}, pc[h] = from, pc' = [pc EXCEPT ![h] = to],
             UNCHANGED <<ringVars, my>>
      PROVE  NoAdd
  BY <1>0, <1>1 DEF NoAdd, InAdd, Steps
<1>2. ASSUME NEW e \in Events, Publish(e) PROVE NoAdd /\ UNCHANGED <<readerVars, disturbed>>
  BY <1>0, <1>2 DEF Publish, NoAdd, InAdd
<1>3. ASSUME NEW h \in Handlers, NEW e \in Events, Deliver(h, e)
      PROVE  NoAdd /\ UNCHANGED <<readerVars, disturbed>>
  <2>1. /\ pc[h] = "idle" /\ UNCHANGED <<ringVars, my, readerVars, disturbed>>
        /\ \E to \in {"idle", "record"} : pc' = [pc EXCEPT ![h] = to]
    BY <1>3 DEF Deliver
  <2> QED  BY <1>1, <2>1
<1>4. ASSUME NEW h \in Handlers, Count(h) PROVE NoAdd /\ UNCHANGED <<readerVars, disturbed>>
  <2>1. /\ pc[h] = "record" /\ UNCHANGED <<ringVars, my, readerVars, disturbed>>
        /\ pc' = [pc EXCEPT ![h] = "series"]
    BY <1>4 DEF Count, Goto, Handling
  <2> QED  BY <1>1, <2>1
<1>5. ASSUME NEW h \in Handlers, SeriesAdd(h) PROVE NoAdd /\ UNCHANGED <<readerVars, disturbed>>
  <2>1. /\ pc[h] = "series" /\ UNCHANGED <<ringVars, my, readerVars, disturbed>>
        /\ \E to \in {"idle", "record"} : pc' = [pc EXCEPT ![h] = to]
    BY <1>5 DEF SeriesAdd, Goto
  <2> QED  BY <1>1, <2>1
<1>6. CASE GetAllHead \/ GetAllTail \/ GetAllCopy
  BY <1>0, <1>6 DEF GetAllHead, GetAllTail, GetAllCopy, Reading, NoAdd, InAdd
<1>7. CASE Tick
  BY <1>0, <1>7 DEF Tick, NoAdd, InAdd
<1>8. CASE UNCHANGED vars
  BY <1>0, <1>8 DEF vars, NoAdd, InAdd
<1> QED  BY <1>2, <1>3, <1>4, <1>5, <1>6, <1>7, <1>8 DEF Next, HandlerStep

\* The ring is in order, in every state.
LEMMA RingInvHolds == Spec => []RingInv
<1>1. Init => RingInv
  <2> SUFFICES ASSUME Init PROVE RingInv
    OBVIOUS
  <2>1. Size \in Nat /\ Size > 0 /\ 0 \in Slots
    BY CollectorAssumption DEF Slots
  <2>2. /\ buffer = [i \in Slots |-> 0] /\ head = 0 /\ tail = 0 /\ claimed = 0
        /\ pc = [h \in Handlers |-> "idle"]
        /\ my = [h \in Handlers |-> [head |-> 0, tail |-> 0, sample |-> 0]]
    BY DEF Init
  <2>3. RingTypes
    BY <2>1, <2>2 DEF RingTypes, Steps, Locals
  <2>4. Lap(claimed, head)
    BY <2>1, <2>2 DEF Lap
  <2>5. SlotsHold
    <3> SUFFICES ASSUME NEW i \in Slots
                 PROVE  buffer[i] = 0 /\ ~ (SampleOf(claimed, head, i) > 0)
      BY DEF SlotsHold
    <3>1. i \in Nat /\ i < Size
      BY <2>1 DEF Slots
    <3> QED  BY <2>1, <2>2, <3>1 DEF SampleOf
  <2>6. WritersOwn
    BY <2>2 DEF WritersOwn
  <2>7. TailBehind
    BY <2>1, <2>2 DEF TailBehind, Behind
  <2> QED  BY <2>3, <2>4, <2>5, <2>6, <2>7 DEF RingInv
<1>2. RingInv /\ [Next]_vars => RingInv'
  <2> SUFFICES ASSUME RingInv, [Next]_vars PROVE RingInv'
    OBVIOUS
  <2>1. CASE NoAdd
    <3>1. UNCHANGED <<buffer, head, tail, claimed, late, my>> /\ pc' \in [Handlers -> Steps]
      BY <2>1 DEF NoAdd, ringVars
    <3>2. RingTypes'
      BY <3>1 DEF RingInv, RingTypes
    <3>3. \A g \in Handlers : pc'[g] \in {"claim", "write", "tail", "swap"} => pc'[g] = pc[g]
      BY <2>1 DEF NoAdd, InAdd
    <3>4. \A g \in Handlers : pc[g] \in {"claim", "write", "tail", "swap"} => pc'[g] = pc[g]
      BY <2>1 DEF NoAdd, InAdd
    <3>5. Behind(claimed, head, tail')
      BY <3>1 DEF RingInv, TailBehind
    <3> QED  BY <3>1, <3>2, <3>3, <3>4, <3>5, RingFrame
  <2> QED  BY <2>1, RingSteps, AddFrame, ClaimStep, WriteStep DEF RingInv
<1> QED  BY <1>1, <1>2, PTL DEF Spec

-----------------------------------------------------------------------------
(* GetAll. *)

\* Slots from slot i to the head.
Rem(h, i) == IF i <= h THEN h - i ELSE h - i + Size

\* The samples of r are consecutive, and the newest of them is sample n.
Consecutive(r, n) == \A j \in 1 .. Len(r) : r[j] = n - Len(r) + j

ReadTypes ==
  /\ rpc \in {"idle", "tail", "copy", "done"}
  /\ ri \in Slots
  /\ result \in Seq(Int)

\* Nobody is in Add while the call of GetAll is undisturbed.
Undisturbed == ~disturbed => \A h \in Handlers : ~ InAdd(h)

\* The copy goes from the tail to the head.
CopyInOrder ==
  ~disturbed /\ late = {} =>
    /\ rpc \in {"tail", "copy"} => rhead = head
    /\ rpc = "tail" => result = << >>
    /\ rpc = "copy" => /\ ri # head /\ Behind(claimed, head, ri)
                       /\ Consecutive(result, claimed - Rem(head, ri))
    /\ rpc = "done" => Consecutive(result, claimed)

ReadInv == ReadTypes /\ Undisturbed /\ CopyInOrder

\* The sample in a slot that the copy has yet to read, and the slots left after it.
LEMMA RemStep ==
  ASSUME NEW c \in Nat, NEW h \in Slots, Lap(c, h), NEW i \in Slots, i # h, Behind(c, h, i)
  PROVE  /\ SampleOf(c, h, i) = c - Rem(h, i) + 1 /\ SampleOf(c, h, i) > 0
         /\ Rem(h, Next1(i)) = Rem(h, i) - 1
         /\ Next1(i) # h => Behind(c, h, Next1(i))
         /\ Rem(h, h) = 0 /\ Rem(h, i) \in Int /\ SampleOf(c, h, i) \in Int
<1>1. Size \in Nat /\ Size > 0 /\ h \in Nat /\ h + 1 <= Size /\ i \in Nat /\ i + 1 <= Size
  BY CollectorAssumption DEF Slots
<1> DEFINE n == Next1(i)
<1>2. n = IF i + 1 = Size THEN 0 ELSE i + 1
  BY NextSlot
<1> HIDE DEF n
<1>3. CASE i < h
  <2>1. n = i + 1 /\ n <= h
    BY <1>1, <1>2, <1>3
  <2>2. /\ Rem(h, i) = h - i /\ Rem(h, n) = h - n /\ Rem(h, h) = 0
        /\ SampleOf(c, h, i) = c - (h - 1 - i)
    BY <1>1, <1>3, <2>1 DEF Rem, SampleOf
  <2>3. c >= h
    BY <1>1 DEF Lap
  <2>4. Behind(c, h, n)
    BY <2>1 DEF Behind
  <2> QED  BY <1>1, <1>3, <2>1, <2>2, <2>3, <2>4 DEF n
<1>4. CASE ~ (i < h)
  <2>1. i > h /\ c >= Size /\ c >= Size + h
    BY <1>1, <1>4 DEF Behind, Lap
  <2>2. /\ Rem(h, i) = h - i + Size /\ Rem(h, h) = 0
        /\ SampleOf(c, h, i) = c - (h - 1 - i) - Size
    BY <1>1, <1>4, <2>1 DEF Rem, SampleOf
  <2>3. Rem(h, n) = Rem(h, i) - 1
    <3>1. CASE i + 1 = Size
      BY <1>1, <1>2, <2>1, <2>2, <3>1 DEF Rem
    <3>2. CASE i + 1 # Size
      BY <1>1, <1>2, <2>1, <2>2, <3>2 DEF Rem
    <3> QED  BY <3>1, <3>2
  <2>4. Behind(c, h, n)
    BY <2>1 DEF Behind
  <2> QED  BY <1>1, <2>1, <2>2, <2>3, <2>4 DEF n
<1> QED  BY <1>3, <1>4

\* One more sample of a run.
LEMMA ConsecutiveAppend ==
  ASSUME NEW r \in Seq(Int), NEW n \in Int, Consecutive(r, n), NEW v, v = n + 1
  PROVE  Append(r, v) \in Seq(Int) /\ Consecutive(Append(r, v), n + 1)
<1> DEFINE a == Append(r, v)
<1>1. /\ a \in Seq(Int) /\ Len(a) = Len(r) + 1 /\ a[Len(r) + 1] = v /\ Len(r) \in Nat
      /\ \A i \in 1 .. Len(r) : a[i] = r[i]
  BY AppendProperties
<1> HIDE DEF a
<1>2. ASSUME NEW j \in 1 .. Len(a) PROVE a[j] = n + 1 - Len(a) + j
  <2>1. CASE j = Len(r) + 1
    BY <1>1, <2>1
  <2>2. CASE j # Len(r) + 1
    <3>1. j \in 1 .. Len(r)
      BY <1>1, <2>2
    <3>2. a[j] = r[j] /\ r[j] = n - Len(r) + j
      BY <1>1, <3>1 DEF Consecutive
    <3> QED  BY <1>1, <3>2
  <2> QED  BY <2>1, <2>2
<1> QED  BY <1>1, <1>2 DEF Consecutive, a

\* One iteration of the copy.
LEMMA CopyStep ==
  ASSUME RingInv, ReadInv, GetAllCopy
  PROVE  ReadInv'
<1>0. /\ rpc = "copy" /\ ri \in Slots /\ result \in Seq(Int)
      /\ head \in Slots /\ claimed \in Nat /\ Lap(claimed, head)
      /\ buffer \in [Slots -> Int] /\ my \in [Handlers -> Locals]
  BY DEF GetAllCopy, ReadInv, ReadTypes, RingInv, RingTypes
<1>1. PICK v \in {buffer[ri]} \cup {my[h].sample : h \in WritingTo(ri)}
                   \cup (IF WritingTo(ri) = {} THEN {} ELSE {Torn}) : result' = Append(result, v)
  BY DEF GetAllCopy
<1>2. /\ ri' = Next1(ri) /\ rpc' = IF Next1(ri) = rhead THEN "done" ELSE "copy"
      /\ UNCHANGED <<rhead, disturbed, late, head, claimed, pc>>
  BY DEF GetAllCopy, Reading, ringVars
<1>3. v \in Int
  <2>1. \A h \in WritingTo(ri) : my[h].sample \in Int
    BY <1>0 DEF Locals, WritingTo
  <2> QED  BY <1>0, <1>1, <2>1 DEF Torn
<1>4. ReadTypes'
  BY <1>0, <1>1, <1>2, <1>3, NextSlot DEF ReadTypes
<1>5. Undisturbed'
  BY <1>2 DEF ReadInv, Undisturbed, InAdd
<1>6. CopyInOrder'
  <2> SUFFICES ASSUME ~disturbed, late = {}
               PROVE  CopyInOrder'
    BY <1>2 DEF CopyInOrder
  <2>1. /\ rhead = head /\ ri # head /\ Behind(claimed, head, ri)
        /\ Consecutive(result, claimed - Rem(head, ri))
    BY <1>0 DEF ReadInv, CopyInOrder
  <2>2. WritingTo(ri) = {}
    BY DEF ReadInv, Undisturbed, InAdd, WritingTo
  <2>3. /\ SampleOf(claimed, head, ri) = claimed - Rem(head, ri) + 1
        /\ SampleOf(claimed, head, ri) > 0
        /\ Rem(head, Next1(ri)) = Rem(head, ri) - 1
        /\ Next1(ri) # head => Behind(claimed, head, Next1(ri))
        /\ Rem(head, head) = 0 /\ Rem(head, ri) \in Int
    BY <1>0, <2>1, RemStep
  <2>4. v = claimed - Rem(head, ri) + 1
    <3>1. v = buffer[ri]
      BY <1>1, <2>2
    <3>2. buffer[ri] = SampleOf(claimed, head, ri)
      BY <1>0, <2>2, <2>3 DEF RingInv, SlotsHold
    <3> QED  BY <2>3, <3>1, <3>2
  <2>5. Consecutive(result', claimed - Rem(head, ri) + 1)
    <3> DEFINE n == claimed - Rem(head, ri)
    <3>1. n \in Int /\ v = n + 1 /\ Consecutive(result, n)
      BY <1>0, <2>1, <2>3, <2>4
    <3> HIDE DEF n
    <3>2. Consecutive(Append(result, v), n + 1)
      BY <1>0, <3>1, ConsecutiveAppend
    <3> QED  BY <1>1, <3>2 DEF n
  <2>6. claimed - Rem(head, ri) + 1 = claimed - Rem(head, Next1(ri))
    BY <1>0, <2>3
  <2>7. CASE Next1(ri) = head
    <3>1. rpc' = "done" /\ claimed - Rem(head, Next1(ri)) = claimed
      BY <1>0, <1>2, <2>1, <2>3, <2>7
    <3> QED  BY <1>2, <2>5, <2>6, <3>1 DEF CopyInOrder
  <2>8. CASE Next1(ri) # head
    <3>1. rpc' = "copy"
      BY <1>2, <2>1, <2>8
    <3> QED  BY <1>2, <2>1, <2>3, <2>5, <2>6, <2>8, <3>1 DEF CopyInOrder
  <2> QED  BY <2>7, <2>8
<1> QED  BY <1>4, <1>5, <1>6 DEF ReadInv

\* A call of GetAll is in order, in every state.
LEMMA ReadInvHolds == Spec => []ReadInv
<1>1. Init => ReadInv
  <2> SUFFICES ASSUME Init PROVE ReadInv
    OBVIOUS
  <2>1. 0 \in Slots
    BY CollectorAssumption DEF Slots
  <2>2. rpc = "idle" /\ ri = 0 /\ result = << >> /\ pc = [h \in Handlers |-> "idle"]
    BY DEF Init
  <2> QED  BY <2>1, <2>2 DEF ReadInv, ReadTypes, Undisturbed, InAdd, CopyInOrder
<1>2. ReadInv /\ RingInv /\ [Next]_vars => ReadInv'
  <2> SUFFICES ASSUME ReadInv, RingInv, [Next]_vars PROVE ReadInv'
    OBVIOUS
  <2>0. RingTypes /\ pc \in [Handlers -> Steps] /\ tail \in Slots
    BY DEF RingInv, RingTypes
  <2>1. ASSUME NEW h \in Handlers,
               \/ AddLoad(h) \/ AddClaim(h) \/ AddRetry(h) \/ AddWrite(h)
               \/ AddLoadTail(h) \/ AddSwapTail(h)
        PROVE  ReadInv'
    <3>1. UNCHANGED readerVars
      BY <2>1 DEF AddLoad, AddClaim, AddRetry, AddWrite, AddLoadTail, AddSwapTail, Handling
    <3>2. disturbed'
      <4>1. CASE AddLoad(h)
        BY <4>1 DEF AddLoad
      <4>2. CASE AddClaim(h) \/ AddRetry(h) \/ AddWrite(h) \/ AddLoadTail(h) \/ AddSwapTail(h)
        <5>1. InAdd(h)
          BY <4>2 DEF AddClaim, AddRetry, AddWrite, AddLoadTail, AddSwapTail, Goto, InAdd
        <5>2. disturbed
          BY <5>1 DEF ReadInv, Undisturbed
        <5>3. disturbed' = disturbed
          BY <4>2 DEF AddClaim, AddRetry, AddWrite, AddLoadTail, AddSwapTail
        <5> QED  BY <5>2, <5>3
      <4> QED  BY <2>1, <4>1, <4>2
    <3> QED  BY <3>1, <3>2 DEF readerVars, ReadInv, ReadTypes, Undisturbed, CopyInOrder
  <2>2. CASE NoAdd /\ UNCHANGED <<readerVars, disturbed>>
    <3>1. UNCHANGED <<rpc, rhead, ri, result, disturbed, head, claimed, late>>
      BY <2>2 DEF NoAdd, readerVars, ringVars
    <3>2. Undisturbed'
      BY <2>2, <3>1 DEF NoAdd, ReadInv, Undisturbed
    <3> QED  BY <3>1, <3>2 DEF ReadInv, ReadTypes, CopyInOrder
  <2>3. CASE GetAllHead
    <3>1. /\ rpc' = "tail" /\ rhead' = head /\ result' = << >> /\ ri' = ri
          /\ disturbed' = \E h \in Handlers : InAdd(h)
          /\ UNCHANGED <<head, pc>>
      BY <2>3 DEF GetAllHead, Reading, ringVars
    <3>2. Undisturbed'
      BY <3>1 DEF Undisturbed, InAdd
    <3>3. ReadTypes'
      BY <3>1 DEF ReadInv, ReadTypes
    <3>4. CopyInOrder'
      BY <3>1 DEF CopyInOrder
    <3> QED  BY <3>2, <3>3, <3>4 DEF ReadInv
  <2>4. CASE GetAllTail
    <3>1. /\ rpc = "tail" /\ ri' = tail /\ rpc' = IF rhead = tail THEN "done" ELSE "copy"
          /\ UNCHANGED <<rhead, result, disturbed, head, claimed, late, pc>>
      BY <2>4 DEF GetAllTail, Reading, ringVars
    <3>2. Undisturbed'
      BY <3>1 DEF ReadInv, Undisturbed, InAdd
    <3>3. ReadTypes'
      BY <2>0, <3>1 DEF ReadInv, ReadTypes
    <3>4. CopyInOrder'
      <4> SUFFICES ASSUME ~disturbed, late = {} PROVE CopyInOrder'
        BY <3>1 DEF CopyInOrder
      <4>1. rhead = head /\ result = << >>
        BY <3>1 DEF ReadInv, CopyInOrder
      <4>2. \A n : Consecutive(result', n)
        BY <3>1, <4>1 DEF Consecutive
      <4>3. Behind(claimed, head, tail)
        BY DEF RingInv, TailBehind
      <4> QED  BY <3>1, <4>1, <4>2, <4>3 DEF CopyInOrder
    <3> QED  BY <3>2, <3>3, <3>4 DEF ReadInv
  <2>5. CASE GetAllCopy
    BY <2>5, CopyStep
  <2> QED  BY <2>0, <2>1, <2>2, <2>3, <2>4, <2>5, RingSteps
<1> QED  BY <1>1, <1>2, RingInvHolds, PTL DEF Spec

(***************************************************************************)
(* A GetAll that no Add disturbed returns the newest samples, oldest first *)
(* and without a gap (RingBuffer.Add and GetAll, metrics.go), whatever     *)
(* races there were before it and however large the ring is, unless the    *)
(* last writer of a slot was overtaken by a whole lap.                     *)
(***************************************************************************)
THEOREM QuietReadsAreNewest == Spec => []WindowIsNewest
<1>1. ReadInv => WindowIsNewest
  BY DEF ReadInv, CopyInOrder, Consecutive, WindowIsNewest
<1> QED  BY <1>1, ReadInvHolds, PTL

-----------------------------------------------------------------------------
(* What a GetAll may find in the slots it copies. *)

\* The numbers of samples, and a sample in pieces.
Samples == (Nat \ {0}) \cup {Torn}

\* A slot that was given away holds a sample, unless it is being written.
SlotsFilled ==
  /\ \A i \in Slots : buffer[i] \in Samples \cup {0}
  /\ \A i \in Slots : WritingTo(i) = {} /\ SampleOf(claimed, head, i) > 0 => buffer[i] \in Samples

\* An undisturbed copy goes from the tail to the head, and finds samples.
CopyOfSamples ==
  ~disturbed =>
    /\ rpc \in {"tail", "copy"} => rhead = head
    /\ rpc = "copy" => ri # head /\ Behind(claimed, head, ri)
    /\ result \in Seq(Samples)

FilledInv == SlotsFilled /\ CopyOfSamples

\* A step of an Add leaves no given slot without a sample.
LEMMA FilledAddStep ==
  ASSUME RingInv, ReadInv, FilledInv, NEW h \in Handlers,
         \/ AddLoad(h) \/ AddClaim(h) \/ AddRetry(h) \/ AddWrite(h)
         \/ AddLoadTail(h) \/ AddSwapTail(h)
  PROVE  SlotsFilled'
<1>0. /\ head \in Slots /\ claimed \in Nat /\ Lap(claimed, head)
      /\ buffer \in [Slots -> Int] /\ pc \in [Handlers -> Steps] /\ my \in [Handlers -> Locals]
  BY DEF RingInv, RingTypes
<1>1. CASE AddLoad(h) \/ AddRetry(h) \/ AddLoadTail(h) \/ AddSwapTail(h)
  <2>1. UNCHANGED <<buffer, head, claimed>>
    BY <1>1 DEF AddLoad, AddRetry, AddLoadTail, AddSwapTail, ringVars
  <2>2. /\ \A g \in Handlers : pc'[g] = "write" <=> pc[g] = "write"
        /\ \A g \in Handlers : pc[g] = "write" => my'[g] = my[g]
    BY <1>0, <1>1 DEF AddLoad, AddRetry, AddLoadTail, AddSwapTail, Goto
  <2>3. \A i : WritingTo(i)' = WritingTo(i)
    BY <2>2 DEF WritingTo
  <2> QED  BY <2>1, <2>3 DEF FilledInv, SlotsFilled
<1>2. CASE AddClaim(h)
  <2>1. /\ pc' = [pc EXCEPT ![h] = "write"] /\ head = my[h].head /\ pc[h] = "claim"
        /\ head' = Next1(head) /\ claimed' = claimed + 1 /\ buffer' = buffer
        /\ my' = [my EXCEPT ![h].sample = claimed + 1]
    BY <1>2 DEF AddClaim, Goto
  <2>2. \A i \in Slots : i # head => SampleOf(claimed', head', i) = SampleOf(claimed, head, i)
    BY <1>0, <2>1, ClaimMoves
  <2>3. \A g \in Handlers : my'[g].head = my[g].head
    BY <1>0, <2>1 DEF Locals
  <2>4. \A g \in Handlers : pc[g] = "write" => pc'[g] = "write"
    BY <1>0, <2>1
  <2>5. \A i \in Slots : i = head => h \in WritingTo(i)'
    BY <1>0, <2>1, <2>3 DEF WritingTo
  <2>6. ASSUME NEW i \in Slots, WritingTo(i)' = {}, SampleOf(claimed', head', i) > 0
        PROVE  buffer'[i] \in Samples
    <3>1. i # head
      BY <2>5, <2>6
    <3>2. WritingTo(i) = {}
      BY <2>3, <2>4, <2>6 DEF WritingTo
    <3> QED  BY <2>1, <2>2, <2>6, <3>1, <3>2 DEF FilledInv, SlotsFilled
  <2> QED  BY <2>1, <2>6 DEF FilledInv, SlotsFilled
<1>3. CASE AddWrite(h)
  <2> DEFINE i == my[h].head
  <2>1. /\ pc[h] = "write" /\ pc' = [pc EXCEPT ![h] = "tail"]
        /\ UNCHANGED <<head, claimed, my>>
    BY <1>3 DEF AddWrite, Goto
  <2>2. PICK v \in {my[h].sample, Torn} : buffer' = [buffer EXCEPT ![i] = v]
    BY <1>3 DEF AddWrite
  <2>3. v \in Samples
    BY <1>0, <2>1, <2>2 DEF Samples, RingInv, WritersOwn, Locals
  <2>4. ASSUME NEW j \in Slots, j # i PROVE buffer'[j] = buffer[j] /\ WritingTo(j)' = WritingTo(j)
    <3>1. buffer'[j] = buffer[j]
      BY <1>0, <2>2, <2>4
    <3>2. \A g \in Handlers : g # h => pc'[g] = pc[g]
      BY <1>0, <2>1
    <3>3. pc'[h] = "tail"
      BY <1>0, <2>1
    <3> QED  BY <2>1, <2>4, <3>1, <3>2, <3>3 DEF WritingTo
  <2>5. i \in Slots /\ buffer'[i] = v
    BY <1>0, <2>2 DEF Locals
  <2> HIDE DEF i
  <2> QED  BY <2>1, <2>3, <2>4, <2>5 DEF FilledInv, SlotsFilled
<1> QED  BY <1>1, <1>2, <1>3

\* One iteration of an undisturbed copy reads a sample.
LEMMA FilledCopyStep ==
  ASSUME RingInv, ReadInv, FilledInv, GetAllCopy, ~disturbed
  PROVE  CopyOfSamples'
<1>0. /\ rpc = "copy" /\ ri \in Slots /\ head \in Slots /\ claimed \in Nat /\ Lap(claimed, head)
      /\ rhead = head /\ ri # head /\ Behind(claimed, head, ri) /\ result \in Seq(Samples)
  BY DEF GetAllCopy, ReadInv, ReadTypes, RingInv, RingTypes, FilledInv, CopyOfSamples
<1>1. WritingTo(ri) = {}
  BY DEF ReadInv, Undisturbed, InAdd, WritingTo
<1>2. /\ result' = Append(result, buffer[ri])
      /\ ri' = Next1(ri) /\ rpc' = IF Next1(ri) = rhead THEN "done" ELSE "copy"
      /\ UNCHANGED <<rhead, disturbed, head, claimed>>
  BY <1>1 DEF GetAllCopy, Reading, ringVars
<1>3. SampleOf(claimed, head, ri) > 0 /\ (Next1(ri) # head => Behind(claimed, head, Next1(ri)))
  BY <1>0, RemStep
<1>4. buffer[ri] \in Samples
  BY <1>0, <1>1, <1>3 DEF FilledInv, SlotsFilled
<1>5. result' \in Seq(Samples)
  BY <1>0, <1>2, <1>4, AppendProperties
<1> QED  BY <1>0, <1>2, <1>3, <1>5 DEF CopyOfSamples

\* Slots and copies hold samples, in every state.
LEMMA FilledInvHolds == Spec => []FilledInv
<1>1. Init => FilledInv
  <2> SUFFICES ASSUME Init PROVE FilledInv
    OBVIOUS
  <2>1. Size \in Nat /\ Size > 0
    BY CollectorAssumption
  <2>2. /\ buffer = [i \in Slots |-> 0] /\ head = 0 /\ claimed = 0
        /\ rpc = "idle" /\ result = << >>
    BY DEF Init
  <2>3. \A i \in Slots : ~ (SampleOf(claimed, head, i) > 0)
    <3> SUFFICES ASSUME NEW i \in Slots PROVE ~ (SampleOf(claimed, head, i) > 0)
      OBVIOUS
    <3>1. i \in Nat /\ i < Size
      BY <2>1 DEF Slots
    <3> QED  BY <2>1, <2>2, <3>1 DEF SampleOf
  <2> QED  BY <2>2, <2>3 DEF FilledInv, SlotsFilled, CopyOfSamples
<1>2. FilledInv /\ RingInv /\ ReadInv /\ [Next]_vars => FilledInv'
  <2> SUFFICES ASSUME FilledInv, RingInv, ReadInv, [Next]_vars PROVE FilledInv'
    OBVIOUS
  <2>0. RingTypes
    BY DEF RingInv
  <2>1. ASSUME NEW h \in Handlers,
               \/ AddLoad(h) \/ AddClaim(h) \/ AddRetry(h) \/ AddWrite(h)
               \/ AddLoadTail(h) \/ AddSwapTail(h)
        PROVE  FilledInv'
    <3>1. disturbed'
      <4>1. CASE AddLoad(h)
        BY <4>1 DEF AddLoad
      <4>2. CASE AddClaim(h) \/ AddRetry(h) \/ AddWrite(h) \/ AddLoadTail(h) \/ AddSwapTail(h)
        <5>1. InAdd(h)
          BY <4>2 DEF AddClaim, AddRetry, AddWrite, AddLoadTail, AddSwapTail, Goto, InAdd
        <5>2. disturbed
          BY <5>1 DEF ReadInv, Undisturbed
        <5>3. disturbed' = disturbed
          BY <4>2 DEF AddClaim, AddRetry, AddWrite, AddLoadTail, AddSwapTail
        <5> QED  BY <5>2, <5>3
      <4> QED  BY <2>1, <4>1, <4>2
    <3> QED  BY <2>1, <3>1, FilledAddStep DEF FilledInv, CopyOfSamples
  <2>2. CASE /\ NoAdd
             /\ GetAllHead \/ GetAllTail \/ GetAllCopy \/ UNCHANGED <<readerVars, disturbed>>
    <3>1. UNCHANGED <<buffer, head, tail, claimed, my>>
      BY <2>2 DEF NoAdd, ringVars
    <3>2. \A g \in Handlers : pc'[g] = "write" <=> pc[g] = "write"
      BY <2>2 DEF NoAdd, InAdd
    <3>3. \A i : WritingTo(i)' = WritingTo(i)
      BY <3>1, <3>2 DEF WritingTo
    <3>4. SlotsFilled'
      BY <3>1, <3>3 DEF FilledInv, SlotsFilled
    <3>5. CASE UNCHANGED <<readerVars, disturbed>>
      BY <3>1, <3>4, <3>5 DEF FilledInv, CopyOfSamples, readerVars
    <3>6. CASE GetAllHead
      <4>1. rpc' = "tail" /\ rhead' = head /\ result' = << >>
        BY <3>6 DEF GetAllHead
      <4> QED  BY <3>1, <3>4, <4>1 DEF FilledInv, CopyOfSamples
    <3>7. CASE GetAllTail
      <4>1. /\ rpc = "tail" /\ ri' = tail /\ rpc' = IF rhead = tail THEN "done" ELSE "copy"
            /\ UNCHANGED <<rhead, result, disturbed>>
        BY <3>7 DEF GetAllTail
      <4>2. Behind(claimed, head, tail)
        BY DEF RingInv, TailBehind
      <4> QED  BY <3>1, <3>4, <4>1, <4>2 DEF FilledInv, CopyOfSamples
    <3>8. CASE GetAllCopy
      <4>1. CASE disturbed
        <5>1. disturbed'
          BY <3>8, <4>1 DEF GetAllCopy
        <5> QED  BY <3>4, <5>1 DEF FilledInv, CopyOfSamples
      <4> QED  BY <3>4, <3>8, <4>1, FilledCopyStep DEF FilledInv
    <3> QED  BY <2>2, <3>5, <3>6, <3>7, <3>8
  <2> QED  BY <2>0, <2>1, <2>2, RingSteps
<1> QED  BY <1>1, <1>2, RingInvHolds, ReadInvHolds, PTL DEF Spec

-----------------------------------------------------------------------------
(* Sums over finite sets.  What is shown by induction elsewhere is shown   *)
(* here by a smallest counterexample.                                      *)

\* A nonempty set of naturals has a least element.
LEMMA LeastOf ==
  ASSUME NEW T \in SUBSET Nat, T # {}
  PROVE  \E x \in T : \A y \in T : x <= y
<1> DEFINE Less == {p \in Nat \X Nat : p[1] < p[2]}
<1>1. OpToRel(<, Nat) = Less
  BY DEF OpToRel
<1>2. IsWellFoundedOn(Less, Nat)
  BY <1>1, NatLessThanWellFounded, Zenon
<1> HIDE DEF Less
<1>3. PICK x \in T : \A y \in T : ~ (<<y, x>> \in Less)
  BY <1>2, WFMin
<1>4. ASSUME NEW y \in T PROVE x <= y
  <2>1. x \in Nat /\ y \in Nat
    OBVIOUS
  <2>2. y < x => <<y, x>> \in Less
    BY <2>1 DEF Less
  <2> QED  BY <1>3, <2>1, <2>2
<1> QED  BY <1>4

\* Induction over the subsets of a finite set, as the smallest counterexample.
LEMMA SmallestOf ==
  ASSUME NEW S, IsFiniteSet(S), NEW B \in SUBSET (SUBSET S), B # {}
  PROVE  \E T \in B : \A x \in T : T \ {x} \notin B
<1> DEFINE Sizes == {Cardinality(T) : T \in B}
<1>1. \A T \in SUBSET S : IsFiniteSet(T) /\ Cardinality(T) \in Nat
  BY FS_Subset, FS_CardinalityType
<1>2. Sizes \in SUBSET Nat /\ Sizes # {}
  BY <1>1
<1>3. PICK n \in Sizes : \A m \in Sizes : n <= m
  <2> HIDE DEF Sizes
  <2> QED  BY <1>2, LeastOf
<1>4. PICK T \in B : Cardinality(T) = n
  BY <1>3
<1>5. ASSUME NEW x \in T PROVE T \ {x} \notin B
  <2>1. Cardinality(T \ {x}) = Cardinality(T) - 1
    BY <1>1, FS_RemoveElement
  <2>2. Cardinality(T) \in Nat /\ ~ (Cardinality(T) <= Cardinality(T) - 1)
    BY <1>1
  <2> QED  BY <1>3, <1>4, <2>1, <2>2
<1> QED  BY <1>5

\* The element a sum takes next, and a function that holds the sums over the sets of D.
Chosen(s) == CHOOSE x \in s : TRUE
Totalled(f, D, it) ==
  it = [s \in D |-> IF s = {} THEN 0 ELSE f[Chosen(s)] + it[s \ {Chosen(s)}]]
TotalledOn(f, S, it) == Totalled(f, SUBSET S, it)

\* It is one of them.
LEMMA ChosenIn ==
  ASSUME NEW s, s # {}
  PROVE  Chosen(s) \in s
BY DEF Chosen

\* A total of one set, from that of a smaller one.
LEMMA TotalAt ==
  ASSUME NEW f, NEW D, NEW it, Totalled(f, D, it), NEW s \in D
  PROVE  it[s] = IF s = {} THEN 0 ELSE f[Chosen(s)] + it[s \ {Chosen(s)}]
<1>1. it = [u \in D |-> IF u = {} THEN 0 ELSE f[Chosen(u)] + it[u \ {Chosen(u)}]]
  BY DEF Totalled
<1> DEFINE F(u) == IF u = {} THEN 0 ELSE f[Chosen(u)] + it[u \ {Chosen(u)}]
<1>2. it = [u \in D |-> F(u)]
  BY <1>1
<1> HIDE DEF F
<1>3. it[s] = F(s)
  BY <1>2
<1> QED  BY <1>3 DEF F

\* The recursive function of a fold exists.
LEMMA TotalExists ==
  ASSUME NEW S, IsFiniteSet(S), NEW f
  PROVE  \E it : Totalled(f, SUBSET S, it)
<1> DEFINE Upto(n) == {s \in SUBSET S : Cardinality(s) <= n}
           Missing == {n \in Nat : ~ \E it : Totalled(f, Upto(n), it)}
<1>1. \A s \in SUBSET S : IsFiniteSet(s) /\ Cardinality(s) \in Nat /\ Cardinality(s) <= Cardinality(S)
  BY FS_Subset, FS_CardinalityType
<1>2. ASSUME Missing # {} PROVE FALSE
  <2>1. PICK n \in Missing : \A m \in Missing : n <= m
    BY <1>2, LeastOf
  <2>2. CASE n = 0
    <3>1. \A s \in Upto(0) : s = {}
      BY <1>1, FS_EmptySet
    <3> DEFINE it == [s \in Upto(0) |-> 0]
    <3>2. it = [s \in Upto(0) |-> IF s = {} THEN 0 ELSE f[Chosen(s)] + it[s \ {Chosen(s)}]]
      BY <3>1
    <3>3. Totalled(f, Upto(0), it)
      BY <3>2 DEF Totalled
    <3> QED  BY <2>2, <3>3
  <2>3. CASE n # 0
    <3>0. n \in Nat /\ n - 1 \in Nat /\ ~ (n <= n - 1)
      BY <2>3
    <3>1. n - 1 \notin Missing
      <4> HIDE DEF Missing
      <4> QED  BY <2>1, <3>0
    <3>2. PICK g : Totalled(f, Upto(n - 1), g)
      BY <3>0, <3>1
    <3> DEFINE it == [s \in Upto(n) |-> IF s = {} THEN 0 ELSE f[Chosen(s)] + g[s \ {Chosen(s)}]]
    <3>3. ASSUME NEW s \in Upto(n), s # {} PROVE it[s \ {Chosen(s)}] = g[s \ {Chosen(s)}]
      <4> DEFINE u == s \ {Chosen(s)}
      <4>1. Chosen(s) \in s
        BY <3>3, ChosenIn
      <4>2. s \in SUBSET S /\ Cardinality(s) <= n /\ IsFiniteSet(s) /\ Cardinality(s) \in Nat
        BY <1>1
      <4>3. Cardinality(u) = Cardinality(s) - 1
        BY <4>1, <4>2, FS_RemoveElement
      <4>4. u \in SUBSET S /\ Cardinality(u) <= n - 1 /\ Cardinality(u) <= n
        BY <4>2, <4>3, <3>0
      <4>5. u \in Upto(n) /\ u \in Upto(n - 1)
        BY <4>4
      <4> HIDE DEF u, Upto
      <4>6. g[u] = IF u = {} THEN 0 ELSE f[Chosen(u)] + g[u \ {Chosen(u)}]
        BY <3>2, <4>5, TotalAt
      <4>7. it[u] = IF u = {} THEN 0 ELSE f[Chosen(u)] + g[u \ {Chosen(u)}]
        BY <4>5
      <4> HIDE DEF it
      <4>8. it[u] = g[u]
        BY <4>6, <4>7
      <4> QED  BY <4>8 DEF u
    <3>4. it = [s \in Upto(n) |-> IF s = {} THEN 0 ELSE f[Chosen(s)] + it[s \ {Chosen(s)}]]
      <4> HIDE DEF Upto
      <4> QED  BY <3>3
    <3>5. Totalled(f, Upto(n), it)
      BY <3>4 DEF Totalled
    <3> QED  BY <3>5, <2>1
  <2> QED  BY <2>2, <2>3
<1>3. Cardinality(S) \in Nat
  BY FS_CardinalityType
<1>4. Upto(Cardinality(S)) = SUBSET S
  BY <1>1
<1>5. \E it : Totalled(f, Upto(Cardinality(S)), it)
  BY <1>2, <1>3
<1> QED  BY <1>4, <1>5

\* Totals over two ranges agree on the sets they share.
LEMMA TotalsAgree ==
  ASSUME NEW S, IsFiniteSet(S), NEW T \in SUBSET S, NEW f,
         NEW g, TotalledOn(f, S, g), NEW h, TotalledOn(f, T, h)
  PROVE  g[T] = h[T]
<1> USE DEF TotalledOn
<1> DEFINE B == {u \in SUBSET T : g[u] # h[u]}
<1>1. IsFiniteSet(T)
  BY FS_Subset
<1>2. ASSUME B # {} PROVE FALSE
  <2>1. PICK u \in B : \A x \in u : u \ {x} \notin B
    <3> HIDE DEF B
    <3>1. B \in SUBSET (SUBSET T)
      BY DEF B
    <3> QED  BY <1>1, <1>2, <3>1, SmallestOf
  <2>2. u \in SUBSET S /\ u \in SUBSET T
    OBVIOUS
  <2>3. g[u] = IF u = {} THEN 0 ELSE f[Chosen(u)] + g[u \ {Chosen(u)}]
    BY <2>2, TotalAt
  <2>4. h[u] = IF u = {} THEN 0 ELSE f[Chosen(u)] + h[u \ {Chosen(u)}]
    BY <2>2, TotalAt
  <2>5. u # {} => g[u \ {Chosen(u)}] = h[u \ {Chosen(u)}]
    BY <2>1, <2>2, ChosenIn
  <2>6. g[u] # h[u]
    BY <2>1
  <2> HIDE DEF B
  <2> QED  BY <2>3, <2>4, <2>5, <2>6
<1> QED  BY <1>2

\* A sum over a finite set satisfies the equation of its fold.
LEMMA SumIsTotal ==
  ASSUME NEW S, IsFiniteSet(S), NEW f
  PROVE  \E it : Totalled(f, SUBSET S, it) /\ SumFunctionOnSet(f, S) = it[S]
<1> DEFINE it == CHOOSE g : g = [s \in SUBSET S |-> IF s = {} THEN 0 ELSE f[Chosen(s)] + g[s \ {Chosen(s)}]]
<1>1. \E g : g = [s \in SUBSET S |-> IF s = {} THEN 0 ELSE f[Chosen(s)] + g[s \ {Chosen(s)}]]
  <2>1. PICK h : Totalled(f, SUBSET S, h)
    BY TotalExists
  <2>2. h = [s \in SUBSET S |-> IF s = {} THEN 0 ELSE f[Chosen(s)] + h[s \ {Chosen(s)}]]
    BY <2>1 DEF Totalled
  <2> QED  BY <2>2, Zenon
<1>2. it = [s \in SUBSET S |-> IF s = {} THEN 0 ELSE f[Chosen(s)] + it[s \ {Chosen(s)}]]
  BY <1>1, Zenon
<1>3. SumFunctionOnSet(f, S) = it[S]
  BY DEF SumFunctionOnSet, FoldFunctionOnSet, MapThenFoldSet, Chosen
<1> HIDE DEF it
<1>4. Totalled(f, SUBSET S, it)
  BY <1>2 DEF Totalled
<1> QED  BY <1>3, <1>4

\* A sum, from the sum over the rest.
LEMMA SumUnfolds ==
  ASSUME NEW S, IsFiniteSet(S), NEW f
  PROVE  SumFunctionOnSet(f, S)
           = IF S = {} THEN 0 ELSE f[Chosen(S)] + SumFunctionOnSet(f, S \ {Chosen(S)})
<1> DEFINE T == S \ {Chosen(S)}
<1>1. PICK g : Totalled(f, SUBSET S, g) /\ SumFunctionOnSet(f, S) = g[S]
  BY SumIsTotal
<1>2. IsFiniteSet(T) /\ T \in SUBSET S
  BY FS_Subset
<1> HIDE DEF T
<1>3. PICK h : Totalled(f, SUBSET T, h) /\ SumFunctionOnSet(f, T) = h[T]
  BY <1>2, SumIsTotal
<1>4. g[T] = h[T]
  <2>1. Totalled(f, SUBSET S, g) /\ Totalled(f, SUBSET T, h)
    BY <1>1, <1>3
  <2>2. TotalledOn(f, S, g) /\ TotalledOn(f, T, h)
    BY <2>1 DEF TotalledOn
  <2> QED  BY <1>2, <2>2, TotalsAgree
<1>5. S \in SUBSET S
  OBVIOUS
<1>6. g[S] = IF S = {} THEN 0 ELSE f[Chosen(S)] + g[S \ {Chosen(S)}]
  BY <1>1, <1>5, TotalAt
<1> QED  BY <1>1, <1>3, <1>4, <1>6 DEF T

\* The empty sum.
LEMMA SumOfNone ==
  ASSUME NEW f
  PROVE  SumFunctionOnSet(f, {}) = 0
BY FS_EmptySet, SumUnfolds

\* A sum of naturals is a natural.
LEMMA SumType ==
  ASSUME NEW S, IsFiniteSet(S), NEW f, \A x \in S : f[x] \in Nat
  PROVE  SumFunctionOnSet(f, S) \in Nat
<1> DEFINE B == {T \in SUBSET S : SumFunctionOnSet(f, T) \notin Nat}
<1>1. ASSUME B # {} PROVE FALSE
  <2>1. PICK T \in B : \A x \in T : T \ {x} \notin B
    <3> HIDE DEF B
    <3>1. B \in SUBSET (SUBSET S)
      BY DEF B
    <3> QED  BY <1>1, <3>1, SmallestOf
  <2>2. T \in SUBSET S /\ IsFiniteSet(T) /\ SumFunctionOnSet(f, T) \notin Nat
    BY FS_Subset
  <2>3. T # {} => Chosen(T) \in T /\ f[Chosen(T)] \in Nat
    BY <2>2, ChosenIn
  <2>4. T # {} => SumFunctionOnSet(f, T \ {Chosen(T)}) \in Nat
    BY <2>1, <2>3
  <2>5. SumFunctionOnSet(f, T)
          = IF T = {} THEN 0 ELSE f[Chosen(T)] + SumFunctionOnSet(f, T \ {Chosen(T)})
    BY <2>2, SumUnfolds
  <2> HIDE DEF B
  <2> QED  BY <2>2, <2>3, <2>4, <2>5
<1> QED  BY <1>1

\* Any element may be taken out of a sum.
LEMMA SumTakeOut ==
  ASSUME NEW S, IsFiniteSet(S), NEW f, \A y \in S : f[y] \in Nat, NEW x \in S
  PROVE  SumFunctionOnSet(f, S) = f[x] + SumFunctionOnSet(f, S \ {x})
<1> DEFINE Sum(T) == SumFunctionOnSet(f, T)
           B == {T \in SUBSET S : \E y \in T : Sum(T) # f[y] + Sum(T \ {y})}
<1>0. ASSUME NEW T \in SUBSET S
      PROVE  /\ IsFiniteSet(T) /\ Sum(T) \in Nat
             /\ T # {} => Chosen(T) \in T /\ Sum(T) = f[Chosen(T)] + Sum(T \ {Chosen(T)})
  <2>1. IsFiniteSet(T) /\ \A y \in T : f[y] \in Nat
    BY FS_Subset
  <2> QED  BY <2>1, SumType, SumUnfolds, ChosenIn
<1>1. ASSUME B # {} PROVE FALSE
  <2>1. PICK T \in B : \A y \in T : T \ {y} \notin B
    <3> HIDE DEF B
    <3>1. B \in SUBSET (SUBSET S)
      BY DEF B
    <3> QED  BY <1>1, <3>1, SmallestOf
  <2>2. T \in SUBSET S
    OBVIOUS
  <2>3. PICK y \in T : Sum(T) # f[y] + Sum(T \ {y})
    OBVIOUS
  <2> DEFINE c == Chosen(T)
  <2>4. c \in T /\ Sum(T) = f[c] + Sum(T \ {c}) /\ c # y
    BY <1>0, <2>2, <2>3
  <2>5. T \ {c} \in SUBSET S /\ T \ {y} \in SUBSET S /\ (T \ {c}) \ {y} \in SUBSET S
    BY <2>2
  <2>6. Sum(T \ {c}) = f[y] + Sum((T \ {c}) \ {y})
    BY <2>1, <2>4, <2>3, <2>5
  <2>7. Sum(T \ {y}) = f[c] + Sum((T \ {y}) \ {c})
    BY <2>1, <2>4, <2>3, <2>5
  <2>8. (T \ {y}) \ {c} = (T \ {c}) \ {y}
    OBVIOUS
  <2>9. f[c] \in Nat /\ f[y] \in Nat /\ Sum((T \ {c}) \ {y}) \in Nat
    BY <1>0, <2>2, <2>4, <2>5
  <2> HIDE DEF B, Sum, c
  <2> QED  BY <2>3, <2>4, <2>6, <2>7, <2>8, <2>9
<1> HIDE DEF Sum
<1>2. Sum(S) = f[x] + Sum(S \ {x})
  BY <1>1
<1> QED  BY <1>2 DEF Sum

\* Two sums of the same numbers are the same.
LEMMA SumSame ==
  ASSUME NEW S, IsFiniteSet(S), NEW f, NEW g,
         \A x \in S : f[x] \in Nat /\ g[x] = f[x]
  PROVE  SumFunctionOnSet(f, S) = SumFunctionOnSet(g, S)
<1> DEFINE B == {T \in SUBSET S : SumFunctionOnSet(f, T) # SumFunctionOnSet(g, T)}
<1>1. ASSUME B # {} PROVE FALSE
  <2>1. PICK T \in B : \A x \in T : T \ {x} \notin B
    <3> HIDE DEF B
    <3>1. B \in SUBSET (SUBSET S)
      BY DEF B
    <3> QED  BY <1>1, <3>1, SmallestOf
  <2>2. T \in SUBSET S /\ IsFiniteSet(T)
    BY FS_Subset
  <2>3. T # {} => Chosen(T) \in T /\ f[Chosen(T)] = g[Chosen(T)]
    BY <2>2, ChosenIn
  <2>4. T # {} => SumFunctionOnSet(f, T \ {Chosen(T)}) = SumFunctionOnSet(g, T \ {Chosen(T)})
    BY <2>1, <2>3
  <2>5. SumFunctionOnSet(f, T)
          = IF T = {} THEN 0 ELSE f[Chosen(T)] + SumFunctionOnSet(f, T \ {Chosen(T)})
    BY <2>2, SumUnfolds
  <2>6. SumFunctionOnSet(g, T)
          = IF T = {} THEN 0 ELSE g[Chosen(T)] + SumFunctionOnSet(g, T \ {Chosen(T)})
    BY <2>2, SumUnfolds
  <2>7. SumFunctionOnSet(f, T) # SumFunctionOnSet(g, T)
    OBVIOUS
  <2> HIDE DEF B
  <2> QED  BY <2>3, <2>4, <2>5, <2>6, <2>7
<1> QED  BY <1>1

\* A sum splits in two.
LEMMA SumSplits ==
  ASSUME NEW S, IsFiniteSet(S), NEW f, \A y \in S : f[y] \in Nat, NEW R
  PROVE  SumFunctionOnSet(f, S) = SumFunctionOnSet(f, S \cap R) + SumFunctionOnSet(f, S \ R)
<1> DEFINE Sum(T) == SumFunctionOnSet(f, T)
           B == {T \in SUBSET S : Sum(T) # Sum(T \cap R) + Sum(T \ R)}
<1>0. ASSUME NEW T \in SUBSET S
      PROVE  /\ IsFiniteSet(T) /\ Sum(T) \in Nat
             /\ \A x \in T : Sum(T) = f[x] + Sum(T \ {x})
  <2>1. IsFiniteSet(T) /\ \A y \in T : f[y] \in Nat
    BY FS_Subset
  <2> QED  BY <2>1, SumType, SumTakeOut
<1>1. ASSUME B # {} PROVE FALSE
  <2>1. PICK T \in B : \A y \in T : T \ {y} \notin B
    <3> HIDE DEF B
    <3>1. B \in SUBSET (SUBSET S)
      BY DEF B
    <3> QED  BY <1>1, <3>1, SmallestOf
  <2>2. T \in SUBSET S /\ Sum(T) # Sum(T \cap R) + Sum(T \ R)
    OBVIOUS
  <2>3. CASE T = {}
    <3>1. T \cap R = {} /\ T \ R = {}
      BY <2>3
    <3>2. Sum({}) = 0
      BY SumOfNone
    <3> QED  BY <2>2, <2>3, <3>1, <3>2
  <2>4. CASE T # {}
    <3>1. PICK x \in T : TRUE
      BY <2>4
    <3> DEFINE U == T \ {x}
    <3>2. U \in SUBSET S /\ T \cap R \in SUBSET S /\ T \ R \in SUBSET S
      BY <2>2
    <3>3. Sum(U) = Sum(U \cap R) + Sum(U \ R)
      BY <2>1, <3>1, <3>2
    <3>4. Sum(T) = f[x] + Sum(U) /\ f[x] \in Nat
      BY <1>0, <2>2
    <3>5. Sum(T \cap R) \in Nat /\ Sum(T \ R) \in Nat /\ Sum(U \cap R) \in Nat /\ Sum(U \ R) \in Nat
      BY <1>0, <3>2
    <3>6. CASE x \in R
      <4>1. U \cap R = (T \cap R) \ {x} /\ U \ R = T \ R /\ x \in T \cap R
        BY <3>6
      <4>2. Sum(T \cap R) = f[x] + Sum(U \cap R)
        BY <1>0, <3>2, <4>1
      <4>3. Sum(U \ R) = Sum(T \ R)
        BY <4>1, Zenon
      <4> HIDE DEF Sum, U, B
      <4> QED  BY <2>2, <3>3, <3>4, <3>5, <4>2, <4>3
    <3>7. CASE x \notin R
      <4>1. U \ R = (T \ R) \ {x} /\ U \cap R = T \cap R /\ x \in T \ R
        BY <3>7
      <4>2. Sum(T \ R) = f[x] + Sum(U \ R)
        BY <1>0, <3>2, <4>1
      <4>3. Sum(U \cap R) = Sum(T \cap R)
        BY <4>1, Zenon
      <4> HIDE DEF Sum, U, B
      <4> QED  BY <2>2, <3>3, <3>4, <3>5, <4>2, <4>3
    <3> QED  BY <3>6, <3>7
  <2> QED  BY <2>3, <2>4
<1>2. S \in SUBSET S
  OBVIOUS
<1> HIDE DEF Sum
<1>3. Sum(S) = Sum(S \cap R) + Sum(S \ R)
  BY <1>1, <1>2
<1> QED  BY <1>3 DEF Sum

\* More elements, a larger sum.
LEMMA SumWithin ==
  ASSUME NEW S, IsFiniteSet(S), NEW f, \A y \in S : f[y] \in Nat, NEW T, T \subseteq S
  PROVE  SumFunctionOnSet(f, T) <= SumFunctionOnSet(f, S)
<1>1. SumFunctionOnSet(f, S) = SumFunctionOnSet(f, S \cap T) + SumFunctionOnSet(f, S \ T)
  BY SumSplits
<1>2. S \cap T = T
  OBVIOUS
<1>3. IsFiniteSet(T) /\ IsFiniteSet(S \ T)
  BY FS_Subset
<1>4. SumFunctionOnSet(f, T) \in Nat /\ SumFunctionOnSet(f, S \ T) \in Nat
  BY <1>3, SumType
<1> QED  BY <1>1, <1>2, <1>4

\* A sum over a set that others cover is at most the sum of theirs.
LEMMA SumCovered ==
  ASSUME NEW P, IsFiniteSet(P), NEW r, \A p \in P : IsFiniteSet(r[p]),
         NEW f, \A p \in P : \A y \in r[p] : f[y] \in Nat,
         NEW g, \A p \in P : g[p] = SumFunctionOnSet(f, r[p]),
         NEW S, IsFiniteSet(S), \A x \in S : \E p \in P : x \in r[p]
  PROVE  SumFunctionOnSet(f, S) <= SumFunctionOnSet(g, P)
<1> DEFINE Sum(T) == SumFunctionOnSet(f, T)
           In(Q) == {x \in S : \E p \in Q : x \in r[p]}
           B == {Q \in SUBSET P : ~ (Sum(In(Q)) <= SumFunctionOnSet(g, Q))}
<1>0. \A y \in S : f[y] \in Nat
  OBVIOUS
<1>1. ASSUME NEW T \in SUBSET S PROVE IsFiniteSet(T) /\ Sum(T) \in Nat /\ \A y \in T : f[y] \in Nat
  <2>1. IsFiniteSet(T) /\ \A y \in T : f[y] \in Nat
    BY <1>0, FS_Subset
  <2> QED  BY <2>1, SumType
<1>2. \A p \in P : g[p] \in Nat
  BY SumType
<1>3. ASSUME NEW Q \in SUBSET P
      PROVE  /\ SumFunctionOnSet(g, Q) \in Nat
             /\ \A x \in Q : SumFunctionOnSet(g, Q) = g[x] + SumFunctionOnSet(g, Q \ {x})
  <2>1. IsFiniteSet(Q) /\ \A p \in Q : g[p] \in Nat
    BY <1>2, FS_Subset
  <2> QED  BY <2>1, SumType, SumTakeOut
<1>4. ASSUME B # {} PROVE FALSE
  <2>1. PICK Q \in B : \A y \in Q : Q \ {y} \notin B
    <3> HIDE DEF B
    <3>1. B \in SUBSET (SUBSET P)
      BY DEF B
    <3> QED  BY <1>4, <3>1, SmallestOf
  <2>2. Q \in SUBSET P /\ ~ (Sum(In(Q)) <= SumFunctionOnSet(g, Q))
    OBVIOUS
  <2>3. CASE Q = {}
    <3>1. In(Q) = {}
      BY <2>3
    <3>2. Sum({}) = 0 /\ SumFunctionOnSet(g, {}) = 0
      BY SumOfNone
    <3> HIDE DEF In, Sum
    <3> QED  BY <2>2, <2>3, <3>1, <3>2
  <2>4. CASE Q # {}
    <3>1. PICK x \in Q : TRUE
      BY <2>4
    <3> DEFINE V == Q \ {x}
               A == In(Q)
    <3>2. V \in SUBSET P /\ A \in SUBSET S /\ In(V) \in SUBSET S
      BY <2>2
    <3>3. Sum(In(V)) <= SumFunctionOnSet(g, V)
      BY <2>1, <3>1, <3>2
    <3>4. SumFunctionOnSet(g, Q) = g[x] + SumFunctionOnSet(g, V) /\ g[x] \in Nat
          /\ SumFunctionOnSet(g, V) \in Nat
      BY <1>2, <1>3, <2>2, <3>2
    <3>5. Sum(A) = Sum(A \cap r[x]) + Sum(A \ r[x])
      BY <1>1, <3>2, SumSplits
    <3>6. Sum(A \cap r[x]) <= g[x]
      <4>1. IsFiniteSet(r[x]) /\ (\A y \in r[x] : f[y] \in Nat) /\ g[x] = Sum(r[x])
        BY <2>2
      <4>2. A \cap r[x] \subseteq r[x]
        OBVIOUS
      <4> HIDE DEF A
      <4> QED  BY <4>1, <4>2, SumWithin
    <3>7. A \ r[x] \subseteq In(V)
      OBVIOUS
    <3>8. Sum(A \ r[x]) <= Sum(In(V))
      <4>1. IsFiniteSet(In(V)) /\ \A y \in In(V) : f[y] \in Nat
        BY <1>1, <3>2
      <4> HIDE DEF A, In
      <4> QED  BY <3>7, <4>1, SumWithin
    <3>9. Sum(A \cap r[x]) \in Nat /\ Sum(A \ r[x]) \in Nat /\ Sum(In(V)) \in Nat
      <4>1. A \cap r[x] \in SUBSET S /\ A \ r[x] \in SUBSET S
        BY <3>2
      <4> HIDE DEF A, Sum, In
      <4> QED  BY <1>1, <3>2, <4>1
    <3>10. ~ (Sum(A) <= SumFunctionOnSet(g, Q))
      BY <2>2
    <3> HIDE DEF A, Sum, In, V, B
    <3> QED  BY <3>3, <3>4, <3>5, <3>6, <3>8, <3>9, <3>10
  <2> QED  BY <2>3, <2>4
<1>5. P \in SUBSET P /\ In(P) = S
  OBVIOUS
<1> HIDE DEF Sum, In
<1>6. Sum(In(P)) <= SumFunctionOnSet(g, P)
  BY <1>4, <1>5
<1> QED  BY <1>5, <1>6 DEF Sum

\* Those of D that m puts into class i.
Class(m, D, i) == {d \in D : m[d] = i}

\* Those that fall into each class add up to all of them.
LEMMA ClassesAddUp ==
  ASSUME NEW D, IsFiniteSet(D), NEW I, IsFiniteSet(I), NEW m, \A d \in D : m[d] \in I,
         NEW g, \A i \in I : g[i] = Cardinality(Class(m, D, i))
  PROVE  SumFunctionOnSet(g, I) = Cardinality(D)
<1> USE DEF Class
<1> DEFINE In(J) == {d \in D : m[d] \in J}
           B == {J \in SUBSET I : SumFunctionOnSet(g, J) # Cardinality(In(J))}
<1>0. \A T \in SUBSET D : IsFiniteSet(T) /\ Cardinality(T) \in Nat
  BY FS_Subset, FS_CardinalityType
<1>1. \A i \in I : {d \in D : m[d] = i} \in SUBSET D
  OBVIOUS
<1>2. \A i \in I : g[i] \in Nat
  BY <1>0, <1>1
<1>3. ASSUME B # {} PROVE FALSE
  <2>1. PICK J \in B : \A y \in J : J \ {y} \notin B
    <3> HIDE DEF B
    <3>1. B \in SUBSET (SUBSET I)
      BY DEF B
    <3> QED  BY <1>3, <3>1, SmallestOf
  <2>2. J \in SUBSET I /\ SumFunctionOnSet(g, J) # Cardinality(In(J))
    OBVIOUS
  <2>3. CASE J = {}
    <3>1. In(J) = {}
      BY <2>3
    <3>2. SumFunctionOnSet(g, {}) = 0 /\ Cardinality({}) = 0
      BY SumOfNone, FS_EmptySet
    <3> HIDE DEF In
    <3> QED  BY <2>2, <2>3, <3>1, <3>2
  <2>4. CASE J # {}
    <3>1. PICK x \in J : TRUE
      BY <2>4
    <3> DEFINE V == J \ {x}
               X == {d \in D : m[d] = x}
    <3>2. V \in SUBSET I /\ x \in I
      BY <2>2
    <3>3. SumFunctionOnSet(g, V) = Cardinality(In(V))
      BY <2>1, <3>1, <3>2
    <3>4. SumFunctionOnSet(g, J) = g[x] + SumFunctionOnSet(g, V)
      <4>1. IsFiniteSet(J) /\ \A i \in J : g[i] \in Nat
        BY <1>2, <2>2, FS_Subset
      <4> QED  BY <4>1, SumTakeOut
    <3>5. In(J) = X \cup In(V) /\ X \cap In(V) = {} /\ X \in SUBSET D /\ In(V) \in SUBSET D
      OBVIOUS
    <3>6. g[x] = Cardinality(X)
      BY <3>2
    <3> HIDE DEF In, X, V, B
    <3>7. Cardinality(X \cup In(V)) = Cardinality(X) + Cardinality(In(V)) - Cardinality({})
      BY <1>0, <3>5, FS_Union
    <3>8. Cardinality({}) = 0 /\ Cardinality(X) \in Nat /\ Cardinality(In(V)) \in Nat
      BY <1>0, <3>5, FS_EmptySet
    <3> QED  BY <2>2, <3>3, <3>4, <3>5, <3>6, <3>7, <3>8
  <2> QED  BY <2>3, <2>4
<1>4. I \in SUBSET I /\ In(I) = D
  OBVIOUS
<1> HIDE DEF In
<1>5. SumFunctionOnSet(g, I) = Cardinality(In(I))
  BY <1>3, <1>4
<1> QED  BY <1>4, <1>5

-----------------------------------------------------------------------------
(* The statistics. *)

\* What percentile computes at index k, in hundredths, of values in order.
At(values, k) ==
  LET lower == 1 + k \div 100
      weight == k % 100
  IN IF weight = 0 THEN 100 * values[lower]
     ELSE values[lower] * (100 - weight) + values[lower + 1] * weight

Ascending(values) == \A i, j \in DOMAIN values : i <= j => values[i] <= values[j]

Milliseconds == Int

\* Some permutation puts the values in order: by rank, ties by position.
LEMMA OrderExists ==
  ASSUME NEW n \in Nat, NEW v \in [1 .. n -> Int]
  PROVE  \E p \in Bijection(1 .. n, 1 .. n) :
           \A i, j \in 1 .. n : i <= j => v[p[i]] <= v[p[j]]
<1> DEFINE N == 1 .. n
           Upto(i) == {j \in N : v[j] < v[i] \/ (v[j] = v[i] /\ j <= i)}
           rank == [i \in N |-> Cardinality(Upto(i))]
<1>1. IsFiniteSet(N) /\ Cardinality(N) = n
  BY FS_Interval
<1>2. ASSUME NEW i \in N
      PROVE  /\ IsFiniteSet(Upto(i)) /\ Cardinality(Upto(i)) \in Nat
             /\ Cardinality(Upto(i)) \in N
  <2>1. Upto(i) \in SUBSET N /\ i \in Upto(i)
    OBVIOUS
  <2> HIDE DEF Upto
  <2>2. IsFiniteSet(Upto(i)) /\ Cardinality(Upto(i)) <= n
    BY <1>1, <2>1, FS_Subset
  <2>3. Cardinality(Upto(i)) \in Nat
    BY <2>2, FS_CardinalityType
  <2>4. Cardinality(Upto(i)) # 0
    BY <2>1, <2>2, FS_EmptySet
  <2> QED  BY <2>2, <2>3, <2>4
<1>3. ASSUME NEW i \in N, NEW j \in N, v[j] < v[i] \/ (v[j] = v[i] /\ j < i)
      PROVE  Cardinality(Upto(j)) < Cardinality(Upto(i))
  <2>1. v[i] \in Int /\ v[j] \in Int /\ i \in Int /\ j \in Int
    OBVIOUS
  <2>2. Upto(j) \in SUBSET Upto(i)
    <3> SUFFICES ASSUME NEW k \in Upto(j) PROVE k \in Upto(i)
      OBVIOUS
    <3>1. k \in N /\ v[k] \in Int
      OBVIOUS
    <3> QED  BY <1>3, <2>1, <3>1
  <2>3. i \in Upto(i) /\ i \notin Upto(j)
    BY <1>3, <2>1
  <2> HIDE DEF Upto
  <2>4. Cardinality(Upto(j)) <= Cardinality(Upto(i))
        /\ (Cardinality(Upto(i)) = Cardinality(Upto(j)) => Upto(i) = Upto(j))
    BY <1>2, <2>2, FS_Subset
  <2>5. Cardinality(Upto(i)) \in Nat /\ Cardinality(Upto(j)) \in Nat
    BY <1>2
  <2>6. Cardinality(Upto(i)) # Cardinality(Upto(j))
    BY <2>3, <2>4
  <2> QED  BY <2>4, <2>5, <2>6
<1>4. rank \in [N -> N]
  BY <1>2
<1>5. \A i, j \in N : v[j] < v[i] \/ (v[j] = v[i] /\ j < i) => rank[j] < rank[i]
  BY <1>3
<1> HIDE DEF rank
<1>6. \A i, j \in N : rank[i] = rank[j] => i = j
  <2> SUFFICES ASSUME NEW i \in N, NEW j \in N, i # j, rank[i] = rank[j] PROVE FALSE
    OBVIOUS
  <2>1. v[i] \in Int /\ v[j] \in Int /\ i \in Int /\ j \in Int
    OBVIOUS
  <2>2. \/ v[j] < v[i] \/ (v[j] = v[i] /\ j < i)
        \/ v[i] < v[j] \/ (v[i] = v[j] /\ i < j)
    BY <2>1
  <2>3. rank[i] \in Int /\ rank[j] \in Int
    BY <1>4
  <2>4. rank[j] < rank[i] \/ rank[i] < rank[j]
    BY <1>5, <2>2
  <2> QED  BY <2>3, <2>4
<1> DEFINE p == [k \in N |-> CHOOSE i \in N : rank[i] = k]
<1>7. \A k \in N : p[k] \in N /\ rank[p[k]] = k
  <2>1. rank \in Injection(N, N)
    BY <1>4, <1>6 DEF Injection, IsInjective
  <2>2. rank \in Surjection(N, N)
    BY <1>1, <2>1, FS_Injection
  <2>3. \A k \in N : \E i \in N : rank[i] = k
    BY <2>2 DEF Surjection
  <2> QED  BY <2>3
<1>8. p \in [N -> N]
  <2>1. p = [k \in N |-> p[k]]
    OBVIOUS
  <2> HIDE DEF p
  <2> QED  BY <1>7, <2>1
<1> HIDE DEF p
<1>9. p \in Bijection(N, N)
  <2>1. \A i, j \in N : p[i] = p[j] => i = j
    BY <1>7
  <2>2. \A i \in N : \E k \in N : p[k] = i
    <3> SUFFICES ASSUME NEW i \in N PROVE p[rank[i]] = i
      BY <1>4
    <3>1. rank[i] \in N
      BY <1>4
    <3> QED  BY <1>6, <1>7, <3>1
  <2> QED  BY <1>8, <2>1, <2>2 DEF Bijection, Injection, IsInjective, Surjection
<1>10. ASSUME NEW i \in N, NEW j \in N, i <= j PROVE v[p[i]] <= v[p[j]]
  <2>1. p[i] \in N /\ p[j] \in N /\ rank[p[i]] = i /\ rank[p[j]] = j
    BY <1>7
  <2>2. v[p[i]] \in Int /\ v[p[j]] \in Int /\ i \in Int /\ j \in Int
    BY <2>1
  <2>3. v[p[j]] < v[p[i]] => j < i
    BY <1>5, <2>1
  <2> QED  BY <1>10, <2>2, <2>3
<1> HIDE DEF N
<1>11. \E q \in Bijection(N, N) : \A i, j \in N : i <= j => v[q[i]] <= v[q[j]]
  BY <1>9, <1>10
<1> QED  BY <1>11 DEF N

\* Sorting keeps the values.
LEMMA SortedIs ==
  ASSUME NEW values \in Seq(Milliseconds)
  PROVE  /\ Sorted(values) \in Seq(Milliseconds) /\ Len(Sorted(values)) = Len(values)
         /\ Ascending(Sorted(values))
         /\ \A i \in 1 .. Len(values) : \E j \in 1 .. Len(values) : Sorted(values)[i] = values[j]
         /\ \A j \in 1 .. Len(values) : \E i \in 1 .. Len(values) : Sorted(values)[i] = values[j]
<1> DEFINE n == Len(values)
           N == 1 .. n
           Orders(p) == \A i, j \in N : i <= j => values[p[i]] <= values[p[j]]
           order == CHOOSE p \in Bijection(N, N) : Orders(p)
           s == [i \in N |-> values[order[i]]]
<1>1. n \in Nat /\ DOMAIN values = N /\ values \in [N -> Int]
  BY DEF Milliseconds
<1>2. \E p \in Bijection(N, N) : Orders(p)
  BY <1>1, OrderExists
<1>3. Sorted(values) = s
  BY <1>1 DEF Sorted
<1>4. order \in Bijection(N, N) /\ Orders(order)
  <2> HIDE DEF Orders, N
  <2> QED  BY <1>2
<1> HIDE DEF order
<1>5. order \in [N -> N] /\ \A j \in N : \E i \in N : order[i] = j
  BY <1>4 DEF Bijection, Injection, IsInjective, Surjection
<1>6. s \in Seq(Milliseconds) /\ Len(s) = n /\ DOMAIN s = N
  <2>1. s \in [N -> Milliseconds]
    BY <1>1, <1>5 DEF Milliseconds
  <2> HIDE DEF s
  <2> QED  BY <1>1, <2>1, LenProperties
<1>7. \A i \in N : s[i] = values[order[i]]
  OBVIOUS
<1>8. Ascending(s)
  <2>1. \A i, j \in N : i <= j => values[order[i]] <= values[order[j]]
    BY <1>4
  <2> QED  BY <1>6, <2>1 DEF Ascending
<1> HIDE DEF s
<1>9. ASSUME NEW j \in N PROVE \E i \in N : s[i] = values[j]
  <2>1. PICK i \in N : order[i] = j
    BY <1>5
  <2>2. s[i] = values[j]
    BY <1>7, <2>1
  <2> HIDE DEF N
  <2> QED  BY <2>2
<1>10. ASSUME NEW i \in N PROVE \E j \in N : s[i] = values[j]
  <2>1. order[i] \in N /\ s[i] = values[order[i]]
    BY <1>5, <1>7
  <2> HIDE DEF N
  <2> QED  BY <2>1
<1> QED  BY <1>3, <1>6, <1>8, <1>9, <1>10

\* The point between two numbers moves up with its weight.
LEMMA WeightedMean ==
  ASSUME NEW a \in Int, NEW b \in Int, a <= b, NEW v \in 0 .. 100, NEW w \in v .. 100
  PROVE  /\ a * (100 - v) + b * v \in Int
         /\ 100 * a <= a * (100 - v) + b * v
         /\ a * (100 - v) + b * v <= a * (100 - w) + b * w
         /\ a * (100 - w) + b * w <= 100 * b
<1>1. \A x \in 0 .. 100 : /\ a * (100 - x) + b * x = 100 * a + (b - a) * x
                          /\ (b - a) * x \in Int
  OBVIOUS
<1>2. \A d \in Nat : 0 <= d * v /\ d * v <= d * w /\ d * w <= d * 100
  OBVIOUS
<1>3. 0 <= (b - a) * v /\ (b - a) * v <= (b - a) * w /\ (b - a) * w <= (b - a) * 100
  BY <1>2
<1> QED  BY <1>1, <1>3

\* Interpolation stays between the neighbours of the index.
LEMMA AtBetweenNeighbours ==
  ASSUME NEW values \in Seq(Milliseconds), values # << >>, Ascending(values),
         NEW k \in 0 .. 100 * (Len(values) - 1)
  PROVE  LET l == 1 + k \div 100 IN
         /\ l \in DOMAIN values /\ values[l] \in Int /\ At(values, k) \in Int
         /\ 100 * values[l] <= At(values, k)
         /\ k % 100 # 0 => /\ l + 1 \in DOMAIN values
                           /\ At(values, k) <= 100 * values[l + 1]
         /\ k % 100 = 0 => At(values, k) = 100 * values[l]
<1> DEFINE l == 1 + k \div 100
           w == k % 100
<1>1. Len(values) \in Nat /\ Len(values) >= 1 /\ DOMAIN values = 1 .. Len(values)
  OBVIOUS
<1>2. /\ l \in 1 .. Len(values) /\ w \in 0 .. 99
      /\ w # 0 => l + 1 \in 1 .. Len(values)
  BY <1>1
<1>3. \A i \in 1 .. Len(values) : values[i] \in Int
  BY DEF Milliseconds
<1>4. At(values, k) = IF w = 0 THEN 100 * values[l]
                      ELSE values[l] * (100 - w) + values[l + 1] * w
  BY DEF At
<1> HIDE DEF l, w
<1>5. CASE w = 0
  BY <1>1, <1>2, <1>3, <1>4, <1>5 DEF l, w
<1>6. CASE w # 0
  <2> DEFINE a == values[l]
             b == values[l + 1]
  <2>1. a \in Int /\ b \in Int /\ a <= b
    BY <1>1, <1>2, <1>3, <1>6 DEF Ascending
  <2> HIDE DEF a, b
  <2>2. /\ a * (100 - w) + b * w \in Int
        /\ 100 * a <= a * (100 - w) + b * w
        /\ a * (100 - w) + b * w <= 100 * b
    <3>1. w \in 0 .. 100 /\ w \in w .. 100
      BY <1>2
    <3> QED  BY <2>1, <3>1, WeightedMean, ZenonT(30)
  <2>3. At(values, k) = a * (100 - w) + b * w
    BY <1>4, <1>6 DEF a, b
  <2> QED  BY <1>1, <1>2, <1>6, <2>1, <2>2, <2>3 DEF a, b, l, w
<1> QED  BY <1>5, <1>6

\* A larger index, a larger value.
LEMMA AtIsMonotone ==
  ASSUME NEW values \in Seq(Milliseconds), values # << >>, Ascending(values),
         NEW k \in 0 .. 100 * (Len(values) - 1), NEW m \in k .. 100 * (Len(values) - 1)
  PROVE  At(values, k) <= At(values, m)
<1> DEFINE kl == 1 + k \div 100
           ml == 1 + m \div 100
<1>0. m \in 0 .. 100 * (Len(values) - 1) /\ kl \in Int /\ ml \in Int /\ kl <= ml
  OBVIOUS
<1>1. /\ kl \in DOMAIN values /\ values[kl] \in Int /\ At(values, k) \in Int
      /\ k % 100 # 0 => kl + 1 \in DOMAIN values /\ At(values, k) <= 100 * values[kl + 1]
      /\ k % 100 = 0 => At(values, k) = 100 * values[kl]
  BY AtBetweenNeighbours
<1>2. /\ ml \in DOMAIN values /\ values[ml] \in Int /\ At(values, m) \in Int
      /\ 100 * values[ml] <= At(values, m)
      /\ m % 100 # 0 => ml + 1 \in DOMAIN values
  BY <1>0, AtBetweenNeighbours
<1>3. \A i \in DOMAIN values : values[i] \in Int
  BY DEF Milliseconds
<1>4. CASE kl = ml
  <2>1. k % 100 <= m % 100 /\ k % 100 \in 0 .. 99 /\ m % 100 \in 0 .. 99
    BY <1>4
  <2>2. CASE k % 100 = 0
    BY <1>1, <1>2, <1>4, <2>2
  <2>3. CASE k % 100 # 0
    <3>1. m % 100 # 0
      BY <2>1, <2>3
    <3> DEFINE a == values[kl]
               b == values[kl + 1]
               v == k % 100
               w == m % 100
    <3>2. At(values, k) = a * (100 - v) + b * v /\ At(values, m) = a * (100 - w) + b * w
      BY <1>4, <2>3, <3>1 DEF At
    <3>3. kl + 1 \in DOMAIN values
      BY <1>1, <2>3
    <3>4. a \in Int /\ b \in Int /\ a <= b
      BY <1>0, <1>1, <1>3, <3>3 DEF Ascending
    <3>5. v \in 0 .. 100 /\ w \in v .. 100
      BY <2>1
    <3> HIDE DEF a, b, v, w
    <3>6. a * (100 - v) + b * v <= a * (100 - w) + b * w
      BY <3>4, <3>5, WeightedMean, ZenonT(30)
    <3> QED  BY <3>2, <3>6
  <2> QED  BY <2>2, <2>3
<1>5. CASE kl < ml
  <2>1. values[kl] <= values[ml]
    BY <1>1, <1>2, <1>5 DEF Ascending
  <2>2. CASE k % 100 = 0
    BY <1>1, <1>2, <2>1, <2>2
  <2>3. CASE k % 100 # 0
    <3>1. kl + 1 <= ml
      BY <1>0, <1>5
    <3>2. values[kl + 1] <= values[ml] /\ values[kl + 1] \in Int
      BY <1>1, <1>2, <1>3, <2>3, <3>1 DEF Ascending
    <3> QED  BY <1>1, <1>2, <2>3, <3>2, SMTT(30)
  <2> QED  BY <2>2, <2>3
<1> QED  BY <1>0, <1>4, <1>5

(***************************************************************************)
(* Once the samples are sorted, the percentiles of calculateLatencyStats   *)
(* and computeLatencyDistribution are in order and lie between the least   *)
(* and the greatest sample, for any number of samples and any percentages. *)
(***************************************************************************)
THEOREM PercentilesAreOrdered ==
  ASSUME NEW values \in Seq(Milliseconds), values # << >>, Ascending(values),
         NEW p \in 0 .. 100, NEW q \in p .. 100
  PROVE  /\ 100 * values[1] <= percentile(values, p)
         /\ percentile(values, p) <= percentile(values, q)
         /\ percentile(values, q) <= 100 * values[Len(values)]
<1> DEFINE n == Len(values) - 1
           k == p * n
           m == q * n
<1>1. n \in Nat
  OBVIOUS
<1>2. k \in Int /\ m \in Int /\ 0 <= k /\ k <= m /\ m <= 100 * n
  BY <1>1
<1>3. percentile(values, p) = At(values, k) /\ percentile(values, q) = At(values, m)
  BY DEF percentile, At
<1> HIDE DEF k, m
<1>4. k \in 0 .. 100 * n /\ m \in k .. 100 * n /\ m \in 0 .. 100 * n
      /\ 0 \in 0 .. 100 * n /\ k \in 0 .. 100 * n /\ 100 * n \in m .. 100 * n
  BY <1>1, <1>2
<1>5. /\ At(values, 0) <= At(values, k)
      /\ At(values, k) <= At(values, m)
      /\ At(values, m) <= At(values, 100 * n)
  BY <1>4, AtIsMonotone
<1>6. At(values, 0) = 100 * values[1] /\ At(values, 100 * n) = 100 * values[Len(values)]
  <2>1. (100 * n) % 100 = 0 /\ 1 + (100 * n) \div 100 = Len(values)
    BY <1>1
  <2>2. 0 % 100 = 0 /\ 1 + 0 \div 100 = 1
    OBVIOUS
  <2> QED  BY <2>1, <2>2 DEF At
<1> QED  BY <1>3, <1>5, <1>6

(***************************************************************************)
(* A latency falls into exactly one bucket of the distribution.            *)
(***************************************************************************)
THEOREM BucketsPartition ==
  ASSUME NEW v \in Nat
  PROVE  \E i \in DOMAIN Bounds : \A j \in DOMAIN Bounds : InBucket(v, j) <=> j = i
<1>1. /\ DOMAIN Bounds = 1 .. 10 /\ Len(Bounds) = 10
      /\ Bounds[1] = 0 /\ Bounds[2] = 1 /\ Bounds[3] = 5 /\ Bounds[4] = 10 /\ Bounds[5] = 25
      /\ Bounds[6] = 50 /\ Bounds[7] = 100 /\ Bounds[8] = 250 /\ Bounds[9] = 500
      /\ Bounds[10] = 1000
  BY DEF Bounds
<1> DEFINE i == IF v < 1 THEN 1 ELSE IF v < 5 THEN 2 ELSE IF v < 10 THEN 3
                ELSE IF v < 25 THEN 4 ELSE IF v < 50 THEN 5 ELSE IF v < 100 THEN 6
                ELSE IF v < 250 THEN 7 ELSE IF v < 500 THEN 8 ELSE IF v < 1000 THEN 9
                ELSE 10
<1>2. i \in 1 .. 10
  OBVIOUS
<1>3. \A j \in 1 .. 10 : InBucket(v, j) <=> j = i
  BY <1>1 DEF InBucket
<1> HIDE DEF i
<1> QED  BY <1>1, <1>2, <1>3

\* The values of samples are natural numbers.
LEMMA LatencyType ==
  ASSUME NEW n \in Nat \ {0}
  PROVE  Latency(n) \in Nat
<1>1. Len(Latencies) \in Nat /\ Len(Latencies) > 0 /\ Latencies \in Seq(Nat)
  BY LatenciesAssumption
<1>2. (n - 1) % Len(Latencies) \in 0 .. Len(Latencies) - 1
  BY <1>1
<1> DEFINE i == 1 + ((n - 1) % Len(Latencies))
<1>3. i \in 1 .. Len(Latencies)
  BY <1>1, <1>2
<1> HIDE DEF i
<1>4. Latencies[i] \in Nat
  BY <1>1, <1>3, ElementOfSeq
<1> QED  BY <1>4 DEF Latency, i

\* The extremes of a set of numbers.
LEMMA MinMaxAre ==
  ASSUME NEW S \in SUBSET Int, NEW x \in S
  PROVE  /\ (\A y \in S : x <= y) => Min(S) = x
         /\ (\A y \in S : y <= x) => Max(S) = x
<1>0. \A y \in S : y \in Int
  OBVIOUS
<1>1. ASSUME \A y \in S : x <= y PROVE Min(S) = x
  <2>1. \E z \in S : \A y \in S : z =< y
    BY <1>1
  <2>2. Min(S) \in S /\ \A y \in S : Min(S) =< y
    BY <2>1, Zenon DEF Min
  <2>3. Min(S) <= x /\ x <= Min(S)
    BY <1>1, <2>2
  <2>4. x \in Int /\ Min(S) \in Int
    BY <1>0, <2>2
  <2> QED  BY <2>3, <2>4
<1>2. ASSUME \A y \in S : y <= x PROVE Max(S) = x
  <2>1. \E z \in S : \A y \in S : z >= y
    BY <1>0, <1>2
  <2>2. Max(S) \in S /\ \A y \in S : Max(S) >= y
    BY <2>1, Zenon DEF Max
  <2>3. Max(S) >= x /\ Max(S) <= x
    BY <1>2, <2>2
  <2>4. x \in Int /\ Max(S) \in Int
    BY <1>0, <2>2
  <2> QED  BY <2>3, <2>4
<1> QED  BY <1>1, <1>2

\* The buckets of the distribution hold every sample once.
LEMMA HistogramAddsUp ==
  ASSUME NEW samples \in Seq(Nat \ {0})
  PROVE  SumFunction(Histogram(samples)) = Len(samples)
<1> DEFINE D == 1 .. Len(samples)
           I == 1 .. 10
           v(j) == Latency(samples[j])
           m == [j \in D |-> CHOOSE i \in I : \A k \in I : InBucket(v(j), k) <=> k = i]
           g == Histogram(samples)
<1>1. Len(samples) \in Nat /\ DOMAIN samples = D /\ DOMAIN Bounds = I
  BY DEF Bounds
<1>2. IsFiniteSet(D) /\ Cardinality(D) = Len(samples) /\ IsFiniteSet(I)
  <2> DEFINE n == Len(samples)
  <2>1. n \in Nat
    BY <1>1
  <2> HIDE DEF n
  <2>2. IsFiniteSet(1 .. n) /\ Cardinality(1 .. n) = n
    BY <2>1, FS_Interval
  <2>3. IsFiniteSet(1 .. 10)
    <3>1. 1 \in Int /\ 10 \in Int
      OBVIOUS
    <3> QED  BY <3>1, FS_Interval, Zenon
  <2> QED  BY <2>2, <2>3 DEF n
<1>3. ASSUME NEW j \in D
      PROVE  m[j] \in I /\ \A k \in I : InBucket(v(j), k) <=> k = m[j]
  <2>1. v(j) \in Nat
    BY LatencyType
  <2> HIDE DEF v
  <2>2. \E i \in I : \A k \in I : InBucket(v(j), k) <=> k = i
    BY <1>1, <2>1, BucketsPartition
  <2> QED  BY <2>2
<1>4. g = [i \in I |-> Cardinality({j \in D : InBucket(v(j), i)})]
  BY <1>1 DEF Histogram
<1> HIDE DEF m, v
<1>5. ASSUME NEW i \in I PROVE g[i] = Cardinality(Class(m, D, i))
  <2>1. {j \in D : InBucket(v(j), i)} = Class(m, D, i)
    BY <1>3 DEF Class
  <2> QED  BY <1>4, <2>1
<1>6. DOMAIN g = I
  BY <1>4
<1> HIDE DEF g, D, I
<1>7. SumFunctionOnSet(g, I) = Cardinality(D)
  <2>1. \A j \in D : m[j] \in I
    BY <1>3
  <2> QED  BY <1>2, <1>5, <2>1, ClassesAddUp
<1> QED  BY <1>2, <1>6, <1>7 DEF SumFunction, g

\* The statistics of any samples are in order, and leave none out.
LEMMA StatsAreSound ==
  ASSUME NEW samples \in Seq(Nat \ {0}), samples # << >>
  PROVE  LET s == calculateLatencyStats(samples)
             steps == <<s.min, s.p50, s.p90, s.p95, s.p99, s.max>>
         IN \A i \in 1 .. 5 : steps[i] <= steps[i + 1]
<1> DEFINE values == [i \in DOMAIN samples |-> Latency(samples[i])]
           n == Len(samples)
           sorted == Sorted(values)
<1>1. n \in Nat \ {0} /\ DOMAIN samples = 1 .. n
  OBVIOUS
<1>2. values \in Seq(Milliseconds) /\ Len(values) = n /\ DOMAIN values = 1 .. n
  <2>1. \A i \in 1 .. n : Latency(samples[i]) \in Milliseconds
    BY LatencyType DEF Milliseconds
  <2>2. values \in [1 .. n -> Milliseconds]
    BY <1>1, <2>1
  <2> HIDE DEF values
  <2> QED  BY <1>1, <2>2, LenProperties
<1> HIDE DEF values, n
<1>3. /\ sorted \in Seq(Milliseconds) /\ Len(sorted) = n /\ Ascending(sorted)
      /\ \A i \in 1 .. n : \E j \in 1 .. n : sorted[i] = values[j]
      /\ \A j \in 1 .. n : \E i \in 1 .. n : sorted[i] = values[j]
  <2>1. /\ sorted \in Seq(Milliseconds) /\ Len(sorted) = Len(values) /\ Ascending(sorted)
        /\ \A i \in 1 .. Len(values) : \E j \in 1 .. Len(values) : sorted[i] = values[j]
        /\ \A j \in 1 .. Len(values) : \E i \in 1 .. Len(values) : sorted[i] = values[j]
    BY <1>2, SortedIs
  <2> HIDE DEF sorted
  <2> QED  BY <1>2, <2>1
<1> HIDE DEF sorted
<1>4. /\ DOMAIN sorted = 1 .. n /\ sorted # << >> /\ \A i \in 1 .. n : sorted[i] \in Int
  BY <1>1, <1>3 DEF Milliseconds
<1>5. Min(Range(values)) = sorted[1] /\ Max(Range(values)) = sorted[n]
  <2>1. Range(values) \in SUBSET Int
    BY <1>2 DEF Range, Milliseconds
  <2>2. sorted[1] \in Range(values) /\ sorted[n] \in Range(values)
    <3>1. 1 \in 1 .. n /\ n \in 1 .. n
      BY <1>1
    <3>2. \A i \in 1 .. n : sorted[i] \in Range(values)
      BY <1>2, <1>3 DEF Range
    <3> QED  BY <3>1, <3>2
  <2>3. ASSUME NEW y \in Range(values) PROVE sorted[1] <= y /\ y <= sorted[n]
    <3>1. PICK j \in 1 .. n : y = values[j]
      BY <1>2 DEF Range
    <3>2. PICK i \in 1 .. n : sorted[i] = y
      BY <1>3, <3>1
    <3>3. 1 \in 1 .. n /\ n \in 1 .. n /\ 1 <= i /\ i <= n
      BY <1>1
    <3>4. sorted[1] <= sorted[i] /\ sorted[i] <= sorted[n]
      BY <1>3, <1>4, <3>3 DEF Ascending
    <3> QED  BY <3>2, <3>4
  <2> QED  BY <2>1, <2>2, <2>3, MinMaxAre
<1> DEFINE p(q) == percentile(sorted, q)
<1>6. /\ 100 * sorted[1] <= p(50) /\ p(50) <= p(90) /\ p(90) <= p(95) /\ p(95) <= p(99)
      /\ p(99) <= 100 * sorted[n]
  <2>1. 50 \in 0 .. 100 /\ 90 \in 50 .. 100 /\ 90 \in 0 .. 100 /\ 95 \in 90 .. 100
        /\ 95 \in 0 .. 100 /\ 99 \in 95 .. 100 /\ 99 \in 0 .. 100 /\ 99 \in 99 .. 100
    OBVIOUS
  <2>2. ASSUME NEW a \in 0 .. 100, NEW b \in a .. 100
        PROVE  100 * sorted[1] <= p(a) /\ p(a) <= p(b) /\ p(b) <= 100 * sorted[n]
    BY <1>3, <1>4, PercentilesAreOrdered
  <2> HIDE DEF p
  <2> QED  BY <2>1, <2>2, ZenonT(30)
<1> DEFINE s == calculateLatencyStats(samples)
<1>7. s = [min |-> 100 * sorted[1], max |-> 100 * sorted[n],
           p50 |-> p(50), p90 |-> p(90), p95 |-> p(95), p99 |-> p(99)]
  BY <1>5 DEF calculateLatencyStats, values, sorted
<1> HIDE DEF p, s
<1>8. /\ s.min = 100 * sorted[1] /\ s.max = 100 * sorted[n]
      /\ s.p50 = p(50) /\ s.p90 = p(90) /\ s.p95 = p(95) /\ s.p99 = p(99)
  BY <1>7
<1> DEFINE steps == <<s.min, s.p50, s.p90, s.p95, s.p99, s.max>>
<1>9. \A i \in 1 .. 5 : steps[i] <= steps[i + 1]
  BY <1>6, <1>8
<1> QED  BY <1>9 DEF s

(***************************************************************************)
(* Whenever a GetAll is over that no Add disturbed, the statistics of what *)
(* it returned are in order, between the extremes, and the distribution    *)
(* counts every sample once (calculateLatencyStats, percentile, metrics.go *)
(* and GetLatencyDistribution, dashboard.go), for any number of samples    *)
(* and any latencies.                                                      *)
(***************************************************************************)
THEOREM StatisticsAreSound == Spec => []LatencyStatsSound
<1>1. FilledInv => LatencyStatsSound
  <2> SUFFICES ASSUME FilledInv, ~disturbed, result # << >>, Torn \notin Range(result)
               PROVE  LET s == calculateLatencyStats(result)
                          steps == <<s.min, s.p50, s.p90, s.p95, s.p99, s.max>>
                      IN /\ \A i \in 1 .. 5 : steps[i] <= steps[i + 1]
                         /\ SumFunction(Histogram(result)) = Len(result)
    BY DEF LatencyStatsSound
  <2>1. result \in Seq(Samples)
    BY DEF FilledInv, CopyOfSamples
  <2>2. Len(result) \in Nat /\ DOMAIN result = 1 .. Len(result)
        /\ result \in [1 .. Len(result) -> Samples]
    BY <2>1
  <2>3. \A i \in 1 .. Len(result) : result[i] \in Nat \ {0}
    BY <2>2 DEF Range, Samples
  <2>4. result \in Seq(Nat \ {0})
    BY <2>2, <2>3, LenProperties
  <2> QED  BY <2>4, StatsAreSound, HistogramAddsUp
<1> QED  BY <1>1, FilledInvHolds, PTL

-----------------------------------------------------------------------------
(* The ranges of the queries. *)

\* Multiples of an interval, and the greatest one not above d.
LEMMA GreatestMultiple ==
  ASSUME NEW interval \in Nat \ {0}, NEW d \in Nat
  PROVE  \E q \in Nat : /\ interval * q <= d /\ d < interval * q + interval
                        /\ (interval * q) % interval = 0
<1>0. ASSUME NEW c \in Nat
      PROVE  \E x \in Int, r \in 0 .. interval - 1 : c = interval * x + r /\ r = c % interval
  <2> DEFINE x == c \div interval
             r == c % interval
  <2>1. x \in Nat
    OBVIOUS
  <2>2. r \in 0 .. interval - 1
    OBVIOUS
  <2>3. c = interval * x + r
    OBVIOUS
  <2>4. x \in Int /\ r = c % interval
    BY <2>1
  <2> HIDE DEF x, r
  <2> QED  BY <2>2, <2>3, <2>4
<1>1. \A x \in Int : /\ interval * x \in Int
                     /\ x >= 1 => interval * x >= interval
                     /\ x <= -1 => interval * x <= -interval
  OBVIOUS
<1>2. PICK q \in Int, r \in 0 .. interval - 1 : d = interval * q + r
  BY <1>0
<1> DEFINE c == interval * q
<1>3. c \in Int /\ d = c + r /\ (q <= -1 => c <= -interval)
  BY <1>1, <1>2
<1> HIDE DEF c
<1>4. q \in Nat /\ c <= d /\ d < c + interval
  BY <1>3
<1>5. c \in Nat
  <2>1. interval * q >= 0
    BY <1>1, <1>4
  <2> QED  BY <1>3, <2>1 DEF c
<1>6. PICK y \in Int, s \in 0 .. interval - 1 : c = interval * y + s /\ s = c % interval
  BY <1>0, <1>5
<1> DEFINE e == q - y
           f == interval * e
<1>7. e \in Int /\ f = s
  BY <1>4, <1>6 DEF c
<1>8. (e >= 1 => f >= interval) /\ (e <= -1 => f <= -interval) /\ (e = 0 => f = 0)
  BY <1>1, <1>7
<1> HIDE DEF e, f
<1>9. s = 0
  BY <1>7, <1>8
<1> QED  BY <1>4, <1>6, <1>9 DEF c

(***************************************************************************)
(* The data points of GetAggregated together span their range, whatever    *)
(* the interval is: each second is within one of them, and none of them    *)
(* leaves the range or is empty.                                           *)
(***************************************************************************)
THEOREM DataPointsLeaveNoGap ==
  ASSUME NEW start \in Int, NEW end \in Int, start < end, NEW interval \in Nat \ {0}
  PROVE  /\ \A t \in start .. end : \E p \in DataPoints(start, end, interval) :
              p.from <= t /\ t <= p.to
         /\ \A p \in DataPoints(start, end, interval) :
              start <= p.from /\ p.from < p.to /\ p.to <= end
<1> DEFINE To(t) == IF t + interval > end THEN end ELSE t + interval
           Point(t) == [from |-> t, to |-> To(t)]
           Starts == {t \in start .. end - 1 : (t - start) % interval = 0}
<1>1. DataPoints(start, end, interval) = {Point(t) : t \in Starts}
  BY DEF DataPoints
<1>2. ASSUME NEW t \in start .. end
      PROVE  \E s \in Starts : Point(s).from <= t /\ t <= Point(s).to
  <2> DEFINE d == IF t = end THEN end - 1 - start ELSE t - start
  <2>1. d \in Nat /\ d <= t - start /\ t - start <= d + 1 /\ d <= end - 1 - start
    OBVIOUS
  <2> HIDE DEF d
  <2>2. PICK q \in Nat : /\ interval * q <= d /\ d < interval * q + interval
                         /\ (interval * q) % interval = 0
    BY <2>1, GreatestMultiple
  <2> DEFINE m == interval * q
             s == start + m
  <2>3. m \in Nat /\ m <= d /\ d < m + interval /\ m % interval = 0
    BY <2>2
  <2> HIDE DEF m
  <2>4. s \in start .. end - 1 /\ s - start = m
    BY <2>1, <2>3
  <2>5. s \in Starts
    BY <2>3, <2>4
  <2>6. s <= t /\ t <= To(s)
    BY <2>1, <2>3
  <2> QED  BY <2>5, <2>6
<1>3. ASSUME NEW s \in Starts
      PROVE  start <= Point(s).from /\ Point(s).from < Point(s).to /\ Point(s).to <= end
  OBVIOUS
<1> HIDE DEF Point, Starts
<1> QED  BY <1>1, <1>2, <1>3

(***************************************************************************)
(* So do the points of the overview's timeline (generateTimeline), if its  *)
(* interval divides the range.                                             *)
(***************************************************************************)
THEOREM TimelineLeavesNoGap ==
  ASSUME NEW start \in Int, NEW end \in Int, start < end, NEW n \in Nat \ {0},
         (end - start) % n = 0
  PROVE  /\ \A t \in start .. end : \E p \in Timeline(start, end, n) :
              p.from <= t /\ t <= p.to
         /\ \A p \in Timeline(start, end, n) :
              start <= p.from /\ p.from < p.to /\ p.to <= end
<1> DEFINE interval == (end - start) \div n
           Point(i) == [from |-> start + i * interval, to |-> start + (i + 1) * interval]
<1>1. Timeline(start, end, n) = {Point(i) : i \in 0 .. n - 1}
  BY DEF Timeline
<1>2. end - start = n * interval /\ interval \in Nat \ {0}
  <2>1. end - start \in Nat \ {0} /\ interval \in Int /\ end - start = n * interval
    OBVIOUS
  <2> HIDE DEF interval
  <2>2. interval >= 1
    <3>1. \A x \in Int : x <= 0 => n * x <= 0
      OBVIOUS
    <3> QED  BY <2>1, <3>1
  <2> QED  BY <2>1, <2>2
<1> HIDE DEF interval
<1>3. ASSUME NEW i \in 0 .. n - 1
      PROVE  start <= Point(i).from /\ Point(i).from < Point(i).to /\ Point(i).to <= end
  <2>1. i * interval >= 0 /\ (i + 1) * interval = i * interval + interval
        /\ (i + 1) * interval <= n * interval /\ i * interval \in Int
    BY <1>2
  <2> QED  BY <1>2, <2>1
<1>4. ASSUME NEW t \in start .. end
      PROVE  \E i \in 0 .. n - 1 : Point(i).from <= t /\ t <= Point(i).to
  <2> DEFINE d == IF t = end THEN end - 1 - start ELSE t - start
  <2>1. d \in Nat /\ d <= t - start /\ t - start <= d + 1 /\ d < n * interval
    BY <1>2
  <2> HIDE DEF d
  <2>2. PICK q \in Nat : interval * q <= d /\ d < interval * q + interval
    BY <1>2, <2>1, GreatestMultiple
  <2>3. interval * q \in Int /\ (q + 1) * interval = interval * q + interval
        /\ q * interval = interval * q
    BY <1>2
  <2>4. q < n
    <3>1. \A x \in Nat : x >= n => interval * x >= n * interval
      BY <1>2
    <3> QED  BY <1>2, <2>1, <2>2, <2>3, <3>1
  <2>5. q \in 0 .. n - 1
    BY <2>4
  <2>6. start + q * interval <= t /\ t <= start + (q + 1) * interval
    BY <1>2, <2>1, <2>2, <2>3
  <2> QED  BY <2>5, <2>6
<1> HIDE DEF Point
<1> QED  BY <1>1, <1>3, <1>4

(***************************************************************************)
(* The columns of a heatmap of up to a day span its range.                 *)
(***************************************************************************)
THEOREM HeatmapSpansADay == HeatmapCoversADay
<1> SUFFICES ASSUME NEW minutes \in 1 .. 24 * 60 PROVE HeatmapCovers(minutes)
  BY DEF HeatmapCoversADay
<1>1. CASE minutes <= 60
  BY <1>1 DEF HeatmapCovers, Granularity
<1>2. CASE ~(minutes <= 60) /\ minutes <= 6 * 60
  BY <1>2 DEF HeatmapCovers, Granularity
<1>3. CASE ~(minutes <= 6 * 60) /\ minutes <= 24 * 60
  BY <1>3 DEF HeatmapCovers, Granularity
<1> QED  BY <1>1, <1>2, <1>3
-----------------------------------------------------------------------------
(* The totals of the queries. *)

\* What each second adds to the total of a kind.
PerSecond(k) == [t \in DOMAIN buckets |-> buckets[t][k]]

\* A range holds finitely many buckets, with natural totals.
LEMMA RangeTypes ==
  ASSUME SeriesTypes, NEW start \in Int, NEW end \in Int
  PROVE  /\ IsFiniteSet(GetRange(start, end))
         /\ \A k \in Kept : \A t \in GetRange(start, end) : PerSecond(k)[t] \in Nat
<1>1. GetRange(start, end) \in SUBSET (start .. end)
  <2>1. DOMAIN buckets \subseteq Int
    BY CollectorAssumption DEF SeriesTypes, Seconds
  <2> QED  BY <2>1 DEF GetRange
<1>2. IsFiniteSet(start .. end)
  BY FS_Interval
<1>3. IsFiniteSet(GetRange(start, end))
  BY <1>1, <1>2, FS_Subset
<1>4. \A k \in Kept : \A t \in GetRange(start, end) : PerSecond(k)[t] \in Nat
  BY DEF SeriesTypes, Totals, GetRange, PerSecond
<1> QED  BY <1>3, <1>4

\* The summary of a range is the sum of its seconds.
LEMMA SummaryIs ==
  ASSUME SeriesTypes, NEW start \in Int, NEW end \in Int, NEW k \in Kept
  PROVE  aggregateFromTimeSeries(start, end)[k]
           = SumFunctionOnSet(PerSecond(k), GetRange(start, end))
<1> DEFINE R == GetRange(start, end)
           g == [t \in R |-> buckets[t][k]]
<1>1. aggregateFromTimeSeries(start, end)[k] = SumFunction(g)
  BY DEF aggregateFromTimeSeries
<1>2. SumFunction(g) = SumFunctionOnSet(g, R)
  BY DEF SumFunction
<1>3. IsFiniteSet(R) /\ \A t \in R : PerSecond(k)[t] \in Nat
  BY RangeTypes
<1>4. \A t \in R : g[t] = PerSecond(k)[t]
  BY DEF GetRange, PerSecond
<1> HIDE DEF g, R
<1>5. SumFunctionOnSet(PerSecond(k), R) = SumFunctionOnSet(g, R)
  BY <1>3, <1>4, SumSame
<1> QED  BY <1>1, <1>2, <1>5 DEF R

\* Points without a gap leave out no metric of their range.
LEMMA PointsCover ==
  ASSUME SeriesTypes, NEW start \in Int, NEW end \in Int,
         NEW points, IsFiniteSet(points), \A p \in points : p.from \in Int /\ p.to \in Int,
         \A t \in start .. end : \E p \in points : p.from <= t /\ t <= p.to
  PROVE  Covers(points, start, end)
<1> SUFFICES ASSUME NEW k \in Kept
             PROVE  aggregateFromTimeSeries(start, end)[k]
                      <= SumFunction([p \in points |-> aggregateFromTimeSeries(p.from, p.to)[k]])
  BY DEF Covers
<1> DEFINE f == PerSecond(k)
           r == [p \in points |-> GetRange(p.from, p.to)]
           g == [p \in points |-> aggregateFromTimeSeries(p.from, p.to)[k]]
           S == GetRange(start, end)
<1>1. ASSUME NEW p \in points
      PROVE  /\ IsFiniteSet(r[p]) /\ g[p] = SumFunctionOnSet(f, r[p])
             /\ \A y \in r[p] : f[y] \in Nat
  <2>1. p.from \in Int /\ p.to \in Int
    OBVIOUS
  <2>2. r[p] = GetRange(p.from, p.to) /\ g[p] = aggregateFromTimeSeries(p.from, p.to)[k]
    OBVIOUS
  <2> HIDE DEF r, g
  <2> QED  BY <2>1, <2>2, RangeTypes, SummaryIs
<1>2. IsFiniteSet(S)
  BY RangeTypes
<1>3. \A x \in S : \E p \in points : x \in r[p]
  <2>1. DOMAIN buckets \subseteq Int
    BY CollectorAssumption DEF SeriesTypes, Seconds
  <2> QED  BY <2>1 DEF GetRange
<1>4. aggregateFromTimeSeries(start, end)[k] = SumFunctionOnSet(f, S)
  BY SummaryIs
<1>5. SumFunction(g) = SumFunctionOnSet(g, points)
  BY DEF SumFunction
<1> HIDE DEF f, r, g, S
<1>6. SumFunctionOnSet(f, S) <= SumFunctionOnSet(g, points)
  BY <1>1, <1>2, <1>3, SumCovered
<1> QED  BY <1>4, <1>5, <1>6 DEF g

\* The data points are finitely many, and so are those of the timeline.
LEMMA PointsAreFinite ==
  ASSUME NEW start \in Int, NEW end \in Int, NEW n \in Nat \ {0}
  PROVE  IsFiniteSet(DataPoints(start, end, n)) /\ IsFiniteSet(Timeline(start, end, n))
<1>1. IsFiniteSet(DataPoints(start, end, n))
  <2> DEFINE Starts == {t \in start .. end - 1 : (t - start) % n = 0}
             f == [t \in Starts |-> [from |-> t, to |-> IF t + n > end THEN end ELSE t + n]]
             P == DataPoints(start, end, n)
  <2>1. IsFiniteSet(start .. end - 1)
    BY FS_Interval
  <2>2. IsFiniteSet(Starts)
    BY <2>1, FS_Subset
  <2>3. P = {f[t] : t \in Starts}
    BY DEF DataPoints
  <2> HIDE DEF Starts, P
  <2>4. f \in [Starts -> P]
    BY <2>3
  <2> HIDE DEF f
  <2>5. f \in Surjection(Starts, P)
    BY <2>3, <2>4 DEF Surjection
  <2>6. IsFiniteSet(P)
    BY <2>2, <2>5, FS_Surjection
  <2> QED  BY <2>6 DEF P
<1>2. IsFiniteSet(Timeline(start, end, n))
  <2> DEFINE N == 0 .. n - 1
             interval == (end - start) \div n
             f == [i \in N |-> [from |-> start + i * interval, to |-> start + (i + 1) * interval]]
             P == Timeline(start, end, n)
  <2>1. IsFiniteSet(N)
    BY FS_Interval
  <2>2. P = {f[i] : i \in N}
    BY DEF Timeline
  <2> HIDE DEF N, P
  <2>3. f \in [N -> P]
    BY <2>2
  <2> HIDE DEF f
  <2>4. f \in Surjection(N, P)
    BY <2>2, <2>3 DEF Surjection
  <2>5. IsFiniteSet(P)
    BY <2>1, <2>4, FS_Surjection
  <2> QED  BY <2>5 DEF P
<1> QED  BY <1>1, <1>2

\* The rows of a range add up to its summary, column by column.
LEMMA RowsAddUp ==
  ASSUME NEW from, NEW end, NEW kinds \in SUBSET Kept,
         NEW rows, rows = Columns(GetRange(from, end), kinds),
         NEW t \in DOMAIN rows, NEW k \in DOMAIN rows[t]
  PROVE  SumFunction([u \in DOMAIN rows |-> rows[u][k]]) = aggregateFromTimeSeries(from, end)[k]
<1>1. DOMAIN rows = GetRange(from, end)
  BY DEF Columns
<1>2. k \in kinds /\ k \in Kept
  BY <1>1 DEF Columns
<1>3. [u \in DOMAIN rows |-> rows[u][k]] = [u \in GetRange(from, end) |-> buckets[u][k]]
  BY <1>1, <1>2 DEF Columns
<1> QED  BY <1>2, <1>3 DEF aggregateFromTimeSeries

\* Each format exports the rows of a range: the whole one, or its latest second.
LEMMA ExportedRows ==
  ASSUME SeriesTypes, NEW start \in Int, NEW end \in Int,
         NEW format \in {"json", "csv", "prometheus"}, NEW rows,
         rows = ExportMetrics(format, start, end), DOMAIN rows # {}
  PROVE  LET from == IF format = "prometheus" THEN Max({start} \cup DOMAIN rows) ELSE start
         IN \E kinds \in SUBSET Kept : rows = Columns(GetRange(from, end), kinds)
<1> DEFINE R == GetRange(start, end)
<1>1. CASE format = "json"
  <2> DEFINE K == {"hit", "miss", "invalidation", "warming"}
  <2>1. rows = Columns(R, K)
    BY <1>1 DEF ExportMetrics, exportJSON
  <2>2. K \in SUBSET Kept
    BY DEF Kept
  <2> HIDE DEF K
  <2> QED  BY <1>1, <2>1, <2>2
<1>2. CASE format = "csv"
  <2> DEFINE K == {"hit", "miss", "error", "invalidation", "warming"}
  <2>1. rows = Columns(R, K)
    BY <1>2 DEF ExportMetrics, exportCSV
  <2>2. K \in SUBSET Kept
    BY DEF Kept
  <2> HIDE DEF K
  <2> QED  BY <1>2, <2>1, <2>2
<1>3. CASE format = "prometheus"
  <2> DEFINE L == {t \in R : \A u \in R : u <= t}
  <2>1. rows = Columns(L, Kept)
    BY <1>3 DEF ExportMetrics, exportPrometheus
  <2>2. DOMAIN rows = L
    BY <2>1 DEF Columns
  <2>3. PICK t \in L : TRUE
    BY <2>2
  <2>4. /\ \A u \in DOMAIN buckets : u \in Int
        /\ t \in DOMAIN buckets /\ start <= t /\ t <= end /\ \A u \in R : u <= t
    BY CollectorAssumption DEF SeriesTypes, Seconds, GetRange
  <2>5. L = {t}
    <3>1. \A u \in L : u \in Int /\ u <= t /\ t <= u
      BY <2>4 DEF GetRange
    <3> QED  BY <2>3, <2>4, <3>1
  <2>6. GetRange(t, end) = {t}
    BY <2>4 DEF GetRange
  <2>7. Max({start} \cup L) = t
    <3>1. {start} \cup L \in SUBSET Int /\ t \in {start} \cup L
          /\ \A y \in {start} \cup L : y <= t
      BY <2>4, <2>5
    <3> QED  BY <3>1, MinMaxAre
  <2> HIDE DEF L
  <2>8. rows = Columns(GetRange(t, end), Kept) /\ Max({start} \cup DOMAIN rows) = t
    BY <2>1, <2>2, <2>5, <2>6, <2>7
  <2>9. Kept \in SUBSET Kept
    OBVIOUS
  <2> QED  BY <1>3, <2>8, <2>9
<1> QED  BY <1>1, <1>2, <1>3

(***************************************************************************)
(* In every state, the points of GetAggregated and of the timeline leave   *)
(* out no metric of their range, and the columns of an export add up to    *)
(* its summary (aggregator.go and dashboard.go), for any range, interval   *)
(* and content of the time series.                                         *)
(***************************************************************************)
THEOREM QueriesLeaveOutNothing == Spec => []QueriesCover
<1>1. SeriesTypes => QueriesCover
  <2> SUFFICES ASSUME SeriesTypes PROVE QueriesCover
    OBVIOUS
  <2>1. ASSUME NEW start \in Seconds, NEW end \in start + 1 .. MaxTime, NEW n \in 1 .. end - start
        PROVE  /\ Covers(DataPoints(start, end, n), start, end)
               /\ (end - start) % n = 0 => Covers(Timeline(start, end, n), start, end)
    <3>1. start \in Int /\ end \in Int /\ start < end /\ n \in Nat \ {0}
      BY CollectorAssumption DEF Seconds
    <3>2. Covers(DataPoints(start, end, n), start, end)
      <4> DEFINE P == DataPoints(start, end, n)
      <4>1. \A p \in P : p.from \in Int /\ p.to \in Int
        BY <3>1 DEF DataPoints
      <4>2. \A t \in start .. end : \E p \in P : p.from <= t /\ t <= p.to
        BY <3>1, DataPointsLeaveNoGap
      <4>3. IsFiniteSet(P)
        BY <3>1, PointsAreFinite
      <4> HIDE DEF P
      <4>4. Covers(P, start, end)
        BY <3>1, <4>1, <4>2, <4>3, PointsCover
      <4> QED  BY <4>4 DEF P
    <3>3. ASSUME (end - start) % n = 0 PROVE Covers(Timeline(start, end, n), start, end)
      <4> DEFINE P == Timeline(start, end, n)
      <4>1. \A p \in P : p.from \in Int /\ p.to \in Int
        <5> DEFINE interval == (end - start) \div n
        <5>1. interval \in Int
          BY <3>1
        <5> HIDE DEF interval
        <5>2. \A i \in 0 .. n - 1 : start + i * interval \in Int /\ start + (i + 1) * interval \in Int
          BY <3>1, <5>1
        <5> QED  BY <5>2 DEF Timeline, interval
      <4>2. \A t \in start .. end : \E p \in P : p.from <= t /\ t <= p.to
        BY <3>1, <3>3, TimelineLeavesNoGap
      <4>3. IsFiniteSet(P)
        BY <3>1, PointsAreFinite
      <4> HIDE DEF P
      <4>4. Covers(P, start, end)
        BY <3>1, <4>1, <4>2, <4>3, PointsCover
      <4> QED  BY <4>4 DEF P
    <3> QED  BY <3>2, <3>3
  <2>2. ASSUME NEW start \in Seconds, NEW end \in start + 1 .. MaxTime,
               NEW format \in {"json", "csv", "prometheus"}
        PROVE  LET rows == ExportMetrics(format, start, end)
                   from == IF format = "prometheus" THEN Max({start} \cup DOMAIN rows) ELSE start
               IN \A t \in DOMAIN rows : \A k \in DOMAIN rows[t] :
                    SumFunction([u \in DOMAIN rows |-> rows[u][k]])
                      = aggregateFromTimeSeries(from, end)[k]
    <3> DEFINE rows == ExportMetrics(format, start, end)
               from == IF format = "prometheus" THEN Max({start} \cup DOMAIN rows) ELSE start
    <3>1. start \in Int /\ end \in Int
      BY CollectorAssumption DEF Seconds
    <3> HIDE DEF rows
    <3>2. ASSUME DOMAIN rows # {}
          PROVE  \E kinds \in SUBSET Kept : rows = Columns(GetRange(from, end), kinds)
      BY <3>1, <3>2, ExportedRows DEF rows
    <3> HIDE DEF from
    <3>3. ASSUME NEW t \in DOMAIN rows, NEW k \in DOMAIN rows[t]
          PROVE  SumFunction([u \in DOMAIN rows |-> rows[u][k]]) = aggregateFromTimeSeries(from, end)[k]
      <4>1. PICK kinds \in SUBSET Kept : rows = Columns(GetRange(from, end), kinds)
        BY <3>2
      <4> QED  BY <4>1, RowsAddUp
    <3> QED  BY <3>3 DEF rows, from
  <2> QED  BY <2>1, <2>2, HeatmapSpansADay DEF QueriesCover, Seconds
<1> QED  BY <1>1, SeriesInvHolds, PTL DEF SeriesInv
=============================================================================

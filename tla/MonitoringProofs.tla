-------------------------- MODULE MonitoringProofs ---------------------------
(***************************************************************************)
(* Proofs about Monitoring, for any windows, limits and traffic: episodes  *)
(* of alerts, replies of GetAlerts, snapshots and the sliding windows.     *)
(***************************************************************************)
EXTENDS Monitoring, SequenceTheorems, FiniteSetTheorems, WellFoundedInduction, TLAPS

-----------------------------------------------------------------------------
(* What a bounded buffer keeps. *)

\* The newest n of a sequence are a suffix of it.
LEMMA NewestShape ==
  ASSUME NEW S, NEW s \in Seq(S), NEW n \in Nat
  PROVE  /\ Newest(s, n) \in Seq(S)
         /\ Len(Newest(s, n)) = IF Len(s) > n THEN n ELSE Len(s)
         /\ \A i \in 1 .. Len(Newest(s, n)) :
              /\ Len(s) - Len(Newest(s, n)) + i \in 1 .. Len(s)
              /\ Newest(s, n)[i] = s[Len(s) - Len(Newest(s, n)) + i]
<1>0. Len(s) \in Nat
  OBVIOUS
<1>1. CASE Len(s) > n
  <2> DEFINE m == Len(s) - n + 1
  <2>1. Newest(s, n) = SubSeq(s, m, Len(s))
    BY <1>1 DEF Newest
  <2>2. m \in Int /\ m >= 1 /\ m <= Len(s) + 1
    BY <1>0, <1>1
  <2>3. /\ SubSeq(s, m, Len(s)) \in Seq(S)
        /\ Len(SubSeq(s, m, Len(s))) = Len(s) - m + 1
        /\ \A i \in 1 .. Len(s) - m + 1 : SubSeq(s, m, Len(s))[i] = s[m + i - 1]
    <3>1. \A i \in m .. Len(s) : s[i] \in S
      BY <1>0, <2>2
    <3> QED  BY <1>0, <2>2, <3>1, SubSeqProperties
  <2>4. Len(s) - m + 1 = n
    BY <1>0
  <2>5. \A i \in 1 .. n : m + i - 1 = Len(s) - n + i /\ Len(s) - n + i \in 1 .. Len(s)
    BY <1>0, <1>1
  <2> HIDE DEF m
  <2> QED  BY <1>1, <2>1, <2>3, <2>4, <2>5
<1>2. CASE ~ (Len(s) > n)
  BY <1>0, <1>2 DEF Newest
<1> QED  BY <1>1, <1>2

Pushed(s, x, n) == Newest(Append(s, x), n)

\* A buffer written to holds values of the same kind.
LEMMA PushedType ==
  ASSUME NEW S, NEW s \in Seq(S), NEW x \in S, NEW n \in Nat
  PROVE  Pushed(s, x, n) \in Seq(S)
<1>1. Append(s, x) \in Seq(S)
  OBVIOUS
<1> QED  BY <1>1, NewestShape DEF Pushed

\* A value written to a buffer of n slots is its newest, and the others keep
\* their order; the oldest goes when the buffer is full.
LEMMA AppendNewest ==
  ASSUME NEW S, NEW s \in Seq(S), NEW x \in S, NEW n \in Nat \ {0},
         NEW t \in Seq(S), t = Pushed(s, x, n)
  PROVE  /\ Len(t) = IF Len(s) + 1 > n THEN n ELSE Len(s) + 1
         /\ Len(t) \in Nat \ {0}
         /\ t[Len(t)] = x
         /\ \A i \in 1 .. Len(t) - 1 :
              /\ Len(s) + 1 - Len(t) + i \in 1 .. Len(s)
              /\ t[i] = s[Len(s) + 1 - Len(t) + i]
<1> DEFINE a == Append(s, x)
<1>1. /\ a \in Seq(S) /\ Len(a) = Len(s) + 1 /\ a[Len(s) + 1] = x
      /\ \A i \in 1 .. Len(s) : a[i] = s[i]
  BY AppendProperties
<1>2. Len(s) \in Nat
  OBVIOUS
<1> HIDE DEF a
<1>3. /\ t \in Seq(S) /\ Len(t) = (IF Len(a) > n THEN n ELSE Len(a))
      /\ \A i \in 1 .. Len(t) : Len(a) - Len(t) + i \in 1 .. Len(a) /\ t[i] = a[Len(a) - Len(t) + i]
  <2>1. t = Newest(a, n)
    BY DEF a, Pushed
  <2>2. /\ Newest(a, n) \in Seq(S)
        /\ Len(Newest(a, n)) = (IF Len(a) > n THEN n ELSE Len(a))
        /\ \A i \in 1 .. Len(Newest(a, n)) :
             /\ Len(a) - Len(Newest(a, n)) + i \in 1 .. Len(a)
             /\ Newest(a, n)[i] = a[Len(a) - Len(Newest(a, n)) + i]
    <3> n \in Nat  OBVIOUS
    <3> HIDE DEF a
    <3> QED  BY <1>1, NewestShape, Zenon
  <2> QED  BY <2>1, <2>2, Zenon
<1>4. Len(t) \in Nat \ {0} /\ Len(t) <= Len(s) + 1
  BY <1>1, <1>2, <1>3
<1>5. t[Len(t)] = x
  <2>1. Len(t) \in 1 .. Len(t) /\ Len(a) - Len(t) + Len(t) = Len(s) + 1
    BY <1>1, <1>2, <1>4
  <2>2. t[Len(t)] = a[Len(a) - Len(t) + Len(t)]
    BY <1>3, <2>1
  <2> QED  BY <1>1, <2>1, <2>2
<1>6. ASSUME NEW i \in 1 .. Len(t) - 1
      PROVE  Len(s) + 1 - Len(t) + i \in 1 .. Len(s) /\ t[i] = s[Len(s) + 1 - Len(t) + i]
  <2>1. i \in 1 .. Len(t) /\ Len(s) + 1 - Len(t) + i \in 1 .. Len(s)
    BY <1>2, <1>4
  <2>2. Len(a) - Len(t) + i = Len(s) + 1 - Len(t) + i
    BY <1>1
  <2>3. t[i] = a[Len(s) + 1 - Len(t) + i]
    BY <1>3, <2>1, <2>2
  <2> QED  BY <1>1, <2>1, <2>3
<1> QED  BY <1>1, <1>3, <1>4, <1>5, <1>6

-----------------------------------------------------------------------------
(* Episodes of alerts. *)

RuleIds == {"high_error_rate", "low_hit_rate", "latency_spike", "high_eviction_rate"}
Episodes == [rule : RuleIds, at : Nat, until : Nat]

\* The alert manager looks at one rule after the other; its alerts are theirs.
ManagerInv == am.i \in 1 .. 4 /\ DOMAIN active \subseteq RuleIds

AlertTypes ==
  /\ now \in Nat
  /\ stats \in [triggered : Nat, resolved : Nat]
  /\ IsFiniteSet(DOMAIN active)
  /\ resolved \in Seq(Episodes)

\* Nothing is dated later than now.
AlertsPast ==
  /\ \A r \in DOMAIN active : active[r].at \in Nat /\ active[r].at <= now
  /\ \A i \in DOMAIN resolved : resolved[i].until <= now

AlertInv == AlertTypes /\ AlertsPast /\ AlertEpisodes

\* The rule the alert manager looks at is one of the four.
LEMMA RulesAre ==
  /\ Len(Rules) = 4
  /\ \A i \in 1 .. 4 : Rules[i] \in RuleIds
BY DEF Rules, RuleIds

\* Every step is one of: a tick, a new alert, the end of one, or leaves the alerts alone.
LEMMA AlertSteps ==
  ASSUME [Next]_vars
  PROVE  \/ Tick /\ UNCHANGED alertVars
         \/ TriggerAlert \/ ResolveAlert
         \/ UNCHANGED <<now, alertVars>>
BY DEF Next, vars, Tick, RecordMetric, RecordLatency, AggNext, AggBegin,
   AggLoad, AggStore, Aggregating, AmNext, EvaluateRules, Evaluating, CallBegin, CallRead,
   CallReturn, Calling, alertVars

\* The alert manager stays within its list of rules.
LEMMA ManagerInvHolds == Spec => []ManagerInv
<1>1. Init => ManagerInv
  BY DEF Init, ManagerInv
<1>2. ManagerInv /\ [Next]_vars => ManagerInv'
  <2> SUFFICES ASSUME ManagerInv, [Next]_vars PROVE ManagerInv'
    OBVIOUS
  <2>1. CASE UNCHANGED am
    <3>1. UNCHANGED active
      BY <2>1, AlertSteps DEF alertVars, TriggerAlert, ResolveAlert, NextRule, ManagerInv
    <3> QED  BY <2>1, <3>1 DEF ManagerInv
  <2>2. CASE EvaluateRules
    BY <2>2 DEF EvaluateRules, ManagerInv, alertVars
  <2>3. CASE NextRule /\ (TriggerAlert \/ ResolveAlert)
    <3>1. am'.i \in 1 .. 4
      BY <2>3, RulesAre DEF NextRule, ManagerInv
    <3>2. DOMAIN active' \subseteq DOMAIN active \cup {Rules[am.i]}
      BY <2>3 DEF TriggerAlert, ResolveAlert, alertVars
    <3> QED  BY <3>1, <3>2, RulesAre DEF ManagerInv
  <2> QED
    BY <2>1, <2>2, <2>3 DEF Next, vars, Tick, RecordMetric, RecordLatency, AggNext, AggBegin,
       AggLoad, AggStore, Aggregating, AmNext, TriggerAlert, ResolveAlert, CallBegin, CallRead,
       CallReturn, Calling
<1> QED  BY <1>1, <1>2, PTL DEF Spec

\* Time that passes leaves the episodes as they are.
LEMMA AlertsIdle ==
  ASSUME AlertInv, UNCHANGED alertVars, now' \in Nat, now' >= now
  PROVE  AlertInv'
<1>1. AlertTypes'
  BY DEF AlertInv, AlertTypes, alertVars
<1>2. AlertsPast'
  <2>1. ASSUME NEW i \in DOMAIN resolved PROVE resolved[i].until <= now'
    <3>1. resolved[i] \in Episodes
      BY DEF AlertInv, AlertTypes
    <3>2. resolved[i].until \in Nat /\ resolved[i].until <= now /\ now \in Nat
      BY <3>1 DEF AlertInv, AlertTypes, AlertsPast, Episodes
    <3> QED  BY <3>2
  <2>2. ASSUME NEW r \in DOMAIN active PROVE active[r].at \in Nat /\ active[r].at <= now'
    BY DEF AlertInv, AlertTypes, AlertsPast
  <2> QED  BY <2>1, <2>2 DEF AlertsPast, alertVars
<1>3. AlertEpisodes'
  BY DEF AlertInv, AlertEpisodes, alertVars
<1> QED  BY <1>1, <1>2, <1>3 DEF AlertInv

\* A new alert begins after the last episode of its rule.
LEMMA AlertTriggered ==
  ASSUME AlertInv, ManagerInv, TriggerAlert
  PROVE  AlertInv'
<1> DEFINE rule == Rules[am.i]
<1>0. now' = now /\ now \in Nat
  BY DEF TriggerAlert, Evaluating, AlertInv, AlertTypes
<1>1. CASE rule \in DOMAIN active
  <2>1. UNCHANGED alertVars
    BY <1>1 DEF TriggerAlert
  <2> QED  BY <1>0, <2>1, AlertsIdle
<1>2. CASE rule \notin DOMAIN active
  <2>1. /\ active' = [r \in DOMAIN active \cup {rule} |->
                        IF r = rule THEN [at |-> now, severity |-> am.verdict[rule]] ELSE active[r]]
        /\ stats' = [stats EXCEPT !.triggered = @ + 1]
        /\ resolved' = resolved
    BY <1>2 DEF TriggerAlert
  <2> HIDE DEF rule
  <2>2. DOMAIN active' = DOMAIN active \cup {rule}
    BY <2>1
  <2>3. /\ active'[rule].at = now
        /\ \A r \in DOMAIN active : active'[r] = active[r]
    BY <1>2, <2>1
  <2>4. /\ IsFiniteSet(DOMAIN active')
        /\ Cardinality(DOMAIN active') = Cardinality(DOMAIN active) + 1
    BY <1>2, <2>2, FS_AddElement DEF AlertInv, AlertTypes
  <2>5. /\ stats' \in [triggered : Nat, resolved : Nat]
        /\ stats'.triggered = stats.triggered + 1 /\ stats'.resolved = stats.resolved
    BY <2>1 DEF AlertInv, AlertTypes
  <2>6. AlertTypes'
    BY <1>0, <2>1, <2>4, <2>5 DEF AlertInv, AlertTypes
  <2>7. AlertsPast'
    <3>1. \A i \in DOMAIN resolved : resolved[i].until <= now
      BY DEF AlertInv, AlertsPast
    <3>2. ASSUME NEW r \in DOMAIN active'
          PROVE  active'[r].at \in Nat /\ active'[r].at <= now
      BY <1>0, <2>2, <2>3 DEF AlertInv, AlertsPast
    <3> QED  BY <1>0, <2>1, <3>1, <3>2 DEF AlertsPast
  <2>8. AlertEpisodes'
    <3>1. stats'.triggered = stats'.resolved + Cardinality(DOMAIN active')
      <4>1. Cardinality(DOMAIN active) \in Nat
        BY FS_CardinalityType DEF AlertInv, AlertTypes
      <4>2. stats.triggered \in Nat /\ stats.resolved \in Nat
        BY DEF AlertInv, AlertTypes
      <4> QED  BY <4>1, <4>2, <2>4, <2>5 DEF AlertInv, AlertEpisodes
    <3>2. ASSUME NEW i \in DOMAIN resolved, resolved[i].rule \in DOMAIN active'
          PROVE  resolved[i].until <= active'[resolved[i].rule].at
      BY <3>2, <1>2, <2>2, <2>3 DEF AlertInv, AlertEpisodes, AlertsPast
    <3> QED  BY <2>1, <2>5, <3>1, <3>2 DEF AlertInv, AlertEpisodes
  <2> QED  BY <2>6, <2>7, <2>8 DEF AlertInv
<1> QED  BY <1>1, <1>2

\* An episode that ends is the newest of the list, and its rule is free again.
LEMMA AlertResolved ==
  ASSUME AlertInv, ManagerInv, ResolveAlert
  PROVE  AlertInv'
<1> DEFINE rule == Rules[am.i]
<1>0. now' = now /\ now \in Nat
  BY DEF ResolveAlert, Evaluating, AlertInv, AlertTypes
<1>1. CASE rule \notin DOMAIN active
  <2>1. UNCHANGED alertVars
    BY <1>1 DEF ResolveAlert
  <2> QED  BY <1>0, <2>1, AlertsIdle
<1>2. CASE rule \in DOMAIN active
  <2> DEFINE e == [rule |-> rule, at |-> active[rule].at, until |-> now]
  <2>1. /\ resolved' = Newest(Append(resolved, e), KeepResolved)
        /\ active' = [r \in DOMAIN active \ {rule} |-> active[r]]
        /\ stats' = [stats EXCEPT !.resolved = @ + 1]
    BY <1>2 DEF ResolveAlert
  <2>2. /\ e \in Episodes /\ e.rule = rule /\ e.at = active[rule].at /\ e.until = now
        /\ e.at <= now
    BY <1>0, <1>2, RulesAre DEF Episodes, AlertInv, AlertsPast, ManagerInv
  <2> HIDE DEF rule, e
  <2>3. resolved \in Seq(Episodes) /\ Len(resolved) \in Nat /\ DOMAIN resolved = 1 .. Len(resolved)
    BY DEF AlertInv, AlertTypes
  <2>4. KeepResolved \in Nat \ {0}
    BY MonitoringAssumption
  <2> DEFINE n == Len(resolved')
  <2>5. /\ resolved' \in Seq(Episodes)
        /\ n = IF Len(resolved) + 1 > KeepResolved THEN KeepResolved ELSE Len(resolved) + 1
        /\ n \in Nat \ {0}
        /\ resolved'[n] = e
        /\ \A i \in 1 .. n - 1 :
             /\ Len(resolved) + 1 - n + i \in 1 .. Len(resolved)
             /\ resolved'[i] = resolved[Len(resolved) + 1 - n + i]
    <3>1. resolved \in Seq(Episodes) /\ e \in Episodes
      BY <2>2, <2>3
    <3>2. resolved' = Pushed(resolved, e, KeepResolved)
      BY <2>1 DEF Pushed
    <3>3. resolved' \in Seq(Episodes)
      BY <2>4, <3>1, <3>2, PushedType
    <3>4. /\ n = IF Len(resolved) + 1 > KeepResolved THEN KeepResolved ELSE Len(resolved) + 1
          /\ n \in Nat \ {0}
      BY <2>4, <3>1, <3>2, <3>3, AppendNewest
    <3>5. resolved'[n] = e
      BY <2>4, <3>1, <3>2, <3>3, AppendNewest
    <3>6. \A i \in 1 .. n - 1 :
            /\ Len(resolved) + 1 - n + i \in 1 .. Len(resolved)
            /\ resolved'[i] = resolved[Len(resolved) + 1 - n + i]
      BY <2>4, <3>1, <3>2, <3>3, AppendNewest
    <3> QED  BY <3>3, <3>4, <3>5, <3>6
  <2>6. DOMAIN resolved' = 1 .. n
    BY <2>5
  <2> HIDE DEF n
  <2>7. /\ DOMAIN active' = DOMAIN active \ {rule}
        /\ \A r \in DOMAIN active' : active'[r] = active[r]
    BY <2>1
  <2>8. /\ IsFiniteSet(DOMAIN active')
        /\ Cardinality(DOMAIN active') = Cardinality(DOMAIN active) - 1
    BY <1>2, <2>7, FS_RemoveElement DEF AlertInv, AlertTypes
  <2>9. /\ stats' \in [triggered : Nat, resolved : Nat]
        /\ stats'.triggered = stats.triggered /\ stats'.resolved = stats.resolved + 1
        /\ stats.triggered \in Nat /\ stats.resolved \in Nat
    BY <2>1 DEF AlertInv, AlertTypes
  <2>10. AlertTypes'
    BY <1>0, <2>5, <2>8, <2>9 DEF AlertTypes
  \* An episode of the new list is the one that ends or an earlier one.
  <2>11. ASSUME NEW i \in 1 .. n - 1
         PROVE  \E k \in DOMAIN resolved :
                  k = Len(resolved) + 1 - n + i /\ resolved'[i] = resolved[k]
    BY <2>3, <2>5
  <2>12. AlertsPast'
    <3>1. ASSUME NEW i \in DOMAIN resolved'
          PROVE  resolved'[i].until <= now
      <4>1. CASE i = n
        BY <4>1, <2>2, <2>5, <1>0
      <4>2. CASE i # n
        <5>1. i \in 1 .. n - 1
          BY <4>2, <2>5, <2>6
        <5> QED  BY <5>1, <2>11 DEF AlertInv, AlertsPast
      <4> QED  BY <4>1, <4>2
    <3>2. \A r \in DOMAIN active' : active'[r].at \in Nat /\ active'[r].at <= now
      BY <2>7 DEF AlertInv, AlertsPast
    <3> QED  BY <1>0, <3>1, <3>2 DEF AlertsPast
  <2>13. AlertEpisodes'
    <3>1. stats'.triggered = stats'.resolved + Cardinality(DOMAIN active')
      <4>1. Cardinality(DOMAIN active) \in Nat
        BY FS_CardinalityType DEF AlertInv, AlertTypes
      <4> QED  BY <4>1, <2>8, <2>9 DEF AlertInv, AlertEpisodes
    <3>2. n = IF stats'.resolved > KeepResolved THEN KeepResolved ELSE stats'.resolved
      BY <2>3, <2>4, <2>5, <2>9 DEF AlertInv, AlertEpisodes
    <3>3. ASSUME NEW i \in DOMAIN resolved'
          PROVE  resolved'[i].at <= resolved'[i].until
      <4>1. CASE i = n
        BY <4>1, <2>2, <2>5, <1>0
      <4>2. CASE i # n
        <5>1. i \in 1 .. n - 1
          BY <4>2, <2>5, <2>6
        <5> QED  BY <5>1, <2>11 DEF AlertInv, AlertEpisodes
      <4> QED  BY <4>1, <4>2
    <3>4. ASSUME NEW i \in DOMAIN resolved', NEW j \in DOMAIN resolved', i < j
          PROVE  /\ resolved'[i].until <= resolved'[j].until
                 /\ resolved'[i].rule = resolved'[j].rule => resolved'[i].until <= resolved'[j].at
      <4>1. i \in 1 .. n - 1
        BY <3>4, <2>5, <2>6
      <4>2. PICK k \in DOMAIN resolved : k = Len(resolved) + 1 - n + i /\ resolved'[i] = resolved[k]
        BY <4>1, <2>11
      <4>3. CASE j = n
        <5>1. resolved'[j] = e
          BY <4>3, <2>5
        <5>2. resolved[k].until <= now
          BY DEF AlertInv, AlertsPast
        <5>3. resolved[k].rule = rule => resolved[k].until <= active[rule].at
          BY <1>2 DEF AlertInv, AlertEpisodes
        <5> QED  BY <4>2, <5>1, <5>2, <5>3, <2>2
      <4>4. CASE j # n
        <5>1. j \in 1 .. n - 1
          BY <4>4, <2>5, <2>6
        <5>2. PICK l \in DOMAIN resolved : l = Len(resolved) + 1 - n + j /\ resolved'[j] = resolved[l]
          BY <5>1, <2>11
        <5>3. k < l
          <6>1. i \in Int /\ j \in Int /\ n \in Int /\ Len(resolved) \in Int
            BY <4>1, <5>1, <2>3, <2>5
          <6> QED  BY <3>4, <4>2, <5>2, <6>1
        <5> QED  BY <4>2, <5>2, <5>3 DEF AlertInv, AlertEpisodes
      <4> QED  BY <4>3, <4>4
    <3>5. ASSUME NEW i \in DOMAIN resolved', resolved'[i].rule \in DOMAIN active'
          PROVE  resolved'[i].until <= active'[resolved'[i].rule].at
      <4>1. i # n
        BY <3>5, <2>2, <2>5, <2>7
      <4>2. i \in 1 .. n - 1
        BY <4>1, <2>5, <2>6
      <4>3. PICK k \in DOMAIN resolved : resolved'[i] = resolved[k]
        BY <4>2, <2>11
      <4> QED  BY <3>5, <4>3, <2>7 DEF AlertInv, AlertEpisodes
    <3> QED  BY <3>1, <3>2, <3>3, <3>4, <3>5 DEF AlertEpisodes, n
  <2> QED  BY <2>10, <2>12, <2>13 DEF AlertInv
<1> QED  BY <1>1, <1>2

\* All that the alert manager keeps is in order.
LEMMA AlertInvHolds == Spec => []AlertInv
<1>1. Init => AlertInv
  <2> SUFFICES ASSUME Init PROVE AlertInv
    OBVIOUS
  <2>1. DOMAIN active = {} /\ DOMAIN resolved = {}
    BY DEF Init
  <2>2. AlertTypes
    BY <2>1, FS_EmptySet DEF Init, AlertTypes
  <2>3. AlertsPast
    BY <2>1 DEF AlertsPast
  <2>4. AlertEpisodes
    BY <2>1, FS_EmptySet, MonitoringAssumption DEF Init, AlertEpisodes
  <2> QED  BY <2>2, <2>3, <2>4 DEF AlertInv
<1>2. AlertInv /\ ManagerInv /\ [Next]_vars => AlertInv'
  <2> SUFFICES ASSUME AlertInv, ManagerInv, [Next]_vars PROVE AlertInv'
    OBVIOUS
  <2>0. now \in Nat
    BY DEF AlertInv, AlertTypes
  <2>1. CASE Tick /\ UNCHANGED alertVars
    <3>1. now' \in Nat /\ now' >= now
      BY <2>0, <2>1 DEF Tick
    <3> QED  BY <2>1, <3>1, AlertsIdle
  <2>2. CASE TriggerAlert
    BY <2>2, AlertTriggered
  <2>3. CASE ResolveAlert
    BY <2>3, AlertResolved
  <2>4. CASE UNCHANGED <<now, alertVars>>
    BY <2>0, <2>4, AlertsIdle
  <2> QED  BY <2>1, <2>2, <2>3, <2>4, AlertSteps
<1> QED  BY <1>1, <1>2, ManagerInvHolds, PTL DEF Spec

(***************************************************************************)
(* The episodes of a rule never overlap, the list of the ended ones is in  *)
(* order and as long as it should be, and TotalTriggered minus             *)
(* TotalResolved is the number of active alerts (triggerAlert and          *)
(* resolveAlert, alerts.go), whatever the limits are.                      *)
(***************************************************************************)
THEOREM AlertsHaveEpisodes == Spec => []AlertEpisodes
<1>1. AlertInv => AlertEpisodes
  BY DEF AlertInv
<1> QED  BY <1>1, AlertInvHolds, PTL

-----------------------------------------------------------------------------
(* Replies of GetAlerts. *)

Alerts == [rule : RuleIds, at : Nat]

\* Alert x is active; it is one of the last k of the ended ones.
IsOpen(a, x) == x.rule \in DOMAIN a /\ a[x.rule].at = x.at
InLast(s, x, k) == \E j \in DOMAIN s : j > Len(s) - k /\ s[j].rule = x.rule /\ s[j].at = x.at

\* The alerts that ended during the request.
EndedSince == stats.resolved - call.before

\* What the request has not read yet is still to be read.
StillSeen ==
  call.pc = "read" /\ EndedSince <= RecentLimit =>
    \A x \in call.known :
      \/ InLast(resolved, x, EndedSince)
      \/ IF call.i = 1 THEN IsOpen(active, x) ELSE x \in call.reply

CallTypes ==
  /\ call.known \subseteq Alerts
  /\ call.pc # "idle" => call.before \in Nat /\ call.before <= stats.resolved
  /\ call.pc = "read" => call.i \in {1, 2}

CallInv == CallTypes /\ StillSeen /\ AlertsNotLost

\* The active alerts, seen one by one.
LEMMA OpenIs ==
  ASSUME AlertInv, ManagerInv
  PROVE  Open \subseteq Alerts /\ \A x \in Alerts : x \in Open <=> IsOpen(active, x)
<1>1. ASSUME NEW r \in DOMAIN active
      PROVE  r \in RuleIds /\ active[r].at \in Nat
  BY DEF AlertInv, AlertsPast, ManagerInv
<1>2. Open \subseteq Alerts
  BY <1>1 DEF Open, Alerts
<1>3. ASSUME NEW x \in Alerts PROVE x \in Open <=> IsOpen(active, x)
  <2>1. ASSUME x \in Open PROVE IsOpen(active, x)
    BY <2>1 DEF Open, IsOpen
  <2>2. ASSUME IsOpen(active, x) PROVE x \in Open
    <3>1. x = [rule |-> x.rule, at |-> active[x.rule].at]
      BY <2>2 DEF IsOpen, Alerts
    <3> QED  BY <2>2, <3>1 DEF IsOpen, Open
  <2> QED  BY <2>1, <2>2
<1> QED  BY <1>2, <1>3

\* What is among the last k is in a reply that holds the last n, if k is no more.
LEMMA LastIsRecent ==
  ASSUME NEW s \in Seq(Episodes), NEW x \in Alerts, NEW k \in Nat, NEW n \in Nat, k <= n,
         InLast(s, x, k)
  PROVE  x \in Ended(Newest(s, n))
<1> DEFINE t == Newest(s, n)
<1>0. Len(s) \in Nat
  OBVIOUS
<1>1. /\ t \in Seq(Episodes)
      /\ Len(t) = (IF Len(s) > n THEN n ELSE Len(s))
      /\ \A i \in 1 .. Len(t) : t[i] = s[Len(s) - Len(t) + i]
  BY NewestShape
<1>2. PICK j \in DOMAIN s : j > Len(s) - k /\ s[j].rule = x.rule /\ s[j].at = x.at
  BY DEF InLast
<1> HIDE DEF t
<1>3. j \in Int /\ j >= 1 /\ j <= Len(s)
  BY <1>2
<1> DEFINE i == j - (Len(s) - Len(t))
<1>4. i \in 1 .. Len(t) /\ Len(s) - Len(t) + i = j
  BY <1>0, <1>1, <1>2, <1>3
<1>5. t[i] = s[j]
  BY <1>1, <1>4
<1>6. t[i] \in Range(t)
  BY <1>1, <1>4 DEF Range
<1>7. x = [rule |-> t[i].rule, at |-> t[i].at]
  BY <1>2, <1>5 DEF Alerts
<1> QED  BY <1>6, <1>7 DEF Ended, t

\* What was among the last k is among the last k + 1 when an episode ends.
LEMMA LastShifts ==
  ASSUME NEW s \in Seq(Episodes), NEW e \in Episodes, NEW n \in Nat \ {0},
         NEW t \in Seq(Episodes), t = Pushed(s, e, n),
         NEW x, NEW k \in Nat, k + 1 <= n
  PROVE  /\ InLast(s, x, k) => InLast(t, x, k + 1)
         /\ e.rule = x.rule /\ e.at = x.at => InLast(t, x, k + 1)
<1>0. Len(s) \in Nat
  OBVIOUS
<1>1. /\ Len(t) = (IF Len(s) + 1 > n THEN n ELSE Len(s) + 1)
      /\ Len(t) \in Nat \ {0}
  BY AppendNewest
<1>2. t[Len(t)] = e
  BY AppendNewest
<1>3. \A i \in 1 .. Len(t) - 1 : t[i] = s[Len(s) + 1 - Len(t) + i]
  BY AppendNewest
<1>4. DOMAIN t = 1 .. Len(t) /\ DOMAIN s = 1 .. Len(s)
  OBVIOUS
<1>5. ASSUME InLast(s, x, k) PROVE InLast(t, x, k + 1)
  <2>1. PICK j \in DOMAIN s : j > Len(s) - k /\ s[j].rule = x.rule /\ s[j].at = x.at
    BY <1>5 DEF InLast
  <2>2. j \in Int /\ j >= 1 /\ j <= Len(s)
    BY <1>4
  <2> DEFINE i == j - (Len(s) + 1 - Len(t))
  <2>3. /\ i \in 1 .. Len(t) - 1 /\ Len(s) + 1 - Len(t) + i = j
        /\ i > Len(t) - (k + 1) /\ i \in 1 .. Len(t)
    <3>1. j > Len(s) - k
      BY <2>1
    <3>2. CASE Len(s) + 1 > n
      BY <1>0, <1>1, <2>2, <3>1, <3>2
    <3>3. CASE ~ (Len(s) + 1 > n)
      BY <1>0, <1>1, <2>2, <3>1, <3>3
    <3> QED  BY <3>2, <3>3
  <2>4. t[i] = s[j]
    BY <1>3, <2>3
  <2> HIDE DEF i
  <2> QED  BY <1>4, <2>1, <2>3, <2>4 DEF InLast
<1>6. ASSUME e.rule = x.rule, e.at = x.at PROVE InLast(t, x, k + 1)
  <2>1. Len(t) \in DOMAIN t /\ Len(t) > Len(t) - (k + 1)
    BY <1>1, <1>4
  <2> QED  BY <1>2, <1>6, <2>1 DEF InLast
<1> QED  BY <1>5, <1>6

\* The end of an episode during a request.
LEMMA CallResolved ==
  ASSUME CallInv, AlertInv, ManagerInv, ResolveAlert
  PROVE  CallInv'
<1> DEFINE rule == Rules[am.i]
<1>0. call' = call
  BY DEF ResolveAlert, Evaluating
<1>1. CASE rule \notin DOMAIN active
  <2>1. UNCHANGED alertVars
    BY <1>1 DEF ResolveAlert
  <2> QED  BY <1>0, <2>1 DEF alertVars, CallInv, CallTypes, StillSeen, AlertsNotLost, EndedSince
<1>2. CASE rule \in DOMAIN active
  <2> DEFINE e == [rule |-> rule, at |-> active[rule].at, until |-> now]
  <2>1. /\ resolved' = Pushed(resolved, e, KeepResolved)
        /\ active' = [r \in DOMAIN active \ {rule} |-> active[r]]
        /\ stats' = [stats EXCEPT !.resolved = @ + 1]
    BY <1>2 DEF ResolveAlert, Pushed
  <2>2. e \in Episodes /\ e.rule = rule /\ e.at = active[rule].at
    BY <1>2, RulesAre DEF Episodes, AlertInv, AlertTypes, AlertsPast, ManagerInv
  <2> HIDE DEF rule, e
  <2>3. stats.resolved \in Nat /\ stats'.resolved = stats.resolved + 1
    BY <2>1 DEF AlertInv, AlertTypes
  <2>4. /\ KeepResolved \in Nat \ {0} /\ KeepResolved \in Nat
        /\ RecentLimit \in Nat /\ RecentLimit <= KeepResolved
    BY MonitoringAssumption
  <2>5. resolved \in Seq(Episodes) /\ resolved' \in Seq(Episodes)
    BY <2>1, <2>2, <2>4, PushedType DEF AlertInv, AlertTypes
  <2>6. CallTypes'
    BY <1>0, <2>3 DEF CallInv, CallTypes
  <2>7. call.pc # "idle" => EndedSince' = EndedSince + 1 /\ EndedSince \in Nat
    BY <1>0, <2>3 DEF CallInv, CallTypes, EndedSince
  <2>8. AlertsNotLost'
    BY <1>0, <2>4, <2>7 DEF CallInv, AlertsNotLost, EndedSince
  <2>9. StillSeen'
    <3> SUFFICES ASSUME call.pc = "read", EndedSince' <= RecentLimit, NEW x \in call.known
                 PROVE  \/ InLast(resolved', x, EndedSince')
                        \/ IF call.i = 1 THEN IsOpen(active', x) ELSE x \in call.reply
      BY <1>0 DEF StillSeen
    <3>1. /\ EndedSince \in Nat /\ EndedSince' = EndedSince + 1
          /\ EndedSince <= RecentLimit /\ EndedSince + 1 <= KeepResolved
      BY <2>4, <2>7
    <3>2. \/ InLast(resolved, x, EndedSince)
          \/ IF call.i = 1 THEN IsOpen(active, x) ELSE x \in call.reply
      BY <3>1 DEF CallInv, StillSeen
    <3>3. InLast(resolved, x, EndedSince) => InLast(resolved', x, EndedSince + 1)
      BY <2>1, <2>2, <2>4, <2>5, <3>1, LastShifts
    <3>4. ASSUME IsOpen(active, x)
          PROVE  InLast(resolved', x, EndedSince + 1) \/ IsOpen(active', x)
      <4>1. CASE x.rule = rule
        <5>1. e.rule = x.rule /\ e.at = x.at
          BY <2>2, <3>4, <4>1 DEF IsOpen
        <5>2. InLast(resolved', x, EndedSince + 1)
          BY <2>1, <2>2, <2>4, <2>5, <3>1, <5>1, LastShifts
        <5> QED  BY <5>2
      <4>2. CASE x.rule # rule
        BY <2>1, <3>4, <4>2 DEF IsOpen
      <4> QED  BY <4>1, <4>2
    <3> QED  BY <3>1, <3>2, <3>3, <3>4
  <2> QED  BY <2>6, <2>8, <2>9 DEF CallInv
<1> QED  BY <1>1, <1>2

\* A new alert during a request.
LEMMA CallTriggered ==
  ASSUME CallInv, AlertInv, TriggerAlert
  PROVE  CallInv'
<1>1. call' = call /\ resolved' = resolved /\ stats'.resolved = stats.resolved
  BY DEF TriggerAlert, Evaluating, alertVars, AlertInv, AlertTypes
<1>2. ASSUME NEW x, IsOpen(active, x) PROVE IsOpen(active', x)
  BY <1>2 DEF IsOpen, TriggerAlert, alertVars
<1>3. CallTypes' /\ AlertsNotLost'
  BY <1>1 DEF CallInv, CallTypes, AlertsNotLost
<1>4. StillSeen'
  BY <1>1, <1>2 DEF CallInv, StillSeen, EndedSince
<1> QED  BY <1>3, <1>4 DEF CallInv

\* The two reads of a request.
LEMMA CallReads ==
  ASSUME CallInv, AlertInv, ManagerInv, CallRead
  PROVE  CallInv'
<1>1. /\ call.pc = "read" /\ call.i \in {1, 2}
      /\ call.before \in Nat /\ call.before <= stats.resolved
      /\ stats.resolved \in Nat
  BY DEF CallRead, CallInv, CallTypes, AlertInv, AlertTypes
<1>2. /\ call'.pc = IF call.i = 2 THEN "done" ELSE "read"
      /\ call'.i = call.i + 1
      /\ call'.known = call.known /\ call'.before = call.before
      /\ call'.reply = call.reply \cup (IF ReadOrder[call.i] = "active" THEN Open
                                        ELSE Ended(Newest(resolved, RecentLimit)))
      /\ active' = active /\ resolved' = resolved /\ stats' = stats
  BY DEF CallRead, Calling, alertVars
<1>3. EndedSince' = EndedSince /\ EndedSince \in Nat /\ RecentLimit \in Nat
  BY <1>1, <1>2, MonitoringAssumption DEF EndedSince
<1>4. call.known \subseteq Alerts
  BY DEF CallInv, CallTypes
<1>5. CallTypes'
  BY <1>1, <1>2, <1>4 DEF CallTypes
<1>6. CASE call.i = 1
  <2>1. call'.pc = "read" /\ call'.i = 2 /\ call'.reply = call.reply \cup Open
    BY <1>2, <1>6 DEF ReadOrder
  <2>2. StillSeen'
    <3> SUFFICES ASSUME EndedSince <= RecentLimit, NEW x \in call.known
                 PROVE  InLast(resolved, x, EndedSince) \/ x \in call'.reply
      BY <1>2, <1>3, <2>1 DEF StillSeen
    <3>1. InLast(resolved, x, EndedSince) \/ IsOpen(active, x)
      BY <1>1, <1>6 DEF CallInv, StillSeen
    <3> QED  BY <1>4, <2>1, <3>1, OpenIs
  <2>3. AlertsNotLost'
    BY <2>1 DEF AlertsNotLost
  <2> QED  BY <1>5, <2>2, <2>3 DEF CallInv
<1>7. CASE call.i = 2
  <2>1. call'.pc = "done" /\ call'.reply = call.reply \cup Ended(Newest(resolved, RecentLimit))
    BY <1>2, <1>7 DEF ReadOrder
  <2>2. StillSeen'
    BY <2>1 DEF StillSeen
  <2>3. AlertsNotLost'
    <3> SUFFICES ASSUME EndedSince <= RecentLimit, NEW x \in call.known
                 PROVE  x \in call'.reply
      BY <1>2 DEF AlertsNotLost, EndedSince
    <3>1. InLast(resolved, x, EndedSince) \/ x \in call.reply
      BY <1>1, <1>7 DEF CallInv, StillSeen
    <3>2. resolved \in Seq(Episodes)
      BY DEF AlertInv, AlertTypes
    <3>3. InLast(resolved, x, EndedSince) => x \in Ended(Newest(resolved, RecentLimit))
      BY <1>3, <1>4, <3>2, LastIsRecent
    <3> QED  BY <2>1, <3>1, <3>3
  <2> QED  BY <1>5, <2>2, <2>3 DEF CallInv
<1> QED  BY <1>1, <1>6, <1>7

\* Every request keeps track of the alerts it must return.
LEMMA CallInvHolds == Spec => []CallInv
<1>1. Init => CallInv
  BY DEF Init, CallInv, CallTypes, StillSeen, AlertsNotLost
<1>2. CallInv /\ AlertInv /\ ManagerInv /\ [Next]_vars => CallInv'
  <2> SUFFICES ASSUME CallInv, AlertInv, ManagerInv, [Next]_vars PROVE CallInv'
    OBVIOUS
  <2>1. CASE TriggerAlert
    BY <2>1, CallTriggered
  <2>2. CASE ResolveAlert
    BY <2>2, CallResolved
  <2>3. CASE UNCHANGED <<call, alertVars>>
    BY <2>3 DEF alertVars, CallInv, CallTypes, StillSeen, AlertsNotLost, EndedSince
  <2>4. CASE CallBegin
    <3>1. /\ call'.pc = "read" /\ call'.i = 1 /\ call'.known = Open
          /\ call'.before = stats.resolved
          /\ active' = active /\ stats' = stats /\ stats.resolved \in Nat
      BY <2>4 DEF CallBegin, Calling, alertVars, AlertInv, AlertTypes
    <3>2. CallTypes'
      BY <3>1, OpenIs DEF CallTypes
    <3>3. StillSeen'
      BY <3>1, OpenIs DEF StillSeen
    <3>4. AlertsNotLost'
      BY <3>1 DEF AlertsNotLost
    <3> QED  BY <3>2, <3>3, <3>4 DEF CallInv
  <2>5. CASE CallRead
    BY <2>5, CallReads
  <2>6. CASE CallReturn
    BY <2>6 DEF CallReturn, CallInv, CallTypes, StillSeen, AlertsNotLost
  <2> QED
    BY <2>1, <2>2, <2>3, <2>4, <2>5, <2>6 DEF Next, vars, Tick, RecordMetric, RecordLatency,
       AggNext, AggBegin, AggLoad, AggStore, Aggregating, AmNext, EvaluateRules, Evaluating
<1> QED  BY <1>1, <1>2, AlertInvHolds, ManagerInvHolds, PTL DEF Spec

(***************************************************************************)
(* An alert that is active when GetAlerts is called is in its reply        *)
(* (service.go, GetAlerts reads the active alerts before the resolved      *)
(* ones), for any limits of the reply and of the list the manager keeps,   *)
(* as long as the reply may not hold more than the list.                   *)
(***************************************************************************)
THEOREM RepliesLoseNoAlert == Spec => []AlertsNotLost
<1>1. CallInv => AlertsNotLost
  BY DEF CallInv
<1> QED  BY <1>1, CallInvHolds, PTL

-----------------------------------------------------------------------------
(* Snapshots. *)

Snapshots == [t : Int, hits : Nat, misses : Nat, errors : Nat, p95 : Nat]

SnapTypes ==
  /\ counters \in [Kinds -> Nat] /\ p95 \in Nat
  /\ agg.pc \in {"idle", "load", "store"}
  /\ agg.snap \in Snapshots
  /\ agg.pc = "load" => agg.i \in 1 .. 3

\* What was loaded has only grown since.
LoadedBelow ==
  /\ agg.pc = "load" /\ agg.i >= 2 => agg.snap.hits <= counters["hit"]
  /\ agg.pc = "load" /\ agg.i >= 3 => agg.snap.misses <= counters["miss"]

SnapInv == SnapTypes /\ LoadedBelow

\* One load of GetCounters.
LEMMA LoadStep ==
  ASSUME SnapInv, AggLoad
  PROVE  /\ SnapInv'
         /\ agg'.snap.t = agg.snap.t
         /\ agg.i = 2 => agg'.snap.hits = agg.snap.hits /\ agg'.snap.misses = counters["miss"]
         /\ agg.i = 3 => /\ agg'.snap.hits = agg.snap.hits /\ agg'.snap.misses = agg.snap.misses
                         /\ agg'.snap.errors = counters["error"]
<1>0. /\ agg.pc = "load" /\ agg.i \in 1 .. 3
      /\ counters["hit"] \in Nat /\ counters["miss"] \in Nat /\ counters["error"] \in Nat
      /\ counters' = counters /\ p95' = p95 /\ p95 \in Nat /\ agg.snap \in Snapshots
      /\ counters \in [Kinds -> Nat]
  BY DEF AggLoad, Aggregating, SnapInv, SnapTypes, Kinds
<1>1. Len(LoadOrder) = 3 /\ LoadOrder[1] = "hit" /\ LoadOrder[2] = "miss" /\ LoadOrder[3] = "error"
  BY DEF LoadOrder
<1> DEFINE k == LoadOrder[agg.i]
<1> DEFINE v == counters[k]
<1>2. agg' = [pc |-> IF agg.i = 3 THEN "store" ELSE "load", i |-> agg.i + 1,
              snap |-> [t |-> agg.snap.t,
                        hits |-> IF k = "hit" THEN v ELSE agg.snap.hits,
                        misses |-> IF k = "miss" THEN v ELSE agg.snap.misses,
                        errors |-> IF k = "error" THEN v ELSE agg.snap.errors,
                        p95 |-> IF k = "error" THEN p95 ELSE agg.snap.p95]]
  BY <1>1 DEF AggLoad
<1>3. /\ agg.snap.t \in Int /\ agg.snap.hits \in Nat /\ agg.snap.misses \in Nat
      /\ agg.snap.errors \in Nat /\ agg.snap.p95 \in Nat
  BY <1>0 DEF Snapshots
<1>4. CASE agg.i = 1
  <2>1. agg' = [pc |-> "load", i |-> 2,
                snap |-> [t |-> agg.snap.t, hits |-> counters["hit"], misses |-> agg.snap.misses,
                          errors |-> agg.snap.errors, p95 |-> agg.snap.p95]]
    BY <1>1, <1>2, <1>4
  <2> QED  BY <1>0, <1>3, <1>4, <2>1 DEF SnapInv, SnapTypes, LoadedBelow, Snapshots
<1>5. CASE agg.i = 2
  <2>1. agg' = [pc |-> "load", i |-> 3,
                snap |-> [t |-> agg.snap.t, hits |-> agg.snap.hits, misses |-> counters["miss"],
                          errors |-> agg.snap.errors, p95 |-> agg.snap.p95]]
    BY <1>1, <1>2, <1>5
  <2> QED  BY <1>0, <1>3, <1>5, <2>1 DEF SnapInv, SnapTypes, LoadedBelow, Snapshots
<1>6. CASE agg.i = 3
  <2>1. agg' = [pc |-> "store", i |-> 4,
                snap |-> [t |-> agg.snap.t, hits |-> agg.snap.hits, misses |-> agg.snap.misses,
                          errors |-> counters["error"], p95 |-> p95]]
    BY <1>1, <1>2, <1>6
  <2> QED  BY <1>0, <1>3, <1>6, <2>1 DEF SnapInv, SnapTypes, LoadedBelow, Snapshots
<1> QED  BY <1>0, <1>4, <1>5, <1>6

\* Every step of the others leaves the aggregator alone.
LEMMA AggSteps ==
  ASSUME [Next]_vars
  PROVE  \/ AggBegin \/ AggLoad \/ AggStore
         \/ /\ UNCHANGED <<agg, windows, taken>>
            /\ \/ UNCHANGED <<counters, p95>>
               \/ \E k \in Kinds : RecordMetric(k)
               \/ RecordLatency
BY DEF Next, vars, Tick, RecordMetric, RecordLatency, AggNext, AmNext, EvaluateRules, TriggerAlert,
   ResolveAlert, Evaluating, CallBegin, CallRead, CallReturn, Calling

\* The zero snapshot, dated.
LEMMA ZeroSnapshot ==
  ASSUME NEW x \in Int
  PROVE  /\ NoSnapshot \in Snapshots
         /\ [NoSnapshot EXCEPT !.t = x] \in Snapshots /\ [NoSnapshot EXCEPT !.t = x].t = x
BY DEF NoSnapshot, Snapshots

\* The aggregator never has more in hand than the counters say.
LEMMA SnapInvHolds == Spec => []SnapInv
<1>1. Init => SnapInv
  <2> SUFFICES ASSUME Init PROVE SnapInv
    OBVIOUS
  <2>1. counters \in [Kinds -> Nat] /\ p95 \in Nat
    BY DEF Init
  <2>2. agg.pc = "idle" /\ agg.snap \in Snapshots
    <3>1. NoSnapshot \in Snapshots
      BY DEF NoSnapshot, Snapshots
    <3> QED  BY <3>1 DEF Init
  <2> QED  BY <2>1, <2>2 DEF SnapInv, SnapTypes, LoadedBelow
<1>2. SnapInv /\ AlertInv /\ [Next]_vars => SnapInv'
  <2> SUFFICES ASSUME SnapInv, AlertInv, [Next]_vars PROVE SnapInv'
    OBVIOUS
  <2>0. now \in Int
    BY DEF AlertInv, AlertTypes
  <2>1. CASE AggBegin
    <3>1. /\ agg'.pc = "load" /\ agg'.i = 1 /\ agg'.snap \in Snapshots
          /\ counters' = counters /\ p95' = p95
      BY <2>0, <2>1, ZeroSnapshot DEF AggBegin, Aggregating
    <3> QED  BY <3>1 DEF SnapInv, SnapTypes, LoadedBelow
  <2>2. CASE AggLoad
    BY <2>2, LoadStep
  <2>3. CASE AggStore
    BY <2>0, <2>3, ZeroSnapshot DEF AggStore, Aggregating, SnapInv, SnapTypes, LoadedBelow
  <2>4. CASE UNCHANGED <<agg, counters, p95>>
    BY <2>4 DEF SnapInv, SnapTypes, LoadedBelow
  <2>5. ASSUME NEW k \in Kinds, RecordMetric(k), UNCHANGED agg PROVE SnapInv'
    <3>1. counters' = [counters EXCEPT ![k] = @ + 1] /\ p95' = p95 /\ counters \in [Kinds -> Nat]
      BY <2>5 DEF RecordMetric, SnapInv, SnapTypes
    <3>2. counters' \in [Kinds -> Nat] /\ \A j \in Kinds : counters[j] <= counters'[j]
      BY <3>1
    <3>3. /\ counters["hit"] \in Nat /\ counters["miss"] \in Nat
          /\ counters'["hit"] \in Nat /\ counters'["miss"] \in Nat
          /\ counters["hit"] <= counters'["hit"] /\ counters["miss"] <= counters'["miss"]
      BY <3>1, <3>2 DEF Kinds
    <3>4. agg.snap.hits \in Nat /\ agg.snap.misses \in Nat
      BY DEF SnapInv, SnapTypes, Snapshots
    <3>5. SnapTypes'
      BY <2>5, <3>1, <3>2 DEF SnapInv, SnapTypes
    <3>6. LoadedBelow'
      BY <2>5, <3>3, <3>4 DEF SnapInv, LoadedBelow
    <3> QED  BY <3>5, <3>6 DEF SnapInv
  <2>6. CASE RecordLatency /\ UNCHANGED agg
    <3>1. p95' \in Nat /\ counters' = counters
      BY <2>6, MonitoringAssumption DEF RecordLatency
    <3> QED  BY <2>6, <3>1 DEF SnapInv, SnapTypes, LoadedBelow
  <2> QED  BY <2>1, <2>2, <2>3, <2>4, <2>5, <2>6, AggSteps
<1> QED  BY <1>1, <1>2, AlertInvHolds, PTL DEF Spec

\* Products grow with their factors.
LEMMA ProductsGrow ==
  ASSUME NEW a \in Nat, NEW b \in Nat, NEW c \in Nat, a <= b
  PROVE  c * a <= c * b
<1> DEFINE d == b - a
<1>1. d \in Nat /\ b = a + d
  OBVIOUS
<1> HIDE DEF d
<1>2. c * (a + d) = c * a + c * d /\ c * a \in Nat /\ c * d \in Nat
  BY <1>1
<1> QED  BY <1>1, <1>2

(***************************************************************************)
(* A snapshot's hit rate is never above the real one when the misses are   *)
(* loaded, and its error rate never below the real one when the errors     *)
(* are (GetCounters, metrics.go), however much is recorded between the     *)
(* loads.                                                                  *)
(***************************************************************************)
THEOREM SnapshotsErrOnAlarm == Spec => SnapshotPessimistic
<1> DEFINE A == agg.pc = "load" /\ agg' # agg =>
       LET s == agg'.snap
           requests == counters["hit"] + counters["miss"] IN
       /\ agg.i = 2 => RateLeq(s.hits, Total(s), counters["hit"], requests)
       /\ agg.i = 3 /\ Total(s) > 0 =>
            RateLeq(counters["error"], requests, s.errors, Total(s))
<1>1. SnapInv /\ [Next]_vars => A
  <2> SUFFICES ASSUME SnapInv, [Next]_vars, agg.pc = "load", agg' # agg
               PROVE  LET s == agg'.snap
                          requests == counters["hit"] + counters["miss"] IN
                      /\ agg.i = 2 => RateLeq(s.hits, Total(s), counters["hit"], requests)
                      /\ agg.i = 3 /\ Total(s) > 0 =>
                           RateLeq(counters["error"], requests, s.errors, Total(s))
    OBVIOUS
  <2>1. AggLoad
    BY AggSteps DEF AggBegin, AggStore
  <2> DEFINE s == agg'.snap
             h == counters["hit"]
             m == counters["miss"]
             f == counters["error"]
  <2>2. h \in Nat /\ m \in Nat /\ f \in Nat
    BY DEF SnapInv, SnapTypes, Kinds
  <2>3. s.hits \in Nat /\ s.misses \in Nat
    BY <2>1, LoadStep DEF SnapInv, SnapTypes, Snapshots
  <2>4. ASSUME agg.i = 2 PROVE RateLeq(s.hits, Total(s), h, h + m)
    <3>1. s.hits <= h /\ s.misses = m
      BY <2>1, <2>4, LoadStep DEF SnapInv, LoadedBelow
    <3> DEFINE g == s.hits
    <3>2. g \in Nat /\ g <= h /\ Total(s) = g + m
      BY <2>3, <3>1 DEF Total
    <3> HIDE DEF g, h, m, s
    <3>3. m * g <= m * h
      BY <2>2, <3>2, ProductsGrow
    <3>4. g * (h + m) = h * g + m * g /\ h * (g + m) = h * g + m * h
      BY <2>2, <3>2
    <3>5. h * g \in Int /\ m * g \in Int /\ m * h \in Int
      BY <2>2, <3>2
    <3>6. g * (h + m) <= h * (g + m)
      BY <3>3, <3>4, <3>5
    <3>7. g + m = 0 \/ h + m # 0
      BY <2>2, <3>2
    <3> QED  BY <3>2, <3>6, <3>7 DEF RateLeq, g
  <2>5. ASSUME agg.i = 3, Total(s) > 0 PROVE RateLeq(f, h + m, s.errors, Total(s))
    <3>1. s.hits <= h /\ s.misses <= m /\ s.errors = f
      BY <2>1, <2>5, LoadStep DEF SnapInv, LoadedBelow
    <3> HIDE DEF h, m, s, f
    <3>2. Total(s) \in Nat /\ Total(s) <= h + m /\ h + m \in Nat
      BY <2>2, <2>3, <3>1 DEF Total
    <3>3. f * Total(s) <= f * (h + m)
      BY <2>2, <3>2, ProductsGrow
    <3> QED  BY <2>5, <3>1, <3>2, <3>3 DEF RateLeq
  <2> QED  BY <2>4, <2>5
<1>2. SnapInv /\ [Next]_vars => [A]_vars
  BY <1>1
<1> QED  BY <1>2, SnapInvHolds, PTL DEF Spec, SnapshotPessimistic

-----------------------------------------------------------------------------
(* Sliding windows. *)

Times == Nat

\* The times of the snapshots, in order; the one in hand is the newest.
TakenInOrder ==
  /\ taken \in Seq(Times)
  /\ \A i \in DOMAIN taken : taken[i] <= now
  /\ \A i, j \in DOMAIN taken : i <= j => taken[i] <= taken[j]
  /\ agg.pc \in {"load", "store"} =>
       /\ agg.snap.t \in Nat /\ agg.snap.t <= now
       /\ \A i \in DOMAIN taken : taken[i] <= agg.snap.t

\* A window is the last snapshots, as many as it has room for; c, w and k are its
\* capacity, its contents and the times of the snapshots.
Follows(c, w, k) ==
  /\ Len(w) = IF Len(k) > c THEN c ELSE Len(k)
  /\ \A j \in 0 .. Len(w) - 1 : w[Len(w) - j].t = k[Len(k) - j]

WindowsFollow ==
  /\ windows \in [Windows -> Seq(Snapshots)]
  /\ \A d \in Windows : Follows(Capacity(d), windows[d], taken)

WindowInv == TakenInOrder /\ WindowsFollow

\* A set of naturals has a least element.
LEMMA LeastOf ==
  ASSUME NEW T \in SUBSET Nat, T # {}
  PROVE  \E x \in T : \A y \in T : x <= y
<1> DEFINE Less == {p \in Nat \X Nat : p[1] < p[2]}
<1>1. OpToRel(<, Nat) = Less
  BY DEF OpToRel
<1>2. IsWellFoundedOn(Less, Nat)
  BY <1>1, NatLessThanWellFounded, Zenon
<1> HIDE DEF Less
<1>3. PICK x \in T : \A y \in T : ~ (<<y, x>> \in Less)
  BY <1>2, WFMin
<1>4. ASSUME NEW y \in T PROVE x <= y
  <2>1. x \in Nat /\ y \in Nat
    OBVIOUS
  <2>2. y < x => <<y, x>> \in Less
    BY <2>1 DEF Less
  <2> QED  BY <1>3, <2>1, <2>2
<1> QED  BY <1>4

\* The longest window, and the one that serves a request.
LEMMA WindowsAre ==
  /\ Longest \in Windows /\ Longest \in Nat /\ \A e \in Windows : e <= Longest
  /\ \A d \in 0 .. Longest : WindowFor(d) \in Windows /\ WindowFor(d) >= d
<1>1. Longest \in Windows /\ \A e \in Windows : e <= Longest
  BY MonitoringAssumption DEF Longest
<1>2. Windows \subseteq Nat
  BY MonitoringAssumption
<1>3. ASSUME NEW d \in 0 .. Longest
      PROVE  WindowFor(d) \in Windows /\ WindowFor(d) >= d
  <2> DEFINE T == {e \in Windows : e >= d}
  <2>0. Longest \in T
    <3>1. Longest \in Nat
      BY <1>1, <1>2
    <3> QED  BY <1>1, <3>1
  <2>1. T \in SUBSET Nat /\ T # {}
    BY <1>2, <2>0
  <2> HIDE DEF T
  <2>2. \E x \in T : \A y \in T : x <= y
    BY <2>1, LeastOf
  <2> USE DEF T
  <2>3. \E x \in Windows : x >= d /\ \A e \in Windows : e >= d => x <= e
    BY <2>2
  <2> QED  BY <2>3 DEF WindowFor
<1> QED  BY <1>1, <1>2, <1>3

\* All but the newest of t were the newest of s before.
Shifted(t, s) ==
  \A j \in 1 .. Len(t) - 1 : j - 1 \in 0 .. Len(s) - 1 /\ t[Len(t) - j] = s[Len(s) - (j - 1)]

\* AppendNewest, counted from the end.
LEMMA PushedFromEnd ==
  ASSUME NEW S, NEW s \in Seq(S), NEW x \in S, NEW n \in Nat \ {0},
         NEW t \in Seq(S), t = Pushed(s, x, n)
  PROVE  t[Len(t) - 0] = x /\ Shifted(t, s)
<1>0. Len(s) \in Nat
  OBVIOUS
<1>1. /\ Len(t) \in Nat \ {0}
      /\ Len(t) = (IF Len(s) + 1 > n THEN n ELSE Len(s) + 1)
  BY AppendNewest
<1>2. t[Len(t)] = x
  BY AppendNewest
<1>3. \A i \in 1 .. Len(t) - 1 : t[i] = s[Len(s) + 1 - Len(t) + i]
  BY AppendNewest
<1>4. ASSUME NEW j \in 1 .. Len(t) - 1
      PROVE  j - 1 \in 0 .. Len(s) - 1 /\ t[Len(t) - j] = s[Len(s) - (j - 1)]
  <2> DEFINE i == Len(t) - j
  <2>1. i \in 1 .. Len(t) - 1 /\ Len(s) + 1 - Len(t) + i = Len(s) - (j - 1)
    BY <1>0, <1>1
  <2>2. t[i] = s[Len(s) - (j - 1)]
    BY <1>3, <2>1
  <2>3. j - 1 \in 0 .. Len(s) - 1
    BY <1>0, <1>1
  <2> QED  BY <2>2, <2>3
<1>5. Len(t) - 0 = Len(t)
  BY <1>1
<1> QED  BY <1>2, <1>4, <1>5 DEF Shifted

\* A snapshot put into a window and its time into the list of times.
LEMMA FollowsStays ==
  ASSUME NEW c \in Nat \ {0}, NEW b \in Nat \ {0}, c <= b,
         NEW w \in Seq(Snapshots), NEW k \in Seq(Times), Follows(c, w, k),
         NEW x \in Snapshots, NEW y \in Times,
         NEW v \in Seq(Snapshots), v = Pushed(w, x, c),
         NEW m \in Seq(Times), m = Pushed(k, y, b)
  PROVE  x.t = y => Follows(c, v, m)
<1>0. /\ Len(w) \in Nat /\ Len(k) \in Nat
      /\ Len(w) = IF Len(k) > c THEN c ELSE Len(k)
  BY DEF Follows
<1>1. Len(v) = IF Len(w) + 1 > c THEN c ELSE Len(w) + 1
  BY <1>0, AppendNewest
<1>2. Len(m) = IF Len(k) + 1 > b THEN b ELSE Len(k) + 1
  BY <1>0, AppendNewest
<1>3. Len(v) = IF Len(m) > c THEN c ELSE Len(m)
  BY <1>0, <1>1, <1>2
<1>4. Len(v) \in Nat /\ Len(m) \in Nat /\ Len(v) <= Len(m)
  BY <1>0, <1>1, <1>2, <1>3
<1>5. v[Len(v) - 0] = x
  BY <1>0, PushedFromEnd
<1>6. m[Len(m) - 0] = y
  BY <1>0, PushedFromEnd
<1>7. Shifted(v, w)
  BY PushedFromEnd
<1>8. Shifted(m, k)
  BY PushedFromEnd
<1>9. ASSUME x.t = y, NEW j \in 0 .. Len(v) - 1
      PROVE  v[Len(v) - j].t = m[Len(m) - j]
  <2>1. CASE j = 0
    BY <1>5, <1>6, <1>9, <2>1
  <2>2. CASE j # 0
    <3>1. j \in 1 .. Len(v) - 1 /\ j \in 1 .. Len(m) - 1
      BY <1>4, <2>2
    <3>2. w[Len(w) - (j - 1)].t = k[Len(k) - (j - 1)]
      BY <1>7, <3>1 DEF Follows, Shifted
    <3>3. v[Len(v) - j] = w[Len(w) - (j - 1)]
      BY <1>7, <3>1 DEF Shifted
    <3>4. m[Len(m) - j] = k[Len(k) - (j - 1)]
      BY <1>8, <3>1 DEF Shifted
    <3> QED  BY <3>2, <3>3, <3>4
  <2> QED  BY <2>1, <2>2
<1> QED  BY <1>3, <1>9 DEF Follows

\* A window has room for one snapshot at least, the longest for the most.
LEMMA Capacities ==
  /\ \A d \in Windows : Capacity(d) \in Nat \ {0} /\ Capacity(d) <= Capacity(Longest)
  /\ Capacity(Longest) \in Nat \ {0}
<1>1. Windows \subseteq Nat
  BY MonitoringAssumption
<1> QED  BY <1>1, WindowsAre DEF Capacity

\* A snapshot is stored.
LEMMA StoreStep ==
  ASSUME WindowInv, SnapInv, AlertInv, AggStore
  PROVE  WindowInv'
<1> DEFINE x == agg.snap
           y == agg.snap.t
<1>0. /\ x \in Snapshots /\ y \in Times /\ y \in Nat /\ y <= now /\ now \in Nat
      /\ taken \in Seq(Times) /\ Len(taken) \in Nat /\ DOMAIN taken = 1 .. Len(taken)
      /\ agg'.pc = "idle" /\ now' = now
      /\ \A i \in DOMAIN taken : taken[i] <= y
  BY DEF WindowInv, TakenInOrder, SnapInv, SnapTypes, AlertInv, AlertTypes, AggStore, Aggregating,
     Times
<1>1. taken' = Pushed(taken, y, Capacity(Longest))
  BY DEF AggStore, Pushed, Capacity
<1>2. windows' = [d \in Windows |-> Pushed(windows[d], x, Capacity(d))]
  BY DEF AggStore, Added, Pushed
<1> HIDE DEF x, y
<1>3. taken' \in Seq(Times) /\ Capacity(Longest) \in Nat \ {0} /\ Capacity(Longest) \in Nat
  BY <1>0, <1>1, PushedType, Capacities
<1> DEFINE n == Len(taken')
<1>4. n \in Nat \ {0} /\ taken'[n] = y
  BY <1>0, <1>1, <1>3, AppendNewest
<1>5. \A i \in 1 .. n - 1 :
        /\ Len(taken) + 1 - n + i \in 1 .. Len(taken)
        /\ taken'[i] = taken[Len(taken) + 1 - n + i]
  BY <1>0, <1>1, <1>3, AppendNewest
<1>6. DOMAIN taken' = 1 .. n
  BY <1>3
<1> HIDE DEF n
\* Every time but the last was there before.
<1>7. ASSUME NEW i \in DOMAIN taken', i # n
      PROVE  \E k \in DOMAIN taken : k = Len(taken) + 1 - n + i /\ taken'[i] = taken[k]
  <2>1. i \in 1 .. n - 1
    BY <1>4, <1>6, <1>7
  <2> QED  BY <1>0, <1>5, <2>1
<1>8. ASSUME NEW i \in DOMAIN taken' PROVE taken'[i] <= y
  <2>1. CASE i = n
    BY <1>0, <1>4, <2>1
  <2>2. CASE i # n
    BY <1>0, <1>7, <2>2
  <2> QED  BY <2>1, <2>2
<1>9. ASSUME NEW i \in DOMAIN taken', NEW j \in DOMAIN taken', i <= j
      PROVE  taken'[i] <= taken'[j]
  <2>1. CASE j = n
    BY <1>4, <1>8, <2>1
  <2>2. CASE j # n
    <3>0. i \in Int /\ j \in Int /\ n \in Int /\ i # n /\ Len(taken) \in Int
      BY <1>0, <1>4, <1>6, <1>9, <2>2
    <3>1. PICK k \in DOMAIN taken : k = Len(taken) + 1 - n + i /\ taken'[i] = taken[k]
      BY <1>7, <3>0
    <3>2. PICK l \in DOMAIN taken : l = Len(taken) + 1 - n + j /\ taken'[j] = taken[l]
      BY <1>7, <2>2
    <3>3. k <= l
      BY <1>9, <3>0, <3>1, <3>2
    <3> QED  BY <3>1, <3>2, <3>3 DEF WindowInv, TakenInOrder
  <2> QED  BY <2>1, <2>2
<1>10. TakenInOrder'
  <2>1. \A i \in DOMAIN taken' : taken'[i] <= now
    <3> SUFFICES ASSUME NEW i \in DOMAIN taken' PROVE taken'[i] <= now
      OBVIOUS
    <3>1. taken'[i] \in Nat
      BY <1>3 DEF Times
    <3> QED  BY <1>0, <1>8, <3>1
  <2> QED  BY <1>0, <1>3, <1>9, <2>1 DEF TakenInOrder
<1>11. ASSUME NEW d \in Windows
       PROVE  windows'[d] \in Seq(Snapshots) /\ Follows(Capacity(d), windows'[d], taken')
  <2> DEFINE c == Capacity(d)
             b == Capacity(Longest)
             w == windows[d]
             v == windows'[d]
  <2>1. /\ c \in Nat \ {0} /\ c \in Nat /\ b \in Nat \ {0} /\ c <= b
        /\ w \in Seq(Snapshots) /\ Follows(c, w, taken)
    BY Capacities DEF WindowInv, WindowsFollow
  <2>2. v = Pushed(w, x, c) /\ taken' = Pushed(taken, y, b)
    BY <1>1, <1>2
  <2> HIDE DEF c, b, w, v
  <2>3. v \in Seq(Snapshots)
    BY <1>0, <2>1, <2>2, PushedType
  <2>4. x.t = y
    BY DEF x, y
  <2>5. Follows(c, v, taken')
    BY <1>0, <1>3, <2>1, <2>2, <2>3, <2>4, FollowsStays
  <2> QED  BY <2>3, <2>5 DEF c, v
<1>12. WindowsFollow'
  <2>1. windows' \in [Windows -> Seq(Snapshots)]
    BY <1>2, <1>11
  <2> QED  BY <1>11, <2>1 DEF WindowsFollow
<1> QED  BY <1>10, <1>12 DEF WindowInv

\* The windows hold the last snapshots, in every state.
LEMMA WindowInvHolds == Spec => []WindowInv
<1>1. Init => WindowInv
  <2> SUFFICES ASSUME Init PROVE WindowInv
    OBVIOUS
  <2>1. taken = << >> /\ agg.pc = "idle" /\ windows = [d \in Windows |-> << >>]
    BY DEF Init
  <2>2. TakenInOrder
    BY <2>1 DEF TakenInOrder
  <2>3. ASSUME NEW d \in Windows PROVE Follows(Capacity(d), windows[d], taken)
    BY <2>1, Capacities DEF Follows
  <2>4. windows \in [Windows -> Seq(Snapshots)]
    BY <2>1
  <2> QED  BY <2>2, <2>3, <2>4 DEF WindowInv, WindowsFollow
<1>2. WindowInv /\ SnapInv /\ AlertInv /\ [Next]_vars => WindowInv'
  <2> SUFFICES ASSUME WindowInv, SnapInv, AlertInv, [Next]_vars PROVE WindowInv'
    OBVIOUS
  <2>0. now \in Nat /\ now' \in Nat /\ now <= now'
    BY AlertSteps DEF AlertInv, AlertTypes, Tick, TriggerAlert, ResolveAlert, Evaluating
  <2>1. CASE AggStore
    BY <2>1, StoreStep
  <2>2. CASE UNCHANGED <<windows, taken>> /\ (AggBegin \/ AggLoad \/ UNCHANGED agg)
    <3>1. \A i \in DOMAIN taken : taken[i] \in Nat /\ taken[i] <= now
      BY DEF WindowInv, TakenInOrder, Times
    <3>2. \A i \in DOMAIN taken : taken[i] <= now'
      BY <2>0, <3>1
    <3>3. agg'.pc \in {"load", "store"} =>
            /\ agg'.snap.t \in Nat /\ agg'.snap.t <= now'
            /\ \A i \in DOMAIN taken : taken[i] <= agg'.snap.t
      <4>1. CASE AggBegin
        <5>1. agg'.snap.t = now
          BY <4>1 DEF AggBegin, NoSnapshot
        <5> QED  BY <2>0, <3>1, <5>1
      <4>2. CASE AggLoad
        BY <2>0, <4>2, LoadStep DEF WindowInv, TakenInOrder, AggLoad
      <4>3. CASE UNCHANGED agg
        BY <2>0, <4>3 DEF WindowInv, TakenInOrder
      <4> QED  BY <2>2, <4>1, <4>2, <4>3
    <3>4. TakenInOrder'
      BY <2>2, <3>2, <3>3 DEF WindowInv, TakenInOrder
    <3>5. WindowsFollow'
      BY <2>2 DEF WindowInv, WindowsFollow
    <3> QED  BY <3>4, <3>5 DEF WindowInv
  <2> QED  BY <2>1, <2>2, AggSteps DEF AggBegin, AggLoad
<1> QED  BY <1>1, <1>2, SnapInvHolds, AlertInvHolds, PTL DEF Spec

\* The last m snapshots are of the last d seconds, if there are m such snapshots.
LEMMA LastAreRecent ==
  ASSUME WindowInv, now \in Nat, NEW d \in Nat, NEW m \in Nat,
         m <= Cardinality({i \in DOMAIN taken : taken[i] >= now - d})
  PROVE  /\ m <= Len(taken)
         /\ \A j \in 0 .. m - 1 : taken[Len(taken) - j] \in now - d .. now
<1> DEFINE A == {i \in DOMAIN taken : taken[i] >= now - d}
           L == Len(taken)
<1>0. /\ L \in Nat /\ DOMAIN taken = 1 .. L
      /\ \A i \in 1 .. L : taken[i] \in Nat /\ taken[i] <= now
      /\ \A i, j \in 1 .. L : i <= j => taken[i] <= taken[j]
  BY DEF WindowInv, TakenInOrder, Times
<1>1. \A a, b \in Int : /\ IsFiniteSet(a .. b)
                        /\ Cardinality(a .. b) = IF a > b THEN 0 ELSE b - a + 1
  BY FS_Interval
<1>2. \A a, b \in Int : A \subseteq a .. b => Cardinality(A) <= IF a > b THEN 0 ELSE b - a + 1
  <2> SUFFICES ASSUME NEW a \in Int, NEW b \in Int, A \subseteq a .. b
               PROVE  Cardinality(A) <= IF a > b THEN 0 ELSE b - a + 1
    OBVIOUS
  <2>1. Cardinality(A) <= Cardinality(a .. b)
    BY <1>1, FS_Subset
  <2> QED  BY <1>1, <2>1
<1>3. A \subseteq 1 .. L
  BY <1>0
<1>4. IsFiniteSet(A) /\ Cardinality(A) \in Nat
  <2>1. IsFiniteSet(1 .. L)
    BY <1>0, <1>1
  <2>2. IsFiniteSet(A)
    BY <1>3, <2>1, FS_Subset
  <2> QED  BY <2>2, FS_CardinalityType
<1>5. m <= Cardinality(A)
  OBVIOUS
<1> HIDE DEF L
<1>6. m <= L
  <2>1. Cardinality(A) <= IF 1 > L THEN 0 ELSE L - 1 + 1
    BY <1>0, <1>2, <1>3
  <2> QED  BY <1>0, <1>4, <1>5, <2>1
<1>7. ASSUME NEW j \in 0 .. m - 1
      PROVE  taken[L - j] \in now - d .. now
  <2>1. L - j \in 1 .. L
    BY <1>0, <1>6
  <2>2. taken[L - j] \in Nat /\ taken[L - j] <= now
    BY <1>0, <2>1
  <2>3. taken[L - j] >= now - d
    <3> SUFFICES ASSUME ~ (taken[L - j] >= now - d) PROVE FALSE
      OBVIOUS
    <3>1. ASSUME NEW i \in A PROVE i \in L - j + 1 .. L
      <4>1. i \in 1 .. L /\ taken[i] >= now - d /\ taken[i] \in Nat
        BY <1>0
      <4>2. ~ (i <= L - j)
        BY <1>0, <2>1, <2>2, <4>1
      <4> QED  BY <1>0, <4>1, <4>2
    <3>2. A \subseteq L - j + 1 .. L /\ L - j + 1 \in Int /\ L \in Int
      BY <1>0, <3>1
    <3> HIDE DEF A
    <3>3. Cardinality(A) <= IF L - j + 1 > L THEN 0 ELSE L - (L - j + 1) + 1
      BY <1>2, <3>2
    <3>4. (IF L - j + 1 > L THEN 0 ELSE L - (L - j + 1) + 1) = j
      BY <1>0
    <3> QED  BY <1>4, <1>5, <3>3, <3>4
  <2> QED  BY <2>2, <2>3
<1> QED  BY <1>6, <1>7 DEF L

(***************************************************************************)
(* GetStats of the last d seconds finds every snapshot of these seconds in *)
(* the window that serves it, up to d + 1 (SlidingWindow.Add and GetRange, *)
(* aggregator.go), for any set of windows.                                 *)
(***************************************************************************)
THEOREM WindowsCoverTheirSeconds == Spec => []WindowCovers
<1>1. WindowInv /\ AlertInv => WindowCovers
  <2> SUFFICES ASSUME WindowInv, AlertInv, NEW d \in 0 .. Longest
               PROVE  Cardinality(GetRange(WindowFor(d), now - d, now))
                        >= LET n == Cardinality({i \in DOMAIN taken : taken[i] >= now - d})
                           IN IF n > d + 1 THEN d + 1 ELSE n
    BY DEF WindowCovers
  <2> DEFINE n == Cardinality({i \in DOMAIN taken : taken[i] >= now - d})
             m == IF n > d + 1 THEN d + 1 ELSE n
             w == windows[WindowFor(d)]
             G == GetRange(WindowFor(d), now - d, now)
  <2>0. now \in Nat /\ d \in Nat
    BY WindowsAre DEF AlertInv, AlertTypes
  <2>1. WindowFor(d) \in Windows /\ WindowFor(d) >= d /\ WindowFor(d) \in Nat
    BY WindowsAre, MonitoringAssumption
  <2>2. n \in Nat
    <3>1. IsFiniteSet(DOMAIN taken)
      <4>1. DOMAIN taken = 1 .. Len(taken) /\ Len(taken) \in Int
        BY DEF WindowInv, TakenInOrder
      <4> QED  BY <4>1, FS_Interval
    <3>2. IsFiniteSet({i \in DOMAIN taken : taken[i] >= now - d})
      BY <3>1, FS_Subset
    <3> QED  BY <3>2, FS_CardinalityType
  <2>3. m \in Nat /\ m <= n /\ m <= d + 1
    BY <2>0, <2>2
  <2>4. /\ m <= Len(taken)
        /\ \A j \in 0 .. m - 1 : taken[Len(taken) - j] \in now - d .. now
    BY <2>0, <2>3, LastAreRecent
  <2> HIDE DEF n, m
  <2>5. /\ w \in Seq(Snapshots) /\ Len(w) \in Nat /\ DOMAIN w = 1 .. Len(w)
        /\ Len(w) = IF Len(taken) > Capacity(WindowFor(d)) THEN Capacity(WindowFor(d)) ELSE Len(taken)
        /\ \A j \in 0 .. Len(w) - 1 : w[Len(w) - j].t = taken[Len(taken) - j]
    BY <2>1, SMTT(30) DEF WindowInv, WindowsFollow, Follows
  <2>6. m <= Len(w)
    BY <2>0, <2>1, <2>3, <2>4, <2>5 DEF Capacity
  <2>7. G = {i \in DOMAIN w : w[i].t \in now - d .. now}
    BY DEF GetRange
  <2> HIDE DEF w, G
  <2>8. ASSUME NEW i \in Len(w) - m + 1 .. Len(w) PROVE i \in G
    <3> DEFINE j == Len(w) - i
    <3>1. j \in 0 .. m - 1 /\ j \in 0 .. Len(w) - 1 /\ i = Len(w) - j /\ i \in DOMAIN w
      BY <2>3, <2>5, <2>6
    <3>2. w[i].t \in now - d .. now
      BY <2>4, <2>5, <3>1
    <3> QED  BY <2>7, <3>1, <3>2
  <2>9. IsFiniteSet(G)
    <3>1. G \subseteq 1 .. Len(w) /\ IsFiniteSet(1 .. Len(w))
      BY <2>5, <2>7, FS_Interval, SMTT(30)
    <3> QED  BY <3>1, FS_Subset
  <2> DEFINE a == Len(w) - m + 1
             b == Len(w)
  <2>10. a \in Int /\ b \in Int /\ (IF a > b THEN 0 ELSE b - a + 1) = m
    BY <2>3, <2>5, SMTT(30)
  <2>11. a .. b \subseteq G
    BY <2>8
  <2> HIDE DEF a, b
  <2>12. Cardinality(a .. b) = m
    BY <2>10, FS_Interval
  <2>13. Cardinality(a .. b) <= Cardinality(G)
    BY <2>9, <2>11, FS_Subset
  <2>14. Cardinality(G) \in Nat
    BY <2>9, FS_CardinalityType
  <2>15. Cardinality(G) >= m
    BY <2>3, <2>12, <2>13, <2>14
  <2> QED  BY <2>15 DEF G, m, n
<1> QED  BY <1>1, WindowInvHolds, AlertInvHolds, PTL

=============================================================================

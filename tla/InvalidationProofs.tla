------------------------- MODULE InvalidationProofs --------------------------
(***************************************************************************)
(* Proofs about Invalidation, for any requests, keys, instances and page   *)
(* size: the audit log tells the truth, paging through it skips nothing,   *)
(* and the L1s agree with the pattern matcher.                             *)
(***************************************************************************)
EXTENDS Invalidation, FiniteSetTheorems, TLAPS

-----------------------------------------------------------------------------
(* The inductive invariant. *)

Types ==
  /\ clock \in Nat /\ cleaned \in Nat
  /\ time \in [Requests -> Nat]
  /\ phase \in [Requests -> {"new", "published", "failed"}]
  /\ audit \in [Requests -> {"none", "running", "done", "refused", "lost"}]
  /\ rows \subseteq Requests /\ IsFiniteSet(rows)
  /\ store \in [Nodes -> SUBSET Keys] /\ handled \in [Nodes -> SUBSET Requests]

\* An audit goroutine exists only for a published event, and only it writes.
RecordsArePublished ==
  /\ \A r \in Requests : audit[r] # "none" => phase[r] = "published"
  /\ \A r \in rows : audit[r] = "done"

\* ON CONFLICT DO NOTHING keeps one record of a request id.
UniqueIds == \A q, r \in rows : q.id = r.id => q = r

\* A request that was recorded is found, or the record found in its place was
\* older than a cutoff of Cleanup.
RecordedOrCleaned ==
  \A r \in Requests : audit[r] = "done" =>
    \/ \E q \in rows : q.id = r.id
    \/ \E q \in Requests : q.id = r.id /\ audit[q] = "done" /\ time[q] < cleaned

LogInv == Types /\ RecordsArePublished /\ UniqueIds /\ RecordedOrCleaned

\* What the client has not seen of the records that were there when it began lies
\* at or beyond its offset; at the end nothing is left.
PagerInv ==
  /\ pager \in [pc : {"idle", "more", "end"}, offset : Nat, seen : SUBSET Requests,
                due : SUBSET Requests]
  /\ \A r \in pager.due : audit[r] = "done"
  /\ pager.pc = "more" =>
       \A r \in (pager.due \cap rows) \ pager.seen : Rank(r) >= pager.offset
  /\ PagingComplete

\* Instances handle published events only.
HandledArePublished == \A n \in Nodes : \A r \in handled[n] : phase[r] = "published"

-----------------------------------------------------------------------------
(* The audit log. *)

\* Init: an empty table.
LEMMA LogInit ==
  ASSUME Init
  PROVE  LogInv
BY FS_EmptySet DEF Init, LogInv, Types, RecordsArePublished, UniqueIds, RecordedOrCleaned

\* Publish gives a timestamp to a request that has no record yet.
LEMMA LogPublish ==
  ASSUME LogInv, NEW r \in Requests, Publish(r)
  PROVE  LogInv'
<1>. USE DEF Publish, nodeVars
<1>0. audit[r] = "none" BY DEF LogInv, Types, RecordsArePublished
<1>1. Types' BY DEF LogInv, Types
<1>2. RecordsArePublished' BY <1>0 DEF LogInv, Types, RecordsArePublished
<1>3. UniqueIds' BY DEF LogInv, UniqueIds
<1>4. RecordedOrCleaned' BY <1>0 DEF LogInv, Types, RecordedOrCleaned
<1>. QED BY <1>1, <1>2, <1>3, <1>4 DEF LogInv

\* A failed publication starts no goroutine.
LEMMA LogPublishFails ==
  ASSUME LogInv, NEW r \in Requests, PublishFails(r)
  PROVE  LogInv'
<1>. USE DEF PublishFails, nodeVars
<1>1. Types' BY DEF LogInv, Types
<1>2. RecordsArePublished' BY DEF LogInv, Types, RecordsArePublished
<1>3. UniqueIds' BY DEF LogInv, UniqueIds
<1>4. RecordedOrCleaned' BY DEF LogInv, RecordedOrCleaned
<1>. QED BY <1>1, <1>2, <1>3, <1>4 DEF LogInv

\* Insert adds a record unless one with its id is there.
LEMMA LogInsert ==
  ASSUME LogInv, NEW r \in Requests, Insert(r)
  PROVE  LogInv'
<1>. USE DEF Insert, nodeVars
<1>1. IsFiniteSet(rows') /\ rows' \subseteq Requests
  BY FS_AddElement DEF LogInv, Types
<1>2. Types' BY <1>1 DEF LogInv, Types
<1>3. RecordsArePublished' BY DEF LogInv, Types, RecordsArePublished
<1>4. UniqueIds' BY DEF LogInv, UniqueIds
<1>5. RecordedOrCleaned'
  <2>. SUFFICES ASSUME NEW s \in Requests, audit'[s] = "done"
                PROVE  \/ \E q \in rows' : q.id = s.id
                       \/ \E q \in Requests : q.id = s.id /\ audit'[q] = "done" /\ time'[q] < cleaned'
    BY DEF RecordedOrCleaned
  <2>1. CASE s = r BY <2>1
  <2>2. CASE s # r
    <3>1. audit[s] = "done" BY <2>2 DEF LogInv, Types
    <3>2. CASE \E q \in rows : q.id = s.id BY <3>2
    <3>3. CASE \E q \in Requests : q.id = s.id /\ audit[q] = "done" /\ time[q] < cleaned
      BY <3>3 DEF LogInv, Types
    <3>. QED BY <3>1, <3>2, <3>3 DEF LogInv, RecordedOrCleaned
  <2>. QED BY <2>1, <2>2
<1>. QED BY <1>2, <1>3, <1>4, <1>5 DEF LogInv

\* A refused record, or a crash: the goroutine ends without a record.
LEMMA LogGoroutineEnds ==
  ASSUME LogInv, Crash \/ (\E r \in Requests : InsertFails(r))
  PROVE  LogInv'
<1>. USE DEF Crash, InsertFails, nodeVars
<1>1. UNCHANGED <<clock, time, phase, rows, cleaned, nodeVars>>
  OBVIOUS
<1>2. /\ audit' \in [Requests -> {"none", "running", "done", "refused", "lost"}]
      /\ \A r \in Requests : /\ audit'[r] = "done" <=> audit[r] = "done"
                             /\ audit'[r] = "none" <=> audit[r] = "none"
  BY DEF LogInv, Types
<1>. HIDE DEF Crash, InsertFails
<1>3. Types' BY <1>1, <1>2 DEF LogInv, Types
<1>4. RecordsArePublished' BY <1>1, <1>2 DEF LogInv, Types, RecordsArePublished
<1>5. UniqueIds' BY <1>1 DEF LogInv, UniqueIds
<1>6. RecordedOrCleaned' BY <1>1, <1>2 DEF LogInv, RecordedOrCleaned
<1>. QED BY <1>3, <1>4, <1>5, <1>6 DEF LogInv

\* Cleanup takes the records older than its cutoff.
LEMMA LogCleanup ==
  ASSUME LogInv, NEW cutoff \in 1 .. clock, Cleanup(cutoff)
  PROVE  LogInv'
<1>. USE DEF Cleanup, serviceVars, nodeVars
<1>0. clock \in Nat /\ cutoff \in Nat BY DEF LogInv, Types
<1>1. IsFiniteSet(rows') BY FS_Subset DEF LogInv, Types
<1>2. Types' BY <1>0, <1>1 DEF LogInv, Types
<1>3. RecordsArePublished' BY DEF LogInv, RecordsArePublished
<1>4. UniqueIds' BY DEF LogInv, UniqueIds
<1>5. cleaned' >= cleaned /\ cleaned' >= cutoff BY <1>0 DEF LogInv, Types
<1>6. RecordedOrCleaned'
  <2>. SUFFICES ASSUME NEW s \in Requests, audit[s] = "done"
                PROVE  \/ \E q \in rows' : q.id = s.id
                       \/ \E q \in Requests : q.id = s.id /\ audit[q] = "done" /\ time[q] < cleaned'
    BY DEF RecordedOrCleaned
  <2>1. ASSUME NEW q \in rows, q.id = s.id
        PROVE  \/ q \in rows'
               \/ q \in Requests /\ audit[q] = "done" /\ time[q] < cleaned'
    <3>1. q \in Requests /\ audit[q] = "done" /\ time[q] \in Nat
      BY DEF LogInv, Types, RecordsArePublished
    <3>. QED BY <1>0, <1>5, <2>1, <3>1 DEF LogInv, Types
  <2>2. ASSUME NEW q \in Requests, q.id = s.id, audit[q] = "done", time[q] < cleaned
        PROVE  time[q] < cleaned'
    BY <1>5, <1>2, <2>2 DEF LogInv, Types
  <2>. QED BY <2>1, <2>2 DEF LogInv, RecordedOrCleaned
<1>. QED BY <1>2, <1>3, <1>4, <1>6 DEF LogInv

\* The readers, and the instances of the cache-manager, leave the log alone.
LEMMA LogElsewhere ==
  ASSUME LogInv,
         \/ \E r \in Requests, n \in Nodes : HandleInvalidateEvent(n, r)
         \/ FirstPage \/ NextPage \/ UNCHANGED vars
  PROVE  LogInv'
<1>1. UNCHANGED <<clock, time, phase, audit, rows, cleaned>>
  BY DEF HandleInvalidateEvent, FirstPage, NextPage, vars, serviceVars
<1>2. store' \in [Nodes -> SUBSET Keys] /\ handled' \in [Nodes -> SUBSET Requests]
  BY DEF LogInv, Types, HandleInvalidateEvent, FirstPage, NextPage, vars, nodeVars
<1>3. Types' BY <1>1, <1>2 DEF LogInv, Types
<1>. QED BY <1>1, <1>3 DEF LogInv, RecordsArePublished, UniqueIds, RecordedOrCleaned

\* The invariant of the log, step by step.
LEMMA LogStep ==
  ASSUME LogInv, [Next]_vars
  PROVE  LogInv'
BY LogPublish, LogPublishFails, LogInsert, LogGoroutineEnds, LogCleanup, LogElsewhere DEF Next

\* Two different records never have the same id.
LEMMA OneRecord ==
  ASSUME LogInv, NEW i
  PROVE  Cardinality(GetByRequestID(i)) <= 1
<1>1. CASE GetByRequestID(i) = {} BY <1>1, FS_EmptySet
<1>2. CASE GetByRequestID(i) # {}
  <2>1. PICK r : r \in GetByRequestID(i) BY <1>2
  <2>2. GetByRequestID(i) = {r} BY <2>1 DEF GetByRequestID, LogInv, UniqueIds
  <2>. QED BY <2>2, FS_Singleton
<1>. QED BY <1>1, <1>2

(***************************************************************************)
(* The audit log never tells of an invalidation that was not broadcast,    *)
(* holds one record of a request id, and keeps what it recorded until a    *)
(* Cleanup that takes everything as old.                                   *)
(***************************************************************************)
THEOREM AuditLogTellsTheTruth == Spec => []AuditMatchesPublished
<1>1. Init => LogInv BY LogInit
<1>2. LogInv /\ [Next]_vars => LogInv' BY LogStep
<1>3. LogInv => AuditMatchesPublished
  <2>. SUFFICES ASSUME LogInv PROVE AuditMatchesPublished
    OBVIOUS
  <2>1. \A r \in rows : phase[r] = "published" /\ audit[r] = "done"
    BY DEF LogInv, Types, RecordsArePublished
  <2>2. \A r \in Requests : Cardinality(GetByRequestID(r.id)) <= 1 BY OneRecord
  <2>3. \A r \in Requests : audit[r] = "done" =>
          \/ GetByRequestID(r.id) # {}
          \/ \E q \in Requests : q.id = r.id /\ audit[q] = "done" /\ time[q] < cleaned
    BY DEF LogInv, RecordedOrCleaned, GetByRequestID
  <2>. QED BY <2>1, <2>2, <2>3 DEF AuditMatchesPublished
<1>. QED BY <1>1, <1>2, <1>3, PTL DEF Spec

-----------------------------------------------------------------------------
(* The paging client. *)

\* A rank is the number of newer records, so it never falls when records come in.
LEMMA RankGrows ==
  ASSUME Types, Types', rows \subseteq rows', NEW r \in rows,
         \A q \in rows : time'[q] = time[q]
  PROVE  Rank(r)' >= Rank(r)
<1>. DEFINE A == {q \in rows : time[q] > time[r]}
            B == {q \in rows' : time'[q] > time'[r]}
<1>1. IsFiniteSet(B) BY FS_Subset DEF Types
<1>2. A \subseteq B OBVIOUS
<1>3. Cardinality(A) \in Nat /\ Cardinality(B) \in Nat /\ Cardinality(A) <= Cardinality(B)
  BY <1>1, <1>2, FS_Subset, FS_CardinalityType
<1>. QED BY <1>3 DEF Rank

\* A rank is a number.
LEMMA RankType ==
  ASSUME Types, NEW r
  PROVE  Rank(r) \in Nat
<1>1. IsFiniteSet({q \in rows : time[q] > time[r]}) BY FS_Subset DEF Types
<1>. QED BY <1>1, FS_CardinalityType DEF Rank

\* What other steps do to the table: records stay with their timestamps and ranks,
\* or move back because newer ones came in, and no cleaned record returns.
LEMMA PagerElsewhere ==
  ASSUME PagerInv, UNCHANGED pager,
         \A r \in pager.due : audit'[r] = "done",
         pager.due \cap rows' \subseteq rows,
         \A r \in pager.due \cap rows' : Rank(r)' >= Rank(r),
         Types, Types'
  PROVE  PagerInv'
<1>1. \A r : Rank(r) \in Nat BY RankType
<1>2. \A r : Rank(r)' \in Nat
  <2>1. ASSUME NEW r PROVE Cardinality({q \in rows' : time'[q] > time'[r]}) \in Nat
    BY FS_Subset, FS_CardinalityType DEF Types
  <2>. QED BY <2>1 DEF Rank
<1>3. (pager.pc = "more" =>
        \A r \in (pager.due \cap rows) \ pager.seen : Rank(r) >= pager.offset)'
  <2>. SUFFICES ASSUME pager.pc = "more", NEW r \in (pager.due \cap rows') \ pager.seen
                PROVE  Rank(r)' >= pager.offset
    OBVIOUS
  <2>1. Rank(r) >= pager.offset BY DEF PagerInv
  <2>2. Rank(r)' >= Rank(r) OBVIOUS
  <2>. HIDE DEF Rank
  <2>. QED BY <1>1, <1>2, <2>1, <2>2 DEF PagerInv
<1>4. PagingComplete' BY DEF PagerInv, PagingComplete
<1>. QED BY <1>3, <1>4 DEF PagerInv

\* No page is read yet.
LEMMA PagerInit ==
  ASSUME Init
  PROVE  PagerInv
BY DEF Init, PagerInv, PagingComplete

\* The first page has the records of the lowest ranks.
LEMMA PagerFirst ==
  ASSUME LogInv, PagerInv, FirstPage
  PROVE  PagerInv'
<1>. DEFINE page == GetAuditLogs(0)
<1>1. /\ pager' = [pc |-> IF page.hasMore THEN "more" ELSE "end", offset |-> PageSize,
                   seen |-> page.logs, due |-> rows]
      /\ UNCHANGED <<rows, time, audit>>
  BY DEF FirstPage, serviceVars
<1>2. \A r : Rank(r)' = Rank(r) BY <1>1 DEF Rank
<1>3. \A r : Rank(r) \in Nat BY RankType DEF LogInv
<1>4. /\ \A r \in rows : r \in page.logs <=> Rank(r) < PageSize
      /\ page.hasMore <=> \E r \in rows : Rank(r) >= PageSize
      /\ page.logs \subseteq rows
  BY <1>3, InvalidationAssumption DEF GetAuditLogs
<1>. HIDE DEF page
<1>5. \A r \in rows \ page.logs : Rank(r) >= PageSize
  BY <1>3, <1>4, InvalidationAssumption
<1>6. pager' \in [pc : {"idle", "more", "end"}, offset : Nat, seen : SUBSET Requests,
                  due : SUBSET Requests]
  BY <1>1, <1>4, InvalidationAssumption DEF LogInv, Types
<1>7. PagingComplete' BY <1>1, <1>4, <1>5 DEF PagingComplete
<1>8. \A r \in (pager.due)' : audit'[r] = "done" BY <1>1 DEF LogInv, RecordsArePublished
<1>. QED BY <1>1, <1>2, <1>5, <1>6, <1>7, <1>8 DEF PagerInv

\* The next page has the records of the next ranks, as they are now.
LEMMA PagerNext ==
  ASSUME LogInv, PagerInv, NextPage
  PROVE  PagerInv'
<1>. DEFINE page == GetAuditLogs(pager.offset)
<1>0. pager.offset \in Nat /\ pager.pc = "more" BY DEF PagerInv, NextPage
<1>1. /\ pager' = [pc |-> IF page.hasMore THEN "more" ELSE "end",
                   offset |-> pager.offset + PageSize,
                   seen |-> pager.seen \cup page.logs, due |-> pager.due]
      /\ UNCHANGED <<rows, time, audit>>
  BY DEF NextPage, serviceVars
<1>2. \A r : Rank(r)' = Rank(r) BY <1>1 DEF Rank
<1>3. \A r : Rank(r) \in Nat BY RankType DEF LogInv
<1>4. /\ \A r \in rows : r \in page.logs <=>
             Rank(r) >= pager.offset /\ Rank(r) < pager.offset + PageSize
      /\ page.hasMore <=> \E r \in rows : Rank(r) >= pager.offset + PageSize
      /\ page.logs \subseteq rows
  BY DEF GetAuditLogs
<1>. HIDE DEF page
<1>5. /\ (pager.pc)' = IF page.hasMore THEN "more" ELSE "end"
      /\ (pager.offset)' = pager.offset + PageSize
      /\ (pager.seen)' = pager.seen \cup page.logs /\ (pager.due)' = pager.due
      /\ pager' \in [pc : {"idle", "more", "end"}, offset : Nat, seen : SUBSET Requests,
                      due : SUBSET Requests]
  BY <1>0, <1>1, <1>4, InvalidationAssumption DEF PagerInv, LogInv, Types
<1>6. \A r \in (pager.due \cap rows) \ (pager.seen)' : Rank(r) >= pager.offset + PageSize
  BY <1>0, <1>3, <1>4, <1>5, InvalidationAssumption DEF PagerInv
<1>7. PagingComplete' BY <1>1, <1>4, <1>5, <1>6 DEF PagingComplete
<1>. QED BY <1>1, <1>2, <1>5, <1>6, <1>7 DEF PagerInv

\* Publish, the goroutines and the instances of the cache-manager.
LEMMA PagerStep ==
  ASSUME LogInv, PagerInv, [Next]_vars
  PROVE  PagerInv'
<1>. USE DEF nodeVars, serviceVars
<1>1. Types /\ Types' BY LogStep DEF LogInv
<1>2. ASSUME NEW r \in Requests, Publish(r) \/ Insert(r) PROVE PagerInv'
  <2>1. UNCHANGED pager /\ rows \subseteq rows' BY <1>2 DEF Publish, Insert
  <2>2. \A q \in rows : time'[q] = time[q]
    BY <1>1, <1>2 DEF Publish, Insert, Types, LogInv, RecordsArePublished
  <2>3. \A q \in pager.due : q # r /\ audit'[q] = "done"
    BY <1>1, <1>2 DEF Publish, Insert, Types, LogInv, RecordsArePublished, PagerInv
  <2>4. rows' \subseteq rows \cup {r} BY <1>2 DEF Publish, Insert
  <2>5. pager.due \cap rows' \subseteq rows BY <2>3, <2>4
  <2>6. \A q \in rows : Rank(q)' >= Rank(q) BY <1>1, <2>1, <2>2, RankGrows
  <2>. QED BY <1>1, <2>1, <2>3, <2>5, <2>6, PagerElsewhere
<1>3. ASSUME NEW cutoff \in 1 .. clock, Cleanup(cutoff) PROVE PagerInv'
  <2>1. UNCHANGED <<pager, time, audit>> /\ rows' = {r \in rows : time[r] >= cutoff}
    BY <1>3 DEF Cleanup
  <2>2. ASSUME NEW r \in rows' PROVE Rank(r)' = Rank(r)
    <3>1. \A q \in rows : time[q] \in Nat BY <1>1 DEF Types
    <3>2. clock \in Nat /\ cutoff \in Nat BY <1>1 DEF Types
    <3>3. {q \in rows' : time[q] > time[r]} = {q \in rows : time[q] > time[r]}
      BY <2>1, <3>1, <3>2
    <3>. QED BY <2>1, <3>3 DEF Rank
  <2>3. \A r : Rank(r) \in Nat BY <1>1, RankType
  <2>4. \A r \in rows' : Rank(r)' >= Rank(r)
    <3>. SUFFICES ASSUME NEW r \in rows' PROVE Rank(r)' >= Rank(r)
      OBVIOUS
    <3>1. Rank(r)' = Rank(r) /\ Rank(r) \in Nat BY <2>2, <2>3
    <3>. QED BY <3>1
  <2>. QED BY <1>1, <2>1, <2>4, PagerElsewhere DEF PagerInv
<1>4. ASSUME \/ Crash \/ UNCHANGED vars
             \/ \E r \in Requests : \/ PublishFails(r) \/ InsertFails(r)
                                    \/ \E n \in Nodes : HandleInvalidateEvent(n, r)
      PROVE  PagerInv'
  <2>1. UNCHANGED <<pager, time, rows>>
    BY <1>4 DEF Crash, vars, PublishFails, InsertFails, HandleInvalidateEvent
  <2>2. \A r \in pager.due : audit'[r] = "done"
    BY <1>1, <1>4 DEF PagerInv, Types, Crash, vars, PublishFails, InsertFails, HandleInvalidateEvent
  <2>3. \A r : Rank(r)' = Rank(r) /\ Rank(r) \in Nat BY <1>1, <2>1, RankType DEF Rank
  <2>4. \A r : Rank(r)' >= Rank(r)
    <3>. SUFFICES ASSUME NEW r PROVE Rank(r)' >= Rank(r)
      OBVIOUS
    <3>1. Rank(r)' = Rank(r) /\ Rank(r) \in Nat BY <2>3
    <3>. QED BY <3>1
  <2>. QED BY <1>1, <2>1, <2>2, <2>4, PagerElsewhere
<1>. QED BY <1>2, <1>3, <1>4, PagerFirst, PagerNext DEF Next

(***************************************************************************)
(* A client that follows HasMore misses no record that was there when it   *)
(* began and still is: new records only push unseen ones to higher         *)
(* offsets, and Cleanup takes records from the far end.                    *)
(***************************************************************************)
THEOREM PagingSkipsNothing == Spec => []PagingComplete
<1>1. Init => LogInv /\ PagerInv BY LogInit, PagerInit
<1>2. LogInv /\ PagerInv /\ [Next]_vars => LogInv' /\ PagerInv' BY LogStep, PagerStep
<1>3. PagerInv => PagingComplete BY DEF PagerInv
<1>. QED BY <1>1, <1>2, <1>3, PTL DEF Spec

-----------------------------------------------------------------------------
(* Patterns. *)

\* The L1 removes nothing but what the pattern matcher would match, and all of it
\* for the shapes it knows.
LEMMA ReadingsAgree ==
  ASSUME NEW p, NEW k
  PROVE  /\ matchesPattern(k, p) => Match(p, k)
         /\ p.shape \in {"exact", "prefix", "all"} => (Match(p, k) <=> matchesPattern(k, p))
BY DEF Match, matchesPattern

\* Each step of an instance, or of the service, keeps the agreement.
LEMMA PatternsStep ==
  ASSUME LogInv, HandledArePublished, PatternsAgree, [Next]_vars
  PROVE  HandledArePublished' /\ PatternsAgree'
<1>. USE DEF nodeVars, serviceVars
<1>1. ASSUME NEW r \in Requests, NEW n \in Nodes, HandleInvalidateEvent(n, r)
      PROVE  HandledArePublished' /\ PatternsAgree'
  <2>. DEFINE left == {k \in store[n] \ MatchedKeys(r) :
                        r.pattern = None \/ ~matchesPattern(k, r.pattern)}
  <2>1. /\ phase[r] = "published" /\ phase' = phase
        /\ store' = [store EXCEPT ![n] = left]
        /\ handled' = [handled EXCEPT ![n] = @ \cup {r}]
    BY <1>1 DEF HandleInvalidateEvent
  <2>2. store \in [Nodes -> SUBSET Keys] /\ handled \in [Nodes -> SUBSET Requests]
    BY DEF LogInv, Types
  <2>3. HandledArePublished' BY <2>1, <2>2 DEF HandledArePublished
  <2>4. left \cap Reached(r) = {} BY <2>2, ReadingsAgree DEF Reached
  <2>5. \A k \in store[n] \ left : k \in r.keys \/ (r.pattern # None /\ Match(r.pattern, k))
    BY ReadingsAgree DEF MatchedKeys
  <2>6. left \subseteq store[n] OBVIOUS
  <2>. HIDE DEF left
  <2>7. \A m \in Nodes : \A q \in handled'[m] : store'[m] \cap Reached(q) = {}
    BY <2>1, <2>2, <2>4, <2>6 DEF PatternsAgree
  <2>8. \A m \in Nodes : \A k \in Keys \ store'[m] :
          \E q \in Requests : phase[q] = "published" /\
            (k \in q.keys \/ (q.pattern # None /\ Match(q.pattern, k)))
    <3>. SUFFICES ASSUME NEW m \in Nodes, NEW k \in Keys \ store'[m]
                  PROVE  \E q \in Requests : phase[q] = "published" /\
                           (k \in q.keys \/ (q.pattern # None /\ Match(q.pattern, k)))
      OBVIOUS
    <3>1. CASE k \notin store[m] BY <3>1 DEF PatternsAgree
    <3>2. CASE k \in store[m]
      <4>1. m = n /\ k \in store[n] \ left BY <2>1, <2>2, <3>2
      <4>. QED BY <2>1, <2>5, <4>1
    <3>. QED BY <3>1, <3>2
  <2>9. \A q : Reached(q)' = Reached(q) BY DEF Reached
  <2>. QED BY <2>1, <2>3, <2>7, <2>8 DEF PatternsAgree
<1>2. ASSUME UNCHANGED nodeVars,
             \A r \in Requests : phase[r] = "published" => phase'[r] = "published"
      PROVE  HandledArePublished' /\ PatternsAgree'
  BY <1>2 DEF HandledArePublished, PatternsAgree, LogInv, Types
<1>3. \/ \E r \in Requests, n \in Nodes : HandleInvalidateEvent(n, r)
      \/ /\ UNCHANGED nodeVars
         /\ \A r \in Requests : phase[r] = "published" => phase'[r] = "published"
  <2>1. phase \in [Requests -> {"new", "published", "failed"}] BY DEF LogInv, Types
  <2>2. CASE FirstPage \/ NextPage \/ UNCHANGED vars BY <2>2 DEF FirstPage, NextPage, vars
  <2>3. CASE Crash \/ \E cutoff \in 1 .. clock : Cleanup(cutoff) BY <2>3 DEF Crash, Cleanup
  <2>4. CASE \E r \in Requests : Publish(r) \/ PublishFails(r) \/ Insert(r) \/ InsertFails(r)
    BY <2>1, <2>4 DEF Publish, PublishFails, Insert, InsertFails
  <2>. QED BY <2>2, <2>3, <2>4 DEF Next
<1>. QED BY <1>1, <1>2, <1>3

(***************************************************************************)
(* An instance that handled an event holds no key that the request names   *)
(* or its pattern matches (for the shapes an L1 knows), and loses no key   *)
(* that no published request names or matches.                             *)
(***************************************************************************)
THEOREM InstancesFollowThePatterns == Spec => []PatternsAgree
<1>1. Init => LogInv /\ HandledArePublished /\ PatternsAgree
  <2>1. Init => HandledArePublished /\ PatternsAgree BY DEF Init, HandledArePublished, PatternsAgree
  <2>. QED BY <2>1, LogInit
<1>2. LogInv /\ HandledArePublished /\ PatternsAgree /\ [Next]_vars =>
        LogInv' /\ HandledArePublished' /\ PatternsAgree'
  BY LogStep, PatternsStep
<1>. QED BY <1>1, <1>2, PTL DEF Spec
=============================================================================

----------------------------- MODULE Invalidation -----------------------------
(***************************************************************************)
(* The invalidation service (invalidation/service.go), its pattern matcher *)
(* (patterns.go) and its audit log (audit.go), with the handler of the     *)
(* cache-manager that applies the events to an L1.                         *)
(*                                                                         *)
(* A request publishes an event, starts a goroutine that writes the audit  *)
(* record, and answers without waiting for it.  The service may crash, the *)
(* database may refuse a record, events are delivered late and repeatedly, *)
(* and clients page through the log while it changes.                      *)
(*                                                                         *)
(* A key is a pair <<head, tail>>; a pattern has a shape and a text, e.g.  *)
(* "user:*" is [shape |-> "prefix", text |-> "user"] and "*:profile" is    *)
(* [shape |-> "suffix", text |-> "profile"].                               *)
(***************************************************************************)
EXTENDS Integers, FiniteSets

CONSTANTS Keys,         \* pairs
          Requests,     \* [id, pattern, keys]: pattern None is InvalidateKey;
                        \* keys: the Keys or the CacheKeys of the request
          Nodes,        \* cache-manager instances
          None,
          PageSize,     \* Limit of GetAuditLogs
          MaxEvents,    \* bound: events published
          MaxFaults     \* bound: crashes, failed publications, refused records

ASSUME InvalidationAssumption ==
  PageSize \in Nat \ {0} /\ MaxEvents \in Nat /\ MaxFaults \in Nat

VARIABLES
  unique,               \* whether the table has a unique index on request_id
  clock, time,          \* the next timestamp; timestamp of each request's event
  phase,                \* request: "new", "published", "failed"
  audit,                \* its goroutine: "none", "running", "done", "refused", "lost"
  rows,                 \* requests with a record in the table
  store, handled,       \* L1 of each instance; requests whose event it handled
  pager,                \* a client of GetAuditLogs
  faults,
  cleaned               \* history: the latest cutoff of a Cleanup

serviceVars == <<clock, time, phase, audit>>
nodeVars == <<store, handled>>
vars == <<unique, serviceVars, rows, cleaned, nodeVars, pager, faults>>

\* CREATE TABLE IF NOT EXISTS keeps a table that is there; the one that
\* ensureSchema creates has no unique index.
Init ==
  /\ unique \in BOOLEAN
  /\ clock = 1 /\ time = [r \in Requests |-> 0]
  /\ phase = [r \in Requests |-> "new"]
  /\ audit = [r \in Requests |-> "none"]
  /\ rows = {} /\ cleaned = 0
  /\ store = [n \in Nodes |-> Keys] /\ handled = [n \in Nodes |-> {}]
  /\ pager = [pc |-> "idle", offset |-> 0, seen |-> {}, due |-> {}]
  /\ faults = 0

-------------------------------------------------------------------------------
(* Patterns. *)

\* PatternMatcher.Match and matchWildcard; "regex" is a regular expression, or a
\* wildcard in the middle, which becomes one: text is the set of keys it matches
\* (none if it does not compile).
Match(p, k) ==
  CASE p.shape = "exact"    -> k = p.text
    [] p.shape = "all"      -> TRUE
    [] p.shape = "contains" -> p.text \in {k[1], k[2]}
    [] p.shape = "suffix"   -> k[2] = p.text
    [] p.shape = "prefix"   -> k[1] = p.text
    [] p.shape = "regex"    -> k \in p.text

\* matchesPattern of the L1: a trailing * is a prefix, anything else is literal.
matchesPattern(k, p) ==
  CASE p.shape = "prefix" -> k[1] = p.text
    [] p.shape = "all"    -> TRUE
    [] p.shape = "exact"  -> k = p.text
    [] OTHER              -> FALSE

\* deduplicateKeys, or the CacheKeys that match.
MatchedKeys(r) ==
  IF r.pattern = None THEN r.keys ELSE {k \in r.keys : Match(r.pattern, k)}

-------------------------------------------------------------------------------
(* InvalidateKey and InvalidatePattern. *)

Publish(r) ==
  /\ phase[r] = "new" /\ clock <= MaxEvents
  /\ time' = [time EXCEPT ![r] = clock] /\ clock' = clock + 1
  /\ phase' = [phase EXCEPT ![r] = "published"]
  /\ audit' = [audit EXCEPT ![r] = "running"]
  /\ UNCHANGED <<unique, rows, cleaned, nodeVars, pager, faults>>

\* mistake: the record is written although nothing was published.
PublishFailsAudited(r) ==
  /\ phase[r] = "new" /\ faults < MaxFaults
  /\ time' = [time EXCEPT ![r] = clock] /\ clock' = clock + 1
  /\ phase' = [phase EXCEPT ![r] = "failed"]
  /\ audit' = [audit EXCEPT ![r] = "running"]
  /\ faults' = faults + 1
  /\ UNCHANGED <<unique, rows, cleaned, nodeVars, pager>>

PublishFails(r) ==
  /\ phase[r] = "new" /\ faults < MaxFaults
  /\ phase' = [phase EXCEPT ![r] = "failed"]
  /\ faults' = faults + 1
  /\ UNCHANGED <<unique, clock, time, audit, rows, cleaned, nodeVars, pager>>

\* The goroutine's Insert: ON CONFLICT (request_id) DO NOTHING is an error
\* unless request_id has a unique index.
Insert(r) ==
  /\ audit[r] = "running" /\ unique
  /\ audit' = [audit EXCEPT ![r] = "done"]
  /\ rows' = IF \E q \in rows : q.id = r.id THEN rows ELSE rows \cup {r}
  /\ UNCHANGED <<unique, clock, time, phase, cleaned, nodeVars, pager, faults>>

InsertFails(r) ==
  /\ audit[r] = "running" /\ (~unique \/ faults < MaxFaults)
  /\ audit' = [audit EXCEPT ![r] = "refused"]
  /\ faults' = IF unique THEN faults + 1 ELSE faults
  /\ UNCHANGED <<unique, clock, time, phase, rows, cleaned, nodeVars, pager>>

\* The process ends, and its goroutines with it.
Crash ==
  /\ faults < MaxFaults /\ faults' = faults + 1
  /\ audit' = [r \in Requests |-> IF audit[r] = "running" THEN "lost" ELSE audit[r]]
  /\ UNCHANGED <<unique, clock, time, phase, rows, cleaned, nodeVars, pager>>

\* AuditLogger.Cleanup: DELETE ... WHERE timestamp < cutoff
Cleanup(cutoff) ==
  /\ \E r \in rows : time[r] < cutoff
  /\ rows' = {r \in rows : time[r] >= cutoff}
  /\ cleaned' = IF cutoff > cleaned THEN cutoff ELSE cleaned
  /\ UNCHANGED <<unique, serviceVars, nodeVars, pager, faults>>

-------------------------------------------------------------------------------
(* Instances of the cache-manager, which hold all Keys when the run begins;     *)
(* what is stored while events are under way is the subject of CacheCluster.    *)

\* mistake: an event with a pattern is taken to have no keys of its own.
HandlePatternOnly(n, r) ==
  /\ phase[r] = "published"
  /\ store' = [store EXCEPT ![n] =
       IF r.pattern = None THEN @ \ MatchedKeys(r)
       ELSE {k \in @ : ~matchesPattern(k, r.pattern)}]
  /\ handled' = [handled EXCEPT ![n] = @ \cup {r}]
  /\ UNCHANGED <<unique, serviceVars, rows, cleaned, pager, faults>>

\* HandleInvalidateEvent: the matched keys, then the pattern.
HandleInvalidateEvent(n, r) ==
  /\ phase[r] = "published"
  /\ store' = [store EXCEPT ![n] =
       {k \in @ \ MatchedKeys(r) : r.pattern = None \/ ~matchesPattern(k, r.pattern)}]
  /\ handled' = [handled EXCEPT ![n] = @ \cup {r}]
  /\ UNCHANGED <<unique, serviceVars, rows, cleaned, pager, faults>>

-------------------------------------------------------------------------------
(* A client that reads page after page until HasMore is false. *)

\* mistake: the oldest records first.
RankAscending(r) == Cardinality({q \in rows : time[q] < time[r]})

\* GetRecent, ORDER BY timestamp DESC: how many records come before that of r (no
\* two events have the same timestamp).
Rank(r) == Cardinality({q \in rows : time[q] > time[r]})

\* GetAuditLogs asks for one record more than the page holds.
GetAuditLogs(offset) ==
  [logs |-> {r \in rows : Rank(r) >= offset /\ Rank(r) < offset + PageSize},
   hasMore |-> \E r \in rows : Rank(r) >= offset + PageSize]

FirstPage ==
  /\ pager.pc = "idle"
  /\ LET page == GetAuditLogs(0) IN
       pager' = [pc |-> IF page.hasMore THEN "more" ELSE "end", offset |-> PageSize,
                 seen |-> page.logs, due |-> rows]
  /\ UNCHANGED <<unique, serviceVars, rows, cleaned, nodeVars, faults>>

NextPage ==
  /\ pager.pc = "more"
  /\ LET page == GetAuditLogs(pager.offset) IN
       pager' = [pc |-> IF page.hasMore THEN "more" ELSE "end",
                 offset |-> pager.offset + PageSize,
                 seen |-> pager.seen \cup page.logs, due |-> pager.due]
  /\ UNCHANGED <<unique, serviceVars, rows, cleaned, nodeVars, faults>>

Next ==
  \/ \E r \in Requests :
       \/ Publish(r) \/ PublishFails(r) \/ Insert(r) \/ InsertFails(r)
       \/ \E n \in Nodes : HandleInvalidateEvent(n, r)
  \/ Crash
  \/ \E cutoff \in 1 .. clock : Cleanup(cutoff)
  \/ FirstPage \/ NextPage

Spec == Init /\ [][Next]_vars

-------------------------------------------------------------------------------
\* GetByRequestID
GetByRequestID(id) == {r \in rows : r.id = id}

(***************************************************************************)
(* The audit log tells the truth, though records are written by goroutines *)
(* after the answer: it never tells of an invalidation that was not        *)
(* broadcast, it has at most one record of a request id, and a request     *)
(* whose record was written is found under its id until a Cleanup that     *)
(* takes every record as old as the one it finds.                          *)
(***************************************************************************)
AuditMatchesPublished ==
  /\ \A r \in rows : phase[r] = "published" /\ audit[r] = "done"
  /\ \A r \in Requests : Cardinality(GetByRequestID(r.id)) <= 1
  /\ \A r \in Requests :
       audit[r] = "done" =>
         GetByRequestID(r.id) # {} \/ \E q \in Requests : q.id = r.id /\ audit[q] = "done" /\ time[q] < cleaned

(***************************************************************************)
(* A client that follows HasMore sees every record that was in the table   *)
(* when it began and has not been cleaned up since, though records with    *)
(* older and newer timestamps come in and Cleanup runs between its pages.  *)
(***************************************************************************)
PagingComplete == pager.pc = "end" => pager.due \cap rows \subseteq pager.seen

\* What an event must remove: the keys it names, and patterns an L1 knows.
Reached(r) ==
  MatchedKeys(r) \cup
    IF r.pattern = None \/ r.pattern.shape \notin {"exact", "prefix", "all"} THEN {}
    ELSE {k \in Keys : Match(r.pattern, k)}

(***************************************************************************)
(* The L1's own reading of a pattern agrees with the pattern matcher's: an *)
(* instance that has handled an event holds no key that the request names, *)
(* or that its pattern matches, and an instance never drops a key that no  *)
(* published request names or matches.  Patterns with a leading or inner * *)
(* and regular expressions reach only the CacheKeys the caller gave: the   *)
(* L1 takes them literally.                                                *)
(***************************************************************************)
PatternsAgree ==
  \A n \in Nodes :
    /\ \A r \in handled[n] : store[n] \cap Reached(r) = {}
    /\ \A k \in Keys \ store[n] :
         \E r \in Requests : phase[r] = "published" /\
           (k \in r.keys \/ (r.pattern # None /\ Match(r.pattern, k)))
===============================================================================

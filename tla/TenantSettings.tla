---------------------------- MODULE TenantSettings ----------------------------
(***************************************************************************)
(* Per-tenant feature overrides of the feature store: the 60-second cache, *)
(* get_overrides, update_overrides, the handlers that call them and the    *)
(* Django admin, which writes the same row without touching the cache.     *)
(* Source: rust/feature-store/src/{tenant_settings,server,main}.rs and     *)
(* python/admin/tenant_settings/{admin,audit}.py.                          *)
(*                                                                         *)
(* One tenant: every key of the cache and every row of the table belongs   *)
(* to one tenant and no step touches two.  Time is the age of things, in   *)
(* ticks, so it need not be bounded.                                       *)
(***************************************************************************)
EXTENDS TenantOverrides, Integers, FiniteSets

CONSTANTS
  Overrides,    \* the override values operators store
  Requests,     \* the rows a reader's request selects, in response order
  Readers,      \* get_feature and list_features calls
  Updaters,     \* UpdateTenantSettings and POST /admin/tenant-settings calls
  Admins,       \* Django admin sessions
  TTL,          \* CACHE_TTL in ticks
  MaxFlight,    \* longest time from a SELECT to the set_cached that follows it
  MaxWrites,    \* bound: how many saves are submitted
  Faults        \* which faults occur: subset of FaultKinds

FaultKinds == {"load", "commit", "audit", "restart"}

ASSUME SettingsAssumption ==
  /\ Overrides \subseteq AllOverrides
  /\ NoOverrides \in Overrides
  /\ IsFiniteSet(Features)
  /\ Requests \subseteq Seq(Features)
  /\ Readers \cap Updaters = {} /\ Readers \cap Admins = {} /\ Updaters \cap Admins = {}
  /\ TTL \in Nat \ {0} /\ MaxFlight \in Nat /\ MaxWrites \in Nat
  /\ Faults \subseteq FaultKinds

VARIABLES
  stored,     \* tenant_settings.feature_tier_overrides, committed
  cache,      \* the cache entry; of age TTL when expired, evicted or never set
  pc,         \* where each call is
  job,        \* what a call of get_overrides is for
  val,        \* the override value a call holds in a local
  age,        \* ticks since the SELECT that returned val, during a fill
  asked,      \* the rows a reader's request selected
  released,   \* the features in each reader's latest response
  want,       \* the override value each save is to store
  logged,     \* the features whose audit row the current save has written
  result,     \* what the current save returned
  writes,     \* saves submitted so far (bound MaxWrites)
  recent,     \* history: values stored at some moment of the tick i ticks back
  ever,       \* history: values ever stored
  audited,    \* values some audit row fingerprints (payload_hash)
  owed,       \* history: feature changes committed minus audit rows written
  unsettled   \* history: a commit that no invalidation has followed yet

callVars == <<pc, job, val, age, asked, want, logged, result, writes>>
dataVars == <<stored, recent, ever, unsettled>>
auditVars == <<audited, owed>>
vars == <<callVars, dataVars, auditVars, cache, released>>

Calls == Readers \union Updaters     \* calls into the Rust process
Writers == Updaters \union Admins
Procs == Calls \union Admins

Window == TTL + MaxFlight - 1

Init ==
  /\ stored = NoOverrides
  /\ cache = [value |-> NoOverrides, age |-> TTL]
  /\ pc = [p \in Procs |-> "idle"]
  /\ job = [p \in Calls |-> "none"]
  /\ val = [p \in Procs |-> NoOverrides]
  /\ age = [p \in Calls |-> 0]
  /\ asked = [r \in Readers |-> <<>>]
  /\ released = [r \in Readers |-> {}]
  /\ want = [w \in Writers |-> NoOverrides]
  /\ logged = [u \in Updaters |-> {}]
  /\ result = [u \in Updaters |-> "none"]
  /\ writes = 0
  /\ recent = [i \in 0..Window |-> {NoOverrides}]
  /\ ever = {NoOverrides}
  /\ audited = {}
  /\ owed = 0
  /\ unsettled = FALSE

-----------------------------------------------------------------------------
(* get_overrides, shared by the handlers *)

\* Variant: an off-by-one that serves expired entries.
LiveAtExpiry == cache.age <= TTL

Live == cache.age < TTL

\* The call is over and its locals are gone.
End(p) ==
  /\ pc' = [pc EXCEPT ![p] = "idle"]
  /\ job' = IF p \in Calls THEN [job EXCEPT ![p] = "none"] ELSE job
  /\ val' = [val EXCEPT ![p] = NoOverrides]
  /\ age' = IF p \in Calls THEN [age EXCEPT ![p] = 0] ELSE age
  /\ asked' = IF p \in Readers THEN [asked EXCEPT ![p] = <<>>] ELSE asked
  /\ want' = IF p \in Writers THEN [want EXCEPT ![p] = NoOverrides] ELSE want
  /\ logged' = IF p \in Updaters THEN [logged EXCEPT ![p] = {}] ELSE logged

\* Variant: a reader's handler falls through into the update path.
UseFallingThrough(p, v) ==
  /\ pc' = [pc EXCEPT ![p] = "commit"]
  /\ val' = [val EXCEPT ![p] = v]
  /\ UNCHANGED <<job, age, asked, want, logged, released>>

\* What a handler does with the value get_overrides returned, up to its next
\* await: a reader filters its rows and responds; an update call that only
\* wanted changed_keys loads again, inside update_overrides, for the diff.
Use(p, v) ==
  \/ /\ job[p] = "respond"
     /\ released' = [released EXCEPT ![p] = Released(asked[p], v)]
     /\ End(p)
  \/ /\ job[p] = "count"
     /\ job' = [job EXCEPT ![p] = "diff"]
     /\ pc' = [pc EXCEPT ![p] = "lookup"]
     /\ age' = [age EXCEPT ![p] = 0]
     /\ val' = [val EXCEPT ![p] = NoOverrides]
     /\ UNCHANGED <<asked, want, logged, released>>
  \/ /\ job[p] = "diff"
     /\ pc' = [pc EXCEPT ![p] = "commit"]
     /\ age' = [age EXCEPT ![p] = 0]
     /\ val' = [val EXCEPT ![p] = v]
     /\ UNCHANGED <<job, asked, want, logged, released>>

\* Variant: each hit renews the entry, a sliding expiry.
HitRenewing(p) ==
  /\ pc[p] = "lookup" /\ Live
  /\ cache' = [cache EXCEPT !.age = 0]
  /\ Use(p, cache.value)
  /\ UNCHANGED <<dataVars, auditVars, result, writes>>

Hit(p) ==
  /\ pc[p] = "lookup" /\ Live
  /\ Use(p, cache.value)
  /\ UNCHANGED <<dataVars, auditVars, cache, result, writes>>

Miss(p) ==
  /\ pc[p] = "lookup" /\ ~Live
  /\ pc' = [pc EXCEPT ![p] = "select"]
  /\ UNCHANGED <<dataVars, auditVars, cache, released, job, val, age, asked, want,
                 logged, result, writes>>

\* The SELECT of a READ COMMITTED transaction.
Select(p) ==
  /\ pc[p] = "select"
  /\ val' = [val EXCEPT ![p] = stored]
  /\ pc' = [pc EXCEPT ![p] = "fill"]
  /\ UNCHANGED <<dataVars, auditVars, cache, released, job, age, asked, want, logged,
                 result, writes>>

\* The transaction has ended: set_cached stamps the entry with the time of the
\* insertion, not of the SELECT.
Fill(p) ==
  /\ pc[p] = "fill"
  /\ cache' = [value |-> val[p], age |-> 0]
  /\ Use(p, val[p])
  /\ UNCHANGED <<dataVars, auditVars, result, writes>>

\* The call returns an error, or its future is dropped with the connection.
GiveUp(p) ==
  /\ End(p)
  /\ result' = IF p \in Updaters THEN [result EXCEPT ![p] = "err"] ELSE result
  /\ UNCHANGED writes

LoadFails(p) ==
  /\ "load" \in Faults
  /\ pc[p] \in {"select", "fill"}
  /\ GiveUp(p)
  /\ UNCHANGED <<dataVars, auditVars, cache, released>>

-----------------------------------------------------------------------------
(* Readers *)

\* get_feature and list_features have fetched their rows and now load the
\* overrides that filter them.
Request(r, rows) ==
  /\ pc[r] = "idle"
  /\ asked' = [asked EXCEPT ![r] = rows]
  /\ job' = [job EXCEPT ![r] = "respond"]
  /\ pc' = [pc EXCEPT ![r] = "lookup"]
  /\ UNCHANGED <<dataVars, auditVars, cache, released, val, age, want, logged, result,
                 writes>>

-----------------------------------------------------------------------------
(* update_overrides *)

\* The gRPC handler loads the overrides once more, for changed_keys, before it
\* calls update_overrides; the HTTP handler calls it directly.
Submit(u, v, purpose) ==
  /\ pc[u] = "idle" /\ writes < MaxWrites
  /\ writes' = writes + 1
  /\ want' = [want EXCEPT ![u] = v]
  /\ job' = [job EXCEPT ![u] = purpose]
  /\ logged' = [logged EXCEPT ![u] = {}]
  /\ result' = [result EXCEPT ![u] = "none"]
  /\ pc' = [pc EXCEPT ![u] = "lookup"]
  /\ UNCHANGED <<dataVars, auditVars, cache, released, val, age, asked>>

\* The stored value becomes v.
Store(v) ==
  /\ stored' = v
  /\ recent' = [recent EXCEPT ![0] = @ \union {v}]
  /\ ever' = ever \union {v}
  /\ unsettled' = TRUE

Commit(u) ==
  /\ pc[u] = "commit"
  /\ Store(want[u])
  /\ owed' = owed + Cardinality(Diff(stored, want[u]))
  /\ pc' = [pc EXCEPT ![u] = "invalidate"]
  /\ UNCHANGED <<cache, released, audited, job, val, age, asked, want, logged, result,
                 writes>>

\* The commit took effect but its acknowledgement, or the handler, was lost:
\* neither the invalidation nor the audit rows follow.
CommitUnacknowledged(u) ==
  /\ "commit" \in Faults
  /\ pc[u] = "commit"
  /\ Store(want[u])
  /\ owed' = owed + Cardinality(Diff(stored, want[u]))
  /\ GiveUp(u)
  /\ UNCHANGED <<cache, released, audited>>

\* Variant: the error of the commit is ignored.
CommitFailureIgnored(u) ==
  /\ "commit" \in Faults
  /\ pc[u] = "commit"
  /\ pc' = [pc EXCEPT ![u] = "invalidate"]
  /\ UNCHANGED <<dataVars, auditVars, cache, released, job, val, age, asked, want,
                 logged, result, writes>>

CommitFails(u) ==
  /\ "commit" \in Faults
  /\ pc[u] = "commit"
  /\ GiveUp(u)
  /\ UNCHANGED <<dataVars, auditVars, cache, released>>

Invalidate(u) ==
  /\ pc[u] = "invalidate"
  /\ cache' = [cache EXCEPT !.age = TTL]
  /\ unsettled' = FALSE
  /\ pc' = [pc EXCEPT ![u] = "audit"]
  /\ UNCHANGED <<stored, recent, ever, auditVars, released, job, val, age, asked, want,
                 logged, result, writes>>

ToLog(u) == Diff(val[u], want[u]) \ logged[u]

\* AuditRecorder::record commits one row in a transaction of its own.
Record(u, f) ==
  /\ audited' = audited \union {want[u]}
  /\ owed' = owed - 1
  /\ logged' = [logged EXCEPT ![u] = @ \union {f}]

Audit(u, f) ==
  /\ pc[u] = "audit" /\ f \in ToLog(u)
  /\ Record(u, f)
  /\ UNCHANGED <<dataVars, cache, released, pc, job, val, age, asked, want, result, writes>>

\* Variant: a failed record is logged and the call reports success.
AuditFailureIgnored(u, f) ==
  /\ "audit" \in Faults
  /\ pc[u] = "audit" /\ f \in ToLog(u)
  /\ result' = [result EXCEPT ![u] = "ok"]
  /\ End(u)
  /\ UNCHANGED <<dataVars, auditVars, cache, released, writes>>

\* record returned an error: the rest of the keys is skipped and the call fails
\* although the override is stored.  The failed row may still have been written.
AuditFails(u, f) ==
  /\ "audit" \in Faults
  /\ pc[u] = "audit" /\ f \in ToLog(u)
  /\ \/ /\ audited' = audited \union {want[u]}
        /\ owed' = owed - 1
     \/ UNCHANGED auditVars
  /\ GiveUp(u)
  /\ UNCHANGED <<dataVars, cache, released>>

\* Variant: a call that changed nothing waits for its first row.
ReturnAfterRow(u) ==
  /\ pc[u] = "audit" /\ ToLog(u) = {} /\ logged[u] # {}
  /\ result' = [result EXCEPT ![u] = "ok"]
  /\ End(u)
  /\ UNCHANGED <<dataVars, auditVars, cache, released, writes>>

Return(u) ==
  /\ pc[u] = "audit" /\ ToLog(u) = {}
  /\ result' = [result EXCEPT ![u] = "ok"]
  /\ End(u)
  /\ UNCHANGED <<dataVars, auditVars, cache, released, writes>>

-----------------------------------------------------------------------------
(* The Django admin: TenantSettingAdmin.save_model inside one transaction *)

AdminLoad(a, v) ==
  /\ pc[a] = "idle" /\ writes < MaxWrites
  /\ writes' = writes + 1
  /\ val' = [val EXCEPT ![a] = stored]
  /\ want' = [want EXCEPT ![a] = v]
  /\ pc' = [pc EXCEPT ![a] = "save"]
  /\ UNCHANGED <<dataVars, auditVars, cache, released, job, age, asked, logged, result>>

\* The row and its audit rows commit together; the Rust cache is not told.
AdminSave(a) ==
  /\ pc[a] = "save"
  /\ Store(want[a])
  /\ audited' = audited \union (IF val[a] = want[a] THEN {} ELSE {want[a]})
  /\ owed' = owed + Cardinality(Diff(stored, want[a])) - Cardinality(Diff(val[a], want[a]))
  /\ End(a)
  /\ UNCHANGED <<cache, released, result, writes>>

AdminRollback(a) ==
  /\ "commit" \in Faults
  /\ pc[a] = "save"
  /\ End(a)
  /\ UNCHANGED <<dataVars, auditVars, cache, released, result, writes>>

-----------------------------------------------------------------------------
(* Environment *)

\* The feature-store process restarts: the cache and its calls are gone.
Restart ==
  /\ "restart" \in Faults
  /\ cache' = [cache EXCEPT !.age = TTL]
  /\ pc' = [p \in Procs |-> IF p \in Calls THEN "idle" ELSE pc[p]]
  /\ job' = [p \in Calls |-> "none"]
  /\ val' = [p \in Procs |-> IF p \in Calls THEN NoOverrides ELSE val[p]]
  /\ age' = [p \in Calls |-> 0]
  /\ asked' = [r \in Readers |-> <<>>]
  /\ want' = [w \in Writers |-> IF w \in Updaters THEN NoOverrides ELSE want[w]]
  /\ logged' = [u \in Updaters |-> {}]
  /\ result' = [u \in Updaters |-> IF pc[u] = "idle" THEN result[u] ELSE "err"]
  /\ UNCHANGED <<dataVars, auditVars, released, writes>>

\* A fill ends within MaxFlight of its SELECT: only a COMMIT lies between them.
Tick ==
  /\ \A p \in Calls : pc[p] = "fill" => age[p] < MaxFlight
  /\ cache' = [cache EXCEPT !.age = IF @ < TTL THEN @ + 1 ELSE TTL]
  /\ age' = [p \in Calls |-> IF pc[p] = "fill" THEN age[p] + 1 ELSE age[p]]
  /\ recent' = [i \in 0..Window |-> IF i = 0 THEN {stored} ELSE recent[i - 1]]
  /\ UNCHANGED <<stored, ever, unsettled, auditVars, released, pc, job, val, asked, want,
                 logged, result, writes>>

-----------------------------------------------------------------------------
\* Steps a call takes by itself once it has begun.
LoadGoesOn(p) == Hit(p) \/ Miss(p) \/ Select(p) \/ Fill(p)

Load(p) == LoadGoesOn(p) \/ LoadFails(p)

SaveGoesOn(u) ==
  Commit(u) \/ Invalidate(u) \/ Return(u) \/ \E f \in Features : Audit(u, f)

Save(u) ==
  \/ SaveGoesOn(u) \/ CommitUnacknowledged(u) \/ CommitFails(u)
  \/ \E f \in Features : AuditFails(u, f)

AdminStep(a) == AdminSave(a) \/ AdminRollback(a)

Next ==
  \/ \E p \in Calls : Load(p)
  \/ \E r \in Readers, rows \in Requests : Request(r, rows)
  \/ \E u \in Updaters, v \in Overrides, purpose \in {"count", "diff"} : Submit(u, v, purpose)
  \/ \E u \in Updaters : Save(u)
  \/ \E a \in Admins, v \in Overrides : AdminLoad(a, v)
  \/ \E a \in Admins : AdminStep(a)
  \/ Restart
  \/ Tick

\* The runtime polls every call that can move, the database answers unless it
\* fails, and time passes.  Nothing has to fail, and nobody has to send requests.
Fairness ==
  /\ \A p \in Calls : WF_vars(LoadGoesOn(p))
  /\ \A u \in Updaters : WF_vars(SaveGoesOn(u))
  /\ \A a \in Admins : WF_vars(AdminSave(a))
  /\ WF_vars(Tick)

Safe == Init /\ [][Next]_vars

Spec == Safe /\ Fairness

-----------------------------------------------------------------------------
(* Properties *)

\* Where each kind of call may be, and what it may be doing there.
Places ==
  /\ \A r \in Readers : /\ pc[r] \in {"idle", "lookup", "select", "fill"}
                        /\ job[r] \in {"none", "respond"}
  /\ \A u \in Updaters : /\ pc[u] \in {"idle", "lookup", "select", "fill", "commit",
                                       "invalidate", "audit"}
                         /\ job[u] \in {"none", "count", "diff"}
  /\ \A a \in Admins : pc[a] \in {"idle", "save"}

\* Every variable has its type; a reader is never in the update path.
TypeOK ==
  /\ pc \in [Procs -> {"idle", "lookup", "select", "fill", "commit", "invalidate",
                      "audit", "save"}]
  /\ job \in [Calls -> {"none", "respond", "count", "diff"}]
  /\ Places
  /\ stored \in Overrides
  /\ cache \in [value : Overrides, age : 0..TTL]
  /\ val \in [Procs -> Overrides]
  /\ age \in [Calls -> 0..MaxFlight]
  /\ asked \in [Readers -> Requests \union {<<>>}]
  /\ released \in [Readers -> SUBSET Features]
  /\ want \in [Writers -> Overrides]
  /\ logged \in [Updaters -> SUBSET Features]
  /\ result \in [Updaters -> {"none", "ok", "err"}]
  /\ writes \in 0..MaxWrites
  /\ recent \in [0..Window -> SUBSET Overrides]
  /\ ever \in SUBSET Overrides
  /\ audited \in SUBSET Overrides
  /\ owed \in Int
  /\ unsettled \in BOOLEAN

\* The store keeps the promise of OverridePolicy with a window of one cache
\* lifetime and one fill: whatever races between fills, saves that bypass the
\* cache, lost acknowledgements and restarts, no response carries a feature
\* that every override value of that window refuses.
Policy == INSTANCE OverridePolicy WITH Callers <- Readers
PolicyKept == Policy!Spec

\* No audit row fingerprints a value that was never stored: update_overrides
\* audits after the commit, and a save that failed leaves no trace.
AuditOnlyStored == audited \subseteq ever

\* update_overrides returns Ok only when each key it found changed has its row.
OkMeansAudited ==
  [][\A u \in Updaters : result[u] # "ok" /\ result'[u] = "ok"
                           => logged[u] = Diff(val[u], want[u])]_vars

\* Why PolicyKept holds: a value under way from a SELECT was stored no longer ago
\* than the SELECT, and a live entry no longer ago than its age plus one fill.
FreshFills == \A p \in Calls : pc[p] = "fill" => \E i \in 0..age[p] : val[p] \in recent[i]
FreshEntry == Live => \E i \in 0..(cache.age + MaxFlight) : cache.value \in recent[i]
Fresh == stored \in recent[0] /\ FreshFills /\ FreshEntry

\* The bound behind EventuallyCoherent: when nothing but the stored value was
\* stored for one cache lifetime and one fill, every read, every fill and every
\* live entry is of that value, however the last saves raced or failed.
Quiet == \A i \in 0..Window : recent[i] = {stored}
CoherentOnceQuiet ==
  Quiet => /\ Live => cache.value = stored
           /\ \A p \in Calls : pc[p] = "fill" => val[p] = stored

\* Why AuditOnlyStored and OkMeansAudited hold: a save past its commit has stored
\* its value, and the rows it has written are for keys it found changed.
Committed == \A u \in Updaters : pc[u] \in {"invalidate", "audit"} => want[u] \in ever
LoggedChanged ==
  \A u \in Updaters : IF pc[u] = "audit" THEN logged[u] \subseteq Diff(val[u], want[u])
                                         ELSE logged[u] = {}
Accounted == AuditOnlyStored /\ Committed /\ LoggedChanged

\* Once saves stop, the cache ends up with the stored value or none, also when
\* an invalidation was lost, overtaken by a fill or never sent (Django).
EventuallyCoherent == <>[](Live => cache.value = stored)

\* Why CallsEnd holds, besides fairness: the steps a call has left at most.  A load
\* takes three, counting changed keys is followed by a load for the diff, and a
\* save writes a row for each changed feature.
LoadSteps(place) ==
  CASE place = "lookup" -> 3 [] place = "select" -> 2 [] place = "fill" -> 1
AfterLoad(purpose) ==
  CASE purpose = "count" -> Cardinality(Features) + 6 [] purpose = "diff" -> Cardinality(Features) + 3
    [] OTHER -> 0
StepsLeft(p) ==
  CASE pc[p] = "idle" -> 0
    [] pc[p] \in {"lookup", "select", "fill"} -> LoadSteps(pc[p]) + AfterLoad(job[p])
    [] pc[p] = "commit" -> Cardinality(Features) + 3
    [] pc[p] = "invalidate" -> Cardinality(Features) + 2
    [] pc[p] = "audit" -> Cardinality(ToLog(p)) + 1
    [] pc[p] = "save" -> 1
OwnStep(p) ==
  \/ p \in Calls /\ Load(p)
  \/ p \in Updaters /\ Save(p)
  \/ p \in Admins /\ AdminStep(p)
BoundedWork ==
  [][\A p \in Procs : pc[p] # "idle" =>
       /\ StepsLeft(p)' <= StepsLeft(p)
       /\ OwnStep(p) => StepsLeft(p)' < StepsLeft(p)]_vars

\* Every call and every admin save ends, with a result or an error: no process is
\* away from idle for ever.
CallsEnd == \A p \in Procs : []<>(pc[p] = "idle")

\* The doc comment of OverridesCache: the cache is invalidated after an UPSERT
\* "so the next read fetches fresh data from Postgres".  Once every commit has
\* been followed by an invalidation, a live entry holds the stored value.
NextReadIsFresh == ~unsettled => (Live => cache.value = stored)

\* Every feature whose override changed has an audit row once no save is under
\* way ("every changed override key produces exactly one audit_log row").
EveryChangeAudited == (\A w \in Writers : pc[w] = "idle") => owed = 0
=============================================================================

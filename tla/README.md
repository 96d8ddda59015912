# Verification of JudicialPredict

TLA+ models of the parts of JudicialPredict whose correctness depends on the
order in which things happen, TLC runs over small instances, and TLAPS proofs for
all instances. Paths are relative to the repository.

## The system

JudicialPredict is a multi-tenant service: operators of a law firm enter a case,
a model predicts its outcome, a decision engine recommends to settle or to try it.

| Part | State | Operations | Talks to |
|---|---|---|---|
| `rust/api-gateway` (GraphQL, REST) | rate-limit buckets in memory; pool of 10 connections; tables `cases`, `predictions` | `createCase`, `importCases`, `POST /v1/cases`, `repredictCase`, `predictCaseOutcome`; `listCases`, `case`, `casePredictions`, `caseStats`, `auditEvents`, `extractFeatures` | Postgres, ml-inference over gRPC (30 s), audit recorder (spawned tasks) |
| `rust/rate-limit` | one token bucket per tenant | `check` | called by the gateway's middleware |
| `rust/feature-store` (gRPC, HTTP) | table `features`, table `tenant_settings`, 60-second cache of overrides | `GetFeature`, `ListFeatures`, `IngestFeature`, `UpdateTenantSettings`, `POST /admin/tenant-settings` | Postgres, audit recorder (awaited) |
| `rust/audit-recorder`, `ml_inference_svc/audit_recorder.py` | table `audit_log`, append-only | `record`: one transaction per row | Postgres |
| `python/admin` (Django) | `operators`, reset tokens, personal access tokens, `tenant_settings` | log in, reset password, mint and revoke tokens, SSO, edit overrides | the same Postgres; e-mail; an identity provider |
| `python/ml-inference-svc` | champion model, loaded once per process | `PredictCaseOutcome` | files, audit recorder |
| `rust/ingest-fetcher` | `case_documents`, `judges`, knowledge graph | resumable REST walk, concurrent CAP walk, upserts, graph population | CourtListener, static.case.law, Postgres |
| `rust/{dime,jcs,mqs}-ingest` | `judges.bio` | one-shot imports of judge data | files, Postgres |
| `rust/{decision-arith,cost-engine,monte-carlo-sim}` | none | pure functions | called by the gateway |
| `web` (Next.js) | session cookie | pages, a proxy for GraphQL and the session | gateway, admin |
| `rust/{event-broker,feature-deriver,partner-gateway}` | none | stubs | - |
| `charts`, `gitops`, `.github`, scripts | none | deployment, training | - |

What is hard to test here, and correct only if the following holds:

* **Overrides** (feature-store, admin). Three writers and many readers share a row
  and a cache that only one of the writers invalidates; every step is an await.
  A withdrawn feature must stop being released within a known time; the audit
  log must match what was stored; the cache must converge.
* **Rate limiter.** The clock is read before the lock is taken. Admissions must be
  bounded over every window, and `Retry-After` must be true.
* **Case mutations.** `repredictCase` keeps a transaction, thus a connection and
  later a row lock, across a remote call of up to 30 s, in a pool with a 5 s acquire
  timeout. Imports run one pipeline per row, of which each step may fail. Clients
  disconnect. Cases and history must stay consistent, reports true, audit rows
  sound, and nobody may wait for ever.
* **Case list.** OFFSET paging over a list that grows at the front, counts and
  pages from different snapshots. Following Next must skip nothing and end.
* **Operators and authentication.** Login checks a password and then reads the operator
  again; nothing on the server remembers a session, and nobody asks at a request whether its
  operator is still active. What is withdrawn must be gone within a known time. (A
  reset token is checked, the password saved and the token marked used without a lock.)
* **Recommendation.** Computed from the point and both ends of an interval, with costs
  whose months are a 32-bit sum: it must be consistent with itself and monotone in the cost.
* **Ingestion.** Resuming below the oldest stored date, quota stops, a limit checked
  between concurrent completions, per-row isolation that a `?` cancels, five commands
  writing one table.
* **Judges.** Long transactions over the same rows in different orders, importers that match
  and then update, a `bio` all of them write: no document may be marked as extracted and not
  counted, or counted twice in one tally, and no score given to a judge of another court.

`PROJECT.json` lists every component, modelled or not, and every hazard at its line.

## Modules

```
TenantOverrides --- OverridePolicy          (what the store promises)
       \                 ^ refines
        +----------- TenantSettings --- MCTenantSettings   TenantSettingsProofs
RateLimiter --- MCRateLimiter               RateLimiterProofs
CaseStore  <- refines -  Cases --- MCCases  CasesProofs
Paging --- MCPaging                         PagingProofs
Access --+
Advice --+- Gateway --- MCGateway           GatewayProofs
CaseDocuments --- Corpus --- MCCorpus       CorpusProofs
Opinions --+
Ideology --+- Judges --- MCJudges           JudgesProofs
```

**TenantOverrides** is the pure part of `tenant_settings.rs`: a feature's setting
merges its membership of `disabled_features` with its entry of `tier_overrides`;
`Blocked` is `check_feature_allowed`, `Diff` is `diff_overrides`, `Released` the
loop of `list_features`, which stops at the first refused row (`get_feature` is the
case of one row).

**TenantSettings** has one action per stretch of code between two awaits. A call of
`get_overrides` is `Hit`, or `Miss`, `Select`, `Fill`: the entry is stamped when it is
inserted, not when the row was read, and between the two anything may happen.
`job` says what the value is for: a reader's response, the `changed_keys` of
`update_tenant_settings`, or the diff of `update_overrides`, after which come
`Commit`, `Invalidate`, one `Audit` per changed key and `Return`. The Django admin
(`AdminLoad`, `AdminSave`) writes the row and its audit rows in one transaction
and never tells the cache. Faults: a failed load, a failed or unacknowledged
commit (which also stands for a handler dropped there), a failed audit row that may have
been written all the same, a restart. Time is the age of the entry and of each
fill, so nothing grows; `recent`, `ever`, `audited`, `owed` and `unsettled` are
history that no action reads.

**OverridePolicy** promises: a response carries only features that *one* override
value of the last `Window` ticks allows. `TenantSettings` refines it with
`Window = TTL + MaxFlight - 1`.

**RateLimiter** measures tokens in ticks of refill, so all arithmetic is integral:
a request costs `Cost` units and the bucket holds `Minute` units. `Stamp` is
`Instant::now()`; `Allow` and `Deny` happen up to `MaxHold` ticks later under the
mutex with the old stamp, so requests may overtake each other. `window` observes
admissions from an arbitrary admitted request on, `promise` the earliest
`Retry-After` outstanding.

**Cases** follows each call through its awaits: the model's answer, waiting for a
connection (`nlp`, `begin`), the judge lookup's own transaction, the insert.
A single create is an import of one row. `repredictCase` begins (`Load` fixes
`now()`), keeps its connection while the model answers, waits for the row lock in
`Write`, and publishes both rows in `Commit`. Faults: no answer from the model, any
database statement failing, a commit whose answer is lost, an audit row that
fails, a client that disconnects at any await, a restart. `RowStarved` and
`Starved` are the acquire timeout and need no fault: they may happen whenever the
pool is exhausted.

**CaseStore** promises: cases are only added, a recommendation never changes after
its case was created, and a prediction changes only in the step that appends the
same value to the history. `Cases` refines it with the identity mapping.

**Paging** is one operator walking the case list: `Count` and `Select` are the two
statements of `listCases`, `CaseStats` the other root field of the same request, run
at any time beside it (list and counters are two snapshots, and no run says that they agree); `Follow` is the Next link; `LoadFails` the empty page that
`fetchPage` shows when anything went wrong. `InsertRow` places a case anywhere in the
order, because the filing date comes first in `ORDER BY`.

**Access** is what operators authenticate with. A session is its claims (`sub`, `tenant`,
`exp`). `LoginCheck` is `authenticate`; `LoginFind` the second query of `login`, whose identifier is taken to name
the same operator still; `SsoFind` the row `sso_callback` reads; `Mint` is `mint_session_jwt`, which sets `exp` from a
clock it reads up to `Pause` after the row. `logins` has what each of them holds so far. `EditOperator` and
`DeleteOperator` are the console, `MintPat` and `RevokePat` the token commands. `held` is
history: when each operator last was active in each tenant.

**Advice** is pure: `Cost` is `estimate_cost_v2`, with `DurationMonths` the wrapping sum of
`derive_duration_months`, and `Recommend` is `decision_arith::recommend` (`Kind` is
`decide_kind`, `Confidence` is `confidence_from_ci`, `Counter` the counter-recommendation).
`AdviceOn` is how the gateway calls the two. Amounts are whole dollars and probabilities
hundredths.

**Gateway** composes them: a request is admitted by a session or a token (`jwt_middleware`,
`decode_jwt`, `resolve_pat`) and creates a case, in one step, with the recommendation for its
input and the model's answer, or fails. What happens inside that step is `Cases`. Only creation is
covered: `repredictCase` replaces the prediction and keeps the recommendation of the first one, which need not lie in
the new interval, and no property says so.

**CaseDocuments** is the table every ingestion command writes: `Upsert` is the `ON CONFLICT DO
UPDATE` of `db.rs`, `InsertCap` the `DO NOTHING` of `cap.rs`, `OldestDate` the resume cursor,
`Insertable` the foreign keys of the citation edges. A date that does not parse in a search hit or in the dump
(`Undated`, `Read`) is stored as NULL, over a date the row had; the order and the filter of a search are the service's
own and go by the date it has.

**Corpus** runs the commands over it as processes: `run-rest` (`Rest...`: snapshot of known ids, cursor,
search, then one request and one upsert per opinion), the bulk load (`Bulk...`), `cap`
(`Cap...`: jurisdictions, volumes, a window of concurrent fetches completing in any order;
`Turn` is the check of the limit and the refill), and `populate-citations` (`Pop...`: known ids, then citing
rows, then an insert per edge). CourtListener publishes opinions of any date at any time. Faults:
a failed opinion, a quota stop, a killed process, a panicking fetch, a batch given up.
`searched` (courts some run-rest searched), `mixed` (courts a bulk load or a CAP run wrote) and
`excused` (opinions a run asked for in vain or that came later) are history.

**Opinions** is the text of an opinion as `kg.rs` and `extract.rs` see it: names of judges and
counsel in shapes the heuristics tell apart, cues of case types, outcome idioms per
family of courts. Text is a sequence of such pieces, not of characters.

**Ideology** is the score files: how a row's name matches a judge (`match_row`, with its
confidence), how a release of Martin-Quinn scores becomes one entry per justice, and which term
and source the gateway shows for a year (`resolve_mqs_for_year`). `Ascending` is the order of
a `BTreeMap`'s keys.

**Judges** runs `populate-kg`, `extract-features` and the importers over one graph.
The first two are a transaction each, which holds the rows it writes until
`PopulateCommit` or `ExtractCommit`; a statement on a row another one holds waits, and a
cycle of waits has a `Victim`. An `INSERT ... ON CONFLICT DO NOTHING` too waits for a row that is being updated. The importers match a row (`ImportMatch`) and update it
(`ImportUpdate`) in statements of their own. A name is extracted once per document and spelling, so
the counters of `run_extraction` are numbers of pairs: `Severity` and `WinRate` are cardinalities. A document is
marked (`features_extracted_at`) for all tenants at once, while tallies are a tenant's; of a judge of two courts the
tally written last stays; and the whole text is searched for judges, though a comment (`extract.rs:704`) speaks of the
header only. The model follows the code in all three. Setting the marks back by hand (`SPRINT_17_PLAN.md:99`) is left out.

Each property and invariant is stated at the end of its module. Each has a mutant: a
definition named "Variant:" just before the one it alters, a plausible slip in
that code under which TLC finds the property violated.

## Runs

| Run | Checks | Shows |
|---|---|---|
| `settings` | `TypeOK`, `AuditOnlyStored`, `PolicyKept`, `OkMeansAudited`, `EventuallyCoherent`, `CallsEnd` | overrides take effect within a cache lifetime and a fill, whatever races or fails |
| `settings_fresh` | `NextReadIsFresh` (violated) | an old value is cached again after an invalidation |
| `settings_audit` | `EveryChangeAudited` (violated) | the audited diff is taken against a stale base |
| `limiter` | `TypeOK`, `AdmissionBound`, `RetryHonoured` | bounded admissions, truthful `Retry-After` |
| `cases` | `TypeOK`, `ReportsTrue`, `NoHoldAndWait`, `AuditsOnlyCommitted`, `StoreKept`, `CallsEnd` | the case pipeline under every fault |
| `cases_latest` | `LatestShown` (violated) | a case may show a prediction that is not its newest |
| `paging` | `TypeOK`, `NothingSkipped`, `MissedOnlyLate`, `WalkEnds` | following Next skips nothing and ends |
| `paging_last` | `LastPageHasLast` (violated) | null `nextOffset` on a page without the final row |
| `corpus` | `TypeOK`, `NoHoleAboveCursor`, `OwnRows`, `EdgesInsertable`, `CapWithinLimit`, `WindowDrained`, `CitesKept`, `EdgesComplete`, `WalkReachesBottom` | ingestion loses nothing but what it was refused, whatever overlaps or dies; the walk ends at the bottom, or on a full window with nothing to store |
| `judges` | `TypeOK`, `TallyOfMarked`, `ScoresOnOwnCourt`, `OnlyExtractDeadlocks`, `ShownTermRight`, `CountedWhenMarked`, `BioKept` | an opinion is counted when it is marked, in no tally twice; no score, key or row of the graph is lost or misplaced |
| `judges_rerun` | `RecomputedFromScratch` (violated) | a rerun replaces a judge's tally by that over the new opinions alone |
| `gateway` | `TypeOK`, `WithdrawnInTime`, `AdviceBracketed`, `DearerNeverBolder`, `FederalNeverTried` | who is admitted, and what a stored case advises |

The five violated properties quote a comment, migration or test of the repository;
`PROJECT.json` "findings" has the quotations. None of them needs a fault. What the
code *does* guarantee in their place is stated by `PolicyKept` with `EventuallyCoherent`, `OkMeansAudited`,
`StoreKept`, `MissedOnlyLate`, and `CountedWhenMarked` with `TallyOfMarked`.

### Bounds

* `settings`: two features and two override values (one refuses one feature); one
  reader with two requests, of which one puts the refused row second; one update call, one
  admin session, two saves in all; TTL of 2 ticks, fills of at most 1. One
  call of each kind can repeat without bound, a stale fill needs one reader and one
  writer, a stale diff one writer of each kind; the proofs cover the rest.
* `limiter`: two requests, so that one can overtake the other; a capacity of two and a third
  tokens; windows of up to 8 ticks, longer than the 7 that fill the bucket.
* `cases`: one creator with up to two rows (and the refused sizes 0 and 3), two
  repredictors on a pool of two, four calls in all, a row of an import counting as one:
  both connections can be held across model calls while the import waits, and two
  repredicts can contend for one row.
  `MaxCalls` bounds the state space; `cases_latest` stops when it is used up, so
  that run does not check for deadlock.
* `paging`: up to six rows, three at the start, pages of two; insertions fall before,
  between and after the old rows, in each phase of the walk.
* `corpus`: two `run-rest` processes on a court of four opinions: one has no text, two have one date, the newest
  cites, the oldest has the number of a CAP case of another court, and dates of two do not parse in a search hit or in the dump. The
  scan window is two, so it moves down the court, can fall between two of a date, and can fill with opinions that are stored or
  blank: this is where a walk stalls although `rest.rs:236` has each run walk one page further back, and why
  `WalkReachesBottom` has two ends. A CAP volume of three with a window of two and a limit of one, so
  that a limit is met with a fetch in flight and a refill can be missed. Two processes at a
  time, one start of a command other than `run-rest`, and one failure: TLC puts each command between any two steps of `run-rest`; that bulk
  load, CAP and `populate-citations` may overlap one another too is left to the theorems, which hold for any number of starts.
* `judges`: two runs, two opinions that name one judge in two courts and in two spellings, and releases with a
  row for each way to match. A deadlock needs two rows and two transactions.
* `judges_rerun`: one run without faults; two opinions of one court and judge, of which the second arrives after the
  first was extracted.
* `gateway`: one operator moving between two tenants (symmetric), one token, one session and one login at a time, a
  `Pause` of one tick and a clock of four, longer than a pause, a session's life and leeway; motions at zero, beyond the cap and at
  the largest value of the word, which is 6 bits wide so that the sum wraps; answers in each band of confidence.
  The theorems cover every other instance.

The runs of Corpus, Judges and Gateway do not check for deadlock: processes end, the clock and the
number of requests are bounded, and an idle system is allowed to stay idle.

### Fairness

Weak fairness, of the steps a call takes once it has begun. It stands for:
tokio polls a future that can move; Postgres answers a statement; the model
answers or its deadline (30 s) passes, which both leave `ml`; the pool's acquire timeout
(5 s) bounds the wait for a connection. No fault is fair: a call may not
rely on failing in order to end, so an `UPDATE` waits as long as somebody holds the row lock.
`Corpus` assumes that while processes are under way one of them goes on (each is bounded, so they
all end), and strong fairness of starting a `run-rest` for each court of the cron list
(`scripts/courtlistener-daily.sh` starts one a day, but each start also needs room beside the processes still running). `Judges` and `Gateway` state safety only and assume no fairness.
Requests, disconnects, restarts and saves are not fair either: nobody has to act. `TenantSettings` also assumes time passes (`Tick`). `Paging` assumes the
operator clicks Next while there is one. A row lock's release is not assumed but follows:
its holder's own steps are fair.

## Proofs

TenantSettings, RateLimiter, Cases, Paging, Gateway, Corpus and Judges have a module of theorems each. They hold for every value of the
constants that satisfies `SettingsAssumption`, `LimiterAssumption`,
`CasesAssumption`, `PagingAssumption`, `CorpusAssumption`, `JudgesAssumption`, and `AccessAssumption`
with `WordAssumption` and `GatewayAssumption`: any number of calls, any faults.

* *Type correctness* of all seven. For TenantSettings it includes `Places`: readers never
  enter the update path; it is inductive as it stands. For RateLimiter it says that
  the bucket stays between zero and its capacity, which needs `Cost <= Minute` and
  nothing about clock skew. For Cases it is proved together with `Tallied` (the rows
  left of an import never drop below none) and `HasAnswer` (what is about to be written is
  an answer of the model).
* `PolicyRefined` (`Spec => PolicyKept`). Not inductive: what a reader releases
  depends on the value in its hands. The strengthening `Fresh` has three parts:
  the stored value is in the current tick's set, a fill's value was stored within
  `age` ticks, and a *live* entry's value within its age plus one fill. The third
  is why the window is `TTL + MaxFlight - 1`. `Tick` shifts `recent` by one as it ages
  both. Each step is then a `Store`, a `Reply` (with the value used as
  the witness), a `Shift`, or a stutter of OverridePolicy.
* `CoherentInTime` (`CoherentOnceQuiet`). What `Fresh` says once only one value was stored for the whole window: every
  fill and every live entry is of it. It is the bound within which `EventuallyCoherent` comes true.
* `AuditSound`, `OkIsAudited`. The strengthening `Accounted` adds: a save past its
  commit has stored its value, and the rows it has written are for keys it found changed.
* `AdmissionBounded`. `AdmissionBound` is not inductive since the bucket could be
  full at the end of a window; `Conserved` adds what is left: tokens plus admissions are at most
  a full bucket plus the refill already credited, which is the window's age minus the
  bucket's lag. A rewind moves lag up and `rewound` pays for it.
* `RetryAfterHonoured`. `PromiseKept`: tokens, lag and the promised wait together
  make a token, as long as no other request is admitted.
* `StoreRefined` (`Spec => StoreKept`). `TablesChange`: a step leaves the tables
  alone, stores a case or replaces a prediction. Storing is `Create`; replacing is
  `Repredict`, which needs `CaseFound`: the case an open transaction found is
  still there, since no step removes one (`TablesStep`).
* `NeverHoldAndWait`. `HoldsInTx` (a call has a connection exactly while its
  transaction is open) and `LocksOpen` (a row lock belongs to a transaction about to commit,
  and nobody else has it) are inductive, and together give `NoHoldAndWait`.
* `ReportsTold`. A new case's id is larger than that of any case stored, and what is reported
  is stored, so the id is new to every report.
* `AuditsCommitted`. Inductive as it stands, given that tables only grow.
* `WorkBounded`, of TenantSettings and of Cases (`BoundedWork`). `StepsLeft` counts what a call has still to do, from its
  place, its load's purpose and the rows or features left. Each step of the call takes from it; no step of another
  call, expiry, invalidation, new case or restart adds to it. With `NeverHoldAndWait` for Cases this is the safety
  half of `CallsEnd`: no call is sent round again, and none waits in a circle.
* `NoneSkipped`. `NothingSkipped` is inductive: positions are an injection below the
  size of the table, an insertion moves a row back by at most one place, and never forward,
  so every row of the start that lies before an offset has been seen.
* `MissedAreLate`. Two strengthenings: `Counted` (the rows not counted are the late
  ones) and `LastPage` (what a last page leaves out lies behind the counted rows);
  `RowsBehind` bounds how many rows lie behind a position.
* `NextLeadsOn` (`LinksLeadOn`). A page that is shown with a Next is full (`PageFull`): it lies below the counted rows and
  so below the stored ones. So the link leads one page on, to a row that is there, which is why `WalkEnds` holds.
* `Withdrawal` (`WithdrawnInTime`). Not inductive: it speaks of requests, which come from sessions
  minted earlier. `HeldIsLast` (the history is now for who is active, and never ahead of the clock),
  `LoginsHeld` (an operator was active in the tenant a login read when it read it, at most `Pause` ago) and
  `SessionsHeld` (a session expires at most a pause and a life after its operator was last
  active in its tenant) are added. Every step of Access is `Onward`: it keeps clock and
  history from going back and dates no revocation before now, so requests under way stay right.
* `Bracketing`, `Dearer`, `Federal`. The invariant `AdviceIsOwn` (a stored case has the advice
  of its own input and answer) reduces each to arithmetic about `AdviceOn`. The cost is monotone
  in the motions as long as the sum of months does not wrap (`ChargedMonotone`); where it
  wraps, there are more than 50 motions and the cost exceeds the damages all the same
  (`ChargedBeyondDamages`), so the advice is at its most cautious. Since the word's size is a constant,
  this covers 32 bits.

* `Owned`, `Kept`. `RowsOk`: what is CourtListener's and what has citations is from the archive. Every
  step leaves the table alone, upserts from the archive or inserts a CAP case (`DocsStep`), so no row
  and no citations are lost (`RowsStep`).
* `NoBrokenInsert`, `Complete`. `PopOk`: the ids loaded at the start are still stored, and what was due then
  is still due when the citing rows are read, since rows and citations stay.
* `WithinLimit`, `Drained`. `LimitOk`: no fetch is under way once the limit is met. `WindowOk`: cases left
  are different ones and not in flight (a listing has no duplicates), and while there are any, flight and panics
  together fill the window.
* `NoHole`. The property speaks of the oldest row only; `WalkOk` adds that nothing is missing above *any* dated
  row of an unmixed court, above the cursor of a run that is about to search, and above each
  candidate of a run but the candidates before it. A search returns what is newer than each of its
  results (`CandidatesUpward`, for any scan size), a run takes the newest first, and `Forward` says
  that what was found stays found, so other runs, stops and late publications cannot open a hole.
  It assumes a finite archive.

* *Judges*: one inductive invariant, `IInv`, for all of it. The proofs sort the actions into what they do to the
  tables: most move one run along (`Moves`) and leave the graph alone; the two commits and the importers' update
  change a judge's row in one of three ways (`RowChange`, collected in `Changes`). `TypeOK` is not inductive by itself: a score
  is put on the judge an importer found in an earlier transaction, so it needs `MatchHolds`.
* `NoCircle` (`OnlyExtractDeadlocks`). `Rank` numbers the rows in the order in which populate-kg writes them: courts
  before judges, each in alphabetical order. `Upward`: what a run holds ranks below what is left on its list, and
  its list rises. So a run waits for a row of a lower rank than the run it waits for does (`WaitsForLater`), and of the
  ranks waited for in a cycle none is the greatest, though they are finitely many. It needs that `Ascending` sorts
  (`AscendingOrder`), and holds for any number of runs and any lists of courts and judges. An importer has one
  statement to a transaction and holds no row while it waits (`HoldersPopulate`), so it closes no circle.
* `OwnCourt` (`ScoresOnOwnCourt`). `MatchHolds`: the judge a match found is still of the same court when
  the score is written, since no command gives a judge another court, or takes the row away (`RowsKept`). The same
  lemma is `Kept` (`BioKept`).
* `NotCountedTwice` (`TallyOfMarked`). `PatchRight`: a tally about to be written is of one court of the run's own batch, which
  is stored. `RateChange` and `CommitMarks`: a commit that writes tallies or rates marks its batch, and `MarkedGrows`: a mark stays.
* `Together` (`CountedWhenMarked`). `AllTallied`: each judge of the batch has a tally ready to be written or is still on the list, so at the
  commit, where the list is empty, all have one (`CommitCounts`). It speaks of the step that marks; how long the count
  lasts it leaves open, since a later run replaces it (`judges_rerun`).
* `RightTerm` (`ShownTermRight`) follows from the types: a score on a judge is an entry of the release, whose series
  has for each term the last row of it (`SeriesRows`), and `Max` over the scored terms is the greatest
  (`MaxIsGreatest`). Releases may be of any length.

`JudgesAssumption` says of the constants what they stand for: finitely many documents, courts and names listed once, and
sentinels that are no value of their column.

`CoherentOnceQuiet`, `BoundedWork` and `LinksLeadOn` are in no .cfg, since the liveness properties there need them; TLC
finds them to hold on the instances of `settings`, `cases` and `paging` too.

Only model-checked: the liveness properties (`EventuallyCoherent`, `CallsEnd`,
`WalkEnds`, `WalkReachesBottom`), which need ENABLED and fairness and are out of the prover's
reach (the safety the first three rest on is proved: `CoherentInTime`, `WorkBounded`, `NextLeadsOn`); and
what `Opinions` makes of a text: the theorems about Judges hold for any names, case types and outcomes
it may find, so none says that they are the right ones.

## Not modelled, and why

* f64 rounding of the bucket; RATE_LIMIT_RPM = 0 (the refill rate would be zero).
* f32 rounding of probabilities at a threshold: an answer is compared as f64 after it was an
  f32, which moves it by less than 1e-7; the instance keeps off the thresholds (`GridAssumption`).
* Row-level security: every model but Gateway is of one tenant. The queries name the tenant in
  `WHERE` and the policies repeat it; no step of one tenant reads another's rows.
* Passwords and their reset, adding an operator, signatures and hashes of tokens.
* `predictCaseOutcome` (stores nothing), `ingest_feature` (one INSERT), the read queries besides
  the list, Django's CRUD, most of the front end.
* Regular expressions and wording: Opinions takes text as pieces of the shapes they tell apart; bullets and notes of a
  recommendation are left out.
* The functions of `decision-arith` and `cost-engine` the gateway never calls; `monte-carlo-sim`
  (sampling over f64); training and promotion (offline numeric jobs); the model service, which is an answer or a
  failure here; stubs and deployment (no state).

## Plan

1. Done: TenantSettings, RateLimiter, Cases, Paging, with runs and proofs.
2. Done: Access, Advice and Gateway, with a run and proofs.
3. Done: Corpus and Judges, with runs and proofs.
4. Left to model, if there is room: reset tokens (issue, confirm with its unlocked check, a crash between the
   saves, expiry), and the model service's champion cache.

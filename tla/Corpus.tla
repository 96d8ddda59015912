-------------------------------- MODULE Corpus --------------------------------
(***************************************************************************)
(* The commands of ingest-fetcher that fill the public corpus: run-rest,   *)
(* run (bulk dump), cap and populate-citations.  Each is a process of its  *)
(* own, started by cron or by hand, with no lock between them; they meet   *)
(* in case_documents.  A step is one request or one statement.  A request  *)
(* that is throttled is repeated once inside get_with_retry, after the     *)
(* wait the answer asks for, which for the daily quota is most of a day:   *)
(* two cron runs of one court overlap.                                     *)
(* Source: rust/ingest-fetcher/src/{main,rest,db,parse,cap,citations}.rs   *)
(* and scripts/courtlistener-daily.sh.                                     *)
(***************************************************************************)
EXTENDS CaseDocuments, Sequences, Functions

CONSTANTS
  Runs,         \* run-rest processes that may exist at the same time
  Archive,      \* CourtListener: the opinion behind each of its ids
  Blank,        \* ids whose plain_text is missing or blank
  Undated,      \* ids whose date does not parse, in a "search" hit and in the "dump"
  First,        \* ids CourtListener has from the start
  Cron,         \* the courts run-rest is started for
  Target,       \* --target
  Threshold,    \* rows from which a run walks backward (20)
  MinScan, MaxScan, \* the clamp of scan_size (40, 200)
  CapVolumes,   \* static.case.law: jurisdictions in command line order, each with its
                \* volumes, newest first, as sequences of case ids
  CapDates,     \* decision_date of each case, NoDate where it does not parse
  CapStubs,     \* cases without an opinion text
  CapLimit,     \* --limit
  Window,       \* CONCURRENT_FETCHES (10)
  Starts,       \* bound: how many other commands are started
  Active,       \* bound: how many processes there are at a time
  Faults        \* bound: how often a run-rest fails

\* list_case_urls sorts its URLs and drops duplicates.
Volume == {v \in Seq(Ids) : IsInjective(v)}

ASSUME CorpusAssumption ==
  /\ Ids \subseteq Nat /\ IsFiniteSet(Ids)
  /\ Archive \in [DOMAIN Archive -> Opinion] /\ DOMAIN Archive \subseteq Ids
  /\ \A i \in DOMAIN Archive : Archive[i].cites # NotFetched /\ Archive[i].date # NoDate
  /\ Blank \cup First \subseteq DOMAIN Archive
  /\ Undated \in [{"search", "dump"} -> SUBSET DOMAIN Archive]
  /\ Cron \subseteq Courts /\ NoDate \notin Nat /\ NotAnOpinion \notin Ids
  /\ NoRow \notin Row
  /\ CapVolumes \in Seq([court : Courts, volumes : Seq(Volume)])
  /\ CapDates \in [Ids -> Nat \cup {NoDate}]
  /\ {Target, Threshold, MinScan, MaxScan, CapLimit, Window} \subseteq Nat
  /\ Window > 0 /\ {Starts, Active, Faults} \subseteq Nat

VARIABLES
  published,  \* what CourtListener has now
  rest,       \* one record per run-rest process
  bulk,       \* the run command
  cap,        \* the cap command
  pop,        \* the populate-citations command
  starts,     \* how many other commands were started
  faults,     \* how often a run-rest failed
  searched,   \* history: courts run-rest ever searched
  mixed,      \* history: courts written by a bulk run or a CAP run
  excused     \* history: opinions not stored because a request failed or they were
              \* published after the first search

history == <<searched, mixed, excused>>
others == <<bulk, cap, pop, starts>>
vars == <<store, published, rest, faults, others, history>>

IdleRest == [at |-> "idle"]
IdleBulk == [at |-> "idle"]
IdleCap == [at |-> "idle"]
IdlePop == [at |-> "idle"]

Init ==
  /\ docs = [i \in Ids |-> NoRow] /\ edges = {}
  /\ published = First
  /\ rest = [r \in Runs |-> IdleRest]
  /\ bulk = IdleBulk /\ cap = IdleCap /\ pop = IdlePop
  /\ starts = 0 /\ faults = 0
  /\ searched = {} /\ mixed = {} /\ excused = {}

Room ==
  Cardinality({r \in Runs : rest[r].at # "idle"})
  + Cardinality({n \in 1..3 : <<bulk.at, cap.at, pop.at>>[n] # "idle"}) < Active

\* One of the other commands is started.
Start == Room /\ starts < Starts /\ starts' = starts + 1

-----------------------------------------------------------------------------
(* run-rest: fetch_and_upsert_via_rest.                                      *)

Slugs == {Archive[i].court : i \in DOMAIN Archive}

RestOnly == UNCHANGED <<edges, published, others>>

\* load_existing_opinion_ids: the snapshot the whole run skips by.
RestStart(r, c) ==
  /\ rest[r].at = "idle" /\ Room
  /\ rest' = [rest EXCEPT ![r] = [at |-> "cursor", court |-> c, known |-> StoredIn(c)]]
  /\ UNCHANGED <<docs, faults, history>> /\ RestOnly

\* load_oldest_date_filed, read after the snapshot.
RestCursor(r) ==
  /\ rest[r].at = "cursor"
  /\ LET run == rest[r]
     IN  rest' = [rest EXCEPT ![r] =
           [at |-> "search", court |-> run.court, known |-> run.known,
            before |-> IF Cardinality(run.known) >= Threshold
                       THEN OldestDate(run.court) ELSE NoDate]]
  /\ UNCHANGED <<docs, faults, history>> /\ RestOnly

ScanSize ==
  LET twice == 2 * Target
  IN  IF twice < MinScan THEN MinScan ELSE IF twice > MaxScan THEN MaxScan ELSE twice

\* Variant: the search without order_by=dateFiled desc.
Lower(i, j) == i < j

\* order_by=dateFiled desc; those of one date in some order of their own.
Newer(i, j) == \/ Archive[i].date > Archive[j].date
               \/ Archive[i].date = Archive[j].date /\ i < j

\* The search service, external: the court's opinions filed no later than the
\* cursor.
Hit(i, c, before) ==
  i \in published /\ Archive[i].court = c /\ (before # NoDate => Archive[i].date <= before)

\* enumerate_via_search: the newest, as many as the scan size; the next link is a
\* cursor, so what is published meanwhile does not shift the pages.
Candidates(c, before) ==
  {i \in published :
     /\ Hit(i, c, before)
     /\ Cardinality({j \in published : Hit(j, c, before) /\ Newer(j, i)}) < ScanSize}

RestSearch(r) ==
  /\ rest[r].at = "search"
  /\ LET run == rest[r]
     IN  /\ rest' = [rest EXCEPT ![r] =
              [at |-> "hydrate", court |-> run.court, known |-> run.known,
               left |-> Candidates(run.court, run.before), stored |-> 0]]
         /\ searched' = searched \cup {run.court}
  /\ UNCHANGED <<docs, faults, mixed, excused>> /\ RestOnly

\* The candidates not gone through yet.
Left(r) == IF rest[r].at = "hydrate" THEN rest[r].left ELSE {}

\* The newest of them, while the target is not met.
Wanted(r, i) ==
  /\ i \in Left(r) /\ \A j \in Left(r) : ~Newer(j, i)
  /\ rest[r].stored < Target
Passed(r, i) == [rest EXCEPT ![r].left = @ \ {i}]

\* Variant: what is in the database already counts towards the target.
RestSkipCounted(r, i) ==
  /\ Wanted(r, i) /\ i \in rest[r].known
  /\ rest' = [Passed(r, i) EXCEPT ![r].stored = @ + 1]
  /\ UNCHANGED <<docs, faults, history>> /\ RestOnly

RestSkip(r, i) ==
  /\ Wanted(r, i) /\ i \in rest[r].known
  /\ rest' = Passed(r, i)
  /\ UNCHANGED <<docs, faults, history>> /\ RestOnly

\* The row a source gives of an opinion: without a date if that does not parse.
Read(i, source) == IF i \in Undated[source] THEN [Archive[i] EXCEPT !.date = NoDate] ELSE Archive[i]

\* hydrate_opinion answers with a text and upsert_opinions writes it, under the
\* date of the search hit.
RestStore(r, i) ==
  /\ Wanted(r, i) /\ i \notin rest[r].known \cup Blank
  /\ Upsert(i, Read(i, "search"))
  /\ rest' = [Passed(r, i) EXCEPT ![r].stored = @ + 1]
  /\ excused' = excused \ {i}
  /\ UNCHANGED <<faults, searched, mixed>> /\ RestOnly

\* plain_text is missing or blank: hydrate_opinion returns Ok(None).
RestBlank(r, i) ==
  /\ Wanted(r, i) /\ i \in Blank \ rest[r].known
  /\ rest' = Passed(r, i)
  /\ UNCHANGED <<docs, faults, history>> /\ RestOnly

Fault == faults < Faults /\ faults' = faults + 1

\* The request, its decoding or the upsert fails: the run goes on.
RestError(r, i) ==
  /\ Wanted(r, i) /\ i \notin rest[r].known
  /\ rest' = Passed(r, i)
  /\ excused' = (excused \cup {i}) \ Stored
  /\ Fault
  /\ UNCHANGED <<docs, searched, mixed>> /\ RestOnly

RestEnd(r) ==
  /\ rest[r].at = "hydrate" /\ (Left(r) = {} \/ rest[r].stored >= Target)
  /\ rest' = [rest EXCEPT ![r] = IdleRest]
  /\ UNCHANGED <<docs, faults, history>> /\ RestOnly

\* The repeated request meets the daily quota too, the search or a query fails,
\* or the process dies.
RestStops(r) ==
  /\ rest[r].at # "idle"
  /\ rest' = [rest EXCEPT ![r] = IdleRest]
  /\ Fault
  /\ UNCHANGED <<docs, history>> /\ RestOnly

-----------------------------------------------------------------------------
(* run: download, parse, upsert_opinions over the whole batch.               *)

BulkOnly == UNCHANGED <<edges, published, rest, faults, cap, pop>>

\* The dump is of any age, and entries that do not parse are left out.
BulkStart(c) ==
  /\ bulk.at = "idle"
  /\ Start
  /\ \E dump \in SUBSET {i \in published : Archive[i].court = c} :
       bulk' = [at |-> "upsert", todo |-> dump]
  /\ UNCHANGED <<docs, history>> /\ BulkOnly

\* The dump has no citations; its date replaces the row's, parsed or not.
FromDump(i) == [Read(i, "dump") EXCEPT !.cites = NotFetched]

BulkUpsert(i) ==
  /\ bulk.at = "upsert" /\ i \in bulk.todo
  /\ Upsert(i, FromDump(i))
  /\ bulk' = [bulk EXCEPT !.todo = @ \ {i}]
  /\ mixed' = mixed \cup {Archive[i].court}
  /\ excused' = excused \ {i}
  /\ UNCHANGED <<starts, searched>> /\ BulkOnly

\* The batch is done, or a row failed and the ? gave up the others.
BulkEnd ==
  /\ bulk.at = "upsert"
  /\ bulk' = IdleBulk
  /\ UNCHANGED <<docs, starts, history>> /\ BulkOnly

-----------------------------------------------------------------------------
(* cap: run_ingest.                                                          *)

CapOnly == UNCHANGED <<edges, published, rest, faults, bulk, pop, searched, excused>>
CapReads == CapOnly /\ UNCHANGED <<docs, mixed>>

\* ingested + skipped; both count against --limit.
Full == cap.done >= CapLimit

CapStart ==
  /\ cap.at = "idle"
  /\ Start
  /\ cap' = [at |-> "walk", courts |-> CapVolumes, volumes |-> <<>>, court |-> NoRow,
             urls |-> <<>>, flight |-> {}, panics |-> 0, done |-> 0]
  /\ CapReads

\* list_volumes; a listing that fails leaves the jurisdiction out.
CapListCourt ==
  /\ cap.at = "walk" /\ cap.volumes = <<>> /\ cap.courts # <<>> /\ ~Full
  /\ \E listed \in {Head(cap.courts).volumes, <<>>} :
       cap' = [cap EXCEPT !.courts = Tail(@), !.volumes = listed,
                          !.court = Head(cap.courts).court]
  /\ UNCHANGED starts /\ CapReads

Min2(a, b) == IF a < b THEN a ELSE b

\* list_case_urls and the seeding of the JoinSet.
CapListVolume ==
  /\ cap.at = "walk" /\ cap.volumes # <<>> /\ ~Full
  /\ LET urls == Head(cap.volumes)
         seeds == Min2(Window, Len(urls))
     IN  cap' = [cap EXCEPT !.at = "drain", !.volumes = Tail(@), !.panics = 0,
                   !.flight = {urls[n] : n \in 1..seeds},
                   !.urls = SubSeq(urls, seeds + 1, Len(urls))]
  /\ UNCHANGED starts /\ CapReads

CapSkipVolume ==
  /\ cap.at = "walk" /\ cap.volumes # <<>> /\ ~Full
  /\ cap' = [cap EXCEPT !.volumes = Tail(@)]
  /\ UNCHANGED starts /\ CapReads

\* Variant: a case that is not counted is not replaced in flight.
TurnNoRefill(u, counted) ==
  LET n == Min2(counted, Len(cap.urls))
  IN  IF cap.done + counted >= CapLimit
      THEN [cap EXCEPT !.done = @ + counted, !.at = "walk", !.flight = {}, !.urls = <<>>]
      ELSE [cap EXCEPT !.done = @ + counted,
              !.flight = (@ \ {u}) \cup {cap.urls[k] : k \in 1..n},
              !.urls = SubSeq(@, n + 1, Len(@))]

\* Variant: the limit is only looked at between volumes.
TurnUnlimited(u, counted) ==
  LET n == Min2(1, Len(cap.urls))
  IN  [cap EXCEPT !.done = @ + counted,
         !.flight = (@ \ {u}) \cup {cap.urls[k] : k \in 1..n},
         !.urls = SubSeq(@, n + 1, Len(@))]

\* After a completion: the limit aborts what is in flight, else the next URL
\* takes its place.
Turn(u, counted) ==
  LET n == Min2(1, Len(cap.urls))
  IN  IF cap.done + counted >= CapLimit
      THEN [cap EXCEPT !.done = @ + counted, !.at = "walk", !.flight = {}, !.urls = <<>>]
      ELSE [cap EXCEPT !.done = @ + counted,
              !.flight = (@ \ {u}) \cup {cap.urls[k] : k \in 1..n},
              !.urls = SubSeq(@, n + 1, Len(@))]

\* The fetches complete in any order.  An opinion_id that is taken is skipped.
CapStore(u) ==
  /\ cap.at = "drain" /\ u \in cap.flight \ CapStubs
  /\ InsertCap(u, CapRow(cap.court, CapDates[u]))
  /\ cap' = Turn(u, 1)
  /\ mixed' = mixed \cup {cap.court}
  /\ UNCHANGED starts /\ CapOnly

\* A stub, a bad answer or a failed insert.
CapPass(u) ==
  /\ cap.at = "drain" /\ u \in cap.flight
  /\ cap' = Turn(u, 0)
  /\ UNCHANGED starts /\ CapReads

\* A fetch task that panics is not replaced.
CapPanic(u) ==
  /\ cap.at = "drain" /\ u \in cap.flight
  /\ cap' = [cap EXCEPT !.flight = @ \ {u}, !.panics = @ + 1]
  /\ UNCHANGED starts /\ CapReads

CapVolumeDone ==
  /\ cap.at = "drain" /\ cap.flight = {}
  /\ cap' = [cap EXCEPT !.at = "walk", !.urls = <<>>]
  /\ UNCHANGED starts /\ CapReads

\* Nothing is left, the limit is reached, or the process dies.
CapEnd ==
  /\ cap.at # "idle"
  /\ cap' = IdleCap
  /\ UNCHANGED starts /\ CapReads

-----------------------------------------------------------------------------
(* populate-citations.                                                       *)

PopOnly == UNCHANGED <<docs, published, rest, faults, bulk, cap, history>>

Captured(i) == i \in Stored /\ docs[i].cites # NotFetched
Cited(i) == docs[i].cites \cap Ids

\* The ids of the corpus are loaded first; due is history: the edges that could
\* be resolved at that moment.
PopStart ==
  /\ pop.at = "idle"
  /\ Start
  /\ pop' = [at |-> "scan", known |-> Stored,
             due |-> {e \in Ids \X Ids : Insertable(e) /\ Captured(e[1]) /\ e[2] \in Cited(e[1])}]
  /\ UNCHANGED edges /\ PopOnly

\* Variant: no look at known_ids.
ResolvedAnyhow(i, known) == {j \in Cited(i) : j # i}

\* Variant: an order instead of the self-loop check.
ResolvedOlder(i, known) == {j \in Cited(i) : j < i /\ j \in known}

\* The edges of row i: what is no opinion, itself or not known is left out.
Resolved(i, known) == {j \in Cited(i) : j # i /\ j \in known}

\* The citing rows are loaded by a later statement.
PopScan ==
  /\ pop.at = "scan"
  /\ pop' = [at |-> "insert", due |-> pop.due,
             todo |-> UNION {{i} \X Resolved(i, pop.known) : i \in {j \in Ids : Captured(j)}}]
  /\ UNCHANGED <<edges, starts>> /\ PopOnly

\* ON CONFLICT DO NOTHING; a broken constraint would end the run.
PopInsert ==
  /\ pop.at = "insert"
  /\ \E e \in pop.todo :
       /\ Insertable(e)
       /\ edges' = edges \cup {e}
       /\ pop' = [pop EXCEPT !.todo = @ \ {e}]
  /\ UNCHANGED starts /\ PopOnly

PopEnd ==
  /\ pop.at = "insert" /\ pop.todo = {}
  /\ pop' = IdlePop
  /\ UNCHANGED <<edges, starts>> /\ PopOnly

PopDies ==
  /\ pop.at # "idle"
  /\ pop' = IdlePop
  /\ UNCHANGED <<edges, starts>> /\ PopOnly

-----------------------------------------------------------------------------
\* CourtListener publishes an opinion, of any date.
Publish(i) ==
  /\ i \notin published
  /\ published' = published \cup {i}
  /\ excused' = IF Archive[i].court \in searched THEN excused \cup {i} ELSE excused
  /\ UNCHANGED <<store, rest, faults, others, searched, mixed>>

RestStep(r) ==
  \/ RestCursor(r) \/ RestSearch(r) \/ RestEnd(r)
  \/ \E i \in Left(r) : RestSkip(r, i) \/ RestStore(r, i) \/ RestBlank(r, i)

RestNext(r) ==
  \/ \E c \in Cron : RestStart(r, c)
  \/ \E i \in Left(r) : RestError(r, i)
  \/ RestStep(r) \/ RestStops(r)

BulkStep == BulkEnd \/ \E i \in DOMAIN Archive : BulkUpsert(i)

CapStep ==
  \/ CapListCourt \/ CapListVolume \/ CapSkipVolume \/ CapVolumeDone \/ CapEnd
  \/ \E u \in Ids : CapStore(u) \/ CapPass(u) \/ CapPanic(u)

PopStep == PopScan \/ PopInsert \/ PopEnd \/ PopDies

Next ==
  \/ \E r \in Runs : RestNext(r)
  \/ \E c \in Slugs : BulkStart(c)
  \/ CapStart \/ PopStart
  \/ BulkStep \/ CapStep \/ PopStep
  \/ \E i \in DOMAIN Archive : Publish(i)

\* cron starts a run for every court of its list again and again, and while
\* processes are under way one of them goes on.
Fairness ==
  /\ WF_vars(BulkStep \/ CapStep \/ PopStep \/ \E r \in Runs : RestStep(r))
  /\ \A c \in Cron : SF_vars(\E r \in Runs : RestStart(r, c))

Spec == Init /\ [][Next]_vars /\ Fairness

-----------------------------------------------------------------------------
CursorRun == [at : {"cursor"}, court : Courts, known : SUBSET Ids]
SearchRun == [at : {"search"}, court : Courts, known : SUBSET Ids, before : Nat \cup {NoDate}]
HydrateRun == [at : {"hydrate"}, court : Courts, known : SUBSET Ids,
               left : SUBSET DOMAIN Archive, stored : 0..Target]
RestType == rest \in [Runs -> {IdleRest} \cup CursorRun \cup SearchRun \cup HydrateRun]

BulkType == bulk = IdleBulk \/ bulk \in [at : {"upsert"}, todo : SUBSET DOMAIN Archive]

CapRun ==
  [at : {"walk", "drain"}, courts : Seq([court : Courts, volumes : Seq(Volume)]),
   volumes : Seq(Volume), court : Courts \cup {NoRow}, urls : Seq(Ids),
   flight : SUBSET Ids, panics : Nat, done : Nat]
CapType == cap = IdleCap \/ cap \in CapRun

PopType ==
  \/ pop = IdlePop
  \/ pop \in [at : {"scan"}, known : SUBSET Ids, due : SUBSET (Ids \X Ids)]
  \/ pop \in [at : {"insert"}, todo : SUBSET (Ids \X Ids), due : SUBSET (Ids \X Ids)]

\* The type of every variable.
TypeOK ==
  /\ StoreTypeOK
  /\ published \subseteq DOMAIN Archive /\ excused \subseteq DOMAIN Archive
  /\ RestType /\ BulkType /\ CapType /\ PopType
  /\ starts \in Nat /\ faults \in Nat
  /\ searched \subseteq Courts /\ mixed \subseteq Courts

\* What run-rest resumes by: in a court that only run-rest ever wrote, however its
\* runs fail and overlap, everything newer than the oldest stored opinion is stored too, but for
\* blank opinions, those a run asked for in vain and those published later.  Resuming
\* below the oldest date (rest.rs:152) is right only as far as this holds.
NoHoleAboveCursor ==
  \A c \in Courts \ mixed, i \in published :
    /\ Archive[i].court = c
    /\ OldestDate(c) # NoDate /\ Archive[i].date > OldestDate(c)
    => i \in Stored \cup Blank \cup excused

\* A row under a CourtListener opinion's id that says courtlistener belongs to
\* that opinion: a CAP case with the same number never replaces it.
OwnRows ==
  \A i \in Stored : docs[i].source = "courtlistener" => docs[i].court = Archive[i].court

\* No insert of populate-citations can break a constraint and end the run.
EdgesInsertable == pop.at = "insert" => \A e \in pop.todo : Insertable(e)

\* A cap run counts no more cases than --limit, whatever is in flight.
CapWithinLimit == cap.at # "idle" => cap.done <= CapLimit

\* When no fetch is in flight every listed case of the volume has been fetched,
\* unless as many tasks panicked as the window is wide.
WindowDrained ==
  cap.at = "drain" /\ cap.flight = {} => cap.urls = <<>> \/ cap.panics >= Window

\* Citations REST captured are never lost to a bulk dump or a CAP case, which
\* have none.
CitesKept == [][\A i \in Ids : Captured(i) => Captured(i)' /\ docs'[i].cites = docs[i].cites]_vars

\* A populate-citations run that ends by itself leaves every edge that could be
\* resolved when it began, whatever is ingested meanwhile.
EdgesComplete == [][PopEnd => pop.due \subseteq edges']_vars

\* Where the walk of a court is done: nothing at or below the oldest stored date
\* is missing but what was excused.
Reached(c) ==
  \A i \in published : Hit(i, c, OldestDate(c)) => i \in Stored \cup Blank \cup excused

\* Where it can get no further: the window below the cursor the next run starts
\* from is full, and there is nothing in it to store.
NextCursor(c) == IF Cardinality(StoredIn(c)) >= Threshold THEN OldestDate(c) ELSE NoDate
Stalled(c) ==
  LET window == Candidates(c, NextCursor(c))
  IN  Cardinality(window) = ScanSize /\ window \subseteq Stored \cup Blank

\* When runs fail finitely often, overlap and mix with the other commands, the walk
\* of every court ends in one of two ways: at the bottom, or, short of it, on a
\* full window (scan_size, rest.rs:163) of opinions that are stored already or
\* blank.  That window comes back in every later run, since only a stored opinion
\* moves the cursor; nothing else stops the walk.
WalkReachesBottom == \A c \in Cron : <>[](Reached(c) \/ Stalled(c))

=============================================================================

-------------------------------- MODULE Judges --------------------------------
(***************************************************************************)
(* The knowledge graph's courts, judges and attorneys and the commands     *)
(* that write them: populate-kg and extract-features, one transaction      *)
(* each, and the three score importers, one statement a row.               *)
(* Source: rust/ingest-fetcher/src/{kg,extract}.rs,                        *)
(*         rust/{dime,jcs,mqs}-ingest/src/main.rs.                         *)
(*                                                                         *)
(* Transactions are read committed.  What one writes is here when it       *)
(* commits; until then it holds the rows, and a write to one of them       *)
(* waits.  PostgreSQL ends a cycle of waits by failing one of its members. *)
(***************************************************************************)
EXTENDS Opinions, Ideology

CONSTANTS
  Runs,       \* processes: each runs one command at a time
  Tenants,
  Docs,       \* opinions that may come to be stored in case_documents
  Text,       \* their court and text
  First,      \* those stored at the start
  Courts,     \* the slugs of their courts, in alphabetical order
  Keys,       \* normalised names of judges, in alphabetical order
  Counsel,    \* normalised names of attorneys
  Release,    \* the rows of each source's CSV
  Scotus,     \* the court mqs-ingest is told its justices are of
  Years,      \* the years the gateway is asked about
  None,       \* a column, or a key of a bio, that is not there
  Faults      \* bound: processes killed

VARIABLES
  corpus,     \* the stored opinions
  features,   \* case_documents' case_type, outcome_for, primary_judge_name
  courts,     \* per tenant, the jurisdiction of each court with a row
  judges,     \* per tenant and name
  attorneys,  \* per tenant and name, bio.win_rate_proxy
  run,        \* what each process is doing
  faults

vars == <<corpus, features, courts, judges, attorneys, run, faults>>
graph == <<courts, judges, attorneys>>

Idle == [pc |-> "idle"]

\* The members of S that a list names, in its order.
InOrder(S, all) ==
  LET at == Ascending({i \in DOMAIN all : all[i] \in S})
  IN  [n \in DOMAIN at |-> all[at[n]]]

NewJudge(court) == [court |-> court, severity |-> None, martin_quinn |-> NoScore,
                    judicial_common_space |-> NoScore, bonica_dime |-> NoScore]

HeadNames == [d \in Docs |-> JudgeNames(Text[d].head)]
AllNames == [d \in Docs |-> JudgeNames(Text[d].head \o Text[d].body)]
CounselNames == [d \in Docs |-> AttorneyNames(Text[d])]
EntriesOf == [s \in Sources |-> Entries(s, Release[s], Scotus)]
KeysOf(names) == {Normalize(names[i]) : i \in DOMAIN names}

Init ==
  /\ corpus = First
  /\ features = [d \in Docs |-> None]
  /\ courts = [t \in Tenants |-> [c \in ToSet(Courts) |-> NoCourt]]
  /\ judges = [t \in Tenants |-> [k \in ToSet(Keys) |-> NoJudge]]
  /\ attorneys = [t \in Tenants |-> [a \in Counsel |-> None]]
  /\ run = [r \in Runs |-> Idle]
  /\ faults = 0

----------------------------------------------------------------------------
(* Rows held and waits *)

\* What r's next statement writes, if it writes one row.
Item(r) ==
  CASE run[r].pc \in {"courts", "judges", "docs", "severity", "winrates"} /\ run[r].todo # <<>> ->
         <<run[r].pc, Head(run[r].todo)>>
    [] run[r].pc = "update" -> <<"update", run[r].hit.judge>>
    [] OTHER -> <<>>

\* The row of a table an item is about: documents have no tenant.
RowOf(r, item) ==
  CASE item[1] = "courts" -> <<"courts", run[r].tenant, item[2]>>
    [] item[1] \in {"judges", "update"} -> <<"judges", run[r].tenant, item[2]>>
    [] item[1] = "severity" -> <<"judges", run[r].tenant, item[2][2]>>
    [] item[1] = "winrates" -> <<"attorneys", run[r].tenant, item[2]>>
    [] item[1] = "docs" -> <<"case_documents", item[2]>>

Held(r) == IF run[r].pc \in {"idle", "match", "update"} THEN {} ELSE run[r].held

\* The runs r's next statement waits for: ON CONFLICT DO NOTHING too waits for
\* whoever is inserting the row, or updating one that is there.
Blockers(r) ==
  LET item == Item(r)
  IN  {q \in Runs \ {r} : item # <<>> /\ RowOf(r, item) \in Held(q)}

\* Every member waits for another one, all for different ones: a cycle.
Deadlocked(S) ==
  /\ S # {}
  /\ \A r \in S : Blockers(r) \cap S # {}
  /\ S = UNION {Blockers(r) \cap S : r \in S}

----------------------------------------------------------------------------
(* populate-kg *)

PopulateStart(r, t) ==
  LET slugs == {Text[d].court : d \in corpus}
  IN  /\ run[r] = Idle
      /\ run' = [run EXCEPT ![r] = [pc |-> "courts", tenant |-> t, slugs |-> slugs,
                                    todo |-> InOrder(slugs, Courts), seen |-> <<>>, held |-> {}]]
      /\ UNCHANGED <<corpus, features, graph, faults>>

Exists(r, item) ==
  CASE item[1] = "courts" -> courts[run[r].tenant][item[2]] # NoCourt
    [] item[1] = "judges" -> judges[run[r].tenant][item[2]] # NoJudge

\* INSERT ... ON CONFLICT DO NOTHING: a new row is held until the commit, one
\* that is there is not.
Insert(r, pc) ==
  LET item == Item(r)
  IN  /\ run[r].pc = pc
      /\ run[r].todo # <<>>
      /\ Blockers(r) = {}
      /\ run' = [run EXCEPT ![r].todo = Tail(@),
                            ![r].held = IF Exists(r, item) THEN @ ELSE @ \cup {RowOf(r, item)}]
      /\ UNCHANGED <<corpus, features, graph, faults>>

PopulateCourt(r) == Insert(r, "courts")

\* A later statement, so it may see opinions of courts that were not there.  A
\* judge is of the court of the first opinion, in no particular order, whose
\* first 5,000 characters name them.  Variant: the names come from a hash map.
HashOrders(S) == SetToSeqs(S)
JudgeOrders(S) == {InOrder(S, Keys)}

PopulateScan(r) ==
  LET names == UNION {KeysOf(HeadNames[d]) : d \in corpus}
      courtsOf(k) == {Text[d].court : d \in {x \in corpus : k \in KeysOf(HeadNames[x])}}
  IN  /\ run[r].pc = "courts"
      /\ run[r].todo = <<>>
      /\ \E seen \in [names -> ToSet(Courts)], order \in JudgeOrders(names) :
           /\ \A k \in names : seen[k] \in courtsOf(k)
           /\ run' = [run EXCEPT ![r].pc = "judges", ![r].seen = seen, ![r].todo = order]
      /\ UNCHANGED <<corpus, features, graph, faults>>

PopulateJudge(r) == Insert(r, "judges")

\* What the upsert of a name makes of its row, if there is one.  Variant: the
\* court seen this time is written over.
RehomedJudge(row, court) == IF row = NoJudge THEN NewJudge(court) ELSE [row EXCEPT !.court = court]
PopulatedJudge(row, court) == IF row = NoJudge THEN NewJudge(court) ELSE row

\* A court that came after the first statement has no row to refer to.
PopulateCommit(r) ==
  LET me == run[r]
      t == me.tenant
      home(k) == IF me.seen[k] \in me.slugs THEN me.seen[k] ELSE NoCourt
  IN  /\ me.pc = "judges"
      /\ me.todo = <<>>
      /\ courts' = [courts EXCEPT ![t] = [c \in ToSet(Courts) |->
                      IF c \in me.slugs THEN Jurisdiction(c) ELSE @[c]]]
      /\ judges' = [judges EXCEPT ![t] = [k \in ToSet(Keys) |->
                      IF k \in DOMAIN me.seen THEN PopulatedJudge(@[k], home(k)) ELSE @[k]]]
      /\ run' = [run EXCEPT ![r] = Idle]
      /\ UNCHANGED <<corpus, features, attorneys, faults>>

----------------------------------------------------------------------------
(* extract-features *)

Feature ==
  [d \in Docs |->
     [type |-> CaseType(Text[d]), outcome |-> OutcomeForCourt(Text[d].court, Text[d]),
      author |-> IF AllNames[d] = <<>> THEN NoOne ELSE Normalize(AllNames[d][1])]]

\* features_extracted_at IS NULL.
Unextracted == {d \in corpus : features[d] = None}

Written == UNION {ToSet(AllNames[d]) : d \in Docs}
Appearing == UNION {CounselNames[d] : d \in Docs}

\* Where documents name a judge: once per spelling.
Mentions(batch, k) ==
  {m \in batch \X Written : m[2] \in ToSet(AllNames[m[1]]) /\ Normalize(m[2]) = k}

Lost(batch) == {d \in batch : Feature[d].outcome = "respondent"}

\* The tally of a judge in one court over the documents of this run.  Variant:
\* what they lost is counted in all courts.
SeverityLostAnywhere(batch, c, k) ==
  LET here == {d \in batch : Text[d].court = c}
  IN  [analyzed |-> Cardinality(Mentions(here, k)),
       respondent |-> Cardinality(Mentions(Lost(batch), k))]

Severity(batch, c, k) ==
  LET here == {d \in batch : Text[d].court = c}
  IN  [analyzed |-> Cardinality(Mentions(here, k)),
       respondent |-> Cardinality(Mentions(Lost(here), k))]

\* Where documents have an attorney on one of the sides.
Counted(batch, a, sides) ==
  {n \in batch \X Appearing :
     n[2] \in CounselNames[n[1]] /\ Normalize(n[2][1]) = a /\ n[2][2] \in sides}

\* The tally of an attorney: every name and side a document gives them counts.
WinRate(batch, a) ==
  LET both == {"petitioner", "respondent"}
      won(sides) == {n \in Counted(batch, a, sides) : n[2][2] = Feature[n[1]].outcome}
  IN  [analyzed |-> Cardinality(Counted(batch, a, both)),
       petitioner |-> Cardinality(Counted(batch, a, {"petitioner"})),
       petitionerWon |-> Cardinality(won({"petitioner"})),
       clientWon |-> Cardinality(won(both))]

ExtractStart(r, t) ==
  /\ run[r] = Idle
  /\ Unextracted # {}
  /\ \E order \in SetToSeqs(Unextracted) :
       run' = [run EXCEPT ![r] = [pc |-> "docs", tenant |-> t, batch |-> Unextracted,
                                  todo |-> order, held |-> {}, patch |-> <<>>]]
  /\ UNCHANGED <<corpus, features, graph, faults>>

\* The next row of the list, when no other run holds it.
Turn(r, pc) ==
  /\ run[r].pc = pc
  /\ run[r].todo # <<>>
  /\ Blockers(r) = {}

Taken(r) == [run[r] EXCEPT !.todo = Tail(@), !.held = @ \cup {RowOf(r, Item(r))}]

\* Variant: the update does not go through the transaction.
ExtractDocAutocommitted(r) ==
  /\ Turn(r, "docs")
  /\ run' = [run EXCEPT ![r] = Taken(r)]
  /\ features' = [features EXCEPT ![Head(run[r].todo)] = Feature[Head(run[r].todo)]]
  /\ UNCHANGED <<corpus, graph, faults>>

ExtractDoc(r) ==
  /\ Turn(r, "docs")
  /\ run' = [run EXCEPT ![r] = Taken(r)]
  /\ UNCHANGED <<corpus, features, graph, faults>>

\* From one list to the next: both maps are gone through in the order of hashes.
GoThrough(r, from, to, S) ==
  /\ run[r].pc = from
  /\ run[r].todo = <<>>
  /\ \E order \in SetToSeqs(S) : run' = [run EXCEPT ![r].pc = to, ![r].todo = order]
  /\ UNCHANGED <<corpus, features, graph, faults>>

ExtractTally(r) ==
  GoThrough(r, "docs", "severity",
            UNION {{Text[d].court} \X KeysOf(AllNames[d]) : d \in run[r].batch})

\* A judge of two courts is written twice: the later tally stays.
ExtractJudge(r) ==
  LET pair == Head(run[r].todo)
      tally == Severity(run[r].batch, pair[1], pair[2])
  IN  /\ Turn(r, "severity")
      /\ run' = [run EXCEPT ![r] = [Taken(r) EXCEPT !.patch =
                   [k \in DOMAIN @ \cup {pair[2]} |-> IF k = pair[2] THEN tally ELSE @[k]]]]
      /\ UNCHANGED <<corpus, features, graph, faults>>

NamesOfCounsel(batch) ==
  UNION {{Normalize(n[1]) : n \in CounselNames[d]} : d \in batch}

ExtractCounsel(r) == GoThrough(r, "severity", "winrates", NamesOfCounsel(run[r].batch))

ExtractAttorney(r) ==
  /\ Turn(r, "winrates")
  /\ run' = [run EXCEPT ![r] = Taken(r)]
  /\ UNCHANGED <<corpus, features, graph, faults>>

\* bio || patch: the key is replaced and the others stay.  Variants: the bio is
\* replaced; the tallies are added up.
ReplacedBio(row, tally) ==
  [NewJudge(IF row = NoJudge THEN NoCourt ELSE row.court) EXCEPT !.severity = tally]
AddedBio(row, tally) ==
  IF row = NoJudge THEN [NewJudge(NoCourt) EXCEPT !.severity = tally]
  ELSE IF row.severity = None THEN [row EXCEPT !.severity = tally]
  ELSE [row EXCEPT !.severity = [analyzed |-> @.analyzed + tally.analyzed,
                                 respondent |-> @.respondent + tally.respondent]]
ExtractedBio(row, tally) ==
  [(IF row = NoJudge THEN NewJudge(NoCourt) ELSE row) EXCEPT !.severity = tally]

ExtractCommit(r) ==
  LET me == run[r]
      t == me.tenant
  IN  /\ me.pc = "winrates"
      /\ me.todo = <<>>
      /\ features' = [d \in Docs |-> IF d \in me.batch THEN Feature[d] ELSE features[d]]
      /\ judges' = [judges EXCEPT ![t] = [k \in ToSet(Keys) |->
                      IF k \in DOMAIN me.patch THEN ExtractedBio(@[k], me.patch[k]) ELSE @[k]]]
      /\ attorneys' = [attorneys EXCEPT ![t] = [a \in Counsel |->
                         IF a \in NamesOfCounsel(me.batch) THEN WinRate(me.batch, a) ELSE @[a]]]
      /\ run' = [run EXCEPT ![r] = Idle]
      /\ UNCHANGED <<corpus, courts, faults>>

----------------------------------------------------------------------------
(* dime-ingest, jcs-ingest, mqs-ingest *)

ImportStart(r, t, source) ==
  /\ run[r] = Idle
  /\ run' = [run EXCEPT ![r] = [pc |-> "match", tenant |-> t, source |-> source, hit |-> NoMatch,
                                todo |-> EntriesOf[source]]]
  /\ UNCHANGED <<corpus, features, graph, faults>>

\* Its own transaction, which only reads: the judge is found in what is committed.
\* Entries without a score, or without a judge, are passed over.
ImportMatch(r) ==
  LET entry == Head(run[r].todo)
      hit == IF entry.bio = NoScore THEN NoMatch ELSE Match(judges[run[r].tenant], entry)
  IN  /\ run[r].pc = "match"
      /\ run[r].todo # <<>>
      /\ run' = IF hit = NoMatch THEN [run EXCEPT ![r].todo = Tail(@)]
                ELSE [run EXCEPT ![r].pc = "update", ![r].hit = hit]
      /\ UNCHANGED <<corpus, features, graph, faults>>

\* UPDATE judges SET bio = bio || patch, committed at once.
ImportUpdate(r) ==
  LET me == run[r]
      bio == [entry |-> Head(me.todo), confidence |-> me.hit.confidence]
  IN  /\ me.pc = "update"
      /\ Blockers(r) = {}
      /\ judges' = [judges EXCEPT ![me.tenant][me.hit.judge] = [@ EXCEPT ![me.source] = bio]]
      /\ run' = [run EXCEPT ![r].pc = "match", ![r].hit = NoMatch, ![r].todo = Tail(@)]
      /\ UNCHANGED <<corpus, features, courts, attorneys, faults>>

ImportEnd(r) ==
  /\ run[r].pc = "match"
  /\ run[r].todo = <<>>
  /\ run' = [run EXCEPT ![r] = Idle]
  /\ UNCHANGED <<corpus, features, graph, faults>>

----------------------------------------------------------------------------
(* Failures *)

\* A transaction picked to end a deadlock: its command ends with an error.
Victim(r) ==
  /\ \E S \in SUBSET Runs : r \in S /\ Deadlocked(S)
  /\ run' = [run EXCEPT ![r] = Idle]
  /\ UNCHANGED <<corpus, features, graph, faults>>

\* A command killed, or a statement failing, anywhere.
Killed(r) ==
  /\ run[r] # Idle
  /\ faults < Faults
  /\ run' = [run EXCEPT ![r] = Idle]
  /\ faults' = faults + 1
  /\ UNCHANGED <<corpus, features, graph>>

\* The other commands of the ingest-fetcher store an opinion.
Publish(d) ==
  /\ d \notin corpus
  /\ corpus' = corpus \cup {d}
  /\ UNCHANGED <<features, graph, run, faults>>

----------------------------------------------------------------------------

PopulateStep(r) == PopulateCourt(r) \/ PopulateScan(r) \/ PopulateJudge(r) \/ PopulateCommit(r)
ExtractStep(r) ==
  \/ ExtractDoc(r) \/ ExtractTally(r) \/ ExtractJudge(r) \/ ExtractCounsel(r)
  \/ ExtractAttorney(r) \/ ExtractCommit(r)
ImportStep(r) == ImportMatch(r) \/ ImportUpdate(r) \/ ImportEnd(r)
Step(r) == PopulateStep(r) \/ ExtractStep(r) \/ ImportStep(r)

Next ==
  \/ \E r \in Runs : Step(r) \/ Victim(r) \/ Killed(r)
  \/ \E r \in Runs, t \in Tenants : PopulateStart(r, t) \/ ExtractStart(r, t)
  \/ \E r \in Runs, t \in Tenants, source \in Sources : ImportStart(r, t, source)
  \/ \E d \in Docs : Publish(d)

Spec == Init /\ [][Next]_vars

----------------------------------------------------------------------------
(* Types *)

Slug == ToSet(Courts)
Key == ToSet(Keys)

\* A tally counts no more losses, and no more wins, than cases.
Tally == {x \in [analyzed : Nat, respondent : Nat] : x.respondent <= x.analyzed}
Rate ==
  {x \in [analyzed : Nat, petitioner : Nat, petitionerWon : Nat, clientWon : Nat] :
     x.petitionerWon <= x.petitioner /\ x.clientWon <= x.analyzed}

\* A score that is written is an entry of the release that has one.
ScoredEntries(s) == {e \in ToSet(EntriesOf[s]) : e.bio # NoScore}
Confidence == {"exact", "name_only", "last_name_and_court"}
Bio(s) == [entry : ScoredEntries(s), confidence : Confidence]

JudgeRow ==
  [court : Slug \cup {NoCourt}, severity : Tally \cup {None},
   martin_quinn : Bio("martin_quinn") \cup {NoScore},
   judicial_common_space : Bio("judicial_common_space") \cup {NoScore},
   bonica_dime : Bio("bonica_dime") \cup {NoScore}]

Rows ==
  ({"courts"} \X Tenants \X Slug) \cup ({"judges"} \X Tenants \X Key)
  \cup ({"attorneys"} \X Tenants \X Counsel) \cup ({"case_documents"} \X Docs)

CourtsRun ==
  [pc : {"courts"}, tenant : Tenants, slugs : SUBSET Slug, todo : Seq(Slug), seen : {<<>>},
   held : SUBSET Rows]
JudgesRun(names) ==
  [pc : {"judges"}, tenant : Tenants, slugs : SUBSET Slug, todo : Seq(Key), seen : [names -> Slug],
   held : SUBSET Rows]
ExtractRun(pc, items, names) ==
  [pc : {pc}, tenant : Tenants, batch : SUBSET Docs, todo : Seq(items), held : SUBSET Rows,
   patch : [names -> Tally]]
ImportRun(pc, hits, source) ==
  [pc : {pc}, tenant : Tenants, source : {source}, hit : hits, todo : Seq(ToSet(EntriesOf[source]))]
Hit == [judge : Key, confidence : Confidence]

RunOk(me) ==
  \/ me = Idle
  \/ me \in CourtsRun
  \/ me \in ExtractRun("docs", Docs, {})
  \/ \E names \in SUBSET Key :
       \/ me \in JudgesRun(names)
       \/ me \in ExtractRun("severity", Slug \X Key, names)
       \/ me \in ExtractRun("winrates", Counsel, names)
  \/ \E s \in Sources : me \in ImportRun("match", {NoMatch}, s)
  \/ \E s \in Sources : /\ me \in ImportRun("update", Hit, s)
                         /\ me.todo # <<>> /\ Head(me.todo) \in ScoredEntries(s)

Extracting == {r \in Runs : run[r].pc \in {"docs", "severity", "winrates"}}

\* What the constants stand for: slugs and names of the documents are listed,
\* each once, a release is a list, and no sentinel is a value it stands beside.
ASSUME JudgesAssumption ==
  /\ IsFiniteSet(Docs) /\ First \subseteq Docs
  /\ IsFiniteSet(Written) /\ IsFiniteSet(Appearing)
  /\ Courts \in Seq(Slug) /\ IsInjective(Courts)
  /\ Keys \in Seq(Key) /\ IsInjective(Keys)
  /\ \A d \in Docs :
       /\ Text[d].court \in Slug
       /\ KeysOf(HeadNames[d]) \subseteq Key /\ KeysOf(AllNames[d]) \subseteq Key
       /\ NamesOfCounsel({d}) \subseteq Counsel
       /\ Feature[d] # None
  /\ \A s \in Sources : Release[s] \in Seq(ToSet(Release[s])) /\ NoScore \notin Bio(s)
  /\ \A row \in ToSet(Release["martin_quinn"]) : row.justice \in Nat /\ row.term \in Int
  /\ None \notin Tally /\ None \notin Rate
  /\ NoJudge \notin JudgeRow
  /\ NoCourt \notin {"us-federal", "us-state", "unknown"}
  /\ Faults \in Nat

----------------------------------------------------------------------------
(* Properties *)

\* Type invariant: documents have their features once they are extracted, a
\* judge's court has a row of the same tenant, tallies count no more losses than
\* cases, and scores are entries of a release that have one.
TypeOK ==
  /\ corpus \subseteq Docs
  /\ DOMAIN features = Docs
  /\ \A d \in Docs : features[d] # None => d \in corpus /\ features[d] = Feature[d]
  /\ courts \in [Tenants -> [Slug -> {NoCourt, "us-federal", "us-state", "unknown"}]]
  /\ judges \in [Tenants -> [Key -> JudgeRow \cup {NoJudge}]]
  /\ \A t \in Tenants, k \in Key :
       judges[t][k] # NoJudge /\ judges[t][k].court # NoCourt =>
         courts[t][judges[t][k].court] # NoCourt
  /\ attorneys \in [Tenants -> [Counsel -> Rate \cup {None}]]
  /\ DOMAIN run = Runs
  /\ \A r \in Runs : RunOk(run[r])
  /\ \A r \in Extracting : run[r].batch \subseteq corpus
  /\ faults \in 0..Faults

\* What a judge's tally over a batch may be: of one of the courts in which the
\* batch names the judge.
Tallies(batch, k) ==
  {Severity(batch, Text[d].court, k) : d \in {e \in batch : k \in KeysOf(AllNames[e])}}

Marked == {d \in Docs : features[d] # None}

\* Documents are marked as extracted in the same step that writes, in some
\* tenant's graph, the tallies over a batch with all of them in it: of every
\* judge and every attorney the batch names.  Whatever is killed, is the victim of
\* a deadlock or runs at the same time, none is marked and not counted then
\* (run_extraction's one transaction).  How long the count lasts is another
\* matter: a later run replaces it, and of a judge of two courts one tally is lost.
CountedWhenMarked ==
  [][Marked' # Marked =>
       \E t \in Tenants, batch \in SUBSET corpus :
         /\ Marked' \ Marked \subseteq batch
         /\ \A d \in batch, k \in Key :
              k \in KeysOf(AllNames[d]) =>
                judges'[t][k] # NoJudge /\ judges'[t][k].severity \in Tallies(batch, k)
         /\ \A a \in NamesOfCounsel(batch) : attorneys'[t][a] = WinRate(batch, a)]_vars

\* However extractions overlap, repeat and fail, a stored tally is exactly that of
\* one set of marked documents: of no document twice, of none that is not marked,
\* and a judge's of one court only (each key is replaced by run_extraction, never
\* added to).
TallyOfMarked ==
  /\ \A t \in Tenants, k \in Key :
       judges[t][k] # NoJudge /\ judges[t][k].severity # None =>
         \E batch \in SUBSET Marked : judges[t][k].severity \in Tallies(batch, k)
  /\ \A t \in Tenants, a \in Counsel :
       attorneys[t][a] # None =>
         \E batch \in SUBSET Marked :
           a \in NamesOfCounsel(batch) /\ attorneys[t][a] = WinRate(batch, a)

\* "extraction reruns recompute from scratch" (extract.rs:765): a judge's tally is
\* over all that was extracted.  It is not: a rerun selects what has not been
\* extracted yet, and replaces the key by the tally over that.
RecomputedFromScratch ==
  \A t \in Tenants, k \in Key :
    judges[t][k] # NoJudge /\ judges[t][k].severity # None =>
      judges[t][k].severity \in Tallies(Marked, k)

\* No command takes from a judge what another one found: the row, its court and
\* every key of its bio stay (bio || patch, ON CONFLICT DO NOTHING).
BioKept ==
  [][\A t \in Tenants, k \in ToSet(Keys) : judges[t][k] # NoJudge =>
       /\ judges'[t][k] # NoJudge
       /\ judges'[t][k].court = judges[t][k].court
       /\ judges[t][k].severity # None => judges'[t][k].severity # None
       /\ \A s \in Sources : judges[t][k][s] # NoScore => judges'[t][k][s] # NoScore]_vars

\* A score is only ever on a judge of the court its row names, or, matched by the
\* full name alone, on a judge of no court: also when the judge was found in an
\* earlier transaction than the one that writes (match_row, then the UPDATE).
ScoresOnOwnCourt ==
  \A t \in Tenants, k \in ToSet(Keys), s \in Sources :
    judges[t][k] # NoJudge /\ judges[t][k][s] # NoScore =>
      LET score == judges[t][k][s]
      IN  judges[t][k].court = IF score.confidence = "name_only" THEN NoCourt
                               ELSE score.entry.court

\* Whatever deadlock there is, an extract-features is in it: populate-kg, which
\* inserts in alphabetical order, and the importers, which hold one row at most,
\* never wait for each other in a circle.  (extract-features goes through hash maps.)
OnlyExtractDeadlocks ==
  \A S \in SUBSET (Runs \ Extracting) : ~Deadlocked(S)

\* The score the gateway shows for a decision of some year is of the last row of
\* the release for one justice's latest scored term up to that year, the justice
\* found by the name of one of their rows; only a justice without such a term
\* gets the latest of all terms.
ShownTermRight ==
  \A t \in Tenants, k \in Key, y \in Years :
    judges[t][k] # NoJudge /\ judges[t][k].martin_quinn # NoScore =>
      LET shown == Score(judges[t][k], y)
          rows == Release["martin_quinn"]
          of(j) == {i \in DOMAIN rows : rows[i].justice = j}
          counts(i) == \A later \in of(rows[i].justice) : later > i => rows[later].term # rows[i].term
          scored(j) == {i \in of(j) : counts(i) /\ rows[i].score # NoScore}
          by(j) == {i \in scored(j) : rows[i].term <= y}
          eligible(j) == IF by(j) # {} THEN by(j) ELSE scored(j)
      IN  \E first \in DOMAIN rows :
            /\ rows[first].name = judges[t][k].martin_quinn.entry.name
            /\ \E i \in eligible(rows[first].justice) :
                 /\ shown.term = rows[i].term /\ shown.score = rows[i].score
                 /\ \A other \in eligible(rows[first].justice) : rows[other].term <= rows[i].term
===============================================================================

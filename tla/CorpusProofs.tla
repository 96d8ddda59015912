----------------------------- MODULE CorpusProofs -----------------------------
(***************************************************************************)
(* Proofs about Corpus, for any archive, courts, volumes, limits and       *)
(* windows that fit the assumptions and any number of run-rest processes.  *)
(***************************************************************************)
EXTENDS Corpus, FiniteSetTheorems, SequenceTheorems, TLAPS

Jurisdiction == [court : Courts, volumes : Seq(Volume)]

\* A volume that is gone through, or is about to be, is of a court.
CapCourt == cap.at # "idle" /\ (cap.at = "drain" \/ cap.volumes # <<>>) => cap.court \in Courts

Types == TypeOK /\ CapCourt

-----------------------------------------------------------------------------
(* Types *)

LEMMA UpsertType ==
  ASSUME StoreTypeOK, NEW i \in Ids, NEW op \in Opinion, Upsert(i, op)
  PROVE  docs' \in [Ids -> Row \cup {NoRow}]
<1>1. KeptCites(i, op) \in Cites
  BY DEF StoreTypeOK, KeptCites, Stored, Row, Opinion
<1>2. (IF i \in Stored THEN docs[i].source ELSE "courtlistener") \in {"courtlistener", "cap"}
  BY DEF StoreTypeOK, Stored, Row
<1>3. [court |-> op.court, date |-> op.date, cites |-> KeptCites(i, op),
       source |-> IF i \in Stored THEN docs[i].source ELSE "courtlistener"] \in Row
  BY <1>1, <1>2 DEF Row, Opinion
<1> QED BY <1>3 DEF Upsert, StoreTypeOK

\* What either source gives of an opinion has its type, with a date or without.
LEMMA ReadType ==
  ASSUME NEW i \in DOMAIN Archive
  PROVE  /\ i \in Ids /\ Read(i, "search") \in Opinion /\ FromDump(i) \in Opinion
         /\ Read(i, "search").cites # NotFetched
<1>1. i \in Ids /\ Archive[i] \in Opinion /\ Archive[i].cites # NotFetched
  BY CorpusAssumption
<1>2. Read(i, "search") \in Opinion /\ Read(i, "dump") \in Opinion
  BY <1>1 DEF Read, Opinion
<1>3. Read(i, "search").cites = Archive[i].cites
  BY <1>1 DEF Read, Opinion
<1> QED BY <1>1, <1>2, <1>3 DEF FromDump, Opinion, Cites

LEMMA InsertCapType ==
  ASSUME StoreTypeOK, NEW i \in Ids, NEW c \in Courts, InsertCap(i, CapRow(c, CapDates[i]))
  PROVE  docs' \in [Ids -> Row \cup {NoRow}]
<1>1. CapRow(c, CapDates[i]) \in Row
  BY CorpusAssumption DEF CapRow, Row, Cites
<1> QED BY <1>1 DEF InsertCap, StoreTypeOK

LEMMA Min2Type == \A b \in Nat : Min2(1, b) \in 0..1 /\ Min2(1, b) <= b
BY DEF Min2

\* After a completion the run is still of the same court and volumes.
LEMMA TurnType ==
  ASSUME cap \in CapRun, NEW u \in Ids, NEW counted \in {0, 1}
  PROVE  /\ Turn(u, counted) \in CapRun
         /\ Turn(u, counted).court = cap.court /\ Turn(u, counted).volumes = cap.volumes
<1> DEFINE n == Min2(1, Len(cap.urls))
<1>1. /\ cap.urls \in Seq(Ids) /\ cap.flight \subseteq Ids /\ cap.done \in Nat
      /\ Len(cap.urls) \in Nat
  BY LenProperties DEF CapRun
<1>2. n \in 0..1 /\ n <= Len(cap.urls)
  BY <1>1, Min2Type
<1> HIDE DEF n
<1>3. SubSeq(cap.urls, n + 1, Len(cap.urls)) \in Seq(Ids)
  <2>1. \A i \in (n + 1)..Len(cap.urls) : cap.urls[i] \in Ids
    BY <1>1, <1>2, ElementOfSeq
  <2> QED BY <1>1, <1>2, <2>1, SubSeqProperties
<1>4. {cap.urls[k] : k \in 1..n} \subseteq Ids
  <2>1. \A k \in 1..n : k \in 1..Len(cap.urls)
    BY <1>1, <1>2
  <2> QED BY <1>1, <2>1, ElementOfSeq
<1>5. <<>> \in Seq(Ids) /\ cap.done + counted \in Nat
  BY <1>1, EmptySeq
<1> QED BY <1>1, <1>3, <1>4, <1>5 DEF Turn, CapRun, n

LEMMA InitTypes == Init => Types
<1> SUFFICES ASSUME Init PROVE Types
  OBVIOUS
<1>1. RestType /\ BulkType /\ CapType /\ PopType
  BY DEF Init, RestType, BulkType, CapType, PopType
<1> QED BY <1>1, CorpusAssumption
        DEF Init, Types, TypeOK, StoreTypeOK, CapCourt, IdleCap

\* What an action that does not change the table leaves of its type.
LEMMA SameStore == ASSUME StoreTypeOK, UNCHANGED store PROVE StoreTypeOK'
BY DEF StoreTypeOK, store

LEMMA SameRest == ASSUME RestType, UNCHANGED rest PROVE RestType'
BY DEF RestType

LEMMA SameOthers ==
  ASSUME BulkType, CapType, PopType, CapCourt, UNCHANGED others
  PROVE  BulkType' /\ CapType' /\ PopType' /\ CapCourt'
BY DEF BulkType, CapType, PopType, CapCourt, others

\* A run in a phase has the shape of the phase.
LEMMA RestShape ==
  ASSUME RestType, NEW r \in Runs
  PROVE  /\ rest[r].at = "cursor" => rest[r] \in CursorRun
         /\ rest[r].at = "search" => rest[r] \in SearchRun
         /\ rest[r].at = "hydrate" => rest[r] \in HydrateRun
         /\ rest[r].at \in {"idle", "cursor", "search", "hydrate"}
BY DEF RestType, IdleRest, CursorRun, SearchRun, HydrateRun

\* The oldest date is the least one.
LEMMA Oldest ==
  ASSUME StoreTypeOK, NEW c
  PROVE  \/ Dates(c) = {} /\ OldestDate(c) = NoDate
         \/ /\ OldestDate(c) \in Dates(c) /\ OldestDate(c) \in Nat
            /\ \A d \in Dates(c) : OldestDate(c) <= d
<1>1. Dates(c) \subseteq Nat
  BY DEF Dates, StoredIn, Stored, StoreTypeOK, Row
<1>2. CASE Dates(c) = {}
  BY <1>2 DEF OldestDate
<1>3. CASE Dates(c) # {}
  <2>1. PICK d \in Dates(c) : \A e \in Dates(c) : ~(<<e, d>> \in OpToRel(<, Nat))
    BY <1>1, <1>3, NatLessThanWellFounded, WFMin
  <2>2. \A e \in Dates(c) : d <= e
    <3>1. \A x, y \in Nat : x < y => <<x, y>> \in OpToRel(<, Nat)
      BY Zenon DEF OpToRel
    <3>2. \A e \in Dates(c) : ~(e < d)
      BY <1>1, <2>1, <3>1
    <3> QED BY <1>1, <3>2
  <2>3. \E x \in Dates(c) : \A e \in Dates(c) : x <= e
    BY <2>2
  <2>4. OldestDate(c) \in Dates(c) /\ \A e \in Dates(c) : OldestDate(c) <= e
    BY <1>3, <2>3 DEF OldestDate
  <2> QED BY <1>1, <2>4
<1> QED BY <1>2, <1>3

LEMMA RestPut ==
  ASSUME RestType, NEW r \in Runs,
         NEW v \in {IdleRest} \cup CursorRun \cup SearchRun \cup HydrateRun,
         rest' = [rest EXCEPT ![r] = v]
  PROVE  RestType'
BY DEF RestType

LEMMA StoredIds == Stored \subseteq Ids /\ \A c : StoredIn(c) \subseteq Ids
BY DEF Stored, StoredIn

\* A candidate that is passed leaves the list; one that is stored is counted.
LEMMA PassedType ==
  ASSUME RestType, NEW r \in Runs, NEW i, Wanted(r, i)
  PROVE  /\ i \in DOMAIN Archive
         /\ rest' = Passed(r, i) => RestType'
         /\ rest' = [Passed(r, i) EXCEPT ![r].stored = @ + 1] => RestType'
<1>1. /\ rest[r] \in HydrateRun
      /\ i \in rest[r].left /\ rest[r].left \subseteq DOMAIN Archive
      /\ rest[r].stored \in 0..Target /\ rest[r].stored < Target
  BY RestShape DEF Wanted, Left, HydrateRun
<1>2. [rest[r] EXCEPT !.left = @ \ {i}] \in HydrateRun
  BY <1>1 DEF HydrateRun
<1>3. rest[r].stored + 1 \in 0..Target
  BY <1>1, CorpusAssumption
<1>4. [[rest[r] EXCEPT !.left = @ \ {i}] EXCEPT !.stored = @ + 1] \in HydrateRun
  BY <1>1, <1>3 DEF HydrateRun
<1>5. rest' = Passed(r, i) => rest' = [rest EXCEPT ![r] = [rest[r] EXCEPT !.left = @ \ {i}]]
  BY DEF Passed
<1>6. rest' = [Passed(r, i) EXCEPT ![r].stored = @ + 1] =>
        rest' = [rest EXCEPT ![r] = [[rest[r] EXCEPT !.left = @ \ {i}] EXCEPT !.stored = @ + 1]]
  BY DEF Passed, RestType
<1> QED BY <1>1, <1>2, <1>4, <1>5, <1>6, RestPut

LEMMA RestTypes == ASSUME Types, NEW r \in Runs, RestNext(r) PROVE Types'
<1> USE DEF Types, TypeOK
<1>0. /\ RestOnly => /\ others' = others /\ starts' = starts
                     /\ edges' = edges /\ published' = published
      /\ \A i \in DOMAIN Archive : i \in Ids /\ Archive[i] \in Opinion
      /\ Cron \subseteq Courts
  BY CorpusAssumption DEF RestOnly, others
<1>1. ASSUME NEW c \in Cron, RestStart(r, c) PROVE Types'
  <2>1. [at |-> "cursor", court |-> c, known |-> StoredIn(c)] \in CursorRun
    BY <1>0, StoredIds DEF CursorRun
  <2>2. RestType'
    BY <1>1, <2>1, RestPut DEF RestStart
  <2> QED BY <1>0, <1>1, <2>2, SameStore, SameOthers DEF RestStart, history, store
<1>2. CASE RestCursor(r)
  <2>1. rest[r] \in CursorRun
    BY <1>2, RestShape DEF RestCursor
  <2>2. OldestDate(rest[r].court) \in Nat \cup {NoDate}
    BY Oldest
  <2>3. [at |-> "search", court |-> rest[r].court, known |-> rest[r].known,
         before |-> IF Cardinality(rest[r].known) >= Threshold
                    THEN OldestDate(rest[r].court) ELSE NoDate] \in SearchRun
    BY <2>1, <2>2 DEF CursorRun, SearchRun
  <2>4. RestType'
    BY <1>2, <2>3, RestPut DEF RestCursor
  <2> QED BY <1>0, <1>2, <2>4, SameStore, SameOthers DEF RestCursor, history, store
<1>3. CASE RestSearch(r)
  <2>1. rest[r] \in SearchRun
    BY <1>3, RestShape DEF RestSearch
  <2>2. Candidates(rest[r].court, rest[r].before) \subseteq DOMAIN Archive
    BY DEF Candidates
  <2>3. [at |-> "hydrate", court |-> rest[r].court, known |-> rest[r].known,
         left |-> Candidates(rest[r].court, rest[r].before), stored |-> 0] \in HydrateRun
    BY <2>1, <2>2, CorpusAssumption DEF SearchRun, HydrateRun
  <2>4. RestType'
    BY <1>3, <2>3, RestPut DEF RestSearch
  <2>5. searched' \subseteq Courts
    BY <1>3, <2>1 DEF RestSearch, SearchRun
  <2> QED BY <1>0, <1>3, <2>4, <2>5, SameStore, SameOthers DEF RestSearch, store
<1>4. ASSUME NEW i \in Left(r), RestSkip(r, i) \/ RestBlank(r, i) PROVE Types'
  <2>1. RestType'
    BY <1>4, PassedType DEF RestSkip, RestBlank
  <2> QED BY <1>0, <1>4, <2>1, SameStore, SameOthers DEF RestSkip, RestBlank, history, store
<1>5. ASSUME NEW i \in Left(r), RestStore(r, i) PROVE Types'
  <2>1. i \in DOMAIN Archive /\ RestType'
    BY <1>5, PassedType DEF RestStore
  <2>2. docs' \in [Ids -> Row \cup {NoRow}]
    BY <1>0, <1>5, <2>1, ReadType, UpsertType DEF RestStore
  <2> QED BY <1>0, <1>5, <2>1, <2>2, SameOthers DEF RestStore, StoreTypeOK
<1>6. ASSUME NEW i \in Left(r), RestError(r, i) PROVE Types'
  <2>1. i \in DOMAIN Archive /\ RestType'
    BY <1>6, PassedType DEF RestError
  <2>2. faults' \in Nat /\ excused' \subseteq DOMAIN Archive
    BY <1>6, <2>1 DEF RestError, Fault
  <2> QED BY <1>0, <1>6, <2>1, <2>2, SameStore, SameOthers DEF RestError, store
<1>7. CASE RestEnd(r) \/ RestStops(r)
  <2>1. RestType'
    BY <1>7, RestPut DEF RestEnd, RestStops
  <2>2. faults' \in Nat
    BY <1>7 DEF RestEnd, RestStops, Fault
  <2> QED BY <1>0, <1>7, <2>1, <2>2, SameStore, SameOthers DEF RestEnd, RestStops, history, store
<1> QED BY <1>1, <1>2, <1>3, <1>4, <1>5, <1>6, <1>7 DEF RestNext, RestStep

LEMMA BulkTypes ==
  ASSUME Types, (\E c \in Slugs : BulkStart(c)) \/ BulkStep
  PROVE  Types'
<1> USE DEF Types, TypeOK
<1>0. /\ BulkOnly => /\ edges' = edges /\ published' = published /\ RestType' /\ CapType'
                     /\ PopType' /\ CapCourt' /\ faults' \in Nat
      /\ \A i \in DOMAIN Archive : i \in Ids /\ Archive[i] \in Opinion
  BY CorpusAssumption DEF BulkOnly, RestType, CapType, PopType, CapCourt
<1>1. ASSUME NEW c \in Slugs, BulkStart(c) PROVE Types'
  <2>1. BulkType' /\ starts' \in Nat
    BY <1>1 DEF BulkStart, BulkType, Start
  <2> QED BY <1>0, <1>1, <2>1, SameStore DEF BulkStart, history, store
<1>2. ASSUME NEW i \in DOMAIN Archive, BulkUpsert(i) PROVE Types'
  <2>1. FromDump(i) \in Opinion
    BY ReadType
  <2>2. docs' \in [Ids -> Row \cup {NoRow}]
    BY <1>0, <1>2, <2>1, UpsertType DEF BulkUpsert
  <2>3. BulkType'
    BY <1>2 DEF BulkUpsert, BulkType, IdleBulk
  <2>4. mixed' \subseteq Courts /\ excused' \subseteq DOMAIN Archive
    BY <1>0, <1>2 DEF BulkUpsert, Opinion
  <2> QED BY <1>0, <1>2, <2>2, <2>3, <2>4 DEF BulkUpsert, StoreTypeOK
<1>3. CASE BulkEnd
  <2>1. BulkType'
    BY <1>3 DEF BulkEnd, BulkType
  <2> QED BY <1>0, <1>3, <2>1, SameStore DEF BulkEnd, history, store
<1> QED BY <1>1, <1>2, <1>3 DEF BulkStep

\* The volumes and jurisdictions still to be gone through.
LEMMA TailType ==
  ASSUME NEW S, NEW s \in Seq(S), s # <<>>
  PROVE  Head(s) \in S /\ Tail(s) \in Seq(S)
BY HeadTailProperties

LEMMA CapIsRun == ASSUME CapType, cap.at # "idle" PROVE cap \in CapRun
BY DEF CapType, IdleCap

\* The first requests of a volume.
LEMMA SeedsType ==
  ASSUME NEW urls \in Seq(Ids), NEW seeds, seeds = Min2(Window, Len(urls))
  PROVE  /\ seeds \in 0..Len(urls) /\ seeds <= Window
         /\ {urls[n] : n \in 1..seeds} \subseteq Ids
         /\ SubSeq(urls, seeds + 1, Len(urls)) \in Seq(Ids)
<1>1. Len(urls) \in Nat /\ Window \in Nat
  BY LenProperties, CorpusAssumption
<1>2. \A a, b \in Nat : Min2(a, b) \in 0..b /\ Min2(a, b) <= a
  BY DEF Min2
<1>3. seeds \in 0..Len(urls) /\ seeds <= Window
  BY <1>1, <1>2
<1>4. \A n \in 1..Len(urls) : urls[n] \in Ids
  BY ElementOfSeq
<1>5. \A n \in 1..seeds : n \in 1..Len(urls)
  BY <1>1, <1>3
<1>6. \A n \in (seeds + 1)..Len(urls) : urls[n] \in Ids
  BY <1>1, <1>3, <1>4
<1> QED BY <1>1, <1>3, <1>4, <1>5, <1>6, SubSeqProperties

LEMMA CapTypes == ASSUME Types, CapStart \/ CapStep PROVE Types'
<1> USE DEF Types, TypeOK
<1>0. /\ CapOnly => /\ edges' = edges /\ published' = published /\ RestType' /\ BulkType'
                    /\ PopType' /\ faults' \in Nat /\ searched' \subseteq Courts
                    /\ excused' \subseteq DOMAIN Archive
      /\ CapReads => CapOnly /\ docs' = docs /\ mixed' = mixed
  BY DEF CapOnly, CapReads, RestType, BulkType, PopType
<1>1. ASSUME CapReads, CapType', CapCourt', starts' \in Nat PROVE Types'
  BY <1>0, <1>1, SameStore DEF store
<1>2. CASE CapStart
  <2>1. cap' \in CapRun
    BY <1>2, CorpusAssumption, EmptySeq DEF CapStart, CapRun
  <2>2. cap'.at = "walk" /\ cap'.volumes = <<>>
    BY <1>2 DEF CapStart
  <2>3. starts' \in Nat /\ CapReads
    BY <1>2 DEF CapStart, Start
  <2> QED BY <1>1, <2>1, <2>2, <2>3 DEF CapType, CapCourt
<1>3. CASE CapListCourt
  <2>1. cap \in CapRun /\ cap.at = "walk"
    BY <1>3, CapIsRun DEF CapListCourt
  <2>2. Head(cap.courts) \in Jurisdiction /\ Tail(cap.courts) \in Seq(Jurisdiction)
    BY <1>3, <2>1, TailType DEF CapListCourt, CapRun, Jurisdiction
  <2>3. /\ Head(cap.courts).volumes \in Seq(Volume) /\ <<>> \in Seq(Volume)
        /\ Head(cap.courts).court \in Courts
    BY <2>2, EmptySeq DEF Jurisdiction
  <2>4. PICK listed \in Seq(Volume) :
          cap' = [cap EXCEPT !.courts = Tail(@), !.volumes = listed,
                             !.court = Head(cap.courts).court]
    BY <1>3, <2>3 DEF CapListCourt
  <2>5. cap' \in CapRun /\ cap'.court \in Courts
    BY <2>1, <2>2, <2>3, <2>4 DEF CapRun, Jurisdiction
  <2> QED BY <1>1, <1>3, <2>5 DEF CapListCourt, CapType, CapCourt
<1>4. CASE CapListVolume
  <2> DEFINE urls == Head(cap.volumes)
             seeds == Min2(Window, Len(urls))
  <2>1. cap \in CapRun /\ cap.court \in Courts
    BY <1>4, CapIsRun DEF CapListVolume, CapCourt
  <2>2. urls \in Seq(Ids) /\ Tail(cap.volumes) \in Seq(Volume)
    BY <1>4, <2>1, TailType DEF CapListVolume, CapRun, Volume
  <2>3. /\ {urls[n] : n \in 1..seeds} \subseteq Ids
        /\ SubSeq(urls, seeds + 1, Len(urls)) \in Seq(Ids)
    BY <2>2, SeedsType
  <2>4. cap' = [cap EXCEPT !.at = "drain", !.volumes = Tail(@), !.panics = 0,
                  !.flight = {urls[n] : n \in 1..seeds},
                  !.urls = SubSeq(urls, seeds + 1, Len(urls))]
    BY <1>4 DEF CapListVolume
  <2> HIDE DEF urls, seeds
  <2>5. cap' \in CapRun /\ cap'.court \in Courts
    BY <2>1, <2>2, <2>3, <2>4 DEF CapRun
  <2> QED BY <1>1, <1>4, <2>5 DEF CapListVolume, CapType, CapCourt
<1>5. CASE CapSkipVolume
  <2>1. cap \in CapRun /\ cap.court \in Courts
    BY <1>5, CapIsRun DEF CapSkipVolume, CapCourt
  <2>2. Tail(cap.volumes) \in Seq(Volume)
    BY <1>5, <2>1, TailType DEF CapSkipVolume, CapRun
  <2>3. cap' \in CapRun /\ cap'.court \in Courts
    BY <1>5, <2>1, <2>2 DEF CapSkipVolume, CapRun
  <2> QED BY <1>1, <1>5, <2>3 DEF CapSkipVolume, CapType, CapCourt
<1>6. ASSUME NEW u \in Ids, CapStore(u) PROVE Types'
  <2>1. cap \in CapRun /\ cap.court \in Courts
    BY <1>6, CapIsRun DEF CapStore, CapCourt
  <2>2. docs' \in [Ids -> Row \cup {NoRow}]
    BY <1>6, <2>1, InsertCapType DEF CapStore
  <2>3. cap' \in CapRun /\ cap'.court \in Courts
    BY <1>6, <2>1, TurnType DEF CapStore
  <2> QED BY <1>0, <1>6, <2>1, <2>2, <2>3 DEF CapStore, CapType, CapCourt, StoreTypeOK
<1>7. ASSUME NEW u \in Ids, CapPass(u) PROVE Types'
  <2>1. cap \in CapRun /\ cap.court \in Courts
    BY <1>7, CapIsRun DEF CapPass, CapCourt
  <2>2. cap' \in CapRun /\ cap'.court \in Courts
    BY <1>7, <2>1, TurnType DEF CapPass
  <2> QED BY <1>1, <1>7, <2>2 DEF CapPass, CapType, CapCourt
<1>8. ASSUME NEW u \in Ids, CapPanic(u) PROVE Types'
  <2>1. cap \in CapRun /\ cap.court \in Courts
    BY <1>8, CapIsRun DEF CapPanic, CapCourt
  <2>2. cap.flight \ {u} \in SUBSET Ids /\ cap.panics + 1 \in Nat
    BY <2>1 DEF CapRun
  <2>3. cap' = [cap EXCEPT !.flight = cap.flight \ {u}, !.panics = cap.panics + 1]
    BY <1>8 DEF CapPanic
  <2>4. cap' \in CapRun /\ cap'.court \in Courts
    BY <2>1, <2>2, <2>3 DEF CapRun
  <2> QED BY <1>1, <1>8, <2>4 DEF CapPanic, CapType, CapCourt
<1>9. CASE CapVolumeDone
  <2>1. cap \in CapRun /\ cap.court \in Courts
    BY <1>9, CapIsRun DEF CapVolumeDone, CapCourt
  <2>2. cap' \in CapRun /\ cap'.court \in Courts
    BY <1>9, <2>1, EmptySeq DEF CapVolumeDone, CapRun
  <2> QED BY <1>1, <1>9, <2>2 DEF CapVolumeDone, CapType, CapCourt
<1>10. CASE CapEnd
  BY <1>1, <1>10 DEF CapEnd, CapType, CapCourt, IdleCap
<1> QED BY <1>2, <1>3, <1>4, <1>5, <1>6, <1>7, <1>8, <1>9, <1>10 DEF CapStep

LEMMA PopTypes == ASSUME Types, PopStart \/ PopStep PROVE Types'
<1> USE DEF Types, TypeOK
<1>0. PopOnly => /\ docs' = docs /\ published' = published /\ RestType' /\ BulkType'
                 /\ CapType' /\ CapCourt' /\ faults' \in Nat /\ searched' \subseteq Courts
                 /\ mixed' \subseteq Courts /\ excused' \subseteq DOMAIN Archive
  BY DEF PopOnly, history, RestType, BulkType, CapType, CapCourt
<1>1. ASSUME PopOnly, PopType', edges' \subseteq Ids \X Ids, starts' \in Nat PROVE Types'
  BY <1>0, <1>1 DEF StoreTypeOK
<1>2. edges \subseteq Ids \X Ids
  BY DEF StoreTypeOK
<1>3. CASE PopStart
  <2>1. PopType'
    BY <1>3, StoredIds DEF PopStart, PopType
  <2>2. starts' \in Nat /\ edges' = edges /\ PopOnly
    BY <1>3 DEF PopStart, Start
  <2> QED BY <1>1, <1>2, <2>1, <2>2
<1>4. CASE PopScan
  <2> DEFINE todo == UNION {{i} \X Resolved(i, pop.known) : i \in {j \in Ids : Captured(j)}}
  <2>1. todo \subseteq Ids \X Ids
    BY DEF Resolved, Cited
  <2>2. pop.due \subseteq Ids \X Ids
    BY <1>4 DEF PopScan, PopType, IdlePop
  <2>3. pop' = [at |-> "insert", due |-> pop.due, todo |-> todo]
    BY <1>4 DEF PopScan
  <2> HIDE DEF todo
  <2>4. PopType'
    BY <2>1, <2>2, <2>3 DEF PopType
  <2> QED BY <1>1, <1>2, <1>4, <2>4 DEF PopScan
<1>5. CASE PopInsert
  <2>1. PICK e \in pop.todo :
          edges' = edges \cup {e} /\ pop' = [pop EXCEPT !.todo = @ \ {e}]
    BY <1>5 DEF PopInsert
  <2>2. pop \in [at : {"insert"}, todo : SUBSET (Ids \X Ids), due : SUBSET (Ids \X Ids)]
    BY <1>5 DEF PopInsert, PopType, IdlePop
  <2>3. PopType'
    BY <2>1, <2>2 DEF PopType
  <2>4. edges' \subseteq Ids \X Ids
    BY <1>2, <2>1, <2>2
  <2> QED BY <1>1, <1>5, <2>3, <2>4 DEF PopInsert
<1>6. CASE PopEnd \/ PopDies
  BY <1>1, <1>2, <1>6 DEF PopEnd, PopDies, PopType
<1> QED BY <1>3, <1>4, <1>5, <1>6 DEF PopStep

LEMMA PublishTypes == ASSUME Types, NEW i \in DOMAIN Archive, Publish(i) PROVE Types'
<1> USE DEF Types, TypeOK
<1>1. published' \subseteq DOMAIN Archive /\ excused' \subseteq DOMAIN Archive
  BY DEF Publish
<1>2. starts' = starts /\ others' = others
  BY DEF Publish, others
<1> QED BY <1>1, <1>2, SameStore, SameRest, SameOthers DEF Publish

LEMMA StutterTypes == ASSUME Types, UNCHANGED vars PROVE Types'
<1>1. UNCHANGED store /\ UNCHANGED rest /\ UNCHANGED others /\ UNCHANGED history
      /\ UNCHANGED <<published, faults, starts>>
  BY DEF vars, others
<1> QED BY <1>1, SameStore, SameRest, SameOthers DEF Types, TypeOK, history

LEMMA TypesStep == Types /\ [Next]_vars => Types'
BY RestTypes, BulkTypes, CapTypes, PopTypes, PublishTypes, StutterTypes DEF Next

LEMMA TypesAlways == Spec => []Types
<1> QED BY InitTypes, TypesStep, PTL DEF Spec

\* The type of every variable, and that a CAP run which goes through a volume
\* knows its court.
THEOREM TypeCorrect == Spec => []TypeOK
<1>1. Types => TypeOK
  BY DEF Types
<1> QED BY <1>1, TypesAlways, PTL

-----------------------------------------------------------------------------
(* The rows of the table *)

\* What is CourtListener's is from the archive, and so are all citations.
RowsOk ==
  \A i \in Stored :
    /\ docs[i].source = "courtlistener" =>
         i \in DOMAIN Archive /\ docs[i].court = Archive[i].court
    /\ docs[i].cites # NotFetched =>
         i \in DOMAIN Archive /\ docs[i].cites = Archive[i].cites

\* Rows are only written by an upsert from the archive or a CAP case.
LEMMA DocsStep ==
  ASSUME Types, [Next]_vars
  PROVE  \/ docs' = docs
         \/ \E i \in DOMAIN Archive : Upsert(i, Read(i, "search")) \/ Upsert(i, FromDump(i))
         \/ \E i \in Ids, c \in Courts : InsertCap(i, CapRow(c, CapDates[i]))
<1>1. ASSUME NEW r \in Runs, RestNext(r)
      PROVE  docs' = docs \/ \E i \in DOMAIN Archive : Upsert(i, Read(i, "search"))
  <2>1. ASSUME NEW i \in Left(r), RestStore(r, i) PROVE i \in DOMAIN Archive
    BY <2>1, PassedType DEF RestStore, Types, TypeOK
  <2> QED BY <1>1, <2>1 DEF RestNext, RestStep, RestStart, RestCursor, RestSearch, RestEnd,
             RestSkip, RestBlank, RestStore, RestError, RestStops
<1>2. ASSUME (\E c \in Slugs : BulkStart(c)) \/ BulkStep
      PROVE  docs' = docs \/ \E i \in DOMAIN Archive : Upsert(i, FromDump(i))
  BY <1>2 DEF BulkStep, BulkStart, BulkEnd, BulkUpsert
<1>3. ASSUME CapStart \/ CapStep
      PROVE  docs' = docs \/ \E i \in Ids, c \in Courts : InsertCap(i, CapRow(c, CapDates[i]))
  <2>1. ASSUME NEW u \in Ids, CapStore(u) PROVE cap.court \in Courts
    BY <2>1 DEF CapStore, Types, CapCourt
  <2> QED BY <1>3, <2>1 DEF CapStep, CapStart, CapListCourt, CapListVolume, CapSkipVolume,
             CapVolumeDone, CapEnd, CapStore, CapPass, CapPanic, CapReads
<1>4. ASSUME PopStart \/ PopStep PROVE docs' = docs
  BY <1>4 DEF PopStep, PopStart, PopScan, PopInsert, PopEnd, PopDies, PopOnly
<1>5. ASSUME NEW i \in DOMAIN Archive, Publish(i) PROVE docs' = docs
  BY <1>5 DEF Publish, store
<1>6. UNCHANGED vars => docs' = docs
  BY DEF vars, store
<1> QED BY <1>1, <1>2, <1>3, <1>4, <1>5, <1>6 DEF Next

\* What an upsert makes of the row, and that it touches no other.
LEMMA Upserted ==
  ASSUME Types, NEW i \in DOMAIN Archive, NEW op \in Opinion, Upsert(i, op),
         op = Read(i, "search") \/ op = FromDump(i)
  PROVE  /\ \A k \in Ids \ {i} : docs'[k] = docs[k]
         /\ docs'[i] \in Row /\ docs'[i] # NoRow
         /\ docs'[i].court = Archive[i].court /\ docs'[i].date \in {Archive[i].date, NoDate}
         /\ docs'[i].cites = IF op.cites = NotFetched /\ i \in Stored
                             THEN docs[i].cites ELSE op.cites
         /\ op.cites # NotFetched => op.cites = Archive[i].cites
<1>1. i \in Ids /\ docs \in [Ids -> Row \cup {NoRow}] /\ NoRow \notin Row /\ StoreTypeOK
      /\ Archive[i] \in Opinion
  BY CorpusAssumption DEF Types, TypeOK, StoreTypeOK
<1>2. docs' \in [Ids -> Row \cup {NoRow}]
  BY <1>1, UpsertType
<1> DEFINE row == [court |-> op.court, date |-> op.date, cites |-> KeptCites(i, op),
                   source |-> IF i \in Stored THEN docs[i].source ELSE "courtlistener"]
<1>3. docs' = [docs EXCEPT ![i] = row]
  BY DEF Upsert
<1>4. docs'[i] = row /\ \A k \in Ids \ {i} : docs'[k] = docs[k]
  BY <1>1, <1>3
<1>5. row \in Row
  <2>1. KeptCites(i, op) \in Cites
    BY <1>1 DEF KeptCites, Stored, Row, Opinion
  <2>2. (IF i \in Stored THEN docs[i].source ELSE "courtlistener") \in {"courtlistener", "cap"}
    BY <1>1 DEF Stored, Row
  <2> QED BY <2>1, <2>2 DEF Row, Opinion
<1>6. op.court = Archive[i].court /\ op.date \in {Archive[i].date, NoDate}
      /\ (op.cites # NotFetched => op.cites = Archive[i].cites)
  BY <1>1 DEF FromDump, Read, Opinion
<1> QED BY <1>1, <1>4, <1>5, <1>6 DEF KeptCites

LEMMA Inserted ==
  ASSUME Types, NEW i \in Ids, NEW c \in Courts, InsertCap(i, CapRow(c, CapDates[i]))
  PROVE  /\ \A k \in Ids : k \in Stored \/ k # i => docs'[k] = docs[k]
         /\ i \notin Stored => docs'[i] = CapRow(c, CapDates[i]) /\ docs'[i] \in Row
<1>1. docs \in [Ids -> Row \cup {NoRow}]
  BY DEF Types, TypeOK, StoreTypeOK
<1>2. CapRow(c, CapDates[i]) \in Row
  BY CorpusAssumption DEF CapRow, Row, Cites
<1> QED BY <1>1, <1>2 DEF InsertCap

\* No row is lost, and no citations.
LEMMA RowsStep ==
  ASSUME Types, RowsOk, [Next]_vars
  PROVE  /\ RowsOk'
         /\ Stored \subseteq Stored'
         /\ \A i \in Ids : Captured(i) => Captured(i)' /\ docs'[i].cites = docs[i].cites
<1>0. NoRow \notin Row /\ docs \in [Ids -> Row \cup {NoRow}]
      /\ \A i \in DOMAIN Archive : i \in Ids /\ Archive[i].cites # NotFetched
  BY CorpusAssumption DEF Types, TypeOK, StoreTypeOK
<1>1. CASE docs' = docs
  BY <1>1 DEF RowsOk, Stored, Captured
<1>2. ASSUME NEW i \in DOMAIN Archive, NEW op \in {Read(i, "search"), FromDump(i)}, Upsert(i, op)
      PROVE  /\ RowsOk'
             /\ Stored \subseteq Stored'
             /\ \A k \in Ids : Captured(k) => Captured(k)' /\ docs'[k].cites = docs[k].cites
  <2>1. op \in Opinion
    BY ReadType
  <2>2. /\ \A k \in Ids \ {i} : docs'[k] = docs[k]
        /\ docs'[i] # NoRow /\ docs'[i].court = Archive[i].court
        /\ docs'[i].cites = IF op.cites = NotFetched /\ i \in Stored
                            THEN docs[i].cites ELSE op.cites
        /\ op.cites # NotFetched => op.cites = Archive[i].cites
    BY <1>2, <2>1, Upserted
  <2>3. Stored \subseteq Stored'
    BY <2>2 DEF Stored
  <2>4. i \in Ids /\ (i \in Stored /\ docs[i].cites # NotFetched => docs[i].cites = Archive[i].cites)
    BY <1>0 DEF RowsOk
  <2>5. docs'[i].cites # NotFetched => docs'[i].cites = Archive[i].cites
    BY <2>2, <2>4
  <2>6. RowsOk'
    BY <2>2, <2>5 DEF RowsOk, Stored
  <2>7. Captured(i) => docs'[i].cites = docs[i].cites
    BY <2>2, <2>4 DEF Captured
  <2>8. \A k \in Ids : Captured(k) => Captured(k)' /\ docs'[k].cites = docs[k].cites
    BY <2>2, <2>3, <2>7 DEF Captured
  <2> QED BY <2>3, <2>6, <2>8
<1>3. ASSUME NEW i \in Ids, NEW c \in Courts, InsertCap(i, CapRow(c, CapDates[i]))
      PROVE  /\ RowsOk'
             /\ Stored \subseteq Stored'
             /\ \A k \in Ids : Captured(k) => Captured(k)' /\ docs'[k].cites = docs[k].cites
  <2>1. /\ \A k \in Ids : k \in Stored \/ k # i => docs'[k] = docs[k]
        /\ i \notin Stored => docs'[i] = CapRow(c, CapDates[i]) /\ docs'[i] \in Row
    BY <1>3, Inserted
  <2>2. Stored \subseteq Stored'
    BY <2>1 DEF Stored
  <2>3. ASSUME NEW k \in Stored', k \notin Stored
        PROVE  docs'[k].source = "cap" /\ docs'[k].cites = NotFetched
    BY <2>1, <2>3 DEF Stored, CapRow
  <2>4. RowsOk'
    BY <2>1, <2>3 DEF RowsOk, Stored
  <2>5. \A k \in Ids : Captured(k) => Captured(k)' /\ docs'[k].cites = docs[k].cites
    BY <2>1, <2>2 DEF Captured
  <2> QED BY <2>2, <2>4, <2>5
<1> QED BY <1>1, <1>2, <1>3, DocsStep

LEMMA RowsAlways == Spec => []RowsOk
<1>1. Init => RowsOk
  BY DEF Init, RowsOk, Stored
<1>2. Types /\ RowsOk /\ [Next]_vars => RowsOk'
  BY RowsStep
<1> QED BY <1>1, <1>2, TypesAlways, PTL DEF Spec

\* OwnRows: a row under a CourtListener opinion's id that says courtlistener
\* belongs to that opinion (upsert_opinions, insert_row).
THEOREM Owned == Spec => []OwnRows
<1>1. RowsOk => OwnRows
  BY DEF RowsOk, OwnRows
<1> QED BY <1>1, RowsAlways, PTL

\* CitesKept: no command loses citations that were captured (upsert_opinions).
THEOREM Kept == Spec => CitesKept
<1>1. Types /\ RowsOk /\ [Next]_vars =>
        [\A i \in Ids : Captured(i) => Captured(i)' /\ docs'[i].cites = docs[i].cites]_vars
  BY RowsStep
<1> QED BY <1>1, TypesAlways, RowsAlways, PTL DEF Spec, CitesKept

-----------------------------------------------------------------------------
(* The window of cap *)

\* A fetch is never under way after the limit is met.
LimitOk ==
  /\ cap.at # "idle" => cap.done <= CapLimit
  /\ cap.at = "drain" => cap.done < CapLimit

\* The cases left are different ones and none of them is in flight; while there
\* are any the window is full but for the tasks that panicked.
Filled(urls, flight, panics) ==
  /\ IsInjective(urls)
  /\ \A n \in 1..Len(urls) : urls[n] \notin flight
  /\ urls # <<>> => Cardinality(flight) + panics >= Window

WindowOk == cap.at = "drain" => Filled(cap.urls, cap.flight, cap.panics)

LEMMA Min2Values ==
  /\ \A b \in Nat : Min2(1, b) = IF b = 0 THEN 0 ELSE 1
  /\ \A a, b \in Nat : Min2(a, b) < b => Min2(a, b) = a
BY DEF Min2

\* A sequence without its first m elements.
LEMMA Dropped ==
  ASSUME NEW S, NEW s \in Seq(S), NEW m \in 0..Len(s)
  PROVE  /\ SubSeq(s, m + 1, Len(s)) \in Seq(S)
         /\ Len(SubSeq(s, m + 1, Len(s))) = Len(s) - m
         /\ \A n \in 1..(Len(s) - m) : SubSeq(s, m + 1, Len(s))[n] = s[m + n]
<1>1. Len(s) \in Nat /\ m \in Nat /\ m <= Len(s)
  BY LenProperties
<1>2. \A n \in (m + 1)..Len(s) : s[n] \in S
  BY <1>1, ElementOfSeq
<1> DEFINE k == m + 1
           later == SubSeq(s, k, Len(s))
<1>3. k \in Int /\ Len(s) \in Int /\ \A n \in k..Len(s) : s[n] \in S
  BY <1>1, <1>2
<1> HIDE DEF k
<1>4. /\ later \in Seq(S)
      /\ Len(later) = IF k <= Len(s) THEN Len(s) - k + 1 ELSE 0
      /\ \A n \in 1..(Len(s) - k + 1) : later[n] = s[k + n - 1]
  <2>1. \A n \in k..Len(s) : s[n] \in S
    BY <1>3
  <2> QED BY <1>3, <2>1, SubSeqProperties
<1>5. Len(s) - k + 1 = Len(s) - m /\ (k <= Len(s) <=> m < Len(s))
  BY <1>1 DEF k
<1>6. \A n \in Int : k + n - 1 = m + n
  BY <1>1 DEF k
<1> HIDE DEF later
<1>7. Len(later) = Len(s) - m
  BY <1>1, <1>4, <1>5
<1>8. ASSUME NEW n \in 1..(Len(s) - m) PROVE later[n] = s[m + n]
  <2>1. n \in 1..(Len(s) - k + 1)
    BY <1>5
  <2>2. later[n] = s[k + n - 1]
    BY <1>4, <2>1
  <2>3. k + n - 1 = m + n
    BY <1>6
  <2> QED BY <2>2, <2>3
<1> QED BY <1>4, <1>7, <1>8 DEF k, later

\* The first cases of a volume, as many as the window is wide.
LEMMA SeedsFill ==
  ASSUME NEW urls \in Volume, NEW seeds, seeds = Min2(Window, Len(urls))
  PROVE  Filled(SubSeq(urls, seeds + 1, Len(urls)), {urls[n] : n \in 1..seeds}, 0)
<1> DEFINE flight == {urls[n] : n \in 1..seeds}
           later == SubSeq(urls, seeds + 1, Len(urls))
<1>1. /\ urls \in Seq(Ids) /\ IsInjective(urls) /\ Len(urls) \in Nat /\ Window \in Nat
      /\ DOMAIN urls = 1..Len(urls)
  BY LenProperties, CorpusAssumption DEF Volume
<1>2. seeds \in 0..Len(urls)
  BY <1>1, SeedsType
<1>3. \A n \in (seeds + 1)..Len(urls) : urls[n] \in Ids
  BY <1>1, <1>2, ElementOfSeq
<1>4. /\ later \in Seq(Ids) /\ Len(later) = Len(urls) - seeds
      /\ \A n \in 1..(Len(urls) - seeds) : later[n] = urls[seeds + n]
  BY <1>1, <1>2, Dropped
<1> HIDE DEF later
<1>5. IsInjective(later)
  <2>1. DOMAIN later = 1..(Len(urls) - seeds)
    BY <1>4, LenProperties
  <2> SUFFICES ASSUME NEW a \in 1..(Len(urls) - seeds), NEW b \in 1..(Len(urls) - seeds),
                      later[a] = later[b]
               PROVE  a = b
    BY <2>1 DEF IsInjective
  <2>2. urls[seeds + a] = urls[seeds + b]
    BY <1>4
  <2>3. seeds + a \in DOMAIN urls /\ seeds + b \in DOMAIN urls
    BY <1>1, <1>2
  <2>4. seeds + a = seeds + b
    BY <1>1, <2>2, <2>3 DEF IsInjective
  <2> QED BY <1>2, <2>4
<1>6. ASSUME NEW n \in 1..Len(later) PROVE later[n] \notin flight
  <2> SUFFICES ASSUME NEW k \in 1..seeds, urls[seeds + n] = urls[k] PROVE FALSE
    BY <1>4
  <2>1. seeds + n \in DOMAIN urls /\ k \in DOMAIN urls /\ k # seeds + n
    BY <1>1, <1>2, <1>4
  <2> QED BY <1>1, <2>1 DEF IsInjective
<1>7. Cardinality(flight) = seeds
  <2> DEFINE f == [n \in 1..seeds |-> urls[n]]
  <2>1. 1..seeds \subseteq DOMAIN urls
    BY <1>1, <1>2
  <2>2. f \in Injection(1..seeds, flight)
    BY <1>1, <2>1 DEF Injection, IsInjective
  <2>3. f \in Surjection(1..seeds, flight)
    BY DEF Surjection
  <2>4. ExistsBijection(1..seeds, flight)
    BY <2>2, <2>3 DEF ExistsBijection, Bijection
  <2> QED BY <1>2, <2>4, FS_CountingElements
<1>8. later # <<>> => seeds = Window
  <2>1. later # <<>> => Len(later) > 0
    BY <1>4, EmptySeq
  <2>2. later # <<>> => seeds < Len(urls)
    BY <1>1, <1>2, <1>4, <2>1
  <2> QED BY <1>1, <2>2, Min2Values
<1>9. later # <<>> => Cardinality(flight) + 0 >= Window
  BY <1>1, <1>7, <1>8
<1> HIDE DEF flight
<1> QED BY <1>5, <1>6, <1>9 DEF Filled, later, flight

\* A completion is replaced by the next case, if there is one.
LEMMA TurnFills ==
  ASSUME cap \in CapRun, NEW u \in cap.flight, NEW counted \in {0, 1},
         Filled(cap.urls, cap.flight, cap.panics), cap.done + counted < CapLimit
  PROVE  LET next == Turn(u, counted)
         IN  next.at = cap.at /\ Filled(next.urls, next.flight, next.panics)
<1> DEFINE urls == cap.urls
           next == Turn(u, counted)
<1>1. /\ urls \in Seq(Ids) /\ cap.done \in Nat /\ Len(urls) \in Nat /\ CapLimit \in Nat
      /\ IsFiniteSet(cap.flight) /\ cap.panics \in Nat /\ Window \in Nat
      /\ DOMAIN urls = 1..Len(urls)
  BY LenProperties, CorpusAssumption, FS_Subset DEF CapRun
<1>2. next = [cap EXCEPT !.done = @ + counted,
                !.flight = (@ \ {u}) \cup {urls[k] : k \in 1..Min2(1, Len(urls))},
                !.urls = SubSeq(@, Min2(1, Len(urls)) + 1, Len(@))]
  BY <1>1 DEF Turn
<1>3. /\ next.at = cap.at /\ next.panics = cap.panics
      /\ next.flight = (cap.flight \ {u}) \cup {urls[k] : k \in 1..Min2(1, Len(urls))}
      /\ next.urls = SubSeq(urls, Min2(1, Len(urls)) + 1, Len(urls))
  BY <1>2 DEF CapRun
<1> HIDE DEF next
<1>4. CASE urls = <<>>
  <2>1. Len(urls) = 0
    BY <1>4
  <2>2. Min2(1, Len(urls)) = 0
    BY <2>1, Min2Values
  <2>3. next.urls = <<>>
    BY <1>3, <2>1, <2>2, SubSeqEmpty
  <2>4. next.urls = urls
    BY <1>4, <2>3
  <2>5. \A n \in 1..Len(urls) : next.urls[n] \notin next.flight
    BY <2>1
  <2>6. IsInjective(urls)
    BY DEF Filled
  <2> QED BY <1>3, <1>4, <2>4, <2>5, <2>6 DEF Filled, next
<1>5. CASE urls # <<>>
  <2>1. Len(urls) > 0
    BY <1>1, <1>5, EmptySeq
  <2>2. Min2(1, Len(urls)) = 1
    BY <1>1, <2>1, Min2Values
  <2>3. next.flight = (cap.flight \ {u}) \cup {urls[1]}
    <3>1. {urls[k] : k \in 1..1} = {urls[1]}
      OBVIOUS
    <3> QED BY <1>3, <2>2, <3>1
  <2>4. next.urls = Tail(urls)
    <3>1. next.urls = SubSeq(urls, 2, Len(urls))
      BY <1>3, <2>2
    <3>2. Tail(urls) = SubSeq(urls, 2, Len(urls))
      BY <1>1, <1>5, TailIsSubSeq
    <3> QED BY <3>1, <3>2
  <2>5. /\ Tail(urls) \in Seq(Ids) /\ Len(Tail(urls)) = Len(urls) - 1
        /\ \A n \in 1..Len(Tail(urls)) : Tail(urls)[n] = urls[n + 1]
        /\ DOMAIN Tail(urls) = 1..Len(Tail(urls))
    BY <1>1, <1>5, HeadTailProperties, LenProperties
  <2>6. \A n \in 1..Len(Tail(urls)) : n + 1 \in DOMAIN urls
    BY <1>1, <2>5
  <2>7. 1 \in DOMAIN urls /\ urls[1] \notin cap.flight
    BY <1>1, <2>1 DEF Filled
  <2>8. IsInjective(Tail(urls))
    <3> SUFFICES ASSUME NEW a \in 1..Len(Tail(urls)), NEW b \in 1..Len(Tail(urls)),
                        Tail(urls)[a] = Tail(urls)[b]
                 PROVE  a = b
      BY <2>5 DEF IsInjective
    <3>1. a + 1 = b + 1
      BY <2>5, <2>6 DEF Filled, IsInjective
    <3> QED BY <1>1, <2>5, <3>1
  <2>9. ASSUME NEW n \in 1..Len(Tail(urls)) PROVE Tail(urls)[n] \notin next.flight
    <3>1. Tail(urls)[n] = urls[n + 1] /\ n + 1 \in DOMAIN urls /\ n + 1 # 1
      BY <2>5, <2>6
    <3>2. urls[n + 1] # urls[1]
      BY <2>7, <3>1 DEF Filled, IsInjective
    <3>3. urls[n + 1] \notin cap.flight
      BY <1>1, <3>1 DEF Filled
    <3> QED BY <2>3, <3>1, <3>2, <3>3
  <2>10. Cardinality(next.flight) = Cardinality(cap.flight)
    <3>1. /\ IsFiniteSet(cap.flight \ {u})
          /\ Cardinality(cap.flight \ {u}) = Cardinality(cap.flight) - 1
      BY <1>1, FS_RemoveElement
    <3>2. Cardinality((cap.flight \ {u}) \cup {urls[1]}) = Cardinality(cap.flight \ {u}) + 1
      BY <2>7, <3>1, FS_AddElement
    <3> QED BY <1>1, <2>3, <3>1, <3>2, FS_CardinalityType
  <2>11. Cardinality(next.flight) + next.panics >= Window
    BY <1>3, <1>5, <2>10 DEF Filled
  <2> QED BY <1>3, <2>4, <2>8, <2>9, <2>11 DEF Filled, next
<1> QED BY <1>4, <1>5

CapOk == LimitOk /\ WindowOk

LEMMA CapElsewhere ==
  ASSUME CapOk, UNCHANGED cap PROVE CapOk'
BY DEF CapOk, LimitOk, WindowOk

LEMMA CapOkStep == ASSUME Types, CapOk, [Next]_vars PROVE CapOk'
<1>0. CapLimit \in Nat /\ (cap.at # "idle" => cap \in CapRun)
  BY CorpusAssumption, CapIsRun DEF Types, TypeOK
<1>1. CASE CapStart
  <2>1. cap'.at = "walk" /\ cap'.done = 0
    BY <1>1 DEF CapStart
  <2> QED BY <1>0, <2>1 DEF CapOk, LimitOk, WindowOk
<1>2. CASE CapListCourt \/ CapSkipVolume
  <2>1. cap'.at = "walk" /\ cap'.done = cap.done
    BY <1>0, <1>2 DEF CapListCourt, CapSkipVolume, CapRun
  <2> QED BY <1>2, <2>1 DEF CapOk, LimitOk, WindowOk, CapListCourt, CapSkipVolume
<1>3. CASE CapListVolume
  <2> DEFINE urls == Head(cap.volumes)
             seeds == Min2(Window, Len(urls))
  <2>1. cap \in CapRun /\ cap.done \in Nat
    BY <1>0, <1>3 DEF CapListVolume, CapRun
  <2>2. urls \in Volume
    BY <1>3, <2>1, TailType DEF CapListVolume, CapRun
  <2>3. Filled(SubSeq(urls, seeds + 1, Len(urls)), {urls[n] : n \in 1..seeds}, 0)
    BY <2>2, SeedsFill
  <2>4. cap' = [cap EXCEPT !.at = "drain", !.volumes = Tail(@), !.panics = 0,
                  !.flight = {urls[n] : n \in 1..seeds},
                  !.urls = SubSeq(urls, seeds + 1, Len(urls))]
    BY <1>3 DEF CapListVolume
  <2> HIDE DEF urls, seeds
  <2>5. /\ cap'.flight = {urls[n] : n \in 1..seeds} /\ cap'.panics = 0
        /\ cap'.urls = SubSeq(urls, seeds + 1, Len(urls)) /\ cap'.done = cap.done
    BY <2>1, <2>4 DEF CapRun
  <2>6. WindowOk'
    BY <2>3, <2>5 DEF WindowOk
  <2>7. LimitOk'
    BY <1>0, <1>3, <2>1, <2>5 DEF LimitOk, CapListVolume, Full
  <2> QED BY <2>6, <2>7 DEF CapOk
<1>4. ASSUME NEW u \in cap.flight, NEW counted \in {0, 1}, cap.at = "drain",
             cap' = Turn(u, counted)
      PROVE  CapOk'
  <2>1. cap \in CapRun /\ cap.done \in Nat /\ cap.done < CapLimit
    BY <1>0, <1>4 DEF CapRun, CapOk, LimitOk
  <2>2. CASE cap.done + counted >= CapLimit
    <3>1. cap'.at = "walk" /\ cap'.done = cap.done + counted
      BY <1>4, <2>1, <2>2 DEF Turn, CapRun
    <3>2. cap.done + counted <= CapLimit
      BY <1>0, <2>1
    <3> QED BY <3>1, <3>2 DEF CapOk, LimitOk, WindowOk
  <2>3. CASE cap.done + counted < CapLimit
    <3>1. Filled(cap'.urls, cap'.flight, cap'.panics)
      BY <1>4, <2>1, <2>3, TurnFills DEF CapOk, WindowOk
    <3>2. cap'.done = cap.done + counted
      BY <1>0, <1>4, <2>1, <2>3 DEF Turn, CapRun
    <3> QED BY <1>0, <2>1, <2>3, <3>1, <3>2 DEF CapOk, LimitOk, WindowOk
  <2> QED BY <1>0, <2>1, <2>2, <2>3
<1>5. ASSUME NEW u \in cap.flight, cap.at = "drain",
             cap' = [cap EXCEPT !.flight = @ \ {u}, !.panics = @ + 1]
      PROVE  CapOk'
  <2>1. cap \in CapRun /\ cap.panics \in Nat /\ IsFiniteSet(cap.flight) /\ Window \in Nat
    BY <1>0, <1>5, CorpusAssumption, FS_Subset DEF CapRun
  <2>2. /\ cap'.at = "drain" /\ cap'.done = cap.done /\ cap'.urls = cap.urls
        /\ cap'.flight = cap.flight \ {u} /\ cap'.panics = cap.panics + 1
    BY <1>5, <2>1 DEF CapRun
  <2>3. /\ Cardinality(cap.flight \ {u}) = Cardinality(cap.flight) - 1
        /\ Cardinality(cap.flight) \in Nat
    BY <2>1, FS_RemoveElement, FS_CardinalityType
  <2>4. Cardinality(cap'.flight) + cap'.panics = Cardinality(cap.flight) + cap.panics
    BY <2>1, <2>2, <2>3
  <2>5. Filled(cap'.urls, cap'.flight, cap'.panics)
    BY <1>5, <2>2, <2>4 DEF CapOk, WindowOk, Filled
  <2> QED BY <1>5, <2>2, <2>5 DEF CapOk, LimitOk, WindowOk
<1>6. CASE CapVolumeDone
  <2>1. cap'.at = "walk" /\ cap'.done = cap.done
    BY <1>0, <1>6 DEF CapVolumeDone, CapRun
  <2> QED BY <1>6, <2>1 DEF CapOk, LimitOk, WindowOk, CapVolumeDone
<1>7. CASE CapEnd
  BY <1>7 DEF CapEnd, IdleCap, CapOk, LimitOk, WindowOk
<1>8. CASE CapStep
  BY <1>2, <1>3, <1>4, <1>5, <1>6, <1>7, <1>8 DEF CapStep, CapStore, CapPass, CapPanic
<1>9. CASE UNCHANGED cap
  BY <1>9, CapElsewhere
<1>10. ASSUME NEW r \in Runs, RestNext(r) PROVE UNCHANGED cap
  BY <1>10 DEF RestNext, RestStep, RestStart, RestCursor, RestSearch, RestEnd, RestSkip,
     RestBlank, RestStore, RestError, RestStops, RestOnly, others
<1>11. ASSUME (\E c \in Slugs : BulkStart(c)) \/ BulkStep \/ PopStart \/ PopStep
       PROVE  UNCHANGED cap
  BY <1>11 DEF BulkStep, BulkStart, BulkEnd, BulkUpsert, BulkOnly, PopStep, PopStart, PopScan,
     PopInsert, PopEnd, PopDies, PopOnly
<1>12. (\E i \in DOMAIN Archive : Publish(i)) \/ UNCHANGED vars => UNCHANGED cap
  BY DEF Publish, others, vars
<1> QED BY <1>1, <1>8, <1>9, <1>10, <1>11, <1>12 DEF Next

LEMMA CapAlways == Spec => []CapOk
<1>1. Init => CapOk
  BY DEF Init, IdleCap, CapOk, LimitOk, WindowOk
<1>2. Types /\ CapOk /\ [Next]_vars => CapOk'
  BY CapOkStep
<1> QED BY <1>1, <1>2, TypesAlways, PTL DEF Spec

\* CapWithinLimit: however the fetches complete, cap counts no more than --limit.
THEOREM WithinLimit == Spec => []CapWithinLimit
<1>1. CapOk => CapWithinLimit
  BY DEF CapOk, LimitOk, CapWithinLimit
<1> QED BY <1>1, CapAlways, PTL

\* WindowDrained: a volume is only left with cases unfetched when as many tasks
\* panicked as the window is wide.
THEOREM Drained == Spec => []WindowDrained
<1>1. Types /\ CapOk => WindowDrained
  <2> SUFFICES ASSUME Types, CapOk, cap.at = "drain", cap.flight = {}, cap.urls # <<>>
               PROVE  cap.panics >= Window
    BY DEF WindowDrained
  <2>1. cap.panics \in Nat
    BY CapIsRun DEF Types, TypeOK, CapRun
  <2>2. Cardinality(cap.flight) + cap.panics >= Window
    BY DEF CapOk, WindowOk, Filled
  <2>3. Cardinality({}) = 0
    BY FS_EmptySet
  <2> QED BY <2>1, <2>2, <2>3
<1> QED BY <1>1, TypesAlways, CapAlways, PTL

-----------------------------------------------------------------------------
(* populate-citations *)

\* What was due when the run began still is, whatever the other commands write.
PopOk ==
  /\ pop.at = "scan" =>
       /\ pop.known \subseteq Stored
       /\ \A e \in pop.due :
            /\ Insertable(e) /\ Captured(e[1])
            /\ e[2] \in Cited(e[1]) /\ e[2] \in pop.known
  /\ pop.at = "insert" =>
       /\ \A e \in pop.todo : Insertable(e)
       /\ pop.due \subseteq pop.todo \cup edges

LEMMA PopElsewhere ==
  ASSUME Types, RowsOk, PopOk, [Next]_vars, UNCHANGED <<pop, edges>>
  PROVE  PopOk'
<1>1. /\ Stored \subseteq Stored'
      /\ \A i \in Ids : Captured(i) => Captured(i)' /\ docs'[i].cites = docs[i].cites
  BY RowsStep
<1>2. pop.at = "scan" => pop.due \subseteq Ids \X Ids
  BY DEF Types, TypeOK, PopType, IdlePop
<1>3. \A e : Insertable(e) => Insertable(e)'
  BY <1>1 DEF Insertable
<1>4. ASSUME pop.at = "scan", NEW e \in pop.due
      PROVE  Captured(e[1])' /\ e[2] \in Cited(e[1])'
  <2>1. e[1] \in Ids
    BY <1>2, <1>4
  <2>2. Captured(e[1]) /\ e[2] \in Cited(e[1])
    BY <1>4 DEF PopOk
  <2> QED BY <1>1, <2>1, <2>2 DEF Cited
<1> QED BY <1>1, <1>3, <1>4 DEF PopOk

LEMMA PopOkStep == ASSUME Types, RowsOk, PopOk, [Next]_vars PROVE PopOk'
<1>1. CASE PopStart
  <2>1. /\ pop'.at = "scan" /\ pop'.known = Stored
        /\ pop'.due = {e \in Ids \X Ids : Insertable(e) /\ Captured(e[1]) /\ e[2] \in Cited(e[1])}
    BY <1>1 DEF PopStart
  <2>2. docs' = docs /\ Stored' = Stored
    BY <1>1 DEF PopStart, PopOnly, Stored
  <2>3. \A e \in pop'.due : Insertable(e)' /\ Captured(e[1])' /\ e[2] \in Cited(e[1])'
    BY <2>1, <2>2 DEF Insertable, Captured, Cited
  <2> QED BY <2>1, <2>2, <2>3 DEF PopOk, Insertable
<1>2. CASE PopScan
  <2> DEFINE todo == UNION {{i} \X Resolved(i, pop.known) : i \in {j \in Ids : Captured(j)}}
  <2>1. /\ pop' = [at |-> "insert", due |-> pop.due, todo |-> todo]
        /\ docs' = docs /\ Stored' = Stored /\ pop.at = "scan"
    BY <1>2 DEF PopScan, PopOnly, Stored
  <2>2. ASSUME NEW e \in todo PROVE Insertable(e)
    <3>1. PICK i \in Ids : Captured(i) /\ e \in {i} \X Resolved(i, pop.known)
      BY <2>2
    <3>2. e[1] = i /\ e[2] \in Resolved(i, pop.known)
      BY <3>1
    <3> QED BY <2>1, <3>1, <3>2 DEF Insertable, Captured, Resolved, PopOk
  <2>3. ASSUME NEW e \in pop.due PROVE e \in todo
    <3>1. e \in Ids \X Ids
      BY <2>1, <2>3 DEF Types, TypeOK, PopType, IdlePop
    <3>2. e = <<e[1], e[2]>> /\ e[1] \in Ids
      BY <3>1
    <3>3. Captured(e[1]) /\ e[2] \in Resolved(e[1], pop.known)
      BY <2>1, <2>3 DEF PopOk, Insertable, Resolved
    <3> QED BY <3>2, <3>3
  <2> HIDE DEF todo
  <2>4. pop'.at = "insert" /\ pop'.todo = todo /\ pop'.due = pop.due
    BY <2>1
  <2>5. \A e : Insertable(e) => Insertable(e)'
    BY <2>1 DEF Insertable
  <2> QED BY <2>2, <2>3, <2>4, <2>5 DEF PopOk
<1>3. CASE PopInsert
  <2>1. PICK e \in pop.todo :
          edges' = edges \cup {e} /\ pop' = [pop EXCEPT !.todo = @ \ {e}]
    BY <1>3 DEF PopInsert
  <2>2. pop.at = "insert"
        /\ pop \in [at : {"insert"}, todo : SUBSET (Ids \X Ids), due : SUBSET (Ids \X Ids)]
    BY <1>3 DEF PopInsert, Types, TypeOK, PopType, IdlePop
  <2>3. pop'.at = "insert" /\ pop'.todo = pop.todo \ {e} /\ pop'.due = pop.due
    BY <2>1, <2>2
  <2>4. \A f : Insertable(f) => Insertable(f)'
    BY <1>3 DEF PopInsert, PopOnly, Insertable, Stored
  <2> QED BY <2>1, <2>2, <2>3, <2>4 DEF PopOk
<1>4. CASE PopEnd \/ PopDies
  BY <1>4 DEF PopEnd, PopDies, IdlePop, PopOk
<1>5. CASE UNCHANGED <<pop, edges>>
  BY <1>5, PopElsewhere
<1>6. ASSUME NEW r \in Runs, RestNext(r) PROVE UNCHANGED <<pop, edges>>
  BY <1>6 DEF RestNext, RestStep, RestStart, RestCursor, RestSearch, RestEnd, RestSkip,
     RestBlank, RestStore, RestError, RestStops, RestOnly, others
<1>7. ASSUME (\E c \in Slugs : BulkStart(c)) \/ BulkStep PROVE UNCHANGED <<pop, edges>>
  BY <1>7 DEF BulkStep, BulkStart, BulkEnd, BulkUpsert, BulkOnly
<1>8. ASSUME CapStart \/ CapStep PROVE UNCHANGED <<pop, edges>>
  BY <1>8 DEF CapStep, CapStart, CapListCourt, CapListVolume, CapSkipVolume, CapVolumeDone,
     CapEnd, CapStore, CapPass, CapPanic, CapReads, CapOnly
<1>9. (\E i \in DOMAIN Archive : Publish(i)) \/ UNCHANGED vars => UNCHANGED <<pop, edges>>
  BY DEF Publish, others, store, vars
<1> QED BY <1>1, <1>2, <1>3, <1>4, <1>5, <1>6, <1>7, <1>8, <1>9 DEF Next, PopStep

LEMMA PopAlways == Spec => []PopOk
<1>1. Init => PopOk
  BY DEF Init, IdlePop, PopOk
<1>2. Types /\ RowsOk /\ PopOk /\ [Next]_vars => PopOk'
  BY PopOkStep
<1> QED BY <1>1, <1>2, TypesAlways, RowsAlways, PTL DEF Spec

\* EdgesInsertable: no insert of populate-citations can break a foreign key or
\* the self-loop constraint.
THEOREM NoBrokenInsert == Spec => []EdgesInsertable
<1>1. PopOk => EdgesInsertable
  BY DEF PopOk, EdgesInsertable
<1> QED BY <1>1, PopAlways, PTL

\* EdgesComplete: a run that ends leaves every edge that could be resolved when
\* it began.
THEOREM Complete == Spec => EdgesComplete
<1>1. PopOk => [PopEnd => pop.due \subseteq edges']_vars
  BY DEF PopOk, PopEnd
<1> QED BY <1>1, PopAlways, PTL DEF EdgesComplete

-----------------------------------------------------------------------------
(* The walk of run-rest *)

Found(j) == j \in Stored \cup Blank \cup excused

\* Nothing of court c that is newer than d is missing.
Clear(c, d) == \A j \in published : Archive[j].court = c /\ Archive[j].date > d => Found(j)

\* Every row of a court that only run-rest wrote has nothing missing above it.
RowsClear ==
  \A i \in Stored :
    docs[i].court \notin mixed /\ docs[i].date # NoDate =>
      docs[i].court \in searched /\ Clear(docs[i].court, docs[i].date)

\* Nor has the cursor of a run, nor a candidate, but for the candidates before it.
AboveCandidate(r, i) ==
  \A j \in published :
    Archive[j].court = rest[r].court /\ Newer(j, i) => j \in rest[r].left \/ Found(j)

RunClear(r) ==
  /\ rest[r].at # "idle" => rest[r].known \subseteq Stored
  /\ rest[r].at = "search" /\ rest[r].before # NoDate /\ rest[r].court \notin mixed =>
       rest[r].court \in searched /\ Clear(rest[r].court, rest[r].before)
  /\ rest[r].at = "hydrate" =>
       /\ rest[r].court \in searched
       /\ \A i \in rest[r].left :
            /\ Archive[i].court = rest[r].court
            /\ rest[r].court \notin mixed => AboveCandidate(r, i)

WalkOk == RowsClear /\ \A r \in Runs : RunClear(r)

\* What was found stays so; what is published later counts as found in a court
\* that was searched.
Forward ==
  /\ Stored \subseteq Stored' /\ published \subseteq published'
  /\ searched \subseteq searched' /\ mixed \subseteq mixed'
  /\ \A j \in published : Found(j) => Found(j)'
  /\ \A j \in published' \ published : Archive[j].court \in searched => Found(j)'

LEMMA WalkForward == ASSUME Types, RowsOk, [Next]_vars PROVE Forward
<1>1. Stored \subseteq Stored'
  BY RowsStep
<1>2. ASSUME published' = published, searched \subseteq searched', mixed \subseteq mixed',
             \A j \in excused : j \in Stored' \cup excused'
      PROVE  Forward
  BY <1>1, <1>2 DEF Forward, Found
<1>3. ASSUME UNCHANGED published, UNCHANGED history PROVE Forward
  BY <1>2, <1>3 DEF history
<1>4. ASSUME NEW r \in Runs, RestNext(r) PROVE Forward
  <2>1. CASE \E c \in Cron : RestStart(r, c)
    BY <1>3, <2>1 DEF RestStart, RestOnly
  <2>2. CASE RestSearch(r)
    BY <1>2, <2>2 DEF RestSearch, RestOnly
  <2>3. ASSUME NEW i \in Left(r), RestStore(r, i) PROVE Forward
    <3>1. i \in DOMAIN Archive
      BY <2>3, PassedType DEF RestStore, Types, TypeOK
    <3>2. i \in Stored'
      <4>1. Read(i, "search") \in Opinion /\ i \in Ids
        BY <3>1, ReadType
      <4>2. docs'[i] # NoRow
        BY <2>3, <3>1, <4>1, Upserted DEF RestStore
      <4> QED BY <4>1, <4>2 DEF Stored
    <3> QED BY <1>2, <2>3, <3>2 DEF RestStore, RestOnly
  <2>4. ASSUME NEW i \in Left(r), RestError(r, i) PROVE Forward
    BY <1>1, <1>2, <2>4 DEF RestError, RestOnly
  <2>5. ASSUME NEW i \in Left(r), RestSkip(r, i) \/ RestBlank(r, i) PROVE Forward
    BY <1>3, <2>5 DEF RestSkip, RestBlank, RestOnly
  <2>6. CASE RestCursor(r) \/ RestEnd(r) \/ RestStops(r)
    BY <1>3, <2>6 DEF RestCursor, RestEnd, RestStops, RestOnly
  <2> QED BY <1>4, <2>1, <2>2, <2>3, <2>4, <2>5, <2>6 DEF RestNext, RestStep
<1>5. ASSUME NEW i \in DOMAIN Archive, BulkUpsert(i) PROVE Forward
  <2>1. FromDump(i) \in Opinion /\ i \in Ids
    BY ReadType
  <2>2. docs'[i] # NoRow
    BY <1>5, <2>1, Upserted DEF BulkUpsert
  <2>3. i \in Stored'
    BY <2>1, <2>2 DEF Stored
  <2> QED BY <1>2, <1>5, <2>3 DEF BulkUpsert, BulkOnly
<1>6. CASE (\E c \in Slugs : BulkStart(c)) \/ BulkEnd
  BY <1>3, <1>6 DEF BulkStart, BulkEnd, BulkOnly
<1>7. CASE CapStart \/ CapStep
  BY <1>2, <1>7 DEF CapStep, CapStart, CapListCourt, CapListVolume, CapSkipVolume, CapVolumeDone,
     CapEnd, CapStore, CapPass, CapPanic, CapReads, CapOnly
<1>8. CASE PopStart \/ PopStep
  BY <1>3, <1>8 DEF PopStep, PopStart, PopScan, PopInsert, PopEnd, PopDies, PopOnly
<1>9. ASSUME NEW i \in DOMAIN Archive, Publish(i) PROVE Forward
  <2>1. Stored' = Stored /\ searched' = searched /\ mixed' = mixed
    BY <1>9 DEF Publish, store, Stored
  <2>2. published' = published \cup {i} /\ excused \subseteq excused'
    BY <1>9 DEF Publish
  <2>3. Archive[i].court \in searched => i \in excused'
    BY <1>9 DEF Publish
  <2> QED BY <2>1, <2>2, <2>3 DEF Forward, Found
<1>10. CASE UNCHANGED vars
  BY <1>3, <1>10 DEF vars
<1> QED BY <1>4, <1>5, <1>6, <1>7, <1>8, <1>9, <1>10 DEF Next, BulkStep

ClearAfter(c, d) ==
  \A j \in published' : Archive[j].court = c /\ Archive[j].date > d => Found(j)'

LEMMA ClearForward ==
  ASSUME Forward, NEW c \in searched, NEW d, Clear(c, d)
  PROVE  c \in searched' /\ ClearAfter(c, d)
BY DEF Forward, Clear, ClearAfter

\* What a row that is not written keeps.
LEMMA RowClear ==
  ASSUME Forward, RowsClear, NEW i \in Stored, docs'[i] = docs[i],
         docs'[i].court \notin mixed', docs'[i].date # NoDate
  PROVE  docs'[i].court \in searched' /\ ClearAfter(docs'[i].court, docs'[i].date)
<1>1. docs[i].court \notin mixed /\ docs[i].date # NoDate
  BY DEF Forward
<1>2. docs[i].court \in searched /\ Clear(docs[i].court, docs[i].date)
  BY <1>1 DEF RowsClear
<1>3. docs[i].court \in searched' /\ ClearAfter(docs[i].court, docs[i].date)
  BY <1>2, ClearForward
<1> QED BY <1>3

LEMMA RowsClearNext ==
  ASSUME \A i \in Stored' :
           docs'[i].court \notin mixed' /\ docs'[i].date # NoDate =>
             docs'[i].court \in searched' /\ ClearAfter(docs'[i].court, docs'[i].date)
  PROVE  RowsClear'
BY DEF RowsClear, Clear, ClearAfter

LEMMA RowsElsewhere ==
  ASSUME Forward, RowsClear, UNCHANGED docs
  PROVE  RowsClear'
<1>1. Stored' = Stored
  BY DEF Stored
<1>2. ASSUME NEW i \in Stored', docs'[i].court \notin mixed', docs'[i].date # NoDate
      PROVE  docs'[i].court \in searched' /\ ClearAfter(docs'[i].court, docs'[i].date)
  BY <1>1, <1>2, RowClear
<1> QED BY <1>2, RowsClearNext

\* What a run that does not move keeps.
LEMMA RunElsewhere ==
  ASSUME Forward, NEW r \in Runs, RunClear(r), rest'[r] = rest[r]
  PROVE  RunClear(r)'
<1>1. rest'[r].at # "idle" => rest'[r].known \subseteq Stored'
  BY DEF Forward, RunClear
<1>2. ASSUME rest'[r].at = "search", rest'[r].before # NoDate, rest'[r].court \notin mixed'
      PROVE  rest'[r].court \in searched' /\ ClearAfter(rest'[r].court, rest'[r].before)
  <2>1. rest[r].court \in searched /\ Clear(rest[r].court, rest[r].before)
    BY <1>2 DEF Forward, RunClear
  <2>2. rest[r].court \in searched' /\ ClearAfter(rest[r].court, rest[r].before)
    BY <2>1, ClearForward
  <2> QED BY <2>2
<1>3. ASSUME rest'[r].at = "hydrate" PROVE rest'[r].court \in searched'
  BY <1>3 DEF Forward, RunClear
<1>4. ASSUME rest'[r].at = "hydrate", NEW i \in rest'[r].left
      PROVE  /\ Archive[i].court = rest'[r].court
             /\ rest'[r].court \notin mixed' => AboveCandidate(r, i)'
  <2>1. rest[r].court \in searched /\ Archive[i].court = rest[r].court
    BY <1>4 DEF RunClear
  <2>2. ASSUME rest'[r].court \notin mixed', NEW j \in published',
               Archive[j].court = rest'[r].court, Newer(j, i)
        PROVE  j \in rest'[r].left \/ Found(j)'
    <3>1. AboveCandidate(r, i)
      BY <1>4, <2>2 DEF Forward, RunClear
    <3>2. CASE j \in published
      BY <2>2, <3>1, <3>2 DEF Forward, AboveCandidate
    <3>3. CASE j \notin published
      BY <2>1, <2>2, <3>3 DEF Forward
    <3> QED BY <3>2, <3>3
  <2> QED BY <2>1, <2>2 DEF AboveCandidate, Newer
<1> QED BY <1>1, <1>2, <1>3, <1>4 DEF RunClear, Clear, ClearAfter

\* Newer is an order.
LEMMA NewerTransitive ==
  ASSUME NEW i \in DOMAIN Archive, NEW j \in DOMAIN Archive, NEW k \in DOMAIN Archive,
         Newer(k, j), Newer(j, i)
  PROVE  Newer(k, i)
<1>1. \A x \in {i, j, k} : x \in Nat /\ Archive[x].date \in Nat
  BY CorpusAssumption DEF Opinion
<1> QED BY <1>1 DEF Newer

\* A search that returns an opinion returns the newer ones as well.
LEMMA CandidatesUpward ==
  ASSUME Types, NEW c, NEW before, NEW i \in Candidates(c, before), NEW j \in published,
         Hit(j, c, before), Newer(j, i)
  PROVE  j \in Candidates(c, before)
<1> DEFINE Above(x) == {k \in published : Hit(k, c, before) /\ Newer(k, x)}
<1>1. published \subseteq DOMAIN Archive /\ IsFiniteSet(published)
  BY CorpusAssumption, FS_Subset DEF Types, TypeOK
<1>2. i \in published /\ Cardinality(Above(i)) < ScanSize
  BY DEF Candidates
<1>3. Above(j) \subseteq Above(i)
  BY <1>1, <1>2, NewerTransitive
<1>4. IsFiniteSet(Above(i)) /\ IsFiniteSet(Above(j))
  BY <1>1, FS_Subset
<1>5. /\ Cardinality(Above(j)) <= Cardinality(Above(i))
      /\ Cardinality(Above(i)) \in Nat /\ Cardinality(Above(j)) \in Nat
  BY <1>3, <1>4, FS_Subset, FS_CardinalityType
<1>6. ScanSize \in Nat
  BY CorpusAssumption DEF ScanSize
<1>7. Cardinality(Above(j)) < ScanSize
  BY <1>2, <1>5, <1>6
<1> QED BY <1>7 DEF Candidates

\* The bulk run and the CAP run write rows of courts that are mixed from then on.
LEMMA OthersRows ==
  ASSUME Types, Forward, RowsClear,
         BulkStep \/ CapStart \/ CapStep \/ PopStart \/ PopStep \/ \E c \in Slugs : BulkStart(c)
  PROVE  RowsClear'
<1>1. ASSUME NEW i \in DOMAIN Archive, BulkUpsert(i) PROVE RowsClear'
  <2>1. FromDump(i) \in Opinion
    BY ReadType
  <2>2. docs'[i].court = Archive[i].court /\ \A k \in Ids \ {i} : docs'[k] = docs[k]
    BY <1>1, <2>1, Upserted DEF BulkUpsert
  <2>3. Archive[i].court \in mixed'
    BY <1>1 DEF BulkUpsert
  <2>4. ASSUME NEW k \in Stored', docs'[k].court \notin mixed', docs'[k].date # NoDate
        PROVE  docs'[k].court \in searched' /\ ClearAfter(docs'[k].court, docs'[k].date)
    <3>1. k # i
      BY <2>2, <2>3, <2>4
    <3>2. docs'[k] = docs[k] /\ k \in Stored
      BY <2>2, <2>4, <3>1 DEF Stored
    <3> QED BY <2>4, <3>2, RowClear
  <2> QED BY <2>4, RowsClearNext
<1>2. ASSUME NEW u \in Ids, CapStore(u) PROVE RowsClear'
  <2>1. cap.court \in Courts
    BY <1>2 DEF CapStore, Types, CapCourt
  <2>2. /\ \A k \in Ids : k \in Stored \/ k # u => docs'[k] = docs[k]
        /\ u \notin Stored => docs'[u] = CapRow(cap.court, CapDates[u])
    BY <1>2, <2>1, Inserted DEF CapStore
  <2>3. cap.court \in mixed'
    BY <1>2 DEF CapStore
  <2>4. ASSUME NEW k \in Stored', docs'[k].court \notin mixed', docs'[k].date # NoDate
        PROVE  docs'[k].court \in searched' /\ ClearAfter(docs'[k].court, docs'[k].date)
    <3>1. k \in Ids
      BY DEF Stored
    <3>2. docs'[k] = docs[k] /\ k \in Stored
      BY <2>2, <2>3, <2>4, <3>1 DEF Stored, CapRow
    <3> QED BY <2>4, <3>2, RowClear
  <2> QED BY <2>4, RowsClearNext
<1>3. CASE UNCHANGED docs
  BY <1>3, RowsElsewhere
<1>4. BulkStep => UNCHANGED docs \/ \E i \in DOMAIN Archive : BulkUpsert(i)
  BY DEF BulkStep, BulkEnd
<1>5. CapStart \/ CapStep => UNCHANGED docs \/ \E u \in Ids : CapStore(u)
  BY DEF CapStep, CapStart, CapListCourt, CapListVolume, CapSkipVolume, CapVolumeDone,
     CapEnd, CapPass, CapPanic, CapReads
<1>6. PopStart \/ PopStep \/ (\E c \in Slugs : BulkStart(c)) => UNCHANGED docs
  BY DEF PopStep, PopStart, PopScan, PopInsert, PopEnd, PopDies, PopOnly, BulkStart
<1> QED BY <1>1, <1>2, <1>3, <1>4, <1>5, <1>6

LEMMA OthersRest ==
  ASSUME BulkStep \/ CapStart \/ CapStep \/ PopStart \/ PopStep
         \/ (\E c \in Slugs : BulkStart(c)) \/ (\E i \in DOMAIN Archive : Publish(i))
         \/ UNCHANGED vars
  PROVE  UNCHANGED rest
<1>1. BulkStep \/ (\E c \in Slugs : BulkStart(c)) => UNCHANGED rest
  BY DEF BulkStep, BulkStart, BulkUpsert, BulkEnd, BulkOnly
<1>2. CapStart \/ CapStep => UNCHANGED rest
  BY DEF CapStep, CapStart, CapListCourt, CapListVolume, CapSkipVolume, CapVolumeDone,
     CapEnd, CapStore, CapPass, CapPanic, CapReads, CapOnly
<1>3. PopStart \/ PopStep => UNCHANGED rest
  BY DEF PopStep, PopStart, PopScan, PopInsert, PopEnd, PopDies, PopOnly
<1> QED BY <1>1, <1>2, <1>3 DEF Publish, vars

\* A candidate that was gone through leaves nothing missing.
LEMMA RunPassed ==
  ASSUME Types, Forward, UNCHANGED <<published, searched>>, NEW r \in Runs, RunClear(r),
         NEW i, Wanted(r, i), Found(i)',
         rest'[r].at = "hydrate", rest'[r].court = rest[r].court,
         rest'[r].known = rest[r].known, rest'[r].left = rest[r].left \ {i}
  PROVE  RunClear(r)'
<1>1. rest[r].at = "hydrate" /\ rest[r].at # "idle"
  BY DEF Wanted, Left
<1>2. rest'[r].known \subseteq Stored' /\ rest'[r].court \in searched'
  BY <1>1 DEF Forward, RunClear
<1>3. ASSUME NEW k \in rest'[r].left
      PROVE  /\ Archive[k].court = rest'[r].court
             /\ rest'[r].court \notin mixed' => AboveCandidate(r, k)'
  <2>1. k \in rest[r].left /\ Archive[k].court = rest[r].court
    BY <1>1, <1>3 DEF RunClear
  <2>2. ASSUME rest'[r].court \notin mixed', NEW j \in published',
               Archive[j].court = rest'[r].court, Newer(j, k)
        PROVE  j \in rest'[r].left \/ Found(j)'
    <3>1. AboveCandidate(r, k)
      BY <1>1, <2>1, <2>2 DEF Forward, RunClear
    <3>2. j \in published /\ (j \in rest[r].left \/ Found(j))
      BY <2>2, <3>1 DEF AboveCandidate
    <3> QED BY <3>2 DEF Forward
  <2> QED BY <2>1, <2>2 DEF AboveCandidate, Newer
<1> QED BY <1>2, <1>3 DEF RunClear

\* The newest candidate left, when it is stored, has nothing missing above it.
LEMMA StoreRows ==
  ASSUME Types, Forward, RowsClear, NEW r \in Runs, RunClear(r), NEW i \in Left(r), RestStore(r, i)
  PROVE  RowsClear'
<1>1. i \in DOMAIN Archive
  BY PassedType DEF RestStore, Types, TypeOK
<1>2. /\ \A k \in Ids \ {i} : docs'[k] = docs[k]
      /\ docs'[i].court = Archive[i].court /\ docs'[i].date \in {Archive[i].date, NoDate}
  BY <1>1, ReadType, Upserted DEF RestStore
<1>3. /\ rest[r].at = "hydrate" /\ i \in rest[r].left /\ \A j \in rest[r].left : ~Newer(j, i)
      /\ published' = published /\ searched' = searched
  BY DEF RestStore, RestOnly, Wanted, Left
<1>4. rest[r].court \in searched /\ Archive[i].court = rest[r].court
  BY <1>3 DEF RunClear
<1>5. ASSUME NEW k \in Stored', docs'[k].court \notin mixed', docs'[k].date # NoDate
      PROVE  docs'[k].court \in searched' /\ ClearAfter(docs'[k].court, docs'[k].date)
  <2>1. CASE k # i
    <3>1. docs'[k] = docs[k] /\ k \in Stored
      BY <1>2, <1>5, <2>1 DEF Stored
    <3> QED BY <1>5, <3>1, RowClear
  <2>2. CASE k = i
    <3>1. AboveCandidate(r, i)
      BY <1>2, <1>3, <1>4, <1>5, <2>2 DEF Forward, RunClear
    <3>2. ASSUME NEW j \in published, Archive[j].court = Archive[i].court,
                 Archive[j].date > Archive[i].date
          PROVE  Found(j)'
      <4>1. Newer(j, i)
        BY <3>2 DEF Newer
      <4> QED BY <1>3, <1>4, <3>1, <3>2, <4>1 DEF AboveCandidate, Forward
    <3>3. ClearAfter(Archive[i].court, Archive[i].date)
      BY <1>3, <3>2 DEF ClearAfter
    <3>4. docs'[k].court = Archive[i].court /\ docs'[k].date = Archive[i].date
      BY <1>2, <1>5, <2>2
    <3> QED BY <1>3, <1>4, <3>3, <3>4
  <2> QED BY <2>1, <2>2
<1> QED BY <1>5, RowsClearNext

LEMMA OneRun ==
  ASSUME Types, Forward, RowsClear', \A q \in Runs : RunClear(q), NEW r \in Runs, RunClear(r)',
         NEW v, rest' = [rest EXCEPT ![r] = v]
  PROVE  WalkOk'
<1>1. ASSUME NEW q \in Runs, q # r PROVE RunClear(q)'
  <2>1. rest'[q] = rest[q]
    BY <1>1 DEF Types, TypeOK, RestType
  <2> QED BY <2>1, RunElsewhere
<1> QED BY <1>1 DEF WalkOk

\* The cursor is the date of a row of the court, as it is at that moment.
LEMMA CursorClear ==
  ASSUME Types, Forward, WalkOk, NEW r \in Runs, RestCursor(r)
  PROVE  RunClear(r)'
<1>1. /\ rest'[r].at = "search" /\ rest'[r].court = rest[r].court
      /\ rest'[r].known = rest[r].known
      /\ rest'[r].before # NoDate => rest'[r].before = OldestDate(rest[r].court)
      /\ rest[r].at = "cursor"
  BY DEF RestCursor, Types, TypeOK, RestType
<1>2. rest'[r].known \subseteq Stored'
  BY <1>1 DEF Forward, WalkOk, RunClear
<1>3. ASSUME rest'[r].before # NoDate, rest'[r].court \notin mixed'
      PROVE  rest'[r].court \in searched' /\ ClearAfter(rest'[r].court, rest'[r].before)
  <2>1. OldestDate(rest[r].court) \in Dates(rest[r].court) /\ rest[r].court \notin mixed
    BY <1>1, <1>3, Oldest DEF Types, TypeOK, Forward
  <2>2. PICK i \in Stored : /\ docs[i].court = rest[r].court
                            /\ docs[i].date = OldestDate(rest[r].court) /\ docs[i].date # NoDate
    BY <2>1 DEF Dates, StoredIn
  <2>3. rest[r].court \in searched /\ Clear(rest[r].court, docs[i].date)
    BY <2>1, <2>2 DEF WalkOk, RowsClear
  <2>4. rest[r].court \in searched' /\ ClearAfter(rest[r].court, docs[i].date)
    BY <2>3, ClearForward
  <2> QED BY <1>1, <1>3, <2>2, <2>4
<1> QED BY <1>1, <1>2, <1>3 DEF RunClear, Clear, ClearAfter

\* What is newer than a candidate is a candidate too, or lies above the cursor.
LEMMA SearchClear ==
  ASSUME Types, Forward, WalkOk, NEW r \in Runs, RestSearch(r)
  PROVE  RunClear(r)'
<1> DEFINE c == rest[r].court
           before == rest[r].before
<1>1. /\ rest'[r].at = "hydrate" /\ rest'[r].court = c /\ rest'[r].known = rest[r].known
      /\ rest'[r].left = Candidates(c, before) /\ rest[r].at = "search"
      /\ published' = published /\ c \in searched'
  BY DEF RestSearch, RestOnly, Types, TypeOK, RestType
<1>2. rest'[r].known \subseteq Stored'
  BY <1>1 DEF Forward, WalkOk, RunClear
<1>3. before \in Nat \cup {NoDate} /\ published \subseteq DOMAIN Archive
      /\ \A j \in DOMAIN Archive : Archive[j].date \in Nat
  BY <1>1, RestShape, CorpusAssumption DEF Types, TypeOK, SearchRun, Opinion
<1> HIDE DEF c, before
<1>4. ASSUME NEW i \in Candidates(c, before)
      PROVE  /\ Archive[i].court = rest'[r].court
             /\ rest'[r].court \notin mixed' => AboveCandidate(r, i)'
  <2>1. Archive[i].court = c
    BY <1>4 DEF Candidates, Hit
  <2>2. ASSUME c \notin mixed', NEW j \in published, Archive[j].court = c, Newer(j, i)
        PROVE  j \in Candidates(c, before) \/ Found(j)'
    <3>1. CASE Hit(j, c, before)
      BY <1>4, <2>2, <3>1, CandidatesUpward
    <3>2. CASE ~Hit(j, c, before)
      <4>1. before # NoDate /\ before \in Nat /\ Archive[j].date > before
        BY <1>3, <2>2, <3>2 DEF Hit
      <4>2. Clear(c, before)
        BY <1>1, <2>2, <4>1 DEF WalkOk, RunClear, Forward, c, before
      <4> QED BY <2>2, <4>1, <4>2 DEF Clear, Forward
    <3> QED BY <3>1, <3>2
  <2> QED BY <1>1, <2>1, <2>2 DEF AboveCandidate, Newer
<1> QED BY <1>1, <1>2, <1>4 DEF RunClear

LEMMA RestWalk ==
  ASSUME Types, RowsOk, Forward, WalkOk, NEW r \in Runs, RestNext(r)
  PROVE  WalkOk'
<1>0. RowsClear /\ RunClear(r) /\ \A q \in Runs : RunClear(q)
  BY DEF WalkOk
<1>1. ASSUME NEW c \in Cron, RestStart(r, c) PROVE WalkOk'
  <2>1. RowsClear'
    BY <1>0, <1>1, RowsElsewhere DEF RestStart
  <2>2. rest'[r] = [at |-> "cursor", court |-> c, known |-> StoredIn(c)]
    BY <1>1 DEF RestStart, Types, TypeOK, RestType
  <2>3. RunClear(r)'
    BY <2>2 DEF RunClear, StoredIn, Forward
  <2> QED BY <1>0, <1>1, <2>1, <2>3, OneRun DEF RestStart
<1>2. CASE RestCursor(r)
  <2>1. RowsClear'
    BY <1>0, <1>2, RowsElsewhere DEF RestCursor
  <2> QED BY <1>0, <1>2, <2>1, CursorClear, OneRun DEF RestCursor
<1>3. CASE RestSearch(r)
  <2>1. RowsClear'
    BY <1>0, <1>3, RowsElsewhere DEF RestSearch
  <2> QED BY <1>0, <1>3, <2>1, SearchClear, OneRun DEF RestSearch
<1>4. ASSUME NEW i \in Left(r), RestSkip(r, i) \/ RestBlank(r, i) \/ RestError(r, i)
      PROVE  WalkOk'
  <2>1. /\ Wanted(r, i) /\ rest' = Passed(r, i) /\ docs' = docs
        /\ published' = published /\ searched' = searched
    BY <1>4 DEF RestSkip, RestBlank, RestError, RestOnly, history
  <2>2. RowsClear'
    BY <1>0, <2>1, RowsElsewhere
  <2>3. Stored' = Stored
    BY <2>1 DEF Stored
  <2>4. Found(i)'
    <3>1. CASE RestSkip(r, i)
      BY <1>0, <2>3, <3>1 DEF RestSkip, RunClear, Found, Wanted, Left
    <3>2. CASE RestBlank(r, i)
      BY <3>2 DEF RestBlank, Found
    <3>3. CASE RestError(r, i)
      BY <2>3, <3>3 DEF RestError, Found
    <3> QED BY <1>4, <3>1, <3>2, <3>3
  <2>5. rest[r] \in HydrateRun
    BY <2>1, RestShape DEF Wanted, Left, Types, TypeOK
  <2>6. rest' = [rest EXCEPT ![r] = [rest[r] EXCEPT !.left = @ \ {i}]]
    BY <2>1 DEF Passed
  <2>7. rest'[r] = [rest[r] EXCEPT !.left = @ \ {i}]
    BY <2>6 DEF Types, TypeOK, RestType
  <2>8. /\ rest'[r].at = "hydrate" /\ rest'[r].court = rest[r].court
        /\ rest'[r].known = rest[r].known /\ rest'[r].left = rest[r].left \ {i}
    BY <2>5, <2>7 DEF HydrateRun
  <2>9. RunClear(r)'
    BY <1>0, <2>1, <2>4, <2>8, RunPassed
  <2> QED BY <1>0, <2>2, <2>6, <2>9, OneRun
<1>5. ASSUME NEW i \in Left(r), RestStore(r, i) PROVE WalkOk'
  <2>1. /\ Wanted(r, i) /\ rest' = [Passed(r, i) EXCEPT ![r].stored = @ + 1]
        /\ published' = published /\ searched' = searched
    BY <1>5 DEF RestStore, RestOnly
  <2>2. RowsClear'
    BY <1>0, <1>5, StoreRows
  <2>3. Found(i)'
    <3>1. i \in DOMAIN Archive
      BY <2>1, PassedType DEF Types, TypeOK
    <3>2. docs'[i] # NoRow /\ i \in Ids
      BY <1>5, <3>1, ReadType, Upserted DEF RestStore
    <3> QED BY <3>2 DEF Found, Stored
  <2>4. rest[r] \in HydrateRun
    BY <2>1, RestShape DEF Wanted, Left, Types, TypeOK
  <2>5. rest' = [rest EXCEPT ![r] = [[rest[r] EXCEPT !.left = @ \ {i}] EXCEPT !.stored = @ + 1]]
    BY <2>1 DEF Passed, Types, TypeOK, RestType
  <2>6. rest'[r] = [[rest[r] EXCEPT !.left = @ \ {i}] EXCEPT !.stored = @ + 1]
    BY <2>5 DEF Types, TypeOK, RestType
  <2>7. /\ rest'[r].at = "hydrate" /\ rest'[r].court = rest[r].court
        /\ rest'[r].known = rest[r].known /\ rest'[r].left = rest[r].left \ {i}
    BY <2>4, <2>6 DEF HydrateRun
  <2>8. RunClear(r)'
    BY <1>0, <2>1, <2>3, <2>7, RunPassed
  <2> QED BY <1>0, <2>2, <2>5, <2>8, OneRun
<1>6. CASE RestEnd(r) \/ RestStops(r)
  <2>1. docs' = docs /\ rest' = [rest EXCEPT ![r] = IdleRest]
    BY <1>6 DEF RestEnd, RestStops
  <2>2. RowsClear'
    BY <1>0, <2>1, RowsElsewhere
  <2>3. rest'[r].at = "idle"
    BY <2>1 DEF Types, TypeOK, RestType, IdleRest
  <2>4. RunClear(r)'
    BY <2>3 DEF RunClear
  <2> QED BY <1>0, <2>1, <2>2, <2>4, OneRun
<1> QED BY <1>1, <1>2, <1>3, <1>4, <1>5, <1>6 DEF RestNext, RestStep

LEMMA WalkStep == ASSUME Types, RowsOk, WalkOk, [Next]_vars PROVE WalkOk'
<1>1. Forward
  BY WalkForward
<1>2. ASSUME UNCHANGED rest, RowsClear' PROVE WalkOk'
  BY <1>1, <1>2, RunElsewhere DEF WalkOk
<1>3. CASE \E r \in Runs : RestNext(r)
  BY <1>1, <1>3, RestWalk
<1>4. CASE BulkStep \/ CapStart \/ CapStep \/ PopStart \/ PopStep \/ \E c \in Slugs : BulkStart(c)
  <2>1. RowsClear'
    BY <1>1, <1>4, OthersRows DEF WalkOk
  <2> QED BY <1>2, <1>4, <2>1, OthersRest
<1>5. CASE (\E i \in DOMAIN Archive : Publish(i)) \/ UNCHANGED vars
  <2>1. UNCHANGED docs
    BY <1>5 DEF Publish, store, vars
  <2>2. RowsClear'
    BY <1>1, <2>1, RowsElsewhere DEF WalkOk
  <2> QED BY <1>2, <1>5, <2>2, OthersRest
<1> QED BY <1>3, <1>4, <1>5 DEF Next

LEMMA WalkAlways == Spec => []WalkOk
<1>1. Init => WalkOk
  <2> SUFFICES ASSUME Init PROVE WalkOk
    OBVIOUS
  <2>1. Stored = {} /\ \A r \in Runs : rest[r].at = "idle"
    BY DEF Init, Stored, IdleRest
  <2> QED BY <2>1 DEF WalkOk, RowsClear, RunClear
<1>2. Types /\ RowsOk /\ WalkOk /\ [Next]_vars => WalkOk'
  BY WalkStep
<1> QED BY <1>1, <1>2, TypesAlways, RowsAlways, PTL DEF Spec

\* NoHoleAboveCursor: in a court that only run-rest wrote, nothing above the
\* oldest stored date is missing, however the runs fail and overlap (rest.rs:152).
THEOREM NoHole == Spec => []NoHoleAboveCursor
<1>1. Types /\ WalkOk => NoHoleAboveCursor
  <2> SUFFICES ASSUME Types, WalkOk, NEW c \in Courts \ mixed, NEW i \in published,
                      Archive[i].court = c, OldestDate(c) # NoDate,
                      Archive[i].date > OldestDate(c)
               PROVE  i \in Stored \cup Blank \cup excused
    BY DEF NoHoleAboveCursor
  <2>1. OldestDate(c) \in Dates(c)
    BY Oldest DEF Types, TypeOK
  <2>2. PICK k \in Stored : docs[k].court = c /\ docs[k].date = OldestDate(c)
    BY <2>1 DEF Dates, StoredIn
  <2>3. Clear(c, OldestDate(c))
    BY <2>2 DEF WalkOk, RowsClear
  <2> QED BY <2>3 DEF Clear, Found
<1> QED BY <1>1, TypesAlways, WalkAlways, PTL

=============================================================================

---------------------------- MODULE CaseDocuments ----------------------------
(***************************************************************************)
(* The public corpus: table case_documents, keyed by opinion_id, and its   *)
(* citation edges.  Every statement below commits by itself.  No row is    *)
(* ever deleted.                                                           *)
(* Source: rust/ingest-fetcher/src/{db,cap,rest,citations,parse}.rs.       *)
(***************************************************************************)
EXTENDS Naturals, FiniteSets

CONSTANTS
  Ids,        \* values of opinion_id: CourtListener's and CAP's share them
  Courts,     \* CourtListener slugs and CAP jurisdictions
  NoRow,      \* the value of docs at an id with no row
  NotFetched, \* cites_json is NULL
  NotAnOpinion, \* a cited URI that is not of the form /opinions/<id>/
  NoDate      \* date_filed is NULL

VARIABLES
  docs,       \* case_documents
  edges       \* case_document_citations

store == <<docs, edges>>

Cites == {NotFetched} \cup SUBSET (Ids \cup {NotAnOpinion})

Stored == {i \in Ids : docs[i] # NoRow}
StoredIn(c) == {i \in Stored : docs[i].court = c}

Opinion == [court : Courts, date : Nat \cup {NoDate}, cites : Cites]
Row == [court : Courts, date : Nat \cup {NoDate}, cites : Cites, source : {"courtlistener", "cap"}]

\* Variant: the bulk dump, which has no citations, clears what REST captured.
OverwritingCites(i, op) == op.cites

\* COALESCE(EXCLUDED.cites_json, case_documents.cites_json).
KeptCites(i, op) ==
  IF op.cites = NotFetched /\ i \in Stored THEN docs[i].cites ELSE op.cites

\* ON CONFLICT (opinion_id) DO UPDATE: everything but the source and cites that
\* were not fetched.
Upsert(i, op) ==
  docs' = [docs EXCEPT ![i] =
    [court |-> op.court, date |-> op.date, cites |-> KeptCites(i, op),
     source |-> IF i \in Stored THEN docs[i].source ELSE "courtlistener"]]

\* Variant: a source the CHECK constraint does not list.
CapRowUnlisted(c, d) == [court |-> c, date |-> d, cites |-> NotFetched, source |-> "static.case.law"]

CapRow(c, d) == [court |-> c, date |-> d, cites |-> NotFetched, source |-> "cap"]

\* Variant: CAP updates a row that is there, as the other commands do.
InsertCapUpdating(i, row) ==
  docs' = [docs EXCEPT ![i] =
    [row EXCEPT !.source = IF i \in Stored THEN docs[i].source ELSE "cap"]]

\* ON CONFLICT (opinion_id) DO NOTHING.
InsertCap(i, row) == docs' = [docs EXCEPT ![i] = IF i \in Stored THEN docs[i] ELSE row]

\* SELECT MIN(date_filed) ... WHERE court_id = c AND date_filed IS NOT NULL.
Dates(c) == {docs[i].date : i \in StoredIn(c)} \ {NoDate}
OldestDate(c) ==
  IF Dates(c) = {} THEN NoDate ELSE CHOOSE d \in Dates(c) : \A e \in Dates(c) : d <= e

\* The foreign keys of case_document_citations and its self-loop CHECK.
Insertable(e) == e[1] \in Stored /\ e[2] \in Stored /\ e[1] # e[2]

StoreTypeOK ==
  /\ docs \in [Ids -> Row \cup {NoRow}]
  /\ edges \subseteq Ids \X Ids
=============================================================================

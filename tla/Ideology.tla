------------------------------- MODULE Ideology -------------------------------
(***************************************************************************)
(* Ideology scores: how the three importers read a release and find the    *)
(* judge a row is about, and how the gateway picks one score of a judge.   *)
(* Source: rust/{dime,jcs,mqs}-ingest, graphql_predict.rs of the gateway.  *)
(*                                                                         *)
(* Scores are integers, in a unit that makes them so.  A release's name    *)
(* "Last, First M., Jr." is [given, last]; its suffix is left out, and so  *)
(* are the rows the CSV reader skips because they do not parse.            *)
(***************************************************************************)
EXTENDS Integers, Sequences, FiniteSets, SequencesExt

CONSTANTS
  Initials,   \* the given names that are initials
  NoJudge,    \* the value of a table of judges at a name with no row
  NoCourt,    \* primary_court_id is NULL; the court column is empty
  NoScore     \* an empty score column; a bio without the key

Sources == {"martin_quinn", "judicial_common_space", "bonica_dime"}

\* The members of a finite set of numbers, the least first.
Ascending(S) ==
  [n \in 1..Cardinality(S) |-> CHOOSE x \in S : Cardinality({y \in S : y <= x}) = n]

----------------------------------------------------------------------------
(* Reading a release *)

\* aggregate_by_justice: of several rows of a term the later one counts, an
\* empty score included; the name is the first row's.  Variant: the first counts.
FirstTermRow(rows, j, t) == rows[SelectInSeq(rows, LAMBDA r : r.justice = j /\ r.term = t)]
FirstRow(rows, j) == rows[SelectInSeq(rows, LAMBDA r : r.justice = j)]
TermRow(rows, j, t) == rows[SelectLastInSeq(rows, LAMBDA r : r.justice = j /\ r.term = t)]

Series(rows, j) ==
  [t \in {r.term : r \in {x \in ToSet(rows) : x.justice = j}} |-> TermRow(rows, j, t).score]

Scored(series) == {t \in DOMAIN series : series[t] # NoScore}

MqsEntry(rows, j, court) ==
  LET series == Series(rows, j)
  IN  [name |-> FirstRow(rows, j).name, court |-> court,
       bio |-> IF Scored(series) = {} THEN NoScore
               ELSE [scores |-> series, latest |-> Max(Scored(series))]]

\* A Martin-Quinn release has one entry per justice, in the order of their ids;
\* a row without an id is dropped.  The other two have one per row.
Entries(source, rows, scotus) ==
  IF source = "martin_quinn"
  THEN LET ids == Ascending({r.justice : r \in ToSet(rows)} \ {0})
       IN  [i \in DOMAIN ids |-> MqsEntry(rows, ids[i], scotus)]
  ELSE [i \in DOMAIN rows |->
          [name |-> rows[i].name, court |-> rows[i].court, bio |-> rows[i].score]]

----------------------------------------------------------------------------
(* Finding the judge *)

FullKey(name) == SelectSeq(name.given, LAMBDA x : x \notin Initials) \o <<name.last>>
LastKey(name) == <<name.last>>

NoMatch == [judge |-> <<>>, confidence |-> "none"]

\* match_row over the tenant's judges: by name and court, by name among those
\* without a court, by last name and court.  (tenant, name) is unique, so none
\* of the three finds two.
Match(table, entry) ==
  LET at(k, c) == k \in DOMAIN table /\ table[k] # NoJudge /\ table[k].court = c
      full == FullKey(entry.name)
      last == LastKey(entry.name)
      known == entry.court # NoCourt
  IN  IF known /\ at(full, entry.court) THEN [judge |-> full, confidence |-> "exact"]
      ELSE IF at(full, NoCourt) THEN [judge |-> full, confidence |-> "name_only"]
      ELSE IF known /\ last # full /\ at(last, entry.court)
           THEN [judge |-> last, confidence |-> "last_name_and_court"]
      ELSE NoMatch

----------------------------------------------------------------------------
(* What the gateway reads *)

\* The scored terms up to the year, if any.
TermsBy(scores, year) == {t \in Scored(scores) : t <= year}

\* resolve_mqs_for_year, or else the latest snapshot, which may be later.
TermUsed(mqs, year) ==
  IF TermsBy(mqs.scores, year) # {} THEN Max(TermsBy(mqs.scores, year)) ELSE mqs.latest

\* The voting record of a justice goes before the joint space, and that before
\* the campaign-finance proxy.
Score(judge, year) ==
  LET bio(source) == judge[source]
      has(source) == bio(source) # NoScore
      plain(source) == [source |-> source, term |-> 0, score |-> bio(source).entry.bio]
      mqs == bio("martin_quinn").entry.bio
  IN  IF has("martin_quinn")
      THEN [source |-> "martin_quinn", term |-> TermUsed(mqs, year),
            score |-> mqs.scores[TermUsed(mqs, year)]]
      ELSE IF has("judicial_common_space") THEN plain("judicial_common_space")
      ELSE IF has("bonica_dime") THEN plain("bonica_dime")
      ELSE NoScore
=============================================================================

------------------------------- MODULE Opinions -------------------------------
(***************************************************************************)
(* What the ingest-fetcher reads off the text of an opinion: its judges,   *)
(* its counsel, its case type and who won.                                 *)
(* Source: rust/ingest-fetcher/src/{kg,extract}.rs.                        *)
(*                                                                         *)
(* A text is a record of what the scanners look at:                        *)
(*   head, body   the lines with a judge mark in the first 5,000           *)
(*                characters and after them;                               *)
(*   counsel      the paragraphs of the counsel block;                     *)
(*   cues         the phrases of classify_case_type that occur;            *)
(*   decisions    for each "decision(s) will be entered", what stands      *)
(*                between it and the next period;                          *)
(*   closing      the phrases in the window the court's scanner looks at,  *)
(*   idioms       and the verbs that stand there in an idiom of the        *)
(*                disposition.                                             *)
(* A name as written is [key, words, shape, role]: the form both           *)
(* normalisations reduce it to, its number of words, whether its letters   *)
(* are "caps", "mixed" or "lower" ("other": a character no name has), and  *)
(* the kind of label it is instead of a name: "none", a "title" such as    *)
(* Chief Judge, the "initials" C. J, or the "prose" no counsel starts with.*)
(***************************************************************************)
EXTENDS Integers, Sequences, FiniteSets, SequencesExt

CONSTANT NoOne   \* no name, no outcome, no side

Normalize(w) == w.key

----------------------------------------------------------------------------
(* Judges *)

ProperName(w) ==
  /\ w.words \in 1..3
  /\ w.shape # "other"
  /\ IF w.words = 1 THEN w.shape # "lower" ELSE w.shape = "caps"

\* A panel's commas and "and"s.  The labels are compared after the final period
\* of the piece is cut off, which "C. J." then lacks: only titles are skipped.
Panel(pieces) == SelectSeq(pieces, LAMBDA w : w.role # "title" /\ ProperName(w))

\* line.signed are the texts before a marker or after a title, in the order the
\* markers are tried: the first that is a proper name ends the search.
JudgesOfLine(line) ==
  LET signed == SelectSeq(line.signed, ProperName)
  IN  CASE line.long -> <<>>
        [] ~line.long /\ Panel(line.panel) # <<>> -> Panel(line.panel)
        [] OTHER -> SubSeq(signed, 1, 1)

\* Every name as written once, in source order.
JudgeNames(lines) ==
  LET all == FlattenSeq([i \in DOMAIN lines |-> JudgesOfLine(lines[i])])
      firsts == {i \in DOMAIN all : \A j \in 1..(i - 1) : all[j] # all[i]}
  IN  [n \in 1..Cardinality(firsts) |->
         all[CHOOSE i \in firsts : Cardinality({j \in firsts : j <= i}) = n]]

----------------------------------------------------------------------------
(* Counsel *)

\* The first "for" of the paragraph that names a side, or 0.
SideClause(paragraph) ==
  SelectInSeq(paragraph.clauses, LAMBDA c : c.side # NoOne)

OldCapSurname(w) == w.words \in 1..3 /\ w.shape \in {"caps", "mixed"}

AttorneyName(w) ==
  w.words \in 2..5 /\ w.shape \in {"caps", "mixed"} /\ w.role # "prose"

\* What precedes the side: "Mr." and surnames, or a leading name in capitals up
\* to a comma, or a list of names.
NamesBefore(head) ==
  LET surnames == IF head.mr THEN SelectSeq(head.pieces, OldCapSurname) ELSE <<>>
      leads == head.comma /\ head.pieces # <<>> /\ head.pieces[1].shape = "caps"
               /\ AttorneyName(head.pieces[1])
  IN  CASE surnames # <<>> -> ToSet(surnames)
        [] surnames = <<>> /\ leads -> {head.pieces[1]}
        [] OTHER -> ToSet(SelectSeq(head.pieces, AttorneyName))

Appearances(paragraph) ==
  LET i == SideClause(paragraph)
  IN  IF paragraph.long \/ i = 0 THEN {}
      ELSE NamesBefore(paragraph.clauses[i].head) \X {paragraph.clauses[i].side}

\* The set of <<name as written, side>>: one appearance, however often printed.
AttorneyNames(text) == UNION {Appearances(text.counsel[i]) : i \in DOMAIN text.counsel}

----------------------------------------------------------------------------
(* Case type: the first class of which every phrase of some signal occurs. *)

CaseTypes == <<
  [type |-> "innocent_spouse", signals |-> {{"section 6015"}, {"innocent spouse"}}],
  [type |-> "collection_due_process",
   signals |-> {{"section 6320"}, {"section 6330"}, {"collection due process"},
                {"notice of determination concerning collection"}}],
  [type |-> "whistleblower", signals |-> {{"section 7623"}, {"whistleblower award"}}],
  [type |-> "estate_tax",
   signals |-> {{"section 2001"}, {"section 2031"}, {"section 2032"}, {"estate tax", "decedent"}}],
  [type |-> "gift_tax", signals |-> {{"section 2501"}, {"section 2511"}, {"gift tax", "donor"}}],
  [type |-> "partnership",
   signals |-> {{"section 6221"}, {"partnership-level"}, {"tefra partnership"}}],
  [type |-> "employment_tax",
   signals |-> {{"section 3101"}, {"section 3121"}, {"self-employment tax"},
                {"employment tax determination"}}],
  [type |-> "penalty", signals |-> {{"section 6662"}, {"section 6663"}, {"section 6651"}}]>>

CaseType(text) ==
  LET applies(class) == /\ \E s \in class.signals : s \subseteq text.cues
                        /\ class.type = "penalty" => "deficiency" \notin text.cues
      i == SelectInSeq(CaseTypes, applies)
  IN  IF i = 0 THEN "income_tax" ELSE CaseTypes[i].type

----------------------------------------------------------------------------
(* Outcome *)

Sides(petitioner, respondent) ==
  CASE petitioner /\ respondent -> "split"
    [] petitioner /\ ~respondent -> "petitioner"
    [] ~petitioner /\ respondent -> "respondent"
    [] OTHER -> NoOne

\* One window: a decision under Rule 155 alone decides nothing yet.
WindowOutcome(w) == Sides("for petitioner" \in w, "for respondent" \in w)

\* The windows are merged: "split" stays, and two sides make a split.
TaxOutcome(text) ==
  LET R == {WindowOutcome(text.decisions[i]) : i \in DOMAIN text.decisions}
  IN  IF "split" \in R THEN "split" ELSE Sides("petitioner" \in R, "respondent" \in R)

Verbs == {"affirmed", "reversed", "vacated"}

\* Affirmed: the respondent's; reversed or vacated: the petitioner's.
Disposed(verbs) ==
  Sides(verbs \cap {"reversed", "vacated"} # {}, "affirmed" \in verbs)

AppellateOutcome(text) ==
  LET verbs == text.closing \cap Verbs
  IN  CASE "dismissed" \in text.closing /\ verbs \subseteq {"vacated"} -> NoOne
        [] "in part" \in text.closing /\ Cardinality(verbs) >= 2 -> "split"
        [] OTHER -> Disposed(verbs)

ScotusOutcome(text) ==
  LET mixed == "in part" \in text.closing /\ Cardinality(text.closing \cap Verbs) >= 2
  IN  IF "dismissed as improvidently granted" \in text.closing THEN NoOne
      ELSE IF mixed THEN "split" ELSE Disposed(text.idioms)

\* A motion counts as granted when "granted" occurs anywhere in the window and
\* the motion is not said to be denied, a party's as it is or as one for summary
\* judgment.  "is dismissed" is said of a complaint, an action or a case.
DistrictOutcome(text) ==
  LET has(p) == p \in text.closing
      granted(motion) == has(motion) /\ has("granted") /\ ~has(motion \o " is denied")
      partys(motion) == /\ granted(motion)
                        /\ ~has(motion \o " for summary judgment is denied")
      dismissed == \/ has("is dismissed") \/ has("motion to dismiss is granted")
                   \/ granted("motion to dismiss")
  IN  IF has("in part") /\ has("granted") /\ has("denied") THEN "split"
      ELSE IF dismissed THEN "respondent"
      ELSE Sides(partys("plaintiff's motion"), partys("defendant's motion"))

\* detect_outcome: when the court is not known.
AnyOutcome(text) ==
  IF TaxOutcome(text) # NoOne THEN TaxOutcome(text) ELSE AppellateOutcome(text)

----------------------------------------------------------------------------
(* Courts: a slug is [id, marks, len], marks naming the prefixes, suffixes and *)
(* patterns it has; the first family that knows it is its own.                 *)

Families == <<
  [family |-> "Scotus", ids |-> {"scotus", "us"}, marks |-> {}],
  [family |-> "Tax", ids |-> {"tax", "tax-court", "ustc"}, marks |-> {}],
  [family |-> "Bankruptcy", ids |-> {}, marks |-> {"bankr"}],
  [family |-> "Appellate", ids |-> {"cafc", "cadc", "f1d", "f2d", "f3d", "f4th"},
   marks |-> {"ca1..ca11"}],
  [family |-> "District", ids |-> {},
   marks |-> {"division suffix", "d<state>", "<state>d", "usdc", "_d_", "dist"}]>>

Family(slug) ==
  LET i == SelectInSeq(Families, LAMBDA f : slug.id \in f.ids \/ slug.marks \cap f.marks # {})
  IN  IF i = 0 THEN "Unknown" ELSE Families[i].family

OutcomeForCourt(slug, text) ==
  CASE Family(slug) = "Scotus" -> ScotusOutcome(text)
    [] Family(slug) = "Appellate" -> AppellateOutcome(text)
    [] Family(slug) = "District" -> DistrictOutcome(text)
    [] Family(slug) = "Tax" -> TaxOutcome(text)
    [] Family(slug) = "Bankruptcy" -> NoOne
    [] OTHER -> AnyOutcome(text)

\* map_courtlistener_jurisdiction, which knows CourtListener's slugs: CAP's "us"
\* and "f2d" count as a state's.
Jurisdiction(slug) ==
  LET federal == \/ slug.id \in {"tax", "scotus"}
                 \/ "ca" \in slug.marks
                 \/ "d$" \in slug.marks /\ slug.len = 4
  IN  IF federal THEN "us-federal" ELSE IF slug.len \in {2, 3} THEN "us-state" ELSE "unknown"
=============================================================================

-------------------------------- MODULE Paging --------------------------------
(***************************************************************************)
(* The case list: one operator opens it and follows the Next link to the   *)
(* end while cases are created.  A page load is one GraphQL request whose  *)
(* listCases and caseStats run side by side; listCases counts the rows and *)
(* then selects the page, two snapshots of one READ COMMITTED transaction. *)
(* Source: rust/api-gateway/src/{app,graphql_predict}.rs and               *)
(* web/app/cases/{page,cases-table}.tsx.  audit_events pages the audit log *)
(* the same way.                                                           *)
(***************************************************************************)
EXTENDS Integers, FiniteSets

CONSTANTS
  Rows,      \* the cases the tenant may ever have
  Key,       \* what ORDER BY compares: the filing or creation date and time
  First,     \* the cases there are when the list is opened at the latest
  Limit      \* PAGE_SIZE

ASSUME PagingAssumption ==
  /\ IsFiniteSet(Rows) /\ First \subseteq Rows
  /\ Key \in [Rows -> Int]
  /\ \A x, y \in Rows : Key[x] = Key[y] => x = y    \* created_at breaks ties
  /\ Limit \in Nat \ {0}

VARIABLES
  table,      \* the committed rows of table cases
  pc,         \* where the page load is
  offset,     \* the offset it asks for
  total,      \* totalCount of the current page load
  page,       \* its nodes
  next,       \* its nextOffset; -1 for null
  stats,      \* totalCount of caseStats; -1 before it has run
  existing,   \* history: the rows there were when the list was opened
  seen,       \* history: the rows shown since, the current page left out
  late,       \* history: rows inserted between the latest count and its page
  failed      \* history: the current page load failed

history == <<existing, seen, late, failed>>
vars == <<table, pc, offset, total, page, next, stats, history>>

Null == -1

Init ==
  /\ table = First
  /\ pc = "closed"
  /\ offset = 0 /\ total = 0 /\ page = {} /\ next = Null /\ stats = Null
  /\ existing = {} /\ seen = {} /\ late = 0 /\ failed = FALSE

-----------------------------------------------------------------------------
\* How many rows ORDER BY ... DESC puts before row x.
Before(x) == {y \in table : Key[y] > Key[x]}
Position(x) == Cardinality(Before(x))

\* LIMIT Limit OFFSET skip.
Window(skip) == {x \in table : Position(x) \in skip..(skip + Limit - 1)}

\* Variant: an off-by-one that offers a page behind the last one.
NextOffsetInclusive(skip, n, count) == IF skip + n <= count THEN skip + n ELSE Null

\* Variant: an off-by-one in where the next page starts.
NextOffsetBeyond(skip, n, count) == IF skip + n < count THEN skip + Limit + 1 ELSE Null

\* Variant: an off-by-one that takes the page before the last one for the last.
NextOffsetShort(skip, n, count) == IF skip + n + 1 < count THEN skip + n ELSE Null

\* compute_next_offset
NextOffset(skip, n, count) == IF skip + n < count THEN skip + n ELSE Null

\* Variant: the INSERT is an upsert that takes the place of another row.
InsertReplacing(x) ==
  /\ x \notin table
  /\ table' = {x} \union {y \in table : Key[y] # Key[x] + 1}
  /\ UNCHANGED <<pc, offset, total, page, next, stats, history>>

\* A transaction of create_case commits; with a filing date the row may land
\* anywhere in the order.
InsertRow(x) ==
  /\ x \notin table
  /\ table' = table \union {x}
  /\ late' = IF pc = "page" THEN late + 1 ELSE late
  /\ UNCHANGED <<pc, offset, total, page, next, stats, existing, seen, failed>>

-----------------------------------------------------------------------------
(* A page load *)

Request(skip) ==
  /\ offset' = skip
  /\ stats' = Null
  /\ pc' = "count"

Open ==
  /\ pc = "closed"
  /\ Request(0)
  /\ existing' = table /\ seen' = {} /\ failed' = FALSE
  /\ UNCHANGED <<table, total, page, next, late>>

\* SELECT COUNT(*)
Count ==
  /\ pc = "count"
  /\ total' = Cardinality(table)
  /\ late' = 0
  /\ pc' = "page"
  /\ UNCHANGED <<table, offset, page, next, stats, existing, seen, failed>>

\* SELECT ... LIMIT ... OFFSET
Select ==
  /\ pc = "page"
  /\ page' = Window(offset)
  /\ next' = NextOffset(offset, Cardinality(page'), total)
  /\ pc' = "listed"
  /\ UNCHANGED <<table, offset, total, stats, history>>

\* case_stats, on a connection of its own.
CaseStats ==
  /\ pc \in {"count", "page", "listed"} /\ stats = Null
  /\ stats' = Cardinality(table)
  /\ UNCHANGED <<table, pc, offset, total, page, next, history>>

\* The gateway was not reached, or either query returned an error: the page shows
\* the empty list and zeroes, with no Next.
LoadFails ==
  /\ pc \in {"count", "page"} \/ (pc = "listed" /\ stats = Null)
  /\ page' = {} /\ total' = 0 /\ next' = Null /\ stats' = 0
  /\ failed' = TRUE
  /\ pc' = "listed"
  /\ UNCHANGED <<table, offset, existing, seen, late>>

Shown == pc = "listed" /\ stats # Null

\* The operator clicks Next, or there is no Next to click.
Follow ==
  /\ Shown /\ next # Null
  /\ Request(next)
  /\ seen' = seen \union page
  /\ UNCHANGED <<table, total, page, next, existing, late, failed>>

End ==
  /\ Shown /\ next = Null
  /\ pc' = "end"
  /\ seen' = seen \union page
  /\ UNCHANGED <<table, offset, total, page, next, stats, existing, late, failed>>

\* The list is opened again.
Close ==
  /\ pc = "end"
  /\ pc' = "closed"
  /\ UNCHANGED <<table, offset, total, page, next, stats, history>>

Next ==
  \/ \E x \in Rows : InsertRow(x)
  \/ Open \/ Count \/ Select \/ CaseStats \/ LoadFails \/ Follow \/ End \/ Close

\* A page that was asked for is answered unless it fails, and the operator keeps
\* clicking Next.
Fairness ==
  /\ WF_vars(Count \/ Select)
  /\ WF_vars(CaseStats)
  /\ WF_vars(Follow \/ End)

Safe == Init /\ [][Next]_vars

Spec == Safe /\ Fairness

-----------------------------------------------------------------------------
(* Properties *)

\* Every variable has its type.
TypeOK ==
  /\ table \in SUBSET Rows /\ page \in SUBSET table
  /\ existing \in SUBSET table /\ seen \in SUBSET table
  /\ pc \in {"closed", "count", "page", "listed", "end"}
  /\ offset \in Nat /\ total \in Nat /\ late \in Nat
  /\ next \in Nat \union {Null} /\ stats \in Nat \union {Null}
  /\ failed \in BOOLEAN

\* Following Next skips nothing: wherever new cases land, each case there was at
\* the start has been shown or is still ahead of the offset that is asked for.
\* Rows never leave the table, so an insertion only moves the others back.
Ahead(shown, skip) == \A x \in existing : x \in shown \/ Position(x) >= skip
NothingSkipped ==
  /\ pc \in {"count", "page"} => Ahead(seen, offset)
  /\ pc = "listed" /\ next # Null => Ahead(seen \union page, next)

\* A walk that ended without a case it should have shown met a failed load or was
\* raced by at least as many insertions between the last count and its page.
MissedOnlyLate ==
  pc = "end" /\ ~failed => Cardinality(existing \ seen) <= late

\* Why MissedOnlyLate holds: the rows that were not counted are the late ones, and
\* what a last page leaves out lies behind the rows that were counted.
Counted == pc = "page" => Cardinality(table) = total + late
LastPage ==
  pc = "listed" /\ next = Null /\ ~failed => Cardinality(existing \ (seen \union page)) <= late

\* Why WalkEnds holds: a Next link leads one full page on, to a row that is there;
\* no page before the last one is short or empty, whatever is inserted meanwhile.
LinksLeadOn ==
  pc = "listed" /\ next # Null => next = offset + Limit /\ next < Cardinality(table)

\* The walk ends: the Next links do not go on for ever once cases stop coming.
WalkEnds == pc = "count" ~> pc = "end"

\* The doc comment of CaseConnection.next_offset: "None if this page contains the
\* final row".  A row of the start that nothing follows even now was the final row
\* for every page of the walk.
LastPageHasLast ==
  pc = "listed" /\ next = Null /\ ~failed =>
    \A x \in existing : (\A y \in table : Key[y] >= Key[x]) => x \in page
=============================================================================

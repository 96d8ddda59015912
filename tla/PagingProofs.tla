----------------------------- MODULE PagingProofs -----------------------------
(***************************************************************************)
(* Paging for every set of cases, every order on them and every page size: *)
(* the type invariant, that following Next skips nothing, that a walk that *)
(* ended misses at most as many cases as were inserted too late, and that  *)
(* each Next leads a full page on.                                         *)
(***************************************************************************)
EXTENDS Paging, FiniteSetTheorems, FunctionTheorems, TLAPS

USE DEF Null

-----------------------------------------------------------------------------
(* Positions *)

\* A row's position is a number below the number of rows.
LEMMA PositionType ==
  ASSUME TypeOK, NEW x \in table
  PROVE  Position(x) \in Nat /\ Position(x) < Cardinality(table)
<1>1. IsFiniteSet(table)
  BY PagingAssumption, FS_Subset DEF PagingAssumption, TypeOK
<1>2. Cardinality(table \ {x}) = Cardinality(table) - 1 /\ IsFiniteSet(table \ {x})
  BY <1>1, FS_RemoveElement
<1>3. Before(x) \in SUBSET (table \ {x})
  BY PagingAssumption DEF Before, PagingAssumption, TypeOK
<1>4. IsFiniteSet(Before(x)) /\ Cardinality(Before(x)) <= Cardinality(table \ {x})
  BY <1>2, <1>3, FS_Subset
<1> QED BY <1>1, <1>2, <1>4, FS_CardinalityType DEF Position

\* Two rows have two positions.
LEMMA PositionInjective ==
  ASSUME TypeOK, NEW x \in table, NEW y \in table, Position(x) = Position(y)
  PROVE  x = y
<1> SUFFICES ASSUME x # y PROVE FALSE
  OBVIOUS
<1>1. \A z \in table : z \in Rows /\ Key[z] \in Int
  BY PagingAssumption DEF PagingAssumption, TypeOK
<1>2. \A u, w \in table : Key[u] < Key[w] => Position(u) # Position(w)
  <2> SUFFICES ASSUME NEW u \in table, NEW w \in table, Key[u] < Key[w],
                      Position(u) = Position(w)
               PROVE  FALSE
    OBVIOUS
  <2>1. Before(w) \in SUBSET Before(u) /\ w \in Before(u) /\ w \notin Before(w)
    BY <1>1 DEF Before
  <2>2. IsFiniteSet(Before(u))
    BY PagingAssumption, FS_Subset DEF PagingAssumption, TypeOK, Before
  <2> QED BY <2>1, <2>2, FS_Subset DEF Position
<1>3. Key[x] # Key[y]
  BY <1>1, PagingAssumption DEF PagingAssumption
<1> QED BY <1>1, <1>2, <1>3

\* A page holds at most Limit rows.
LEMMA WindowSize ==
  ASSUME TypeOK, NEW skip \in Nat
  PROVE  /\ IsFiniteSet(Window(skip))
         /\ Cardinality(Window(skip)) \in Nat
         /\ Cardinality(Window(skip)) <= Limit
<1> DEFINE slots == skip..(skip + Limit - 1)
           f == [x \in Window(skip) |-> Position(x)]
<1>1. Limit \in Nat \ {0}
  BY PagingAssumption DEF PagingAssumption
<1>2. IsFiniteSet(slots) /\ Cardinality(slots) = Limit
  BY <1>1, FS_Interval
<1>3. f \in [Window(skip) -> slots]
  BY DEF Window
<1>4. \A x, y \in Window(skip) : f[x] = f[y] => x = y
  BY PositionInjective DEF Window
<1>5. f \in Injection(Window(skip), slots)
  BY <1>3, <1>4, Fun_IsInj
<1> QED BY <1>2, <1>5, FS_Injection, FS_CardinalityType

\* As many rows as there are positions left lie at or behind a position.
LEMMA RowsBehind ==
  ASSUME TypeOK, NEW n \in Nat, n <= Cardinality(table)
  PROVE  LET behind == {x \in table : Position(x) >= n}
         IN  IsFiniteSet(behind) /\ Cardinality(behind) <= Cardinality(table) - n
<1> DEFINE behind == {x \in table : Position(x) >= n}
           size == Cardinality(table)
           slots == n..(size - 1)
           f == [x \in behind |-> Position(x)]
<1>1. size \in Nat
  BY PagingAssumption, FS_Subset, FS_CardinalityType DEF PagingAssumption, TypeOK
<1>2. IsFiniteSet(slots) /\ Cardinality(slots) = size - n
  <2>1. n \in Int /\ size - 1 \in Int /\ n <= size
    BY <1>1
  <2>2. IsFiniteSet(slots) /\ Cardinality(slots) = IF n > size - 1 THEN 0 ELSE (size - 1) - n + 1
    BY <2>1, FS_Interval
  <2> HIDE DEF slots, size
  <2> QED BY <1>1, <2>1, <2>2
<1>3. f \in [behind -> slots]
  BY <1>1, PositionType
<1>4. \A x, y \in behind : f[x] = f[y] => x = y
  BY PositionInjective
<1>5. f \in Injection(behind, slots)
  BY <1>3, <1>4, Fun_IsInj
<1> QED BY <1>2, <1>5, FS_Injection

-----------------------------------------------------------------------------
(* Type correctness *)

LEMMA NextOffsetType ==
  ASSUME NEW skip \in Nat, NEW n \in Nat, NEW count \in Nat
  PROVE  NextOffset(skip, n, count) \in Nat \union {Null}
BY DEF NextOffset

LEMMA TypeInit == Init => TypeOK
<1> SUFFICES ASSUME Init PROVE TypeOK
  OBVIOUS
<1>1. table \in SUBSET Rows
  BY PagingAssumption DEF Init, PagingAssumption
<1>2. page = {} /\ existing = {} /\ seen = {}
  BY DEF Init
<1>3. next \in Nat \union {Null} /\ stats \in Nat \union {Null}
  BY DEF Init
<1>4. offset \in Nat /\ total \in Nat /\ late \in Nat
  BY DEF Init
<1>5. pc = "closed" /\ failed = FALSE
  BY DEF Init
<1> QED BY <1>1, <1>2, <1>3, <1>4, <1>5 DEF TypeOK

LEMMA TypeStep == TypeOK /\ [Next]_vars => TypeOK'
<1> SUFFICES ASSUME TypeOK, [Next]_vars
             PROVE  TypeOK'
  OBVIOUS
<1>0. Cardinality(table) \in Nat
  BY PagingAssumption, FS_Subset, FS_CardinalityType DEF PagingAssumption, TypeOK
<1>1. ASSUME NEW x \in Rows, InsertRow(x)
      PROVE  TypeOK'
  BY <1>1 DEF InsertRow, TypeOK, history
<1>2. CASE Open
  BY <1>2 DEF Open, Request, TypeOK
<1>3. CASE Count
  BY <1>0, <1>3 DEF Count, TypeOK
<1>4. CASE Select
  <2>1. page' \in SUBSET table /\ Cardinality(page') \in Nat
    BY <1>4, WindowSize DEF Select, Window, TypeOK
  <2>2. next' \in Nat \union {Null}
    BY <1>4, <2>1, NextOffsetType DEF Select, TypeOK
  <2> QED BY <1>4, <2>1, <2>2 DEF Select, TypeOK, history
<1>5. CASE CaseStats
  BY <1>0, <1>5 DEF CaseStats, TypeOK, history
<1>6. CASE LoadFails
  BY <1>6 DEF LoadFails, TypeOK
<1>7. CASE Follow
  BY <1>7 DEF Follow, Request, TypeOK
<1>8. CASE End
  BY <1>8 DEF End, TypeOK
<1>9. CASE Close
  BY <1>9 DEF Close, TypeOK, history
<1>10. CASE UNCHANGED vars
  BY <1>10 DEF vars, history, TypeOK
<1> QED
  BY <1>1, <1>2, <1>3, <1>4, <1>5, <1>6, <1>7, <1>8, <1>9, <1>10 DEF Next

\* Every variable of Paging keeps its type: the rows that were shown and those
\* that were there at the start never leave the table.
THEOREM TypeCorrect == Spec => []TypeOK
<1>1. Safe => []TypeOK
  BY TypeInit, TypeStep, PTL DEF Safe
<1> QED BY <1>1, PTL DEF Spec

-----------------------------------------------------------------------------
(* Following Next skips nothing *)

\* An insertion only moves the other rows back.
LEMMA InsertMovesBack ==
  ASSUME TypeOK, NEW x \in Rows, InsertRow(x), NEW y \in table
  PROVE  /\ Position(y) \in Nat /\ Position(y)' \in Nat
         /\ Position(y)' >= Position(y)
<1>1. Before(y) \in SUBSET Before(y)' /\ Before(y)' \in SUBSET Rows
  BY DEF InsertRow, Before, TypeOK
<1>2. IsFiniteSet(Before(y)')
  BY <1>1, PagingAssumption, FS_Subset DEF PagingAssumption
<1>3. IsFiniteSet(Before(y)) /\ Cardinality(Before(y)) <= Cardinality(Before(y)')
  BY <1>1, <1>2, FS_Subset
<1> QED BY <1>2, <1>3, FS_CardinalityType DEF Position

\* A row that is at or behind the offset is on the page or behind the page.
LEMMA OnPageOrBehind ==
  ASSUME TypeOK, NEW x \in table, Position(x) >= offset, x \notin Window(offset)
  PROVE  Position(x) >= offset + Cardinality(Window(offset))
<1>1. offset \in Nat /\ Limit \in Nat \ {0} /\ Position(x) \in Nat
  BY PagingAssumption, PositionType DEF TypeOK, PagingAssumption
<1>2. Position(x) >= offset + Limit
  BY <1>1 DEF Window
<1>3. Cardinality(Window(offset)) \in Nat /\ Cardinality(Window(offset)) <= Limit
  BY <1>1, WindowSize
<1> QED BY <1>1, <1>2, <1>3

LEMMA SkipInit == Init => NothingSkipped
BY DEF Init, NothingSkipped, Ahead

LEMMA SkipStep == TypeOK /\ NothingSkipped /\ [Next]_vars => NothingSkipped'
<1> SUFFICES ASSUME TypeOK, NothingSkipped, [Next]_vars
             PROVE  NothingSkipped'
  OBVIOUS
<1>1. ASSUME NEW x \in Rows, InsertRow(x)
      PROVE  NothingSkipped'
  <2>1. /\ pc' = pc /\ offset' = offset /\ next' = next /\ page' = page
        /\ existing' = existing /\ seen' = seen
    BY <1>1 DEF InsertRow, history
  <2>2. ASSUME NEW shown, NEW skip \in Int, Ahead(shown, skip)
        PROVE  \A y \in existing : y \in shown \/ Position(y)' >= skip
    BY <1>1, <2>2, InsertMovesBack DEF Ahead, TypeOK
  <2>3. pc \in {"count", "page"} => \A y \in existing : y \in seen \/ Position(y)' >= offset
    BY <2>2 DEF NothingSkipped, TypeOK
  <2>4. pc = "listed" /\ next # Null =>
          \A y \in existing : y \in seen \union page \/ Position(y)' >= next
    BY <2>2 DEF NothingSkipped, TypeOK
  <2> QED BY <2>1, <2>3, <2>4 DEF NothingSkipped, Ahead
<1>2. CASE Open
  <2>1. \A x \in table : Position(x)' >= 0
    <3> TAKE x \in table
    <3>1. Position(x)' = Position(x)
      BY <1>2 DEF Open, Position, Before
    <3> QED BY <3>1, PositionType
  <2> QED BY <1>2, <2>1 DEF Open, Request, NothingSkipped, Ahead
<1>3. CASE Count
  <2>1. Ahead(seen, offset)' = Ahead(seen, offset)
    BY <1>3 DEF Count, Ahead, Position, Before
  <2> QED BY <1>3, <2>1 DEF Count, NothingSkipped
<1>4. CASE Select
  <2>1. /\ pc = "page" /\ pc' = "listed" /\ page' = Window(offset)
        /\ existing' = existing /\ seen' = seen /\ table' = table
        /\ next' = NextOffset(offset, Cardinality(Window(offset)), total)
    BY <1>4 DEF Select, history
  <2>2. \A x \in existing : x \in seen \union page'
                              \/ Position(x) >= offset + Cardinality(Window(offset))
    BY <2>1, OnPageOrBehind DEF NothingSkipped, Ahead, TypeOK
  <2>3. next' # Null => next' = offset + Cardinality(Window(offset))
    BY <2>1 DEF NextOffset
  <2>4. \A x \in table : Position(x)' = Position(x)
    BY <2>1 DEF Position, Before
  <2> QED BY <2>1, <2>2, <2>3, <2>4 DEF NothingSkipped, Ahead, TypeOK
<1>5. CASE CaseStats
  <2>1. /\ pc' = pc /\ offset' = offset /\ next' = next /\ page' = page
        /\ existing' = existing /\ seen' = seen /\ table' = table
    BY <1>5 DEF CaseStats, history
  <2> QED BY <2>1 DEF NothingSkipped, Ahead, Position, Before
<1>6. CASE LoadFails
  BY <1>6 DEF LoadFails, NothingSkipped
<1>7. CASE Follow
  <2>1. /\ pc = "listed" /\ next # Null /\ pc' = "count" /\ offset' = next
        /\ existing' = existing /\ seen' = seen \union page /\ table' = table
    BY <1>7 DEF Follow, Shown, Request
  <2> QED BY <2>1 DEF NothingSkipped, Ahead, Position, Before
<1>8. CASE End
  BY <1>8 DEF End, NothingSkipped
<1>9. CASE Close
  BY <1>9 DEF Close, NothingSkipped
<1>10. CASE UNCHANGED vars
  BY <1>10 DEF vars, history, NothingSkipped, Ahead, Position, Before
<1> QED
  BY <1>1, <1>2, <1>3, <1>4, <1>5, <1>6, <1>7, <1>8, <1>9, <1>10 DEF Next

\* While Next is offered, each case that was there when the list was opened has
\* been shown or is ahead of the next offset, wherever new cases are inserted.
THEOREM NoneSkipped == Spec => []NothingSkipped
<1>1. Init /\ [][Next]_vars => [](TypeOK /\ NothingSkipped)
  BY TypeInit, TypeStep, SkipInit, SkipStep, PTL
<1> QED BY <1>1, PTL DEF Spec, Safe

-----------------------------------------------------------------------------
(* What a finished walk misses *)

LEMMA MissedInit == Init => Counted /\ LastPage /\ MissedOnlyLate
BY DEF Init, Counted, LastPage, MissedOnlyLate

\* The last page leaves out what was not counted, at most.
LEMMA SelectLast ==
  ASSUME TypeOK, NothingSkipped, Counted, Select
  PROVE  LastPage'
<1> SUFFICES ASSUME next' = Null
             PROVE  Cardinality(existing \ (seen \union page')) <= late
  BY DEF Select, LastPage, history
<1> DEFINE end == offset + Cardinality(Window(offset))
           size == Cardinality(table)
           behind == {x \in table : Position(x) >= end}
           missed == existing \ (seen \union page')
<1>1. /\ pc = "page" /\ page' = Window(offset)
      /\ next' = NextOffset(offset, Cardinality(Window(offset)), total)
  BY DEF Select
<1>2. offset \in Nat /\ total \in Nat /\ late \in Nat /\ end \in Nat /\ size \in Nat
  BY WindowSize, PagingAssumption, FS_Subset, FS_CardinalityType DEF PagingAssumption, TypeOK
<1>3. size = total + late /\ end >= total
  BY <1>1, <1>2 DEF Counted, NextOffset
<1>4. missed \in SUBSET behind
  BY <1>1, OnPageOrBehind DEF NothingSkipped, Ahead, TypeOK
<1>5. CASE end <= size
  <2>1. IsFiniteSet(behind) /\ Cardinality(behind) <= size - end
    BY <1>2, <1>5, RowsBehind
  <2>2. Cardinality(missed) <= Cardinality(behind) /\ Cardinality(missed) \in Nat
        /\ Cardinality(behind) \in Nat
    BY <1>4, <2>1, FS_Subset, FS_CardinalityType
  <2> HIDE DEF end, size, behind, missed
  <2>3. Cardinality(missed) <= late
    BY <1>2, <1>3, <2>1, <2>2
  <2> QED BY <2>3 DEF missed
<1>6. CASE end > size
  <2>1. missed = {}
    BY <1>2, <1>4, <1>6, PositionType
  <2> QED BY <1>2, <2>1, FS_EmptySet
<1> QED BY <1>2, <1>5, <1>6

LEMMA MissedStep ==
  ASSUME TypeOK, NothingSkipped, Counted, LastPage, MissedOnlyLate, [Next]_vars
  PROVE  Counted' /\ LastPage' /\ MissedOnlyLate'
<1>0. IsFiniteSet(table) /\ Cardinality(table) \in Nat
  BY PagingAssumption, FS_Subset, FS_CardinalityType DEF PagingAssumption, TypeOK
<1>1. ASSUME NEW x \in Rows, InsertRow(x)
      PROVE  Counted' /\ LastPage' /\ MissedOnlyLate'
  <2>1. Cardinality(table') = Cardinality(table) + 1
    BY <1>0, <1>1, FS_AddElement DEF InsertRow
  <2>2. Counted'
    BY <1>0, <1>1, <2>1 DEF InsertRow, Counted, TypeOK
  <2>3. pc # "page" => late' = late
    BY <1>1 DEF InsertRow
  <2>4. LastPage' /\ MissedOnlyLate'
    BY <1>1, <2>3 DEF InsertRow, LastPage, MissedOnlyLate
  <2> QED BY <2>2, <2>4
<1>2. CASE Open
  BY <1>2 DEF Open, Request, Counted, LastPage, MissedOnlyLate
<1>3. CASE Count
  BY <1>0, <1>3 DEF Count, Counted, LastPage, MissedOnlyLate
<1>4. CASE Select
  <2>1. Counted' /\ MissedOnlyLate'
    BY <1>4 DEF Select, Counted, MissedOnlyLate
  <2> QED BY <1>4, <2>1, SelectLast
<1>5. CASE CaseStats
  BY <1>5 DEF CaseStats, history, Counted, LastPage, MissedOnlyLate
<1>6. CASE LoadFails
  BY <1>6 DEF LoadFails, Counted, LastPage, MissedOnlyLate
<1>7. CASE Follow
  BY <1>7 DEF Follow, Request, Counted, LastPage, MissedOnlyLate
<1>8. CASE End
  BY <1>8 DEF End, Shown, Counted, LastPage, MissedOnlyLate
<1>9. CASE Close
  BY <1>9 DEF Close, Counted, LastPage, MissedOnlyLate
<1>10. CASE UNCHANGED vars
  BY <1>10 DEF vars, history, Counted, LastPage, MissedOnlyLate
<1> QED
  BY <1>1, <1>2, <1>3, <1>4, <1>5, <1>6, <1>7, <1>8, <1>9, <1>10 DEF Next

\* A walk that ended with no failed load misses at most as many of the cases it
\* should have shown as were inserted between its last count and its last page.
THEOREM MissedAreLate == Spec => []MissedOnlyLate
<1> DEFINE IInv == TypeOK /\ NothingSkipped /\ Counted /\ LastPage /\ MissedOnlyLate
<1>1. Init => IInv
  BY TypeInit, SkipInit, MissedInit
<1>2. IInv /\ [Next]_vars => IInv'
  BY TypeStep, SkipStep, MissedStep
<1>3. IInv => MissedOnlyLate
  OBVIOUS
<1> QED BY <1>1, <1>2, <1>3, PTL DEF Spec, Safe

-----------------------------------------------------------------------------
(* Next leads on *)

\* At most as many rows as there are positions lie before a position.
LEMMA RowsAhead ==
  ASSUME TypeOK, NEW n \in Nat
  PROVE  LET ahead == {x \in table : Position(x) < n}
         IN  IsFiniteSet(ahead) /\ Cardinality(ahead) <= n
<1> DEFINE ahead == {x \in table : Position(x) < n}
           slots == 0..(n - 1)
           f == [x \in ahead |-> Position(x)]
<1>1. IsFiniteSet(slots) /\ Cardinality(slots) = n
  BY FS_Interval
<1>2. f \in [ahead -> slots]
  BY PositionType
<1>3. \A x, y \in ahead : f[x] = f[y] => x = y
  BY PositionInjective
<1>4. f \in Injection(ahead, slots)
  BY <1>2, <1>3, Fun_IsInj
<1> QED BY <1>1, <1>4, FS_Injection

\* A union has no more members than its parts together.
LEMMA UnionSmall ==
  ASSUME NEW S, NEW T, IsFiniteSet(S), IsFiniteSet(T)
  PROVE  IsFiniteSet(S \cup T) /\ Cardinality(S \cup T) <= Cardinality(S) + Cardinality(T)
<1>1. /\ IsFiniteSet(S \cup T) /\ IsFiniteSet(S \cap T)
      /\ Cardinality(S \cup T) = Cardinality(S) + Cardinality(T) - Cardinality(S \cap T)
  BY FS_Union, FS_Intersection
<1> QED BY <1>1, FS_CardinalityType

\* A page is full unless it reaches the end of the table.
LEMMA PageFull ==
  ASSUME TypeOK, NEW skip \in Nat, skip < Cardinality(table)
  PROVE  \/ Cardinality(Window(skip)) = Limit
         \/ skip + Cardinality(Window(skip)) >= Cardinality(table)
<1> DEFINE size == Cardinality(table)
           end == skip + Limit
           ahead == {x \in table : Position(x) < skip}
           behind == {x \in table : Position(x) >= end}
           shown == Window(skip)
<1>1. /\ Limit \in Nat \ {0} /\ size \in Nat /\ IsFiniteSet(table) /\ end \in Nat
  BY PagingAssumption, FS_Subset, FS_CardinalityType DEF PagingAssumption, TypeOK
<1>2. IsFiniteSet(ahead) /\ Cardinality(ahead) <= skip
  BY RowsAhead
<1>3. IsFiniteSet(shown) /\ Cardinality(shown) <= Limit /\ Cardinality(shown) \in Nat
  BY WindowSize
<1>4. IsFiniteSet(behind) /\ Cardinality(behind) <= (IF end <= size THEN size - end ELSE 0)
  <2>1. CASE end <= size
    BY <1>1, <2>1, RowsBehind
  <2>2. CASE end > size
    <3>1. behind = {}
      BY <1>1, <2>2, PositionType
    <3> QED BY <1>1, <2>2, <3>1, FS_EmptySet
  <2> QED BY <1>1, <2>1, <2>2
<1>5. table = ahead \cup (shown \cup behind)
  BY <1>1, PositionType DEF Window
<1>6. size <= Cardinality(ahead) + (Cardinality(shown) + Cardinality(behind))
  <2>1. IsFiniteSet(shown \cup behind)
        /\ Cardinality(shown \cup behind) <= Cardinality(shown) + Cardinality(behind)
    BY <1>3, <1>4, UnionSmall
  <2>2. Cardinality(ahead \cup (shown \cup behind)) <= Cardinality(ahead) + Cardinality(shown \cup behind)
    BY <1>2, <2>1, UnionSmall
  <2>3. /\ Cardinality(ahead) \in Nat /\ Cardinality(behind) \in Nat /\ Cardinality(shown) \in Nat
        /\ Cardinality(shown \cup behind) \in Nat
    BY <1>2, <1>3, <1>4, <2>1, FS_CardinalityType
  <2> HIDE DEF ahead, shown, behind
  <2> QED BY <1>1, <1>5, <2>1, <2>2, <2>3
<1>7. Cardinality(ahead) \in Nat /\ Cardinality(behind) \in Nat
  BY <1>2, <1>4, FS_CardinalityType
<1> HIDE DEF size, ahead, behind, shown
<1>8. Cardinality(shown) = Limit \/ skip + Cardinality(shown) >= size
  BY <1>1, <1>2, <1>3, <1>4, <1>6, <1>7 DEF end
<1> QED BY <1>8 DEF shown, size

LEMMA LinksStep == TypeOK /\ Counted /\ LinksLeadOn /\ [Next]_vars => LinksLeadOn'
<1> SUFFICES ASSUME TypeOK, Counted, LinksLeadOn, [Next]_vars
             PROVE  LinksLeadOn'
  OBVIOUS
<1>0. IsFiniteSet(table) /\ Cardinality(table) \in Nat
  BY PagingAssumption, FS_Subset, FS_CardinalityType DEF PagingAssumption, TypeOK
<1>1. ASSUME NEW x \in Rows, InsertRow(x)
      PROVE  LinksLeadOn'
  <2>1. Cardinality(table') = Cardinality(table) + 1
    BY <1>0, <1>1, FS_AddElement DEF InsertRow
  <2>2. pc' = pc /\ next' = next /\ offset' = offset /\ (next = Null \/ next \in Int)
    BY <1>1 DEF InsertRow, TypeOK
  <2> QED BY <1>0, <2>1, <2>2 DEF LinksLeadOn
<1>2. CASE Select
  <2> SUFFICES ASSUME next' # Null
               PROVE  next' = offset + Limit /\ next' < Cardinality(table)
    BY <1>2 DEF Select, LinksLeadOn
  <2> DEFINE n == Cardinality(Window(offset))
  <2>1. pc = "page" /\ next' = NextOffset(offset, n, total)
    BY <1>2 DEF Select
  <2>2. next' = offset + n /\ offset + n < total
    BY <2>1 DEF NextOffset
  <2>3. offset \in Nat /\ total \in Nat /\ late \in Nat /\ n \in Nat
    BY WindowSize DEF TypeOK
  <2>4. Cardinality(table) = total + late
    BY <2>1 DEF Counted
  <2> HIDE DEF n
  <2>5. offset + n < Cardinality(table) /\ offset < Cardinality(table)
    BY <2>2, <2>3, <2>4, <1>0
  <2>6. n = Limit
    BY <1>0, <2>3, <2>5, PageFull DEF n
  <2> QED BY <2>2, <2>5, <2>6
<1>3. CASE Open \/ Count \/ LoadFails \/ Follow \/ End \/ Close
  BY <1>3 DEF Open, Count, LoadFails, Follow, End, Close, Request, LinksLeadOn
<1>4. CASE CaseStats \/ UNCHANGED vars
  BY <1>4 DEF CaseStats, vars, LinksLeadOn
<1> QED BY <1>1, <1>2, <1>3, <1>4 DEF Next

\* A Next link leads from each page exactly one page size on, to a row that is
\* there: no walk meets a short or an empty page before its last, and it has no
\* more links than the table has pages, however cases are inserted meanwhile.
THEOREM NextLeadsOn == Spec => []LinksLeadOn
<1> DEFINE IInv == TypeOK /\ NothingSkipped /\ Counted /\ LastPage /\ MissedOnlyLate /\ LinksLeadOn
<1>1. Init => IInv
  BY TypeInit, SkipInit, MissedInit DEF Init, LinksLeadOn
<1>2. IInv /\ [Next]_vars => IInv'
  BY TypeStep, SkipStep, MissedStep, LinksStep
<1>3. IInv => LinksLeadOn
  OBVIOUS
<1> QED BY <1>1, <1>2, <1>3, PTL DEF Spec, Safe
=============================================================================

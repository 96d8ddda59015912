------------------------------ MODULE CasesProofs ------------------------------
(***************************************************************************)
(* Theorems about Cases, for every number of calls, pool size, import size *)
(* and answer of the model, with every fault.                              *)
(***************************************************************************)
EXTENDS Cases, SequenceTheorems, FiniteSetTheorems, TLAPS

-----------------------------------------------------------------------------
(* Type correctness in parts.  That the rows left of an import never drop  *)
(* below none depends on Tallied, and that only answers of the model are   *)
(* stored depends on HasAnswer, so these are proved along with it.         *)

Control ==
  /\ pc \in [Calls -> {"idle", "ml", "nlp", "lookup", "begin", "insert", "write", "commit"}]
  /\ \A p \in Creators : pc[p] \notin {"write", "commit"}
  /\ \A r \in Repredictors : pc[r] \notin {"nlp", "lookup", "insert"}
  /\ conn \in SUBSET Calls /\ lock \in SUBSET Repredictors

Answers == val \in [Calls -> Predictions \union {NoPrediction}]

Batches ==
  /\ asked \in [Creators -> 0..MaxImport] /\ todo \in [Creators -> 0..MaxImport]
  /\ results \in [Creators -> Seq(Nat)]

Counters ==
  /\ subject \in [Repredictors -> Nat] /\ begun \in [Repredictors -> Nat]
  /\ clock \in Nat /\ calls \in Nat
  /\ tasks \in [Actions -> Nat] /\ audited \in [Actions -> Nat]

Tables == cases \in Seq(Row) /\ history \in Seq(Entry)

LEMMA TypeParts ==
  /\ TypeOK <=> Control /\ Answers /\ Batches /\ Counters /\ Tables
  /\ (TypeOK <=> Control /\ Answers /\ Batches /\ Counters /\ Tables)'
<1>1. TypeOK <=> Control /\ Answers /\ Batches /\ Counters /\ Tables
  BY Zenon DEF TypeOK, Control, Answers, Batches, Counters, Tables
<1>2. (TypeOK <=> Control /\ Answers /\ Batches /\ Counters /\ Tables)'
  BY Zenon DEF TypeOK, Control, Answers, Batches, Counters, Tables
<1> QED BY <1>1, <1>2

LEMMA TypeInit == Init => Control /\ Answers /\ Batches /\ Counters /\ Tables
BY CasesAssumption
   DEF Init, Control, Answers, Batches, Counters, Tables, Calls

\* Each call stays where its code is.
LEMMA ControlStep ==
  ASSUME Control, [Next]_vars
  PROVE  Control'
<1> USE CasesAssumption DEF Control, Calls
<1>1. ASSUME NEW p \in Creators, NEW n \in 0..(MaxImport + 1), Submit(p, n)
      PROVE  Control'
  BY <1>1 DEF Submit, Weight, Goto
<1>2. ASSUME NEW p \in Creators, CreatorStep(p)
      PROVE  Control'
  BY <1>2 DEF CreatorStep, CreatorGoesOn, RowAnswered, RowUnanswered, BeginLookup,
     Lookup, BeginInsert, Insert, InsertUnacknowledged, RowStarved, RowDbFails,
     Goto, Acquire, EndTx, RowFails, RowDone
<1>3. ASSUME NEW p \in Creators, DropCreator(p)
      PROVE  Control'
  BY <1>3 DEF DropCreator, Goto, EndTx
<1>4. ASSUME NEW r \in Repredictors, NEW c \in 0..Len(cases), Request(r, c)
      PROVE  Control'
  BY <1>4 DEF Request, Goto
<1>5. ASSUME NEW r \in Repredictors, RepredictStep(r)
      PROVE  Control'
  BY <1>5 DEF RepredictStep, RepredictGoesOn, Answered, Load, NotFound, Unanswered,
     Write, Commit, CommitUnacknowledged, Starved, DbFails,
     Goto, Acquire, EndTx, Return
<1>6. ASSUME NEW r \in Repredictors, DropRepredictor(r)
      PROVE  Control'
  BY <1>6 DEF DropRepredictor, Goto, EndTx, Return
<1>7. ASSUME NEW a \in Actions, Task(a)
      PROVE  Control'
  BY <1>7 DEF Task, Record, RecordFails
<1>8. CASE Restart
  BY <1>8 DEF Restart
<1>9. CASE UNCHANGED vars
  BY <1>9 DEF vars
<1> QED
  BY <1>1, <1>2, <1>3, <1>4, <1>5, <1>6, <1>7, <1>8, <1>9 DEF Next

\* A call holds an answer of the model or none.
LEMMA AnswersStep ==
  ASSUME Control, Answers, [Next]_vars
  PROVE  Answers'
<1> USE CasesAssumption DEF Control, Answers, Calls
<1>1. ASSUME NEW p \in Creators, NEW n \in 0..(MaxImport + 1), Submit(p, n)
      PROVE  Answers'
  BY <1>1 DEF Submit, Weight, Goto
<1>2. ASSUME NEW p \in Creators, CreatorStep(p)
      PROVE  Answers'
  BY <1>2 DEF CreatorStep, CreatorGoesOn, RowAnswered, RowUnanswered, BeginLookup,
     Lookup, BeginInsert, Insert, InsertUnacknowledged, RowStarved, RowDbFails,
     Goto, Acquire, EndTx, RowFails, RowDone
<1>3. ASSUME NEW p \in Creators, DropCreator(p)
      PROVE  Answers'
  BY <1>3 DEF DropCreator, Goto, EndTx
<1>4. ASSUME NEW r \in Repredictors, NEW c \in 0..Len(cases), Request(r, c)
      PROVE  Answers'
  BY <1>4 DEF Request, Goto
<1>5. ASSUME NEW r \in Repredictors, RepredictStep(r)
      PROVE  Answers'
  BY <1>5 DEF RepredictStep, RepredictGoesOn, Answered, Load, NotFound, Unanswered,
     Write, Commit, CommitUnacknowledged, Starved, DbFails,
     Goto, Acquire, EndTx, Return
<1>6. ASSUME NEW r \in Repredictors, DropRepredictor(r)
      PROVE  Answers'
  BY <1>6 DEF DropRepredictor, Goto, EndTx, Return
<1>7. ASSUME NEW a \in Actions, Task(a)
      PROVE  Answers'
  BY <1>7 DEF Task, Record, RecordFails
<1>8. CASE Restart
  BY <1>8 DEF Restart
<1>9. CASE UNCHANGED vars
  BY <1>9 DEF vars
<1> QED
  BY <1>1, <1>2, <1>3, <1>4, <1>5, <1>6, <1>7, <1>8, <1>9 DEF Next

\* A call that is about to write has its answer.
LEMMA HasAnswerStep ==
  ASSUME Control, Answers, HasAnswer, [Next]_vars
  PROVE  HasAnswer'
<1> USE CasesAssumption DEF Control, Answers, HasAnswer, Writing, Calls
<1>1. ASSUME NEW p \in Creators, NEW n \in 0..(MaxImport + 1), Submit(p, n)
      PROVE  HasAnswer'
  BY <1>1 DEF Submit, Weight, Goto
<1>2. ASSUME NEW p \in Creators, CreatorStep(p)
      PROVE  HasAnswer'
  BY <1>2 DEF CreatorStep, CreatorGoesOn, RowAnswered, RowUnanswered, BeginLookup,
     Lookup, BeginInsert, Insert, InsertUnacknowledged, RowStarved, RowDbFails,
     Goto, Acquire, EndTx, RowFails, RowDone
<1>3. ASSUME NEW p \in Creators, DropCreator(p)
      PROVE  HasAnswer'
  BY <1>3 DEF DropCreator, Goto, EndTx
<1>4. ASSUME NEW r \in Repredictors, NEW c \in 0..Len(cases), Request(r, c)
      PROVE  HasAnswer'
  BY <1>4 DEF Request, Goto
<1>5. ASSUME NEW r \in Repredictors, RepredictStep(r)
      PROVE  HasAnswer'
  BY <1>5 DEF RepredictStep, RepredictGoesOn, Answered, Load, NotFound, Unanswered,
     Write, Commit, CommitUnacknowledged, Starved, DbFails,
     Goto, Acquire, EndTx, Return
<1>6. ASSUME NEW r \in Repredictors, DropRepredictor(r)
      PROVE  HasAnswer'
  BY <1>6 DEF DropRepredictor, Goto, EndTx, Return
<1>7. ASSUME NEW a \in Actions, Task(a)
      PROVE  HasAnswer'
  BY <1>7 DEF Task, Record, RecordFails
<1>8. CASE Restart
  BY <1>8 DEF Restart
<1>9. CASE UNCHANGED vars
  BY <1>9 DEF vars
<1> QED
  BY <1>1, <1>2, <1>3, <1>4, <1>5, <1>6, <1>7, <1>8, <1>9 DEF Next

\* A finished row adds one outcome and leaves one row less; the call is over when
\* none is left.
LEMMA RowDoneTallies ==
  ASSUME Control, Batches, Tallied, NEW p \in Creators, pc[p] # "idle",
         NEW outcome \in Nat, RowDone(p, outcome)
  PROVE  Batches' /\ Tallied'
<1> USE CasesAssumption DEF Control, Batches, Tallied, Calls, RowDone, Goto
<1>1. todo[p] \in 1..MaxImport
  OBVIOUS
<1>2. results[p] \in Seq(Nat) /\ Append(results[p], outcome) \in Seq(Nat)
      /\ Len(Append(results[p], outcome)) = Len(results[p]) + 1
  OBVIOUS
<1>3. Batches'
  BY <1>1, <1>2
<1>4. ASSUME NEW q \in Creators
      PROVE  /\ Len(results'[q]) + todo'[q] = asked'[q]
             /\ pc'[q] = "idle" <=> todo'[q] = 0
  <2>1. CASE q = p
    <3>1. /\ results'[q] = Append(results[p], outcome) /\ todo'[q] = todo[p] - 1
          /\ asked'[q] = asked[p] /\ pc'[q] = IF todo[p] = 1 THEN "idle" ELSE "ml"
      BY <2>1
    <3> QED BY <1>1, <1>2, <3>1
  <2>2. CASE q # p
    <3>1. results'[q] = results[q] /\ todo'[q] = todo[q] /\ asked'[q] = asked[q]
          /\ pc'[q] = pc[q]
      BY <2>2
    <3> QED BY <3>1
  <2> QED BY <2>1, <2>2
<1> QED BY <1>3, <1>4

\* An import counts down the rows it was asked for, one outcome each.
LEMMA TalliedStep ==
  ASSUME Control, Batches, Tables, Tallied, [Next]_vars
  PROVE  Batches' /\ Tallied'
<1> USE CasesAssumption DEF Control, Batches, Tallied, Calls
<1>1. ASSUME NEW p \in Creators, NEW n \in 0..(MaxImport + 1), Submit(p, n)
      PROVE  Batches' /\ Tallied'
  BY <1>1 DEF Submit, Weight, Goto, batchVars
<1>2. ASSUME NEW p \in Creators, CreatorStep(p)
      PROVE  Batches' /\ Tallied'
  <2>1. CASE \E outcome \in Nat : pc[p] # "idle" /\ RowDone(p, outcome)
    BY <2>1, RowDoneTallies
  <2>2. CASE \E v \in Predictions, next \in {"nlp", "begin"} : RowAnswered(p, v, next)
    BY <2>2 DEF RowAnswered, Goto, batchVars
  <2>3. CASE BeginLookup(p) \/ Lookup(p) \/ BeginInsert(p)
    BY <2>3 DEF BeginLookup, Lookup, BeginInsert, Goto, batchVars
  <2>4. CASE Insert(p)
    <3>1. Len(cases) + 1 \in Nat /\ pc[p] # "idle" /\ RowDone(p, Len(cases) + 1)
      BY <2>4 DEF Insert, Tables
    <3> QED BY <2>1, <3>1
  <2>5. CASE RowUnanswered(p) \/ InsertUnacknowledged(p) \/ RowStarved(p) \/ RowDbFails(p)
    BY <2>1, <2>5 DEF RowUnanswered, InsertUnacknowledged, RowStarved, RowDbFails,
       RowFails, Waiting
  <2> QED BY <1>2, <2>2, <2>3, <2>4, <2>5 DEF CreatorStep, CreatorGoesOn
<1>3. ASSUME NEW p \in Creators, DropCreator(p)
      PROVE  Batches' /\ Tallied'
  BY <1>3 DEF DropCreator, Goto, EndTx, batchVars
<1>4. ASSUME NEW r \in Repredictors, NEW c \in 0..Len(cases), Request(r, c)
      PROVE  Batches' /\ Tallied'
  BY <1>4 DEF Request, Goto, batchVars
<1>5. ASSUME NEW r \in Repredictors, RepredictStep(r)
      PROVE  Batches' /\ Tallied'
  BY <1>5 DEF RepredictStep, RepredictGoesOn, Answered, Load, NotFound, Unanswered,
     Write, Commit, CommitUnacknowledged, Starved, DbFails,
     Goto, Acquire, EndTx, Return, batchVars
<1>6. ASSUME NEW r \in Repredictors, DropRepredictor(r)
      PROVE  Batches' /\ Tallied'
  BY <1>6 DEF DropRepredictor, Goto, EndTx, Return, batchVars
<1>7. ASSUME NEW a \in Actions, Task(a)
      PROVE  Batches' /\ Tallied'
  BY <1>7 DEF Task, Record, RecordFails, batchVars
<1>8. CASE Restart
  BY <1>8 DEF Restart, batchVars
<1>9. CASE UNCHANGED vars
  BY <1>9 DEF vars, batchVars
<1> QED
  BY <1>1, <1>2, <1>3, <1>4, <1>5, <1>6, <1>7, <1>8, <1>9 DEF Next

\* Counters are natural numbers: only tasks that there are end.
LEMMA CountersStep ==
  ASSUME Control, Counters, Tables, [Next]_vars
  PROVE  Counters'
<1> USE CasesAssumption DEF Control, Counters, Calls
<1>1. ASSUME NEW p \in Creators, NEW n \in 0..(MaxImport + 1), Submit(p, n)
      PROVE  Counters'
  BY <1>1 DEF Submit, Weight, Goto, txVars, auditVars, Spawn, Actions
<1>2. ASSUME NEW p \in Creators, CreatorStep(p)
      PROVE  Counters'
  BY <1>2 DEF CreatorStep, CreatorGoesOn, RowAnswered, RowUnanswered, BeginLookup,
     Lookup, BeginInsert, Insert, InsertUnacknowledged, RowStarved, RowDbFails,
     Goto, Acquire, EndTx, RowFails, RowDone, txVars, auditVars, Spawn, Actions
<1>3. ASSUME NEW p \in Creators, DropCreator(p)
      PROVE  Counters'
  BY <1>3 DEF DropCreator, Goto, EndTx, txVars, auditVars, Spawn, Actions
<1>4. ASSUME NEW r \in Repredictors, NEW c \in 0..Len(cases), Request(r, c)
      PROVE  Counters'
  BY <1>4 DEF Request, Goto, txVars, auditVars, Spawn, Actions
<1>5. ASSUME NEW r \in Repredictors, RepredictStep(r)
      PROVE  Counters'
  BY <1>5 DEF RepredictStep, RepredictGoesOn, Answered, Load, NotFound, Unanswered,
     Write, Commit, CommitUnacknowledged, Starved, DbFails,
     Goto, Acquire, EndTx, Return, txVars, auditVars, Spawn, Actions
<1>6. ASSUME NEW r \in Repredictors, DropRepredictor(r)
      PROVE  Counters'
  BY <1>6 DEF DropRepredictor, Goto, EndTx, Return, txVars, auditVars, Spawn, Actions
<1>7. ASSUME NEW a \in Actions, Task(a)
      PROVE  Counters'
  BY <1>7 DEF Task, Record, RecordFails, txVars, auditVars, Spawn, Actions
<1>8. CASE Restart
  BY <1>8 DEF Restart, txVars, auditVars, Spawn, Actions
<1>9. CASE UNCHANGED vars
  BY <1>9 DEF vars, txVars, auditVars, Spawn, Actions
<1> QED
  BY <1>1, <1>2, <1>3, <1>4, <1>5, <1>6, <1>7, <1>8, <1>9 DEF Next

-----------------------------------------------------------------------------
(* What a step does to the tables *)

Stores(p) == pc[p] = "insert" /\ cases' = Append(cases, NewRow(p)) /\ history' = history
Replaces(r) == pc[r] = "commit" /\ Publish(r)

TablesMove == \/ UNCHANGED storeVars
              \/ \E p \in Creators : Stores(p)
              \/ \E r \in Repredictors : Replaces(r)

\* A step leaves the tables alone, stores a case or replaces a prediction.
LEMMA TablesChange ==
  ASSUME Control, [Next]_vars
  PROVE  TablesMove
<1> USE CasesAssumption DEF Control, storeVars, TablesMove
<1>1. ASSUME NEW p \in Creators, NEW n \in 0..(MaxImport + 1), Submit(p, n)
      PROVE  TablesMove
  BY <1>1 DEF Submit, Weight, Goto, Spawn
<1>2. ASSUME NEW p \in Creators, CreatorStep(p)
      PROVE  TablesMove
  <2>1. CASE Insert(p) \/ InsertUnacknowledged(p)
    <3>1. Stores(p)
      BY <2>1 DEF Insert, InsertUnacknowledged, Stores
    <3> QED BY <3>1
  <2>2. CASE ~(Insert(p) \/ InsertUnacknowledged(p))
    BY <1>2, <2>2 DEF CreatorStep, CreatorGoesOn, RowAnswered, RowUnanswered, BeginLookup, Lookup,
       BeginInsert, RowStarved, RowDbFails
  <2> QED BY <2>1, <2>2
<1>3. ASSUME NEW p \in Creators, DropCreator(p)
      PROVE  TablesMove
  <2>1. history' = history
    BY <1>3 DEF DropCreator
  <2>2. cases' = cases \/ Stores(p)
    BY <1>3, <2>1 DEF DropCreator, Stores
  <2> QED BY <2>1, <2>2
<1>4. ASSUME NEW r \in Repredictors, NEW c \in 0..Len(cases), Request(r, c)
      PROVE  TablesMove
  BY <1>4 DEF Request, Goto, Spawn
<1>5. ASSUME NEW r \in Repredictors, RepredictStep(r)
      PROVE  TablesMove
  <2>1. CASE Commit(r) \/ CommitUnacknowledged(r)
    <3>1. Replaces(r)
      BY <2>1 DEF Commit, CommitUnacknowledged, Replaces
    <3> QED BY <3>1
  <2>2. CASE ~(Commit(r) \/ CommitUnacknowledged(r))
    BY <1>5, <2>2 DEF RepredictStep, RepredictGoesOn, Answered, Load, NotFound, Unanswered, Write,
       Starved, DbFails
  <2> QED BY <2>1, <2>2
<1>6. ASSUME NEW r \in Repredictors, DropRepredictor(r)
      PROVE  TablesMove
  <2>1. UNCHANGED storeVars \/ Replaces(r)
    BY <1>6 DEF DropRepredictor, Replaces
  <2> QED BY <2>1
<1>7. ASSUME NEW a \in Actions, Task(a)
      PROVE  TablesMove
  BY <1>7 DEF Task, Record, RecordFails, Spawn
<1>8. CASE Restart
  BY <1>8 DEF Restart, Spawn
<1>9. CASE UNCHANGED vars
  BY <1>9 DEF vars, Spawn
<1> QED
  BY <1>1, <1>2, <1>3, <1>4, <1>5, <1>6, <1>7, <1>8, <1>9 DEF Next

\* The row lands behind the others.
LEMMA StoresType ==
  ASSUME Control, Answers, HasAnswer, Tables, NEW p \in Creators, Stores(p)
  PROVE  /\ Tables' /\ Len(cases') = Len(cases) + 1 /\ val[p] \in Predictions
         /\ cases' = Append(cases, [prediction |-> val[p], recommendation |-> val[p]])
<1>1. val[p] \in Predictions
  BY DEF HasAnswer, Writing, Stores, Calls
<1>2. NewRow(p) \in Row
  BY <1>1 DEF NewRow, Row
<1>3. cases \in Seq(Row) /\ cases' = Append(cases, NewRow(p))
  BY DEF Tables, Stores
<1>4. cases' \in Seq(Row) /\ Len(cases') = Len(cases) + 1
  BY <1>2, <1>3
<1>5. history' = history
  BY DEF Stores
<1> QED BY <1>1, <1>3, <1>4, <1>5 DEF Tables, NewRow

\* No row is added to the cases, one is added to the history.
LEMMA ReplacesType ==
  ASSUME Control, Answers, HasAnswer, Counters, Tables, NEW r \in Repredictors, Replaces(r)
  PROVE  /\ Tables' /\ Len(cases') = Len(cases) /\ Len(history') = Len(history) + 1
         /\ val[r] \in Predictions
         /\ history' = Append(history, [case |-> subject[r], prediction |-> val[r],
                                        created_at |-> begun[r]])
<1>1. val[r] \in Predictions
  BY DEF HasAnswer, Writing, Replaces, Calls
<1>2. NewEntry(r) \in Entry
  BY <1>1 DEF NewEntry, Entry, Counters
<1>3. /\ cases \in Seq(Row) /\ history \in Seq(Entry)
      /\ cases' = [cases EXCEPT ![subject[r]].prediction = val[r]]
      /\ history' = Append(history, NewEntry(r))
  BY DEF Tables, Replaces, Publish
<1>4. history' \in Seq(Entry) /\ Len(history') = Len(history) + 1
  BY <1>2, <1>3
<1>5. cases' \in Seq(Row) /\ Len(cases') = Len(cases)
  <2> DEFINE row == [cases[subject[r]] EXCEPT !.prediction = val[r]]
  <2>1. cases' = [cases EXCEPT ![subject[r]] = row]
    BY <1>3
  <2>2. subject[r] \in DOMAIN cases => cases[subject[r]] \in Row
    BY <1>3
  <2>3. ASSUME NEW old \in Row PROVE [old EXCEPT !.prediction = val[r]] \in Row
    BY <1>1 DEF Row
  <2>4. subject[r] \in DOMAIN cases => row \in Row
    BY <2>2, <2>3
  <2> HIDE DEF row
  <2>5. CASE subject[r] \notin DOMAIN cases
    <3>1. cases' = cases
      BY <1>3, <2>1, <2>5
    <3> QED BY <1>3, <3>1
  <2>6. CASE subject[r] \in DOMAIN cases
    <3>1. subject[r] \in 1..Len(cases)
      BY <1>3, <2>6
    <3>2. [cases EXCEPT ![subject[r]] = row] \in Seq(Row)
          /\ Len([cases EXCEPT ![subject[r]] = row]) = Len(cases)
      BY <1>3, <2>4, <2>6, <3>1, ExceptSeq
    <3> QED BY <2>1, <3>2
  <2> QED BY <2>5, <2>6
<1> QED BY <1>1, <1>3, <1>4, <1>5 DEF Tables, NewEntry

Grown == /\ Len(cases) \in Nat /\ Len(history) \in Nat
         /\ Len(cases') >= Len(cases) /\ Len(history') >= Len(history)
         /\ DOMAIN cases \subseteq DOMAIN cases'

\* Rows are made of answers of the model; none ever goes away.
LEMMA TablesStep ==
  ASSUME Control, Answers, HasAnswer, Counters, Tables, [Next]_vars
  PROVE  Tables' /\ Grown
<1>0. /\ Len(cases) \in Nat /\ cases \in Seq(Row) /\ DOMAIN cases = 1..Len(cases)
      /\ Len(history) \in Nat
  BY DEF Tables
<1>1. CASE UNCHANGED storeVars
  BY <1>0, <1>1 DEF Tables, storeVars, Grown
<1>2. ASSUME NEW p \in Creators, Stores(p)
      PROVE  Tables' /\ Grown
  <2>1. Tables' /\ Len(cases') = Len(cases) + 1 /\ history' = history
    BY <1>2, StoresType DEF Stores
  <2>2. DOMAIN cases' = 1..Len(cases')
    BY <2>1 DEF Tables
  <2> QED BY <1>0, <2>1, <2>2 DEF Grown
<1>3. ASSUME NEW r \in Repredictors, Replaces(r)
      PROVE  Tables' /\ Grown
  <2>1. Tables' /\ Len(cases') = Len(cases) /\ Len(history') = Len(history) + 1
    BY <1>3, ReplacesType
  <2>2. DOMAIN cases' = 1..Len(cases')
    BY <2>1 DEF Tables
  <2> QED BY <1>0, <2>1, <2>2 DEF Grown
<1> QED BY <1>1, <1>2, <1>3, TablesChange DEF TablesMove

TypeInv == TypeOK /\ HasAnswer /\ Tallied

LEMMA TypeInvInit == Init => TypeInv
<1> SUFFICES ASSUME Init PROVE TypeInv
  OBVIOUS
<1>1. TypeOK
  BY TypeInit, TypeParts
<1>2. HasAnswer
  BY DEF Init, HasAnswer, Writing, Calls
<1>3. Tallied
  BY DEF Init, Tallied, Calls
<1> QED BY <1>1, <1>2, <1>3 DEF TypeInv

LEMMA TypeInvStep == TypeInv /\ [Next]_vars => TypeInv'
<1> SUFFICES ASSUME TypeInv, [Next]_vars PROVE TypeInv'
  OBVIOUS
<1>1. Control /\ Answers /\ Batches /\ Counters /\ Tables /\ HasAnswer /\ Tallied
  BY TypeParts DEF TypeInv
<1>2. Control' /\ Answers' /\ Batches' /\ Counters' /\ Tables' /\ HasAnswer' /\ Tallied'
  BY <1>1, ControlStep, AnswersStep, TalliedStep, CountersStep, TablesStep, HasAnswerStep
<1> QED BY <1>2, TypeParts DEF TypeInv

\* Every variable of Cases keeps its type: imports never run below their last
\* row, only answers of the model are stored, and no call is where only the
\* other kind can be.
THEOREM TypeCorrect == Spec => []TypeOK
<1>1. Init /\ [][Next]_vars => []TypeInv
  BY TypeInvInit, TypeInvStep, PTL
<1>2. TypeInv => TypeOK
  BY DEF TypeInv
<1> QED BY <1>1, <1>2, PTL DEF Spec, Safe

-----------------------------------------------------------------------------
(* Connections and row locks *)

\* A call has a connection exactly while its transaction is open.
LEMMA HoldsStep ==
  ASSUME Control, HoldsInTx, [Next]_vars
  PROVE  HoldsInTx'
<1> USE CasesAssumption DEF Control, HoldsInTx, InTx, Calls
<1>1. ASSUME NEW p \in Creators, NEW n \in 0..(MaxImport + 1), Submit(p, n)
      PROVE  HoldsInTx'
  BY <1>1 DEF Submit, Weight, Goto, Waiting
<1>2. ASSUME NEW p \in Creators, CreatorStep(p)
      PROVE  HoldsInTx'
  BY <1>2 DEF CreatorStep, CreatorGoesOn, RowAnswered, RowUnanswered, BeginLookup,
     Lookup, BeginInsert, Insert, InsertUnacknowledged, RowStarved, RowDbFails,
     Goto, Acquire, EndTx, RowFails, RowDone, Waiting
<1>3. ASSUME NEW p \in Creators, DropCreator(p)
      PROVE  HoldsInTx'
  BY <1>3 DEF DropCreator, Goto, EndTx, Waiting
<1>4. ASSUME NEW r \in Repredictors, NEW c \in 0..Len(cases), Request(r, c)
      PROVE  HoldsInTx'
  BY <1>4 DEF Request, Goto, Waiting
<1>5. ASSUME NEW r \in Repredictors, RepredictStep(r)
      PROVE  HoldsInTx'
  BY <1>5 DEF RepredictStep, RepredictGoesOn, Answered, Load, NotFound, Unanswered,
     Write, Commit, CommitUnacknowledged, Starved, DbFails,
     Goto, Acquire, EndTx, Return, Waiting
<1>6. ASSUME NEW r \in Repredictors, DropRepredictor(r)
      PROVE  HoldsInTx'
  BY <1>6 DEF DropRepredictor, Goto, EndTx, Return, Waiting
<1>7. ASSUME NEW a \in Actions, Task(a)
      PROVE  HoldsInTx'
  BY <1>7 DEF Task, Record, RecordFails, Waiting
<1>8. CASE Restart
  BY <1>8 DEF Restart, Waiting
<1>9. CASE UNCHANGED vars
  BY <1>9 DEF vars, Waiting
<1> QED
  BY <1>1, <1>2, <1>3, <1>4, <1>5, <1>6, <1>7, <1>8, <1>9 DEF Next

LocksOpen ==
  /\ \A r \in lock : pc[r] = "commit"
  /\ \A r, s \in lock : subject[r] = subject[s] => r = s

\* A row lock belongs to a transaction about to commit, and nobody else has it.
LEMMA LocksStep ==
  ASSUME Control, Counters, LocksOpen, [Next]_vars
  PROVE  LocksOpen'
<1> USE CasesAssumption DEF Control, Counters, LocksOpen, Calls
<1>1. ASSUME NEW p \in Creators, NEW n \in 0..(MaxImport + 1), Submit(p, n)
      PROVE  LocksOpen'
  BY <1>1 DEF Submit, Weight, Goto, txVars, Unlocked, Waiting
<1>2. ASSUME NEW p \in Creators, CreatorStep(p)
      PROVE  LocksOpen'
  BY <1>2 DEF CreatorStep, CreatorGoesOn, RowAnswered, RowUnanswered, BeginLookup,
     Lookup, BeginInsert, Insert, InsertUnacknowledged, RowStarved, RowDbFails,
     Goto, Acquire, EndTx, RowFails, RowDone, txVars, Unlocked, Waiting
<1>3. ASSUME NEW p \in Creators, DropCreator(p)
      PROVE  LocksOpen'
  BY <1>3 DEF DropCreator, Goto, EndTx, txVars, Unlocked, Waiting
<1>4. ASSUME NEW r \in Repredictors, NEW c \in 0..Len(cases), Request(r, c)
      PROVE  LocksOpen'
  BY <1>4 DEF Request, Goto, txVars, Unlocked, Waiting
<1>5. ASSUME NEW r \in Repredictors, RepredictStep(r)
      PROVE  LocksOpen'
  BY <1>5 DEF RepredictStep, RepredictGoesOn, Answered, Load, NotFound, Unanswered,
     Write, Commit, CommitUnacknowledged, Starved, DbFails,
     Goto, Acquire, EndTx, Return, txVars, Unlocked, Waiting
<1>6. ASSUME NEW r \in Repredictors, DropRepredictor(r)
      PROVE  LocksOpen'
  BY <1>6 DEF DropRepredictor, Goto, EndTx, Return, txVars, Unlocked, Waiting
<1>7. ASSUME NEW a \in Actions, Task(a)
      PROVE  LocksOpen'
  BY <1>7 DEF Task, Record, RecordFails, txVars, Unlocked, Waiting
<1>8. CASE Restart
  BY <1>8 DEF Restart, txVars, Unlocked, Waiting
<1>9. CASE UNCHANGED vars
  BY <1>9 DEF vars, txVars, Unlocked, Waiting
<1> QED
  BY <1>1, <1>2, <1>3, <1>4, <1>5, <1>6, <1>7, <1>8, <1>9 DEF Next

LEMMA HoldsEnough == Control /\ HoldsInTx /\ LocksOpen => NoHoldAndWait
BY CasesAssumption DEF Control, HoldsInTx, LocksOpen, NoHoldAndWait, InTx, Waiting, Calls

\* No call waits for a connection while it holds one, row locks belong to open
\* transactions, and no two transactions have the lock of one case.
THEOREM NeverHoldAndWait == Spec => []NoHoldAndWait
<1>1. Init => HoldsInTx /\ LocksOpen
  BY DEF Init, HoldsInTx, LocksOpen, InTx, Calls
<1>2. Init /\ [][Next]_vars => []TypeInv
  BY TypeInvInit, TypeInvStep, PTL
<1>3. TypeInv /\ HoldsInTx /\ LocksOpen /\ [Next]_vars => HoldsInTx' /\ LocksOpen'
  BY TypeParts, HoldsStep, LocksStep DEF TypeInv
<1>4. TypeInv /\ HoldsInTx /\ LocksOpen => NoHoldAndWait
  BY TypeParts, HoldsEnough DEF TypeInv
<1> QED BY <1>1, <1>2, <1>3, <1>4, PTL DEF Spec, Safe

-----------------------------------------------------------------------------
(* The tables behave as CaseStore *)

\* The case an open repredict found stays where it is.
LEMMA CaseFoundStep ==
  ASSUME Control, Counters, CaseFound, Grown, [Next]_vars
  PROVE  CaseFound'
<1> USE CasesAssumption DEF Control, Counters, CaseFound, InTx, Calls, Grown
<1>1. ASSUME NEW p \in Creators, NEW n \in 0..(MaxImport + 1), Submit(p, n)
      PROVE  CaseFound'
  BY <1>1 DEF Submit, Weight, Goto, txVars, storeVars
<1>2. ASSUME NEW p \in Creators, CreatorStep(p)
      PROVE  CaseFound'
  BY <1>2 DEF CreatorStep, CreatorGoesOn, RowAnswered, RowUnanswered, BeginLookup,
     Lookup, BeginInsert, Insert, InsertUnacknowledged, RowStarved, RowDbFails,
     Goto, Acquire, EndTx, RowFails, RowDone, txVars, storeVars
<1>3. ASSUME NEW p \in Creators, DropCreator(p)
      PROVE  CaseFound'
  BY <1>3 DEF DropCreator, Goto, EndTx, txVars, storeVars
<1>4. ASSUME NEW r \in Repredictors, NEW c \in 0..Len(cases), Request(r, c)
      PROVE  CaseFound'
  BY <1>4 DEF Request, Goto, txVars, storeVars
<1>5. ASSUME NEW r \in Repredictors, RepredictStep(r)
      PROVE  CaseFound'
  BY <1>5 DEF RepredictStep, RepredictGoesOn, Answered, Load, NotFound, Unanswered,
     Write, Commit, CommitUnacknowledged, Starved, DbFails,
     Goto, Acquire, EndTx, Return, txVars, storeVars
<1>6. ASSUME NEW r \in Repredictors, DropRepredictor(r)
      PROVE  CaseFound'
  BY <1>6 DEF DropRepredictor, Goto, EndTx, Return, txVars, storeVars
<1>7. ASSUME NEW a \in Actions, Task(a)
      PROVE  CaseFound'
  BY <1>7 DEF Task, Record, RecordFails, txVars, storeVars
<1>8. CASE Restart
  BY <1>8 DEF Restart, txVars, storeVars
<1>9. CASE UNCHANGED vars
  BY <1>9 DEF vars, txVars, storeVars
<1> QED
  BY <1>1, <1>2, <1>3, <1>4, <1>5, <1>6, <1>7, <1>8, <1>9 DEF Next

\* Storing a case is Create, committing a repredict is Repredict.
LEMMA StoreStep ==
  ASSUME Control, Answers, HasAnswer, Counters, Tables, CaseFound, [Next]_vars
  PROVE  [Store!Next]_(Store!storeVars)
<1>1. CASE UNCHANGED storeVars
  BY <1>1 DEF storeVars, Store!storeVars
<1>2. ASSUME NEW p \in Creators, Stores(p)
      PROVE  Store!Next
  <2>1. Store!Create(val[p])
    BY <1>2, StoresType DEF Store!Create, Stores
  <2> QED BY <1>2, <2>1, StoresType DEF Store!Next
<1>3. ASSUME NEW r \in Repredictors, Replaces(r)
      PROVE  Store!Next
  <2> DEFINE new == [case |-> subject[r], prediction |-> val[r], created_at |-> begun[r]]
  <2>1. /\ history' = Append(history, new) /\ Len(history') = Len(history) + 1
        /\ val[r] \in Predictions
    BY <1>3, ReplacesType
  <2>2. subject[r] \in DOMAIN cases
    BY <1>3, CasesAssumption DEF CaseFound, InTx, Replaces, Control
  <2>3. new.case = subject[r] /\ new.prediction = val[r] /\ new.created_at \in Nat
    BY DEF Counters
  <2>4. history'[Len(history')] = new
    <3> HIDE DEF new
    <3> QED BY <2>1 DEF Tables
  <2>5. cases' = [cases EXCEPT ![subject[r]].prediction = val[r]]
    BY <1>3 DEF Replaces, Publish
  <2>6. Store!Repredict(subject[r], val[r])
    <3> HIDE DEF new
    <3> QED BY <2>1, <2>3, <2>4, <2>5 DEF Store!Repredict
  <2> QED BY <2>1, <2>2, <2>6 DEF Store!Next
<1> QED BY <1>1, <1>2, <1>3, TablesChange DEF TablesMove

\* Whatever fails, is dropped or races, the tables only ever change as CaseStore
\* allows: a case is stored whole, its recommendation stays, and its prediction
\* changes only together with a history row of the same value.
THEOREM StoreRefined == Spec => StoreKept
<1>1. Init => Store!Init /\ CaseFound
  BY CasesAssumption DEF Init, Store!Init, CaseFound, InTx, Calls
<1>2. Init /\ [][Next]_vars => []TypeInv
  BY TypeInvInit, TypeInvStep, PTL
<1>3. TypeInv /\ CaseFound /\ [Next]_vars => CaseFound' /\ [Store!Next]_(Store!storeVars)
  BY TypeParts, TablesStep, CaseFoundStep, StoreStep DEF TypeInv
<1> QED BY <1>1, <1>2, <1>3, PTL DEF Spec, Safe, StoreKept, Store!Spec

-----------------------------------------------------------------------------
(* Audit tasks *)

\* An audit task is spawned together with the commit it is about.
LEMMA AuditsStep ==
  ASSUME Control, Counters, Tables, AuditsOnlyCommitted, Grown, [Next]_vars
  PROVE  AuditsOnlyCommitted'
<1> USE CasesAssumption DEF Counters, AuditsOnlyCommitted, Grown, Actions
<1>1. ASSUME NEW p \in Creators, NEW n \in 0..(MaxImport + 1), Submit(p, n)
      PROVE  AuditsOnlyCommitted'
  BY <1>1 DEF Submit, Weight, Goto, auditVars, Spawn
<1>2. ASSUME NEW p \in Creators, CreatorStep(p)
      PROVE  AuditsOnlyCommitted'
  <2>1. CASE Insert(p)
    <3>1. Len(cases') = Len(cases) + 1
      BY <2>1 DEF Insert, Tables
    <3>2. /\ tasks'["case.created"] = tasks["case.created"] + 1
          /\ tasks'["case.repredict"] = tasks["case.repredict"] /\ audited' = audited
      BY <2>1 DEF Insert, Spawn
    <3> QED BY <3>1, <3>2
  <2>2. CASE ~Insert(p)
    <3>1. UNCHANGED auditVars
      BY <1>2, <2>2 DEF CreatorStep, CreatorGoesOn, RowAnswered, RowUnanswered,
         BeginLookup, Lookup, BeginInsert, InsertUnacknowledged, RowStarved, RowDbFails
    <3> QED BY <3>1 DEF auditVars
  <2> QED BY <2>1, <2>2
<1>3. ASSUME NEW p \in Creators, DropCreator(p)
      PROVE  AuditsOnlyCommitted'
  BY <1>3 DEF DropCreator, Goto, EndTx, auditVars, Spawn
<1>4. ASSUME NEW r \in Repredictors, NEW c \in 0..Len(cases), Request(r, c)
      PROVE  AuditsOnlyCommitted'
  BY <1>4 DEF Request, Goto, auditVars, Spawn
<1>5. ASSUME NEW r \in Repredictors, RepredictStep(r)
      PROVE  AuditsOnlyCommitted'
  <2>1. CASE Commit(r)
    <3>1. Len(history') = Len(history) + 1
      BY <2>1 DEF Commit, Publish, Tables
    <3>2. /\ tasks'["case.repredict"] = tasks["case.repredict"] + 1
          /\ tasks'["case.created"] = tasks["case.created"] /\ audited' = audited
      BY <2>1 DEF Commit, Spawn
    <3> QED BY <3>1, <3>2
  <2>2. CASE ~Commit(r)
    <3>1. UNCHANGED auditVars
      BY <1>5, <2>2 DEF RepredictStep, RepredictGoesOn, Answered, Load, NotFound,
         Unanswered, Write, CommitUnacknowledged, Starved, DbFails
    <3> QED BY <3>1 DEF auditVars
  <2> QED BY <2>1, <2>2
<1>6. ASSUME NEW r \in Repredictors, DropRepredictor(r)
      PROVE  AuditsOnlyCommitted'
  BY <1>6 DEF DropRepredictor, Goto, EndTx, Return, auditVars, Spawn
<1>7. ASSUME NEW a \in Actions, Task(a)
      PROVE  AuditsOnlyCommitted'
  BY <1>7 DEF Task, Record, RecordFails, auditVars, Spawn
<1>8. CASE Restart
  BY <1>8 DEF Restart, auditVars, Spawn
<1>9. CASE UNCHANGED vars
  BY <1>9 DEF vars, auditVars, Spawn
<1> QED
  BY <1>1, <1>2, <1>3, <1>4, <1>5, <1>6, <1>7, <1>8, <1>9 DEF Next

\* The audit log and the tasks under way never claim more cases than are stored,
\* or more repredicts than are in the history.
THEOREM AuditsCommitted == Spec => []AuditsOnlyCommitted
<1>1. Init => AuditsOnlyCommitted
  BY DEF Init, AuditsOnlyCommitted, Actions
<1>2. Init /\ [][Next]_vars => []TypeInv
  BY TypeInvInit, TypeInvStep, PTL
<1>3. TypeInv /\ AuditsOnlyCommitted /\ [Next]_vars => AuditsOnlyCommitted'
  BY TypeParts, TablesStep, AuditsStep DEF TypeInv
<1> QED BY <1>1, <1>2, <1>3, PTL DEF Spec, Safe

-----------------------------------------------------------------------------
(* Import reports *)

\* Reporting a row adds its id, or nothing if it failed.
LEMMA AppendOutcome ==
  ASSUME NEW s \in Seq(Nat), NEW n \in Nat
  PROVE  /\ DOMAIN Append(s, n) = DOMAIN s \union {Len(s) + 1}
         /\ \A i \in DOMAIN s : Append(s, n)[i] = s[i]
         /\ Append(s, n)[Len(s) + 1] = n /\ Len(s) + 1 \notin DOMAIN s
OBVIOUS

\* A row that is reported failed leaves the reported ones as they are.
LEMMA FailedRowReports ==
  ASSUME Batches, StoredOnce, Grown, NEW p \in Creators,
         results' = [results EXCEPT ![p] = Append(@, 0)]
  PROVE  StoredOnce'
<1>1. ASSUME NEW q \in Creators
      PROVE  Reported(q)' = Reported(q) /\ \A i \in Reported(q) : results'[q][i] = results[q][i]
  <2>1. results[q] \in Seq(Nat)
    BY DEF Batches
  <2>2. CASE q = p
    <3>1. results'[q] = Append(results[q], 0)
      BY <2>2 DEF Batches
    <3> QED BY <2>1, <3>1, AppendOutcome DEF Reported
  <2>3. CASE q # p
    BY <2>3 DEF Batches, Reported
  <2> QED BY <2>2, <2>3
<1>2. ASSUME NEW q \in Creators, NEW i \in Reported(q)'
      PROVE  results'[q][i] \in DOMAIN cases'
  <2>1. i \in Reported(q) /\ results'[q][i] = results[q][i]
    BY <1>1
  <2>2. results[q][i] \in DOMAIN cases
    BY <2>1 DEF StoredOnce
  <2> QED BY <2>1, <2>2 DEF Grown
<1>3. ASSUME NEW q \in Creators, NEW t \in Creators, NEW i \in Reported(q)',
             NEW j \in Reported(t)', results'[q][i] = results'[t][j]
      PROVE  q = t /\ i = j
  <2>1. /\ i \in Reported(q) /\ results'[q][i] = results[q][i]
        /\ j \in Reported(t) /\ results'[t][j] = results[t][j]
    BY <1>1
  <2>2. results[q][i] = results[t][j]
    BY <1>3, <2>1
  <2> QED BY <2>1, <2>2 DEF StoredOnce
<1> QED BY <1>2, <1>3 DEF StoredOnce

\* The id of a new row is larger than that of every stored row.
LEMMA StoredRowReports ==
  ASSUME Batches, Tables, StoredOnce, NEW p \in Creators,
         Len(cases') = Len(cases) + 1, cases' \in Seq(Row),
         results' = [results EXCEPT ![p] = Append(@, Len(cases) + 1)]
  PROVE  StoredOnce'
<1> DEFINE id == Len(cases) + 1
           at == Len(results[p]) + 1
<1>1. /\ id \in Nat \ {0} /\ id \notin DOMAIN cases /\ id \in DOMAIN cases'
      /\ DOMAIN cases \subseteq DOMAIN cases'
  BY DEF Tables
<1>2. results[p] \in Seq(Nat) /\ results'[p] = Append(results[p], id)
  BY DEF Batches
<1> HIDE DEF id
<1>3. /\ at \notin Reported(p) /\ Reported(p)' = Reported(p) \union {at}
      /\ \A i \in Reported(p) : results'[p][i] = results[p][i]
      /\ results'[p][at] = id
  BY <1>1, <1>2, AppendOutcome DEF Reported
<1>4. ASSUME NEW q \in Creators, q # p
      PROVE  Reported(q)' = Reported(q) /\ results'[q] = results[q]
  BY <1>4 DEF Batches, Reported
<1> HIDE DEF at
<1>5. ASSUME NEW q \in Creators, NEW i \in Reported(q)'
      PROVE  \/ q = p /\ i = at /\ results'[q][i] = id
             \/ i \in Reported(q) /\ results'[q][i] = results[q][i]
  BY <1>3, <1>4
<1>6. ASSUME NEW q \in Creators, NEW i \in Reported(q)
      PROVE  results[q][i] \in DOMAIN cases /\ results[q][i] # id
  BY <1>1 DEF StoredOnce
<1>7. ASSUME NEW q \in Creators, NEW i \in Reported(q)'
      PROVE  results'[q][i] \in DOMAIN cases'
  BY <1>1, <1>5, <1>6
<1>8. ASSUME NEW q \in Creators, NEW t \in Creators, NEW i \in Reported(q)',
             NEW j \in Reported(t)', results'[q][i] = results'[t][j]
      PROVE  q = t /\ i = j
  <2>1. ASSUME i \in Reported(q), j \in Reported(t), results[q][i] = results[t][j]
        PROVE  q = t /\ i = j
    <3> HIDE DEF Reported
    <3> QED BY ONLY StoredOnce, <2>1, q \in Creators, t \in Creators DEF StoredOnce
  <2>2. \/ q = p /\ i = at /\ results'[q][i] = id
        \/ i \in Reported(q) /\ results'[q][i] = results[q][i]
    BY <1>5
  <2>3. \/ t = p /\ j = at /\ results'[t][j] = id
        \/ j \in Reported(t) /\ results'[t][j] = results[t][j]
    BY <1>5
  <2>4. /\ i \in Reported(q) => results[q][i] # id
        /\ j \in Reported(t) => results[t][j] # id
    BY <1>6
  <2> QED BY ONLY <1>8, <2>1, <2>2, <2>3, <2>4
<1> QED BY <1>7, <1>8 DEF StoredOnce

\* A new request, and a dropped one, reports nothing.
LEMMA NothingReported ==
  ASSUME Batches, StoredOnce, Grown, NEW p \in Creators,
         results' = [results EXCEPT ![p] = <<>>]
  PROVE  StoredOnce'
<1>1. ASSUME NEW q \in Creators
      PROVE  \A i \in Reported(q)' : i \in Reported(q) /\ results'[q][i] = results[q][i]
  BY DEF Batches, Reported
<1> QED BY <1>1 DEF StoredOnce, Grown

LEMMA SameReports ==
  ASSUME StoredOnce, Grown, results' = results
  PROVE  StoredOnce'
BY DEF StoredOnce, Grown, Reported

\* What an import reports is stored, and stays stored.
LEMMA StoredOnceStep ==
  ASSUME Control, Batches, Tables, Tables', StoredOnce, Grown, [Next]_vars
  PROVE  StoredOnce'
<1>1. ASSUME NEW p \in Creators, NEW n \in 0..(MaxImport + 1), Submit(p, n)
      PROVE  StoredOnce'
  BY <1>1, NothingReported DEF Submit
<1>2. ASSUME NEW p \in Creators, CreatorStep(p)
      PROVE  StoredOnce'
  <2>1. CASE results' = [results EXCEPT ![p] = Append(@, 0)]
    BY <2>1, FailedRowReports
  <2>2. CASE Insert(p)
    <3>1. Len(cases') = Len(cases) + 1
      BY <2>2 DEF Insert, Tables
    <3>2. results' = [results EXCEPT ![p] = Append(@, Len(cases) + 1)]
      BY <2>2 DEF Insert, RowDone
    <3>3. cases' \in Seq(Row)
      BY DEF Tables
    <3> QED BY <3>1, <3>2, <3>3, StoredRowReports
  <2>3. CASE results' = results
    BY <2>3, SameReports
  <2>4. \/ results' = [results EXCEPT ![p] = Append(@, 0)]
        \/ Insert(p)
        \/ results' = results
    BY <1>2 DEF CreatorStep, CreatorGoesOn, RowAnswered, RowUnanswered, BeginLookup,
       Lookup, BeginInsert, InsertUnacknowledged, RowStarved, RowDbFails, RowFails,
       RowDone, batchVars
  <2> QED BY <2>1, <2>2, <2>3, <2>4
<1>3. ASSUME NEW p \in Creators, DropCreator(p)
      PROVE  StoredOnce'
  BY <1>3, NothingReported DEF DropCreator
<1>4. ASSUME NEW r \in Repredictors, NEW c \in 0..Len(cases), Request(r, c)
      PROVE  StoredOnce'
  BY <1>4, SameReports DEF Request, batchVars
<1>5. ASSUME NEW r \in Repredictors, RepredictStep(r)
      PROVE  StoredOnce'
  <2>1. results' = results
    BY <1>5 DEF RepredictStep, RepredictGoesOn, Answered, Load, NotFound, Unanswered,
       Write, Commit, CommitUnacknowledged, Starved, DbFails, Return, batchVars
  <2> QED BY <2>1, SameReports
<1>6. ASSUME NEW r \in Repredictors, DropRepredictor(r)
      PROVE  StoredOnce'
  BY <1>6, SameReports DEF DropRepredictor, Return, batchVars
<1>7. ASSUME NEW a \in Actions, Task(a)
      PROVE  StoredOnce'
  <2>1. results' = results
    BY <1>7 DEF Task, Record, RecordFails, batchVars
  <2> QED BY <2>1, SameReports
<1>8. CASE Restart
  <2>1. \A p \in Creators : Reported(p)' = {}
    BY <1>8 DEF Restart, Reported
  <2> QED BY <2>1 DEF StoredOnce
<1>9. CASE UNCHANGED vars
  BY <1>9, SameReports DEF vars, batchVars
<1> QED
  BY <1>1, <1>2, <1>3, <1>4, <1>5, <1>6, <1>7, <1>8, <1>9 DEF Next

\* An import reports one outcome for each row it has gone through; what it reports
\* stored is stored, and no two reported rows are the same case.
THEOREM ReportsTold == Spec => []ReportsTrue
<1>1. Init => StoredOnce
  BY DEF Init, StoredOnce, Reported
<1>2. Init /\ [][Next]_vars => []TypeInv
  BY TypeInvInit, TypeInvStep, PTL
<1>3. TypeInv /\ TypeInv' /\ StoredOnce /\ [Next]_vars => StoredOnce'
  BY TypeParts, TablesStep, StoredOnceStep DEF TypeInv
<1>4. TypeInv /\ StoredOnce => ReportsTrue
  BY DEF TypeInv, ReportsTrue
<1> QED BY <1>1, <1>2, <1>3, <1>4, PTL DEF Spec, Safe

-----------------------------------------------------------------------------
(* Each step of a call brings its end nearer *)

\* A step of p that leaves the other calls where they are leaves them their steps.
Fewer(p) == StepsLeft(p)' < StepsLeft(p)
Others(p) == \A q \in Calls \ {p} : pc[q] # "idle" => StepsLeft(q)' <= StepsLeft(q)

LEMMA StepsNumber ==
  ASSUME Control, Batches, Tallied, NEW p \in Calls
  PROVE  StepsLeft(p) \in Nat /\ (pc[p] # "idle" => StepsLeft(p) > 0)
<1>1. CASE p \in Creators /\ pc[p] # "idle"
  <2>1. todo[p] \in 1..MaxImport /\ MaxImport \in Nat
    BY <1>1, CasesAssumption DEF Batches, Tallied
  <2>2. RowSteps(pc[p]) \in 1..5
    BY <1>1, CasesAssumption DEF Control, RowSteps, Calls
  <2> QED BY <1>1, <2>1, <2>2 DEF StepsLeft
<1>2. CASE p \in Repredictors /\ pc[p] # "idle"
  <2>1. RepredictSteps(pc[p]) \in 1..4 /\ p \notin Creators
    BY <1>2, CasesAssumption DEF Control, RepredictSteps, Calls
  <2> QED BY <1>2, <2>1 DEF StepsLeft
<1> QED BY <1>1, <1>2 DEF StepsLeft, Calls

LEMMA AllSteps == Control /\ Batches /\ Tallied => \A q \in Calls : StepsLeft(q) \in Nat
BY StepsNumber

\* A call that is not touched has as many steps left as before.
LEMMA Untouched ==
  ASSUME NEW q \in Calls, pc'[q] = pc[q], q \in Creators => todo'[q] = todo[q]
  PROVE  StepsLeft(q)' = StepsLeft(q)
BY DEF StepsLeft

LEMMA OthersUntouched ==
  ASSUME Control, Batches, Tallied, NEW p \in Calls,
         \A q \in Calls \ {p} : pc'[q] = pc[q] /\ (q \in Creators => todo'[q] = todo[q])
  PROVE  Others(p)
<1>1. ASSUME NEW q \in Calls \ {p} PROVE StepsLeft(q)' = StepsLeft(q) /\ StepsLeft(q) \in Nat
  BY <1>1, Untouched, StepsNumber
<1> QED BY <1>1 DEF Others

\* A row that is done takes its steps along.
LEMMA RowDoneFewer ==
  ASSUME Control, Batches, Tallied, NEW p \in Creators, pc[p] # "idle",
         NEW outcome, RowDone(p, outcome)
  PROVE  Fewer(p) /\ Others(p)
<1>1. p \in Calls /\ todo[p] \in 1..MaxImport /\ MaxImport \in Nat
  BY CasesAssumption DEF Calls, Batches, Tallied
<1>2. /\ todo' = [todo EXCEPT ![p] = todo[p] - 1]
      /\ pc' = [pc EXCEPT ![p] = IF todo[p] = 1 THEN "idle" ELSE "ml"]
  BY DEF RowDone, Goto
<1>3. todo'[p] = todo[p] - 1 /\ pc'[p] = IF todo[p] = 1 THEN "idle" ELSE "ml"
  BY <1>1, <1>2 DEF Batches, Control
<1>4. RowSteps(pc[p]) \in 1..5
  BY <1>1, CasesAssumption DEF Control, RowSteps, Calls
<1>5. StepsLeft(p) = 5 * (todo[p] - 1) + RowSteps(pc[p])
  BY DEF StepsLeft
<1>6. StepsLeft(p)' = IF todo[p] = 1 THEN 0 ELSE 5 * (todo[p] - 2) + 5
  <2>1. CASE todo[p] = 1
    BY <1>3, <2>1 DEF StepsLeft
  <2>2. CASE todo[p] # 1
    <3>1. pc'[p] = "ml" /\ todo'[p] - 1 = todo[p] - 2
      BY <1>1, <1>3, <2>2
    <3>2. RowSteps("ml") = 5
      BY DEF RowSteps
    <3> QED BY <2>2, <3>1, <3>2 DEF StepsLeft
  <2> QED BY <2>1, <2>2
<1>7. Fewer(p)
  BY <1>1, <1>4, <1>5, <1>6 DEF Fewer
<1>8. Others(p)
  BY <1>1, <1>2, OthersUntouched DEF Control, Batches
<1> QED BY <1>7, <1>8

\* The next step of the same row.
LEMMA RowGoesOnFewer ==
  ASSUME Control, Batches, Tallied, NEW p \in Creators, NEW from, NEW to,
         pc[p] = from, from # "idle", to # "idle", RowSteps(to) < RowSteps(from),
         RowSteps(to) \in Nat, RowSteps(from) \in Nat,
         Goto(p, to), todo' = todo
  PROVE  Fewer(p) /\ Others(p)
<1>1. p \in Calls /\ todo[p] \in Nat /\ pc'[p] = to
  BY CasesAssumption DEF Calls, Batches, Control, Goto
<1>2. Fewer(p)
  BY <1>1 DEF Fewer, StepsLeft
<1>3. Others(p)
  BY <1>1, OthersUntouched DEF Goto, Control
<1> QED BY <1>2, <1>3

LEMMA RepredictGoesOnFewer ==
  ASSUME Control, Batches, Tallied, NEW r \in Repredictors, NEW to,
         pc[r] # "idle", to = "idle" \/ RepredictSteps(to) < RepredictSteps(pc[r]),
         Goto(r, to), todo' = todo
  PROVE  Fewer(r) /\ Others(r)
<1>1. r \in Calls /\ r \notin Creators /\ pc'[r] = to
  BY CasesAssumption DEF Calls, Control, Goto
<1>2. StepsLeft(r) = RepredictSteps(pc[r]) /\ StepsLeft(r) > 0
  BY <1>1, StepsNumber DEF StepsLeft
<1>3. Fewer(r)
  BY <1>1, <1>2 DEF Fewer, StepsLeft
<1>4. Others(r)
  BY <1>1, OthersUntouched DEF Goto, Control
<1> QED BY <1>3, <1>4

LEMMA OwnStepFewer ==
  ASSUME Control, Batches, Tallied, NEW p \in Calls, OwnStep(p)
  PROVE  Fewer(p) /\ Others(p)
<1>1. CASE p \in Creators
  <2>1. CreatorStep(p)
    BY <1>1 DEF OwnStep
  <2>2. CASE \E outcome : pc[p] # "idle" /\ RowDone(p, outcome)
    BY <1>1, <2>2, RowDoneFewer
  <2>3. ASSUME NEW v \in Predictions, NEW next \in {"nlp", "begin"}, RowAnswered(p, v, next)
        PROVE  Fewer(p) /\ Others(p)
    BY <1>1, <2>3, RowGoesOnFewer DEF RowAnswered, RowSteps, batchVars
  <2>4. CASE BeginLookup(p)
    BY <1>1, <2>4, RowGoesOnFewer DEF BeginLookup, RowSteps, batchVars
  <2>5. CASE Lookup(p)
    BY <1>1, <2>5, RowGoesOnFewer DEF Lookup, RowSteps, batchVars
  <2>6. CASE BeginInsert(p)
    BY <1>1, <2>6, RowGoesOnFewer DEF BeginInsert, RowSteps, batchVars
  <2>7. CASE Insert(p) \/ RowUnanswered(p) \/ InsertUnacknowledged(p) \/ RowStarved(p) \/ RowDbFails(p)
    BY <2>2, <2>7 DEF Insert, RowUnanswered, InsertUnacknowledged, RowStarved, RowDbFails,
       RowFails, Waiting
  <2> QED BY <2>1, <2>3, <2>4, <2>5, <2>6, <2>7 DEF CreatorStep, CreatorGoesOn
<1>2. CASE p \in Repredictors
  <2>1. RepredictStep(p)
    BY <1>2, CasesAssumption DEF OwnStep
  <2>2. CASE pc[p] # "idle" /\ Return(p)
    BY <1>2, <2>2, RepredictGoesOnFewer DEF Return, batchVars
  <2>3. ASSUME NEW v \in Predictions, Answered(p, v) PROVE Fewer(p) /\ Others(p)
    BY <1>2, <2>3, RepredictGoesOnFewer DEF Answered, RepredictSteps, batchVars
  <2>4. CASE Load(p)
    BY <1>2, <2>4, RepredictGoesOnFewer DEF Load, RepredictSteps, batchVars
  <2>5. CASE Write(p)
    BY <1>2, <2>5, RepredictGoesOnFewer DEF Write, RepredictSteps, batchVars
  <2>6. CASE NotFound(p) \/ Unanswered(p) \/ Commit(p) \/ CommitUnacknowledged(p) \/ Starved(p) \/ DbFails(p)
    BY <2>2, <2>6 DEF NotFound, Unanswered, Commit, CommitUnacknowledged, Starved, DbFails, Waiting
  <2> QED BY <2>1, <2>3, <2>4, <2>5, <2>6 DEF RepredictStep, RepredictGoesOn
<1> QED BY <1>1, <1>2 DEF Calls

\* A call that begins or ends, or a task, takes no other call back.
LEMMA ElseNoMore ==
  ASSUME Control, Batches, Tallied, [Next]_vars, NEW p \in Calls, pc[p] # "idle",
         \A q \in Calls : ~OwnStep(q)
  PROVE  StepsLeft(p)' <= StepsLeft(p)
<1>0. StepsLeft(p) \in Nat
  BY StepsNumber
<1>1. ASSUME pc'[p] = pc[p], p \in Creators => todo'[p] = todo[p]
      PROVE  StepsLeft(p)' <= StepsLeft(p)
  BY <1>0, <1>1, Untouched
<1>2. ASSUME pc'[p] = "idle" PROVE StepsLeft(p)' <= StepsLeft(p)
  BY <1>0, <1>2 DEF StepsLeft
<1>3. ASSUME NEW q \in Creators, NEW n \in 0..(MaxImport + 1), Submit(q, n)
      PROVE  StepsLeft(p)' <= StepsLeft(p)
  BY <1>1, <1>3 DEF Submit, Goto, Control, Batches
<1>4. ASSUME NEW q \in Creators, DropCreator(q)
      PROVE  StepsLeft(p)' <= StepsLeft(p)
  BY <1>1, <1>2, <1>4 DEF DropCreator, Goto, Control, Batches
<1>5. ASSUME NEW r \in Repredictors, NEW c \in 0..Len(cases), Request(r, c)
      PROVE  StepsLeft(p)' <= StepsLeft(p)
  BY <1>1, <1>5 DEF Request, Goto, Control, batchVars
<1>6. ASSUME NEW r \in Repredictors, DropRepredictor(r)
      PROVE  StepsLeft(p)' <= StepsLeft(p)
  BY <1>1, <1>2, <1>6 DEF DropRepredictor, Return, Goto, Control, batchVars
<1>7. ASSUME NEW a \in Actions, Task(a)
      PROVE  StepsLeft(p)' <= StepsLeft(p)
  BY <1>1, <1>7 DEF Task, Record, RecordFails, batchVars
<1>8. CASE Restart
  BY <1>2, <1>8 DEF Restart
<1>9. CASE UNCHANGED vars
  BY <1>1, <1>9 DEF vars, batchVars
<1>10. \A q \in Creators : ~CreatorStep(q)
  BY DEF OwnStep, Calls
<1>11. \A r \in Repredictors : ~RepredictStep(r)
  BY CasesAssumption DEF OwnStep, Calls
<1> QED BY <1>3, <1>4, <1>5, <1>6, <1>7, <1>8, <1>9, <1>10, <1>11 DEF Next

\* A call takes at most five steps for each row it was asked for, or four for a
\* repredict: each step it takes, well or badly, is one less, and nothing that
\* others do, no fault and no restart, ever sends it back.
THEOREM WorkBounded == Spec => BoundedWork
<1>1. TypeInv /\ [Next]_vars =>
        [\A p \in Calls : pc[p] # "idle" =>
           /\ StepsLeft(p)' <= StepsLeft(p)
           /\ OwnStep(p) => StepsLeft(p)' < StepsLeft(p)]_vars
  <2> SUFFICES ASSUME TypeInv, [Next]_vars, NEW p \in Calls, pc[p] # "idle"
               PROVE  /\ StepsLeft(p)' <= StepsLeft(p)
                      /\ OwnStep(p) => StepsLeft(p)' < StepsLeft(p)
    OBVIOUS
  <2>1. Control /\ Batches /\ Tallied
    BY TypeParts DEF TypeInv
  <2>2. Batches' /\ Tallied' /\ Control'
    BY TypeInvStep, TypeParts DEF TypeInv
  <2>3. StepsLeft(p) \in Nat
    BY <2>1, StepsNumber
  <2>4. CASE OwnStep(p)
    <3>1. StepsLeft(p)' < StepsLeft(p)
      BY <2>1, <2>4, OwnStepFewer DEF Fewer
    <3>2. (Control /\ Batches /\ Tallied => \A q \in Calls : StepsLeft(q) \in Nat)'
      BY AllSteps, PTL
    <3>3. StepsLeft(p)' \in Nat
      BY <2>2, <3>2
    <3> QED BY <2>3, <3>1, <3>3
  <2>5. ASSUME NEW q \in Calls \ {p}, OwnStep(q), ~OwnStep(p)
        PROVE  StepsLeft(p)' <= StepsLeft(p)
    BY <2>1, <2>5, OwnStepFewer DEF Others
  <2>6. CASE \A q \in Calls : ~OwnStep(q)
    BY <2>1, <2>6, ElseNoMore
  <2> QED BY <2>4, <2>5, <2>6
<1>2. Init /\ [][Next]_vars => []TypeInv
  BY TypeInvInit, TypeInvStep, PTL
<1> QED BY <1>1, <1>2, PTL DEF Spec, Safe, BoundedWork
=============================================================================

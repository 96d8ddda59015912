-------------------------------- MODULE Cases --------------------------------
(***************************************************************************)
(* The case mutations of the API gateway: createCase, POST /v1/cases and   *)
(* importCases (one pipeline per row), repredictCase, the connection pool  *)
(* they share, ml-inference-svc as they see it, and the audit tasks they   *)
(* spawn.  Source: rust/api-gateway/src/{graphql_predict,case_import,      *)
(* rest_api}.rs.                                                           *)
(*                                                                         *)
(* One tenant: row-level security and the WHERE clauses keep tenants       *)
(* apart, and they share only the pool.  A single create is an import of   *)
(* one row whose only result is the response.                              *)
(***************************************************************************)
EXTENDS Integers, Sequences, FiniteSets

CONSTANTS
  Predictions,     \* what ml-inference-svc may answer
  NoPrediction,    \* a call that holds no answer
  Creators,        \* createCase, POST /v1/cases and importCases calls
  Repredictors,    \* repredictCase calls
  PoolSize,        \* max_connections of the cases pool
  MaxImport,       \* MAX_IMPORT_ROWS
  MaxCalls,        \* bound: how many calls are made
  Faults           \* which faults occur: subset of FaultKinds

FaultKinds == {"ml", "db", "audit", "drop", "restart"}

ASSUME CasesAssumption ==
  /\ NoPrediction \notin Predictions
  /\ IsFiniteSet(Creators) /\ IsFiniteSet(Repredictors)
  /\ Creators \cap Repredictors = {}
  /\ PoolSize \in Nat \ {0} /\ MaxImport \in Nat \ {0} /\ MaxCalls \in Nat
  /\ Faults \subseteq FaultKinds

VARIABLES
  cases,      \* table cases: a case id is an index
  history,    \* table predictions, in commit order
  pc,         \* where each call is
  conn,       \* the calls that hold a connection of the pool
  lock,       \* the calls whose transaction holds the row lock of their case
  val,        \* the model's answer, held in a local
  asked,      \* how many rows a creator's request had
  todo,       \* how many of them are left, the current one included
  results,    \* the outcome of each finished row: a case id, or 0 for an error
  subject,    \* the case each repredict call is for; 0 names no case
  begun,      \* when the transaction of each repredict call began: its now()
  clock,      \* repredict transactions begun so far
  calls,      \* calls made so far (bound MaxCalls)
  tasks,      \* spawned audit tasks not finished yet, by action
  audited     \* rows of audit_log, by action

storeVars == <<cases, history>>
batchVars == <<asked, todo, results>>
txVars == <<subject, begun, clock>>
auditVars == <<tasks, audited>>
vars == <<storeVars, batchVars, txVars, auditVars, pc, conn, lock, val, calls>>

Calls == Creators \union Repredictors
Actions == {"case.created", "case.repredict"}

Init ==
  /\ cases = <<>> /\ history = <<>>
  /\ pc = [p \in Calls |-> "idle"]
  /\ conn = {} /\ lock = {}
  /\ val = [p \in Calls |-> NoPrediction]
  /\ asked = [p \in Creators |-> 0]
  /\ todo = [p \in Creators |-> 0]
  /\ results = [p \in Creators |-> <<>>]
  /\ subject = [r \in Repredictors |-> 0]
  /\ begun = [r \in Repredictors |-> 0]
  /\ clock = 0 /\ calls = 0
  /\ tasks = [a \in Actions |-> 0]
  /\ audited = [a \in Actions |-> 0]

-----------------------------------------------------------------------------
(* The pool *)

Waiting(p) == pc[p] \in {"nlp", "begin"}

\* pool.begin(): a call waits until a connection is free.
Acquire(p) == Cardinality(conn) < PoolSize /\ conn' = conn \union {p}

\* Variant: an error path returns the connection and leaves the row locked.
EndTxStayingLocked(p) == conn' = conn \ {p} /\ lock' = lock

\* The transaction of a call ends, by COMMIT, rollback or drop.
EndTx(p) == conn' = conn \ {p} /\ lock' = lock \ {p}

Goto(p, place) == pc' = [pc EXCEPT ![p] = place]

Spawn(action) ==
  /\ tasks' = [tasks EXCEPT ![action] = @ + 1]
  /\ UNCHANGED audited

-----------------------------------------------------------------------------
(* do_create_case for the rows of do_import_cases, one after the other *)

\* What a request of n rows counts towards MaxCalls.
Weight(n) == IF n \in 1..MaxImport THEN n ELSE 1

\* Variant: the size of a request is not checked.
SubmitUnchecked(p, n) ==
  /\ pc[p] = "idle" /\ calls + Weight(n) <= MaxCalls
  /\ calls' = calls + Weight(n)
  /\ asked' = [asked EXCEPT ![p] = n]
  /\ todo' = [todo EXCEPT ![p] = n]
  /\ results' = [results EXCEPT ![p] = <<>>]
  /\ Goto(p, "ml")
  /\ UNCHANGED <<storeVars, txVars, auditVars, conn, lock, val>>

\* An empty request and one with too many rows are refused before anything runs.
Submit(p, n) ==
  /\ pc[p] = "idle" /\ calls + Weight(n) <= MaxCalls
  /\ calls' = calls + Weight(n)
  /\ asked' = [asked EXCEPT ![p] = IF n \in 1..MaxImport THEN n ELSE 0]
  /\ todo' = [todo EXCEPT ![p] = IF n \in 1..MaxImport THEN n ELSE 0]
  /\ results' = [results EXCEPT ![p] = <<>>]
  /\ Goto(p, IF n \in 1..MaxImport THEN "ml" ELSE "idle")
  /\ UNCHANGED <<storeVars, txVars, auditVars, conn, lock, val>>

\* The row is done, well or badly, and the loop goes on with the next one.
RowDone(p, outcome) ==
  /\ results' = [results EXCEPT ![p] = Append(@, outcome)]
  /\ todo' = [todo EXCEPT ![p] = @ - 1]
  /\ val' = [val EXCEPT ![p] = NoPrediction]
  /\ Goto(p, IF todo[p] = 1 THEN "idle" ELSE "ml")
  /\ UNCHANGED <<asked, txVars, calls>>

RowFails(p) == RowDone(p, 0) /\ EndTx(p)

\* With opinion text that names a judge the row looks the judge up first.
RowAnswered(p, v, next) ==
  /\ p \in Creators /\ pc[p] = "ml" /\ next \in {"nlp", "begin"}
  /\ val' = [val EXCEPT ![p] = v]
  /\ Goto(p, next)
  /\ UNCHANGED <<storeVars, batchVars, txVars, auditVars, conn, lock, calls>>

\* Variant: the error of a row ends the loop.
RowUnansweredEndsLoop(p) ==
  /\ "ml" \in Faults
  /\ p \in Creators /\ pc[p] = "ml"
  /\ todo' = [todo EXCEPT ![p] = 0]
  /\ Goto(p, "idle")
  /\ UNCHANGED <<storeVars, txVars, auditVars, conn, lock, val, calls, asked, results>>

\* Timeout, bad request, unavailable or internal: nothing is stored or audited.
RowUnanswered(p) ==
  /\ "ml" \in Faults
  /\ p \in Creators /\ pc[p] = "ml"
  /\ RowFails(p)
  /\ UNCHANGED <<storeVars, auditVars>>

\* extract_features_from_text begins a transaction of its own.
BeginLookup(p) ==
  /\ pc[p] = "nlp"
  /\ Acquire(p)
  /\ Goto(p, "lookup")
  /\ UNCHANGED <<storeVars, batchVars, txVars, auditVars, lock, val, calls>>

\* Variant: the transaction of the lookup is still open during the insert.
LookupKeepingTx(p) ==
  /\ pc[p] = "lookup"
  /\ Goto(p, "begin")
  /\ UNCHANGED <<storeVars, batchVars, txVars, auditVars, conn, lock, val, calls>>

\* It has ended when the insert asks for a connection.
Lookup(p) ==
  /\ pc[p] = "lookup"
  /\ EndTx(p)
  /\ Goto(p, "begin")
  /\ UNCHANGED <<storeVars, batchVars, txVars, auditVars, val, calls>>

BeginInsert(p) ==
  /\ p \in Creators /\ pc[p] = "begin"
  /\ Acquire(p)
  /\ Goto(p, "insert")
  /\ UNCHANGED <<storeVars, batchVars, txVars, auditVars, lock, val, calls>>

NewRow(p) == [prediction |-> val[p], recommendation |-> val[p]]

Insert(p) ==
  /\ pc[p] = "insert"
  /\ cases' = Append(cases, NewRow(p))
  /\ RowDone(p, Len(cases) + 1)
  /\ EndTx(p)
  /\ Spawn("case.created")
  /\ UNCHANGED history

\* The commit took effect but the answer was lost: the row is reported failed.
InsertUnacknowledged(p) ==
  /\ "db" \in Faults
  /\ pc[p] = "insert"
  /\ cases' = Append(cases, NewRow(p))
  /\ RowFails(p)
  /\ UNCHANGED <<history, auditVars>>

\* Variant: the audit task is spawned before the outcome is known, as
\* predict_case_outcome does.
RowStarvedAudited(p) ==
  /\ p \in Creators /\ Waiting(p)
  /\ Cardinality(conn) >= PoolSize
  /\ RowFails(p)
  /\ Spawn("case.created")
  /\ UNCHANGED storeVars

\* The acquire timeout passed while every connection was taken.
RowStarved(p) ==
  /\ p \in Creators /\ Waiting(p)
  /\ Cardinality(conn) >= PoolSize
  /\ RowFails(p)
  /\ UNCHANGED <<storeVars, auditVars>>

\* BEGIN, SET LOCAL, the judge lookup, the INSERT or its COMMIT failed, or the
\* opinion text is too long.
RowDbFails(p) ==
  /\ "db" \in Faults
  /\ pc[p] \in {"nlp", "lookup", "insert"} \/ (p \in Creators /\ pc[p] = "begin")
  /\ RowFails(p)
  /\ UNCHANGED <<storeVars, auditVars>>

-----------------------------------------------------------------------------
(* repredict_case: one transaction from the SELECT to the COMMIT, the call  *)
(* to ml-inference-svc included                                             *)

Request(r, c) ==
  /\ pc[r] = "idle" /\ calls < MaxCalls
  /\ calls' = calls + 1
  /\ subject' = [subject EXCEPT ![r] = c]
  /\ Goto(r, "begin")
  /\ UNCHANGED <<storeVars, batchVars, auditVars, conn, lock, val, begun, clock>>

Return(r) ==
  /\ Goto(r, "idle")
  /\ subject' = [subject EXCEPT ![r] = 0]
  /\ begun' = [begun EXCEPT ![r] = 0]
  /\ val' = [val EXCEPT ![r] = NoPrediction]
  /\ UNCHANGED <<batchVars, clock, calls>>

\* BEGIN fixes now() and the SELECT finds the case.
Load(r) ==
  /\ r \in Repredictors /\ pc[r] = "begin"
  /\ subject[r] \in DOMAIN cases
  /\ Acquire(r)
  /\ clock' = clock + 1
  /\ begun' = [begun EXCEPT ![r] = clock + 1]
  /\ Goto(r, "ml")
  /\ UNCHANGED <<storeVars, batchVars, auditVars, lock, val, subject, calls>>

\* No such case: the connection goes back at once.
NotFound(r) ==
  /\ r \in Repredictors /\ pc[r] = "begin"
  /\ subject[r] \notin DOMAIN cases /\ Cardinality(conn) < PoolSize
  /\ Return(r)
  /\ UNCHANGED <<storeVars, auditVars, conn, lock>>

Answered(r, v) ==
  /\ r \in Repredictors /\ pc[r] = "ml"
  /\ val' = [val EXCEPT ![r] = v]
  /\ Goto(r, "write")
  /\ UNCHANGED <<storeVars, batchVars, txVars, auditVars, conn, lock, calls>>

Unanswered(r) ==
  /\ "ml" \in Faults
  /\ r \in Repredictors /\ pc[r] = "ml"
  /\ Return(r) /\ EndTx(r)
  /\ UNCHANGED <<storeVars, auditVars>>

\* Nobody else's transaction has updated the case without having ended.
Unlocked(c) == \A r \in lock : subject[r] # c

\* Variant: the INSERT commits by itself, before the UPDATE.
WriteAutocommitted(r) ==
  /\ pc[r] = "write" /\ Unlocked(subject[r])
  /\ lock' = lock \union {r}
  /\ history' = Append(history, [case |-> subject[r], prediction |-> val[r],
                                 created_at |-> begun[r]])
  /\ Goto(r, "commit")
  /\ UNCHANGED <<cases, batchVars, txVars, auditVars, conn, val, calls>>

\* INSERT INTO predictions and UPDATE cases, which waits for the row lock.
Write(r) ==
  /\ pc[r] = "write" /\ Unlocked(subject[r])
  /\ lock' = lock \union {r}
  /\ Goto(r, "commit")
  /\ UNCHANGED <<storeVars, batchVars, txVars, auditVars, conn, val, calls>>

NewEntry(r) == [case |-> subject[r], prediction |-> val[r], created_at |-> begun[r]]

\* What the COMMIT makes visible.
Publish(r) ==
  /\ cases' = [cases EXCEPT ![subject[r]].prediction = val[r]]
  /\ history' = Append(history, NewEntry(r))

Commit(r) ==
  /\ pc[r] = "commit"
  /\ Publish(r)
  /\ Return(r) /\ EndTx(r)
  /\ Spawn("case.repredict")

CommitUnacknowledged(r) ==
  /\ "db" \in Faults
  /\ pc[r] = "commit"
  /\ Publish(r)
  /\ Return(r) /\ EndTx(r)
  /\ UNCHANGED auditVars

Starved(r) ==
  /\ r \in Repredictors /\ Waiting(r)
  /\ Cardinality(conn) >= PoolSize
  /\ Return(r)
  /\ UNCHANGED <<storeVars, auditVars, conn, lock>>

DbFails(r) ==
  /\ "db" \in Faults
  /\ r \in Repredictors /\ pc[r] \in {"begin", "write", "commit"}
  /\ Return(r) /\ EndTx(r)
  /\ UNCHANGED <<storeVars, auditVars>>

-----------------------------------------------------------------------------
(* Spawned tasks and the environment *)

\* AuditRecorder::record, on a pool of its own.
Record(a) ==
  /\ tasks[a] > 0
  /\ tasks' = [tasks EXCEPT ![a] = @ - 1]
  /\ audited' = [audited EXCEPT ![a] = @ + 1]
  /\ UNCHANGED <<storeVars, batchVars, txVars, pc, conn, lock, val, calls>>

\* A failed record is logged and forgotten.
RecordFails(a) ==
  /\ "audit" \in Faults /\ tasks[a] > 0
  /\ tasks' = [tasks EXCEPT ![a] = @ - 1]
  /\ UNCHANGED <<storeVars, batchVars, txVars, audited, pc, conn, lock, val, calls>>

\* The client disconnects and the handler's future is dropped; if it was waiting
\* for a COMMIT, that may still take effect.
DropCreator(p) ==
  /\ "drop" \in Faults
  /\ pc[p] # "idle"
  /\ cases' \in {cases} \union (IF pc[p] = "insert" THEN {Append(cases, NewRow(p))} ELSE {})
  /\ EndTx(p)
  /\ Goto(p, "idle")
  /\ val' = [val EXCEPT ![p] = NoPrediction]
  /\ asked' = [asked EXCEPT ![p] = 0]
  /\ todo' = [todo EXCEPT ![p] = 0]
  /\ results' = [results EXCEPT ![p] = <<>>]
  /\ UNCHANGED <<history, txVars, auditVars, calls>>

DropRepredictor(r) ==
  /\ "drop" \in Faults
  /\ pc[r] # "idle"
  /\ UNCHANGED storeVars \/ (pc[r] = "commit" /\ Publish(r))
  /\ Return(r) /\ EndTx(r)
  /\ UNCHANGED auditVars

\* The gateway restarts; its transactions roll back and its tasks are gone.
Restart ==
  /\ "restart" \in Faults
  /\ pc' = [p \in Calls |-> "idle"]
  /\ conn' = {} /\ lock' = {}
  /\ val' = [p \in Calls |-> NoPrediction]
  /\ asked' = [p \in Creators |-> 0]
  /\ todo' = [p \in Creators |-> 0]
  /\ results' = [p \in Creators |-> <<>>]
  /\ subject' = [r \in Repredictors |-> 0]
  /\ begun' = [r \in Repredictors |-> 0]
  /\ tasks' = [a \in Actions |-> 0]
  /\ UNCHANGED <<storeVars, clock, calls, audited>>

-----------------------------------------------------------------------------
CreatorGoesOn(p) ==
  \/ \E v \in Predictions, next \in {"nlp", "begin"} : RowAnswered(p, v, next)
  \/ BeginLookup(p) \/ Lookup(p) \/ BeginInsert(p) \/ Insert(p) \/ RowStarved(p)

CreatorStep(p) ==
  CreatorGoesOn(p) \/ RowUnanswered(p) \/ InsertUnacknowledged(p) \/ RowDbFails(p)

RepredictGoesOn(r) ==
  \/ \E v \in Predictions : Answered(r, v)
  \/ Load(r) \/ NotFound(r) \/ Write(r) \/ Commit(r) \/ Starved(r)

RepredictStep(r) ==
  RepredictGoesOn(r) \/ Unanswered(r) \/ CommitUnacknowledged(r) \/ DbFails(r)

Task(a) == Record(a) \/ RecordFails(a)

Next ==
  \/ \E p \in Creators, n \in 0..(MaxImport + 1) : Submit(p, n)
  \/ \E p \in Creators : CreatorStep(p) \/ DropCreator(p)
  \/ \E r \in Repredictors, c \in 0..Len(cases) : Request(r, c)
  \/ \E r \in Repredictors : RepredictStep(r) \/ DropRepredictor(r)
  \/ \E a \in Actions : Task(a)
  \/ Restart

\* The runtime polls every call that can move, the model service answers unless
\* it fails, the pool hands out connections or its timeout passes, and Postgres
\* answers.  Nothing has to fail: an UPDATE that waits for a row lock waits as
\* long as the lock is held.  Nobody has to send requests, disconnect or restart.
Fairness ==
  /\ \A p \in Creators : WF_vars(CreatorGoesOn(p))
  /\ \A r \in Repredictors : WF_vars(RepredictGoesOn(r))

Safe == Init /\ [][Next]_vars

Spec == Safe /\ Fairness

-----------------------------------------------------------------------------
(* Properties *)

Row == [prediction : Predictions, recommendation : Predictions]
Entry == [case : Nat, prediction : Predictions, created_at : Nat]

\* Every variable has its type, and each kind of call is only where its code is.
TypeOK ==
  /\ cases \in Seq(Row) /\ history \in Seq(Entry)
  /\ pc \in [Calls -> {"idle", "ml", "nlp", "lookup", "begin", "insert", "write", "commit"}]
  /\ \A p \in Creators : pc[p] \notin {"write", "commit"}
  /\ \A r \in Repredictors : pc[r] \notin {"nlp", "lookup", "insert"}
  /\ conn \in SUBSET Calls /\ lock \in SUBSET Repredictors
  /\ val \in [Calls -> Predictions \union {NoPrediction}]
  /\ asked \in [Creators -> 0..MaxImport] /\ todo \in [Creators -> 0..MaxImport]
  /\ results \in [Creators -> Seq(Nat)]
  /\ subject \in [Repredictors -> Nat] /\ begun \in [Repredictors -> Nat]
  /\ clock \in Nat /\ calls \in Nat
  /\ tasks \in [Actions -> Nat] /\ audited \in [Actions -> Nat]

\* The tables behave as CaseStore: whatever fails, is dropped or races, a case is
\* stored whole or not at all, its recommendation stays, and its prediction
\* changes only together with a history row of the same value.
Store == INSTANCE CaseStore
StoreKept == Store!Spec

\* An import reports one outcome for each row it has gone through, in order; what
\* it reports stored is stored, and no two reported rows are the same case.
Tallied ==
  \A p \in Creators : /\ Len(results[p]) + todo[p] = asked[p]
                      /\ pc[p] = "idle" <=> todo[p] = 0
Reported(p) == {i \in DOMAIN results[p] : results[p][i] # 0}
StoredOnce ==
  /\ \A p \in Creators : \A i \in Reported(p) : results[p][i] \in DOMAIN cases
  /\ \A p, q \in Creators : \A i \in Reported(p), j \in Reported(q) :
       results[p][i] = results[q][j] => p = q /\ i = j
ReportsTrue == Tallied /\ StoredOnce

\* A call that waits for a connection holds none, so calls never wait for each
\* other in a circle, and a row lock belongs to a transaction that is open.
NoHoldAndWait ==
  /\ \A p \in Calls : Waiting(p) \/ pc[p] = "idle" => p \notin conn
  /\ lock \subseteq conn
  /\ \A r, s \in lock : subject[r] = subject[s] => r = s

\* Why TypeOK, NoHoldAndWait and StoreKept hold: a call has a connection exactly
\* while its transaction is open; what it is about to write is an answer of the
\* model; and the case a repredict writes to was found and cases never go away.
InTx(p) == IF p \in Creators THEN pc[p] \in {"lookup", "insert"}
                             ELSE pc[p] \in {"ml", "write", "commit"}
HoldsInTx == \A p \in Calls : p \in conn <=> InTx(p)
Writing(p) == \/ p \in Creators /\ pc[p] \in {"nlp", "lookup", "begin", "insert"}
              \/ pc[p] \in {"write", "commit"}
HasAnswer == \A p \in Calls : Writing(p) => val[p] \in Predictions
CaseFound == \A r \in Repredictors : InTx(r) => subject[r] \in DOMAIN cases

\* The audit log never claims a case or a repredict that was not committed: the
\* audit tasks are spawned after the commit, and only then.
AuditsOnlyCommitted ==
  /\ tasks["case.created"] + audited["case.created"] <= Len(cases)
  /\ tasks["case.repredict"] + audited["case.repredict"] <= Len(history)

\* Why CallsEnd holds, besides fairness: the steps a call has left at most, of
\* which no other call adds any and each of its own takes one away.
RowSteps(place) ==
  CASE place = "ml" -> 5 [] place = "nlp" -> 4 [] place = "lookup" -> 3
    [] place = "begin" -> 2 [] place = "insert" -> 1
RepredictSteps(place) ==
  CASE place = "begin" -> 4 [] place = "ml" -> 3 [] place = "write" -> 2 [] place = "commit" -> 1
StepsLeft(p) ==
  IF pc[p] = "idle" THEN 0
  ELSE IF p \in Creators THEN 5 * (todo[p] - 1) + RowSteps(pc[p]) ELSE RepredictSteps(pc[p])
OwnStep(p) == IF p \in Creators THEN CreatorStep(p) ELSE RepredictStep(p)
BoundedWork ==
  [][\A p \in Calls : pc[p] # "idle" =>
       /\ StepsLeft(p)' <= StepsLeft(p)
       /\ OwnStep(p) => StepsLeft(p)' < StepsLeft(p)]_vars

\* Every call ends although repredict calls keep connections and row locks
\* while others wait for them: no process is away from idle for ever.
CallsEnd == \A p \in Calls : []<>(pc[p] = "idle")

\* The migration's comment on table predictions: "cases.prediction always points
\* at the latest row here", where casePredictions orders the rows by created_at.
Newest(i) ==
  \A j \in DOMAIN history :
    history[j].case = history[i].case => history[j].created_at <= history[i].created_at
LatestShown ==
  \A i \in DOMAIN history : Newest(i) => cases[history[i].case].prediction = history[i].prediction
=============================================================================

------------------------------ MODULE CaseStore ------------------------------
(***************************************************************************)
(* What the gateway promises about stored cases, with no calls, pool,      *)
(* model service or failures: cases are only added, the recommendation of  *)
(* a case is never touched again, and a prediction is replaced in the same *)
(* step that adds it to the history.                                       *)
(***************************************************************************)
EXTENDS Naturals, Sequences

CONSTANT Predictions     \* what ml-inference-svc may answer

VARIABLES cases,         \* the rows of table cases; a case id is an index
          history        \* the rows of table predictions, in commit order

storeVars == <<cases, history>>

Init == cases = <<>> /\ history = <<>>

\* A recommendation is a function of the prediction it was computed from, so it
\* is represented by that prediction.
Create(v) ==
  /\ cases' = Append(cases, [prediction |-> v, recommendation |-> v])
  /\ UNCHANGED history

\* created_at is any time: transactions need not commit in the order they began.
Repredict(c, v) ==
  /\ cases' = [cases EXCEPT ![c].prediction = v]
  /\ Len(history') = Len(history) + 1
  /\ LET new == history'[Len(history')]
     IN  /\ new.case = c /\ new.prediction = v /\ new.created_at \in Nat
         /\ history' = Append(history, new)

Next ==
  \/ \E v \in Predictions : Create(v)
  \/ \E c \in DOMAIN cases, v \in Predictions : Repredict(c, v)

Spec == Init /\ [][Next]_storeVars
=============================================================================

-------------------------------- MODULE Gateway --------------------------------
(***************************************************************************)
(* A request that creates a case, from its Authorization header to the     *)
(* row: jwt_middleware (auth.rs, pat_auth.rs), then POST /v1/cases or      *)
(* createCase, which ask the model, have the answer judged (Advice) and    *)
(* store the case.  Source: rust/api-gateway/src.                          *)
(*                                                                         *)
(* The connections, transactions and audit tasks of the pipeline are the   *)
(* module Cases', the rate limit RateLimiter's; here the limit lets the    *)
(* request through, and the row is stored in one step.  A request that is  *)
(* refused (401, 429) leaves no trace and is no step.                      *)
(***************************************************************************)
EXTENDS Access, Advice

CONSTANTS
  Requests,   \* requests to create a case
  Inputs,     \* what they may be about: [jurisdiction, motions]
  Answers,    \* what the model may answer: [p, lower, upper]
  NoCase,     \* a request that has returned no case
  Leeway      \* jsonwebtoken accepts a token this long after its expiry

\* The interval is p -/+ a quantile, cut to [0, 1] (SplitConformalPredictor), or
\* [0, 1] when the response has none.
ASSUME GatewayAssumption ==
  /\ Leeway \in Nat
  /\ "session" \notin Pats
  /\ Inputs \subseteq [jurisdiction : STRING, motions : 0..(U32 - 1)]
  /\ Answers \subseteq [p : 0..100, lower : 0..100, upper : 0..100]
  /\ \A a \in Answers : a.lower <= a.p /\ a.p <= a.upper

VARIABLES
  requests    \* [pc, via, sub, tenant, at, case]

vars == <<accessVars, requests>>

Idle == [pc |-> "idle", via |-> "none", sub |-> NoOperator, tenant |-> NoTenant,
         at |-> Never, case |-> NoCase]

Init ==
  /\ AccessInit
  /\ requests = [r \in Requests |-> Idle]

-----------------------------------------------------------------------------
(* jwt_middleware *)

\* decode_jwt: a claim of no tenant does not parse.
Decodes(s) == now <= s.exp + Leeway /\ s.tenant # NoTenant

\* The claims of a request.  A PAT's are those of its operator as the row is now.
Admitted(via, sub, tenant) ==
  [pc |-> "handler", via |-> via, sub |-> sub, tenant |-> tenant, at |-> now, case |-> NoCase]

Admit(r, via, sub, tenant) ==
  /\ requests[r].pc = "idle"
  /\ requests' = [requests EXCEPT ![r] = Admitted(via, sub, tenant)]
  /\ UNCHANGED accessVars

AdmitSession(r, s) ==
  /\ Decodes(s)
  /\ Admit(r, "session", s.sub, s.tenant)

\* Variant: a NULL tenant is not refused.
ResolvesUnscoped(k) ==
  /\ pats[k].sub # NoOperator
  /\ pats[k].revoked = Forever

\* resolve_pat: the operator's is_active is not asked for.  The spawned UPDATE
\* of last_used_at, which nothing reads, is left out.
Resolves(k) ==
  /\ pats[k].sub # NoOperator
  /\ pats[k].revoked = Forever
  /\ operators[pats[k].sub].tenant # NoTenant

AdmitPat(r, k) ==
  /\ Resolves(k)
  /\ Admit(r, k, pats[k].sub, operators[pats[k].sub].tenant)

-----------------------------------------------------------------------------
(* The handler *)

\* The row: under the tenant and operator of the claims.
Stored(q, input, answer) ==
  [pc |-> "stored", via |-> "none", sub |-> q.sub, tenant |-> q.tenant, at |-> Never,
   case |-> [input |-> input, answer |-> answer, advice |-> AdviceOn(input, answer)]]

\* The body is read, the model answers and the row is stored and returned.
Create(r, input, answer) ==
  /\ requests[r].pc = "handler"
  /\ requests' = [requests EXCEPT ![r] = Stored(requests[r], input, answer)]
  /\ UNCHANGED accessVars

\* A body that does not parse, a call of the model that fails or exceeds its
\* deadline, a failure of the database: an error, and no row.
Fail(r) ==
  /\ requests[r].pc = "handler"
  /\ requests' = [requests EXCEPT ![r] = Idle]
  /\ UNCHANGED accessVars

Handle(r) == Fail(r) \/ \E input \in Inputs, answer \in Answers : Create(r, input, answer)

Next ==
  \/ (Tick \/ Console \/ \E l \in Logins : Login(l)) /\ UNCHANGED requests
  \/ \E r \in Requests :
       \/ \E s \in sessions : AdmitSession(r, s)
       \/ \E k \in Pats : AdmitPat(r, k)
       \/ Handle(r)

Spec == Init /\ [][Next]_vars

-----------------------------------------------------------------------------
(* What holds *)

StoredCases == {requests[r].case : r \in {x \in Requests : requests[x].pc = "stored"}}

CaseType ==
  [input : Inputs, answer : Answers,
   advice : [kind : {"Settle", "Borderline", "Try"}, confidence : {"High", "Medium", "Low"},
             counter : [shown : BOOLEAN, atLower : {"Settle", "Borderline", "Try"},
                        atUpper : {"Settle", "Borderline", "Try"}],
             try : Int, settle : Int]]

RequestType ==
  [pc : {"handler"}, via : {"session"} \union Pats, sub : Operators,
   tenant : Tenants, at : 0..MaxTime, case : {NoCase}]
  \union [pc : {"stored"}, via : {"none"}, sub : Operators,
          tenant : Tenants, at : {Never}, case : CaseType]

LoginType ==
  [pc : {"checked"}, sub : Operators, tenant : {NoTenant}, read : {Never}]
  \union [pc : {"found"}, sub : Operators, tenant : Tenants \union {NoTenant},
          read : 0..MaxTime]

\* Every variable has its type.  In particular what was admitted acts for an
\* operator in a tenant: claims of no tenant (super operators) never get in.
TypeOK ==
  /\ now \in 0..MaxTime
  /\ operators \in [Operators -> [exists : BOOLEAN, active : BOOLEAN, super : BOOLEAN,
                                  tenant : Tenants \union {NoTenant}]]
  /\ logins \in [Logins -> {NoLogin} \union LoginType]
  /\ \A s \in sessions : /\ s.sub \in Operators
                         /\ s.tenant \in Tenants \union {NoTenant}
                         /\ s.exp \in Nat
  /\ pats \in [Pats -> [sub : Operators \union {NoOperator}, revoked : 0..Forever]]
  /\ held \in [Operators -> [Tenants -> Never..MaxTime]]
  /\ requests \in [Requests -> {Idle} \union RequestType]

\* What deactivating or moving an operator withdraws is gone after the life of
\* a session (and the leeway, and the pause of a login between the row and the
\* clock): whatever logins were under way then, a request admitted by a session is
\* of an operator active in the session's tenant no longer ago than that.  A PAT
\* admits nothing after it was revoked.
\* (jwt_helpers.py, views.py login, auth.rs decode_jwt, pat_auth.rs resolve_pat)
WithdrawnInTime ==
  \A r \in Requests : requests[r].pc = "handler" =>
    LET q == requests[r]
    IN  IF q.via = "session"
        THEN /\ held[q.sub][q.tenant] # Never
             /\ q.at <= held[q.sub][q.tenant] + Pause + SessionTTL + Leeway
        ELSE pats[q.via].revoked >= q.at

\* The advice lies between what it would be at the two bounds of the interval,
\* which are shown for every wide interval.  (recommend.rs recommend)
AdviceBracketed ==
  \A c \in StoredCases :
    /\ c.advice.counter.shown <=> c.answer.upper - c.answer.lower >= 20
    /\ c.advice.counter.shown =>
         /\ Boldness(c.advice.counter.atLower) <= Boldness(c.advice.kind)
         /\ Boldness(c.advice.kind) <= Boldness(c.advice.counter.atUpper)

\* A case never gets bolder advice than it would have with fewer motions, however
\* many they are: also where the sum of months wraps.
\* (litigation_cost.rs, graphql_predict.rs 1060-1070)
DearerNeverBolder ==
  \A c \in StoredCases, i \in Inputs :
    i.jurisdiction = c.input.jurisdiction /\ i.motions <= c.input.motions
    => Boldness(c.advice.kind) <= Boldness(AdviceOn(i, c.answer).kind)

\* With the placeholder damages no answer of the model, however certain, makes
\* the gateway advise to try a federal case: base cost and anchor together
\* exceed the damages.  (graphql_predict.rs 1046, settle.rs, litigation_cost.rs)
FederalNeverTried ==
  \A c \in StoredCases : c.input.jurisdiction = "us-federal" => c.advice.kind # "Try"
=============================================================================

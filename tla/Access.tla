-------------------------------- MODULE Access --------------------------------
(***************************************************************************)
(* Operators and what they authenticate with: sessions (the JWT the login  *)
(* and the SSO callback mint) and personal access tokens.  Source:         *)
(* python/admin/operators (views, oidc_views, jwt_helpers, models,         *)
(* pat_models, mint_pat, admin).                                           *)
(*                                                                         *)
(* A session is its claims: nothing on the server remembers it, so logout, *)
(* which clears a cookie, changes no state here.  Passwords and the reset  *)
(* of one are left out: LoginCheck stands for a check that succeeded.      *)
(* A login looks at the operator's row and at the clock one after the      *)
(* other; nothing in the code limits the time between, the model does.     *)
(***************************************************************************)
EXTENDS Integers, FiniteSets

CONSTANTS
  Operators, Tenants,
  NoTenant,      \* tenant_id is NULL
  Pats,          \* personal access tokens that may be minted
  NoOperator,    \* a token not minted, or gone with its operator
  Logins,        \* requests that log in
  SessionTTL,    \* JWT_TTL_HOURS
  Pause,         \* bound: how long a login stays between the row and the clock
  MaxTime,       \* bound: how long the clock runs
  MaxSessions    \* bound: no login begins when so many sessions are minted

Forever == MaxTime + 1     \* revoked_at is NULL
Never == -1

ASSUME AccessAssumption ==
  /\ NoTenant \notin Tenants /\ NoOperator \notin Operators
  /\ SessionTTL \in Nat /\ Pause \in Nat /\ MaxTime \in Nat /\ MaxSessions \in Nat

VARIABLES
  now,        \* the clock the services share
  operators,  \* operators_operator: [exists, active, super, tenant]
  logins,     \* what each login has so far: [pc, sub, tenant, read]
  sessions,   \* the JWTs minted: [sub, tenant, exp]
  pats,       \* personal_access_tokens: [sub, revoked]
  held        \* history: when each operator last was active in each tenant

accessVars == <<now, operators, logins, sessions, pats, held>>

NoLogin == [pc |-> "idle", sub |-> NoOperator, tenant |-> NoTenant, read |-> Never]
NoPat == [sub |-> NoOperator, revoked |-> Forever]

Active(o) == operators[o].exists /\ operators[o].active

\* History: an operator is active in a tenant now, or was when last seen so.
Remember ==
  held' = [o \in Operators |-> [t \in Tenants |->
             IF operators[o]'.exists /\ operators[o]'.active /\ operators[o]'.tenant = t
             THEN now' ELSE held[o][t]]]

AccessInit ==
  /\ now = 0
  /\ operators \in [Operators -> [exists : {TRUE}, active : {TRUE},
                                  super : {FALSE}, tenant : Tenants]]
  /\ logins = [l \in Logins |-> NoLogin]
  /\ sessions = {}
  /\ pats = [k \in Pats |-> NoPat]
  /\ held = [o \in Operators |-> [t \in Tenants |->
               IF operators[o].tenant = t THEN 0 ELSE Never]]

Tick ==
  /\ now < MaxTime
  /\ \A l \in Logins : logins[l].pc = "found" => now < logins[l].read + Pause
  /\ now' = now + 1
  /\ UNCHANGED <<operators, logins, sessions, pats>>
  /\ Remember

-----------------------------------------------------------------------------
(* The console *)

\* A superuser saves an operator's form.  A super operator has no tenant
\* (super_implies_null_tenant); another may be without one too.
EditOperator(o, active, super, tenant) ==
  /\ operators[o].exists
  /\ super => tenant = NoTenant
  /\ operators' = [operators EXCEPT ![o] =
       [exists |-> TRUE, active |-> active, super |-> super, tenant |-> tenant]]
  /\ UNCHANGED <<now, logins, sessions, pats>>
  /\ Remember

\* The tokens go with the operator (on_delete=CASCADE); sessions do not.
DeleteOperator(o) ==
  /\ operators[o].exists
  /\ operators' = [operators EXCEPT ![o].exists = FALSE]
  /\ pats' = [k \in Pats |-> IF pats[k].sub = o THEN NoPat ELSE pats[k]]
  /\ UNCHANGED <<now, logins, sessions, held>>

\* mint_pat does not ask whether the operator is active.  It sets no expires_at,
\* so the test of resolve_pat on it is left out.
MintPat(o, k) ==
  /\ operators[o].exists /\ ~operators[o].super
  /\ pats[k] = NoPat
  /\ pats' = [pats EXCEPT ![k] = [NoPat EXCEPT !.sub = o]]
  /\ UNCHANGED <<now, operators, logins, sessions, held>>

\* revoke: only the first call sets the time.
RevokePat(k) ==
  /\ pats[k].sub # NoOperator /\ pats[k].revoked = Forever
  /\ pats' = [pats EXCEPT ![k].revoked = now]
  /\ UNCHANGED <<now, operators, logins, sessions, held>>

-----------------------------------------------------------------------------
(* Logging in *)

Begin(l, o) == logins[l] = NoLogin /\ Active(o) /\ Cardinality(sessions) < MaxSessions

Checked(o) == [pc |-> "checked", sub |-> o, tenant |-> NoTenant, read |-> Never]

\* authenticate(): the password of an active operator is right.
LoginCheck(l, o) ==
  /\ Begin(l, o)
  /\ logins' = [logins EXCEPT ![l] = Checked(o)]
  /\ UNCHANGED <<now, operators, sessions, pats, held>>

\* The row as the SELECT returns it.
Found(o) == [pc |-> "found", sub |-> o, tenant |-> operators[o].tenant, read |-> now]

\* Variant: the row is read again without a second look at is_active.
LoginFindAnyway(l) ==
  LET o == logins[l].sub
  IN  /\ logins[l].pc = "checked"
      /\ logins' = [logins EXCEPT ![l] = IF operators[o].exists THEN Found(o) ELSE NoLogin]
      /\ UNCHANGED <<now, operators, sessions, pats, held>>

\* login reads the row again, by the same identifier, which is taken to name the
\* same operator still, and goes on with one still active.
LoginFind(l) ==
  LET o == logins[l].sub
  IN  /\ logins[l].pc = "checked"
      /\ logins' = [logins EXCEPT ![l] = IF Active(o) THEN Found(o) ELSE NoLogin]
      /\ UNCHANGED <<now, operators, sessions, pats, held>>

\* sso_callback: the provider vouches for the address of an active operator.
SsoFind(l, o) ==
  /\ Begin(l, o)
  /\ logins' = [logins EXCEPT ![l] = Found(o)]
  /\ UNCHANGED <<now, operators, sessions, pats, held>>

\* mint_session_jwt: the claims are those of the row read, the expiry is counted
\* from the clock now.
Mint(l) ==
  LET f == logins[l]
  IN  /\ f.pc = "found"
      /\ sessions' = sessions \union {[sub |-> f.sub, tenant |-> f.tenant,
                                       exp |-> now + SessionTTL]}
      /\ logins' = [logins EXCEPT ![l] = NoLogin]
      /\ UNCHANGED <<now, operators, pats, held>>

Login(l) == LoginFind(l) \/ Mint(l) \/ \E o \in Operators : LoginCheck(l, o) \/ SsoFind(l, o)

Console ==
  \/ \E o \in Operators :
       \/ \E active, super \in BOOLEAN, tenant \in Tenants \union {NoTenant} :
            EditOperator(o, active, super, tenant)
       \/ DeleteOperator(o)
       \/ \E k \in Pats : MintPat(o, k)
  \/ \E k \in Pats : RevokePat(k)
=============================================================================

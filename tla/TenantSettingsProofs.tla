------------------------ MODULE TenantSettingsProofs ------------------------
(***************************************************************************)
(* Theorems about TenantSettings, for every tenant configuration, cache    *)
(* lifetime and number of calls.                                           *)
(***************************************************************************)
EXTENDS TenantSettings, FiniteSetTheorems, TLAPS

LEMMA WindowType == Window \in Nat /\ TTL - 1 + MaxFlight = Window
BY SettingsAssumption DEF Window

LEMMA DiffCount ==
  ASSUME NEW x, NEW y
  PROVE  Cardinality(Diff(x, y)) \in Nat
<1>1. IsFiniteSet(Features) BY SettingsAssumption
<1>2. Diff(x, y) \subseteq Features BY DEF Diff
<1> QED BY <1>1, <1>2, FS_Subset, FS_CardinalityType

LEMMA InitType == Init => TypeOK
<1> SUFFICES ASSUME Init PROVE TypeOK OBVIOUS
<1>0. /\ \A p \in Procs : pc[p] = "idle"
      /\ \A p \in Calls : job[p] = "none"
  BY DEF Init
<1>1. /\ pc \in [Procs -> {"idle", "lookup", "select", "fill", "commit", "invalidate",
                           "audit", "save"}]
      /\ job \in [Calls -> {"none", "respond", "count", "diff"}]
  BY DEF Init
<1>2. Places
  BY <1>0 DEF Places, Calls, Procs
<1>3. stored \in Overrides /\ cache \in [value : Overrides, age : 0..TTL]
  BY SettingsAssumption DEF Init
<1>4. val \in [Procs -> Overrides] /\ want \in [Writers -> Overrides]
  BY SettingsAssumption DEF Init
<1>5. age \in [Calls -> 0..MaxFlight] /\ writes \in 0..MaxWrites /\ owed \in Int
  BY SettingsAssumption DEF Init
<1>6. asked \in [Readers -> Requests \union {<<>>}] /\ released \in [Readers -> SUBSET Features]
  BY DEF Init
<1>7. /\ logged \in [Updaters -> SUBSET Features]
      /\ result \in [Updaters -> {"none", "ok", "err"}]
  BY DEF Init
<1>8. /\ recent \in [0..Window -> SUBSET Overrides]
      /\ ever \in SUBSET Overrides /\ audited \in SUBSET Overrides
  BY SettingsAssumption DEF Init
<1>9. unsettled \in BOOLEAN
  BY DEF Init
<1> QED BY ONLY <1>1, <1>2, <1>3, <1>4, <1>5, <1>6, <1>7, <1>8, <1>9 DEF TypeOK

-----------------------------------------------------------------------------
(* Type correctness, in two halves: the locals of the calls and the rest *)

LocalsOK ==
  /\ pc \in [Procs -> {"idle", "lookup", "select", "fill", "commit", "invalidate",
                       "audit", "save"}]
  /\ job \in [Calls -> {"none", "respond", "count", "diff"}]
  /\ Places
  /\ val \in [Procs -> Overrides]
  /\ age \in [Calls -> 0..MaxFlight]
  /\ asked \in [Readers -> Requests \union {<<>>}]
  /\ want \in [Writers -> Overrides]
  /\ logged \in [Updaters -> SUBSET Features]

RestOK ==
  /\ stored \in Overrides
  /\ cache \in [value : Overrides, age : 0..TTL]
  /\ released \in [Readers -> SUBSET Features]
  /\ result \in [Updaters -> {"none", "ok", "err"}]
  /\ writes \in 0..MaxWrites
  /\ recent \in [0..Window -> SUBSET Overrides]
  /\ ever \in SUBSET Overrides
  /\ audited \in SUBSET Overrides
  /\ owed \in Int
  /\ unsettled \in BOOLEAN

LEMMA TypeParts == (TypeOK <=> LocalsOK /\ RestOK) /\ (TypeOK <=> LocalsOK /\ RestOK)'
<1>1. TypeOK <=> LocalsOK /\ RestOK
  BY Zenon DEF TypeOK, LocalsOK, RestOK
<1>2. (TypeOK <=> LocalsOK /\ RestOK)'
  BY Zenon DEF TypeOK, LocalsOK, RestOK
<1> QED BY <1>1, <1>2

\* A change of pc and job that keeps every call where its kind may be.
LEMMA EndLocals ==
  ASSUME LocalsOK, NEW p \in Procs, End(p)
  PROVE  LocalsOK'
<1> USE SettingsAssumption DEF LocalsOK, End
<1>1. pc' \in [Procs -> {"idle", "lookup", "select", "fill", "commit", "invalidate",
                         "audit", "save"}]
  OBVIOUS
<1>2. job' \in [Calls -> {"none", "respond", "count", "diff"}]
  OBVIOUS
<1>3. Places'
  BY DEF Places, Calls, Procs
<1>4. val' \in [Procs -> Overrides] /\ want' \in [Writers -> Overrides]
  OBVIOUS
<1>5. age' \in [Calls -> 0..MaxFlight]
  OBVIOUS
<1>6. /\ asked' \in [Readers -> Requests \union {<<>>}]
      /\ logged' \in [Updaters -> SUBSET Features]
  OBVIOUS
<1> QED BY ONLY <1>1, <1>2, <1>3, <1>4, <1>5, <1>6 DEF LocalsOK

LEMMA ReleasedFeatures ==
  ASSUME NEW rows \in Requests \union {<<>>}, NEW v
  PROVE  Released(rows, v) \subseteq Features
BY SettingsAssumption DEF Released

LEMMA UseLocals ==
  ASSUME LocalsOK, RestOK, NEW p \in Calls, NEW v \in Overrides, Use(p, v)
  PROVE  LocalsOK' /\ released' \in [Readers -> SUBSET Features]
<1>1. CASE /\ job[p] = "respond"
           /\ released' = [released EXCEPT ![p] = Released(asked[p], v)]
           /\ End(p)
  <2>1. p \in Readers
    BY <1>1 DEF LocalsOK, Places, Calls
  <2>2. Released(asked[p], v) \subseteq Features
    BY <2>1, ReleasedFeatures DEF LocalsOK
  <2>3. released' \in [Readers -> SUBSET Features]
    BY <1>1, <2>2 DEF RestOK
  <2> QED BY <1>1, <2>3, EndLocals DEF Procs
<1>2. CASE /\ job[p] = "count"
           /\ job' = [job EXCEPT ![p] = "diff"]
           /\ pc' = [pc EXCEPT ![p] = "lookup"]
           /\ age' = [age EXCEPT ![p] = 0]
           /\ val' = [val EXCEPT ![p] = NoOverrides]
           /\ UNCHANGED <<asked, want, logged, released>>
  <2>1. p \in Updaters
    BY <1>2 DEF LocalsOK, Places, Calls
  <2>2. Places'
    BY <1>2, <2>1, SettingsAssumption DEF LocalsOK, Places, Calls, Procs
  <2> QED BY <1>2, <2>2, SettingsAssumption DEF LocalsOK, RestOK, Procs
<1>3. CASE /\ job[p] = "diff"
           /\ pc' = [pc EXCEPT ![p] = "commit"]
           /\ age' = [age EXCEPT ![p] = 0]
           /\ val' = [val EXCEPT ![p] = v]
           /\ UNCHANGED <<job, asked, want, logged, released>>
  <2>1. p \in Updaters
    BY <1>3 DEF LocalsOK, Places, Calls
  <2>2. Places'
    BY <1>3, <2>1, SettingsAssumption DEF LocalsOK, Places, Calls, Procs
  <2> QED BY <1>3, <2>2, SettingsAssumption DEF LocalsOK, RestOK, Procs
<1> QED BY <1>1, <1>2, <1>3 DEF Use

LEMMA StoreRest ==
  ASSUME RestOK, NEW v \in Overrides, Store(v)
  PROVE  /\ stored' \in Overrides
         /\ recent' \in [0..Window -> SUBSET Overrides]
         /\ ever' \in SUBSET Overrides
         /\ unsettled' \in BOOLEAN
BY WindowType DEF RestOK, Store

LEMMA TypeStep == TypeOK /\ [Next]_vars => TypeOK'
<1> SUFFICES ASSUME LocalsOK, RestOK, [Next]_vars
             PROVE  LocalsOK' /\ RestOK'
  BY TypeParts
<1> USE SettingsAssumption DEF dataVars, auditVars
<1>1. ASSUME NEW p \in Calls, Hit(p) PROVE LocalsOK' /\ RestOK'
  <2>1. cache.value \in Overrides
    BY DEF RestOK
  <2> QED BY <1>1, <2>1, UseLocals DEF Hit, RestOK
<1>2. ASSUME NEW p \in Calls, Miss(p) PROVE LocalsOK' /\ RestOK'
  <2>1. Places'
    BY <1>2 DEF Miss, LocalsOK, Places, Calls, Procs
  <2>2. LocalsOK'
    BY <1>2, <2>1 DEF Miss, LocalsOK
  <2> QED BY <1>2, <2>2 DEF Miss, RestOK
<1>3. ASSUME NEW p \in Calls, Select(p) PROVE LocalsOK' /\ RestOK'
  <2>1. Places'
    BY <1>3 DEF Select, LocalsOK, Places, Calls, Procs
  <2>2. LocalsOK'
    BY <1>3, <2>1 DEF Select, LocalsOK, RestOK
  <2> QED BY <1>3, <2>2 DEF Select, RestOK
<1>4. ASSUME NEW p \in Calls, Fill(p) PROVE LocalsOK' /\ RestOK'
  <2>1. val[p] \in Overrides
    BY DEF LocalsOK, Procs
  <2>2. cache' \in [value : Overrides, age : 0..TTL]
    BY <1>4, <2>1 DEF Fill
  <2> QED BY <1>4, <2>1, <2>2, UseLocals DEF Fill, RestOK
<1>5. ASSUME NEW p \in Procs, GiveUp(p)
      PROVE  LocalsOK' /\ result' \in [Updaters -> {"none", "ok", "err"}]
  BY <1>5, EndLocals DEF GiveUp, RestOK
<1>6. ASSUME NEW p \in Calls, LoadFails(p) PROVE LocalsOK' /\ RestOK'
  BY <1>6, <1>5 DEF LoadFails, GiveUp, RestOK, Procs
<1>7. ASSUME NEW r \in Readers, NEW rows \in Requests, Request(r, rows)
      PROVE  LocalsOK' /\ RestOK'
  <2>1. Places'
    BY <1>7 DEF Request, LocalsOK, Places, Calls, Procs
  <2>2. LocalsOK'
    BY <1>7, <2>1 DEF Request, LocalsOK
  <2> QED BY <1>7, <2>2 DEF Request, RestOK
<1>8. ASSUME NEW u \in Updaters, NEW v \in Overrides, NEW purpose \in {"count", "diff"},
             Submit(u, v, purpose)
      PROVE  LocalsOK' /\ RestOK'
  <2>1. Places'
    BY <1>8 DEF Submit, LocalsOK, Places, Calls, Procs
  <2>2. LocalsOK'
    BY <1>8, <2>1 DEF Submit, LocalsOK, Writers
  <2>3. writes' \in 0..MaxWrites
    BY <1>8 DEF Submit, RestOK
  <2>4. result' \in [Updaters -> {"none", "ok", "err"}]
    BY <1>8 DEF Submit, RestOK
  <2> QED BY <1>8, <2>2, <2>3, <2>4 DEF Submit, RestOK
<1>9. ASSUME NEW u \in Updaters, Commit(u) PROVE LocalsOK' /\ RestOK'
  <2>1. want[u] \in Overrides
    BY DEF LocalsOK, Writers
  <2>2. Places'
    BY <1>9 DEF Commit, LocalsOK, Places, Calls, Procs
  <2>3. LocalsOK'
    BY <1>9, <2>2 DEF Commit, LocalsOK
  <2>4. owed' \in Int
    BY <1>9, DiffCount DEF Commit, RestOK
  <2> QED BY <1>9, <2>1, <2>3, <2>4, StoreRest DEF Commit, RestOK
<1>10. ASSUME NEW u \in Updaters, CommitUnacknowledged(u) PROVE LocalsOK' /\ RestOK'
  <2>1. want[u] \in Overrides
    BY DEF LocalsOK, Writers
  <2>2. owed' \in Int
    BY <1>10, DiffCount DEF CommitUnacknowledged, RestOK
  <2>3. GiveUp(u) /\ u \in Procs
    BY <1>10 DEF CommitUnacknowledged, Procs, Calls
  <2> QED BY <1>10, <1>5, <2>1, <2>2, <2>3, StoreRest DEF CommitUnacknowledged, GiveUp, RestOK
<1>11. ASSUME NEW u \in Updaters, CommitFails(u) PROVE LocalsOK' /\ RestOK'
  BY <1>11, <1>5 DEF CommitFails, GiveUp, RestOK, Procs, Calls
<1>12. ASSUME NEW u \in Updaters, Invalidate(u) PROVE LocalsOK' /\ RestOK'
  <2>1. Places'
    BY <1>12 DEF Invalidate, LocalsOK, Places, Calls, Procs
  <2>2. LocalsOK'
    BY <1>12, <2>1 DEF Invalidate, LocalsOK
  <2>3. cache' \in [value : Overrides, age : 0..TTL]
    BY <1>12 DEF Invalidate, RestOK
  <2>4. unsettled' \in BOOLEAN
    BY <1>12 DEF Invalidate
  <2> QED BY <1>12, <2>2, <2>3, <2>4 DEF Invalidate, RestOK
<1>13. ASSUME NEW u \in Updaters, NEW f \in Features, Audit(u, f)
       PROVE  LocalsOK' /\ RestOK'
  <2>1. want[u] \in Overrides
    BY DEF LocalsOK, Writers
  <2>2. Places'
    BY <1>13 DEF Audit, LocalsOK, Places
  <2>3. LocalsOK'
    BY <1>13, <2>2 DEF Audit, Record, LocalsOK
  <2> QED BY <1>13, <2>1, <2>3 DEF Audit, Record, RestOK
<1>14. ASSUME NEW u \in Updaters, NEW f \in Features, AuditFails(u, f)
       PROVE  LocalsOK' /\ RestOK'
  <2>1. want[u] \in Overrides
    BY DEF LocalsOK, Writers
  <2>2. GiveUp(u) /\ u \in Procs
    BY <1>14 DEF AuditFails, Procs, Calls
  <2>3. owed' \in Int /\ audited' \in SUBSET Overrides
    BY <1>14, <2>1 DEF AuditFails, RestOK
  <2> QED BY <1>14, <1>5, <2>2, <2>3 DEF AuditFails, GiveUp, RestOK
<1>15. ASSUME NEW u \in Updaters, Return(u) PROVE LocalsOK' /\ RestOK'
  <2>1. u \in Procs
    BY DEF Procs, Calls
  <2>2. result' \in [Updaters -> {"none", "ok", "err"}]
    BY <1>15 DEF Return, RestOK
  <2> QED BY <1>15, <2>1, <2>2, EndLocals DEF Return, RestOK
<1>16. ASSUME NEW a \in Admins, NEW v \in Overrides, AdminLoad(a, v)
       PROVE  LocalsOK' /\ RestOK'
  <2>1. Places'
    BY <1>16 DEF AdminLoad, LocalsOK, Places, Calls, Procs
  <2>2. LocalsOK'
    BY <1>16, <2>1 DEF AdminLoad, LocalsOK, RestOK, Writers
  <2>3. writes' \in 0..MaxWrites
    BY <1>16 DEF AdminLoad, RestOK
  <2> QED BY <1>16, <2>2, <2>3 DEF AdminLoad, RestOK
<1>17. ASSUME NEW a \in Admins, AdminSave(a) PROVE LocalsOK' /\ RestOK'
  <2>1. want[a] \in Overrides /\ a \in Procs
    BY DEF LocalsOK, Writers, Procs
  <2>2. owed' \in Int
    BY <1>17, DiffCount DEF AdminSave, RestOK
  <2>3. audited' \in SUBSET Overrides
    BY <1>17, <2>1 DEF AdminSave, RestOK
  <2> QED BY <1>17, <2>1, <2>2, <2>3, EndLocals, StoreRest DEF AdminSave, RestOK
<1>18. ASSUME NEW a \in Admins, AdminRollback(a) PROVE LocalsOK' /\ RestOK'
  BY <1>18, EndLocals DEF AdminRollback, RestOK, Procs
<1>19. CASE Restart
  <2>1. Places'
    BY <1>19 DEF Restart, LocalsOK, Places, Calls, Procs
  <2>2. LocalsOK'
    BY <1>19, <2>1 DEF Restart, LocalsOK, Calls, Procs
  <2>3. cache' \in [value : Overrides, age : 0..TTL]
    BY <1>19 DEF Restart, RestOK
  <2>4. result' \in [Updaters -> {"none", "ok", "err"}]
    BY <1>19 DEF Restart, RestOK
  <2> QED BY <1>19, <2>2, <2>3, <2>4 DEF Restart, RestOK
<1>20. CASE Tick
  <2>1. Places'
    BY <1>20 DEF Tick, LocalsOK, Places
  <2>2. age' \in [Calls -> 0..MaxFlight]
    BY <1>20 DEF Tick, LocalsOK
  <2>3. LocalsOK'
    BY <1>20, <2>1, <2>2 DEF Tick, LocalsOK
  <2>4. cache' \in [value : Overrides, age : 0..TTL]
    BY <1>20 DEF Tick, RestOK
  <2>5. recent' \in [0..Window -> SUBSET Overrides]
    BY <1>20, WindowType DEF Tick, RestOK
  <2> QED BY <1>20, <2>3, <2>4, <2>5 DEF Tick, RestOK
<1>21. CASE UNCHANGED vars
  <2>1. Places'
    BY <1>21 DEF vars, callVars, LocalsOK, Places
  <2> QED BY <1>21, <2>1 DEF vars, callVars, LocalsOK, RestOK
<1> QED
  BY <1>1, <1>2, <1>3, <1>4, <1>6, <1>7, <1>8, <1>9, <1>10, <1>11, <1>12, <1>13, <1>14,
     <1>15, <1>16, <1>17, <1>18, <1>19, <1>20, <1>21
     DEF Next, Load, Save, LoadGoesOn, SaveGoesOn, AdminStep

\* TypeOK holds in every reachable state of TenantSettings.
THEOREM TypeCorrect == Spec => []TypeOK
<1>1. Init => TypeOK
  BY InitType
<1> QED BY <1>1, TypeStep, PTL DEF Spec, Safe

-----------------------------------------------------------------------------
(* Auditing *)

LEMMA AccountedInit == Init => Accounted
BY DEF Init, Accounted, AuditOnlyStored, Committed, LoggedChanged, Procs, Calls

\* Ending a call resets its locals and touches no other call.
LEMMA EndAccounted ==
  ASSUME TypeOK, Accounted, NEW p \in Procs, End(p), ever \subseteq ever'
  PROVE  Committed' /\ LoggedChanged'
<1> USE DEF TypeOK, Accounted, Committed, LoggedChanged, End, Procs, Calls, Writers
<1>1. Committed'
  OBVIOUS
<1>2. ASSUME NEW u \in Updaters, u = p
      PROVE  pc'[u] = "idle" /\ logged'[u] = {}
  BY <1>2
<1>3. ASSUME NEW u \in Updaters, u # p
      PROVE  /\ pc'[u] = pc[u] /\ logged'[u] = logged[u]
             /\ val'[u] = val[u] /\ want'[u] = want[u]
  BY <1>3
<1>4. LoggedChanged'
  BY <1>2, <1>3 DEF Diff
<1> QED BY <1>1, <1>4

LEMMA UseAccounted ==
  ASSUME TypeOK, Accounted, NEW p \in Calls, NEW v, Use(p, v), pc[p] \in {"lookup", "fill"},
         UNCHANGED <<ever, audited>>
  PROVE  Accounted'
<1>1. CASE End(p)
  BY <1>1, EndAccounted DEF Accounted, AuditOnlyStored, Procs
<1>2. CASE /\ \E l \in {"lookup", "commit"} : pc' = [pc EXCEPT ![p] = l]
           /\ UNCHANGED <<want, logged>>
           /\ \A q \in Procs : q # p => val'[q] = val[q]
  <2>1. Committed'
    BY <1>2 DEF TypeOK, Accounted, Committed, Procs, Calls
  <2>2. LoggedChanged'
    BY <1>2 DEF TypeOK, Accounted, LoggedChanged, Diff, Procs, Calls
  <2> QED BY <2>1, <2>2 DEF Accounted, AuditOnlyStored
<1> QED BY <1>1, <1>2 DEF Use, TypeOK

LEMMA AccountedStep == TypeOK /\ Accounted /\ [Next]_vars => Accounted'
<1> SUFFICES ASSUME TypeOK, Accounted, [Next]_vars PROVE Accounted'
  OBVIOUS
<1> USE DEF dataVars, auditVars
<1>1. ASSUME NEW p \in Calls, Hit(p) PROVE Accounted'
  BY <1>1, UseAccounted DEF Hit
<1>2. ASSUME NEW p \in Calls, Fill(p) PROVE Accounted'
  BY <1>2, UseAccounted DEF Fill
\* Steps of the fill, of a reader and of an admin that change no audit state.
<1>3. ASSUME NEW p \in Procs, pc[p] \notin {"invalidate", "audit"},
             NEW l \in {"lookup", "select", "fill", "save"}, pc' = [pc EXCEPT ![p] = l],
             \A q \in Procs : q # p => val'[q] = val[q],
             \A w \in Writers : w # p => want'[w] = want[w],
             \A u \in Updaters : u # p => logged'[u] = logged[u],
             \A u \in Updaters : u = p => logged'[u] = {},
             UNCHANGED <<ever, audited>>
      PROVE  Accounted'
  <2>1. Committed'
    BY <1>3 DEF TypeOK, Accounted, Committed, Procs, Calls, Writers
  <2>2. ASSUME NEW u \in Updaters, u # p, pc'[u] = "audit"
        PROVE  logged'[u] \subseteq Diff(val'[u], want'[u])
    BY <1>3, <2>2 DEF TypeOK, Accounted, LoggedChanged, Procs, Calls, Writers
  <2>3. ASSUME NEW u \in Updaters, u # p, pc'[u] # "audit"
        PROVE  logged'[u] = {}
    BY <1>3, <2>3 DEF TypeOK, Accounted, LoggedChanged, Procs, Calls, Writers
  <2>4. ASSUME NEW u \in Updaters, u = p
        PROVE  pc'[u] # "audit" /\ logged'[u] = {}
    BY <1>3, <2>4 DEF TypeOK
  <2>5. LoggedChanged'
    BY <2>2, <2>3, <2>4 DEF LoggedChanged, Diff
  <2> QED BY <1>3, <2>1, <2>5 DEF Accounted, AuditOnlyStored
<1>4. ASSUME NEW p \in Calls, Miss(p) \/ Select(p) PROVE Accounted'
  <2>1. p \in Procs /\ pc[p] \in {"lookup", "select"}
    BY <1>4 DEF Miss, Select, Procs
  <2>2. \A u \in Updaters : u = p => logged'[u] = {}
    BY <1>4, <2>1 DEF Miss, Select, Accounted, LoggedChanged
  <2>3. \A q \in Procs : q # p => val'[q] = val[q]
    BY <1>4 DEF Miss, Select, TypeOK
  <2> QED BY <1>4, <1>3, <2>1, <2>2, <2>3 DEF Miss, Select
<1>5. ASSUME NEW r \in Readers, NEW rows \in Requests, Request(r, rows) PROVE Accounted'
  BY <1>5, <1>3, SettingsAssumption DEF Request, TypeOK, Procs, Calls
<1>6. ASSUME NEW u \in Updaters, NEW v \in Overrides, NEW purpose \in {"count", "diff"},
             Submit(u, v, purpose)
      PROVE  Accounted'
  BY <1>6, <1>3 DEF Submit, TypeOK, Procs, Calls
<1>7. ASSUME NEW a \in Admins, NEW v \in Overrides, AdminLoad(a, v) PROVE Accounted'
  <2>1. a \in Procs /\ \A u \in Updaters : u # a
    BY SettingsAssumption DEF Procs
  <2>2. \A q \in Procs : q # a => val'[q] = val[q]
    BY <1>7 DEF AdminLoad, TypeOK
  <2>3. \A w \in Writers : w # a => want'[w] = want[w]
    BY <1>7 DEF AdminLoad, TypeOK
  <2> QED BY <1>7, <1>3, <2>1, <2>2, <2>3 DEF AdminLoad
\* Steps that end a call.
<1>8. ASSUME NEW p \in Procs, End(p), ever \subseteq ever', audited' \subseteq ever'
      PROVE  Accounted'
  BY <1>8, EndAccounted DEF Accounted, AuditOnlyStored
<1>9. ASSUME NEW p \in Calls, LoadFails(p) PROVE Accounted'
  BY <1>9, <1>8 DEF LoadFails, GiveUp, Procs, Accounted, AuditOnlyStored
<1>10. ASSUME NEW u \in Updaters, CommitUnacknowledged(u) \/ CommitFails(u) PROVE Accounted'
  BY <1>10, <1>8
     DEF CommitUnacknowledged, CommitFails, Store, GiveUp, Procs, Calls, Accounted, AuditOnlyStored
<1>11. ASSUME NEW u \in Updaters, NEW f \in Features, AuditFails(u, f) PROVE Accounted'
  BY <1>11, <1>8
     DEF AuditFails, GiveUp, Procs, Calls, Accounted, AuditOnlyStored, Committed
<1>12. ASSUME NEW u \in Updaters, Return(u) PROVE Accounted'
  BY <1>12, <1>8 DEF Return, Procs, Calls, Accounted, AuditOnlyStored
<1>13. ASSUME NEW a \in Admins, AdminSave(a) PROVE Accounted'
  BY <1>13, <1>8 DEF AdminSave, Store, Procs, Accounted, AuditOnlyStored
<1>14. ASSUME NEW a \in Admins, AdminRollback(a) PROVE Accounted'
  BY <1>14, <1>8 DEF AdminRollback, Procs, Accounted, AuditOnlyStored
\* Steps along the update path.
<1>15. ASSUME NEW u \in Updaters, Commit(u) PROVE Accounted'
  <2>1. Committed'
    BY <1>15 DEF Commit, Store, TypeOK, Accounted, Committed, Procs, Calls
  <2>2. LoggedChanged'
    BY <1>15 DEF Commit, TypeOK, Accounted, LoggedChanged, Diff, Procs, Calls
  <2> QED BY <1>15, <2>1, <2>2 DEF Commit, Store, Accounted, AuditOnlyStored
<1>16. ASSUME NEW u \in Updaters, Invalidate(u) PROVE Accounted'
  <2>1. Committed'
    BY <1>16 DEF Invalidate, TypeOK, Accounted, Committed, Procs, Calls
  <2>2. LoggedChanged'
    BY <1>16 DEF Invalidate, TypeOK, Accounted, LoggedChanged, Diff, Procs, Calls
  <2> QED BY <1>16, <2>1, <2>2 DEF Invalidate, Accounted, AuditOnlyStored
<1>17. ASSUME NEW u \in Updaters, NEW f \in Features, Audit(u, f) PROVE Accounted'
  <2>1. Committed' /\ want[u] \in ever
    BY <1>17 DEF Audit, Accounted, Committed
  <2>2. LoggedChanged'
    BY <1>17 DEF Audit, Record, ToLog, TypeOK, Accounted, LoggedChanged, Diff
  <2> QED BY <1>17, <2>1, <2>2 DEF Audit, Record, Accounted, AuditOnlyStored
\* Steps of the environment.
<1>18. CASE Restart
  <2>1. \A u \in Updaters : pc'[u] = "idle" /\ logged'[u] = {}
    BY <1>18 DEF Restart, Procs, Calls
  <2>2. audited' \subseteq ever'
    BY <1>18 DEF Restart, Accounted, AuditOnlyStored
  <2> QED BY <2>1, <2>2 DEF Accounted, Committed, LoggedChanged, AuditOnlyStored
<1>19. CASE Tick
  BY <1>19 DEF Tick, Accounted, AuditOnlyStored, Committed, LoggedChanged, Diff
<1>20. CASE UNCHANGED vars
  BY <1>20 DEF vars, callVars, Accounted, AuditOnlyStored, Committed, LoggedChanged, Diff
<1> QED
  BY <1>1, <1>2, <1>4, <1>5, <1>6, <1>7, <1>9, <1>10, <1>11, <1>12, <1>13, <1>14, <1>15,
     <1>16, <1>17, <1>18, <1>19, <1>20
     DEF Next, Load, Save, LoadGoesOn, SaveGoesOn, AdminStep

\* The audit log never fingerprints a value that was not stored.
THEOREM AuditSound == Spec => []AuditOnlyStored
<1>1. Accounted => AuditOnlyStored
  BY DEF Accounted
<1> QED BY <1>1, AccountedInit, AccountedStep, TypeCorrect, PTL DEF Spec, Safe

\* Only Return answers "ok", and it does so when nothing is left to log.
LEMMA OkStep ==
  TypeOK /\ Accounted /\ [Next]_vars
    => \A u \in Updaters : result[u] # "ok" /\ result'[u] = "ok"
                           => logged[u] = Diff(val[u], want[u])
<1> SUFFICES ASSUME TypeOK, Accounted, [Next]_vars, NEW u \in Updaters,
                    result[u] # "ok", result'[u] = "ok"
             PROVE  logged[u] = Diff(val[u], want[u])
  OBVIOUS
<1>1. ASSUME NEW p \in Procs, GiveUp(p) PROVE FALSE
  BY <1>1 DEF GiveUp, TypeOK
<1>2. ASSUME NEW w \in Updaters, Return(w) PROVE logged[u] = Diff(val[u], want[u])
  <2>1. w = u
    BY <1>2 DEF Return, TypeOK
  <2>2. logged[u] \subseteq Diff(val[u], want[u])
    BY <1>2, <2>1 DEF Return, Accounted, LoggedChanged
  <2> QED BY <1>2, <2>1, <2>2 DEF Return, ToLog
<1>3. ASSUME result' = result PROVE FALSE
  BY <1>3
<1>4. CASE Restart
  BY <1>4 DEF Restart, TypeOK
<1>5. ASSUME NEW w \in Updaters, NEW v \in Overrides, NEW purpose \in {"count", "diff"},
             Submit(w, v, purpose)
      PROVE  FALSE
  BY <1>5 DEF Submit, TypeOK
<1>6. ASSUME NEW p \in Calls, Load(p) PROVE FALSE
  BY <1>6, <1>1, <1>3 DEF Load, LoadGoesOn, Hit, Miss, Select, Fill, LoadFails, Procs
<1>7. ASSUME NEW w \in Updaters, Save(w) PROVE logged[u] = Diff(val[u], want[u])
  BY <1>7, <1>1, <1>2, <1>3
     DEF Save, SaveGoesOn, Commit, CommitUnacknowledged, CommitFails, Invalidate, Audit, AuditFails,
         Procs, Calls
<1> QED
  BY <1>2, <1>3, <1>4, <1>5, <1>6, <1>7
     DEF Next, Request, AdminLoad, AdminStep, AdminSave, AdminRollback, Tick, vars, callVars

\* A save that reports success has written a row for each key it found changed.
THEOREM OkIsAudited == Spec => OkMeansAudited
BY AccountedInit, AccountedStep, OkStep, TypeCorrect, PTL DEF Spec, Safe, OkMeansAudited

-----------------------------------------------------------------------------
(* Freshness, and the refinement of OverridePolicy *)

LEMMA FreshInit == Init => Fresh
<1> SUFFICES ASSUME Init PROVE Fresh
  OBVIOUS
<1>1. stored \in recent[0]
  BY WindowType DEF Init
<1>2. FreshFills
  BY DEF Init, FreshFills, Procs
<1>3. FreshEntry
  BY SettingsAssumption DEF Init, FreshEntry, Live
<1> QED BY <1>1, <1>2, <1>3 DEF Fresh

\* Storing a value only adds to what was stored during this tick.
LEMMA StoreFresh ==
  ASSUME TypeOK, Fresh, NEW v \in Overrides, Store(v)
  PROVE  stored' \in recent'[0] /\ \A i \in 0..Window : recent[i] \subseteq recent'[i]
BY WindowType DEF TypeOK, Store

\* A step that keeps the entry and starts no fill keeps both fresh.
LEMMA KeptFresh ==
  ASSUME TypeOK, Fresh,
         \A i \in 0..Window : recent[i] \subseteq recent'[i],
         stored' \in recent'[0],
         cache' = cache \/ cache'.age = TTL,
         \A p \in Calls : pc'[p] = "fill" => pc[p] = "fill" /\ age'[p] = age[p] /\ val'[p] = val[p]
  PROVE  Fresh'
<1> USE SettingsAssumption, WindowType
<1>1. FreshFills'
  <2> SUFFICES ASSUME NEW p \in Calls, pc'[p] = "fill"
               PROVE  \E i \in 0..age'[p] : val'[p] \in recent'[i]
    BY DEF FreshFills
  <2>1. PICK i \in 0..age[p] : val[p] \in recent[i]
    BY DEF Fresh, FreshFills
  <2>2. i \in 0..Window
    BY DEF TypeOK
  <2> QED BY <2>1, <2>2
<1>2. FreshEntry'
  <2> SUFFICES ASSUME cache' = cache, cache.age < TTL
               PROVE  \E i \in 0..(cache'.age + MaxFlight) : cache'.value \in recent'[i]
    BY DEF FreshEntry, Live
  <2>1. PICK i \in 0..(cache.age + MaxFlight) : cache.value \in recent[i]
    BY DEF Fresh, FreshEntry, Live
  <2>2. i \in 0..Window
    BY DEF TypeOK
  <2> QED BY <2>1, <2>2
<1> QED BY <1>1, <1>2 DEF Fresh

\* The step that uses a loaded value ends the call or moves it out of the fill.
LEMMA UseLeavesFill ==
  ASSUME TypeOK, NEW p \in Calls, NEW v, Use(p, v)
  PROVE  \A q \in Calls : pc'[q] = "fill" => /\ pc[q] = "fill" /\ q # p
                                             /\ age'[q] = age[q] /\ val'[q] = val[q]
BY DEF Use, End, TypeOK, Procs

LEMMA EndLeavesFill ==
  ASSUME TypeOK, NEW p \in Procs, End(p)
  PROVE  \A q \in Calls : pc'[q] = "fill" => /\ pc[q] = "fill"
                                             /\ age'[q] = age[q] /\ val'[q] = val[q]
BY DEF End, TypeOK, Procs

LEMMA FreshStep == TypeOK /\ Fresh /\ [Next]_vars => Fresh'
<1> SUFFICES ASSUME TypeOK, Fresh, [Next]_vars PROVE Fresh'
  OBVIOUS
<1> USE SettingsAssumption, WindowType DEF dataVars
\* Steps that leave the database and the entry alone.
<1>1. ASSUME UNCHANGED <<stored, recent>>, cache' = cache \/ cache'.age = TTL,
             \A p \in Calls : pc'[p] = "fill" => /\ pc[p] = "fill" /\ age'[p] = age[p]
                                                 /\ val'[p] = val[p]
      PROVE  Fresh'
  BY <1>1, KeptFresh DEF Fresh
<1>2. ASSUME NEW p \in Calls, Hit(p) PROVE Fresh'
  BY <1>2, <1>1, UseLeavesFill DEF Hit
<1>3. ASSUME NEW p \in Calls, Miss(p) PROVE Fresh'
  BY <1>3, <1>1 DEF Miss, TypeOK
<1>4. ASSUME NEW p \in Calls, Select(p) PROVE Fresh'
  <2>1. stored \in recent[0] /\ val'[p] = stored /\ age'[p] \in Nat
    BY <1>4 DEF Select, Fresh, TypeOK, Procs
  <2>2. ASSUME NEW q \in Calls, pc'[q] = "fill"
        PROVE  \E i \in 0..age'[q] : val'[q] \in recent'[i]
    <3>1. CASE q = p
      BY <1>4, <2>1, <3>1 DEF Select
    <3>2. CASE q # p
      BY <1>4, <2>2, <3>2 DEF Select, Fresh, FreshFills, TypeOK, Procs
    <3> QED BY <3>1, <3>2
  <2>3. FreshEntry'
    BY <1>4 DEF Select, Fresh, FreshEntry, Live
  <2> QED BY <1>4, <2>1, <2>2, <2>3 DEF Select, Fresh, FreshFills
\* The entry takes over what the fill guaranteed of its value.
<1>5. ASSUME NEW p \in Calls, Fill(p) PROVE Fresh'
  <2>1. PICK i \in 0..age[p] : val[p] \in recent[i]
    BY <1>5 DEF Fill, Fresh, FreshFills
  <2>2. cache'.age = 0 /\ cache'.value = val[p] /\ age[p] <= MaxFlight
    BY <1>5 DEF Fill, TypeOK
  <2>3. FreshEntry'
    <3>1. i \in 0..(cache'.age + MaxFlight) /\ cache'.value \in recent'[i]
      BY <1>5, <2>1, <2>2 DEF Fill, TypeOK
    <3> QED BY <3>1 DEF FreshEntry
  <2>4. FreshFills'
    BY <1>5, UseLeavesFill DEF Fill, Fresh, FreshFills
  <2> QED BY <1>5, <2>3, <2>4 DEF Fill, Fresh
<1>6. ASSUME NEW p \in Procs, GiveUp(p), UNCHANGED <<stored, recent, cache>> PROVE Fresh'
  BY <1>6, <1>1, EndLeavesFill DEF GiveUp
<1>7. ASSUME NEW r \in Readers, NEW rows \in Requests, Request(r, rows) PROVE Fresh'
  BY <1>7, <1>1 DEF Request, TypeOK, Procs, Calls
<1>8. ASSUME NEW u \in Updaters, NEW v \in Overrides, NEW purpose \in {"count", "diff"},
             Submit(u, v, purpose)
      PROVE  Fresh'
  BY <1>8, <1>1 DEF Submit, TypeOK, Procs, Calls
\* Steps that store a value.
<1>9. ASSUME NEW v \in Overrides, Store(v), cache' = cache,
             \A p \in Calls : pc'[p] = "fill" => /\ pc[p] = "fill" /\ age'[p] = age[p]
                                                 /\ val'[p] = val[p]
      PROVE  Fresh'
  BY <1>9, StoreFresh, KeptFresh
<1>10. ASSUME NEW u \in Updaters, Commit(u) PROVE Fresh'
  <2>1. want[u] \in Overrides
    BY DEF TypeOK, Writers
  <2> QED BY <1>10, <1>9, <2>1 DEF Commit, TypeOK, Procs, Calls
<1>11. ASSUME NEW u \in Updaters, CommitUnacknowledged(u) PROVE Fresh'
  <2>1. want[u] \in Overrides /\ u \in Procs
    BY DEF TypeOK, Writers, Procs, Calls
  <2> QED BY <1>11, <1>9, <2>1, EndLeavesFill DEF CommitUnacknowledged, GiveUp
<1>12. ASSUME NEW a \in Admins, AdminSave(a) PROVE Fresh'
  <2>1. want[a] \in Overrides /\ a \in Procs
    BY DEF TypeOK, Writers, Procs
  <2> QED BY <1>12, <1>9, <2>1, EndLeavesFill DEF AdminSave
<1>13. ASSUME NEW u \in Updaters, Invalidate(u) PROVE Fresh'
  BY <1>13, <1>1 DEF Invalidate, TypeOK, Procs, Calls
<1>14. ASSUME NEW u \in Updaters, NEW f \in Features, Audit(u, f) \/ AuditFails(u, f)
       PROVE  Fresh'
  <2>1. CASE Audit(u, f)
    BY <2>1, <1>1 DEF Audit, Record
  <2>2. CASE AuditFails(u, f)
    BY <2>2, <1>6 DEF AuditFails, Procs, Calls
  <2> QED BY <1>14, <2>1, <2>2
<1>15. ASSUME NEW u \in Updaters, Return(u) PROVE Fresh'
  BY <1>15, <1>1, EndLeavesFill DEF Return, Procs, Calls
<1>16. ASSUME NEW a \in Admins, NEW v \in Overrides, AdminLoad(a, v) PROVE Fresh'
  <2>1. \A p \in Calls : p # a
    BY DEF Calls
  <2> QED BY <1>16, <1>1, <2>1 DEF AdminLoad, TypeOK, Procs
<1>17. ASSUME NEW a \in Admins, AdminRollback(a) PROVE Fresh'
  BY <1>17, <1>1, EndLeavesFill DEF AdminRollback, Procs
<1>18. CASE Restart
  BY <1>18, <1>1 DEF Restart, TypeOK, Procs
\* What was stored i ticks back was stored i + 1 ticks back after a tick.
<1>19. CASE Tick
  <2>1. \A i \in 0..Window : i < Window => recent'[i + 1] = recent[i]
    BY <1>19 DEF Tick
  <2>2. FreshFills'
    <3> SUFFICES ASSUME NEW p \in Calls, pc[p] = "fill"
                 PROVE  \E i \in 0..age'[p] : val'[p] \in recent'[i]
      BY <1>19 DEF Tick, FreshFills
    <3>1. PICK i \in 0..age[p] : val[p] \in recent[i]
      BY DEF Fresh, FreshFills
    <3>2. age[p] < MaxFlight /\ age'[p] = age[p] + 1 /\ age[p] \in Nat
      BY <1>19 DEF Tick, TypeOK
    <3>3. i + 1 \in 0..age'[p] /\ i < Window /\ i \in 0..Window
      BY <3>1, <3>2
    <3>4. val'[p] \in recent'[i + 1]
      BY <1>19, <2>1, <3>1, <3>3 DEF Tick
    <3> QED BY <3>3, <3>4
  <2>3. FreshEntry'
    <3> SUFFICES ASSUME cache'.age < TTL
                 PROVE  \E i \in 0..(cache'.age + MaxFlight) : cache'.value \in recent'[i]
      BY DEF FreshEntry, Live
    <3>1. cache.age < TTL /\ cache'.age = cache.age + 1 /\ cache'.value = cache.value
      BY <1>19 DEF Tick, TypeOK
    <3>2. PICK i \in 0..(cache.age + MaxFlight) : cache.value \in recent[i]
      BY <3>1 DEF Fresh, FreshEntry, Live
    <3>3. i + 1 \in 0..(cache'.age + MaxFlight) /\ i < Window /\ i \in 0..Window
      BY <3>1, <3>2 DEF TypeOK
    <3> QED BY <2>1, <3>1, <3>2, <3>3
  <2>4. stored' \in recent'[0]
    BY <1>19 DEF Tick
  <2> QED BY <2>2, <2>3, <2>4 DEF Fresh
<1>20. CASE UNCHANGED vars
  BY <1>20, <1>1 DEF vars, callVars
<1>21. ASSUME NEW u \in Updaters, CommitFails(u) PROVE Fresh'
  BY <1>21, <1>6 DEF CommitFails, Procs, Calls
<1>22. ASSUME NEW p \in Calls, LoadFails(p) PROVE Fresh'
  BY <1>22, <1>6 DEF LoadFails, Procs
<1> QED
  BY <1>2, <1>3, <1>4, <1>5, <1>7, <1>8, <1>10, <1>11, <1>12, <1>13, <1>14, <1>15, <1>16,
     <1>17, <1>18, <1>19, <1>20, <1>21, <1>22
     DEF Next, Load, Save, LoadGoesOn, SaveGoesOn, AdminStep

LEMMA PolicyInit == Init => Policy!Init
BY DEF Init, Policy!Init, NoOverrides, Policy!NoOverrides

\* A response filtered by a value stored within the window is a reply the
\* policy allows; released is untouched by any other use of a loaded value.
LEMMA UseIsReply ==
  ASSUME TypeOK, NEW p \in Calls, NEW v \in Overrides, Use(p, v),
         NEW i \in 0..Window, v \in recent[i], UNCHANGED <<stored, recent>>
  PROVE  [Policy!Next]_(Policy!policyVars)
<1>1. CASE UNCHANGED released
  BY <1>1 DEF Policy!policyVars
<1>2. CASE /\ job[p] = "respond"
           /\ released' = [released EXCEPT ![p] = Released(asked[p], v)]
  <2>1. p \in Readers
    BY <1>2 DEF TypeOK, Places, Calls
  <2>2. Released(asked[p], v) \in SUBSET Features
    BY <2>1, ReleasedFeatures DEF TypeOK
  <2>3. Released(asked[p], v) \cap Blocked(v) = {}
    BY DEF Released
  <2>4. v \in Policy!InForce
    BY DEF Policy!InForce
  <2>5. Policy!Reply(p, Released(asked[p], v))
    BY <1>2, <2>3, <2>4 DEF Policy!Reply, Blocked, Policy!Blocked
  <2> QED BY <2>1, <2>2, <2>5 DEF Policy!Next
<1> QED BY <1>1, <1>2 DEF Use

LEMMA PolicyStep == TypeOK /\ Fresh /\ [Next]_vars => [Policy!Next]_(Policy!policyVars)
<1> SUFFICES ASSUME TypeOK, Fresh, [Next]_vars
             PROVE  [Policy!Next]_(Policy!policyVars)
  OBVIOUS
<1> USE WindowType DEF dataVars
<1>1. ASSUME UNCHANGED <<stored, recent, released>>
      PROVE  [Policy!Next]_(Policy!policyVars)
  BY <1>1 DEF Policy!policyVars
<1>2. ASSUME NEW p \in Calls, Hit(p) PROVE [Policy!Next]_(Policy!policyVars)
  <2>1. PICK i \in 0..(cache.age + MaxFlight) : cache.value \in recent[i]
    BY <1>2 DEF Hit, Fresh, FreshEntry
  <2>2. i \in 0..Window /\ cache.value \in Overrides
    BY <1>2, SettingsAssumption DEF Hit, Live, TypeOK
  <2> QED BY <1>2, <2>1, <2>2, UseIsReply DEF Hit
<1>3. ASSUME NEW p \in Calls, Fill(p) PROVE [Policy!Next]_(Policy!policyVars)
  <2>1. PICK i \in 0..age[p] : val[p] \in recent[i]
    BY <1>3 DEF Fill, Fresh, FreshFills
  <2>2. i \in 0..Window /\ val[p] \in Overrides
    BY SettingsAssumption DEF TypeOK, Procs
  <2> QED BY <1>3, <2>1, <2>2, UseIsReply DEF Fill
<1>4. ASSUME NEW v \in Overrides, Store(v), UNCHANGED released
      PROVE  [Policy!Next]_(Policy!policyVars)
  BY <1>4 DEF Store, Policy!Next, Policy!Store
<1>5. ASSUME NEW u \in Updaters, Commit(u) \/ CommitUnacknowledged(u)
      PROVE  [Policy!Next]_(Policy!policyVars)
  BY <1>5, <1>4 DEF Commit, CommitUnacknowledged, TypeOK, Writers
<1>6. ASSUME NEW a \in Admins, AdminSave(a) PROVE [Policy!Next]_(Policy!policyVars)
  BY <1>6, <1>4 DEF AdminSave, TypeOK, Writers
<1>7. CASE Tick
  BY <1>7 DEF Tick, Policy!Next, Policy!Shift
<1>8. ASSUME NEW u \in Updaters, Save(u) PROVE [Policy!Next]_(Policy!policyVars)
  BY <1>8, <1>1, <1>5 DEF Save, SaveGoesOn, CommitFails, Invalidate, Return, Audit, AuditFails
<1>9. ASSUME NEW p \in Calls, Load(p) PROVE [Policy!Next]_(Policy!policyVars)
  BY <1>9, <1>1, <1>2, <1>3 DEF Load, LoadGoesOn, Miss, Select, LoadFails
<1> QED
  BY <1>1, <1>6, <1>7, <1>8, <1>9
     DEF Next, Request, Submit, AdminLoad, AdminStep, AdminRollback, Restart, vars

\* TenantSettings implements OverridePolicy: in every behaviour, with any number
\* of readers, savers and admins and any faults, a response carries only
\* features that some override value stored within the window allows.
THEOREM PolicyRefined == Spec => PolicyKept
<1>1. Init => Fresh
  BY FreshInit
<1> QED
  BY <1>1, PolicyInit, FreshStep, PolicyStep, TypeCorrect, PTL
     DEF Spec, Safe, PolicyKept, Policy!Spec

-----------------------------------------------------------------------------
(* How soon the cache is coherent *)

LEMMA FreshIsCoherent == TypeOK /\ Fresh => CoherentOnceQuiet
<1> SUFFICES ASSUME TypeOK, Fresh, Quiet
             PROVE  /\ Live => cache.value = stored
                    /\ \A p \in Calls : pc[p] = "fill" => val[p] = stored
  BY DEF CoherentOnceQuiet
<1>1. Window \in Nat /\ TTL \in Nat \ {0} /\ MaxFlight \in Nat /\ TTL - 1 + MaxFlight = Window
  BY WindowType, SettingsAssumption
<1>2. ASSUME Live PROVE cache.value = stored
  <2>1. PICK i \in 0..(cache.age + MaxFlight) : cache.value \in recent[i]
    BY <1>2 DEF Fresh, FreshEntry
  <2>2. cache.age \in 0..TTL /\ cache.age < TTL
    BY <1>2 DEF TypeOK, Live
  <2>3. i \in 0..Window
    BY <1>1, <2>2
  <2> QED BY <2>1, <2>3 DEF Quiet
<1>3. ASSUME NEW p \in Calls, pc[p] = "fill" PROVE val[p] = stored
  <2>1. PICK i \in 0..age[p] : val[p] \in recent[i]
    BY <1>3 DEF Fresh, FreshFills
  <2>2. age[p] \in 0..MaxFlight
    BY DEF TypeOK
  <2>3. i \in 0..Window
    BY <1>1, <2>2
  <2> QED BY <2>1, <2>3 DEF Quiet
<1> QED BY <1>2, <1>3

\* The cache converges within a known time: a cache lifetime and a fill after the
\* last save no reader is served, and no fill brings back, anything but the
\* stored value, also when the invalidation was lost or never sent.
THEOREM CoherentInTime == Spec => []CoherentOnceQuiet
<1>1. Init => Fresh
  BY FreshInit
<1> QED BY <1>1, FreshStep, FreshIsCoherent, TypeCorrect, PTL DEF Spec, Safe

-----------------------------------------------------------------------------
(* Each step of a call brings its end nearer *)

Fewer(p) == StepsLeft(p)' < StepsLeft(p)

\* What a step of p leaves alone.
Apart(p) ==
  \A q \in Procs \ {p} :
    /\ pc'[q] = pc[q] /\ val'[q] = val[q]
    /\ q \in Calls => job'[q] = job[q]
    /\ q \in Writers => want'[q] = want[q]
    /\ q \in Updaters => logged'[q] = logged[q]

LEMMA CountType ==
  /\ Cardinality(Features) \in Nat
  /\ \A u : Cardinality(ToLog(u)) \in Nat /\ Cardinality(ToLog(u)) <= Cardinality(Features)
<1>1. IsFiniteSet(Features)
  BY SettingsAssumption
<1>2. \A u : ToLog(u) \subseteq Features
  BY DEF ToLog, Diff
<1> QED BY <1>1, <1>2, FS_Subset, FS_CardinalityType

LEMMA StepsNumber ==
  LocalsOK => \A q \in Procs : StepsLeft(q) \in Nat /\ (pc[q] # "idle" => StepsLeft(q) > 0)
<1> SUFFICES ASSUME LocalsOK, NEW p \in Procs
             PROVE  StepsLeft(p) \in Nat /\ (pc[p] # "idle" => StepsLeft(p) > 0)
  OBVIOUS
<1>1. CASE pc[p] \in {"lookup", "select", "fill"}
  <2>1. LoadSteps(pc[p]) \in 1..3
    BY <1>1 DEF LoadSteps
  <2>2. AfterLoad(job[p]) \in Nat
    BY CountType DEF AfterLoad
  <2>3. StepsLeft(p) = LoadSteps(pc[p]) + AfterLoad(job[p])
    BY <1>1 DEF StepsLeft
  <2> QED BY <2>1, <2>2, <2>3
<1>2. CASE pc[p] \notin {"lookup", "select", "fill"}
  BY <1>2, CountType DEF LocalsOK, StepsLeft
<1> QED BY <1>1, <1>2

LEMMA AllSteps == LocalsOK => \A q \in Procs : StepsLeft(q) \in Nat
BY StepsNumber

\* A call that a step leaves alone has as many steps left as before.
LEMMA ApartKeeps ==
  ASSUME LocalsOK, NEW p, Apart(p), NEW q \in Procs \ {p}
  PROVE  StepsLeft(q)' = StepsLeft(q)
<1>1. q \in Calls => job'[q] = job[q]
  BY DEF Apart
<1>2. pc[q] \in {"lookup", "select", "fill"} => q \in Calls
  BY SettingsAssumption DEF LocalsOK, Places, Procs, Calls
<1>3. pc[q] = "audit" => q \in Updaters
  BY SettingsAssumption DEF LocalsOK, Places, Procs, Calls
<1>4. CASE pc[q] \in {"lookup", "select", "fill"}
  BY <1>1, <1>2, <1>4 DEF Apart, StepsLeft
<1>5. CASE pc[q] = "audit"
  <2>1. ToLog(q)' = ToLog(q)
    BY <1>3, <1>5 DEF Apart, ToLog, Writers, Procs
  <2> QED BY <1>5, <2>1 DEF Apart, StepsLeft
<1>6. CASE pc[q] \notin {"lookup", "select", "fill", "audit"}
  BY <1>6 DEF Apart, LocalsOK, StepsLeft
<1> QED BY <1>4, <1>5, <1>6

LEMMA EndFewer ==
  ASSUME LocalsOK, NEW p \in Procs, pc[p] # "idle", End(p)
  PROVE  Fewer(p) /\ Apart(p)
<1>1. pc'[p] = "idle"
  BY DEF LocalsOK, End
<1>2. Fewer(p)
  BY <1>1, StepsNumber DEF Fewer, StepsLeft
<1>3. Apart(p)
  BY DEF LocalsOK, End, Apart
<1> QED BY <1>2, <1>3

LEMMA UseFewer ==
  ASSUME LocalsOK, NEW p \in Calls, pc[p] \in {"lookup", "fill"}, NEW v, Use(p, v)
  PROVE  Fewer(p) /\ Apart(p)
<1> DEFINE n == Cardinality(Features)
<1>1. p \in Procs /\ n \in Nat /\ pc[p] # "idle"
  BY CountType DEF Procs
<1>2. StepsLeft(p) = LoadSteps(pc[p]) + AfterLoad(job[p]) /\ LoadSteps(pc[p]) \in 1..3
  BY DEF StepsLeft, LoadSteps
<1>3. CASE job[p] = "respond" /\ End(p)
  BY <1>1, <1>3, EndFewer
<1>4. CASE /\ job[p] = "count" /\ job' = [job EXCEPT ![p] = "diff"]
           /\ pc' = [pc EXCEPT ![p] = "lookup"] /\ val' = [val EXCEPT ![p] = NoOverrides]
           /\ UNCHANGED <<want, logged>>
  <2>1. pc'[p] = "lookup" /\ job'[p] = "diff"
    BY <1>1, <1>4 DEF LocalsOK
  <2>2. StepsLeft(p)' = 3 + (n + 3)
    BY <2>1 DEF StepsLeft, LoadSteps, AfterLoad
  <2>3. AfterLoad(job[p]) = n + 6
    BY <1>4 DEF AfterLoad
  <2> HIDE DEF n
  <2>4. Fewer(p)
    BY <1>1, <1>2, <2>2, <2>3 DEF Fewer
  <2> QED BY <1>4, <2>4 DEF Apart, LocalsOK
<1>5. CASE /\ job[p] = "diff" /\ pc' = [pc EXCEPT ![p] = "commit"]
           /\ val' = [val EXCEPT ![p] = v] /\ UNCHANGED <<job, want, logged>>
  <2>1. StepsLeft(p)' = n + 3
    BY <1>1, <1>5 DEF StepsLeft, LocalsOK
  <2>2. AfterLoad(job[p]) = n + 3
    BY <1>5 DEF AfterLoad
  <2> HIDE DEF n
  <2>3. Fewer(p)
    BY <1>1, <1>2, <2>1, <2>2 DEF Fewer
  <2> QED BY <1>5, <2>3 DEF Apart, LocalsOK
<1> QED BY <1>3, <1>4, <1>5 DEF Use

LEMMA LoadFewer ==
  ASSUME LocalsOK, NEW p \in Calls, Load(p)
  PROVE  Fewer(p) /\ Apart(p)
<1>1. p \in Procs
  BY DEF Procs
<1>2. CASE Hit(p)
  BY <1>2, UseFewer DEF Hit
<1>3. CASE Fill(p)
  BY <1>3, UseFewer DEF Fill
<1>4. CASE Miss(p)
  <2>1. /\ pc[p] = "lookup" /\ pc' = [pc EXCEPT ![p] = "select"]
        /\ UNCHANGED <<job, want, logged>> /\ val' = val
    BY <1>4 DEF Miss
  <2>2. pc'[p] = "select"
    BY <1>1, <2>1 DEF LocalsOK
  <2>3. StepsLeft(p) = 3 + AfterLoad(job[p]) /\ StepsLeft(p)' = 2 + AfterLoad(job[p])
    BY <2>1, <2>2 DEF StepsLeft, LoadSteps
  <2>4. AfterLoad(job[p]) \in Nat
    BY CountType DEF AfterLoad
  <2>5. Fewer(p)
    BY <2>3, <2>4 DEF Fewer
  <2> QED BY <1>1, <2>1, <2>5 DEF Apart, LocalsOK
<1>5. CASE Select(p)
  <2>1. /\ pc[p] = "select" /\ pc' = [pc EXCEPT ![p] = "fill"]
        /\ UNCHANGED <<job, want, logged>> /\ val' = [val EXCEPT ![p] = stored]
    BY <1>5 DEF Select
  <2>2. pc'[p] = "fill"
    BY <1>1, <2>1 DEF LocalsOK
  <2>3. StepsLeft(p) = 2 + AfterLoad(job[p]) /\ StepsLeft(p)' = 1 + AfterLoad(job[p])
    BY <2>1, <2>2 DEF StepsLeft, LoadSteps
  <2>4. AfterLoad(job[p]) \in Nat
    BY CountType DEF AfterLoad
  <2>5. Fewer(p)
    BY <2>3, <2>4 DEF Fewer
  <2> QED BY <1>1, <2>1, <2>5 DEF Apart, LocalsOK
<1>6. CASE LoadFails(p)
  BY <1>1, <1>6, EndFewer DEF LoadFails, GiveUp
<1> QED BY <1>2, <1>3, <1>4, <1>5, <1>6 DEF Load, LoadGoesOn

LEMMA SaveFewer ==
  ASSUME LocalsOK, NEW u \in Updaters, Save(u)
  PROVE  Fewer(u) /\ Apart(u)
<1> DEFINE n == Cardinality(Features)
<1>1. u \in Procs /\ n \in Nat
  BY CountType DEF Procs, Calls
<1>2. CASE Commit(u)
  <2>1. /\ pc[u] = "commit" /\ pc' = [pc EXCEPT ![u] = "invalidate"]
        /\ UNCHANGED <<job, want, logged>> /\ val' = val
    BY <1>2 DEF Commit
  <2>2. pc'[u] = "invalidate"
    BY <1>1, <2>1 DEF LocalsOK
  <2>3. StepsLeft(u) = n + 3 /\ StepsLeft(u)' = n + 2
    BY <2>1, <2>2 DEF StepsLeft
  <2> HIDE DEF n
  <2>4. Fewer(u)
    BY <1>1, <2>3 DEF Fewer
  <2> QED BY <1>1, <2>1, <2>4 DEF Apart, LocalsOK
<1>3. CASE Invalidate(u)
  <2>1. /\ pc[u] = "invalidate" /\ pc' = [pc EXCEPT ![u] = "audit"]
        /\ UNCHANGED <<job, want, logged>> /\ val' = val
    BY <1>3 DEF Invalidate
  <2>2. pc'[u] = "audit"
    BY <1>1, <2>1 DEF LocalsOK
  <2>3. StepsLeft(u) = n + 2 /\ StepsLeft(u)' = Cardinality(ToLog(u)) + 1
    <3>1. ToLog(u)' = ToLog(u)
      BY <2>1 DEF ToLog
    <3> QED BY <2>1, <2>2, <3>1 DEF StepsLeft
  <2>4. Cardinality(ToLog(u)) \in Nat /\ Cardinality(ToLog(u)) <= n
    BY CountType
  <2> HIDE DEF n
  <2>5. Fewer(u)
    BY <1>1, <2>3, <2>4 DEF Fewer
  <2> QED BY <1>1, <2>1, <2>5 DEF Apart, LocalsOK
<1>4. ASSUME NEW f \in Features, Audit(u, f) PROVE Fewer(u) /\ Apart(u)
  <2>1. /\ pc[u] = "audit" /\ f \in ToLog(u) /\ UNCHANGED <<pc, job, val, want>>
        /\ logged' = [logged EXCEPT ![u] = logged[u] \union {f}]
    BY <1>4 DEF Audit, Record
  <2>2. ToLog(u)' = ToLog(u) \ {f}
    BY <2>1 DEF ToLog, LocalsOK
  <2>3. IsFiniteSet(ToLog(u))
    BY SettingsAssumption, FS_Subset DEF ToLog, Diff
  <2>4. Cardinality(ToLog(u)') = Cardinality(ToLog(u)) - 1
    BY <2>1, <2>2, <2>3, FS_RemoveElement
  <2>5. Fewer(u)
    BY <2>1, <2>4, CountType DEF Fewer, StepsLeft
  <2> QED BY <2>1, <2>5 DEF Apart, LocalsOK
<1>5. CASE Return(u) \/ CommitUnacknowledged(u) \/ CommitFails(u) \/ \E f \in Features : AuditFails(u, f)
  BY <1>1, <1>5, EndFewer DEF Return, CommitUnacknowledged, CommitFails, AuditFails, GiveUp
<1> QED BY <1>2, <1>3, <1>4, <1>5 DEF Save, SaveGoesOn

LEMMA OwnStepFewer ==
  ASSUME LocalsOK, NEW p \in Procs, OwnStep(p)
  PROVE  Fewer(p) /\ Apart(p)
<1>1. CASE p \in Admins /\ AdminStep(p)
  BY <1>1, EndFewer DEF AdminStep, AdminSave, AdminRollback
<1> QED BY <1>1, LoadFewer, SaveFewer DEF OwnStep

\* A call that begins, a restart or the passing of time sends no call back.
LEMMA ElseNoMore ==
  ASSUME LocalsOK, [Next]_vars, NEW p \in Procs, pc[p] # "idle",
         \A q \in Procs : ~OwnStep(q)
  PROVE  StepsLeft(p)' <= StepsLeft(p)
<1>0. StepsLeft(p) \in Nat
  BY StepsNumber
<1>1. ASSUME NEW q, Apart(q), p # q PROVE StepsLeft(p)' <= StepsLeft(p)
  BY <1>0, <1>1, ApartKeeps
<1>2. ASSUME NEW r \in Readers, NEW rows \in Requests, Request(r, rows)
      PROVE  StepsLeft(p)' <= StepsLeft(p)
  BY <1>1, <1>2 DEF Request, Apart, LocalsOK
<1>3. ASSUME NEW u \in Updaters, NEW v \in Overrides, NEW purpose \in {"count", "diff"},
             Submit(u, v, purpose)
      PROVE  StepsLeft(p)' <= StepsLeft(p)
  BY <1>1, <1>3 DEF Submit, Apart, LocalsOK
<1>4. ASSUME NEW a \in Admins, NEW v \in Overrides, AdminLoad(a, v)
      PROVE  StepsLeft(p)' <= StepsLeft(p)
  BY <1>1, <1>4 DEF AdminLoad, Apart, LocalsOK
<1>5. CASE Restart
  <2>1. CASE p \in Calls
    <3>1. pc'[p] = "idle"
      BY <1>5, <2>1 DEF Restart
    <3>2. StepsLeft(p)' = 0
      BY <3>1 DEF StepsLeft
    <3> QED BY <1>0, <3>2
  <2>2. CASE p \in Admins /\ p \notin Calls
    <3>1. pc'[p] = pc[p] /\ pc[p] = "save"
      BY <1>5, <2>2 DEF Restart, LocalsOK, Places
    <3>2. StepsLeft(p) = 1 /\ StepsLeft(p)' = 1
      BY <3>1 DEF StepsLeft
    <3> QED BY <3>2
  <2> QED BY <2>1, <2>2 DEF Procs
<1>6. CASE Tick \/ UNCHANGED vars
  <2>1. UNCHANGED <<pc, job, val, want, logged>>
    BY <1>6 DEF Tick, vars, callVars
  <2>2. StepsLeft(p)' = StepsLeft(p)
    <3>1. ToLog(p)' = ToLog(p)
      BY <2>1 DEF ToLog
    <3> QED BY <2>1, <3>1 DEF StepsLeft
  <2> QED BY <1>0, <2>2
<1>7. /\ \A q \in Calls : ~Load(q)
      /\ \A u \in Updaters : ~Save(u)
      /\ \A a \in Admins : ~AdminStep(a)
  BY DEF OwnStep, Procs, Calls
<1>8. \/ \E r \in Readers, rows \in Requests : Request(r, rows)
      \/ \E u \in Updaters, v \in Overrides, purpose \in {"count", "diff"} : Submit(u, v, purpose)
      \/ \E a \in Admins, v \in Overrides : AdminLoad(a, v)
      \/ Restart \/ Tick \/ UNCHANGED vars
  BY <1>7 DEF Next
<1> QED BY <1>2, <1>3, <1>4, <1>5, <1>6, <1>8

\* A call takes at most three steps for each load and, to save, three more and one
\* for each feature: whatever others do, and whichever entries expire or are
\* invalidated meanwhile, nothing sends it back.
THEOREM WorkBounded == Spec => BoundedWork
<1>1. TypeOK /\ [Next]_vars =>
        [\A p \in Procs : pc[p] # "idle" =>
           /\ StepsLeft(p)' <= StepsLeft(p)
           /\ OwnStep(p) => StepsLeft(p)' < StepsLeft(p)]_vars
  <2> SUFFICES ASSUME TypeOK, [Next]_vars, NEW p \in Procs, pc[p] # "idle"
               PROVE  /\ StepsLeft(p)' <= StepsLeft(p)
                      /\ OwnStep(p) => StepsLeft(p)' < StepsLeft(p)
    OBVIOUS
  <2>1. LocalsOK /\ LocalsOK'
    BY TypeParts, TypeStep
  <2>2. (LocalsOK => \A q \in Procs : StepsLeft(q) \in Nat)'
    BY AllSteps, PTL
  <2>3. StepsLeft(p) \in Nat /\ StepsLeft(p)' \in Nat
    BY <2>1, <2>2, StepsNumber
  <2>4. CASE OwnStep(p)
    BY <2>1, <2>3, <2>4, OwnStepFewer DEF Fewer
  <2>5. ASSUME NEW q \in Procs \ {p}, OwnStep(q), ~OwnStep(p)
        PROVE  StepsLeft(p)' <= StepsLeft(p)
    BY <2>1, <2>3, <2>5, OwnStepFewer, ApartKeeps
  <2>6. CASE \A q \in Procs : ~OwnStep(q)
    BY <2>1, <2>6, ElseNoMore
  <2> QED BY <2>4, <2>5, <2>6
<1> QED BY <1>1, TypeCorrect, PTL DEF Spec, Safe, BoundedWork
=============================================================================

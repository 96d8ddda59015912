---------------------------- MODULE OverridePolicy ----------------------------
(***************************************************************************)
(* What the feature store promises about per-tenant overrides, with no     *)
(* cache, no handlers and no failures: a response may carry a feature only *)
(* if some override value in force during the last Window ticks allowed    *)
(* it.  recent[i] holds the values that were stored at some moment of the  *)
(* tick that lies i ticks back.                                            *)
(***************************************************************************)
EXTENDS TenantOverrides

CONSTANTS Overrides,   \* the override values operators store
          Callers,     \* callers of get_feature and list_features
          Window       \* how many ticks back a value may still be applied

VARIABLES stored,      \* the override value in the database
          recent,      \* [0..Window -> SUBSET Overrides]
          released     \* the features in each caller's latest response

policyVars == <<stored, recent, released>>

InForce == UNION {recent[i] : i \in 0..Window}

Init ==
  /\ stored = NoOverrides
  /\ recent = [i \in 0..Window |-> {NoOverrides}]
  /\ released = [c \in Callers |-> {}]

Store(v) ==
  /\ stored' = v
  /\ recent' = [recent EXCEPT ![0] = @ \union {v}]
  /\ UNCHANGED released

Reply(c, fs) ==
  /\ \E v \in InForce : fs \cap Blocked(v) = {}
  /\ released' = [released EXCEPT ![c] = fs]
  /\ UNCHANGED <<stored, recent>>

Shift ==
  /\ recent' = [i \in 0..Window |-> IF i = 0 THEN {stored} ELSE recent[i - 1]]
  /\ UNCHANGED <<stored, released>>

Next ==
  \/ \E v \in Overrides : Store(v)
  \/ \E c \in Callers, fs \in SUBSET Features : Reply(c, fs)
  \/ Shift

Spec == Init /\ [][Next]_policyVars
=============================================================================

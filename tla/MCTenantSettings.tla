--------------------------- MODULE MCTenantSettings ---------------------------
(* Small instances of TenantSettings for TLC. *)
EXTENDS TenantSettings, TLC

CONSTANTS f1, f2     \* two feature names

\* f1 refused by membership; f1 refused by tier and f2 only re-tiered.
Disables1 == [NoOverrides EXCEPT ![f1].disabled = TRUE]
Retiers   == [NoOverrides EXCEPT ![f1].tier = "C", ![f2].tier = "B"]

MCFeatures == {f1, f2}
TwoValues == {NoOverrides, Disables1}
ThreeValues == {NoOverrides, Disables1, Retiers}
OneRow == {<<f1>>}
Rows == {<<f1>>, <<f2, f1>>}
=============================================================================

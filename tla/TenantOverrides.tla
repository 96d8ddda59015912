--------------------------- MODULE TenantOverrides ---------------------------
(***************************************************************************)
(* The functional core of rust/feature-store/src/tenant_settings.rs: what  *)
(* an override value is, which features it refuses and in which features   *)
(* two values differ.  The two collections of the Rust struct are merged   *)
(* into one function: an override value gives each feature its membership  *)
(* of disabled_features and its entry of tier_overrides ("none": no key).  *)
(***************************************************************************)
EXTENDS Naturals, Sequences

CONSTANT Features   \* the feature names an override may mention

Setting == [disabled : BOOLEAN, tier : {"none", "A", "B", "C"}]

AllOverrides == [Features -> Setting]

\* TenantOverrides::default(): no row in tenant_settings.
NoOverrides == [f \in Features |-> [disabled |-> FALSE, tier |-> "none"]]

\* The features check_feature_allowed refuses.
Blocked(ov) == {f \in Features : ov[f].disabled \/ ov[f].tier = "C"}

\* diff_overrides: the features whose membership or entry differs.
Diff(old, new) == {f \in Features : old[f] # new[f]}

\* What a response built from `rows` carries under `ov`: the rows before the
\* first refused one.  get_feature is the case of a single row.
Released(rows, ov) ==
  {rows[i] : i \in {n \in 1..Len(rows) : \A m \in 1..n : rows[m] \notin Blocked(ov)}}
=============================================================================

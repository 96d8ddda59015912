------------------------------ MODULE MCGateway ------------------------------
(* Small instances of Gateway for TLC. *)
EXTENDS Gateway, TLC

CONSTANTS t1, t2
MCTenants == {t1, t2}
Symmetric == Permutations(MCTenants)

\* 51 motions are beyond the cap, and 63 the largest count of a 6-bit word.
MCInputs ==
  {[jurisdiction |-> "us-state", motions |-> m] : m \in {0, 51, 63}}
  \union {[jurisdiction |-> j, motions |-> 0] : j \in {"us-federal", "ca-state"}}

\* Surely won; probably won; open; won, of a response without an interval.
MCAnswers ==
  {[p |-> 97, lower |-> 91, upper |-> 100], [p |-> 78, lower |-> 71, upper |-> 85],
   [p |-> 47, lower |-> 33, upper |-> 61], [p |-> 93, lower |-> 0, upper |-> 100]}

\* No comparison is decided by less than a hundredth, so neither by an f32.
ASSUME GridAssumption ==
  \A a \in MCAnswers :
    /\ a.lower \notin {40, 55} /\ a.upper \notin {40, 55}
    /\ a.upper - a.lower \notin {10, 20}
    /\ \A i \in MCInputs, p \in {a.p, a.lower, a.upper} :
         LET cost == Cost(i.jurisdiction, i.motions, DurationMonths(i.motions), BaselineParties)
             gap == ValueOfTrying(p, cost) - ValueOfSettling(i.jurisdiction)
         IN  gap >= 100 \/ gap <= -100
=============================================================================

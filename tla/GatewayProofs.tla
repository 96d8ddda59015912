---------------------------- MODULE GatewayProofs ----------------------------
(***************************************************************************)
(* Proofs about Gateway, for any operators, tenants, tokens, requests,     *)
(* bounds, inputs and answers that fit the assumptions.                    *)
(***************************************************************************)
EXTENDS Gateway, TLAPS

-----------------------------------------------------------------------------
(* What a case costs *)

LEMMA ProductMonotone == \A a, b, c \in Nat : a <= b => a * c <= b * c
<1> SUFFICES ASSUME NEW a \in Nat, NEW b \in Nat, NEW c \in Nat, a <= b
             PROVE  a * c <= b * c
  OBVIOUS
<1>1. PICK d \in Nat : b = a + d
  <2>1. b - a \in Nat /\ b = a + (b - a)
    OBVIOUS
  <2> QED BY <2>1
<1>2. b * c = a * c + d * c
  BY <1>1
<1>3. a * c \in Nat /\ d * c \in Nat
  OBVIOUS
<1> QED BY <1>2, <1>3

LEMMA HundredthMonotone == \A a, b \in Nat : a <= b => a \div 100 <= b \div 100
OBVIOUS

LEMMA HundredthExact == \A a, x \in Nat : (100 * a + x) \div 100 \in Nat /\ (100 * a + x) \div 100 >= a
OBVIOUS

\* A factor never lowers the cost.
LEMMA PremiumRaises ==
  \A cost, percent, extra \in Nat :
    /\ Premium(cost, percent, extra) \in Nat
    /\ Premium(cost, percent, extra) >= cost
<1> SUFFICES ASSUME NEW cost \in Nat, NEW percent \in Nat, NEW extra \in Nat
             PROVE  /\ Premium(cost, percent, extra) \in Nat
                    /\ Premium(cost, percent, extra) >= cost
  OBVIOUS
<1> DEFINE k == percent * extra
<1>1. k \in Nat /\ cost * k \in Nat
  OBVIOUS
<1>2. cost * (100 + k) = 100 * cost + cost * k
  BY <1>1
<1>3. Premium(cost, percent, extra) = (100 * cost + cost * k) \div 100
  BY <1>2 DEF Premium
<1> HIDE DEF k
<1>4. DEFINE x == cost * k
<1>5. x \in Nat
  BY <1>1
<1> HIDE DEF x
<1>6. (100 * cost + x) \div 100 \in Nat /\ (100 * cost + x) \div 100 >= cost
  BY <1>5, HundredthExact
<1> QED BY <1>3, <1>6 DEF x

\* More of it never costs less.
LEMMA PremiumMonotone ==
  \A c, d, percent, m, n \in Nat :
    c <= d /\ m <= n => Premium(c, percent, m) <= Premium(d, percent, n)
<1> SUFFICES ASSUME NEW c \in Nat, NEW d \in Nat, NEW percent \in Nat,
                    NEW m \in Nat, NEW n \in Nat, c <= d, m <= n
             PROVE  Premium(c, percent, m) <= Premium(d, percent, n)
  OBVIOUS
<1> DEFINE k == 100 + percent * m
           l == 100 + percent * n
<1>1. k \in Nat /\ l \in Nat /\ k <= l
  <2>1. m * percent <= n * percent
    BY ProductMonotone
  <2>2. m * percent = percent * m /\ n * percent = percent * n
    OBVIOUS
  <2>3. percent * m \in Nat /\ percent * n \in Nat
    OBVIOUS
  <2> QED BY <2>1, <2>2, <2>3
<1> HIDE DEF k, l
<1>2. c * k \in Nat /\ d * k \in Nat /\ d * l \in Nat
  BY <1>1
<1>3. c * k <= d * k
  BY <1>1, ProductMonotone
<1>4. d * k <= d * l
  <2>1. k * d <= l * d
    BY <1>1, ProductMonotone
  <2>2. k * d = d * k /\ l * d = d * l
    BY <1>1
  <2> QED BY <2>1, <2>2
<1>5. c * k <= d * l
  BY <1>2, <1>3, <1>4
<1>6. (c * k) \div 100 <= (d * l) \div 100
  BY <1>2, <1>5, HundredthMonotone
<1> QED BY <1>6 DEF Premium, k, l

LEMMA MonthsType == \A m \in Nat : DurationMonths(m) \in 0..60
<1> SUFFICES ASSUME NEW m \in Nat PROVE DurationMonths(m) \in 0..60
  OBVIOUS
<1>1. (BaselineMonths + m) % U32 \in Nat
  BY WordAssumption DEF BaselineMonths
<1> QED BY <1>1 DEF DurationMonths

\* As long as the sum does not wrap, more motions never take fewer months.
LEMMA MonthsMonotone ==
  \A m, n \in Nat :
    m <= n /\ BaselineMonths + n < U32 => DurationMonths(m) <= DurationMonths(n)
<1> SUFFICES ASSUME NEW m \in Nat, NEW n \in Nat, m <= n, BaselineMonths + n < U32
             PROVE  DurationMonths(m) <= DurationMonths(n)
  OBVIOUS
<1>1. \A k \in Nat : k < U32 => k % U32 = k
  BY WordAssumption
<1>2. BaselineMonths + m \in Nat /\ BaselineMonths + n \in Nat /\ BaselineMonths + m < U32
  BY WordAssumption DEF BaselineMonths
<1>3. /\ (BaselineMonths + m) % U32 = BaselineMonths + m
      /\ (BaselineMonths + n) % U32 = BaselineMonths + n
  BY <1>1, <1>2
<1> QED BY <1>3 DEF DurationMonths, BaselineMonths

\* What the gateway charges a case of so many motions.
Charged(jurisdiction, motions) ==
  Cost(jurisdiction, motions, DurationMonths(motions), BaselineParties)

LEMMA ExtrasType ==
  ASSUME NEW m \in Nat
  PROVE  /\ Extra(m, 50, 0) \in Nat
         /\ Extra(DurationMonths(m), 60, BaselineMonths) \in Nat
         /\ Extra(BaselineParties, 20, BaselineParties) = 0
<1>1. DurationMonths(m) \in 0..60
  BY MonthsType
<1> QED BY <1>1 DEF Extra, BaselineMonths, BaselineParties

\* The cost is at least the base cost with the motions' factor.
LEMMA ChargedType ==
  ASSUME NEW j, NEW m \in Nat
  PROVE  /\ Charged(j, m) \in Nat
         /\ Charged(j, m) >= Premium(BaseCost(j), MotionPercent, Extra(m, 50, 0))
         /\ Premium(BaseCost(j), MotionPercent, Extra(m, 50, 0)) \in Nat
         /\ Premium(BaseCost(j), MotionPercent, Extra(m, 50, 0)) >= BaseCost(j)
<1> DEFINE e == Extra(m, 50, 0)
           f == Extra(DurationMonths(m), 60, BaselineMonths)
           g == Extra(BaselineParties, 20, BaselineParties)
           a == Premium(BaseCost(j), MotionPercent, e)
           b == Premium(a, DurationPercent, f)
<1>1. e \in Nat /\ f \in Nat /\ g \in Nat
  BY ExtrasType
<1>2. BaseCost(j) \in Nat /\ MotionPercent \in Nat /\ DurationPercent \in Nat /\ PartyPercent \in Nat
  BY DEF BaseCost, MotionPercent, DurationPercent, PartyPercent
<1>3. Charged(j, m) = Premium(b, PartyPercent, g)
  BY DEF Charged, Cost
<1> HIDE DEF e, f, g
<1>4. a \in Nat /\ a >= BaseCost(j)
  BY <1>1, <1>2, PremiumRaises
<1> HIDE DEF a
<1>5. b \in Nat /\ b >= a
  BY <1>1, <1>2, <1>4, PremiumRaises
<1> HIDE DEF b
<1>6. Premium(b, PartyPercent, g) \in Nat /\ Premium(b, PartyPercent, g) >= b
  BY <1>1, <1>2, <1>5, PremiumRaises
<1> QED BY <1>2, <1>3, <1>4, <1>5, <1>6 DEF a, e

LEMMA ChargedMonotone ==
  ASSUME NEW j, NEW m \in Nat, NEW n \in Nat, m <= n, BaselineMonths + n < U32
  PROVE  Charged(j, m) <= Charged(j, n)
<1> DEFINE em == Extra(m, 50, 0)
           en == Extra(n, 50, 0)
           fm == Extra(DurationMonths(m), 60, BaselineMonths)
           fn == Extra(DurationMonths(n), 60, BaselineMonths)
           g == Extra(BaselineParties, 20, BaselineParties)
           am == Premium(BaseCost(j), MotionPercent, em)
           an == Premium(BaseCost(j), MotionPercent, en)
           bm == Premium(am, DurationPercent, fm)
           bn == Premium(an, DurationPercent, fn)
<1>1. em \in Nat /\ en \in Nat /\ fm \in Nat /\ fn \in Nat /\ g \in Nat
  BY ExtrasType
<1>2. em <= en
  BY DEF Extra
<1>3. fm <= fn
  BY MonthsType, MonthsMonotone DEF Extra, BaselineMonths
<1>4. BaseCost(j) \in Nat /\ MotionPercent \in Nat /\ DurationPercent \in Nat /\ PartyPercent \in Nat
  BY DEF BaseCost, MotionPercent, DurationPercent, PartyPercent
<1>5. /\ Charged(j, m) = Premium(bm, PartyPercent, g)
      /\ Charged(j, n) = Premium(bn, PartyPercent, g)
  BY DEF Charged, Cost
<1> HIDE DEF em, en, fm, fn, g
<1>6. am \in Nat /\ an \in Nat
  BY <1>1, <1>4, PremiumRaises
<1>7. am <= an
  <2>1. BaseCost(j) <= BaseCost(j)
    BY <1>4
  <2> QED BY <1>1, <1>2, <1>4, <2>1, PremiumMonotone
<1> HIDE DEF am, an
<1>8. bm \in Nat /\ bn \in Nat
  BY <1>1, <1>4, <1>6, PremiumRaises
<1>9. bm <= bn
  BY <1>1, <1>3, <1>4, <1>6, <1>7, PremiumMonotone
<1> HIDE DEF bm, bn
<1>10. g <= g
  BY <1>1
<1> QED BY <1>1, <1>4, <1>5, <1>8, <1>9, <1>10, PremiumMonotone

\* A case with more motions than count costs more than the damages.
LEMMA ChargedBeyondDamages ==
  ASSUME NEW j, NEW m \in Nat, m > 50
  PROVE  Charged(j, m) > Damages
<1>1. Extra(m, 50, 0) = 50
  BY DEF Extra
<1>2. BaseCost(j) \in {35000, 50000, 75000}
  BY DEF BaseCost
<1>3. Premium(BaseCost(j), MotionPercent, 50) >= 175000
  BY <1>2 DEF Premium, MotionPercent
<1> QED BY <1>1, <1>3, ChargedType DEF Damages

-----------------------------------------------------------------------------
(* What the advice is *)

LEMMA AdviceKind ==
  ASSUME NEW input, NEW answer
  PROVE  AdviceOn(input, answer).kind
           = Kind(answer.lower,
                  ValueOfTrying(answer.p, Charged(input.jurisdiction, input.motions)),
                  ValueOfSettling(input.jurisdiction))
BY DEF AdviceOn, Recommend, Charged

LEMMA SettlingType ==
  \A j : /\ ValueOfSettling(j) \in Nat
         /\ j = "us-federal" => ValueOfSettling(j) = 45000
BY DEF ValueOfSettling, SettleAnchor, Damages

LEMMA TryingType ==
  \A p \in 0..100, cost \in Nat :
    /\ ValueOfTrying(p, cost) \in Int
    /\ ValueOfTrying(p, cost) <= Damages - cost
BY DEF ValueOfTrying, Damages

\* The more a trial is worth, the bolder the advice.
LEMMA KindMonotone ==
  ASSUME NEW lower \in Int, NEW t \in Int, NEW u \in Int, NEW settle \in Int,
         t <= u \/ t < settle
  PROVE  Boldness(Kind(lower, t, settle)) <= Boldness(Kind(lower, u, settle))
BY DEF Boldness, Kind

\* More motions never make the advice bolder.
LEMMA AdviceMonotone ==
  ASSUME NEW i \in Inputs, NEW k \in Inputs, NEW answer \in Answers,
         i.jurisdiction = k.jurisdiction, i.motions <= k.motions
  PROVE  Boldness(AdviceOn(k, answer).kind) <= Boldness(AdviceOn(i, answer).kind)
<1> DEFINE j == i.jurisdiction
           m == i.motions
           n == k.motions
           p == answer.p
           lower == answer.lower
           settle == ValueOfSettling(j)
           ci == Charged(j, m)
           ck == Charged(j, n)
           t == ValueOfTrying(p, ck)
           u == ValueOfTrying(p, ci)
<1>1. m \in Nat /\ n \in Nat /\ m <= n /\ p \in 0..100 /\ lower \in Int
  BY GatewayAssumption, WordAssumption
<1>2. /\ AdviceOn(i, answer).kind = Kind(lower, u, settle)
      /\ AdviceOn(k, answer).kind = Kind(lower, t, settle)
  BY AdviceKind
<1> HIDE DEF j, m, n, p, lower
<1>3. ci \in Nat /\ ck \in Nat
  BY <1>1, ChargedType
<1>4. BaselineMonths + n < U32 => ci <= ck
  BY <1>1, ChargedMonotone
<1>5. BaselineMonths + n >= U32 => ck > Damages
  <2>1. BaselineMonths + n >= U32 => n > 50
    BY <1>1, WordAssumption DEF BaselineMonths
  <2> QED BY <1>1, <2>1, ChargedBeyondDamages
<1> HIDE DEF ci, ck
<1>6. settle \in Nat
  BY SettlingType
<1>7. t \in Int /\ u \in Int /\ t <= Damages - ck
  BY <1>1, <1>3, TryingType
<1>8. ci <= ck => t <= u
  BY <1>1, <1>3 DEF ValueOfTrying, Damages
<1> HIDE DEF t, u, settle
<1>9. ci <= ck \/ ck > Damages
  BY <1>1, <1>4, <1>5, WordAssumption DEF BaselineMonths
<1>10. t <= u \/ t < settle
  BY <1>3, <1>6, <1>7, <1>8, <1>9 DEF Damages
<1> QED BY <1>1, <1>2, <1>6, <1>7, <1>10, KindMonotone

\* No answer is certain enough to try a federal case.
LEMMA FederalAdvice ==
  ASSUME NEW i \in Inputs, NEW answer \in Answers, i.jurisdiction = "us-federal"
  PROVE  AdviceOn(i, answer).kind # "Try"
<1> DEFINE p == answer.p
           c == Charged("us-federal", i.motions)
           t == ValueOfTrying(p, c)
<1>1. i.motions \in Nat /\ p \in 0..100
  BY GatewayAssumption, WordAssumption
<1>2. c \in Nat /\ c >= 75000
  BY <1>1, ChargedType DEF BaseCost
<1> HIDE DEF p, c
<1>3. t \in Int /\ t <= Damages - c
  BY <1>1, <1>2 DEF ValueOfTrying, Damages
<1> HIDE DEF t
<1>4. ValueOfSettling("us-federal") = 45000
  BY SettlingType
<1>5. Kind(answer.lower, t, 45000) # "Try"
  BY <1>2, <1>3 DEF Kind, Damages
<1> QED BY <1>4, <1>5, AdviceKind DEF t, c, p

\* Percentages lie within the clamp, so confidence is low for wide intervals.
LEMMA LowConfidence ==
  ASSUME NEW answer, answer.lower \in 0..100, answer.upper \in 0..100,
         answer.lower <= answer.upper
  PROVE  Confidence(answer) = "Low" <=> answer.upper - answer.lower >= 20
<1>1. /\ answer.lower \in Int /\ answer.upper \in Int
      /\ 0 <= answer.lower /\ answer.upper <= 100
  OBVIOUS
<1>2. CASE answer.upper - answer.lower >= 20
  BY <1>1, <1>2 DEF Confidence
<1>3. CASE answer.upper - answer.lower < 20
  BY <1>1, <1>3 DEF Confidence
<1> QED BY <1>1, <1>2, <1>3

\* The bounds are shown for wide intervals, and the advice lies between theirs.
LEMMA AdviceBetweenBounds ==
  ASSUME NEW i \in Inputs, NEW answer \in Answers
  PROVE  LET advice == AdviceOn(i, answer)
         IN  /\ advice.counter.shown <=> answer.upper - answer.lower >= 20
             /\ advice.counter.shown =>
                  /\ Boldness(advice.counter.atLower) <= Boldness(advice.kind)
                  /\ Boldness(advice.kind) <= Boldness(advice.counter.atUpper)
<1>0. Confidence(answer) = "Low" <=> answer.upper - answer.lower >= 20
  <2>1. /\ answer.lower \in 0..100 /\ answer.upper \in 0..100
        /\ answer.lower <= answer.upper
    BY GatewayAssumption
  <2> QED BY <2>1, LowConfidence
<1> DEFINE p == answer.p
           lower == answer.lower
           upper == answer.upper
           c == Charged(i.jurisdiction, i.motions)
           settle == ValueOfSettling(i.jurisdiction)
           tp == ValueOfTrying(p, c)
           tl == ValueOfTrying(lower, c)
           tu == ValueOfTrying(upper, c)
<1>1. /\ i.motions \in Nat /\ p \in 0..100 /\ lower \in 0..100 /\ upper \in 0..100
      /\ lower <= p /\ p <= upper
  BY GatewayAssumption, WordAssumption
<1>2. Confidence(answer) = "Low" <=> upper - lower >= 20
  BY <1>0
<1>3. /\ AdviceOn(i, answer).kind = Kind(lower, tp, settle)
      /\ AdviceOn(i, answer).counter = Counter(answer, c, settle)
  BY DEF AdviceOn, Recommend, Charged
<1>4. /\ Counter(answer, c, settle).shown <=> Confidence(answer) = "Low"
      /\ Confidence(answer) = "Low" =>
           /\ Counter(answer, c, settle).atLower = Kind(lower, tl, settle)
           /\ Counter(answer, c, settle).atUpper = Kind(upper, tu, settle)
  BY DEF Counter, NoCounter
<1>5. c \in Nat
  BY <1>1, ChargedType
<1> HIDE DEF p, lower, upper, c
<1>6. settle \in Int
  BY SettlingType
<1>7. tp \in Int /\ tl \in Int /\ tu \in Int /\ tl <= tp /\ tp <= tu
  BY <1>1, <1>5 DEF ValueOfTrying, Damages
<1> HIDE DEF settle, tp, tl, tu
<1>8. Boldness(Kind(lower, tl, settle)) <= Boldness(Kind(lower, tp, settle))
  BY <1>1, <1>6, <1>7, KindMonotone
<1>9. Boldness(Kind(lower, tp, settle)) <= Boldness(Kind(upper, tu, settle))
  BY <1>1, <1>6, <1>7 DEF Boldness, Kind
<1> QED BY <1>2, <1>3, <1>4, <1>8, <1>9 DEF upper, lower

-----------------------------------------------------------------------------
(* The inductive invariant *)

OperatorRow == [exists : BOOLEAN, active : BOOLEAN, super : BOOLEAN,
                tenant : Tenants \union {NoTenant}]

Session == [sub : Operators, tenant : Tenants \union {NoTenant}, exp : Nat]

AccessType ==
  /\ now \in 0..MaxTime
  /\ operators \in [Operators -> OperatorRow]
  /\ logins \in [Logins -> {NoLogin} \union LoginType]
  /\ sessions \subseteq Session
  /\ pats \in [Pats -> [sub : Operators \union {NoOperator}, revoked : 0..Forever]]
  /\ held \in [Operators -> [Tenants -> Never..MaxTime]]

\* held says when an operator was last active in a tenant: now, if it is.
HeldIsLast ==
  \A o \in Operators, t \in Tenants :
    /\ held[o][t] <= now
    /\ Active(o) /\ operators[o].tenant = t => held[o][t] = now

\* A login read its operator's row a pause ago at most, and the operator was
\* active in the tenant then.
LoginsHeld ==
  \A l \in Logins : logins[l].pc = "found" =>
    /\ logins[l].read <= now /\ now <= logins[l].read + Pause
    /\ logins[l].tenant \in Tenants =>
         logins[l].read <= held[logins[l].sub][logins[l].tenant]

\* A session was minted a pause at most after its operator was active in its tenant.
SessionsHeld ==
  \A s \in sessions : s.tenant \in Tenants =>
    /\ held[s.sub][s.tenant] # Never
    /\ s.exp <= held[s.sub][s.tenant] + Pause + SessionTTL

AccessInv == AccessType /\ HeldIsLast /\ LoginsHeld /\ SessionsHeld

RequestsType == requests \in [Requests -> {Idle} \union RequestType]

\* A request was admitted in the past.
AdmittedBefore ==
  \A r \in Requests : requests[r].pc = "handler" => requests[r].at <= now

\* A stored case has the advice its own input and answer call for.
AdviceIsOwn ==
  \A r \in Requests : requests[r].pc = "stored" =>
    /\ requests[r].case.input \in Inputs
    /\ requests[r].case.answer \in Answers
    /\ requests[r].case.advice = AdviceOn(requests[r].case.input, requests[r].case.answer)

RequestsInv == RequestsType /\ AdmittedBefore /\ WithdrawnInTime /\ AdviceIsOwn

IInv == AccessInv /\ RequestsInv

\* What no step of Access does: forget when an operator was active, set the clock
\* back, or date a revocation before now.
Onward ==
  /\ now <= now'
  /\ \A o \in Operators, t \in Tenants : held[o][t] <= held'[o][t]
  /\ \A k \in Pats : pats'[k].revoked >= now \/ pats'[k].revoked = pats[k].revoked

-----------------------------------------------------------------------------
(* Access *)

LEMMA Remembering ==
  ASSUME AccessType, HeldIsLast, Remember,
         operators' \in [Operators -> OperatorRow], now' \in 0..MaxTime, now <= now'
  PROVE  /\ held' \in [Operators -> [Tenants -> Never..MaxTime]]
         /\ HeldIsLast'
         /\ \A o \in Operators, t \in Tenants : held[o][t] <= held'[o][t]
<1>1. MaxTime \in Nat /\ now \in 0..MaxTime
  BY AccessAssumption DEF AccessType
<1>2. \A o \in Operators, t \in Tenants :
        /\ held[o][t] \in Never..MaxTime
        /\ held[o][t] <= now
  BY DEF AccessType, HeldIsLast
<1>3. \A o \in Operators, t \in Tenants :
        held'[o][t] = IF operators'[o].exists /\ operators'[o].active /\ operators'[o].tenant = t
                      THEN now' ELSE held[o][t]
  BY DEF Remember
<1>4. held' \in [Operators -> [Tenants -> Never..MaxTime]]
  BY <1>1, <1>2 DEF Remember, Never
<1>5. \A o \in Operators, t \in Tenants : held[o][t] <= held'[o][t] /\ held'[o][t] <= now'
  BY <1>1, <1>2, <1>3 DEF Never
<1>6. HeldIsLast'
  BY <1>3, <1>5 DEF HeldIsLast, Active
<1> QED BY <1>4, <1>5, <1>6

\* Sessions stay within their time while the memory only grows.
LEMMA SessionsKept ==
  ASSUME AccessType, SessionsHeld, sessions' = sessions,
         held' \in [Operators -> [Tenants -> Never..MaxTime]],
         \A o \in Operators, t \in Tenants : held[o][t] <= held'[o][t]
  PROVE  SessionsHeld'
<1> SUFFICES ASSUME NEW s \in sessions, s.tenant \in Tenants
             PROVE  /\ held'[s.sub][s.tenant] # Never
                    /\ s.exp <= held'[s.sub][s.tenant] + Pause + SessionTTL
  BY DEF SessionsHeld
<1> DEFINE h == held[s.sub][s.tenant]
           i == held'[s.sub][s.tenant]
<1>1. s.sub \in Operators /\ s.exp \in Nat
  BY DEF AccessType, Session
<1>2. h \in Never..MaxTime /\ i \in Never..MaxTime /\ h <= i
  BY <1>1 DEF AccessType
<1>3. h # Never /\ s.exp <= h + Pause + SessionTTL
  BY DEF SessionsHeld
<1> HIDE DEF h, i
<1>4. i # Never /\ s.exp <= i + Pause + SessionTTL
  BY <1>1, <1>2, <1>3, AccessAssumption DEF Never
<1> QED BY <1>4 DEF i

LEMMA NoLoginIdle == NoLogin.pc = "idle"
BY DEF NoLogin

\* So do logins that stay as they are, while the clock leaves them their pause.
LEMMA LoginsKept ==
  ASSUME AccessType, LoginsHeld, logins' = logins, now' \in 0..MaxTime, now <= now',
         \A l \in Logins : logins[l].pc = "found" => now' <= logins[l].read + Pause,
         held' \in [Operators -> [Tenants -> Never..MaxTime]],
         \A o \in Operators, t \in Tenants : held[o][t] <= held'[o][t]
  PROVE  LoginsHeld'
<1> SUFFICES ASSUME NEW l \in Logins, logins[l].pc = "found"
             PROVE  /\ logins[l].read <= now'
                    /\ logins[l].tenant \in Tenants =>
                         logins[l].read <= held'[logins[l].sub][logins[l].tenant]
  BY DEF LoginsHeld
<1> DEFINE f == logins[l]
           h == held[f.sub][f.tenant]
           i == held'[f.sub][f.tenant]
<1>1. f.sub \in Operators /\ f.read \in Nat /\ now \in Nat /\ now' \in Nat /\ f.read <= now
  BY AccessAssumption, NoLoginIdle DEF AccessType, LoginType, LoginsHeld
<1>2. ASSUME f.tenant \in Tenants PROVE f.read <= i
  <2>1. h \in Int /\ i \in Int /\ h <= i
    BY <1>1, <1>2, AccessAssumption DEF AccessType, Never
  <2>2. f.read <= h
    BY <1>2 DEF LoginsHeld
  <2> HIDE DEF f, h, i
  <2> QED BY <1>1, <2>1, <2>2
<1> HIDE DEF f, h
<1>3. f.read <= now'
  BY <1>1
<1> QED BY <1>2, <1>3 DEF f

LEMMA TickStep ==
  ASSUME AccessInv, Tick PROVE AccessInv' /\ Onward
<1>1. now' \in 0..MaxTime /\ now <= now' /\ operators' \in [Operators -> OperatorRow]
  BY AccessAssumption DEF AccessInv, AccessType, Tick
<1>2. /\ held' \in [Operators -> [Tenants -> Never..MaxTime]]
      /\ HeldIsLast'
      /\ \A o \in Operators, t \in Tenants : held[o][t] <= held'[o][t]
  BY <1>1, Remembering DEF AccessInv, Tick
<1>3. SessionsHeld'
  BY <1>2, SessionsKept DEF AccessInv, Tick
<1>4. \A l \in Logins : logins[l].pc = "found" => now' <= logins[l].read + Pause
  BY AccessAssumption, NoLoginIdle DEF AccessInv, AccessType, LoginType, Tick
<1>5. LoginsHeld'
  BY <1>1, <1>2, <1>4, LoginsKept DEF AccessInv, Tick
<1> QED BY <1>1, <1>2, <1>3, <1>5 DEF AccessInv, AccessType, Onward, Tick

LEMMA EditOperatorStep ==
  ASSUME AccessInv, NEW o \in Operators, NEW active \in BOOLEAN, NEW super \in BOOLEAN,
         NEW tenant \in Tenants \union {NoTenant},
         EditOperator(o, active, super, tenant)
  PROVE  AccessInv' /\ Onward
<1>1. now' = now /\ now \in 0..MaxTime /\ operators' \in [Operators -> OperatorRow]
  BY DEF AccessInv, AccessType, EditOperator, OperatorRow
<1>2. /\ held' \in [Operators -> [Tenants -> Never..MaxTime]]
      /\ HeldIsLast'
      /\ \A p \in Operators, t \in Tenants : held[p][t] <= held'[p][t]
  BY <1>1, Remembering DEF AccessInv, EditOperator
<1>3. SessionsHeld'
  BY <1>2, SessionsKept DEF AccessInv, EditOperator
<1>4. LoginsHeld'
  <2>1. now <= now' /\ \A l \in Logins : logins[l].pc = "found" => now' <= logins[l].read + Pause
    BY <1>1 DEF AccessInv, LoginsHeld
  <2> QED BY <1>1, <1>2, <2>1, LoginsKept DEF AccessInv, EditOperator
<1> QED BY <1>1, <1>2, <1>3, <1>4 DEF AccessInv, AccessType, Onward, EditOperator

\* A step that leaves the clock, the memory, the logins and the sessions alone.
LEMMA QuietStep ==
  ASSUME AccessInv, UNCHANGED <<now, logins, sessions, held>>,
         operators' \in [Operators -> OperatorRow],
         \A o \in Operators : Active(o)' => operators'[o] = operators[o],
         pats' \in [Pats -> [sub : Operators \union {NoOperator}, revoked : 0..Forever]],
         \A k \in Pats : pats'[k].revoked >= now \/ pats'[k].revoked = pats[k].revoked
  PROVE  AccessInv' /\ Onward
<1>1. AccessType'
  BY DEF AccessInv, AccessType
<1>2. \A o \in Operators, t \in Tenants : held[o][t] \in Int /\ held[o][t] <= now
  BY DEF AccessInv, AccessType, HeldIsLast, Never
<1>3. HeldIsLast'
  BY <1>2 DEF AccessInv, HeldIsLast, Active
<1>4. SessionsHeld'
  BY DEF AccessInv, SessionsHeld
<1>5. Onward
  BY <1>2 DEF Onward, AccessInv, AccessType
<1>6. LoginsHeld'
  BY DEF AccessInv, LoginsHeld
<1> QED BY <1>1, <1>3, <1>4, <1>5, <1>6 DEF AccessInv

LEMMA NoPatType == NoPat \in [sub : Operators \union {NoOperator}, revoked : 0..Forever]
BY AccessAssumption DEF NoPat, Forever

LEMMA DeleteOperatorStep ==
  ASSUME AccessInv, NEW o \in Operators, DeleteOperator(o)
  PROVE  AccessInv' /\ Onward
<1>1. UNCHANGED <<now, sessions, held, logins>>
  BY DEF DeleteOperator
<1>2. DOMAIN operators = Operators /\ \A p \in Operators : operators[p] \in OperatorRow
  BY DEF AccessInv, AccessType
<1>3. \A p \in Operators :
        operators'[p] = IF p = o THEN [operators[o] EXCEPT !.exists = FALSE] ELSE operators[p]
  BY <1>2 DEF DeleteOperator
<1>4. [operators[o] EXCEPT !.exists = FALSE] \in OperatorRow
      /\ [operators[o] EXCEPT !.exists = FALSE].exists = FALSE
  BY <1>2 DEF OperatorRow
<1>5. operators' \in [Operators -> OperatorRow]
  BY <1>2, <1>4 DEF DeleteOperator
<1>6. \A p \in Operators : Active(p)' => operators'[p] = operators[p]
  BY <1>3, <1>4 DEF Active
<1>7. pats' \in [Pats -> [sub : Operators \union {NoOperator}, revoked : 0..Forever]]
  BY NoPatType DEF DeleteOperator, AccessInv, AccessType
<1>8. \A k \in Pats : pats'[k].revoked >= now \/ pats'[k].revoked = pats[k].revoked
  BY AccessAssumption DEF DeleteOperator, NoPat, Forever, AccessInv, AccessType
<1> QED BY <1>1, <1>5, <1>6, <1>7, <1>8, QuietStep DEF AccessInv, AccessType

LEMMA MintPatStep ==
  ASSUME AccessInv, NEW o \in Operators, NEW k \in Pats, MintPat(o, k)
  PROVE  AccessInv' /\ Onward
<1>1. UNCHANGED <<now, operators, sessions, held, logins>>
  BY DEF MintPat
<1>2. [NoPat EXCEPT !.sub = o] = [sub |-> o, revoked |-> Forever]
  BY DEF NoPat
<1>3. pats' = [pats EXCEPT ![k] = [sub |-> o, revoked |-> Forever]]
  BY <1>2 DEF MintPat
<1>4. pats' \in [Pats -> [sub : Operators \union {NoOperator}, revoked : 0..Forever]]
  BY <1>3, AccessAssumption DEF AccessInv, AccessType, Forever
<1>5. \A l \in Pats : pats'[l].revoked >= now \/ pats'[l].revoked = pats[l].revoked
  BY <1>3, AccessAssumption DEF AccessInv, AccessType, Forever
<1> QED BY <1>1, <1>4, <1>5, QuietStep DEF AccessInv, AccessType

LEMMA RevokePatStep ==
  ASSUME AccessInv, NEW k \in Pats, RevokePat(k)
  PROVE  AccessInv' /\ Onward
<1>1. UNCHANGED <<now, operators, sessions, held, logins>>
  BY DEF RevokePat
<1>2. DOMAIN pats = Pats /\ \A l \in Pats : pats[l] \in [sub : Operators \union {NoOperator}, revoked : 0..Forever]
  BY DEF AccessInv, AccessType
<1>3. now \in 0..Forever
  BY AccessAssumption DEF AccessInv, AccessType, Forever
<1>4. [pats[k] EXCEPT !.revoked = now] \in [sub : Operators \union {NoOperator}, revoked : 0..Forever]
      /\ [pats[k] EXCEPT !.revoked = now].revoked = now
  BY <1>2, <1>3
<1>5. \A l \in Pats : pats'[l] = IF l = k THEN [pats[k] EXCEPT !.revoked = now] ELSE pats[l]
  BY <1>2 DEF RevokePat
<1>6. pats' \in [Pats -> [sub : Operators \union {NoOperator}, revoked : 0..Forever]]
  BY <1>2, <1>4 DEF RevokePat
<1>7. \A l \in Pats : pats'[l].revoked >= now \/ pats'[l].revoked = pats[l].revoked
  BY <1>3, <1>4, <1>5
<1> QED BY <1>1, <1>6, <1>7, QuietStep DEF AccessInv, AccessType

\* A step of one login, which becomes f: if it has just read a row, then that of
\* an operator who is active.
LEMMA LoginBecomes ==
  ASSUME AccessInv, NEW l \in Logins, NEW f \in {NoLogin} \union LoginType,
         logins' = [logins EXCEPT ![l] = f],
         f.pc = "found" => f.read = now /\ Active(f.sub) /\ operators[f.sub].tenant = f.tenant,
         UNCHANGED <<now, operators, pats, held>>,
         sessions' \subseteq Session, SessionsHeld'
  PROVE  AccessInv' /\ Onward
<1>1. AccessType'
  BY DEF AccessInv, AccessType
<1>2. HeldIsLast'
  BY DEF AccessInv, HeldIsLast, Active
<1>3. \A x \in Logins : logins'[x] = IF x = l THEN f ELSE logins[x]
  BY DEF AccessInv, AccessType
<1>4. ASSUME f.pc = "found"
      PROVE  /\ f.read <= now /\ now <= f.read + Pause
             /\ f.tenant \in Tenants => f.read <= held[f.sub][f.tenant]
  <2>1. f.sub \in Operators /\ f.read = now /\ now \in Nat
    BY <1>4, NoLoginIdle DEF LoginType, AccessInv, AccessType
  <2>2. f.tenant \in Tenants => held[f.sub][f.tenant] = now
    BY <1>4, <2>1 DEF AccessInv, HeldIsLast
  <2> QED BY <2>1, <2>2, AccessAssumption
<1>5. LoginsHeld'
  BY <1>3, <1>4 DEF AccessInv, LoginsHeld
<1>6. Onward
  BY DEF Onward, AccessInv, AccessType, HeldIsLast, Never
<1> QED BY <1>1, <1>2, <1>5, <1>6 DEF AccessInv

\* The same, of a login that mints nothing.
LEMMA LoginGoesOn ==
  ASSUME AccessInv, NEW l \in Logins, NEW f \in {NoLogin} \union LoginType,
         logins' = [logins EXCEPT ![l] = f],
         f.pc = "found" => f.read = now /\ Active(f.sub) /\ operators[f.sub].tenant = f.tenant,
         UNCHANGED <<now, operators, sessions, pats, held>>
  PROVE  AccessInv' /\ Onward
<1>1. sessions' \subseteq Session /\ SessionsHeld'
  BY DEF AccessInv, AccessType, SessionsHeld
<1> QED BY <1>1, LoginBecomes

LEMMA FoundRow ==
  ASSUME AccessInv, NEW o \in Operators
  PROVE  /\ Found(o) \in LoginType
         /\ Found(o).read = now /\ Found(o).sub = o /\ Found(o).tenant = operators[o].tenant
BY DEF Found, LoginType, AccessInv, AccessType, OperatorRow

LEMMA LoginCheckStep ==
  ASSUME AccessInv, NEW l \in Logins, NEW o \in Operators, LoginCheck(l, o)
  PROVE  AccessInv' /\ Onward
<1> DEFINE f == Checked(o)
<1>1. f \in LoginType /\ f.pc # "found"
  BY DEF Checked, LoginType
<1>2. logins' = [logins EXCEPT ![l] = f] /\ UNCHANGED <<now, operators, sessions, pats, held>>
  BY DEF LoginCheck
<1> HIDE DEF f
<1> QED BY <1>1, <1>2, LoginGoesOn

LEMMA LoginFindStep ==
  ASSUME AccessInv, NEW l \in Logins, LoginFind(l)
  PROVE  AccessInv' /\ Onward
<1> DEFINE o == logins[l].sub
<1>1. o \in Operators
  BY NoLoginIdle DEF LoginFind, AccessInv, AccessType, LoginType
<1>2. CASE Active(o)
  BY <1>1, <1>2, FoundRow, LoginGoesOn DEF LoginFind
<1>3. CASE ~Active(o)
  BY <1>3, NoLoginIdle, LoginGoesOn DEF LoginFind
<1> QED BY <1>2, <1>3

LEMMA SsoFindStep ==
  ASSUME AccessInv, NEW l \in Logins, NEW o \in Operators, SsoFind(l, o)
  PROVE  AccessInv' /\ Onward
BY FoundRow, LoginGoesOn DEF SsoFind, Begin

\* The session minted of a row read a pause ago at most.
LEMMA MintStep ==
  ASSUME AccessInv, NEW l \in Logins, Mint(l)
  PROVE  AccessInv' /\ Onward
<1> DEFINE f == logins[l]
           s == [sub |-> f.sub, tenant |-> f.tenant, exp |-> now + SessionTTL]
           h == held[f.sub][f.tenant]
<1>1. /\ sessions' = sessions \union {s} /\ logins' = [logins EXCEPT ![l] = NoLogin]
      /\ UNCHANGED <<now, operators, pats, held>>
  BY DEF Mint
<1>2. /\ f.sub \in Operators /\ f.tenant \in Tenants \union {NoTenant}
      /\ f.read \in Nat /\ now \in Nat /\ now <= f.read + Pause
      /\ f.tenant \in Tenants => f.read <= h
  BY NoLoginIdle DEF Mint, AccessInv, AccessType, LoginType, LoginsHeld
<1>3. s \in Session
  BY <1>2, AccessAssumption DEF Session
<1>4. f.tenant \in Tenants => h \in Never..MaxTime
  BY <1>2 DEF AccessInv, AccessType
<1>5. s.sub = f.sub /\ s.tenant = f.tenant /\ s.exp = now + SessionTTL
  OBVIOUS
<1> HIDE DEF s, f, h
<1>6. f.tenant \in Tenants => h # Never /\ s.exp <= h + Pause + SessionTTL
  BY <1>2, <1>4, <1>5, AccessAssumption DEF Never
<1>7. sessions' \subseteq Session /\ SessionsHeld'
  BY <1>1, <1>3, <1>5, <1>6 DEF AccessInv, AccessType, SessionsHeld, h
<1> QED BY <1>1, <1>7, NoLoginIdle, LoginBecomes

AccessStep == Tick \/ Console \/ \E l \in Logins : Login(l)

LEMMA AccessStepKeeps ==
  ASSUME AccessInv, AccessStep PROVE AccessInv' /\ Onward
<1>1. CASE Tick
  BY <1>1, TickStep
<1>2. CASE Console
  BY <1>2, EditOperatorStep, DeleteOperatorStep, MintPatStep, RevokePatStep DEF Console
<1>3. CASE \E l \in Logins : Login(l)
  BY <1>3, LoginCheckStep, LoginFindStep, SsoFindStep, MintStep DEF Login
<1> QED BY <1>1, <1>2, <1>3 DEF AccessStep

-----------------------------------------------------------------------------
(* The gateway *)

LEMMA IdleFields ==
  /\ Idle.pc = "idle" /\ Idle.via = "none" /\ Idle.case = NoCase
  /\ Idle \in {Idle} \union RequestType
BY DEF Idle

\* The requests stay what they were while Access moves on.
LEMMA RequestsKept ==
  ASSUME AccessInv, AccessInv', Onward, RequestsInv, requests' = requests
  PROVE  RequestsInv'
<1>1. RequestsType' /\ AdviceIsOwn'
  BY DEF RequestsInv, RequestsType, AdviceIsOwn
<1>2. now \in Nat /\ now' \in Nat /\ now <= now'
  BY DEF AccessInv, AccessType, Onward
<1> SUFFICES ASSUME NEW r \in Requests, requests[r].pc = "handler"
             PROVE  /\ requests[r].at <= now'
                    /\ IF requests[r].via = "session"
                       THEN /\ held'[requests[r].sub][requests[r].tenant] # Never
                            /\ requests[r].at
                                 <= held'[requests[r].sub][requests[r].tenant]
                                      + Pause + SessionTTL + Leeway
                       ELSE pats'[requests[r].via].revoked >= requests[r].at
  BY <1>1 DEF RequestsInv, AdmittedBefore, WithdrawnInTime
<1> DEFINE q == requests[r]
           h == held[q.sub][q.tenant]
           i == held'[q.sub][q.tenant]
<1>3. /\ q.via \in {"session"} \union Pats /\ q.sub \in Operators /\ q.tenant \in Tenants
      /\ q.at \in 0..MaxTime /\ q.at <= now
  BY IdleFields DEF RequestsInv, RequestsType, RequestType, AdmittedBefore
<1>4. q.at <= now'
  BY <1>2, <1>3
<1>5. CASE q.via = "session"
  <2>1. h \in Never..MaxTime /\ i \in Never..MaxTime /\ h <= i
    BY <1>3 DEF AccessInv, AccessType, Onward
  <2>2. h # Never /\ q.at <= h + Pause + SessionTTL + Leeway
    BY <1>5 DEF RequestsInv, WithdrawnInTime
  <2> HIDE DEF h, i
  <2>3. i # Never /\ q.at <= i + Pause + SessionTTL + Leeway
    BY <1>3, <2>1, <2>2, AccessAssumption, GatewayAssumption DEF Never
  <2> QED BY <1>4, <1>5, <2>3 DEF i
<1>6. CASE q.via # "session"
  <2>1. q.via \in Pats
    BY <1>3, <1>6
  <2>2. pats[q.via].revoked >= q.at
    BY <1>6 DEF RequestsInv, WithdrawnInTime
  <2>3. pats'[q.via].revoked >= now \/ pats'[q.via].revoked = pats[q.via].revoked
    BY <2>1 DEF Onward
  <2>4. pats'[q.via].revoked \in Nat
    BY <2>1 DEF AccessInv, AccessType
  <2> QED BY <1>2, <1>3, <1>4, <1>6, <2>2, <2>3, <2>4
<1> QED BY <1>5, <1>6

\* A step of one request, which becomes q.
LEMMA RequestStep ==
  ASSUME IInv, UNCHANGED accessVars, NEW r \in Requests, NEW q,
         requests' = [requests EXCEPT ![r] = q],
         q \in {Idle} \union RequestType,
         q.pc = "handler" =>
           /\ q.at <= now
           /\ IF q.via = "session"
              THEN /\ held[q.sub][q.tenant] # Never
                   /\ q.at <= held[q.sub][q.tenant] + Pause + SessionTTL + Leeway
              ELSE pats[q.via].revoked >= q.at,
         q.pc = "stored" =>
           /\ q.case.input \in Inputs
           /\ q.case.answer \in Answers
           /\ q.case.advice = AdviceOn(q.case.input, q.case.answer)
  PROVE  IInv'
<1>1. UNCHANGED <<now, operators, logins, sessions, pats, held>>
  BY DEF accessVars
<1>2. AccessInv'
  BY <1>1 DEF IInv, AccessInv, AccessType, HeldIsLast, LoginsHeld, SessionsHeld, Active
<1>3. requests \in [Requests -> {Idle} \union RequestType]
  BY DEF IInv, RequestsInv, RequestsType
<1>4. RequestsType'
  BY <1>3 DEF RequestsType
<1>5. \A x \in Requests : requests'[x] = IF x = r THEN q ELSE requests[x]
  BY <1>3
<1>6. AdmittedBefore'
  BY <1>1, <1>5 DEF IInv, RequestsInv, AdmittedBefore
<1>7. WithdrawnInTime'
  BY <1>1, <1>5 DEF IInv, RequestsInv, WithdrawnInTime
<1>8. AdviceIsOwn'
  BY <1>5 DEF IInv, RequestsInv, AdviceIsOwn
<1> QED BY <1>2, <1>4, <1>6, <1>7, <1>8 DEF IInv, RequestsInv

LEMMA AdmittedType ==
  ASSUME IInv, NEW via \in {"session"} \union Pats, NEW sub \in Operators, NEW tenant \in Tenants
  PROVE  Admitted(via, sub, tenant) \in {Idle} \union RequestType
BY DEF IInv, AccessInv, AccessType, Admitted, RequestType

LEMMA AdmitSessionStep ==
  ASSUME IInv, NEW r \in Requests, NEW s \in sessions, AdmitSession(r, s)
  PROVE  IInv'
<1> DEFINE q == Admitted("session", s.sub, s.tenant)
           h == held[s.sub][s.tenant]
<1>1. s.sub \in Operators /\ s.tenant \in Tenants /\ s.exp \in Nat /\ now \in 0..MaxTime
  BY DEF AdmitSession, Decodes, IInv, AccessInv, AccessType, Session
<1>2. requests' = [requests EXCEPT ![r] = q] /\ UNCHANGED accessVars
  BY DEF AdmitSession, Admit
<1>3. q \in {Idle} \union RequestType
  BY <1>1, AdmittedType
<1>4. q.pc = "handler" /\ q.via = "session" /\ q.sub = s.sub /\ q.tenant = s.tenant /\ q.at = now
  BY DEF Admitted
<1>5. h # Never /\ s.exp <= h + Pause + SessionTTL
  BY <1>1 DEF IInv, AccessInv, SessionsHeld
<1>6. now <= s.exp + Leeway
  BY DEF AdmitSession, Decodes
<1>7. h \in Never..MaxTime
  BY <1>1 DEF IInv, AccessInv, AccessType
<1> HIDE DEF q, h
<1>8. now <= h + Pause + SessionTTL + Leeway
  BY <1>1, <1>5, <1>6, <1>7, AccessAssumption, GatewayAssumption DEF Never
<1>9. held[q.sub][q.tenant] = h
  BY <1>4 DEF h
<1>10. q.at <= now /\ q.at <= held[q.sub][q.tenant] + Pause + SessionTTL + Leeway
  BY <1>1, <1>4, <1>8, <1>9, AccessAssumption
<1>11. held[q.sub][q.tenant] # Never /\ q.pc # "stored"
  BY <1>4, <1>5, <1>9
<1> QED BY <1>2, <1>3, <1>4, <1>10, <1>11, RequestStep

LEMMA AdmitPatStep ==
  ASSUME IInv, NEW r \in Requests, NEW k \in Pats, AdmitPat(r, k)
  PROVE  IInv'
<1> DEFINE q == Admitted(k, pats[k].sub, operators[pats[k].sub].tenant)
<1>1. pats[k].sub \in Operators /\ pats[k].revoked = Forever
  BY DEF AdmitPat, Resolves, IInv, AccessInv, AccessType
<1>2. operators[pats[k].sub].tenant \in Tenants
  BY <1>1 DEF AdmitPat, Resolves, IInv, AccessInv, AccessType, OperatorRow
<1>3. requests' = [requests EXCEPT ![r] = q] /\ UNCHANGED accessVars
  BY DEF AdmitPat, Admit
<1>4. q \in {Idle} \union RequestType
  BY <1>1, <1>2, AdmittedType
<1>5. q.pc = "handler" /\ q.via = k /\ q.via # "session" /\ q.at = now
  BY GatewayAssumption DEF Admitted
<1>6. now \in 0..MaxTime /\ Forever >= now
  BY AccessAssumption DEF IInv, AccessInv, AccessType, Forever
<1> HIDE DEF q
<1>7. q.at <= now /\ pats[q.via].revoked >= q.at /\ q.pc # "stored"
  BY <1>1, <1>5, <1>6, AccessAssumption
<1> QED BY <1>3, <1>4, <1>5, <1>7, RequestStep

LEMMA AdviceType ==
  ASSUME NEW i \in Inputs, NEW answer \in Answers
  PROVE  AdviceOn(i, answer) \in
           [kind : {"Settle", "Borderline", "Try"}, confidence : {"High", "Medium", "Low"},
            counter : [shown : BOOLEAN, atLower : {"Settle", "Borderline", "Try"},
                       atUpper : {"Settle", "Borderline", "Try"}],
            try : Int, settle : Int]
<1> DEFINE c == Charged(i.jurisdiction, i.motions)
           settle == ValueOfSettling(i.jurisdiction)
           try == ValueOfTrying(answer.p, c)
<1>1. i.motions \in Nat /\ answer.p \in 0..100
  BY GatewayAssumption, WordAssumption
<1>2. c \in Nat
  BY <1>1, ChargedType
<1> HIDE DEF c
<1>3. settle \in Int
  BY SettlingType
<1>4. try \in Int
  BY <1>1, <1>2 DEF ValueOfTrying, Damages
<1>5. AdviceOn(i, answer) =
        [kind |-> Kind(answer.lower, try, settle), confidence |-> Confidence(answer),
         counter |-> Counter(answer, c, settle), try |-> try, settle |-> settle]
  BY DEF AdviceOn, Recommend, Charged, c
<1> HIDE DEF settle, try
<1>6. \A lower, t, u : Kind(lower, t, u) \in {"Settle", "Borderline", "Try"}
  BY DEF Kind
<1>7. Confidence(answer) \in {"High", "Medium", "Low"}
  BY DEF Confidence
<1>8. Counter(answer, c, settle) \in
        [shown : BOOLEAN, atLower : {"Settle", "Borderline", "Try"},
         atUpper : {"Settle", "Borderline", "Try"}]
  BY <1>6 DEF Counter, NoCounter
<1> QED BY <1>3, <1>4, <1>5, <1>6, <1>7, <1>8

LEMMA CreateStep ==
  ASSUME IInv, NEW r \in Requests, NEW input \in Inputs, NEW answer \in Answers,
         Create(r, input, answer)
  PROVE  IInv'
<1> DEFINE q == Stored(requests[r], input, answer)
<1>1. requests[r].sub \in Operators /\ requests[r].tenant \in Tenants
  BY IdleFields DEF Create, IInv, RequestsInv, RequestsType, RequestType
<1>2. requests' = [requests EXCEPT ![r] = q] /\ UNCHANGED accessVars
  BY DEF Create
<1>3. /\ q.pc = "stored" /\ q.case.input = input /\ q.case.answer = answer
      /\ q.case.advice = AdviceOn(input, answer)
  BY DEF Stored
<1>4. [input |-> input, answer |-> answer, advice |-> AdviceOn(input, answer)] \in CaseType
  BY AdviceType DEF CaseType
<1>5. q \in {Idle} \union RequestType
  BY <1>1, <1>4 DEF Stored, RequestType
<1> HIDE DEF q
<1> QED BY <1>2, <1>3, <1>5, RequestStep

LEMMA FailStep ==
  ASSUME IInv, NEW r \in Requests, Fail(r)
  PROVE  IInv'
BY IdleFields, RequestStep DEF Fail

-----------------------------------------------------------------------------
(* The theorems *)

LEMMA Initially == Init => IInv
<1> SUFFICES ASSUME Init PROVE IInv
  OBVIOUS
<1>1. AccessType
  <2>1. /\ now \in 0..MaxTime /\ sessions \subseteq Session
        /\ logins \in [Logins -> {NoLogin} \union LoginType]
    BY AccessAssumption DEF Init, AccessInit
  <2>2. operators \in [Operators -> OperatorRow]
    <3>1. [exists : {TRUE}, active : {TRUE}, super : {FALSE}, tenant : Tenants] \subseteq OperatorRow
      BY DEF OperatorRow
    <3> QED BY <3>1 DEF Init, AccessInit
  <2>3. pats \in [Pats -> [sub : Operators \union {NoOperator}, revoked : 0..Forever]]
    BY NoPatType DEF Init, AccessInit
  <2>4. held \in [Operators -> [Tenants -> Never..MaxTime]]
    BY AccessAssumption DEF Init, AccessInit, Never
  <2> QED BY <2>1, <2>2, <2>3, <2>4 DEF AccessType
<1>2. HeldIsLast
  BY DEF Init, AccessInit, HeldIsLast, Never, Active
<1>3. SessionsHeld /\ LoginsHeld
  BY NoLoginIdle DEF Init, AccessInit, SessionsHeld, LoginsHeld
<1>4. \A r \in Requests : requests[r].pc = "idle"
  BY IdleFields DEF Init
<1>5. RequestsType
  BY IdleFields DEF Init, RequestsType
<1>6. AdmittedBefore /\ WithdrawnInTime /\ AdviceIsOwn
  BY <1>4 DEF AdmittedBefore, WithdrawnInTime, AdviceIsOwn
<1> QED BY <1>1, <1>2, <1>3, <1>5, <1>6 DEF IInv, AccessInv, RequestsInv

LEMMA Stutter == IInv /\ UNCHANGED vars => IInv'
BY DEF vars, accessVars, IInv, AccessInv, AccessType, HeldIsLast, LoginsHeld, SessionsHeld, Active,
       RequestsInv, RequestsType, AdmittedBefore, WithdrawnInTime, AdviceIsOwn

LEMMA Inductive == IInv /\ [Next]_vars => IInv'
<1> SUFFICES ASSUME IInv, [Next]_vars PROVE IInv'
  OBVIOUS
<1>1. CASE UNCHANGED vars
  BY <1>1, Stutter
<1>2. CASE AccessStep /\ requests' = requests
  <2>1. AccessInv' /\ Onward
    BY <1>2, AccessStepKeeps DEF IInv
  <2> QED BY <1>2, <2>1, RequestsKept DEF IInv
<1>3. ASSUME NEW r \in Requests, NEW s \in sessions, AdmitSession(r, s) PROVE IInv'
  BY <1>3, AdmitSessionStep
<1>4. ASSUME NEW r \in Requests, NEW k \in Pats, AdmitPat(r, k) PROVE IInv'
  BY <1>4, AdmitPatStep
<1>5. ASSUME NEW r \in Requests, Handle(r) PROVE IInv'
  BY <1>5, FailStep, CreateStep DEF Handle
<1> QED BY <1>1, <1>2, <1>3, <1>4, <1>5 DEF Next, AccessStep

LEMMA Always == Spec => []IInv
BY Initially, Inductive, PTL DEF Spec

\* Every variable keeps its type: what is admitted acts in a tenant.
\* (auth.rs decode_jwt, pat_auth.rs resolve_pat)
THEOREM TypeCorrect == Spec => []TypeOK
<1>1. IInv => TypeOK
  BY DEF IInv, AccessInv, AccessType, RequestsInv, RequestsType, TypeOK, OperatorRow, Session
<1> QED BY <1>1, Always, PTL

\* What is withdrawn from an operator is gone a session's life (and the pause of a
\* login) later, and what is withdrawn from a token is gone at once.
\* (jwt_helpers.py, views.py login, auth.rs decode_jwt, pat_auth.rs resolve_pat)
THEOREM Withdrawal == Spec => []WithdrawnInTime
<1>1. IInv => WithdrawnInTime
  BY DEF IInv, RequestsInv
<1> QED BY <1>1, Always, PTL

\* The advice stored lies between what it would be at the bounds of the interval.
\* (recommend.rs recommend)
THEOREM Bracketing == Spec => []AdviceBracketed
<1>1. IInv => AdviceBracketed
  <2> SUFFICES ASSUME IInv, NEW c \in StoredCases
               PROVE  /\ c.advice.counter.shown <=> c.answer.upper - c.answer.lower >= 20
                      /\ c.advice.counter.shown =>
                           /\ Boldness(c.advice.counter.atLower) <= Boldness(c.advice.kind)
                           /\ Boldness(c.advice.kind) <= Boldness(c.advice.counter.atUpper)
    BY DEF AdviceBracketed
  <2>1. c.input \in Inputs /\ c.answer \in Answers /\ c.advice = AdviceOn(c.input, c.answer)
    BY DEF StoredCases, IInv, RequestsInv, AdviceIsOwn
  <2> QED BY <2>1, AdviceBetweenBounds
<1> QED BY <1>1, Always, PTL

\* More motions never make the advice bolder, wherever the sum of months wraps.
\* (litigation_cost.rs, graphql_predict.rs 1060-1070)
THEOREM Dearer == Spec => []DearerNeverBolder
<1>1. IInv => DearerNeverBolder
  <2> SUFFICES ASSUME IInv, NEW c \in StoredCases, NEW i \in Inputs,
                      i.jurisdiction = c.input.jurisdiction, i.motions <= c.input.motions
               PROVE  Boldness(c.advice.kind) <= Boldness(AdviceOn(i, c.answer).kind)
    BY DEF DearerNeverBolder
  <2>1. c.input \in Inputs /\ c.answer \in Answers /\ c.advice = AdviceOn(c.input, c.answer)
    BY DEF StoredCases, IInv, RequestsInv, AdviceIsOwn
  <2> QED BY <2>1, AdviceMonotone
<1> QED BY <1>1, Always, PTL

\* No answer of the model makes the gateway advise to try a federal case.
\* (graphql_predict.rs 1046, settle.rs, litigation_cost.rs)
THEOREM Federal == Spec => []FederalNeverTried
<1>1. IInv => FederalNeverTried
  <2> SUFFICES ASSUME IInv, NEW c \in StoredCases, c.input.jurisdiction = "us-federal"
               PROVE  c.advice.kind # "Try"
    BY DEF FederalNeverTried
  <2>1. c.input \in Inputs /\ c.answer \in Answers /\ c.advice = AdviceOn(c.input, c.answer)
    BY DEF StoredCases, IInv, RequestsInv, AdviceIsOwn
  <2> QED BY <2>1, FederalAdvice
<1> QED BY <1>1, Always, PTL
=============================================================================

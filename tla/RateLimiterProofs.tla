-------------------------- MODULE RateLimiterProofs --------------------------
(***************************************************************************)
(* Proofs about the token bucket, for every capacity, cost and number of   *)
(* requests in flight.  A step is proved once for what happens to the      *)
(* bucket and then for the history that is kept beside it.                 *)
(***************************************************************************)
EXTENDS RateLimiter, TLAPS

\* Rounding up to whole seconds never rounds below the deficit.
LEMMA RoundUp ==
  ASSUME NEW d \in Nat, NEW p \in Nat \ {0}
  PROVE  /\ ((d + p - 1) \div p) * p \in Nat
         /\ ((d + p - 1) \div p) * p >= d
<1> DEFINE x == d + p - 1
           q == x \div p
           r == x % p
<1>1. x \in Nat OBVIOUS
<1>2. q \in Nat /\ r \in 0..(p - 1) /\ x = p * q + r
  BY <1>1, Z3
<1> HIDE DEF x, q, r
<1>3. q * p = x - r /\ q * p \in Nat
  BY <1>1, <1>2, Z3
<1>4. x = d + p - 1 BY DEF x
<1>5. q * p >= d BY <1>1, <1>2, <1>3, <1>4
<1> QED BY <1>3, <1>5 DEF q, x

\* What a call of check finds in the bucket.
LEMMA RefilledRange ==
  ASSUME TypeOK, NEW c \in Clients
  PROVE  /\ Refilled(c) \in 0..Minute
         /\ Elapsed(c) \in Nat
         /\ hold[c] \in 0..MaxHold
         /\ hold[c] \in 0..MaxLag
<1>1. bucket.tokens \in 0..Minute /\ bucket.lag \in 0..MaxLag /\ hold[c] \in 0..MaxHold
  BY DEF TypeOK
<1> QED BY <1>1, LimiterAssumption DEF Refilled, Elapsed, MaxLag

\* The header is a whole number of ticks that covers the deficit.
LEMMA RetryCovers ==
  ASSUME TypeOK, NEW c \in Clients, Refilled(c) < Cost
  PROVE  RetryAfter(c) \in Nat /\ RetryAfter(c) + Refilled(c) >= Cost
<1> DEFINE d == Cost - Refilled(c)
<1>1. d \in Nat BY RefilledRange, LimiterAssumption
<1>2. RetryAfter(c) = ((d + PerSecond - 1) \div PerSecond) * PerSecond BY DEF RetryAfter
<1>3. RetryAfter(c) \in Nat /\ RetryAfter(c) >= d
  <2> HIDE DEF d
  <2> QED BY <1>1, <1>2, RoundUp, LimiterAssumption
<1> QED BY <1>3, RefilledRange, LimiterAssumption

\* One call of check moves time from lag into tokens: nothing is gained but the
\* rewound part, and nothing is lost unless the bucket is full.
LEMMA RefillBalance ==
  ASSUME TypeOK, NEW c \in Clients
  PROVE  /\ Rewind(c) \in Nat
         /\ Refilled(c) + hold[c] <= bucket.tokens + bucket.lag + Rewind(c)
         /\ Refilled(c) < Cost => Refilled(c) + hold[c] >= bucket.tokens + bucket.lag
<1>1. bucket.tokens \in 0..Minute /\ bucket.lag \in 0..MaxLag /\ hold[c] \in 0..MaxHold
  BY DEF TypeOK
<1> QED BY <1>1, LimiterAssumption DEF Refilled, Elapsed, Rewind, MaxLag

-----------------------------------------------------------------------------

LEMMA TypeInit == Init => TypeOK
BY LimiterAssumption DEF Init, TypeOK, NoWindow, NoPromise, MaxLag

\* check leaves a bucket in range, whether it took a token or not.
LEMMA SetBucketTyped ==
  ASSUME TypeOK, NEW c \in Clients, NEW t \in 0..Minute, SetBucket(c, t)
  PROVE  bucket' \in [tokens : 0..Minute, lag : 0..MaxLag]
BY RefilledRange DEF SetBucket

LEMMA LeaveTyped ==
  ASSUME TypeOK, NEW c \in Clients, Leave(c)
  PROVE  /\ pc' \in [Clients -> {"idle", "stamped"}]
         /\ hold' \in [Clients -> 0..MaxHold]
BY LimiterAssumption DEF TypeOK, Leave

LEMMA ObserveTyped ==
  ASSUME TypeOK, NEW c \in Clients, NEW spent \in Nat, Observe(c, spent)
  PROVE  window' \in [open : BOOLEAN, age : Nat, spent : Nat, rewound : Nat]
<1>1. Rewind(c) \in Nat BY RefillBalance
<1>2. window \in [open : BOOLEAN, age : Nat, spent : Nat, rewound : Nat] BY DEF TypeOK
<1>3. window.spent + spent \in Nat /\ window.rewound + Rewind(c) \in Nat BY <1>1, <1>2
<1>4. CASE window.open
  <2>1. window' = [window EXCEPT !.spent = window.spent + spent,
                                 !.rewound = window.rewound + Rewind(c)]
    BY <1>4 DEF Observe
  <2> QED BY <2>1, <1>2, <1>3
<1>5. CASE ~window.open BY <1>5, <1>2 DEF Observe
<1> QED BY <1>4, <1>5

LEMMA TypeNext == TypeOK /\ [Next]_vars => TypeOK'
<1> SUFFICES ASSUME TypeOK, [Next]_vars PROVE TypeOK' OBVIOUS
<1> USE LimiterAssumption
<1>1. ASSUME NEW c \in Clients, Stamp(c) PROVE TypeOK'
  BY <1>1 DEF Stamp, TypeOK
<1>2. ASSUME NEW c \in Clients, Allow(c) PROVE TypeOK'
  <2>1. Refilled(c) - Cost \in 0..Minute BY <1>2, RefilledRange DEF Allow
  <2>2. bucket' \in [tokens : 0..Minute, lag : 0..MaxLag]
    BY <1>2, <2>1, SetBucketTyped DEF Allow
  <2>3. /\ pc' \in [Clients -> {"idle", "stamped"}]
        /\ hold' \in [Clients -> 0..MaxHold]
    BY <1>2, LeaveTyped DEF Allow
  <2>4. window' \in [open : BOOLEAN, age : Nat, spent : Nat, rewound : Nat]
    <3>1. CASE Observe(c, Cost) BY <3>1, ObserveTyped
    <3>2. CASE OpenWindow(c) BY <3>2, RefilledRange DEF OpenWindow
    <3> QED BY <1>2, <3>1, <3>2 DEF Allow
  <2>5. promise' \in [made : BOOLEAN, left : Int] BY <1>2 DEF Allow, NoPromise
  <2> QED BY <2>2, <2>3, <2>4, <2>5 DEF TypeOK
<1>3. ASSUME NEW c \in Clients, Deny(c) PROVE TypeOK'
  <2>2. bucket' \in [tokens : 0..Minute, lag : 0..MaxLag]
    BY <1>3, RefilledRange, SetBucketTyped DEF Deny
  <2>3. /\ pc' \in [Clients -> {"idle", "stamped"}]
        /\ hold' \in [Clients -> 0..MaxHold]
    BY <1>3, LeaveTyped DEF Deny
  <2>4. window' \in [open : BOOLEAN, age : Nat, spent : Nat, rewound : Nat]
    BY <1>3, ObserveTyped DEF Deny
  <2>5. promise' \in [made : BOOLEAN, left : Int]
    <3>1. RetryAfter(c) - hold[c] \in Int BY <1>3, RetryCovers, RefilledRange DEF Deny
    <3>2. promise.left \in Int BY DEF TypeOK
    <3> QED BY <1>3, <3>1, <3>2 DEF Deny, Promise
  <2> QED BY <2>2, <2>3, <2>4, <2>5 DEF TypeOK
<1>4. ASSUME Restart PROVE TypeOK'
  BY <1>4 DEF Restart, TypeOK, NoWindow, NoPromise, MaxLag
<1>5. ASSUME Tick PROVE TypeOK'
  <2>1. bucket' \in [tokens : 0..Minute, lag : 0..MaxLag] BY <1>5 DEF Tick, TypeOK, MaxLag
  <2>2. pc' \in [Clients -> {"idle", "stamped"}] BY <1>5 DEF Tick, TypeOK
  <2>3. hold' \in [Clients -> 0..MaxHold] BY <1>5 DEF Tick, TypeOK
  <2>4. window' \in [open : BOOLEAN, age : Nat, spent : Nat, rewound : Nat]
    BY <1>5 DEF Tick, TypeOK, NoWindow
  <2>5. promise' \in [made : BOOLEAN, left : Int] BY <1>5 DEF Tick, TypeOK
  <2> QED BY <2>1, <2>2, <2>3, <2>4, <2>5 DEF TypeOK
<1>6. CASE UNCHANGED vars BY <1>6 DEF vars, TypeOK
<1> QED BY <1>1, <1>2, <1>3, <1>4, <1>5, <1>6 DEF Next

\* The bucket never holds more than its capacity nor a negative number of
\* tokens, whatever the stamps of the requests that race for its mutex.
THEOREM TypeCorrect == Spec => []TypeOK
<1>1. Init => TypeOK BY TypeInit
<1>2. TypeOK /\ [Next]_vars => TypeOK' BY TypeNext
<1> QED BY <1>1, <1>2, PTL DEF Spec

-----------------------------------------------------------------------------
(* AdmissionBound: Conserved is inductive. *)

\* What the steps of check do to the numbers of Conserved and PromiseKept.
LEMMA Numbers ==
  TypeOK => /\ bucket.tokens \in Nat /\ bucket.lag \in Nat
            /\ window.age \in Nat /\ window.spent \in Nat /\ window.rewound \in Nat
            /\ promise.left \in Int
BY LimiterAssumption DEF TypeOK, MaxLag

\* A step that takes `spent` units out of the refilled bucket and books them
\* conserves the sum.
LEMMA ObserveConserves ==
  ASSUME TypeOK, Conserved, NEW c \in Clients, NEW spent \in Nat,
         SetBucket(c, Refilled(c) - spent), Observe(c, spent)
  PROVE  Conserved'
<1> SUFFICES ASSUME window'.open
             PROVE  bucket'.tokens + window'.spent
                      <= Minute + (window'.age - bucket'.lag) + window'.rewound
  BY DEF Conserved
<1>1. window.open BY DEF Observe
<1>2. /\ window'.age = window.age
      /\ window'.spent = window.spent + spent
      /\ window'.rewound = window.rewound + Rewind(c)
  BY <1>1 DEF Observe, TypeOK
<1>3. bucket'.tokens = Refilled(c) - spent /\ bucket'.lag = hold[c] BY DEF SetBucket
<1>4. bucket.tokens + window.spent <= Minute + (window.age - bucket.lag) + window.rewound
  BY <1>1 DEF Conserved
<1>5. /\ Rewind(c) \in Nat
      /\ Refilled(c) + hold[c] <= bucket.tokens + bucket.lag + Rewind(c)
  BY RefillBalance
<1>6. Refilled(c) \in Nat /\ hold[c] \in Nat BY RefilledRange, LimiterAssumption
<1> QED BY <1>2, <1>3, <1>4, <1>5, <1>6, Numbers, LimiterAssumption

LEMMA ConservedNext == TypeOK /\ Conserved /\ [Next]_vars => Conserved'
<1> SUFFICES ASSUME TypeOK, Conserved, [Next]_vars PROVE Conserved' OBVIOUS
<1>1. ASSUME NEW c \in Clients, Stamp(c) PROVE Conserved'
  BY <1>1 DEF Stamp, Conserved
<1>2. ASSUME NEW c \in Clients, Allow(c) PROVE Conserved'
  <2>1. CASE Observe(c, Cost)
    BY <1>2, <2>1, ObserveConserves, LimiterAssumption DEF Allow
  <2>2. CASE OpenWindow(c)
    <3>1. bucket'.tokens = Refilled(c) - Cost /\ bucket'.lag = hold[c]
      BY <1>2 DEF Allow, SetBucket
    <3>2. window'.age = hold[c] /\ window'.spent = Cost /\ window'.rewound = 0
      BY <2>2 DEF OpenWindow
    <3>3. Refilled(c) \in 0..Minute /\ hold[c] \in Nat
      BY RefilledRange, LimiterAssumption
    <3>4. bucket'.tokens + window'.spent
            <= Minute + (window'.age - bucket'.lag) + window'.rewound
      BY <3>1, <3>2, <3>3, LimiterAssumption
    <3> QED BY <3>4 DEF Conserved
  <2> QED BY <1>2, <2>1, <2>2 DEF Allow
<1>3. ASSUME NEW c \in Clients, Deny(c) PROVE Conserved'
  <2>1. Refilled(c) - 0 = Refilled(c) BY RefilledRange, LimiterAssumption
  <2>2. SetBucket(c, Refilled(c) - 0) BY <1>3, <2>1 DEF Deny, SetBucket
  <2> QED BY <1>3, <2>2, ObserveConserves DEF Deny
<1>4. ASSUME Restart PROVE Conserved'
  BY <1>4 DEF Restart, Conserved, NoWindow
<1>5. ASSUME Tick PROVE Conserved'
  <2> SUFFICES ASSUME window'.open
               PROVE  bucket'.tokens + window'.spent
                        <= Minute + (window'.age - bucket'.lag) + window'.rewound
    BY DEF Conserved
  <2>1. /\ window.open /\ window'.age = window.age + 1
        /\ window'.spent = window.spent /\ window'.rewound = window.rewound
    BY <1>5 DEF Tick, NoWindow, TypeOK
  <2>2. bucket'.tokens = bucket.tokens /\ bucket'.lag \in {bucket.lag + 1, MaxLag}
    BY <1>5 DEF Tick, TypeOK
  <2>3. bucket'.lag \in Nat /\ bucket'.lag <= bucket.lag + 1
    BY <1>5, LimiterAssumption DEF Tick, TypeOK, MaxLag
  <2>4. bucket.tokens + window.spent <= Minute + (window.age - bucket.lag) + window.rewound
    BY <2>1 DEF Conserved
  <2> QED BY <2>1, <2>2, <2>3, <2>4, Numbers, LimiterAssumption
<1>6. CASE UNCHANGED vars BY <1>6 DEF vars, Conserved
<1> QED BY <1>1, <1>2, <1>3, <1>4, <1>5, <1>6 DEF Next

LEMMA BoundFromConserved == TypeOK /\ Conserved => AdmissionBound
BY Numbers, LimiterAssumption DEF Conserved, AdmissionBound

\* No interleaving of requests admits more than a full bucket, what refilled
\* meanwhile, and the time that late stamps rewound.
THEOREM AdmissionBounded == Spec => []AdmissionBound
<1>1. Init => Conserved BY DEF Init, NoWindow, Conserved
<1>2. TypeOK /\ Conserved /\ [Next]_vars => Conserved' BY ConservedNext
<1>3. TypeOK /\ Conserved => AdmissionBound BY BoundFromConserved
<1> QED BY <1>1, <1>2, <1>3, TypeCorrect, PTL DEF Spec

-----------------------------------------------------------------------------
(* RetryHonoured: PromiseKept is inductive. *)

LEMMA PromiseKeptNext == TypeOK /\ PromiseKept /\ [Next]_vars => PromiseKept'
<1> SUFFICES ASSUME TypeOK, PromiseKept, [Next]_vars PROVE PromiseKept' OBVIOUS
<1>1. ASSUME NEW c \in Clients, Stamp(c) PROVE PromiseKept'
  BY <1>1 DEF Stamp, PromiseKept
<1>2. ASSUME NEW c \in Clients, Allow(c) PROVE PromiseKept'
  BY <1>2 DEF Allow, PromiseKept, NoPromise
<1>3. ASSUME NEW c \in Clients, Deny(c) PROVE PromiseKept'
  <2> DEFINE due == RetryAfter(c) - hold[c]
  <2>1. bucket'.tokens = Refilled(c) /\ bucket'.lag = hold[c] /\ Refilled(c) < Cost
    BY <1>3 DEF Deny, SetBucket
  <2>2. /\ RetryAfter(c) \in Nat /\ RetryAfter(c) + Refilled(c) >= Cost
        /\ Refilled(c) \in Nat /\ hold[c] \in Nat
    BY <2>1, RetryCovers, RefilledRange, LimiterAssumption
  <2>3. Refilled(c) + hold[c] >= bucket.tokens + bucket.lag BY <2>1, RefillBalance
  <2>4. promise'.left = due \/ (promise.made /\ promise'.left = promise.left)
    BY <1>3 DEF Deny, Promise
  <2>5. bucket'.tokens + bucket'.lag + promise'.left >= Cost
    <3>1. CASE promise'.left = due
      BY <2>1, <2>2, <3>1, LimiterAssumption
    <3>2. CASE promise.made /\ promise'.left = promise.left
      <4>1. bucket.tokens + bucket.lag + promise.left >= Cost BY <3>2 DEF PromiseKept
      <4> QED BY <2>1, <2>2, <2>3, <3>2, <4>1, Numbers, LimiterAssumption
    <3> QED BY <2>4, <3>1, <3>2
  <2> QED BY <2>5 DEF PromiseKept
<1>4. ASSUME Restart PROVE PromiseKept'
  BY <1>4 DEF Restart, PromiseKept, NoPromise
<1>5. ASSUME Tick PROVE PromiseKept'
  <2> SUFFICES ASSUME promise'.made
               PROVE  bucket'.tokens + bucket'.lag + promise'.left >= Cost
    BY DEF PromiseKept
  <2>1. promise.made BY <1>5 DEF Tick, TypeOK
  <2>2. bucket.tokens + bucket.lag + promise.left >= Cost BY <2>1 DEF PromiseKept
  <2>3. bucket'.tokens = bucket.tokens
        /\ bucket'.lag = (IF bucket.lag < MaxLag THEN bucket.lag + 1 ELSE MaxLag)
    BY <1>5 DEF Tick, TypeOK
  <2>4. promise'.left = (IF promise.left > -MaxHold THEN promise.left - 1 ELSE promise.left)
    BY <1>5, <2>1 DEF Tick, TypeOK
  <2>5. bucket.lag <= MaxLag /\ MaxLag = Minute + MaxHold
    BY LimiterAssumption DEF TypeOK, MaxLag
  <2> QED BY <2>2, <2>3, <2>4, <2>5, Numbers, LimiterAssumption
<1>6. CASE UNCHANGED vars BY <1>6 DEF vars, PromiseKept
<1> QED BY <1>1, <1>2, <1>3, <1>4, <1>5, <1>6 DEF Next

\* A request stamped at or after the promised time finds a token.
LEMMA DueIsAdmitted ==
  ASSUME TypeOK, PromiseKept, NEW c \in Clients,
         promise.made, promise.left + hold[c] <= 0
  PROVE  ~Deny(c)
<1> SUFFICES ASSUME Deny(c) PROVE FALSE OBVIOUS
<1>1. Refilled(c) < Cost BY DEF Deny
<1>2. Refilled(c) + hold[c] >= bucket.tokens + bucket.lag BY <1>1, RefillBalance
<1>3. bucket.tokens + bucket.lag + promise.left >= Cost BY DEF PromiseKept
<1>4. Refilled(c) \in Nat /\ hold[c] \in Nat BY RefilledRange, LimiterAssumption
<1> QED BY <1>1, <1>2, <1>3, <1>4, Numbers, LimiterAssumption

\* A denied client that waits for its Retry-After, with no other admitted
\* request before it, is not denied again.
THEOREM RetryAfterHonoured == Spec => RetryHonoured
<1>1. Init => PromiseKept BY DEF Init, NoPromise, PromiseKept
<1>2. TypeOK /\ PromiseKept /\ [Next]_vars => PromiseKept' BY PromiseKeptNext
<1>3. TypeOK /\ PromiseKept /\ [Next]_vars =>
        [\A c \in Clients :
           /\ pc[c] = "stamped" /\ pc'[c] = "idle" /\ promise.made
           /\ promise.left + hold[c] <= 0
           => ~ Deny(c)]_vars
  BY DueIsAdmitted
<1> QED BY <1>1, <1>2, <1>3, TypeCorrect, PTL DEF Spec, RetryHonoured

=============================================================================

----------------------------- MODULE RateLimiter -----------------------------
(***************************************************************************)
(* The per-tenant token bucket: rust/rate-limit/src/lib.rs (check) behind  *)
(* the MemoryStore and rate_limit_middleware of                            *)
(* rust/api-gateway/src/rate_limit.rs.                                     *)
(*                                                                         *)
(* Tokens are counted in ticks of refill, so the refill rate is one unit   *)
(* per tick; a request costs Cost units and the bucket holds Minute units, *)
(* since MemoryStore::new gives it the capacity it refills in a minute.    *)
(* The f64 arithmetic is taken as exact.  Instants are ages in ticks.  A   *)
(* tenant's bucket is made, full, by its first request: a bucket that is   *)
(* not there yet and a full one allow the same, so Init starts with it.    *)
(***************************************************************************)
EXTENDS Integers

CONSTANTS
  Clients,     \* requests of one tenant that may be in the middleware at once
  Cost,        \* one token: 60 000 ms / RATE_LIMIT_RPM when a tick is 1 ms
  Minute,      \* ticks in a minute, and the capacity of the bucket
  PerSecond,   \* ticks in a second: the unit of the Retry-After header
  MaxHold,     \* longest time from reading the clock to the bucket's mutex
  MaxWindow    \* bound: how long an observed window may last

ASSUME LimiterAssumption ==
  /\ Cost \in Nat \ {0} /\ PerSecond \in Nat \ {0}
  /\ Minute \in Nat /\ Cost <= Minute     \* RATE_LIMIT_RPM is at least 1
  /\ MaxHold \in Nat /\ MaxWindow \in Nat

VARIABLES
  bucket,     \* [tokens, lag]: TokenBucket, lag = ticks since last_refill
  pc,         \* "idle", or "stamped" once a request has read the clock
  hold,       \* ticks since the request read the clock (`now` in check)
  window,     \* history: what was admitted since some admitted request
  promise     \* history: the earliest outstanding Retry-After

vars == <<bucket, pc, hold, window, promise>>

\* Past this lag a refill fills the bucket whatever the request's stamp.
MaxLag == Minute + MaxHold

NoWindow == [open |-> FALSE, age |-> 0, spent |-> 0, rewound |-> 0]
NoPromise == [made |-> FALSE, left |-> 0]

Init ==
  /\ bucket = [tokens |-> Minute, lag |-> 0]
  /\ pc = [c \in Clients |-> "idle"]
  /\ hold = [c \in Clients |-> 0]
  /\ window = NoWindow
  /\ promise = NoPromise

-----------------------------------------------------------------------------
(* rate_limit::check *)

\* saturating_duration_since: a stamp older than last_refill adds nothing.
Elapsed(c) == IF bucket.lag > hold[c] THEN bucket.lag - hold[c] ELSE 0

\* Variant: the refill is not capped.
Uncapped(c) == bucket.tokens + Elapsed(c)

Refilled(c) ==
  IF bucket.tokens + Elapsed(c) > Minute THEN Minute ELSE bucket.tokens + Elapsed(c)

\* Variant: last_refill is never advanced, so the same time refills twice.
KeptRefill(c, tokens) == bucket' = [bucket EXCEPT !.tokens = tokens]

\* last_refill becomes the request's stamp, also when that moves it back.
SetBucket(c, tokens) == bucket' = [tokens |-> tokens, lag |-> hold[c]]

\* Variant: the header rounds down.
RetryFloor(c) == ((Cost - Refilled(c)) \div PerSecond) * PerSecond

\* The Retry-After header in ticks: the deficit in whole seconds, rounded up.
RetryAfter(c) == ((Cost - Refilled(c) + PerSecond - 1) \div PerSecond) * PerSecond

Leave(c) ==
  /\ pc' = [pc EXCEPT ![c] = "idle"]
  /\ hold' = [hold EXCEPT ![c] = 0]

-----------------------------------------------------------------------------
(* History: an observed window opens with some admitted request.  rewound  *)
(* sums how far requests with old stamps moved last_refill back.           *)

Rewind(c) == IF hold[c] > bucket.lag THEN hold[c] - bucket.lag ELSE 0

Observe(c, spent) ==
  window' = IF window.open
            THEN [window EXCEPT !.spent = @ + spent, !.rewound = @ + Rewind(c)]
            ELSE window

OpenWindow(c) == window' = [open |-> TRUE, age |-> hold[c], spent |-> Cost, rewound |-> 0]

\* due: ticks from now to the moment the header names; a later denial does not
\* take back an earlier answer.
Promise(due) ==
  promise' = [made |-> TRUE,
              left |-> IF promise.made /\ promise.left < due THEN promise.left ELSE due]

-----------------------------------------------------------------------------
(* MemoryStore::check and rate_limit_middleware *)

\* Instant::now(), before the map entry and the mutex.
Stamp(c) ==
  /\ pc[c] = "idle"
  /\ pc' = [pc EXCEPT ![c] = "stamped"]
  /\ hold' = [hold EXCEPT ![c] = 0]
  /\ UNCHANGED <<bucket, window, promise>>

Allow(c) ==
  /\ pc[c] = "stamped" /\ Refilled(c) >= Cost
  /\ SetBucket(c, Refilled(c) - Cost)
  /\ Observe(c, Cost) \/ OpenWindow(c)
  /\ promise' = NoPromise
  /\ Leave(c)

\* 429 with the Retry-After header.
Deny(c) ==
  /\ pc[c] = "stamped" /\ Refilled(c) < Cost
  /\ SetBucket(c, Refilled(c))
  /\ Observe(c, 0)
  /\ Promise(RetryAfter(c) - hold[c])
  /\ Leave(c)

\* The process restarts with full buckets; its requests are gone.
Restart ==
  /\ bucket' = [tokens |-> Minute, lag |-> 0]
  /\ pc' = [c \in Clients |-> "idle"]
  /\ hold' = [c \in Clients |-> 0]
  /\ window' = NoWindow
  /\ promise' = NoPromise

\* lag stops growing once the bucket is sure to refill; so does a promise once
\* it is due for every stamp.
Tick ==
  /\ \A c \in Clients : pc[c] = "stamped" => hold[c] < MaxHold
  /\ hold' = [c \in Clients |-> IF pc[c] = "stamped" THEN hold[c] + 1 ELSE hold[c]]
  /\ bucket' = [bucket EXCEPT !.lag = IF @ < MaxLag THEN @ + 1 ELSE MaxLag]
  /\ window' = IF window.open /\ window.age < MaxWindow
               THEN [window EXCEPT !.age = @ + 1] ELSE NoWindow
  /\ promise' = IF promise.made /\ promise.left > -MaxHold
                THEN [promise EXCEPT !.left = @ - 1] ELSE promise
  /\ UNCHANGED pc

Next ==
  \/ \E c \in Clients : Stamp(c) \/ Allow(c) \/ Deny(c)
  \/ Restart
  \/ Tick

Spec == Init /\ [][Next]_vars

-----------------------------------------------------------------------------
(* Properties *)

\* Every variable has its type; in particular the doc comment's postcondition
\* of check: the bucket never holds more than its capacity, nor less than none.
TypeOK ==
  /\ bucket \in [tokens : 0..Minute, lag : 0..MaxLag]
  /\ pc \in [Clients -> {"idle", "stamped"}]
  /\ hold \in [Clients -> 0..MaxHold]
  /\ window \in [open : BOOLEAN, age : Nat, spent : Nat, rewound : Nat]
  /\ promise \in [made : BOOLEAN, left : Int]

\* From any admitted request on, the tenant is admitted at most a full bucket
\* plus what refilled since, plus once more whatever time requests with old
\* stamps moved last_refill back over: the price of reading the clock before
\* taking the lock.
AdmissionBound ==
  window.open => window.spent <= Minute + window.age + window.rewound

\* A client that was denied, waits as long as its Retry-After header says and
\* meets no other admitted request is admitted.
RetryHonoured ==
  [][\A c \in Clients :
       /\ pc[c] = "stamped" /\ pc'[c] = "idle" /\ promise.made
       /\ promise.left + hold[c] <= 0
       => ~ Deny(c)]_vars

\* Why AdmissionBound holds: what is left in the bucket and what was admitted
\* together are a full bucket and the time already refilled.
Conserved ==
  window.open =>
    bucket.tokens + window.spent <= Minute + (window.age - bucket.lag) + window.rewound

\* Why RetryHonoured holds: the bucket has a token by the time that was promised.
PromiseKept == promise.made => bucket.tokens + bucket.lag + promise.left >= Cost
=============================================================================

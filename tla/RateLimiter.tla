----------------------------- MODULE RateLimiter -----------------------------
(***************************************************************************)
(* The per-identity rate limit (identityRateLimiter in                     *)
(* internal/server/ratelimit.go) and the token buckets it keeps            *)
(* (rate.Limiter of golang.org/x/time, external).                          *)
(*                                                                         *)
(* The middleware reads the clock before Allow takes the lock, so calls    *)
(* may be handled in another order than their stamps.  All times are kept  *)
(* as ages, up to where more makes no difference.  A tick is a second;     *)
(* tokens are counted in parts, Cost parts for a request, so that a second *)
(* refills Rate parts (requestsPerMinute with Cost = 60).                  *)
(***************************************************************************)
EXTENDS Integers, FiniteSets

CONSTANTS
  Clients,  \* values of Principal.IdentityKey
  Calls,    \* requests that can be on their way to the lock
  Rate,        \* requestsPerMinute
  Cost,        \* 60
  Burst,       \* burst
  Capacity,    \* identityLimiterCapacity
  IdleTTL,     \* identityLimiterIdleTTL
  SweepEvery,  \* a minute
  MaxSkew      \* how long a request can wait for the lock

Full == Burst * Cost

\* What can be granted at one moment to requests stamped up to MaxSkew earlier.
Depth == Full + Rate * MaxSkew

\* An identity is forgotten only when its bucket has filled up.
ASSUME RateAssumption ==
  /\ Rate \in Nat \ {0} /\ Cost \in Nat \ {0} /\ Burst \in Nat \ {0}
  /\ Capacity \in Nat /\ SweepEvery \in Nat /\ MaxSkew \in Nat /\ IdleTTL \in Nat
  /\ Depth <= Rate * (IdleTTL - MaxSkew)

VARIABLES
  buckets,   \* identityRateLimiter.entries: a function on the remembered identities
  swept,     \* the age of lastSweep, Never before the first
  stamped,   \* stamped[r]: the identity and the stamp's age of a request on its way
  budget,    \* history: what an ideal bucket of size Depth that forgets nobody holds
  refused    \* history: ticks since the identity was refused for its rate and not granted

rateVars == <<buckets, swept, stamped, budget, refused>>

Oldest == IdleTTL + SweepEvery + MaxSkew + 1
Never == SweepEvery + MaxSkew

NotStamped == [identity |-> "", age |-> 0]

Least(a, b) == IF a <= b THEN a ELSE b

\* Faulty variant: the division rounds down.
RetryAfterFloor == Cost \div Rate

RetryAfterSeconds == IF Cost % Rate = 0 THEN Cost \div Rate ELSE Cost \div Rate + 1

Waited == RetryAfterSeconds + MaxSkew

RateInit ==
  /\ buckets = [i \in {} |-> 0]
  /\ swept = Never
  /\ stamped = [r \in Calls |-> NotStamped]
  /\ budget = [i \in Clients |-> Depth]
  /\ refused = [i \in Clients |-> 0]

-----------------------------------------------------------------------------
(* The middleware takes time.Now() ...                                     *)

Stamp(r, i) ==
  /\ stamped[r] = NotStamped
  /\ stamped' = [stamped EXCEPT ![r] = [identity |-> i, age |-> 0]]
  /\ UNCHANGED <<buckets, swept, budget, refused>>

-----------------------------------------------------------------------------
(* ... and Allow runs under the lock.                                      *)

\* Faulty variant: an identity is forgotten as soon as a sweep comes by.
pruneSeen(age) == [i \in {j \in DOMAIN buckets : buckets[j].seen - age < SweepEvery} |-> buckets[i]]

prune(age) == [i \in {j \in DOMAIN buckets : buckets[j].seen - age < IdleTTL} |-> buckets[i]]

\* The entries left after the sweep, if it is time for one.
Swept(age) == IF swept - age >= SweepEvery THEN prune(age) ELSE buckets

\* AllowN: what the bucket holds at the stamp.  The bucket was last used when
\* the identity was last seen; a stamp before that adds nothing.
Held(b, age) ==
  IF b.seen > age THEN Least(Full, b.tokens + Rate * (b.seen - age)) ELSE b.tokens

\* The stamps between this one and the last are credited again.
Overlap(b, age) == IF age > b.seen THEN age - b.seen ELSE 0

New(age) == [tokens |-> Full, seen |-> age]

Bucket(bs, i, age) == IF i \in DOMAIN bs THEN bs[i] ELSE New(age)

Known(bs, i) == i \in DOMAIN bs \/ Cardinality(DOMAIN bs) < Capacity

Grant(i, age, bs) ==
  LET b == Bucket(bs, i, age)
  IN  /\ Known(bs, i)
      /\ Held(b, age) >= Cost
      /\ buckets' = [j \in DOMAIN bs \cup {i} |->
                       IF j = i THEN [tokens |-> Held(b, age) - Cost, seen |-> age] ELSE bs[j]]
      /\ budget' = [budget EXCEPT ![i] = Least(Depth, @ - Cost + Rate * Overlap(b, age))]
      /\ refused' = [refused EXCEPT ![i] = 0]

\* identity_rate: the bucket stays as it is.
RefuseRate(i, age, bs) ==
  LET b == Bucket(bs, i, age)
  IN  /\ Known(bs, i)
      /\ Held(b, age) < Cost
      /\ buckets' = bs
      /\ refused' = [refused EXCEPT ![i] = IF @ = 0 THEN 1 ELSE @]
      /\ UNCHANGED budget

\* identity_capacity.
RefuseCapacity(i, age, bs) ==
  /\ ~Known(bs, i)
  /\ buckets' = bs
  /\ UNCHANGED <<budget, refused>>

Allow(r) ==
  LET i == stamped[r].identity
      age == stamped[r].age
      bs == Swept(age)
  IN  /\ stamped[r] # NotStamped
      /\ stamped' = [stamped EXCEPT ![r] = NotStamped]
      /\ swept' = IF swept - age >= SweepEvery THEN age ELSE swept
      /\ Grant(i, age, bs) \/ RefuseRate(i, age, bs) \/ RefuseCapacity(i, age, bs)

-----------------------------------------------------------------------------
RateTick ==
  /\ \A r \in Calls : stamped[r] # NotStamped => stamped[r].age < MaxSkew
  /\ buckets' = [i \in DOMAIN buckets |-> [buckets[i] EXCEPT !.seen = Least(@ + 1, Oldest)]]
  /\ swept' = Least(swept + 1, Never)
  /\ stamped' = [r \in Calls |->
                   IF stamped[r] = NotStamped THEN NotStamped ELSE [stamped[r] EXCEPT !.age = @ + 1]]
  /\ budget' = [i \in Clients |-> Least(Depth, budget[i] + Rate)]
  /\ refused' = [i \in Clients |-> IF refused[i] = 0 THEN 0 ELSE Least(refused[i] + 1, Waited + 1)]

RateNext ==
  \/ \E r \in Calls, i \in Clients : Stamp(r, i)
  \/ \E r \in Calls : Allow(r)
  \/ RateTick

RateSpec == RateInit /\ [][RateNext]_rateVars

-----------------------------------------------------------------------------
(* Properties.                                                             *)

\* The shape of the limiter: it remembers no more identities than its capacity.
RateTypeOK ==
  /\ DOMAIN buckets \subseteq Clients /\ Cardinality(DOMAIN buckets) <= Capacity
  /\ \A i \in DOMAIN buckets : buckets[i] \in [tokens : 0 .. Full, seen : 0 .. Oldest]
  /\ swept \in 0 .. Never
  /\ stamped \in [Calls -> [identity : Clients \cup {""}, age : 0 .. MaxSkew]]
  /\ budget \in [Clients -> Int]
  /\ refused \in [Clients -> 0 .. Waited + 1]

\* No identity is ever granted more than an ideal bucket would that forgets
\* nobody: neither by being forgotten and remembered, nor by being refused in
\* between, nor by requests that overtake each other on the way to the lock
\* (time between two stamps that arrive out of order counts twice).
RateBounded == RateTypeOK /\ \A i \in Clients : budget[i] >= 0

\* An identity that waits Retry-After seconds after a refusal is granted a request.
RetryAfterSuffices ==
  [][\A r \in Calls :
       LET i == stamped[r].identity
       IN  /\ stamped[r] # NotStamped
           /\ stamped'[r] = NotStamped
           /\ refused[i] > 0
           /\ refused[i] - 1 - stamped[r].age >= RetryAfterSeconds
           => refused'[i] = 0 \/ ~Known(buckets', i)]_rateVars

\* A new identity is turned away for capacity only if as many others have been
\* granted a request within the idle time and one sweep.
TurnedAwayOnlyWhenFull ==
  [][\A r \in Calls :
       /\ stamped[r] # NotStamped
       /\ stamped'[r] = NotStamped
       /\ ~Known(buckets', stamped[r].identity)
       => \A i \in DOMAIN buckets' : buckets'[i].seen <= IdleTTL + SweepEvery + MaxSkew]_rateVars

\* A call is refused only for what the caller, or as many others, have used up.
RefusedWithCause == RetryAfterSuffices /\ TurnedAwayOnlyWhenFull

=============================================================================

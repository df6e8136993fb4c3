---------------------------- MODULE LimitsProofs ----------------------------
(***************************************************************************)
(* Proofs about what the server's limits promise: the slots and shares of  *)
(* the middleware (Admission), the token buckets (RateLimiter) and the     *)
(* bytes of the schema cache (SchemaCache), for any number of connections, *)
(* identities, slots, rates, clock readings, keys and sizes.               *)
(***************************************************************************)
EXTENDS Admission, RateLimiter, SchemaCache, ChargesProofs

\* The provers for leaves that name none, in the order they are tried.
USE SMTT(20), Z3T(30), Zenon

-----------------------------------------------------------------------------
(* RateLimiter.                                                            *)

\* A bucket never promises more than the ideal one holds; an identity that is
\* not remembered has all of it; and what is remembered is as fresh as the sweeps
\* and the refusals make it.
RateInv ==
  /\ RateTypeOK
  /\ IsFiniteSet(DOMAIN buckets)
  /\ \A r \in Calls : stamped[r] = NotStamped \/ stamped[r].identity \in Clients
  /\ \A i \in Clients : budget[i] <= Depth
  /\ \A i \in Clients \ DOMAIN buckets : budget[i] = Depth
  /\ \A i \in DOMAIN buckets :
       /\ budget[i] >= Least(Depth, buckets[i].tokens + Rate * buckets[i].seen)
       /\ swept < Never => buckets[i].seen < IdleTTL + swept
       /\ refused[i] > 0 => refused[i] - 1 <= buckets[i].seen

\* Products with the rate: tlapm's provers leave them uninterpreted otherwise.
LEMMA RateTimes ==
  /\ \A x \in Nat : Rate * x \in Nat
  /\ \A x, y \in Nat : x <= y => Rate * x <= Rate * y
  /\ \A x \in Nat : Rate * (x + 1) = Rate * x + Rate
  /\ \A x, y \in Nat : Rate * (x - y) = Rate * x - Rate * y
BY RateAssumption

\* The constants as integers, and what the size of the bucket has to do with the
\* time an identity is remembered and with Retry-After.
LEMMA RateConstants ==
  /\ Rate \in Nat /\ Rate > 0 /\ Cost \in Nat /\ Cost > 0
  /\ Full \in Nat /\ Full >= Cost
  /\ Depth \in Nat /\ Depth = Full + Rate * MaxSkew
  /\ MaxSkew \in Nat /\ SweepEvery \in Nat /\ IdleTTL \in Nat /\ Capacity \in Nat
  /\ MaxSkew < IdleTTL /\ Depth <= Rate * IdleTTL
  /\ RetryAfterSeconds \in Nat /\ RetryAfterSeconds > 0
  /\ Rate * RetryAfterSeconds >= Cost
  /\ RetryAfterSeconds <= IdleTTL
<1>1. /\ Rate \in Nat /\ Rate > 0 /\ Cost \in Nat /\ Cost > 0 /\ Burst \in Nat /\ Burst > 0
      /\ MaxSkew \in Nat /\ SweepEvery \in Nat /\ IdleTTL \in Nat /\ Capacity \in Nat
  BY RateAssumption
<1>2. Full \in Nat /\ Full >= Cost
  BY <1>1 DEF Full
<1>3. Rate * MaxSkew \in Nat /\ Rate * IdleTTL \in Nat
  BY <1>1, RateTimes
<1>4. Depth \in Nat /\ Depth = Full + Rate * MaxSkew
  BY <1>2, <1>3 DEF Depth
<1>5. Depth <= Rate * IdleTTL - Rate * MaxSkew
  BY <1>1, RateAssumption, RateTimes
<1>6. MaxSkew < IdleTTL
  <2> SUFFICES ASSUME IdleTTL <= MaxSkew PROVE FALSE
    BY <1>1
  <2>1. Rate * IdleTTL <= Rate * MaxSkew
    BY <1>1, RateTimes
  <2> QED BY <2>1, <1>1, <1>2, <1>3, <1>4, <1>5
<1> DEFINE q == Cost \div Rate
           m == Cost % Rate
<1>7. q \in Nat /\ m \in 0 .. Rate - 1 /\ Cost = Rate * q + m
  BY <1>1
<1>8. RetryAfterSeconds = IF m = 0 THEN q ELSE q + 1
  BY DEF RetryAfterSeconds
<1> HIDE DEF q, m
<1>9. Rate * q \in Nat /\ Rate * (q + 1) = Rate * q + Rate /\ Rate * 0 = 0
  BY <1>1, <1>7, RateTimes
<1>10. RetryAfterSeconds \in Nat /\ Rate * RetryAfterSeconds >= Cost
  BY <1>1, <1>7, <1>8, <1>9
<1>11. RetryAfterSeconds > 0
  BY <1>1, <1>9, <1>10
<1>12. RetryAfterSeconds <= IdleTTL
  <2> SUFFICES ASSUME IdleTTL + 1 <= RetryAfterSeconds PROVE FALSE
    BY <1>1, <1>10
  <2>1. CASE m = 0
    <3>1. IdleTTL + 1 <= q
      BY <2>1, <1>8
    <3>2. Rate * (IdleTTL + 1) <= Rate * q /\ Rate * (IdleTTL + 1) = Rate * IdleTTL + Rate
      BY <3>1, <1>1, <1>7, RateTimes
    <3> QED BY <3>2, <2>1, <1>1, <1>2, <1>3, <1>4, <1>5, <1>7, <1>9
  <2>2. CASE m # 0
    <3>1. IdleTTL <= q
      BY <2>2, <1>1, <1>7, <1>8
    <3>2. Rate * IdleTTL <= Rate * q
      BY <3>1, <1>1, <1>7, RateTimes
    <3> QED BY <3>2, <2>2, <1>1, <1>2, <1>3, <1>4, <1>5, <1>7, <1>9
  <2> QED BY <2>1, <2>2
<1> QED BY <1>1, <1>2, <1>3, <1>4, <1>5, <1>6, <1>10, <1>11, <1>12

\* The bounds of the state.
LEMMA RateNats ==
  /\ MaxSkew \in Nat /\ SweepEvery \in Nat /\ IdleTTL \in Nat /\ MaxSkew < IdleTTL
  /\ Full \in Nat /\ Never \in Nat /\ Never = SweepEvery + MaxSkew
  /\ Oldest \in Nat /\ Waited \in Nat /\ Waited <= Oldest
BY RateConstants DEF Never, Oldest, Waited

\* prune: who is forgotten has a full bucket, and who stays was seen in the idle time.
LEMMA SweptOK ==
  ASSUME RateInv, NEW age \in 0 .. MaxSkew
  PROVE  LET bs == Swept(age)
         IN  /\ DOMAIN bs \subseteq DOMAIN buckets
             /\ \A i \in DOMAIN bs : bs[i] = buckets[i]
             /\ IsFiniteSet(DOMAIN bs) /\ Cardinality(DOMAIN bs) \in Nat
             /\ Cardinality(DOMAIN bs) <= Capacity
             /\ \A i \in Clients \ DOMAIN bs : budget[i] = Depth
             /\ swept - age >= SweepEvery => \A i \in DOMAIN bs : bs[i].seen < IdleTTL + age
             /\ swept - age < SweepEvery => bs = buckets
<1> DEFINE bs == Swept(age)
<1>0. /\ DOMAIN buckets \subseteq Clients /\ Cardinality(DOMAIN buckets) <= Capacity
      /\ IsFiniteSet(DOMAIN buckets)
      /\ \A i \in DOMAIN buckets : buckets[i] \in [tokens : 0 .. Full, seen : 0 .. Oldest]
      /\ swept \in 0 .. Never
  BY Zenon DEF RateInv, RateTypeOK
<1>1. Never \in Nat /\ Oldest \in Nat
  BY RateConstants DEF Never, Oldest
<1>2. DOMAIN bs \subseteq DOMAIN buckets /\ \A i \in DOMAIN bs : bs[i] = buckets[i]
  BY DEF Swept, prune
<1>3. IsFiniteSet(DOMAIN bs) /\ Cardinality(DOMAIN bs) \in Nat /\ Cardinality(DOMAIN bs) <= Capacity
  <2>1. IsFiniteSet(DOMAIN bs) /\ Cardinality(DOMAIN bs) <= Cardinality(DOMAIN buckets)
    BY <1>0, <1>2, FS_Subset
  <2>2. Cardinality(DOMAIN bs) \in Nat /\ Cardinality(DOMAIN buckets) \in Nat
    BY <1>0, <2>1, FS_CardinalityType
  <2> QED BY <1>0, <2>1, <2>2, RateConstants
<1>4. swept - age >= SweepEvery => \A i \in DOMAIN bs : bs[i].seen < IdleTTL + age
  BY <1>0, <1>1, RateConstants DEF Swept, prune
<1>5. swept - age < SweepEvery => bs = buckets
  BY <1>0, <1>1, RateConstants DEF Swept
<1>6. ASSUME NEW i \in Clients \ DOMAIN bs PROVE budget[i] = Depth
  <2>1. CASE i \notin DOMAIN buckets
    BY <2>1 DEF RateInv
  <2>2. CASE i \in DOMAIN buckets
    <3>1. buckets[i].tokens \in Nat /\ buckets[i].seen \in Nat
      BY <1>0, <1>1, <2>2, RateConstants
    <3>2. buckets[i].seen - age >= IdleTTL
      BY <1>6, <2>2, <3>1, RateConstants DEF Swept, prune
    <3>3. Rate * IdleTTL <= Rate * buckets[i].seen /\ Rate * buckets[i].seen \in Nat
      BY <3>1, <3>2, RateConstants, RateTimes
    <3>4. budget[i] >= Least(Depth, buckets[i].tokens + Rate * buckets[i].seen) /\ budget[i] <= Depth
      BY <2>2 DEF RateInv
    <3>5. budget[i] \in Int
      BY <1>6, Zenon DEF RateInv, RateTypeOK
    <3>6. Rate * IdleTTL \in Nat
      BY RateConstants, RateTimes
    <3>7. Depth \in Nat /\ Depth <= Rate * IdleTTL
      BY RateConstants
    <3>8. Depth <= buckets[i].tokens + Rate * buckets[i].seen
      BY <3>1, <3>3, <3>6, <3>7
    <3>9. Least(Depth, buckets[i].tokens + Rate * buckets[i].seen) = Depth
      BY <3>1, <3>3, <3>7, <3>8 DEF Least
    <3> QED BY <3>4, <3>5, <3>7, <3>9
  <2> QED BY <2>1, <2>2
<1> QED BY <1>2, <1>3, <1>4, <1>5, <1>6

\* AllowN: a bucket holds at most Full, and with the stamp's age no more than the
\* ideal one; a new one holds Full.
LEMMA HeldOK ==
  ASSUME RateInv, NEW age \in 0 .. MaxSkew, NEW i \in Clients
  PROVE  LET b == Bucket(Swept(age), i, age)
         IN  /\ b.tokens \in 0 .. Full /\ b.seen \in Nat
             /\ Held(b, age) \in 0 .. Full
             /\ Overlap(b, age) \in Nat
             /\ Rate * Overlap(b, age) \in Nat
             /\ budget[i] \in Int /\ budget[i] <= Depth
             /\ budget[i] + Rate * Overlap(b, age) >= Held(b, age) + Rate * age
<1> DEFINE bs == Swept(age)
           b == Bucket(bs, i, age)
<1>1. DOMAIN bs \subseteq DOMAIN buckets /\ (\A j \in DOMAIN bs : bs[j] = buckets[j])
      /\ (i \notin DOMAIN bs => budget[i] = Depth)
  BY SweptOK
<1>2. budget[i] \in Int /\ budget[i] <= Depth
  BY Zenon DEF RateInv, RateTypeOK
<1>3. b.tokens \in 0 .. Full /\ b.seen \in Nat
      /\ budget[i] >= Least(Depth, b.tokens + Rate * b.seen)
  <2>1. CASE i \in DOMAIN bs
    <3>1. b = buckets[i] /\ i \in DOMAIN buckets
      BY <2>1, <1>1 DEF Bucket
    <3>2. buckets[i] \in [tokens : 0 .. Full, seen : 0 .. Oldest]
          /\ budget[i] >= Least(Depth, buckets[i].tokens + Rate * buckets[i].seen)
      BY <3>1, Zenon DEF RateInv, RateTypeOK
    <3>3. Oldest \in Nat
      BY RateConstants DEF Oldest
    <3> QED BY <3>1, <3>2, <3>3
  <2>2. CASE i \notin DOMAIN bs
    <3>1. b = [tokens |-> Full, seen |-> age] /\ budget[i] = Depth
      BY <2>2, <1>1 DEF Bucket, New
    <3>2. Rate * age <= Rate * MaxSkew /\ Rate * age \in Nat /\ Rate * MaxSkew \in Nat
      BY RateTimes, RateConstants
    <3> QED BY <3>1, <3>2, RateConstants DEF Least
  <2> QED BY <2>1, <2>2
<1> DEFINE t == b.tokens
           n == b.seen
<1>4. Held(b, age) = (IF n > age THEN Least(Full, t + Rate * (n - age)) ELSE t)
      /\ Overlap(b, age) = (IF age > n THEN age - n ELSE 0)
  BY DEF Held, Overlap
<1> HIDE DEF t, n, b, bs
<1>5. t \in 0 .. Full /\ n \in Nat /\ budget[i] >= Least(Depth, t + Rate * n)
  BY <1>3 DEF t, n
<1>6. Rate * n \in Nat /\ Rate * age \in Nat /\ Rate * MaxSkew \in Nat /\ Rate * age <= Rate * MaxSkew
      /\ Rate * 0 = 0
  BY <1>5, RateTimes, RateConstants
<1>7. CASE n > age
  <2>1. Rate * (n - age) = Rate * n - Rate * age /\ Rate * age <= Rate * n
    BY <1>5, <1>7, RateTimes, RateConstants
  <2>2. Overlap(b, age) = 0 /\ Held(b, age) = Least(Full, t + Rate * n - Rate * age)
    BY <1>4, <1>5, <1>7, <2>1, <1>6, RateConstants
  <2>3. Held(b, age) \in 0 .. Full /\ Held(b, age) <= t + Rate * n - Rate * age
    BY <1>5, <1>6, <2>1, <2>2, RateConstants DEF Least
  <2>4. budget[i] >= Held(b, age) + Rate * age
    BY <1>2, <1>5, <1>6, <2>3, RateConstants DEF Least
  <2> QED BY <1>2, <1>3, <1>6, <2>2, <2>3, <2>4 DEF b, bs
<1>8. CASE ~(n > age)
  <2>1. Rate * (age - n) = Rate * age - Rate * n /\ Rate * n <= Rate * age
    BY <1>5, <1>8, RateTimes, RateConstants
  <2>2. Held(b, age) = t /\ Rate * Overlap(b, age) = Rate * age - Rate * n /\ Overlap(b, age) \in Nat
    BY <1>4, <1>5, <1>6, <1>8, <2>1, RateConstants
  <2>3. budget[i] + Rate * Overlap(b, age) >= t + Rate * age
    BY <1>2, <1>5, <1>6, <2>1, <2>2, RateConstants DEF Least
  <2> QED BY <1>2, <1>3, <1>5, <1>6, <2>1, <2>2, <2>3 DEF b, bs
<1> QED BY <1>7, <1>8

\* What a request on its way carries.
LEMMA StampType ==
  ASSUME NEW i \in Clients, NEW age \in 0 .. MaxSkew
  PROVE  [identity |-> i, age |-> age] \in [identity : Clients \cup {""}, age : 0 .. MaxSkew]
BY Zenon

\* A request on its way: its identity and the age of its stamp.
LEMMA StampedOK ==
  ASSUME RateInv, NEW r \in Calls, stamped[r] # NotStamped
  PROVE  stamped[r].identity \in Clients /\ stamped[r].age \in 0 .. MaxSkew
BY Zenon DEF RateInv, RateTypeOK

\* The clock: a second refills no more of a bucket than of the ideal one.
LEMMA RateTickInv == RateInv /\ RateTick => RateInv'
<1> SUFFICES ASSUME RateInv, RateTick PROVE RateInv'
  OBVIOUS
<1>0. RateTypeOK
  BY DEF RateInv
<1>1. DOMAIN buckets' = DOMAIN buckets
  BY DEF RateTick
<1>2. Oldest \in Nat /\ Never \in Nat /\ Waited \in Nat /\ Waited <= Oldest
  BY RateConstants DEF Oldest, Never, Waited
<1>3. ASSUME NEW i \in DOMAIN buckets
      PROVE  /\ buckets[i].tokens \in 0 .. Full /\ buckets[i].seen \in 0 .. Oldest
             /\ buckets'[i] = [tokens |-> buckets[i].tokens, seen |-> Least(buckets[i].seen + 1, Oldest)]
             /\ i \in Clients
  <2>1. buckets[i] \in [tokens : 0 .. Full, seen : 0 .. Oldest] /\ i \in Clients
    BY <1>0, Zenon DEF RateTypeOK
  <2>2. buckets'[i] = [buckets[i] EXCEPT !.seen = Least(@ + 1, Oldest)]
    BY DEF RateTick
  <2> QED BY <2>1, <2>2
<1>4. ASSUME NEW i \in Clients
      PROVE  /\ budget[i] \in Int /\ budget[i] <= Depth /\ budget'[i] = Least(Depth, budget[i] + Rate)
             /\ refused[i] \in 0 .. Waited + 1
             /\ refused'[i] = IF refused[i] = 0 THEN 0 ELSE Least(refused[i] + 1, Waited + 1)
  BY <1>0, Zenon DEF RateTypeOK, RateInv, RateTick
<1>5. swept \in 0 .. Never /\ swept' = Least(swept + 1, Never)
  BY <1>0, Zenon DEF RateTypeOK, RateTick
<1>6. ASSUME NEW r \in Calls
      PROVE  /\ stamped'[r] \in [identity : Clients \cup {""}, age : 0 .. MaxSkew]
             /\ stamped'[r] = NotStamped \/ stamped'[r].identity \in Clients
  <2>1. CASE stamped[r] = NotStamped
    <3>1. stamped'[r] = NotStamped
      BY <2>1 DEF RateTick
    <3>2. NotStamped \in [identity : Clients \cup {""}, age : 0 .. MaxSkew]
      BY RateNats DEF NotStamped
    <3> QED BY <3>1, <3>2, Zenon
  <2>2. CASE stamped[r] # NotStamped
    <3>1. stamped[r] \in [identity : Clients \cup {""}, age : 0 .. MaxSkew]
          /\ stamped[r].identity \in Clients
      BY <2>2, <1>0, Zenon DEF RateTypeOK, RateInv
    <3>2. stamped'[r] = [stamped[r] EXCEPT !.age = @ + 1] /\ stamped[r].age < MaxSkew
      BY <2>2 DEF RateTick
    <3>3. stamped'[r] = [identity |-> stamped[r].identity, age |-> stamped[r].age + 1]
      BY <3>1, <3>2, Zenon
    <3>4. stamped[r].age \in 0 .. MaxSkew
      BY <3>1, Zenon
    <3>5. stamped[r].age + 1 \in 0 .. MaxSkew
      BY <3>2, <3>4, RateNats
    <3>6. stamped[r].identity \in Clients
      BY <3>1, Zenon
    <3>7. stamped'[r] \in [identity : Clients \cup {""}, age : 0 .. MaxSkew]
      BY <3>3, <3>5, <3>6, StampType, Zenon
    <3>8. stamped'[r].identity = stamped[r].identity
      BY <3>3
    <3> QED BY <3>6, <3>7, <3>8, Zenon
  <2> QED BY <2>1, <2>2, Zenon
<1>7. RateTypeOK'
  <2>1. DOMAIN buckets' \subseteq Clients /\ Cardinality(DOMAIN buckets') <= Capacity
    BY <1>0, <1>1, Zenon DEF RateTypeOK
  <2>2. ASSUME NEW i \in DOMAIN buckets PROVE buckets'[i] \in [tokens : 0 .. Full, seen : 0 .. Oldest]
    <3>1. /\ buckets[i].tokens \in 0 .. Full /\ buckets[i].seen \in 0 .. Oldest
          /\ buckets'[i] = [tokens |-> buckets[i].tokens, seen |-> Least(buckets[i].seen + 1, Oldest)]
      BY <1>3
    <3>2. Least(buckets[i].seen + 1, Oldest) \in 0 .. Oldest
      BY <1>2, <3>1 DEF Least
    <3> QED BY <3>1, <3>2
  <2>3. swept' \in 0 .. Never
    BY <1>2, <1>5 DEF Least
  <2>4. stamped' \in [Calls -> [identity : Clients \cup {""}, age : 0 .. MaxSkew]]
    BY <1>6, Zenon DEF RateTick
  <2>5. budget' \in [Clients -> Int]
    BY <1>4, RateConstants DEF RateTick, Least
  <2>6. refused' \in [Clients -> 0 .. Waited + 1]
    <3>1. ASSUME NEW i \in Clients PROVE refused'[i] \in 0 .. Waited + 1
      BY <1>2, <1>4 DEF Least
    <3> QED BY <3>1 DEF RateTick
  <2> QED BY <1>1, <2>1, <2>2, <2>3, <2>4, <2>5, <2>6, Zenon DEF RateTypeOK
<1>8. \A i \in Clients : budget'[i] <= Depth
  BY <1>4, RateConstants DEF Least
<1>9. \A i \in Clients \ DOMAIN buckets' : budget'[i] = Depth
  BY <1>1, <1>4, RateConstants DEF Least, RateInv
<1>10. ASSUME NEW i \in DOMAIN buckets
       PROVE  /\ budget'[i] >= Least(Depth, buckets'[i].tokens + Rate * buckets'[i].seen)
              /\ swept' < Never => buckets'[i].seen < IdleTTL + swept'
              /\ refused'[i] > 0 => refused'[i] - 1 <= buckets'[i].seen
  <2> DEFINE n == buckets[i].seen
  <2>1. /\ budget[i] >= Least(Depth, buckets[i].tokens + Rate * n)
        /\ swept < Never => n < IdleTTL + swept
        /\ refused[i] > 0 => refused[i] - 1 <= n
    BY <1>10 DEF RateInv
  <2>2. n \in Nat /\ n <= Oldest /\ buckets[i].tokens \in Nat /\ buckets'[i].tokens = buckets[i].tokens
        /\ buckets'[i].seen = Least(n + 1, Oldest)
    <3>1. /\ buckets[i].tokens \in 0 .. Full /\ buckets[i].seen \in 0 .. Oldest
          /\ buckets'[i] = [tokens |-> buckets[i].tokens, seen |-> Least(buckets[i].seen + 1, Oldest)]
      BY <1>3, <1>10
    <3> QED BY <3>1, RateNats
  <2> HIDE DEF n
  <2>3. Least(n + 1, Oldest) \in Nat /\ Least(n + 1, Oldest) <= n + 1
    BY <1>2, <2>2 DEF Least
  <2>4. Rate * Least(n + 1, Oldest) <= Rate * (n + 1) /\ Rate * (n + 1) = Rate * n + Rate
        /\ Rate * n \in Nat /\ Rate * Least(n + 1, Oldest) \in Nat
    BY <2>2, <2>3, RateTimes
  <2>5. budget[i] \in Int /\ budget'[i] = Least(Depth, budget[i] + Rate)
    BY <1>3, <1>4, <1>10, Zenon
  <2>6. budget'[i] >= Least(Depth, buckets'[i].tokens + Rate * buckets'[i].seen)
    BY <2>1, <2>2, <2>4, <2>5, RateConstants DEF Least
  <2>7. swept' < Never => buckets'[i].seen < IdleTTL + swept'
    BY <1>2, <1>5, <2>1, <2>2, <2>3, RateConstants DEF Least
  <2>8. refused'[i] > 0 => refused'[i] - 1 <= buckets'[i].seen
    <3>1. i \in Clients
      BY <1>3, <1>10, Zenon
    <3>2. refused[i] \in 0 .. Waited + 1
          /\ refused'[i] = IF refused[i] = 0 THEN 0 ELSE Least(refused[i] + 1, Waited + 1)
      BY <3>1, <1>4
    <3> QED BY <1>2, <3>2, <2>1, <2>2 DEF Least
  <2> QED BY <2>6, <2>7, <2>8
<1>11. IsFiniteSet(DOMAIN buckets')
  BY <1>1, Zenon DEF RateInv
<1> QED BY <1>1, <1>6, <1>7, <1>8, <1>9, <1>10, <1>11, Zenon DEF RateInv, Depth, Full, Never, NotStamped

\* Allow, whatever it decides: the parts of the state every decision changes alike.
LEMMA AllowFrame ==
  ASSUME RateInv, NEW r \in Calls, Allow(r)
  PROVE  /\ stamped' \in [Calls -> [identity : Clients \cup {""}, age : 0 .. MaxSkew]]
         /\ \A q \in Calls : stamped'[q] = NotStamped \/ stamped'[q].identity \in Clients
         /\ swept' \in 0 .. Never
         /\ \A i \in DOMAIN Swept(stamped[r].age) :
              swept' < Never => buckets[i].seen < IdleTTL + swept'
         /\ stamped[r].age < IdleTTL + swept'
<1> DEFINE age == stamped[r].age
<1>1. age \in 0 .. MaxSkew /\ stamped[r] # NotStamped
  BY StampedOK DEF Allow
<1>2. swept \in 0 .. Never /\ swept' = IF swept - age >= SweepEvery THEN age ELSE swept
  BY Zenon DEF RateInv, RateTypeOK, Allow
<1>3. stamped' = [stamped EXCEPT ![r] = NotStamped]
  BY DEF Allow
<1>4. NotStamped \in [identity : Clients \cup {""}, age : 0 .. MaxSkew]
  BY RateConstants DEF NotStamped
<1>5. stamped \in [Calls -> [identity : Clients \cup {""}, age : 0 .. MaxSkew]]
      /\ \A q \in Calls : stamped[q] = NotStamped \/ stamped[q].identity \in Clients
  BY Zenon DEF RateInv, RateTypeOK
<1>6. swept' \in 0 .. Never /\ age < IdleTTL + swept'
  BY <1>1, <1>2, RateNats
<1>7. ASSUME NEW i \in DOMAIN Swept(age), swept' < Never PROVE buckets[i].seen < IdleTTL + swept'
  <2>1. /\ DOMAIN Swept(age) \subseteq DOMAIN buckets
        /\ Swept(age)[i] = buckets[i]
        /\ swept - age >= SweepEvery => Swept(age)[i].seen < IdleTTL + age
    BY <1>1, <1>7, SweptOK, Zenon
  <2>2. swept < Never => buckets[i].seen < IdleTTL + swept
    BY <1>7, <2>1 DEF RateInv
  <2> QED BY <1>1, <1>2, <1>7, <2>1, <2>2, RateNats, Zenon
<1>8. /\ stamped' \in [Calls -> [identity : Clients \cup {""}, age : 0 .. MaxSkew]]
      /\ \A q \in Calls : stamped'[q] = NotStamped \/ stamped'[q].identity \in Clients
  BY <1>3, <1>4, <1>5, Zenon
<1> QED BY <1>6, <1>7, <1>8, Zenon

\* A request is stamped.
LEMMA StampInv == ASSUME RateInv, NEW r \in Calls, NEW i \in Clients, Stamp(r, i) PROVE RateInv'
<1>1. [identity |-> i, age |-> 0] \in [identity : Clients \cup {""}, age : 0 .. MaxSkew]
  <2>1. 0 \in 0 .. MaxSkew
    BY RateNats
  <2> QED BY <2>1, StampType, Zenon
<1>2. stamped' = [stamped EXCEPT ![r] = [identity |-> i, age |-> 0]]
      /\ UNCHANGED <<buckets, swept, budget, refused>>
  BY DEF Stamp
<1>3. stamped' \in [Calls -> [identity : Clients \cup {""}, age : 0 .. MaxSkew]]
  BY <1>1, <1>2, Zenon DEF RateInv, RateTypeOK
<1>4. \A q \in Calls : stamped'[q] = NotStamped \/ stamped'[q].identity \in Clients
  BY <1>2, Zenon DEF RateInv, RateTypeOK
<1>5. RateTypeOK'
  BY <1>2, <1>3, Zenon DEF RateInv, RateTypeOK
<1> QED BY <1>2, <1>4, <1>5, Zenon DEF RateInv, NotStamped

\* Allow grants: the bucket and the ideal one both pay, and where a stamp arrived
\* late the ideal one is credited what the bucket is.
LEMMA GrantInv ==
  ASSUME RateInv, NEW r \in Calls, Allow(r),
         Grant(stamped[r].identity, stamped[r].age, Swept(stamped[r].age))
  PROVE  RateInv'
<1> DEFINE i == stamped[r].identity
           age == stamped[r].age
           bs == Swept(age)
           b == Bucket(bs, i, age)
           worth == Held(b, age)
<1>1. i \in Clients /\ age \in 0 .. MaxSkew
  BY StampedOK, Zenon DEF Allow
<1>2. /\ DOMAIN bs \subseteq DOMAIN buckets
      /\ \A j \in DOMAIN bs : bs[j] = buckets[j]
      /\ IsFiniteSet(DOMAIN bs) /\ Cardinality(DOMAIN bs) \in Nat
      /\ Cardinality(DOMAIN bs) <= Capacity
      /\ \A j \in Clients \ DOMAIN bs : budget[j] = Depth
  BY <1>1, SweptOK, Zenon
<1>3. /\ worth \in 0 .. Full
      /\ Rate * Overlap(b, age) \in Nat
      /\ budget[i] \in Int /\ budget[i] <= Depth
      /\ budget[i] + Rate * Overlap(b, age) >= worth + Rate * age
  BY <1>1, HeldOK, Zenon
<1>4. /\ Known(bs, i) /\ worth >= Cost
      /\ buckets' = [j \in DOMAIN bs \cup {i} |->
                       IF j = i THEN [tokens |-> worth - Cost, seen |-> age] ELSE bs[j]]
      /\ budget' = [budget EXCEPT ![i] = Least(Depth, @ - Cost + Rate * Overlap(b, age))]
      /\ refused' = [refused EXCEPT ![i] = 0]
  BY DEF Grant
<1>5. /\ stamped' \in [Calls -> [identity : Clients \cup {""}, age : 0 .. MaxSkew]]
      /\ \A q \in Calls : stamped'[q] = NotStamped \/ stamped'[q].identity \in Clients
      /\ swept' \in 0 .. Never
      /\ \A j \in DOMAIN bs : swept' < Never => buckets[j].seen < IdleTTL + swept'
      /\ age < IdleTTL + swept'
  BY AllowFrame, Zenon
<1>6. /\ DOMAIN buckets \subseteq Clients
      /\ \A j \in DOMAIN buckets : buckets[j] \in [tokens : 0 .. Full, seen : 0 .. Oldest]
      /\ budget \in [Clients -> Int] /\ refused \in [Clients -> 0 .. Waited + 1]
  BY Zenon DEF RateInv, RateTypeOK
<1> HIDE DEF i, age, bs, b, worth
<1>7. DOMAIN buckets' = DOMAIN bs \cup {i} /\ buckets'[i] = [tokens |-> worth - Cost, seen |-> age]
      /\ \A j \in DOMAIN bs : j # i => buckets'[j] = buckets[j]
  BY <1>2, <1>4, Zenon
<1>8. /\ budget'[i] = Least(Depth, budget[i] - Cost + Rate * Overlap(b, age)) /\ refused'[i] = 0
      /\ \A j \in Clients : j # i => budget'[j] = budget[j] /\ refused'[j] = refused[j]
  BY <1>1, <1>4, <1>6, Zenon
<1>9. IsFiniteSet(DOMAIN buckets') /\ Cardinality(DOMAIN buckets') <= Capacity
  <2>1. CASE i \in DOMAIN bs
    <3>1. DOMAIN buckets' = DOMAIN bs
      BY <1>7, <2>1, Zenon
    <3> QED BY <1>2, <3>1
  <2>2. CASE i \notin DOMAIN bs
    <3>1. Cardinality(DOMAIN bs) < Capacity
      BY <1>4, <2>2, Zenon DEF Known
    <3>2. IsFiniteSet(DOMAIN bs \cup {i}) /\ Cardinality(DOMAIN bs \cup {i}) = Cardinality(DOMAIN bs) + 1
      BY <1>2, <2>2, FS_AddElement, Zenon
    <3> QED BY <1>2, <1>7, <3>1, <3>2, RateConstants
  <2> QED BY <2>1, <2>2
<1>10. Rate * age \in Nat /\ Rate * age <= Rate * MaxSkew /\ Rate * MaxSkew \in Nat
  BY <1>1, RateTimes, RateConstants
<1>11. budget'[i] \in Int /\ budget'[i] <= Depth
       /\ budget'[i] >= Least(Depth, worth - Cost + Rate * age)
  BY <1>3, <1>4, <1>8, <1>10, RateConstants DEF Least
<1>12. RateTypeOK'
  <2>1. [tokens |-> worth - Cost, seen |-> age] \in [tokens : 0 .. Full, seen : 0 .. Oldest]
    BY <1>1, <1>3, <1>4, RateConstants DEF Oldest
  <2>2. \A j \in DOMAIN buckets' : buckets'[j] \in [tokens : 0 .. Full, seen : 0 .. Oldest]
    BY <1>2, <1>6, <1>7, <2>1
  <2>3. budget' \in [Clients -> Int]
    BY <1>4, <1>6, <1>8, <1>11, Zenon
  <2>4. refused' \in [Clients -> 0 .. Waited + 1]
    <3>1. 0 \in 0 .. Waited + 1
      BY RateNats
    <3> QED BY <1>4, <1>6, <3>1, Zenon
  <2>5. DOMAIN buckets' \subseteq Clients
    BY <1>1, <1>2, <1>6, <1>7
  <2> QED BY <1>5, <1>9, <2>2, <2>3, <2>4, <2>5, Zenon DEF RateTypeOK
<1>13. \A j \in Clients : budget'[j] <= Depth
  BY <1>8, <1>11, Zenon DEF RateInv
<1>14. \A j \in Clients \ DOMAIN buckets' : budget'[j] = Depth
  BY <1>2, <1>7, <1>8
<1>15. ASSUME NEW j \in DOMAIN buckets'
       PROVE  /\ budget'[j] >= Least(Depth, buckets'[j].tokens + Rate * buckets'[j].seen)
              /\ swept' < Never => buckets'[j].seen < IdleTTL + swept'
              /\ refused'[j] > 0 => refused'[j] - 1 <= buckets'[j].seen
  <2>1. CASE j = i
    <3>1. buckets'[j].tokens = worth - Cost /\ buckets'[j].seen = age
      BY <1>7, <2>1
    <3>2. refused'[j] = 0 /\ budget'[j] >= Least(Depth, worth - Cost + Rate * age)
      BY <1>8, <1>11, <2>1
    <3>3. buckets'[j].seen < IdleTTL + swept'
      BY <1>5, <3>1, Zenon
    <3>4. ~(refused'[j] > 0)
      BY <3>2
    <3> QED BY <3>1, <3>2, <3>3, <3>4
  <2>2. CASE j # i
    <3>1. j \in DOMAIN bs /\ j \in DOMAIN buckets /\ j \in Clients
      BY <1>2, <1>6, <1>7, <1>15, <2>2
    <3>2. buckets'[j] = buckets[j] /\ budget'[j] = budget[j] /\ refused'[j] = refused[j]
      BY <1>7, <1>8, <2>2, <3>1, Zenon
    <3>3. /\ budget[j] >= Least(Depth, buckets[j].tokens + Rate * buckets[j].seen)
          /\ refused[j] > 0 => refused[j] - 1 <= buckets[j].seen
      BY <3>1, Zenon DEF RateInv
    <3> QED BY <1>5, <3>1, <3>2, <3>3, Zenon
  <2> QED BY <2>1, <2>2
<1> QED BY <1>5, <1>9, <1>12, <1>13, <1>14, <1>15, Zenon DEF RateInv, NotStamped, Depth, Full, Never

\* Allow refuses: the sweep may have forgotten others, the budget stays.  A new
\* identity is never refused for its rate.
LEMMA RefuseInv ==
  ASSUME RateInv, NEW r \in Calls, Allow(r),
         \/ RefuseRate(stamped[r].identity, stamped[r].age, Swept(stamped[r].age))
         \/ RefuseCapacity(stamped[r].identity, stamped[r].age, Swept(stamped[r].age))
  PROVE  RateInv'
<1> DEFINE i == stamped[r].identity
           age == stamped[r].age
           bs == Swept(age)
<1>1. i \in Clients /\ age \in 0 .. MaxSkew
  BY StampedOK, Zenon DEF Allow
<1>2. /\ DOMAIN bs \subseteq DOMAIN buckets
      /\ \A j \in DOMAIN bs : bs[j] = buckets[j]
      /\ IsFiniteSet(DOMAIN bs) /\ Cardinality(DOMAIN bs) <= Capacity
      /\ \A j \in Clients \ DOMAIN bs : budget[j] = Depth
  BY <1>1, SweptOK
<1>3. /\ buckets' = bs /\ budget' = budget
      /\ \/ refused' = [refused EXCEPT ![i] = IF @ = 0 THEN 1 ELSE @]
         \/ refused' = refused
  BY DEF RefuseRate, RefuseCapacity
<1>4. /\ stamped' \in [Calls -> [identity : Clients \cup {""}, age : 0 .. MaxSkew]]
      /\ \A q \in Calls : stamped'[q] = NotStamped \/ stamped'[q].identity \in Clients
      /\ swept' \in 0 .. Never
      /\ \A j \in DOMAIN bs : swept' < Never => buckets[j].seen < IdleTTL + swept'
  BY AllowFrame, Zenon
<1>5. /\ DOMAIN buckets \subseteq Clients
      /\ \A j \in DOMAIN buckets : buckets[j] \in [tokens : 0 .. Full, seen : 0 .. Oldest]
      /\ budget \in [Clients -> Int] /\ refused \in [Clients -> 0 .. Waited + 1]
  BY Zenon DEF RateInv, RateTypeOK
<1> HIDE DEF i, age, bs
<1>6. \A j \in Clients : /\ refused[j] \in 0 .. Waited + 1 /\ refused'[j] \in 0 .. Waited + 1
                         /\ refused'[j] = refused[j] \/ (refused[j] = 0 /\ refused'[j] = 1)
  <2>1. 1 \in 0 .. Waited + 1
    BY RateNats
  <2> QED BY <1>1, <1>3, <1>5, <2>1
<1>7. refused' \in [Clients -> 0 .. Waited + 1]
  <2>1. DOMAIN refused' = Clients /\ refused' = [j \in Clients |-> refused'[j]]
    BY <1>3, <1>5
  <2> QED BY <1>6, <2>1
<1>8. RateTypeOK'
  BY <1>2, <1>3, <1>4, <1>5, <1>7, Zenon DEF RateTypeOK
<1>9. ASSUME NEW j \in DOMAIN buckets'
      PROVE  /\ budget'[j] >= Least(Depth, buckets'[j].tokens + Rate * buckets'[j].seen)
             /\ swept' < Never => buckets'[j].seen < IdleTTL + swept'
             /\ refused'[j] > 0 => refused'[j] - 1 <= buckets'[j].seen
  <2>1. j \in DOMAIN bs /\ j \in DOMAIN buckets /\ j \in Clients /\ buckets'[j] = buckets[j]
    BY <1>2, <1>3, <1>5, <1>9, Zenon
  <2>2. /\ budget[j] >= Least(Depth, buckets[j].tokens + Rate * buckets[j].seen)
        /\ refused[j] > 0 => refused[j] - 1 <= buckets[j].seen
    BY <2>1 DEF RateInv
  <2>3. buckets[j].seen \in Nat
    <3>1. buckets[j].seen \in 0 .. Oldest
      BY <1>5, <2>1
    <3> QED BY <3>1, RateNats
  <2>4. swept' < Never => buckets'[j].seen < IdleTTL + swept'
    BY <1>4, <2>1, Zenon
  <2>5. refused'[j] > 0 => refused'[j] - 1 <= buckets'[j].seen
    <3>1. /\ refused[j] \in 0 .. Waited + 1
          /\ refused'[j] = refused[j] \/ (refused[j] = 0 /\ refused'[j] = 1)
      BY <1>6, <2>1
    <3> QED BY <2>1, <2>2, <2>3, <3>1
  <2> QED BY <1>3, <2>1, <2>2, <2>4, <2>5, Zenon
<1> QED BY <1>2, <1>3, <1>4, <1>8, <1>9, Zenon DEF RateInv, NotStamped, Depth, Full, Never

\* Every step of the limiter keeps it.
LEMMA RateStep == RateInv /\ [RateNext]_rateVars => RateInv'
<1> SUFFICES ASSUME RateInv, [RateNext]_rateVars PROVE RateInv'
  OBVIOUS
<1>1. ASSUME NEW r \in Calls, NEW i \in Clients, Stamp(r, i) PROVE RateInv'
  BY <1>1, StampInv
<1>2. ASSUME NEW r \in Calls, Allow(r) PROVE RateInv'
  <2>1. \/ Grant(stamped[r].identity, stamped[r].age, Swept(stamped[r].age))
        \/ RefuseRate(stamped[r].identity, stamped[r].age, Swept(stamped[r].age))
        \/ RefuseCapacity(stamped[r].identity, stamped[r].age, Swept(stamped[r].age))
    BY <1>2 DEF Allow
  <2> QED BY <1>2, <2>1, GrantInv, RefuseInv, Zenon
<1>3. CASE UNCHANGED rateVars
  BY <1>3, Zenon DEF rateVars, RateInv, RateTypeOK, NotStamped
<1> QED BY <1>1, <1>2, <1>3, RateTickInv DEF RateNext

\* At the start every bucket would be full.
LEMMA RateStart == RateInit => RateInv
<1> SUFFICES ASSUME RateInit PROVE RateInv
  OBVIOUS
<1>1. DOMAIN buckets = {} /\ IsFiniteSet(DOMAIN buckets) /\ Cardinality(DOMAIN buckets) = 0
  BY FS_EmptySet DEF RateInit
<1>2. stamped \in [Calls -> [identity : Clients \cup {""}, age : 0 .. MaxSkew]]
  <2>1. NotStamped \in [identity : Clients \cup {""}, age : 0 .. MaxSkew]
    BY RateNats DEF NotStamped
  <2> QED BY <2>1, Zenon DEF RateInit
<1>3. RateTypeOK
  <2>1. Never \in 0 .. Never /\ 0 \in 0 .. Waited + 1 /\ Depth \in Int /\ 0 <= Capacity
    BY RateConstants, RateNats
  <2>2. budget \in [Clients -> Int] /\ refused \in [Clients -> 0 .. Waited + 1] /\ swept \in 0 .. Never
    BY <2>1 DEF RateInit
  <2> QED BY <1>1, <1>2, <2>1, <2>2, Zenon DEF RateTypeOK
<1> QED BY <1>1, <1>3, RateConstants DEF RateInit, RateInv

\* identityRateLimiter: whatever the rate, the burst, the capacity and the order
\* requests reach the lock in, the limiter grants no more than an ideal bucket.
THEOREM RateStaysBounded == RateSpec => []RateBounded
<1>1. RateInv => RateBounded
  <2> SUFFICES ASSUME RateInv, NEW i \in Clients PROVE budget[i] >= 0
    BY DEF RateBounded, RateInv
  <2>1. CASE i \notin DOMAIN buckets
    BY <2>1, RateConstants DEF RateInv
  <2>2. CASE i \in DOMAIN buckets
    <3>1. /\ buckets[i].tokens \in 0 .. Full /\ buckets[i].seen \in 0 .. Oldest
          /\ budget[i] >= Least(Depth, buckets[i].tokens + Rate * buckets[i].seen)
          /\ budget[i] \in Int
      BY <2>2, Zenon DEF RateInv, RateTypeOK
    <3>2. buckets[i].seen \in Nat /\ buckets[i].tokens \in Nat
      BY <3>1, RateNats
    <3>3. Rate * buckets[i].seen \in Nat
      BY <3>2, RateTimes, Zenon
    <3> QED BY <3>1, <3>2, <3>3, RateConstants DEF Least
  <2> QED BY <2>1, <2>2, Zenon
<1> QED BY <1>1, RateStart, RateStep, PTL DEF RateSpec

\* The request a step takes off its way to the lock is the one Allow answers.
LEMMA AnsweredByAllow ==
  ASSUME RateInv, RateNext, NEW r \in Calls, stamped[r] # NotStamped, stamped'[r] = NotStamped
  PROVE  Allow(r)
<1>0. stamped \in [Calls -> [identity : Clients \cup {""}, age : 0 .. MaxSkew]]
  BY Zenon DEF RateInv, RateTypeOK
<1>1. ASSUME NEW q \in Calls, NEW i \in Clients, Stamp(q, i) PROVE FALSE
  BY <1>0, <1>1, Zenon DEF Stamp
<1>2. ASSUME NEW q \in Calls, Allow(q) PROVE q = r
  BY <1>0, <1>2, Zenon DEF Allow
<1>3. ASSUME RateTick PROVE FALSE
  <2>1. stamped'[r] = [stamped[r] EXCEPT !.age = @ + 1]
    BY <1>3 DEF RateTick
  <2>2. stamped[r] \in [identity : Clients \cup {""}, age : 0 .. MaxSkew]
    BY <1>0, Zenon
  <2>3. stamped[r].age \in 0 .. MaxSkew
    BY StampedOK
  <2>4. stamped'[r].age = stamped[r].age + 1
    BY <2>1, <2>2, Zenon
  <2>5. NotStamped.age = 0
    BY Zenon DEF NotStamped
  <2> QED BY <2>3, <2>4, <2>5, RateNats
<1> QED BY <1>1, <1>2, <1>3 DEF RateNext

\* Retry-After: after a refusal, a bucket gains the price of a request in that time.
LEMMA RetryGranted ==
  ASSUME RateInv, NEW r \in Calls, Allow(r),
         refused[stamped[r].identity] > 0,
         refused[stamped[r].identity] - 1 - stamped[r].age >= RetryAfterSeconds
  PROVE  refused'[stamped[r].identity] = 0 \/ ~Known(buckets', stamped[r].identity)
<1> DEFINE i == stamped[r].identity
           age == stamped[r].age
           bs == Swept(age)
           b == Bucket(bs, i, age)
<1>1. i \in Clients /\ age \in 0 .. MaxSkew
  BY StampedOK DEF Allow
<1>2. refused \in [Clients -> 0 .. Waited + 1]
  BY ZenonT(30) DEF RateInv, RateTypeOK
<1>3. CASE Grant(i, age, bs)
  BY <1>1, <1>2, <1>3 DEF Grant
<1>4. CASE RefuseCapacity(i, age, bs)
  BY <1>4, Zenon DEF RefuseCapacity
<1>5. CASE RefuseRate(i, age, bs)
  <2> SUFFICES Held(b, age) >= Cost
    <3>1. Held(b, age) < Cost
      BY <1>5, Zenon DEF RefuseRate
    <3>2. Held(b, age) \in 0 .. Full
      BY <1>1, HeldOK, Zenon
    <3> QED BY <3>1, <3>2, RateConstants
  <2>1. /\ DOMAIN bs \subseteq DOMAIN buckets
        /\ \A j \in DOMAIN bs : bs[j] = buckets[j]
    BY <1>1, SweptOK, Zenon
  <2>2. CASE i \notin DOMAIN bs
    <3>1. b = [tokens |-> Full, seen |-> age]
      BY <2>2, ZenonT(30) DEF Bucket, New
    <3>2. b.tokens = Full /\ b.seen = age
      BY <3>1
    <3>3. Held(b, age) = Full
      BY <1>1, <3>2, RateNats DEF Held
    <3> QED BY <3>3, RateConstants
  <2>3. CASE i \in DOMAIN bs
    <3>1. b = buckets[i] /\ i \in DOMAIN buckets
      BY <2>1, <2>3, Zenon DEF Bucket
    <3>2. /\ b.tokens \in 0 .. Full /\ b.seen \in Nat
      BY <1>1, HeldOK, Zenon
    <3>3. refused[i] - 1 <= b.seen
      BY <3>1 DEF RateInv
    <3>4. refused[i] \in Nat
      BY <1>1, <1>2, RateNats
    <3> DEFINE n == b.seen
               t == b.tokens
    <3>5. Held(b, age) = (IF n > age THEN Least(Full, t + Rate * (n - age)) ELSE t)
      BY DEF Held
    <3> HIDE DEF n, t, b, bs
    <3>6. n \in Nat /\ t \in 0 .. Full /\ n - age >= RetryAfterSeconds /\ n > age /\ n - age \in Nat
      BY <1>1, <3>2, <3>3, <3>4, RateConstants DEF n, t
    <3>7. Rate * (n - age) >= Rate * RetryAfterSeconds /\ Rate * (n - age) \in Nat
          /\ Rate * RetryAfterSeconds \in Nat
      BY <3>6, RateTimes, RateConstants, Zenon
    <3> QED BY <3>5, <3>6, <3>7, RateConstants DEF Least
  <2> QED BY <2>2, <2>3, ZenonT(30)
<1> QED BY <1>3, <1>4, <1>5, Zenon DEF Allow

\* Turned away for capacity: whoever is remembered was granted a request lately.
LEMMA TurnedAwayWhenFull ==
  ASSUME RateInv, NEW r \in Calls, Allow(r), ~Known(buckets', stamped[r].identity),
         NEW j \in DOMAIN buckets'
  PROVE  buckets'[j].seen <= IdleTTL + SweepEvery + MaxSkew
<1> DEFINE i == stamped[r].identity
           age == stamped[r].age
           bs == Swept(age)
<1>1. i \in Clients /\ age \in 0 .. MaxSkew
  BY StampedOK DEF Allow
<1>2. buckets' = bs
  <2>1. CASE Grant(i, age, bs)
    <3>1. i \in DOMAIN buckets'
      BY <2>1 DEF Grant
    <3> QED BY <3>1 DEF Known
  <2>2. CASE RefuseRate(i, age, bs)
    BY <2>2 DEF RefuseRate
  <2>3. CASE RefuseCapacity(i, age, bs)
    BY <2>3 DEF RefuseCapacity
  <2> QED BY <2>1, <2>2, <2>3 DEF Allow
<1>3. /\ DOMAIN bs \subseteq DOMAIN buckets
      /\ bs[j] = buckets[j]
      /\ swept - age >= SweepEvery => bs[j].seen < IdleTTL + age
  BY <1>1, <1>2, SweptOK
<1>4. swept < Never => buckets[j].seen < IdleTTL + swept
  BY <1>2, <1>3 DEF RateInv
<1>5. swept \in 0 .. Never /\ buckets[j].seen \in 0 .. Oldest
  BY <1>2, <1>3, Zenon DEF RateInv, RateTypeOK
<1> QED BY <1>1, <1>2, <1>3, <1>4, <1>5, RateNats

\* identityRateLimiter.Allow: a refusal always has its cause, for every rate and
\* capacity: who waits Retry-After is served, and who is turned away for capacity
\* met as many identities that were granted requests lately.
THEOREM RefusalsHaveCause == RateSpec => RefusedWithCause
<1>1. RateSpec => []RateInv
  BY RateStart, RateStep, PTL DEF RateSpec
<1>2. RateInv /\ [RateNext]_rateVars =>
        [\A r \in Calls :
           LET i == stamped[r].identity
           IN  /\ stamped[r] # NotStamped
               /\ stamped'[r] = NotStamped
               /\ refused[i] > 0
               /\ refused[i] - 1 - stamped[r].age >= RetryAfterSeconds
               => refused'[i] = 0 \/ ~Known(buckets', i)]_rateVars
  BY AnsweredByAllow, RetryGranted
<1>3. RateInv /\ [RateNext]_rateVars =>
        [\A r \in Calls :
           /\ stamped[r] # NotStamped
           /\ stamped'[r] = NotStamped
           /\ ~Known(buckets', stamped[r].identity)
           => \A i \in DOMAIN buckets' :
                buckets'[i].seen <= IdleTTL + SweepEvery + MaxSkew]_rateVars
  BY AnsweredByAllow, TurnedAwayWhenFull
<1>4. RateSpec => RetryAfterSuffices
  BY <1>1, <1>2, PTL DEF RateSpec, RetryAfterSuffices
<1>5. RateSpec => TurnedAwayOnlyWhenFull
  BY <1>1, <1>3, PTL DEF RateSpec, TurnedAwayOnlyWhenFull
<1> QED BY <1>4, <1>5 DEF RefusedWithCause

-----------------------------------------------------------------------------
(* Admission.                                                              *)

\* The counts are cardinalities of sets of requests; those are finite because an
\* admitted request holds one of finitely many slots.
AdmissionInv ==
  /\ stage \in [Requests -> Stages]
  /\ identity \in [Requests -> Identities]
  /\ IsFiniteSet(semaphore) /\ Cardinality(semaphore) <= MaxConcurrent
  /\ Nested
  /\ SharesExact
  /\ \A i \in Identities : Cardinality(Admitted(i)) <= perIdentity

\* What acquireIdentity and releaseIdentity read is the number of admitted requests.
LEMMA CountAdmitted ==
  ASSUME AdmissionInv, NEW i \in Identities
  PROVE  /\ IsFiniteSet(Admitted(i)) /\ Cardinality(Admitted(i)) \in Nat
         /\ Count(i) = Cardinality(Admitted(i))
         /\ i \in DOMAIN identities <=> Admitted(i) # {}
<1>1. Admitted(i) \subseteq semaphore
  BY DEF AdmissionInv, Nested, Admitted
<1>2. IsFiniteSet(Admitted(i)) /\ Cardinality(Admitted(i)) \in Nat
  BY <1>1, FS_Subset, FS_CardinalityType DEF AdmissionInv
<1>3. i \in DOMAIN identities <=> Admitted(i) # {}
  BY DEF AdmissionInv, SharesExact
<1>4. Admitted(i) = {} => Cardinality(Admitted(i)) = 0
  BY FS_EmptySet, Zenon
<1> QED
  BY <1>2, <1>3, <1>4 DEF AdmissionInv, SharesExact, Count

\* Steps that admit and dismiss nobody leave the shares alone.
LEMMA SameAdmitted ==
  ASSUME AdmissionInv, UNCHANGED identities,
         \A r \in Requests :
           /\ stage'[r] \in {"serving", "returning"} <=> stage[r] \in {"serving", "returning"}
           /\ stage[r] \in {"serving", "returning"} => identity'[r] = identity[r]
  PROVE  /\ SharesExact'
         /\ \A i \in Identities : Cardinality(Admitted(i))' <= perIdentity
<1>1. ASSUME NEW i \in Identities PROVE Admitted(i)' = Admitted(i)
  BY DEF Admitted
<1> QED
  BY <1>1 DEF AdmissionInv, SharesExact

\* Serve: acquireIdentity counts the request that is admitted.
LEMMA ServeKeepsShares ==
  ASSUME AdmissionInv, NEW r \in Requests, Serve(r)
  PROVE  /\ SharesExact'
         /\ \A i \in Identities : Cardinality(Admitted(i))' <= perIdentity
<1> DEFINE i == identity[r]
<1>1. /\ i \in Identities /\ stage[r] = "authenticating" /\ UNCHANGED identity
      /\ \A q \in Requests : stage'[q] = IF q = r THEN "serving" ELSE stage[q]
      /\ Count(i) < perIdentity
      /\ identities' = [j \in DOMAIN identities \cup {i} |->
                         IF j = i THEN Count(i) + 1 ELSE identities[j]]
  BY DEF AdmissionInv, Serve, Go, acquireIdentity
<1>2. r \notin Admitted(i) /\ Admitted(i)' = Admitted(i) \cup {r}
  BY <1>1 DEF Admitted
<1>3. Cardinality(Admitted(i))' = Cardinality(Admitted(i)) + 1
  BY <1>1, <1>2, CountAdmitted, FS_AddElement, ZenonT(30)
<1>4. Cardinality(Admitted(i))' = Count(i) + 1 /\ Count(i) \in Nat
  BY <1>1, <1>3, CountAdmitted
<1>5. perIdentity \in Nat
  BY StreamsAssumption DEF perIdentity
<1>6. ASSUME NEW j \in Identities, j # i PROVE Admitted(j)' = Admitted(j)
  BY <1>1, <1>6 DEF Admitted
<1>7. DOMAIN identities' = {j \in Identities : Admitted(j)' # {}}
  BY <1>1, <1>2, <1>6 DEF AdmissionInv, SharesExact
<1>8. \A j \in DOMAIN identities' : identities'[j] = Cardinality(Admitted(j))'
  <2> TAKE j \in DOMAIN identities'
  <2>1. CASE j = i
    BY <1>1, <1>4, <2>1
  <2>2. CASE j # i
    BY <1>1, <1>6, <1>7, <2>2 DEF AdmissionInv, SharesExact
  <2> QED
    BY <2>1, <2>2
<1>9. ASSUME NEW j \in Identities PROVE Cardinality(Admitted(j))' <= perIdentity
  <2>1. CASE j = i
    BY <1>1, <1>4, <1>5, <2>1
  <2>2. CASE j # i
    BY <1>6, <2>2 DEF AdmissionInv
  <2> QED
    BY <2>1, <2>2, Zenon
<1> QED
  BY <1>7, <1>8, <1>9 DEF SharesExact

\* ReleaseIdentity: the entry goes with the last admitted request.
LEMMA ReleaseKeepsShares ==
  ASSUME AdmissionInv, NEW r \in Requests, ReleaseIdentity(r)
  PROVE  /\ SharesExact'
         /\ \A i \in Identities : Cardinality(Admitted(i))' <= perIdentity
<1> DEFINE i == identity[r]
           n == Count(i) - 1
<1>1. /\ i \in Identities /\ stage[r] = "returning" /\ UNCHANGED identity
      /\ \A q \in Requests : stage'[q] = IF q = r THEN "releasing" ELSE stage[q]
      /\ identities' = [j \in IF n = 0 THEN DOMAIN identities \ {i} ELSE DOMAIN identities |->
                          IF j = i THEN n ELSE identities[j]]
  BY DEF AdmissionInv, ReleaseIdentity, Go, releaseIdentity
<1>2. r \in Admitted(i) /\ Admitted(i)' = Admitted(i) \ {r}
  BY <1>1, Zenon DEF Admitted
<1>3. /\ IsFiniteSet(Admitted(i)') /\ Cardinality(Admitted(i))' = Cardinality(Admitted(i)) - 1
      /\ Cardinality(Admitted(i)) \in Nat
  <2>1. IsFiniteSet(Admitted(i)) /\ Cardinality(Admitted(i)) \in Nat
    BY <1>1, CountAdmitted, Zenon
  <2>2. /\ IsFiniteSet(Admitted(i) \ {r})
        /\ Cardinality(Admitted(i) \ {r}) = Cardinality(Admitted(i)) - 1
    BY <1>2, <2>1, FS_RemoveElement, Zenon
  <2> QED
    BY <1>2, <2>1, <2>2, Zenon
<1>4. Cardinality(Admitted(i))' = n /\ n \in Int /\ i \in DOMAIN identities
  BY <1>1, <1>2, <1>3, CountAdmitted
<1>5. n = 0 <=> Admitted(i)' = {}
  BY <1>3, <1>4, FS_EmptySet, ZenonT(30)
<1>6. perIdentity \in Nat
  BY StreamsAssumption DEF perIdentity
<1>7. ASSUME NEW j \in Identities, j # i PROVE Admitted(j)' = Admitted(j)
  BY <1>1, <1>7, Zenon DEF Admitted
<1>8. DOMAIN identities' = {j \in Identities : Admitted(j)' # {}}
  <2>1. DOMAIN identities' = IF n = 0 THEN DOMAIN identities \ {i} ELSE DOMAIN identities
    BY <1>1
  <2>2. DOMAIN identities = {j \in Identities : Admitted(j) # {}}
    BY DEF AdmissionInv, SharesExact
  <2> QED
    BY <1>1, <1>4, <1>5, <1>7, <2>1, <2>2, Zenon
<1>9. \A j \in DOMAIN identities' : identities'[j] = Cardinality(Admitted(j))'
  <2> TAKE j \in DOMAIN identities'
  <2>1. CASE j = i
    BY <1>1, <1>4, <2>1
  <2>2. CASE j # i
    BY <1>1, <1>7, <1>8, <2>2 DEF AdmissionInv, SharesExact
  <2> QED
    BY <2>1, <2>2
<1>10. ASSUME NEW j \in Identities PROVE Cardinality(Admitted(j))' <= perIdentity
  <2>1. CASE j = i
    BY <1>1, <1>3, <1>6, <2>1 DEF AdmissionInv
  <2>2. CASE j # i
    BY <1>7, <2>2, Zenon DEF AdmissionInv
  <2> QED
    BY <2>1, <2>2, Zenon
<1> QED
  BY <1>8, <1>9, <1>10 DEF SharesExact

-----------------------------------------------------------------------------
(* The theorems.                                                           *)

\* A request's own steps keep the shares counted.
LEMMA SharesStep ==
  ASSUME AdmissionInv, [AdmissionNext]_admissionVars
  PROVE  /\ SharesExact'
         /\ \A i \in Identities : Cardinality(Admitted(i))' <= perIdentity
<1> DEFINE Goal == /\ SharesExact'
                   /\ \A i \in Identities : Cardinality(Admitted(i))' <= perIdentity
<1>0. stage \in [Requests -> Stages] /\ identity \in [Requests -> Identities]
  BY DEF AdmissionInv
<1>1. ASSUME NEW r \in Requests, NEW i \in Identities, Arrive(r, i) PROVE Goal
  BY <1>0, <1>1, SameAdmitted, Zenon DEF Arrive, Go
<1>2. ASSUME NEW r \in Requests, Enter(r) \/ QueueTimeout(r) \/ Deny(r) \/ DenyShare(r) PROVE Goal
  BY <1>0, <1>2, SameAdmitted, Zenon DEF Enter, QueueTimeout, Deny, DenyShare, Go
<1>3. ASSUME NEW r \in Requests, ToolReturns(r) \/ StreamEnds(r) \/ ReleaseSlot(r) PROVE Goal
  BY <1>0, <1>3, SameAdmitted, Zenon DEF ToolReturns, StreamEnds, ReleaseSlot, Go
<1>4. CASE UNCHANGED <<stage, identity, identities>>
  BY <1>4, SameAdmitted
<1>5. ASSUME NEW r \in Requests, OpenStream(r) PROVE Goal
  BY <1>4, <1>5, Zenon DEF OpenStream
<1> QED
  BY <1>1, <1>2, <1>3, <1>4, <1>5, ServeKeepsShares, ReleaseKeepsShares
  DEF AdmissionNext, Proceed, admissionVars

\* Slots are taken in Enter and given back by the last deferred function only,
\* stream slots inside of that.
LEMMA NestedStep ==
  ASSUME AdmissionInv, [AdmissionNext]_admissionVars
  PROVE  /\ stage' \in [Requests -> Stages]
         /\ identity' \in [Requests -> Identities]
         /\ Nested'
<1>0. stage \in [Requests -> Stages] /\ identity \in [Requests -> Identities] /\ Nested
  BY DEF AdmissionInv
<1> USE <1>0 DEF Stages, Nested
<1>1. ASSUME NEW r \in Requests, NEW i \in Identities, Arrive(r, i)
      PROVE  /\ stage' \in [Requests -> Stages] /\ identity' \in [Requests -> Identities]
             /\ Nested'
  BY <1>1, Zenon DEF Arrive, Go
<1>2. ASSUME NEW r \in Requests, Enter(r) \/ QueueTimeout(r) \/ Deny(r) \/ DenyShare(r) \/ Serve(r)
      PROVE  /\ stage' \in [Requests -> Stages] /\ identity' \in [Requests -> Identities]
             /\ Nested'
  BY <1>2, ZenonT(30) DEF Enter, QueueTimeout, Deny, DenyShare, Serve, Go
<1>3. ASSUME NEW r \in Requests,
             ToolReturns(r) \/ ReleaseIdentity(r) \/ ReleaseSlot(r) \/ OpenStream(r) \/ StreamEnds(r)
      PROVE  /\ stage' \in [Requests -> Stages] /\ identity' \in [Requests -> Identities]
             /\ Nested'
  BY <1>3 DEF ToolReturns, ReleaseIdentity, ReleaseSlot, OpenStream, StreamEnds, acquireStream,
              releaseStream, Go
<1>4. CASE UNCHANGED admissionVars
  BY <1>4, Zenon DEF admissionVars
<1> QED
  BY <1>1, <1>2, <1>3, <1>4 DEF AdmissionNext, Proceed

\* A request enters only while there is a slot.
LEMMA SlotsStep ==
  ASSUME AdmissionInv, [AdmissionNext]_admissionVars
  PROVE  IsFiniteSet(semaphore') /\ Cardinality(semaphore') <= MaxConcurrent
<1>0. /\ IsFiniteSet(semaphore) /\ Cardinality(semaphore) \in Nat
      /\ Cardinality(semaphore) <= MaxConcurrent /\ MaxConcurrent \in Nat
  BY FS_CardinalityType, StreamsAssumption DEF AdmissionInv
<1>1. ASSUME NEW r \in Requests, Enter(r)
      PROVE  IsFiniteSet(semaphore') /\ Cardinality(semaphore') <= MaxConcurrent
  <2>1. r \notin semaphore
    BY <1>1 DEF Enter, AdmissionInv, Nested
  <2>2. /\ IsFiniteSet(semaphore \cup {r})
        /\ Cardinality(semaphore \cup {r}) = Cardinality(semaphore) + 1
    BY <1>0, <2>1, FS_AddElement
  <2> QED
    BY <1>0, <1>1, <2>2 DEF Enter
<1>2. ASSUME NEW r \in Requests, ReleaseSlot(r)
      PROVE  IsFiniteSet(semaphore') /\ Cardinality(semaphore') <= MaxConcurrent
  <2>1. /\ IsFiniteSet(semaphore \ {r}) /\ Cardinality(semaphore \ {r}) \in Nat
        /\ Cardinality(semaphore \ {r}) <= Cardinality(semaphore)
    BY <1>0, FS_Subset, FS_CardinalityType
  <2> QED
    BY <1>0, <1>2, <2>1 DEF ReleaseSlot
<1>3. CASE UNCHANGED semaphore
  BY <1>0, <1>3
<1> QED
  BY <1>1, <1>2, <1>3
  DEF AdmissionNext, Proceed, admissionVars, Arrive, QueueTimeout, Deny, DenyShare, Serve, ToolReturns,
      ReleaseIdentity, OpenStream, StreamEnds

\* The invariant of the middleware, from its start with nothing admitted.
LEMMA AdmissionInvariant == AdmissionSpec => []AdmissionInv
<1>1. AdmissionInit => AdmissionInv
  <2> SUFFICES ASSUME AdmissionInit PROVE AdmissionInv
    OBVIOUS
  <2>1. \A i \in Identities : Admitted(i) = {}
    BY DEF AdmissionInit, Admitted
  <2>2. IsFiniteSet({}) /\ Cardinality({}) = 0
    BY FS_EmptySet
  <2>3. Nested /\ SharesExact
    BY <2>1 DEF AdmissionInit, StreamsInit, Nested, SharesExact
  <2>4. perIdentity \in Nat /\ MaxConcurrent \in Nat
    BY StreamsAssumption DEF perIdentity
  <2>5. stage \in [Requests -> Stages] /\ identity \in [Requests -> Identities]
    BY DEF AdmissionInit, Stages
  <2>6. IsFiniteSet(semaphore) /\ Cardinality(semaphore) <= MaxConcurrent
    BY <2>2, <2>4 DEF AdmissionInit
  <2>7. \A i \in Identities : Cardinality(Admitted(i)) <= perIdentity
    BY <2>1, <2>2, <2>4
  <2> QED
    BY <2>3, <2>5, <2>6, <2>7 DEF AdmissionInv
<1>2. AdmissionInv /\ [AdmissionNext]_admissionVars => AdmissionInv'
  BY SharesStep, NestedStep, SlotsStep DEF AdmissionInv
<1> QED
  BY <1>1, <1>2, PTL DEF AdmissionSpec

\* The semaphore, the identity shares and the stream slots agree with the
\* requests that hold them, and stay within their limits, on every path through
\* authenticationMiddleware.
THEOREM SlotsStayExact == AdmissionSpec => []SlotsExact
<1>1. AdmissionInv => SlotsExact
  <2> SUFFICES ASSUME AdmissionInv PROVE SlotsExact
    OBVIOUS
  <2>1. ASSUME NEW i \in DOMAIN identities PROVE identities[i] \in 1 .. perIdentity
    <3>1. i \in Identities /\ Admitted(i) # {} /\ identities[i] = Cardinality(Admitted(i))
      BY DEF AdmissionInv, SharesExact
    <3>2. IsFiniteSet(Admitted(i)) /\ Cardinality(Admitted(i)) \in Nat
      BY <3>1, CountAdmitted
    <3>3. Cardinality(Admitted(i)) # 0
      BY <3>1, <3>2, FS_EmptySet
    <3>4. Cardinality(Admitted(i)) <= perIdentity
      BY <3>1 DEF AdmissionInv
    <3>5. perIdentity \in Nat
      BY StreamsAssumption DEF perIdentity
    <3> HIDE DEF perIdentity
    <3> QED
      BY <3>1, <3>2, <3>3, <3>4, <3>5
  <2>2. DOMAIN identities \subseteq Identities
    BY DEF AdmissionInv, SharesExact
  <2>3. semaphore \subseteq Requests /\ streams \subseteq Requests
    BY DEF AdmissionInv, Nested
  <2> QED
    BY <2>1, <2>2, <2>3 DEF SlotsExact, AdmissionTypeOK, AdmissionInv
<1> QED
  BY <1>1, AdmissionInvariant, PTL

-----------------------------------------------------------------------------
(* SchemaCache: exact byte counts within the limits, for any overlapping   *)
(* loads, keys and sizes.                                                  *)

\* The byte count is an upper bound only together with what it counts: a store
\* compares it with MaxCached, and a prune subtracts from it.
CacheInv ==
  /\ SchemaTypeOK
  /\ IsFiniteSet(DOMAIN entries)
  /\ CacheExact
  /\ CacheBounded

\* schemaCache.entries always is a map the lemmas on bytes apply to.
LEMMA EntriesSized ==
  ASSUME SchemaTypeOK, IsFiniteSet(DOMAIN entries)
  PROVE  Sized(entries, DOMAIN entries)
BY SchemaCacheAssumption DEF SchemaTypeOK, Sized, CachedDocument

\* A prune (the loop at the head of load) takes off exactly what it counts off.
LEMMA PruneKeepsInv ==
  ASSUME CacheInv, Prune
  PROVE  /\ DOMAIN entries' \subseteq Keys
         /\ entries' \in [DOMAIN entries' -> CachedDocument]
         /\ cachedBytes' \in Int
         /\ IsFiniteSet(DOMAIN entries')
         /\ CacheExact'
         /\ CacheBounded'
<1> DEFINE out == DOMAIN entries \ Live
<1>1. Sized(entries, DOMAIN entries)
  BY EntriesSized DEF CacheInv
<1>2. /\ entries' = [k \in Live |-> entries[k]]
      /\ cachedBytes' = cachedBytes - Bytes(entries, out)
      /\ Live \subseteq DOMAIN entries
      /\ DOMAIN entries' = Live
  BY DEF Prune, Live
<1>3. IsFiniteSet(Live) /\ Cardinality(Live) <= Cardinality(DOMAIN entries)
  BY <1>2, FS_Subset DEF CacheInv
<1>4. Live = DOMAIN entries \ out /\ out = DOMAIN entries \cap out
  BY <1>2
<1>5. Bytes(entries, Live) = Bytes(entries, DOMAIN entries) - Bytes(entries, out)
  BY <1>1, <1>4, BytesRemoved
<1>6. Bytes(entries', Live) = Bytes(entries, Live)
  BY <1>2, CellsSame
<1>7. Sized(entries, out)
  BY <1>1, FS_Subset DEF Sized
<1>8. Bytes(entries, out) \in Nat /\ Bytes(entries, DOMAIN entries) \in Nat
  BY <1>1, <1>7, CellsFinite
<1>9. CacheExact'
  BY <1>2, <1>5, <1>6 DEF CacheInv, CacheExact
<1>10. cachedBytes' \in Int /\ cachedBytes' <= cachedBytes
  BY <1>2, <1>8 DEF CacheInv, CacheExact
<1>11. Cardinality(Live) \in Nat /\ Cardinality(DOMAIN entries) \in Nat
  BY <1>3, FS_CardinalityType, Zenon DEF CacheInv
<1>12. CacheBounded'
  BY <1>2, <1>3, <1>8, <1>10, <1>11, SchemaCacheAssumption DEF CacheInv, CacheBounded, CacheExact
<1> QED
  BY <1>2, <1>3, <1>9, <1>10, <1>12 DEF CacheInv, SchemaTypeOK

\* A store (the end of load) adds an entry and its size, or nothing.
LEMMA StoreKeepsInv ==
  ASSUME CacheInv, NEW l \in Loads, Store(l)
  PROVE  CacheInv'
<1> DEFINE k == load[l].key
           size == load[l].size
<1>1. k \in Keys /\ size \in DocSizes /\ size \in Nat
  BY SchemaCacheAssumption DEF CacheInv, SchemaTypeOK, Store, NoLoad
<1>2. load' \in [Loads -> {NoLoad} \cup [at : {"fetching"}, key : Keys]
                          \cup [at : {"storing"}, key : Keys, size : DocSizes]]
  BY DEF CacheInv, SchemaTypeOK, Store
<1>3. CASE /\ Fits(k, size)
           /\ entries' = [j \in DOMAIN entries \cup {k} |->
                            IF j = k THEN [left |-> Lifetime, size |-> size] ELSE entries[j]]
           /\ cachedBytes' = cachedBytes + size
  <2>1. DOMAIN entries' = DOMAIN entries \cup {k} /\ k \notin DOMAIN entries
    BY <1>3, Zenon DEF Fits
  <2>2. [left |-> Lifetime, size |-> size] \in CachedDocument
    BY <1>1, SchemaCacheAssumption DEF CachedDocument
  <2>3. /\ DOMAIN entries' \subseteq Keys
        /\ entries' \in [DOMAIN entries' -> CachedDocument]
    BY <1>1, <1>3, <2>1, <2>2, Zenon DEF CacheInv, SchemaTypeOK
  <2>4. /\ IsFiniteSet(DOMAIN entries')
        /\ Cardinality(DOMAIN entries') = Cardinality(DOMAIN entries) + 1
    BY <2>1, FS_AddElement, Zenon DEF CacheInv
  <2>5. Sized(entries', DOMAIN entries')
    BY <2>3, <2>4, SchemaCacheAssumption DEF Sized, CachedDocument
  <2>6. DOMAIN entries = DOMAIN entries' \ {k} /\ DOMAIN entries' \cap {k} = {k}
    BY <2>1
  <2>7. Bytes(entries', DOMAIN entries) = Bytes(entries', DOMAIN entries') - Bytes(entries', {k})
    BY <2>5, <2>6, BytesRemoved
  <2>8. Bytes(entries', {k}) = size
    <3>1. entries'[k].size = size
      BY <1>3
    <3> QED
      BY <1>1, <3>1, BytesSingle, ZenonT(30)
  <2>9. Bytes(entries', DOMAIN entries) = Bytes(entries, DOMAIN entries)
    <3>1. \A j \in DOMAIN entries : entries'[j].size = entries[j].size
      BY <1>3, <2>1
    <3> QED
      BY <3>1, CellsSame, Zenon
  <2>10. Bytes(entries', DOMAIN entries') \in Nat
    BY <2>5, CellsFinite, ZenonT(30)
  <2>11. CacheExact'
    BY <1>1, <1>3, <2>7, <2>8, <2>9, <2>10 DEF CacheInv, CacheExact
  <2>12. cachedBytes \in Int /\ cachedBytes' \in Int
    BY <1>1, <1>3 DEF CacheInv, SchemaTypeOK
  <2>13. Cardinality(DOMAIN entries) \in Nat
    BY FS_CardinalityType, Zenon DEF CacheInv
  <2>14. CacheBounded'
    BY <1>1, <1>3, <2>4, <2>12, <2>13, SchemaCacheAssumption DEF Fits, CacheBounded
  <2> QED
    BY <1>2, <2>3, <2>4, <2>11, <2>12, <2>14, Zenon DEF CacheInv, SchemaTypeOK
<1>4. CASE UNCHANGED <<entries, cachedBytes>>
  BY <1>2, <1>4, Zenon DEF CacheInv, SchemaTypeOK, CacheExact, CacheBounded
<1> QED
  BY <1>3, <1>4, Zenon DEF Store

\* Time only changes how long entries are left.
LEMMA TickKeepsInv ==
  ASSUME CacheInv, SchemaTick
  PROVE  CacheInv'
<1>1. DOMAIN entries' = DOMAIN entries /\ UNCHANGED <<cachedBytes, load>>
  BY DEF SchemaTick
<1>2. \A k \in DOMAIN entries : entries'[k].size = entries[k].size
  BY DEF SchemaTick, CacheInv, SchemaTypeOK, CachedDocument
<1>3. entries' \in [DOMAIN entries' -> CachedDocument]
  <2>1. ASSUME NEW k \in DOMAIN entries
        PROVE  entries'[k] \in CachedDocument
    <3>1. entries[k] \in [left : -1 .. Lifetime, size : DocSizes]
      BY DEF CacheInv, SchemaTypeOK, CachedDocument
    <3>2. entries'[k] = [entries[k] EXCEPT !.left = IF Stale(k) THEN -1 ELSE @ - 1]
      BY DEF SchemaTick
    <3>3. Stale(k) \/ entries[k].left - 1 \in -1 .. Lifetime
      BY <3>1, SchemaCacheAssumption DEF Stale
    <3>4. -1 \in -1 .. Lifetime
      BY SchemaCacheAssumption
    <3> QED
      BY <3>1, <3>2, <3>3, <3>4 DEF CachedDocument
  <2> QED
    BY <1>1, <2>1, Zenon DEF SchemaTick
<1>4. Bytes(entries', DOMAIN entries) = Bytes(entries, DOMAIN entries)
  BY <1>2, CellsSame, Zenon
<1> QED
  BY <1>1, <1>3, <1>4 DEF CacheInv, SchemaTypeOK, CacheExact, CacheBounded

-----------------------------------------------------------------------------
(* The theorems.                                                           *)

\* The empty cache of newSchemaCache.
LEMMA CacheInvInit == SchemaInit => CacheInv
<1> SUFFICES ASSUME SchemaInit PROVE CacheInv
  OBVIOUS
<1>1. DOMAIN entries = {}
  BY DEF SchemaInit
<1>2. IsFiniteSet(DOMAIN entries) /\ Cardinality(DOMAIN entries) = 0
  BY <1>1, FS_EmptySet
<1>3. Cells(entries, DOMAIN entries) = {}
  BY <1>1 DEF Cells
<1>4. Bytes(entries, DOMAIN entries) = 0
  BY <1>3, FS_EmptySet DEF Bytes
<1> QED
  BY <1>1, <1>2, <1>4, SchemaCacheAssumption
  DEF SchemaInit, CacheInv, SchemaTypeOK, CacheExact, CacheBounded

\* Every step of load and of time keeps the invariant.
LEMMA CacheInvStep == CacheInv /\ [SchemaNext]_schemaVars => CacheInv'
<1> SUFFICES ASSUME CacheInv, [SchemaNext]_schemaVars PROVE CacheInv'
  BY Zenon
<1>1. ASSUME NEW l \in Loads, NEW k \in Keys, Lookup(l, k) PROVE CacheInv'
  <2>1. Prune
    BY <1>1, Zenon DEF Lookup
  <2>2. load' \in [Loads -> {NoLoad} \cup [at : {"fetching"}, key : Keys]
                            \cup [at : {"storing"}, key : Keys, size : DocSizes]]
    BY <1>1, Zenon DEF Lookup, CacheInv, SchemaTypeOK, NoLoad
  <2> QED
    BY <2>1, <2>2, PruneKeepsInv, Zenon DEF CacheInv, SchemaTypeOK
<1>2. ASSUME NEW l \in Loads, NEW size \in DocSizes, Fetch(l, size) PROVE CacheInv'
  <2>1. load[l].key \in Keys
    BY <1>2 DEF Fetch, CacheInv, SchemaTypeOK, NoLoad
  <2> QED
    BY <1>2, <2>1, Zenon DEF Fetch, CacheInv, SchemaTypeOK, CacheExact, CacheBounded
<1>3. ASSUME NEW l \in Loads, FetchFails(l) PROVE CacheInv'
  BY <1>3 DEF FetchFails, CacheInv, SchemaTypeOK, CacheExact, CacheBounded
<1>4. ASSUME NEW l \in Loads, Store(l) PROVE CacheInv'
  BY <1>4, StoreKeepsInv
<1>5. CASE SchemaTick
  BY <1>5, TickKeepsInv
<1>6. CASE UNCHANGED schemaVars
  BY <1>6 DEF schemaVars, CacheInv, SchemaTypeOK, CacheExact, CacheBounded
<1> QED
  BY <1>1, <1>2, <1>3, <1>4, <1>5, <1>6 DEF SchemaNext

\* The invariant of the cache.
THEOREM CacheInvariant == SchemaSpec => []CacheInv
BY CacheInvInit, CacheInvStep, PTL DEF SchemaSpec

\* schemaCache.bytes is the size of what is cached, whatever loads overlap.
THEOREM CacheCounts == SchemaSpec => []CacheExact
<1>1. CacheInv => CacheExact
  BY DEF CacheInv
<1> QED
  BY <1>1, CacheInvariant, PTL

\* The cache never holds more entries or bytes than load allows it.
THEOREM CacheWithinLimits == SchemaSpec => []CacheBounded
<1>1. CacheInv => CacheBounded
  BY DEF CacheInv
<1> QED
  BY <1>1, CacheInvariant, PTL

\* load never replaces or prolongs a document that has not expired.
THEOREM FirstDocumentStays == SchemaSpec => FirstStays
<1> DEFINE Kept == \A k \in Live : /\ k \in DOMAIN entries'
                                   /\ entries'[k].size = entries[k].size
                                   /\ entries'[k].left <= entries[k].left
<1>1. CacheInv /\ [SchemaNext]_schemaVars => [Kept]_schemaVars
  <2> SUFFICES ASSUME CacheInv, SchemaNext, NEW k \in Live
               PROVE  /\ k \in DOMAIN entries'
                      /\ entries'[k].size = entries[k].size
                      /\ entries'[k].left <= entries[k].left
    OBVIOUS
  <2>1. k \in DOMAIN entries /\ ~Stale(k) /\ entries[k].left \in Int
    BY SchemaCacheAssumption DEF Live, CacheInv, SchemaTypeOK, CachedDocument
  <2>2. CASE UNCHANGED entries
    BY <2>1, <2>2
  <2>3. CASE Prune
    BY <2>1, <2>3 DEF Prune
  <2>4. ASSUME NEW l \in Loads, Store(l)
        PROVE  /\ k \in DOMAIN entries'
               /\ entries'[k].size = entries[k].size
               /\ entries'[k].left <= entries[k].left
    BY <2>1, <2>2, <2>4 DEF Store, Fits
  <2>5. CASE SchemaTick
    <3>1. entries'[k] = [entries[k] EXCEPT !.left = entries[k].left - 1]
      BY <2>1, <2>5 DEF SchemaTick
    <3> QED
      BY <2>1, <2>5, <3>1 DEF SchemaTick, CacheInv, SchemaTypeOK, CachedDocument
  <2> QED
    BY <2>2, <2>3, <2>4, <2>5, Zenon DEF SchemaNext, Lookup, Fetch, FetchFails
<1> QED
  BY <1>1, CacheInvariant, PTL DEF SchemaSpec, FirstStays

\* For any number of overlapping loads the cache counts exactly, keeps within its
\* limits and keeps the first document.
THEOREM CacheStaysSound == SchemaSpec => CacheSound
<1>1. CacheInv => SchemaTypeOK
  BY DEF CacheInv
<1> QED
  BY <1>1, CacheInvariant, CacheCounts, CacheWithinLimits, FirstDocumentStays, PTL DEF CacheSound

=============================================================================

------------------------------ MODULE Admission ------------------------------
(***************************************************************************)
(* What an HTTP request goes through before and after its tool runs        *)
(* (authenticationMiddleware in internal/server/auth.go, requestAdmission  *)
(* in internal/server/admission.go): a slot of the server's semaphore,     *)
(* authentication, the identity's share, perhaps a stream slot, and the    *)
(* deferred releases in reverse order.                                     *)
(*                                                                         *)
(* Requests refused before they queue (a browser Origin, no bearer token,  *)
(* the global rate) touch none of this state and are not modelled.         *)
(***************************************************************************)
EXTENDS Streams

CONSTANTS
  Requests,    \* connections, each with at most one request at a time
  Identities   \* values of Principal.IdentityKey

VARIABLES
  stage,       \* stage[r]: where request r stands in the middleware
  identity,    \* identity[r]: whose token r carries
  semaphore,   \* the requests that hold a slot of App.semaphore
  identities   \* requestAdmission.identities: a function on the counted identities

admissionVars == <<stage, identity, semaphore, identities, streams>>

Stages == {"idle", "queued", "authenticating", "serving", "returning", "releasing"}

\* perIdentity is half the slots, rounded up; never less than one.
perIdentity == (MaxConcurrent + 1) \div 2

Count(i) == IF i \in DOMAIN identities THEN identities[i] ELSE 0

AdmissionInit ==
  /\ stage = [r \in Requests |-> "idle"]
  /\ identity \in [Requests -> Identities]
  /\ semaphore = {}
  /\ identities = [i \in {} |-> 0]
  /\ StreamsInit

Go(r, next) == stage' = [stage EXCEPT ![r] = next]

-----------------------------------------------------------------------------
(* The middleware.                                                         *)

Arrive(r, i) ==
  /\ stage[r] = "idle"
  /\ Go(r, "queued")
  /\ identity' = [identity EXCEPT ![r] = i]
  /\ UNCHANGED <<semaphore, identities, streams>>

Enter(r) ==
  /\ stage[r] = "queued"
  /\ Cardinality(semaphore) < MaxConcurrent
  /\ semaphore' = semaphore \cup {r}
  /\ Go(r, "authenticating")
  /\ UNCHANGED <<identity, identities, streams>>

\* concurrency_timeout, or the client went away.
QueueTimeout(r) ==
  /\ stage[r] = "queued"
  /\ Go(r, "idle")
  /\ UNCHANGED <<identity, semaphore, identities, streams>>

acquireIdentity(i) ==
  /\ Count(i) < perIdentity
  /\ identities' = [j \in DOMAIN identities \cup {i} |->
                     IF j = i THEN Count(i) + 1 ELSE identities[j]]

\* The entry goes when its count falls to zero.
releaseIdentity(i) ==
  LET n == Count(i) - 1
      kept == IF n = 0 THEN DOMAIN identities \ {i} ELSE DOMAIN identities
  IN  identities' = [j \in kept |-> IF j = i THEN n ELSE identities[j]]

\* Authenticate fails or times out, or the identity is over its rate.
Deny(r) ==
  /\ stage[r] = "authenticating"
  /\ Go(r, "releasing")
  /\ UNCHANGED <<identity, semaphore, identities, streams>>

\* Faulty variant: the deferred release is registered before the test.
DenyShareReleases(r) ==
  /\ stage[r] = "authenticating"
  /\ Count(identity[r]) >= perIdentity
  /\ Go(r, "returning")
  /\ UNCHANGED <<identity, semaphore, identities, streams>>

\* Faulty variant: this way out misses the deferred release of the slot.
DenyShareLeaks(r) ==
  /\ stage[r] = "authenticating"
  /\ Count(identity[r]) >= perIdentity
  /\ Go(r, "idle")
  /\ UNCHANGED <<identity, semaphore, identities, streams>>

\* identity_concurrency.
DenyShare(r) ==
  /\ stage[r] = "authenticating"
  /\ Count(identity[r]) >= perIdentity
  /\ Go(r, "releasing")
  /\ UNCHANGED <<identity, semaphore, identities, streams>>

Serve(r) ==
  /\ stage[r] = "authenticating"
  /\ acquireIdentity(identity[r])
  /\ Go(r, "serving")
  /\ UNCHANGED <<identity, semaphore, streams>>

-----------------------------------------------------------------------------
(* The tool and the deferred releases.                                     *)

\* watch, followed logs, exec or attach.
OpenStream(r) ==
  /\ stage[r] = "serving"
  /\ r \notin streams
  /\ acquireStream(r)
  /\ UNCHANGED <<stage, identity, semaphore, identities>>

\* A call that is not streaming returns: also one refused a stream slot.
ToolReturns(r) ==
  /\ stage[r] = "serving"
  /\ r \notin streams
  /\ Go(r, "returning")
  /\ UNCHANGED <<identity, semaphore, identities, streams>>

\* The stream ends or runs into its timeout; the tool's deferred release runs.
StreamEnds(r) ==
  /\ stage[r] = "serving"
  /\ r \in streams
  /\ releaseStream(r)
  /\ Go(r, "returning")
  /\ UNCHANGED <<identity, semaphore, identities>>

ReleaseIdentity(r) ==
  /\ stage[r] = "returning"
  /\ releaseIdentity(identity[r])
  /\ Go(r, "releasing")
  /\ UNCHANGED <<identity, semaphore, streams>>

ReleaseSlot(r) ==
  /\ stage[r] = "releasing"
  /\ semaphore' = semaphore \ {r}
  /\ Go(r, "idle")
  /\ UNCHANGED <<identity, identities, streams>>

\* The steps a request takes by itself once it has its slot.
Proceed(r) ==
  \/ Deny(r)
  \/ DenyShare(r)
  \/ Serve(r)
  \/ ToolReturns(r)
  \/ ReleaseIdentity(r)
  \/ ReleaseSlot(r)

AdmissionNext ==
  \E r \in Requests :
    \/ \E i \in Identities : Arrive(r, i)
    \/ Enter(r)
    \/ QueueTimeout(r)
    \/ Proceed(r)
    \/ OpenStream(r)
    \/ StreamEnds(r)

\* Go serves the senders that wait for a channel in order, so a request that
\* finds a free slot again and again gets one; every other step is bounded by a
\* timeout.  No fairness for streams: they may stay open.
AdmissionFairness == \A r \in Requests : SF_admissionVars(Enter(r)) /\ WF_admissionVars(Proceed(r))

AdmissionSpec == AdmissionInit /\ [][AdmissionNext]_admissionVars /\ AdmissionFairness

-----------------------------------------------------------------------------
(* Properties.                                                             *)

Admitted(i) == {r \in Requests : stage[r] \in {"serving", "returning"} /\ identity[r] = i}

\* The shape of the middleware's state: requestAdmission.identities never holds
\* an entry at zero (releaseIdentity) nor one above the slots there are.
AdmissionTypeOK ==
  /\ stage \in [Requests -> Stages]
  /\ identity \in [Requests -> Identities]
  /\ semaphore \subseteq Requests
  /\ DOMAIN identities \subseteq Identities
  /\ \A i \in DOMAIN identities : identities[i] \in 1 .. perIdentity
  /\ streams \subseteq Requests

\* requestAdmission.identities counts exactly the admitted requests of each
\* identity on every path through the middleware: refusals leave it alone, and
\* an identity that is gone leaves no entry behind.
SharesExact ==
  /\ DOMAIN identities = {i \in Identities : Admitted(i) # {}}
  /\ \A i \in DOMAIN identities : identities[i] = Cardinality(Admitted(i))

\* Releases are nested: a request that streams is admitted, one that is admitted
\* holds its slot, and a slot is held only by a request that is past the queue.
Nested ==
  /\ streams \subseteq {r \in Requests : stage[r] = "serving"}
  /\ semaphore = {r \in Requests : stage[r] \notin {"idle", "queued"}}

\* The middleware's bookkeeping on every path in and out: the three resources
\* agree with the requests that hold them, no more requests hold a slot than
\* there are, and no identity is served more requests at once than its share.
SlotsExact ==
  /\ AdmissionTypeOK
  /\ SharesExact
  /\ Nested
  /\ Cardinality(semaphore) <= MaxConcurrent

\* One slot is reserved for short requests: although streams may stay open for
\* ever and nothing limits how long requests queue, every queued request gets
\* its slot (or gives up).
ShortRequestsServed == \A r \in Requests : stage[r] = "queued" ~> stage[r] # "queued"

\* If no stream stays open for ever, which its timeout ensures, every request
\* that arrives is answered and leaves nothing behind.
Answered ==
  (\A r \in Requests : []<>(r \notin streams)) =>
    \A r \in Requests : stage[r] = "queued" ~> stage[r] = "idle" /\ r \notin semaphore

\* The deployment guide's limit on what one identity occupies: at most half of
\* the request slots, rounded up.
IdentityOccupies ==
  \A i \in Identities : Cardinality({r \in semaphore : identity[r] = i}) <= perIdentity

=============================================================================

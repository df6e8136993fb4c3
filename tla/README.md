# supek8smcp in TLA+

supek8smcp is an MCP server that gives language-model clients access to a
Kubernetes cluster, and an operator that deploys one such server per
`KubernetesMCPServer` resource. This directory models the parts of both that
keep state, race with something or decide something intricate, checks them with
TLC, and proves with TLAPS, for every value of the constants, that they are safe:
all but the shaping of read results. Paths below are relative to `src/`.

## The system's parts

| Component | State | Interacts with | What is hard | What makes it correct |
|---|---|---|---|---|
| Plan store (`internal/server/planstore.go`) | plans, byte counters in total and per subject | plan and commit, under a mutex | counters kept incrementally; expiry, lockout and delivery compete for a plan | exact counters, budgets; one delivery, to the owner, as planned |
| Plan and commit (`operations.go`, `remote.go`) | progress of a request | plan store, stream slots, policy, API server | cluster and permissions change between any two calls; a write outlives its request | applied at most once, to what was reviewed, by a subject authorized since |
| Admission (`auth.go`, `admission.go`) | semaphore, count per identity, stream slots | every HTTP request | three resources, six ways out, a queue timeout | counts exact; every request answered; streams do not starve short requests |
| Rate limiting (`ratelimit.go`) | a bucket per identity | middleware | eviction, a capacity, calls that overtake each other | nobody gains by being forgotten; Retry-After is enough |
| Capability catalog (`catalog.go`, `capability.go`) | snapshot, partial listing, back-off, handles | discovery API | one refresh shared by many callers; partial discovery | nobody waits for a refresh that is over; handles live as long as promised |
| Search (`catalog.go`, `policy.go`) | a cursor, held by the client | catalog, access reviews | catalog and permissions change between pages | pages are complete and the search ends |
| Schema cache (`schema_cache.go`) | documents, byte count | OpenAPI | overlapping loads of one key | exact bytes, limits, the first document stays |
| Watch (`reads.go`) | a result under construction | API server, client | order of "advance version" and "does it fit" | in order; nothing lost unannounced |
| Read results (`read_output.go`, `redaction.go`) | none | API server | redaction, cleaning, projection and limits in sequence | no Secret value shown; what was asked for; pages go on |
| Limited streams (`auth.go`, `remote.go`, `reads.go`) | what is left of a limit | API server | pieces of any size; a limit met exactly | kept up to the limit, and marked exactly when cut |
| Policy (`policy.go`, `runtimeconfig/config.go`) | none | every tool | modes, scope, rules, the operator's objects | rules never raise a mode; own objects are kept |
| SafeWrite (`safe_write.go`) | none | plan, commit | lists matched by name or position; changes in several steps | no chain of changes takes a constraint off |
| Timeouts (`timeouts.go`, `remote.go`) | none | HTTP server | sums and products of int64 | the answer can still be written; the cap holds |
| Reconciler (`internal/operator/reconciler.go`, `run.go`) | all in the API server | Kubernetes API and controllers | a dozen writes, any of which can fail; a lagging cache; foreign objects of the same name | no request reaches a server of the wrong policy; fails closed; recovers |
| Certificates (`certificates.go`) | Secrets, a ConfigMap | reconciler | validity periods, racing creation, replacement of the root | an open endpoint presents a chain its clients can verify |

`PROJECT.json` lists the components with their status and, under `hazards`, each
hard behaviour at its line of code with the properties that watch over it.

## Modules

| Module | Models | Uses | Proofs in |
|---|---|---|---|
| `OneTimePlan` | the abstract promise of the plan store | | |
| `Charges` | the bytes a map's entries are charged for | | `ChargesProofs` |
| `PlanStore` | `planstore.go` | `Charges`; implements `OneTimePlan` | `PlanStoreProofs` |
| `Streams` | stream slots of `admission.go` | | |
| `PlanCommit` | `operations.go`, the API server, other clients, restarts | `PlanStore`, `Streams` | `HandlerProofs`, `PlanCommitProofs` |
| `Admission` | the authentication middleware | `Streams` | `LimitsProofs` |
| `RateLimiter` | `ratelimit.go` and the buckets of `x/time/rate` (external) | | `LimitsProofs` |
| `Catalog` | `catalogCache.list`, `capabilityCodec` | | `CallProofs` |
| `Search` | `searchCatalog`, the policy's reviews, a paging client | | `ReadsProofs` |
| `SchemaCache` | `schemaCache.load` | `Charges` | `LimitsProofs` |
| `Watch` | `watch` and a resuming client | | `CallProofs` |
| `BoundedIO` | `responseLimitBody`, `progressBuffer`, followed logs | | `ReadsProofs` |
| `ReadOutput` | get and list, from the API's answer to the result | | `CallProofs` |
| `Policy` | discovery's actions, configuration rules, `CheckTarget` | | `CallProofs` |
| `SafeWrite` | `validateSafeTransition` | | `CallProofs` |
| `Timeouts` | `timeouts.go`, `remoteTimeout`, the phases of a request | | `CallProofs` |
| `Reconciler` | the operator and the controllers it relies on | | `OperatorProofs` |
| `Certificates` | root, leaves, bundle and endpoints over time | | `OperatorProofs` |
| `MCPlanStore`, `MCPlanCommit`, `MCPolicy` | values for the constants | | |
| `MCReads`, `MCDecisions` | several parts that share no state, one per behavior | | |

Definitions keep the names of the functions they translate. An operator whose
comment starts with "Faulty variant" is not part of the model: it is a plausible
mistake in the definition below it, kept to show that a property would notice.

**PlanStore.** `plans`, `usedBytes` and `subjectBytes` are the fields of the
struct. `Create` and `Consume` hold the mutex throughout, so each is one step;
their early returns are the disjuncts. `planned`, `wrong` and `grants` are
history. IDs and codes are drawn fresh, SHA-256 is injective, and the two clock
readings in Create are one instant.

**PlanCommit.** A handler is cut at every API call and every call into shared
state; `req[r].at` says where it stands. A write is a message that the API server
handles later, possibly after a timeout or restart, comparing the
resourceVersion and UID it carries with the object's. Nine actions become four
kinds that differ in what they send. A restart empties the store, so the
generation check at commit decides nothing a restart had not decided; it is
modelled all the same.

**Admission.** A request goes idle, queued, authenticating, serving, returning,
releasing; each deferred call is a step. Refusals before the queue touch none of
this state. A stream slot is held by a read here and by commit in `PlanCommit`.

**RateLimiter.** A call reads the clock (`stamped`) and is handled later, so
calls overtake each other. Times are ages, capped where more makes no
difference. `budget` is an ideal bucket that forgets nobody: history against
which the grants are measured.

**Catalog.** A call of `list` is cut where it releases the lock: look, discover,
build, store. The snapshot's age and the rest of the back-off are relative, so
time needs no bound. A handle stands for the capability it encodes; the HMAC is
collision free. `answer` is what a caller was given, with the number of complete
listings since.

**Search.** A capability is a number in the catalog's order, and a catalog an
increasing sequence of them, as the refresh sorts it. A step is one access
review; the catalog, the permissions and the API server's health may change
between any two. The filter's text is fixed during a search.

**SchemaCache.** A load looks, fetches and stores in three steps, of which the
first and last hold the lock. A document is its estimated size.

**Watch.** The log of changes is abstracted to encoded sizes; the resource
version is the position. A call ends by its item limit, its output limit, its
timeout or the server. The API server's "too old" answer is an error event. A
result over the limit becomes a preview without a version
(`boundedOutput`), after which the client lists again.

**BoundedIO.** The bytes of a stream are numbered, and every step passes a piece
of any size, so each order, loss or repetition is visible.

**ReadOutput.** An object is a function from the paths of its leaves to values; a
map that cleaning empties stays as a leaf, as in the code. Redaction, cleaning,
summary, table and list metadata follow the code's order. A projection is a loop
over the objects and, for each, over the paths: `projection` holds where the loops
are, and a step of `projectObject` is one path. Which names and texts count as
sensitive is a parameter. `ReadAssumption` says what an object is: no leaf has
another below it.

**Policy, SafeWrite, Timeouts.** Decisions as functions of configuration, request
and object. In `Policy` a step starts a Server with any configuration that
validates. In `SafeWrite` a step changes the workload by any change that
validates, so that chains of changes are covered; one control at a time, since
the validator judges each key by itself. In `Timeouts` a step is a phase of a
request, with Durations of `Width` bits.

**Reconciler.** Each API call of Reconcile, finalize and fail is a step. Objects
are reduced to who controls them, the Service to its policy annotation and
selected revision, the Deployment to generation, replicas, revision and status.
The resource is read from a cache (`seen`) that lags; everything else is read
live, as `run.go` configures. Faults are failing calls, restarts and
interventions. The Deployment controller, the kubelet and the garbage collector
are external and modelled by their effect. `EnsureCertificate` keeps the
certificate, renews it or fails; why it does is `Certificates`.

**Certificates.** Overlapping reconciles of several servers, one API call a step:
read or create the root, read, sign or keep the leaf, publish the bundle, open or
close the endpoint. Time passes for all certificates at once, at most `MaxGap`
between two reconciles of a server. Upsets are a deleted root and failing calls.

## Runs

| Run | Shows | Bounds, and why they are enough |
|---|---|---|
| `plan_store` | accounting, budgets, one delivery as planned, lockout, no interference, refusals only when full, refinement of `OneTimePlan` | 2 IDs, subjects and codes; a plan within a share and one over it; 2 attempts; clock to 3 with TTL 1, so plans expire and are pruned |
| `commit_dangerous` | applied once, as reviewed, never on an operator-managed object, authorized at commit, slots exact | 2 racing requests, 1 object, 3 cluster writes |
| `commit_safe` | each change that takes effect is the reviewed one, and was validated for the content it replaces | the same in SafeWrite, with a content that may not be reached |
| `admission` | slots, shares and stages agree; streams that never end do not starve the queue; if streams end, every request is answered | 3 slots, 4 requests, 2 identities: queueing and both refusals occur |
| `reads` | the catalog, search, schema cache, watch, limited streams and read results | 2 callers, 2 capabilities; 4 entries with pages of one result and 2 checks; 2 loads of 3 keys into 2 entries; 4 changes of 3 sizes, one of them too large; streams up to 6 bytes with a limit of 4; objects with a Secret, a sensitive annotation and overlapping paths |
| `decisions` | the rate limiter, policy, SafeWrite, timeouts and certificates | 2 identities for 1 place, a bucket that takes 3 ticks for 2 requests; 12 resources under 3 rule sets; 2 containers; Durations of 8 bits in which sums and products overflow; 2 servers, a root that ends within the run |
| `reconciler_policy` | no request reaches a server of another policy | 2 policies, 1 fault, restarts on an old cache |
| `reconciler_live` | Ready is about the revision just written; fails closed; recovers; a foreign Service is untouched; no binding is left behind | 2 faults, a certificate renewal; restarts on a current cache |
| `admission_share`, `watch_gap`, `remote_timeout`, `reconciler_scale` | disagreements, below | the smallest at which they show |

Two of everything suffices for the races: each property concerns one plan,
object, handle or resource and the one other actor that interferes. In `reads`
and `decisions` a behavior is about one part (`part`) and the other parts stay in
one idle state: they share no state in the code either, so nothing is lost.
Deadlock is checked except where the system may stop: the reconciler with its
resource deleted and its faults used up, `reads` and `decisions` whose decisions
and streams come to an end, and a request that has been answered
(`remote_timeout`).

Several properties join the facts that make one part correct, each defined and
explained by itself just above the conjunction:

| Property | Conjuncts |
|---|---|
| `BytesKept` | `StoreTypeOK`, `Accounting`, `Budgets` |
| `Delivery` | `StoredAsPlanned`, `HandedOutOnce`, `HandedOutAsPlanned`, `Lockout` |
| `SafeWriteAsReviewed` | `AppliedAsReviewed`, `SafeWriteValidated` |
| `SlotsExact` | `AdmissionTypeOK`, `SharesExact`, `Nested`, the number of slots |
| `CatalogConsistent` | `CatalogTypeOK`, `OneRefresh`, `HandlesDecode`, `PartialServed` |
| `PagesExact` | `SearchTypeOK`, `PagesComplete`, `PagesInOrder`, `ReviewsBounded` |
| `CacheSound` | `SchemaTypeOK`, `CacheExact`, `CacheBounded`, `FirstStays` |
| `ResumesFaithfully` | `WatchTypeOK`, `InOrder`, `MissedOnlyWhenTruncated` |
| `CutExact` | `BodyExact`, `BufferExact` |
| `ReadAsAsked` | `ProjectionExact`, `PagingKept` |
| `RefusedWithCause` | `RetryAfterSuffices`, `TurnedAwayOnlyWhenFull` |
| `ModesHold` | `ModesNest`, `RulesNeverRaise` |
| `TimesKept` | `AnswerInTime`, `RemoteCapped` |
| `Verifiable` | `ChainValid`, `OneRoot` |

### Fairness

- `Admission`: weak fairness of a handler's steps, which Go's scheduler and the
  request timeouts give. Strong fairness of entering the semaphore: a Go channel
  serves its senders first come first served. Streams get none:
  `ShortRequestsServed` holds although they may stay open for ever, and
  `Answered` has "no stream stays open for ever" (their timeout) as its premise.
- `Catalog`: each caller goes on (discovery runs under the request's timeout) and
  calls again, and time passes. Discovery that fails for ever is excluded by the
  premise of `CatalogConverges`, not by fairness.
- `Search`: the client goes on and every review is answered or fails.
- `Watch`: the client resumes, a call ends, and a change that stays available is
  delivered. `CatchesUp` says nothing of a client whose every call ends before
  its first event.
- `Reconciler`: Reconcile runs again (it requeues itself, every error is
  retried), the cache catches up and the controllers act. Faults are finite in
  number, so liveness is about what happens after the last one.
- The other modules promise no progress and assume none. That certificates are
  renewed in time is a safety property (`ChainValid`, `RotationReaches`) under a
  bound on the time between reconciles.

## Disagreements between documentation and code

Each is a run that TLC shows violated.

1. `admission_share`: the deployment guide (`docs/deployment.md:248`) bounds the
   slots an identity can occupy. Slots are taken before the identity is known
   (`auth.go:313`), so the bound is on requests being served.
2. `watch_gap`: `manual.go:135` describes resuming a watch "without an event
   gap". The version advances before the output limit is tested
   (`reads.go:273`), so a truncated result skips the event left out. The result
   says so, and this order is also what gets a client past an event larger than
   the limit.
3. `remote_timeout`: `manual.go:174` calls `timeoutSeconds` "capped by server
   policy". The product with `time.Second` wraps around (`remote.go:63`), so an
   absurdly large request gets less than the cap, or nothing. It never gets more
   (`RemoteCapped`).
4. `reconciler_scale`: `docs/security.md:18` says an object not controlled by the
   resource is never scaled. The shutdown's patch (`reconciler.go:519`) has no
   precondition, so a Deployment that replaces the checked one in between is
   scaled. The window is one API call.

Noticed while modelling, without a run of their own:

- `docs/security.md:40` offers one-shot Pod logs in every mode;
  `hardDeniedInSafeMode` (`policy.go:258`) refuses every subresource but status
  and scale, so SafeWrite has no logs. `ModesNest` accordingly compares each mode
  with Dangerous, not ReadOnly with SafeWrite.
- `docs/security.md:38` limits a page to 100 access reviews; 100 is the limit of
  capabilities checked (`catalog.go:330`), and a write needs two reviews.
  `ReviewsBounded` states the code's bound.
- `docs/deployment.md:166` says a revision is not selected until it is ready. It
  is selected right after the Deployment is written (`reconciler.go:177`); until
  its Pod is ready the Service has no endpoint.

## Proofs

Eight modules hold theorems; two of them, `ChargesProofs` and `HandlerProofs`, hold
the lemmas others build on. Each theorem holds for every value of the constants
that satisfies the named assumption of the component's module (`StoreAssumption`
and so on: limits and sizes are natural numbers, positive where the code makes them
so; sets that stand for servers or catalog entries are finite). Bounds such as
`MaxUpsets` or `MaxGeneration` are constants like the others, so a theorem covers
behaviors with any number of faults, restarts and changes.

`tlapm --threads 2 M.tla` checks a module from nothing in three to thirteen minutes.
A leaf that is plain logic names Zenon, which keeps the SMT solver for arithmetic,
sequences and records.

**Plan store** (`PlanStoreProofs`). `BytesAlwaysKept` (types, exact counters,
budgets), `OneTimeDelivery` (stored and handed out as planned, once, with
lockout), `OwnersKeepPlans` (only the owner or time removes a plan),
`RefusalsOnlyWhenFull` and `Refinement` of `OneTimePlan`, all from
`StoreInvariant`. Neither counters nor budgets are inductive alone: deleting a plan
subtracts its size from two counters, which stays exact only if the counters were
exact and the sizes positive. `StoreInv` joins the store's consistency, the types
of the history, `StoredAsPlanned`, `HandedOutAsPlanned`, and `Closed`: a plan
handed out or locked out is no longer stored, which is what makes a second delivery
impossible. The bytes of a map are the cardinality of a set of cells (`Charges`),
so that lemmas on finite sets (`ChargesProofs`) replace an induction over a sum.

**Plan and commit** (`HandlerProofs`, `PlanCommitProofs`). `ChangesApplyOnce`,
`ChangesHitTheReviewed`, `ManagedStayUntouched`, `SafeWritesStayReviewed`,
`CommitsStayAuthorized`, `SlotsStayHeld`, and that the store keeps its promises
inside the whole server (`StoreKeepsItsPromises`). `HandlerProofs` states
`CommitInv` and shows that every handler keeps it, given what a step does to the
store; `PlanCommitProofs` takes that from `PlanStoreProofs` and adds the API server
and the other clients. `AppliedOnce` counts effects, and says nothing of a plan on
its way; `InOnePlace` says that an identifier handed out is with one commit, in one
write, or in what has taken effect. `AppliedAsReviewed` needs `OnTarget`: as long
as an object has the version an operation names, it is the object that was
reviewed, because no writer reuses a version. `AuthorizedAtCommit` needs that a
commit that is barred has had no permission since it began.

**Schema cache** (`LimitsProofs`, `CacheStaysSound`). The count is exact, the limits
hold, the first document stays. `CacheInv` needs the count to show the limits: a
store compares the count, not the entries, with the limit.

**Catalog** (`CallProofs`). One refresh at a time, handles and partial listings
(`CatalogStaysConsistent`), and that a complete snapshot is served while discovery
fails (`SnapshotAlwaysServed`). `HandlesDecode` alone is not inductive: retain
keeps the handles of the snapshot it replaces, so the invariant (`HandlesInv`) says
where a listing can come from (the snapshot, the kept partial listing, the listing
about to be stored) and that an answer since the last complete listing is within
the snapshot.

**Search** (`ReadsProofs`, `PagesStayExact`). `PagesExact` speaks of a client that
is done; `SearchInv` says the same of every page on the way: the pages hold the
usable entries before the cursor, the page in progress those between the cursor and
its index. The bound on reviews needs a finer count: two for each entry decided,
and for the entry looked at only those that are known.

**Watch** (`CallProofs`, `WatchResumes`). Received in order and never twice;
missed only when announced. The invariant says what an open call has gathered:
every change since its start, in order, and a version equal to the position of the
last.

**Admission** (`LimitsProofs`, `SlotsStayExact`). Shares count exactly the admitted
requests, resources are nested, limits are kept. The counts are cardinalities,
finite because an admitted request holds one of finitely many slots
(`AdmissionInv`).

**Rate limiting** (`LimitsProofs`). `RateStaysBounded` and `RefusalsHaveCause`. In
`RateInv` a bucket, with what it gains until now, never promises more than the ideal
one holds, an identity that was forgotten has a full ideal bucket, and what is
remembered is no older than the last sweep allows. That an evicted bucket was full
rests on the assumption that a bucket fills up within the idle time.

**Policy, SafeWrite, Timeouts** (`CallProofs`). `ModesAlwaysHold` and
`OwnObjectsStayKept` hold for every set of discovered resources and every
configuration `Validate` accepts. `ConstraintsStayKept` needs that the present value
of a container is as strict as every value it ever had, and that strictness is
transitive. `RequestsAnsweredInTime` adds up the phases; saturation and wrapping are
proved from `Half \in Nat`, a fact about powers of two that is assumed by name
because the provers do not evaluate `^`, and that TLC evaluates.

**Limited streams** (`ReadsProofs`). `StreamsCutExactly`: what is passed on is an
initial part of the stream, the whole of it unless marked, for every way of cutting
it. `LogsFollowedExactly`: the lines of followed logs, put together, are the
beginning of the log, and are marked exactly when something is missing. `LogsExact`
counts the bytes of all lines at the end; the invariant (`LogsInv`) says while
they are read that they hold the bytes read so far, each once and in order.

**Reads** (`CallProofs`). `SecretsAlwaysHidden` and `AnswersAsAsked` hold for every
response, every list of field paths and every choice of summary fields. Both speak
of the finished answer; `ReadInv` says of the loops on the way that each finished
object, and the one under construction, holds exactly the leaves that the paths done
so far lead to, and that `foundAny` says whether there are any. A step of the loops
adds one path's leaves, so no induction over the list of paths is needed. That
`setValueAtPath` loses nothing rests on an object's shape (no leaf below a leaf),
which redaction and cleaning have to keep: a redacted value becomes one leaf,
whatever was below it, and a map that cleaning empties had nothing else below it.
That it shows no Secret needs that such an emptied map is never a Secret's value.

**Certificates** (`OperatorProofs`). `EndpointsStayVerifiable` and
`RotationAlwaysReaches`, for any number of servers and any lifetimes with the margin
`CertificatesAssumption` states. `CertInv` bounds how old what a reconcile has read
can be, and lets what the endpoint presents be one reconcile older.

**Reconciler** (`OperatorProofs`). `PolicyStaysGated` holds for any number of
policies, certificates, faults and contested names, and for restarts on an old
cache. `Gated` says why: the Service selects a revision only under the policy the
ConfigMap holds, a Reconcile past the gate has closed it for every other policy,
and the version in a revision grows with every write of the ConfigMap, so a Pod of
the newest revision runs the newest configuration. `ReadyStaysCurrent` comes from
`Rolled`: a status about the newest generation counts Pods of its revision only.
Two theorems have a hypothesis, because without it the property does not
hold of the code: `NoBindingIsLeft` assumes `~StaleRestart` (see the end of this file), and
`ForeignStaysUntouched` that nobody else creates the Deployment, whose scale-down has
no precondition (`reconciler_scale`).

Only model-checked is liveness (`Answered`, `ShortRequestsServed`,
`CatalogConverges`, `SearchEnds`, `CatchesUp`, `FailsClosed`, `Recovers`): the prover
has no rules for fairness. Every safety property of a passing run is a theorem.

## Not modelled

- `schema.go`, `manual.go`, `errors.go`, `audit.go`, `http.go`, `upstream.go`,
  the API types and the command line: rewriting of documents, texts, wiring and
  declarations without state of their own.
- TokenReview and readiness, beyond success or failure.
- exec and attach carry no precondition, so nothing is claimed about which Pod
  they reach (`AppliedAsReviewed` leaves them out). `resolveContainer` and the
  remote protocol are left out.
- SafeWrite's rules for Services and for the paths of JSON patches: refusals that
  depend on the request alone.
- A TLS Secret of the user's own (`spec.tls.secretName`), and x509 encoding.
- The contents of summaries and tables, one-shot logs, and the preview of an
  over-long get or list.
- An operator write that succeeds although its answer is lost, and a resource
  deleted and created again under a new UID.
- `NoOrphanBinding` does not hold for an operator that starts on a cache older
  than the deletion (`StaleRestart = TRUE`): it binds again for a resource that is
  gone. The run takes `StaleRestart = FALSE`, and the theorem assumes it.

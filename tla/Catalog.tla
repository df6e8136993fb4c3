------------------------------- MODULE Catalog -------------------------------
(***************************************************************************)
(* The capability catalog (catalogCache.list in internal/server/catalog.go)*)
(* and the handles under which capabilities are given out                  *)
(* (capabilityCodec in internal/server/capability.go).                     *)
(*                                                                         *)
(* One caller at a time discovers the cluster's resources, without holding *)
(* the lock; the others wait for it, or are served from the snapshot or    *)
(* the back-off.  A call is cut where the lock is released.  Times are     *)
(* relative: the age of the snapshot, and what is left of the back-off.    *)
(* lastError is set exactly when a back-off is under way, and not kept.    *)
(***************************************************************************)
EXTENDS Naturals, FiniteSets

CONSTANTS
  Callers,       \* searches that can be in progress at the same time
  Capabilities,  \* what the cluster can offer
  CacheTime,     \* cacheTime, in ticks
  BackOff,       \* how long a failure is remembered, in ticks
  MaxChanges     \* bound: changes of what the cluster offers

ASSUME CatalogAssumption ==
  /\ CacheTime \in Nat \ {0}
  /\ BackOff \in Nat \ {0}
  /\ MaxChanges \in Nat

VARIABLES
  offered,     \* external: the capabilities the API server would list
  changes,     \* how often offered has changed
  items,       \* the last complete listing
  loaded,      \* loadedAt is set: there has been a complete listing
  age,         \* ticks since loadedAt, at most CacheTime
  retry,       \* ticks until retryAt, 0 when it has passed
  lastPartial, \* {}, or {l}: the listing l of a discovery that failed in part
  refreshing,  \* the refreshing channel exists
  handles,     \* capabilityCodec.handles
  at,          \* at[c]: where the call of c is
  found,       \* what the refresher's discovery returned, and whether all of it
  answer       \* answer[c]: what c's last call returned

cacheVars == <<items, loaded, age, retry, lastPartial, refreshing, handles>>
catalogVars == <<offered, changes, cacheVars, at, found, answer>>

Places == {"idle", "start", "waiting", "discovering", "building", "storing", "closing"}

\* refreshes counts the complete listings stored since the answer, up to two.
Answer(kind, listing) == [kind |-> kind, listing |-> listing, refreshes |-> 0]

CatalogInit ==
  /\ offered = Capabilities
  /\ changes = 0
  /\ items = {}
  /\ loaded = FALSE
  /\ age = 0
  /\ retry = 0
  /\ lastPartial = {}
  /\ refreshing = FALSE
  /\ handles = {}
  /\ at = [c \in Callers |-> "idle"]
  /\ found = [listing |-> {}, complete |-> FALSE]
  /\ answer = [c \in Callers |-> Answer("none", {})]

Moves(c, place) == at' = [at EXCEPT ![c] = place]

Returns(c, kind, listing) == answer' = [answer EXCEPT ![c] = Answer(kind, listing)]

-----------------------------------------------------------------------------
(* The loop at the head of list, under the lock.                           *)

Fresh == loaded /\ age < CacheTime

Call(c) ==
  /\ at[c] = "idle"
  /\ Moves(c, "start")
  /\ UNCHANGED <<offered, changes, cacheVars, found, answer>>

Hit(c) ==
  /\ at[c] = "start"
  /\ Fresh
  /\ Returns(c, "complete", items)
  /\ Moves(c, "idle")
  /\ UNCHANGED <<offered, changes, cacheVars, found>>

\* Faulty variant: a snapshot past its time is not served.
ServedFresh ==
  IF lastPartial # {} THEN <<"partial", UNION lastPartial>> ELSE <<"error", {}>>

\* What a caller gets during the back-off.
Served ==
  IF loaded THEN <<"complete", items>>
  ELSE IF lastPartial # {} THEN <<"partial", UNION lastPartial>> ELSE <<"error", {}>>

InBackOff(c) ==
  /\ at[c] = "start"
  /\ ~Fresh
  /\ retry > 0
  /\ Returns(c, Served[1], Served[2])
  /\ Moves(c, "idle")
  /\ UNCHANGED <<offered, changes, cacheVars, found>>

Wait(c) ==
  /\ at[c] = "start"
  /\ ~Fresh
  /\ retry = 0
  /\ refreshing
  /\ Moves(c, "waiting")
  /\ UNCHANGED <<offered, changes, cacheVars, found, answer>>

Begin(c) ==
  /\ at[c] = "start"
  /\ ~Fresh
  /\ retry = 0
  /\ ~refreshing
  /\ refreshing' = TRUE
  /\ Moves(c, "discovering")
  /\ UNCHANGED <<offered, changes, items, loaded, age, retry, lastPartial, handles, found, answer>>

\* The caller's context ends before it looks, while it waits, or during its discovery.
Cancel(c) ==
  /\ at[c] \in {"start", "waiting", "discovering"}
  /\ Returns(c, "cancelled", {})
  /\ Moves(c, IF at[c] = "discovering" THEN "closing" ELSE "idle")
  /\ UNCHANGED <<offered, changes, cacheVars, found>>

-----------------------------------------------------------------------------
(* The refresh, by the one caller that holds the channel.                  *)

\* discoveryForContext fails: nothing is remembered of it.
ClientFails(c) ==
  /\ at[c] = "discovering"
  /\ Returns(c, "client", {})
  /\ Moves(c, "closing")
  /\ UNCHANGED <<offered, changes, cacheVars, found>>

\* Discovery fails, with the resources it got nevertheless.
DiscoveryFails(c, some) ==
  /\ at[c] = "discovering"
  /\ retry' = BackOff
  /\ lastPartial' = {}
  /\ found' = [listing |-> some, complete |-> FALSE]
  /\ \/ loaded /\ Returns(c, "complete", items) /\ Moves(c, "closing")
     \/ ~loaded /\ some = {} /\ Returns(c, "error", {}) /\ Moves(c, "closing")
     \/ ~loaded /\ some # {} /\ Moves(c, "building") /\ UNCHANGED answer
  /\ UNCHANGED <<offered, changes, items, loaded, age, refreshing, handles>>

DiscoverySucceeds(c) ==
  /\ at[c] = "discovering"
  /\ found' = [listing |-> offered, complete |-> TRUE]
  /\ Moves(c, "building")
  /\ UNCHANGED <<offered, changes, cacheVars, answer>>

\* encode, once for each capability.
Build(c) ==
  /\ at[c] = "building"
  /\ handles' = handles \cup found.listing
  /\ Moves(c, "storing")
  /\ UNCHANGED <<offered, changes, items, loaded, age, retry, lastPartial, refreshing, found, answer>>

\* Faulty variant: only what is listed now keeps its handle.
retainListed(listing) == handles \cap listing

\* retain: the handles of this listing and of the one it replaces.
retain(listing) == handles \cap (listing \cup items)

\* Every listing given so far is one complete listing older.
Older ==
  [d \in Callers |->
     IF answer[d].listing = {} \/ answer[d].refreshes = 2 THEN answer[d]
     ELSE [answer[d] EXCEPT !.refreshes = @ + 1]]

StoreComplete(c) ==
  /\ at[c] = "storing"
  /\ found.complete
  /\ handles' = retain(found.listing)
  /\ items' = found.listing
  /\ loaded' = TRUE
  /\ age' = 0
  /\ retry' = 0
  /\ lastPartial' = {}
  /\ answer' = [Older EXCEPT ![c] = Answer("complete", found.listing)]
  /\ Moves(c, "closing")
  /\ UNCHANGED <<offered, changes, refreshing, found>>

StorePartial(c) ==
  /\ at[c] = "storing"
  /\ ~found.complete
  /\ lastPartial' = {found.listing}
  /\ Returns(c, "partial", found.listing)
  /\ Moves(c, "closing")
  /\ UNCHANGED <<offered, changes, items, loaded, age, retry, refreshing, handles, found>>

\* Faulty variant: the channel is closed and not taken away.
CloseKeepsChannel(c) ==
  /\ at[c] = "closing"
  /\ at' = [d \in Callers |-> IF d = c THEN "idle" ELSE IF at[d] = "waiting" THEN "start" ELSE at[d]]
  /\ UNCHANGED <<offered, changes, cacheVars, found, answer>>

\* The deferred function: everybody who waits looks again.
Close(c) ==
  /\ at[c] = "closing"
  /\ refreshing' = FALSE
  /\ at' = [d \in Callers |-> IF d = c THEN "idle" ELSE IF at[d] = "waiting" THEN "start" ELSE at[d]]
  /\ UNCHANGED <<offered, changes, items, loaded, age, retry, lastPartial, handles, found, answer>>

-----------------------------------------------------------------------------
(* Time, and the cluster.                                                  *)

CatalogTick ==
  /\ Fresh \/ retry > 0
  /\ age' = IF Fresh THEN age + 1 ELSE age
  /\ retry' = IF retry > 0 THEN retry - 1 ELSE 0
  /\ UNCHANGED <<offered, changes, items, loaded, lastPartial, refreshing, handles, at, found, answer>>

Offer(s) ==
  /\ changes < MaxChanges
  /\ changes' = changes + 1
  /\ offered' = s
  /\ UNCHANGED <<cacheVars, at, found, answer>>

Looks(c) == Hit(c) \/ InBackOff(c) \/ Wait(c) \/ Begin(c)

Refreshes(c) ==
  \/ ClientFails(c)
  \/ \E some \in SUBSET offered : DiscoveryFails(c, some)
  \/ DiscoverySucceeds(c)
  \/ Build(c)
  \/ StoreComplete(c)
  \/ StorePartial(c)
  \/ Close(c)

CatalogNext ==
  \/ \E c \in Callers : Call(c) \/ Looks(c) \/ Cancel(c) \/ Refreshes(c)
  \/ CatalogTick
  \/ \E s \in SUBSET Capabilities : Offer(s)

\* A refresh comes to an end (its requests have timeouts), time passes, and
\* clients call again and again.
CatalogFairness ==
  /\ \A c \in Callers : WF_catalogVars(Call(c) \/ Looks(c) \/ Refreshes(c))
  /\ WF_catalogVars(CatalogTick)

CatalogSpec == CatalogInit /\ [][CatalogNext]_catalogVars /\ CatalogFairness

-----------------------------------------------------------------------------
(* Properties.                                                             *)

Refreshing(c) == at[c] \in {"discovering", "building", "storing", "closing"}

\* The shape of the cache.
CatalogTypeOK ==
  /\ offered \subseteq Capabilities /\ items \subseteq Capabilities /\ handles \subseteq Capabilities
  /\ changes \in 0 .. MaxChanges
  /\ loaded \in BOOLEAN /\ refreshing \in BOOLEAN
  /\ age \in 0 .. CacheTime /\ retry \in 0 .. BackOff
  /\ lastPartial \subseteq SUBSET Capabilities
  /\ at \in [Callers -> Places]
  /\ found \in [listing : SUBSET Capabilities, complete : BOOLEAN]
  /\ answer \in [Callers -> [kind : {"none", "complete", "partial", "error", "cancelled", "client"},
                             listing : SUBSET Capabilities, refreshes : 0 .. 2]]

\* Whatever ways the calls end in, one caller refreshes at a time, and the
\* channel exists exactly as long: nobody waits for a refresh that is over.
OneRefresh ==
  /\ \A c, d \in Callers : Refreshing(c) /\ Refreshing(d) => c = d
  /\ refreshing <=> \E c \in Callers : Refreshing(c)
  /\ \A c \in Callers : at[c] = "waiting" => refreshing

\* A capability a caller was given keeps its handle until the second complete
\* listing after it, or the first one if the caller was given a partial listing.
HandlesDecode ==
  \A c \in Callers :
    \/ answer[c].kind = "complete" /\ answer[c].refreshes < 2
    \/ answer[c].kind = "partial" /\ answer[c].refreshes = 0
    => answer[c].listing \subseteq handles

\* Once there has been a complete listing no call ends in a partial listing or
\* a discovery error: the older complete snapshot is served instead.
SnapshotServed ==
  [][\A c \in Callers :
       loaded /\ at[c] \in {"start", "discovering", "storing"} /\ at'[c] \in {"idle", "closing"}
       => answer'[c].kind \notin {"partial", "error"}]_catalogVars

\* When a refresh that found only part of the resources is over, callers in the
\* back-off get that part, not the error.  (They do get the error while the
\* refresher is still building its listing.)
PartialServed == retry > 0 /\ ~refreshing /\ ~loaded => Served[2] = found.listing

\* What list keeps true of the catalog: one refresh at a time, handles that
\* outlive it, and a partial listing that is not forgotten.
CatalogConsistent == CatalogTypeOK /\ OneRefresh /\ HandlesDecode /\ PartialServed

\* A call that is cancelled, or whose refresh fails.
Fails ==
  \E c \in Callers : \/ Cancel(c) \/ ClientFails(c)
                     \/ \E some \in SUBSET offered : DiscoveryFails(c, some)

\* Once calls stop failing and the cluster's resources stay as they are, the
\* snapshot ends up as they are, whatever state the failures left the cache in.
Converges == <>[][~Fails]_catalogVars => <>[](loaded /\ items = offered)

=============================================================================

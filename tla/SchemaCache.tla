------------------------------ MODULE SchemaCache ------------------------------
(***************************************************************************)
(* The cache of OpenAPI documents (schemaCache.load in                     *)
(* internal/server/schema_cache.go).  A load looks under the lock, fetches *)
(* the document without it, and stores it under the lock again, so several *)
(* loads of one key can be at any two of these steps at once.              *)
(*                                                                         *)
(* A key is the credential digest (subject and token) with the group       *)
(* version; a document is abstracted to its estimated size.  Times are     *)
(* relative: what is left until an entry expires.                          *)
(***************************************************************************)
EXTENDS Charges

CONSTANTS
  Loads,       \* calls of load that can be in progress at the same time
  Keys,        \* credentials with group versions
  DocSizes,    \* estimated sizes of documents
  MaxEntries,  \* 64
  MaxCached,   \* schemaCacheMaxBytes
  Lifetime     \* five minutes, in ticks

ASSUME SchemaCacheAssumption ==
  /\ DocSizes \subseteq Nat
  /\ MaxEntries \in Nat
  /\ MaxCached \in Nat
  /\ Lifetime \in Nat

VARIABLES
  entries,     \* schemaCache.entries: a function on the cached keys
  cachedBytes, \* schemaCache.bytes
  load         \* load[l]: the call l, NoLoad when there is none

schemaVars == <<entries, cachedBytes, load>>

NoLoad == [at |-> "idle"]

\* left is negative once the entry's time has passed.
CachedDocument == [left : -1 .. Lifetime, size : DocSizes]

SchemaInit ==
  /\ entries = [k \in {} |-> 0]
  /\ cachedBytes = 0
  /\ load = [l \in Loads |-> NoLoad]

Stale(k) == entries[k].left < 0

Live == {k \in DOMAIN entries : ~Stale(k)}

\* Every lookup first drops what has expired.
Prune ==
  /\ entries' = [k \in Live |-> entries[k]]
  /\ cachedBytes' = cachedBytes - Bytes(entries, DOMAIN entries \ Live)

\* With a token: hit ends the call, a miss goes on to the API server.
Lookup(l, k) ==
  /\ load[l] = NoLoad
  /\ Prune
  /\ load' = [load EXCEPT ![l] =
                IF k \in DOMAIN entries' THEN [at |-> "idle"] ELSE [at |-> "fetching", key |-> k]]

\* The document arrives ...
Fetch(l, size) ==
  /\ load[l].at = "fetching"
  /\ load' = [load EXCEPT ![l] = [at |-> "storing", key |-> load[l].key, size |-> size]]
  /\ UNCHANGED <<entries, cachedBytes>>

\* ... or an error or the end of the call: nothing is stored.
FetchFails(l) ==
  /\ load[l].at = "fetching"
  /\ load' = [load EXCEPT ![l] = NoLoad]
  /\ UNCHANGED <<entries, cachedBytes>>

\* Faulty variant: the entry is stored again by a load that lost the race.
FitsAgain(k, size) ==
  /\ Cardinality(DOMAIN entries) < MaxEntries
  /\ size <= MaxCached - cachedBytes

Fits(k, size) ==
  /\ k \notin DOMAIN entries
  /\ Cardinality(DOMAIN entries) < MaxEntries
  /\ size <= MaxCached - cachedBytes

Store(l) ==
  LET k == load[l].key
      size == load[l].size
  IN  /\ load[l].at = "storing"
      /\ load' = [load EXCEPT ![l] = NoLoad]
      /\ \/ /\ Fits(k, size)
            /\ entries' = [j \in DOMAIN entries \cup {k} |->
                             IF j = k THEN [left |-> Lifetime, size |-> size] ELSE entries[j]]
            /\ cachedBytes' = cachedBytes + size
         \/ /\ ~Fits(k, size)
            /\ UNCHANGED <<entries, cachedBytes>>

SchemaTick ==
  /\ Live # {}
  /\ entries' = [k \in DOMAIN entries |->
                   [entries[k] EXCEPT !.left = IF Stale(k) THEN -1 ELSE @ - 1]]
  /\ UNCHANGED <<cachedBytes, load>>

SchemaNext ==
  \/ \E l \in Loads :
       \/ \E k \in Keys : Lookup(l, k)
       \/ \E size \in DocSizes : Fetch(l, size)
       \/ FetchFails(l)
       \/ Store(l)
  \/ SchemaTick

SchemaSpec == SchemaInit /\ [][SchemaNext]_schemaVars

-----------------------------------------------------------------------------
(* Properties.                                                             *)

\* The shape of the cache and of the loads in progress.
SchemaTypeOK ==
  /\ DOMAIN entries \subseteq Keys
  /\ entries \in [DOMAIN entries -> CachedDocument]
  /\ cachedBytes \in Int
  /\ load \in [Loads -> {NoLoad} \cup [at : {"fetching"}, key : Keys]
                        \cup [at : {"storing"}, key : Keys, size : DocSizes]]

\* The byte count is the size of what is cached, whatever loads of the same key
\* overlap and however often entries expire and are loaded again.
CacheExact == cachedBytes = Bytes(entries, DOMAIN entries)

\* The cache stays within its entries and bytes.
CacheBounded ==
  /\ Cardinality(DOMAIN entries) <= MaxEntries
  /\ cachedBytes <= MaxCached

\* A cached document is replaced only after it has expired: overlapping loads of
\* one key keep the first document, and none prolongs an entry's life.
FirstStays ==
  [][\A k \in Live :
       /\ k \in DOMAIN entries'
       /\ entries'[k].size = entries[k].size
       /\ entries'[k].left <= entries[k].left]_schemaVars

\* What load keeps true of the cache.
CacheSound == [](SchemaTypeOK /\ CacheExact /\ CacheBounded) /\ FirstStays

=============================================================================

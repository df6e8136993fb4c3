---------------------------- MODULE Certificates ----------------------------
(***************************************************************************)
(* The serving certificates the operator manages                           *)
(* (internal/operator/certificates.go) and the steps of Reconcile that use *)
(* them: one root for all servers, kept in a Secret, a leaf per server,    *)
(* the published bundle, and the endpoint that presents the leaf.          *)
(*                                                                         *)
(* Each API call is a step.  Reconciles of different servers overlap, as   *)
(* they do while one operator takes over from another, and the code        *)
(* prepares for it ("concurrently-created root CA").  A root is a number   *)
(* that is free again once nobody holds it.  Times are what is left of a   *)
(* certificate's life, negative once it is over.                           *)
(***************************************************************************)
EXTENDS Integers, FiniteSets

CONSTANTS
  Servers,      \* KubernetesMCPServers without a TLS Secret of their own
  RootLife,     \* five years
  LeafLife,     \* 90 days
  RenewBefore,  \* 30 days
  MaxGap,       \* the longest time from the end of one reconcile to that of the next
  MaxUpsets     \* bound: how often the root is replaced or a call fails

\* The margin covers a reconcile that has just checked and the one after it.
ASSUME CertificatesAssumption ==
  /\ IsFiniteSet(Servers) /\ Cardinality(Servers) \in Nat
  /\ RootLife \in Nat /\ LeafLife \in Nat /\ RenewBefore \in Nat /\ MaxGap \in Nat \ {0}
  /\ MaxUpsets \in Nat
  /\ 2 * MaxGap <= RenewBefore /\ RenewBefore < LeafLife

VARIABLES
  rootLeft,   \* rootLeft[n]: what is left of root n
  rootSecret, \* the root in the Secret supek8smcp-serving-ca, 0 when there is none
  stored,     \* history: the roots that have been in that Secret
  rotated,    \* history: ticks since that Secret last changed
  upsets,     \* how often the root was replaced or a call failed
  step,       \* step[s]: where the reconcile of s is
  ca,         \* ca[s]: the root that reconcile uses
  leaf,       \* leaf[s]: the leaf in the TLS Secret of s
  bundle,     \* bundle[s]: the root in the ConfigMap of s, 0 when there is none
  served,     \* served[s]: the leaf the endpoint of s presents, NoLeaf while it is closed
  since       \* since[s]: ticks since the last reconcile of s ended

certVars == <<rootLeft, rootSecret, stored, rotated, upsets, step, ca, leaf, bundle, served, since>>

NoLeaf == [root |-> 0, left |-> -1]

\* Enough for every root that can be held at a time.
Roots == 1 .. 1 + 4 * Cardinality(Servers)

InUse(n) ==
  n = rootSecret \/ \E s \in Servers : n \in {ca[s], leaf[s].root, bundle[s], served[s].root}

\* The smallest free one; there is always one.
Free(n) == ~InUse(n) /\ \A k \in Roots : ~InUse(k) => n <= k

CertInit ==
  /\ rootLeft = [n \in Roots |-> 0]
  /\ rootSecret = 0 /\ stored = {} /\ rotated = 0 /\ upsets = 0
  /\ step = [s \in Servers |-> "idle"]
  /\ ca = [s \in Servers |-> 0]
  /\ leaf = [s \in Servers |-> NoLeaf]
  /\ bundle = [s \in Servers |-> 0]
  /\ served = [s \in Servers |-> NoLeaf]
  /\ since = [s \in Servers |-> 0]

-----------------------------------------------------------------------------
(* ensureRootCA.                                                           *)

Goes(s, place, root) ==
  /\ step' = [step EXCEPT ![s] = place]
  /\ ca' = [ca EXCEPT ![s] = root]

\* parseCA refuses a root whose time is over.
parseCA(n) == rootLeft[n] >= 0

GetRoot(s) ==
  /\ step[s] \in {"idle", "get again"}
  /\ rootSecret # 0 /\ parseCA(rootSecret)
  /\ Goes(s, "sign", rootSecret)
  /\ UNCHANGED <<rootLeft, rootSecret, stored, rotated, leaf, bundle, served, since, upsets>>

\* Not found: a new root, so far only in memory.
newCA(s) ==
  /\ step[s] = "idle"
  /\ rootSecret = 0
  /\ \E n \in Roots :
       /\ Free(n)
       /\ Goes(s, "create", n)
       /\ rootLeft' = [rootLeft EXCEPT ![n] = RootLife]
       /\ stored' = stored \ {n}
  /\ UNCHANGED <<rootSecret, rotated, leaf, bundle, served, since, upsets>>

\* Faulty variant: a reconcile that finds the Secret taken goes on with its own root.
CreateRootKeepsOwn(s) ==
  /\ step[s] = "create"
  /\ Goes(s, "sign", ca[s])
  /\ IF rootSecret = 0
     THEN rootSecret' = ca[s] /\ stored' = stored \cup {ca[s]} /\ rotated' = 0
     ELSE UNCHANGED <<rootSecret, stored, rotated>>
  /\ UNCHANGED <<rootLeft, leaf, bundle, served, since, upsets>>

\* Already there: the root of whoever was first is read.
CreateRoot(s) ==
  /\ step[s] = "create"
  /\ \/ /\ rootSecret = 0
        /\ rootSecret' = ca[s] /\ stored' = stored \cup {ca[s]} /\ rotated' = 0
        /\ Goes(s, "sign", ca[s])
     \/ /\ rootSecret # 0
        /\ Goes(s, "get again", 0)
        /\ UNCHANGED <<rootSecret, stored, rotated>>
  /\ UNCHANGED <<rootLeft, leaf, bundle, served, since, upsets>>

-----------------------------------------------------------------------------
(* ensureServingCertificate, and what Reconcile does with the result.      *)

\* The leaf verifies with the given root now.
validateServingTLS(s, root) ==
  leaf[s].root = root /\ root # 0 /\ leaf[s].left >= 0 /\ rootLeft[root] >= 0

\* Faulty variant: the leaf is verified with the bundle of its own Secret.
servingCertificateOwnCA(s) == validateServingTLS(s, leaf[s].root) /\ leaf[s].left >= RenewBefore

servingCertificateValid(s) == validateServingTLS(s, ca[s]) /\ leaf[s].left >= RenewBefore

signServer(root) == [root |-> root, left |-> LeafLife]

\* The leaf is kept, or replaced by a new one.
EnsureLeaf(s) ==
  /\ step[s] = "sign"
  /\ leaf' = IF servingCertificateValid(s) THEN leaf
             ELSE [leaf EXCEPT ![s] = signServer(ca[s])]
  /\ Goes(s, "publish", ca[s])
  /\ UNCHANGED <<rootLeft, rootSecret, stored, rotated, bundle, served, since, upsets>>

\* The ConfigMap status.caConfigMapName names.
PublishCA(s) ==
  /\ step[s] = "publish"
  /\ bundle' = [bundle EXCEPT ![s] = ca[s]]
  /\ Goes(s, "deploy", ca[s])
  /\ UNCHANGED <<rootLeft, rootSecret, stored, rotated, leaf, served, since, upsets>>

\* The revision names the TLS Secret's version: the Pod is replaced when it changes.
Deploy(s) ==
  /\ step[s] = "deploy"
  /\ served' = [served EXCEPT ![s] = leaf[s]]
  /\ since' = [since EXCEPT ![s] = 0]
  /\ Goes(s, "idle", 0)
  /\ UNCHANGED <<rootLeft, rootSecret, stored, rotated, leaf, bundle, upsets>>

\* fail: the endpoint is closed (in the steps Reconciler models), and Reconcile is
\* tried again.
fail(s) ==
  /\ served' = [served EXCEPT ![s] = NoLeaf]
  /\ since' = [since EXCEPT ![s] = 0]
  /\ Goes(s, "idle", 0)
  /\ UNCHANGED <<rootLeft, rootSecret, stored, rotated, leaf, bundle>>

\* The root's time is over, or it is gone when it is read again.
RootRefused(s) ==
  /\ \/ step[s] \in {"idle", "get again"} /\ rootSecret # 0 /\ ~parseCA(rootSecret)
     \/ step[s] = "get again" /\ rootSecret = 0
  /\ fail(s)
  /\ UNCHANGED upsets

CertCallFails(s) ==
  /\ upsets < MaxUpsets
  /\ upsets' = upsets + 1
  /\ fail(s)

-----------------------------------------------------------------------------
(* The administrator, and time.                                            *)

\* Planned replacement of the root: its Secret is deleted.
DeleteRoot ==
  /\ rootSecret # 0
  /\ upsets < MaxUpsets
  /\ upsets' = upsets + 1
  /\ rootSecret' = 0
  /\ rotated' = 0
  /\ UNCHANGED <<rootLeft, stored, step, ca, leaf, bundle, served, since>>

Older(left) == IF left > -2 * MaxGap - 1 THEN left - 1 ELSE left

OlderLeaf(l) == IF l.root = 0 THEN l ELSE [l EXCEPT !.left = Older(@)]

CertTick ==
  /\ \A s \in Servers : since[s] < MaxGap
  /\ rootLeft' = [n \in Roots |-> IF InUse(n) THEN Older(rootLeft[n]) ELSE 0]
  /\ leaf' = [s \in Servers |-> OlderLeaf(leaf[s])]
  /\ served' = [s \in Servers |-> OlderLeaf(served[s])]
  /\ since' = [s \in Servers |-> since[s] + 1]
  /\ rotated' = IF rotated <= 2 * MaxGap THEN rotated + 1 ELSE rotated
  /\ stored' = {n \in stored : InUse(n)}
  /\ UNCHANGED <<rootSecret, step, ca, bundle, upsets>>

CertNext ==
  \/ \E s \in Servers :
       \/ GetRoot(s)
       \/ newCA(s)
       \/ CreateRoot(s)
       \/ EnsureLeaf(s)
       \/ PublishCA(s)
       \/ Deploy(s)
       \/ RootRefused(s)
       \/ CertCallFails(s)
  \/ DeleteRoot
  \/ CertTick

CertSpec == CertInit /\ [][CertNext]_certVars

-----------------------------------------------------------------------------
(* Properties.                                                             *)

\* An open endpoint never presents a leaf whose time is over, though it is only
\* looked at from time to time, and it is closed soon after the root has ended,
\* which nothing renews.  Between reconciles, the published bundle verifies it.
ChainValid ==
  \A s \in Servers : served[s] # NoLeaf =>
    /\ served[s].left >= 0
    /\ rootLeft[served[s].root] >= -2 * MaxGap
    /\ step[s] = "idle" => served[s].root = bundle[s]

\* However first reconciles race to create the root, nothing is signed by or
\* published under a root that was never in the shared Secret.
OneRoot ==
  \A s \in Servers : {leaf[s].root, bundle[s], served[s].root} \subseteq stored \cup {0}

\* What clients of an open endpoint can rely on.
Verifiable == ChainValid /\ OneRoot

\* Deleting the root's Secret replaces the root: soon after, every open endpoint
\* presents a leaf of the root that is in the Secret by then.
RotationReaches ==
  \A s \in Servers : served[s] # NoLeaf /\ rotated > 2 * MaxGap => served[s].root = rootSecret

=============================================================================

--------------------------- MODULE OperatorProofs ---------------------------
(***************************************************************************)
(* Proofs about the operator, for any constants: endpoints stay verifiable *)
(* through renewals and the rotation of the root (Certificates), and the   *)
(* Reconcile loop keeps the policy gate, the finalizer, the report of      *)
(* readiness and what belongs to somebody else (Reconciler).               *)
(***************************************************************************)
EXTENDS Certificates, Reconciler, TLAPS

\* The provers for leaves that name none, in the order they are tried.
USE SMTT(20), Z3T(30), Zenon

-----------------------------------------------------------------------------
(* Certificates.                                                           *)

Steps == {"idle", "get again", "create", "sign", "publish", "deploy"}

Leaves == [root : Roots \cup {0}, left : Int]

CertTypes ==
  /\ rootLeft \in [Roots -> Int]
  /\ stored \subseteq Roots /\ rootSecret \in stored \cup {0}
  /\ rotated \in Nat
  /\ step \in [Servers -> Steps]
  /\ ca \in [Servers -> Roots \cup {0}]
  /\ leaf \in [Servers -> Leaves]
  /\ bundle \in [Servers -> Roots \cup {0}]
  /\ served \in [Servers -> Leaves]
  /\ since \in [Servers -> 0 .. MaxGap]

\* How far the reconcile of s has come and how old what it has read can be: the
\* root was good when it was read, at most since[s] ago, ...
ReconcileOK(s) ==
  /\ step[s] \in {"create", "sign", "publish", "deploy"} =>
       ca[s] # 0 /\ rootLeft[ca[s]] >= -since[s]
  /\ step[s] \in {"sign", "publish", "deploy"} =>
       ca[s] \in stored /\ (rotated > since[s] => ca[s] = rootSecret)
  /\ step[s] \in {"publish", "deploy"} =>
       leaf[s].root = ca[s] /\ leaf[s].left >= RenewBefore - since[s]
  /\ step[s] = "deploy" => bundle[s] = ca[s]
  /\ leaf[s] = NoLeaf \/ leaf[s].root \in stored
  /\ bundle[s] \in stored \cup {0}

\* ... and what the endpoint presents is one reconcile older.
ServedOK(s) ==
  served[s] # NoLeaf =>
    /\ served[s].root \in stored
    /\ served[s].left >= RenewBefore - MaxGap - since[s]
    /\ rootLeft[served[s].root] >= -MaxGap - since[s]
    /\ step[s] # "deploy" => served[s].root = bundle[s]
    /\ rotated > MaxGap + since[s] => served[s].root = rootSecret

CertInv == CertTypes /\ \A s \in Servers : ReconcileOK(s) /\ ServedOK(s)

\* The constants as integers; no root is 0.
LEMMA CertConstants ==
  /\ MaxGap \in Nat /\ RenewBefore \in Nat /\ LeafLife \in Nat /\ RootLife \in Nat
  /\ 2 * MaxGap <= RenewBefore /\ RenewBefore < LeafLife
  /\ Roots \subseteq Nat \ {0}
  BY CertificatesAssumption DEF Roots

\* A server that a step leaves alone is as good as before, if the step keeps the
\* roots in use and either leaves the Secret or resets its age.
LEMMA OthersKept ==
  ASSUME CertTypes, NEW q \in Servers, ReconcileOK(q), ServedOK(q),
         step'[q] = step[q], ca'[q] = ca[q], leaf'[q] = leaf[q],
         bundle'[q] = bundle[q], served'[q] = served[q], since'[q] = since[q],
         \A n \in Roots : InUse(n) => rootLeft'[n] = rootLeft[n] /\ (n \in stored => n \in stored'),
         (rotated' = rotated /\ rootSecret' = rootSecret) \/ rotated' = 0
  PROVE  ReconcileOK(q)' /\ ServedOK(q)'
<1>1. /\ ca[q] \in Roots \cup {0} /\ bundle[q] \in Roots \cup {0} /\ since[q] \in 0 .. MaxGap
      /\ leaf[q].root \in Roots \cup {0} /\ served[q].root \in Roots \cup {0}
      /\ stored \subseteq Roots
  BY DEF CertTypes, Leaves
<1>2. ASSUME NEW n \in {ca[q], leaf[q].root, bundle[q], served[q].root}, n \in Roots
      PROVE  rootLeft'[n] = rootLeft[n] /\ (n \in stored => n \in stored')
  BY <1>2 DEF InUse
<1>3. rotated' = 0 => ~(rotated' > since[q]) /\ ~(rotated' > MaxGap + since[q])
  BY <1>1, CertConstants
<1>4. 0 \notin Roots
  BY CertConstants
<1>5. ReconcileOK(q)'
  BY <1>1, <1>2, <1>3, <1>4 DEF ReconcileOK, NoLeaf
<1>6. ServedOK(q)'
  <2> SUFFICES ASSUME served[q] # NoLeaf
               PROVE  /\ served[q].root \in stored'
                      /\ served[q].left >= RenewBefore - MaxGap - since[q]
                      /\ rootLeft'[served[q].root] >= -MaxGap - since[q]
                      /\ step[q] # "deploy" => served[q].root = bundle[q]
                      /\ rotated' > MaxGap + since[q] => served[q].root = rootSecret'
    BY DEF ServedOK, NoLeaf
  <2>1. served[q].root \in stored /\ served[q].root \in Roots
    BY <1>1 DEF ServedOK
  <2> QED BY <1>2, <1>3, <2>1 DEF ServedOK
<1> QED BY <1>5, <1>6

\* Steps that leave the roots and the Secret alone: it is enough to look at s.
LEMMA OwnStep ==
  ASSUME CertInv, NEW s \in Servers, CertTypes', ReconcileOK(s)', ServedOK(s)',
         UNCHANGED <<rootLeft, rootSecret, stored, rotated>>,
         \A q \in Servers \ {s} :
           /\ step'[q] = step[q] /\ ca'[q] = ca[q] /\ leaf'[q] = leaf[q]
           /\ bundle'[q] = bundle[q] /\ served'[q] = served[q] /\ since'[q] = since[q]
  PROVE  CertInv'
<1>1. ASSUME NEW q \in Servers \ {s} PROVE ReconcileOK(q)' /\ ServedOK(q)'
  <2>1. CertTypes /\ ReconcileOK(q) /\ ServedOK(q)
    BY <1>1 DEF CertInv
  <2> QED BY <1>1, <2>1, OthersKept
<1> QED BY <1>1 DEF CertInv

\* ensureRootCA finds the root.
LEMMA GetRootInv == ASSUME CertInv, NEW s \in Servers, GetRoot(s) PROVE CertInv'
<1>0. CertTypes /\ ReconcileOK(s) /\ ServedOK(s)
  BY DEF CertInv
<1>1. /\ step' = [step EXCEPT ![s] = "sign"] /\ ca' = [ca EXCEPT ![s] = rootSecret]
      /\ UNCHANGED <<rootLeft, rootSecret, stored, rotated, leaf, bundle, served, since>>
      /\ rootSecret # 0 /\ rootLeft[rootSecret] >= 0 /\ step[s] # "deploy"
  BY Zenon DEF GetRoot, Goes, parseCA
<1>2. /\ rootSecret \in stored /\ rootSecret \in Roots
      /\ since[s] \in Nat /\ rootLeft[rootSecret] \in Int
  BY <1>0, <1>1, CertConstants DEF CertTypes
<1>3. CertTypes'
  BY <1>0, <1>1, <1>2, Zenon DEF CertTypes, Steps, Leaves
<1>4. step'[s] = "sign" /\ ca'[s] = rootSecret
  BY <1>0, <1>1 DEF CertTypes
<1>5. ReconcileOK(s)'
  BY <1>0, <1>1, <1>2, <1>4 DEF ReconcileOK, NoLeaf
<1>6. ServedOK(s)'
  BY <1>0, <1>1, <1>4 DEF ServedOK, NoLeaf
<1>7. \A q \in Servers \ {s} : step'[q] = step[q] /\ ca'[q] = ca[q]
  BY <1>0, <1>1 DEF CertTypes
<1> QED BY <1>1, <1>3, <1>5, <1>6, <1>7, OwnStep

\* A new root is one nobody holds.
LEMMA NewCAInv == ASSUME CertInv, NEW s \in Servers, newCA(s) PROVE CertInv'
<1>0. CertTypes /\ ReconcileOK(s) /\ ServedOK(s)
  BY DEF CertInv
<1>1. PICK n \in Roots :
        /\ ~InUse(n)
        /\ step' = [step EXCEPT ![s] = "create"] /\ ca' = [ca EXCEPT ![s] = n]
        /\ rootLeft' = [rootLeft EXCEPT ![n] = RootLife]
        /\ stored' = stored \ {n}
        /\ UNCHANGED <<rootSecret, rotated, leaf, bundle, served, since>>
        /\ step[s] = "idle"
  BY Zenon DEF newCA, Free, Goes
<1>2. CertTypes'
  <2>1. rootSecret \in stored' \cup {0}
    BY <1>0, <1>1 DEF CertTypes, InUse
  <2>2. RootLife \in Int
    BY CertConstants
  <2>3. rootLeft' \in [Roots -> Int]
    BY <1>0, <1>1, <2>2 DEF CertTypes
  <2>4. /\ stored' \subseteq Roots /\ step' \in [Servers -> Steps]
        /\ ca' \in [Servers -> Roots \cup {0}]
    BY <1>0, <1>1, Zenon DEF CertTypes, Steps
  <2> QED BY <1>0, <1>1, <2>1, <2>3, <2>4 DEF CertTypes, Leaves
<1>3. \A k \in Roots : InUse(k) => rootLeft'[k] = rootLeft[k] /\ (k \in stored => k \in stored')
  BY <1>0, <1>1 DEF CertTypes
<1>4. ASSUME NEW q \in Servers \ {s} PROVE ReconcileOK(q)' /\ ServedOK(q)'
  <2>1. ReconcileOK(q) /\ ServedOK(q) /\ step'[q] = step[q] /\ ca'[q] = ca[q]
    BY <1>0, <1>1, <1>4 DEF CertInv, CertTypes
  <2> QED BY <1>0, <1>1, <1>3, <1>4, <2>1, OthersKept
<1>5. /\ step'[s] = "create" /\ ca'[s] = n /\ n # 0 /\ rootLeft'[n] = RootLife
      /\ since[s] \in Nat /\ RootLife \in Nat
  BY <1>0, <1>1, CertConstants DEF CertTypes
<1>6. /\ leaf[s].root \in stored => leaf[s].root \in stored'
      /\ bundle[s] \in stored => bundle[s] \in stored'
      /\ served[s].root \in stored =>
           served[s].root \in stored' /\ rootLeft'[served[s].root] = rootLeft[served[s].root]
  BY <1>0, <1>1, <1>3 DEF InUse, CertTypes
<1>7. ReconcileOK(s)'
  BY <1>0, <1>1, <1>5, <1>6 DEF ReconcileOK, NoLeaf
<1>8. ServedOK(s)'
  BY <1>0, <1>1, <1>5, <1>6 DEF ServedOK, NoLeaf
<1> QED BY <1>2, <1>4, <1>7, <1>8 DEF CertInv

\* The first reconcile stores its root, the others read that one.
LEMMA CreateRootInv == ASSUME CertInv, NEW s \in Servers, CreateRoot(s) PROVE CertInv'
<1>0. CertTypes /\ ReconcileOK(s) /\ ServedOK(s)
  BY DEF CertInv
<1>1. CASE rootSecret # 0
  <2>1. /\ step' = [step EXCEPT ![s] = "get again"] /\ ca' = [ca EXCEPT ![s] = 0]
        /\ UNCHANGED <<rootLeft, rootSecret, stored, rotated, leaf, bundle, served, since>>
        /\ step[s] = "create"
    BY <1>1, Zenon DEF CreateRoot, Goes
  <2>2. CertTypes'
    BY <1>0, <2>1, Zenon DEF CertTypes, Steps, Leaves
  <2>3. step'[s] = "get again" /\ \A q \in Servers \ {s} : step'[q] = step[q] /\ ca'[q] = ca[q]
    BY <1>0, <2>1, Zenon DEF CertTypes
  <2>4. ReconcileOK(s)' /\ ServedOK(s)'
    BY <1>0, <2>1, <2>3, Zenon DEF ReconcileOK, ServedOK, NoLeaf
  <2> QED BY <2>1, <2>2, <2>3, <2>4, OwnStep, Zenon
<1>2. CASE rootSecret = 0
  <2>1. /\ step' = [step EXCEPT ![s] = "sign"] /\ ca' = [ca EXCEPT ![s] = ca[s]]
        /\ rootSecret' = ca[s] /\ stored' = stored \cup {ca[s]} /\ rotated' = 0
        /\ UNCHANGED <<rootLeft, leaf, bundle, served, since>>
        /\ step[s] = "create"
    BY <1>2 DEF CreateRoot, Goes
  <2>2. ca[s] \in Roots /\ rootLeft[ca[s]] >= -since[s] /\ since[s] \in Nat
    BY <1>0, <2>1, CertConstants DEF CertTypes, ReconcileOK
  <2>3. CertTypes'
    BY <1>0, <2>1, <2>2, Zenon DEF CertTypes, Steps, Leaves
  <2>4. ASSUME NEW q \in Servers \ {s} PROVE ReconcileOK(q)' /\ ServedOK(q)'
    <3>1. ReconcileOK(q) /\ ServedOK(q) /\ step'[q] = step[q] /\ ca'[q] = ca[q]
      BY <1>0, <2>1, <2>4 DEF CertInv, CertTypes
    <3> QED BY <1>0, <2>1, <2>4, <3>1, OthersKept
  <2>5. step'[s] = "sign" /\ ca'[s] = ca[s]
    BY <1>0, <2>1 DEF CertTypes
  <2>6. ReconcileOK(s)'
    BY <1>0, <2>1, <2>2, <2>5, CertConstants DEF ReconcileOK, NoLeaf
  <2>7. ~(0 > MaxGap + since[s])
    BY <2>2, CertConstants
  <2>8. ServedOK(s)'
    BY <1>0, <2>1, <2>5, <2>7 DEF ServedOK, NoLeaf
  <2> QED BY <2>3, <2>4, <2>6, <2>8 DEF CertInv
<1> QED BY <1>1, <1>2

\* ensureServingCertificate keeps a leaf that lasts or signs a new one.
LEMMA EnsureLeafInv == ASSUME CertInv, NEW s \in Servers, EnsureLeaf(s) PROVE CertInv'
<1>0. CertTypes /\ ReconcileOK(s) /\ ServedOK(s)
  BY DEF CertInv
<1>1. /\ step' = [step EXCEPT ![s] = "publish"] /\ ca' = [ca EXCEPT ![s] = ca[s]]
      /\ UNCHANGED <<rootLeft, rootSecret, stored, rotated, bundle, served, since>>
      /\ step[s] = "sign"
      /\ leaf' = IF servingCertificateValid(s) THEN leaf
                 ELSE [leaf EXCEPT ![s] = [root |-> ca[s], left |-> LeafLife]]
  BY DEF EnsureLeaf, Goes, signServer
<1>2. ca[s] \in stored /\ ca[s] \in Roots /\ since[s] \in Nat
  BY <1>0, <1>1, CertConstants DEF CertTypes, ReconcileOK
<1>3. leaf' \in [Servers -> Leaves] /\ leaf'[s].root = ca[s] /\ leaf'[s].left >= RenewBefore
      /\ \A q \in Servers \ {s} : leaf'[q] = leaf[q]
  <2>1. CASE servingCertificateValid(s)
    BY <1>0, <1>1, <2>1 DEF servingCertificateValid, validateServingTLS, CertTypes
  <2>2. CASE ~servingCertificateValid(s)
    <3>1. [root |-> ca[s], left |-> LeafLife] \in Leaves /\ LeafLife >= RenewBefore
      BY <1>2, CertConstants DEF Leaves
    <3> QED BY <1>0, <1>1, <2>2, <3>1 DEF CertTypes
  <2> QED BY <2>1, <2>2
<1>4. CertTypes'
  BY <1>0, <1>1, <1>3, Zenon DEF CertTypes, Steps, Leaves
<1>5. step'[s] = "publish" /\ ca'[s] = ca[s] /\ leaf'[s].left \in Int
      /\ \A q \in Servers \ {s} : step'[q] = step[q] /\ ca'[q] = ca[q]
  BY <1>0, <1>1, <1>3 DEF CertTypes, Leaves
<1>6. leaf'[s].left >= RenewBefore - since[s]
  BY <1>2, <1>3, <1>5, CertConstants
<1>7. ReconcileOK(s)'
  BY <1>0, <1>1, <1>2, <1>3, <1>5, <1>6 DEF ReconcileOK, NoLeaf
<1>8. ServedOK(s)'
  BY <1>0, <1>1, <1>5 DEF ServedOK, NoLeaf
<1> QED BY <1>1, <1>3, <1>4, <1>5, <1>7, <1>8, OwnStep

\* The bundle is published before the leaf is served.
LEMMA PublishCAInv == ASSUME CertInv, NEW s \in Servers, PublishCA(s) PROVE CertInv'
<1>0. CertTypes /\ ReconcileOK(s) /\ ServedOK(s)
  BY DEF CertInv
<1>1. /\ step' = [step EXCEPT ![s] = "deploy"] /\ ca' = [ca EXCEPT ![s] = ca[s]]
      /\ bundle' = [bundle EXCEPT ![s] = ca[s]]
      /\ UNCHANGED <<rootLeft, rootSecret, stored, rotated, leaf, served, since>>
      /\ step[s] = "publish"
  BY DEF PublishCA, Goes
<1>2. ca[s] \in Roots
  BY <1>0, <1>1 DEF CertTypes, ReconcileOK
<1>3. CertTypes'
  BY <1>0, <1>1, <1>2, Zenon DEF CertTypes, Steps, Leaves
<1>4. /\ step'[s] = "deploy" /\ ca'[s] = ca[s] /\ bundle'[s] = ca[s]
      /\ \A q \in Servers \ {s} : step'[q] = step[q] /\ ca'[q] = ca[q] /\ bundle'[q] = bundle[q]
  BY <1>0, <1>1 DEF CertTypes
<1>5. ReconcileOK(s)'
  BY <1>0, <1>1, <1>4 DEF ReconcileOK, NoLeaf
<1>6. ServedOK(s)'
  BY <1>0, <1>1, <1>4 DEF ServedOK, NoLeaf
<1> QED BY <1>1, <1>3, <1>4, <1>5, <1>6, OwnStep

\* The endpoint presents what this reconcile has checked.
LEMMA DeployInv == ASSUME CertInv, NEW s \in Servers, Deploy(s) PROVE CertInv'
<1>0. CertTypes /\ ReconcileOK(s) /\ ServedOK(s)
  BY DEF CertInv
<1>1. /\ step' = [step EXCEPT ![s] = "idle"] /\ ca' = [ca EXCEPT ![s] = 0]
      /\ served' = [served EXCEPT ![s] = leaf[s]] /\ since' = [since EXCEPT ![s] = 0]
      /\ UNCHANGED <<rootLeft, rootSecret, stored, rotated, leaf, bundle>>
      /\ step[s] = "deploy"
  BY DEF Deploy, Goes
<1>2. 0 \in 0 .. MaxGap /\ since[s] \in Nat /\ since[s] <= MaxGap /\ rotated \in Nat
      /\ leaf[s] \in Leaves /\ ca[s] \in Roots /\ rootLeft[ca[s]] \in Int
  <2>1. since[s] \in 0 .. MaxGap /\ rotated \in Nat /\ leaf[s] \in Leaves
    BY <1>0 DEF CertTypes
  <2>2. ca[s] \in Roots /\ rootLeft[ca[s]] \in Int
    BY <1>0, <1>1 DEF CertTypes, ReconcileOK
  <2> QED BY <2>1, <2>2, CertConstants
<1>3. CertTypes'
  BY <1>0, <1>1, <1>2, Zenon DEF CertTypes, Steps
<1>4. /\ step'[s] = "idle" /\ served'[s] = leaf[s] /\ since'[s] = 0
      /\ \A q \in Servers \ {s} : /\ step'[q] = step[q] /\ ca'[q] = ca[q]
                                  /\ served'[q] = served[q] /\ since'[q] = since[q]
  BY <1>0, <1>1, Zenon DEF CertTypes
<1>5. ReconcileOK(s)'
  BY <1>0, <1>1, <1>4 DEF ReconcileOK, NoLeaf
<1>6. /\ leaf[s].root = ca[s] /\ leaf[s].left >= RenewBefore - since[s] /\ bundle[s] = ca[s]
      /\ ca[s] \in stored /\ rootLeft[ca[s]] >= -since[s]
      /\ rotated > since[s] => ca[s] = rootSecret
  BY <1>0, <1>1 DEF ReconcileOK
<1>7. /\ leaf[s].left >= RenewBefore - MaxGap - 0 /\ rootLeft[ca[s]] >= -MaxGap - 0
      /\ rotated > MaxGap + 0 => ca[s] = rootSecret
  <2>1. leaf[s].left \in Int
    BY <1>2 DEF Leaves
  <2> QED BY <1>2, <1>6, <2>1, CertConstants
<1>8. ServedOK(s)'
  BY <1>1, <1>4, <1>6, <1>7 DEF ServedOK
<1> QED BY <1>1, <1>3, <1>4, <1>5, <1>8, OwnStep

\* fail closes the endpoint.
LEMMA FailInv == ASSUME CertInv, NEW s \in Servers, fail(s) PROVE CertInv'
<1>0. CertTypes /\ ReconcileOK(s)
  BY DEF CertInv
<1>1. /\ step' = [step EXCEPT ![s] = "idle"] /\ ca' = [ca EXCEPT ![s] = 0]
      /\ served' = [served EXCEPT ![s] = NoLeaf] /\ since' = [since EXCEPT ![s] = 0]
      /\ UNCHANGED <<rootLeft, rootSecret, stored, rotated, leaf, bundle>>
  BY DEF fail, Goes
<1>2. 0 \in 0 .. MaxGap /\ NoLeaf \in Leaves
  BY CertConstants DEF Leaves, NoLeaf
<1>3. CertTypes'
  BY <1>0, <1>1, <1>2, Zenon DEF CertTypes, Steps
<1>4. /\ step'[s] = "idle" /\ served'[s] = NoLeaf
      /\ \A q \in Servers \ {s} : /\ step'[q] = step[q] /\ ca'[q] = ca[q]
                                  /\ served'[q] = served[q] /\ since'[q] = since[q]
  BY <1>0, <1>1 DEF CertTypes
<1>5. ReconcileOK(s)'
  BY <1>0, <1>1, <1>4 DEF ReconcileOK, NoLeaf
<1>6. ServedOK(s)'
  BY <1>4 DEF ServedOK, NoLeaf
<1> QED BY <1>1, <1>3, <1>4, <1>5, <1>6, OwnStep

\* The root is replaced: only its age matters to the servers.
LEMMA DeleteRootInv == ASSUME CertInv, DeleteRoot PROVE CertInv'
<1>1. /\ rootSecret' = 0 /\ rotated' = 0
      /\ UNCHANGED <<rootLeft, stored, step, ca, leaf, bundle, served, since>>
  BY DEF DeleteRoot
<1>2. CertTypes'
  BY <1>1 DEF CertInv, CertTypes, Leaves
<1>3. ASSUME NEW q \in Servers PROVE ReconcileOK(q)' /\ ServedOK(q)'
  <2>1. CertTypes /\ ReconcileOK(q) /\ ServedOK(q)
    BY <1>3 DEF CertInv
  <2> QED BY <1>1, <1>3, <2>1, OthersKept
<1> QED BY <1>2, <1>3 DEF CertInv

\* A tick passes: a certificate loses at most that much.
LEMMA OlderBy == ASSUME NEW x \in Int PROVE Older(x) \in Int /\ Older(x) >= x - 1
BY CertConstants DEF Older

\* The same for a leaf; that there is none stays so.
LEMMA OlderLeafBy ==
  ASSUME NEW l \in Leaves
  PROVE  /\ OlderLeaf(l) \in Leaves /\ OlderLeaf(l).root = l.root
         /\ OlderLeaf(l).left \in Int /\ OlderLeaf(l).left >= l.left - 1
         /\ l.root = 0 => OlderLeaf(l) = l
<1>1. l.left \in Int /\ l = [root |-> l.root, left |-> l.left]
  BY DEF Leaves
<1>2. Older(l.left) \in Int /\ Older(l.left) >= l.left - 1
  BY <1>1, OlderBy
<1>3. CASE l.root = 0
  BY <1>1, <1>3 DEF OlderLeaf
<1>4. CASE l.root # 0
  <2>1. OlderLeaf(l) = [root |-> l.root, left |-> Older(l.left)]
    BY <1>4 DEF OlderLeaf, Leaves
  <2> QED BY <1>2, <1>4, <2>1 DEF Leaves
<1> QED BY <1>3, <1>4

\* Time: everything a server holds ages by as much as its last reconcile.
LEMMA CertTickInv == ASSUME CertInv, CertTick PROVE CertInv'
<1>0. CertTypes
  BY DEF CertInv
<1>1. /\ rootLeft' = [n \in Roots |-> IF InUse(n) THEN Older(rootLeft[n]) ELSE 0]
      /\ leaf' = [s \in Servers |-> OlderLeaf(leaf[s])]
      /\ served' = [s \in Servers |-> OlderLeaf(served[s])]
      /\ since' = [s \in Servers |-> since[s] + 1]
      /\ rotated' = IF rotated <= 2 * MaxGap THEN rotated + 1 ELSE rotated
      /\ stored' = {n \in stored : InUse(n)}
      /\ UNCHANGED <<rootSecret, step, ca, bundle>>
      /\ \A s \in Servers : since[s] < MaxGap
  BY DEF CertTick
<1>2. ASSUME NEW n \in Roots, InUse(n)
      PROVE  /\ rootLeft[n] \in Int /\ rootLeft'[n] \in Int /\ rootLeft'[n] >= rootLeft[n] - 1
             /\ n \in stored => n \in stored'
  <2>1. rootLeft[n] \in Int
    BY <1>0, Zenon DEF CertTypes
  <2>2. rootLeft'[n] = Older(rootLeft[n])
    BY <1>1, <1>2
  <2> QED BY <1>1, <1>2, <2>1, <2>2, OlderBy
<1>3. rotated \in Nat /\ rotated' \in Nat /\ rotated' <= rotated + 1
  BY <1>0, <1>1, CertConstants DEF CertTypes
<1>4. ASSUME NEW s \in Servers
      PROVE  /\ leaf[s] \in Leaves /\ leaf'[s] = OlderLeaf(leaf[s])
             /\ served[s] \in Leaves /\ served'[s] = OlderLeaf(served[s])
             /\ since[s] \in Nat /\ since'[s] = since[s] + 1 /\ since[s] + 1 \in 0 .. MaxGap
             /\ ca[s] \in Roots \cup {0} /\ bundle[s] \in Roots \cup {0}
  <2>1. leaf[s] \in Leaves /\ served[s] \in Leaves /\ since[s] \in 0 .. MaxGap
        /\ ca[s] \in Roots \cup {0} /\ bundle[s] \in Roots \cup {0} /\ since[s] < MaxGap
    BY <1>0, <1>1 DEF CertTypes
  <2> QED BY <1>1, <2>1, CertConstants
<1>5. CertTypes'
  <2>1. rootLeft' \in [Roots -> Int]
    <3>1. \A n \in Roots : rootLeft'[n] \in Int
      BY <1>1, <1>2
    <3> QED BY <1>1, <3>1
  <2>2. rootSecret \in stored' \cup {0} /\ stored' \subseteq Roots
    BY <1>0, <1>1 DEF CertTypes, InUse
  <2>3. leaf' \in [Servers -> Leaves] /\ served' \in [Servers -> Leaves]
    BY <1>1, <1>4, OlderLeafBy
  <2>4. since' \in [Servers -> 0 .. MaxGap]
    BY <1>1, <1>4, Zenon
  <2> QED BY <1>0, <1>1, <1>3, <2>1, <2>2, <2>3, <2>4, Zenon DEF CertTypes
<1>6. ASSUME NEW s \in Servers PROVE ReconcileOK(s)'
  <2>1. ReconcileOK(s) /\ leaf[s] \in Leaves /\ since[s] \in Nat /\ since'[s] = since[s] + 1
        /\ ca[s] \in Roots \cup {0} /\ bundle[s] \in Roots \cup {0}
    BY <1>4, <1>6 DEF CertInv
  <2>2. /\ leaf'[s].root = leaf[s].root
        /\ leaf'[s].left \in Int /\ leaf'[s].left >= leaf[s].left - 1
        /\ leaf[s] = NoLeaf => leaf'[s] = NoLeaf
        /\ leaf[s].left \in Int /\ leaf[s].root \in Roots \cup {0}
    <3>1. leaf'[s] = OlderLeaf(leaf[s])
      BY <1>4, <1>6
    <3>2. NoLeaf.root = 0
      BY DEF NoLeaf
    <3> QED BY <2>1, <3>1, <3>2, OlderLeafBy DEF Leaves
  <2>3. ca[s] \in Roots => /\ rootLeft[ca[s]] \in Int /\ rootLeft'[ca[s]] \in Int
                           /\ rootLeft'[ca[s]] >= rootLeft[ca[s]] - 1
                           /\ ca[s] \in stored => ca[s] \in stored'
    BY <1>2, <1>6 DEF InUse
  <2>4. /\ leaf[s].root \in Roots => (leaf[s].root \in stored => leaf[s].root \in stored')
        /\ bundle[s] \in Roots => (bundle[s] \in stored => bundle[s] \in stored')
    BY <1>2, <1>6 DEF InUse
  <2>5. step[s] \in {"create", "sign", "publish", "deploy"} =>
          ca[s] # 0 /\ rootLeft'[ca[s]] >= -since'[s]
    BY <2>1, <2>3 DEF ReconcileOK
  <2>6. step[s] \in {"sign", "publish", "deploy"} =>
          ca[s] \in stored' /\ (rotated' > since'[s] => ca[s] = rootSecret)
    BY <1>3, <2>1, <2>3 DEF ReconcileOK
  <2>7. step[s] \in {"publish", "deploy"} =>
          leaf'[s].root = ca[s] /\ leaf'[s].left >= RenewBefore - since'[s]
    BY <2>1, <2>2, CertConstants DEF ReconcileOK
  <2>8. /\ step[s] = "deploy" => bundle[s] = ca[s]
        /\ leaf'[s] = NoLeaf \/ leaf'[s].root \in stored'
        /\ bundle[s] \in stored' \cup {0}
    BY <1>0, <2>1, <2>2, <2>4 DEF ReconcileOK, CertTypes
  <2> QED BY <1>1, <2>5, <2>6, <2>7, <2>8, Zenon DEF ReconcileOK, NoLeaf
<1>7. ASSUME NEW s \in Servers PROVE ServedOK(s)'
  <2>1. ServedOK(s) /\ served[s] \in Leaves /\ since[s] \in Nat /\ since'[s] = since[s] + 1
        /\ served'[s] = OlderLeaf(served[s])
    BY <1>4, <1>7 DEF CertInv
  <2>2. CASE served[s] = NoLeaf
    <3>1. NoLeaf.root = 0
      BY DEF NoLeaf
    <3>2. served'[s] = NoLeaf
      BY <2>1, <2>2, <3>1, OlderLeafBy, Zenon
    <3> QED BY <3>2 DEF ServedOK, NoLeaf
  <2>3. CASE served[s] # NoLeaf
    <3>1. /\ served[s].root \in stored
          /\ served[s].left >= RenewBefore - MaxGap - since[s]
          /\ rootLeft[served[s].root] >= -MaxGap - since[s]
          /\ step[s] # "deploy" => served[s].root = bundle[s]
          /\ rotated > MaxGap + since[s] => served[s].root = rootSecret
      BY <2>1, <2>3 DEF ServedOK
    <3>2. served[s].root \in Roots /\ InUse(served[s].root)
      BY <1>0, <1>7, <3>1, Zenon DEF CertTypes, InUse
    <3>3. /\ rootLeft[served[s].root] \in Int /\ rootLeft'[served[s].root] \in Int
          /\ rootLeft'[served[s].root] >= rootLeft[served[s].root] - 1
          /\ served[s].root \in stored'
      BY <1>2, <3>1, <3>2
    <3>4. /\ served'[s].root = served[s].root /\ served'[s].left \in Int /\ served[s].left \in Int
          /\ served'[s].left >= served[s].left - 1
      BY <2>1, OlderLeafBy, Zenon DEF Leaves
    <3>5. /\ served'[s].left >= RenewBefore - MaxGap - since'[s]
          /\ rootLeft'[served'[s].root] >= -MaxGap - since'[s]
          /\ rotated' > MaxGap + since'[s] => served'[s].root = rootSecret
      BY <1>3, <2>1, <3>1, <3>3, <3>4, CertConstants
    <3> QED BY <1>1, <3>1, <3>3, <3>4, <3>5, Zenon DEF ServedOK, NoLeaf
  <2> QED BY <2>2, <2>3
<1> QED BY <1>5, <1>6, <1>7 DEF CertInv

\* Every call and every tick keeps it.
LEMMA CertStep == CertInv /\ [CertNext]_certVars => CertInv'
<1> SUFFICES ASSUME CertInv, [CertNext]_certVars PROVE CertInv'
  OBVIOUS
<1>1. ASSUME NEW s \in Servers, RootRefused(s) \/ CertCallFails(s) PROVE CertInv'
  <2>1. fail(s)
    BY <1>1, Zenon DEF RootRefused, CertCallFails
  <2> QED BY <2>1, FailInv
<1>2. CASE UNCHANGED certVars
  BY <1>2 DEF certVars, CertInv, CertTypes, ReconcileOK, ServedOK, Leaves, NoLeaf
<1> QED BY <1>1, <1>2, GetRootInv, NewCAInv, CreateRootInv, EnsureLeafInv, PublishCAInv, DeployInv,
        DeleteRootInv, CertTickInv DEF CertNext

\* Nothing is served at the start.
LEMMA CertStart == CertInit => CertInv
<1> SUFFICES ASSUME CertInit PROVE CertInv
  OBVIOUS
<1>1. NoLeaf \in Leaves /\ 0 \in 0 .. MaxGap
  BY CertConstants DEF NoLeaf, Leaves
<1>2. CertTypes
  BY <1>1 DEF CertInit, CertTypes, Steps
<1>3. ASSUME NEW s \in Servers PROVE ReconcileOK(s) /\ ServedOK(s)
  <2>1. step[s] = "idle" /\ leaf[s] = NoLeaf /\ bundle[s] = 0 /\ served[s] = NoLeaf
    BY <1>3 DEF CertInit
  <2> QED BY <2>1 DEF ReconcileOK, ServedOK
<1> QED BY <1>2, <1>3 DEF CertInv

\* The invariant of the managed certificates.
LEMMA CertInvariant == CertSpec => []CertInv
BY CertStart, CertStep, PTL DEF CertSpec

\* ensureServingCertificate, PublishCA and the endpoint: for any number of servers
\* and upsets and any lifetimes with the margin the constants state, an open
\* endpoint presents a leaf that is in time and signed by a root of the Secret.
THEOREM EndpointsStayVerifiable == CertSpec => []Verifiable
<1>1. CertInv => Verifiable
  <2> SUFFICES ASSUME CertInv PROVE ChainValid /\ OneRoot
    BY DEF Verifiable
  <2>1. ASSUME NEW s \in Servers, served[s] # NoLeaf
        PROVE  /\ served[s].left >= 0
               /\ rootLeft[served[s].root] >= -2 * MaxGap
               /\ step[s] = "idle" => served[s].root = bundle[s]
    <3>1. /\ served[s].root \in stored
          /\ served[s].left >= RenewBefore - MaxGap - since[s]
          /\ rootLeft[served[s].root] >= -MaxGap - since[s]
          /\ step[s] # "deploy" => served[s].root = bundle[s]
      BY <2>1 DEF CertInv, ServedOK
    <3>2. served[s].left \in Int /\ rootLeft[served[s].root] \in Int /\ since[s] \in 0 .. MaxGap
      BY <2>1, <3>1, Zenon DEF CertInv, CertTypes, Leaves
    <3> QED BY <3>1, <3>2, CertConstants
  <2>2. ASSUME NEW s \in Servers
        PROVE  leaf[s].root \in stored \cup {0} /\ bundle[s] \in stored \cup {0}
               /\ served[s].root \in stored \cup {0}
    <3>1. NoLeaf.root = 0
      BY DEF NoLeaf
    <3> QED BY <2>2, <3>1 DEF CertInv, ReconcileOK, ServedOK
  <2> QED BY <2>1, <2>2 DEF ChainValid, OneRoot
<1> QED BY <1>1, CertInvariant, PTL

\* Planned replacement of the root: two gaps after the Secret last changed no open
\* endpoint presents a leaf of an earlier root.
THEOREM RotationAlwaysReaches == CertSpec => []RotationReaches
<1>1. CertInv => RotationReaches
  <2> SUFFICES ASSUME CertInv, NEW s \in Servers, served[s] # NoLeaf, rotated > 2 * MaxGap
               PROVE  served[s].root = rootSecret
    BY DEF RotationReaches
  <2>1. rotated \in Nat /\ since[s] \in 0 .. MaxGap
    BY DEF CertInv, CertTypes
  <2>2. rotated > MaxGap + since[s]
    BY <2>1, CertConstants
  <2> QED BY <2>2 DEF CertInv, ServedOK
<1> QED BY <1>1, CertInvariant, PTL

-----------------------------------------------------------------------------
(* Reconciler.                                                             *)

Places ==
  {"idle", "finalizer", "unbind", "release", "gate", "sa", "role", "bind", "reject", "tls",
   "config", "ca", "deployment", "service", "check", "status", "disable", "shutdown",
   "scale", "report"}

CRs ==
  {Gone} \cup [generation : 1 .. MaxGeneration, deleting : BOOLEAN, finalizer : BOOLEAN]

\* What a Reconcile carries from one call to the next.
WorkOK ==
  work \in [at : Places, generation : 0 .. MaxGeneration, read : Nat, version : Nat,
            tls : Nat, deployment : Nat, ready : BOOLEAN]

\* The resource a Reconcile holds was there when it was read.
ResourceOK ==
  /\ crs \in Seq(CRs) /\ crs # <<>> /\ crs[1].generation = 1
  /\ seen \in 1 .. Len(crs)
  /\ work.at # "idle" =>
       /\ work.read \in 1 .. seen /\ crs[work.read] # Gone
       /\ work.generation # 0

\* The Deployment, whose status is never about a generation to come.
DeploymentOK ==
  /\ deployment \in [generation : Nat, replicas : {0, 1}, revision : Revisions,
                     observed : Nat, available : Revisions]
  /\ deployment.observed <= deployment.generation

\* What the Service selects and the Pod runs are revisions that were written.
OthersOK ==
  /\ service \in [policy : 0 .. MaxGeneration, target : Revisions]
  /\ pod \in [revision : Revisions, generation : 0 .. MaxGeneration, ready : BOOLEAN]

\* The other objects; an unwritten ConfigMap is of no policy.
ObjectsOK ==
  /\ owner \in [Objects -> {"none", "cr", "other"}]
  /\ config \in [generation : 0 .. MaxGeneration, version : Nat]
  /\ config.version = 0 => config.generation = 0
  /\ binding \in {"none", "good", "wrong"}
  /\ tls \in 0 .. MaxTLS
  /\ status \in [ready : BOOLEAN, generation : 0 .. MaxGeneration]

\* The certificate and the configuration a Reconcile carries were issued, and nobody else
\* writes the ConfigMap between its write and the Service's.
Carried ==
  /\ owner["secret"] = "cr" => tls # 0
  /\ work.version <= config.version /\ work.tls <= tls
  /\ work.at \in {"config", "ca", "deployment", "service"} => work.tls # 0
  /\ work.at \in {"ca", "deployment", "service"} =>
       /\ config.generation = work.generation
       /\ config.version = work.version /\ work.version # 0

Shape == WorkOK /\ ResourceOK /\ DeploymentOK /\ OthersOK /\ ObjectsOK /\ Carried

\* The bounds as natural numbers.
LEMMA ReconcilerConstants ==
  /\ MaxGeneration \in Nat \ {0} /\ MaxTLS \in Nat \ {0}
  /\ Contested \subseteq Objects
BY ReconcilerAssumption

\* A Reconcile that goes on to another call keeps what it carries.
LEMMA GoKeeps ==
  ASSUME WorkOK, NEW p \in Places, Go(p)
  PROVE  /\ WorkOK' /\ work'.at = p
         /\ work'.generation = work.generation /\ work'.read = work.read
         /\ work'.version = work.version /\ work'.tls = work.tls
         /\ work'.deployment = work.deployment /\ work'.ready = work.ready
BY DEF Go, WorkOK

\* A Reconcile that returns carries nothing.
LEMMA ReturnKeeps ==
  ASSUME work' = Idle
  PROVE  WorkOK' /\ work'.at = "idle" /\ work'.version = 0 /\ work'.tls = 0 /\ ~work'.ready
BY ReconcilerConstants DEF Idle, WorkOK, Places

\* Each variable is written by a few steps only.
LEMMA Frames ==
  ASSUME [Next]_vars
  PROVE  /\ crs' = crs \/ AddFinalizer \/ Release \/ ChangeSpec \/ DeleteCR
         /\ seen' = seen \/ Observe \/ OperatorRestart
         /\ \/ service' = service
            \/ ReconcileServiceGate \/ ReconcileService \/ DisableService
            \/ \E o \in Contested : CreateObject(o)
         /\ config' = config \/ ReconcileConfig
         /\ \/ deployment' = deployment
            \/ ReconcileDeployment \/ ScaleDown \/ SyncDeployment
            \/ \E o \in Contested : CreateObject(o)
         /\ binding' = binding \/ Unbind \/ Bind \/ Reject \/ ChangeBinding
         /\ tls' = tls \/ EnsureCertificate
         /\ pod' = pod \/ StopPod \/ StartPod \/ PodReady \/ ContainerRestart
         /\ status' = status \/ UpdateStatus
         /\ work' = work \/ Reconcile \/ OperatorRestart
<1> USE DEF Next, Users, Kubernetes, vars, clusterVars,
    Observe, OperatorRestart, ChangeSpec, DeleteCR, ChangeRole, ChangeBinding, RemoveObject,
    CreateObject, StopPod, StartPod, PodReady, ContainerRestart, SyncDeployment, Collect
<1>1. CASE Begin \/ AddFinalizer \/ Unbind \/ Release \/ CheckShutdown \/ ScaleDown
  BY <1>1, ZenonT(30) DEF Reconcile, Begin, AddFinalizer, Unbind, Release, CheckShutdown, ScaleDown
<1>2. CASE \/ ReconcileServiceGate \/ ReconcileServiceAccount \/ CheckDelegation \/ Bind
           \/ Reject \/ EnsureCertificate
  BY <1>2, Zenon DEF Reconcile, ReconcileServiceGate, ReconcileServiceAccount, CheckDelegation, Bind,
    Reject, EnsureCertificate
<1>3. CASE \/ ReconcileConfig \/ ReconcileCAAndNetworkPolicy \/ ReconcileDeployment
           \/ ReconcileService \/ CheckDeployment \/ UpdateStatus \/ DisableService
  BY <1>3, Zenon DEF Reconcile, ReconcileConfig, ReconcileCAAndNetworkPolicy, ReconcileDeployment,
    ReconcileService, CheckDeployment, UpdateStatus, DisableService
<1>4. CASE Observe \/ OperatorRestart \/ Kubernetes
  BY <1>4, Zenon
<1>5. CASE Users
  BY <1>5, Zenon
<1>6. CASE UNCHANGED vars
  BY <1>6, Zenon
<1> QED BY <1>1, <1>2, <1>3, <1>4, <1>5, <1>6, ZenonT(30) DEF Reconcile

\* Between two calls a Reconcile stays with the resource it has read.
LEMMA WorkStep ==
  ASSUME WorkOK, ResourceOK, DeploymentOK, ObjectsOK, Reconcile \/ OperatorRestart
  PROVE  /\ WorkOK'
         /\ \/ work'.at = "idle"
            \/ Begin
            \/ work.at # "idle" /\ work'.generation = work.generation /\ work'.read = work.read
         /\ work'.version \in {0, work.version} \/ ReconcileConfig
         /\ work'.tls \in {0, work.tls} \/ EnsureCertificate
         /\ work'.ready => work.ready \/ CheckDeployment
<1> USE DEF At, Return
<1>1. CASE Begin
  <2> DEFINE cr == crs[seen]
  <2>1. cr \in CRs /\ cr # Gone /\ seen \in Nat
    BY <1>1 DEF Begin, ResourceOK
  <2>2. cr.generation \in 0 .. MaxGeneration
    BY <2>1, ReconcilerConstants DEF CRs, Gone
  <2>3. PICK p \in Places :
           work' = [Idle EXCEPT !.generation = cr.generation, !.read = seen, !.at = p]
    BY <1>1, Zenon DEF Begin, Places
  <2>4. WorkOK' /\ work'.version = 0 /\ work'.tls = 0 /\ ~work'.ready
    BY <2>1, <2>2, <2>3, Zenon DEF WorkOK, Idle
  <2> QED BY <1>1, <2>4
<1>2. CASE AddFinalizer
  BY <1>2, GoKeeps, ReturnKeeps, Zenon DEF AddFinalizer, Places
<1>3. CASE Unbind
  BY <1>3, GoKeeps, ReturnKeeps, Zenon DEF Unbind, Places
<1>4. CASE Release
  BY <1>4, GoKeeps, ReturnKeeps, Zenon DEF Release, Places
<1>5. CASE ReconcileServiceGate
  BY <1>5, GoKeeps, ReturnKeeps, Zenon DEF ReconcileServiceGate, Places
<1>6. CASE ReconcileServiceAccount
  BY <1>6, GoKeeps, ReturnKeeps, Zenon DEF ReconcileServiceAccount, Places
<1>7. CASE CheckDelegation
  BY <1>7, GoKeeps, ReturnKeeps DEF CheckDelegation, Places
<1>8. CASE Bind
  BY <1>8, GoKeeps, ReturnKeeps, Zenon DEF Bind, Places
<1>9. CASE Reject
  BY <1>9, GoKeeps, ReturnKeeps DEF Reject, Places
<1>10. CASE EnsureCertificate
  <2>1. ASSUME tls' \in {tls + 1} \cup (IF owner["secret"] = "cr" THEN {tls} ELSE {}),
               work' = [work EXCEPT !.at = "config", !.tls = tls']
        PROVE  WorkOK' /\ work'.generation = work.generation /\ work'.read = work.read
               /\ work'.version = work.version /\ work'.ready = work.ready
    <3>1. tls' \in Nat
      BY <2>1, ReconcilerConstants DEF ObjectsOK
    <3> QED BY <2>1, <3>1, Zenon DEF WorkOK, Places
  <2> QED BY <1>10, <2>1, GoKeeps DEF EnsureCertificate, Places
<1>11. CASE ReconcileConfig
  <2>1. ASSUME config'.version \in Nat,
               work' = [work EXCEPT !.at = "ca", !.version = config'.version]
        PROVE  WorkOK' /\ work'.generation = work.generation /\ work'.read = work.read
               /\ work'.tls = work.tls /\ work'.ready = work.ready
    BY <2>1, Zenon DEF WorkOK, Places
  <2>2. ASSUME config' = IF owner["config"] = "cr" /\ config.generation = work.generation
                         THEN config
                         ELSE [generation |-> work.generation, version |-> config.version + 1]
        PROVE  config'.version \in Nat
    BY <2>2 DEF ObjectsOK
  <2> QED BY <1>11, <2>1, <2>2, GoKeeps DEF ReconcileConfig, Places
<1>12. CASE ReconcileCAAndNetworkPolicy
  BY <1>12, GoKeeps, ReturnKeeps DEF ReconcileCAAndNetworkPolicy, Places
<1>13. CASE ReconcileDeployment
  <2>1. Deployed.generation \in Nat
    BY DEF Deployed, DeploymentOK
  <2>2. ASSUME deployment'.generation \in Nat,
               work' = [work EXCEPT !.at = "service", !.deployment = deployment'.generation]
        PROVE  WorkOK' /\ work'.generation = work.generation /\ work'.read = work.read
               /\ work'.version = work.version /\ work'.tls = work.tls
               /\ work'.ready = work.ready
    BY <2>2, Zenon DEF WorkOK, Places
  <2> QED BY <1>13, <2>1, <2>2, GoKeeps DEF ReconcileDeployment, Places
<1>14. CASE ReconcileService
  BY <1>14, GoKeeps, ReturnKeeps DEF ReconcileService, Places
<1>15. CASE CheckDeployment
  <2>1. isReady \in BOOLEAN
    BY DEF isReady
  <2>2. ASSUME work' = [work EXCEPT !.at = "status", !.ready = isReady]
        PROVE  WorkOK' /\ work'.generation = work.generation /\ work'.read = work.read
               /\ work'.version = work.version /\ work'.tls = work.tls
    BY <2>1, <2>2, Zenon DEF WorkOK, Places
  <2> QED BY <1>15, <2>2, ReturnKeeps DEF CheckDeployment
<1>16. CASE UpdateStatus
  BY <1>16, GoKeeps, ReturnKeeps DEF UpdateStatus, Places
<1>17. CASE DisableService
  BY <1>17, GoKeeps, ReturnKeeps, Zenon DEF DisableService, Places
<1>18. CASE CheckShutdown
  BY <1>18, GoKeeps, ReturnKeeps DEF CheckShutdown, Places
<1>19. CASE ScaleDown
  BY <1>19, GoKeeps, ReturnKeeps, Zenon DEF ScaleDown, Places
<1>20. CASE OperatorRestart
  BY <1>20, GoKeeps, ReturnKeeps DEF OperatorRestart, Places
<1> QED BY ZenonT(30), <1>1, <1>2, <1>3, <1>4, <1>5, <1>6, <1>7, <1>8, <1>9, <1>10, <1>11, <1>12, <1>13,
      <1>14, <1>15, <1>16, <1>17, <1>18, <1>19, <1>20 DEF Reconcile

\* The call a Reconcile is about to make tells which one it made last.
Flow ==
  /\ work'.at = "unbind" => Begin
  /\ work'.at = "release" => Unbind
  /\ work'.at = "gate" => Begin
  /\ work'.at = "sa" => ReconcileServiceGate
  /\ work'.at = "role" => ReconcileServiceAccount
  /\ work'.at = "bind" => CheckDelegation
  /\ work'.at = "tls" => Bind
  /\ work'.at = "config" => EnsureCertificate
  /\ work'.at = "ca" => ReconcileConfig
  /\ work'.at = "deployment" => ReconcileCAAndNetworkPolicy
  /\ work'.at = "service" => ReconcileDeployment
  /\ work'.at = "check" => ReconcileService
  /\ work'.at = "status" => CheckDeployment

\* The order of the calls of a Reconcile.
LEMMA CallOrder ==
  ASSUME WorkOK, Reconcile \/ OperatorRestart
  PROVE  Flow
<1> USE GoKeeps, ReturnKeeps DEF Return
<1>1. Begin => work'.at \in {"idle", "finalizer", "unbind", "gate"}
  BY DEF Begin, Places, Idle
<1>2. AddFinalizer => work'.at \in {"idle"}
  BY Zenon DEF AddFinalizer, Places
<1>3. Unbind => work'.at \in {"release", "idle"}
  BY Zenon DEF Unbind, Places
<1>4. Release => work'.at \in {"idle"}
  BY Zenon DEF Release, Places
<1>5. ReconcileServiceGate => work'.at \in {"sa", "disable"}
  BY Zenon DEF ReconcileServiceGate, Places
<1>6. ReconcileServiceAccount => work'.at \in {"role", "reject"}
  BY Zenon DEF ReconcileServiceAccount, Places
<1>7. CheckDelegation => work'.at \in {"bind", "reject"}
  BY Zenon DEF CheckDelegation, Places
<1>8. Bind => work'.at \in {"tls", "disable", "reject"}
  BY DEF Bind, Places
<1>9. Reject => work'.at \in {"disable"}
  BY DEF Reject, Places
<1>10. EnsureCertificate => work'.at \in {"config", "disable"}
  BY Zenon DEF EnsureCertificate, Places, WorkOK
<1>11. ReconcileConfig => work'.at \in {"ca", "disable"}
  BY Zenon DEF ReconcileConfig, Places, WorkOK
<1>12. ReconcileCAAndNetworkPolicy => work'.at \in {"deployment", "disable"}
  BY DEF ReconcileCAAndNetworkPolicy, Places
<1>13. ReconcileDeployment => work'.at \in {"service", "disable"}
  BY Zenon DEF ReconcileDeployment, Places, WorkOK
<1>14. ReconcileService => work'.at \in {"check", "disable"}
  BY DEF ReconcileService, Places
<1>15. CheckDeployment => work'.at \in {"status", "idle"}
  BY Zenon DEF CheckDeployment, Places, WorkOK
<1>16. UpdateStatus => work'.at \in {"idle"}
  BY Zenon DEF UpdateStatus, Places
<1>17. DisableService => work'.at \in {"shutdown"}
  BY DEF DisableService, Places
<1>18. CheckShutdown => work'.at \in {"scale", "report"}
  BY DEF CheckShutdown, Places
<1>19. ScaleDown => work'.at \in {"report"}
  BY Zenon DEF ScaleDown, Places
<1>20. OperatorRestart => work'.at \in {"idle"}
  BY DEF OperatorRestart, Places
<1> HIDE GoKeeps, ReturnKeeps DEF Return
<1> QED BY <1>1, <1>2, <1>3, <1>4, <1>5, <1>6, <1>7, <1>8, <1>9, <1>10, <1>11, <1>12, <1>13,
      <1>14, <1>15, <1>16, <1>17, <1>18, <1>19, <1>20 DEF Reconcile, Flow

\* A write of the resource adds a version to its history.
LEMMA History ==
  ASSUME Shape, [Next]_vars
  PROVE  /\ crs' = crs \/ \E cr \in CRs : crs' = Append(crs, cr)
         /\ crs' \in Seq(CRs) /\ crs' # <<>> /\ Len(crs') >= Len(crs)
         /\ \A i \in 1 .. Len(crs) : crs'[i] = crs[i]
<1>1. crs \in Seq(CRs) /\ crs # <<>> /\ Len(crs) \in Nat \ {0} /\ Current \in CRs
  BY DEF Shape, ResourceOK, Current
<1>2. ASSUME Current # Gone
      PROVE  /\ [Current EXCEPT !.finalizer = TRUE] \in CRs
             /\ [Current EXCEPT !.deleting = TRUE] \in CRs
             /\ Current.generation < MaxGeneration =>
                  [Current EXCEPT !.generation = @ + 1] \in CRs
  <2>1. Current \in [generation : 1 .. MaxGeneration, deleting : BOOLEAN, finalizer : BOOLEAN]
    BY <1>1, <1>2 DEF CRs
  <2>2. /\ [Current EXCEPT !.finalizer = TRUE] \in CRs
        /\ [Current EXCEPT !.deleting = TRUE] \in CRs
    BY <2>1, Zenon DEF CRs
  <2>3. ASSUME Current.generation < MaxGeneration
        PROVE  [Current EXCEPT !.generation = @ + 1] \in CRs
    <3>1. Current.generation + 1 \in 1 .. MaxGeneration
      BY <2>1, <2>3, ReconcilerConstants
    <3> QED BY <2>1, <3>1 DEF CRs
  <2> QED BY <2>2, <2>3
<1>3. ~Current.deleting => Current # Gone
  BY DEF Gone
<1>4. Gone \in CRs
  BY DEF CRs
<1>5. crs' = crs \/ \E cr \in CRs : crs' = Append(crs, cr)
  <2>1. CASE AddFinalizer
    <3>1. work.read = Len(crs) => Current # Gone
      BY <2>1 DEF AddFinalizer, At, Shape, ResourceOK, Current
    <3> QED BY <2>1, <3>1, <1>2 DEF AddFinalizer, UpdateCR
  <2>2. CASE Release
    BY <2>2, <1>4 DEF Release, UpdateCR
  <2>3. CASE ChangeSpec
    BY <2>3, <1>2, <1>3 DEF ChangeSpec
  <2>4. CASE DeleteCR
    BY <2>4, <1>2, <1>3, <1>4 DEF DeleteCR
  <2> QED BY <2>1, <2>2, <2>3, <2>4, Frames
<1>6. CASE crs' = crs
  BY <1>1, <1>6
<1>7. ASSUME NEW cr \in CRs, crs' = Append(crs, cr)
      PROVE  /\ crs' \in Seq(CRs) /\ crs' # <<>> /\ Len(crs') >= Len(crs)
             /\ \A i \in 1 .. Len(crs) : crs'[i] = crs[i]
  BY <1>1, <1>7
<1> QED BY <1>5, <1>6, <1>7

\* The resource a Reconcile carries stays the one it has read.
LEMMA ResourceNext ==
  ASSUME Shape, [Next]_vars
  PROVE  WorkOK' /\ ResourceOK'
<1> USE DEF Shape
<1>1. WorkOK'
  <2>1. CASE work' = work
    BY <2>1 DEF WorkOK
  <2> QED BY <2>1, WorkStep, Frames
<1>2. crs'[1].generation = 1
  BY History DEF ResourceOK
<1>3. seen' \in 1 .. Len(crs') /\ (seen <= seen' \/ OperatorRestart)
  <2>1. CASE seen' = seen
    BY <2>1, History DEF ResourceOK
  <2>2. CASE Observe
    BY <2>2, History DEF Observe, ResourceOK
  <2>3. CASE OperatorRestart
    <3>1. seen' \in 1 .. Len(crs) /\ crs' = crs
      BY <2>3 DEF OperatorRestart, ResourceOK
    <3> QED BY <2>3, <3>1
  <2> QED BY <2>1, <2>2, <2>3, Frames
<1>4. ASSUME work'.at # "idle"
      PROVE  work'.read \in 1 .. seen' /\ crs'[work'.read] # Gone /\ work'.generation # 0
  <2>1. CASE Begin
    <3>1. /\ seen' = seen /\ crs' = crs /\ crs[seen] # Gone
          /\ work'.read = seen /\ work'.generation = crs[seen].generation
      BY <2>1 DEF Begin, Idle
    <3>2. crs[seen] \in CRs
      BY DEF ResourceOK
    <3> QED BY <3>1, <3>2, ReconcilerConstants DEF CRs, ResourceOK
  <2>2. CASE work.at # "idle" /\ work'.generation = work.generation /\ work'.read = work.read
    <3>1. seen <= seen'
      BY <1>3, <1>4 DEF OperatorRestart, Idle
    <3>2. seen \in 1 .. Len(crs) /\ seen' \in Nat
      BY <1>3, History DEF ResourceOK
    <3>3. work.read \in 1 .. seen /\ crs[work.read] # Gone /\ work.generation # 0
      BY <2>2 DEF ResourceOK
    <3>4. work.read \in 1 .. Len(crs) /\ work.read \in 1 .. seen'
      BY <3>1, <3>2, <3>3
    <3> QED BY <2>2, <3>3, <3>4, History
  <2> QED BY <2>1, <2>2, <1>4, Frames, WorkStep
<1> QED BY <1>1, <1>2, <1>3, <1>4, History, Zenon DEF ResourceOK

\* An object is absent, of the resource or of somebody else; it becomes the resource's
\* where Reconcile writes it, and somebody else's only under a contested name.
LEMMA OwnerNext ==
  ASSUME owner \in [Objects -> {"none", "cr", "other"}], [Next]_vars
  PROVE  /\ owner' \in [Objects -> {"none", "cr", "other"}]
         /\ owner'["secret"] = "cr" => owner["secret"] = "cr" \/ EnsureCertificate
         /\ owner'["deployment"] = "cr" => owner["deployment"] = "cr" \/ ReconcileDeployment
         /\ owner'["deployment"] = "other" =>
              \/ owner["deployment"] = "other"
              \/ "deployment" \in Contested /\ CreateObject("deployment")
<1> USE DEF Objects
<1>1. ASSUME NEW o \in Objects, Own(o)
      PROVE  /\ owner' \in [Objects -> {"none", "cr", "other"}]
             /\ owner'[o] = "cr" /\ \A x \in Objects \ {o} : owner'[x] = owner[x]
  BY <1>1, Zenon DEF Own
<1>2. CASE Reconcile
  <2>1. CASE ReconcileCAAndNetworkPolicy
    BY <1>1, <2>1 DEF ReconcileCAAndNetworkPolicy, reconcileNetworkPolicy
  <2>2. CASE ReconcileServiceGate \/ ReconcileService \/ DisableService
    BY <1>1, <2>2 DEF ReconcileServiceGate, ReconcileService, DisableService, reconcileService
  <2>3. CASE EnsureCertificate
    BY <1>1, <2>3 DEF EnsureCertificate
  <2>4. CASE ReconcileDeployment
    BY <1>1, <2>4 DEF ReconcileDeployment
  <2>5. CASE ReconcileServiceAccount \/ ReconcileConfig
    BY <1>1, <2>5 DEF ReconcileServiceAccount, ReconcileConfig
  <2>6. CASE UNCHANGED owner
    BY <2>6
  <2> QED BY <1>2, <2>1, <2>2, <2>3, <2>4, <2>5, <2>6, ZenonT(30) DEF Reconcile, Begin, AddFinalizer,
        Unbind, Release, CheckDelegation, Bind, Reject, CheckDeployment, UpdateStatus,
        CheckShutdown, ScaleDown, clusterVars
<1>3. ASSUME NEW o \in Contested, RemoveObject(o)
      PROVE  owner' = [owner EXCEPT ![o] = "none"] /\ o \in Objects
  BY <1>3, ReconcilerConstants DEF RemoveObject
<1>4. ASSUME NEW o \in Contested, CreateObject(o)
      PROVE  /\ owner' = [owner EXCEPT ![o] = "other"] /\ o \in Objects
             /\ o = "deployment" => "deployment" \in Contested /\ CreateObject("deployment")
  BY <1>4, ReconcilerConstants, Zenon DEF CreateObject
<1>5. CASE \E o \in Contested : RemoveObject(o) \/ CreateObject(o)
  BY <1>3, <1>4, <1>5
<1>6. CASE owner' = [o \in Objects |-> IF owner[o] = "cr" THEN "none" ELSE owner[o]]
  BY <1>6
<1>7. CASE UNCHANGED owner
  BY <1>7, Zenon
<1>8. CASE ChangeSpec \/ DeleteCR \/ ChangeRole \/ ChangeBinding \/ Observe \/ OperatorRestart
           \/ Kubernetes \/ UNCHANGED vars
  BY <1>6, <1>7, <1>8 DEF ChangeSpec, DeleteCR, ChangeRole, ChangeBinding, Observe,
    OperatorRestart, Kubernetes, StopPod, StartPod, PodReady, ContainerRestart,
    SyncDeployment, Collect, vars, clusterVars
<1> QED BY <1>2, <1>5, <1>8 DEF Next, Users

\* The certificate and the configuration are issued in order.
LEMMA ObjectsNext ==
  ASSUME Shape, [Next]_vars
  PROVE  ObjectsOK' /\ config.version <= config'.version /\ tls <= tls'
<1> USE DEF Shape
<1>1. /\ config' \in [generation : 0 .. MaxGeneration, version : Nat]
      /\ config'.version = 0 => config'.generation = 0
      /\ config.version <= config'.version
  <2>1. CASE config' = config
    BY <2>1 DEF ObjectsOK
  <2>2. CASE ReconcileConfig
    <3>1. \/ config' = config
          \/ config' = [generation |-> work.generation, version |-> config.version + 1]
      BY <2>2 DEF ReconcileConfig
    <3> QED BY <3>1 DEF ObjectsOK, WorkOK
  <2> QED BY <2>1, <2>2, Frames
<1>2. tls' \in 0 .. MaxTLS /\ tls <= tls'
  <2>1. CASE tls' = tls
    BY <2>1, ReconcilerConstants DEF ObjectsOK
  <2>2. CASE EnsureCertificate
    <3>1. \/ tls' = tls
          \/ tls' = tls + 1 /\ tls' <= MaxTLS
      BY <2>2, Zenon DEF EnsureCertificate
    <3> QED BY <3>1, ReconcilerConstants DEF ObjectsOK
  <2> QED BY <2>1, <2>2, Frames
<1>3. binding' \in {"none", "good", "wrong"}
  BY Frames DEF ObjectsOK, Unbind, Bind, Reject, ChangeBinding
<1>4. status' \in [ready : BOOLEAN, generation : 0 .. MaxGeneration]
  <2>1. CASE status' = status
    BY <2>1 DEF ObjectsOK
  <2>2. CASE UpdateStatus
    BY <2>2 DEF UpdateStatus, ObjectsOK, WorkOK
  <2> QED BY <2>1, <2>2, Frames
<1>5. owner' \in [Objects -> {"none", "cr", "other"}]
  BY OwnerNext DEF ObjectsOK
<1> QED BY <1>1, <1>2, <1>3, <1>4, <1>5 DEF ObjectsOK

\* The revision of a Reconcile that has written the configuration.
LEMMA RevisionWritten ==
  ASSUME Shape, work.at \in {"deployment", "service"}
  PROVE  Revision \in Revisions /\ Revision # Disabled /\ Revision[2] = config.version
<1>1. work.generation \in 1 .. MaxGeneration
  BY ReconcilerConstants DEF Shape, WorkOK, ResourceOK
<1>2. work.version \in 1 .. config.version /\ work.version = config.version
  BY DEF Shape, WorkOK, ObjectsOK, Carried
<1>3. work.tls \in 1 .. MaxTLS
  BY ReconcilerConstants DEF Shape, WorkOK, ObjectsOK, Carried
<1> QED BY <1>1, <1>2, <1>3 DEF Revision, revision, Revisions, Disabled

\* A revision stays one when the configuration is written again.
LEMMA RevisionsGrow ==
  ASSUME Shape, config'.version \in Nat, config.version <= config'.version
  PROVE  Revisions \subseteq Revisions'
<1>1. 1 .. config.version \subseteq 1 .. config'.version
  BY DEF Shape, ObjectsOK
<1> QED BY <1>1 DEF Revisions

\* A revision other than the disabled one names a version of the configuration that was
\* written.
LEMMA RevisionVersion ==
  ASSUME Shape, NEW r \in Revisions
  PROVE  r # Disabled => r[2] \in 1 .. config.version
BY Zenon DEF Revisions

\* What a Reconcile carries was issued.
LEMMA CarriedNext ==
  ASSUME Shape, [Next]_vars
  PROVE  Carried'
<1> USE DEF Shape
<1>1. WorkOK' /\ ObjectsOK' /\ config.version <= config'.version /\ tls <= tls'
  BY ResourceNext, ObjectsNext
<1>2. ASSUME ReconcileConfig, ~Go("disable")
      PROVE  /\ config'.generation = work.generation
             /\ work' = [work EXCEPT !.at = "ca", !.version = config'.version]
  <2>1. /\ config' = IF owner["config"] = "cr" /\ config.generation = work.generation
                     THEN config
                     ELSE [generation |-> work.generation, version |-> config.version + 1]
        /\ work' = [work EXCEPT !.at = "ca", !.version = config'.version]
    BY <1>2 DEF ReconcileConfig
  <2> QED BY <2>1
<1>3. ASSUME EnsureCertificate, ~Go("disable")
      PROVE  /\ tls' = tls + 1 \/ (tls' = tls /\ owner["secret"] = "cr")
             /\ work' = [work EXCEPT !.at = "config", !.tls = tls']
  BY <1>3 DEF EnsureCertificate
<1>4. owner'["secret"] = "cr" => tls' # 0
  <2>1. CASE EnsureCertificate
    BY <1>3, <2>1, <1>1 DEF EnsureCertificate, Carried, ObjectsOK
  <2> QED BY <2>1, <1>1, OwnerNext DEF Carried, ObjectsOK
<1>5. work'.version <= config'.version
  <2>1. CASE ReconcileConfig /\ ~Go("disable")
    <3>1. work'.version = config'.version
      BY <2>1, <1>2, Zenon DEF WorkOK
    <3> QED BY <3>1, <1>1 DEF ObjectsOK
  <2>2. CASE ReconcileConfig /\ Go("disable")
    BY <2>2, <1>1, GoKeeps DEF Places, Carried, WorkOK, ObjectsOK
  <2>3. CASE work'.version \in {0, work.version}
    BY <2>3, <1>1 DEF Carried, WorkOK, ObjectsOK
  <2> QED BY <2>1, <2>2, <2>3, WorkStep, Frames
<1>6. work'.tls <= tls'
  <2>1. CASE EnsureCertificate /\ ~Go("disable")
    <3>1. work'.tls = tls'
      BY <2>1, <1>3, Zenon DEF WorkOK
    <3> QED BY <3>1, <1>1 DEF ObjectsOK
  <2>2. CASE EnsureCertificate /\ Go("disable")
    BY <2>2, <1>1, GoKeeps DEF Places, Carried, WorkOK, ObjectsOK
  <2>3. CASE work'.tls \in {0, work.tls}
    BY <2>3, <1>1 DEF Carried, WorkOK, ObjectsOK
  <2> QED BY <2>1, <2>2, <2>3, WorkStep, Frames
<1>7. ASSUME work'.at \in {"config", "ca", "deployment", "service"}
      PROVE  /\ work'.tls # 0
             /\ work'.at # "config" => /\ config'.generation = work'.generation
                                      /\ config'.version = work'.version /\ work'.version # 0
  <2>1. CASE work' = work
    <3>1. config' = config \/ work.at = "config"
      BY Frames DEF ReconcileConfig, At
    <3> QED BY <2>1, <3>1, <1>7 DEF Carried
  <2>2. CASE EnsureCertificate
    <3>1. ~Go("disable") /\ At("tls")
      BY <2>2, <1>7, GoKeeps DEF Places, EnsureCertificate
    <3>2. tls' # 0
      BY <2>2, <3>1, <1>3 DEF Carried, ObjectsOK
    <3>3. work'.tls = tls' /\ work'.at = "config"
      BY <2>2, <3>1, <1>3, Zenon DEF WorkOK
    <3> QED BY <3>2, <3>3
  <2>3. CASE ReconcileConfig
    <3>1. ~Go("disable") /\ At("config")
      BY <2>3, <1>7, GoKeeps DEF Places, ReconcileConfig
    <3>2. /\ config'.generation = work'.generation /\ config'.version = work'.version
          /\ work'.tls = work.tls /\ work'.generation = work.generation
      BY <2>3, <3>1, <1>2, Zenon DEF WorkOK
    <3>3. work.tls # 0 /\ work.generation # 0
      BY <3>1, Zenon DEF Carried, ResourceOK, At
    <3> QED BY <3>2, <3>3, <1>1 DEF ObjectsOK
  <2>4. CASE ReconcileCAAndNetworkPolicy
    <3>1. At("ca") /\ config' = config /\ (Go("deployment") \/ Go("disable"))
      BY <2>4, Zenon DEF ReconcileCAAndNetworkPolicy
    <3> QED BY <3>1, GoKeeps DEF Places, Carried, At
  <2>5. CASE ReconcileDeployment
    <3>1. /\ At("deployment") /\ config' = config
          /\ work'.tls = work.tls /\ work'.version = work.version
          /\ work'.generation = work.generation
      BY <2>5, GoKeeps, ZenonT(30) DEF ReconcileDeployment, WorkOK, Places
    <3> QED BY <3>1 DEF Carried, At
  <2> QED BY <1>7, <2>1, <2>2, <2>3, <2>4, <2>5, Frames, CallOrder, Zenon DEF Flow
<1> QED BY <1>4, <1>5, <1>6, <1>7 DEF Carried

\* The Deployment and its status.
LEMMA DeploymentNext ==
  ASSUME Shape, [Next]_vars
  PROVE  DeploymentOK'
<1> USE DEF Shape
<1> DEFINE Deployments == [generation : Nat, replicas : {0, 1}, revision : Revisions,
                           observed : Nat, available : Revisions]
<1>1. Revisions \subseteq Revisions' /\ Disabled \in Revisions
  BY RevisionsGrow, ObjectsNext DEF ObjectsOK, Revisions
<1>2. CASE deployment' = deployment
  BY <1>1, <1>2 DEF DeploymentOK
<1>d. ASSUME deployment' \in Deployments, deployment'.observed <= deployment'.generation
      PROVE  DeploymentOK'
  BY <1>1, <1>d DEF DeploymentOK
<1>3. CASE ReconcileDeployment
  <2>1. Revision \in Revisions
    BY <1>3, RevisionWritten, Zenon DEF ReconcileDeployment, At
  <2>2. CASE deployment' = [generation |-> 1, replicas |-> 1, revision |-> Revision,
                            observed |-> 0, available |-> Disabled]
    BY <1>1, <1>d, <2>1, <2>2
  <2>3. CASE deployment' = [deployment EXCEPT !.generation = @ + 1, !.replicas = 1,
                              !.revision = Revision]
    <3>0. deployment \in Deployments /\ deployment.generation + 1 \in Nat
      BY DEF DeploymentOK
    <3>1. deployment' \in Deployments
      BY <2>1, <2>3, <3>0, Zenon
    <3>2. /\ deployment'.observed = deployment.observed
          /\ deployment'.generation = deployment.generation + 1
      BY <2>3 DEF DeploymentOK
    <3> QED BY <1>d, <3>1, <3>2 DEF DeploymentOK
  <2> QED BY <1>2, <1>3, <2>2, <2>3 DEF ReconcileDeployment, Deployed
<1>4. CASE ScaleDown
  <2>1. CASE deployment' = [deployment EXCEPT !.generation = @ + 1, !.replicas = 0]
    <3>0. deployment \in Deployments /\ deployment.generation + 1 \in Nat
      BY DEF DeploymentOK
    <3>1. deployment' \in Deployments
      BY <2>1, <3>0, Zenon
    <3>2. /\ deployment'.observed = deployment.observed
          /\ deployment'.generation = deployment.generation + 1
      BY <2>1 DEF DeploymentOK
    <3> QED BY <1>d, <3>1, <3>2 DEF DeploymentOK
  <2> QED BY <1>2, <1>4, <2>1 DEF ScaleDown
<1>5. CASE SyncDeployment
  <2>1. PICK r \in Revisions :
          deployment' = [deployment EXCEPT !.observed = deployment.generation, !.available = r]
    BY <1>5, Zenon DEF SyncDeployment, OthersOK, Revisions
  <2>2. deployment' \in Deployments
    BY <2>1, Zenon DEF DeploymentOK
  <2>3. /\ deployment'.observed = deployment.generation
        /\ deployment'.generation = deployment.generation
    BY <2>1, Zenon DEF DeploymentOK
  <2> QED BY <1>d, <2>2, <2>3 DEF DeploymentOK
<1>6. ASSUME NEW o \in Contested, CreateObject(o)
      PROVE  DeploymentOK'
  <2>1. CASE deployment' = [generation |-> 1, replicas |-> 1, revision |-> Disabled,
                            observed |-> 0, available |-> Disabled]
    <3>1. Disabled \in Revisions'
      BY DEF Revisions
    <3> QED BY <2>1, <3>1 DEF DeploymentOK
  <2> QED BY <1>2, <1>6, <2>1, Zenon DEF CreateObject
<1> QED BY <1>2, <1>3, <1>4, <1>5, <1>6, Frames

\* The Service's selector and the Pod.
LEMMA OthersNext ==
  ASSUME Shape, [Next]_vars
  PROVE  OthersOK'
<1> USE DEF Shape
<1>1. Revisions \subseteq Revisions' /\ Disabled \in Revisions
  BY RevisionsGrow, ObjectsNext, Zenon DEF ObjectsOK, Revisions
<1>2. service' \in [policy : 0 .. MaxGeneration, target : Revisions']
  <2>1. CASE service' = service
    BY <1>1, <2>1, Zenon DEF OthersOK
  <2>2. ASSUME NEW r \in Revisions, service' = [policy |-> work.generation, target |-> r]
        PROVE  service' \in [policy : 0 .. MaxGeneration, target : Revisions']
    BY <1>1, <2>2, Zenon DEF WorkOK
  <2>3. CASE ReconcileServiceGate
    <3>1. gateTarget \in Revisions
      BY <1>1, Zenon DEF gateTarget, OthersOK
    <3> QED BY <2>1, <2>2, <2>3, <3>1, Zenon DEF ReconcileServiceGate, reconcileService
  <2>4. CASE ReconcileService
    <3>1. Revision \in Revisions
      BY <2>4, RevisionWritten, Zenon DEF ReconcileService, At
    <3> QED BY <2>1, <2>2, <2>4, <3>1, Zenon DEF ReconcileService, reconcileService
  <2>5. CASE DisableService
    BY <1>1, <2>1, <2>2, <2>5 DEF DisableService, reconcileService
  <2>6. ASSUME NEW o \in Contested, CreateObject(o)
        PROVE  service' \in [policy : 0 .. MaxGeneration, target : Revisions']
    <3>1. service' = service \/ service' = [policy |-> 0, target |-> Disabled]
      BY <2>6 DEF CreateObject
    <3> QED BY <1>1, <2>1, <3>1, ReconcilerConstants
  <2> QED BY <2>1, <2>3, <2>4, <2>5, <2>6, Frames
<1>3. pod' \in [revision : Revisions', generation : 0 .. MaxGeneration, ready : BOOLEAN]
  <2>1. pod \in [revision : Revisions', generation : 0 .. MaxGeneration, ready : BOOLEAN]
    BY <1>1 DEF OthersOK
  <2>2. CASE StopPod
    BY <1>1, <2>2, ReconcilerConstants DEF StopPod, NoPod
  <2>3. CASE StartPod
    BY <1>1, <2>3 DEF StartPod, DeploymentOK, ObjectsOK
  <2>4. CASE PodReady
    BY <2>1, <2>4, Zenon DEF PodReady
  <2>5. CASE ContainerRestart
    BY <2>1, <2>5, Zenon DEF ContainerRestart, ObjectsOK
  <2> QED BY <2>1, <2>2, <2>3, <2>4, <2>5, Frames
<1> QED BY <1>2, <1>3, Zenon DEF OthersOK

\* Init has the shape.
LEMMA ShapeInit == Init => Shape
<1> SUFFICES ASSUME Init PROVE Shape
  OBVIOUS
<1>1. Disabled \in Revisions
  BY DEF Revisions
<1>2. WorkOK /\ work.at = "idle" /\ work.version = 0 /\ work.tls = 0
  <2>1. work = Idle
    BY DEF Init
  <2>2. Idle.at = "idle" /\ Idle.version = 0 /\ Idle.tls = 0
    BY DEF Idle
  <2>3. 0 \in 0 .. MaxGeneration
    BY ReconcilerConstants
  <2>4. WorkOK
    BY <2>1, <2>3 DEF Idle, WorkOK, Places
  <2> QED
    BY <2>1, <2>2, <2>4, ZenonT(30)
<1>3. ResourceOK
  <2> DEFINE cr == [generation |-> 1, deleting |-> FALSE, finalizer |-> FALSE]
  <2>1. cr \in CRs
    BY ReconcilerConstants DEF CRs
  <2>2. crs = <<cr>> /\ seen = 1
    BY DEF Init
  <2>3. crs \in Seq(CRs) /\ crs # <<>> /\ crs[1] = cr /\ Len(crs) = 1
    <3> HIDE DEF cr
    <3> QED BY <2>1, <2>2
  <2>4. crs[1].generation = 1
    BY <2>3
  <2> QED
    BY <1>2, <2>2, <2>3, <2>4 DEF ResourceOK
<1>4. DeploymentOK
  <2>1. deployment = [generation |-> 0, replicas |-> 0, revision |-> Disabled,
                      observed |-> 0, available |-> Disabled]
    BY Zenon DEF Init
  <2> QED
    BY <1>1, <2>1 DEF DeploymentOK
<1>5. OthersOK
  <2>1. 0 \in 0 .. MaxGeneration
    BY ReconcilerConstants
  <2>2. service = [policy |-> 0, target |-> Disabled]
    BY Zenon DEF Init
  <2>3. pod = [revision |-> Disabled, generation |-> 0, ready |-> FALSE]
    BY Zenon DEF Init, NoPod
  <2>4. service \in [policy : 0 .. MaxGeneration, target : Revisions]
    BY <1>1, <2>1, <2>2
  <2>5. pod \in [revision : Revisions, generation : 0 .. MaxGeneration, ready : BOOLEAN]
    BY <1>1, <2>1, <2>3, Zenon
  <2> QED
    BY <2>4, <2>5 DEF OthersOK
<1>6. ObjectsOK
  <2>1. 0 \in 0 .. MaxGeneration /\ 0 \in 0 .. MaxTLS
    BY ReconcilerConstants
  <2>2. /\ owner = [o \in Objects |-> "none"] /\ binding = "none" /\ tls = 0
        /\ config = [generation |-> 0, version |-> 0]
        /\ status = [ready |-> FALSE, generation |-> 0]
    BY DEF Init
  <2>3. owner \in [Objects -> {"none", "cr", "other"}]
    BY <2>2
  <2>4. config \in [generation : 0 .. MaxGeneration, version : Nat] /\ config.generation = 0
    BY <2>1, <2>2
  <2>5. status \in [ready : BOOLEAN, generation : 0 .. MaxGeneration]
    BY <2>1, <2>2
  <2> QED
    BY <2>1, <2>2, <2>3, <2>4, <2>5 DEF ObjectsOK
<1>7. Carried
  <2>1. owner["secret"] = "none"
    BY Zenon DEF Init, Objects
  <2>2. config.version = 0 /\ tls = 0
    BY Zenon DEF Init
  <2>3. work.version <= config.version /\ work.tls <= tls
    BY <1>2, <2>2
  <2> QED
    BY <1>2, <2>1, <2>3, Zenon DEF Carried
<1> QED BY <1>2, <1>3, <1>4, <1>5, <1>6, <1>7 DEF Shape

\* Every step keeps the shape.
LEMMA ShapeNext == Shape /\ [Next]_vars => Shape'
BY ResourceNext, ObjectsNext, CarriedNext, DeploymentNext, OthersNext, Zenon DEF Shape

\* The gate: the Service selects a revision only under the policy the ConfigMap holds, and
\* a Reconcile past the gate has closed it for every other policy; a Pod of the revision of
\* the newest configuration runs that configuration, because the version in the revision
\* grows with every write of it; so does a Pod that is selected.
Gated ==
  /\ service.target # Disabled => config.generation = service.policy
  /\ PastGate => service.target = Disabled \/ service.policy = work.generation
  /\ pod # NoPod => pod.revision # Disabled
  /\ owner["deployment"] = "cr" => deployment.revision # Disabled
  /\ pod.revision # Disabled /\ pod.revision[2] = config.version =>
       pod.generation = config.generation
  /\ service.target # Disabled /\ pod.revision = service.target =>
       pod.generation = service.policy

\* A step on the Pod: what it runs is what was mounted when its container started.
LEMMA PodStep ==
  ASSUME Shape, [Next]_vars, pod' # pod
  PROVE  /\ UNCHANGED <<owner, service, config, deployment, work>>
         /\ \/ pod'.revision = Disabled /\ pod' = NoPod
            \/ /\ pod'.revision = pod.revision /\ pod # NoPod
               /\ pod'.generation \in {pod.generation, config.generation}
            \/ /\ pod'.revision = deployment.revision /\ owner["deployment"] = "cr"
               /\ pod'.generation = config.generation
<1>1. CASE StopPod
  BY <1>1, Zenon DEF StopPod, NoPod, clusterVars
<1>2. CASE StartPod
  BY <1>2 DEF StartPod, Runs, clusterVars
<1>3. CASE PodReady
  <2>1. pod'.revision = pod.revision /\ pod'.generation = pod.generation
    BY <1>3 DEF PodReady, Shape, OthersOK
  <2> QED BY <1>3, <2>1 DEF PodReady, clusterVars
<1>4. CASE ContainerRestart
  <2>1. pod'.revision = pod.revision /\ pod'.generation = config.generation
    BY <1>4, Zenon DEF ContainerRestart, Shape, OthersOK
  <2> QED BY <1>4, <2>1 DEF ContainerRestart, clusterVars
<1> QED BY <1>1, <1>2, <1>3, <1>4, Frames, Zenon

\* A step on the Service: it is closed, left as it is under the policy of the Reconcile, or
\* opened for the revision that was just rolled out.
LEMMA ServiceStep ==
  ASSUME Shape, [Next]_vars, service' # service
  PROVE  /\ UNCHANGED <<config, pod>>
         /\ \/ service'.target = Disabled
            \/ /\ service'.policy = work.generation
               /\ service'.target = service.target /\ service'.policy = service.policy
            \/ /\ service'.policy = work.generation
               /\ service'.target = Revision /\ At("service")
<1>1. CASE ReconcileServiceGate
  BY <1>1 DEF ReconcileServiceGate, reconcileService, gateTarget
<1>2. CASE ReconcileService
  BY <1>2 DEF ReconcileService, reconcileService
<1>3. CASE DisableService
  BY <1>3 DEF DisableService, reconcileService
<1>4. ASSUME NEW o \in Contested, CreateObject(o)
      PROVE  UNCHANGED <<config, pod>> /\ service'.target = Disabled
  BY <1>4 DEF CreateObject
<1> QED BY <1>1, <1>2, <1>3, <1>4, Frames, Zenon

\* The Deployment of the resource always has a revision.
LEMMA RevisionStep ==
  ASSUME Shape, Gated, [Next]_vars, owner'["deployment"] = "cr"
  PROVE  deployment'.revision # Disabled
<1>1. CASE ReconcileDeployment
  <2>1. Revision # Disabled
    BY <1>1, RevisionWritten DEF ReconcileDeployment, At
  <2>2. Deployed.revision = Revision
    BY DEF Deployed, Shape, DeploymentOK
  <2> QED BY <1>1, <2>1, <2>2 DEF ReconcileDeployment, Gated
<1>2. CASE ~ReconcileDeployment
  <2>1. owner["deployment"] = "cr" /\ deployment.revision # Disabled
    BY <1>2, OwnerNext DEF Shape, ObjectsOK, Gated
  <2>2. CASE ScaleDown \/ SyncDeployment
    BY <2>1, <2>2, Zenon DEF ScaleDown, SyncDeployment, Shape, DeploymentOK
  <2>3. ASSUME NEW o \in Contested, CreateObject(o)
        PROVE  deployment' = deployment
    BY <2>1, <2>3, ZenonT(30) DEF CreateObject
  <2> QED BY <1>2, <2>1, <2>2, <2>3, Frames, Zenon
<1> QED BY <1>1, <1>2

\* Past the gate, a Reconcile came through it for the policy it carries.
LEMMA GateStep ==
  ASSUME Shape, [Next]_vars, PastGate'
  PROVE  /\ work'.generation = work.generation
         /\ PastGate \/ service'.policy = work.generation
<1>1. CASE work' = work
  BY <1>1 DEF PastGate
<1>2. CASE Reconcile \/ OperatorRestart
  <2>1. WorkOK /\ Flow /\ work'.at \in Places
    BY <1>2, CallOrder, ResourceNext DEF Shape, WorkOK
  <2>2. ~Begin /\ work'.at # "idle"
    BY Zenon DEF Begin, PastGate, Idle
  <2>3. work'.generation = work.generation
    BY <1>2, <2>2, WorkStep, Zenon DEF Shape
  <2>4. CASE ReconcileServiceGate
    <3>1. Go("sa") \/ Go("disable")
      BY <2>4, Zenon DEF ReconcileServiceGate
    <3>2. ~Go("disable")
      BY <2>1, GoKeeps, Zenon DEF PastGate, Places
    <3> QED BY <2>3, <2>4, <3>2 DEF ReconcileServiceGate, reconcileService
  <2>5. CASE ~ReconcileServiceGate
    BY <2>1, <2>3, <2>5, ZenonT(30) DEF Flow, PastGate, At, ReconcileServiceAccount, CheckDelegation, Bind,
      EnsureCertificate, ReconcileConfig, ReconcileCAAndNetworkPolicy, ReconcileDeployment,
      ReconcileService, CheckDeployment
  <2> QED BY <2>4, <2>5
<1> QED BY <1>1, <1>2, Frames, ZenonT(30)

\* Every step keeps the gate.
LEMMA GatedNext == Shape /\ Gated /\ [Next]_vars => Gated'
<1> SUFFICES ASSUME Shape, Gated, [Next]_vars PROVE Gated'
  BY Zenon
<1>1. config' = config \/ /\ At("config") /\ UNCHANGED <<service, pod>>
                          /\ config'.generation = work.generation
                          /\ config'.version = config.version + 1
  <2>1. CASE ReconcileConfig
    BY <2>1 DEF ReconcileConfig
  <2> QED BY <2>1, Frames, Zenon
<1>2. service'.target # Disabled => config'.generation = service'.policy
  <2>1. CASE config' # config
    BY <1>1, <2>1, ZenonT(30) DEF Gated, PastGate, At
  <2>2. CASE config' = config /\ service' # service
    <3>1. At("service") => config.generation = work.generation
      BY Zenon DEF Shape, Carried, At
    <3> QED BY <2>2, <3>1, ServiceStep DEF Gated
  <2>3. CASE config' = config /\ service' = service
    BY <2>3 DEF Gated
  <2> QED BY <2>1, <2>2, <2>3, Zenon
<1>3. PastGate' => service'.target = Disabled \/ service'.policy = work'.generation
  <2>1. CASE service' = service
    BY <2>1, GateStep, Zenon DEF Gated
  <2>2. CASE service' # service
    BY <2>2, GateStep, ServiceStep, Zenon
  <2> QED BY <2>1, <2>2, Zenon
<1>4. pod' # NoPod => pod'.revision # Disabled
  BY PodStep, Zenon DEF Gated
<1>5. owner'["deployment"] = "cr" => deployment'.revision # Disabled
  BY RevisionStep, Zenon
<1>6. pod'.revision # Disabled /\ pod'.revision[2] = config'.version =>
        pod'.generation = config'.generation
  <2>1. CASE config' # config
    <3>1. pod' = pod /\ config'.version = config.version + 1
      BY <1>1, <2>1
    <3>2. pod.revision # Disabled => pod.revision[2] \in 1 .. config.version
      BY RevisionVersion DEF Shape, OthersOK
    <3>3. config.version \in Nat
      BY Zenon DEF Shape, ObjectsOK
    <3> QED BY <3>1, <3>2, <3>3
  <2>2. CASE config' = config /\ pod' = pod
    BY <2>2, Zenon DEF Gated
  <2>3. CASE pod' # pod
    BY <2>3, PodStep, RevisionVersion, Zenon DEF Gated
  <2> QED BY <2>1, <2>2, <2>3, Zenon
<1>7. service'.target # Disabled /\ pod'.revision = service'.target =>
        pod'.generation = service'.policy
  <2>1. CASE service' # service
    <3>1. At("service") => Revision[2] = config.version /\ config.generation = work.generation
      BY RevisionWritten, Zenon DEF Shape, Carried, At
    <3> QED BY <2>1, <3>1, ServiceStep, Zenon DEF Gated
  <2>2. CASE service' = service /\ pod' = pod
    BY <2>2, Zenon DEF Gated
  <2>3. CASE pod' # pod
    BY <2>3, PodStep, Zenon DEF Gated
  <2> QED BY <2>1, <2>2, <2>3, Zenon
<1> QED BY <1>2, <1>3, <1>4, <1>5, <1>6, <1>7 DEF Gated

\* The finalizer: while the binding stands, or a Reconcile is on the way to writing it, the
\* resource keeps its finalizer; a version that the operator has not gone past and that would
\* lead it there means that the resource still has it; a Reconcile that gives the resource
\* up has read it as deleted and has removed the binding.
Bound ==
  /\ binding = "good" => Current.finalizer
  /\ work.at \in {"gate", "sa", "role", "bind"} => Current.finalizer
  /\ \A i \in seen .. Len(crs) : crs[i].finalizer /\ ~crs[i].deleting => Current.finalizer
  /\ work.at = "release" => binding # "good"
  /\ work.at \in {"unbind", "release"} => crs[work.read].deleting

\* Only finalize takes the finalizer away.
LEMMA FinalizerStep ==
  ASSUME Shape, [Next]_vars, Current.finalizer
  PROVE  \/ Current'.finalizer
         \/ Release /\ crs' = Append(crs, Gone) /\ work.read = Len(crs)
<1>1. crs \in Seq(CRs) /\ Len(crs) \in Nat \ {0} /\ Current \in CRs /\ Current # Gone
  BY DEF Shape, ResourceOK, Current, Gone
<1>2. Current \in [generation : 1 .. MaxGeneration, deleting : BOOLEAN, finalizer : BOOLEAN]
  BY <1>1 DEF CRs
<1>3. ASSUME NEW cr \in CRs, crs' = Append(crs, cr)
      PROVE  Current' = cr
  BY <1>1, <1>3 DEF Current
<1>4. /\ [Current EXCEPT !.finalizer = TRUE] \in CRs
      /\ [Current EXCEPT !.deleting = TRUE] \in CRs
      /\ Current.generation < MaxGeneration => [Current EXCEPT !.generation = @ + 1] \in CRs
  <2>1. Current.generation < MaxGeneration => Current.generation + 1 \in 1 .. MaxGeneration
    BY <1>2, ReconcilerConstants
  <2> QED BY <1>2, <2>1, Zenon DEF CRs
<1>5. CASE crs' = crs
  BY <1>5 DEF Current
<1>6. CASE AddFinalizer
  <2>1. [Current EXCEPT !.finalizer = TRUE].finalizer
    BY <1>2
  <2> QED BY <1>3, <1>4, <1>5, <1>6, <2>1, Zenon DEF AddFinalizer, UpdateCR
<1>7. CASE Release
  BY <1>5, <1>7 DEF Release, UpdateCR
<1>8. CASE ChangeSpec
  <2>1. [Current EXCEPT !.generation = @ + 1].finalizer
    BY <1>2
  <2> QED BY <1>3, <1>4, <1>8, <2>1, Zenon DEF ChangeSpec
<1>9. CASE DeleteCR
  <2>1. [Current EXCEPT !.deleting = TRUE].finalizer
    BY <1>2
  <2> QED BY <1>3, <1>4, <1>9, <2>1, Zenon DEF DeleteCR
<1> QED BY <1>5, <1>6, <1>7, <1>8, <1>9, Frames, Zenon

\* Every step keeps the finalizer's invariant if a new process starts from the newest version.
LEMMA BoundNext ==
  ASSUME ~StaleRestart, Shape, Bound, [Next]_vars
  PROVE  Bound'
<1>1. /\ Len(crs) \in Nat \ {0} /\ seen \in 1 .. Len(crs)
      /\ work.at # "idle" => work.read \in 1 .. seen
  BY DEF Shape, ResourceOK
<1>2. binding' = "good" => binding = "good" \/ (At("bind") /\ crs' = crs /\ Bind)
  BY Frames, Zenon DEF Unbind, Bind, Reject, ChangeBinding
<1>3. ASSUME Release PROVE work'.at = "idle" /\ binding' = binding /\ seen' = seen /\ At("release")
  BY <1>3, ReturnKeeps DEF Release, Return, clusterVars
<1>4. binding' = "good" => Current'.finalizer
  <2> SUFFICES ASSUME binding' = "good" PROVE Current'.finalizer
    OBVIOUS
  <2>1. Current.finalizer
    BY <1>2 DEF Bound, At
  <2>2. ~Release
    BY <1>3 DEF Bound, At
  <2> QED BY <2>1, <2>2, FinalizerStep
<1>5. work'.at \in {"gate", "sa", "role", "bind"} => Current'.finalizer
  <2> SUFFICES ASSUME work'.at \in {"gate", "sa", "role", "bind"} PROVE Current'.finalizer
    BY Zenon
  <2>1. Current.finalizer
    <3>1. CASE work' = work
      BY <3>1 DEF Bound
    <3>2. CASE Begin
      <4>1. work'.at = "gate" => crs[seen].finalizer /\ ~crs[seen].deleting
        BY <3>2 DEF Begin, Idle
      <4>2. work'.at = "gate"
        BY <3>2, Zenon DEF Begin, Idle
      <4> QED BY <1>1, <4>1, <4>2 DEF Bound
    <3>3. CASE ReconcileServiceGate \/ ReconcileServiceAccount \/ CheckDelegation
      BY <3>3 DEF Bound, ReconcileServiceGate, ReconcileServiceAccount, CheckDelegation, At
    <3> QED BY <3>1, <3>2, <3>3, Frames, CallOrder, Zenon DEF Flow, Shape
  <2> QED BY <2>1, <1>3, FinalizerStep
<1>6. \A i \in seen' .. Len(crs') : crs'[i].finalizer /\ ~crs'[i].deleting => Current'.finalizer
  <2> SUFFICES ASSUME NEW i \in seen' .. Len(crs'), crs'[i].finalizer, ~crs'[i].deleting
               PROVE  Current'.finalizer
    OBVIOUS
  <2>1. CASE i = Len(crs')
    BY <2>1 DEF Current
  <2>2. CASE i # Len(crs')
    <3>1. i \in 1 .. Len(crs) /\ crs'[i] = crs[i] /\ i \in Int
      <4>1. Len(crs') \in Nat /\ seen' \in 1 .. Len(crs') /\ crs \in Seq(CRs)
        BY ResourceNext DEF Shape, ResourceOK
      <4>2. Len(crs') \in {Len(crs), Len(crs) + 1}
        BY <4>1, History
      <4>3. i \in 1 .. Len(crs)
        BY <2>2, <4>1, <4>2, <1>1
      <4> QED BY <4>3, History
    <3>2. i >= seen
      <4>1. CASE OperatorRestart
        <5>1. seen' = Len(crs) /\ crs' = crs
          BY <4>1 DEF OperatorRestart
        <5> QED BY <2>2, <5>1, <3>1, <1>1
      <4>2. CASE Observe
        BY <4>2, <1>1, <3>1 DEF Observe
      <4> QED BY <4>1, <4>2, <1>1, <3>1, Frames
    <3>3. Current.finalizer
      BY <3>1, <3>2, <1>1 DEF Bound
    <3>4. CASE Release /\ work.read = Len(crs)
      <4>1. At("release") /\ crs[work.read].deleting /\ work.read \in 1 .. seen
        BY <3>4, <1>1, <1>3, Zenon DEF Bound, At
      <4>2. i = Len(crs)
        BY <3>4, <4>1, <3>1, <3>2, <1>1
      <4> QED BY <3>1, <3>4, <4>1, <4>2, Zenon
    <3> QED BY <3>3, <3>4, FinalizerStep
  <2> QED BY <2>1, <2>2
<1>7. work'.at = "release" => binding' # "good"
  <2> SUFFICES ASSUME work'.at = "release" PROVE binding' # "good"
    BY Zenon
  <2>1. CASE work' = work
    BY <2>1, <1>2, Zenon DEF Bound, At
  <2>2. CASE Unbind
    BY <2>2, ReturnKeeps, ZenonT(30) DEF Unbind, Return
  <2> QED BY <2>1, <2>2, Frames, CallOrder DEF Flow, Shape
<1>8. work'.at \in {"unbind", "release"} => crs'[work'.read].deleting
  <2> SUFFICES ASSUME work'.at \in {"unbind", "release"} PROVE crs'[work'.read].deleting
    BY Zenon
  <2>1. CASE work' = work
    BY <2>1, <1>1, History DEF Bound
  <2>2. CASE Begin
    <3>1. work'.at = "unbind" => crs[seen].deleting /\ work'.read = seen /\ crs' = crs
      BY <2>2 DEF Begin, Idle
    <3>2. work'.at # "release"
      BY <2>2, Zenon DEF Begin, Idle
    <3> QED BY <3>1, <3>2
  <2>3. CASE Unbind
    <3>1. crs' = crs /\ At("unbind") /\ Go("release")
      BY <2>3, ReturnKeeps, Zenon DEF Unbind, Return
    <3>2. work'.read = work.read
      BY <3>1, GoKeeps, Zenon DEF Places, Shape
    <3> QED BY <3>1, <3>2, Zenon DEF Bound, At
  <2> QED BY <2>1, <2>2, <2>3, Frames, CallOrder DEF Flow, Shape
<1> QED BY <1>4, <1>5, <1>6, <1>7, <1>8, Zenon DEF Bound

\* The roll-out: a status that is about the newest generation of the Deployment counts Pods of
\* its revision only; nobody reports on a Deployment of somebody else; between its write and
\* the check the resource's Deployment has the revision that Reconcile wrote.
Rolled ==
  /\ deployment.observed = deployment.generation =>
       deployment.available \in {Disabled, deployment.revision}
  /\ owner["deployment"] = "other" => deployment.observed < deployment.generation
  /\ work.at \in {"service", "check"} /\ owner["deployment"] = "cr" =>
       deployment.revision = Revision

\* What a step can do to the Deployment.
LEMMA DeploymentStep ==
  ASSUME Shape, [Next]_vars, deployment' # deployment
  PROVE  \/ /\ ReconcileDeployment /\ deployment' = Deployed
            /\ owner["deployment"] # "other" /\ owner'["deployment"] = "cr"
         \/ /\ ScaleDown /\ UNCHANGED owner
            /\ deployment'.generation = deployment.generation + 1
            /\ deployment'.observed = deployment.observed
            /\ deployment'.revision = deployment.revision
         \/ /\ UNCHANGED <<owner, work>> /\ owner["deployment"] = "cr"
            /\ deployment'.revision = deployment.revision
            /\ deployment'.available \in {Disabled, deployment.revision}
         \/ /\ deployment'.generation = 1 /\ deployment'.observed = 0
            /\ owner'["deployment"] = "other" /\ UNCHANGED work
<1>1. /\ owner \in [Objects -> {"none", "cr", "other"}] /\ "deployment" \in Objects
      /\ deployment.generation \in Nat
  BY DEF Shape, ObjectsOK, DeploymentOK, Objects
<1>2. CASE ReconcileDeployment
  BY <1>1, <1>2 DEF ReconcileDeployment, requireControllerOwnership, Own
<1>3. CASE ScaleDown
  <2>1. deployment' = [deployment EXCEPT !.generation = @ + 1, !.replicas = 0]
    BY <1>3 DEF ScaleDown
  <2>2. /\ deployment'.generation = deployment.generation + 1
        /\ deployment'.observed = deployment.observed
        /\ deployment'.revision = deployment.revision
    BY <2>1 DEF Shape, DeploymentOK
  <2> QED BY <1>3, <2>2 DEF ScaleDown
<1>4. CASE SyncDeployment
  <2>1. /\ deployment'.revision = deployment.revision
        /\ deployment'.available \in {Disabled, deployment.revision}
    BY <1>4, Zenon DEF SyncDeployment, Shape, DeploymentOK
  <2> QED BY <1>4, <2>1 DEF SyncDeployment
<1>5. ASSUME NEW o \in Contested, CreateObject(o)
      PROVE  /\ deployment'.generation = 1 /\ deployment'.observed = 0
             /\ owner'["deployment"] = "other" /\ UNCHANGED work
  <2>1. o = "deployment"
    BY <1>5, Zenon DEF CreateObject
  <2> QED BY <1>1, <1>5, <2>1, Zenon DEF CreateObject
<1> QED BY <1>2, <1>3, <1>4, <1>5, Frames, Zenon

\* Every step keeps the roll-out's invariant.
LEMMA RolledNext == Shape /\ Rolled /\ [Next]_vars => Rolled'
<1> SUFFICES ASSUME Shape, Rolled, [Next]_vars PROVE Rolled'
  BY Zenon
<1>1. /\ deployment.generation \in Nat /\ deployment.observed \in 0 .. deployment.generation
      /\ owner \in [Objects -> {"none", "cr", "other"}] /\ "deployment" \in Objects
  BY DEF Shape, DeploymentOK, ObjectsOK, Objects
<1>2. ASSUME deployment' = Deployed
      PROVE  /\ deployment'.revision = Revision
             /\ deployment'.observed = deployment'.generation =>
                  deployment' = deployment
  <2>1. CASE deployment' = deployment /\ deployment.revision = Revision
    BY <2>1, Zenon
  <2>2. CASE deployment' = [generation |-> 1, replicas |-> 1, revision |-> Revision,
                            observed |-> 0, available |-> Disabled]
    BY <2>2
  <2>3. CASE deployment' = [deployment EXCEPT !.generation = @ + 1, !.replicas = 1,
                              !.revision = Revision]
    <3>1. /\ deployment'.generation = deployment.generation + 1
          /\ deployment'.observed = deployment.observed
          /\ deployment'.revision = Revision
      BY <2>3, Zenon DEF Shape, DeploymentOK
    <3> QED BY <3>1, <1>1
  <2> QED BY <1>2, <2>1, <2>2, <2>3, Zenon DEF Deployed
<1>3. deployment'.observed = deployment'.generation =>
        deployment'.available \in {Disabled, deployment'.revision}
  <2>1. CASE deployment' = deployment
    BY <2>1, Zenon DEF Rolled
  <2>2. CASE deployment' # deployment
    BY <2>2, <1>1, <1>2, DeploymentStep
  <2> QED BY <2>1, <2>2, Zenon
<1>4. owner'["deployment"] = "other" => deployment'.observed < deployment'.generation
  <2> SUFFICES ASSUME owner'["deployment"] = "other"
               PROVE  deployment'.observed < deployment'.generation
    BY Zenon
  <2>1. CASE owner["deployment"] = "other" /\ deployment' = deployment
    BY <2>1, Zenon DEF Rolled
  <2>2. CASE CreateObject("deployment")
    BY <2>2 DEF CreateObject
  <2>3. CASE owner["deployment"] = "other" /\ deployment' # deployment
    BY <2>3, <1>1, DeploymentStep
  <2> QED BY <2>1, <2>2, <2>3, <1>1, OwnerNext
<1>5. ASSUME work'.at \in {"service", "check"}, owner'["deployment"] = "cr"
      PROVE  deployment'.revision = Revision'
  <2>1. CASE work' = work
    <3>1. Revision' = Revision
      BY <2>1 DEF Revision, revision
    <3>2. ~ReconcileDeployment /\ ~ScaleDown
      <4>1. ~At("deployment") /\ ~At("scale")
        BY <2>1, <1>5 DEF At
      <4> QED BY <4>1 DEF ReconcileDeployment, ScaleDown
    <3>3. owner["deployment"] = "cr"
      BY <3>2, <1>1, <1>5, OwnerNext, Zenon
    <3>4. deployment'.revision = deployment.revision
      BY <3>2, <1>5, DeploymentStep
    <3> QED BY <2>1, <3>1, <3>3, <3>4, <1>5 DEF Rolled
  <2>2. CASE ReconcileDeployment
    <3>1. ~Go("disable")
      BY <1>5, GoKeeps DEF Places, Shape
    <3>2. /\ deployment' = Deployed
          /\ work' = [work EXCEPT !.at = "service", !.deployment = deployment'.generation]
      BY <2>2, <3>1 DEF ReconcileDeployment
    <3>3. Revision' = Revision
      BY <3>2, Zenon DEF Revision, revision, Shape, WorkOK
    <3> QED BY <3>2, <3>3, <1>2, Zenon
  <2>3. CASE ReconcileService
    <3>1. Go("check") /\ At("service") /\ deployment' = deployment
      BY <2>3, <1>5, GoKeeps, Zenon DEF ReconcileService, Places, Shape
    <3>2. Revision' = Revision
      BY <3>1, GoKeeps DEF Revision, revision, Places, Shape
    <3>3. owner["deployment"] = "cr"
      <4>1. ~ReconcileDeployment
        BY <3>1 DEF ReconcileDeployment, At
      <4> QED BY <4>1, <1>1, <1>5, OwnerNext
    <3> QED BY <3>1, <3>2, <3>3, Zenon DEF Rolled, At
  <2> QED BY <2>1, <2>2, <2>3, <1>5, Frames, CallOrder, Zenon DEF Flow, Shape
<1> QED BY <1>3, <1>4, <1>5, Zenon DEF Rolled

\* The invariant that needs nothing but the specification.
OperatorInv == Shape /\ Gated /\ Rolled

\* OperatorInv holds in every state: every call of a Reconcile, every failure and restart
\* between two calls, every change by a user and every step of Kubernetes keeps it.
THEOREM OperatorInvariant == Spec => []OperatorInv
<1>1. Init => OperatorInv
  <2> SUFFICES ASSUME Init PROVE Gated /\ Rolled
    BY ShapeInit, Zenon DEF OperatorInv
  <2>1. /\ service.target = Disabled /\ ~PastGate /\ pod = NoPod /\ pod.revision = Disabled
        /\ owner["deployment"] = "none"
    BY Zenon DEF Init, PastGate, NoPod, Idle, Objects
  <2>2. deployment.available = Disabled /\ work.at = "idle"
    BY Zenon DEF Init, Idle
  <2> QED BY <2>1, <2>2 DEF Gated, Rolled
<1>2. OperatorInv /\ [Next]_vars => OperatorInv'
  BY ShapeNext, GatedNext, RolledNext DEF OperatorInv
<1> QED BY <1>1, <1>2, PTL DEF Spec

\* The policy gate of reconcileServiceGate and workloadRevision: for any number of policies,
\* certificates, writes of the ConfigMap, failures, contested names and restarts on an old
\* cache, traffic reaches a Server only under the policy the Service was reconciled for.
THEOREM PolicyStaysGated == Spec => []PolicyGated
<1>1. OperatorInv => PolicyGated
  <2> SUFFICES ASSUME OperatorInv, Reachable
               PROVE  /\ pod.generation = service.policy
                      /\ PastGate => pod.generation = work.generation
    BY DEF PolicyGated
  <2>1. pod # NoPod
    BY DEF Reachable, NoPod
  <2> QED BY <2>1, Zenon DEF Reachable, OperatorInv, Gated
<1> QED BY <1>1, OperatorInvariant, PTL

\* isReady: what Reconcile reports as ready was counted for the revision it wrote, whoever
\* else writes, removes or replaces the Deployment in between.
THEOREM ReadyStaysCurrent == Spec => ReadyIsCurrent
<1>1. OperatorInv /\ [Next]_vars =>
        [work'.ready /\ ~work.ready => deployment.available = Revision]_vars
  <2> SUFFICES ASSUME OperatorInv, [Next]_vars, work'.ready, ~work.ready
               PROVE  deployment.available = Revision
    BY Zenon
  <2>1. CheckDeployment
    BY Frames, WorkStep DEF OperatorInv, Shape
  <2>2. isReady /\ At("check")
    BY <2>1, ReturnKeeps, Zenon DEF CheckDeployment, OperatorInv, Shape, WorkOK, Return
  <2>3. /\ deployment.observed = deployment.generation /\ deployment.available # Disabled
        /\ owner["deployment"] \in {"cr", "other"}
    BY <2>2 DEF isReady, OperatorInv, Shape, DeploymentOK, ObjectsOK, Objects
  <2>4. owner["deployment"] = "cr"
    BY <2>3 DEF OperatorInv, Rolled, Shape, DeploymentOK
  <2> QED BY <2>2, <2>3, <2>4 DEF OperatorInv, Rolled, At
<1> QED BY <1>1, OperatorInvariant, PTL DEF Spec, ReadyIsCurrent

\* finalize: as long as a new operator process starts from the newest version of the
\* resource, a resource that is gone has left no binding behind, whatever fails on the way.
THEOREM NoBindingIsLeft ==
  ASSUME ~StaleRestart
  PROVE  Spec => []NoOrphanBinding
<1>1. Init => Bound
  <2> SUFFICES ASSUME Init PROVE Bound
    BY Zenon
  <2>1. /\ seen = 1 /\ Len(crs) = 1 /\ crs[1] = Current /\ binding = "none" /\ work.at = "idle"
    BY Zenon DEF Init, Idle, Current
  <2> QED
    BY <2>1 DEF Bound
<1>2. Shape /\ Bound /\ [Next]_vars => Bound'
  BY BoundNext, Zenon
<1>3. Shape => TypeOK
  <2> SUFFICES ASSUME Shape PROVE TypeOK
    OBVIOUS
  <2>1. crs[1].generation = 1 /\ seen \in DOMAIN crs
    BY DEF Shape, ResourceOK
  <2>2. /\ deployment.replicas \in {0, 1} /\ deployment.revision \in Revisions
        /\ deployment.observed \in 0 .. deployment.generation
    BY DEF Shape, DeploymentOK
  <2>3. /\ service \in [policy : 0 .. MaxGeneration, target : Revisions]
        /\ pod.revision \in Revisions /\ pod.generation \in 0 .. MaxGeneration
    BY DEF Shape, OthersOK
  <2>4. /\ owner \in [Objects -> {"none", "cr", "other"}]
        /\ config.generation \in 0 .. MaxGeneration /\ config.version \in Nat
        /\ binding \in {"none", "good", "wrong"} /\ tls \in 0 .. MaxTLS
        /\ status.generation \in 0 .. MaxGeneration
    BY DEF Shape, ObjectsOK
  <2>5. /\ work.version \in 0 .. config.version /\ work.tls \in 0 .. tls
        /\ work.deployment \in Nat
    BY <2>4 DEF Shape, Carried, WorkOK
  <2>6. PastGate => work.generation \in 1 .. MaxGeneration
    BY ReconcilerConstants DEF Shape, WorkOK, ResourceOK, PastGate
  <2> QED BY <2>1, <2>2, <2>3, <2>4, <2>5, <2>6 DEF TypeOK
<1>4. Shape /\ Bound => NoOrphanBinding
  BY <1>3 DEF NoOrphanBinding, Bound, Gone
<1>5. OperatorInv => Shape
  BY DEF OperatorInv
<1> QED BY <1>1, <1>2, <1>4, <1>5, OperatorInvariant, PTL DEF Spec

\* requireControllerOwnership: Reconcile leaves alone what somebody else has under one of its
\* names.  The Deployment's is excepted: its scale-down is a patch without a precondition.
THEOREM ForeignStaysUntouched ==
  ASSUME "deployment" \notin Contested
  PROVE  Spec => ForeignUntouched
<1> DEFINE Ours == owner["deployment"] # "other"
           Kept == \A o \in Objects : work' # work /\ owner[o] = "other" =>
                     owner'[o] = "other" /\ Content(o)' = Content(o)
<1>1. Init => Ours
  BY DEF Init, Objects
<1>2. OperatorInv /\ Ours /\ [Next]_vars => Ours'
  BY OwnerNext DEF OperatorInv, Shape, ObjectsOK
<1>3. OperatorInv /\ Ours /\ [Next]_vars => [Kept]_vars
  <2> SUFFICES ASSUME OperatorInv, Ours, [Next]_vars, work' # work,
                      NEW o \in Objects, owner[o] = "other"
               PROVE  owner'[o] = "other" /\ Content(o)' = Content(o)
    OBVIOUS
  <2>1. owner \in [Objects -> {"none", "cr", "other"}] /\ o # "deployment"
    BY DEF OperatorInv, Shape, ObjectsOK
  <2>2. Reconcile \/ OperatorRestart
    BY Frames
  <2>3. ASSUME NEW x \in Objects, requireControllerOwnership(x), Own(x)
        PROVE  owner'[o] = "other" /\ o # x
    BY <2>1, <2>3, Zenon DEF requireControllerOwnership, Own
  <2>4. owner'[o] = "other"
    <3>1. CASE ReconcileCAAndNetworkPolicy
      BY <2>1, <3>1, <2>3, Zenon DEF ReconcileCAAndNetworkPolicy, requireControllerOwnership, Objects
    <3>2. CASE ReconcileServiceGate \/ ReconcileService \/ DisableService
      BY <2>3, <3>2, Zenon DEF ReconcileServiceGate, ReconcileService, DisableService,
        reconcileService, Objects
    <3>3. CASE \/ ReconcileServiceAccount \/ EnsureCertificate \/ ReconcileConfig
               \/ ReconcileDeployment
      BY <2>3, <3>3 DEF ReconcileServiceAccount, EnsureCertificate, ReconcileConfig,
        ReconcileDeployment, Objects
    <3>4. CASE owner' = owner
      BY <3>4, Zenon
    <3> QED BY <2>2, <3>1, <3>2, <3>3, <3>4, ZenonT(30) DEF Reconcile, Begin, AddFinalizer, Unbind,
          Release, CheckDelegation, Bind, Reject, CheckDeployment, UpdateStatus,
          CheckShutdown, ScaleDown, OperatorRestart, clusterVars
  <2>5. o = "service" => service' = service
    <3>1. ASSUME NEW x \in Contested, CreateObject(x) PROVE FALSE
      BY <3>1 DEF CreateObject
    <3> QED BY <2>3, <3>1, Frames, ZenonT(30) DEF ReconcileServiceGate, ReconcileService, DisableService,
          reconcileService, Objects
  <2>6. o = "config" => config' = config
    BY <2>3, Frames DEF ReconcileConfig, Objects
  <2> QED BY <2>1, <2>4, <2>5, <2>6, Zenon DEF Content, Objects
<1>4. ForeignUntouched <=> [][Kept]_vars
  BY DEF ForeignUntouched
<1> QED BY <1>1, <1>2, <1>3, <1>4, OperatorInvariant, PTL DEF Spec

=============================================================================

------------------------------ MODULE Reconciler ------------------------------
(***************************************************************************)
(* The operator's Reconcile loop for one KubernetesMCPServer               *)
(* (internal/operator/reconciler.go), the API server that stores what it   *)
(* writes, and the Deployment controller and kubelet that act on it.       *)
(*                                                                         *)
(* One Reconcile is a sequence of API calls; the operator can stop between *)
(* any two, and any call can fail.  Get-and-update pairs that carry the    *)
(* resourceVersion read (CreateOrUpdate) are one step.  The resource is    *)
(* read from the operator's cache, everything else from the API server.    *)
(*                                                                         *)
(* Digests are collision free: policyRevision is the resource's generation *)
(* and a workload revision the tuple of what is digested.                  *)
(***************************************************************************)
EXTENDS Integers, Sequences

CONSTANTS
  Contested,      \* the names somebody else may create an object under
  StaleRestart,   \* whether a new operator process may start from an old cache
  PolicyEnabled,  \* spec.networkPolicy.enabled
  MaxGeneration,  \* bound: spec changes
  MaxTLS,         \* bound: issues of the serving certificate
  MaxConfig,      \* bound: writes of the configuration ConfigMap
  MaxFaults       \* bound: failing calls, restarts and interventions

Objects == {"sa", "config", "ca", "networkPolicy", "secret",
            "deployment", "service"}

ASSUME ReconcilerAssumption ==
  /\ Contested \subseteq Objects
  /\ StaleRestart \in BOOLEAN
  /\ PolicyEnabled \in BOOLEAN
  /\ MaxGeneration \in Nat \ {0}
  /\ MaxTLS \in Nat \ {0}
  /\ MaxConfig \in Nat
  /\ MaxFaults \in Nat

VARIABLES
  crs,       \* external: the versions of the KubernetesMCPServer, oldest first
  seen,      \* the version in the operator's cache
  owner,     \* external: owner[o]: "none" when o is absent, "cr" or "other"
  service,   \* external: the Service's policy annotation and selected revision
  config,    \* external: the configuration ConfigMap's generation and version
  deployment,\* external: the Deployment's spec and status
  binding,   \* external: the TokenReview binding: "none", "good" or "wrong"
  roleOK,    \* external: whether the TokenReview role grants exactly what it must
  tls,       \* external: the version of the serving certificate's Secret
  pod,       \* external: the Server's Pod
  status,    \* the resource's status: Ready and the generation it is about
  work,      \* the Reconcile in progress
  faults     \* how often something has failed

clusterVars == <<owner, service, config, deployment, binding, roleOK, tls>>
vars == <<crs, seen, clusterVars, pod, status, work, faults>>

-----------------------------------------------------------------------------
Gone == [generation |-> 0, deleting |-> TRUE, finalizer |-> FALSE]

Current == crs[Len(crs)]

Disabled == <<>>                       \* disabledServerRevision

\* Faulty variant: the revision covers the configuration's data only.
revisionOfData(generation, version, certificate) == <<generation, certificate>>

\* workloadRevision: the policy, the configuration with its version, the TLS material.
revision(generation, version, certificate) == <<generation, version, certificate>>

NoPod == [revision |-> Disabled, generation |-> 0, ready |-> FALSE]

Idle == [at |-> "idle", generation |-> 0, read |-> 0, version |-> 0, tls |-> 0,
         deployment |-> 0, ready |-> FALSE]

Init ==
  /\ crs = <<[generation |-> 1, deleting |-> FALSE, finalizer |-> FALSE]>>
  /\ seen = 1
  /\ owner = [o \in Objects |-> "none"]
  /\ service = [policy |-> 0, target |-> Disabled]
  /\ config = [generation |-> 0, version |-> 0]
  /\ deployment = [generation |-> 0, replicas |-> 0, revision |-> Disabled,
                   observed |-> 0, available |-> Disabled]
  /\ binding = "none"
  /\ roleOK = TRUE
  /\ tls = 0
  /\ pod = NoPod
  /\ status = [ready |-> FALSE, generation |-> 0]
  /\ work = Idle
  /\ faults = 0

Go(place) == work' = [work EXCEPT !.at = place]

\* Reconcile returns; what it carried is gone.
Return == work' = Idle

At(place) == work.at = place

\* Faulty variant: whatever has the name is taken over.
requireNothing(o) == owner[o] \in {"none", "cr", "other"}

\* requireControllerOwnership, in a CreateOrUpdate or before a delete.
requireControllerOwnership(o) == owner[o] # "other"

Own(o) == owner' = [owner EXCEPT ![o] = "cr"]

\* Something goes wrong in this step: the environment decides, a bounded number of times.
Fault == faults < MaxFaults /\ faults' = faults + 1

NoFault == UNCHANGED faults

\* A step on object o either finds it in other hands or meets an API error.
CannotWrite(o) == (~requireControllerOwnership(o) /\ NoFault) \/ Fault

-----------------------------------------------------------------------------
(* Reconcile: reading the resource, the finalizer.                         *)

Begin ==
  LET cr == crs[seen]
  IN  /\ At("idle")
      /\ cr # Gone
      /\ work' = [Idle EXCEPT !.generation = cr.generation, !.read = seen,
                  !.at = IF cr.deleting THEN (IF cr.finalizer THEN "unbind" ELSE "idle")
                         ELSE IF cr.finalizer THEN "gate" ELSE "finalizer"]
      /\ UNCHANGED <<crs, seen, clusterVars, pod, status, faults>>

\* An Update of the resource succeeds only on the version that was read.
UpdateCR(cr) ==
  /\ work.read = Len(crs)
  /\ crs' = Append(crs, cr)

AddFinalizer ==
  /\ At("finalizer")
  /\ \/ UpdateCR([Current EXCEPT !.finalizer = TRUE]) /\ NoFault
     \/ work.read # Len(crs) /\ UNCHANGED crs /\ NoFault
     \/ Fault /\ UNCHANGED crs
  /\ Return
  /\ UNCHANGED <<seen, clusterVars, pod, status>>

\* Faulty variant: the resource is given up although the binding is still there.
UnbindIgnoresError ==
  /\ At("unbind")
  /\ \/ binding' = "none" /\ NoFault
     \/ Fault /\ UNCHANGED binding
  /\ Go("release")
  /\ UNCHANGED <<crs, seen, owner, service, config, deployment, roleOK, tls, pod, status>>

\* finalize deletes the binding, then gives the resource up.
Unbind ==
  /\ At("unbind")
  /\ \/ binding' = "none" /\ Go("release") /\ NoFault
     \/ Fault /\ Return /\ UNCHANGED binding
  /\ UNCHANGED <<crs, seen, owner, service, config, deployment, roleOK, tls, pod, status>>

Release ==
  /\ At("release")
  /\ \/ UpdateCR(Gone) /\ NoFault
     \/ work.read # Len(crs) /\ UNCHANGED crs /\ NoFault
     \/ Fault /\ UNCHANGED crs
  /\ Return
  /\ UNCHANGED <<seen, clusterVars, pod, status>>

-----------------------------------------------------------------------------
(* Reconcile: one step per resource.                                       *)

\* reconcileService.
reconcileService(target) ==
  /\ requireControllerOwnership("service")
  /\ Own("service")
  /\ service' = [policy |-> work.generation, target |-> target]

\* reconcileServiceGate keeps the selected revision only under the same policy.
gateTarget ==
  IF owner["service"] # "none" /\ service.policy = work.generation
  THEN service.target ELSE Disabled

ReconcileServiceGate ==
  /\ At("gate")
  /\ \/ reconcileService(gateTarget) /\ Go("sa") /\ NoFault
     \/ CannotWrite("service") /\ Go("disable") /\ UNCHANGED <<owner, service>>
  /\ UNCHANGED <<crs, seen, config, deployment, binding, roleOK, tls, pod, status>>

ReconcileServiceAccount ==
  /\ At("sa")
  /\ \/ requireControllerOwnership("sa") /\ Own("sa") /\ Go("role") /\ NoFault
     \/ CannotWrite("sa") /\ Go("reject") /\ UNCHANGED owner
  /\ UNCHANGED <<crs, seen, service, config, deployment, binding, roleOK, tls, pod, status>>

\* reconcileDelegatedAuthentication reads the ServiceAccount and the role ...
CheckDelegation ==
  /\ At("role")
  /\ \/ owner["sa"] = "cr" /\ roleOK /\ Go("bind") /\ NoFault
     \/ (owner["sa"] # "cr" \/ ~roleOK) /\ Go("reject") /\ NoFault
     \/ Fault /\ Go("reject")
  /\ UNCHANGED <<crs, seen, clusterVars, pod, status>>

\* ... and then the binding, which it replaces when it names another role.
Bind ==
  /\ At("bind")
  /\ \/ binding # "wrong" /\ binding' = "good" /\ Go("tls") /\ NoFault
     \/ binding = "wrong" /\ binding' = "none" /\ Go("disable") /\ NoFault
     \/ binding = "wrong" /\ Fault /\ Go("disable") /\ UNCHANGED binding
     \/ binding # "wrong" /\ Fault /\ Go("reject") /\ UNCHANGED binding
  /\ UNCHANGED <<crs, seen, owner, service, config, deployment, roleOK, tls, pod, status>>

\* rejectDelegatedAuthentication.
Reject ==
  /\ At("reject")
  /\ \/ binding' = "none" /\ NoFault
     \/ Fault /\ UNCHANGED binding
  /\ Go("disable")
  /\ UNCHANGED <<crs, seen, owner, service, config, deployment, roleOK, tls, pod, status>>

\* ensureRootCA and ensureServingCertificate: the Secret is as it was, renewed or, when
\* it is not there, issued anew.
EnsureCertificate ==
  /\ At("tls")
  /\ \/ /\ requireControllerOwnership("secret")
        /\ Own("secret")
        /\ tls' \in {tls + 1} \cup (IF owner["secret"] = "cr" THEN {tls} ELSE {})
        /\ tls' <= MaxTLS
        /\ work' = [work EXCEPT !.at = "config", !.tls = tls']
        /\ NoFault
     \/ CannotWrite("secret") /\ Go("disable") /\ UNCHANGED <<owner, tls>>
  /\ UNCHANGED <<crs, seen, service, config, deployment, binding, roleOK, pod, status>>

\* The version of the ConfigMap grows only when something is written.
ReconcileConfig ==
  /\ At("config")
  /\ \/ /\ requireControllerOwnership("config")
        /\ Own("config")
        /\ config' = IF owner["config"] = "cr" /\ config.generation = work.generation
                     THEN config
                     ELSE [generation |-> work.generation, version |-> config.version + 1]
        /\ config'.version <= MaxConfig
        /\ work' = [work EXCEPT !.at = "ca", !.version = config'.version]
        /\ NoFault
     \/ CannotWrite("config") /\ Go("disable") /\ UNCHANGED <<owner, config>>
  /\ UNCHANGED <<crs, seen, service, deployment, binding, roleOK, tls, pod, status>>

\* What the NetworkPolicy's owner is afterwards: it is written or, when the
\* resource turns it off, deleted.
reconcileNetworkPolicy == IF PolicyEnabled THEN "cr" ELSE "none"

\* The CA ConfigMap and reconcileNetworkPolicy: nothing tells their order apart.
ReconcileCAAndNetworkPolicy ==
  /\ At("ca")
  /\ \/ /\ requireControllerOwnership("ca")
        /\ requireControllerOwnership("networkPolicy")
        /\ owner' = [owner EXCEPT !["ca"] = "cr",
                       !["networkPolicy"] = reconcileNetworkPolicy]
        /\ Go("deployment")
        /\ NoFault
     \/ /\ requireControllerOwnership("ca")
        /\ CannotWrite("networkPolicy")
        /\ Own("ca")
        /\ Go("disable")
     \/ CannotWrite("ca") /\ Go("disable") /\ UNCHANGED owner
  /\ UNCHANGED <<crs, seen, service, config, deployment, binding, roleOK, tls, pod, status>>

Revision == revision(work.generation, work.version, work.tls)

\* Faulty variant: the number of replicas is left as it is.
DeployedKeepsReplicas ==
  IF owner["deployment"] = "none"
  THEN [generation |-> 1, replicas |-> 1, revision |-> Revision, observed |-> 0,
        available |-> Disabled]
  ELSE IF deployment.revision = Revision
  THEN deployment
  ELSE [deployment EXCEPT !.generation = @ + 1, !.revision = Revision]

\* A new Deployment, or the old one with what differs replaced.
Deployed ==
  IF owner["deployment"] = "none"
  THEN [generation |-> 1, replicas |-> 1, revision |-> Revision, observed |-> 0,
        available |-> Disabled]
  ELSE IF deployment.replicas = 1 /\ deployment.revision = Revision
  THEN deployment
  ELSE [deployment EXCEPT !.generation = @ + 1, !.replicas = 1, !.revision = Revision]

ReconcileDeployment ==
  /\ At("deployment")
  /\ \/ /\ requireControllerOwnership("deployment")
        /\ Own("deployment")
        /\ deployment' = Deployed
        /\ work' = [work EXCEPT !.at = "service", !.deployment = deployment'.generation]
        /\ NoFault
     \/ CannotWrite("deployment") /\ Go("disable") /\ UNCHANGED <<owner, deployment>>
  /\ UNCHANGED <<crs, seen, service, config, binding, roleOK, tls, pod, status>>

ReconcileService ==
  /\ At("service")
  /\ \/ reconcileService(Revision) /\ Go("check") /\ NoFault
     \/ CannotWrite("service") /\ Go("disable") /\ UNCHANGED <<owner, service>>
  /\ UNCHANGED <<crs, seen, config, deployment, binding, roleOK, tls, pod, status>>

\* Faulty variant: the status is trusted before it is about this generation.
isReadyUnobserved ==
  /\ owner["deployment"] # "none"
  /\ deployment.generation = work.deployment
  /\ deployment.available # Disabled

isReady ==
  /\ owner["deployment"] # "none"
  /\ deployment.generation = work.deployment
  /\ deployment.observed >= deployment.generation
  /\ deployment.available # Disabled

CheckDeployment ==
  /\ At("check")
  /\ \/ work' = [work EXCEPT !.at = "status", !.ready = isReady] /\ NoFault
     \/ Fault /\ Return
  /\ UNCHANGED <<crs, seen, clusterVars, pod, status>>

\* Status().Update on the version that was read; a conflict changes nothing.
UpdateStatus ==
  /\ At("status") \/ At("report")
  /\ \/ /\ work.read = Len(crs)
        /\ status' = [ready |-> work.ready, generation |-> work.generation]
        /\ NoFault
     \/ work.read # Len(crs) /\ UNCHANGED status /\ NoFault
     \/ Fault /\ UNCHANGED status
  /\ Return
  /\ UNCHANGED <<crs, seen, clusterVars, pod>>

-----------------------------------------------------------------------------
(* fail and disableServer: the Service first, then the Deployment.         *)

DisableService ==
  /\ At("disable")
  /\ \/ reconcileService(Disabled) /\ NoFault
     \/ CannotWrite("service") /\ UNCHANGED <<owner, service>>
  /\ Go("shutdown")
  /\ UNCHANGED <<crs, seen, config, deployment, binding, roleOK, tls, pod, status>>

\* Faulty variant: the Deployment is left running.
CheckShutdownSkipped ==
  /\ At("shutdown")
  /\ Go("report") /\ NoFault
  /\ UNCHANGED <<crs, seen, clusterVars, pod, status>>

CheckShutdown ==
  /\ At("shutdown")
  /\ \/ owner["deployment"] = "cr" /\ deployment.replicas # 0 /\ Go("scale") /\ NoFault
     \/ (owner["deployment"] # "cr" \/ deployment.replicas = 0) /\ Go("report") /\ NoFault
     \/ Fault /\ Go("report")
  /\ UNCHANGED <<crs, seen, clusterVars, pod, status>>

\* A merge patch of the replicas alone, to whatever now has the name.
ScaleDown ==
  /\ At("scale")
  /\ \/ /\ owner["deployment"] # "none"
        /\ deployment' = [deployment EXCEPT !.generation = @ + 1, !.replicas = 0]
        /\ NoFault
     \/ owner["deployment"] = "none" /\ UNCHANGED deployment /\ NoFault
     \/ Fault /\ UNCHANGED deployment
  /\ Go("report")
  /\ UNCHANGED <<crs, seen, owner, service, config, binding, roleOK, tls, pod, status>>

-----------------------------------------------------------------------------
(* The operator process.                                                   *)

Observe ==
  /\ seen < Len(crs)
  /\ seen' = seen + 1
  /\ UNCHANGED <<crs, clusterVars, pod, status, work, faults>>

\* The operator restarts, or another replica takes over the lease.
OperatorRestart ==
  /\ Fault
  /\ work' = Idle
  /\ seen' \in IF StaleRestart THEN 1 .. Len(crs) ELSE {Len(crs)}
  /\ UNCHANGED <<crs, clusterVars, pod, status>>

-----------------------------------------------------------------------------
(* The resource's users and whoever else uses the namespace.               *)

ChangeSpec ==
  /\ ~Current.deleting
  /\ Current.generation < MaxGeneration
  /\ crs' = Append(crs, [Current EXCEPT !.generation = @ + 1])
  /\ UNCHANGED <<seen, clusterVars, pod, status, work, faults>>

DeleteCR ==
  /\ ~Current.deleting
  /\ crs' = Append(crs, IF Current.finalizer THEN [Current EXCEPT !.deleting = TRUE] ELSE Gone)
  /\ UNCHANGED <<seen, clusterVars, pod, status, work, faults>>

ChangeRole ==
  /\ Fault
  /\ roleOK' = ~roleOK
  /\ UNCHANGED <<crs, seen, owner, service, config, deployment, binding, tls, pod, status, work>>

\* Somebody binds another role under the binding's name.
ChangeBinding ==
  /\ Fault
  /\ binding' = "wrong"
  /\ UNCHANGED <<crs, seen, owner, service, config, deployment, roleOK, tls, pod, status, work>>

\* Somebody removes an object of a contested name ...
RemoveObject(o) ==
  /\ Fault
  /\ owner[o] # "none"
  /\ owner' = [owner EXCEPT ![o] = "none"]
  /\ UNCHANGED <<crs, seen, service, config, deployment, binding, roleOK, tls, pod, status, work>>

\* ... or creates one.
CreateObject(o) ==
  /\ owner[o] = "none"
  /\ owner' = [owner EXCEPT ![o] = "other"]
  /\ service' = IF o = "service" THEN [policy |-> 0, target |-> Disabled] ELSE service
  /\ deployment' = IF o = "deployment"
                   THEN [generation |-> 1, replicas |-> 1, revision |-> Disabled, observed |-> 0,
                         available |-> Disabled]
                   ELSE deployment
  /\ UNCHANGED <<crs, seen, config, binding, roleOK, tls, pod, status, work, faults>>

-----------------------------------------------------------------------------
(* The Deployment controller, the kubelet and the garbage collector.       *)

Runs == owner["deployment"] = "cr" /\ deployment.replicas = 1

\* Recreate: the old Pod is gone before a new one starts.
StopPod ==
  /\ pod # NoPod
  /\ ~Runs \/ pod.revision # deployment.revision
  /\ pod' = NoPod
  /\ UNCHANGED <<crs, seen, clusterVars, status, work, faults>>

\* The Server reads the mounted configuration when it starts.
StartPod ==
  /\ pod = NoPod
  /\ Runs
  /\ owner["config"] = "cr"
  /\ pod' = [revision |-> deployment.revision, generation |-> config.generation, ready |-> FALSE]
  /\ UNCHANGED <<crs, seen, clusterVars, status, work, faults>>

PodReady ==
  /\ pod # NoPod
  /\ ~pod.ready
  /\ pod' = [pod EXCEPT !.ready = TRUE]
  /\ UNCHANGED <<crs, seen, clusterVars, status, work, faults>>

\* The container ends and starts again in its Pod, with the mounted configuration of then.
ContainerRestart ==
  /\ Fault
  /\ pod # NoPod
  /\ owner["config"] = "cr"
  /\ pod' = [pod EXCEPT !.generation = config.generation, !.ready = FALSE]
  /\ UNCHANGED <<crs, seen, clusterVars, status, work>>

\* The status counts the available Pods of the current revision.
SyncDeployment ==
  /\ owner["deployment"] = "cr"
  /\ deployment' = [deployment EXCEPT !.observed = deployment.generation,
                      !.available = IF pod.ready /\ pod.revision = deployment.revision
                                    THEN pod.revision ELSE Disabled]
  /\ UNCHANGED <<crs, seen, owner, service, config, binding, roleOK, tls, pod, status, work, faults>>

\* The garbage collector removes what the resource controlled.
Collect ==
  /\ Current = Gone
  /\ \E o \in Objects : owner[o] = "cr"
  /\ owner' = [o \in Objects |-> IF owner[o] = "cr" THEN "none" ELSE owner[o]]
  /\ UNCHANGED <<crs, seen, service, config, deployment, binding, roleOK, tls, pod, status, work, faults>>

-----------------------------------------------------------------------------
Reconcile ==
  \/ Begin
  \/ AddFinalizer
  \/ Unbind
  \/ Release
  \/ ReconcileServiceGate
  \/ ReconcileServiceAccount
  \/ CheckDelegation
  \/ Bind
  \/ Reject
  \/ EnsureCertificate
  \/ ReconcileConfig
  \/ ReconcileCAAndNetworkPolicy
  \/ ReconcileDeployment
  \/ ReconcileService
  \/ CheckDeployment
  \/ UpdateStatus
  \/ DisableService
  \/ CheckShutdown
  \/ ScaleDown

Users ==
  \/ ChangeSpec
  \/ DeleteCR
  \/ ChangeRole
  \/ ChangeBinding
  \/ \E o \in Contested : RemoveObject(o) \/ CreateObject(o)

Kubernetes ==
  \/ StopPod
  \/ StartPod
  \/ PodReady
  \/ ContainerRestart
  \/ SyncDeployment
  \/ Collect

Next == Reconcile \/ Observe \/ OperatorRestart \/ Users \/ Kubernetes

\* controller-runtime runs a Reconcile again after an error, a change or at the
\* latest after five minutes; the cache catches up; Kubernetes acts on what it
\* is told.  Faults are finitely many.
Fairness ==
  /\ WF_vars(Reconcile)
  /\ WF_vars(Observe)
  /\ WF_vars(StopPod \/ StartPod)
  /\ WF_vars(PodReady)
  /\ WF_vars(SyncDeployment)
  /\ WF_vars(Collect)

Spec == Init /\ [][Next]_vars /\ Fairness

-----------------------------------------------------------------------------
(* Properties.                                                             *)

Reachable == pod.ready /\ owner["service"] = "cr" /\ service.target = pod.revision

\* The steps of a Reconcile that has closed the gate and met no error.
PastGate ==
  work.at \in {"sa", "role", "bind", "tls", "config", "ca", "deployment", "service",
               "check", "status"}

Revisions ==
  {Disabled} \cup (1 .. MaxGeneration) \X (1 .. config.version) \X (1 .. MaxTLS)

\* The shape of the objects Reconcile writes and of the work it carries between
\* its calls: it never holds a version that was not issued.
TypeOK ==
  /\ crs[1].generation = 1 /\ seen \in DOMAIN crs
  /\ owner \in [Objects -> {"none", "cr", "other"}]
  /\ service \in [policy : 0 .. MaxGeneration, target : Revisions]
  /\ config.generation \in 0 .. MaxGeneration /\ config.version \in Nat
  /\ deployment.replicas \in {0, 1} /\ deployment.revision \in Revisions
  /\ deployment.observed \in 0 .. deployment.generation
  /\ binding \in {"none", "good", "wrong"}
  /\ tls \in 0 .. MaxTLS
  /\ pod.revision \in Revisions /\ pod.generation \in 0 .. MaxGeneration
  /\ status.generation \in 0 .. MaxGeneration
  /\ work.version \in 0 .. config.version /\ work.tls \in 0 .. tls
  /\ work.deployment \in Nat
  /\ PastGate => work.generation \in 1 .. MaxGeneration

\* Traffic reaches a Server only if it runs the configuration of the policy the
\* Service was last reconciled for, and once Reconcile is past the gate only the
\* policy it is about to roll out: across restarts of the operator on an old
\* cache and restarts of the container between the ConfigMap and the Deployment.
PolicyGated ==
  Reachable => /\ pod.generation = service.policy
               /\ PastGate => pod.generation = work.generation

\* Ready is reported only if the Deployment's status was taken from an available
\* Pod of the very revision this Reconcile wrote.
ReadyIsCurrent ==
  [][work'.ready /\ ~work.ready => deployment.available = Revision]_vars

\* A resource that is gone has left no TokenReview binding behind, in a state that
\* is well-formed.
NoOrphanBinding == TypeOK /\ (Current = Gone => binding # "good")

Content(o) ==
  CASE o = "service" -> service
    [] o = "deployment" -> <<deployment.replicas, deployment.revision>>
    [] o = "config" -> config
    [] OTHER -> o

\* Reconcile never adopts, changes or deletes an object of the same name that
\* this resource does not control.
ForeignUntouched ==
  [][\A o \in Objects : work' # work /\ owner[o] = "other" =>
       owner'[o] = "other" /\ Content(o)' = Content(o)]_vars

\* While the TokenReview role cannot be trusted, the endpoint ends up closed and
\* the Server stopped, and stays so.
FailsClosed ==
  <>[](~roleOK) => <>[](pod = NoPod /\ (owner["service"] = "cr" => service.target = Disabled))

\* Once nothing fails any more and nobody else holds one of the names, the newest
\* policy is rolled out, reachable and reported as ready, also after the endpoint
\* had been shut down.
Recovers ==
  <>[](roleOK /\ Current # Gone /\ ~Current.deleting /\ \A o \in Objects : owner[o] # "other") =>
    <>[](Reachable /\ pod.generation = Current.generation
         /\ status = [ready |-> TRUE, generation |-> Current.generation])

=============================================================================

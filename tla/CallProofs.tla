----------------------------- MODULE CallProofs -----------------------------
(***************************************************************************)
(* Proofs about one call: what it may do (Policy), how it may change a     *)
(* workload (SafeWrite), how long it may take (Timeouts), which catalog it *)
(* is served (Catalog), what a watch hands its client (Watch) and what an  *)
(* answer shows (ReadOutput).  Each part has an invariant of its own.      *)
(***************************************************************************)
EXTENDS Policy, SafeWrite, Timeouts, Catalog, Watch, ReadOutput, TLAPS

\* The provers for leaves that name none, in the order they are tried.
USE SMTT(20), Z3T(30), Zenon

-----------------------------------------------------------------------------
(* Policy.                                                                 *)

\* A running Server has a configuration Validate accepted.
ConfigInv == config # Stopped => config \in Configs /\ Validate(config)

\* Check asks less in Dangerous mode than in any other, with the same scope and rules.
LEMMA DangerousAsksLeast ==
  ASSUME NEW mode \in Modes, NEW a, NEW ns, NEW name,
         config \in Configs, CheckTarget(In(mode), a, ns, name)
  PROVE  CheckTarget(In("Dangerous"), a, ns, name)
<1> DEFINE c == In(mode)
           d == In("Dangerous")
<1>1. /\ c.sensitiveReads = d.sensitiveReads /\ c.clusterRead = d.clusterRead
      /\ c.namespaces = d.namespaces /\ c.rules = d.rules /\ c.tlsSecret = d.tlsSecret
      /\ c.clusterWrite => d.clusterWrite
      /\ d.mode = "Dangerous"
  BY Zenon DEF In, Configs
<1>2. Check(c, a, ns) /\ ~(Mutating(a) /\ name # "" /\ managedTarget(c, a, ns, name))
  BY Zenon DEF CheckTarget
<1> HIDE DEF c, d
<1>3. InScope(c, a, ns) => InScope(d, a, ns)
  BY <1>1, Zenon DEF InScope
<1>4. InMode(d, a)
  BY <1>1, Zenon DEF InMode
<1>5. InRules(c, a) => InRules(d, a)
  BY <1>1 DEF InRules
<1>6. Check(d, a, ns)
  BY <1>1, <1>2, <1>3, <1>4, <1>5, Zenon DEF Check
<1>7. managedTarget(d, a, ns, name) = managedTarget(c, a, ns, name)
  BY <1>1 DEF managedTarget, tlsName
<1> QED BY <1>2, <1>6, <1>7, Zenon DEF CheckTarget, d

\* The mode decides over the rules: ReadOnly changes nothing, and each mode
\* permits no more than Dangerous.
LEMMA LadderHolds == ConfigInv => ModesNest
<1> SUFFICES ASSUME ConfigInv, config # Stopped
             PROVE  /\ \A t \in Permitted(In("ReadOnly")) : ~Mutating(t[1])
                    /\ Permitted(In("ReadOnly")) \subseteq Permitted(In("Dangerous"))
                    /\ Permitted(In("SafeWrite")) \subseteq Permitted(In("Dangerous"))
  BY DEF ModesNest
<1>1. config \in Configs
  BY DEF ConfigInv
<1>2. In("ReadOnly").mode = "ReadOnly"
  BY <1>1, Zenon DEF In, Configs
<1>3. ASSUME NEW t \in Permitted(In("ReadOnly")) PROVE ~Mutating(t[1])
  <2>1. CheckTarget(In("ReadOnly"), t[1], t[2], "x")
    BY <1>3, Zenon DEF Permitted, Permits
  <2> QED BY <2>1, <1>2, Zenon DEF CheckTarget, Check, InMode
<1>4. ASSUME NEW mode \in Modes PROVE Permitted(In(mode)) \subseteq Permitted(In("Dangerous"))
  <2> SUFFICES ASSUME NEW t \in Actions \X (Namespaces \cup {""}), Permits(In(mode), t[1], t[2], "x")
               PROVE  Permits(In("Dangerous"), t[1], t[2], "x")
    BY Zenon DEF Permitted
  <2>1. CheckTarget(In(mode), t[1], t[2], "x")
    BY Zenon DEF Permits
  <2>2. Mutating(t[1]) => CheckTarget(In(mode), prerequisiteGetAction(t[1]), t[2], "x")
    BY Zenon DEF Permits
  <2>3. CheckTarget(In("Dangerous"), t[1], t[2], "x")
    BY <1>1, <2>1, DangerousAsksLeast, Zenon
  <2>4. Mutating(t[1]) => CheckTarget(In("Dangerous"), prerequisiteGetAction(t[1]), t[2], "x")
    BY <1>1, <2>2, DangerousAsksLeast, Zenon
  <2> QED BY <2>3, <2>4, Zenon DEF Permits
<1> QED BY <1>3, <1>4 DEF Modes

\* The rules grant nothing the mode and the scope withhold.
LEMMA RulesStayBelow == ConfigInv => RulesNeverRaise
<1> SUFFICES ASSUME ConfigInv, config # Stopped, NEW t \in Permitted(config), Mutating(t[1])
             PROVE  /\ ~t[1].namespaced => config.mode = "Dangerous" /\ config.clusterWrite
                    /\ config.mode = "SafeWrite" =>
                         /\ t[1].action \notin {"delete", "exec", "attach"}
                         /\ t[1].group # "rbac.authorization.k8s.io" /\ t[1].resource # "secrets"
  BY DEF RulesNeverRaise
<1>1. Check(config, t[1], t[2])
  BY Zenon DEF Permitted, Permits, CheckTarget
<1>2. ~t[1].namespaced => config.clusterWrite
  BY <1>1 DEF Check, InScope
<1>3. config.clusterWrite => config.mode = "Dangerous"
  BY Zenon DEF ConfigInv, Validate
<1>4. config.mode = "SafeWrite" => ~DangerousAction(t[1]) /\ ~hardDeniedInSafeMode(t[1])
  BY <1>1 DEF Check, InMode
<1>5. ~hardDeniedInSafeMode(t[1]) =>
        t[1].group # "rbac.authorization.k8s.io" /\ t[1].resource # "secrets"
  BY Zenon DEF hardDeniedInSafeMode, HardDeniedGroups, HardDeniedResources
<1>6. ~DangerousAction(t[1]) => t[1].action \notin {"delete", "exec", "attach"}
  BY DEF DangerousAction
<1> QED BY <1>2, <1>3, <1>4, <1>5, <1>6, Zenon

\* managedTarget for the objects in the Server's namespace ...
LEMMA ManagedInNamespace ==
  ASSUME NEW c, NEW a, NEW group, NEW resource, NEW name,
         About(a, Namespaced(group, resource, OwnNamespace, name)),
         <<group, resource, name>> \in
            {<<"", "configmaps", "server-config">>, <<"", "configmaps", "server-ca">>,
             <<"", "secrets", tlsName(c)>>, <<"", "services", "server">>,
             <<"", "serviceaccounts", "server">>, <<"apps", "deployments", "server">>,
             <<"networking.k8s.io", "networkpolicies", "server">>}
  PROVE  managedTarget(c, a, OwnNamespace, name)
<1>1. a.group = group /\ a.resource = resource /\ a.namespaced = TRUE
  BY Zenon DEF About, Namespaced
<1> QED BY <1>1, Zenon DEF managedTarget

\* ... for its own resource and the root ...
LEMMA ManagedAnywhere ==
  ASSUME NEW c, NEW a, NEW ns
  PROVE  /\ About(a, Namespaced("mcp.supek8smcp.io", "kubernetesmcpservers", ns, "server"))
            => managedTarget(c, a, ns, "server")
         /\ About(a, Namespaced("", "secrets", ns, "supek8smcp-serving-ca"))
            => managedTarget(c, a, ns, "supek8smcp-serving-ca")
<1>1. ASSUME NEW group, NEW resource, NEW name, About(a, Namespaced(group, resource, ns, name))
      PROVE  a.group = group /\ a.resource = resource /\ a.namespaced = TRUE
  BY <1>1 DEF About, Namespaced
<1>2. a.namespaced = TRUE /\ a.group = "mcp.supek8smcp.io" /\ a.resource = "kubernetesmcpservers"
      => managedTarget(c, a, ns, "server")
  BY Zenon DEF managedTarget
<1>3. a.namespaced = TRUE /\ a.group = "" /\ a.resource = "secrets"
      => managedTarget(c, a, ns, "supek8smcp-serving-ca")
  BY Zenon DEF managedTarget
<1> QED BY <1>1, <1>2, <1>3, Zenon

\* ... and for the cluster-scoped ones.
LEMMA ManagedInCluster ==
  ASSUME NEW c, NEW a, NEW resource, NEW name,
         About(a, ClusterScoped("rbac.authorization.k8s.io", resource, name)),
         <<resource, name>> \in {<<"clusterrolebindings", "server-binding">>,
                                 <<"clusterroles", "supek8smcp-tokenreviewer">>}
  PROVE  managedTarget(c, a, "", name)
<1>1. a.group = "rbac.authorization.k8s.io" /\ a.resource = resource /\ a.namespaced = FALSE
  BY Zenon DEF About, ClusterScoped
<1> QED BY <1>1, Zenon DEF managedTarget

\* managedTarget knows every object the operator writes for the Server.
LEMMA OwnObjectsKnown ==
  \A c, a, o : tlsName(c) # "" /\ o \in OperatorObjects(c) /\ About(a, o)
              => managedTarget(c, a, o.ns, o.name) /\ o.name # ""
<1> SUFFICES ASSUME NEW c, NEW a, NEW o,
                    tlsName(c) # "", o \in OperatorObjects(c), About(a, o)
             PROVE  managedTarget(c, a, o.ns, o.name) /\ o.name # ""
  BY Zenon
<1>1. ASSUME NEW group, NEW resource, NEW ns, NEW name, o = Namespaced(group, resource, ns, name)
      PROVE  o.ns = ns /\ o.name = name
  BY <1>1, Zenon DEF Namespaced
<1>2. ASSUME NEW resource, NEW name,
             o = ClusterScoped("rbac.authorization.k8s.io", resource, name)
      PROVE  o.ns = "" /\ o.name = name
  BY <1>2, Zenon DEF ClusterScoped
<1>3. tlsName(c) = (IF c.tlsSecret = "" THEN "server-tls" ELSE c.tlsSecret)
  BY Zenon DEF tlsName
<1>4. CASE \E n \in Namespaces : o = Namespaced("", "secrets", n, "supek8smcp-serving-ca")
  <2>1. PICK n \in Namespaces : o = Namespaced("", "secrets", n, "supek8smcp-serving-ca")
    BY <1>4, Zenon
  <2>2. o.ns = n /\ o.name = "supek8smcp-serving-ca"
    BY <1>1, <2>1, Zenon
  <2>3. managedTarget(c, a, n, "supek8smcp-serving-ca")
    BY <2>1, ManagedAnywhere, Zenon
  <2> QED BY <2>2, <2>3, Zenon
<1>5. CASE o = Namespaced("mcp.supek8smcp.io", "kubernetesmcpservers", OwnNamespace, "server")
  BY <1>1, <1>5, ManagedAnywhere, Zenon
<1>6. CASE o = Namespaced("", "serviceaccounts", OwnNamespace, "server")
  BY <1>1, <1>6, ManagedInNamespace, Zenon
<1>7. CASE o = Namespaced("", "configmaps", OwnNamespace, "server-config")
  BY <1>1, <1>7, ManagedInNamespace, Zenon
<1>8. CASE o = Namespaced("", "configmaps", OwnNamespace, "server-ca")
  BY <1>1, <1>8, ManagedInNamespace, Zenon
<1>9. CASE o = Namespaced("networking.k8s.io", "networkpolicies", OwnNamespace, "server")
  BY <1>1, <1>9, ManagedInNamespace, Zenon
<1>10. CASE o = Namespaced("", "secrets", OwnNamespace, tlsName(c))
  BY <1>1, <1>3, <1>10, ManagedInNamespace, Zenon
<1>11. CASE o = Namespaced("apps", "deployments", OwnNamespace, "server")
  BY <1>1, <1>11, ManagedInNamespace, Zenon
<1>12. CASE o = Namespaced("", "services", OwnNamespace, "server")
  BY <1>1, <1>12, ManagedInNamespace, Zenon
<1>13. CASE o = ClusterScoped("rbac.authorization.k8s.io", "clusterrolebindings", "server-binding")
  <2>1. o.ns = "" /\ o.name = "server-binding"
    BY <1>2, <1>13, Zenon
  <2>2. managedTarget(c, a, "", "server-binding")
    BY <1>13, ManagedInCluster, Zenon
  <2> QED BY <2>1, <2>2, Zenon
<1>14. CASE o = ClusterScoped("rbac.authorization.k8s.io", "clusterroles", "supek8smcp-tokenreviewer")
  <2>1. o.ns = "" /\ o.name = "supek8smcp-tokenreviewer"
    BY <1>2, <1>14, Zenon
  <2>2. managedTarget(c, a, "", "supek8smcp-tokenreviewer")
    BY <1>14, ManagedInCluster, Zenon
  <2> QED BY <2>1, <2>2, Zenon
<1> QED BY <1>3, <1>4, <1>5, <1>6, <1>7, <1>8, <1>9, <1>10, <1>11, <1>12, <1>13, <1>14, Zenon
        DEF OperatorObjects

\* Whatever API server is discovered, the operator's objects are out of reach.
LEMMA OwnObjectsOutOfReach == ConfigInv => OwnObjectsKept
<1> SUFFICES ASSUME ConfigInv, config # Stopped,
                    NEW o \in OperatorObjects(config), NEW a \in Actions, About(a, o), Mutating(a)
             PROVE  ~Permits(config, a, o.ns, o.name)
  BY DEF OwnObjectsKept
<1>1. config \in Configs
  BY DEF ConfigInv
<1>2. tlsName(config) # ""
  BY <1>1, Zenon DEF Configs, tlsName
<1>3. managedTarget(config, a, o.ns, o.name) /\ o.name # ""
  BY <1>2, OwnObjectsKnown, Zenon
<1> QED BY <1>3, Zenon DEF Permits, CheckTarget

\* Only validated configurations run.
LEMMA ConfigInvariant == PolicySpec => []ConfigInv
<1>1. PolicyInit => ConfigInv
  BY DEF PolicyInit, ConfigInv
<1>2. ConfigInv /\ [PolicyNext]_config => ConfigInv'
  BY DEF ConfigInv, PolicyNext, Start, Stop, Stopped, Validate
<1> QED BY <1>1, <1>2, PTL DEF PolicySpec

\* Policy.Check: whatever resources the cluster discovers and whatever rules the
\* configuration gives, a mode permits no more than it should and the modes nest.
THEOREM ModesAlwaysHold == PolicySpec => []ModesHold
<1>1. ConfigInv => ModesHold
  BY LadderHolds, RulesStayBelow DEF ModesHold
<1> QED BY <1>1, ConfigInvariant, PTL

\* Policy.CheckTarget: no rules, scope, mode or discovered resource let a Server
\* change an object the operator keeps for it.
THEOREM OwnObjectsStayKept == PolicySpec => []OwnObjectsKept
BY OwnObjectsOutOfReach, ConfigInvariant, PTL

-----------------------------------------------------------------------------
(* SafeWrite.                                                              *)

\* Every value a container held is one of its control, and the present one is as strict.
SafeInv ==
  /\ control \in Controls
  /\ workload \in Workloads
  /\ DOMAIN held = NamesOf(workload)
  /\ \A n \in NamesOf(workload) : \A v \in held[n] :
       AsStrict(control, v, ValueOf(workload, n))

\* A control is as strict as itself.
LEMMA AsStrictItself == ASSUME NEW key \in Controls, NEW v PROVE AsStrict(key, v, v)
BY Zenon DEF Controls, Values, AsStrict

\* validateSecurityControlTransition and validatePayloadField leave a control at
\* least as strict as it was, and so as strict as it ever was.
LEMMA StaysStrict ==
  ASSUME NEW key \in Controls, NEW v, NEW before, NEW after \in Values[key],
         AsStrict(key, v, before), ~weakened(key, before, after), ~Unsafe(key, after)
  PROVE  AsStrict(key, v, after)
<1>1. CASE key = "allowPrivilegeEscalation"
  BY <1>1, Zenon DEF AsStrict, weakened
<1>2. CASE key = "runAsNonRoot"
  BY <1>2, Zenon DEF AsStrict, weakened
<1>3. CASE key = "runAsUser"
  <2> SUFFICES ASSUME v \in {<<"number", 1>>, <<"number", 2>>}
               PROVE  after \in {<<"number", 1>>, <<"number", 2>>}
    BY <1>3 DEF AsStrict
  <2>1. before \in {<<"number", 1>>, <<"number", 2>>}
    BY <1>3, Zenon DEF AsStrict
  <2>2. before[1] = "number" /\ before[2] # 0
    BY <2>1
  <2>3. after[1] = "number" /\ after[2] # 0
    BY <1>3, <2>2, Zenon DEF weakened
  <2>4. after \in {Missing, Null, <<"number", 0>>, <<"number", 1>>, <<"number", 2>>}
    BY <1>3, Zenon DEF Values
  <2>5. Missing[1] = "missing" /\ Null[1] = "null" /\ <<"number", 0>>[2] = 0
    BY Zenon DEF Missing, Null
  <2>6. after # Missing /\ after # Null /\ after # <<"number", 0>>
    BY <2>3, <2>5
  <2> QED BY <2>4, <2>6, Zenon
<1>4. CASE key = "runAsUserName"
  BY <1>4 DEF AsStrict, weakened
<1>5. CASE key = "serviceAccountName"
  <2> SUFFICES ASSUME v = <<"string", "default">> PROVE after = v
    BY <1>5 DEF AsStrict
  <2>1. before = v
    BY <1>5 DEF AsStrict
  <2>2. before[1] = "string" /\ before[2] # ""
    BY <2>1
  <2> QED BY <1>5, <2>1, <2>2 DEF weakened
<1>6. CASE key = "hostPort"
  BY <1>6 DEF AsStrict, Unsafe
<1>7. CASE key = "seLinuxOptions"
  BY <1>7 DEF AsStrict, weakened
<1>8. CASE key = "capabilities"
  BY <1>8 DEF AsStrict, weakened
<1>9. CASE key = "seccompProfile"
  <2> SUFFICES ASSUME v \in {<<"type", "RuntimeDefault">>, <<"type", "Localhost">>} PROVE after = v
    BY <1>9 DEF AsStrict
  <2>1. before = v
    BY <1>9, Zenon DEF AsStrict
  <2>2. before[1] = "type" /\ before[2] # "Unconfined"
    BY <2>1
  <2> QED BY <1>9, <2>1, <2>2 DEF weakened
<1> QED BY <1>1, <1>2, <1>3, <1>4, <1>5, <1>6, <1>7, <1>8, <1>9, Zenon DEF Controls, Values

\* The value of a container is that of an entry of its name.
LEMMA ValueOfNamed ==
  ASSUME NEW w \in Workloads, NEW n \in NamesOf(w)
  PROVE  \E i \in DOMAIN w : /\ i \in Named(w, n)
                             /\ ValueOf(w, n) = w[i].value
                             /\ w[i].value \in Values[control]
<1>1. PICK j \in DOMAIN w : w[j].name = n
  BY DEF NamesOf
<1>2. j \in Named(w, n)
  BY <1>1 DEF Named
<1> DEFINE i == CHOOSE k \in Named(w, n) : TRUE
<1>3. i \in Named(w, n)
  BY <1>2
<1>4. i \in DOMAIN w
  BY <1>3 DEF Named
<1>5. w[i] \in [name : ContainerNames, value : Values[control]]
  BY <1>4 DEF Workloads
<1>6. ValueOf(w, n) = w[i].value
  BY DEF ValueOf
<1> QED BY <1>3, <1>4, <1>5, <1>6, Zenon

\* A change the validator accepts keeps what every container held.
LEMMA SafeStep == SafeInv /\ [SafeNext]_safeVars => SafeInv'
<1> SUFFICES ASSUME SafeInv, [SafeNext]_safeVars PROVE SafeInv'
  OBVIOUS
<1>1. ASSUME NEW w \in Workloads, SafeChangeTo(w) PROVE SafeInv'
  <2>1. control' = control /\ workload' = w /\ Workloads' = Workloads
    BY <1>1 DEF SafeChangeTo, Workloads
  <2>2. DOMAIN held' = NamesOf(w)
    BY <1>1 DEF SafeChangeTo
  <2>3. ASSUME NEW n \in NamesOf(w), NEW v \in held'[n]
        PROVE  AsStrict(control, v, ValueOf(w, n))
    <3>1. PICK j \in DOMAIN w : /\ j \in Named(w, n)
                                /\ ValueOf(w, n) = w[j].value
                                /\ w[j].value \in Values[control]
      BY ValueOfNamed, Zenon
    <3>2. ~Unsafe(control, w[j].value)
      BY <1>1, Zenon DEF SafeChangeTo, validateSafeTransition
    <3>3. CASE v = ValueOf(w, n)
      BY <3>3, AsStrictItself, Zenon DEF SafeInv
    <3>4. CASE n \in DOMAIN held /\ v \in held[n]
      <4>1. n \in NamesOf(workload) /\ AsStrict(control, v, ValueOf(workload, n))
        BY <3>4, Zenon DEF SafeInv
      <4>2. PICK i \in DOMAIN workload : /\ i \in Named(workload, n)
                                         /\ ValueOf(workload, n) = workload[i].value
        BY <4>1, ValueOfNamed, Zenon DEF SafeInv
      <4>3. workload[i].name = n
        BY <4>2, Zenon DEF Named
      <4>4. j \in matchingListValue(workload, i, w)
        BY <3>1, <4>3, Zenon DEF matchingListValue
      <4>5. ~weakened(control, workload[i].value, w[j].value)
        BY <1>1, <4>4, Zenon DEF SafeChangeTo, validateSafeTransition
      <4> QED BY <3>1, <3>2, <4>1, <4>2, <4>5, StaysStrict, Zenon DEF SafeInv
    <3>5. v = ValueOf(w, n) \/ (n \in DOMAIN held /\ v \in held[n])
      BY <1>1, <2>3, Zenon DEF SafeChangeTo
    <3> QED BY <3>3, <3>4, <3>5
  <2> QED BY <2>1, <2>2, <2>3, Zenon DEF SafeInv
<1>2. CASE UNCHANGED safeVars
  BY <1>2, Zenon DEF safeVars, SafeInv, Workloads
<1> QED BY <1>1, <1>2 DEF SafeNext

\* validateSafeTransition: for every list of containers and every sequence of
\* SafeWrite changes, no container that keeps its name loses a constraint.
THEOREM ConstraintsStayKept == SafeSpec => []ConstraintsKept
<1>1. SafeInit => SafeInv
  <2> SUFFICES ASSUME SafeInit PROVE SafeInv
    OBVIOUS
  <2>1. DOMAIN held = NamesOf(workload) /\ \A n \in NamesOf(workload) : held[n] = {ValueOf(workload, n)}
    BY Zenon DEF SafeInit, HeldSince
  <2> QED BY <2>1, AsStrictItself, Zenon DEF SafeInit, SafeInv
<1>2. SafeInv => ConstraintsKept
  BY DEF SafeInv, ConstraintsKept
<1> QED BY <1>1, <1>2, SafeStep, PTL DEF SafeSpec

-----------------------------------------------------------------------------
(* Timeouts.                                                               *)

\* What a request can have taken when a phase begins, and that a tool that has
\* returned was given a limit.
TimeInv ==
  /\ limits \in [request : Limits, stream : Limits, exec : Limits]
  /\ tool \in {"plain", "stream", "remote"}
  /\ seconds \in Requested \cup {0}
  /\ elapsed \in Nat
  /\ \/ phase = "queue" /\ elapsed = 0
     \/ phase = "authenticate" /\ elapsed <= limits.request
     \/ phase = "tool" /\ elapsed <= 2 * limits.request
     \/ phase = "answered" /\ elapsed <= 2 * limits.request + ToolTimeout

\* saturatingDurationSum: the sum, or the largest Duration where it does not fit.
LEMMA PlusSaturates ==
  ASSUME NEW t \in 0 .. MaxDuration, NEW v \in 0 .. MaxDuration
  PROVE  /\ plus(t, v) \in 0 .. MaxDuration
         /\ t + v <= MaxDuration => plus(t, v) = t + v
         /\ t + v > MaxDuration => plus(t, v) = MaxDuration
BY TimeoutsAssumption DEF plus, MaxDuration

\* remoteTimeout: an Int, at most the maximum, and what was asked for within it.
LEMMA RemoteWithin ==
  ASSUME NEW m \in 1 .. MaxDuration, NEW n \in Int
  PROVE  /\ remoteTimeout(m, n) \in Int
         /\ remoteTimeout(m, n) <= m
         /\ n \in 1 .. m \div Second => remoteTimeout(m, n) = n * Second
<1> DEFINE x == n * Second
<1>1. x \in Int /\ Half \in Nat /\ Half > 0 /\ Second \in Nat /\ Second > 0 /\ m < Half
  BY TimeoutsAssumption DEF MaxDuration
<1>2. Wrap(x) \in Int
  <2> HIDE DEF x
  <2> QED BY <1>1, SMT DEF Wrap
<1>3. ASSUME n \in 1 .. m \div Second PROVE x \in 0 .. m
  <2>1. m \div Second \in Nat /\ Second * (m \div Second) <= m
    BY <1>1
  <2>2. \A k \in Nat : n <= k => n * Second <= k * Second
    BY <1>1, <1>3
  <2>3. (m \div Second) * Second = Second * (m \div Second)
    BY <2>1, <1>1
  <2> QED BY <1>3, <1>1, <2>1, <2>2, <2>3
<1>4. ASSUME x \in 0 .. m PROVE Wrap(x) = x
  <2> HIDE DEF x
  <2>1. x + Half \in 0 .. 2 * Half - 1
    BY <1>1, <1>4
  <2>2. (x + Half) % (2 * Half) = x + Half
    BY <2>1, <1>1
  <2> QED BY <2>2, <1>1 DEF Wrap
<1> QED BY <1>1, <1>2, <1>3, <1>4 DEF remoteTimeout

\* The limit of the tool is at most the largest of the configured ones.
LEMMA ToolWithin ==
  ASSUME TimeInv
  PROVE  /\ ToolTimeout \in Int
         /\ ToolTimeout <= Larger(limits.request, Larger(limits.stream, limits.exec))
         /\ limits.request \in 1 .. MaxDuration /\ limits.exec \in 1 .. MaxDuration
         /\ seconds \in Int
         /\ Larger(limits.request, Larger(limits.stream, limits.exec)) \in 1 .. MaxDuration
<1>1. limits.request \in 1 .. MaxDuration /\ limits.stream \in 1 .. MaxDuration
      /\ limits.exec \in 1 .. MaxDuration
  BY TimeoutsAssumption, Zenon DEF TimeInv
<1>2. seconds \in Int
  BY TimeoutsAssumption DEF TimeInv
<1>3. remoteTimeout(limits.exec, seconds) \in Int /\ remoteTimeout(limits.exec, seconds) <= limits.exec
  BY <1>1, <1>2, RemoteWithin
<1>4. MaxDuration \in Int
  BY TimeoutsAssumption DEF MaxDuration
<1> QED BY <1>1, <1>2, <1>3, <1>4 DEF ToolTimeout, Larger, TimeInv

\* Every phase takes at most its limit.
LEMMA TimeStep == TimeInv /\ [TimeNext]_timeVars => TimeInv'
<1> SUFFICES ASSUME TimeInv, [TimeNext]_timeVars PROVE TimeInv'
  BY Zenon
<1>1. CASE Phase("queue", "authenticate", limits.request)
  BY <1>1, ToolWithin DEF Phase, TimeInv
<1>2. CASE Phase("authenticate", "tool", limits.request)
  BY <1>2, ToolWithin DEF Phase, TimeInv
<1>3. CASE Bounded(ToolTimeout) /\ Phase("tool", "answered", ToolTimeout)
  <2>1. ToolTimeout' = ToolTimeout
    BY <1>3 DEF Phase, ToolTimeout
  <2>2. ToolTimeout \in Int /\ limits.request \in Int
    BY ToolWithin
  <2> QED BY <1>3, <2>1, <2>2 DEF Phase, TimeInv, Bounded
<1>4. CASE UNCHANGED timeVars
  BY <1>4 DEF timeVars, TimeInv, ToolTimeout
<1> QED BY <1>1, <1>2, <1>3, <1>4 DEF TimeNext

\* The deadline of the connection covers the longest request.
LEMMA TimeInvSuffices == TimeInv => TimesKept
<1> SUFFICES ASSUME TimeInv PROVE TimesKept
  OBVIOUS
<1> DEFINE r == limits.request
           g == Larger(limits.request, Larger(limits.stream, limits.exec))
           a == plus(r, r)
           b == plus(a, g)
           total == plus(b, 10 * Second)
<1>1. r \in 1 .. MaxDuration /\ g \in 1 .. MaxDuration /\ ToolTimeout \in Int /\ ToolTimeout <= g
  BY ToolWithin
<1>2. 10 * Second \in 1 .. MaxDuration /\ MaxDuration \in Nat /\ Second \in Nat
  BY TimeoutsAssumption DEF MaxDuration
<1>3. elapsed \in Nat /\ elapsed <= 2 * r + g
  BY <1>1, <1>2 DEF TimeInv
<1>4. total > 0 /\ (elapsed + 10 * Second <= total \/ total = MaxDuration)
  <2> HIDE DEF r, g
  <2>1. a \in 0 .. MaxDuration /\ (a = r + r \/ a = MaxDuration)
    BY <1>1, <1>2, PlusSaturates
  <2> HIDE DEF a
  <2>2. b \in 0 .. MaxDuration /\ (b = a + g \/ b = MaxDuration) /\ (a = MaxDuration => b = MaxDuration)
    BY <2>1, <1>1, <1>2, PlusSaturates
  <2> HIDE DEF b
  <2>3. total \in 0 .. MaxDuration /\ (total = b + 10 * Second \/ total = MaxDuration)
        /\ (b = MaxDuration => total = MaxDuration)
    BY <2>2, <1>2, PlusSaturates
  <2> QED BY <2>1, <2>2, <2>3, <1>1, <1>2, <1>3
<1>5. AnswerInTime
  BY <1>4 DEF AnswerInTime, serverWriteTimeout
<1>6. RemoteCapped
  <2>1. limits.exec \in 1 .. MaxDuration /\ seconds \in Int
    BY ToolWithin
  <2> QED BY <2>1, RemoteWithin DEF RemoteCapped
<1> QED BY <1>5, <1>6 DEF TimesKept

\* serverWriteTimeout and remoteTimeout: whatever the configured limits and the
\* requested seconds, the connection outlives every request by the ten seconds
\* its answer may take, and no remote command runs longer than execTimeout.
THEOREM RequestsAnsweredInTime == TimeSpec => []TimesKept
<1>1. TimeInit => TimeInv
  BY TimeoutsAssumption DEF TimeInit, TimeInv
<1> QED BY <1>1, TimeStep, TimeInvSuffices, PTL DEF TimeSpec

-----------------------------------------------------------------------------
(* Catalog: one refresh at a time, handles that stay decodable, and what   *)
(* callers are served while discovery fails.                               *)

\* One refresh at a time, so that found is the listing of the caller that builds
\* or stores one.
RefreshInv == CatalogTypeOK /\ OneRefresh

\* An answer since the last complete listing is part of the snapshot, which retain
\* will keep once more; with it, what HandlesDecode says of an answer.
Decodable(c) ==
  /\ answer[c].kind = "complete" /\ answer[c].refreshes = 0 => answer[c].listing \subseteq items
  /\ \/ answer[c].kind = "complete" /\ answer[c].refreshes < 2
     \/ answer[c].kind = "partial" /\ answer[c].refreshes = 0
     => answer[c].listing \subseteq handles

\* Where a handle can come from: the snapshot, the partial listing that is kept,
\* the listing about to be stored.
HandlesInv ==
  /\ items \subseteq handles
  /\ \A l \in lastPartial : l \subseteq handles
  /\ \A c \in Callers : at[c] = "storing" => found.listing \subseteq handles
  /\ \A c \in Callers : Decodable(c)

\* What a failed discovery leaves behind while the back-off lasts.
PartialInv ==
  /\ \A c \in Callers : at[c] = "discovering" => retry = 0
  /\ \A c \in Callers : at[c] \in {"building", "storing"} =>
       IF found.complete THEN retry = 0 ELSE ~loaded
  /\ retry > 0 /\ ~loaded =>
       \/ lastPartial = {found.listing}
       \/ lastPartial = {} /\ found.listing = {}
       \/ lastPartial = {} /\ \E c \in Callers : at[c] \in {"building", "storing"}

-----------------------------------------------------------------------------
(* One refresh at a time.                                                  *)

\* What Served gives a caller in the back-off.
LEMMA ServedCases ==
  /\ loaded => Served = <<"complete", items>>
  /\ ~loaded /\ lastPartial # {} => Served = <<"partial", UNION lastPartial>>
  /\ ~loaded /\ lastPartial = {} => Served = <<"error", {}>>
BY DEF Served

\* The shape of the cache, of the calls and of their answers.
LEMMA TypeStep == CatalogTypeOK /\ [CatalogNext]_catalogVars => CatalogTypeOK'
<1> SUFFICES ASSUME CatalogTypeOK, [CatalogNext]_catalogVars PROVE CatalogTypeOK'
  OBVIOUS
<1> USE CatalogAssumption DEF CatalogTypeOK, Places, cacheVars
<1>1. ASSUME NEW c \in Callers, Call(c) PROVE CatalogTypeOK'
  BY <1>1 DEF Call, Moves
<1>2. ASSUME NEW c \in Callers, Hit(c) PROVE CatalogTypeOK'
  BY <1>2 DEF Hit, Returns, Moves, Answer
<1>3. ASSUME NEW c \in Callers, Wait(c) PROVE CatalogTypeOK'
  BY <1>3 DEF Wait, Moves
<1>4. ASSUME NEW c \in Callers, Begin(c) PROVE CatalogTypeOK'
  BY <1>4 DEF Begin, Moves
<1>5. ASSUME NEW c \in Callers, Cancel(c) PROVE CatalogTypeOK'
  BY <1>5 DEF Cancel, Returns, Moves, Answer
<1>6. ASSUME NEW c \in Callers, ClientFails(c) PROVE CatalogTypeOK'
  BY <1>6 DEF ClientFails, Returns, Moves, Answer
<1>7. ASSUME NEW c \in Callers, DiscoverySucceeds(c) PROVE CatalogTypeOK'
  BY <1>7, Zenon DEF DiscoverySucceeds, Moves
<1>8. ASSUME NEW c \in Callers, Build(c) PROVE CatalogTypeOK'
  BY <1>8 DEF Build, Moves
<1>9. ASSUME NEW c \in Callers, StorePartial(c) PROVE CatalogTypeOK'
  BY <1>9 DEF StorePartial, Returns, Moves, Answer
<1>10. ASSUME NEW c \in Callers, Close(c) PROVE CatalogTypeOK'
  BY <1>10, ZenonT(30) DEF Close
<1>11. ASSUME NEW c \in Callers, InBackOff(c) PROVE CatalogTypeOK'
  <2>1. /\ Served[1] \in {"complete", "partial", "error"}
        /\ Served[2] \in SUBSET Capabilities
    BY ServedCases
  <2> QED
    BY <1>11, <2>1 DEF InBackOff, Returns, Moves, Answer
<1>12. ASSUME NEW c \in Callers, NEW some \in SUBSET offered, DiscoveryFails(c, some)
       PROVE  CatalogTypeOK'
  BY <1>12 DEF DiscoveryFails, Returns, Moves, Answer
<1>13. ASSUME NEW c \in Callers, StoreComplete(c) PROVE CatalogTypeOK'
  <2>1. Older \in [Callers -> [kind : {"none", "complete", "partial", "error", "cancelled", "client"},
                               listing : SUBSET Capabilities, refreshes : 0 .. 2]]
    BY DEF Older
  <2> QED
    BY <1>13, <2>1 DEF StoreComplete, retain, Moves, Answer
<1>14. CASE CatalogTick
  BY <1>14 DEF CatalogTick, Fresh
<1>15. ASSUME NEW s \in SUBSET Capabilities, Offer(s) PROVE CatalogTypeOK'
  BY <1>15 DEF Offer
<1>16. CASE UNCHANGED catalogVars
  BY <1>16, Zenon DEF catalogVars
<1> QED
  BY Zenon, <1>1, <1>2, <1>3, <1>4, <1>5, <1>6, <1>7, <1>8, <1>9, <1>10, <1>11, <1>12, <1>13, <1>14,
     <1>15, <1>16, Zenon DEF CatalogNext, Looks, Refreshes

\* The channel is made by the caller that begins a refresh and taken away by the
\* same caller's deferred function, on every way out of list.
LEMMA OneRefreshStep == RefreshInv /\ [CatalogNext]_catalogVars => OneRefresh'
<1> SUFFICES ASSUME RefreshInv, [CatalogNext]_catalogVars PROVE OneRefresh'
  OBVIOUS
<1>0. at \in [Callers -> Places] /\ refreshing \in BOOLEAN /\ OneRefresh
  BY DEF RefreshInv, CatalogTypeOK
\* A caller that does not refresh moves to a place where it does not, and waits
\* only for a refresh under way.
<1>1. ASSUME NEW c \in Callers, ~Refreshing(c), NEW place \in {"idle", "start", "waiting"},
             Moves(c, place), UNCHANGED refreshing, place = "waiting" => refreshing
      PROVE  OneRefresh'
  BY <1>0, <1>1 DEF OneRefresh, Refreshing, Moves
\* The refresher moves on.
<1>2. ASSUME NEW c \in Callers, Refreshing(c), NEW place \in {"building", "storing", "closing"},
             Moves(c, place), UNCHANGED refreshing
      PROVE  OneRefresh'
  BY <1>0, <1>2 DEF OneRefresh, Refreshing, Moves
<1>3. ASSUME NEW c \in Callers, Call(c) \/ Looks(c) \/ Cancel(c) PROVE OneRefresh'
  <2>1. CASE Call(c)
    BY <1>1, <2>1 DEF Call, Refreshing, cacheVars
  <2>2. CASE Hit(c) \/ InBackOff(c) \/ Wait(c)
    BY <1>1, <2>2, Zenon DEF Hit, InBackOff, Wait, Refreshing, cacheVars
  <2>3. CASE Begin(c)
    BY <1>0, <2>3 DEF Begin, Moves, OneRefresh, Refreshing
  <2>4. CASE Cancel(c)
    <3>1. CASE at[c] = "discovering"
      BY <1>2, <2>4, <3>1 DEF Cancel, Refreshing, cacheVars
    <3>2. CASE at[c] # "discovering"
      BY <1>1, <2>4, <3>2 DEF Cancel, Refreshing, cacheVars
    <3> QED
      BY <3>1, <3>2
  <2> QED
    BY <1>3, <2>1, <2>2, <2>3, <2>4 DEF Looks
<1>4. ASSUME NEW c \in Callers, Refreshes(c) PROVE OneRefresh'
  <2>1. CASE ClientFails(c)
    BY <1>2, <2>1 DEF ClientFails, Refreshing, cacheVars
  <2>2. ASSUME NEW some \in SUBSET offered, DiscoveryFails(c, some) PROVE OneRefresh'
    BY <1>2, <2>2, Zenon DEF DiscoveryFails, Refreshing
  <2>3. CASE DiscoverySucceeds(c) \/ Build(c)
    BY <1>2, <2>3, Zenon DEF DiscoverySucceeds, Build, Refreshing, cacheVars
  <2>4. CASE StoreComplete(c) \/ StorePartial(c)
    BY <1>2, <2>4, Zenon DEF StoreComplete, StorePartial, Refreshing
  <2>5. CASE Close(c)
    BY <1>0, <2>5, Zenon DEF Close, OneRefresh, Refreshing
  <2> QED
    BY <1>4, <2>1, <2>2, <2>3, <2>4, <2>5, Zenon DEF Refreshes
<1>5. CASE UNCHANGED <<at, refreshing>>
  BY <1>0, <1>5 DEF OneRefresh, Refreshing
<1> QED
  BY <1>3, <1>4, <1>5, Zenon DEF CatalogNext, CatalogTick, Offer, catalogVars, cacheVars

\* The empty cache.
LEMMA RefreshInvInit == CatalogInit => RefreshInv
<1> SUFFICES ASSUME CatalogInit PROVE RefreshInv
  OBVIOUS
<1>1. /\ age \in 0 .. CacheTime /\ retry \in 0 .. BackOff /\ changes \in 0 .. MaxChanges
      /\ 0 \in 0 .. 2
  BY CatalogAssumption DEF CatalogInit
<1>2. at \in [Callers -> Places] /\ \A c \in Callers : at[c] = "idle"
  BY DEF CatalogInit, Places
<1>3. answer \in [Callers -> [kind : {"none", "complete", "partial", "error", "cancelled", "client"},
                              listing : SUBSET Capabilities, refreshes : 0 .. 2]]
  BY <1>1 DEF CatalogInit, Answer
<1>4. CatalogTypeOK
  BY <1>1, <1>2, <1>3, ZenonT(30) DEF CatalogInit, CatalogTypeOK
<1>5. OneRefresh
  BY <1>2 DEF CatalogInit, OneRefresh, Refreshing
<1> QED
  BY <1>4, <1>5 DEF RefreshInv

\* Every step keeps it.
LEMMA RefreshInvStep == RefreshInv /\ [CatalogNext]_catalogVars => RefreshInv'
BY TypeStep, OneRefreshStep DEF RefreshInv

\* One caller refreshes at a time, on every path through list.
THEOREM OneRefreshAlways == CatalogSpec => []OneRefresh
<1>1. RefreshInv => OneRefresh
  BY DEF RefreshInv
<1> QED
  BY <1>1, RefreshInvInit, RefreshInvStep, PTL DEF CatalogSpec

-----------------------------------------------------------------------------
(* Handles.                                                                *)

\* A listing becomes one complete listing older in StoreComplete, while retain
\* keeps the handles of this listing and of the snapshot it replaces.
LEMMA OlderDecodable ==
  ASSUME RefreshInv, HandlesInv, NEW c \in Callers, StoreComplete(c), NEW d \in Callers
  PROVE  Decodable(d)'
<1>1. /\ items' = found.listing /\ handles' = handles \cap (found.listing \cup items)
      /\ found.listing \subseteq handles /\ items \subseteq handles
  BY DEF StoreComplete, retain, HandlesInv
<1>2. /\ answer[d].refreshes \in 0 .. 2
      /\ answer[d] \in [kind : {"none", "complete", "partial", "error", "cancelled", "client"},
                        listing : SUBSET Capabilities, refreshes : 0 .. 2]
  BY Zenon DEF RefreshInv, CatalogTypeOK
<1>3. CASE d = c
  <2>1. answer'[d] = [kind |-> "complete", listing |-> found.listing, refreshes |-> 0]
    BY <1>3 DEF StoreComplete, Older, Answer
  <2> QED
    BY <1>1, <2>1 DEF Decodable
<1>4. CASE d # c
  <2>1. answer'[d] = IF answer[d].listing = {} \/ answer[d].refreshes = 2 THEN answer[d]
                     ELSE [answer[d] EXCEPT !.refreshes = @ + 1]
    BY <1>4 DEF StoreComplete, Older
  <2>2. CASE answer[d].listing = {} \/ answer[d].refreshes = 2
    BY <1>1, <2>1, <2>2 DEF Decodable
  <2>3. CASE answer[d].listing # {} /\ answer[d].refreshes # 2
    <3>1. /\ answer'[d].kind = answer[d].kind /\ answer'[d].listing = answer[d].listing
          /\ answer'[d].refreshes = answer[d].refreshes + 1
      BY <1>2, <2>1, <2>3, Zenon
    <3>2. answer[d].kind = "complete" /\ answer[d].refreshes = 0 => answer[d].listing \subseteq items
      BY DEF HandlesInv, Decodable
    <3> QED
      BY <1>1, <1>2, <2>3, <3>1, <3>2 DEF Decodable
  <2> QED
    BY <2>2, <2>3
<1> QED
  BY <1>3, <1>4, Zenon

\* Every other step leaves the snapshot alone, takes no handle away and answers
\* from the snapshot, from a listing that has its handles, or with nothing.
LEMMA AnswersDecodable ==
  ASSUME RefreshInv, HandlesInv, NEW c \in Callers, UNCHANGED items, handles \subseteq handles',
         NEW kind, NEW listing, Returns(c, kind, listing),
         \/ kind \notin {"complete", "partial"}
         \/ kind = "complete" /\ listing = items
         \/ kind = "partial" /\ listing \subseteq handles
  PROVE  \A d \in Callers : Decodable(d)'
<1> SUFFICES ASSUME NEW d \in Callers PROVE Decodable(d)'
  OBVIOUS
<1>1. answer \in [Callers -> [kind : {"none", "complete", "partial", "error", "cancelled", "client"},
                              listing : SUBSET Capabilities, refreshes : 0 .. 2]]
  BY Zenon DEF RefreshInv, CatalogTypeOK
<1>2. items \subseteq handles
  BY Zenon DEF HandlesInv
<1>3. CASE d = c
  <2>1. answer'[d] = [kind |-> kind, listing |-> listing, refreshes |-> 0]
    BY <1>1, <1>3, Zenon DEF Returns, Answer
  <2> QED
    BY <1>2, <2>1 DEF Decodable
<1>4. CASE d # c
  <2>1. answer'[d] = answer[d]
    BY <1>1, <1>4, Zenon DEF Returns
  <2> QED
    BY <2>1, Zenon DEF HandlesInv, Decodable
<1> QED
  BY <1>3, <1>4

\* Handles survive every step of list.
LEMMA HandlesStep ==
  RefreshInv /\ HandlesInv /\ [CatalogNext]_catalogVars => HandlesInv'
<1> SUFFICES ASSUME RefreshInv, HandlesInv, [CatalogNext]_catalogVars PROVE HandlesInv'
  OBVIOUS
<1>0. /\ at \in [Callers -> Places]
      /\ \A c, d \in Callers : Refreshing(c) /\ Refreshing(d) => c = d
  BY Zenon DEF RefreshInv, CatalogTypeOK, OneRefresh
<1>1. ASSUME NEW c \in Callers, Hit(c) PROVE HandlesInv'
  <2>1. \A d \in Callers : Decodable(d)'
    BY <1>1, AnswersDecodable, Zenon DEF Hit, cacheVars
  <2> QED
    BY <1>0, <1>1, <2>1, Zenon DEF HandlesInv, Hit, Moves, cacheVars
<1>2. ASSUME NEW c \in Callers, InBackOff(c) PROVE HandlesInv'
  <2>1. UNION lastPartial \subseteq handles
    BY DEF HandlesInv
  <2>2. \/ Served[1] = "complete" /\ Served[2] = items
        \/ Served[1] = "partial" /\ Served[2] = UNION lastPartial
        \/ Served[1] = "error"
    BY ServedCases
  <2>3. \A d \in Callers : Decodable(d)'
    BY <1>2, <2>1, <2>2, AnswersDecodable, Zenon DEF InBackOff, cacheVars
  <2> QED
    BY <1>0, <1>2, <2>3, Zenon DEF HandlesInv, InBackOff, Moves, cacheVars
<1>3. ASSUME NEW c \in Callers, Cancel(c) \/ ClientFails(c) PROVE HandlesInv'
  <2>1. \A d \in Callers : Decodable(d)'
    BY <1>3, AnswersDecodable, Zenon DEF Cancel, ClientFails, cacheVars
  <2> QED
    BY <1>0, <1>3, <2>1, Zenon DEF HandlesInv, Cancel, ClientFails, Moves, cacheVars
<1>4. ASSUME NEW c \in Callers, Call(c) \/ Wait(c) \/ Begin(c) PROVE HandlesInv'
  BY <1>0, <1>4, Zenon DEF HandlesInv, Decodable, Call, Wait, Begin, Moves, cacheVars
<1>5. ASSUME NEW c \in Callers, NEW some \in SUBSET offered, DiscoveryFails(c, some)
      PROVE  HandlesInv'
  <2>1. \A d \in Callers : at'[d] # "storing"
    BY <1>0, <1>5, Zenon DEF DiscoveryFails, Moves, Refreshing
  <2>2. \A d \in Callers : Decodable(d)'
    <3>1. CASE UNCHANGED answer
      BY <1>5, <3>1, Zenon DEF DiscoveryFails, HandlesInv, Decodable
    <3>2. CASE Returns(c, "complete", items) \/ Returns(c, "error", {})
      BY <1>5, <3>2, AnswersDecodable, Zenon DEF DiscoveryFails
    <3> QED
      BY <1>5, <3>1, <3>2, Zenon DEF DiscoveryFails
  <2> QED
    BY <1>5, <2>1, <2>2, Zenon DEF HandlesInv, DiscoveryFails
<1>6. ASSUME NEW c \in Callers, DiscoverySucceeds(c) PROVE HandlesInv'
  <2>1. \A d \in Callers : at'[d] # "storing"
    BY <1>0, <1>6, Zenon DEF DiscoverySucceeds, Moves, Refreshing
  <2> QED
    BY <1>6, <2>1, Zenon DEF HandlesInv, Decodable, DiscoverySucceeds, cacheVars
<1>7. ASSUME NEW c \in Callers, Build(c) PROVE HandlesInv'
  BY <1>7, Zenon DEF HandlesInv, Decodable, Build
<1>8. ASSUME NEW c \in Callers, StoreComplete(c) PROVE HandlesInv'
  <2>1. \A d \in Callers : at'[d] # "storing"
    BY <1>0, <1>8 DEF StoreComplete, Moves, Refreshing
  <2>2. \A d \in Callers : Decodable(d)'
    BY <1>8, OlderDecodable, Zenon
  <2>3. items' \subseteq handles'
    BY <1>8, Zenon DEF StoreComplete, retain, HandlesInv
  <2> QED
    BY <1>8, <2>1, <2>2, <2>3, Zenon DEF HandlesInv, StoreComplete
<1>9. ASSUME NEW c \in Callers, StorePartial(c) PROVE HandlesInv'
  <2>1. found.listing \subseteq handles
    BY <1>9, Zenon DEF StorePartial, HandlesInv
  <2>2. \A d \in Callers : Decodable(d)'
    BY <1>9, <2>1, AnswersDecodable, Zenon DEF StorePartial
  <2>3. \A d \in Callers : at'[d] = "storing" => at[d] = "storing"
    BY <1>0, <1>9, Zenon DEF StorePartial, Moves
  <2> QED
    BY <1>9, <2>1, <2>2, <2>3, Zenon DEF HandlesInv, StorePartial
<1>10. ASSUME NEW c \in Callers, Close(c) PROVE HandlesInv'
  <2>1. \A d \in Callers : at'[d] = "storing" => at[d] = "storing"
    BY <1>0, <1>10, Zenon DEF Close
  <2> QED
    BY <1>10, <2>1, Zenon DEF HandlesInv, Decodable, Close
<1>11. CASE UNCHANGED <<items, lastPartial, handles, at, found, answer>>
  BY <1>11, Zenon DEF HandlesInv, Decodable
<1> QED
  BY <1>1, <1>2, <1>3, <1>4, <1>5, <1>6, <1>7, <1>8, <1>9, <1>10, <1>11, Zenon
  DEF CatalogNext, Looks, Refreshes, CatalogTick, Offer, catalogVars, cacheVars

\* A handle a caller was given stays decodable until the second complete listing
\* after it (the first, for a partial one): retain of one listing and the last.
THEOREM HandlesStayDecodable == CatalogSpec => []HandlesDecode
<1>1. CatalogInit => HandlesInv
  BY DEF CatalogInit, HandlesInv, Decodable, Answer
<1>2. HandlesInv => HandlesDecode
  BY Zenon DEF HandlesInv, Decodable, HandlesDecode
<1> QED
  BY <1>1, <1>2, RefreshInvInit, RefreshInvStep, HandlesStep, PTL DEF CatalogSpec

-----------------------------------------------------------------------------
(* What is served while discovery fails.                                   *)

\* The back-off begins with a refresh that fails and ends before the next begins.
LEMMA PartialStep ==
  RefreshInv /\ PartialInv /\ [CatalogNext]_catalogVars => PartialInv'
<1> SUFFICES ASSUME RefreshInv, PartialInv, [CatalogNext]_catalogVars PROVE PartialInv'
  OBVIOUS
<1>0. /\ at \in [Callers -> Places] /\ retry \in Nat /\ loaded \in BOOLEAN
      /\ found \in [listing : SUBSET Capabilities, complete : BOOLEAN]
      /\ \A c, d \in Callers : Refreshing(c) /\ Refreshing(d) => c = d
      /\ refreshing <=> \E c \in Callers : Refreshing(c)
  BY CatalogAssumption DEF RefreshInv, CatalogTypeOK, OneRefresh
\* A step that leaves the cache alone and moves nobody into or within a refresh.
<1>1. ASSUME UNCHANGED <<retry, loaded, lastPartial, found>>,
             \A d \in Callers : at'[d] \in {"discovering", "building", "storing"} => at'[d] = at[d],
             \A d \in Callers : at[d] \in {"building", "storing"} => at'[d] = at[d]
      PROVE  PartialInv'
  BY <1>1, Zenon DEF PartialInv
<1>2. ASSUME NEW c \in Callers,
             Call(c) \/ Hit(c) \/ InBackOff(c) \/ Wait(c) \/ Cancel(c) \/ ClientFails(c) \/ Close(c)
      PROVE  PartialInv'
  BY <1>0, <1>1, <1>2, Zenon
  DEF Call, Hit, InBackOff, Wait, Cancel, ClientFails, Close, Moves, cacheVars
<1>3. ASSUME NEW c \in Callers, Begin(c) PROVE PartialInv'
  BY <1>0, <1>3, Zenon DEF Begin, Moves, PartialInv
<1>4. ASSUME NEW c \in Callers, NEW some \in SUBSET offered, DiscoveryFails(c, some)
      PROVE  PartialInv'
  <2>1. \A d \in Callers : d # c => at'[d] = at[d] /\ ~Refreshing(d)
    BY <1>0, <1>4, Zenon DEF DiscoveryFails, Moves, Refreshing
  <2>2. \/ at'[c] = "closing" /\ (loaded \/ some = {})
        \/ at'[c] = "building" /\ ~loaded
    BY <1>0, <1>4, Zenon DEF DiscoveryFails, Moves
  <2>3. /\ lastPartial' = {} /\ found'.listing = some /\ ~found'.complete
        /\ UNCHANGED loaded
    BY <1>4, ZenonT(30) DEF DiscoveryFails
  <2> QED
    BY <2>1, <2>2, <2>3, Zenon DEF PartialInv, Refreshing
<1>5. ASSUME NEW c \in Callers, DiscoverySucceeds(c) PROVE PartialInv'
  <2>1. \A d \in Callers : d # c => at'[d] = at[d] /\ ~Refreshing(d)
    BY <1>0, <1>5, Zenon DEF DiscoverySucceeds, Moves, Refreshing
  <2>2. at'[c] = "building" /\ found'.complete /\ retry' = 0
    BY <1>0, <1>5, Zenon DEF DiscoverySucceeds, Moves, PartialInv, cacheVars
  <2> QED
    BY <2>1, <2>2 DEF PartialInv, Refreshing
<1>6. ASSUME NEW c \in Callers, Build(c) PROVE PartialInv'
  <2>1. \A d \in Callers : d # c => at'[d] = at[d]
    BY <1>0, <1>6 DEF Build, Moves
  <2>2. at[c] = "building" /\ at'[c] = "storing"
    BY <1>0, <1>6, Zenon DEF Build, Moves
  <2> QED
    BY <1>6, <2>1, <2>2, Zenon DEF Build, PartialInv
<1>7. ASSUME NEW c \in Callers, StoreComplete(c) \/ StorePartial(c) PROVE PartialInv'
  <2>1. \A d \in Callers : at'[d] \notin {"discovering", "building", "storing"}
    BY <1>0, <1>7, Zenon DEF StoreComplete, StorePartial, Moves, Refreshing, Places
  <2> QED
    BY <1>7, <2>1, Zenon DEF StoreComplete, StorePartial, PartialInv
<1>8. CASE CatalogTick
  <2>1. retry' \in Nat /\ (retry = 0 => retry' = 0) /\ (retry' > 0 => retry > 0)
    BY <1>0, <1>8 DEF CatalogTick
  <2> QED
    BY <1>8, <2>1, Zenon DEF CatalogTick, PartialInv
<1>9. CASE UNCHANGED <<retry, loaded, lastPartial, found, at>>
  BY <1>9 DEF PartialInv
<1> QED
  BY <1>2, <1>3, <1>4, <1>5, <1>6, <1>7, <1>8, <1>9, Zenon
  DEF CatalogNext, Looks, Refreshes, Offer, catalogVars, cacheVars

\* The invariant of the catalog.
CatalogInv == RefreshInv /\ PartialInv

\* It holds throughout.
LEMMA CatalogInvariant == CatalogSpec => []CatalogInv
<1>1. CatalogInit => PartialInv
  BY DEF CatalogInit, PartialInv
<1> QED
  BY <1>1, RefreshInvInit, RefreshInvStep, PartialStep, PTL DEF CatalogSpec, CatalogInv

\* When a refresh that failed in part is over, the back-off serves its listing.
THEOREM PartialListingServed == CatalogSpec => []PartialServed
<1>1. CatalogInv => PartialServed
  <2> SUFFICES ASSUME CatalogInv, retry > 0, ~refreshing, ~loaded
               PROVE  Served[2] = found.listing
    BY DEF PartialServed
  <2>1. \A c \in Callers : at[c] \notin {"building", "storing"}
    BY DEF CatalogInv, RefreshInv, OneRefresh, Refreshing
  <2>2. lastPartial = {found.listing} \/ (lastPartial = {} /\ found.listing = {})
    BY <2>1 DEF CatalogInv, PartialInv
  <2>3. lastPartial = {found.listing} => UNION lastPartial = found.listing
    OBVIOUS
  <2> QED
    BY <2>2, <2>3, ServedCases
<1> QED
  BY <1>1, CatalogInvariant, PTL

\* Once there is a snapshot no call of list ends in a partial listing or in a
\* discovery error.
THEOREM SnapshotAlwaysServed == CatalogSpec => SnapshotServed
<1> DEFINE Kept ==
      \A c \in Callers :
        loaded /\ at[c] \in {"start", "discovering", "storing"} /\ at'[c] \in {"idle", "closing"}
        => answer'[c].kind \notin {"partial", "error"}
<1>1. CatalogInv /\ [CatalogNext]_catalogVars => [Kept]_catalogVars
  <2> SUFFICES ASSUME CatalogInv, CatalogNext, NEW c \in Callers, loaded,
                      at[c] \in {"start", "discovering", "storing"}, at'[c] \in {"idle", "closing"}
               PROVE  answer'[c].kind \notin {"partial", "error"}
    OBVIOUS
  <2>0. /\ at \in [Callers -> Places]
        /\ answer \in [Callers -> [kind : {"none", "complete", "partial", "error", "cancelled",
                                           "client"},
                                   listing : SUBSET Capabilities, refreshes : 0 .. 2]]
    BY DEF CatalogInv, RefreshInv, CatalogTypeOK
  <2>1. at'[c] # at[c]
    BY Zenon
  <2>2. ASSUME NEW kind, NEW listing, Returns(c, kind, listing), kind \notin {"partial", "error"}
        PROVE  answer'[c].kind \notin {"partial", "error"}
    BY <2>0, <2>2, Zenon DEF Returns, Answer
  <2>3. ASSUME NEW d \in Callers, Call(d) \/ Looks(d) \/ Cancel(d)
        PROVE  answer'[c].kind \notin {"partial", "error"}
    <3>1. d = c
      BY <2>0, <2>1, <2>3, ZenonT(30) DEF Call, Looks, Hit, InBackOff, Wait, Begin, Cancel, Moves
    <3>2. CASE Hit(c)
      BY <2>2, <3>2, Zenon DEF Hit
    <3>3. CASE InBackOff(c)
      BY <2>2, <3>3, ServedCases DEF InBackOff
    <3>4. CASE Cancel(c)
      BY <2>2, <3>4 DEF Cancel
    <3>5. ~(Call(c) \/ Wait(c) \/ Begin(c))
      BY <2>0, ZenonT(30) DEF Call, Wait, Begin, Moves
    <3> QED
      BY <2>3, <3>1, <3>2, <3>3, <3>4, <3>5, Zenon DEF Looks
  <2>4. ASSUME NEW d \in Callers, Refreshes(d)
        PROVE  answer'[c].kind \notin {"partial", "error"}
    <3>1. d = c
      BY <2>0, <2>1, <2>4, ZenonT(30)
      DEF Refreshes, ClientFails, DiscoveryFails, DiscoverySucceeds, Build, StoreComplete,
          StorePartial, Close, Moves
    <3>2. CASE ClientFails(c)
      BY <2>2, <3>2, Zenon DEF ClientFails
    <3>3. ASSUME NEW some \in SUBSET offered, DiscoveryFails(c, some)
          PROVE  answer'[c].kind \notin {"partial", "error"}
      BY <2>2, <3>3, Zenon DEF DiscoveryFails
    <3>4. CASE StoreComplete(c)
      <4>1. answer'[c] = Answer("complete", found.listing)
        BY <3>4 DEF StoreComplete, Older
      <4> QED
        BY <4>1 DEF Answer
    <3>5. ~StorePartial(c)
      BY ZenonT(30) DEF StorePartial, CatalogInv, PartialInv
    <3>6. ~(DiscoverySucceeds(c) \/ Build(c) \/ Close(c))
      BY <2>0, ZenonT(30) DEF DiscoverySucceeds, Build, Close, Moves
    <3> QED
      BY <2>4, <3>1, <3>2, <3>3, <3>4, <3>5, <3>6, Zenon DEF Refreshes
  <2>5. ~(CatalogTick \/ \E s \in SUBSET Capabilities : Offer(s))
    BY <2>1, ZenonT(30) DEF CatalogTick, Offer
  <2> QED
    BY <2>3, <2>4, <2>5 DEF CatalogNext
<1> QED
  BY <1>1, CatalogInvariant, PTL DEF CatalogSpec, SnapshotServed

\* For any number of callers: one refresh at a time, handles that outlive it, and
\* a partial listing that callers in the back-off get.
THEOREM CatalogStaysConsistent == CatalogSpec => []CatalogConsistent
<1>1. CatalogInv => CatalogTypeOK
  BY DEF CatalogInv, RefreshInv
<1> QED
  BY <1>1, CatalogInvariant, OneRefreshAlways, HandlesStayDecodable, PartialListingServed,
     PTL DEF CatalogConsistent

-----------------------------------------------------------------------------
(* Watch: what a client receives, for every log, every limit and any       *)
(* number of resumed watches.                                              *)

Increasing(s) == \A i, j \in DOMAIN s : i < j => s[i] < s[j]

\* its holds, in order, the changes after since up to upto, but for those in lost.
Gathered(its, upto, lost) ==
  /\ its \in Seq(Nat) /\ Increasing(its)
  /\ upto \in Nat /\ since <= upto /\ upto <= Len(log)
  /\ \A i \in DOMAIN its : its[i] \in since + 1 .. upto
  /\ \A v \in since + 1 .. upto : v \in lost \/ \E i \in DOMAIN its : its[i] = v

\* What the client has.
ClientInv ==
  /\ since \in Nat /\ since <= Len(log)
  /\ received \in Seq(Nat) /\ InOrder
  /\ \A i \in DOMAIN received : received[i] \in 1 .. since
  /\ MissedOnlyWhenTruncated

\* What an open call has: its version is that of the last change it has taken, so
\* nothing lies between the events of one result and those of the next.
CallInv ==
  \/ call = NoCall
  \/ /\ call \in OpenCall
     /\ call.last = call.pos
     /\ Gathered(call.items, call.pos, {})

WatchInv == log \in Seq(Sizes) /\ ClientInv /\ CallInv

\* A result that reaches the client adds what was gathered, or is a preview after
\* which the client lists anew.
LEMMA ResultKeepsInv ==
  ASSUME WatchInv, NEW its, NEW bytes, NEW last, NEW lost,
         Gathered(its, last, lost), Result(its, bytes, last, lost)
  PROVE  WatchInv'
<1>0. /\ since \in Nat /\ since <= Len(log) /\ Len(log) \in Nat
      /\ received \in Seq(Nat) /\ InOrder
      /\ \A i \in DOMAIN received : received[i] \in 1 .. since
      /\ Missed \subseteq cut
  BY DEF WatchInv, ClientInv, MissedOnlyWhenTruncated
<1>1. log' = log /\ call' = NoCall
  BY Zenon DEF Result
<1>2. CASE since' = last /\ received' = received \o its /\ cut' = cut \cup lost
  <2>1. /\ its \in Seq(Nat) /\ Increasing(its)
        /\ last \in Nat /\ since <= last /\ last <= Len(log)
        /\ \A i \in DOMAIN its : its[i] \in since + 1 .. last
        /\ \A v \in since + 1 .. last : v \in lost \/ \E i \in DOMAIN its : its[i] = v
    BY DEF Gathered
  <2>2. /\ received' \in Seq(Nat) /\ Len(received') = Len(received) + Len(its)
        /\ \A i \in 1 .. Len(received) : received'[i] = received[i]
        /\ \A i \in 1 .. Len(its) : received'[Len(received) + i] = its[i]
    BY <1>0, <1>2, <2>1
  <2>3. /\ DOMAIN received = 1 .. Len(received) /\ Len(received) \in Nat
        /\ DOMAIN its = 1 .. Len(its) /\ Len(its) \in Nat
        /\ DOMAIN received' = 1 .. Len(received) + Len(its)
    BY <1>0, <2>1, <2>2
  <2>4. \A i \in DOMAIN received' :
           \/ i \in DOMAIN received /\ received'[i] = received[i]
           \/ /\ i > Len(received) /\ i - Len(received) \in DOMAIN its
              /\ received'[i] = its[i - Len(received)]
    <3> SUFFICES ASSUME NEW i \in DOMAIN received', i \notin DOMAIN received
                 PROVE  /\ i > Len(received) /\ i - Len(received) \in DOMAIN its
                        /\ received'[i] = its[i - Len(received)]
      BY <2>2, <2>3, Zenon
    <3>1. i > Len(received) /\ i - Len(received) \in 1 .. Len(its) /\ i = Len(received) + (i - Len(received))
      BY <2>3
    <3> QED
      BY <2>2, <2>3, <3>1, Zenon
  <2>5. \A i \in DOMAIN received' : received'[i] \in 1 .. last
    BY <1>0, <2>1, <2>4
  <2>6. InOrder'
    <3> SUFFICES ASSUME NEW i \in DOMAIN received', NEW j \in DOMAIN received', i < j
                 PROVE  received'[i] < received'[j]
      BY DEF InOrder
    <3>1. i \in Nat /\ j \in Nat /\ Len(received) \in Nat
      BY <1>0, <2>2
    <3>2. CASE j \in DOMAIN received
      <4>1. i \in DOMAIN received
        BY <2>3, <3>1, <3>2
      <4>2. received'[i] = received[i] /\ received'[j] = received[j]
        BY <2>2, <2>3, <3>2, <4>1, Zenon
      <4>3. received[i] < received[j]
        BY <1>0, <3>2, <4>1 DEF InOrder
      <4> QED
        BY <4>2, <4>3
    <3>3. CASE i \in DOMAIN received /\ j \notin DOMAIN received
      <4>1. received'[i] \in 1 .. since
        BY <1>0, <2>2, <2>3, <3>3, Zenon
      <4>2. received'[j] \in since + 1 .. last
        BY <2>1, <2>4, <3>3
      <4> QED
        BY <1>0, <2>1, <4>1, <4>2
    <3>4. CASE i \notin DOMAIN received /\ j \notin DOMAIN received
      BY <2>1, <2>4, <3>1, <3>4 DEF Increasing
    <3> QED
      BY <1>0, <3>1, <3>2, <3>3, <3>4, Zenon
  <2>7. Missed' \subseteq cut'
    <3> SUFFICES ASSUME NEW v \in 1 .. last, \A i \in DOMAIN received' : received'[i] # v
                 PROVE  v \in cut \cup lost
      BY <1>2, Zenon DEF Missed
    <3>1. CASE v <= since
      <4>1. \A i \in DOMAIN received : received[i] # v
        BY <2>2, <2>3
      <4> QED
        BY <1>0, <3>1, <4>1 DEF Missed
    <3>2. CASE v > since
      <4>1. \A i \in DOMAIN its : its[i] # v
        <5>1. \A i \in 1 .. Len(its) : Len(received) + i \in DOMAIN received'
          BY <2>3
        <5> QED
          BY <2>2, <2>3, <5>1, Zenon
      <4> QED
        BY <1>0, <2>1, <3>2, <4>1
    <3> QED
      BY <1>0, <3>1, <3>2
  <2> QED
    BY <1>1, <1>2, <2>1, <2>2, <2>5, <2>6, <2>7, Zenon
    DEF WatchInv, ClientInv, CallInv, MissedOnlyWhenTruncated
<1>3. CASE since' = Len(log) /\ cut' = cut \cup (since + 1 .. Len(log)) /\ UNCHANGED received
  <2>1. Missed' \subseteq cut'
    BY <1>0, <1>3 DEF Missed
  <2> QED
    BY <1>0, <1>1, <1>3, <2>1
    DEF WatchInv, ClientInv, CallInv, InOrder, MissedOnlyWhenTruncated
<1> QED
  BY <1>2, <1>3 DEF Result

\* What is gathered stays so when the log grows.
LEMMA ChangeKeepsInv ==
  ASSUME WatchInv, NEW size \in Sizes, Change(size)
  PROVE  WatchInv'
<1>1. /\ log' \in Seq(Sizes) /\ Len(log') = Len(log) + 1 /\ Len(log) \in Nat
      /\ UNCHANGED <<call, since, received, cut>>
  BY DEF WatchInv, Change
<1>2. ClientInv'
  BY <1>1 DEF WatchInv, ClientInv, InOrder, MissedOnlyWhenTruncated, Missed
<1>3. ASSUME NEW its, NEW upto, Gathered(its, upto, {}) PROVE Gathered(its, upto, {})'
  BY <1>1, <1>3 DEF Gathered
<1> QED
  BY <1>1, <1>2, <1>3 DEF WatchInv, CallInv

\* An event of the watcher: last and the gathered changes advance together.
LEMMA TakeKeepsInv ==
  ASSUME WatchInv, call.open, NEW v \in Nat, NEW size \in Nat, NEW rv \in Nat, Take(v, size, rv),
         \/ v = call.pos + 1 /\ rv = v /\ call.pos < Len(log)
         \/ v = 0 /\ rv \in {0, call.pos}
  PROVE  WatchInv'
<1> DEFINE last == IF rv = 0 THEN call.last ELSE rv
           upto == IF v = 0 THEN call.pos ELSE v
<1>0. /\ call.pos \in Nat /\ call.count \in 0 .. MaxListItems - 1 /\ call.bytes \in 0 .. MaxOutputBytes
      /\ call.last = call.pos /\ Gathered(call.items, call.pos, {})
      /\ since \in Nat /\ Len(log) \in Nat
  <2>1. call # NoCall
    BY DEF NoCall
  <2>2. log \in Seq(Sizes) /\ since \in Nat
    BY DEF WatchInv, ClientInv
  <2>3. Len(log) \in Nat
    BY <2>2
  <2> QED
    BY <2>1, <2>2, <2>3, ZenonT(30) DEF WatchInv, CallInv, OpenCall
<1>1. last = upto /\ upto \in Nat
  BY <1>0, Zenon
<1>2. /\ call.items \in Seq(Nat) /\ Increasing(call.items)
      /\ since <= call.pos /\ call.pos <= Len(log)
      /\ \A i \in DOMAIN call.items : call.items[i] \in since + 1 .. call.pos
      /\ \A w \in since + 1 .. call.pos : \E i \in DOMAIN call.items : call.items[i] = w
  BY <1>0, Zenon DEF Gathered
<1>3. Gathered(call.items, upto, {v} \ {0})
  <2>1. CASE v = 0
    BY <1>0, <2>1, Zenon DEF Gathered
  <2>2. CASE v # 0
    <3>1. v = call.pos + 1 /\ upto = v /\ v <= Len(log) /\ call.pos \in Nat
      BY <1>0, <2>2
    <3>2. \A w \in since + 1 .. v : w = v \/ w \in since + 1 .. call.pos
      BY <1>0, <3>1
    <3>3. \A i \in DOMAIN call.items : call.items[i] \in since + 1 .. v
      BY <1>0, <1>2, <3>1
    <3>4. \A w \in since + 1 .. v : w \in {v} \ {0} \/ \E i \in DOMAIN call.items : call.items[i] = w
      BY <1>2, <2>2, <3>2, Zenon
    <3>5. upto = v /\ v \in Nat /\ since <= v /\ v <= Len(log)
      BY <1>0, <1>2, <3>1
    <3>6. Gathered(call.items, v, {v} \ {0})
      BY <1>2, <3>3, <3>4, <3>5, Zenon DEF Gathered
    <3> QED
      BY <3>5, <3>6
  <2> QED
    BY <2>1, <2>2, Zenon
<1>4. Gathered(Collected(v), upto, {})
  <2>1. CASE v = 0
    BY <1>0, <2>1 DEF Collected
  <2>2. CASE v # 0
    <3> DEFINE its == Append(call.items, v)
    <3>1. /\ v = call.pos + 1 /\ v <= Len(log) /\ Collected(v) = its /\ upto = v
      BY <1>0, <2>2 DEF Collected
    <3>2. /\ its \in Seq(Nat) /\ DOMAIN its = 1 .. Len(call.items) + 1 /\ Len(call.items) \in Nat
          /\ DOMAIN call.items = 1 .. Len(call.items)
          /\ \A i \in 1 .. Len(call.items) : its[i] = call.items[i]
          /\ its[Len(call.items) + 1] = v
      BY <1>2
    <3> HIDE DEF its
    <3>3. /\ \A i \in DOMAIN its : i \in 1 .. Len(call.items) \/ i = Len(call.items) + 1
          /\ \A i \in DOMAIN call.items : i \in DOMAIN its
          /\ Len(call.items) + 1 \in DOMAIN its
      BY <3>2
    <3>4. ASSUME NEW i \in DOMAIN its PROVE its[i] \in since + 1 .. v
      <4>1. CASE i \in 1 .. Len(call.items)
        <5>1. its[i] \in since + 1 .. call.pos
          BY <1>2, <3>2, <4>1, ZenonT(30)
        <5> QED
          BY <1>0, <3>1, <5>1
      <4>2. CASE i = Len(call.items) + 1
        <5>1. its[i] = v
          BY <3>2, <4>2, Zenon
        <5>2. v \in since + 1 .. v
          BY <1>0, <1>2, <3>1
        <5> QED
          BY <5>1, <5>2, Zenon
      <4> QED
        BY <3>3, <4>1, <4>2, Zenon
    <3>5. ASSUME NEW i \in DOMAIN its, NEW j \in DOMAIN its, i < j PROVE its[i] < its[j]
      <4>1. i \in 1 .. Len(call.items)
        BY <3>2, <3>5
      <4>2. CASE j \in 1 .. Len(call.items)
        <5>1. call.items[i] < call.items[j]
          BY <1>2, <3>2, <3>5, <4>1, <4>2, ZenonT(30) DEF Increasing
        <5> QED
          BY <3>2, <4>1, <4>2, <5>1, Zenon
      <4>3. CASE j = Len(call.items) + 1
        <5>1. its[i] \in since + 1 .. call.pos /\ its[j] = v
          BY <1>2, <3>2, <4>1, <4>3, ZenonT(30)
        <5> QED
          BY <1>0, <3>1, <5>1
      <4> QED
        BY <3>3, <4>2, <4>3, Zenon
    <3>6. ASSUME NEW w \in since + 1 .. v PROVE \E i \in DOMAIN its : its[i] = w
      <4>1. CASE w = v
        BY <3>2, <3>3, <4>1, ZenonT(30)
      <4>2. CASE w # v
        <5>1. w \in since + 1 .. call.pos
          BY <1>0, <3>1, <4>2
        <5>2. PICK i \in DOMAIN call.items : call.items[i] = w
          BY <1>2, <5>1
        <5> QED
          BY <3>2, <3>3, <5>2, Zenon
      <4> QED
        BY <4>1, <4>2
    <3>7. Increasing(its)
      BY <3>5, ZenonT(30) DEF Increasing
    <3>8. since <= v
      BY <1>0, <1>2, <3>1
    <3>9. Gathered(its, v, {})
      BY <3>1, <3>2, <3>4, <3>6, <3>7, <3>8, Zenon DEF Gathered
    <3> QED
      BY <3>1, <3>9
  <2> QED
    BY <2>1, <2>2
<1>5. CASE Result(call.items, call.bytes, last, {v} \ {0})
  BY <1>1, <1>3, <1>5, ResultKeepsInv, Zenon
<1>6. CASE Result(Collected(v), call.bytes + size, last, {})
  BY <1>1, <1>4, <1>6, ResultKeepsInv, Zenon
<1>7. CASE /\ call.bytes + size <= MaxOutputBytes /\ call.count + 1 < MaxListItems
           /\ Collect(v, size, last)
  <2>0. /\ call.bytes + size <= MaxOutputBytes /\ call.count + 1 < MaxListItems
        /\ call.count \in 0 .. MaxListItems - 1 /\ call.bytes \in 0 .. MaxOutputBytes
    BY <1>0, <1>7, Zenon
  <2>1. /\ call' = [open |-> TRUE, pos |-> upto, items |-> Collected(v), count |-> call.count + 1,
                    bytes |-> call.bytes + size, last |-> last]
        /\ UNCHANGED <<log, since, received, cut>>
    BY <1>7, Zenon DEF Collect
  <2>2. Collected(v) \in Seq(Nat)
    BY <1>4, Zenon DEF Gathered
  <2>3. Gathered(call.items, call.pos, {})'
    <3>1. call'.items = Collected(v) /\ call'.pos = upto /\ UNCHANGED <<log, since>>
      BY <2>1, Zenon
    <3> HIDE DEF upto
    <3> QED
      BY <1>4, <3>1, Zenon DEF Gathered
  <2>4. ClientInv'
    BY <2>1, Zenon DEF WatchInv, ClientInv, InOrder, MissedOnlyWhenTruncated, Missed
  <2>5. /\ call' \in OpenCall
        /\ call'.last = call'.pos
    <3>1. call.count + 1 \in 0 .. MaxListItems - 1 /\ call.bytes + size \in 0 .. MaxOutputBytes
      BY <2>0, WatchAssumption
    <3> HIDE DEF upto, last
    <3> QED
      BY <1>1, <2>1, <2>2, <3>1, Zenon DEF OpenCall
  <2> QED
    BY <2>1, <2>3, <2>4, <2>5, Zenon DEF WatchInv, CallInv
<1> QED
  BY <1>5, <1>6, <1>7, Zenon DEF Take

-----------------------------------------------------------------------------
(* The theorems.                                                           *)

\* Every step of watch and of the client keeps the invariant.
LEMMA WatchInvStep == WatchInv /\ [WatchNext]_watchVars => WatchInv'
<1> SUFFICES ASSUME WatchInv, [WatchNext]_watchVars PROVE WatchInv'
  OBVIOUS
<1>0. log \in Seq(Sizes) /\ Len(log) \in Nat /\ since \in Nat /\ since <= Len(log)
  BY DEF WatchInv, ClientInv
<1>1. ASSUME call.open
      PROVE  /\ call.pos \in Nat /\ call.last = call.pos /\ Gathered(call.items, call.last, {})
             /\ call.pos <= Len(log)
  <2>1. call # NoCall
    BY <1>1 DEF NoCall
  <2>2. call.pos \in Nat /\ call.last = call.pos /\ Gathered(call.items, call.pos, {})
    BY <2>1, ZenonT(30) DEF WatchInv, CallInv, OpenCall
  <2> QED
    BY <2>2 DEF Gathered
<1>2. CASE \E size \in Sizes : Change(size)
  BY <1>2, ChangeKeepsInv, Zenon
<1>3. CASE WatchBegin
  <2>1. /\ call' = [open |-> TRUE, pos |-> since, items |-> <<>>, count |-> 0, bytes |-> 0,
                    last |-> since]
        /\ UNCHANGED <<log, since, received, cut>>
    BY <1>3, Zenon DEF WatchBegin
  <2>2. Gathered(call.items, call.pos, {})'
    BY <1>0, <2>1 DEF Gathered, Increasing
  <2>3. ClientInv'
    BY <2>1, ZenonT(30) DEF WatchInv, ClientInv, InOrder, MissedOnlyWhenTruncated, Missed
  <2>4. /\ call' \in OpenCall
        /\ call'.last = call'.pos
    BY <1>0, <2>1, WatchAssumption DEF OpenCall
  <2> QED
    BY <1>0, <2>1, <2>2, <2>3, <2>4, Zenon DEF WatchInv, CallInv
<1>4. CASE TakeChange
  <2> DEFINE v == call.pos + 1
             size == log[v]
  <2>1. call.open /\ call.pos < Len(log) /\ Take(v, size, v)
    BY <1>4 DEF TakeChange
  <2>2. call.pos \in Nat
    BY <1>1, <2>1
  <2>3. v \in Nat /\ v \in 1 .. Len(log)
    BY <1>0, <2>1, <2>2
  <2>4. size \in Sizes
    BY <1>0, <2>3
  <2>5. v = call.pos + 1
    OBVIOUS
  <2> HIDE DEF v, size
  <2>6. size \in Nat
    BY <2>4, WatchAssumption
  <2> QED
    BY <2>1, <2>3, <2>5, <2>6, TakeKeepsInv, Zenon
<1>5. CASE TakeBookmark \/ TakeError
  <2>1. PICK size \in Sizes, rv \in {0, call.pos} : call.open /\ Take(0, size, rv)
    BY <1>5 DEF TakeBookmark, TakeError
  <2>2. size \in Nat /\ rv \in Nat
    BY <1>1, <2>1, WatchAssumption
  <2> QED
    BY <2>1, <2>2, TakeKeepsInv
<1>6. CASE WatchEnds \/ WatchEndsEmpty
  BY <1>1, <1>6, ResultKeepsInv, ZenonT(30) DEF WatchEnds, WatchEndsEmpty
<1>7. CASE WatchFails
  BY <1>7 DEF WatchFails, WatchInv, ClientInv, CallInv, InOrder, MissedOnlyWhenTruncated, Missed
<1>8. CASE UNCHANGED watchVars
  <2>1. UNCHANGED <<log, call, since, received, cut>>
    BY <1>8, Zenon DEF watchVars
  <2>2. ClientInv'
    BY <2>1, Zenon DEF WatchInv, ClientInv, InOrder, MissedOnlyWhenTruncated, Missed
  <2>3. CallInv'
    BY <2>1, Zenon DEF WatchInv, CallInv, Gathered
  <2> QED
    BY <1>0, <2>1, <2>2, <2>3 DEF WatchInv
<1> QED
  BY <1>2, <1>3, <1>4, <1>5, <1>6, <1>7, <1>8, Zenon DEF WatchNext

\* The invariant of watch and its client.
LEMMA WatchInvariant == WatchSpec => []WatchInv
<1>1. WatchInit => WatchInv
  BY DEF WatchInit, WatchInv, ClientInv, CallInv, InOrder, MissedOnlyWhenTruncated, Missed
<1> QED
  BY <1>1, WatchInvStep, PTL DEF WatchSpec

\* A client that resumes from each result receives the changes in order, none of
\* them twice, and misses only what a truncated result left out; no result grows
\* past the limits.
THEOREM WatchResumes == WatchSpec => []ResumesFaithfully
<1>1. WatchInv => ResumesFaithfully
  BY Zenon DEF WatchInv, ClientInv, CallInv, WatchTypeOK, ResumesFaithfully
<1> QED
  BY <1>1, WatchInvariant, PTL

-----------------------------------------------------------------------------
(* ReadOutput: what is hidden and what is projected, for every response,   *)
(* every list of field paths and every option.                             *)

\* The leaves of an object that the first n field paths lead to.
Reached(o, n) == {p \in DOMAIN o : \E j \in 1 .. n : Leads(input.paths[j], p)}

\* What the whole of fieldPaths makes of object i.
Projected(i) == Only(Items[i], Reached(Items[i], Len(input.paths)))

\* The loops have done what the objects and the paths they went through call for.
Unfinished(w) == Len(w.items) < Len(response.items)
NextItem(w) == Items[Len(w.items) + 1]
LoopInv(w) ==
  /\ ~Denied /\ ~TableWithPaths /\ input.paths # <<>>
  /\ w.items \in Seq({Projected(i) : i \in DOMAIN response.items})
  /\ Len(w.items) <= Len(response.items)
  /\ \A i \in 1 .. Len(w.items) : w.items[i] = Projected(i)
  /\ w.next \in 1 .. Len(input.paths) + 1
  /\ Unfinished(w) => w.out = Only(NextItem(w), Reached(NextItem(w), w.next - 1))
  /\ w.foundAny \in BOOLEAN
  /\ w.foundAny <=>
       \/ \E i \in 1 .. Len(w.items) : Reached(Items[i], Len(input.paths)) # {}
       \/ Unfinished(w) /\ Reached(NextItem(w), w.next - 1) # {}

ReadInv ==
  /\ response \in Responses /\ input \in Inputs
  /\ projection.open \in BOOLEAN
  /\ projection.open => output = NoOutput /\ LoopInv(projection)
  /\ SecretsStayHidden /\ ReadAsAsked

\* What lies below a path that lies below another one lies below that one.
LEMMA LeadsOn ==
  ASSUME NEW a \in Seq(FieldNames), NEW b \in Seq(FieldNames), NEW c \in Seq(FieldNames),
         Leads(a, b), Leads(b, c)
  PROVE  Leads(a, c)
  BY DEF Leads

\* A path that leads to one no longer than itself is that one.
LEMMA LeadsToItself ==
  ASSUME NEW a \in Seq(FieldNames), NEW b \in Seq(FieldNames), Leads(a, b), Len(b) <= Len(a)
  PROVE  a = b
  BY DEF Leads

\* Of two paths to the same leaf one leads to the other.
LEMMA LeadsEither ==
  ASSUME NEW a \in Seq(FieldNames), NEW b \in Seq(FieldNames), NEW c \in Seq(FieldNames),
         Leads(a, c), Leads(b, c), Len(a) <= Len(b)
  PROVE  Leads(a, b)
  BY DEF Leads

\* The path of a map on the way to a leaf.
LEMMA WayIs ==
  ASSUME NEW p \in Seq(FieldNames), NEW n \in 1 .. Len(p)
  PROVE  /\ SubSeq(p, 1, n) \in Seq(FieldNames) /\ Len(SubSeq(p, 1, n)) = n
         /\ \A k \in 1 .. n : SubSeq(p, 1, n)[k] = p[k]
         /\ Leads(SubSeq(p, 1, n), p)
  BY DEF Leads

\* RedactMaps makes an object of an object, in which every value of the maps is
\* one redacted leaf.
LEMMA RedactedIs ==
  ASSUME NEW o, IsObject(o), NEW maps \in SUBSET Seq(FieldNames),
         \A a, b \in maps : Leads(a, b) => a = b
  PROVE  /\ IsObject(RedactMaps(o, maps))
         /\ \A p \in DOMAIN RedactMaps(o, maps) : \A a \in maps :
              Leads(a, p) /\ p # a => Len(p) = Len(a) + 1 /\ RedactMaps(o, maps)[p] = Redacted
<1> DEFINE Entry(p, a) == SubSeq(p, 1, Len(a) + 1)
           entries == UNION {{Entry(p, a) : p \in At(o, a) \ {a}} : a \in maps}
           others == {p \in DOMAIN o : \A a \in maps : Leads(a, p) => p = a}
           new == [p \in others \cup entries |-> IF p \in entries THEN Redacted ELSE o[p]]
<1>1. RedactMaps(o, maps) = new
  BY Zenon DEF RedactMaps
<1>2. DOMAIN new = others \cup entries /\ \A p \in entries : new[p] = Redacted
  BY Zenon
<1>3. \A e \in entries : \E a \in maps : \E p \in DOMAIN o :
        /\ e \in Seq(FieldNames) /\ Len(e) = Len(a) + 1 /\ Leads(a, e) /\ Leads(e, p)
        /\ Leads(a, p) /\ p # a
  <2> TAKE e \in entries
  <2>0. PICK a \in maps, p \in DOMAIN o : p \in At(o, a) \ {a} /\ e = Entry(p, a)
    BY DEF At
  <2>1. p \in DOMAIN o /\ Leads(a, p) /\ p # a /\ p \in Seq(FieldNames) /\ a \in Seq(FieldNames)
    BY <2>0, Zenon DEF IsObject, At
  <2>2. Len(a) + 1 \in 1 .. Len(p)
    BY <2>1, LeadsToItself DEF Leads
  <2>3. /\ Entry(p, a) \in Seq(FieldNames) /\ Len(Entry(p, a)) = Len(a) + 1
        /\ Leads(Entry(p, a), p)
    BY <2>1, <2>2, WayIs
  <2>4. e \in Seq(FieldNames) /\ Len(e) = Len(a) + 1 /\ Leads(e, p)
    BY <2>0, <2>3, Zenon
  <2>5. Leads(a, e)
    BY <2>1, <2>4, LeadsEither
  <2> QED
    BY <2>1, <2>4, <2>5, Zenon
<1>4. \A p \in others : p \in DOMAIN o /\ p \in Seq(FieldNames) /\ \A a \in maps : Leads(a, p) => p = a
  BY DEF IsObject
<1> HIDE DEF entries, others, new
<1>5. \A p, q \in others \cup entries : Leads(p, q) => p = q
  <2> SUFFICES ASSUME NEW p \in others \cup entries, NEW q \in others \cup entries, Leads(p, q)
               PROVE  p = q
    OBVIOUS
  <2>1. CASE p \in others /\ q \in others
    BY <1>4, <2>1 DEF IsObject
  <2>2. CASE p \in others /\ q \in entries
    <3>1. PICK a \in maps, l \in DOMAIN o :
            q \in Seq(FieldNames) /\ Leads(a, q) /\ Leads(q, l) /\ Leads(a, l) /\ l # a
      BY <1>3, <2>2, Zenon
    <3>2. p \in DOMAIN o /\ p \in Seq(FieldNames) /\ l \in Seq(FieldNames) /\ (Leads(a, p) => p = a)
      BY <1>4, <2>2, Zenon DEF IsObject
    <3>3. Leads(p, l)
      BY <3>1, <3>2, LeadsOn
    <3>4. p = l
      BY <3>2, <3>3 DEF IsObject
    <3> QED
      BY <3>1, <3>2, <3>4
  <2>3. CASE p \in entries /\ q \in others
    <3>1. PICK a \in maps : p \in Seq(FieldNames) /\ Len(p) = Len(a) + 1 /\ Leads(a, p)
      BY <1>3, <2>3, Zenon
    <3>2. q \in Seq(FieldNames) /\ (Leads(a, q) => q = a) /\ a \in Seq(FieldNames)
      BY <1>4, <2>3
    <3>3. q = a
      BY <3>1, <3>2, LeadsOn
    <3> QED
      BY <3>1, <3>2, <3>3 DEF Leads
  <2>4. CASE p \in entries /\ q \in entries
    <3>1. PICK a \in maps : p \in Seq(FieldNames) /\ Len(p) = Len(a) + 1 /\ Leads(a, p)
      BY <1>3, <2>4, Zenon
    <3>2. PICK b \in maps : q \in Seq(FieldNames) /\ Len(q) = Len(b) + 1 /\ Leads(b, q)
      BY <1>3, <2>4, Zenon
    <3>3. a \in Seq(FieldNames) /\ b \in Seq(FieldNames) /\ Leads(a, q)
      BY <3>1, <3>2, LeadsOn, Zenon
    <3>4. Leads(a, b) \/ Leads(b, a)
      BY <3>2, <3>3, LeadsEither
    <3>5. a = b
      BY <3>4
    <3> QED
      BY <3>1, <3>2, <3>5, LeadsToItself
  <2> QED
    BY <2>1, <2>2, <2>3, <2>4, Zenon
<1>6. \A p \in others \cup entries : p \in Seq(FieldNames)
  BY <1>3, <1>4, Zenon
<1>7. ASSUME NEW p \in others \cup entries, NEW a \in maps, Leads(a, p), p # a
      PROVE  Len(p) = Len(a) + 1 /\ p \in entries
  <2>1. p \in entries
    BY <1>4, <1>7, Zenon
  <2>2. PICK b \in maps : p \in Seq(FieldNames) /\ Len(p) = Len(b) + 1 /\ Leads(b, p)
    BY <1>3, <2>1, Zenon
  <2>3. a \in Seq(FieldNames) /\ b \in Seq(FieldNames)
    OBVIOUS
  <2>4. Leads(a, b) \/ Leads(b, a)
    BY <1>7, <2>2, <2>3, LeadsEither
  <2> QED
    BY <2>1, <2>2, <2>4
<1> QED
  BY <1>1, <1>2, <1>5, <1>6, <1>7, Zenon DEF IsObject

\* A map that cleanKubernetesValue empties stands before a leaf; all other leaves
\* stay, with their values.
LEMMA CleanedIs ==
  ASSUME NEW o, IsObject(o)
  PROVE  /\ IsObject(cleanKubernetesValue(o))
         /\ \A p \in DOMAIN cleanKubernetesValue(o) :
              \/ p \in DOMAIN o /\ cleanKubernetesValue(o)[p] = o[p]
              \/ p \in Seq(FieldNames) /\ \E q \in DOMAIN o : Leads(p, q) /\ Len(p) < Len(q)
<1> DEFINE left == {p \in DOMAIN o : ~Omitted(p)}
           maps == {a \in Trimmed(o) : ~Omitted(a)}
           empty == {a \in maps : \A p \in left \cup maps : Leads(a, p) => p = a}
           new == [p \in left \cup empty |-> IF p \in left THEN o[p] ELSE EmptyMap]
<1>1. cleanKubernetesValue(o) = new
  BY Zenon DEF cleanKubernetesValue
<1>2. DOMAIN new = left \cup empty /\ \A p \in left : p \in DOMAIN o /\ new[p] = o[p]
  BY ZenonT(30)
<1>3. \A a \in maps : a \in Seq(FieldNames) /\ \E q \in DOMAIN o : Leads(a, q) /\ Len(a) < Len(q)
  <2> TAKE a \in maps
  <2>1. PICK q \in DOMAIN o : \E n \in 1 .. Len(q) - 1 : a = SubSeq(q, 1, n)
    BY DEF Trimmed
  <2>2. PICK n \in 1 .. Len(q) - 1 : a = SubSeq(q, 1, n)
    BY <2>1
  <2>3. q \in Seq(FieldNames) /\ n \in 1 .. Len(q) /\ n < Len(q)
    BY DEF IsObject
  <2> QED
    BY <2>2, <2>3, WayIs
<1>4. \A a \in empty : a \in maps /\ \A p \in left \cup maps : Leads(a, p) => p = a
  BY Zenon
<1> HIDE DEF left, maps, empty, new
<1>5. \A p \in left \cup empty : p \in Seq(FieldNames)
  BY <1>2, <1>3, <1>4 DEF IsObject
<1>6. ASSUME NEW p \in left \cup empty, NEW q \in left \cup empty, Leads(p, q)
      PROVE  p = q
  <2>1. CASE p \in empty
    BY <1>4, <1>6, <2>1, Zenon
  <2>2. CASE p \in left /\ q \in left
    BY <1>2, <1>6, <2>2, Zenon DEF IsObject
  <2>3. CASE p \in left /\ q \in empty
    <3>1. PICK l \in DOMAIN o : q \in Seq(FieldNames) /\ Leads(q, l) /\ Len(q) < Len(l)
      BY <1>3, <1>4, <2>3, Zenon
    <3>2. p \in DOMAIN o /\ p \in Seq(FieldNames) /\ l \in Seq(FieldNames)
      BY <1>2, <2>3 DEF IsObject
    <3>3. p = l
      BY <1>6, <3>1, <3>2, LeadsOn, Zenon DEF IsObject
    <3> QED
      BY <1>6, <3>1, <3>2, <3>3 DEF Leads
  <2> QED
    BY <2>1, <2>2, <2>3, Zenon
<1> QED
  BY <1>1, <1>2, <1>3, <1>4, <1>5, <1>6, Zenon DEF IsObject

\* The maps redactSecret redacts lie apart.
LEMMA SecretMapsAre ==
  /\ SecretMaps \in SUBSET Seq(FieldNames)
  /\ \A a, b \in SecretMaps : Leads(a, b) => a = b
<1>1. /\ "data" \in FieldNames /\ "stringData" \in FieldNames /\ "binaryData" \in FieldNames
      /\ "metadata" \in FieldNames /\ "annotations" \in FieldNames
  BY ReadAssumption
<1>2. \A f \in FieldNames : <<f>> \in Seq(FieldNames) /\ Len(<<f>>) = 1 /\ <<f>>[1] = f
  OBVIOUS
<1>3. \A f, g \in FieldNames :
        <<f, g>> \in Seq(FieldNames) /\ Len(<<f, g>>) = 2 /\ <<f, g>>[1] = f
  OBVIOUS
<1>4. /\ <<"data">>[1] = "data" /\ <<"stringData">>[1] = "stringData"
      /\ <<"binaryData">>[1] = "binaryData" /\ <<"metadata", "annotations">>[1] = "metadata"
  OBVIOUS
<1>5. \A a \in SecretMaps : a \in Seq(FieldNames) /\ 1 \in 1 .. Len(a)
  <2>1. \A a \in SecretMaps : a \in Seq(FieldNames) /\ (Len(a) = 1 \/ Len(a) = 2)
    BY <1>1, <1>2, <1>3, ZenonT(30) DEF SecretMaps
  <2> QED
    BY <2>1
<1>6. \A a, b \in SecretMaps : a[1] = b[1] => a = b
  BY <1>4 DEF SecretMaps
<1> QED
  BY <1>5, <1>6, Zenon DEF Leads

\* Every value and every annotation of a Secret is in one of them.
LEMMA SecretValueIn ==
  ASSUME NEW p \in Seq(FieldNames), IsSecretValue(p)
  PROVE  \E a \in SecretMaps : Leads(a, p) /\ Len(a) < Len(p)
  BY DEF SecretMaps, IsSecretValue, Leads

\* What redactSecret leaves of a Secret.
LEMMA SecretRedacted ==
  ASSUME NEW o, IsObject(o)
  PROVE  /\ IsObject(redactSecret(o))
         /\ \A p \in DOMAIN redactSecret(o) : \A a \in SecretMaps :
              Leads(a, p) /\ Len(a) < Len(p) =>
                Len(p) = Len(a) + 1 /\ redactSecret(o)[p] = Redacted
<1>1. redactSecret(o) = RedactMaps(o, SecretMaps)
  BY DEF redactSecret
<1>2. /\ IsObject(redactSecret(o))
      /\ \A p \in DOMAIN redactSecret(o) : \A a \in SecretMaps :
           Leads(a, p) /\ p # a => Len(p) = Len(a) + 1 /\ redactSecret(o)[p] = Redacted
  BY <1>1, SecretMapsAre, RedactedIs
<1>3. \A p, a : Len(a) < Len(p) => p # a
  BY SecretMapsAre
<1> QED
  BY <1>2, <1>3, Zenon

\* Of a Secret under policy Redact, what is shaped shows no value and no
\* annotation: a map that cleanKubernetesValue empties is none of them.
LEMMA ItemsAre ==
  ASSUME response \in Responses, NEW i \in DOMAIN response.items
  PROVE  /\ Items[i] = cleanKubernetesValue(redactResult(response.items[i]))
         /\ IsObject(Items[i])
         /\ input.resource = "secrets" /\ input.policy = "Redact" =>
              \A p \in DOMAIN Items[i] : IsSecretValue(p) => Items[i][p] = Redacted
<1> DEFINE o == response.items[i]
           r == redactResult(o)
           s == IF input.resource = "secrets" /\ input.policy = "Redact" THEN redactSecret(o) ELSE o
<1>1. Items[i] = cleanKubernetesValue(r)
  BY DEF Items
<1>2. IsObject(o)
  BY ReadAssumption
<1>3. IsObject(s)
  BY <1>2, SecretRedacted
<1>4. DOMAIN r = DOMAIN s /\ \A p \in DOMAIN s : r[p] = s[p] \/ r[p] = Redacted
  BY Zenon DEF redactResult, redactSensitiveAnnotations
<1>5. IsObject(r)
  BY <1>3, <1>4, Zenon DEF IsObject
<1>6. IsObject(Items[i])
  BY <1>1, <1>5, CleanedIs, Zenon
<1>7. ASSUME input.resource = "secrets", input.policy = "Redact",
             NEW p \in DOMAIN Items[i], IsSecretValue(p)
      PROVE  Items[i][p] = Redacted
  <2>1. s = redactSecret(o)
    BY <1>7, Zenon
  <2>2. \A q \in DOMAIN s : \A a \in SecretMaps :
          Leads(a, q) /\ Len(a) < Len(q) => Len(q) = Len(a) + 1 /\ s[q] = Redacted
    BY <1>2, <2>1, SecretRedacted, ZenonT(30)
  <2> HIDE DEF s, r
  <2>3. p \in Seq(FieldNames)
    BY <1>6, Zenon DEF IsObject
  <2>4. PICK a \in SecretMaps : a \in Seq(FieldNames) /\ Leads(a, p) /\ Len(a) < Len(p)
    BY <1>7, <2>3, SecretValueIn, SecretMapsAre, Zenon
  <2>5. CASE p \in DOMAIN r /\ Items[i][p] = r[p]
    BY <1>4, <2>2, <2>4, <2>5, ZenonT(30)
  <2>6. CASE \E q \in DOMAIN r : Leads(p, q) /\ Len(p) < Len(q)
    <3>1. PICK q \in DOMAIN r : Leads(p, q) /\ Len(p) < Len(q)
      BY <2>6, Zenon
    <3>2. q \in Seq(FieldNames) /\ q \in DOMAIN s
      BY <1>4, <1>5, Zenon DEF IsObject
    <3>3. Leads(a, q) /\ Len(a) < Len(q)
      BY <2>3, <2>4, <3>1, <3>2, LeadsOn
    <3>4. Len(q) = Len(a) + 1
      BY <2>2, <3>2, <3>3, Zenon
    <3> QED
      BY <2>3, <2>4, <3>1, <3>2, <3>4
  <2> QED
    BY <1>1, <1>5, <2>5, <2>6, CleanedIs, Zenon
<1> QED
  BY <1>1, <1>6, <1>7, Zenon

\* setValueAtPath adds what the path leads to: nothing that is there stands in its way.
LEMMA ValueSet ==
  ASSUME NEW o, IsObject(o), NEW S \in SUBSET DOMAIN o, NEW path \in Seq(FieldNames),
         At(o, path) # {}
  PROVE  setValueAtPath(Only(o, S), o, path) = Only(o, S \cup At(o, path))
<1> DEFINE out == Only(o, S)
           kept == {p \in DOMAIN out : ~Leads(path, p) /\ ~Leads(p, path)}
<1>1. DOMAIN out = S /\ \A p \in S : out[p] = o[p]
  BY DEF Only
<1>2. \A p \in S : Leads(p, path) => p \in At(o, path)
  <2> SUFFICES ASSUME NEW p \in S, Leads(p, path)
               PROVE  p \in At(o, path)
    OBVIOUS
  <2>1. PICK q \in DOMAIN o : Leads(path, q)
    BY DEF At
  <2>2. p \in DOMAIN o /\ p \in Seq(FieldNames) /\ q \in Seq(FieldNames)
    BY DEF IsObject
  <2>3. p = q
    BY <2>1, <2>2, LeadsOn DEF IsObject
  <2> QED
    BY <2>1, <2>2, <2>3 DEF At
<1>3. kept \cup At(o, path) = S \cup At(o, path)
  BY <1>1, <1>2, Zenon DEF At
<1>4. setValueAtPath(out, o, path) =
        [p \in kept \cup At(o, path) |-> IF p \in At(o, path) THEN o[p] ELSE out[p]]
  BY Zenon DEF setValueAtPath
<1>5. \A p \in S \cup At(o, path) : (IF p \in At(o, path) THEN o[p] ELSE out[p]) = o[p]
  BY <1>1, Zenon
<1> HIDE DEF kept, out
<1>6. setValueAtPath(out, o, path) = [p \in S \cup At(o, path) |-> o[p]]
  BY <1>3, <1>4, <1>5, Zenon
<1> QED
  BY <1>6 DEF Only, out

-----------------------------------------------------------------------------
(* The steps.                                                              *)

\* Every outcome that shows part of what is shaped hides what must be hidden.
LEMMA PartHidden ==
  ASSUME response \in Responses, input \in Inputs, ~Denied, NEW shown,
         DOMAIN shown \subseteq DOMAIN response.items,
         \A i \in DOMAIN shown : \E S \in SUBSET DOMAIN Items[i] : shown[i] = Only(Items[i], S),
         input.resource = "secrets", input.policy # "Allow"
  PROVE  \A i \in DOMAIN shown : \A p \in DOMAIN shown[i] :
           IsSecretValue(p) => shown[i][p] = Redacted
<1>1. input.policy = "Redact"
  BY Zenon DEF Inputs, Denied
<1> SUFFICES ASSUME NEW i \in DOMAIN shown, NEW p \in DOMAIN shown[i], IsSecretValue(p)
             PROVE  shown[i][p] = Redacted
  BY ZenonT(30)
<1>2. PICK S \in SUBSET DOMAIN Items[i] : shown[i] = Only(Items[i], S)
  OBVIOUS
<1>3. p \in DOMAIN Items[i] /\ shown[i][p] = Items[i][p]
  BY <1>2, ZenonT(30) DEF Only
<1> QED
  BY <1>1, <1>3, ItemsAre, Zenon

\* Objects and their places.
LEMMA ItemsPlaced ==
  ASSUME response \in Responses, input \in Inputs
  PROVE  /\ Len(response.items) \in Nat /\ DOMAIN response.items = 1 .. Len(response.items)
         /\ DOMAIN Items = 1 .. Len(response.items)
         /\ response.items = <<>> <=> Len(response.items) = 0
         /\ input.paths \in Seq(Seq(FieldNames))
<1>1. Len(response.items) \in Nat /\ DOMAIN response.items = 1 .. Len(response.items)
  BY ReadAssumption, Zenon
<1>2. DOMAIN Items = 1 .. Len(response.items)
  BY <1>1 DEF Items
<1>3. input.paths \in Seq(Seq(FieldNames))
  BY ReadAssumption, Zenon DEF Inputs
<1>4. response.items = <<>> => Len(response.items) = 0
  OBVIOUS
<1> QED
  BY <1>1, <1>2, <1>3, <1>4

\* The paging fields stay in every list's metadata.
LEMMA PagingStays ==
  ASSUME NEW m, m = response.meta \/ (response.list /\ m = listEnvelope(response.meta))
  PROVE  \A k \in DOMAIN response.meta \cap {"continue", "resourceVersion"} :
           response.meta[k] # "" => k \in DOMAIN m /\ m[k] = response.meta[k]
  BY Zenon DEF listEnvelope, Only

\* No outcome and a refusal show nothing.
LEMMA NothingShown ==
  ASSUME ReadInv, UNCHANGED <<response, input>>,
         \/ output' = NoOutput
         \/ /\ TableWithPaths \/ Denied
            /\ output' = Error("invalid_input") \/ output' = Error("sensitive_read_denied")
  PROVE  SecretsStayHidden' /\ ReadAsAsked'
<1>1. output'.status # "ok" /\ output'.status # "field_path_not_found"
  BY DEF NoOutput, Error
<1>2. output' # NoOutput => TableWithPaths \/ Denied
  BY Zenon
<1>3. TableWithPaths' = TableWithPaths /\ Denied' = Denied
  BY Zenon DEF TableWithPaths, Mode, Denied
<1> QED
  BY <1>1, <1>2, <1>3, Zenon DEF SecretsStayHidden, ReadAsAsked, ProjectionExact, PagingKept, Given

\* A request that is refused shows nothing.
LEMMA RefuseStep == ReadInv /\ Refuse => ReadInv'
<1> SUFFICES ASSUME ReadInv, Refuse
             PROVE  ReadInv'
  OBVIOUS
<1>1. /\ ~projection.open /\ UNCHANGED <<response, input, projection>> /\ (TableWithPaths \/ Denied)
      /\ output' = Error("invalid_input") \/ output' = Error("sensitive_read_denied")
  BY Zenon DEF Refuse, Begins
<1>2. SecretsStayHidden' /\ ReadAsAsked'
  BY <1>1, NothingShown, Zenon
<1> QED
  BY <1>1, <1>2, Zenon DEF ReadInv

\* The next request starts without an outcome.
LEMMA AgainStep == ReadInv /\ ReadAgain => ReadInv'
<1> SUFFICES ASSUME ReadInv, ReadAgain
             PROVE  ReadInv'
  OBVIOUS
<1>1. ~projection.open /\ UNCHANGED <<response, input, projection>> /\ output' = NoOutput
  BY Zenon DEF ReadAgain, ReadInv
<1>2. SecretsStayHidden' /\ ReadAsAsked'
  BY <1>1, NothingShown, Zenon
<1> QED
  BY <1>1, <1>2, Zenon DEF ReadInv

\* Without fieldPaths: the objects, or the part of them that is in a summary.
LEMMA ShapeStep == ReadInv /\ shapeReadOutput => ReadInv'
<1> SUFFICES ASSUME ReadInv, shapeReadOutput
             PROVE  ReadInv'
  OBVIOUS
<1>1. ~projection.open /\ UNCHANGED <<response, input, projection>> /\ ~Denied /\ input.paths = <<>>
  BY Zenon DEF shapeReadOutput, Begins
<1>2. response \in Responses /\ input \in Inputs
  BY Zenon DEF ReadInv
<1>3. /\ DOMAIN output'.items \subseteq DOMAIN response.items
      /\ \A i \in DOMAIN output'.items :
           \E S \in SUBSET DOMAIN Items[i] : output'.items[i] = Only(Items[i], S)
      /\ output'.meta = response.meta \/ (response.list /\ output'.meta = listEnvelope(response.meta))
      /\ output'.status = "ok"
  <2>1. DOMAIN Items = DOMAIN response.items
    BY Zenon DEF Items
  <2>2. CASE Mode = "full"
    <3>1. output' = [status |-> "ok", items |-> Items, meta |-> response.meta]
      BY <2>2, Zenon DEF shapeReadOutput
    <3>2. \A i \in DOMAIN Items : Items[i] = Only(Items[i], DOMAIN Items[i])
      BY Zenon DEF Items, cleanKubernetesValue, Only
    <3> QED
      BY <2>1, <3>1, <3>2, Zenon
  <2>3. CASE Mode # "full"
    <3> DEFINE parts == [i \in DOMAIN Items |-> summarizeKubernetesObject(Items[i])]
    <3>1. output' = Shaped(parts)
      BY <2>3, Zenon DEF shapeReadOutput
    <3>2. /\ output'.status = "ok" /\ output'.items = parts
          /\ output'.meta = IF response.list THEN listEnvelope(response.meta) ELSE response.meta
      BY <3>1, Zenon DEF Shaped
    <3>3. \A i \in DOMAIN Items : parts[i] = Only(Items[i], DOMAIN Items[i] \cap SummaryPaths)
      BY Zenon DEF summarizeKubernetesObject
    <3> QED
      BY <2>1, <3>2, <3>3, Zenon
  <2> QED
    BY <2>2, <2>3, Zenon
<1>4. SecretsStayHidden'
  BY <1>1, <1>2, <1>3, PartHidden, Zenon DEF SecretsStayHidden
<1>5. PagingKept'
  BY <1>1, <1>3, PagingStays, Zenon DEF PagingKept
<1>6. ProjectionExact'
  BY <1>1, Zenon DEF ProjectionExact
<1> QED
  BY <1>1, <1>4, <1>5, <1>6, Zenon DEF ReadInv, ReadAsAsked

\* What is shaped depends on nothing but the request and the response.
LEMMA SameItems ==
  ASSUME UNCHANGED <<response, input>>
  PROVE  Items' = Items /\ Denied' = Denied /\ TableWithPaths' = TableWithPaths
<1>1. \A p : Omitted(p)' = Omitted(p)
  BY Zenon DEF Omitted, Omits
<1>2. \A o : Trimmed(o)' = Trimmed(o)
  BY DEF Trimmed, Omits
<1>3. \A o : cleanKubernetesValue(o)' = cleanKubernetesValue(o)
  BY <1>1, <1>2, Zenon DEF cleanKubernetesValue
<1>4. \A o : redactResult(o)' = redactResult(o)
  BY Zenon DEF redactResult
<1>5. Items' = Items
  BY <1>3, <1>4, Zenon DEF Items
<1>6. Denied' = Denied /\ TableWithPaths' = TableWithPaths
  BY Zenon DEF Denied, TableWithPaths, Mode
<1> QED
  BY <1>5, <1>6, Zenon

\* Nothing but a step of the loops changes what is said of them.
LEMMA SameRequest ==
  ASSUME UNCHANGED <<response, input>>
  PROVE  LoopInv(projection)' <=> LoopInv(projection')
<1>1. Items' = Items /\ Denied' = Denied /\ TableWithPaths' = TableWithPaths
  BY SameItems, Zenon
<1>2. \A o, n : Reached(o, n)' = Reached(o, n)
  BY Zenon DEF Reached
<1>3. \A i : Projected(i)' = Projected(i)
  BY <1>1, <1>2, Zenon DEF Projected
<1>4. /\ Unfinished(projection)' = Unfinished(projection')
      /\ NextItem(projection)' = NextItem(projection')
  BY <1>1, Zenon DEF Unfinished, NextItem
<1> QED
  BY <1>1, <1>2, <1>3, <1>4, Zenon DEF LoopInv

\* The length of what projectKubernetesResponse has projected is a number ...
LEMMA ItemsLength == \A S : \A s \in Seq(S) : Len(s) \in Nat
  OBVIOUS

\* ... and while it is less than that of the response there is a next object.
LEMMA NextWithin == \A n, m \in Nat : n < m => n + 1 \in 1 .. m
  OBVIOUS

\* The path projectObject takes is one of those requested.
LEMMA PathWithin ==
  \A S : \A s \in Seq(S) : \A n \in 1 .. Len(s) + 1 : \A m : n <= Len(s) /\ m = n + 1 =>
    /\ n - 1 \in Nat /\ (n - 1) + 1 = n /\ m - 1 = (n - 1) + 1
    /\ m \in 1 .. Len(s) + 1 /\ s[n] \in S
  OBVIOUS

\* No path leads nowhere, and one more path leads to what is at it.
LEMMA ReachedIs ==
  ASSUME NEW o
  PROVE  /\ Reached(o, 0) = {} /\ Only(o, {}) = <<>>
         /\ \A n \in Nat : Reached(o, n + 1) = Reached(o, n) \cup At(o, input.paths[n + 1])
<1>1. Reached(o, 0) = {}
  BY DEF Reached
<1>2. Only(o, {}) = <<>>
  BY DEF Only
<1>3. ASSUME NEW n \in Nat
      PROVE  Reached(o, n + 1) = Reached(o, n) \cup At(o, input.paths[n + 1])
  <2>1. 1 .. n + 1 = (1 .. n) \cup {n + 1}
    OBVIOUS
  <2> QED
    BY <2>1, Zenon DEF Reached, At
<1> QED
  BY <1>1, <1>2, <1>3, Zenon

\* The loops of projectKubernetesResponse start with nothing projected.
LEMMA BeginProjection == ReadInv /\ projectKubernetesResponse => ReadInv'
<1> SUFFICES ASSUME ReadInv, projectKubernetesResponse
             PROVE  ReadInv'
  OBVIOUS
<1> DEFINE w == Loops(<<>>, <<>>, 1, FALSE)
<1>1. /\ UNCHANGED <<response, input>> /\ output' = NoOutput /\ projection' = w
      /\ ~Denied /\ ~TableWithPaths /\ input.paths # <<>>
  BY Zenon DEF projectKubernetesResponse, Begins
<1>2. /\ Len(response.items) \in Nat /\ input.paths \in Seq(Seq(FieldNames))
  BY ItemsPlaced, Zenon DEF ReadInv
<1>3. /\ w.open = TRUE /\ w.items = <<>> /\ w.out = <<>> /\ w.next = 1 /\ w.foundAny = FALSE
  BY Zenon DEF Loops
<1> HIDE DEF w
<1>4. /\ Len(<<>>) = 0 /\ <<>> \in Seq({Projected(i) : i \in DOMAIN response.items})
      /\ 1 .. 0 = {} /\ 1 - 1 = 0
  OBVIOUS
<1>5. 0 <= Len(response.items) /\ 1 \in 1 .. Len(input.paths) + 1
  BY <1>2
<1>6. Unfinished(w) => w.out = Only(NextItem(w), Reached(NextItem(w), w.next - 1))
  BY <1>3, <1>4, ReachedIs, Zenon
<1>7. ~(Reached(NextItem(w), w.next - 1) # {})
  BY <1>3, <1>4, ReachedIs, Zenon
<1>8. LoopInv(w)
  BY <1>1, <1>3, <1>4, <1>5, <1>6, <1>7, Zenon DEF LoopInv
<1>9. SecretsStayHidden' /\ ReadAsAsked'
  BY <1>1, NothingShown, Zenon
<1> QED
  BY <1>1, <1>3, <1>8, <1>9, SameRequest, Zenon DEF ReadInv

\* One path of projectObject: the object under construction has what it leads to as well.
LEMMA PathStep == ReadInv /\ projectObject => ReadInv'
<1> SUFFICES ASSUME ReadInv, projectObject
             PROVE  ReadInv'
  OBVIOUS
<1> DEFINE w == projection
           o == NextItem(w)
           path == input.paths[w.next]
           hit == At(o, path) # {}
           n == w.next - 1
<1>1. /\ w.open /\ Unfinished(w) /\ w.next <= Len(input.paths)
      /\ w' = Loops(w.items, IF hit THEN setValueAtPath(w.out, o, path) ELSE w.out,
                    w.next + 1, w.foundAny \/ hit)
      /\ UNCHANGED <<response, input>> /\ output' = output
  BY Zenon DEF projectObject, Projecting, Current, Unfinished, NextItem
<1>2. /\ LoopInv(w) /\ output = NoOutput
      /\ Len(response.items) \in Nat /\ DOMAIN response.items = 1 .. Len(response.items)
      /\ input.paths \in Seq(Seq(FieldNames))
  BY <1>1, ItemsPlaced, Zenon DEF ReadInv
<1>3. /\ w.next \in 1 .. Len(input.paths) + 1 /\ w.out = Only(o, Reached(o, n))
      /\ w.foundAny \in BOOLEAN /\ Len(w.items) \in Nat
  <2>1. Len(w.items) \in Nat
    BY <1>2, ItemsLength, Zenon DEF LoopInv
  <2> QED
    BY <1>1, <1>2, <2>1, Zenon DEF LoopInv
<1>4. /\ w'.open = TRUE /\ w'.items = w.items
      /\ w'.out = IF hit THEN setValueAtPath(w.out, o, path) ELSE w.out
      /\ w'.next = w.next + 1 /\ w'.foundAny = (w.foundAny \/ hit)
  BY <1>1, Zenon DEF Loops
<1>5. /\ n \in Nat /\ n + 1 = w.next /\ w'.next - 1 = n + 1
      /\ w'.next \in 1 .. Len(input.paths) + 1 /\ path \in Seq(FieldNames)
  <2>1. /\ w.next \in 1 .. Len(input.paths) + 1 /\ w.next <= Len(input.paths)
        /\ w'.next = w.next + 1 /\ input.paths \in Seq(Seq(FieldNames))
    BY <1>1, <1>2, <1>3, <1>4, Zenon
  <2> QED
    BY <2>1, PathWithin, Zenon
<1>6. Reached(o, n + 1) = Reached(o, n) \cup At(o, path)
  BY <1>5, ReachedIs, Zenon
<1>7. IsObject(o)
  <2>1. Len(w.items) + 1 \in DOMAIN response.items
    BY <1>1, <1>2, <1>3, NextWithin, Zenon DEF Unfinished
  <2> QED
    BY <2>1, ItemsAre, Zenon DEF ReadInv, NextItem
<1>8. w'.out = Only(o, Reached(o, n + 1))
  <2>1. CASE hit
    <3>1. Reached(o, n) \in SUBSET DOMAIN o
      BY Zenon DEF Reached
    <3>2. setValueAtPath(Only(o, Reached(o, n)), o, path) = Only(o, Reached(o, n) \cup At(o, path))
      <4> HIDE DEF o, path, n
      <4> QED
        BY <1>5, <1>7, <2>1, <3>1, ValueSet
    <3> QED
      BY <1>3, <1>4, <1>6, <2>1, <3>2, Zenon
  <2>2. CASE ~hit
    BY <1>3, <1>4, <1>6, <2>2, Zenon
  <2> QED
    BY <2>1, <2>2, Zenon
<1>9. Unfinished(w') /\ NextItem(w') = o
  BY <1>1, <1>4, Zenon DEF Unfinished, NextItem
<1>10. w'.foundAny <=>
         \/ \E i \in 1 .. Len(w'.items) : Reached(Items[i], Len(input.paths)) # {}
         \/ Unfinished(w') /\ Reached(NextItem(w'), w'.next - 1) # {}
  <2>1. w.foundAny <=>
          \/ \E i \in 1 .. Len(w.items) : Reached(Items[i], Len(input.paths)) # {}
          \/ Reached(o, n) # {}
    BY <1>1, <1>2, Zenon DEF LoopInv
  <2>2. Reached(o, n + 1) # {} <=> Reached(o, n) # {} \/ hit
    BY <1>6, Zenon
  <2> QED
    BY <1>4, <1>5, <1>9, <2>1, <2>2, Zenon
<1>11. LoopInv(w')
  BY <1>2, <1>4, <1>5, <1>8, <1>9, <1>10, Zenon DEF LoopInv
<1>12. SecretsStayHidden' /\ ReadAsAsked'
  BY <1>1, <1>2, NothingShown, Zenon
<1> QED
  BY <1>1, <1>2, <1>4, <1>11, <1>12, SameRequest, Zenon DEF ReadInv

\* After its last path an object holds all it is to hold, and the next one starts empty.
LEMMA ObjectStep == ReadInv /\ ObjectProjected => ReadInv'
<1> SUFFICES ASSUME ReadInv, ObjectProjected
             PROVE  ReadInv'
  OBVIOUS
<1> DEFINE w == projection
           k == Len(w.items)
           all == Len(input.paths)
           Any(n) == \E i \in 1 .. n : Reached(Items[i], all) # {}
           S == {Projected(i) : i \in DOMAIN response.items}
<1>1. /\ w.open /\ Unfinished(w) /\ w.next > all
      /\ w' = Loops(Append(w.items, w.out), <<>>, 1, w.foundAny)
      /\ UNCHANGED <<response, input>> /\ output' = output
  BY Zenon DEF ObjectProjected, Projecting, Unfinished
<1>2. /\ LoopInv(w) /\ output = NoOutput
      /\ Len(response.items) \in Nat /\ DOMAIN response.items = 1 .. Len(response.items)
      /\ input.paths \in Seq(Seq(FieldNames))
  BY <1>1, ItemsPlaced, Zenon DEF ReadInv
<1>3. /\ w.items \in Seq(S) /\ w.next \in 1 .. all + 1
      /\ w.out = Only(Items[k + 1], Reached(Items[k + 1], w.next - 1))
      /\ \A i \in 1 .. k : w.items[i] = Projected(i)
      /\ w.foundAny \in BOOLEAN
      /\ w.foundAny <=> Any(k) \/ Reached(Items[k + 1], w.next - 1) # {}
      /\ ~Denied /\ ~TableWithPaths /\ input.paths # <<>>
  BY <1>1, <1>2, Zenon DEF LoopInv, NextItem
<1>4. w.next - 1 = all
  <2>1. w.next \in 1 .. all + 1 /\ w.next > all /\ input.paths \in Seq(Seq(FieldNames))
    BY <1>1, <1>2, <1>3, Zenon
  <2> QED
    BY <2>1
<1>5. k \in Nat /\ k + 1 \in DOMAIN response.items /\ k + 1 <= Len(response.items)
  <2>1. /\ w.items \in Seq(S) /\ k < Len(response.items) /\ Len(response.items) \in Nat
        /\ DOMAIN response.items = 1 .. Len(response.items)
    BY <1>1, <1>2, <1>3, Zenon DEF Unfinished
  <2> HIDE DEF S
  <2> QED
    BY <2>1
<1>6. w.out = Projected(k + 1) /\ w.out \in S
  BY <1>3, <1>4, <1>5, Zenon DEF Projected
<1>7. /\ w'.open = TRUE /\ w'.items = Append(w.items, w.out) /\ w'.out = <<>> /\ w'.next = 1
      /\ w'.foundAny = w.foundAny
  BY <1>1, Zenon DEF Loops
<1>8. /\ w'.items \in Seq(S) /\ Len(w'.items) = k + 1 /\ w'.items[k + 1] = w.out
      /\ \A i \in 1 .. k : w'.items[i] = w.items[i]
  <2>1. w.items \in Seq(S) /\ w.out \in S
    BY <1>3, <1>6, Zenon
  <2> HIDE DEF S
  <2>2. /\ Append(w.items, w.out) \in Seq(S) /\ Len(Append(w.items, w.out)) = k + 1
        /\ Append(w.items, w.out)[k + 1] = w.out
        /\ \A i \in 1 .. k : Append(w.items, w.out)[i] = w.items[i]
    BY <2>1
  <2> QED
    BY <1>7, <2>2, Zenon
<1>9. 1 .. k + 1 = (1 .. k) \cup {k + 1} /\ 1 \in 1 .. all + 1 /\ 1 - 1 = 0
  BY <1>2, <1>5
<1>10. \A i \in 1 .. Len(w'.items) : w'.items[i] = Projected(i)
  BY <1>3, <1>6, <1>8, <1>9, Zenon
<1>11. \A o : Reached(o, w'.next - 1) = {} /\ w'.out = Only(o, {})
  BY <1>7, <1>9, ReachedIs, Zenon
<1>12. Any(k + 1) <=> Any(k) \/ Reached(Items[k + 1], all) # {}
  BY <1>9, Zenon
<1>13. LoopInv(w')
  <2>1. w'.foundAny <=>
          \/ \E i \in 1 .. Len(w'.items) : Reached(Items[i], Len(input.paths)) # {}
          \/ Unfinished(w') /\ Reached(NextItem(w'), w'.next - 1) # {}
    BY <1>3, <1>4, <1>7, <1>8, <1>11, <1>12, Zenon
  <2> QED
    BY <1>3, <1>5, <1>7, <1>8, <1>9, <1>10, <1>11, <2>1, Zenon DEF LoopInv
<1>14. SecretsStayHidden' /\ ReadAsAsked'
  BY <1>1, <1>2, NothingShown, Zenon
<1> QED
  BY <1>1, <1>2, <1>7, <1>13, <1>14, SameRequest, Zenon DEF ReadInv

\* The loops end with what ProjectionExact says.
LEMMA EndProjection == ReadInv /\ ResponseProjected => ReadInv'
<1> SUFFICES ASSUME ReadInv, ResponseProjected
             PROVE  ReadInv'
  OBVIOUS
<1> DEFINE w == projection
           k == Len(response.items)
           all == Len(input.paths)
           S == {Projected(i) : i \in DOMAIN response.items}
           Wanted(o) == {p \in DOMAIN o : \E j \in DOMAIN input.paths : Leads(input.paths[j], p)}
           nothing == response.items # <<>> /\ ~w.foundAny
<1>1. /\ w.open /\ ~Unfinished(w) /\ w' = NoProjection /\ UNCHANGED <<response, input>>
      /\ output' = IF nothing THEN Error("field_path_not_found") ELSE Shaped(w.items)
  BY Zenon DEF ResponseProjected, Projecting, Unfinished
<1>2. /\ response \in Responses /\ input \in Inputs /\ LoopInv(w)
      /\ k \in Nat /\ DOMAIN response.items = 1 .. k /\ DOMAIN Items = 1 .. k
      /\ input.paths \in Seq(Seq(FieldNames))
  BY <1>1, ItemsPlaced, Zenon DEF ReadInv
<1>3. /\ ~Denied /\ ~TableWithPaths
      /\ w.items \in Seq(S) /\ Len(w.items) <= k
      /\ \A i \in 1 .. Len(w.items) : w.items[i] = Projected(i)
      /\ w.foundAny <=> \E i \in 1 .. Len(w.items) : Reached(Items[i], all) # {}
  BY <1>1, <1>2, Zenon DEF LoopInv
<1>4. Len(w.items) = k /\ DOMAIN w.items = 1 .. k
  <2>1. w.items \in Seq(S) /\ Len(w.items) <= k /\ ~(Len(w.items) < k) /\ k \in Nat
    BY <1>1, <1>2, <1>3, Zenon DEF Unfinished
  <2> HIDE DEF S
  <2> QED
    BY <2>1
<1>5. \A o : Reached(o, all) = Wanted(o)
  <2>1. DOMAIN input.paths = 1 .. all
    BY <1>2
  <2> QED
    BY <2>1, Zenon DEF Reached
<1>6. \A i \in 1 .. k : w.items[i] = Only(Items[i], Wanted(Items[i]))
  BY <1>3, <1>4, <1>5, Zenon DEF Projected
<1>7. w.items = [i \in DOMAIN Items |-> Only(Items[i], Wanted(Items[i]))]
  <2>1. w.items = [i \in 1 .. k |-> w.items[i]]
    <3>1. w.items \in Seq(S)
      BY <1>3, Zenon
    <3> HIDE DEF S
    <3> QED
      BY <1>4, <3>1
  <2> QED
    BY <1>2, <1>6, <2>1, Zenon
<1>8. nothing <=> response.items # <<>> /\ \A i \in DOMAIN Items : Wanted(Items[i]) = {}
  BY <1>2, <1>3, <1>4, <1>5, Zenon
<1>9. Items' = Items /\ Denied' = Denied /\ TableWithPaths' = TableWithPaths
  BY <1>1, SameItems, Zenon
<1>10. output' # NoOutput /\ (output'.status = "field_path_not_found" <=> nothing)
  <2>1. CASE nothing
    BY <1>1, <2>1, ZenonT(30) DEF Error, NoOutput
  <2>2. CASE ~nothing
    <3>1. output'.status = "ok"
      BY <1>1, <2>2, Zenon DEF Shaped
    <3> QED
      BY <2>2, <3>1 DEF NoOutput
  <2> QED
    BY <2>1, <2>2, Zenon
<1>11. Given' => ~nothing /\ output' = Shaped(w.items)
  <2>1. nothing => output'.status # "ok"
    BY <1>10
  <2> QED
    BY <1>1, <2>1, Zenon DEF Given
<1>12. /\ Shaped(w.items).items = w.items
       /\ Shaped(w.items).meta = IF response.list THEN listEnvelope(response.meta) ELSE response.meta
  BY Zenon DEF Shaped
<1>13. ProjectionExact'
  <2>1. Given' => output'.items = [i \in DOMAIN Items |-> Only(Items[i], Wanted(Items[i]))]
    BY <1>7, <1>11, <1>12, Zenon
  <2> QED
    BY <1>1, <1>3, <1>8, <1>9, <1>10, <2>1, Zenon DEF ProjectionExact
<1>14. PagingKept'
  <2>1. Given' => output'.meta = IF response.list THEN listEnvelope(response.meta) ELSE response.meta
    BY <1>11, <1>12, Zenon
  <2> QED
    BY <1>1, <2>1, PagingStays, Zenon DEF PagingKept
<1>15. SecretsStayHidden'
  <2>1. \A i \in DOMAIN w.items : Wanted(Items[i]) \in SUBSET DOMAIN Items[i]
    BY Zenon
  <2>2. \A i \in DOMAIN w.items : \E T \in SUBSET DOMAIN Items[i] : w.items[i] = Only(Items[i], T)
    BY <1>4, <1>6, <2>1, Zenon
  <2>3. DOMAIN w.items \subseteq DOMAIN response.items
    BY <1>2, <1>4, Zenon
  <2>4. input.resource = "secrets" /\ input.policy # "Allow" =>
          \A i \in DOMAIN w.items : \A p \in DOMAIN w.items[i] :
            IsSecretValue(p) => w.items[i][p] = Redacted
    BY <1>2, <1>3, <2>2, <2>3, PartHidden, Zenon
  <2> QED
    BY <1>1, <1>11, <1>12, <2>4, ZenonT(30) DEF SecretsStayHidden
<1>16. w'.open = FALSE
  BY <1>1, Zenon DEF NoProjection
<1> QED
  BY <1>1, <1>2, <1>13, <1>14, <1>15, <1>16, Zenon DEF ReadInv, ReadAsAsked

-----------------------------------------------------------------------------
(* The theorems.                                                           *)

\* Before the first request is answered nothing is projected or shown.
LEMMA ReadStarts == ReadInit => ReadInv
<1> SUFFICES ASSUME ReadInit
             PROVE  ReadInv
  OBVIOUS
<1>1. response \in Responses /\ input \in Inputs /\ projection.open = FALSE /\ output = NoOutput
  BY Zenon DEF ReadInit, NoProjection
<1>2. output.status # "ok" /\ output.status # "field_path_not_found"
  BY <1>1 DEF NoOutput
<1> QED
  BY <1>1, <1>2, Zenon
     DEF ReadInv, SecretsStayHidden, ReadAsAsked, ProjectionExact, PagingKept, Given

\* Every step of a get or list keeps the invariant.
LEMMA ReadStep == ReadInv /\ [ReadNext]_outputVars => ReadInv'
<1>1. ASSUME ReadInv, UNCHANGED outputVars
      PROVE  ReadInv'
  <2>1. /\ UNCHANGED <<response, input>> /\ projection' = projection /\ output' = output
    BY <1>1, Zenon DEF outputVars
  <2>2. LoopInv(projection)' <=> LoopInv(projection)
    BY <2>1, SameRequest, Zenon
  <2>3. Items' = Items /\ Denied' = Denied /\ TableWithPaths' = TableWithPaths
    BY <2>1, SameItems, Zenon
  <2>4. SecretsStayHidden' /\ ReadAsAsked'
    BY <1>1, <2>1, <2>3, Zenon
       DEF ReadInv, SecretsStayHidden, ReadAsAsked, ProjectionExact, PagingKept, Given
  <2> QED
    BY <1>1, <2>1, <2>2, <2>4, Zenon DEF ReadInv
<1> QED
  BY <1>1, RefuseStep, ShapeStep, BeginProjection, PathStep, ObjectStep, EndProjection, AgainStep,
     Zenon DEF ReadNext

\* The invariant holds at all times.
LEMMA ReadInvariant == ReadSpec => []ReadInv
  BY ReadStarts, ReadStep, PTL DEF ReadSpec

\* redactResult, shapeReadOutput: for every object, every list and every output
\* option, an answer about Secrets shows a value or an annotation only if policy
\* allows it.
THEOREM SecretsAlwaysHidden == ReadSpec => []SecretsStayHidden
<1>1. ReadInv => SecretsStayHidden
  BY Zenon DEF ReadInv
<1> QED
  BY <1>1, ReadInvariant, PTL

\* projectKubernetesResponse, listEnvelope: for every list of field paths, in any
\* order and however they overlap, an answer holds exactly what they lead to, and
\* a list can be continued from it.
THEOREM AnswersAsAsked == ReadSpec => []ReadAsAsked
<1>1. ReadInv => ReadAsAsked
  BY Zenon DEF ReadInv
<1> QED
  BY <1>1, ReadInvariant, PTL

=============================================================================

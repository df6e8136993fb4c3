-------------------------------- MODULE Policy --------------------------------
(***************************************************************************)
(* What a Server permits before it asks Kubernetes: the actions discovery  *)
(* offers (catalogCache.list), the validation of the configuration         *)
(* (internal/runtimeconfig) and Policy.CheckTarget (internal/server/       *)
(* policy.go).  A decision is a function of the configuration and the      *)
(* request; the module checks it against what the modes, the scope and the *)
(* operator's own objects require, for every configuration at once.        *)
(***************************************************************************)
EXTENDS Naturals, FiniteSets

CONSTANTS
  Discovered,   \* what the API server lists: resources with their verbs
  Rules,        \* the values of spec.policy.rules
  OwnNamespace, \* the namespace of the KubernetesMCPServer
  Namespaces    \* namespaces a request may name

VARIABLE config \* the runtime configuration of the Server, Stopped while none runs

Modes == {"ReadOnly", "SafeWrite", "Dangerous"}

-----------------------------------------------------------------------------
(* The actions of a cluster.                                               *)

Verbs == {"get", "list", "watch", "create", "update", "patch", "delete"}

Act(d, sub, verb, action) ==
  [group |-> d.group, resource |-> d.resource, namespaced |-> d.namespaced,
   sub |-> sub, verb |-> verb, action |-> action]

\* The logical actions of the subresources that have one; others are left out.
SubActions ==
  {<<"log", "get", "logs">>, <<"exec", "create", "exec">>, <<"attach", "create", "attach">>,
   <<"scale", "patch", "scale">>}

Restartable == {"deployments", "statefulsets", "daemonsets"}

ActionsOf(d) ==
  {Act(d, "", v, v) : v \in d.verbs \cap Verbs}
  \cup {Act(d, t[1], t[2], t[3]) : t \in {u \in SubActions : <<u[1], u[2]>> \in d.subs}}
  \cup {Act(d, "", "patch", a) : a \in {b \in {"restart", "apply"} :
          /\ "patch" \in d.verbs
          /\ b = "restart" => d.group = "apps" /\ d.resource \in Restartable}}

Actions == UNION {ActionsOf(d) : d \in Discovered}

Mutating(a) == a.verb \notin {"get", "list", "watch"}

DangerousAction(a) == a.action \in {"delete", "exec", "attach", "force-apply"}

-----------------------------------------------------------------------------
(* The configuration.                                                      *)

Configs ==
  [mode : Modes, sensitiveReads : {"Redact", "Deny", "Allow"}, clusterRead : BOOLEAN,
   clusterWrite : BOOLEAN, namespaces : SUBSET Namespaces, rules : Rules,
   tlsSecret : {"", "own-tls"}]

\* The rules of Validate about mode and scope; its limits are in other modules.
Validate(c) ==
  /\ c.clusterWrite => c.mode = "Dangerous"
  /\ c.namespaces # {}

Stopped == <<>>

PolicyInit == config = Stopped

\* A Server starts with the configuration the operator wrote, if that is valid.
Start ==
  /\ config = Stopped
  /\ config' \in {c \in Configs : Validate(c)}

\* The operator replaces the Server to give it another configuration.
Stop ==
  /\ config # Stopped
  /\ config' = Stopped

PolicyNext == Start \/ Stop

PolicySpec == PolicyInit /\ [][PolicyNext]_config

-----------------------------------------------------------------------------
(* Check.                                                                  *)

match(values, wanted) == "*" \in values \/ wanted \in values

\* ResourceName: resources of a rule are pairs of resource and subresource.
matchesAnyRule(rules, a) ==
  \E rule \in rules :
    /\ match(rule.groups, a.group)
    /\ rule.resources = {"*"} \/ <<a.resource, a.sub>> \in rule.resources
    /\ match(rule.verbs, a.verb) \/ match(rule.verbs, a.action)

HardDeniedResources ==
  {"secrets", "serviceaccounts", "roles", "rolebindings", "clusterroles", "clusterrolebindings",
   "customresourcedefinitions", "mutatingwebhookconfigurations", "validatingwebhookconfigurations",
   "apiservices", "certificatesigningrequests", "tokenreviews", "subjectaccessreviews",
   "selfsubjectaccessreviews", "namespaces", "nodes", "persistentvolumes", "storageclasses",
   "priorityclasses", "runtimeclasses"}

HardDeniedGroups ==
  {"rbac.authorization.k8s.io", "admissionregistration.k8s.io", "apiextensions.k8s.io",
   "apiregistration.k8s.io", "certificates.k8s.io", "authentication.k8s.io",
   "authorization.k8s.io"}

hardDeniedInSafeMode(a) ==
  \/ a.sub \notin {"", "status", "scale"}
  \/ a.resource \in HardDeniedResources
  \/ a.group \in HardDeniedGroups

safeDefaultResource(a) ==
  <<a.group, a.resource>> \in
    {<<"", "configmaps">>, <<"", "services">>, <<"apps", "deployments">>, <<"apps", "statefulsets">>,
     <<"apps", "daemonsets">>, <<"batch", "jobs">>, <<"batch", "cronjobs">>,
     <<"autoscaling", "horizontalpodautoscalers">>, <<"policy", "poddisruptionbudgets">>}

InScope(c, a, ns) ==
  IF a.namespaced THEN ns \in c.namespaces
  ELSE IF Mutating(a) THEN c.clusterWrite ELSE c.clusterRead

\* Faulty variant: rules decide alone when there are any.
InModeUnlessRules(c, a) ==
  /\ c.mode = "ReadOnly" => ~Mutating(a)
  /\ c.mode = "SafeWrite" /\ c.rules = {} =>
       ~DangerousAction(a) /\ a.verb # "delete" /\ ~hardDeniedInSafeMode(a)

InMode(c, a) ==
  /\ c.mode = "ReadOnly" => ~Mutating(a)
  /\ c.mode = "SafeWrite" =>
       ~DangerousAction(a) /\ a.verb # "delete" /\ ~hardDeniedInSafeMode(a)

InRules(c, a) ==
  IF c.rules # {} THEN matchesAnyRule(c.rules, a)
  ELSE c.mode = "SafeWrite" /\ Mutating(a) => safeDefaultResource(a)

Check(c, a, ns) ==
  /\ ~Mutating(a) /\ a.group = "" /\ a.resource = "secrets" => c.sensitiveReads # "Deny"
  /\ InScope(c, a, ns)
  /\ InMode(c, a)
  /\ InRules(c, a)

-----------------------------------------------------------------------------
(* CheckTarget and its prerequisite.                                       *)

\* Faulty variant: the Secret is looked for under its default name only.
tlsNameDefault(c) == "server-tls"

tlsName(c) == IF c.tlsSecret = "" THEN "server-tls" ELSE c.tlsSecret

\* The Server's own name is "server"; managedClusterBindingName is a digest of it.
managedTarget(c, a, ns, name) ==
  IF ~a.namespaced THEN
    /\ a.group = "rbac.authorization.k8s.io"
    /\ <<a.resource, name>> \in {<<"clusterrolebindings", "server-binding">>,
                                 <<"clusterroles", "supek8smcp-tokenreviewer">>}
  ELSE
    \/ a.group = "mcp.supek8smcp.io" /\ a.resource = "kubernetesmcpservers"
    \/ a.group = "" /\ a.resource = "secrets" /\ name = "supek8smcp-serving-ca"
    \/ /\ ns = OwnNamespace
       /\ <<a.group, a.resource, name>> \in
            {<<"", "configmaps", "server-config">>, <<"", "configmaps", "server-ca">>,
             <<"", "secrets", tlsName(c)>>, <<"", "services", "server">>,
             <<"", "serviceaccounts", "server">>, <<"apps", "deployments", "server">>,
             <<"networking.k8s.io", "networkpolicies", "server">>}

CheckTarget(c, a, ns, name) ==
  /\ Check(c, a, ns)
  /\ ~(Mutating(a) /\ name # "" /\ managedTarget(c, a, ns, name))

prerequisiteGetAction(a) == [a EXCEPT !.sub = "", !.verb = "get", !.action = "get"]

\* The local part of CheckAndAuthorizeOperation.
Permits(c, a, ns, name) ==
  /\ CheckTarget(c, a, ns, name)
  /\ Mutating(a) => CheckTarget(c, prerequisiteGetAction(a), ns, name)

-----------------------------------------------------------------------------
(* What the operator keeps for this Server: names as reconcileResources,   *)
(* ensureServingCertificate and reconcileDelegatedAuthentication write     *)
(* them.                                                                   *)

Namespaced(group, resource, ns, name) ==
  [group |-> group, resource |-> resource, namespaced |-> TRUE, ns |-> ns, name |-> name]

ClusterScoped(group, resource, name) ==
  [group |-> group, resource |-> resource, namespaced |-> FALSE, ns |-> "", name |-> name]

OperatorObjects(c) ==
  {Namespaced("", "serviceaccounts", OwnNamespace, "server"),
   Namespaced("", "configmaps", OwnNamespace, "server-config"),
   Namespaced("", "configmaps", OwnNamespace, "server-ca"),
   Namespaced("networking.k8s.io", "networkpolicies", OwnNamespace, "server"),
   Namespaced("", "secrets", OwnNamespace, IF c.tlsSecret = "" THEN "server-tls" ELSE c.tlsSecret),
   Namespaced("apps", "deployments", OwnNamespace, "server"),
   Namespaced("", "services", OwnNamespace, "server"),
   Namespaced("mcp.supek8smcp.io", "kubernetesmcpservers", OwnNamespace, "server"),
   ClusterScoped("rbac.authorization.k8s.io", "clusterrolebindings", "server-binding"),
   ClusterScoped("rbac.authorization.k8s.io", "clusterroles", "supek8smcp-tokenreviewer")}
  \cup {Namespaced("", "secrets", n, "supek8smcp-serving-ca") : n \in Namespaces}

\* The action is about objects of the kind and scope of o.
About(a, o) == a.group = o.group /\ a.resource = o.resource /\ a.namespaced = o.namespaced

-----------------------------------------------------------------------------
(* Properties.                                                             *)

In(mode) == [config EXCEPT !.mode = mode, !.clusterWrite = @ /\ mode = "Dangerous"]

Permitted(c) == {t \in Actions \X (Namespaces \cup {""}) : Permits(c, t[1], t[2], "x")}

\* The modes are a ladder: with the same scope and rules, ReadOnly permits reads
\* only, and whatever ReadOnly or SafeWrite permits Dangerous permits too.
ModesNest ==
  config # Stopped =>
    /\ \A t \in Permitted(In("ReadOnly")) : ~Mutating(t[1])
    /\ Permitted(In("ReadOnly")) \cup Permitted(In("SafeWrite"))
         \subseteq Permitted(In("Dangerous"))

\* No rules, scope or mode let a Server change, by name, an object the operator
\* keeps for it: its own resource, configuration, certificate, workload, network
\* policy, role or binding.
OwnObjectsKept ==
  config # Stopped => \A o \in OperatorObjects(config), a \in Actions :
    About(a, o) /\ Mutating(a) => ~Permits(config, a, o.ns, o.name)

\* Changes of cluster-scoped objects need Dangerous mode and the scope's
\* consent, and in SafeWrite nothing is removed, entered or made that grants
\* rights or holds credentials, whatever the rules say.
RulesNeverRaise ==
  config # Stopped => \A t \in Permitted(config) :
    Mutating(t[1]) =>
      /\ ~t[1].namespaced => config.mode = "Dangerous" /\ config.clusterWrite
      /\ config.mode = "SafeWrite" =>
           /\ t[1].action \notin {"delete", "exec", "attach"}
           /\ t[1].group # "rbac.authorization.k8s.io" /\ t[1].resource # "secrets"

\* Neither rules nor a lower mode permit what the mode forbids.
ModesHold == ModesNest /\ RulesNeverRaise

=============================================================================

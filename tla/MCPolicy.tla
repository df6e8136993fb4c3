------------------------------ MODULE MCPolicy ------------------------------
EXTENDS Policy

Resource(group, resource, namespaced, subs) ==
  [group |-> group, resource |-> resource, namespaced |-> namespaced,
   verbs |-> {"get", "list", "create", "patch", "delete", "deletecollection"}, subs |-> subs]

MCDiscovered ==
  {Resource("", "pods", TRUE, {<<"log", "get">>, <<"exec", "create">>, <<"status", "get">>}),
   Resource("", "secrets", TRUE, {}),
   Resource("", "configmaps", TRUE, {}),
   Resource("", "services", TRUE, {}),
   Resource("", "serviceaccounts", TRUE, {}),
   Resource("", "nodes", FALSE, {}),
   Resource("apps", "deployments", TRUE, {<<"scale", "get">>, <<"scale", "patch">>}),
   Resource("networking.k8s.io", "networkpolicies", TRUE, {}),
   Resource("rbac.authorization.k8s.io", "roles", TRUE, {}),
   Resource("rbac.authorization.k8s.io", "clusterroles", FALSE, {}),
   Resource("rbac.authorization.k8s.io", "clusterrolebindings", FALSE, {}),
   Resource("mcp.supek8smcp.io", "kubernetesmcpservers", TRUE, {})}

MCRules ==
  {{},
   {[groups |-> {"*"}, resources |-> {"*"}, verbs |-> {"*"}]},
   {[groups |-> {""}, resources |-> {<<"pods", "">>, <<"pods", "log">>, <<"secrets", "">>},
     verbs |-> {"get", "logs", "create"}],
    [groups |-> {"apps"}, resources |-> {<<"deployments", "">>, <<"deployments", "scale">>},
     verbs |-> {"get", "scale", "restart"}]}}

=============================================================================

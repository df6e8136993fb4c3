SPECIFICATION Spec
CONSTANTS
  Clients = {"i", "j"}
  Calls = {c1, c2}
  Rate = 2
  Cost = 3
  Burst = 2
  Capacity = 1
  IdleTTL = 5
  SweepEvery = 2
  MaxSkew = 1
  Discovered <- MCDiscovered
  Rules <- MCRules
  OwnNamespace = "own"
  Namespaces = {"own", "work"}
  ContainerNames = {"a", "b"}
  MaxContainers = 2
  Width = 8
  Second = 5
  Limits = {5, 12, 40, 127}
  Requested = {0, 1, 2, 8, 9, 25, 26, 40, 51, 52, 55}
  Servers = {s1, s2}
  RootLife = 4
  LeafLife = 3
  RenewBefore = 2
  MaxGap = 1
  MaxUpsets = 1
INVARIANTS
  
  ModesHold
  OwnObjectsKept
  ConstraintsKept
  
  
  
PROPERTIES
  RefusedWithCause
CHECK_DEADLOCK FALSE

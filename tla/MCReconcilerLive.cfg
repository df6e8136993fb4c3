SPECIFICATION Spec
CONSTANTS
  Contested = {"service"}
  StaleRestart = FALSE
  PolicyEnabled = FALSE
  MaxGeneration = 1
  MaxTLS = 2
  MaxConfig = 2
  MaxFaults = 2
INVARIANTS
  NoOrphanBinding
PROPERTIES
  ForeignUntouched
  ReadyIsCurrent
  FailsClosed
  Recovers
CHECK_DEADLOCK FALSE

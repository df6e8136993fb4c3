SPECIFICATION Spec
CONSTANTS
  Contested = {}
  StaleRestart = TRUE
  PolicyEnabled = TRUE
  MaxGeneration = 2
  MaxTLS = 1
  MaxConfig = 3
  MaxFaults = 1
INVARIANT
  PolicyGated
CHECK_DEADLOCK FALSE

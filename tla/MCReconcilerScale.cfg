SPECIFICATION Spec
CONSTANTS
  Contested = {"deployment"}
  StaleRestart = FALSE
  PolicyEnabled = TRUE
  MaxGeneration = 2
  MaxTLS = 1
  MaxConfig = 3
  MaxFaults = 2
PROPERTY ForeignUntouched
CHECK_DEADLOCK FALSE

SPECIFICATION TimeSpec
CONSTANTS
  Width = 8
  Second = 5
  Limits = {5, 12, 40}
  Requested = {0, 1, 2, 8, 9, 25, 26, 40, 51, 52, 55}
INVARIANT RequestCapped
CHECK_DEADLOCK FALSE

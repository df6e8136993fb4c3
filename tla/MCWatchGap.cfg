SPECIFICATION WatchSpec
CONSTANTS
  Sizes = {1, 2}
  MaxOutputBytes = 3
  MaxListItems = 3
  MaxVersion = 4
  MaxFaults = 1
  Envelope = 0
INVARIANT NoEventGap

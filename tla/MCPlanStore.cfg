SPECIFICATION StoreSpec
CONSTANTS
  PlanIDs = {p1, p2}
  Subjects = {s1, s2}
  Operations = {"small", "large"}
  RemoteOps = {"large"}
  EncodedLen <- MCEncodedLen
  Codes = {c1, c2}
  NoCode = NoCode
  BadCode = BadCode
  NoOp = NoOp
  Capacity = 2
  MaxBytes = 16
  MaxSubjectBytes = 8
  PlanTTL = 1
  MaxAttempts = 2
  MaxTime = 3
SYMMETRY MCSymmetry
INVARIANTS
  BytesKept
  Delivery
PROPERTIES
  OnlyOwnerOrTime
  RefusedOnlyWhenFull
  ImplementsOneTimePlan

SPECIFICATION Spec
CONSTANTS
  PlanIDs = {p1}
  Operations <- MCOperations
  RemoteOps <- MCRemoteOps
  EncodedLen <- MCEncodedLen
  Subjects = {s1}
  Codes = {c1}
  NoCode = NoCode
  BadCode = BadCode
  NoOp = NoOp
  Absent = Absent
  Capacity = 2
  MaxBytes = 8
  MaxSubjectBytes = 8
  PlanTTL = 0
  MaxAttempts = 1
  MaxTime = 0
  MaxConcurrent = 2
  Requests = {r1, r2}
  Mode = "SafeWrite"
  Names = {"n1"}
  Contents = {"plain", "elevated"}
  SafeChange <- MCSafeChange
  MaxRevision = 3
  MaxGeneration = 1
SYMMETRY MCSymmetry
INVARIANT SafeWriteAsReviewed

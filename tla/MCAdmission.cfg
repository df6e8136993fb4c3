SPECIFICATION AdmissionSpec
CONSTANTS
  MaxConcurrent = 3
  Requests = {r1, r2, r3, r4}
  Identities = {i1, i2}
INVARIANTS
  SlotsExact
PROPERTIES
  ShortRequestsServed
  Answered

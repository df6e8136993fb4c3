SPECIFICATION AdmissionSpec
CONSTANTS
  MaxConcurrent = 3
  Requests = {r1, r2, r3}
  Identities = {i1, i2}
INVARIANT IdentityOccupies

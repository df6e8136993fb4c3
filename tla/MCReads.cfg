SPECIFICATION Spec
CONSTANTS
  Callers = {c1, c2}
  Capabilities = {a, b}
  CacheTime = 1
  BackOff = 1
  MaxChanges = 1
  Entries = {1, 2, 3, 4}
  Reviews = {"get", "patch", "create"}
  ReviewOf <- MCReviewOf
  Prerequisite <- MCPrerequisite
  InPolicy = {1, 2, 4}
  CheckLimit = 2
  PageLimit = 1
  MaxUpsets = 2
  Loads = {l1, l2}
  Keys = {k1, k2, k3}
  DocSizes = {1, 2}
  MaxEntries = 2
  MaxCached = 3
  Lifetime = 1
  Sizes = {1, 2, 4}
  MaxOutputBytes = 3
  MaxListItems = 2
  Envelope = 1
  MaxVersion = 4
  MaxFaults = 1
  Limit = 4
  MaxLines = 2
  LogEnvelope = 1
  MaxLength = 6
  FieldNames <- MCFieldNames
  Responses <- MCResponses
  FieldPaths <- MCFieldPaths
  SummaryPaths <- MCSummaryPaths
  Sensitive <- MCSensitive
INVARIANTS
  CatalogConsistent
  
  ResumesFaithfully
  CutExact
  LogsExact
  SecretsStayHidden
  
PROPERTIES
  SnapshotServed
  CatalogConverges
  SearchEnds
  CacheSound
  CatchesUp
CHECK_DEADLOCK FALSE

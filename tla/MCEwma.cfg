SPECIFICATION Spec
CONSTANTS
  r1 = r1
  r2 = r2
  Requests = {r1, r2}
  NoIndex = NoIndex
  NoBackend = NoBackend
  BackendTable <- MCBackendTable
  Queries <- MCQueries
  Samples = {5, 7}
  AlphaNum = 1
  AlphaDen = 2
  Rounding = 1
INVARIANTS
  TypeOK
  NoDrift
PROPERTIES
  ColdProbed
CHECK_DEADLOCK FALSE

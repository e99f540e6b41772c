SPECIFICATION Spec
CONSTANTS
  r1 = r1
  r2 = r2
  m1 = m1
  m2 = m2
  Requests = {r1, r2}
  NoModel = NoModel
  NoIndex = NoIndex
  NoBackend = NoBackend
  NoUsage = NoUsage
  Unlimited = Unlimited
  HttpError = HttpError
  BackendTable <- MCBackendTable
  choose <- AnyChoice
  Calls <- MCCalls
  Names <- MCNames
  KeyStores <- MCKeyStores
  RateLimits <- MCRateLimits
  Failures = {HttpError, 400, 429}
  Usages = {1, 2}
  MaxRetries = 1
SYMMETRY Symmetry
INVARIANTS
  TypeOK
  PrivateStaysLocal
  RetryDiscipline
  BilledExactlyOnce
  MetricsReconcile
PROPERTIES
  RetriesPreFirstByte
CHECK_DEADLOCK FALSE

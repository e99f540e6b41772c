SPECIFICATION FairSpec
CONSTANTS
  r1 = r1
  r2 = r2
  m1 = m1
  m2 = m2
  Requests = {r1, r2}
  NoModel = NoModel
  NoIndex = NoIndex
  NoBackend = NoBackend
  NoUsage = NoUsage
  Unlimited = Unlimited
  HttpError = HttpError
  BackendTable <- MCBackendTable
  choose <- StaticPriority
  Calls <- LiveCalls
  Names <- MCNames
  KeyStores <- LiveKeyStores
  RateLimits <- LiveRateLimits
  Failures = {503}
  Usages = {1}
  MaxRetries = 1
INVARIANTS
  RefusedOnlyIfNoneEligible
PROPERTIES
  StreamSettles
  Answered
CHECK_DEADLOCK FALSE

SPECIFICATION Spec
CONSTANTS
  NaN = NaN
  Unset = Unset
  NoVar = NoVar
  NoIndex = NoIndex
  NoBackend = NoBackend
  Files <- MCFiles
  Envs <- MCEnvs
  EnvNames <- MCEnvNames
  HttpUrls = {"http://a/", "https://b"}
  Trimmed <- MCTrimmed
  Addresses = {"0.0.0.0:8080"}
INVARIANTS
  TypeOK
  FirstDefectReported
  EachKeyIsItself
  RoutesAsConfigured
PROPERTIES
  BootDecides
CHECK_DEADLOCK FALSE

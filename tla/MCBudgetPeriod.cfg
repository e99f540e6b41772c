SPECIFICATION Spec
CONSTANTS
  w1 = w1
  w2 = w2
  Workers = {w1, w2}
  Dims = {"total"}
  Unlimited = Unlimited
  NoFile = NoFile
  Torn = Torn
  Limits <- MCLimits
  Proposals <- OneToken
  Usages <- OneOrTwoTokens
  MaxUsage = 2
  MaxRequests = 3
  MaxPeriod = 1
SYMMETRY Symmetry
PROPERTIES
  SurvivesRestartInPeriod
CHECK_DEADLOCK FALSE

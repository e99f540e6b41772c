SPECIFICATION FairSpec
CONSTANTS
  u1 = u1
  u2 = u2
  NoUsage = NoUsage
  Usages = {u1, u2}
  StallTimeout = 2
  MaxChunks = 3
INVARIANTS
  TypeOK
  ByteFaithful
  ExactlyOneSummary
  SummaryAccountsForReceived
  OutcomeMatchesClosing
PROPERTIES
  NoFalseStall
  ImplementsContract
  UpstreamReleased
CHECK_DEADLOCK FALSE

SPECIFICATION Spec
CONSTANTS
  t1 = t1
  t2 = t2
  Threads = {t1, t2}
  Calls <- MCCalls
  MaxCalls = 2
  MaxScrapes = 2
SYMMETRY Symmetry
INVARIANTS
  TypeOK
  SeriesExact
  ScrapeInInterval
CHECK_DEADLOCK FALSE

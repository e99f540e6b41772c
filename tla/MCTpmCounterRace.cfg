SPECIFICATION Spec
CONSTANTS
  t1 = t1
  t2 = t2
  t3 = t3
  Threads = {t1, t2, t3}
  NoCounter = NoCounter
  Amounts = {1}
  Window = 2
  MaxRecords = 4
  MaxNow = 6
SYMMETRY Symmetry
INVARIANTS
  CountsWindow
CHECK_DEADLOCK FALSE

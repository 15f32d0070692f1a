SPECIFICATION FairSpec
CONSTANTS
  Callers = {c1, c2, c3}
  Nobody = Nobody
  Names = {n1}
  NoName = NoName
  Mutexes = 1
  Conds = 1
  Semas = 1
  SemMax = 1
  Counts = {1}
  Timeouts = {0, 25}
  Nsecs = {0, 800000000}
  Overlap = FALSE
INVARIANTS HeldIsReady UsedIsReady
PROPERTY TimedReturns
CHECK_DEADLOCK FALSE

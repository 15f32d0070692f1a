SPECIFICATION CallsSpec
CONSTANTS
  Timers = {t1, t2}
  W = 2
  Delays = {1, 2}
  Periods = {0}
  Managers = {m1, m2}
  Ticker = ticker
  Calls = {"add", "delete", "start", "restart", "stop"}
  Deleting = {t1, t2}
  NULL = NULL
  Nobody = Nobody
  MaxCalls = 6
  MaxTicks = 0
SYMMETRY Symm
INVARIANT SpokesAreRings
CHECK_DEADLOCK FALSE

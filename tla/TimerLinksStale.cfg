SPECIFICATION CallsSpec
CONSTANTS
  Timers = {t1, t2}
  W = 2
  Delays = {1, 2}
  Periods = {0}
  Managers = {m1}
  Ticker = ticker
  Calls = {"add", "start", "stop"}
  Deleting = {}
  NULL = NULL
  Nobody = Nobody
  MaxCalls = 5
  MaxTicks = 0
SYMMETRY Symm
INVARIANT NoCrash
CHECK_DEADLOCK FALSE

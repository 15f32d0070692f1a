SPECIFICATION BoundedSpec
CONSTANTS
  Timers = {t1, t2}
  W = 2
  Delays = {1, 2}
  Periods = {0,2}
  Managers = {m1,m2}
  Ticker = ticker
  Calls = {"add", "delete", "start"}
  Deleting = {}
  NULL = NULL
  Nobody = Nobody
  MaxCalls = 5
  MaxTicks = 3
INVARIANTS LinkedIsActive NoCrash
PROPERTIES CallsReturn TickReturns
CHECK_DEADLOCK FALSE

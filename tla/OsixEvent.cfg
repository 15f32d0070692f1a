SPECIFICATION EventFairSpec
CONSTANTS
  Tasks = {k1, k2}
  Events = {e1, e2}
INVARIANTS SleepsForNothing
PROPERTIES TakesWhatItReturns EventArrives

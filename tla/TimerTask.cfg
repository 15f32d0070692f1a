SPECIFICATION TaskSpec
CONSTANTS
  Timers = {t1, t2}
  W = 2
  Granularity = 10
  Delays = {5, 39}
  Periods = {0, 10, 25}
  Stups = 5
  ClkTck = 10
  Elapsed = {2, 3}
INVARIANTS   SleepsInTime ExpiresOnTime ActiveCountsLinked
PROPERTY SleepsAgain

SPECIFICATION OrderlySpec
CONSTANTS
  c1 = c1
  c2 = c2
  a = a
  b = b
  d = d
  MaxTsks = 2
  Names = {a, b, d}
  Threads = {t1, t2, t3}
  Callers = {c1, c2}
  Calls <- OwnNames
  NoName = NoName
  NoThread = NoThread
  NoJob = NoJob
SYMMETRY Symm
INVARIANTS UniqueNames StartsComplete 

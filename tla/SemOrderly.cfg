SPECIFICATION Spec
CONSTANTS
  Callers = {c1, c2, c3}
  Names = {a, b, z}
  NoName = NoName
  MaxSems = 2
  SemMax = 2
  Counts = {1, 3}
  Overlap = FALSE
  KeepVar = FALSE
INVARIANTS UniqueNames ActsOnNamed
 

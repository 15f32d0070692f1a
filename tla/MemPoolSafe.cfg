SPECIFICATION Spec
CONSTANTS
  Callers = {c1, c2}
  Pool = 12
  Header = 1
  Min = 2
  Bit = 32
  Requests = {0, 1, 4, 40}
  FirstAlone = TRUE
INVARIANT NothingLeaks
PROPERTY HeapSpec

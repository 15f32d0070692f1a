SPECIFICATION LineSpec
CONSTANTS
  Letters = {"a", "_"}
  MaxLength = 9
  LineBound = 3
  MaxHistory = 2
  Names <- McNames
  Habits = {}
INVARIANTS LineIsWhole ScreenShowsLine
PROPERTIES UpBringsTheLast
CHECK_DEADLOCK FALSE

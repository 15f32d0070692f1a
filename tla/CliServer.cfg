SPECIFICATION Spec
CONSTANTS
  Table <- McTable
  Clis <- TwoClis
  Lines <- McLines
  Output <- McOutput
  Privileged = 15
  EnablePassword = TRUE
  IdleTimeout = 2
  Sockets = {3, 4}
  Overlap = FALSE
INVARIANTS OwnConnection AccessEarned RunsWhatIsMeant CompletionsRun OutputAsAsked
PROPERTIES RightPasswordAdmits  SilentIsPutOut
CHECK_DEADLOCK FALSE

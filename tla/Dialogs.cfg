SPECIFICATION MCSpec
CONSTANTS
  MaxPlans = 3
  MaxRuns = 4
  Background = {b1}
  EscapeKey = TRUE
  CtrlC = TRUE
  MaxRequests = 3
  MaxQuestions = 3
INVARIANTS
  WaitingIsAnswerable
  InputComesBack
PROPERTIES
  ShownIsRequested
  ExecutedIsShown
  LeavingRestoresMode
CHECK_DEADLOCK FALSE

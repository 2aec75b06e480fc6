SPECIFICATION FairSpec
CONSTANTS
  EscapeIn = {"created", "running", "asking", "stopping"}
  CtrlC = TRUE
  SlowStart = TRUE
  Asks = TRUE
  MaxPrompts = 2
  MaxNews = 1
PROPERTIES
  EveryoneIsHeard
  PromptGetsItsTurn
CHECK_DEADLOCK FALSE

SPECIFICATION WorktreesSpec
CONSTANTS
  Own = {a}
  Isolated = {}
  Root = root
  Faults = {}
  MaxCommits = 1
  MaxFailures = 0
  MaxRestarts = 1
PROPERTY
  UnconfirmedExitKeepsCommits
CHECK_DEADLOCK FALSE

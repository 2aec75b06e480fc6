SPECIFICATION MCSpec
CONSTANTS
  Call <- MCCall
  UserRules <- MCUserRules
  Registered <- MCRegistered
  Definition <- MCDefinition
  Launches = {"typed"}
  SubAgent = {s1}
  MaxCalls = 3
  MaxResponses = 1
  MaxModes = 1
  HookRun = {main, sub}
  MainRun = main
  HookList <- MCHookList
  MaxMessages = 3
  MaxTurns = 4
  Source = {"a.py", "b.py", "c.js"}
  Test = {"test_a.py", "test_b.py", "c.test.js"}
  Python = {"a.py", "b.py", "test_a.py", "test_b.py"}
  Scripts = {{}, {"build"}, {"test", "build"}}
  TakesTargets = TRUE
  DirectTest <- MCDirectTest
  Imports <- MCImports
  Covers <- MCCovers
  Ways = {"path", "patch", "shell"}
  MaxImpactDepth = 2
  MaxRepairAttempts = 2
  MaxPrompts = 2
  MaxChanges = 4
  Work = {"Edit", "Read", "Bash"}
  Skill = {}
  MaxCopies = 3
  McpTools <- MCMcpTools
  Allowed <- MCAllowed
  Custom <- MCCustom
INVARIANT SubAgentsKeepTools
CHECK_DEADLOCK FALSE

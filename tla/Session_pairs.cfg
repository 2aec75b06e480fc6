SPECIFICATION MCSpec
CONSTANTS
  HasMemory = TRUE
  StopsWhenCut = FALSE
  Commands = {"compact", "rewind", "new"}
  StreamingCommands = {"new"}
  MaxKeep = 2
  MaxMessages = 4
  MaxRecords = 6
  CallId = {c1}
  Process = {p1}
  Command = {"run", "compact"}
  MaxTurns = 2
  KeepRecent = 2
  CompactDies = FALSE
  MaxRuns = 2
  MaxCreates = 4
INVARIANT TranscriptsKeepPairs
CHECK_DEADLOCK FALSE

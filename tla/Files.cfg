SPECIFICATION MCSpec
CONSTANTS
  File = {f1}
  MAX_SNAPSHOTS = 2
  MaxChanges = 3
  MaxVersion = 2
  MaxMessages = 5
  MaxConversations = 2
  Shell = TRUE
  MaxRewinds = 2
  Own = {a}
  Isolated = {s}
  Root = root
  Faults = {"setup", "remove", "write"}
  MaxCommits = 1
  MaxFailures = 1
  MaxRestarts = 1
  Path = {"a", "b", "t", "tsconfig"}
  Config = "tsconfig"
  Candidates <- MCCandidates
  Text <- MCText
  Start <- MCStart
  Process = {p1, p2}
  MaxEdits = 2
INVARIANTS
  SnapshotsKeepContents
  ReadsAreCurrent
  NothingForgotten
  FreshWhenCurrent
PROPERTIES
  RewindUndoesSoleEdit
  RemovalKeepsWork
CHECK_DEADLOCK FALSE

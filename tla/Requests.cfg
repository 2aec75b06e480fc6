SPECIFICATION MCSpec
CONSTANTS
  MaxResults <- Results
  MaxMessages = 5
  MaxCalls = 2
  Outputs = {"long", "huge"}
  Length <- Lengths
  SingleLimit = 8
  AggregateLimit = 4
  SnipChars = 2
  KeepTurns = 1
  Batch = 2
  MinKeep = 1
  Process = {p1}
  Fact = {f1, f2}
  UserFacts = {}
  ScanTokens = 1
  Budget = 3
  Interval = 1
  Gap = 1
  MaxTalk = 4
  MaxClears = 1
  Chain <- ChainOfThree
  MaxReplyCalls = 2
  MaxRequests = 3
  MaxRecoveries = 1
INVARIANTS
  WithinBudget
  TakenAsWritten
PROPERTIES
  SentResultsAreStable
  FactsSurvive
CHECK_DEADLOCK FALSE

SPECIFICATION MCSpec
CONSTANTS
    CallId = {c1, c2, c3}
    Interactive = TRUE
    HasMemory = TRUE
    VerificationGate = TRUE
    IdleCommands = {"compact", "rewind"}
    StreamingCommands = {}
    Loops = {"chat", "agent"}
    MaxIterations = 2
    MinKeepMessages = 3
    UnknownLimit = 2
    MaxRecoveries = 1
    MaxRepairs = 1
    MaxFailures = 1
    MaxPrompts = 2
    MaxCalls = 2
    MaxLen = 3
INVARIANTS
    TypeOK
    ResultsFollowCall
    RequestsWellFormed
    KeptTailIsCurrent
    ContextSent
PROPERTY EveryRunEnds
CHECK_DEADLOCK FALSE

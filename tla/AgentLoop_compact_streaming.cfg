SPECIFICATION MCSpec
CONSTANTS
    CallId = {c1, c2}
    Interactive = TRUE
    HasMemory = FALSE
    VerificationGate = FALSE
    IdleCommands = {}
    StreamingCommands = {"compact"}
    Loops = {"chat"}
    MaxIterations = 2
    MinKeepMessages = 1
    UnknownLimit = 2
    MaxRecoveries = 1
    MaxRepairs = 1
    MaxFailures = 1
    MaxPrompts = 2
    MaxCalls = 2
    MaxLen = 0
INVARIANT NoOrphanResult
CHECK_DEADLOCK FALSE

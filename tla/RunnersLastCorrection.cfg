CONSTANTS
    Unary = {}
    Chat = {}
    Codex = {x1, x2}
    Sessions = {x1, x2}
    NoSession = NoSession
    Events = {"correct"}
    MaxAttempts = 2
    MaxConcurrency = 1
SPECIFICATION Spec
CHECK_DEADLOCK FALSE
INVARIANT ExhaustedLeaderEndsEpisode

CONSTANTS
    Unary = {u1}
    Chat = {c1}
    Codex = {x1}
    Sessions = {u1, c1, x1}
    NoSession = NoSession
    Events = {"cancel", "close", "auth", "correct", "midstream"}
    MaxAttempts = 2
    MaxConcurrency = 1
    BlockIndexes = {1, 2, 3, 4, 5}
    ToolIndexes = {0, 1}
    StreamAttempts = 2
    MaxBlocks = 2
    MaxHeld = 2
    Parts = {"runners", "stream"}
SPECIFICATION ExecutionsSpec
CHECK_DEADLOCK FALSE
INVARIANTS
    PermitsAreTraceable
    StreamsAreSound
PROPERTIES
    EndsAreClean
    KeepsContract

CONSTANTS
    Unary = {u1}
    Chat = {c1}
    Codex = {x1}
    Sessions = {u1, c1, x1}
    Events = {"cancel"}
    NoSession = NoSession
    MaxAttempts = 2
    MaxConcurrency = 1
    BlockIndexes = {1}
    ToolIndexes = {0}
    StreamAttempts = 1
    MaxBlocks = 1
    MaxHeld = 1
    Parts = {"runners"}
SPECIFICATION FairExecutionsSpec
INVARIANT UndisturbedIsClean
PROPERTY
    EveryExecutionEnds

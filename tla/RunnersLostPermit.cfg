CONSTANTS
    Unary = {}
    Chat = {c1, c2}
    Codex = {}
    Sessions = {c1, c2}
    NoSession = NoSession
    Events = {"close"}
    MaxAttempts = 2
    MaxConcurrency = 1
SPECIFICATION Spec
CHECK_DEADLOCK FALSE
INVARIANT EndedHoldsNoPermit

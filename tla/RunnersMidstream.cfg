CONSTANTS
    Unary = {}
    Chat = {c1, c2}
    Codex = {}
    Sessions = {c1, c2}
    NoSession = NoSession
    Events = {"midstream"}
    MaxAttempts = 3
    MaxConcurrency = 2
SPECIFICATION Spec
CHECK_DEADLOCK FALSE
INVARIANT NoPermitDuringBackoff

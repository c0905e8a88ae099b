CONSTANTS
    Nodes = {n1, n2}
    NoNode = NoNode
    MaxTrees = 2
    MaxDeliveries = 2
    MaxInterventions = 2
    Calls = {c1, c2}
    Keys = {"k1", "k2"}
    MaxRetries = 1
    Flows = {f1, f2}
    Notes = {"n1", "n2"}
    Commands = {x1}
    MaxChanges = 3
    MaxCrashes = 1
    MaxWriteErrors = 1
    MaxFlushes = 1
    Conversations = {t1, t2}
    Ids = {1}
    MaxSessions = 2
    MaxTroubles = 1
    MaxPrompts = 2
    MaxSlashes = 2
    LogCap = 3
    MaxHandled = 3
    MaxRefused = 1
SPECIFICATION MessagingSpec
\* Prompts, calls and commands run out.
CHECK_DEADLOCK FALSE
INVARIANTS
    MessagingTypeOK
    AnswersAreCurrent
    VoicesAreSettled
    EveryProcessIsOwned
    ChatIsOwned
PROPERTIES
    SavesAreKept
    ChangesAreSaved
    WorkEnds

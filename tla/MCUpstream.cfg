CONSTANTS
    Sessions = {s1, s2, s3}
    NoSession = NoSession
    MaxAttempts = 2
    MaxConcurrency = 2
    Callers = {c1, c2}
    RateLimit = 2
    RateWindow = 3
    MaxDelay = 2
    MaxClock = 9
    BlockIndexes = {1, 2, 3, 4, 5}
    MaxItems = 2
    MaxCalls = 2
    MaxTexts = 3
    MaxSpoken = 5
    MaxText = 6
    MaxChunk = 3
    MaxEnvelope = 3
    Executions = {x1, x2}
    Upstreams <- MCUpstreams
    MaxTokens = 2
    MaxTries = 3
SPECIFICATION UpstreamSpec
SYMMETRY Symmetry
\* Sessions use up their attempts, the clock stops at its bound, streams end.
CHECK_DEADLOCK FALSE
INVARIANTS
    UpstreamTypeOK
    BulkheadIsExact
    ProbeIsSound
    WaitersAreLed
    WindowIsExact
    ConversionsLoseNothing
    CorrectionsHelp
PROPERTIES
    OutcomeSticks
    OnlyProbesDecide
    AnswersAreWhole

CONSTANTS
    Requests = {q1, q2}
    MaxRuntimes = 2
    MaxCandidates = 2
    MaxParts = 2
    MaxChunks = 3
    MaxCredentials = 3
    MaxOperations = 2
    Messages = {m1, m2}
    MaxFaults = 3
    MaxRequests = 3
    MaxExits = 2
    MaxAssigned = 2
    MaxOps = 3
    Clients = {"hermes", "grok", "muse", "cline", "dsh", "opencode", "codex", "pi", "claude"}
    MaxArgs <- MCMaxArgs
    MaxToInterrupt = 1
    Providers = {"keyed", "local", "account"}
    ToolCapable = {"keyed"}
    LocalProviders = {"local"}
    AccountProviders = {"account"}
    Wording <- MCWording
    MaxPages = 2
    Budgets = {0, 1}
    Configs <- MCConfigs
    Answers <- MCAnswers
    ClaudeNames <- MCClaudeNames
    MaxDiscoveries = 2
    Asks <- MCAsks
    WebSettings <- MCWebSettings
    WebPlaces <- MCWebPlaces
    Hosts <- MCHosts
    MaxRedirects = 1
    BodyCap = 2
    MaxBuffered = 2
SPECIFICATION RequestsSpec
\* A closed manager stays closed, a request and a server end.
CHECK_DEADLOCK FALSE
INVARIANTS
    RequestsTypeOK
    RuntimesAreKept
    CleanupsAreExact
    RequestIsContained
    OfferedModelsHaveAccount
    ShutdownIsOrdered
    
    LaunchesAreOwned
    OffersAreGood
    WebToolsAreContained
PROPERTIES
    CatalogIsCurrent
    OperationsEnd

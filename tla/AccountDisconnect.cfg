CONSTANTS
    Requests = {q1}
    MaxRuntimes = 1
    MaxCandidates = 1
    MaxParts = 1
    MaxChunks = 1
    MaxCredentials = 2
    MaxOperations = 2
    Messages = {m1}
    MaxFaults = 1
    MaxRequests = 1
    MaxExits = 1
    MaxAssigned = 1
    MaxOps = 1
    Clients = {"hermes"}
    MaxArgs <- MCMaxArgs
    MaxToInterrupt = 0
    Providers = {"keyed", "local", "account"}
    ToolCapable = {"keyed"}
    LocalProviders = {"local"}
    AccountProviders = {"account"}
    Wording <- MCWording
    MaxPages = 2
    Budgets = {0, 1}
    Configs <- MCConfigs
    Answers <- MCAnswers
    ClaudeNames <- MCClaudeNames
    MaxDiscoveries = 0
    Asks <- MCAsks
    WebSettings <- MCWebSettings
    WebPlaces <- MCWebPlaces
    Hosts <- MCHosts
    MaxRedirects = 1
    BodyCap = 2
    MaxBuffered = 2
SPECIFICATION RequestsSpec
CHECK_DEADLOCK FALSE
INVARIANT DisconnectRemoves

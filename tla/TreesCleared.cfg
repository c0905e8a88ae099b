CONSTANTS
    Nodes = {n1, n2}
    NoNode = NoNode
    MaxTrees = 2
    MaxDeliveries = 2
    MaxInterventions = 2
    Streamed <- MCStreamed
    Given <- MCGiven
    ResultIds = {"a-task", "b"}
    SameId <- MCSameId
    TaskLike = {"a-task"}
    MaxHeard = 1
    MaxTold = 1
    Limits = {15, 55, 100}
SPECIFICATION TurnsSpec
\* Prompts and commands run out.
CHECK_DEADLOCK FALSE
INVARIANT StopReachesAll

CONSTANTS
    Nodes = {n1, n2, n3}
    NoNode = NoNode
    MaxTrees = 2
    MaxDeliveries = 3
    MaxInterventions = 1
    Streamed <- MCStreamed
    Given <- MCGiven
    ResultIds = {"a-task", "b"}
    SameId <- MCSameId
    TaskLike = {"a-task"}
    MaxHeard = 4
    MaxTold = 2
    Limits = {15, 55, 100}
SYMMETRY Symmetry
SPECIFICATION TurnsSpec
\* Prompts and commands run out.
CHECK_DEADLOCK FALSE
INVARIANTS
    ClaimsHaveTasks
    GraphsAgree
    NothingFromBefore
    TurnIsTold

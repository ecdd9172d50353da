SPECIFICATION CSpec
CONSTANTS
    r1 = r1
    r2 = r2
    todo1 = todo1
    todo2 = todo2
    TestRuns = {r1}
    Todos = {todo1}
    NeedsSuccess <- NoUpstreams
    NeedsEnd <- NoUpstreams
    NoTodo = NoTodo
    QueueSeq <- FirstR1
    RowId <- FirstA
    AgentEnds = {"completed"}
    AgentResults = {"succeeded", "outcome_unknown"}
    MayGiveUp = TRUE
    MayTear = TRUE
    MayCancel = TRUE
    MayUpgrade = TRUE
    MaxTries = 1
    MaxPauses = 1
    MaxCloses = 1
    MaxCrashes = 1
    MaxLosses = 1
    MaxEvents = 2
    MaxRecovery = 1
CHECK_DEADLOCK FALSE
INVARIANTS
    OneDispatch
    BrowserHasHolder
PROPERTIES
    AgentsAreAuthorised

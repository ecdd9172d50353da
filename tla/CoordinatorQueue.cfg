SPECIFICATION LiveSpec
CONSTANTS
    r1 = r1
    r2 = r2
    todo1 = todo1
    todo2 = todo2
    TestRuns = {r1, r2}
    Todos = {todo1}
    NeedsSuccess <- NoUpstreams
    NeedsEnd <- NoUpstreams
    NoTodo = NoTodo
    QueueSeq <- FirstR1
    RowId <- FirstA
    AgentEnds = {"completed"}
    AgentResults = {"succeeded"}
    MayGiveUp = FALSE
    MayTear = FALSE
    MayCancel = FALSE
    MayUpgrade = FALSE
    MaxTries = 1
    MaxPauses = 0
    MaxCloses = 0
    MaxCrashes = 1
    MaxLosses = 1
    MaxEvents = 2
    MaxRecovery = 2
CHECK_DEADLOCK FALSE
PROPERTIES
    StartedRunEnds

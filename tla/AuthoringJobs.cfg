SPECIFICATION Spec
CONSTANTS
    j1 = j1
    j2 = j2
    v1 = v1
    v2 = v2
    NoJob = NoJob
    Jobs = {j1, j2}
    Amendments = {1}
    JobOf <- OfFirst
    VersionOf <- TwoVersions
    Results = {"candidate_ready", "no_change", "blocked"}
    AgentEnds = {"completed", "failed"}
    MaxEvents = 3
    MaxSeq = 4
CONSTRAINT FewEvents
CHECK_DEADLOCK FALSE

    
PROPERTIES
    EndedIsFinal
    CancelActivatesNothing

CONSTANTS
    s1 = s1
    j1 = j1
    j2 = j2
    j3 = j3
    u1 = u1
    Sessions = {s1}
    Jobs = {j1, j2, j3}
    Runs = {j1, j2, j3, u1}
    SessionOf <- MCOneSession
    NoRun = NoRun
    MaxJobs = 3
    MaxRetries = 2
    MaxActive = 2
    MaxQueued = 2
    MaxSeq = 4
SPECIFICATION Spec
INVARIANTS
    OneExecutionPerSession
    RunningIsAlive
    MessagesInOrder
PROPERTIES
    SettledByOwner

CONSTANTS
    s1 = s1
    j1 = j1
    j2 = j2
    j3 = j3
    u1 = u1
    Sessions = {s1}
    Jobs = {j1, j2, j3}
    Runs = {j1, j2, j3, u1}
    SessionOf <- MCOneSession
    NoRun = NoRun
    MaxJobs = 3
    MaxRetries = 1
    MaxActive = 1
    MaxQueued = 1
    MaxSeq = 4
SPECIFICATION FairSpec
INVARIANTS
    NoIdlePermit

    

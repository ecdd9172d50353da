CONSTANTS
    s1 = s1
    s2 = s2
    c1 = c1
    c2 = c2
    v1 = v1
    o1 = o1
    o2 = o2
    o3 = o3
    Sessions = {s1, s2}
    Leases = {c1, c2}
    ControlLeases = {c1, c2}
    Ops = {o1}
    ActOps = {o1}
    NoSession = NoSession
    NoLease = NoLease
    MaxEpoch = 2
SPECIFICATION FairSpec
INVARIANTS
    TypeOK
    

    

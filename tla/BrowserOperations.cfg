CONSTANTS
    s1 = s1
    s2 = s2
    c1 = c1
    c2 = c2
    v1 = v1
    o1 = o1
    o2 = o2
    o3 = o3
    Sessions = {s1}
    Leases = {c1, v1}
    ControlLeases = {c1}
    Ops = {o1, o2, o3}
    ActOps = {o1}
    NoSession = NoSession
    NoLease = NoLease
    MaxEpoch = 2
SPECIFICATION Spec
INVARIANTS
    QueuedWorkIsAlive
    RunsInLedgerOrder
PROPERTIES
    
    ImplementsLedger
SYMMETRY Symmetry

SPECIFICATION LiveArtifacts
CONSTANTS
    Operations = {o1, o2}
    Contents = {c1}
    None = None
    MaxSessions = 2
    MaxArtifacts = 2
    MaxTroubles = 2
CHECK_DEADLOCK FALSE

    
PROPERTIES
    
    ExpiredIsDeleted

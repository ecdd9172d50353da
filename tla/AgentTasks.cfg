SPECIFICATION FairTaskSpec
CONSTANTS
    t1 = t1
    chat = chat
    c1 = c1
    None = None
    Runs <- TaskAndChat
    Tasks <- OneTask
    Calls = {c1}
    Commands = {1, 2}
    MaxActive = 1
    MaxQueued = 1
    MaxSeq = 2
CHECK_DEADLOCK FALSE
INVARIANTS
    LedgerAgrees
PROPERTIES
    CommandsSettle

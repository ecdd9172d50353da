SPECIFICATION TaskSpec
CONSTANTS
    t1 = t1
    chat = chat
    c1 = c1
    None = None
    Runs <- TaskAndChat
    Tasks <- OneTask
    Calls = {c1}
    Commands = {1, 2, 3}
    MaxActive = 1
    MaxQueued = 0
    MaxSeq = 2
CHECK_DEADLOCK FALSE
INVARIANTS
    PausedIsSafe
PROPERTIES
    TerminalIsFinal

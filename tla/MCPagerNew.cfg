SPECIFICATION FairSpec
CONSTANTS
    Procs = {p1, p2}
    MaxPages = 1
    MaxTxns = 2
    Retries = 1
    OldPages = 0
    Errors = FALSE
    PowerFails = FALSE
PROPERTIES
    
    StatementEnds
CHECK_DEADLOCK FALSE

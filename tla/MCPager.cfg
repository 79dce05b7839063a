SPECIFICATION Spec
CONSTANTS
    Procs = {p1, p2}
    MaxPages = 2
    MaxTxns = 2
    Retries = 0
    OldPages = 1
    Errors = TRUE
    PowerFails = TRUE
SYMMETRY Symmetry
INVARIANTS
    CacheCurrent
    NoneHot
    Inductive
PROPERTIES
    
    Undisturbed
CHECK_DEADLOCK FALSE

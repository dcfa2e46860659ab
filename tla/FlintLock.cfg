SPECIFICATION FairSpec
CONSTANTS
    Procs = {"p", "q"}
    Objs = {"x", "y", "z"}
    Owner <- MCOwner
    OfdProcs = {"q"}
    Actions <- MCActions
    MaxCalls = 1
    Faults = {"fd_limit", "fork", "no_locks", "read", "crash"}
INVARIANTS
    OneWriter
    ClosedIsReleased
PROPERTIES
    LockComesFree
    LockReturns
CHECK_DEADLOCK FALSE

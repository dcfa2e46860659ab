SPECIFICATION Spec
CONSTANTS
    NBlocks = 2
    MaxTxn = 2
    MaxUuid = 2
    MaxChangesets = 2
    MaxCopies = 2
    MaxQueue = 1
INVARIANTS
    LiveIsWhole
    EndMeansCaughtUp
CHECK_DEADLOCK FALSE

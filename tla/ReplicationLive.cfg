SPECIFICATION FairSpec
CONSTANTS
    NBlocks = 2
    MaxTxn = 3
    MaxUuid = 1
    MaxChangesets = 1
    MaxCopies = 1
    MaxQueue = 1
PROPERTY
    CatchesUp
CHECK_DEADLOCK FALSE

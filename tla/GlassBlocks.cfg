SPECIFICATION Spec
CONSTANTS
    Slots = 2
    MaxBlocks = 5
    MaxRevision = 3
INVARIANTS CommittedTreeIntact RevisionsCheck
PROPERTY ImplementsCowStore
CHECK_DEADLOCK FALSE

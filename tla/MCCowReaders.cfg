SPECIFICATION MCSpec
CONSTANTS
    Block = {b1, b2, b3}
    Data = {d}
    Reader = {x}
    MaxRevision = 2
SYMMETRY Symmetry
INVARIANTS CommittedIntact ReaderSeesItsRevision
CHECK_DEADLOCK FALSE

SPECIFICATION Spec
CONSTANTS
    Tables <- MCTables
    Reader = {x}
    MaxTxn = 3
    MaxChangesets = 1
INVARIANTS SurvivesPowerFailure AllOrNothing OutcomeStands ChangesetsApply ReaderAtOneRevision
CHECK_DEADLOCK FALSE

SPECIFICATION Spec
CONSTANTS Searches <- MCSearches
          Weights <- MCWeights
INVARIANTS  BestFound
PROPERTY InOrder
CHECK_DEADLOCK FALSE

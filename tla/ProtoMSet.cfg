SPECIFICATION Spec
CONSTANTS
  Settings <- MCSettings
  Weight = {2, 6}
  Value = {1, 2}
  Key = {1, 2}
  Subqs = 2
  MaxDocs = 4
CHECK_DEADLOCK FALSE
INVARIANTS
  MSetIsBest
  MatchesInBounds

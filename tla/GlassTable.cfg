SPECIFICATION Spec
CONSTANTS
  Keys <- MCKeys
  SearchKeys <- MCSearchKeys
  Tags <- MCTags
  Base = 4
  MaxItemSize = 3
  SEQ_START_POINT <- MCSeqStart
  Dangerous = FALSE
  StaleReads = FALSE
  QuietDeletes = TRUE
  Prebuilt <- MCPrebuilt
  MaxSteps = 3
INVARIANTS
  TreeHoldsMap
  BlocksAccounted
  CommittedReadable
  SequentialInOrder
  AnswersRight
CHECK_DEADLOCK FALSE

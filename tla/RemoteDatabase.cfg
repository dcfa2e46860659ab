SPECIFICATION FairSpec
CONSTANTS
  Lengths = {1, 2}
  MaxDocid = 2
  MaxCalls = 4
  NoStats = NoStats
  Faults = {"timeout", "kill_client", "kill_server", "idle", "commit_fails"}
CHECK_DEADLOCK FALSE
INVARIANT RepliesMatch
INVARIANT NothingUnsaved
INVARIANT CachedStatsCurrent
PROPERTY CallsReturn

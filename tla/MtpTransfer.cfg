SPECIFICATION FairSpec
CONSTANTS
  MaxSize = 2
  Versions = {v}
  None = None
CHECK_DEADLOCK FALSE
INVARIANTS HostIsRight
PROPERTIES StopReturns

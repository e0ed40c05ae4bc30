SPECIFICATION FairSpec
CONSTANTS
  MaxChanges = 3
  MaxFaults = 2
  None = None
  Unknown = Unknown
  Idle = Idle
  Asked = Asked
  Failed = Failed
CHECK_DEADLOCK FALSE
INVARIANTS TypeOK RefreshAhead
PROPERTY CatchesUp

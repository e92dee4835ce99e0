CONSTANTS
  CmdCap = 2
  MaxStarts = 1
  MaxConnects = 2
CHECK_DEADLOCK FALSE
SPECIFICATION FairSpec
INVARIANT ShownConnectedIsUp
PROPERTY KeepsTrying

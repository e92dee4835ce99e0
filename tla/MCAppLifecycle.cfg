CONSTANTS
  CmdCap = 2
  MaxStarts = 2
  MaxConnects = 1
CHECK_DEADLOCK FALSE
SPECIFICATION FairSpec
INVARIANTS
  ButtonTellsTheTruth
PROPERTIES
  StoppedServerEnds
  PinKeepsComingUp

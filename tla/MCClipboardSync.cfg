CONSTANTS
  Server = server
  Clients = {client}
  Contents = {text, photo, scan}
  TooLarge = {scan}
  QueueCap = 1
  NetCap = 3
  MaxCopies = 3
CHECK_DEADLOCK FALSE
SPECIFICATION FairSpec
PROPERTIES
  
  OneCopyEndsSilent
  FreshCopyIsShared

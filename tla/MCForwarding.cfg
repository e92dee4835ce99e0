CONSTANTS
  c1 = c1
  c2 = c2
  Clients = {c1, c2}
  Changes <- Copied
  DataCap = 1
SPECIFICATION FairSpec
INVARIANTS
  ServedAreRegistered
  
PROPERTIES
  LockIsServed
  ForwardersComeBack

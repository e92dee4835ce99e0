CONSTANTS
  laptop = laptop
  tablet = tablet
  a1 = a1
  a2 = a2
  a3 = a3
  Names = {laptop, tablet}
  Attempts = {a1, a2, a3}
  NameOf <- TwoDevices
  NotifyCap = 64
CHECK_DEADLOCK FALSE
SPECIFICATION FairSpec
INVARIANTS
  EntryHasItsTask
  DataIsHandedOutOnce
  NoGhost
PROPERTY AllGoneIsNoticed

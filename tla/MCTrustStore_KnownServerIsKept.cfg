CONSTANTS
  desk = desk
  laptop = laptop
  Addresses = {desk}
  Devices = {laptop}
  MaxFresh = 4
  MaxExits = 2
CHECK_DEADLOCK FALSE
SPECIFICATION Spec
INVARIANT KnownServerIsKept

SPECIFICATION FairSpec
CONSTANTS
  s1 = s1
  s2 = s2
  Slots = {s1, s2}
  MaxFailures = 2
  PairedCap = 1
INVARIANTS
  LockMatchesFailures
  GuessesAreBounded
  PairedWasProvisioned
  
  BadPinWasWrong
  
PROPERTIES
  PairedIsRecorded

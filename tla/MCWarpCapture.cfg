CONSTANTS
  ScreenWidth = 2
  QueueCap = 1
  RawSteps <- MCRawSteps
  Strokes = {k}
  OtherStrokes = {side}
  HasWheel = TRUE
SPECIFICATION FairSpec
INVARIANTS
  PrevIsReported
  LocalStaysLocal
PROPERTIES
  NoPhantomDelta
  Ownership

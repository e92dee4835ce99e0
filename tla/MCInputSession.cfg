CONSTANTS
  ScreenWidth = 2
  QueueCap = 1
  RawSteps <- MCSweeps
  Strokes = {k}
  OtherStrokes = {}
  HasWheel = FALSE
  ClientWidth = 2
  EnterX = 1
  NetCap = 1
  NotifyCap = 1
SPECIFICATION SSpec
INVARIANTS
  OneMachine
  StrokesStayFresh
 

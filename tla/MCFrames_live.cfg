\* Commit and leaving far2l come to an end.
SPECIFICATION FramesFairSpec
CONSTANTS
  Parts = {"loops", "exit"}
  f1 = f1
  f2 = f2
  f3 = f3
  Panels = Panels
  NoFrame = NoFrame
  Frames = {f1, f2}
  MaxLoops = 2
  Features = {"nested"}
PROPERTY
  CommitAndExitEnd
CHECK_DEADLOCK FALSE

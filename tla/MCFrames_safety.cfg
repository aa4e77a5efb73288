\* Frames, loops and handlers, whatever is opened, closed and left.
SPECIFICATION FramesSpec
CONSTANTS
  Parts = {"loops", "handlers", "exit"}
  f1 = f1
  f2 = f2
  f3 = f3
  Panels = Panels
  NoFrame = NoFrame
  Frames = {f1, f2}
  MaxLoops = 3
  Features = {"nested", "reopen", "background", "quit", "overmodal"}
SYMMETRY Symmetry
INVARIANT
  FramesTypeOK
  FramesAreKept
  LoopsNest
  NothingUnsaved
  HandlersLive

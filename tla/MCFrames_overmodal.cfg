\* A plugin opens a viewer over a dialog.
SPECIFICATION FramesSpec
CONSTANTS
  Parts = {"loops"}
  f1 = f1
  f2 = f2
  f3 = f3
  Panels = Panels
  NoFrame = NoFrame
  Frames = {f1, f2}
  MaxLoops = 3
  Features = {"overmodal"}
SYMMETRY Symmetry
INVARIANT
  KeysGoToTop
CHECK_DEADLOCK FALSE

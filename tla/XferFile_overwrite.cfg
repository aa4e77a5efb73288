\* A connection breaks before the file to be overwritten is opened.
SPECIFICATION XferSpec
CONSTANTS
  Sizes = {0, 2, 3}
  BufSize = 2
  Kinds = {"copy", "move", "onsite"}
  UserAnswers = {"retry", "skip", "cancel"}
  MaxBreaks = 1
  Existing = {TRUE}
  FreshBreaks = TRUE
  ShortReads = FALSE
  Aborts = FALSE
INVARIANT
  NothingLost
CHECK_DEADLOCK FALSE

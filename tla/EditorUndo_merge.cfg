\* An edit after a save.
SPECIFICATION EditorSpec
CONSTANTS
  Positions = {0, 3}
  InitialLines = 1
  MaxLines = 2
  MaxEdits = 2
  MaxBlocks = 1
  UndoSize = 3
  CursorMoves = FALSE
  SavesFail = FALSE
  PluginsExpand = FALSE
INVARIANT
  NotModifiedIsSaved
CHECK_DEADLOCK FALSE

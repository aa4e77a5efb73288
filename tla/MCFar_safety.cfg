\* What is kept, and in which order.
SPECIFICATION FarSpec
CONSTANTS
  Parts = {"calls", "queue", "editor", "history", "synchro", "shell"}
  Limits = {0, 1, 4}
  MaxItems = 6
  Features = {"ask", "log", "switch", "kill"}
  MaxUnread = 3
  t1 = t1
  t2 = t2
  d1 = d1
  d2 = d2
  d3 = d3
  Main = Main
  NoThread = NoThread
  NoDelegate = NoDelegate
  Threads = {t1, t2}
  Delegates = {d1, d2}
  MaxDepth = 2
  MaxInput = 2
  Scans = FALSE
  w1 = w1
  w2 = w2
  Producer = Producer
  Workers = {w1, w2}
  Positions = {0, 3}
  InitialLines = 2
  MaxLines = 3
  MaxEdits = 3
  MaxBlocks = 2
  UndoSize = 3
  CursorMoves = TRUE
  SavesFail = FALSE
  PluginsExpand = FALSE
  i1 = i1
  n1 = n1
  n2 = n2
  n3 = n3
  Instances = {i1}
  Names = {n1, n2, n3}
  MaxCount = 2
  Dialog = FALSE
  Forbids = TRUE
  Addresses = {a1, a2}
  Infos = {task1, task2}
  MaxPosts = 3
  MaxLoads = 2
  MaxTasks = 2
  MaxHandlers = 2
INVARIANTS
  FarTypeOK
  QueuesAreKept
  UndoIsSound
  NotModifiedIsSaved
  KeptStay
  TerminalIsOnesOwn
CHECK_DEADLOCK FALSE

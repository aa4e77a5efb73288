\* Nobody waits for ever.
SPECIFICATION FarFairSpec
CONSTANTS
  Parts = {"calls", "queue", "synchro", "shell"}
  Limits = {0, 1}
  MaxItems = 4
  Features = {"ask"}
  MaxUnread = 3
  t1 = t1
  t2 = t2
  d1 = d1
  d2 = d2
  d3 = d3
  Main = Main
  NoThread = NoThread
  NoDelegate = NoDelegate
  Threads = {t1, t2}
  Delegates = {d1, d2}
  MaxDepth = 2
  MaxInput = 2
  Scans = FALSE
  w1 = w1
  w2 = w2
  Producer = Producer
  Workers = {w1, w2}
  Positions = {0, 3}
  InitialLines = 2
  MaxLines = 3
  MaxEdits = 3
  MaxBlocks = 2
  UndoSize = 4
  CursorMoves = TRUE
  SavesFail = FALSE
  PluginsExpand = FALSE
  i1 = i1
  n1 = n1
  n2 = n2
  n3 = n3
  Instances = {i1}
  Names = {n1, n2, n3}
  MaxCount = 2
  Dialog = FALSE
  Forbids = TRUE
  Addresses = {a1, a2}
  Infos = {task1, task2}
  MaxPosts = 2
  MaxLoads = 2
  MaxTasks = 1
  MaxHandlers = 2
PROPERTIES
  CallsAreServed
  ItemsAreProcessed
  CallsReturn
  EventsArrive
CHECK_DEADLOCK FALSE

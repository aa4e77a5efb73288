\* What callers are promised, through three levels of nested dispatching.
SPECIFICATION SpecWithHistory
CONSTANTS
  t1 = t1
  t2 = t2
  d1 = d1
  d2 = d2
  d3 = d3
  Main = Main
  NoThread = NoThread
  NoDelegate = NoDelegate
  Threads = {t1, t2}
  Delegates = {d1, d2, d3}
  MaxDepth = 3
  MaxInput = 2
  Scans = TRUE
SYMMETRY Symmetry
INVARIANTS
  TypeOK
  CallsAreKept
PROPERTIES
  ImplementsService
  StartsInOrder

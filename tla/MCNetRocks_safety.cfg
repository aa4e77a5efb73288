\* What is neither lost nor forgotten.
SPECIFICATION NetSpec
CONSTANTS
  Parts = {"pool", "xfer", "host", "task", "cmd"}
  i1 = i1
  i2 = i2
  c1 = c1
  c2 = c2
  c3 = c3
  s1 = s1
  s2 = s2
  g = g
  f1 = f1
  f2 = f2
  f3 = f3
  f4 = f4
  Ids = {i1, i2}
  Conns = {c1, c2, c3}
  Sites = {s1, s2}
  Groups = {g}
  SiteOf <- SitesOf
  GroupOf <- GroupsOf
  Files = {f1, f2}
  NoFile = NoFile
  NoConn = NoConn
  BufSize = 2
  MaxSessions = 2
  MaxFailures = 1
  MaxUnread = 2
  AbortAtPeer = TRUE
  Expirations = {0, 2, 5}
  OldAge = 8
  MayFail = FALSE
  Sizes = {0, 1, 2, 3, 4}
  Kinds = {"copy", "move", "onsite"}
  UserAnswers = {"retry", "skip", "cancel"}
  MaxBreaks = 3
  Existing = {FALSE, TRUE}
  FreshBreaks = FALSE
  ShortReads = TRUE
  Aborts = TRUE
  MaxAborts = 2
  EarlyAbort = TRUE
  MaxDepth = 8
  Identities = TRUE
  PluginsMenus = TRUE
  Exits = TRUE
  LostAborts = TRUE
  Faults = {"fail", "crash"}
INVARIANTS
  NetTypeOK
  TransfersAreSound
  ConnectionsAreSound
  LocksAreKept
PROPERTIES
  HostsStayWatched
  KeepsPromise
  SingularIsTrue
CHECK_DEADLOCK FALSE

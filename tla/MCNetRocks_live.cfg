\* What ends.
SPECIFICATION NetFairSpec
CONSTANTS
  Parts = {"pool", "xfer", "host", "task", "cmd"}
  i1 = i1
  i2 = i2
  c1 = c1
  c2 = c2
  c3 = c3
  s1 = s1
  s2 = s2
  g = g
  f1 = f1
  f2 = f2
  f3 = f3
  f4 = f4
  Ids = {i1, i2}
  Conns = {c1, c2}
  Sites = {s1}
  Groups = {g}
  SiteOf <- SitesOf
  GroupOf <- GroupsOf
  Files = {f1, f2}
  NoFile = NoFile
  NoConn = NoConn
  BufSize = 2
  MaxSessions = 2
  MaxFailures = 1
  MaxUnread = 1
  AbortAtPeer = TRUE
  Expirations = {3}
  OldAge = 6
  MayFail = TRUE
  Sizes = {0, 2, 3}
  Kinds = {"copy", "move"}
  UserAnswers = {"retry"}
  MaxBreaks = 2
  Existing = {FALSE, TRUE}
  FreshBreaks = FALSE
  ShortReads = TRUE
  Aborts = FALSE
  MaxAborts = 1
  EarlyAbort = FALSE
  MaxDepth = 8
  Identities = FALSE
  PluginsMenus = FALSE
  Exits = TRUE
  LostAborts = FALSE
  Faults = {"fail", "abort", "heirs"}
PROPERTIES
  EndsCome
  RetrySucceeds
  CommandsEnd
CHECK_DEADLOCK FALSE

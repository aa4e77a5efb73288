\* What is neither lost nor mistaken.
SPECIFICATION TerminalSpec
CONSTANTS
  Parts = {"console", "tty", "sudo"}
  Screens = {s1, s2}
  Events = {anEnter, aKick, aSync}
  Scenarios <- Talks
  Silent = {t2}
  Confirms = TRUE
  MayFail = FALSE
  aKey = aKey
  anEnter = anEnter
  anEsc = anEsc
  aKick = aKick
  aTitle = aTitle
  aSync = aSync
  App = App
  Kind <- KindOf
  MaxSent = 255
  Threads = {t1, t2}
  MaxConns = 2
  Nobody = Nobody
INVARIANTS
  TerminalTypeOK
  NothingVanishes
  SyncIsTrue
  AnswersMatch
  ConnectionIsKept
  ModifiesAreConfirmed
CHECK_DEADLOCK FALSE

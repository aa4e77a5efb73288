\* Whoever waits is woken, and the screen is shown.
SPECIFICATION TerminalFairSpec
CONSTANTS
  Parts = {"console", "tty", "sudo"}
  Screens = {s1}
  Events = {anEnter, anEsc, aKick, aTitle}
  Scenarios <- PaintsAndWaits
  Silent = {t2}
  Confirms = FALSE
  MayFail = TRUE
  aKey = aKey
  anEnter = anEnter
  anEsc = anEsc
  aKick = aKick
  aTitle = aTitle
  aSync = aSync
  App = App
  Kind <- KindOf
  MaxSent = 255
  Threads = {t1, t2}
  MaxConns = 1
  Nobody = Nobody
PROPERTIES
  KicksWake
  ScreenIsShown
  WaitsEnd
  OperationsEnd
CHECK_DEADLOCK FALSE

SPECIFICATION MCSpec
CONSTANTS
  r1 = r1  r2 = r2  w1 = w1  h1 = h1  h2 = h2  adm = adm  eng = eng  opr = opr  d1 = d1
  None = None
  WorkOrders = {w1}
  Requests = {r1, r2}
  HoldReasons = {h1, h2}
  Admins = {adm}
  Engineers = {eng}
  Operators = {opr}
  Details = {d1}
  SlowRequests = TRUE
  MaxClock = 2
  MaxHistory = 6
SYMMETRY RequestSymmetry
INVARIANTS StatusIsLastRow HistoryRowsLegal WindowFilterIsSafe HistoryTellsWhy
PROPERTIES TerminalIsFrozen DowntimeIsTrue
CHECK_DEADLOCK FALSE

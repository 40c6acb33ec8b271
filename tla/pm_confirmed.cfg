SPECIFICATION Spec
CONSTANTS
  r1 = r1  r2 = r2
  None = None
  Requests = {r1}
  Pms = {1}
  Intervals = {2}
  Limit = None
  Interleaved = FALSE
  FirstDay = 4
  DueDates = {4}
  MaxDay = 4
  MaxOrders = 2
PROPERTIES ClosingAdvances
CHECK_DEADLOCK FALSE

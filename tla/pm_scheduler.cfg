SPECIFICATION MCFairSpec
CONSTANTS
  r1 = r1  r2 = r2
  None = None
  Requests = {r1, r2}
  Pms = {1, 2}
  Intervals = {2}
  Limit = None
  Interleaved = TRUE
  FirstDay = 4
  DueDates = {4}
  MaxDay = 4
  MaxOrders = 2
INVARIANTS SoftLinkIsOwn
PROPERTIES DueGetsOrder
CHECK_DEADLOCK FALSE

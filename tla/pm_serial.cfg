SPECIFICATION Spec
CONSTANTS
  r1 = r1  r2 = r2
  None = None
  Requests = {r1}
  Pms = {1}
  Intervals = {0, 1, 3}
  Limit = 1
  Interleaved = FALSE
  FirstDay = 4
  DueDates = {4, 5, 6, 7}
  MaxDay = 7
  MaxOrders = 2
INVARIANTS TypeOK OneOrderPerPm
PROPERTIES GeneratedWhenDue DueMovesWithCloses
CHECK_DEADLOCK FALSE

SPECIFICATION MCSpec
CONSTANTS
  w1 = w1  w2 = w2  ann = ann  p1 = p1  f1 = f1  f2 = f2  u1 = u1  k1 = k1  q1 = q1
  Jobs = {w1}
  People = {ann}
  Assigned <- AssignedDef
  Recipients = {p1}
  Profiles <- ProfilesDef
  Flushers = {f1, f2}
  Daily = f1
  Limit = 2
  MaxAttempts = 2
  MaxBackground = 1
  MaxFaults = 1
  Orders = {w1, w2}
  Owners = {u1}
  IdemKeys = {k1}
  Forwards = {q1}
  Cron = f1
  NoOne = NoOne
  SyncLimit = 2
  MaxTries = 1
  MaxNotes = 2
  MaxIssues = 2
  MaxMishaps = 1
  MaxAsked = 4
INVARIANTS NoticesGoOnce CommentsGoOnce ForwardsAreWhole
PROPERTIES NoticesDelivered NoticesSettle CommentsDelivered DeletedNotesStayHome
CHECK_DEADLOCK FALSE

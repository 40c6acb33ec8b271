SPECIFICATION SyncSpec
CONSTANTS
  Orders = {w1}
  Owners = {u1}
  IdemKeys = {k1}
  Forwards = {q1}
  Cron = cron
  NoOne = NoOne
  SyncLimit = 1
  MaxTries = 1
  MaxNotes = 1
  MaxIssues = 1
  MaxMishaps = 0
INVARIANT EveryNoteQueued
CHECK_DEADLOCK FALSE

\* Two tasks of one chat, and three ticks: a recurring task fires twice, and late.
CONSTANTS
  t1 = t1
  t2 = t2
  a = a
  b = b
  TaskId = {t1, t2}
  Chat = {a}
  MaxTime = 3
  Requests <- MCRequests
  CanFail = TRUE
SPECIFICATION MCSpec
INVARIANTS
  TypeOK
  AtMostOnce
  FiringsAccountedFor
  PositiveCountLimitsFirings
PROPERTIES
  CancelledStaysCancelled
  DueTaskStarts
CHECK_DEADLOCK FALSE

\* One recurring task whose count is 0, and three ticks.
CONSTANTS
  t1 = t1
  t2 = t2
  a = a
  b = b
  TaskId = {t1}
  Chat = {a}
  MaxTime = 3
  Requests <- MCZeroCount
  CanFail = FALSE
SPECIFICATION Spec
INVARIANT CountLimitsFirings
CHECK_DEADLOCK FALSE

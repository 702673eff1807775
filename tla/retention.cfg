SPECIFICATION Spec
CONSTANTS
  t1 = t1
  t2 = t2
  t3 = t3
  Task = {t1, t2, t3}
  NoTask = NoTask
  Part = {p1}
  CacheTTL = 1
  TaskTTL = 2
  ObjectTTL = 3
  Delay = 0
  Lag = 1
  Horizon = 7
  Forever = 99
SYMMETRY Symmetric
CHECK_DEADLOCK FALSE
INVARIANTS
  TypeOK
  CompletedTaskServed
  CompletedEntryExpires

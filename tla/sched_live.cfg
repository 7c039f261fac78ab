SPECIFICATION FairSpec
CONSTANTS
  t1 = t1
  t2 = t2
  t3 = t3
  b1 = b1
  b2 = b2
  a1 = a1
  a2 = a2
  Tasks = {t1, t3}
  NoTask = NoTask
  MaxRuns = 3
  PidTracked = TRUE
  Schedulers = {s1}
  Boards = {b1, b2}
  BoardOf <- TwoBoards
  Assignees = {a1}
  Strangers = {}
  Concurrency <- Single
  Reassigning = FALSE
  Unreliable = {b2}
  SchedulerFaults <- Survivable
CHECK_DEADLOCK FALSE
PROPERTIES
  ReadyCardIsServed

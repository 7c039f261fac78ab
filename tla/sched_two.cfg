SPECIFICATION Spec
CONSTANTS
  t1 = t1
  t2 = t2
  t3 = t3
  b1 = b1
  b2 = b2
  a1 = a1
  a2 = a2
  Tasks = {t1, t2}
  NoTask = NoTask
  MaxRuns = 2
  PidTracked = TRUE
  Schedulers = {s1, s2}
  Boards = {b1}
  BoardOf <- OneBoard
  Assignees = {a1}
  Strangers = {}
  Concurrency <- Single
  Reassigning = FALSE
  Unreliable = {b1}
  SchedulerFaults <- EveryFault
CHECK_DEADLOCK FALSE
SYMMETRY Interchangeable
INVARIANTS
  CapPerScheduler

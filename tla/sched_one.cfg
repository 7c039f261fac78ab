SPECIFICATION Spec
CONSTANTS
  t1 = t1
  t2 = t2
  t3 = t3
  b1 = b1
  b2 = b2
  a1 = a1
  a2 = a2
  Tasks = {t1, t2, t3}
  NoTask = NoTask
  MaxRuns = 2
  PidTracked = TRUE
  Schedulers = {s1}
  Boards = {b1, b2}
  BoardOf <- TwoBoards
  Assignees = {a1}
  Strangers = {a2}
  Concurrency <- Single
  Reassigning = TRUE
  Unreliable = {b1, b2}
  SchedulerFaults <- Survivable
CHECK_DEADLOCK FALSE
INVARIANTS
  TypeOK
  NoForgottenClaim
  CapPerBoard
  WorkerPidIsCurrent

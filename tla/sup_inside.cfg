SPECIFICATION Spec
CONSTANTS
  Tasks = {t1}
  NoTask = NoTask
  MaxRuns = 2
  PidTracked = TRUE
  AdapterStatuses = {"success"}
  Faults <- InsideFaults
CHECK_DEADLOCK FALSE
INVARIANTS
  TypeOK
  WorkerGoneBeforeVerdict
  ExitCodeMatchesVerdict
  SignalledRunLeavesCard
  NoOrphanOnExit

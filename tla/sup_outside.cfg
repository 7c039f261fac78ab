SPECIFICATION Spec
CONSTANTS
  Tasks = {t1}
  NoTask = NoTask
  MaxRuns = 2
  PidTracked = TRUE
  AdapterStatuses = {"success"}
  Faults <- OutsideFaults
CHECK_DEADLOCK FALSE
INVARIANTS
  OpenRunHoldsCard
PROPERTIES
  RunfileOutlivesWorker
  ImplementsContract

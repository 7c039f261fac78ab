SPECIFICATION Spec
CONSTANTS
  Tasks = {t1}
  NoTask = NoTask
  MaxRuns = 1
  PidTracked = TRUE
  AdapterStatuses = {"success"}
  Faults = {}
CHECK_DEADLOCK FALSE
INVARIANTS
  SignalledNeverWrites

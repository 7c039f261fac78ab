SPECIFICATION Spec
CONSTANTS
  Tasks = {t1}
  NoTask = NoTask
  MaxRuns = 2
  PidTracked = FALSE
  AdapterStatuses <- AcpStatuses
  Faults <- ClaimOnlyFaults
CHECK_DEADLOCK FALSE
INVARIANTS
  ClaimOnlyRunIsClosed

SPECIFICATION FairSpec
CONSTANTS
  Tasks = {t1}
  NoTask = NoTask
  MaxRuns = 1
  PidTracked = TRUE
  AdapterStatuses = {"success"}
  Faults <- LivenessFaults
CHECK_DEADLOCK FALSE
PROPERTIES
  RunEnds
  LostClaimStopsWorker
  OrphanSwept
  DeadRunIsBooked

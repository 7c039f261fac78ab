SPECIFICATION Spec
CONSTANTS
  Starting = 1
  Preparing = 1
  Lag = 1
  Poll = 1
  Timeout = 12
  LaneGrace = 6
  SignalGrace = 1
  Reaping = 1
  Collecting = 1
  Interval = 2
  TTL = 24
  Misses = 1
  HermesGrace = 6
INVARIANTS
  TypeOK
  KillFindsGroupGone
  LostClaimStopsInTime
  ClaimOutlivesRun
  WorkerWithinTimeout

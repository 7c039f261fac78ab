SPECIFICATION FairSpec
CONSTANTS
  Procs = {p1, p2}
  Runs = {r1}
  Nobody = Nobody
INVARIANTS
  TypeOK
  LockIsTheDaemons
  SweepSparesSupervised
  OrphanHasFile
PROPERTIES
  StopIsHeeded

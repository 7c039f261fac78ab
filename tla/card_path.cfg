SPECIFICATION Spec
CONSTANTS
  Assignees = {"wr:a", "wr:b"}
  EnvPolicies <- TwoPolicies
  Policies <- Contents
  BaseAllowlist = {"PATH", "HOME"}
  DeniedNames = {"HERMES_KANBAN_TASK", "HERMES_KANBAN_RUN"}
  Kinds <- EveryKind
  Files <- FilesOf
  Parents <- ParentsOf
  Trees <- TreesOf
  Paths <- PathsOf
  Requests <- RequestsOf
  Commands <- CommandsOf
  Acps <- AcpsOf
  MaxChanged = 2
  MaxPreexisting = 1
CHECK_DEADLOCK FALSE
INVARIANTS
  TypeOK
  LaneIsTheFiles
  AcceptedLaneStarts
  ChildIsConfined
  OutcomeIsEarned
  EvidenceIsTheRuns

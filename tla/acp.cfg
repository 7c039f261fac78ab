SPECIFICATION FairSpec
CHECK_DEADLOCK FALSE
INVARIANTS
  TypeOK
  KnownAgentGone
  AnswerNotLost
PROPERTIES
  CrashEndsSession
  CancelEnds

SPECIFICATION FairSpec
CONSTANTS
  c1 = c1
  c2 = c2
  NULL = NULL
  Call = {c1, c2}
  MaxSources = 2
INVARIANTS AnsweredOnce OnlyAuthorized
PROPERTY Answered
CHECK_DEADLOCK FALSE

SPECIFICATION Spec
CONSTANTS
  NumSources = 3
CHECK_DEADLOCK FALSE
INVARIANTS TypeOK NoTruncatedSuccess SameSource
PROPERTY Terminates

SPECIFICATION Spec
CONSTANTS
  Names = {"x"}
  MaxNodes = 3
  MaxDecls = 3
  MaxItems = 2
INVARIANTS
  TypeOK
  DepthRestored
  TermsRead
  ScopesAgree
  SwitchesSound
CHECK_DEADLOCK FALSE

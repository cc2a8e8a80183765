SPECIFICATION Spec
CONSTANTS
  Names = {"x", "y"}
  MaxNodes = 2
  MaxDecls = 2
  MaxItems = 1
INVARIANT LocalsDeclared
CHECK_DEADLOCK FALSE

CONSTANTS
  MaxNodes = 4
  MaxArgs = 1
CHECK_DEADLOCK FALSE
SPECIFICATION Spec
INVARIANTS TypeOK RefsResolve IndexesResolve 

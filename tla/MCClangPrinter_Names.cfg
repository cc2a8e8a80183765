SPECIFICATION Spec
CONSTANTS
  Idents = {x}
  Args = {a1, a2}
  Blocks = {b1, b2}
  MaxDecls = 4
SYMMETRY Alike
INVARIANTS TypeOK  NestedNamesEnd
CHECK_DEADLOCK FALSE

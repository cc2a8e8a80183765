CONSTANTS
  Plain = {A, B}
  Pattern = T
  Instances = {S}
  Blocks = {N1}
  None = None
  UserMembers <- Shapes
  Options <- Elaborating
  Used = {"CopyConstructor"}
  Cxx11 = TRUE
CHECK_DEADLOCK FALSE
SPECIFICATION Spec
SYMMETRY Alike
INVARIANTS TypeOK Elaborated InstancesDeclared DefinedOnce PatternsKept

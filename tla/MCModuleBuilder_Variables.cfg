SPECIFICATION Spec
CONSTANTS
  Decl <- MCDecl
  TU = tu
  NoDecl = null
  Asts <- MCAsts
  Templates = {FALSE}
  Filters <- DefaultFilter
  MaxDecls = 3
  Profiles <- Variables
CHECK_DEADLOCK FALSE
INVARIANT VariablesInModule

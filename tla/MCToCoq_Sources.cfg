SPECIFICATION ToCoqSpec
CONSTANTS
  Decl <- MCDecl
  TU = tu
  NoDecl = null
  Asts <- MCAsts
  Templates = {TRUE, FALSE}
  Filters <- DefaultFilter
  MaxDecls = 6
  Profiles <- PrintedSources
  Requests <- ModuleRequest
  BlockedSets = {{}}
  Unprintables = {{}}
  FrontEnd = {FALSE}
CHECK_DEADLOCK FALSE
INVARIANTS DefinitionsKept MethodsResolve AssertionsHold

SPECIFICATION ToCoqSpec
CONSTANTS
  Decl <- MCDecl
  TU = tu
  NoDecl = null
  Asts <- MCAsts
  Templates = {TRUE, FALSE}
  Filters <- DefaultFilter
  MaxDecls = 3
  Profiles <- FileSources
  Requests <- AnyRequest
  BlockedSets <- AnyRequest
  Unprintables <- OneUnprintable
  FrontEnd = {TRUE, FALSE}
CHECK_DEADLOCK FALSE
INVARIANTS ToCoqTypeOK NoTruncatedSuccess
PROPERTIES Terminates ImplementsDriver

SPECIFICATION Spec
CONSTANTS
  Decl <- MCDecl
  TU = tu
  NoDecl = null
  Asts <- MCAsts
  Templates = {TRUE, FALSE}
  Filters <- DefaultFilter
  MaxDecls = 7
  Profiles <- AllSources
CHECK_DEADLOCK FALSE
INVARIANTS TypeOK PendingInv NoDuplicates OneEntryPerEntity MembersRecorded
           InstancesRecorded TemplatesApart
PROPERTY Progress

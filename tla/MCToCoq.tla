------------------------------- MODULE MCToCoq -------------------------------
(***************************************************************************)
(* ToCoq on the sources of MCModuleBuilder.                                *)
(***************************************************************************)
EXTENDS ToCoq, MCModuleBuilder

\* All combinations of outputs.
AnyRequest == SUBSET File

\* The module only, and the module with its templates.
ModuleRequest == {{"output"}, {"output", "templates"}}

\* At most one declaration the printers die on.
OneUnprintable == {{}} \cup {{d} : d \in MCDecl}

\* A class, its members and a variable, with what they may become.
FileConstructs ==
  {C("entity", "CXXRecord", ""), C("plain", "TypedefName", ""), C("entity", "Function", ""),
   C("plain", "StaticAssert", ""), C("template", "FunctionTemplate", "")}

FileSources == {Profile(FileConstructs, 2, 3)}

\* Three constructs without templates, and four with them.
PrintedSources == {Profile(EntityConstructs, 3, 4), Profile(TemplateConstructs, 4, 6)}
==============================================================================

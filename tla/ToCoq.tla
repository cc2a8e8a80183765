-------------------------------- MODULE ToCoq --------------------------------
(***************************************************************************)
(* ToCoqConsumer::toCoqModule (src/src/ToCoq.cpp): build_module, then the  *)
(* three files, one after the other; and what Coq makes of the module, the *)
(* function decls of theories/lang/cpp/parser.v.                           *)
(*                                                                         *)
(* ModuleBuilder is the first phase.  A printed declaration is an entry of *)
(* the list in the file; PrintDecl (src/src/PrintDecl.cpp) is abstracted   *)
(* to its outcome: an entry, nothing, a failed assertion, or die().        *)
(***************************************************************************)
EXTENDS ModuleBuilder

CONSTANTS
  Requests,      \* the sets of files the command line may ask for
  BlockedSets,   \* the sets of paths that may be impossible to open
  Unprintables,  \* the sets of declarations the printers may die on
  FrontEnd       \* the values errors may have

File == {"output", "notations", "templates"}

ASSUME ToCoqAssumption ==
  /\ Requests \subseteq SUBSET File
  /\ BlockedSets \subseteq SUBSET File
  /\ Unprintables \subseteq SUBSET Decl
  /\ FrontEnd \subseteq BOOLEAN

After(f) ==
  CASE f = "output" -> "notations"
    [] f = "notations" -> "templates"
    [] f = "templates" -> "end"

VARIABLES
  requested,    \* output_file_, notations_file_, templates_file_ with a value
  blocked,      \* the paths that cannot be opened
  unprintable,  \* declarations with a construct some printer dies on
  errors,       \* the front end has reported errors
  phase,        \* "build", then a file, then "end"
  queue,        \* the declarations still to print in that file
  open,         \* the files whose stream is open
  closed,       \* the files written to the end
  entries,      \* for each file the declarations in its list
  exit          \* "running", or the exit code: "success" is 0, "failure" 1

building == <<ast, templates_, filter_, visited_, stack, declarations_,
              definitions_, template_declarations_, template_definitions_,
              asserts_, specs_>>
fixed    == <<requested, blocked, unprintable, errors>>
files    == <<queue, open, closed, entries>>
all      == <<building, fixed, phase, files, exit>>

\* The declarations each file is printed from.
Content(f) ==
  CASE f = "output" -> declarations_ \o definitions_ \o asserts_
    [] f = "notations" -> definitions_ \o declarations_
    [] f = "templates" -> template_declarations_ \o template_definitions_

(***************************************************************************)
(* PrintDecl::Visit, by the kind of the declaration.                       *)
(***************************************************************************)
\* What a printer of expressions, types and names makes of d.
Printed(d) == IF d \in unprintable THEN "die" ELSE "entry"

\* VisitVarDecl prints nothing for a templated variable.
PrintVar(d) == IF d \in ast.dependent THEN "nothing" ELSE Printed(d)

\* VisitCXXRecordDecl: a class that is only declared is a Dtype, a name; bit
\* fields and bases that are no classes are fatal in a definition.
PrintRecord(d) == IF ast.definition[d] # d THEN "entry" ELSE Printed(d)

\* VisitFunctionDecl: the signature with the body, or in the templates file
\* the arguments of a specialization, which must be types.
PrintFunction(d) == Printed(d)

\* VisitCXXMethodDecl, VisitCXXConstructorDecl with its initializers, and
\* VisitCXXDestructorDecl.
PrintMember(d) == Printed(d)

\* VisitEnumDecl prints names and a builtin type, VisitEnumConstantDecl also
\* the initializer.
PrintEnum(d) == IF ast.kind[d] = "Enum" THEN "entry" ELSE Printed(d)

PrintStaticAssert(d) == Printed(d)

\* VisitFunctionTemplateDecl and VisitClassTemplateDecl assert that templates
\* are being printed; class templates are then reported and dropped.
PrintTemplate(f, d) ==
  CASE f # "templates" -> "assertion"
    [] ast.kind[d] = "ClassTemplate" -> "nothing"
    [] OTHER -> Printed(d)

\* VisitLinkageSpecDecl: "we never print these things".  A namespace would
\* print as a constructor parser.v does not have.
PrintContext(d) == "assertion"

\* The handlers that return false without printing; typedefs are switched off
\* by PRINT_TYPEDEF.
PrintIgnored(d) == "nothing"

\* VisitDecl and VisitTypeDecl, for a kind without a handler of its own.
PrintUnknown(d) == "die"

printDecl(f, d) ==
  LET k == ast.kind[d]
  IN CASE k = "Var" -> PrintVar(d)
       [] k \in RecordKinds -> PrintRecord(d)
       [] k = "Function" -> PrintFunction(d)
       [] k \in FunctionKinds \ {"Function"} -> PrintMember(d)
       [] k \in {"Enum", "EnumConstant"} -> PrintEnum(d)
       [] k = "StaticAssert" -> PrintStaticAssert(d)
       [] k \in {"FunctionTemplate", "ClassTemplate"} -> PrintTemplate(f, d)
       [] k \in {"Namespace", "LinkageSpec"} -> PrintContext(d)
       [] k \in {"TypedefName", "Friend", "Ignored"} -> PrintIgnored(d)
       [] OTHER -> PrintUnknown(d)

\* write_globals: notations for classes and typedefs; a field or a type may
\* still be one the printers die on.
write_globals(d) ==
  CASE ast.kind[d] \notin RecordKinds \cup {"TypedefName"} -> "nothing"
    [] d \in unprintable -> "die"
    [] OTHER -> "entry"

Outcome(f, d) == IF f = "notations" THEN write_globals(d) ELSE printDecl(f, d)

(***************************************************************************)
(* The steps of toCoqModule.                                               *)
(***************************************************************************)
ToCoqInit ==
  /\ Init
  /\ requested \in {r \in Requests : "templates" \in r <=> templates_}
  /\ blocked \in {b \in BlockedSets : b \subseteq requested}
  /\ unprintable \in Unprintables
  /\ errors \in FrontEnd
  /\ phase = "build"
  /\ queue = <<>>
  /\ open = {}
  /\ closed = {}
  /\ entries = [f \in File |-> <<>>]
  /\ exit = "running"

Build ==
  /\ phase = "build"
  /\ Next
  /\ UNCHANGED <<fixed, phase, files, exit>>

Built ==
  /\ phase = "build"
  /\ Done
  /\ phase' = "output"
  /\ UNCHANGED <<building, fixed, files, exit>>

\* with_open_file without a path, or with one that cannot be opened: the error
\* is printed and the next file is tried.
PassOver_Retry ==
  /\ exit = "running" /\ phase \in File \ open
  /\ phase \notin requested \/ phase \in blocked
  /\ phase' = IF phase \in blocked THEN phase ELSE After(phase)
  /\ UNCHANGED <<building, fixed, files, exit>>

PassOver ==
  /\ exit = "running" /\ phase \in File \ open
  /\ phase \notin requested \/ phase \in blocked
  /\ phase' = After(phase)
  /\ UNCHANGED <<building, fixed, files, exit>>

OpenFile ==
  /\ exit = "running" /\ phase \in File \ open
  /\ phase \in requested \ blocked
  /\ open' = open \cup {phase}
  /\ queue' = Content(phase)
  /\ UNCHANGED <<building, fixed, phase, closed, entries, exit>>

\* printDecl returns true: the entry is completed with a cons.
PrintEntry ==
  /\ exit = "running" /\ phase \in open /\ queue # <<>>
  /\ Outcome(phase, Head(queue)) = "entry"
  /\ entries' = [entries EXCEPT ![phase] = Append(@, Head(queue))]
  /\ queue' = Tail(queue)
  /\ UNCHANGED <<building, fixed, phase, open, closed, exit>>

PrintNothing ==
  /\ exit = "running" /\ phase \in open /\ queue # <<>>
  /\ Outcome(phase, Head(queue)) = "nothing"
  /\ queue' = Tail(queue)
  /\ UNCHANGED <<building, fixed, phase, open, closed, entries, exit>>

\* logging::die in some printer.
Die_ExitZero ==
  /\ exit = "running" /\ phase \in open /\ queue # <<>>
  /\ Outcome(phase, Head(queue)) = "die"
  /\ exit' = "success"
  /\ UNCHANGED <<building, fixed, phase, files>>

Die_Abort ==
  /\ exit = "running" /\ phase \in open /\ queue # <<>>
  /\ Outcome(phase, Head(queue)) = "die"
  /\ exit' = "abort"
  /\ UNCHANGED <<building, fixed, phase, files>>

Die ==
  /\ exit = "running" /\ phase \in open /\ queue # <<>>
  /\ Outcome(phase, Head(queue)) = "die"
  /\ exit' = "failure"
  /\ UNCHANGED <<building, fixed, phase, files>>

CloseFile ==
  /\ exit = "running" /\ phase \in open /\ queue = <<>>
  /\ open' = open \ {phase}
  /\ closed' = closed \cup {phase}
  /\ phase' = After(phase)
  /\ UNCHANGED <<building, fixed, queue, entries, exit>>

Return ==
  /\ exit = "running" /\ phase = "end"
  /\ exit' = IF errors THEN "failure" ELSE "success"
  /\ UNCHANGED <<building, fixed, phase, files>>

ToCoqNext ==
  \/ Build \/ Built \/ PassOver \/ OpenFile \/ PrintEntry \/ PrintNothing
  \/ Die \/ CloseFile \/ Return

\* A sequential program: it takes its next step.
ToCoqSpec == ToCoqInit /\ [][ToCoqNext]_all /\ WF_all(ToCoqNext)

(***************************************************************************)
(* What Coq makes of the output file (theories/lang/cpp/parser.v).         *)
(***************************************************************************)
\* Redeclarations have one mangled name.
Name(d) == ast.canonical[d]

\* decls inserts the entries in order, a later one over an earlier one of the
\* same name; Dstatic_assert inserts nothing.
decls(es) ==
  LET inserts == {i \in DOMAIN es : ast.kind[es[i]] # "StaticAssert"}
      last(n) == CHOOSE i \in inserts :
                   /\ Name(es[i]) = n
                   /\ \A j \in inserts : Name(es[j]) = n => j <= i
  IN [n \in {Name(es[i]) : i \in inserts} |-> es[last(n)]]

module == decls(entries["output"])

\* The entry of d holds the definition.  FunctionDecl::getBody finds the body
\* from any redeclaration, isCompleteDefinition and hasInit are about d only.
Complete(d) ==
  IF ast.kind[d] \in FunctionKinds THEN ast.definition[d] # NoDecl ELSE ast.definition[d] = d

(***************************************************************************)
(* Properties.                                                             *)
(***************************************************************************)
\* Every variable added by toCoqModule has its type.
ToCoqTypeOK ==
  /\ requested \in SUBSET File /\ blocked \in SUBSET File
  /\ unprintable \in SUBSET Decl
  /\ errors \in BOOLEAN
  /\ phase \in File \cup {"build", "end"}
  /\ queue \in Seq(Decl)
  /\ open \in SUBSET File /\ closed \in SUBSET File
  /\ entries \in [File -> Seq(Decl)]
  /\ exit \in {"running", "success", "failure"}

Loaded == "output" \in closed

\* Once the output file is written, the translation unit Coq builds from it
\* has every class and function by its definition, if the source has one: no
\* later entry of the same name takes its place.
DefinitionsKept ==
  Loaded => \A n \in DOMAIN module :
              ast.kind[n] \in RecordKinds \cup FunctionKinds /\ ast.definition[n] # NoDecl
                => Complete(module[n])

\* Once the output file is written, every member function of a class of the
\* translation unit that is not deleted is a symbol of it: Dstruct refers to
\* methods and destructors by name only.  Without -templates a class that is
\* still uninstantiated there has none.
MethodsResolve ==
  Loaded => \A c \in Range(module) :
              ast.kind[c] \in RecordKinds /\ (templates_ \/ c \notin ast.dependent) =>
                \A m \in Range(ast.members[c]) :
                  ast.kind[m] \in FunctionKinds /\ m \notin ast.deleted
                    => Name(m) \in DOMAIN module

\* No declaration the traversal lists trips an assertion of PrintDecl: no
\* template is printed in the output file, and nothing that "we never print".
AssertionsHold ==
  phase \in open /\ queue # <<>> => Outcome(phase, Head(queue)) # "assertion"

\* The three files are printed from one traversal and none is cut short when
\* the program reports success: what could be opened is written to the end.
NoTruncatedSuccess == exit = "success" => open = {} /\ closed = requested \ blocked

\* The program ends, whatever cannot be opened or printed.
Terminates == <>(exit # "running")

\* What the environment of cpp2v sees of one source is a behaviour of Driver.
D == INSTANCE Driver WITH
       NumSources <- 1,
       source   <- 1,
       at       <- IF phase = "build" THEN "parse" ELSE phase,
       open     <- open # {},
       writer   <- [f \in File |-> IF f \in open \cup closed THEN 1 ELSE 0],
       complete <- File \ open,
       errors   <- phase # "build" /\ errors

\* Refinement of the driver's view of a run with one source.
ImplementsDriver == D!Spec
==============================================================================

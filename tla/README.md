# A TLA+ model of cpp2v

cpp2v is the front end of BRiCk: a clang tool that reads a C++ translation unit
and writes it as a Coq value (`module`), with optional files of notations and of
templates. BRiCk's program logic, the Coq development under `theories/`, is about
that value; if the tool drops a declaration, prints one twice or binds a name
wrongly, proofs are about another program than the one compiled. The Coq part
is checked by Coq. The tool is not, and this project is about the tool.

Paths below are relative to the repository. `PROJECT.json` maps each definition
to the lines it models.

## 1. The system

cpp2v is one process with one thread. Concurrency in the usual sense does not
exist; what is hard is order. Clang's parser calls the tool at points that
depend on the source, Sema changes the AST between the calls, the AST is a
graph with cycles that is walked recursively, state is kept between sibling
expressions, and any printer may end the program in the middle of a file.

| Part | Source | State | Operations |
|---|---|---|---|
| Driver | `src/cpp2v.cpp`, `src/Logging.cpp` | options, exit code | read the options, one `ToCoqAction` per source, `die` |
| Elaborate | `src/Elaborate.cpp`, `src/FromClang.cpp`, `include/ToCoq.hpp` | none of its own; it changes the AST | the `Handle...` callbacks and `AddedCXXTemplateSpecialization` |
| ModuleBuilder | `src/ModuleBuilder.cpp`, `include/ModuleBuilder.hpp` | `visited_`, the lists of `::Module` | one `Visit...` per kind of declaration, `go`, `add_definition`, `add_declaration` |
| Filter, SpecCollector | `include/Filter.hpp`, `include/SpecCollector.hpp` | specifications | `shouldInclude`, `add_specification` |
| ToCoq | `src/ToCoq.cpp` | three output streams | `toCoqModule`, `with_open_file`, `printDecl` |
| PrintDecl, NotationWriter | `src/PrintDecl.cpp`, `src/NotationWriter.cpp` | the stream | one handler per kind of declaration |
| PrintExpr, OpaqueNames | `src/PrintExpr.cpp`, `include/OpaqueNames.hpp` | `OpaqueNames`: opaque values, anonymous objects, loop count | one handler per kind of expression |
| PrintStmt, PrintLocalDecl | `src/PrintStmt.cpp`, `src/PrintLocalDecl.cpp` | the stream; in C++ and in Coq, the scopes | one handler per kind of statement and local declaration |
| PrintType | `src/PrintType.cpp` | the stream | one handler per kind of type, `printQualType` |
| ClangPrinter | `src/ClangPrinter.cpp` | the mangler | `printTypeName`, `printObjName`, `printSimpleContext`, `printField` |
| CoqPrinter, Formatter, StringPrettyPrinter | `include/CoqPrinter.hpp`, `src/Formatter.cpp`, `src/StringPrettyPrinter.cpp` | depth, pending spaces, string state | constructors, lists, indentation, strings |
| SpecWriter, CommentScanner | `src/SpecWriter.cpp`, `src/CommentScanner.cpp` | - | switched off (`#if 0`) or not called |
| Reader | `theories/lang/cpp/parser.v`, `syntax/types.v`, `logic/expr.v`, `logic/stmt.v` | symbol and type tables | `decls`; the binders of expressions; `wp_block`, `wp_switch_block`; `normalize_type` |

How they interact. `main` gives every source a `ToCoqConsumer` with the same
three paths. During parsing clang calls the consumer, which makes Sema declare
and define implicit members (Elaborate). After parsing, `HandleTranslationUnit`
calls `toCoqModule`: `build_module` walks the AST and fills the lists, then each
file is opened, printed from the lists by the printers and closed. Coq later
evaluates the output file: `decls` inserts its entries into tables.

What makes each part correct:

- ModuleBuilder: an entity is in one list, once, by its definition if it has
  one; members follow their class; instances are found although several paths
  lead to them with different flags; the walk ends.
- ToCoq and the reader: what is printed is what was collected, the definition
  survives in Coq's table, and references by name resolve.
- Driver: success is never reported with a truncated file or with files from
  different sources; the program ends.
- Elaborate: every implicit member that should exist does, with one body; code
  that is still dependent is not touched.
- PrintExpr: the names it invents are bound where they are used, by the
  expression they are meant for.
- PrintStmt: what it prints is a term; a local name stands for the variable that
  C++ finds; no case of a switch is lost.
- PrintType: a type has one meaning in Coq, however the source spells it.
- ClangPrinter: different types and objects have different names.

The hazards, each at its line, are listed in `PROJECT.json`.

## 2. Modules

| Module | Models | State and actions |
|---|---|---|
| `ModuleBuilder` | `build_module` | `visited_`, the lists and the call stack (`stack`, next call first); one action per handler. `Asts` is a set of ASTs, `Filters` of filters |
| `MCModuleBuilder` | - | builds the ASTs of all small sources, construct by construct |
| `ModuleBuilderProofs` | - | proofs about `ModuleBuilder`; the second half about what the finished walk has recorded |
| `ToCoq` | `toCoqModule`, the printers by outcome, Coq's `decls` | extends `ModuleBuilder` by `phase`, `queue`, `open`, `closed`, `entries`, `exit` |
| `MCToCoq`, `ToCoqProofs` | - | sources and command lines for `ToCoq`; proofs |
| `Driver` | `main` seen from outside | which source wrote which path, and the exit code; the abstract specification that `ToCoq` implements |
| `DriverProofs` | - | proofs about `Driver` |
| `Elaborate` | the consumer's callbacks | status of the six special members of each class; actions of the parser, of Sema and of the handlers |
| `MCElaborate`, `ElaborateProofs` | - | small classes; proofs |
| `PrintExpr` | the expression printer and `OpaqueNames` | a stack of handlers, the `OpaqueNames` objects, the names printed |
| `PrintExprProofs` | - | proofs about `PrintExpr` |
| `CoqPrinter` | `CoqPrinter` on `Formatter` | operators on the output: the open parentheses, each with its constructor and the sorts of what is in it |
| `PrintStmt` | the printers of statements and local declarations, and how Coq reads their output | extends `CoqPrinter`; a stack of handlers, each with what it still has to print, the variables in scope in C++ and in Coq, and the labels of a switch; the output |
| `PrintStmtProofs` | - | proofs about `PrintStmt` |
| `ClangPrinter`, `MCClangPrinter` | the names of types and objects | the declarations of a source; one action per kind of declaration, names as operators; `ctx` is what `printSimpleContext` prints of each context |
| `ClangPrinterProofs` | - | proofs about `ClangPrinter` |
| `PrintType` | the type printer and `normalize_type` | a type, layer by layer; one action per way to build a type, printer and reader as functions |
| `PrintTypeProofs` | - | proofs about `PrintType` |

What is abstracted. Clang is external: an AST is a record of the functions that
the code calls (`members`, `specializations`, `definition`, `previous`, ...),
and assumptions say what the code relies on: `AstAssumption`, a local is listed
by its owner only and redeclarations agree on canonical declaration, definition
and kind; `TemplateAssumption`, uninstantiated code is inside a template,
behind `getTemplatedDecl()`, or `Detached` (a redeclaration outside the template,
a partial specialization, a variable); `ScopeAssumption`, namespaces are
found in namespaces only, and a member function is first declared in its class,
by which alone that declaration is listed, and defined there or in the file;
`InstanceAssumption`, only templates have specializations, a namespace stands in
one place, and an explicit instance is declared after its template, so that a
walk in the order of the source comes to the template first.
TLC evaluates all of them on the ASTs of the runs. Recursion is a stack of calls; a handler replaces its call by the
calls it makes, in order. Text is left out: a printed declaration is its place
in the list of a file, a printed name is a number with the binder it meant and
the binder Coq finds. A printer's outcome is an entry, nothing, a failed
assertion, or `die`; which declarations have an unsupported construct inside is
an input (`Unprintables`). In `PrintExpr` a handler is the sequence of its
subexpressions with the names it passes (`li`) or does not (`new`), and the
calls on `OpaqueNames` in between; the expression is chosen as the printer
reaches it, among those clang builds (`MayRefer`, `MayIndex`, `MayProject`).
`PrintStmt` does the same for statements: a handler is its `code`, a list of
what it writes and of what it leaves to other handlers, and the output keeps the
sort of every argument (`Stmt`, `Expr`, a list, an option), so that a missing
parenthesis or a label outside a list is visible. In `ClangPrinter` a name is a
sequence of components, among them the letters N and E of the mangling; the
actions are the declarations C++ accepts in each context. Components are told
apart by their kind, which the text need not show: nothing ends the first field
in the name of an unnamed record, so that `.a` before `1b` reads like `.a1b`. In `PrintType` a
type is a sequence of layers with their local qualifiers; as in clang, each layer
carries its canonical type, found when it is built (`Canonical`). `Part` is the
layer that a handler prints, `printType` the printed term, `normalize_type` what Coq
makes of that.

Composition: `ToCoq` extends `ModuleBuilder` (its first phase) and implements
`Driver` for one source, by the instance `D` with a refinement mapping.

Definitions with a suffix such as `FunctionGo_EveryRedecl` are variants with a
plausible slip; nothing uses them in the model. `PROJECT.json` lists which
property finds which.

## 3. Runs

| Run | Shows |
|---|---|
| `module_sources` | on all sources of 3 constructs without templates and 4 with them, with and without `-templates`: `PendingInv`, `NoDuplicates`, `OneEntryPerEntity`, `MembersRecorded`, `InstancesRecorded`, `TemplatesApart`, and that every step makes progress (`Progress`) |
| `tocoq_sources` | the same kind of sources to Coq's table: `DefinitionsKept`, `MethodsResolve`, and no assertion of the printer fails (`AssertionsHold`) |
| `tocoq_files` | any set of requested files, blocked paths, one unprintable declaration, errors of the front end: `NoTruncatedSuccess`, `Terminates`, and refinement of `Driver` (`ImplementsDriver`) |
| `driver_sources` | three sources: `NoTruncatedSuccess`, `SameSource`, `Terminates` |
| `elaborate_classes` | two classes (also nested), a template, an instance and a namespace: `Elaborated`, `InstancesDeclared`, `DefinedOnce`, `PatternsKept` |
| `expr_names` | expressions of four nodes with subexpressions: `RefsResolve`, `IndexesResolve`, `BindingsResolve` |
| `stmt_scopes` | function bodies of three statements: the assertion of `printStmt` (`DepthRestored`), the output is a term (`TermsRead`), names stand for the same variables in C++ and in Coq (`ScopesAgree`), and Coq gives no meaning to a switch of which it would lose a case (`SwitchesSound`) |
| `clang_names` | sources of four declarations: names agree only where one scope has declarations that the naming scheme cannot tell apart (`NamesApart`), and the N and E of nested names match (`NestedNamesEnd`) |
| `type_spellings` | types of five layers: Coq reads the type clang has, however it is spelled (`TypesAgree`) |

Each module has a type invariant besides. Three runs end in a violation, where
the code does not do what a document or a comment says:

- `module_variables`: the condition at `ModuleBuilder.cpp:191` is inverted;
  without `-templates`, variables outside templates are not in the module.
- `module_instances`: with `-templates`, the instances of a class template that
  another class template befriends are in the template lists only.
- `stmt_init`: the variable of the init-statement of an `if` is used in the
  output and not declared there.

Where the code is known to fall short, a property that holds of all the rest
says so precisely instead of leaving the case out of the model:

- `ScopesAgree` excepts variables that are declared in an init-statement or under
  a label, block-scope `extern` declarations, and a variable in its own
  initializer.
- `TermsRead` excepts a `case` that is not directly in a block: it is printed
  as an element of a list, where none is.
- `RefsResolve`: below a constructor conversion the name of `x ?: y` is lost; it
  is never captured. In a default argument that is printed again with the same
  `OpaqueNames`, `find` returns the older name, which no expression with those
  `OpaqueNames` binds. An expression around them can: when new `OpaqueNames` are
  made below `x ?: y` and the default argument is printed twice with them, its
  older name is 0 again, the name of the outer `x ?: y`. The run is too small to
  show this (it takes five nodes); the proof is what brought it up.
- `TemplatesApart`, `MembersRecorded`, `MethodsResolve`: a class that clang lists
  outside its template although it is not instantiated (a member class defined
  out of line, a partial specialization of a member template) is in the module,
  and without `-templates` its member functions are not. `Strays` are these
  declarations and what is inside them.
- `NamesApart` excepts (`Confused`) unnamed records with the same first field,
  types of one name in two blocks of a function, and two instances of one
  template without destructors. The names of such instances come from clang's
  `printQualifiedName`, which prints every record without a tag around them the
  same way, a record with a typedef name too (`Untagged`). The run is too small
  for two of these to matter; the proof attempt is what showed them.
- `TypesAgree`: qualifiers of an alias of an array of no known size are read as
  those of a pointer (`Misread`); those of an alias of an array stay on the
  array in Coq, which has no rule that moves them to the elements (`Sunk`).
- `InstancesRecorded` and `DefinitionsKept`: instances declared again after
  their definition, and initializers of variables declared again; both are
  among the hazards.

### Bounds

- Sources. Three constructs without templates suffice for a declaration, its
  redeclaration and a friend or member that reaches it from elsewhere; four with
  templates for a template, an instance, a class that befriends it and a
  redeclaration. `MaxDecls` bounds the declarations these make (a befriended
  template makes three). The theorems of `ModuleBuilderProofs` have no bound.
- The filter is `Default(DEFINITION)`, the only one `toCoqModule` makes; the
  theorems hold for all filters.
- Files. Two constructs and one unprintable declaration let each of the three
  files fail at its first and at its second entry, or be blocked.
- Driver. With three sources a source can fail between two that succeed.
- Elaborate. Two plain classes can be nested, side by side, or in and out of
  the namespace; three shapes of class are nothing declared, a copy assignment
  (which leaves the implicit copy constructor out), and a move constructor
  defaulted in the class with a copy assignment defaulted outside. `Used`
  bounds what Sema uses on its own. The plain classes are symmetric.
- PrintExpr. `MaxNodes` 4: a binder in a binder with an operator in between and
  a finished one before; `MaxArgs` 1: calls with and without an argument.

- PrintStmt. `MaxNodes` 3: a label in a block in a switch, or a scope in a
  scope with a use after the inner one. One name is the interesting number:
  with one, every variable shadows the others, and variables of different names
  do not meet. The block of a switch is not counted. `MaxDecls` 3 is the
  parameter and two more, or the three hidden variables of a range-for.
- ClangPrinter. `MaxDecls` 4 makes two pairs of a context and what is in it;
  one identifier, since names that differ in an identifier differ. Two `Args`
  and two `Blocks`, which are symmetric, make two instances and two local types.
- PrintType. `MaxLayers` 5 is the least in which a parameter decays from a
  qualified alias of an array, or a reference to an alias of a reference is the
  target of another alias.

`CHECK_DEADLOCK FALSE`: the program ends.

### Fairness

`Driver` and `ToCoq` assume weak fairness of the next-state relation: a
sequential program takes its next step. Nothing is assumed about which step,
and no other module needs fairness.

## 4. Proofs

`ModuleBuilderProofs`, for every AST that satisfies `AstAssumption` (of any
size, with any cycles), every filter and both settings of `-templates`:

- `TypeCorrect`, `NothingTwice`, `OneEntry`: `TypeOK`, `NoDuplicates` and
  `OneEntryPerEntity` are invariants.
- `EveryStepProgresses`: each step visits a new declaration or leaves fewer
  calls. As there are finitely many declarations, the walk ends; that last
  step (well-founded induction) is not formalised.

`NoDuplicates` is not inductive: a pending call of `go` could add what is in a
list already. `PendingInv` says that this cannot be, through `visited_`: each
pending `go` and each entry belongs to a declaration whose home (itself, or
the owner of a local) has been visited; a pending `go` is not in a list and not
pending twice; and entries represent their entity (the definition, or the first
declaration of an entity that has none). A handler runs on a declaration just
marked as visited, so the calls it adds are new. Each handler has a lemma; what
its calls must satisfy is `TodoOK`. `OneEntry` follows since two entries that
represent one entity are the same declaration.

- `PendingIsNew`: `PendingInv` by itself.
- `UninstantiatedApart`: `TemplatesApart`. By induction over the calls: `KindsInv`
  says of which kinds pending declarations are, and `StrayInv` that a pending
  call or an entry of the module on uninstantiated code, without `in_template`,
  is on a stray. The flag is never cleared on the way down, so only what clang
  lists outside a template can start such a chain (`TemplateAssumption`).

Its second half, under the filter that keeps every definition (`EverythingKept`,
which is what `Default(DEFINITION)` of `toCoqModule` does; a filter that drops
members would make the claim false):

- `MembersAreRecorded`: `MembersRecorded`. The property speaks of the end of the
  walk; the invariant `MembersInv` says of every earlier moment that a member
  function is recorded or still to come: `ReachInv`, what the translation unit or a
  visited namespace lists has been visited or is about to be (`Awaited`);
  `FlagsInv`, a pending visit of a declaration that only the file lists has no
  flags, so nothing keeps it from recording; `OutlineInv`, a visited definition
  outside its class is recorded; `LocalsInv`, the enumerators and static
  locals of what is recorded are recorded with it; `MethodsInv`, the members of a recorded class are visited or awaited, not in
  a template, and recorded once visited. At the end nothing is awaited.
- `InstancesAreRecorded`: `InstancesRecorded`. How an instance is recorded depends
  on the flags of the first call that reaches it, so the invariant (`InstanceInv`)
  is about the order of the calls. `OrderInv`: the stack is what is left of one
  call of the file (`DeepInv`) over the calls that the file still has, in the order
  of the source (`FlatInv`); what a visited declaration leads to is visited or among
  the former; and an instance is called without the flag of its template only
  after the template (`InstanceAssumption`). So the first visit of an instance
  comes from its template (`TemplateFirst`). `KeptInv`: a visited instance is
  recorded or about to be.

`ElaborateProofs`, for any classes, instances, blocks and members:

- `ElaborateTypes`: `TypeOK`.
- `DefinedAtMostOnce`: `DefinedOnce`. The invariant adds that a member that
  has been defined has status `defined` (`OnceInv`) and that classes not opened
  and instances not completed have no members (`BlankInv`); completing an
  instance overwrites its members, and only the latter shows that nothing
  defined is lost. All handlers go through one lemma about a visit.
- `PatternsAlone`: `PatternsKept`, inductive by itself, given what a recursive
  visit can reach (`BlockLemma`).
- `ClassesElaborated`, `InstancesElaborated`: `Elaborated`, `InstancesDeclared`.
  `DeclInv`: when a class is complete its implicit members have been declared,
  since its own callback comes at its end. `DueInv`: a defaulted member without a
  body is in a class inside `Root`, the top-level declaration still to be
  handled; `NestInv`, every class is inside the declaration at the bottom of the
  parser's context, so the visit of that declaration reaches it. `Inside` is the
  least set closed under nesting, as an intersection, which makes both directions
  of that argument first-order.

`DriverProofs`, for any number of sources:

- `DriverTypes`, `SuccessIsComplete`, `FilesOfOneSource`: `TypeOK`,
  `NoTruncatedSuccess` and `SameSource`. The invariant (`Generation`) says which
  generation each file is of: while no source had errors, the files up to the
  current one are of this source and the others of the source before; a file
  that cannot be opened is never written. So when the last source is done all
  files are of it.

`ToCoqProofs`, for any AST, any requested and blocked files and any unprintable
declarations:

- `SuccessWritesAll`: `NoTruncatedSuccess`, since the files are written one at a
  time, in order (`FilesInv`).
- `ToCoqTypes`: `ToCoqTypeOK`.
- `NoAssertionFails`: `AssertionsHold`, from `KindsInv` and the invariant that the
  queue of a file is a part of the lists it is printed from (`TableInv`): templates
  are recorded with `in_template` only.
- `TableKeepsDefinitions`: `DefinitionsKept`. All entries of the output file are
  entries of the module, and each represents its entity (`PendingInv`); so the
  last entry of a name, which is what `decls` keeps, is as complete as any.
- `MethodsAreSymbols`: `MethodsResolve`, under `EverythingKept`: from
  `MembersRecorded` and `CoverInv`, which says that what the module records is
  printed already or in the queue while the output file is being written.
- `ToCoqRefinesDriver`: the initial states and the steps of `ToCoq` are those of
  `Driver` with one source, or stutter. `FilesInv` is what shows that no file is
  open when the next one is tried.

`PrintExprProofs`, for expressions of any size and shape (`MaxNodes` and `MaxArgs`
are any numbers):

- `PrintExprTypes`: `TypeOK`, in which the bounds of `_index_count` are the
  interesting part.
- `OpaqueNamesResolve`, `LoopIndexesResolve`, `BindingNamesResolve`: `RefsResolve`,
  `IndexesResolve`, `BindingsResolve`.

None is inductive: each speaks of names already printed, and what makes the next
one right is what handlers and `OpaqueNames` have in common. `WaitInv`: below the
top, a handler is printing a subexpression. `ChainInv`: handlers that pass their
names on share one `OpaqueNames`. `BoundInv`: the entry of an active binder is at
its name and is the last with its value; `ApartInv`: `OpaqueNames` made above it
do not have the value; `DistinctInv`: active binders have different values.
`CountInv`, `LevelInv`: `_index_count` is one less than the number of active
binders between `inc_index_count` and `dec_index_count`, and the level of a loop
counts those up to it. `AnonInv`: `anonymous` has the structured binding between
`push_anon` and `pop_anon`, and nothing else. A reference is then resolved by
hand: nothing between it and its binder binds (`NothingBetween`), so the name
that `find` returns has this binder as its innermost.

`PrintStmtProofs`, for functions of any size (`MaxNodes`, `MaxDecls` and the
names are any):

- `StmtTypes`: `TypeOK`; the counts that a switch keeps are bounded by its labels.
- `DepthsRestored`: `DepthRestored`, the assertion at the end of `printStmt`.
- `ScopesAgreed`: `ScopesAgree`. `SwitchesMean`: `SwitchesSound`.
- `TermsAreRead`: `TermsRead`.

The invariant of the first four has a part for each thing that a handler shares
with those above it. `CallInv`: below the top a handler is at a call. `DepthInv`:
what is left of the code of each handler brings the formatter from the depth it
has after the call back to the depth at which the handler began (`DepthPath`).
`NameInv`: what a handler has declared in C++ it has declared in Coq, save what is
never printed and what a declaration or a label still has to hand to its caller;
`HiddenInv` and `NumberInv`: the variables that a range-for hides have the number
of their loop, the others have different numbers. `SwitchInv`: a case that
`wp_switch_block` does not see is in a statement that it will refuse. For `TermsRead`
the output is abstracted to what is still open: constructors with the number of
arguments they have got, and lists. `TermInv` says that the rest of the code of
each handler, token by token, is a path (`TermPath`) that closes what the handler
opened and leaves one argument of the sort its caller expects; a step takes the
first token of such a path, or replaces it by the path of another handler.

`ClangPrinterProofs`, for sources of any number of declarations, nested in any
way, and any identifiers:

- `Accepted`: the invariant `Sound`. `Shape`, declarations have their types and
  stand after their context; `Contained`, a context holds declarations, and no
  instance is local to a function; `ScopesApart`, the declarations of a scope are
  different in what C++ tells them apart by; `LinkersApart`, the same for the
  functions of extern "C". One lemma per action shows that the source `Grows`,
  by a declaration that fits or by a change that leaves the names alone.
- `NamesCounted`: `TypeOK`. `NestedNamesEnded`: `NestedNamesEnd`.
- `NamesKeptApart`: `NamesApart`.

The names of a sound source follow by induction along the tree of contexts
(`TreeInduction`). `ctx` satisfies its defining equation since each context stands
before what is in it (`TreeRecursion`). A name is what is printed of the context,
a last component (`Key`), and maybe an E; so equal names have equal keys and
contexts with equal names (`FrontEqual`). Among the declarations of a scope, equal
keys mean one of the confusions (`SiblingsConfused`), and contexts with equal names
are the same scope by induction (`SameTexts`), or `SameQualifiers` for
the names that `printQualifiedName` prints. The names of objects are words that no
type name has, around type names (`FormsEqual`).

`PrintTypeProofs`, for types of any number of layers (`MaxLayers` is any number but
0):

- `TermsKnown`: `TypeOK`, in which the interesting part is that Coq knows every
  constructor that is printed.
- `SpellingsAgree`: `TypesAgree`.

The invariant is `Sound`: every layer fits on the one below it (`FitsOn`), its
canonical type is the one that is built from that of the layer below, and it is
well-formed (`WF`): arrays hold no references and functions, a parameter has no
qualifiers, and neither arrays, references nor functions have any of their own.
`TypesAgree` itself compares a term that is written outermost first with a type that
is built innermost first, and says nothing about a part of it. In its place stands
`Means`, between a type that Coq has and one that clang has: heads agree, and a
qualifier reaches a head in Coq, through the arrays around it (`Reaches`), exactly
if clang has it there. `MeansEqual` shows that this is what `TypesAgree` says.
`printType` and `normalize_type` satisfy their defining equations (`PrintFacts`,
`NormalizeCons`), since the part of a layer stands below it and what a constructor is
applied to behind it. Then each layer means its type if its part does
(`LayerMeans`), with a case for each kind of handler: qualifiers merge with those
that are there already (`PrintedMeans`); a reference points to what the innermost of
several references points to (`ReferencesTo`); the elements of a decayed array have
the qualifiers of the aliases around the array (`SugarCanonical`,
`TailQualified`). `QualsMatter` is where `Misread` is needed.

Only model-checked: liveness, and with it the fairness of `Driver`. The induction
theorems of the library take an operator as a parameter, which the installed
provers cannot instantiate; the proofs above use the least element of a set
instead (`WFMin`), and recursive functions in place of recursive operators.

## 5. Not modelled

- The fields of declarations, the constructors of expressions, all layout and
  all text. `ToCoq` knows a declaration by its canonical declaration, so a name
  that `ClangPrinter` gives twice does not show there.
- In `ClangPrinter`: names of parameters, value categories and sizes. In
  `PrintType`: sizes, calling conventions, and the types that depend on a
  template parameter. In `PrintStmt`: statements that clang has not resolved
  (`-templates`); expressions are words, see `PrintExpr`.
- `StringPrettyPrinter`: nothing calls `escaped_str`. `CommentScanner`,
  `SpecWriter`: not called or switched off.
- In Elaborate: function templates, and the two callbacks for function
  definitions, which get functions that have their bodies.
- The Coq development, other than the definitions that read the output.

## 6. Plan

Done: the traversal, the files, the driver, elaboration, and the printers of
expressions, statements, types and names, each checked and proved as above. What
would come next:

1. Statements that clang has not resolved (`-templates`) in `PrintStmt`, and
   variable templates in `ToCoq`.
2. A proof that the walk ends, from `EveryStepProgresses`.

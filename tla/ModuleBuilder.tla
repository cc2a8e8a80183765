---------------------------- MODULE ModuleBuilder ----------------------------
(***************************************************************************)
(* build_module (src/src/ModuleBuilder.cpp): the traversal of clang's AST  *)
(* that sorts the declarations of a translation unit into the five lists   *)
(* of a ::Module (src/include/ModuleBuilder.hpp).                          *)
(*                                                                         *)
(* The recursive visitor is an explicit work stack.  An item is either a   *)
(* pending call Visit(d, flags) or a pending call go(d, flags, definition);*)
(* a handler pops its own item and pushes, in call order, the calls its    *)
(* body makes.  One action per handler.                                    *)
(*                                                                         *)
(* The AST is clang's: an external object the visitor only reads.          *)
(***************************************************************************)
EXTENDS Naturals, Sequences, Functions

CONSTANTS
  Decl,       \* declarations, as identified by Decl::getID()
  TU,         \* the TranslationUnitDecl
  NoDecl,     \* the null Decl pointer
  Asts,       \* the ASTs the front end may hand over
  Templates,  \* the values the templates_ flag may have
  Filters     \* the filters: functions from Decl to What

What == {"NOTHING", "DECLARATION", "DEFINITION"}

Kinds ==
  {"Namespace", "LinkageSpec", "CXXRecord", "ClassTemplateSpecialization",
   "Enum", "EnumConstant", "TypedefName", "Var", "Function", "CXXMethod",
   "CXXConstructor", "CXXDestructor", "ClassTemplate", "FunctionTemplate",
   "VarTemplate", "StaticAssert", "Friend", "Ignored", "Unsupported"}

FunctionKinds == {"Function", "CXXMethod", "CXXConstructor", "CXXDestructor"}
RecordKinds   == {"CXXRecord", "ClassTemplateSpecialization"}

(***************************************************************************)
(* What the visitor reads of an AST.                                       *)
(*   members          decls() of a context; for an enum its enumerators(), *)
(*                    for a function its static local variables            *)
(*   specializations  specializations() of a template                      *)
(*   templated        getTemplatedDecl() of a class template               *)
(*   friendDecl       getFriendDecl()                                      *)
(*   previous         getPreviousDecl()                                    *)
(*   canonical        getCanonicalDecl(), the first declaration            *)
(*   definition       getDefinition()                                      *)
(*   deleted          isDeleted()                                          *)
(*   implicit         isImplicit()                                         *)
(*   dependent        isDependentContext(), for a variable isTemplated(),  *)
(*                    for what is no context that of its context           *)
(*   commented        declarations with a raw comment                      *)
(***************************************************************************)
AstShape(a) ==
  /\ a.kind \in [Decl -> Kinds]
  /\ a.members \in [Decl \cup {TU} -> Seq(Decl)]
  /\ a.specializations \in [Decl -> Seq(Decl)]
  /\ a.templated \in [Decl -> Decl \cup {NoDecl}]
  /\ \A t \in Decl : a.kind[t] = "ClassTemplate" => a.templated[t] # NoDecl
  /\ a.friendDecl \in [Decl -> Decl \cup {NoDecl}]
  /\ a.previous \in [Decl -> Decl \cup {NoDecl}]
  /\ a.canonical \in [Decl -> Decl]
  /\ a.definition \in [Decl -> Decl \cup {NoDecl}]
  /\ a.deleted \in SUBSET Decl
  /\ a.implicit \in SUBSET Decl
  /\ a.dependent \in SUBSET Decl
  /\ a.commented \in SUBSET Decl

\* The declarations whose members are recorded by go and never visited.
Owners(a) == {o \in Decl : a.kind[o] \in FunctionKinds \cup {"Enum"}}

\* The enumerators and static locals of an owner.
Locals(a, o) == Range(a.members[o])

\* The declarations some handler may call Visit on.
Targets(a) ==
  (UNION {Range(a.members[c]) : c \in (Decl \cup {TU}) \ Owners(a)})
    \cup (UNION {Range(a.specializations[t]) : t \in Decl})
    \cup {a.templated[t] : t \in Decl} \cup {a.friendDecl[t] : t \in Decl}

\* Clang lists an enumerator (a static local) in its own enum (function) only.
LocalsAreOwned(a) ==
  \A o \in Owners(a) :
    /\ IsInjective(a.members[o])
    /\ \A x \in Locals(a, o) : a.kind[x] \in {"EnumConstant", "Var"}
    /\ Locals(a, o) \cap Targets(a) = {}
    /\ \A p \in Owners(a) \ {o} : Locals(a, o) \cap Locals(a, p) = {}

\* The redeclarations of an entity share its canonical declaration, the first
\* of them, its definition and its kind.
ChainsAgree(a) ==
  \A d, e \in Decl :
    /\ a.previous[d] = NoDecl <=> a.canonical[d] = d
    /\ a.canonical[a.canonical[d]] = a.canonical[d]
    /\ a.definition[d] # NoDecl => a.canonical[a.definition[d]] = a.canonical[d]
    /\ a.canonical[d] = a.canonical[e] =>
         a.definition[d] = a.definition[e] /\ a.kind[d] = a.kind[e]

\* Uninstantiated declarations that are not where their template is: members
\* defined outside their class template, variables and partial specializations.
Detached(a) ==
  {d \in a.dependent : \/ a.previous[d] # NoDecl
                       \/ a.kind[d] \in {"Var", "ClassTemplateSpecialization"}}

\* Clang hands over uninstantiated code inside a template, through
\* getTemplatedDecl(), or detached from it.
DependentInTemplates(a) ==
  /\ Range(a.members[TU]) \cap a.dependent \subseteq Detached(a)
  /\ \A c \in Decl :
       /\ c \notin a.dependent =>
            (Range(a.members[c]) \cup {a.friendDecl[c]}) \cap a.dependent \subseteq Detached(a)
       /\ Range(a.specializations[c]) \cap a.dependent \subseteq Detached(a)

FileKinds == {"Namespace", "LinkageSpec"}

\* What the translation unit lists, itself or in its namespaces.
InFile(a) ==
  {d \in Decl :
     \A S \in SUBSET Decl :
       /\ Range(a.members[TU]) \subseteq S
       /\ \A n \in S : a.kind[n] \in FileKinds => Range(a.members[n]) \subseteq S
       => d \in S}

\* What a template or a friend declaration leads to.
Referred(a) ==
  UNION {Range(a.specializations[t]) \cup {a.templated[t], a.friendDecl[t]} : t \in Decl}

\* What a class lists.
InClass(a) == UNION {Range(a.members[c]) : c \in {x \in Decl : a.kind[x] \in RecordKinds}}

\* Namespaces are found in namespaces only.  A member function is listed first
\* in its class and nowhere else, and may be defined again in a namespace.
ScopesNest(a) ==
  /\ \A d \in Decl :
       a.members[d] # <<>> => a.kind[d] \in FileKinds \cup RecordKinds \cup FunctionKinds \cup {"Enum"}
  /\ \A n \in Decl : a.kind[n] \in FileKinds => n \notin Referred(a) \cup InClass(a)
  /\ \A c \in Decl : a.kind[c] \in RecordKinds =>
       \A m \in {x \in Range(a.members[c]) : a.kind[x] \in FunctionKinds} :
         /\ a.previous[m] = NoDecl
         /\ m \notin Referred(a) /\ m \notin Range(a.members[TU])
         /\ \A o \in Decl \ {c} :
              a.kind[o] \in FileKinds \cup RecordKinds => m \notin Range(a.members[o])
         /\ m \in a.dependent \/ a.definition[m] \in a.dependent => c \in a.dependent
         /\ a.definition[m] \notin {m, NoDecl} =>
              a.definition[m] \in InFile(a) \ (Referred(a) \cup InClass(a) \cup a.deleted)

TemplateKinds == {"ClassTemplate", "FunctionTemplate", "VarTemplate"}

\* What the visit of x may call Visit on: an explicit specialization that only
\* namespaces lead to is skipped.
Called(a, x) ==
  (IF \/ a.kind[x] \in FileKinds \cup {"CXXRecord"}
      \/ a.kind[x] = "ClassTemplateSpecialization" /\ x \in Referred(a) \cup InClass(a)
   THEN Range(a.members[x]) ELSE {})
    \cup Range(a.specializations[x]) \cup ({a.templated[x], a.friendDecl[x]} \ {NoDecl})

\* What the traversal may visit.
Reached(a) ==
  {d \in Decl :
     \A S \in SUBSET Decl :
       Range(a.members[TU]) \subseteq S /\ (\A x \in S : Called(a, x) \subseteq S) => d \in S}

\* The instances of the class templates among them.
Instances(a) ==
  LET reached == Reached(a)
  IN {s \in Decl : /\ a.kind[s] = "ClassTemplateSpecialization" /\ a.definition[s] = s /\ s \notin a.dependent
                   /\ \E t \in reached : s \in Range(a.specializations[t])}

\* What the visit of x leads to, with the instances I.
Leads(a, I, x) ==
  CASE (a.kind[x] = "CXXRecord" /\ x \notin a.implicit) \/ x \in I -> Range(a.members[x])
    [] a.kind[x] \in TemplateKinds -> Range(a.specializations[x])
    [] a.kind[x] = "Friend" -> {a.friendDecl[x]} \ {NoDecl}
    [] OTHER -> {}

\* t is visited when d is.
Brings(a, I, d, t) ==
  \A S \in SUBSET Decl : d \in S /\ (\A x \in S : Leads(a, I, x) \subseteq S) => t \in S

\* d and, if it is a namespace, what is in it.
Inside(a, d) ==
  {x \in Decl :
     \A S \in SUBSET Decl :
       d \in S /\ (\A n \in S : a.kind[n] \in FileKinds => Range(a.members[n]) \subseteq S) => x \in S}

Scopes(a) == {TU} \cup {n \in Decl : a.kind[n] \in FileKinds}

\* In the source, x stands before y.
Precedes(a, x, y) ==
  \E c \in Scopes(a) : \E i, j \in DOMAIN a.members[c] :
    i < j /\ x \in Inside(a, a.members[c][i]) /\ y \in Inside(a, a.members[c][j])

\* Only class c lists t.
OnlyIn(a, t, c) ==
  /\ t \notin Referred(a) /\ t \notin Range(a.members[TU])
  /\ \A o \in Decl \ {c} : a.kind[o] \in FileKinds \cup RecordKinds => t \notin Range(a.members[o])

\* Templates have specializations, and a namespace stands in one place.  An
\* explicit instance is declared after its template: in the class of the
\* template, or outside, after what the template is found in.
InstancesFollow(a, I) ==
  /\ \A t \in Decl : a.specializations[t] # <<>> => a.kind[t] \in TemplateKinds
  /\ \A c, d \in Scopes(a) : \A i \in DOMAIN a.members[c], j \in DOMAIN a.members[d] :
       a.members[c][i] = a.members[d][j] /\ a.kind[a.members[c][i]] \in FileKinds => c = d /\ i = j
  /\ \A s \in I :
       /\ s \notin a.implicit /\ \A t \in Decl : s \notin {a.templated[t], a.friendDecl[t]}
       /\ \A c \in {x \in Decl : a.kind[x] \in RecordKinds} : \A k \in DOMAIN a.members[c] :
            a.members[c][k] = s =>
              \E i \in 1 .. k - 1 : s \in Range(a.specializations[a.members[c][i]]) /\ OnlyIn(a, a.members[c][i], c)
       /\ (\E c \in Scopes(a) : s \in Range(a.members[c])) =>
            \E t \in Decl, d \in InFile(a) \ {s} :
              s \in Range(a.specializations[t]) /\ Brings(a, I, d, t) /\ ~Precedes(a, s, d)

ASSUME ConstantAssumption ==
  /\ TU \notin Decl
  /\ NoDecl \notin Decl
  /\ Templates \subseteq BOOLEAN
  /\ Filters \subseteq [Decl -> What]

ASSUME AstAssumption == \A a \in Asts : AstShape(a) /\ LocalsAreOwned(a) /\ ChainsAgree(a)

ASSUME TemplateAssumption == \A a \in Asts : DependentInTemplates(a)

ASSUME ScopeAssumption == \A a \in Asts : ScopesNest(a)

ASSUME InstanceAssumption == \A a \in Asts : InstancesFollow(a, Instances(a))

VARIABLES
  ast,          \* the AST, fixed
  templates_,   \* BuildModule::templates_, fixed
  filter_,      \* BuildModule::filter_, fixed
  visited_,     \* BuildModule::visited_
  stack,        \* the calls still to be made, next one first
  declarations_, definitions_, template_declarations_, template_definitions_,
  asserts_,     \* the lists of ::Module
  specs_        \* SpecCollector::specifications_

input == <<ast, templates_, filter_>>
lists == <<declarations_, definitions_, template_declarations_,
           template_definitions_>>
vars  == <<ast, templates_, filter_, visited_, stack, declarations_,
           definitions_, template_declarations_, template_definitions_,
           asserts_, specs_>>

(***************************************************************************)
(* Module::Flags.                                                          *)
(***************************************************************************)
Flags == [in_template : BOOLEAN, in_specialization : BOOLEAN]

NoFlags == [in_template |-> FALSE, in_specialization |-> FALSE]

set_template_lost(f) == f

set_template(f) == [f EXCEPT !.in_template = TRUE]

set_specialization_lost(f) == f

set_specialization(f) == [f EXCEPT !.in_specialization = TRUE]

none(f) == ~f.in_template /\ ~f.in_specialization

(***************************************************************************)
(* Pending calls.                                                          *)
(***************************************************************************)
Item == [op : {"Visit", "go"}, d : Decl, flags : Flags, definition : BOOLEAN]

Visit(d, f) == [op |-> "Visit", d |-> d, flags |-> f, definition |-> FALSE]

go(d, f, def) == [op |-> "go", d |-> d, flags |-> f, definition |-> def]

VisitEach(s, f) == [i \in DOMAIN s |-> Visit(s[i], f)]

goEach(s, f) == [i \in DOMAIN s |-> go(s[i], f, TRUE)]

(***************************************************************************)
(* The handlers.                                                           *)
(***************************************************************************)
Top == Head(stack)

\* BuildModule::Visit on a declaration that has been visited before.
VisitAgain ==
  /\ stack # <<>>
  /\ Top.op = "Visit"
  /\ Top.d \in visited_
  /\ stack' = Tail(stack)
  /\ UNCHANGED <<input, visited_, lists, asserts_, specs_>>

\* Mutant: visited_ is consulted but never filled.
MarkNothing(d) == visited_

\* Mutant: only records are remembered.
MarkRecords(d) == IF ast.kind[d] \in RecordKinds THEN visited_ \cup {d} ELSE visited_

Mark(d) == visited_ \cup {d}

\* BuildModule::Visit on a new declaration of one of the kinds, dispatched to
\* the handler whose body makes the calls todo.
Enter(kinds, todo) ==
  /\ stack # <<>>
  /\ Top.op = "Visit"
  /\ Top.d \notin visited_
  /\ ast.kind[Top.d] \in kinds
  /\ visited_' = Mark(Top.d)
  /\ stack' = todo \o Tail(stack)
  /\ UNCHANGED <<input, lists>>

Handle(kinds, todo) == Enter(kinds, todo) /\ UNCHANGED <<asserts_, specs_>>

\* decls() of a namespace or of an extern "C" block, which are only ever
\* visited with no flag set: assert(flags.none()).
VisitNamespaceDecl ==
  Handle({"Namespace"}, VisitEach(ast.members[Top.d], Top.flags))

VisitLinkageSpecDecl ==
  Handle({"LinkageSpec"}, VisitEach(ast.members[Top.d], Top.flags))

\* VisitTagDecl for the redeclarations of a class.
VisitTagDecl_EveryRedecl(d, f) ==
  IF ast.definition[d] = d THEN <<go(d, f, TRUE)>> ELSE <<go(d, f, FALSE)>>

VisitTagDecl_FirstOnly(d, f) ==
  IF ast.previous[d] = NoDecl THEN <<go(d, f, ast.definition[d] = d)>> ELSE <<>>

VisitTagDecl(d, f) ==
  CASE ast.definition[d] = d -> <<go(d, f, TRUE)>>
    [] ast.definition[d] = NoDecl /\ ast.previous[d] = NoDecl -> <<go(d, f, FALSE)>>
    [] OTHER -> <<>>

\* Early returns of VisitCXXRecordDecl.
SkipRecord(d, f) ==
  \/ d \in ast.implicit
  \/ ~f.in_specialization /\ ast.kind[d] = "ClassTemplateSpecialization"

VisitCXXRecordDecl ==
  Handle(RecordKinds,
         IF SkipRecord(Top.d, Top.flags)
         THEN <<>>
         ELSE VisitEach(ast.members[Top.d], Top.flags)
                \o VisitTagDecl(Top.d, Top.flags))

\* Only the canonical declaration counts, with the enumerators of the
\* definition.
EnumGo(d, f) ==
  IF ast.canonical[d] # d
  THEN <<>>
  ELSE <<go(d, f, TRUE)>> \o goEach(ast.members[d], f)

VisitEnumDecl == Handle({"Enum"}, EnumGo(Top.d, Top.flags))

\* VisitTypedefNameDecl, and VisitEnumConstantDecl, which no call reaches:
\* enumerators are recorded by VisitEnumDecl.
VisitTypedefNameDecl ==
  Handle({"TypedefName", "EnumConstant"}, <<go(Top.d, Top.flags, TRUE)>>)

\* Early return of VisitVarDecl: variables are kept with -templates, or when
\* they are templated.
SkipVar(d) == ~templates_ /\ d \notin ast.dependent

VisitVarDecl ==
  Handle({"Var"},
         IF SkipVar(Top.d) THEN <<>> ELSE <<go(Top.d, Top.flags, TRUE)>>)

\* VisitFunctionDecl: a definition with its static local variables, or the
\* first declaration of a function that is never defined.
FunctionGo_EveryRedecl(d, f) ==
  IF ~templates_ /\ d \in ast.dependent THEN <<>>
  ELSE <<go(d, f, ast.definition[d] = d)>>

FunctionGo_InClassOnly(d, f) ==
  IF ast.previous[d] # NoDecl THEN <<>> ELSE <<go(d, f, ast.definition[d] = d)>>

FunctionGo_DefinitionsOnly(d, f) ==
  IF ast.definition[d] = d THEN <<go(d, f, TRUE)>> ELSE <<>>

FunctionGo(d, f) ==
  IF ~templates_ /\ d \in ast.dependent
  THEN <<>>
  ELSE IF ast.definition[d] = d
       THEN <<go(d, f, TRUE)>>
              \o (IF filter_[d] = "DEFINITION" THEN goEach(ast.members[d], f) ELSE <<>>)
       ELSE IF ast.definition[d] = NoDecl /\ ast.previous[d] = NoDecl
            THEN <<go(d, f, FALSE)>>
            ELSE <<>>

\* SpecCollector::add_specification, for a definition with a comment.
add_specification(d) ==
  IF d \in ast.commented /\ ast.definition[d] = d /\ (templates_ \/ d \notin ast.dependent)
  THEN Append(specs_, d)
  ELSE specs_

VisitFunctionDecl ==
  /\ Enter({"Function"}, FunctionGo(Top.d, Top.flags))
  /\ specs_' = add_specification(Top.d)
  /\ UNCHANGED asserts_

\* Members: dropped when deleted, otherwise treated as functions.
VisitDeleted(kinds) == Handle(kinds, <<>>) /\ Top.d \in ast.deleted

VisitMember(kinds) ==
  /\ Enter(kinds, FunctionGo(Top.d, Top.flags))
  /\ Top.d \notin ast.deleted
  /\ specs_' = add_specification(Top.d)
  /\ UNCHANGED asserts_

VisitCXXMethodDecl == VisitDeleted({"CXXMethod"}) \/ VisitMember({"CXXMethod"})

VisitCXXConstructorDecl ==
  VisitDeleted({"CXXConstructor"}) \/ VisitMember({"CXXConstructor"})

VisitCXXDestructorDecl ==
  VisitDeleted({"CXXDestructor"}) \/ VisitMember({"CXXDestructor"})

\* Templates: the template itself with -templates, then every specialization.
TemplateThenSpecializations(self) ==
  (IF templates_ THEN self ELSE <<>>)
    \o VisitEach(ast.specializations[Top.d], set_specialization(Top.flags))

VisitClassTemplateDecl ==
  Handle({"ClassTemplate"},
    TemplateThenSpecializations(
      <<Visit(ast.templated[Top.d], set_template(Top.flags))>>))

VisitFunctionTemplateDecl ==
  Handle({"FunctionTemplate"},
    TemplateThenSpecializations(<<go(Top.d, set_template(Top.flags), TRUE)>>))

VisitVarTemplateDecl ==
  Handle({"VarTemplate"},
    TemplateThenSpecializations(<<go(Top.d, set_template(Top.flags), TRUE)>>))

VisitFriendDecl_NoNullCheck ==
  Handle({"Friend"}, <<Visit(ast.friendDecl[Top.d], Top.flags)>>)

VisitFriendDecl ==
  Handle({"Friend"},
         IF ast.friendDecl[Top.d] = NoDecl
         THEN <<>>
         ELSE <<Visit(ast.friendDecl[Top.d], Top.flags)>>)

VisitStaticAssertDecl ==
  /\ Enter({"StaticAssert"}, <<>>)
  /\ asserts_' = Append(asserts_, Top.d)
  /\ UNCHANGED specs_

\* The handlers with an empty body (access specifiers, fields, using
\* declarations, ...), and VisitDecl and VisitTypeDecl, which log.
VisitIgnored == Handle({"Ignored", "Unsupported"}, <<>>)

(***************************************************************************)
(* BuildModule::go and Module::add_definition, add_declaration, add_decl.  *)
(***************************************************************************)
\* add_decl, the list of the module: everything outside a template.
AddMain(l, d, f) == IF f.in_template THEN l ELSE Append(l, d)

\* add_decl, the list of templates: everything inside a template or a
\* specialization.
AddTemplate(l, d, f) ==
  IF f.in_template \/ f.in_specialization THEN Append(l, d) ELSE l

add_definition(d, f) ==
  /\ definitions_' = AddMain(definitions_, d, f)
  /\ template_definitions_' = AddTemplate(template_definitions_, d, f)
  /\ UNCHANGED <<declarations_, template_declarations_>>

add_declaration(d, f) ==
  /\ declarations_' = AddMain(declarations_, d, f)
  /\ template_declarations_' = AddTemplate(template_declarations_, d, f)
  /\ UNCHANGED <<definitions_, template_definitions_>>

\* What go records of the top item under the filter.
Recorded(it) ==
  IF filter_[it.d] = "DEFINITION" /\ ~it.definition
  THEN "DECLARATION"
  ELSE filter_[it.d]

Go ==
  /\ stack # <<>>
  /\ Top.op = "go"
  /\ stack' = Tail(stack)
  /\ \/ Recorded(Top) = "DEFINITION" /\ add_definition(Top.d, Top.flags)
     \/ Recorded(Top) = "DECLARATION" /\ add_declaration(Top.d, Top.flags)
     \/ Recorded(Top) = "NOTHING" /\ UNCHANGED lists
  /\ UNCHANGED <<input, visited_, asserts_, specs_>>

(***************************************************************************)
(* The specification.  build_module calls VisitTranslationUnitDecl with no *)
(* flag set, on an empty Module.                                           *)
(***************************************************************************)
Init ==
  /\ ast \in Asts
  /\ templates_ \in Templates
  /\ filter_ \in Filters
  /\ visited_ = {}
  /\ stack = VisitEach(ast.members[TU], NoFlags)
  /\ declarations_ = <<>>
  /\ definitions_ = <<>>
  /\ template_declarations_ = <<>>
  /\ template_definitions_ = <<>>
  /\ asserts_ = <<>>
  /\ specs_ = <<>>

Next ==
  \/ VisitAgain
  \/ VisitNamespaceDecl \/ VisitLinkageSpecDecl
  \/ VisitCXXRecordDecl \/ VisitEnumDecl \/ VisitTypedefNameDecl
  \/ VisitVarDecl \/ VisitFunctionDecl \/ VisitCXXMethodDecl
  \/ VisitCXXConstructorDecl \/ VisitCXXDestructorDecl
  \/ VisitClassTemplateDecl \/ VisitFunctionTemplateDecl
  \/ VisitVarTemplateDecl \/ VisitFriendDecl
  \/ VisitStaticAssertDecl \/ VisitIgnored
  \/ Go

Spec == Init /\ [][Next]_vars

Done == stack = <<>>

(***************************************************************************)
(* Properties.                                                             *)
(***************************************************************************)
\* Every variable has its type.
TypeOK ==
  /\ AstShape(ast)
  /\ templates_ \in BOOLEAN
  /\ filter_ \in Filters
  /\ visited_ \in SUBSET Decl
  /\ stack \in Seq(Item)
  /\ declarations_ \in Seq(Decl)
  /\ definitions_ \in Seq(Decl)
  /\ template_declarations_ \in Seq(Decl)
  /\ template_definitions_ \in Seq(Decl)
  /\ asserts_ \in Seq(Decl)
  /\ specs_ \in Seq(Decl)

Main == Range(declarations_) \cup Range(definitions_)

\* A declaration enters a list at most once, and never as a declaration and
\* as a definition, although friends, explicit specializations and reopened
\* templates let several calls reach it: decls in parser.v would take the
\* last entry.
NoDuplicates ==
  /\ IsInjective(declarations_) /\ IsInjective(definitions_)
  /\ IsInjective(template_declarations_) /\ IsInjective(template_definitions_)
  /\ Range(declarations_) \cap Range(definitions_) = {}
  /\ Range(template_declarations_) \cap Range(template_definitions_) = {}

EntityKinds == RecordKinds \cup FunctionKinds \cup {"Enum"}

\* Whatever the order of declarations, definitions, friends and
\* redeclarations, a class, enum or function has at most one entry among the
\* lists of the module, and one among the lists of templates.
OneEntryPerEntity ==
  /\ \A x, y \in Main :
       /\ ast.kind[x] \in EntityKinds /\ ast.kind[y] \in EntityKinds
       /\ ast.canonical[x] = ast.canonical[y]
       => x = y
  /\ \A x, y \in Range(template_declarations_) \cup Range(template_definitions_) :
       /\ ast.kind[x] \in EntityKinds /\ ast.kind[y] \in EntityKinds
       /\ ast.canonical[x] = ast.canonical[y]
       => x = y

\* A recorded class, enum or function stands for its whole redeclaration
\* chain: it is the definition, or the first declaration when there is none
\* (the first one in any case for an enum).
Represents(a, x) ==
  a.kind[x] \in EntityKinds =>
    \/ a.kind[x] # "Enum" /\ a.definition[x] = x
    \/ a.kind[x] # "Enum" /\ a.definition[x] = NoDecl /\ a.canonical[x] = x
    \/ a.kind[x] = "Enum" /\ a.canonical[x] = x

PendingGo == {i \in DOMAIN stack : stack[i].op = "go"}

Listed == Main \cup Range(template_declarations_) \cup Range(template_definitions_)

\* The visit that made, or makes, the call go(x) has happened: the visit of x
\* itself, or for a local the visit of its owner.
HomeVisited(a, v, x) ==
  \/ x \in v /\ \A o \in Owners(a) : x \notin Locals(a, o)
  \/ \E o \in Owners(a) \cap v : x \in Locals(a, o)

\* The inductive invariant: what a pending call may refer to, and that no
\* declaration is pending twice or both pending and listed.
PendingInv ==
  /\ \A i \in DOMAIN stack : stack[i].op = "Visit" => stack[i].d \in Targets(ast)
  /\ \A i \in PendingGo : HomeVisited(ast, visited_, stack[i].d) /\ Represents(ast, stack[i].d)
  /\ \A x \in Listed : HomeVisited(ast, visited_, x) /\ Represents(ast, x)
  /\ \A i \in PendingGo : stack[i].d \notin Listed
  /\ \A i, j \in PendingGo : stack[i].d = stack[j].d => i = j

IInv == ast \in Asts /\ TypeOK /\ PendingInv /\ NoDuplicates

\* When the traversal ends, a class of the module has its members in the
\* module, by their definition (wherever it is) or else by the first
\* declaration, unless they are deleted; a defined function has its static
\* local variables there, an enum its enumerators.  The exception are
\* uninstantiated classes that get into the module without -templates: their
\* member functions do not.
MembersRecorded ==
  Done =>
    \A c \in Range(definitions_) :
      \A m \in Range(ast.members[c]) :
        CASE ast.kind[c] \in RecordKinds ->
               /\ ast.kind[m] \in FunctionKinds /\ m \notin ast.deleted
               /\ templates_ \/ c \notin ast.dependent
               => IF ast.definition[m] = NoDecl
                  THEN ast.canonical[m] \in Main
                  ELSE ast.definition[m] \in Range(definitions_)
          [] OTHER -> m \in Range(definitions_)

ClassInstances(t) ==
  {s \in Range(ast.specializations[t]) :
     /\ ast.kind[s] = "ClassTemplateSpecialization"
     /\ ast.definition[s] = s
     /\ s \notin ast.dependent}

\* When the traversal ends, every explicit or implicit instance of a class
\* template is listed with the templates, and without -templates it is in the
\* module.  Explicit ones are reached from the template and from their
\* namespace, and the second way must not win.
InstancesRecorded ==
  Done =>
    \A t \in visited_ : \A s \in ClassInstances(t) :
      /\ s \in Range(template_definitions_)
      /\ ~templates_ => s \in Range(definitions_)

\* What is inside detached declarations: the least set that has them and, with
\* a declaration, its uninstantiated members and friends.
Strays(a) ==
  {d \in a.dependent :
     \A S \in SUBSET a.dependent :
       /\ Detached(a) \subseteq S
       /\ \A c \in S :
            (Range(a.members[c]) \cup {a.friendDecl[c]}) \cap a.dependent \subseteq S
       => d \in S}

\* The only uninstantiated code in the module is detached from its template, or
\* inside something that is: everything else inside a template stays in the
\* lists of templates, whichever way it is reached.
TemplatesApart == Main \cap ast.dependent \subseteq Strays(ast)

\* The traversal ends, although templates, instances and friends refer to one
\* another in cycles: every call is on a new declaration, of which there are
\* finitely many, or leaves fewer calls to make.
Progress ==
  [][ \/ visited_ \subseteq visited_' /\ visited_ # visited_'
      \/ visited_' = visited_ /\ Len(stack') < Len(stack) ]_vars

(***************************************************************************)
(* What the documents say of the module, and the traversal does not do.    *)
(***************************************************************************)
\* doc/sphinx/index.rst: templated code is reasoned about "after it has been
\* instantiated", so the module has every instance of a class template.
InstancesInModule ==
  Done => \A t \in visited_ : ClassInstances(t) \subseteq Range(definitions_)

\* theories/lang/cpp/syntax/translation_unit.v: a translation unit has "all
\* the statically known information", so also the variables that are defined
\* outside templates.
VariablesInModule ==
  Done => \A d \in visited_ : ast.kind[d] = "Var" /\ d \notin ast.dependent => d \in Main
==============================================================================

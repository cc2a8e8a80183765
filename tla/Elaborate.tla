------------------------------- MODULE Elaborate -------------------------------
(***************************************************************************)
(* ToCoqConsumer as a listener of clang's parser (src/src/Elaborate.cpp,   *)
(* src/src/FromClang.cpp, src/include/ToCoq.hpp): during parsing it makes  *)
(* clang declare the implicit members of classes and define the bodies of  *)
(* the defaulted ones, so that the module has them.                        *)
(*                                                                         *)
(* The parser and Sema are external.  The parser opens and closes          *)
(* namespaces and classes and calls the handlers at the points where clang *)
(* does; in between, Sema may declare or define members on its own, as the *)
(* source uses them.  There is one class template: its pattern and its     *)
(* instances are classes of the model.                                     *)
(***************************************************************************)
EXTENDS Naturals, Sequences

CONSTANTS
  Plain,       \* classes outside templates
  Pattern,     \* the class of the class template
  Instances,   \* its implicit instances
  Blocks,      \* the blocks of the one namespace a source may have
  None,        \* no declaration; as a place, the file
  UserMembers, \* what a class may declare itself: functions on Special
  Options,     \* the values of <<naked, templates>>
  Used,        \* bound: the special members the source itself makes Sema use
  Cxx11        \* LangOpts.CPlusPlus11

Special == {"DefaultConstructor", "CopyConstructor", "CopyAssignment",
            "MoveConstructor", "MoveAssignment", "Destructor"}

Assignments == {"CopyAssignment", "MoveAssignment"}

\* How a class declares a member itself: not at all, with a body of its own,
\* = default, = delete, or = default outside the class.
UserForms == {"no", "provided", "default", "delete", "later"}

\* A member: not declared; with a body by the user, or declared without one;
\* defaulted without a body; defaulted with a body; deleted.
Statuses == {"undeclared", "user", "defaulted", "defined", "deleted"}

Class == Plain \cup {Pattern} \cup Instances

ASSUME ElaborateAssumption ==
  /\ Plain \cap Instances = {} /\ Pattern \notin Plain \cup Instances
  /\ Class \cap Blocks = {} /\ None \notin Class \cup Blocks
  /\ UserMembers \subseteq [Special -> UserForms]
  /\ Options \subseteq BOOLEAN \X BOOLEAN
  /\ Used \subseteq Special
  /\ Cxx11 \in BOOLEAN

VARIABLES
  naked,      \* the option -n, which nothing reads
  templates,  \* templates_file_.has_value()
  context,    \* the open namespace block and classes, innermost last
  blocks,     \* the namespace blocks opened so far
  home,       \* where a class is declared: None (the file), a block, a class
  phase,      \* "none", "incomplete" or "complete"
  user,       \* what the class declares itself
  befriends,  \* the classes that befriend the class template
  status,     \* the members
  outside,    \* members of the pattern defaulted in a block: <<member, block>>
  top,        \* a declaration whose HandleTopLevelDecl is due, or None
  forced,     \* the members declared by GenerateImplicitMembers
  bodies,     \* the members whose body Elaborate has asked for
  defs,       \* how often a member has been defined
  ended       \* HandleTranslationUnit

options == <<naked, templates>>
parser  == <<context, blocks, home, phase, user, befriends>>
vars    == <<naked, templates, context, blocks, home, phase, user, befriends,
             status, outside, top, forced, bodies, defs, ended>>

(***************************************************************************)
(* Sema: which implicit members a class needs, and what they are declared  *)
(* as.                                                                     *)
(***************************************************************************)
UserDeclared(us, c) == {m \in Special : us[c][m] # "no"}

MoveMembers == {"MoveConstructor", "MoveAssignment"}

NeedsImplicit(u, st, c, m) ==
  /\ st[c][m] = "undeclared"
  /\ m = "DefaultConstructor" =>
       u \cap {"CopyConstructor", "MoveConstructor"} = {}
  /\ m \in MoveMembers =>
       u \cap ({"CopyConstructor", "CopyAssignment", "Destructor"} \cup MoveMembers) = {}

ImplicitStatus(u, m) ==
  IF m \in {"CopyConstructor", "CopyAssignment"} /\ u \cap MoveMembers # {}
  THEN "deleted"
  ELSE "defaulted"

(***************************************************************************)
(* class Elaborate.                                                        *)
(***************************************************************************)
\* GenerateUndeprecatedImplicitMembers: the members it declares.
GenerateUndeprecatedImplicitMembers(u, st, c) ==
  {m \in Special :
     /\ NeedsImplicit(u, st, c, m)
     /\ m = "CopyConstructor" => "CopyAssignment" \notin u
     /\ m = "CopyAssignment" => "CopyConstructor" \notin u
     /\ m \in MoveMembers => Cxx11}

\* VisitCXXRecordDecl on the classes S, when the AST has phases ph, user
\* declarations us and members st: what is declared.
Generated(S, ph, us, st) ==
  {d \in S \X Special :
     /\ ph[d[1]] = "complete"
     /\ d[2] \in GenerateUndeprecatedImplicitMembers(UserDeclared(us, d[1]), st, d[1])}

Declared(S, ph, us, st) ==
  [c \in Class |-> [m \in Special |->
     IF <<c, m>> \in Generated(S, ph, us, st)
     THEN ImplicitStatus(UserDeclared(us, c), m) ELSE st[c][m]]]

\* VisitCXXConstructorDecl, VisitCXXDestructorDecl and VisitCXXMethodDecl: the
\* members of M, as declared in st, that are made to have a body.  The
\* methods of a dependent class are left alone without -templates.
NeedBody_Again(M, st) ==
  {d \in M : /\ st[d[1]][d[2]] \in {"defaulted", "defined"}
             /\ d[2] \in Assignments => templates \/ d[1] # Pattern}

NeedBody(M, st) ==
  {d \in M : /\ st[d[1]][d[2]] = "defaulted"
             /\ d[2] \in Assignments => templates \/ d[1] # Pattern}

\* Elaborate(..., rec).Visit reaching the classes S and the member
\* declarations M: the bodies defined.
Define(S, M, rec, ph, us, st) ==
  NeedBody(M \cup (IF rec THEN S \X Special ELSE {}), Declared(S, ph, us, st))

Visit(S, M, rec, ph, us, st) ==
  LET define == Define(S, M, rec, ph, us, st)
  IN /\ status' = [c \in Class |-> [m \in Special |->
                     IF <<c, m>> \in define THEN "defined" ELSE Declared(S, ph, us, st)[c][m]]]
     /\ forced' = forced \cup Generated(S, ph, us, st)
     /\ bodies' = bodies \cup define
     /\ defs' = [c \in Class |-> [m \in Special |->
                   IF <<c, m>> \in define THEN defs[c][m] + 1 ELSE defs[c][m]]]

NoVisit(st) == status' = st /\ UNCHANGED <<forced, bodies, defs>>

\* ToCoqConsumer is created without its last argument, whose default is true.
elaborate_off == FALSE

elaborate_ == TRUE

\* elab on a class: nothing in a dependent context.
elab_Dependent(S, rec, ph, us, st) == Visit(S, {}, rec, ph, us, st)

elab(S, rec, ph, us, st) ==
  IF Pattern \in S THEN NoVisit(st) ELSE Visit(S, {}, rec, ph, us, st)

(***************************************************************************)
(* What a recursive visit reaches: nested classes, and through the class   *)
(* template (a friend, or a declaration of the block) its instances.       *)
(***************************************************************************)
\* The classes in a class (itself included) or block x: those in every set
\* that has x and, with a declaration, the classes declared in it.
Inside(x) ==
  {d \in Plain :
     \A S \in SUBSET (Plain \cup {x}) :
       x \in S /\ (\A e \in Plain : home[e] \in S => e \in S) => d \in S}

Specializations == {i \in Instances : phase[i] # "none"}

FromClasses(S) == S \cup (IF S \cap befriends # {} THEN Specializations ELSE {})

FromBlock(b) ==
  FromClasses(Inside(b)) \cup (IF home[Pattern] = b THEN Specializations ELSE {})

(***************************************************************************)
(* The parser and the handlers.                                            *)
(***************************************************************************)
Here == IF context = <<>> THEN None ELSE context[Len(context)]

Parsing == ~ended /\ top = None

OpenNamespace ==
  /\ Parsing /\ context = <<>> /\ blocks # Blocks
  /\ \E b \in Blocks \ blocks : blocks' = blocks \cup {b} /\ context' = <<b>>
  /\ UNCHANGED <<options, home, phase, user, befriends, status, outside, top, forced, bodies, defs, ended>>

\* The end of a namespace: a top-level declaration.
CloseNamespace ==
  /\ Parsing /\ Len(context) = 1 /\ Here \in Blocks
  /\ context' = <<>>
  /\ top' = Here
  /\ UNCHANGED <<options, blocks, home, phase, user, befriends, status, outside, forced, bodies, defs, ended>>

AsDeclared(u) ==
  [m \in Special |-> CASE u[m] = "no" -> "undeclared"
                       [] u[m] \in {"provided", "later"} -> "user"
                       [] u[m] = "default" -> "defaulted"
                       [] u[m] = "delete" -> "deleted"]

OpenClass(c) ==
  /\ Parsing /\ phase[c] = "none"
  /\ c = Pattern => Here \in Blocks \cup {None}
  /\ Here # Pattern
  /\ context' = Append(context, c)
  /\ home' = [home EXCEPT ![c] = Here]
  /\ phase' = [phase EXCEPT ![c] = "incomplete"]
  /\ \E u \in UserMembers :
       /\ user' = [user EXCEPT ![c] = u]
       /\ status' = [status EXCEPT ![c] = AsDeclared(u)]
  /\ befriends' \in IF c \in Plain /\ phase[Pattern] # "none"
                    THEN {befriends, befriends \cup {c}} ELSE {befriends}
  /\ UNCHANGED <<options, blocks, outside, top, forced, bodies, defs, ended>>

\* HandleTagDeclDefinition, at the end of a class; HandleTopLevelDecl is due
\* if the class is at file scope.
HandleTagDeclDefinition_AnyTag ==
  /\ Parsing /\ Here \in Class
  /\ context' = SubSeq(context, 1, Len(context) - 1)
  /\ phase' = [phase EXCEPT ![Here] = "complete"]
  /\ top' = Here
  /\ IF elaborate_ THEN elab({Here}, FALSE, phase', user, status) ELSE NoVisit(status)
  /\ UNCHANGED <<options, blocks, home, user, befriends, outside, ended>>

HandleTagDeclDefinition ==
  /\ Parsing /\ Here \in Class
  /\ context' = SubSeq(context, 1, Len(context) - 1)
  /\ phase' = [phase EXCEPT ![Here] = "complete"]
  /\ top' = IF Len(context) = 1 THEN Here ELSE None
  /\ IF elaborate_ THEN elab({Here}, FALSE, phase', user, status) ELSE NoVisit(status)
  /\ UNCHANGED <<options, blocks, home, user, befriends, outside, ended>>

\* HandleTopLevelDecl, for a class at file scope.
HandleTopLevelClass_DeclareOnly ==
  /\ top \in Plain
  /\ top' = None
  /\ elab(FromClasses(Inside(top)), FALSE, phase, user, status)
  /\ UNCHANGED <<options, parser, outside, ended>>

HandleTopLevelClass ==
  /\ top \in Plain
  /\ top' = None
  /\ IF elaborate_
     THEN elab(FromClasses(Inside(top)), TRUE, phase, user, status)
     ELSE NoVisit(status)
  /\ UNCHANGED <<options, parser, outside, ended>>

\* HandleTopLevelDecl, for the class template.
HandleTopLevelTemplate ==
  /\ top = Pattern
  /\ top' = None
  /\ IF elaborate_ THEN elab(Specializations, TRUE, phase, user, status) ELSE NoVisit(status)
  /\ UNCHANGED <<options, parser, outside, ended>>

\* HandleTopLevelDecl, for a namespace block: classes, the class template, and
\* the members defined in the block, those of a dependent class too.
HandleTopLevelNamespace ==
  /\ top \in Blocks
  /\ top' = None
  /\ IF elaborate_
     THEN Visit(FromBlock(top), {<<Pattern, m>> : m \in {n \in Special : <<n, top>> \in outside}},
                TRUE, phase, user, status)
     ELSE NoVisit(status)
  /\ UNCHANGED <<options, parser, outside, ended>>

\* AddedCXXTemplateSpecialization: the instance is named, still incomplete.
AddedCXXTemplateSpecialization(i) ==
  /\ ~ended /\ phase[Pattern] # "none" /\ phase[i] = "none"
  /\ phase' = [phase EXCEPT ![i] = "incomplete"]
  /\ elab({i}, TRUE, phase', user, status)
  /\ UNCHANGED <<options, context, blocks, home, user, befriends, outside, top, ended>>

\* HandleTagDeclDefinition, when the instance is needed and made complete.
InstantiateClass(i) ==
  /\ ~ended /\ phase[Pattern] = "complete" /\ phase[i] = "incomplete"
  /\ phase' = [phase EXCEPT ![i] = "complete"]
  /\ user' = [user EXCEPT ![i] = user[Pattern]]
  /\ LET st == [status EXCEPT ![i] = AsDeclared(user[Pattern])]
     IN IF elaborate_ THEN elab({i}, FALSE, phase', user', st) ELSE NoVisit(st)
  /\ UNCHANGED <<options, context, blocks, home, befriends, outside, top, ended>>

\* c is a class of the namespace, at whatever depth.
InNamespace(c) ==
  \E d \in Plain \cup {Pattern} : home[d] \in Blocks /\ c \in {d} \cup Inside(d)

\* = default outside the class, in a scope that encloses it.  Sema defines the
\* member at once, unless its class is dependent; at file scope elab stops at
\* a dependent context.
DefaultOutOfLine(c, m) ==
  /\ Parsing /\ Here \in Blocks \cup {None}
  /\ Here \in Blocks => InNamespace(c)
  /\ c \in Plain \cup {Pattern} /\ phase[c] = "complete"
  /\ user[c][m] = "later" /\ status[c][m] = "user"
  /\ IF c = Pattern
     THEN /\ status' = [status EXCEPT ![c][m] = "defaulted"]
          /\ outside' = outside \cup {<<m, Here>>}
          /\ UNCHANGED defs
     ELSE /\ status' = [status EXCEPT ![c][m] = "defined"]
          /\ defs' = [defs EXCEPT ![c][m] = @ + 1]
          /\ UNCHANGED outside
  /\ UNCHANGED <<options, parser, top, forced, bodies, ended>>

\* Overload resolution looks at an implicit member.
SemaDeclares(c, m) ==
  /\ ~ended /\ m \in Used /\ c # Pattern /\ phase[c] = "complete"
  /\ NeedsImplicit(UserDeclared(user, c), status, c, m) /\ (m \in MoveMembers => Cxx11)
  /\ status' = [status EXCEPT ![c][m] = ImplicitStatus(UserDeclared(user, c), m)]
  /\ UNCHANGED <<options, parser, outside, top, forced, bodies, defs, ended>>

\* The source calls a defaulted member.
SemaDefines(c, m) ==
  /\ ~ended /\ m \in Used /\ c # Pattern /\ phase[c] = "complete"
  /\ status[c][m] = "defaulted"
  /\ status' = [status EXCEPT ![c][m] = "defined"]
  /\ defs' = [defs EXCEPT ![c][m] = @ + 1]
  /\ UNCHANGED <<options, parser, outside, top, forced, bodies, ended>>

HandleTranslationUnit ==
  /\ Parsing /\ context = <<>>
  /\ ended' = TRUE
  /\ UNCHANGED <<options, parser, status, outside, top, forced, bodies, defs>>

Init ==
  /\ \E o \in Options : naked = o[1] /\ templates = o[2]
  /\ context = <<>> /\ blocks = {}
  /\ home = [c \in Class |-> None]
  /\ phase = [c \in Class |-> "none"]
  /\ user = [c \in Class |-> [m \in Special |-> "no"]]
  /\ befriends = {}
  /\ status = [c \in Class |-> [m \in Special |-> "undeclared"]]
  /\ outside = {}
  /\ top = None
  /\ forced = {} /\ bodies = {}
  /\ defs = [c \in Class |-> [m \in Special |-> 0]]
  /\ ended = FALSE

Next ==
  \/ OpenNamespace \/ CloseNamespace
  \/ \E c \in Plain \cup {Pattern} : OpenClass(c)
  \/ HandleTagDeclDefinition
  \/ HandleTopLevelClass \/ HandleTopLevelTemplate \/ HandleTopLevelNamespace
  \/ \E i \in Instances : AddedCXXTemplateSpecialization(i) \/ InstantiateClass(i)
  \/ \E c \in Plain \cup {Pattern}, m \in Special : DefaultOutOfLine(c, m)
  \/ \E c \in Class, m \in Special : SemaDeclares(c, m) \/ SemaDefines(c, m)
  \/ HandleTranslationUnit

Spec == Init /\ [][Next]_vars

(***************************************************************************)
(* Properties.                                                             *)
(***************************************************************************)
TypeOK ==
  /\ naked \in BOOLEAN /\ templates \in BOOLEAN /\ ended \in BOOLEAN
  /\ context \in Seq(Class \cup Blocks) /\ blocks \subseteq Blocks
  /\ home \in [Class -> Class \cup Blocks \cup {None}]
  /\ phase \in [Class -> {"none", "incomplete", "complete"}]
  /\ user \in [Class -> [Special -> UserForms]]
  /\ befriends \subseteq Plain
  /\ status \in [Class -> [Special -> Statuses]]
  /\ outside \subseteq Special \X (Blocks \cup {None})
  /\ top \in Class \cup Blocks \cup {None}
  /\ top # None => context = <<>>
  /\ forced \subseteq Class \X Special /\ bodies \subseteq Class \X Special
  /\ defs \in [Class -> [Special -> Nat]]

\* The copy members GenerateUndeprecatedImplicitMembers leaves out.
LeftOut(c, m) ==
  \/ m = "CopyConstructor" /\ "CopyAssignment" \in UserDeclared(user, c)
  \/ m = "CopyAssignment" /\ "CopyConstructor" \in UserDeclared(user, c)

\* HandleTopLevelDecl comes after everything inside the declaration: when the
\* module is built, every class outside templates, however nested, has its
\* implicit members, and all its defaulted members have bodies, except for
\* the copy members that are left out on purpose.
Elaborated ==
  ended => \A c \in Plain, m \in Special :
             phase[c] = "complete" /\ ~LeftOut(c, m) =>
               /\ status[c][m] # "defaulted"
               /\ ~(Cxx11 /\ NeedsImplicit(UserDeclared(user, c), status, c, m))

\* An instance is announced while it is incomplete and completed later, or
\* never: HandleTagDeclDefinition still declares its implicit members.
InstancesDeclared ==
  ended => \A i \in Instances, m \in Special :
             phase[i] = "complete" /\ ~LeftOut(i, m) =>
               ~(Cxx11 /\ NeedsImplicit(UserDeclared(user, i), status, i, m))

\* A class is reached by several handlers, in any order with Sema's own uses
\* of its members: no body is defined twice (clang asserts that there is none).
DefinedOnce == \A c \in Class, m \in Special : defs[c][m] <= 1

\* The class of a template is dependent.  The handlers make nothing of it, but
\* for a member that a namespace block defaults outside the class.
PatternsKept ==
  \A m \in Special :
    /\ <<Pattern, m>> \notin forced
    /\ <<Pattern, m>> \in bodies => \E b \in Blocks : <<m, b>> \in outside
================================================================================

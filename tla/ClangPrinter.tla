----------------------------- MODULE ClangPrinter -----------------------------
(***************************************************************************)
(* The names cpp2v gives to what a source declares (src/src/               *)
(* ClangPrinter.cpp): types, by printing the contexts they are declared    *)
(* in, and objects, by the name of a type or by clang's mangling.  Coq     *)
(* knows a type and an object by nothing else.                             *)
(*                                                                         *)
(* The source grows by one declaration at a time, among those that C++     *)
(* accepts where it is written; a name is a sequence of components.        *)
(***************************************************************************)
EXTENDS Integers, Sequences, FiniteSets

CONSTANTS
  Idents,    \* identifiers
  Args,      \* template arguments, and parameters of overloaded functions
  Blocks,    \* blocks of a function body
  MaxDecls   \* bound on the declarations of a source

ASSUME ClangPrinterAssumption ==
  /\ Idents # {} /\ {"", "none", "(anonymous namespace)", "(anonymous struct)"} \cap Idents = {}
  /\ MaxDecls \in Nat

VARIABLE decls  \* the declarations, each after the one it is declared in

(***************************************************************************)
(* A declaration.  in is the number of its context, 0 for the translation  *)
(* unit, and block the block of the function it is local to.  ident is ""  *)
(* for what has no name, alias the typedef name of an unnamed record.      *)
(* first is the name of the first field or enumerator, "" for a field      *)
(* without a name, "none" for none.  member says that an unnamed record    *)
(* is an anonymous struct or union, dtor that an instance of a template    *)
(* has a destructor, c that a linkage specification is extern "C".         *)
(***************************************************************************)
New(kind, in) ==
  [kind |-> kind, in |-> in, block |-> "", ident |-> "", alias |-> "",
   first |-> "none", args |-> "", member |-> FALSE, dtor |-> FALSE, c |-> FALSE]

Contexts == 0 .. Len(decls)

KindOf(d) == IF d = 0 THEN "unit" ELSE decls[d].kind

Spaces == {"unit", "namespace", "linkage"}
Classes == {"record", "instance"}
Types == {"record", "instance", "enum"}

\* The contexts a declaration is in, itself included.
Path(d) ==
  LET up[e \in Contexts] == IF e = 0 THEN {0} ELSE {e} \cup up[decls[e].in]
  IN up[d]

\* The scope a name is declared in: a linkage specification has none.
Scope(d) ==
  LET up[e \in Contexts] == IF e # 0 /\ decls[e].kind = "linkage" THEN up[decls[e].in] ELSE e
  IN up[decls[d].in]

ScopeOf(d) == IF d # 0 /\ decls[d].kind = "linkage" THEN Scope(d) ELSE d

\* The declarations in the scope of context c, in the same block.
Beside(c, b) == {d \in DOMAIN decls : Scope(d) = ScopeOf(c) /\ (KindOf(ScopeOf(c)) = "function" => decls[d].block = b)}

TypeNames(c, b) == {decls[d].ident : d \in Beside(c, b)} \cup {decls[d].alias : d \in Beside(c, b)}

\* (Only names of one scope are compared: that a class cannot have a member of
\* its own name is left out, so that few names are enough.)

\* The class whose members the fields of an anonymous struct or union are.
Owner(d) ==
  LET up[e \in Contexts] == IF e # 0 /\ decls[e].member THEN up[decls[e].in] ELSE e
  IN up[d]

FieldNames(d) == {decls[e].first : e \in {e \in DOMAIN decls : decls[e].kind \in Classes /\ Owner(e) = Owner(d)}}

EnumeratorNames(c, b) == {decls[d].first : d \in {d \in Beside(c, b) : decls[d].kind = "enum"}}

InExternC(d) == \E e \in Path(d) \ {0} : decls[e].kind = "linkage" /\ decls[e].c

(***************************************************************************)
(* Clang's mangling: another name for every function and every instance.   *)
(***************************************************************************)
Mangled(d) == <<"mangled", d>>

Id(s) == <<"id", s>>

(***************************************************************************)
(* printSimpleContext returns the number of components it printed.         *)
(***************************************************************************)
Printed(text, n) == [text |-> text, n |-> n]

NamespaceComponent(ns) == IF ns.ident # "" THEN Id(ns.ident) ELSE <<"~<TODO>">>

RecordComponent_FieldFirst(rd) ==
  IF rd.ident # "" THEN Id(rd.ident)
  ELSE IF rd.first # "none" THEN <<".", rd.first>>
  ELSE IF rd.alias # "" THEN Id(rd.alias)
  ELSE <<"~<empty>">>

RecordComponent(rd) ==
  IF rd.ident # "" THEN Id(rd.ident)
  ELSE IF rd.alias # "" THEN Id(rd.alias)
  ELSE IF rd.first # "none" THEN <<".", rd.first>>
  ELSE <<"~<empty>">>

EnumComponent(ed) ==
  IF ed.ident # "" THEN Id(ed.ident)
  ELSE IF ed.first # "none" THEN <<"~", ed.first>>
  ELSE <<"~<empty-enum>">>

Component_NotCounted(parent, c, remaining) ==
  Printed(parent.text \o <<c>> \o (IF remaining = 0 /\ 0 < parent.n THEN <<<<"E">>>> ELSE <<>>), parent.n)

\* A component, after those of the context around it.
Component(parent, c, remaining) ==
  Printed(parent.text \o <<c>> \o (IF remaining = 0 /\ 0 < parent.n THEN <<<<"E">>>> ELSE <<>>), parent.n + 1)

\* An instance with a destructor: the mangled destructor without its end.
InstanceName(d, remaining) ==
  IF decls[d].in # 0 \/ 0 < remaining
  THEN Printed(<<<<"_Z">>, <<"N">>, Mangled(d)>> \o (IF remaining = 0 THEN <<<<"E">>>> ELSE <<>>), 2)
  ELSE Printed(<<<<"_Z">>, Mangled(d)>>, 1)

\* printQualifiedName: the template arguments of the contexts, not its own.
Qualifier(e) ==
  CASE decls[e].kind = "linkage" -> <<>>
    [] decls[e].kind = "instance" -> <<<<"::", decls[e].ident>>, <<"<>", decls[e].args>>>>
    [] decls[e].kind = "namespace" /\ decls[e].ident = "" -> <<<<"::", "(anonymous namespace)">>>>
    [] decls[e].kind = "record" /\ decls[e].ident = "" -> <<<<"::", "(anonymous struct)">>>>
    [] OTHER -> <<<<"::", decls[e].ident>>>>

QualifiedName(d) ==
  LET up[e \in Contexts] == IF e = 0 THEN <<>> ELSE up[decls[e].in] \o Qualifier(e)
  IN up[decls[d].in] \o <<<<"::", decls[d].ident>>>>

FunctionName(d, remaining) ==
  IF decls[d].in # 0
  THEN Printed(<<Mangled(d)>> \o (IF remaining = 0 THEN <<<<"E">>>> ELSE <<>>), 2)
  ELSE Printed(<<Mangled(d)>>, 1)

Linkage_Counted(remaining) == remaining + 1

Linkage(remaining) == remaining

\* The outermost call: the translation unit.
Unit == [remaining \in Nat |-> Printed(IF 1 < remaining THEN <<<<"_Z">>, <<"N">>>> ELSE <<<<"_Z">>>>, 0)]

\* The call for d, with what the call for the context d is in prints.
InContext(d, parent, remaining) ==
  LET decl == decls[d]
  IN CASE decl.kind = "instance" ->
            IF decl.dtor THEN InstanceName(d, remaining) ELSE Printed(QualifiedName(d), 1)
       [] decl.kind = "namespace" -> Component(parent[remaining + 1], NamespaceComponent(decl), remaining)
       [] decl.kind = "record" -> Component(parent[remaining + 1], RecordComponent(decl), remaining)
       [] decl.kind = "enum" -> Component(parent[remaining + 1], EnumComponent(decl), remaining)
       [] decl.kind = "function" -> FunctionName(d, remaining)
       [] decl.kind = "linkage" -> parent[Linkage(remaining)]

\* What is printed of each context of a name with more components to come.
ctx[d \in Contexts] ==
  IF d = 0 THEN Unit ELSE [remaining \in Nat |-> InContext(d, ctx[decls[d].in], remaining)]

printSimpleContext(dc) == ctx[dc][0]

printTypeName(d) == printSimpleContext(d).text

(***************************************************************************)
(* The names of objects: enumerators, destructors, functions and fields.   *)
(***************************************************************************)
EnumConstant(d) == <<<<"Cenum_const">>>> \o printTypeName(d) \o <<Id(decls[d].first)>>

Destructor(d) == <<<<"DTOR">>>> \o printTypeName(d)

printObjName(d) == IF InExternC(d) /\ KindOf(Scope(d)) \in Spaces THEN <<Id(decls[d].ident)>> ELSE <<Mangled(d)>>

\* The first field of class d.
printField(d) == <<<<"Build_field">>>> \o printTypeName(d) \o <<Id(decls[d].first)>>

\* The field that has anonymous struct or union d as its type.
AnonymousField(d) ==
  <<<<"Build_field">>>> \o printTypeName(decls[d].in) \o <<<<"Nanon">>>> \o printTypeName(d)

NamesOf(d) ==
  LET decl == decls[d]
  IN   (IF decl.kind \in Types THEN {printTypeName(d)} ELSE {})
  \cup (IF decl.kind \in Classes THEN {Destructor(d)} ELSE {})
  \cup (IF decl.kind = "enum" /\ decl.first # "none" THEN {EnumConstant(d)} ELSE {})
  \cup (IF decl.kind = "function" THEN {printObjName(d)} ELSE {})
  \cup (IF decl.kind \in Classes /\ decl.first \notin {"", "none"} THEN {printField(d)} ELSE {})
  \cup (IF decl.member THEN {AnonymousField(d)} ELSE {})

(***************************************************************************)
(* The sources.                                                            *)
(***************************************************************************)
\* The declarations of a context are numbered one after the other.
Numbered(c) == Len(decls) < MaxDecls /\ (decls # <<>> => decls[Len(decls)].in <= c)

Declare(d) == Numbered(d.in) /\ decls' = Append(decls, d)

\* The blocks a declaration may be in.
BlocksOf(c) == IF KindOf(c) = "function" THEN Blocks ELSE {""}

\* A class that can have members: an instance once it is complete.
Open(c) == KindOf(c) \in Classes /\ (KindOf(c) = "instance" => decls[c].dtor)

Named(c) == c # 0 => ~decls[c].member

HoldsTypes(c) == Named(c) /\ (KindOf(c) \in Spaces \cup {"function"} \/ Open(c))

DeclareNamespace(c) ==
  /\ KindOf(c) \in Spaces
  /\ \E n \in Idents \cup {""} :
       /\ IF n = "" THEN \A d \in Beside(c, "") : decls[d].kind = "namespace" => decls[d].ident # ""
          ELSE n \notin TypeNames(c, "")
       /\ Declare([New("namespace", c) EXCEPT !.ident = n])

DeclareLinkage(c) ==
  /\ KindOf(c) \in Spaces
  /\ \E b \in BOOLEAN : Declare([New("linkage", c) EXCEPT !.c = b])

\* A class, the unnamed record of a typedef, or the unnamed record of a variable.
DeclareRecord(c) ==
  /\ HoldsTypes(c)
  /\ \E b \in BlocksOf(c) :
       \/ \E n \in Idents \ TypeNames(c, b) : Declare([New("record", c) EXCEPT !.ident = n, !.block = b])
       \/ \E n \in Idents \ TypeNames(c, b) : Declare([New("record", c) EXCEPT !.alias = n, !.block = b])
       \/ Declare([New("record", c) EXCEPT !.block = b])

\* A named enum may be scoped; the enumerators of an unnamed one are names of
\* the scope around it.
DeclareEnum(c) ==
  /\ HoldsTypes(c)
  /\ \E b \in BlocksOf(c), f \in Idents \cup {"none"} :
       \/ \E n \in Idents \ TypeNames(c, b) : Declare([New("enum", c) EXCEPT !.ident = n, !.first = f, !.block = b])
       \/ /\ f \notin EnumeratorNames(c, b) \ {"none"}
          /\ Open(c) => f \notin FieldNames(c) \ {"none"}
          /\ Declare([New("enum", c) EXCEPT !.first = f, !.block = b])

\* An instance of a class template, incomplete at first; local classes have no
\* member templates.
DeclareInstance(c) ==
  /\ Named(c) /\ (KindOf(c) \in Spaces \/ Open(c)) /\ "function" \notin {KindOf(d) : d \in Path(c)}
  /\ \E n \in Idents, a \in Args :
       /\ \A d \in Beside(c, "") :
            n \in {decls[d].ident, decls[d].alias} =>
              decls[d].kind = "function" \/ (decls[d].kind = "instance" /\ decls[d].args # a)
       /\ Declare([New("instance", c) EXCEPT !.ident = n, !.args = a])

\* Elaborate declares the destructor of a complete instance.
CompleteInstance(d) ==
  /\ KindOf(d) = "instance" /\ ~decls[d].dtor
  /\ decls' = [decls EXCEPT ![d].dtor = TRUE]

DeclareFunction(c) ==
  /\ Named(c) /\ (KindOf(c) \in Spaces \/ Open(c))
  /\ \E n \in Idents, a \in Args :
       /\ \A d \in Beside(c, "") : decls[d].kind = "function" /\ decls[d].ident = n => decls[d].args # a
       /\ InExternC(c) =>
            \A d \in DOMAIN decls : decls[d].kind = "function" /\ InExternC(d) => decls[d].ident # n
       /\ Declare([New("function", c) EXCEPT !.ident = n, !.args = a])

AddField(c) ==
  /\ Open(c) /\ decls[c].first = "none"
  /\ \E n \in Idents \ FieldNames(c) : decls' = [decls EXCEPT ![c].first = n]

\* An anonymous struct or union: a field without a name.
AddAnonymous(c) ==
  /\ Open(c) /\ Numbered(c)
  /\ decls' = Append([decls EXCEPT ![c].first = IF @ = "none" THEN "" ELSE @], [New("record", c) EXCEPT !.member = TRUE])

Init == decls = <<>>

Next ==
  \E c \in Contexts :
    \/ DeclareNamespace(c) \/ DeclareLinkage(c) \/ DeclareRecord(c) \/ DeclareEnum(c)
    \/ DeclareInstance(c) \/ CompleteInstance(c) \/ DeclareFunction(c) \/ AddField(c) \/ AddAnonymous(c)

Spec == Init /\ [][Next]_decls

(***************************************************************************)
(* Properties.                                                             *)
(***************************************************************************)
\* Every declaration has its type and stands in an earlier context, and
\* printSimpleContext counts what it prints of a type.
TypeOK ==
  \A d \in DOMAIN decls :
    /\ decls[d].kind \in Types \cup {"namespace", "linkage", "function"}
    /\ decls[d].in \in 0 .. d - 1 /\ decls[d].block \in Blocks \cup {""} /\ decls[d].args \in Args \cup {""}
    /\ decls[d].ident \in Idents \cup {""} /\ decls[d].alias \in Idents \cup {""}
    /\ decls[d].first \in Idents \cup {"", "none"}
    /\ decls[d].kind \in Types => printSimpleContext(d).n \in 1 .. Len(decls) + 1
    /\ decls[d].member \in BOOLEAN /\ decls[d].dtor \in BOOLEAN /\ decls[d].c \in BOOLEAN

Unnamed(d) == decls[d].ident = "" /\ decls[d].alias = ""

\* The scheme does not tell apart: unnamed records with the same first field,
\* or with first fields that have no name; unnamed empty enums; what is
\* declared in different blocks of a function; incomplete instances of one
\* template.
Confused(a, b) ==
  /\ Scope(a) = Scope(b)
  /\ \/ KindOf(Scope(a)) = "function" /\ decls[a].block # decls[b].block
     \/ /\ decls[a].kind = decls[b].kind /\ Unnamed(a) /\ Unnamed(b)
        /\ decls[a].first = decls[b].first
        /\ decls[a].kind = "record" \/ (decls[a].kind = "enum" /\ decls[a].first = "none")
     \/ /\ decls[a].kind = "instance" /\ decls[b].kind = "instance"
        /\ decls[a].ident = decls[b].ident /\ ~decls[a].dtor /\ ~decls[b].dtor

\* printQualifiedName, which names incomplete instances, does not tell apart the
\* records without a tag that they are in.
Untagged(a, b) ==
  /\ Scope(a) = Scope(b) /\ decls[a].kind = "record" /\ decls[b].kind = "record"
  /\ decls[a].ident = "" /\ decls[b].ident = ""

Incomplete(d) == decls[d].kind = "instance" /\ ~decls[d].dtor

\* Two types, enumerators, destructors, functions or fields have the same name
\* only where printSimpleContext confuses two declarations of a scope they are
\* in: namespaces, linkage specifications, nested classes, instances, local
\* classes and unnamed ones never make two names equal otherwise.
NamesApart ==
  LET names == [d \in DOMAIN decls |-> NamesOf(d)]
  IN \A d, e \in DOMAIN decls :
    d < e /\ names[d] \cap names[e] # {} =>
      \E a \in Path(d) \ {0}, b \in Path(e) \ {0} :
        a # b /\ (Confused(a, b) \/ (Incomplete(d) /\ Incomplete(e) /\ Untagged(a, b)))

Count(s, t) == Cardinality({i \in DOMAIN s : s[i] = t})

\* The name of a type that is not local to a function is a mangled name: the N
\* of a nested name, printed by the outermost call, has its E, printed by the
\* innermost one.
NestedNamesEnd ==
  \A d \in DOMAIN decls :
    /\ decls[d].kind \in Types
    /\ \A e \in Path(d) \ {0} : decls[e].kind # "function" /\ (decls[e].kind = "instance" => decls[e].dtor)
    => Count(printTypeName(d), <<"N">>) = Count(printTypeName(d), <<"E">>)
================================================================================

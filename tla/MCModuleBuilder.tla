--------------------------- MODULE MCModuleBuilder ---------------------------
(***************************************************************************)
(* ModuleBuilder on every AST a small C++ source can have.  A source is a  *)
(* sequence of constructs; each construct opens, continues or instantiates *)
(* an earlier one in a context that is still open, so that redeclarations, *)
(* friends and explicit specializations come after what they refer to, as  *)
(* clang requires.  A profile bounds the sources: the constructs they are  *)
(* made of, how many, and how many declarations these make.                *)
(***************************************************************************)
EXTENDS ModuleBuilder, FiniteSets, SequencesExt

CONSTANTS
  MaxDecls,  \* bound on the declarations of a source
  Profiles   \* the sources: [constructs, length, decls]

MCDecl == 1 .. MaxDecls

(***************************************************************************)
(* A declaration of the source: its lexical context (0 is the translation  *)
(* unit), whether decls() of that context lists it, its semantic context,  *)
(* the template it is the pattern or a specialization of, the friend       *)
(* declaration that introduces it, the previous declaration of the entity, *)
(* whether it is the definition, and the contexts open around it.          *)
(***************************************************************************)
Plain(l, kind, c) ==
  [kind |-> kind, lex |-> c, listed |-> TRUE, sem |-> c, pat |-> 0, spec |-> 0,
   friend |-> 0, prev |-> 0, def |-> FALSE, deleted |-> FALSE,
   implicit |-> FALSE, dep |-> c # 0 /\ l[c].dep,
   around |-> {c} \cup (IF c = 0 THEN {} ELSE l[c].around)]

IsContext(r) == \/ r.kind \in {"Namespace", "LinkageSpec"}
                \/ r.kind \in RecordKinds \cup FunctionKinds \cup {"Enum"} /\ r.def

Open(l) ==
  IF l = <<>> THEN {0}
  ELSE Last(l).around \cup (IF IsContext(Last(l)) THEN {Len(l)} ELSE {})

FileContexts(l) == {c \in Open(l) : c = 0 \/ l[c].kind \in {"Namespace", "LinkageSpec"}}
Records(l)      == {c \in Open(l) \ {0} : l[c].kind \in RecordKinds}

\* The last declaration of each entity satisfying P.
Latest(l, P(_)) ==
  {i \in DOMAIN l : P(l[i]) /\ ~\E j \in DOMAIN l : l[j].prev = i}

\* The first declaration of the entity of i.
First(l, i) ==
  LET first[j \in DOMAIN l] == IF l[j].prev = 0 THEN j ELSE first[l[j].prev] IN first[i]

Chain(l, i) == {j \in DOMAIN l : First(l, j) = First(l, i)}

Defined(l, i) == \E j \in Chain(l, i) : l[j].def

\* Redeclarations of entity i in context c, as a definition if it has none.
Redecls(l, i, c) ==
  { [[l[i] EXCEPT !.lex = c, !.listed = TRUE, !.friend = 0, !.prev = i, !.def = d]
      EXCEPT !.around = Plain(l, l[i].kind, c).around] :
    d \in IF Defined(l, i) THEN {FALSE} ELSE BOOLEAN }

AsDefOrDecl(r) == {[r EXCEPT !.def = d] : d \in BOOLEAN}

One(S) == {<<r>> : r \in S}

(***************************************************************************)
(* The constructs: the sequences of declarations each may append to l.     *)
(***************************************************************************)
Add(l, what) ==
  LET n == Len(l)
      At(k, C) == {Plain(l, k, c) : c \in C}
      Templates_(k) == {t \in DOMAIN l : l[t].kind = k /\ l[t].prev = 0}
      Instance(k, t) ==
        [Plain(l, k, l[t].lex) EXCEPT !.listed = FALSE, !.spec = t, !.dep = FALSE,
                                      !.around = Open(l)]
      Explicit(k, t) == {[Plain(l, k, c) EXCEPT !.spec = t] : c \in {l[t].lex} \cap FileContexts(l)}
      Specs(k) == UNION {AsDefOrDecl(Instance(k, t)) : t \in Templates_(what.of)}
      Expls(k) == UNION {UNION {AsDefOrDecl(r) : r \in Explicit(k, t)} : t \in Templates_(what.of)}
      Again(P(_)) ==
        UNION {UNION {Redecls(l, i, c) : c \in {l[i].sem} \cap FileContexts(l)} : i \in Latest(l, P)}
  IN CASE what.c = "plain" ->
            One(At(what.kind, FileContexts(l) \cup
                  (IF what.kind \in {"Namespace", "LinkageSpec"} THEN {} ELSE Records(l))))
       [] what.c = "entity" ->
            One(UNION {AsDefOrDecl(r) :
                       r \in At(what.kind, FileContexts(l) \cup
                                 (IF what.kind = "Function" THEN {} ELSE Records(l)))})
       [] what.c = "again" ->
            One(Again(LAMBDA r : r.kind = what.kind /\ r.pat = 0 /\ ~r.implicit
                                 /\ ~(r.spec # 0 /\ ~r.listed)))
       [] what.c = "member" ->
            One(UNION {AsDefOrDecl(r) \cup {[r EXCEPT !.deleted = TRUE, !.def = TRUE]} :
                       r \in At(what.kind, Records(l))})
       [] what.c = "outofline" ->
            One(UNION {{r \in Redecls(l, i, c) : r.def} :
                 i \in Latest(l, LAMBDA r : r.kind = what.kind /\ r.lex # 0 /\ l[r.lex].kind \in RecordKinds
                                            /\ ~r.deleted),
                 c \in FileContexts(l) \ Records(l)})
       [] what.c = "injected" ->
            One({[r EXCEPT !.implicit = TRUE] : r \in At("CXXRecord", Records(l))})
       [] what.c = "inside" ->
            One(At(what.kind, {c \in Open(l) \ {0} : l[c].kind = what.of}))
       [] what.c = "classtemplate" ->
            {<<Plain(l, "ClassTemplate", c),
               [Plain(l, "CXXRecord", c) EXCEPT !.listed = FALSE, !.pat = n + 1, !.def = TRUE,
                   !.dep = TRUE, !.around = @ \cup {c}]>> : c \in FileContexts(l)}
       [] what.c = "template" -> One(At(what.kind, FileContexts(l)))
       [] what.c = "instance" -> One(Specs(what.kind))
       [] what.c = "explicit" -> One(Expls(what.kind))
       [] what.c = "partial" ->
            One({[r EXCEPT !.dep = TRUE, !.def = TRUE] :
                 r \in At("ClassTemplateSpecialization", {l[t].lex : t \in Templates_("ClassTemplate")}
                                                           \cap FileContexts(l))})
       \* a member template of a specialization, with a partial specialization
       [] what.c = "memberpartial" ->
            {<<Plain(l, "ClassTemplate", c),
               [Plain(l, "CXXRecord", c) EXCEPT !.listed = FALSE, !.pat = n + 1, !.dep = TRUE],
               [Plain(l, "ClassTemplateSpecialization", c) EXCEPT !.dep = TRUE, !.def = TRUE]>> :
              c \in {x \in Records(l) : l[x].kind = "ClassTemplateSpecialization"}}
       [] what.c = "friendtype" -> One(At("Friend", Records(l)))
       [] what.c = "friendfunction" ->
            UNION {{<<Plain(l, "Friend", c), [r EXCEPT !.listed = FALSE, !.friend = n + 1, !.sem = 0]>> :
                    r \in AsDefOrDecl(Plain(l, "Function", c))
                      \cup UNION {{[Plain(l, "Function", c) EXCEPT !.prev = i, !.def = q.def] :
                                    q \in Redecls(l, i, c)} :
                                  i \in Latest(l, LAMBDA r : r.kind = "Function" /\ r.sem = 0
                                                             /\ r.spec = 0)}} :
                   c \in Records(l)}
       [] what.c = "friendtemplate" ->
            {<<Plain(l, "Friend", c),
               [Plain(l, "ClassTemplate", c) EXCEPT !.listed = FALSE, !.friend = n + 1, !.prev = t],
               [Plain(l, "CXXRecord", c) EXCEPT !.listed = FALSE, !.pat = n + 2, !.dep = TRUE,
                   !.prev = CHOOSE i \in DOMAIN l : l[i].pat = t]>> :
              c \in Records(l), t \in Latest(l, LAMBDA r : r.kind = "ClassTemplate")}

\* One more construct, if it fits.
Extend(S, p) ==
  S \cup UNION {{l \o x : x \in {y \in UNION {Add(l, what) : what \in p.constructs} :
                                   Len(l) + Len(y) <= p.decls}} : l \in S}

Sources(p) ==
  LET upto[n \in 0 .. p.length] == IF n = 0 THEN {<<>>} ELSE Extend(upto[n - 1], p)
  IN upto[p.length]

(***************************************************************************)
(* The AST clang builds for a source.                                      *)
(***************************************************************************)
Ids == [i \in MCDecl |-> i]

Padded(l) == [i \in MCDecl |-> IF i \in DOMAIN l THEN l[i] ELSE [Plain(l, "Ignored", 0) EXCEPT !.listed = FALSE]]

Where(P(_)) == SelectSeq(Ids, P)

Orelse(S) == IF S = {} THEN NoDecl ELSE CHOOSE i \in S : TRUE

Ast(l) ==
  LET p == Padded(l)
      ChainOf(i) == IF i \in DOMAIN l THEN Chain(l, i) ELSE {i}
      Canon(i) == IF i \in DOMAIN l THEN First(l, i) ELSE i
      Members(c) ==
        CASE c = TU -> Where(LAMBDA i : p[i].listed /\ p[i].lex = 0)
          \* enumerators() reads the definition from any redeclaration
          [] c # TU /\ p[c].kind = "Enum" ->
               IF p[c].prev # 0 THEN <<>>
               ELSE Where(LAMBDA i : p[i].kind = "EnumConstant" /\ Canon(p[i].lex) = c)
          [] OTHER -> Where(LAMBDA i : p[i].listed /\ p[i].lex = c)
  IN [kind |-> [i \in MCDecl |-> p[i].kind],
      members |-> [c \in MCDecl \cup {TU} |-> Members(c)],
      \* specializations() yields the most recent redeclaration of each one
      specializations |->
        [t \in MCDecl |-> Where(LAMBDA i : /\ p[i].spec # 0
                                           /\ Canon(p[i].spec) = Canon(t)
                                           /\ ~\E j \in DOMAIN l : l[j].prev = i)],
      templated |-> [t \in MCDecl |-> Orelse({i \in DOMAIN l : l[i].pat = t})],
      friendDecl |-> [f \in MCDecl |-> Orelse({i \in DOMAIN l : l[i].friend = f})],
      previous |-> [i \in MCDecl |-> IF p[i].prev = 0 THEN NoDecl ELSE p[i].prev],
      canonical |-> [i \in MCDecl |-> Canon(i)],
      definition |-> [i \in MCDecl |-> Orelse({j \in ChainOf(i) : p[j].def})],
      deleted |-> {i \in MCDecl : p[i].deleted},
      implicit |-> {i \in MCDecl : p[i].implicit},
      dependent |-> {i \in MCDecl : p[i].dep},
      commented |-> {i \in DOMAIN l : l[i].kind \in FunctionKinds}]

AstsOfSources == {Ast(l) : l \in UNION {Sources(p) : p \in Profiles}}

\* TLC evaluates a definition that replaces a constant at every use of the
\* constant, and any other constant definition once.
MCAsts == AstsOfSources

(***************************************************************************)
(* The constructs of the runs.                                             *)
(***************************************************************************)
C(c, kind, of) == [c |-> c, kind |-> kind, of |-> of]

\* Redeclarations, members and locals, without templates.
EntityConstructs ==
  {C("plain", k, "") : k \in {"Namespace", "LinkageSpec", "TypedefName", "StaticAssert", "Ignored"}}
   \cup {C("plain", "Unsupported", "")}
   \cup {C("entity", k, "") : k \in {"CXXRecord", "Enum", "Var", "Function"}}
   \cup {C("again", k, "") : k \in {"CXXRecord", "Enum", "Var", "Function"}}
   \cup {C("member", k, "") : k \in {"CXXMethod", "CXXConstructor", "CXXDestructor"}}
   \cup {C("outofline", "CXXMethod", ""), C("injected", "", ""), C("friendtype", "", ""), C("friendfunction", "", ""),
         C("inside", "EnumConstant", "Enum"), C("inside", "Var", "Function")}

\* Templates, their specializations and the ways to refer to them.
TemplateConstructs ==
  {C("classtemplate", "", ""), C("friendtemplate", "", ""), C("partial", "", ""),
   C("memberpartial", "", ""), C("entity", "CXXRecord", ""), C("outofline", "CXXRecord", ""),
   C("template", "FunctionTemplate", ""), C("template", "VarTemplate", "")}
   \cup {C(c, "ClassTemplateSpecialization", "ClassTemplate") : c \in {"instance", "explicit", "again"}}
   \cup {C(c, "Function", "FunctionTemplate") : c \in {"instance", "explicit", "again"}}
   \cup {C(c, "Var", "VarTemplate") : c \in {"instance", "explicit"}}
   \cup {C(c, "CXXMethod", "") : c \in {"member", "outofline"}}
   \cup {C("friendfunction", "", "")}

\* A class template, its instances, its members and its friends.
ClassTemplateConstructs ==
  {C("classtemplate", "", ""), C("friendtemplate", "", ""), C("outofline", "CXXMethod", ""),
   C("instance", "ClassTemplateSpecialization", "ClassTemplate"), C("member", "CXXMethod", "")}

VariableConstructs == {C("entity", "Var", ""), C("entity", "CXXRecord", ""), C("plain", "Namespace", "")}

Profile(constructs, length, decls) == [constructs |-> constructs, length |-> length, decls |-> decls]

\* Three constructs without templates, and four with them.
AllSources == {Profile(EntityConstructs, 3, 5), Profile(TemplateConstructs, 4, 7)}

ClassTemplates == {Profile(ClassTemplateConstructs, 3, 6)}

Variables == {Profile(VariableConstructs, 2, 3)}

\* Default(What::DEFINITION), the filter of toCoqModule.
DefaultFilter == {[d \in MCDecl |-> "DEFINITION"]}
==============================================================================

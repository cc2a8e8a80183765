------------------------------- MODULE PrintStmt -------------------------------
(***************************************************************************)
(* The statement printer (src/src/PrintStmt.cpp) and the printer of local  *)
(* declarations (src/src/PrintLocalDecl.cpp), with what Coq reads in their *)
(* output: the terms (theories/lang/cpp/syntax/stmt.v), the local variable *)
(* a name stands for, and the cases of a switch                            *)
(* (theories/lang/cpp/logic/stmt.v).                                       *)
(*                                                                         *)
(* The printer is recursive: a frame of the stack is a handler, with what  *)
(* it still has to print.  The statement is chosen as the printer gets to  *)
(* it, among those clang can build.                                        *)
(***************************************************************************)
EXTENDS CoqPrinter, FiniteSets

CONSTANTS
  Names,     \* names of local variables
  MaxNodes,  \* bound on the statements that are not leaves
  MaxDecls,  \* bound on the local variables
  MaxItems   \* bound on the statements of a block and on its declarators

ASSUME PrintStmtAssumption ==
  /\ Names # {} /\ {"__range", "__begin", "__end"} \cap Names = {}
  /\ MaxNodes \in Nat /\ MaxDecls \in Nat /\ MaxItems \in Nat

VARIABLES
  stack,  \* the active handlers, outermost first
  out,    \* the output, as CoqPrinter keeps it
  size,   \* number of statements met that are not leaves
  decls,  \* number of local variables met
  loose   \* a case stood where no list of statements is printed

vars == <<stack, out, size, decls, loose>>

(***************************************************************************)
(* What the handlers print: "(" with a constructor, ")" , "[" and "]" for  *)
(* a list, "::", "w" for a word of some sort, and what they leave to       *)
(* another handler: "expr", "local" (a declaration), "init" (a statement   *)
(* whose declarations are visible afterwards) and "stmt".                  *)
(***************************************************************************)
W(s) == <<"w", <<s>>>>

Ctor(c, args) == <<<<"(", c>>>> \o args \o <<<<")">>>>

None == <<W("None")>>

Opt(s) == {None, Ctor("Some", <<<<s>>>>)}

Body == <<<<"stmt">>>>

\* A condition variable, or none.
CondVar == Opt("local")

Repeat(n, s) == [i \in 1 .. n * Len(s) |-> s[((i - 1) % Len(s)) + 1]]

List(n, s) == <<<<"[">>>> \o Repeat(n, s \o <<<<"::">>>>) \o <<<<"]">>>>

DeclStmtCode == {Ctor("Sdecl", <<<<"[">>>> \o Repeat(n, <<<<"local">>>>) \o <<<<"]">>>>) : n \in 1 .. MaxItems}

WhileStmtCode_NoParen ==
  {Ctor("Swhile", v \o <<<<"expr">>>> \o Body) : v \in {None, <<<<"(", "Some">>, <<"local">>>>}}

WhileStmtCode == {Ctor("Swhile", v \o <<<<"expr">>>> \o Body) : v \in CondVar}

ForStmtCode == {Ctor("Sfor", i \o c \o n \o Body) : i \in Opt("init"), c \in Opt("expr"), n \in Opt("expr")}

\* "range", "begin", "end" and "loopvar" are the statements clang makes.
CXXForRangeStmtCode ==
  {Ctor("Sforeach", <<<<"range">>, <<"begin">>, <<"end">>>> \o i
                      \o Ctor("Some", <<<<"cond">>>>) \o Ctor("Some", <<<<"inc">>>>)
                      \o <<<<"loopvar">>>> \o Body) : i \in Opt("rangeinit")}

DoStmtCode == {Ctor("Sdo", Body \o <<<<"expr">>>>)}

\* stmt->getInit() is not printed.
IfStmtCode == {Ctor("Sif", v \o <<<<"expr">>>> \o Body \o e) : v \in CondVar, e \in {Body, <<W("Stmt")>>}}

SwitchStmtCode == {Ctor("Sswitch", v \o <<<<"expr">>>> \o Body) : v \in CondVar}

CaseStmtCode_NoCons ==
  {Ctor("Scase", b) \o Body : b \in {Ctor("Range", <<W("Z"), W("Z")>>), Ctor("Exact", <<W("Z")>>)}}

CaseStmtCode ==
  {Ctor("Scase", b) \o <<<<"::">>>> \o Body :
     b \in {Ctor("Range", <<W("Z"), W("Z")>>), Ctor("Exact", <<W("Z")>>)}}

DefaultStmtCode == {<<W("Stmt"), <<"::">>>> \o Body}

CompoundStmtCode == {Ctor("Sseq", List(n, Body)) : n \in 0 .. MaxItems}

AttributedStmtCode == {Ctor("Sattr", List(1, <<W("ident")>>) \o Body)}

LabelStmtCode == {Ctor("Slabeled", <<W("ident")>> \o Body)}

\* break, continue, ; and return;
WordCode == {<<W("Stmt")>>}
ExprCode == {Ctor("Sexpr", <<<<"expr">>>>)}
ReturnStmtCode == {Ctor("Sreturn_val", <<<<"expr">>>>)}
GotoStmtCode == {Ctor("Sgoto", <<W("ident")>>)}
CXXTryStmtCode == {Ctor("Sunsupported", <<W("ident")>>)}
GCCAsmStmtCode ==
  {Ctor("Sasm", <<W("ident"), W("bool")>> \o List(1, <<W("operand")>>) \o List(1, <<W("operand")>>)
                  \o List(1, <<W("ident")>>))}

\* PrintLocalDecl; nested declarators of a structured binding have no names
\* to look up, so only their sort is kept.
VarDeclCode == {Ctor("Dvar", <<W("ident"), W("type")>> \o i) : i \in Opt("expr")}
StaticVarDeclCode == {Ctor("Dinit", <<W("bool"), W("obj_name"), W("type")>> \o i) : i \in Opt("expr")}
DecompositionDeclCode ==
  {Ctor("Ddecompose", <<<<"expr">>, W("ident")>>
          \o List(1, Ctor("Dvar", <<W("ident"), W("type")>> \o Ctor("Some", <<W("Expr")>>))))}

(***************************************************************************)
(* Frames.  code is what is left to print.  cpp and coq are the local      *)
(* variables that the handler's statement has declared so far for the      *)
(* statements and expressions that follow in it: as C++ looks names up,    *)
(* and as Coq reads the output.                                            *)
(* depth is the local of printStmt.  nocase is what no_case says of the    *)
(* substatements printed so far, and labels, default, listed, declared and *)
(* refused are about the cases of a switch.                                *)
(***************************************************************************)
Frame(kind, code, cpp) ==
  [kind |-> kind, code |-> code, cpp |-> cpp, coq |-> {}, depth |-> get_depth(out),
   nocase |-> TRUE, labels |-> 0, default |-> FALSE, listed |-> 0, declared |-> FALSE, refused |-> FALSE]

Loops == {"WhileStmt", "ForStmt", "CXXForRangeStmt", "DoStmt"}
Controls == Loops \cup {"IfStmt", "SwitchStmt"}
Labels == {"CaseStmt", "DefaultStmt"}

Top == stack[Len(stack)]

Active == stack # <<>> /\ Top.code # <<>>

Step == Head(Top.code)

Does(s) == Active /\ Step[1] = s

Advanced == [stack EXCEPT ![Len(stack)].code = Tail(@)]

(***************************************************************************)
(* Local variables.  how is "auto", "static" or "extern"; "unprinted" when *)
(* no handler prints its declaration, "later" when it is printed after     *)
(* what may refer to it, "labelled" when the declaration has a label.      *)
(***************************************************************************)
Var(n, how, init) == [name |-> n, id |-> decls + 1, how |-> how, init |-> init]

NoVar == [name |-> "", id |-> 0, how |-> "", init |-> FALSE]

Latest(S) == IF S = {} THEN NoVar ELSE CHOOSE d \in S : \A e \in S : e.id <= d.id

InCpp(n) == {d \in UNION {stack[j].cpp : j \in DOMAIN stack} : d.name = n}

InCoq(n) == {d \in UNION {stack[j].coq : j \in DOMAIN stack} : d.name = n}

VarRef_AllLocal(d) == Latest(InCoq(d.name))

\* PrintExpr::printVarRef: Gname for a static variable, Lname for the others,
\* which is the latest binding of the region.
VarRef(d) == IF d.how = "static" THEN d ELSE Latest(InCoq(d.name))

\* Clang rejects two declarations of a name in a scope; the block of a
\* control statement or of the function is in the scope of its variables.
StartsScope(j) ==
  \/ j = 1 \/ stack[j].kind \in Controls
  \/ stack[j].kind = "CompoundStmt" /\ stack[j - 1].kind \notin Controls /\ j > 2

Declarable ==
  LET start == CHOOSE j \in DOMAIN stack : StartsScope(j) /\ \A k \in j + 1 .. Len(stack) : ~StartsScope(k)
  IN Names \ {d.name : d \in UNION {stack[j].cpp : j \in start .. Len(stack)}}

\* What a finished handler leaves declared, in C++ and in Coq.
CppLeft(f) ==
  CASE f.kind \in {"VarDecl", "DeclStmt"} \cup Labels -> f.cpp
    [] f.kind = "LabelStmt" ->
         {[d EXCEPT !.how = IF @ = "static" THEN @ ELSE "labelled"] : d \in f.cpp}
    [] OTHER -> {}

\* wp_decl, wp_decls and wp_block: only an Sdecl that stands in the list of a
\* block declares something for what follows.
CoqLeft(f) ==
  CASE f.kind = "VarDecl" -> {d \in f.cpp : d.how # "static"}
    [] f.kind \in {"DeclStmt"} \cup Labels -> f.coq
    [] OTHER -> {}

Declaring(f) == Head(f.code)[1] \in {"local", "init", "range", "begin", "end", "rangeinit", "loopvar"}

Keeps(f, S, kinds) == IF Declaring(f) \/ f.kind \in {"CompoundStmt"} \cup Labels \cup kinds THEN S ELSE {}

(***************************************************************************)
(* The cases of a switch, as Coq reads them.                               *)
(***************************************************************************)
no_case_Unlabelled(f) ==
  CASE f.kind \in Labels \cup {"CXXTryStmt"} -> FALSE
    [] f.kind \in {"SwitchStmt", "DeclStmt", "Leaf", "VarDecl", "LabelStmt"} -> TRUE
    [] OTHER -> f.nocase

no_case(f) ==
  CASE f.kind \in Labels \cup {"CXXTryStmt"} -> FALSE
    [] f.kind \in {"SwitchStmt", "DeclStmt", "Leaf", "VarDecl"} -> TRUE
    [] OTHER -> f.nocase

\* The frame in whose parentheses frame j prints its statement.
Target(j) == CHOOSE k \in 1 .. j : /\ stack[k].kind \notin Labels
                                   /\ \A i \in k + 1 .. j : stack[i].kind \in Labels

InSwitchBlock(j) == j > 1 /\ stack[j].kind = "CompoundStmt" /\ stack[j - 1].kind = "SwitchStmt"

\* wp_switch_block on one more statement of the block.
SwitchBlock(sw, f) ==
  [sw EXCEPT !.declared = @ \/ f.kind = "DeclStmt", !.refused = @ \/ ~no_case(f)]

SwitchLabel_Twice(sw) == [sw EXCEPT !.listed = @ + 2, !.refused = @ \/ sw.declared]

SwitchLabel(sw) == [sw EXCEPT !.listed = @ + 1, !.refused = @ \/ sw.declared]

InnermostSwitch == {j \in DOMAIN stack : /\ stack[j].kind = "SwitchStmt"
                                         /\ \A k \in j + 1 .. Len(stack) : stack[k].kind # "SwitchStmt"}

\* Clang rejects a case that jumps past an initialization.
MayLabel(j) == \A k \in j + 1 .. Len(stack) : \A d \in stack[k].cpp : ~d.init

(***************************************************************************)
(* The handlers.                                                           *)
(***************************************************************************)
\* The block of a switch is not counted.
Enter(f) ==
  /\ stack' = Append(stack, f)
  /\ \/ f.kind = "CompoundStmt" /\ Top.kind = "SwitchStmt" /\ size' = size
     \/ ~(f.kind = "CompoundStmt" /\ Top.kind = "SwitchStmt") /\ size < MaxNodes /\ size' = size + 1

Write(o, t) ==
  CASE t[1] = "(" -> ctor(o, t[2])
    [] t[1] = ")" -> end_ctor(o)
    [] t[1] = "[" -> begin_list(o)
    [] t[1] = "]" -> end_list(o)
    [] t[1] = "::" -> cons(o)
    [] t[1] = "w" -> word(o, t[2])

IsText(t) == t[1] \in {"(", ")", "[", "]", "::", "w"}

\* What the handler at the top prints before its next call.
Text ==
  LET last == CHOOSE i \in 0 .. Len(Top.code) :
                /\ \A k \in 1 .. i : IsText(Top.code[k])
                /\ i < Len(Top.code) => ~IsText(Top.code[i + 1])
  IN SubSeq(Top.code, 1, last)

WriteAll(o, ts) ==
  LET written[i \in 0 .. Len(ts)] == IF i = 0 THEN o ELSE Write(written[i - 1], ts[i])
  IN written[Len(ts)]

PrintText ==
  /\ Active /\ IsText(Step)
  /\ out' = WriteAll(out, Text)
  /\ stack' = [stack EXCEPT ![Len(stack)].code = SubSeq(@, Len(Text) + 1, Len(@))]
  /\ UNCHANGED <<size, decls, loose>>

PrintExpr ==
  /\ Active /\ Step[1] \in {"expr", "cond", "inc"}
  /\ out' = word(out, <<"Expr">>)
  /\ stack' = Advanced
  /\ UNCHANGED <<size, decls, loose>>

\* Statements without substatements.
VisitLeaf ==
  /\ Does("stmt") \/ Does("init")
  /\ \/ \E c \in WordCode \cup ExprCode : stack' = Append(stack, Frame("Leaf", c, {}))
     \/ /\ Does("stmt")
        /\ \E c \in ReturnStmtCode \cup GotoStmtCode \cup GCCAsmStmtCode : stack' = Append(stack, Frame("Leaf", c, {}))
  /\ UNCHANGED <<out, size, decls, loose>>

VisitCXXTryStmt ==
  /\ Does("stmt")
  /\ \E c \in CXXTryStmtCode : Enter(Frame("CXXTryStmt", c, {}))
  /\ UNCHANGED <<out, decls, loose>>

\* A statement without a handler.
VisitStmt ==
  /\ Does("stmt")
  /\ stack' = <<>> /\ out' = NoOutput
  /\ UNCHANGED <<size, decls, loose>>

VisitDeclStmt ==
  /\ Does("init") \/ (Does("stmt") /\ Top.kind # "AttributedStmt")
  /\ \E c \in DeclStmtCode : Enter(Frame("DeclStmt", c, {}))
  /\ UNCHANGED <<out, decls, loose>>

VisitBlock ==
  /\ Does("stmt")
  /\ \/ \E c \in CompoundStmtCode : Enter(Frame("CompoundStmt", c, {}))
     \/ \E c \in AttributedStmtCode : Enter(Frame("AttributedStmt", c, {}))
     \/ \E c \in LabelStmtCode : Enter(Frame("LabelStmt", c, {}))
  /\ UNCHANGED <<out, decls, loose>>

VisitControl ==
  /\ Does("stmt")
  /\ \/ \E c \in WhileStmtCode : Enter(Frame("WhileStmt", c, {}))
     \/ \E c \in ForStmtCode : Enter(Frame("ForStmt", c, {}))
     \/ \E c \in DoStmtCode : Enter(Frame("DoStmt", c, {}))
     \/ \E c \in IfStmtCode : Enter(Frame("IfStmt", c, {}))
     \/ \E c \in SwitchStmtCode : Enter(Frame("SwitchStmt", c, {}))
  /\ UNCHANGED <<out, decls, loose>>

\* An if or a switch with an init-statement, or a for whose condition declares
\* a variable.
VisitWithInit ==
  /\ Does("stmt") /\ decls < MaxDecls
  /\ \E n \in Names :
       LET V == {Var(n, "unprinted", TRUE)}
       IN \/ \E c \in ForStmtCode : Enter(Frame("ForStmt", c, V))
          \/ \E c \in IfStmtCode : Enter(Frame("IfStmt", c, V))
          \/ \E c \in SwitchStmtCode : Enter(Frame("SwitchStmt", c, V))
  /\ decls' = decls + 1
  /\ UNCHANGED <<out, loose>>

VisitCXXForRangeStmt ==
  /\ Does("stmt") /\ decls < MaxDecls
  /\ \E c \in CXXForRangeStmtCode, n \in Names :
       IF <<"rangeinit">> \in {c[i] : i \in DOMAIN c}
       THEN Enter(Frame("CXXForRangeStmt", c, {Var(n, "later", TRUE)})) /\ decls' = decls + 1
       ELSE Enter(Frame("CXXForRangeStmt", c, {})) /\ decls' = decls
  /\ UNCHANGED <<out, loose>>

\* The statements clang makes of a range-for are declarations of one variable.
RangeDecl == Frame("DeclStmt", Ctor("Sdecl", <<<<"[">>, <<Step[1], "local">>, <<"]">>>>), {})

VisitRangeDecl ==
  /\ Active /\ Step[1] \in {"range", "begin", "end", "loopvar", "rangeinit"} /\ Len(Step) = 1
  /\ stack' = Append(stack, RangeDecl)
  /\ UNCHANGED <<out, size, decls, loose>>

\* PrintLocalDecl::VisitVarDecl and VisitDecompositionDecl.
EnterDecl(c, d) == stack' = Append(stack, Frame("VarDecl", c, {d}))

VisitVarDecl ==
  /\ Does("local") /\ decls < MaxDecls
  /\ \E n \in Declarable :
       \/ \E c \in VarDeclCode : /\ Top.kind \in Controls => <<"expr">> \in {c[i] : i \in DOMAIN c}
                                 /\ EnterDecl(c, Var(n, "auto", <<"expr">> \in {c[i] : i \in DOMAIN c}))
       \/ /\ Top.kind = "DeclStmt"
          /\ \/ \E c \in StaticVarDeclCode : EnterDecl(c, Var(n, "static", FALSE))
             \/ \E c \in VarDeclCode : W("None") \in {c[i] : i \in DOMAIN c} /\ EnterDecl(c, Var(n, "extern", FALSE))
             \/ \E c \in DecompositionDeclCode : EnterDecl(c, Var(n, "auto", TRUE))
  /\ decls' = decls + 1
  /\ UNCHANGED <<out, size, loose>>

Hidden == [range |-> "__range", begin |-> "__begin", end |-> "__end"]

\* The variable of a statement of a range-for: nested loops have other names
\* for the hidden ones.  That of the init-statement is declared already.
VisitRangeVar ==
  /\ Active /\ Step[1] \in {"range", "begin", "end", "loopvar", "rangeinit"} /\ Len(Step) = 2
  /\ \E c \in {c \in VarDeclCode : <<"expr">> \in {c[i] : i \in DOMAIN c}} :
       LET loop == stack[Len(stack) - 1]
       IN CASE Step[1] \in DOMAIN Hidden ->
                 /\ EnterDecl(c, [Var(Hidden[Step[1]], "auto", TRUE) EXCEPT !.id = Len(stack)])
                 /\ decls' = decls
            [] Step[1] = "loopvar" ->
                 /\ \E n \in Declarable : EnterDecl(c, Var(n, "auto", TRUE))
                 /\ decls' = decls + 1
            [] Step[1] = "rangeinit" ->
                 /\ \E d \in {d \in loop.cpp : d.how = "later"} :
                      stack' = Append([stack EXCEPT ![Len(stack) - 1].cpp = @ \ {d}],
                                      Frame("VarDecl", c, {[d EXCEPT !.how = "auto"]}))
                 /\ decls' = decls
  /\ UNCHANGED <<out, size, loose>>

\* Local types, functions and assertions: printLocalDecl returns false.
VisitOtherDecl ==
  /\ Does("local") /\ Top.kind = "DeclStmt"
  /\ stack' = Advanced
  /\ UNCHANGED <<out, size, decls, loose>>

\* The label that case or default adds to its switch, and to the block of the
\* switch if it is printed there.
Labelled(j, isDefault) ==
  LET sw == [stack[j] EXCEPT !.labels = @ + 1, !.default = @ \/ isDefault]
  IN [stack EXCEPT ![j] = IF InSwitchBlock(Target(Len(stack))) THEN SwitchLabel(sw) ELSE sw]

VisitSwitchCase ==
  /\ Does("stmt") /\ size < MaxNodes
  /\ \E j \in InnermostSwitch :
       /\ MayLabel(j)
       /\ \/ \E c \in CaseStmtCode : stack' = Append(Labelled(j, FALSE), Frame("CaseStmt", c, {}))
          \/ /\ ~stack[j].default
             /\ \E c \in DefaultStmtCode : stack' = Append(Labelled(j, TRUE), Frame("DefaultStmt", c, {}))
  /\ size' = size + 1
  /\ loose' = (loose \/ stack[Target(Len(stack))].kind # "CompoundStmt")
  /\ UNCHANGED <<out, decls>>

\* What handler f, done, changes in the one that called it, and in the switch
\* whose block it printed a statement of.
Resumed(f, s) ==
  LET c == Len(s)
      r == [s EXCEPT ![c].code = Tail(@),
                     ![c].cpp = @ \cup Keeps(s[c], CppLeft(f), {"LabelStmt"}),
                     ![c].coq = @ \cup Keeps(s[c], CoqLeft(f), {}),
                     ![c].nocase = @ /\ no_case(f),
                     ![c].refused = @ \/ (s[c].kind = "SwitchStmt" /\ f.kind \notin {"VarDecl", "CompoundStmt"})]
      t == Target(c)
  IN IF f.kind \notin Labels /\ InSwitchBlock(t) THEN [r EXCEPT ![t - 1] = SwitchBlock(@, f)] ELSE r

Finished(f) == f.code = <<>>

\* A declaration of a list of declarations is followed by "::".
Return ==
  /\ stack # <<>> /\ Finished(Top)
  /\ LET caller == SubSeq(stack, 1, Len(stack) - 1)
     IN /\ stack' = IF caller = <<>> THEN <<>> ELSE Resumed(Top, caller)
        /\ out' = IF Top.kind = "VarDecl" /\ stack[Len(stack) - 1].kind = "DeclStmt" THEN cons(out) ELSE out
  /\ UNCHANGED <<size, decls, loose>>

\* printStmt on the body of a function with one parameter.
Init ==
  /\ out = NoOutput
  /\ \E n \in Names, c \in CompoundStmtCode :
       LET p == [name |-> n, id |-> 1, how |-> "auto", init |-> TRUE]
       IN stack = <<[Frame("Function", Body, {p}) EXCEPT !.coq = {p}], Frame("CompoundStmt", c, {})>>
  /\ size = 0 /\ decls = 1 /\ loose = FALSE

Next ==
  \/ PrintText \/ PrintExpr \/ VisitLeaf \/ VisitCXXTryStmt \/ VisitStmt \/ VisitDeclStmt \/ VisitBlock
  \/ VisitControl \/ VisitWithInit \/ VisitCXXForRangeStmt \/ VisitRangeDecl
  \/ VisitVarDecl \/ VisitRangeVar \/ VisitOtherDecl \/ VisitSwitchCase \/ Return

Spec == Init /\ [][Next]_vars

(***************************************************************************)
(* Properties.                                                             *)
(***************************************************************************)
Kinds == Controls \cup Labels
           \cup {"Function", "CompoundStmt", "AttributedStmt", "LabelStmt", "DeclStmt", "VarDecl", "CXXTryStmt", "Leaf"}

Hows == {"auto", "static", "extern", "unprinted", "later", "labelled"}

IsVar(d) == /\ d.name \in Names \cup {Hidden[i] : i \in DOMAIN Hidden}
            /\ d.id \in Nat /\ d.how \in Hows /\ d.init \in BOOLEAN

\* Every variable has its type; the counts of a switch are its labels.
TypeOK ==
  /\ \A j \in DOMAIN stack :
       LET f == stack[j]
       IN /\ f.kind \in Kinds /\ f.depth \in Nat
          /\ \A d \in f.cpp \cup f.coq : IsVar(d)
          /\ f.nocase \in BOOLEAN /\ f.default \in BOOLEAN /\ f.declared \in BOOLEAN /\ f.refused \in BOOLEAN
          /\ f.labels \in 0 .. MaxNodes /\ f.listed \in 0 .. f.labels
  /\ \A i \in DOMAIN out : out[i].head \in DOMAIN Signatures \cup {"list", "Some"}
  /\ size \in 0 .. MaxNodes /\ decls \in Nat /\ loose \in BOOLEAN

\* The assertion of printStmt: when the handler of a statement returns, the
\* formatter has the depth it had before, whatever is nested in the statement.
DepthRestored == \A j \in DOMAIN stack : Finished(stack[j]) => get_depth(out) = stack[j].depth

\* Coq accepts the output: every constructor has the arguments it takes and
\* every list is one, as long as every case stands in a block.
TermsRead == \A i \in DOMAIN out : \A k \in DOMAIN out[i].args : out[i].args[k] = Ill => loose

\* Wherever an expression is printed, a name that C++ finds declared stands, in
\* the output, for the same variable, with shadowing, whatever scopes have
\* been closed before and whatever declarations are not printed.  Excepted are
\* the variables that ScopesAgree cannot hold of: an init-statement of an if or
\* switch (or what a for condition declares), that of a range-for before it is
\* printed, a declaration with a label, an extern in a block, and the variable
\* whose own initializer the expression is in.
ScopesAgree ==
  Does("expr") \/ Does("cond") \/ Does("inc") =>
    \A n \in Names \cup {Hidden[i] : i \in DOMAIN Hidden} :
      LET d == Latest(InCpp(n))
          initialized == Top.kind = "VarDecl" /\ d \in Top.cpp
      IN d.how \in {"auto", "static"} /\ ~initialized => VarRef(d) = d

\* A switch of whose cases one is lost has no meaning: when wp_switch_block
\* accepts the block, it has all the cases of the switch, however they are
\* nested.
SwitchesSound ==
  \A j \in DOMAIN stack :
    stack[j].kind = "SwitchStmt" /\ Finished(stack[j]) => stack[j].refused \/ stack[j].listed = stack[j].labels

(***************************************************************************)
(* What the documentation says, and the program does not do.               *)
(***************************************************************************)
\* doc/sphinx/features.rst: "If you are using `cpp2v` to generate the AST, then
\* Clang will ensure that the syntax tree is well typed": a name that C++
\* finds declared is declared in the output.
LocalsDeclared ==
  Does("expr") => \A n \in Names : Latest(InCpp(n)).how = "unprinted" => VarRef(Latest(InCpp(n))).name = n
================================================================================

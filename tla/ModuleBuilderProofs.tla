------------------------- MODULE ModuleBuilderProofs -------------------------
(***************************************************************************)
(* For every AST, filter and setting of -templates: the traversal keeps    *)
(* its types, and no declaration is recorded twice, neither as itself nor  *)
(* through another declaration of the same class, enum or function.  The   *)
(* second half is about what the finished traversal has recorded.          *)
(***************************************************************************)
EXTENDS ModuleBuilder, SequenceTheorems, TLAPS

(***************************************************************************)
(* What a handler may push: well-formed calls, visits of declarations the  *)
(* AST links to, and go calls for the visited declaration d or its locals, *)
(* each at most once.                                                      *)
(***************************************************************************)
Mine(x, d) ==
  \/ x = d
  \/ d \in Owners(ast) /\ x \in Locals(ast, d)

TodoOK(t, d) ==
  /\ t \in Seq(Item)
  /\ \A i \in DOMAIN t :
       /\ t[i].op = "Visit" => t[i].d \in Targets(ast)
       /\ t[i].op = "go" => Mine(t[i].d, d) /\ Represents(ast, t[i].d)
  /\ \A i, j \in DOMAIN t :
       t[i].op = "go" /\ t[j].op = "go" /\ t[i].d = t[j].d => i = j

\* A function on 1 .. n is a sequence of length n.
LEMMA FunctionIsSeq ==
  ASSUME NEW S, NEW n \in Nat, NEW g \in [1 .. n -> S]
  PROVE  g \in Seq(S) /\ Len(g) = n
  OBVIOUS

\* A handler that makes no call.
LEMMA TodoNothing == ASSUME NEW d PROVE TodoOK(<<>>, d)
  BY DEF TodoOK

\* A handler that makes one go call for its own declaration.
LEMMA TodoGo ==
  ASSUME NEW d \in Decl, NEW f \in Flags, NEW def \in BOOLEAN, Represents(ast, d)
  PROVE  TodoOK(<<go(d, f, def)>>, d)
  BY DEF TodoOK, go, Item, Mine

\* A handler that makes one Visit call.
LEMMA TodoVisit ==
  ASSUME NEW d, NEW x \in Decl, NEW f \in Flags, x \in Targets(ast)
  PROVE  TodoOK(<<Visit(x, f)>>, d)
  BY DEF TodoOK, Visit, Item

\* A handler that visits a sequence of declarations.
LEMMA TodoVisitEach ==
  ASSUME NEW d, NEW s \in Seq(Decl), NEW f \in Flags, Range(s) \subseteq Targets(ast)
  PROVE  TodoOK(VisitEach(s, f), d)
<1> DEFINE v == VisitEach(s, f)
<1>1. \A i \in 1 .. Len(s) : s[i] \in Decl /\ s[i] \in Targets(ast)
  BY DEF Range
<1>2. v \in [1 .. Len(s) -> Item] /\ \A i \in 1 .. Len(s) : v[i] = Visit(s[i], f)
  <2>1. DOMAIN s = 1 .. Len(s)
    OBVIOUS
  <2>2. \A i \in 1 .. Len(s) : Visit(s[i], f) \in Item
    BY <1>1 DEF Visit, Item
  <2> QED BY <2>1, <2>2 DEF VisitEach
<1> HIDE DEF v
<1>3. v \in Seq(Item) /\ Len(v) = Len(s)
  BY <1>2, FunctionIsSeq
<1> QED
  BY <1>1, <1>2, <1>3 DEF TodoOK, Visit, v

\* Two batches of calls, one after the other.
LEMMA TodoConcat ==
  ASSUME NEW d, NEW a, NEW b, TodoOK(a, d), TodoOK(b, d),
         \A i \in DOMAIN a, j \in DOMAIN b :
           a[i].op = "go" /\ b[j].op = "go" => a[i].d # b[j].d
  PROVE  TodoOK(a \o b, d)
<1>1. a \in Seq(Item) /\ b \in Seq(Item) /\ Len(a) \in Nat /\ Len(b) \in Nat
      /\ DOMAIN a = 1 .. Len(a) /\ DOMAIN b = 1 .. Len(b)
  BY DEF TodoOK
<1> DEFINE t == a \o b
<1>2. /\ t \in Seq(Item)
      /\ DOMAIN t = 1 .. Len(a) + Len(b)
      /\ \A i \in DOMAIN t : t[i] = IF i <= Len(a) THEN a[i] ELSE b[i - Len(a)]
  BY <1>1, ConcatProperties
<1> HIDE DEF t
<1>3. \A i \in DOMAIN t : \/ i \in DOMAIN a /\ t[i] = a[i]
                          \/ i - Len(a) \in DOMAIN b /\ i > Len(a) /\ t[i] = b[i - Len(a)]
  BY <1>1, <1>2
<1>4. \A i \in DOMAIN t :
        /\ t[i].op = "Visit" => t[i].d \in Targets(ast)
        /\ t[i].op = "go" => Mine(t[i].d, d) /\ Represents(ast, t[i].d)
  BY <1>3 DEF TodoOK
<1>5. ASSUME NEW i \in DOMAIN t, NEW j \in DOMAIN t,
             t[i].op = "go", t[j].op = "go", t[i].d = t[j].d
      PROVE  i = j
  <2>1. CASE i \in DOMAIN a /\ t[i] = a[i] /\ j \in DOMAIN a /\ t[j] = a[j]
    BY <1>5, <2>1 DEF TodoOK
  <2>2. CASE i \in DOMAIN a /\ t[i] = a[i] /\ j - Len(a) \in DOMAIN b /\ t[j] = b[j - Len(a)]
    BY <1>5, <2>2
  <2>3. CASE i - Len(a) \in DOMAIN b /\ t[i] = b[i - Len(a)] /\ j \in DOMAIN a /\ t[j] = a[j]
    BY <1>5, <2>3
  <2>4. CASE /\ i - Len(a) \in DOMAIN b /\ t[i] = b[i - Len(a)]
             /\ j - Len(a) \in DOMAIN b /\ t[j] = b[j - Len(a)]
    <3>1. i - Len(a) = j - Len(a)
      BY <1>5, <2>4 DEF TodoOK
    <3> QED BY <3>1, <1>1, <1>2
  <2> QED BY <1>3, <2>1, <2>2, <2>3, <2>4
<1> QED
  BY <1>2, <1>4, <1>5 DEF TodoOK, t

\* A handler that records the locals of its declaration.
LEMMA TodoGoEach ==
  ASSUME NEW d \in Decl, NEW f \in Flags, AstShape(ast), LocalsAreOwned(ast), d \in Owners(ast)
  PROVE  /\ TodoOK(goEach(ast.members[d], f), d)
         /\ \A i \in DOMAIN goEach(ast.members[d], f) :
              goEach(ast.members[d], f)[i].d \notin Targets(ast)
<1> DEFINE s == ast.members[d]
           g == goEach(s, f)
<1>1. s \in Seq(Decl) /\ IsInjective(s) /\ Len(s) \in Nat /\ DOMAIN s = 1 .. Len(s)
  BY DEF AstShape, LocalsAreOwned
<1>2. \A i \in 1 .. Len(s) : /\ s[i] \in Decl
                             /\ s[i] \in Locals(ast, d)
                             /\ s[i] \notin Targets(ast)
                             /\ Represents(ast, s[i])
  <2> TAKE i \in 1 .. Len(s)
  <2>1. s[i] \in Locals(ast, d) /\ s[i] \in Decl
    BY <1>1 DEF Locals, Range
  <2>2. s[i] \notin Targets(ast) /\ ast.kind[s[i]] \in {"EnumConstant", "Var"}
    BY <2>1 DEF LocalsAreOwned
  <2>3. Represents(ast, s[i])
    BY <2>2 DEF Represents, EntityKinds, RecordKinds, FunctionKinds
  <2> QED BY <2>1, <2>2, <2>3
<1> HIDE DEF s
<1>3. g \in [1 .. Len(s) -> Item] /\ \A i \in 1 .. Len(s) : g[i] = go(s[i], f, TRUE)
  <2>1. \A i \in 1 .. Len(s) : go(s[i], f, TRUE) \in Item
    BY <1>2 DEF go, Item
  <2> QED BY <1>1, <2>1 DEF goEach
<1> HIDE DEF g
<1>4. g \in Seq(Item) /\ DOMAIN g = 1 .. Len(s)
  BY <1>1, <1>3, FunctionIsSeq
<1>5. \A i \in DOMAIN g : Mine(g[i].d, d) /\ Represents(ast, g[i].d) /\ g[i].op = "go"
                          /\ g[i].d \notin Targets(ast)
  BY <1>2, <1>3, <1>4 DEF go, Mine
<1>6. \A i, j \in DOMAIN g : g[i].d = g[j].d => i = j
  BY <1>1, <1>3, <1>4 DEF go, IsInjective
<1>7. TodoOK(g, d) /\ \A i \in DOMAIN g : g[i].d \notin Targets(ast)
  BY <1>4, <1>5, <1>6 DEF TodoOK
<1> QED
  BY <1>7 DEF g, s

\* A handler that records its own declaration and then its locals.
LEMMA TodoGoLocals ==
  ASSUME NEW d \in Decl, NEW f \in Flags, Represents(ast, d), AstShape(ast),
         LocalsAreOwned(ast), d \in Owners(ast), d \in Targets(ast)
  PROVE  TodoOK(<<go(d, f, TRUE)>> \o goEach(ast.members[d], f), d)
<1> DEFINE a == <<go(d, f, TRUE)>>
           b == goEach(ast.members[d], f)
<1>1. TodoOK(a, d)
  BY TodoGo
<1>2. \A i \in DOMAIN a : a[i].d = d
  BY DEF go
<1>3. TodoOK(b, d) /\ \A i \in DOMAIN b : b[i].d \notin Targets(ast)
  BY TodoGoEach
<1> HIDE DEF a, b
<1>4. TodoOK(a \o b, d)
  BY <1>1, <1>2, <1>3, TodoConcat
<1> QED
  BY <1>4 DEF a, b

(***************************************************************************)
(* A handler that visits d and pushes such calls preserves the invariant.  *)
(***************************************************************************)
\* The AST of a state satisfying the invariant has clang's shape.
LEMMA AstFacts ==
  ASSUME IInv
  PROVE  AstShape(ast) /\ LocalsAreOwned(ast) /\ ChainsAgree(ast)
  BY AstAssumption DEF IInv

\* Before its first visit nothing of d is pending or listed; afterwards all
\* of it may be.
LEMMA FirstVisit ==
  ASSUME AstShape(ast), LocalsAreOwned(ast), NEW d \in Decl, d \in Targets(ast),
         d \notin visited_, visited_' = visited_ \cup {d}, ast' = ast
  PROVE  /\ \A x : Mine(x, d) => ~HomeVisited(ast, visited_, x)
         /\ \A x : Mine(x, d) => HomeVisited(ast, visited_', x)
         /\ \A x : HomeVisited(ast, visited_, x) => HomeVisited(ast, visited_', x)
<1>1. \A o \in Owners(ast) : d \notin Locals(ast, o)
  BY DEF LocalsAreOwned
<1>2. \A o \in Owners(ast) : \A p \in Owners(ast) : \A x \in Locals(ast, o) :
        x \in Locals(ast, p) => o = p
  BY DEF LocalsAreOwned
<1>4. \A x : Mine(x, d) => ~HomeVisited(ast, visited_, x)
  BY <1>1, <1>2 DEF Mine, HomeVisited
<1>5. \A x : Mine(x, d) => HomeVisited(ast, visited_', x)
  BY <1>1 DEF Mine, HomeVisited
<1>6. \A x : HomeVisited(ast, visited_, x) => HomeVisited(ast, visited_', x)
  BY DEF HomeVisited
<1> QED BY <1>4, <1>5, <1>6

\* Where the elements of the new stack come from.
LEMMA PushedStack ==
  ASSUME stack \in Seq(Item), stack # <<>>, NEW todo \in Seq(Item),
         stack' = todo \o Tail(stack)
  PROVE  /\ stack' \in Seq(Item)
         /\ \A i \in DOMAIN stack' :
              \/ i \in DOMAIN todo /\ stack'[i] = todo[i]
              \/ /\ i > Len(todo)
                 /\ i - Len(todo) + 1 \in DOMAIN stack
                 /\ stack'[i] = stack[i - Len(todo) + 1]
<1> DEFINE u == Tail(stack)
<1>1. /\ u \in Seq(Item)
      /\ Len(u) = Len(stack) - 1
      /\ \A i \in 1 .. Len(u) : u[i] = stack[i + 1]
  BY HeadTailProperties
<1>2. Len(stack) \in Nat /\ DOMAIN stack = 1 .. Len(stack) /\ Len(todo) \in Nat
      /\ DOMAIN todo = 1 .. Len(todo)
  OBVIOUS
<1> HIDE DEF u
<1>3. /\ todo \o u \in Seq(Item)
      /\ DOMAIN (todo \o u) = 1 .. Len(todo) + Len(u)
      /\ \A i \in 1 .. Len(todo) + Len(u) :
           (todo \o u)[i] = IF i <= Len(todo) THEN todo[i] ELSE u[i - Len(todo)]
  BY <1>1, ConcatProperties
<1>4. stack' = todo \o u
  BY DEF u
<1>5. ASSUME NEW i \in DOMAIN stack', i > Len(todo)
      PROVE  i - Len(todo) + 1 \in DOMAIN stack /\ stack'[i] = stack[i - Len(todo) + 1]
  <2>1. i - Len(todo) \in 1 .. Len(u) /\ stack'[i] = u[i - Len(todo)]
    BY <1>1, <1>2, <1>3, <1>4, <1>5
  <2> QED BY <2>1, <1>1, <1>2
<1> QED
  BY <1>2, <1>3, <1>4, <1>5

LEMMA VisitPreserves ==
  ASSUME IInv, NEW todo, stack # <<>>, Top.op = "Visit", Top.d \notin visited_,
         TodoOK(todo, Top.d), visited_' = Mark(Top.d), stack' = todo \o Tail(stack),
         UNCHANGED <<input, lists>>, asserts_' \in Seq(Decl), specs_' \in Seq(Decl)
  PROVE  IInv'
<1> DEFINE d == Top.d
<1>1. AstShape(ast) /\ LocalsAreOwned(ast)
  BY AstFacts
<1>2. stack \in Seq(Item) /\ todo \in Seq(Item)
  BY DEF IInv, TypeOK, TodoOK
<1>3. 1 \in DOMAIN stack /\ Top = stack[1] /\ Top \in Item
  BY <1>2 DEF Top
<1>4. d \in Decl /\ d \in Targets(ast)
  BY <1>3 DEF IInv, PendingInv, Item
<1>5. visited_' = visited_ \cup {d} /\ ast' = ast /\ templates_' = templates_ /\ filter_' = filter_
  BY DEF Mark, input
<1>6. /\ declarations_' = declarations_ /\ definitions_' = definitions_
      /\ template_declarations_' = template_declarations_
      /\ template_definitions_' = template_definitions_
  BY DEF lists
<1>7. Listed' = Listed /\ NoDuplicates'
  BY <1>6 DEF Listed, Main, NoDuplicates, IInv
<1>8. /\ stack' \in Seq(Item)
      /\ \A i \in DOMAIN stack' :
           \/ i \in DOMAIN todo /\ stack'[i] = todo[i]
           \/ /\ i > Len(todo)
              /\ i - Len(todo) + 1 \in DOMAIN stack
              /\ stack'[i] = stack[i - Len(todo) + 1]
  BY <1>2, PushedStack
<1>9. TypeOK'
  BY <1>4, <1>5, <1>6, <1>8 DEF TypeOK, IInv
<1>10. /\ \A x : Mine(x, d) => ~HomeVisited(ast, visited_, x)
       /\ \A x : Mine(x, d) => HomeVisited(ast, visited_', x)
       /\ \A x : HomeVisited(ast, visited_, x) => HomeVisited(ast, visited_', x)
  BY <1>1, <1>4, <1>5, FirstVisit
<1> HIDE DEF d
<1>12. Targets(ast)' = Targets(ast)
  BY <1>5 DEF Targets, Owners
<1>13. \A i \in DOMAIN todo :
         /\ todo[i].op = "Visit" => todo[i].d \in Targets(ast)
         /\ todo[i].op = "go" => Mine(todo[i].d, d) /\ Represents(ast, todo[i].d)
  BY DEF TodoOK, d
<1>14. \A i \in DOMAIN stack' : stack'[i].op = "Visit" => stack'[i].d \in Targets(ast)
  BY <1>8, <1>13 DEF IInv, PendingInv
<1>15. \A i \in DOMAIN stack' :
         stack'[i].op = "go" => /\ HomeVisited(ast, visited_', stack'[i].d) /\ Represents(ast, stack'[i].d)
                                /\ stack'[i].d \notin Listed
  BY <1>8, <1>10, <1>13 DEF IInv, PendingInv, PendingGo
<1>16. ASSUME NEW i \in DOMAIN stack', NEW j \in DOMAIN stack', stack'[i].op = "go",
              stack'[j].op = "go", stack'[i].d = stack'[j].d
       PROVE  i = j
  <2>1. CASE i \in DOMAIN todo /\ stack'[i] = todo[i] /\ j \in DOMAIN todo /\ stack'[j] = todo[j]
    BY <2>1, <1>16 DEF TodoOK
  <2>2. CASE /\ i \in DOMAIN todo /\ stack'[i] = todo[i]
             /\ j - Len(todo) + 1 \in DOMAIN stack /\ stack'[j] = stack[j - Len(todo) + 1]
    BY <2>2, <1>16, <1>10, <1>13 DEF IInv, PendingInv, PendingGo
  <2>3. CASE /\ j \in DOMAIN todo /\ stack'[j] = todo[j]
             /\ i - Len(todo) + 1 \in DOMAIN stack /\ stack'[i] = stack[i - Len(todo) + 1]
    BY <2>3, <1>16, <1>10, <1>13 DEF IInv, PendingInv, PendingGo
  <2>4. CASE /\ i - Len(todo) + 1 \in DOMAIN stack /\ stack'[i] = stack[i - Len(todo) + 1]
             /\ j - Len(todo) + 1 \in DOMAIN stack /\ stack'[j] = stack[j - Len(todo) + 1]
    <3>1. i - Len(todo) + 1 = j - Len(todo) + 1
      BY <2>4, <1>16 DEF IInv, PendingInv, PendingGo
    <3>2. i \in Nat /\ j \in Nat /\ Len(todo) \in Nat
      BY <1>2, <1>8
    <3> QED BY <3>1, <3>2
  <2> QED BY <1>8, <2>1, <2>2, <2>3, <2>4
<1>17. \A x \in Listed : HomeVisited(ast, visited_', x) /\ Represents(ast, x)
  BY <1>10 DEF IInv, PendingInv
<1>18. PendingInv'
  BY <1>5, <1>7, <1>12, <1>14, <1>15, <1>16, <1>17 DEF PendingInv, PendingGo
<1> QED
  BY <1>5, <1>7, <1>9, <1>18 DEF IInv

(***************************************************************************)
(* go moves the pending declaration into the lists.                        *)
(***************************************************************************)
\* Appending something new to a list without duplicates.
LEMMA AppendFresh ==
  ASSUME NEW l \in Seq(Decl), NEW d \in Decl, IsInjective(l), d \notin Range(l)
  PROVE  /\ Append(l, d) \in Seq(Decl)
         /\ IsInjective(Append(l, d))
         /\ Range(Append(l, d)) = Range(l) \cup {d}
<1> DEFINE m == Append(l, d)
<1>1. /\ m \in Seq(Decl) /\ Len(l) \in Nat /\ DOMAIN l = 1 .. Len(l)
      /\ DOMAIN m = 1 .. Len(l) + 1
      /\ m[Len(l) + 1] = d /\ \A i \in 1 .. Len(l) : m[i] = l[i]
  BY AppendProperties
<1> HIDE DEF m
<1>2. \A i \in DOMAIN m : (i \in DOMAIN l /\ m[i] = l[i]) \/ (i = Len(l) + 1 /\ m[i] = d)
  BY <1>1
<1>3. IsInjective(m)
  BY <1>2 DEF IsInjective, Range
<1>4. Range(m) = Range(l) \cup {d}
  <2>1. \A x \in Range(l) \cup {d} : x \in Range(m)
    BY <1>1 DEF Range
  <2>2. \A x \in Range(m) : x \in Range(l) \cup {d}
    BY <1>2 DEF Range
  <2> QED BY <2>1, <2>2
<1> QED BY <1>1, <1>3, <1>4 DEF m

\* One list of a Go step: kept, or extended by the pending declaration.
Grown(new, old, d) == new = old \/ new = Append(old, d)

LEMMA GrownList ==
  ASSUME NEW old \in Seq(Decl), NEW new, NEW d \in Decl, Grown(new, old, d),
         IsInjective(old), d \notin Range(old)
  PROVE  /\ new \in Seq(Decl)
         /\ IsInjective(new)
         /\ Range(new) \subseteq Range(old) \cup {d}
         /\ new = old \/ d \in Range(new)
  BY AppendFresh DEF Grown

\* A Go step extends declaration lists or definition lists, never both.
LEMMA GoGrows ==
  ASSUME Go
  PROVE  /\ Grown(declarations_', declarations_, Top.d)
         /\ Grown(definitions_', definitions_, Top.d)
         /\ Grown(template_declarations_', template_declarations_, Top.d)
         /\ Grown(template_definitions_', template_definitions_, Top.d)
         /\ \/ UNCHANGED <<declarations_, template_declarations_>>
            \/ UNCHANGED <<definitions_, template_definitions_>>
  BY DEF Go, add_definition, add_declaration, AddMain, AddTemplate, lists, Grown

LEMMA GoPreserves == IInv /\ Go => IInv'
<1> SUFFICES ASSUME IInv, Go PROVE IInv'
  OBVIOUS
<1> DEFINE d == Top.d
<1>1. stack \in Seq(Item) /\ stack # <<>> /\ stack' = Tail(stack) /\ Top.op = "go"
  BY DEF IInv, TypeOK, Go
<1>2. 1 \in DOMAIN stack /\ Top = stack[1] /\ Top \in Item
  BY <1>1 DEF Top
<1>3. UNCHANGED <<ast, templates_, filter_, visited_, asserts_, specs_>>
  BY DEF Go, input
<1>4. d \in Decl /\ d \notin Listed /\ HomeVisited(ast, visited_, d) /\ Represents(ast, d)
  BY <1>1, <1>2 DEF IInv, PendingInv, PendingGo, Item
<1>5. /\ stack' \in Seq(Item)
      /\ \A i \in DOMAIN stack' : i + 1 \in DOMAIN stack /\ i + 1 # 1 /\ stack'[i] = stack[i + 1]
      /\ \A i \in DOMAIN stack' : i \in Nat
  BY <1>1, HeadTailProperties
<1> HIDE DEF d
<1>6. /\ declarations_ \in Seq(Decl) /\ definitions_ \in Seq(Decl)
      /\ template_declarations_ \in Seq(Decl) /\ template_definitions_ \in Seq(Decl)
      /\ IsInjective(declarations_) /\ IsInjective(definitions_)
      /\ IsInjective(template_declarations_) /\ IsInjective(template_definitions_)
      /\ d \notin Range(declarations_) /\ d \notin Range(definitions_)
      /\ d \notin Range(template_declarations_) /\ d \notin Range(template_definitions_)
  BY <1>4 DEF IInv, TypeOK, NoDuplicates, Listed, Main
<1>7. /\ declarations_' \in Seq(Decl) /\ IsInjective(declarations_')
      /\ Range(declarations_') \subseteq Range(declarations_) \cup {d}
  BY <1>4, <1>6, GoGrows, GrownList DEF d
<1>8. /\ definitions_' \in Seq(Decl) /\ IsInjective(definitions_')
      /\ Range(definitions_') \subseteq Range(definitions_) \cup {d}
  BY <1>4, <1>6, GoGrows, GrownList DEF d
<1>9. /\ template_declarations_' \in Seq(Decl) /\ IsInjective(template_declarations_')
      /\ Range(template_declarations_') \subseteq Range(template_declarations_) \cup {d}
  BY <1>4, <1>6, GoGrows, GrownList DEF d
<1>10. /\ template_definitions_' \in Seq(Decl) /\ IsInjective(template_definitions_')
       /\ Range(template_definitions_') \subseteq Range(template_definitions_) \cup {d}
  BY <1>4, <1>6, GoGrows, GrownList DEF d
<1>11. /\ Range(declarations_') \cap Range(definitions_') = {}
       /\ Range(template_declarations_') \cap Range(template_definitions_') = {}
  <2>1. /\ Range(declarations_) \cap Range(definitions_) = {}
        /\ Range(template_declarations_) \cap Range(template_definitions_) = {}
    BY DEF IInv, NoDuplicates
  <2>2. CASE declarations_' = declarations_ /\ template_declarations_' = template_declarations_
    BY <2>1, <2>2, <1>6, <1>8, <1>10
  <2>3. CASE definitions_' = definitions_ /\ template_definitions_' = template_definitions_
    BY <2>1, <2>3, <1>6, <1>7, <1>9
  <2> QED BY <2>2, <2>3, GoGrows
<1>12. TypeOK' /\ NoDuplicates'
  BY <1>3, <1>5, <1>7, <1>8, <1>9, <1>10, <1>11 DEF IInv, TypeOK, NoDuplicates
<1>13. \A x \in Listed' : x \in Listed \/ x = d
  BY <1>7, <1>8, <1>9, <1>10 DEF Listed, Main, Range
<1>14. \A i \in DOMAIN stack' : stack'[i].op = "go" => stack'[i].d # d
  BY <1>1, <1>2, <1>5 DEF IInv, PendingInv, PendingGo, d
<1>15. \A i, j \in DOMAIN stack' :
         stack'[i].op = "go" /\ stack'[j].op = "go" /\ stack'[i].d = stack'[j].d => i = j
  BY <1>5 DEF IInv, PendingInv, PendingGo
<1>16. Targets(ast)' = Targets(ast)
  BY <1>3 DEF Targets, Owners
<1>17. PendingInv'
  BY <1>3, <1>4, <1>5, <1>13, <1>14, <1>15, <1>16 DEF IInv, PendingInv, PendingGo
<1> QED
  BY <1>3, <1>12, <1>17 DEF IInv

(***************************************************************************)
(* The handlers, one by one.                                               *)
(***************************************************************************)
\* What the top of the stack is when a handler for the given kinds runs.
LEMMA Entered ==
  ASSUME IInv, NEW kinds, NEW todo, Enter(kinds, todo)
  PROVE  /\ stack # <<>> /\ Top.op = "Visit" /\ Top.d \notin visited_
         /\ Top.d \in Decl /\ Top.flags \in Flags /\ Top.d \in Targets(ast)
         /\ ast.kind[Top.d] \in kinds
         /\ visited_' = Mark(Top.d) /\ stack' = todo \o Tail(stack)
         /\ UNCHANGED <<input, lists>>
<1>1. stack \in Seq(Item) /\ stack # <<>>
  BY DEF IInv, TypeOK, Enter
<1>2. 1 \in DOMAIN stack /\ Top = stack[1] /\ Top \in Item
  BY <1>1 DEF Top
<1>3. Top.d \in Targets(ast)
  BY <1>2 DEF IInv, PendingInv, Enter
<1> QED BY <1>1, <1>2, <1>3 DEF Enter, Item

\* A handler that leaves asserts_ and specs_ alone.
LEMMA HandlePreserves ==
  ASSUME IInv, NEW kinds, NEW todo, Handle(kinds, todo), TodoOK(todo, Top.d)
  PROVE  IInv'
<1>1. Enter(kinds, todo) /\ asserts_' \in Seq(Decl) /\ specs_' \in Seq(Decl)
  BY DEF Handle, IInv, TypeOK
<1> QED BY <1>1, Entered, VisitPreserves

\* decls() of anything but an enum or a function are visited.
LEMMA MembersAreTargets ==
  ASSUME AstShape(ast), NEW d \in Decl, d \notin Owners(ast)
  PROVE  ast.members[d] \in Seq(Decl) /\ Range(ast.members[d]) \subseteq Targets(ast)
  BY DEF AstShape, Targets

\* The instances and the templated class of a template, and a friend, are
\* visited.
LEMMA PointersAreTargets ==
  ASSUME AstShape(ast), NEW d \in Decl
  PROVE  /\ ast.specializations[d] \in Seq(Decl)
         /\ Range(ast.specializations[d]) \subseteq Targets(ast)
         /\ ast.templated[d] \in Targets(ast)
         /\ ast.friendDecl[d] \in Targets(ast)
<1> DEFINE R(t) == Range(ast.specializations[t])
           M == UNION {Range(ast.members[c]) : c \in (Decl \cup {TU}) \ Owners(ast)}
           S == UNION {R(t) : t \in Decl}
           T == {ast.templated[t] : t \in Decl}
           F == {ast.friendDecl[t] : t \in Decl}
<1>1. ast.specializations[d] \in Seq(Decl)
  BY DEF AstShape
<1>2. Targets(ast) = M \cup S \cup T \cup F
  BY DEF Targets
<1>3. ast.templated[d] \in T /\ ast.friendDecl[d] \in F
  OBVIOUS
<1>4. R(d) \subseteq S
  <2>1. R(d) \in {R(t) : t \in Decl}
    OBVIOUS
  <2> HIDE DEF R
  <2> QED BY <2>1
<1>5. R(d) = Range(ast.specializations[d])
  OBVIOUS
<1> HIDE DEF M, S, T, F, R
<1> QED BY <1>1, <1>2, <1>3, <1>4, <1>5

LEMMA NamespacePreserves == IInv /\ (VisitNamespaceDecl \/ VisitLinkageSpecDecl) => IInv'
<1> SUFFICES ASSUME IInv, NEW k \in {"Namespace", "LinkageSpec"},
                    Handle({k}, VisitEach(ast.members[Top.d], Top.flags))
             PROVE  IInv'
  BY DEF VisitNamespaceDecl, VisitLinkageSpecDecl
<1>1. Top.d \in Decl /\ Top.flags \in Flags /\ ast.kind[Top.d] = k
  BY Entered DEF Handle
<1>2. Top.d \notin Owners(ast)
  BY <1>1 DEF Owners, FunctionKinds
<1>3. TodoOK(VisitEach(ast.members[Top.d], Top.flags), Top.d)
  BY <1>1, <1>2, AstFacts, MembersAreTargets, TodoVisitEach
<1> QED BY <1>3, HandlePreserves

\* The go call of VisitTagDecl is for the representative of the class.
LEMMA TagTodo ==
  ASSUME IInv, NEW d \in Decl, NEW f \in Flags, ast.kind[d] \in RecordKinds
  PROVE  TodoOK(VisitTagDecl(d, f), d)
<1>1. ASSUME ast.definition[d] = d PROVE TodoOK(VisitTagDecl(d, f), d)
  <2>1. Represents(ast, d)
    BY <1>1 DEF Represents, RecordKinds
  <2> QED BY <1>1, <2>1, TodoGo DEF VisitTagDecl
<1>2. ASSUME ast.definition[d] # d, ast.definition[d] = NoDecl, ast.previous[d] = NoDecl
      PROVE  TodoOK(VisitTagDecl(d, f), d)
  <2>1. Represents(ast, d)
    BY <1>2, AstFacts DEF Represents, RecordKinds, ChainsAgree
  <2>2. VisitTagDecl(d, f) = <<go(d, f, FALSE)>>
    BY <1>2 DEF VisitTagDecl
  <2> QED BY <2>1, <2>2, TodoGo
<1>3. ASSUME ast.definition[d] # d, ~(ast.definition[d] = NoDecl /\ ast.previous[d] = NoDecl)
      PROVE  TodoOK(VisitTagDecl(d, f), d)
  <2>1. VisitTagDecl(d, f) = <<>>
    BY <1>3 DEF VisitTagDecl
  <2> QED BY <2>1, TodoNothing
<1> QED BY <1>1, <1>2, <1>3

LEMMA RecordPreserves == IInv /\ VisitCXXRecordDecl => IInv'
<1> SUFFICES ASSUME IInv, VisitCXXRecordDecl PROVE IInv'
  OBVIOUS
<1> DEFINE v == VisitEach(ast.members[Top.d], Top.flags)
           g == VisitTagDecl(Top.d, Top.flags)
           todo == IF SkipRecord(Top.d, Top.flags) THEN <<>> ELSE v \o g
<1>1. Handle(RecordKinds, todo)
  BY DEF VisitCXXRecordDecl
<1>2. Top.d \in Decl /\ Top.flags \in Flags /\ ast.kind[Top.d] \in RecordKinds
  BY <1>1, Entered DEF Handle
<1>3. TodoOK(v, Top.d)
  <2>1. Top.d \notin Owners(ast)
    BY <1>2 DEF Owners, FunctionKinds, RecordKinds
  <2> QED BY <1>2, <2>1, AstFacts, MembersAreTargets, TodoVisitEach
<1>4. TodoOK(g, Top.d)
  BY <1>2, TagTodo
<1>5. \A i \in DOMAIN v : v[i].op # "go"
  BY DEF VisitEach, Visit
<1> HIDE DEF v, g
<1>6. TodoOK(v \o g, Top.d)
  BY <1>3, <1>4, <1>5, TodoConcat
<1>7. TodoOK(todo, Top.d)
  BY <1>6, TodoNothing
<1> HIDE DEF todo
<1> QED BY <1>1, <1>7, HandlePreserves

LEMMA EnumPreserves == IInv /\ VisitEnumDecl => IInv'
<1> SUFFICES ASSUME IInv, VisitEnumDecl PROVE IInv'
  OBVIOUS
<1>1. Handle({"Enum"}, EnumGo(Top.d, Top.flags))
  BY DEF VisitEnumDecl
<1>2. Top.d \in Decl /\ Top.flags \in Flags /\ ast.kind[Top.d] = "Enum" /\ Top.d \in Targets(ast)
  BY <1>1, Entered DEF Handle
<1>3. ASSUME ast.canonical[Top.d] = Top.d PROVE TodoOK(EnumGo(Top.d, Top.flags), Top.d)
  <2>1. Represents(ast, Top.d) /\ Top.d \in Owners(ast)
    BY <1>2, <1>3 DEF Represents, Owners
  <2>2. EnumGo(Top.d, Top.flags) =
          <<go(Top.d, Top.flags, TRUE)>> \o goEach(ast.members[Top.d], Top.flags)
    BY <1>3 DEF EnumGo
  <2> QED BY <1>2, <2>1, <2>2, AstFacts, TodoGoLocals
<1>4. ASSUME ast.canonical[Top.d] # Top.d PROVE TodoOK(EnumGo(Top.d, Top.flags), Top.d)
  BY <1>4, TodoNothing DEF EnumGo
<1> QED BY <1>1, <1>3, <1>4, HandlePreserves

\* The calls of VisitFunctionDecl.
LEMMA FunctionTodo ==
  ASSUME IInv, NEW d \in Decl, NEW f \in Flags, ast.kind[d] \in FunctionKinds, d \in Targets(ast)
  PROVE  TodoOK(FunctionGo(d, f), d)
<1>1. ASSUME ~(~templates_ /\ d \in ast.dependent), ast.definition[d] = d
      PROVE  TodoOK(FunctionGo(d, f), d)
  <2>1. Represents(ast, d) /\ d \in Owners(ast)
    BY <1>1 DEF Represents, FunctionKinds, Owners
  <2>2. TodoOK(<<go(d, f, TRUE)>> \o goEach(ast.members[d], f), d)
    BY <2>1, AstFacts, TodoGoLocals
  <2>3. TodoOK(<<go(d, f, TRUE)>>, d)
    BY <2>1, TodoGo
  <2>4. <<go(d, f, TRUE)>> \o <<>> = <<go(d, f, TRUE)>>
    <3>1. go(d, f, TRUE) \in Item
      BY DEF go, Item
    <3> QED BY <3>1
  <2>5. ASSUME filter_[d] = "DEFINITION" PROVE TodoOK(FunctionGo(d, f), d)
    BY <1>1, <2>2, <2>5 DEF FunctionGo
  <2>6. ASSUME filter_[d] # "DEFINITION" PROVE TodoOK(FunctionGo(d, f), d)
    BY <1>1, <2>3, <2>4, <2>6 DEF FunctionGo
  <2> QED BY <2>5, <2>6
<1>2. ASSUME ~(~templates_ /\ d \in ast.dependent), ast.definition[d] # d,
             ast.definition[d] = NoDecl, ast.previous[d] = NoDecl
      PROVE  TodoOK(FunctionGo(d, f), d)
  <2>1. Represents(ast, d)
    BY <1>2, AstFacts DEF Represents, FunctionKinds, ChainsAgree
  <2>2. FunctionGo(d, f) = <<go(d, f, FALSE)>>
    BY <1>2 DEF FunctionGo
  <2> QED BY <2>1, <2>2, TodoGo
<1>3. ASSUME \/ ~templates_ /\ d \in ast.dependent
             \/ ast.definition[d] # d /\ ~(ast.definition[d] = NoDecl /\ ast.previous[d] = NoDecl)
      PROVE  TodoOK(FunctionGo(d, f), d)
  <2>1. FunctionGo(d, f) = <<>>
    BY <1>3 DEF FunctionGo
  <2> QED BY <2>1, TodoNothing
<1> QED BY <1>1, <1>2, <1>3

LEMMA FunctionPreserves ==
  IInv /\ (VisitFunctionDecl \/ VisitCXXMethodDecl \/ VisitCXXConstructorDecl
             \/ VisitCXXDestructorDecl) => IInv'
<1>1. ASSUME IInv, NEW k \in FunctionKinds, Enter({k}, FunctionGo(Top.d, Top.flags)),
             specs_' = add_specification(Top.d), asserts_' = asserts_
      PROVE  IInv'
  <2>1. /\ Top.d \in Decl /\ Top.flags \in Flags /\ ast.kind[Top.d] = k /\ Top.d \in Targets(ast)
    BY <1>1, Entered
  <2>2. asserts_' \in Seq(Decl) /\ specs_' \in Seq(Decl)
    BY <1>1, <2>1 DEF IInv, TypeOK, add_specification
  <2>3. TodoOK(FunctionGo(Top.d, Top.flags), Top.d)
    BY <1>1, <2>1, FunctionTodo
  <2> QED BY <1>1, <2>2, <2>3, Entered, VisitPreserves
<1>2. ASSUME IInv, NEW k \in FunctionKinds, VisitDeleted({k}) PROVE IInv'
  BY <1>2, TodoNothing, HandlePreserves DEF VisitDeleted
<1> QED
  BY <1>1, <1>2 DEF VisitFunctionDecl, VisitCXXMethodDecl, VisitCXXConstructorDecl,
                    VisitCXXDestructorDecl, VisitMember, FunctionKinds

\* Typedefs, variables and enumerators: one go call, for kinds that Represents
\* says nothing about.
LEMMA ValuePreserves == IInv /\ (VisitTypedefNameDecl \/ VisitVarDecl) => IInv'
<1> DEFINE K == {"TypedefName", "EnumConstant", "Var"}
<1>1. ASSUME IInv, NEW kinds \in SUBSET K, NEW todo \in {<<>>, <<go(Top.d, Top.flags, TRUE)>>},
             Handle(kinds, todo)
      PROVE  IInv'
  <2>1. Top.d \in Decl /\ Top.flags \in Flags /\ ast.kind[Top.d] \in K /\ Top.d \in Targets(ast)
    BY <1>1, Entered DEF Handle
  <2>2. Represents(ast, Top.d)
    BY <2>1 DEF Represents, EntityKinds, RecordKinds, FunctionKinds
  <2>3. TodoOK(todo, Top.d)
    BY <1>1, <2>1, <2>2, TodoGo, TodoNothing
  <2> QED BY <1>1, <2>3, HandlePreserves
<1>2. ASSUME IInv, VisitTypedefNameDecl PROVE IInv'
  BY <1>1, <1>2 DEF VisitTypedefNameDecl
<1>3. ASSUME IInv, VisitVarDecl PROVE IInv'
  <2>1. CASE SkipVar(Top.d)
    <3>1. Handle({"Var"}, <<>>)
      BY <1>3, <2>1 DEF VisitVarDecl
    <3> QED BY <1>1, <1>3, <3>1
  <2>2. CASE ~SkipVar(Top.d)
    <3>1. Handle({"Var"}, <<go(Top.d, Top.flags, TRUE)>>)
      BY <1>3, <2>2 DEF VisitVarDecl
    <3> QED BY <1>1, <1>3, <3>1
  <2> QED BY <2>1, <2>2
<1> QED BY <1>2, <1>3

\* A template is recorded, or its templated class visited, before its
\* instances are visited.
LEMMA TemplatePreserves ==
  IInv /\ (VisitClassTemplateDecl \/ VisitFunctionTemplateDecl \/ VisitVarTemplateDecl) => IInv'
<1>1. ASSUME IInv, NEW k \in {"ClassTemplate", "FunctionTemplate", "VarTemplate"},
             NEW self, TodoOK(self, Top.d), TodoOK(<<>>, Top.d),
             Handle({k}, TemplateThenSpecializations(self))
      PROVE  IInv'
  <2> DEFINE first == IF templates_ THEN self ELSE <<>>
             rest  == VisitEach(ast.specializations[Top.d], set_specialization(Top.flags))
  <2>1. Top.d \in Decl /\ Top.flags \in Flags
    BY <1>1, Entered DEF Handle
  <2>2. TodoOK(first, Top.d)
    BY <1>1
  <2>3. set_specialization(Top.flags) \in Flags
    BY <2>1 DEF set_specialization, Flags
  <2>4. TodoOK(rest, Top.d)
    BY <1>1, <2>1, <2>3, AstFacts, PointersAreTargets, TodoVisitEach
  <2>5. \A i \in DOMAIN rest : rest[i].op # "go"
    BY DEF VisitEach, Visit
  <2>6. TemplateThenSpecializations(self) = first \o rest
    BY DEF TemplateThenSpecializations
  <2> HIDE DEF first, rest
  <2>7. TodoOK(first \o rest, Top.d)
    BY <2>2, <2>4, <2>5, TodoConcat
  <2> QED BY <1>1, <2>6, <2>7, HandlePreserves
<1>2. ASSUME IInv, VisitClassTemplateDecl PROVE IInv'
  <2> DEFINE self == <<Visit(ast.templated[Top.d], set_template(Top.flags))>>
  <2>1. Handle({"ClassTemplate"}, TemplateThenSpecializations(self))
    BY <1>2 DEF VisitClassTemplateDecl
  <2>2. Top.d \in Decl /\ Top.flags \in Flags /\ ast.kind[Top.d] = "ClassTemplate"
    BY <1>2, <2>1, Entered DEF Handle
  <2>3. ast.templated[Top.d] \in Decl
    BY <1>2, <2>2, AstFacts DEF AstShape
  <2>4. ast.templated[Top.d] \in Targets(ast)
    BY <1>2, <2>2, AstFacts, PointersAreTargets
  <2>5. set_template(Top.flags) \in Flags
    BY <2>2 DEF set_template, Flags
  <2>6. TodoOK(self, Top.d)
    BY <1>2, <2>2, <2>3, <2>4, <2>5, TodoVisit
  <2> HIDE DEF self
  <2> QED BY <1>1, <1>2, <2>1, <2>6, TodoNothing
<1>3. ASSUME IInv, NEW k \in {"FunctionTemplate", "VarTemplate"},
             Handle({k}, TemplateThenSpecializations(<<go(Top.d, set_template(Top.flags), TRUE)>>))
      PROVE  IInv'
  <2>1. Top.d \in Decl /\ Top.flags \in Flags /\ ast.kind[Top.d] = k /\ Top.d \in Targets(ast)
    BY <1>3, Entered DEF Handle
  <2>2. Represents(ast, Top.d)
    BY <2>1 DEF Represents, EntityKinds, RecordKinds, FunctionKinds
  <2>3. set_template(Top.flags) \in Flags
    BY <2>1 DEF set_template, Flags
  <2>4. TodoOK(<<go(Top.d, set_template(Top.flags), TRUE)>>, Top.d)
    BY <1>3, <2>1, <2>2, <2>3, TodoGo
  <2> QED BY <1>1, <1>3, <2>4, TodoNothing
<1> QED
  BY <1>2, <1>3 DEF VisitFunctionTemplateDecl, VisitVarTemplateDecl

LEMMA FriendPreserves == IInv /\ VisitFriendDecl => IInv'
<1> SUFFICES ASSUME IInv, VisitFriendDecl PROVE IInv'
  OBVIOUS
<1>1. Top.d \in Decl /\ Top.flags \in Flags
  BY Entered DEF VisitFriendDecl, Handle
<1>2. CASE ast.friendDecl[Top.d] = NoDecl
  <2>1. Handle({"Friend"}, <<>>)
    BY <1>2 DEF VisitFriendDecl
  <2> QED BY <2>1, TodoNothing, HandlePreserves
<1>3. CASE ast.friendDecl[Top.d] # NoDecl
  <2> DEFINE todo == <<Visit(ast.friendDecl[Top.d], Top.flags)>>
  <2>1. Handle({"Friend"}, todo)
    BY <1>3 DEF VisitFriendDecl
  <2>2. ast.friendDecl[Top.d] \in Decl
    BY <1>1, <1>3, AstFacts DEF AstShape
  <2>3. ast.friendDecl[Top.d] \in Targets(ast)
    BY <1>1, AstFacts, PointersAreTargets
  <2>4. TodoOK(todo, Top.d)
    BY <1>1, <2>2, <2>3, TodoVisit
  <2> HIDE DEF todo
  <2> QED BY <2>1, <2>4, HandlePreserves
<1> QED BY <1>2, <1>3

LEMMA OtherPreserves == IInv /\ (VisitStaticAssertDecl \/ VisitIgnored) => IInv'
<1>1. ASSUME IInv, VisitIgnored PROVE IInv'
  BY <1>1, TodoNothing, HandlePreserves DEF VisitIgnored
<1>2. ASSUME IInv, VisitStaticAssertDecl PROVE IInv'
  <2>1. Enter({"StaticAssert"}, <<>>) /\ asserts_' = Append(asserts_, Top.d) /\ specs_' = specs_
    BY <1>2 DEF VisitStaticAssertDecl
  <2>2. Top.d \in Decl
    BY <1>2, <2>1, Entered
  <2>3. asserts_' \in Seq(Decl) /\ specs_' \in Seq(Decl)
    BY <1>2, <2>1, <2>2 DEF IInv, TypeOK
  <2> QED BY <1>2, <2>1, <2>3, TodoNothing, Entered, VisitPreserves
<1> QED BY <1>1, <1>2

\* A second visit only shortens the stack.
LEMMA AgainPreserves == IInv /\ VisitAgain => IInv'
<1> SUFFICES ASSUME IInv, VisitAgain PROVE IInv'
  OBVIOUS
<1>1. stack \in Seq(Item) /\ stack # <<>> /\ stack' = Tail(stack)
  BY DEF IInv, TypeOK, VisitAgain
<1>2. /\ stack' \in Seq(Item)
      /\ \A i \in DOMAIN stack' : i + 1 \in DOMAIN stack /\ stack'[i] = stack[i + 1] /\ i \in Nat
  BY <1>1
<1>3. /\ ast' = ast /\ templates_' = templates_ /\ filter_' = filter_ /\ visited_' = visited_
      /\ declarations_' = declarations_ /\ definitions_' = definitions_
      /\ template_declarations_' = template_declarations_
      /\ template_definitions_' = template_definitions_
      /\ asserts_' = asserts_ /\ specs_' = specs_
  BY DEF VisitAgain, input, lists
<1>4. TypeOK' /\ NoDuplicates'
  BY <1>2, <1>3 DEF IInv, TypeOK, NoDuplicates
<1>5. Targets(ast)' = Targets(ast) /\ Listed' = Listed
  BY <1>3 DEF Targets, Owners, Listed, Main
<1>6. PendingInv'
  BY <1>2, <1>3, <1>5 DEF IInv, PendingInv, PendingGo
<1> QED BY <1>3, <1>4, <1>6 DEF IInv

\* A step that changes nothing.
LEMMA StutterPreserves == IInv /\ UNCHANGED vars => IInv'
<1> SUFFICES ASSUME IInv, UNCHANGED vars PROVE IInv'
  OBVIOUS
<1>1. /\ ast' = ast /\ templates_' = templates_ /\ filter_' = filter_ /\ visited_' = visited_
      /\ stack' = stack /\ declarations_' = declarations_ /\ definitions_' = definitions_
      /\ template_declarations_' = template_declarations_
      /\ template_definitions_' = template_definitions_
      /\ asserts_' = asserts_ /\ specs_' = specs_
  BY DEF vars
<1>2. TypeOK' /\ NoDuplicates'
  BY <1>1 DEF IInv, TypeOK, NoDuplicates
<1>3. Targets(ast)' = Targets(ast) /\ Listed' = Listed
  BY <1>1 DEF Targets, Owners, Listed, Main
<1>4. PendingInv'
  BY <1>1, <1>3 DEF IInv, PendingInv, PendingGo
<1> QED BY <1>1, <1>2, <1>4 DEF IInv

(***************************************************************************)
(* The theorems.                                                           *)
(***************************************************************************)
LEMMA InitEstablishes == Init => IInv
<1> SUFFICES ASSUME Init PROVE IInv
  OBVIOUS
<1>1. AstShape(ast) /\ ast \in Asts
  BY AstAssumption DEF Init
<1>2. ast.members[TU] \in Seq(Decl)
  BY <1>1 DEF AstShape
<1>3. Range(ast.members[TU]) \subseteq Targets(ast)
  BY ConstantAssumption DEF Targets, Owners
<1>4. NoFlags \in Flags
  BY DEF NoFlags, Flags
<1>5. stack \in Seq(Item)
  <2>1. stack = VisitEach(ast.members[TU], NoFlags)
    BY DEF Init
  <2>2. TodoOK(stack, TU)
    BY <1>2, <1>3, <1>4, <2>1, TodoVisitEach
  <2> QED BY <2>2 DEF TodoOK
<1>6. \A i \in DOMAIN stack : stack[i].op = "Visit" /\ stack[i].d \in Targets(ast)
  BY <1>3 DEF Init, VisitEach, Visit, Range
<1>7. TypeOK
  BY <1>1, <1>5, ConstantAssumption DEF Init, TypeOK
<1>8. Listed = {}
  BY DEF Init, Listed, Main, Range
<1>9. PendingInv
  BY <1>6, <1>8 DEF PendingInv, PendingGo
<1>10. NoDuplicates
  BY DEF Init, NoDuplicates, Range, IsInjective
<1> QED BY <1>1, <1>7, <1>9, <1>10 DEF IInv

LEMMA NextPreserves == IInv /\ [Next]_vars => IInv'
<1> SUFFICES ASSUME IInv, [Next]_vars PROVE IInv'
  OBVIOUS
<1> QED
  BY AgainPreserves, NamespacePreserves, RecordPreserves, EnumPreserves, ValuePreserves,
     FunctionPreserves, TemplatePreserves, FriendPreserves, OtherPreserves, GoPreserves,
     StutterPreserves
  DEF Next

\* The inductive invariant holds in every reachable state.
THEOREM Invariance == Spec => []IInv
<1> QED BY InitEstablishes, NextPreserves, PTL DEF Spec

\* What is pending is new: no declaration is pending twice, or pending and in a
\* list, and whatever is pending or listed stands for its redeclaration chain.
THEOREM PendingIsNew == Spec => []PendingInv
<1>1. IInv => PendingInv
  BY DEF IInv
<1> QED BY <1>1, Invariance, PTL

\* Type correctness, for every AST, filter and setting of -templates.
THEOREM TypeCorrect == Spec => []TypeOK
<1>1. IInv => TypeOK
  BY DEF IInv
<1> QED BY <1>1, Invariance, PTL

\* No list of the module has a declaration twice, and no declaration is both
\* in a list of declarations and in the matching list of definitions: the
\* visited_ set of BuildModule and the separate ways to enumerators and static
\* locals exclude it, whatever the AST.
THEOREM NothingTwice == Spec => []NoDuplicates
<1>1. IInv => NoDuplicates
  BY DEF IInv
<1> QED BY <1>1, Invariance, PTL

\* Two listed declarations of one class, enum or function are the same one.
LEMMA SameEntity ==
  ASSUME IInv, NEW x \in Listed, NEW y \in Listed,
         ast.kind[x] \in EntityKinds, ast.canonical[x] = ast.canonical[y]
  PROVE  x = y
<1>1. x \in Decl /\ y \in Decl
  BY DEF IInv, TypeOK, Listed, Main, Range
<1>2. ast.kind[y] = ast.kind[x] /\ ast.definition[y] = ast.definition[x]
  BY <1>1, AstFacts DEF ChainsAgree
<1>3. Represents(ast, x) /\ Represents(ast, y)
  BY DEF IInv, PendingInv
<1>4. x # NoDecl /\ y # NoDecl
  BY <1>1, ConstantAssumption
<1> QED BY <1>2, <1>3, <1>4 DEF Represents

\* A class, enum or function is listed at most once, by its definition or its
\* first declaration, for every AST whose redeclaration chains are coherent:
\* go is only called for the declaration that stands for the entity.
THEOREM OneEntry == Spec => []OneEntryPerEntity
<1>1. IInv => OneEntryPerEntity
  BY SameEntity DEF OneEntryPerEntity, Listed
<1> QED BY <1>1, Invariance, PTL

\* The stack after a visit of a new declaration, and after any other call.
LEMMA StepProgress ==
  IInv /\ Next => \/ visited_ \subseteq visited_' /\ visited_ # visited_'
                  \/ visited_' = visited_ /\ Len(stack') < Len(stack)
<1> SUFFICES ASSUME IInv, Next
             PROVE  \/ visited_ \subseteq visited_' /\ visited_ # visited_'
                    \/ visited_' = visited_ /\ Len(stack') < Len(stack)
  OBVIOUS
<1>1. ASSUME NEW kinds, NEW todo, Enter(kinds, todo)
      PROVE  visited_ \subseteq visited_' /\ visited_ # visited_'
  BY <1>1 DEF Enter, Mark
<1>2. ASSUME VisitAgain \/ Go PROVE visited_' = visited_ /\ Len(stack') < Len(stack)
  <2>1. stack \in Seq(Item) /\ stack # <<>> /\ stack' = Tail(stack) /\ visited_' = visited_
    BY <1>2 DEF IInv, TypeOK, VisitAgain, Go
  <2>2. Len(Tail(stack)) = Len(stack) - 1 /\ Len(stack) \in Nat
    BY <2>1
  <2> QED BY <2>1, <2>2
<1>3. CASE ~(VisitAgain \/ Go)
  <2>1. \E kinds, todo : Enter(kinds, todo)
    BY <1>3 DEF Next, VisitNamespaceDecl, VisitLinkageSpecDecl, VisitCXXRecordDecl, VisitEnumDecl,
       VisitTypedefNameDecl, VisitVarDecl, VisitFunctionDecl, VisitCXXMethodDecl,
       VisitCXXConstructorDecl, VisitCXXDestructorDecl, VisitClassTemplateDecl,
       VisitFunctionTemplateDecl, VisitVarTemplateDecl, VisitFriendDecl, VisitStaticAssertDecl,
       VisitIgnored, VisitDeleted, VisitMember, Handle
  <2> QED BY <2>1, <1>1
<1> QED BY <1>2, <1>3

\* Every step of the traversal visits a new declaration or makes one of the
\* pending calls and adds none, whatever cycles the AST has: with finitely many
\* declarations build_module returns.
THEOREM EveryStepProgresses == Spec => Progress
<1> QED BY Invariance, StepProgress, PTL DEF Spec, Progress

(***************************************************************************)
(* What a handler calls, flags included.                                   *)
(***************************************************************************)
\* The kinds whose handler calls go outside a template.
GoKinds == EntityKinds \cup {"EnumConstant", "TypedefName", "Var"}

\* The calls the visit of d with flags f may make.
CallsOf(d, f) ==
  { it \in Item :
      \/ /\ it.op = "Visit" /\ it.flags = f
         /\ ast.kind[d] \in {"Namespace", "LinkageSpec"} \cup RecordKinds
         /\ it.d \in Range(ast.members[d])
      \/ /\ it.op = "Visit" /\ it.flags = f
         /\ ast.kind[d] = "Friend" /\ it.d = ast.friendDecl[d]
      \/ /\ it.op = "Visit" /\ it.flags = set_template(f)
         /\ ast.kind[d] = "ClassTemplate" /\ templates_ /\ it.d = ast.templated[d]
      \/ /\ it.op = "Visit" /\ it.flags = set_specialization(f)
         /\ ast.kind[d] \in TemplateKinds /\ it.d \in Range(ast.specializations[d])
      \/ /\ it.op = "go" /\ it.flags = f
         /\ ast.kind[d] \in GoKinds /\ it.d = d
      \/ /\ it.op = "go" /\ it.flags = f
         /\ d \in Owners(ast) /\ it.d \in Locals(ast, d)
      \/ /\ it.op = "go" /\ it.flags = set_template(f)
         /\ ast.kind[d] \in {"FunctionTemplate", "VarTemplate"} /\ templates_ /\ it.d = d }

\* Sequences of calls of S, put together.
LEMMA CallSeqs ==
  ASSUME NEW S
  PROVE  /\ <<>> \in Seq(S)
         /\ \A x \in S : <<x>> \in Seq(S)
         /\ \A a, b \in Seq(S) : a \o b \in Seq(S)
  OBVIOUS

\* Calls on each element of a sequence.
LEMMA EachSeq ==
  ASSUME NEW S, NEW s \in Seq(Decl), NEW f
  PROVE  /\ (\A i \in DOMAIN s : Visit(s[i], f) \in S) => VisitEach(s, f) \in Seq(S)
         /\ (\A i \in DOMAIN s : go(s[i], f, TRUE) \in S) => goEach(s, f) \in Seq(S)
<1>1. DOMAIN s = 1 .. Len(s) /\ Len(s) \in Nat
  OBVIOUS
<1>2. ASSUME \A i \in DOMAIN s : Visit(s[i], f) \in S PROVE VisitEach(s, f) \in Seq(S)
  <2>1. VisitEach(s, f) \in [1 .. Len(s) -> S]
    BY <1>1, <1>2 DEF VisitEach
  <2> QED BY <1>1, <2>1, FunctionIsSeq
<1>3. ASSUME \A i \in DOMAIN s : go(s[i], f, TRUE) \in S PROVE goEach(s, f) \in Seq(S)
  <2>1. goEach(s, f) \in [1 .. Len(s) -> S]
    BY <1>1, <1>3 DEF goEach
  <2> QED BY <1>1, <2>1, FunctionIsSeq
<1> QED BY <1>2, <1>3

\* The calls on all members, specializations or locals of d.
LEMMA EachCall ==
  ASSUME AstShape(ast), NEW d \in Decl, NEW f \in Flags
  PROVE  /\ ast.kind[d] \in {"Namespace", "LinkageSpec"} \cup RecordKinds
              => VisitEach(ast.members[d], f) \in Seq(CallsOf(d, f))
         /\ ast.kind[d] \in TemplateKinds
              => VisitEach(ast.specializations[d], set_specialization(f)) \in Seq(CallsOf(d, f))
         /\ d \in Owners(ast) => goEach(ast.members[d], f) \in Seq(CallsOf(d, f))
<1>1. set_specialization(f) \in Flags
  BY DEF Flags, set_specialization
<1>2. /\ ast.members[d] \in Seq(Decl) /\ ast.specializations[d] \in Seq(Decl)
      /\ \A i \in DOMAIN ast.members[d] :
           ast.members[d][i] \in Range(ast.members[d]) \cap Decl
      /\ \A i \in DOMAIN ast.specializations[d] :
           ast.specializations[d][i] \in Range(ast.specializations[d]) \cap Decl
  BY DEF AstShape, Range
<1>3. ASSUME ast.kind[d] \in {"Namespace", "LinkageSpec"} \cup RecordKinds
      PROVE  VisitEach(ast.members[d], f) \in Seq(CallsOf(d, f))
  <2>1. \A i \in DOMAIN ast.members[d] : Visit(ast.members[d][i], f) \in CallsOf(d, f)
    BY <1>2, <1>3 DEF CallsOf, Visit, Item
  <2> QED BY <1>2, <2>1, EachSeq
<1>4. ASSUME ast.kind[d] \in TemplateKinds
      PROVE  VisitEach(ast.specializations[d], set_specialization(f)) \in Seq(CallsOf(d, f))
  <2>1. \A i \in DOMAIN ast.specializations[d] :
          Visit(ast.specializations[d][i], set_specialization(f)) \in CallsOf(d, f)
    BY <1>1, <1>2, <1>4 DEF CallsOf, Visit, Item
  <2> QED BY <1>2, <2>1, EachSeq
<1>5. ASSUME d \in Owners(ast) PROVE goEach(ast.members[d], f) \in Seq(CallsOf(d, f))
  <2>1. \A i \in DOMAIN ast.members[d] : go(ast.members[d][i], f, TRUE) \in CallsOf(d, f)
    BY <1>2, <1>5 DEF CallsOf, go, Item, Locals
  <2> QED BY <1>2, <2>1, EachSeq
<1> QED BY <1>3, <1>4, <1>5

\* The single calls on d, its templated class and its friend.
LEMMA OneCall ==
  ASSUME AstShape(ast), NEW d \in Decl, NEW f \in Flags
  PROVE  /\ \A def \in BOOLEAN : ast.kind[d] \in GoKinds => go(d, f, def) \in CallsOf(d, f)
         /\ ast.kind[d] = "ClassTemplate" /\ templates_
              => Visit(ast.templated[d], set_template(f)) \in CallsOf(d, f)
         /\ ast.kind[d] \in {"FunctionTemplate", "VarTemplate"} /\ templates_
              => go(d, set_template(f), TRUE) \in CallsOf(d, f)
         /\ ast.kind[d] = "Friend" /\ ast.friendDecl[d] # NoDecl
              => Visit(ast.friendDecl[d], f) \in CallsOf(d, f)
<1>1. set_template(f) \in Flags
  BY DEF Flags, set_template
<1>2. ast.kind[d] = "ClassTemplate" => ast.templated[d] \in Decl
  BY DEF AstShape
<1>3. ast.friendDecl[d] # NoDecl => ast.friendDecl[d] \in Decl
  BY DEF AstShape
<1> QED BY <1>1, <1>2, <1>3 DEF CallsOf, go, Visit, Item

\* The calls a handler must not leave out: all members of a namespace, those of
\* a class that is recorded, a function and, with an owner, its locals.
Whole(todo, d, f) ==
  /\ ast.kind[d] \in FileKinds => \A x \in Range(ast.members[d]) : Visit(x, f) \in Range(todo)
  /\ ast.kind[d] \in RecordKinds /\ (\E it \in Range(todo) : it.op = "go")
       => \A x \in Range(ast.members[d]) : Visit(x, f) \in Range(todo)
  /\ ast.kind[d] \in FunctionKinds /\ d \notin ast.deleted /\ (templates_ \/ d \notin ast.dependent)
       => /\ ast.definition[d] = d => go(d, f, TRUE) \in Range(todo)
          /\ ast.definition[d] = NoDecl /\ ast.previous[d] = NoDecl
               => go(d, f, FALSE) \in Range(todo)
  /\ d \in Owners(ast) /\ filter_[d] = "DEFINITION" /\ go(d, f, TRUE) \in Range(todo)
       => \A x \in Locals(ast, d) : go(x, f, TRUE) \in Range(todo)

\* Elements of the sequences the handlers put together.
LEMMA CallRanges ==
  /\ Range(<<>>) = {}
  /\ \A x : Range(<<x>>) = {x}
  /\ \A S : \A a, b \in Seq(S) : Range(a \o b) = Range(a) \cup Range(b)
  /\ \A s \in Seq(Decl) : \A f : Range(VisitEach(s, f)) = {Visit(x, f) : x \in Range(s)}
  /\ \A s \in Seq(Decl) : \A f : Range(goEach(s, f)) = {go(x, f, TRUE) : x \in Range(s)}
<1>1. Range(<<>>) = {} /\ \A x : Range(<<x>>) = {x}
  BY DEF Range
<1>2. ASSUME NEW S, NEW a \in Seq(S), NEW b \in Seq(S)
      PROVE  Range(a \o b) = Range(a) \cup Range(b)
  <2>1. /\ Len(a) \in Nat /\ Len(b) \in Nat /\ DOMAIN a = 1 .. Len(a) /\ DOMAIN b = 1 .. Len(b)
        /\ DOMAIN (a \o b) = 1 .. Len(a) + Len(b)
        /\ \A i \in 1 .. Len(a) + Len(b) : (a \o b)[i] = IF i <= Len(a) THEN a[i] ELSE b[i - Len(a)]
    BY ConcatProperties
  <2>2. \A i \in DOMAIN (a \o b) : \/ i \in DOMAIN a /\ (a \o b)[i] = a[i]
                                   \/ i - Len(a) \in DOMAIN b /\ (a \o b)[i] = b[i - Len(a)]
    BY <2>1
  <2>3. \A i \in DOMAIN a : i \in DOMAIN (a \o b) /\ (a \o b)[i] = a[i]
    BY <2>1
  <2>4. \A i \in DOMAIN b : i + Len(a) \in DOMAIN (a \o b) /\ (a \o b)[i + Len(a)] = b[i]
    BY <2>1
  <2>5. \A x : x \in Range(a \o b) => x \in Range(a) \/ x \in Range(b)
    BY <2>2 DEF Range
  <2>6. \A x : x \in Range(a) \/ x \in Range(b) => x \in Range(a \o b)
    BY <2>3, <2>4 DEF Range
  <2> QED BY <2>5, <2>6
<1>3. \A s \in Seq(Decl) : \A f : Range(VisitEach(s, f)) = {Visit(x, f) : x \in Range(s)}
  BY DEF Range, VisitEach
<1>4. \A s \in Seq(Decl) : \A f : Range(goEach(s, f)) = {go(x, f, TRUE) : x \in Range(s)}
  BY DEF Range, goEach
<1> QED BY <1>1, <1>2, <1>3, <1>4

\* Nothing is asked of the other handlers.
LEMMA WholeOther ==
  ASSUME NEW d \in Decl, NEW f, NEW todo, NEW k, ast.kind[d] = k,
         k \notin FileKinds \cup RecordKinds \cup FunctionKinds \cup {"Enum"}
  PROVE  Whole(todo, d, f)
  BY DEF Whole, Owners

\* Every step of the traversal other than go and a second visit runs one
\* handler, on the call on top of the stack.
LEMMA HandlerCalls ==
  ASSUME IInv, Next, ~VisitAgain, ~Go
  PROVE  \E todo \in Seq(CallsOf(Top.d, Top.flags)) : Enter(Kinds, todo) /\ Whole(todo, Top.d, Top.flags)
<1> DEFINE S == CallsOf(Top.d, Top.flags)
<1>1. ASSUME NEW kinds \in SUBSET Kinds, NEW todo, Enter(kinds, todo)
      PROVE  /\ AstShape(ast) /\ Top.d \in Decl /\ Top.flags \in Flags /\ ast.kind[Top.d] \in kinds
             /\ Enter(Kinds, todo)
  <2>1. /\ Top.d \in Decl /\ Top.flags \in Flags /\ ast.kind[Top.d] \in kinds
    BY <1>1, Entered
  <2> QED BY <1>1, <2>1, AstFacts DEF Enter
<1> USE DEF Handle
<1>2. CASE VisitNamespaceDecl \/ VisitLinkageSpecDecl
  <2> DEFINE todo == VisitEach(ast.members[Top.d], Top.flags)
  <2>1. Enter({"Namespace"}, todo) \/ Enter({"LinkageSpec"}, todo)
    BY <1>2 DEF VisitNamespaceDecl, VisitLinkageSpecDecl
  <2> HIDE DEF todo
  <2>2. /\ AstShape(ast) /\ Top.d \in Decl /\ Top.flags \in Flags
        /\ ast.kind[Top.d] \in {"Namespace", "LinkageSpec"} /\ Enter(Kinds, todo)
    BY <1>1, <2>1 DEF Kinds
  <2>3. todo \in Seq(S)
    BY <2>2, EachCall DEF todo
  <2>4. Whole(todo, Top.d, Top.flags)
    <3>1. ast.members[Top.d] \in Seq(Decl)
      BY <2>2 DEF AstShape
    <3>2. Range(todo) = {Visit(x, Top.flags) : x \in Range(ast.members[Top.d])}
      BY <3>1, CallRanges DEF todo
    <3> QED BY <2>2, <3>2 DEF Whole, Owners, RecordKinds, FunctionKinds
  <2> QED BY <2>2, <2>3, <2>4
<1>3. CASE VisitCXXRecordDecl
  <2> DEFINE v == VisitEach(ast.members[Top.d], Top.flags)
             g == VisitTagDecl(Top.d, Top.flags)
             todo == IF SkipRecord(Top.d, Top.flags) THEN <<>> ELSE v \o g
  <2>1. Enter(RecordKinds, todo)
    BY <1>3 DEF VisitCXXRecordDecl
  <2>2. /\ AstShape(ast) /\ Top.d \in Decl /\ Top.flags \in Flags
        /\ ast.kind[Top.d] \in RecordKinds /\ Enter(Kinds, todo)
    BY <1>1, <2>1 DEF Kinds, RecordKinds
  <2>3. v \in Seq(S)
    BY <2>2, EachCall
  <2>4. g \in Seq(S)
    <3>1. \A def \in BOOLEAN : <<go(Top.d, Top.flags, def)>> \in Seq(S)
      BY <2>2, OneCall, CallSeqs DEF GoKinds, EntityKinds
    <3> QED BY <3>1, CallSeqs DEF VisitTagDecl
  <2> HIDE DEF v, g
  <2>5. todo \in Seq(S)
    BY <2>3, <2>4, CallSeqs
  <2>6. Whole(todo, Top.d, Top.flags)
    <3>1. ast.members[Top.d] \in Seq(Decl)
      BY <2>2 DEF AstShape
    <3>2. Range(v) = {Visit(x, Top.flags) : x \in Range(ast.members[Top.d])}
      BY <3>1, CallRanges DEF v
    <3>3. Range(v) \subseteq Range(v \o g) /\ Range(<<>>) = {}
      BY <2>3, <2>4, CallRanges
    <3>4. (\E it \in Range(todo) : it.op = "go") => Range(v) \subseteq Range(todo)
      BY <3>3
    <3> QED BY <2>2, <3>2, <3>4 DEF Whole, Owners, RecordKinds, FunctionKinds, FileKinds
  <2> QED BY <2>2, <2>5, <2>6
<1>4. CASE VisitEnumDecl
  <2> DEFINE todo == EnumGo(Top.d, Top.flags)
  <2>1. Enter({"Enum"}, todo)
    BY <1>4 DEF VisitEnumDecl
  <2> HIDE DEF todo
  <2>2. /\ AstShape(ast) /\ Top.d \in Decl /\ Top.flags \in Flags
        /\ ast.kind[Top.d] = "Enum" /\ Enter(Kinds, todo)
    BY <1>1, <2>1 DEF Kinds
  <2>3. <<go(Top.d, Top.flags, TRUE)>> \in Seq(S)
    BY <2>2, OneCall, CallSeqs DEF GoKinds, EntityKinds
  <2>4. goEach(ast.members[Top.d], Top.flags) \in Seq(S)
    BY <2>2, EachCall DEF Owners
  <2>5. todo \in Seq(S)
    BY <2>3, <2>4, CallSeqs DEF todo, EnumGo
  <2>6. Whole(todo, Top.d, Top.flags)
    <3> DEFINE g == <<go(Top.d, Top.flags, TRUE)>>
               h == goEach(ast.members[Top.d], Top.flags)
    <3>1. Range(h) = {go(x, Top.flags, TRUE) : x \in Locals(ast, Top.d)}
      BY <2>2, CallRanges DEF AstShape, Locals
    <3>2. Range(g \o h) = Range(g) \cup Range(h) /\ Range(<<>>) = {}
      <4>1. g \in Seq(S) /\ h \in Seq(S)
        BY <2>3, <2>4
      <4> HIDE DEF g, h
      <4> QED BY <4>1, CallRanges
    <3>3. go(Top.d, Top.flags, TRUE) \in Range(todo) => Range(h) \subseteq Range(todo)
      BY <3>2 DEF todo, EnumGo
    <3> QED BY <2>2, <3>1, <3>3 DEF Whole, RecordKinds, FunctionKinds, FileKinds
  <2> QED BY <2>2, <2>5, <2>6
<1>5. CASE VisitTypedefNameDecl
  <2> DEFINE todo == <<go(Top.d, Top.flags, TRUE)>>
  <2>1. Enter({"TypedefName", "EnumConstant"}, todo)
    BY <1>5 DEF VisitTypedefNameDecl
  <2> HIDE DEF todo
  <2>2. /\ AstShape(ast) /\ Top.d \in Decl /\ Top.flags \in Flags
        /\ ast.kind[Top.d] \in {"TypedefName", "EnumConstant"} /\ Enter(Kinds, todo)
    BY <1>1, <2>1 DEF Kinds
  <2>3. todo \in Seq(S)
    BY <2>2, OneCall, CallSeqs DEF GoKinds, todo
  <2> QED BY <2>2, <2>3, WholeOther DEF FileKinds, RecordKinds, FunctionKinds
<1>6. CASE VisitVarDecl
  <2> DEFINE todo == IF SkipVar(Top.d) THEN <<>> ELSE <<go(Top.d, Top.flags, TRUE)>>
  <2>1. Enter({"Var"}, todo)
    BY <1>6 DEF VisitVarDecl
  <2> HIDE DEF todo
  <2>2. /\ AstShape(ast) /\ Top.d \in Decl /\ Top.flags \in Flags
        /\ ast.kind[Top.d] = "Var" /\ Enter(Kinds, todo)
    BY <1>1, <2>1 DEF Kinds
  <2>3. todo \in Seq(S)
    BY <2>2, OneCall, CallSeqs DEF GoKinds, todo
  <2> QED BY <2>2, <2>3, WholeOther DEF FileKinds, RecordKinds, FunctionKinds
<1>7. ASSUME NEW k \in FunctionKinds, Enter({k}, FunctionGo(Top.d, Top.flags))
      PROVE  \E todo \in Seq(S) : Enter(Kinds, todo) /\ Whole(todo, Top.d, Top.flags)
  <2> DEFINE todo == FunctionGo(Top.d, Top.flags)
  <2>1. /\ AstShape(ast) /\ Top.d \in Decl /\ Top.flags \in Flags
        /\ ast.kind[Top.d] = k /\ Enter(Kinds, todo)
    BY <1>1, <1>7 DEF Kinds, FunctionKinds
  <2>2. \A def \in BOOLEAN : <<go(Top.d, Top.flags, def)>> \in Seq(S)
    BY <1>7, <2>1, OneCall, CallSeqs DEF GoKinds, EntityKinds
  <2>3. goEach(ast.members[Top.d], Top.flags) \in Seq(S)
    BY <1>7, <2>1, EachCall DEF Owners
  <2>4. todo \in Seq(S)
    BY <2>2, <2>3, CallSeqs DEF FunctionGo
  <2>5. Whole(todo, Top.d, Top.flags)
    <3> DEFINE g == <<go(Top.d, Top.flags, TRUE)>>
               h == goEach(ast.members[Top.d], Top.flags)
               n == <<go(Top.d, Top.flags, FALSE)>>
    <3>1. Range(h) = {go(x, Top.flags, TRUE) : x \in Locals(ast, Top.d)}
      BY <2>1, CallRanges DEF AstShape, Locals
    <3>2. /\ go(Top.d, Top.flags, TRUE) \in Range(g) /\ go(Top.d, Top.flags, FALSE) \in Range(n)
          /\ Range(<<>>) = {}
      BY CallRanges
    <3>3. Range(g \o h) = Range(g) \cup Range(h) /\ Range(g \o <<>>) = Range(g) \cup Range(<<>>)
      <4>1. g \in Seq(S) /\ h \in Seq(S) /\ <<>> \in Seq(S)
        BY <2>2, <2>3, CallSeqs
      <4> HIDE DEF g, h
      <4> QED BY <4>1, CallRanges
    <3>4. ASSUME templates_ \/ Top.d \notin ast.dependent
          PROVE  /\ ast.definition[Top.d] = Top.d => go(Top.d, Top.flags, TRUE) \in Range(todo)
                 /\ ast.definition[Top.d] = NoDecl /\ ast.previous[Top.d] = NoDecl
                      => go(Top.d, Top.flags, FALSE) \in Range(todo)
      <4>1. CASE ast.definition[Top.d] = Top.d
        <5>1. todo = g \o h \/ todo = g \o <<>>
          BY <3>4, <4>1 DEF FunctionGo
        <5>2. Top.d # NoDecl
          BY <2>1, ConstantAssumption
        <5> HIDE DEF g, h, todo
        <5> QED BY <3>2, <3>3, <4>1, <5>1, <5>2
      <4>2. CASE ast.definition[Top.d] # Top.d /\ ast.definition[Top.d] = NoDecl /\ ast.previous[Top.d] = NoDecl
        <5>1. todo = n
          BY <3>4, <4>2 DEF FunctionGo
        <5> QED BY <3>2, <4>2, <5>1
      <4> QED BY <4>1, <4>2
    <3>5. ASSUME filter_[Top.d] = "DEFINITION", go(Top.d, Top.flags, TRUE) \in Range(todo)
          PROVE  Range(h) \subseteq Range(todo)
      <4>1. todo \in {<<>>, n, g \o h}
        BY <3>5 DEF FunctionGo
      <4>2. Range(n) = {go(Top.d, Top.flags, FALSE)}
        BY CallRanges
      <4>3. go(Top.d, Top.flags, TRUE) # go(Top.d, Top.flags, FALSE)
        BY DEF go
      <4> HIDE DEF n, g, h, todo
      <4>4. todo = g \o h
        BY <3>2, <3>5, <4>1, <4>2, <4>3
      <4> QED BY <3>3, <4>4
    <3> QED BY <1>7, <2>1, <3>1, <3>4, <3>5 DEF Whole, RecordKinds, FunctionKinds, FileKinds
  <2> QED BY <2>1, <2>4, <2>5
<1>8. ASSUME NEW kinds \in SUBSET Kinds, Enter(kinds, <<>>),
             \/ Top.d \in ast.deleted /\ kinds \subseteq FunctionKinds
             \/ kinds \cap (FileKinds \cup RecordKinds \cup FunctionKinds \cup {"Enum"}) = {}
      PROVE  \E todo \in Seq(S) : Enter(Kinds, todo) /\ Whole(todo, Top.d, Top.flags)
  <2>1. Enter(Kinds, <<>>) /\ Top.d \in Decl /\ ast.kind[Top.d] \in kinds
    BY <1>1, <1>8
  <2>2. Whole(<<>>, Top.d, Top.flags)
    <3>1. CASE Top.d \in ast.deleted /\ ast.kind[Top.d] \in FunctionKinds
      BY <3>1, CallRanges DEF Whole, FileKinds, RecordKinds, FunctionKinds
    <3>2. CASE kinds \cap (FileKinds \cup RecordKinds \cup FunctionKinds \cup {"Enum"}) = {}
      BY <2>1, <3>2, WholeOther
    <3> QED BY <1>8, <2>1, <3>1, <3>2
  <2> QED BY <2>1, <2>2, CallSeqs
<1>9. CASE VisitFunctionDecl \/ VisitCXXMethodDecl \/ VisitCXXConstructorDecl \/ VisitCXXDestructorDecl
  BY <1>7, <1>8, <1>9 DEF VisitFunctionDecl, Kinds, VisitCXXMethodDecl, VisitCXXConstructorDecl,
     VisitCXXDestructorDecl, VisitMember, VisitDeleted, FunctionKinds
<1>10. CASE VisitStaticAssertDecl \/ VisitIgnored
  BY <1>8, <1>10 DEF VisitStaticAssertDecl, VisitIgnored, Kinds, FileKinds, RecordKinds, FunctionKinds
<1>11. ASSUME NEW k \in TemplateKinds, NEW self, Enter({k}, TemplateThenSpecializations(self)),
              AstShape(ast) /\ Top.d \in Decl /\ Top.flags \in Flags
                /\ ast.kind[Top.d] = k /\ templates_ => self \in Seq(S)
       PROVE  \E todo \in Seq(S) : Enter(Kinds, todo) /\ Whole(todo, Top.d, Top.flags)
  <2> DEFINE todo == TemplateThenSpecializations(self)
             rest == VisitEach(ast.specializations[Top.d], set_specialization(Top.flags))
  <2>1. /\ AstShape(ast) /\ Top.d \in Decl /\ Top.flags \in Flags
        /\ ast.kind[Top.d] = k /\ Enter(Kinds, todo)
    BY <1>1, <1>11 DEF Kinds, TemplateKinds
  <2>2. rest \in Seq(S)
    BY <1>11, <2>1, EachCall
  <2>3. (IF templates_ THEN self ELSE <<>>) \in Seq(S)
    BY <1>11, <2>1, CallSeqs
  <2>4. todo \in Seq(S)
    BY <2>2, <2>3, CallSeqs DEF TemplateThenSpecializations
  <2> QED BY <1>11, <2>1, <2>4, WholeOther DEF FileKinds, RecordKinds, FunctionKinds, TemplateKinds
<1>12. CASE VisitClassTemplateDecl
  <2> DEFINE self == <<Visit(ast.templated[Top.d], set_template(Top.flags))>>
  <2>1. Enter({"ClassTemplate"}, TemplateThenSpecializations(self))
    BY <1>12 DEF VisitClassTemplateDecl
  <2>2. AstShape(ast) /\ Top.d \in Decl /\ Top.flags \in Flags
          /\ ast.kind[Top.d] = "ClassTemplate" /\ templates_ => self \in Seq(S)
    BY OneCall, CallSeqs
  <2> HIDE DEF self
  <2> QED BY <1>11, <2>1, <2>2 DEF TemplateKinds
<1>13. CASE VisitFunctionTemplateDecl \/ VisitVarTemplateDecl
  <2> DEFINE self == <<go(Top.d, set_template(Top.flags), TRUE)>>
  <2>1. PICK k \in {"FunctionTemplate", "VarTemplate"} : Enter({k}, TemplateThenSpecializations(self))
    BY <1>13 DEF VisitFunctionTemplateDecl, VisitVarTemplateDecl
  <2>2. AstShape(ast) /\ Top.d \in Decl /\ Top.flags \in Flags
          /\ ast.kind[Top.d] = k /\ templates_ => self \in Seq(S)
    BY OneCall, CallSeqs
  <2> HIDE DEF self
  <2> QED BY <1>11, <2>1, <2>2 DEF TemplateKinds
<1>14. CASE VisitFriendDecl
  <2> DEFINE todo == IF ast.friendDecl[Top.d] = NoDecl THEN <<>>
                     ELSE <<Visit(ast.friendDecl[Top.d], Top.flags)>>
  <2>1. Enter({"Friend"}, todo)
    BY <1>14 DEF VisitFriendDecl
  <2> HIDE DEF todo
  <2>2. /\ AstShape(ast) /\ Top.d \in Decl /\ Top.flags \in Flags
        /\ ast.kind[Top.d] = "Friend" /\ Enter(Kinds, todo)
    BY <1>1, <2>1 DEF Kinds
  <2>3. todo \in Seq(S)
    BY <2>2, OneCall, CallSeqs DEF todo
  <2> QED BY <2>2, <2>3, WholeOther DEF FileKinds, RecordKinds, FunctionKinds
<1> QED
  BY <1>2, <1>3, <1>4, <1>5, <1>6, <1>9, <1>10, <1>12, <1>13, <1>14 DEF Next

(***************************************************************************)
(* The kinds of what is recorded.                                          *)
(***************************************************************************)
\* Templates are recorded inside templates only, namespaces and the like
\* nowhere, static assertions in a list of their own.
KindsInv ==
  /\ \A i \in PendingGo :
       \/ ast.kind[stack[i].d] \in GoKinds
       \/ ast.kind[stack[i].d] \in {"FunctionTemplate", "VarTemplate"} /\ stack[i].flags.in_template
  /\ \A x \in Main : ast.kind[x] \in GoKinds
  /\ \A x \in Listed : ast.kind[x] \in GoKinds \cup {"FunctionTemplate", "VarTemplate"}
  /\ \A x \in Range(asserts_) : ast.kind[x] = "StaticAssert"

\* The kind of what a handler calls go for.
LEMMA CallKinds ==
  ASSUME AstShape(ast), LocalsAreOwned(ast), NEW d \in Decl, NEW f \in Flags,
         NEW it \in CallsOf(d, f), it.op = "go"
  PROVE  \/ ast.kind[it.d] \in GoKinds
         \/ ast.kind[it.d] \in {"FunctionTemplate", "VarTemplate"} /\ it.flags.in_template
<1>1. CASE ast.kind[d] \in GoKinds /\ it.d = d
  BY <1>1
<1>2. CASE d \in Owners(ast) /\ it.d \in Locals(ast, d)
  BY <1>2 DEF LocalsAreOwned, GoKinds
<1>3. CASE /\ it.flags = set_template(f) /\ it.d = d
           /\ ast.kind[d] \in {"FunctionTemplate", "VarTemplate"}
  BY <1>3 DEF set_template, Flags
<1> QED BY <1>1, <1>2, <1>3 DEF CallsOf

\* Only VisitStaticAssertDecl adds to asserts_.
LEMMA AssertsGrow ==
  ASSUME IInv, [Next]_vars
  PROVE  /\ ast' = ast
         /\ \/ asserts_' = asserts_
            \/ /\ asserts_' = Append(asserts_, Top.d)
               /\ Top.d \in Decl /\ ast.kind[Top.d] = "StaticAssert"
<1>1. CASE VisitStaticAssertDecl
  <2>1. Enter({"StaticAssert"}, <<>>) /\ asserts_' = Append(asserts_, Top.d)
    BY <1>1 DEF VisitStaticAssertDecl
  <2> QED BY <2>1, Entered DEF input
<1>2. CASE ~VisitStaticAssertDecl
  BY <1>2 DEF vars, Next, VisitAgain, Go, VisitNamespaceDecl, VisitLinkageSpecDecl,
     VisitCXXRecordDecl, VisitEnumDecl, VisitTypedefNameDecl, VisitVarDecl, VisitFunctionDecl,
     VisitCXXMethodDecl, VisitCXXConstructorDecl, VisitCXXDestructorDecl, VisitClassTemplateDecl,
     VisitFunctionTemplateDecl, VisitVarTemplateDecl, VisitFriendDecl, VisitIgnored,
     VisitDeleted, VisitMember, Handle, Enter, input
<1> QED BY <1>1, <1>2

\* Appending to a sequence adds one element to its range.
LEMMA AppendRange ==
  ASSUME NEW l \in Seq(Decl), NEW d \in Decl
  PROVE  Range(Append(l, d)) = Range(l) \cup {d}
<1> DEFINE m == Append(l, d)
<1>1. /\ m \in Seq(Decl) /\ Len(l) \in Nat /\ DOMAIN l = 1 .. Len(l)
      /\ DOMAIN m = 1 .. Len(l) + 1
      /\ m[Len(l) + 1] = d /\ \A i \in 1 .. Len(l) : m[i] = l[i]
  BY AppendProperties
<1> HIDE DEF m
<1>2. \A i \in DOMAIN m : (i \in DOMAIN l /\ m[i] = l[i]) \/ (i = Len(l) + 1 /\ m[i] = d)
  BY <1>1
<1>3. \A x \in Range(l) \cup {d} : x \in Range(m)
  BY <1>1 DEF Range
<1>4. \A x \in Range(m) : x \in Range(l) \cup {d}
  BY <1>2 DEF Range
<1> QED BY <1>3, <1>4 DEF m

\* What a Go step adds to the lists, and what it leaves on the stack.
LEMMA GoAdds ==
  ASSUME IInv, Go
  PROVE  /\ 1 \in DOMAIN stack /\ Top = stack[1] /\ Top \in Item /\ Top.op = "go"
         /\ stack' \in Seq(Item)
         /\ \A i \in DOMAIN stack' : i + 1 \in DOMAIN stack /\ stack'[i] = stack[i + 1]
         /\ \A x \in Listed' : x \in Listed \/ x = Top.d
         /\ \A x \in Main' : x \in Main \/ (x = Top.d /\ ~Top.flags.in_template)
         /\ UNCHANGED <<ast, templates_, filter_, visited_, asserts_>>
<1>1. stack \in Seq(Item) /\ stack # <<>> /\ stack' = Tail(stack) /\ Top.op = "go"
  BY DEF IInv, TypeOK, Go
<1>2. 1 \in DOMAIN stack /\ Top = stack[1] /\ Top \in Item
  BY <1>1 DEF Top
<1>3. /\ stack' \in Seq(Item)
      /\ \A i \in DOMAIN stack' : i + 1 \in DOMAIN stack /\ stack'[i] = stack[i + 1]
  BY <1>1, HeadTailProperties
<1>4. /\ declarations_ \in Seq(Decl) /\ definitions_ \in Seq(Decl)
      /\ template_declarations_ \in Seq(Decl) /\ template_definitions_ \in Seq(Decl)
      /\ Top.d \in Decl
  BY <1>2 DEF IInv, TypeOK, Item
<1>5. \A l \in Seq(Decl) : Range(Append(l, Top.d)) = Range(l) \cup {Top.d}
  BY <1>4, AppendRange
<1>6. \A x \in Listed' : x \in Listed \/ x = Top.d
  <2>1. \A l \in Seq(Decl) : \A n : Grown(n, l, Top.d) => Range(n) \subseteq Range(l) \cup {Top.d}
    BY <1>5 DEF Grown
  <2>2. /\ Range(declarations_') \subseteq Range(declarations_) \cup {Top.d}
        /\ Range(definitions_') \subseteq Range(definitions_) \cup {Top.d}
        /\ Range(template_declarations_') \subseteq Range(template_declarations_) \cup {Top.d}
        /\ Range(template_definitions_') \subseteq Range(template_definitions_) \cup {Top.d}
    BY <1>4, <2>1, GoGrows
  <2> QED BY <2>2 DEF Listed, Main, Range
<1>7. \A x \in Main' : x \in Main \/ (x = Top.d /\ ~Top.flags.in_template)
  <2>1. CASE Top.flags.in_template
    <3>1. declarations_' = declarations_ /\ definitions_' = definitions_
      BY <2>1 DEF Go, add_definition, add_declaration, AddMain, lists
    <3> QED BY <3>1 DEF Main, Range
  <2>2. CASE ~Top.flags.in_template
    <3>1. \A l \in Seq(Decl) : \A n : Grown(n, l, Top.d) => Range(n) \subseteq Range(l) \cup {Top.d}
      BY <1>5 DEF Grown
    <3>2. /\ Range(declarations_') \subseteq Range(declarations_) \cup {Top.d}
          /\ Range(definitions_') \subseteq Range(definitions_) \cup {Top.d}
      BY <1>4, <3>1, GoGrows
    <3> QED BY <2>2, <3>2 DEF Main, Range
  <2> QED BY <2>1, <2>2
<1>8. UNCHANGED <<ast, templates_, filter_, visited_, asserts_>>
  BY DEF Go, input
<1> QED BY <1>1, <1>2, <1>3, <1>6, <1>7, <1>8

\* The stack after a handler, and what the handler leaves alone.
LEMMA EnterPushes ==
  ASSUME IInv, NEW todo \in Seq(CallsOf(Top.d, Top.flags)), Enter(Kinds, todo)
  PROVE  /\ 1 \in DOMAIN stack /\ Top = stack[1] /\ Top \in Item /\ Top.op = "Visit"
         /\ Top.d \in Decl /\ Top.flags \in Flags /\ Top.d \notin visited_
         /\ visited_' = visited_ \cup {Top.d}
         /\ \A i \in DOMAIN stack' :
              \/ stack'[i] \in CallsOf(Top.d, Top.flags)
              \/ \E j \in DOMAIN stack : stack'[i] = stack[j]
         /\ UNCHANGED <<ast, templates_, filter_>>
         /\ Listed' = Listed /\ Main' = Main
<1>1. stack \in Seq(Item) /\ stack # <<>>
  BY DEF IInv, TypeOK, Enter
<1>2. 1 \in DOMAIN stack /\ Top = stack[1] /\ Top \in Item
  BY <1>1 DEF Top
<1>3. todo \in Seq(Item) /\ \A i \in DOMAIN todo : todo[i] \in CallsOf(Top.d, Top.flags)
  BY DEF CallsOf
<1>4. stack' = todo \o Tail(stack) /\ visited_' = visited_ \cup {Top.d}
      /\ Top.d \notin visited_ /\ Top.op = "Visit"
      /\ UNCHANGED <<ast, templates_, filter_>> /\ UNCHANGED lists
  BY DEF Enter, Mark, input
<1>5. \A i \in DOMAIN stack' :
              \/ i \in DOMAIN todo /\ stack'[i] = todo[i]
              \/ \E j \in DOMAIN stack : stack'[i] = stack[j]
  BY <1>1, <1>3, <1>4, PushedStack
<1>6. Listed' = Listed /\ Main' = Main
  BY <1>4 DEF Listed, Main, Range, lists
<1> QED BY <1>2, <1>3, <1>4, <1>5, <1>6 DEF Item

\* A second visit and a stuttering step add no call.
LEMMA AgainShrinks ==
  ASSUME IInv, VisitAgain \/ UNCHANGED vars
  PROVE  \A i \in DOMAIN stack' : \E j \in DOMAIN stack : stack'[i] = stack[j]
<1>1. CASE VisitAgain
  <2>1. stack \in Seq(Item) /\ stack # <<>> /\ stack' = Tail(stack)
    BY <1>1 DEF VisitAgain, IInv, TypeOK
  <2>2. \A i \in DOMAIN stack' : i + 1 \in DOMAIN stack /\ stack'[i] = stack[i + 1]
    BY <2>1, HeadTailProperties
  <2> QED BY <2>2
<1>2. CASE UNCHANGED vars
  BY <1>2 DEF vars
<1> QED BY <1>1, <1>2

LEMMA KindsStep == IInv /\ KindsInv /\ [Next]_vars => KindsInv'
<1> SUFFICES ASSUME IInv, KindsInv, [Next]_vars PROVE KindsInv'
  OBVIOUS
<1>1. ast' = ast /\ \A x \in Range(asserts_') : ast.kind[x] = "StaticAssert"
  <2>1. asserts_ \in Seq(Decl)
    BY DEF IInv, TypeOK
  <2>2. CASE asserts_' = asserts_
    BY <2>2, AssertsGrow DEF KindsInv, Range
  <2>3. CASE /\ asserts_' = Append(asserts_, Top.d) /\ Top.d \in Decl
             /\ ast.kind[Top.d] = "StaticAssert"
    <3>1. Range(Append(asserts_, Top.d)) = Range(asserts_) \cup {Top.d}
      BY <2>1, <2>3, AppendRange
    <3>2. \A x \in Range(Append(asserts_, Top.d)) : ast.kind[x] = "StaticAssert"
      BY <2>3, <3>1 DEF KindsInv
    <3> QED BY <2>3, <3>2, AssertsGrow
  <2> QED BY <2>2, <2>3, AssertsGrow
<1>2. AstShape(ast) /\ LocalsAreOwned(ast)
  BY AstFacts
<1>3. CASE Go
  BY <1>1, <1>3, GoAdds DEF KindsInv, PendingGo
<1>4. CASE VisitAgain \/ UNCHANGED vars
  <2>1. \A i \in DOMAIN stack' : \E j \in DOMAIN stack : stack'[i] = stack[j]
    BY <1>4, AgainShrinks
  <2>2. Listed' = Listed /\ Main' = Main
    BY <1>4 DEF VisitAgain, vars, lists, Listed, Main, Range
  <2> QED BY <1>1, <2>1, <2>2 DEF KindsInv, PendingGo
<1>5. CASE Next /\ ~Go /\ ~VisitAgain
  <2>1. PICK todo \in Seq(CallsOf(Top.d, Top.flags)) : Enter(Kinds, todo)
    BY <1>5, HandlerCalls
  <2>2. /\ Top.d \in Decl /\ Top.flags \in Flags
        /\ \A i \in DOMAIN stack' :
             \/ stack'[i] \in CallsOf(Top.d, Top.flags)
             \/ \E j \in DOMAIN stack : stack'[i] = stack[j]
        /\ Listed' = Listed /\ Main' = Main
    BY <2>1, EnterPushes
  <2>3. \A i \in DOMAIN stack' : stack'[i].op = "go" =>
           \/ ast.kind[stack'[i].d] \in GoKinds
           \/ /\ ast.kind[stack'[i].d] \in {"FunctionTemplate", "VarTemplate"}
              /\ stack'[i].flags.in_template
    BY <1>2, <2>2, CallKinds DEF KindsInv, PendingGo
  <2> QED BY <1>1, <2>2, <2>3 DEF KindsInv, PendingGo
<1> QED BY <1>3, <1>4, <1>5

LEMMA KindsInit == Init => KindsInv
<1> SUFFICES ASSUME Init PROVE KindsInv
  OBVIOUS
<1>1. Listed = {} /\ Main = {} /\ Range(asserts_) = {}
  BY DEF Init, Listed, Main, Range
<1>2. PendingGo = {}
  BY DEF Init, PendingGo, VisitEach, Visit
<1> QED BY <1>1, <1>2 DEF KindsInv

(***************************************************************************)
(* Uninstantiated code.                                                    *)
(***************************************************************************)
\* A call outside templates on something uninstantiated is on a stray.
StrayInv ==
  /\ \A i \in DOMAIN stack :
       stack[i].d \in ast.dependent /\ ~stack[i].flags.in_template => stack[i].d \in Strays(ast)
  /\ TemplatesApart

\* Strays is a set of the kind it is the least of.
LEMMA StraysClosed ==
  /\ Detached(ast) \subseteq Strays(ast)
  /\ \A c \in Strays(ast) :
       (Range(ast.members[c]) \cup {ast.friendDecl[c]}) \cap ast.dependent \subseteq Strays(ast)
<1> DEFINE Near(c) == (Range(ast.members[c]) \cup {ast.friendDecl[c]}) \cap ast.dependent
           Good(S) == Detached(ast) \subseteq S /\ \A c \in S : Near(c) \subseteq S
<1>1. Strays(ast) = {d \in ast.dependent : \A S \in SUBSET ast.dependent : Good(S) => d \in S}
  BY DEF Strays
<1>2. Detached(ast) \subseteq ast.dependent /\ \A c : Near(c) \subseteq ast.dependent
  BY DEF Detached
<1> HIDE DEF Near
<1>3. \A c \in Strays(ast) : Near(c) \subseteq Strays(ast)
  BY <1>1, <1>2
<1>4. Detached(ast) \subseteq Strays(ast)
  BY <1>1, <1>2
<1> QED BY <1>3, <1>4 DEF Near

\* What the visit of d outside a template leads to.
LEMMA StrayCalls ==
  ASSUME AstShape(ast), DependentInTemplates(ast), NEW d \in Decl, NEW f \in Flags,
         d \in ast.dependent /\ ~f.in_template => d \in Strays(ast),
         NEW it \in CallsOf(d, f), it.d \in ast.dependent, ~it.flags.in_template
  PROVE  it.d \in Strays(ast)
<1>1. ~f.in_template /\ it.flags # set_template(f)
  BY DEF CallsOf, set_template, set_specialization, Flags
<1>2. CASE it.d \in Range(ast.members[d]) \cup {ast.friendDecl[d]}
  <2>1. CASE d \in ast.dependent
    BY <1>1, <1>2, <2>1, StraysClosed
  <2>2. CASE d \notin ast.dependent
    BY <1>2, <2>2, StraysClosed DEF DependentInTemplates
  <2> QED BY <2>1, <2>2
<1>3. CASE it.d \in Range(ast.specializations[d])
  BY <1>3, StraysClosed DEF DependentInTemplates
<1>4. CASE it.d = d
  BY <1>1, <1>4
<1> QED BY <1>1, <1>2, <1>3, <1>4 DEF CallsOf, Locals

LEMMA StrayInit == Init => StrayInv
<1> SUFFICES ASSUME Init PROVE StrayInv
  OBVIOUS
<1>1. Main = {}
  BY DEF Init, Main, Range
<1>2. DependentInTemplates(ast)
  BY TemplateAssumption DEF Init
<1>3. \A i \in DOMAIN stack : stack[i].d \in Range(ast.members[TU])
  BY DEF Init, VisitEach, Visit, Range
<1> QED BY <1>1, <1>2, <1>3, StraysClosed DEF StrayInv, TemplatesApart, DependentInTemplates

LEMMA StrayStep == IInv /\ StrayInv /\ [Next]_vars => StrayInv'
<1> SUFFICES ASSUME IInv, StrayInv, [Next]_vars PROVE StrayInv'
  OBVIOUS
<1>1. ast' = ast
  BY AssertsGrow
<1>2. AstShape(ast) /\ DependentInTemplates(ast)
  BY AstAssumption, TemplateAssumption DEF IInv
<1>3. Strays(ast)' = Strays(ast)
  BY <1>1
<1>4. CASE Go
  BY <1>1, <1>3, <1>4, GoAdds DEF StrayInv, TemplatesApart
<1>5. CASE VisitAgain \/ UNCHANGED vars
  <2>1. \A i \in DOMAIN stack' : \E j \in DOMAIN stack : stack'[i] = stack[j]
    BY <1>5, AgainShrinks
  <2>2. Main' = Main
    BY <1>5 DEF VisitAgain, vars, lists, Main, Range
  <2> QED BY <1>1, <1>3, <2>1, <2>2 DEF StrayInv, TemplatesApart
<1>6. CASE Next /\ ~Go /\ ~VisitAgain
  <2>1. PICK todo \in Seq(CallsOf(Top.d, Top.flags)) : Enter(Kinds, todo)
    BY <1>6, HandlerCalls
  <2>2. /\ 1 \in DOMAIN stack /\ Top = stack[1] /\ Top.d \in Decl /\ Top.flags \in Flags
        /\ \A i \in DOMAIN stack' :
             \/ stack'[i] \in CallsOf(Top.d, Top.flags)
             \/ \E j \in DOMAIN stack : stack'[i] = stack[j]
        /\ Main' = Main
    BY <2>1, EnterPushes
  <2>3. Top.d \in ast.dependent /\ ~Top.flags.in_template => Top.d \in Strays(ast)
    BY <2>2 DEF StrayInv
  <2>4. \A i \in DOMAIN stack' :
          stack'[i].d \in ast.dependent /\ ~stack'[i].flags.in_template => stack'[i].d \in Strays(ast)
    BY <1>2, <2>2, <2>3, StrayCalls DEF StrayInv
  <2> QED BY <1>1, <1>3, <2>2, <2>4 DEF StrayInv, TemplatesApart
<1> QED BY <1>4, <1>5, <1>6

\* For every AST: uninstantiated code gets into the lists of the module only
\* where it is detached from its template, or inside something detached.  The
\* in_template flag, once set for getTemplatedDecl(), reaches everything that is
\* visited from there.
THEOREM UninstantiatedApart == Spec => []TemplatesApart
<1>1. StrayInv => TemplatesApart
  BY DEF StrayInv
<1> QED BY <1>1, InitEstablishes, NextPreserves, StrayInit, StrayStep, PTL DEF Spec

(***************************************************************************)
(* With a filter that keeps everything, as in toCoqModule: when the        *)
(* traversal ends, what a class, an enum or a function of the module has   *)
(* inside is in the module too, and so are the instances of the class      *)
(* templates.                                                              *)
(***************************************************************************)

\* Default(What::DEFINITION) is the only filter.
EverythingKept == \A f \in Filters : \A d \in Decl : f[d] = "DEFINITION"

\* x is in the module as a definition, or a call will record it there.
Kept(x) ==
  \/ x \in Range(definitions_)
  \/ \E it \in Range(stack) :
       it.op = "go" /\ it.d = x /\ ~it.flags.in_template /\ it.definition

\* x is in the module, or a call will record it there.
KeptSomehow(x) ==
  \/ x \in Main
  \/ \E it \in Range(stack) : it.op = "go" /\ it.d = x /\ ~it.flags.in_template

Awaited(x) == \E it \in Range(stack) : it.op = "Visit" /\ it.d = x

\* The declarations that only namespaces lead to.
FileOnly(x) == x \notin Referred(ast) \cup InClass(ast)

\* The member functions of a class that the module should have.
Methods(c) == {m \in Range(ast.members[c]) : ast.kind[m] \in FunctionKinds /\ m \notin ast.deleted}

LocalsInv == \A c \in Owners(ast) : Kept(c) => \A m \in Locals(ast, c) : Kept(m)

FlagsInv == \A it \in Range(stack) : it.op = "Visit" /\ FileOnly(it.d) => it.flags = NoFlags

ReachInv ==
  \A n \in visited_ \cup {TU} :
    n = TU \/ ast.kind[n] \in FileKinds =>
      \A x \in Range(ast.members[n]) : x \in visited_ \/ Awaited(x)

\* A definition outside its class is recorded by its visit.
OutlineInv ==
  \A e \in visited_ \ ast.deleted :
    /\ FileOnly(e) /\ ast.kind[e] \in FunctionKinds /\ ast.definition[e] = e
    /\ templates_ \/ e \notin ast.dependent
    => Kept(e)

\* The members of a class are visited from the class, with its flags, and
\* recorded by that visit if they are their own definition or have none.
MethodsInv ==
  \A c \in Decl :
    ast.kind[c] \in RecordKinds /\ (templates_ \/ c \notin ast.dependent) =>
      \A m \in Methods(c) :
        /\ m \in visited_ \/ Awaited(m) => c \in visited_
        /\ KeptSomehow(c) => m \in visited_ \/ Awaited(m)
        /\ KeptSomehow(c) => \A it \in Range(stack) : it.op = "Visit" /\ it.d = m => ~it.flags.in_template
        /\ KeptSomehow(c) /\ m \in visited_ /\ ast.definition[m] = m => Kept(m)
        /\ KeptSomehow(c) /\ m \in visited_ /\ ast.definition[m] = NoDecl => KeptSomehow(m)

MembersInv == LocalsInv /\ FlagsInv /\ ReachInv /\ OutlineInv /\ MethodsInv

(***************************************************************************)
(* The pending calls as a set.                                             *)
(***************************************************************************)
Rest == Range(Tail(stack))

\* The top of the stack and the rest.
LEMMA PopRange ==
  ASSUME stack \in Seq(Item), stack # <<>>
  PROVE  /\ Range(stack) = {Top} \cup Rest
         /\ Top \in Item /\ Tail(stack) \in Seq(Item)
         /\ \A it \in Rest : \E i \in DOMAIN stack : i # 1 /\ stack[i] = it
<1>1. /\ Len(stack) \in Nat /\ DOMAIN stack = 1 .. Len(stack) /\ 1 \in DOMAIN stack
      /\ Top = stack[1] /\ Top \in Item
  BY DEF Top
<1>2. /\ Tail(stack) \in Seq(Item) /\ DOMAIN Tail(stack) = 1 .. Len(stack) - 1
      /\ \A i \in DOMAIN Tail(stack) : i + 1 \in DOMAIN stack /\ Tail(stack)[i] = stack[i + 1]
  BY HeadTailProperties
<1>3. \A i \in DOMAIN stack : i = 1 \/ (i - 1 \in DOMAIN Tail(stack) /\ stack[i] = Tail(stack)[i - 1])
  BY <1>1, <1>2
<1>4. \A it \in Rest : \E i \in DOMAIN stack : i # 1 /\ stack[i] = it
  <2> TAKE it \in Rest
  <2>1. PICK i \in DOMAIN Tail(stack) : it = Tail(stack)[i]
    BY DEF Rest, Range
  <2>2. i + 1 \in DOMAIN stack /\ stack[i + 1] = it /\ i + 1 # 1
    BY <1>1, <1>2, <2>1
  <2> QED BY <2>2
<1>5. \A it : it \in Range(stack) => it = Top \/ it \in Rest
  BY <1>1, <1>3 DEF Rest, Range
<1>6. \A it : it = Top \/ it \in Rest => it \in Range(stack)
  BY <1>1, <1>4 DEF Range
<1> QED BY <1>1, <1>2, <1>4, <1>5, <1>6

\* A go call on top of the stack goes into the module, unless it is in a
\* template.
LEMMA GoEffect ==
  ASSUME IInv, EverythingKept, Go
  PROVE  /\ Range(stack) = {Top} \cup Rest /\ Range(stack') = Rest /\ Top.op = "go"
         /\ Top.d \in Decl /\ Top.definition \in BOOLEAN
         /\ \A it \in Rest : it.op = "go" => it.d # Top.d
         /\ Range(definitions_') =
              Range(definitions_)
                \cup (IF ~Top.flags.in_template /\ Top.definition THEN {Top.d} ELSE {})
         /\ Main' = Main \cup (IF Top.flags.in_template THEN {} ELSE {Top.d})
         /\ UNCHANGED <<ast, templates_, filter_, visited_>>
<1>1. stack \in Seq(Item) /\ stack # <<>> /\ stack' = Tail(stack) /\ Top.op = "go"
  BY DEF IInv, TypeOK, Go
<1>2. /\ Range(stack) = {Top} \cup Rest /\ Top \in Item
      /\ \A it \in Rest : \E i \in DOMAIN stack : i # 1 /\ stack[i] = it
  BY <1>1, PopRange
<1>3. 1 \in DOMAIN stack /\ stack[1] = Top
  BY <1>1 DEF Top
<1>4. \A it \in Rest : it.op = "go" => it.d # Top.d
  BY <1>1, <1>2, <1>3 DEF IInv, PendingInv, PendingGo
<1>5. Range(stack') = Rest
  BY <1>1 DEF Rest, Range
<1>6. Top.d \in Decl /\ Top.definition \in BOOLEAN /\ filter_[Top.d] = "DEFINITION"
  BY <1>2 DEF Item, EverythingKept, IInv, TypeOK
<1>7. Recorded(Top) = IF Top.definition THEN "DEFINITION" ELSE "DECLARATION"
  BY <1>6 DEF Recorded
<1>8. /\ \A l \in Seq(Decl) : Range(Append(l, Top.d)) = Range(l) \cup {Top.d}
      /\ declarations_ \in Seq(Decl) /\ definitions_ \in Seq(Decl)
  BY <1>6, AppendRange DEF IInv, TypeOK
<1>9. CASE Top.definition
  <2>1. definitions_' = AddMain(definitions_, Top.d, Top.flags) /\ declarations_' = declarations_
    BY <1>7, <1>9 DEF Go, add_definition
  <2>2. Range(definitions_') =
          Range(definitions_) \cup (IF Top.flags.in_template THEN {} ELSE {Top.d})
    BY <1>8, <2>1 DEF AddMain
  <2>3. Range(declarations_') = Range(declarations_)
    BY <2>1 DEF Range
  <2>4. Main' = Range(declarations_') \cup Range(definitions_')
    BY DEF Main, Range
  <2> QED
    BY <1>1, <1>2, <1>4, <1>5, <1>6, <1>9, <2>2, <2>3, <2>4 DEF Main, Go, input
<1>10. CASE ~Top.definition
  <2>1. declarations_' = AddMain(declarations_, Top.d, Top.flags) /\ definitions_' = definitions_
    BY <1>7, <1>10 DEF Go, add_declaration
  <2>2. Range(declarations_') =
          Range(declarations_) \cup (IF Top.flags.in_template THEN {} ELSE {Top.d})
    BY <1>8, <2>1 DEF AddMain
  <2>3. Range(definitions_') = Range(definitions_)
    BY <2>1 DEF Range
  <2>4. Main' = Range(declarations_') \cup Range(definitions_')
    BY DEF Main, Range
  <2> QED
    BY <1>1, <1>2, <1>4, <1>5, <1>6, <1>10, <2>2, <2>3, <2>4 DEF Main, Go, input
<1> QED BY <1>6, <1>9, <1>10

\* What is kept stays kept by a call of go, and nothing else becomes so.
LEMMA GoKeeps ==
  ASSUME IInv, EverythingKept, Go
  PROVE  /\ \A x : Kept(x)' <=> Kept(x)
         /\ \A x : KeptSomehow(x)' <=> KeptSomehow(x)
         /\ \A x : Awaited(x)' <=> Awaited(x)
<1> USE GoEffect
<1>1. \A x : Kept(x)' <=> Kept(x)
  BY DEF Kept
<1>2. \A x : KeptSomehow(x)' <=> KeptSomehow(x)
  BY DEF KeptSomehow
<1>3. \A x : Awaited(x)' <=> Awaited(x)
  BY DEF Awaited
<1> QED BY <1>1, <1>2, <1>3

LEMMA MembersGo == IInv /\ EverythingKept /\ MembersInv /\ Go => MembersInv'
<1> SUFFICES ASSUME IInv, EverythingKept, MembersInv, Go PROVE MembersInv'
  OBVIOUS
<1>1. /\ Range(stack') \subseteq Range(stack) /\ Top.op = "go"
      /\ UNCHANGED <<ast, templates_, filter_, visited_>>
  BY GoEffect
<1>2. LocalsInv'
  BY <1>1, GoKeeps DEF MembersInv, LocalsInv
<1>3. FlagsInv'
  BY <1>1 DEF MembersInv, FlagsInv, FileOnly
<1>4. ReachInv'
  BY <1>1, GoKeeps DEF MembersInv, ReachInv
<1>5. OutlineInv'
  BY <1>1, GoKeeps DEF MembersInv, OutlineInv, FileOnly
<1>6. MethodsInv'
  BY <1>1, GoKeeps DEF MembersInv, MethodsInv, Methods
<1> QED BY <1>2, <1>3, <1>4, <1>5, <1>6 DEF MembersInv

\* A second visit takes a call away that has been answered.
LEMMA MembersAgain ==
  IInv /\ MembersInv /\ (VisitAgain \/ UNCHANGED vars) => MembersInv'
<1> SUFFICES ASSUME IInv, MembersInv, VisitAgain \/ UNCHANGED vars PROVE MembersInv'
  OBVIOUS
<1>1. /\ UNCHANGED <<ast, templates_, filter_, visited_, declarations_, definitions_>>
  BY DEF VisitAgain, vars, input, lists
<1>2. Range(definitions_') = Range(definitions_) /\ Main' = Main
  BY <1>1 DEF Range, Main
<1>3. /\ Range(stack') \subseteq Range(stack)
      /\ \A it \in Range(stack) :
           it \in Range(stack') \/ (it.op = "Visit" /\ it.d \in visited_)
  <2>1. CASE VisitAgain
    <3>1. stack \in Seq(Item) /\ stack # <<>> /\ stack' = Tail(stack) /\ Top.op = "Visit"
          /\ Top.d \in visited_
      BY <2>1 DEF VisitAgain, IInv, TypeOK
    <3>2. Range(stack) = {Top} \cup Rest /\ Range(stack') = Rest
      BY <3>1, PopRange DEF Rest, Range
    <3> QED BY <3>1, <3>2
  <2>2. CASE UNCHANGED vars
    BY <2>2 DEF vars, Range
  <2> QED BY <2>1, <2>2
<1>4. /\ \A x : Kept(x)' <=> Kept(x)
      /\ \A x : KeptSomehow(x)' <=> KeptSomehow(x)
      /\ \A x : Awaited(x)' => Awaited(x)
      /\ \A x : Awaited(x) => Awaited(x)' \/ x \in visited_
  <2>1. \A x : Kept(x)' <=> Kept(x)
    BY <1>2, <1>3 DEF Kept
  <2>2. \A x : KeptSomehow(x)' <=> KeptSomehow(x)
    BY <1>2, <1>3 DEF KeptSomehow
  <2>3. /\ \A x : Awaited(x)' => Awaited(x)
        /\ \A x : Awaited(x) => Awaited(x)' \/ x \in visited_
    BY <1>3 DEF Awaited
  <2> QED BY <2>1, <2>2, <2>3
<1>5. LocalsInv'
  BY <1>1, <1>4 DEF MembersInv, LocalsInv
<1>6. FlagsInv'
  BY <1>1, <1>3 DEF MembersInv, FlagsInv, FileOnly
<1>7. ReachInv'
  BY <1>1, <1>4 DEF MembersInv, ReachInv
<1>8. OutlineInv'
  BY <1>1, <1>4 DEF MembersInv, OutlineInv, FileOnly
<1>9. MethodsInv'
  BY <1>1, <1>3, <1>4 DEF MembersInv, MethodsInv, Methods
<1> QED BY <1>5, <1>6, <1>7, <1>8, <1>9 DEF MembersInv

(***************************************************************************)
(* A handler: what it answers and what it adds.                            *)
(***************************************************************************)
\* Where a class, an owner or a member function may come from.
LEMMA CallSources ==
  ASSUME AstShape(ast), LocalsAreOwned(ast), ScopesNest(ast),
         NEW d \in Decl, NEW f \in Flags, NEW it \in CallsOf(d, f)
  PROVE  /\ it.op = "go" /\ ast.kind[it.d] \in EntityKinds => it.d = d /\ it.flags = f
         /\ it.op = "Visit" /\ FileOnly(it.d) =>
              ast.kind[d] \in FileKinds /\ it.flags = f /\ FileOnly(d)
         /\ \A c \in Decl : \A m \in Methods(c) :
              ast.kind[c] \in RecordKinds /\ it.op = "Visit" /\ it.d = m => d = c /\ it.flags = f
<1>1. ASSUME it.op = "go", ast.kind[it.d] \in EntityKinds PROVE it.d = d /\ it.flags = f
  <2>1. \A o \in Owners(ast) : it.d \notin Locals(ast, o)
    BY <1>1 DEF LocalsAreOwned, EntityKinds, RecordKinds, FunctionKinds
  <2>2. ast.kind[it.d] \notin {"FunctionTemplate", "VarTemplate"}
    BY <1>1 DEF EntityKinds, RecordKinds, FunctionKinds
  <2> QED BY <1>1, <2>1, <2>2 DEF CallsOf
<1>2. \/ it.d = ast.friendDecl[d] \/ it.d = ast.templated[d]
      \/ it.d \in Range(ast.specializations[d])
      => it.d \in Referred(ast)
  <2> DEFINE R(t) == Range(ast.specializations[t]) \cup {ast.templated[t], ast.friendDecl[t]}
  <2>1. Referred(ast) = UNION {R(t) : t \in Decl} /\ R(d) \in {R(t) : t \in Decl}
    BY DEF Referred
  <2>2. R(d) = Range(ast.specializations[d]) \cup {ast.templated[d], ast.friendDecl[d]}
    OBVIOUS
  <2> HIDE DEF R
  <2>3. R(d) \subseteq Referred(ast)
    BY <2>1
  <2> QED BY <2>2, <2>3
<1>3. ast.kind[d] \in RecordKinds /\ it.d \in Range(ast.members[d]) => it.d \in InClass(ast)
  BY DEF InClass
<1>4. ast.kind[d] \in FileKinds => FileOnly(d)
  BY DEF ScopesNest, FileOnly
<1>5. it.op = "Visit" =>
        \/ it.d \in Referred(ast)
        \/ /\ it.flags = f /\ it.d \in Range(ast.members[d])
           /\ ast.kind[d] \in FileKinds \cup RecordKinds
  <2> USE DEF FileKinds
  <2>1. it.op = "Visit" =>
          \/ it.flags = f /\ ast.kind[d] \in FileKinds \cup RecordKinds /\ it.d \in Range(ast.members[d])
          \/ it.d = ast.friendDecl[d] \/ it.d = ast.templated[d]
          \/ it.d \in Range(ast.specializations[d])
    BY DEF CallsOf
  <2> QED BY <1>2, <2>1
<1>6. ASSUME NEW c \in Decl, NEW m \in Methods(c), ast.kind[c] \in RecordKinds,
             it.op = "Visit", it.d = m
      PROVE  d = c /\ it.flags = f
  <2>1. m \notin Referred(ast) /\ \A o \in Decl \ {c} :
          ast.kind[o] \in FileKinds \cup RecordKinds => m \notin Range(ast.members[o])
    BY <1>6 DEF ScopesNest, Methods
  <2> QED BY <1>5, <1>6, <2>1
<1> QED BY <1>1, <1>3, <1>4, <1>5, <1>6 DEF FileOnly

\* The state after a handler, with the pending calls as a set.
LEMMA HandlerEffect ==
  ASSUME IInv, Next, ~VisitAgain, ~Go
  PROVE  \E todo \in Seq(CallsOf(Top.d, Top.flags)) :
           /\ Whole(todo, Top.d, Top.flags)
           /\ Range(todo) \subseteq CallsOf(Top.d, Top.flags)
           /\ Range(stack) = {Top} \cup Rest
           /\ Range(stack') = Range(todo) \cup Rest
           /\ Top.op = "Visit" /\ Top.d \in Decl /\ Top.flags \in Flags /\ Top.d \notin visited_
           /\ visited_' = visited_ \cup {Top.d}
           /\ UNCHANGED <<ast, templates_, filter_>>
           /\ Range(definitions_') = Range(definitions_) /\ Main' = Main
<1>1. PICK todo \in Seq(CallsOf(Top.d, Top.flags)) :
        Enter(Kinds, todo) /\ Whole(todo, Top.d, Top.flags)
  BY HandlerCalls
<1>2. stack \in Seq(Item) /\ stack # <<>> /\ stack' = todo \o Tail(stack) /\ UNCHANGED lists
  BY <1>1 DEF IInv, TypeOK, Enter
<1>3. Range(stack) = {Top} \cup Rest /\ Tail(stack) \in Seq(Item)
  BY <1>2, PopRange
<1>4. todo \in Seq(Item) /\ Range(todo) \subseteq CallsOf(Top.d, Top.flags)
  BY DEF CallsOf, Range
<1>5. Range(stack') = Range(todo) \cup Rest
  <2>1. Range(todo \o Tail(stack)) = Range(todo) \cup Range(Tail(stack))
    <3> HIDE DEF Rest
    <3>1. \A S : \A a, b \in Seq(S) : Range(a \o b) = Range(a) \cup Range(b)
      BY CallRanges
    <3> QED BY <1>3, <1>4, <3>1
  <2> QED BY <1>2, <2>1 DEF Rest
<1>6. Range(definitions_') = Range(definitions_)
  BY <1>2 DEF lists, Range
<1> QED BY <1>1, <1>3, <1>4, <1>5, <1>6, EnterPushes

\* A class is in the module only after its visit.
LEMMA KeptVisited ==
  ASSUME IInv, NEW c \in Decl, ast.kind[c] \in RecordKinds, KeptSomehow(c)
  PROVE  c \in visited_
<1>1. HomeVisited(ast, visited_, c)
  <2>1. CASE c \in Main
    BY <2>1 DEF IInv, PendingInv, Listed
  <2>2. CASE \E it \in Range(stack) : it.op = "go" /\ it.d = c
    BY <2>2 DEF IInv, PendingInv, PendingGo, Range
  <2> QED BY <2>1, <2>2 DEF KeptSomehow
<1>2. \A o \in Owners(ast) : c \notin Locals(ast, o)
  BY AstFacts DEF LocalsAreOwned, RecordKinds
<1> QED BY <1>1, <1>2 DEF HomeVisited

LEMMA MembersHandler ==
  IInv /\ EverythingKept /\ MembersInv /\ Next /\ ~VisitAgain /\ ~Go => MembersInv'
<1> SUFFICES ASSUME IInv, EverythingKept, MembersInv, Next, ~VisitAgain, ~Go PROVE MembersInv'
  OBVIOUS
<1> DEFINE d == Top.d
           f == Top.flags
<1>1. PICK todo \in Seq(CallsOf(d, f)) :
        /\ Whole(todo, d, f)
        /\ Range(todo) \subseteq CallsOf(d, f)
        /\ Range(stack) = {Top} \cup Rest
        /\ Range(stack') = Range(todo) \cup Rest
        /\ Top.op = "Visit" /\ d \in Decl /\ f \in Flags /\ d \notin visited_
        /\ visited_' = visited_ \cup {d}
        /\ UNCHANGED <<ast, templates_, filter_>>
        /\ Range(definitions_') = Range(definitions_) /\ Main' = Main
  BY HandlerEffect
<1>2. AstShape(ast) /\ LocalsAreOwned(ast) /\ ScopesNest(ast)
  BY AstFacts, ScopeAssumption DEF IInv
<1>3. filter_[d] = "DEFINITION"
  BY <1>1 DEF EverythingKept, IInv, TypeOK
<1> DEFINE T == Range(todo)
<1>4. \A it \in T :
        /\ it \in Item
        /\ it.op = "go" /\ ast.kind[it.d] \in EntityKinds => it.d = d /\ it.flags = f
        /\ it.op = "Visit" /\ FileOnly(it.d) =>
             ast.kind[d] \in FileKinds /\ it.flags = f /\ FileOnly(d)
        /\ \A c \in Decl : \A m \in Methods(c) :
             ast.kind[c] \in RecordKinds /\ it.op = "Visit" /\ it.d = m => d = c /\ it.flags = f
  <2>1. \A it \in T : it \in CallsOf(d, f) /\ it \in Item
    BY <1>1 DEF CallsOf
  <2> HIDE DEF d, f, T
  <2> QED BY <1>1, <1>2, <2>1, CallSources
<1>5. Whole(todo, d, f)
  BY <1>1
<1>6. /\ \A x : Kept(x)' <=> \/ Kept(x)
                             \/ \E it \in T : /\ it.op = "go" /\ it.d = x
                                              /\ ~it.flags.in_template /\ it.definition
      /\ \A x : KeptSomehow(x)' <=>
                  \/ KeptSomehow(x)
                  \/ \E it \in T : it.op = "go" /\ it.d = x /\ ~it.flags.in_template
      /\ \A x : Awaited(x)' => Awaited(x) \/ \E it \in T : it.op = "Visit" /\ it.d = x
      /\ \A x : Awaited(x) \/ (\E it \in T : it.op = "Visit" /\ it.d = x) => Awaited(x)' \/ x = d
      /\ Awaited(d)
  <2> HIDE DEF T
  <2>1. Range(stack') = T \cup Rest
    BY <1>1 DEF T
  <2>2. \A x : Kept(x)' <=> \/ Kept(x)
                            \/ \E it \in T : /\ it.op = "go" /\ it.d = x
                                             /\ ~it.flags.in_template /\ it.definition
    BY <1>1, <2>1 DEF Kept
  <2>3. \A x : KeptSomehow(x)' <=>
                  \/ KeptSomehow(x)
                  \/ \E it \in T : it.op = "go" /\ it.d = x /\ ~it.flags.in_template
    BY <1>1, <2>1 DEF KeptSomehow
  <2>4. /\ \A x : Awaited(x)' => Awaited(x) \/ \E it \in T : it.op = "Visit" /\ it.d = x
        /\ \A x : Awaited(x) \/ (\E it \in T : it.op = "Visit" /\ it.d = x) => Awaited(x)' \/ x = d
        /\ Awaited(d)
    BY <1>1, <2>1 DEF Awaited
  <2> QED BY <2>2, <2>3, <2>4
<1>7. \A x : /\ Visit(x, f).op = "Visit" /\ Visit(x, f).d = x /\ Visit(x, f).flags = f
             /\ go(x, f, TRUE).op = "go" /\ go(x, f, TRUE).d = x
             /\ go(x, f, TRUE).flags = f /\ go(x, f, TRUE).definition
             /\ go(x, f, FALSE).op = "go" /\ go(x, f, FALSE).d = x /\ go(x, f, FALSE).flags = f
  BY DEF Visit, go
<1>8. \A it \in T : it.op = "go" /\ it.d = d /\ it.flags = f /\ it.definition => it = go(d, f, TRUE)
  BY <1>4 DEF Item, go
<1>9. /\ visited_' = visited_ \cup {d} /\ d \in Decl /\ d \notin visited_ /\ f \in Flags
      /\ UNCHANGED <<ast, templates_, filter_>>
      /\ \A it \in Range(stack') : it \in T \/ it \in Range(stack)
      /\ Top \in Range(stack) /\ Top.op = "Visit" /\ Top.d = d /\ Top.flags = f
  BY <1>1
<1> HIDE DEF d, f, T
<1>10. /\ ast.kind[d] \in FileKinds => \A x \in Range(ast.members[d]) : Visit(x, f) \in T
       /\ ast.kind[d] \in RecordKinds /\ (\E it \in T : it.op = "go")
            => \A x \in Range(ast.members[d]) : Visit(x, f) \in T
       /\ ast.kind[d] \in FunctionKinds /\ d \notin ast.deleted /\ (templates_ \/ d \notin ast.dependent)
            => /\ ast.definition[d] = d => go(d, f, TRUE) \in T
               /\ ast.definition[d] = NoDecl /\ ast.previous[d] = NoDecl => go(d, f, FALSE) \in T
       /\ d \in Owners(ast) /\ go(d, f, TRUE) \in T
            => \A x \in Locals(ast, d) : go(x, f, TRUE) \in T
  BY <1>3, <1>5 DEF Whole, T
<1>11. ASSUME ~f.in_template, NEW x
       PROVE  /\ go(x, f, TRUE) \in T => Kept(x)'
              /\ go(x, f, FALSE) \in T => KeptSomehow(x)'
  <2>1. ASSUME go(x, f, TRUE) \in T PROVE Kept(x)'
    <3>1. \E it \in T : it.op = "go" /\ it.d = x /\ ~it.flags.in_template /\ it.definition
      <4> WITNESS go(x, f, TRUE) \in T
      <4> QED BY <1>7, <1>11
    <3> QED BY <1>6, <3>1
  <2>2. ASSUME go(x, f, FALSE) \in T PROVE KeptSomehow(x)'
    <3>1. \E it \in T : it.op = "go" /\ it.d = x /\ ~it.flags.in_template
      <4> WITNESS go(x, f, FALSE) \in T
      <4> QED BY <1>7, <1>11
    <3> QED BY <1>6, <3>1
  <2> QED BY <2>1, <2>2
<1>12. LocalsInv'
  <2> SUFFICES ASSUME NEW c \in Owners(ast), Kept(c)', NEW m \in Locals(ast, c) PROVE Kept(m)'
    BY <1>9 DEF LocalsInv
  <2>1. CASE Kept(c)
    BY <1>6, <2>1 DEF MembersInv, LocalsInv
  <2>2. CASE ~Kept(c)
    <3>1. PICK it \in T : it.op = "go" /\ it.d = c /\ ~it.flags.in_template /\ it.definition
      BY <1>6, <2>2
    <3>2. c = d /\ it.flags = f
      BY <1>4, <3>1 DEF Owners, EntityKinds
    <3>3. go(d, f, TRUE) \in T /\ ~f.in_template
      BY <1>8, <3>1, <3>2
    <3>4. go(m, f, TRUE) \in T
      BY <1>10, <3>2, <3>3
    <3> QED BY <1>11, <3>3, <3>4
  <2> QED BY <2>1, <2>2
<1>13. FlagsInv'
  <2> SUFFICES ASSUME NEW it \in Range(stack'), it.op = "Visit", FileOnly(it.d)
               PROVE  it.flags = NoFlags
    BY <1>9 DEF FlagsInv, FileOnly
  <2>1. CASE it \in T
    BY <1>4, <1>9, <2>1 DEF MembersInv, FlagsInv
  <2>2. CASE it \in Range(stack)
    BY <2>2 DEF MembersInv, FlagsInv
  <2> QED BY <1>9, <2>1, <2>2
<1>14. ReachInv'
  <2> SUFFICES ASSUME NEW n \in visited_ \cup {d, TU}, n = TU \/ ast.kind[n] \in FileKinds,
                      NEW x \in Range(ast.members[n])
               PROVE  x \in visited_' \/ Awaited(x)'
    BY <1>9 DEF ReachInv
  <2>1. CASE n \in visited_ \cup {TU}
    BY <1>6, <1>9, <2>1 DEF MembersInv, ReachInv
  <2>2. CASE n = d /\ n \notin visited_ \cup {TU}
    <3>1. Visit(x, f) \in T
      BY <1>10, <2>2
    <3> QED BY <1>6, <1>7, <1>9, <3>1
  <2> QED BY <2>1, <2>2
<1>15. OutlineInv'
  <2> SUFFICES ASSUME NEW e \in (visited_ \cup {d}) \ ast.deleted, FileOnly(e),
                      ast.kind[e] \in FunctionKinds, ast.definition[e] = e,
                      templates_ \/ e \notin ast.dependent
               PROVE  Kept(e)'
    BY <1>9 DEF OutlineInv, FileOnly
  <2>1. CASE e \in visited_
    BY <1>6, <2>1 DEF MembersInv, OutlineInv
  <2>2. CASE e = d
    <3>1. f = NoFlags
      BY <1>9, <2>2 DEF MembersInv, FlagsInv
    <3>2. go(d, f, TRUE) \in T
      BY <1>10, <2>2
    <3> QED BY <1>11, <2>2, <3>1, <3>2 DEF NoFlags
  <2> QED BY <2>1, <2>2
<1>16. MethodsInv'
  <2> SUFFICES ASSUME NEW c \in Decl, ast.kind[c] \in RecordKinds,
                      templates_ \/ c \notin ast.dependent, NEW m \in Methods(c)
               PROVE  /\ m \in visited_' \/ Awaited(m)' => c \in visited_'
                      /\ KeptSomehow(c)' => m \in visited_' \/ Awaited(m)'
                      /\ KeptSomehow(c)' => \A it \in Range(stack') :
                                       it.op = "Visit" /\ it.d = m => ~it.flags.in_template
                      /\ KeptSomehow(c)' /\ m \in visited_' /\ ast.definition[m] = m => Kept(m)'
                      /\ KeptSomehow(c)' /\ m \in visited_' /\ ast.definition[m] = NoDecl => KeptSomehow(m)'
    BY <1>9 DEF MethodsInv, Methods
  <2>1. /\ m \in visited_ \/ Awaited(m) => c \in visited_
        /\ KeptSomehow(c) => m \in visited_ \/ Awaited(m)
        /\ KeptSomehow(c) => \A it \in Range(stack) : it.op = "Visit" /\ it.d = m => ~it.flags.in_template
        /\ KeptSomehow(c) /\ m \in visited_ /\ ast.definition[m] = m => Kept(m)
        /\ KeptSomehow(c) /\ m \in visited_ /\ ast.definition[m] = NoDecl => KeptSomehow(m)
    BY DEF MembersInv, MethodsInv
  <2>2. m \in visited_' \/ Awaited(m)' => c \in visited_'
    BY <1>4, <1>6, <1>9, <2>1
  <2>3. \A it \in T : it.op = "go" /\ it.d = c => c = d /\ it.flags = f
    BY <1>4 DEF EntityKinds
  <2>4. CASE KeptSomehow(c)
    <3>1. c # d
      BY <1>9, <2>4, KeptVisited
    <3>2. m \in visited_' \/ Awaited(m)'
      BY <1>6, <1>9, <2>1, <2>4
    <3>3. \A it \in Range(stack') : it.op = "Visit" /\ it.d = m => ~it.flags.in_template
      BY <1>4, <1>9, <2>1, <2>4, <3>1
    <3>4. ASSUME m = d
          PROVE  /\ ast.definition[m] = m => Kept(m)'
                 /\ ast.definition[m] = NoDecl => KeptSomehow(m)'
      <4>1. ~f.in_template
        BY <1>9, <2>1, <2>4, <3>4
      <4>2. /\ ast.kind[d] \in FunctionKinds /\ d \notin ast.deleted
            /\ ast.previous[d] = NoDecl /\ (d \in ast.dependent => c \in ast.dependent)
        BY <1>2, <3>4 DEF Methods, ScopesNest
      <4>3. /\ ast.definition[d] = d => go(d, f, TRUE) \in T
            /\ ast.definition[d] = NoDecl => go(d, f, FALSE) \in T
        BY <1>10, <4>2
      <4> QED BY <1>11, <3>4, <4>1, <4>3
    <3>5. /\ m \in visited_' /\ ast.definition[m] = m => Kept(m)'
          /\ m \in visited_' /\ ast.definition[m] = NoDecl => KeptSomehow(m)'
      BY <1>6, <1>9, <2>1, <2>4, <3>4
    <3> QED BY <2>2, <3>2, <3>3, <3>5
  <2>5. CASE KeptSomehow(c)' /\ ~KeptSomehow(c)
    <3>1. PICK it \in T : it.op = "go" /\ it.d = c /\ ~it.flags.in_template
      BY <1>6, <2>5
    <3>2. c = d /\ ~f.in_template
      BY <2>3, <3>1
    <3>3. m \notin visited_ /\ ~Awaited(m) /\ m # d
      BY <1>6, <1>9, <2>1, <3>2
    <3>4. Visit(m, f) \in T
      BY <1>10, <3>1, <3>2 DEF Methods
    <3>5. Awaited(m)'
      BY <1>6, <1>7, <3>3, <3>4
    <3>6. \A x \in Range(stack') : x.op = "Visit" /\ x.d = m => ~x.flags.in_template
      BY <1>4, <1>9, <3>2, <3>3 DEF Awaited
    <3> QED BY <1>9, <2>2, <3>3, <3>5, <3>6
  <2> QED BY <2>2, <2>4, <2>5
<1> QED BY <1>12, <1>13, <1>14, <1>15, <1>16 DEF MembersInv

LEMMA MembersInit == Init => MembersInv
<1> SUFFICES ASSUME Init PROVE MembersInv
  OBVIOUS
<1>1. ast.members[TU] \in Seq(Decl)
  BY AstAssumption, ConstantAssumption DEF Init, AstShape
<1>2. /\ Range(definitions_) = {} /\ Main = {} /\ visited_ = {}
      /\ Range(stack) = {Visit(x, NoFlags) : x \in Range(ast.members[TU])}
  BY <1>1, CallRanges DEF Init, Main
<1>3. \A x : /\ Visit(x, NoFlags).op = "Visit" /\ Visit(x, NoFlags).d = x
             /\ Visit(x, NoFlags).flags = NoFlags
  BY DEF Visit
<1>4. /\ \A x : ~Kept(x)
      /\ \A x : ~KeptSomehow(x)
      /\ \A x : Awaited(x) <=> x \in Range(ast.members[TU])
  BY <1>2, <1>3 DEF Kept, KeptSomehow, Awaited
<1>5. LocalsInv
  BY <1>4 DEF LocalsInv
<1>6. FlagsInv
  BY <1>2, <1>3 DEF FlagsInv
<1>7. ReachInv
  BY <1>2, <1>4 DEF ReachInv
<1>8. OutlineInv
  BY <1>2 DEF OutlineInv
<1>9. MethodsInv
  <2>1. \A c \in Decl : ast.kind[c] \in RecordKinds =>
          \A m \in Methods(c) : m \notin Range(ast.members[TU])
    BY ScopeAssumption DEF Init, ScopesNest, Methods
  <2> QED BY <1>2, <1>4, <2>1 DEF MethodsInv
<1> QED BY <1>5, <1>6, <1>7, <1>8, <1>9 DEF MembersInv

LEMMA MembersStep == EverythingKept /\ IInv /\ MembersInv /\ [Next]_vars => MembersInv'
  BY MembersGo, MembersAgain, MembersHandler

(***************************************************************************)
(* The end of the traversal.                                               *)
(***************************************************************************)
\* Everything in a namespace has been visited.
LEMMA FileVisited ==
  ASSUME IInv, ReachInv, Done
  PROVE  InFile(ast) \subseteq visited_
<1>1. \A x : ~Awaited(x)
  BY DEF Done, Awaited, Range
<1>2. visited_ \in SUBSET Decl
  BY DEF IInv, TypeOK
<1>3. Range(ast.members[TU]) \subseteq visited_
  BY <1>1 DEF ReachInv
<1>4. \A n \in visited_ : ast.kind[n] \in FileKinds => Range(ast.members[n]) \subseteq visited_
  BY <1>1 DEF ReachInv
<1> QED BY <1>2, <1>3, <1>4 DEF InFile

\* The member functions of a class of the module are in the module.
LEMMA MethodsAtEnd ==
  ASSUME IInv, MembersInv, Done, NEW c \in Main, ast.kind[c] \in RecordKinds,
         templates_ \/ c \notin ast.dependent, NEW m \in Methods(c)
  PROVE  /\ m \in Decl /\ ast.canonical[m] = m
         /\ IF ast.definition[m] = NoDecl
            THEN m \in Main
            ELSE /\ ast.definition[m] \in Range(definitions_)
                 /\ ast.definition[m] \in Decl /\ ast.canonical[ast.definition[m]] = m
<1>1. AstShape(ast) /\ ChainsAgree(ast) /\ ScopesNest(ast)
  BY AstFacts, ScopeAssumption DEF IInv
<1>2. c \in Decl /\ ast.members[c] \in Seq(Decl)
  BY <1>1 DEF IInv, TypeOK, Range, Main, AstShape
<1>3. m \in Decl /\ m \in Range(ast.members[c]) /\ ast.kind[m] \in FunctionKinds
  BY <1>2 DEF Range, Methods
<1>4. /\ KeptSomehow(c)
      /\ \A x : ~Awaited(x)
      /\ \A x : Kept(x) => x \in Range(definitions_)
      /\ \A x : KeptSomehow(x) => x \in Main
  BY DEF Done, Kept, KeptSomehow, Awaited, Range
<1>5. /\ m \in visited_
      /\ ast.definition[m] = m => Kept(m)
      /\ ast.definition[m] = NoDecl => KeptSomehow(m)
  BY <1>2, <1>4 DEF MembersInv, MethodsInv
<1>6. /\ ast.previous[m] = NoDecl
      /\ ast.definition[m] \in ast.dependent => c \in ast.dependent
      /\ ast.definition[m] \notin {m, NoDecl} =>
           ast.definition[m] \in InFile(ast) \ (Referred(ast) \cup InClass(ast) \cup ast.deleted)
  BY <1>1, <1>2, <1>3 DEF ScopesNest
<1>7. ast.canonical[m] = m
  BY <1>1, <1>3, <1>6 DEF ChainsAgree
<1>8. CASE ast.definition[m] \notin {m, NoDecl}
  <2> DEFINE e == ast.definition[m]
  <2>1. e \in Decl
    BY <1>1, <1>3, <1>8 DEF AstShape
  <2>2. ast.canonical[e] = ast.canonical[m]
    BY <1>1, <1>3, <1>8 DEF ChainsAgree
  <2>3. ast.definition[e] = e /\ ast.kind[e] \in FunctionKinds
    BY <1>1, <1>3, <2>1, <2>2 DEF ChainsAgree
  <2>4. e \in visited_ \ ast.deleted /\ FileOnly(e)
    BY <1>6, <1>8, FileVisited DEF MembersInv, FileOnly
  <2>5. templates_ \/ e \notin ast.dependent
    BY <1>6
  <2>6. Kept(e)
    BY <2>3, <2>4, <2>5 DEF MembersInv, OutlineInv
  <2> QED BY <1>3, <1>4, <1>7, <1>8, <2>1, <2>2, <2>6
<1>9. CASE ast.definition[m] = m
  <2>1. m # NoDecl
    BY <1>3, ConstantAssumption
  <2> QED BY <1>3, <1>4, <1>5, <1>7, <1>9, <2>1
<1>10. CASE ast.definition[m] = NoDecl
  BY <1>3, <1>4, <1>5, <1>7, <1>10
<1> QED BY <1>8, <1>9, <1>10

\* So are the enumerators and the static locals.
LEMMA LocalsAtEnd ==
  ASSUME IInv, KindsInv, MembersInv, Done, NEW c \in Range(definitions_),
         ast.kind[c] \notin RecordKinds, NEW m \in Range(ast.members[c])
  PROVE  m \in Range(definitions_)
<1>1. ScopesNest(ast)
  BY ScopeAssumption DEF IInv
<1>2. c \in Decl /\ c \in Main /\ ast.members[c] # <<>>
  BY DEF IInv, TypeOK, Range, Main
<1>3. ast.kind[c] \in FileKinds \cup FunctionKinds \cup {"Enum"}
  BY <1>1, <1>2 DEF ScopesNest
<1>4. ast.kind[c] \in GoKinds
  BY <1>2 DEF KindsInv
<1>5. c \in Owners(ast)
  BY <1>2, <1>3, <1>4 DEF Owners, FileKinds, GoKinds, EntityKinds, RecordKinds, FunctionKinds
<1>6. Kept(c)
  BY DEF Kept
<1>7. Kept(m)
  BY <1>5, <1>6 DEF MembersInv, LocalsInv, Locals
<1> QED BY <1>7 DEF Done, Kept, Range

LEMMA MembersAtEnd == IInv /\ KindsInv /\ MembersInv => MembersRecorded
<1> SUFFICES ASSUME IInv, KindsInv, MembersInv, Done,
                    NEW c \in Range(definitions_), NEW m \in Range(ast.members[c])
             PROVE  CASE ast.kind[c] \in RecordKinds ->
                           /\ ast.kind[m] \in FunctionKinds /\ m \notin ast.deleted
                           /\ templates_ \/ c \notin ast.dependent
                           => IF ast.definition[m] = NoDecl
                              THEN ast.canonical[m] \in Main
                              ELSE ast.definition[m] \in Range(definitions_)
                      [] OTHER -> m \in Range(definitions_)
  BY DEF MembersRecorded
<1>1. c \in Main
  BY DEF Main
<1>2. ASSUME ast.kind[c] \in RecordKinds, ast.kind[m] \in FunctionKinds, m \notin ast.deleted,
             templates_ \/ c \notin ast.dependent
      PROVE  IF ast.definition[m] = NoDecl THEN ast.canonical[m] \in Main
                                           ELSE ast.definition[m] \in Range(definitions_)
  <2>1. m \in Methods(c)
    BY <1>2 DEF Methods
  <2> QED BY <1>1, <1>2, <2>1, MethodsAtEnd
<1> QED BY <1>2, LocalsAtEnd

\* When everything is kept, the traversal ends with the members of a class, the
\* enumerators of an enum and the static locals of a function in the module,
\* for every AST: the visitor reaches a member function through its class even
\* when its definition stands elsewhere, and that definition through the
\* namespaces.
THEOREM MembersAreRecorded == EverythingKept => (Spec => []MembersRecorded)
<1> SUFFICES ASSUME EverythingKept PROVE Spec => []MembersRecorded
  OBVIOUS
<1>1. IInv /\ MembersInv /\ [Next]_vars => MembersInv'
  BY MembersStep
<1> QED BY <1>1, InitEstablishes, NextPreserves, KindsInit, KindsStep, MembersInit,
           MembersAtEnd, PTL DEF Spec

(***************************************************************************)
(* The instances of class templates.  A declaration is visited once, so an *)
(* instance is listed with the templates only if its first visit comes     *)
(* from its template.  The stack shows why it does: under the calls of one *)
(* visit are the calls of the file, in its order, and what the visit of a  *)
(* call leads to is visited before the next call of the file.              *)
(***************************************************************************)
(***************************************************************************)
(* Instances.  The order of the source, and what is reached.               *)
(***************************************************************************)
\* What is inside a declaration that is no namespace is the declaration.
LEMMA InsideSplit ==
  ASSUME NEW a, AstShape(a), NEW n \in Decl
  PROVE  /\ n \in Inside(a, n)
         /\ \A x \in Inside(a, n) :
              x = n \/ (a.kind[n] \in FileKinds /\ \E y \in Range(a.members[n]) : x \in Inside(a, y))
<1>1. n \in Inside(a, n)
  BY DEF Inside
<1>2. a.members[n] \in Seq(Decl)
  BY DEF AstShape
<1>3. Range(a.members[n]) \subseteq Decl
  BY <1>2 DEF Range
<1>4. CASE a.kind[n] \notin FileKinds
  <2>1. {n} \in SUBSET Decl
    OBVIOUS
  <2> QED BY <1>1, <1>4, <2>1 DEF Inside
<1>5. CASE a.kind[n] \in FileKinds
  <2> DEFINE S == {n} \cup {x \in Decl : \E y \in Range(a.members[n]) : x \in Inside(a, y)}
  <2>1. S \in SUBSET Decl /\ n \in S
    OBVIOUS
  <2>2. ASSUME NEW k \in S, a.kind[k] \in FileKinds PROVE Range(a.members[k]) \subseteq S
    <3>1. CASE k = n
      <4>1. \A y \in Range(a.members[n]) : y \in Inside(a, y)
        BY <1>3 DEF Inside
      <4> QED BY <1>3, <3>1, <4>1
    <3>2. CASE k # n
      <4>1. PICK y \in Range(a.members[n]) : k \in Inside(a, y)
        BY <3>2
      <4>2. Range(a.members[k]) \subseteq Inside(a, y)
        <5>1. k \in Decl
          BY <2>1
        <5>2. a.members[k] \in Seq(Decl)
          BY <5>1 DEF AstShape
        <5>3. Range(a.members[k]) \subseteq Decl
          BY <5>2 DEF Range
        <5> QED BY <2>2, <4>1, <5>3 DEF Inside
      <4>3. Inside(a, y) \subseteq Decl
        BY DEF Inside
      <4> QED BY <4>1, <4>2, <4>3
    <3> QED BY <3>1, <3>2
  <2>3. \A x \in Inside(a, n) : x \in S
    <3> HIDE DEF S
    <3> QED BY <2>1, <2>2 DEF Inside
  <2> QED BY <1>1, <1>5, <2>3
<1> QED BY <1>4, <1>5

\* What is inside a member of a namespace is inside the namespace.
LEMMA InsideMember ==
  ASSUME NEW a, AstShape(a), NEW n \in Decl, a.kind[n] \in FileKinds, NEW y \in Range(a.members[n])
  PROVE  Inside(a, y) \subseteq Inside(a, n)
  BY DEF Inside

\* What the file has is inside one of its members.
LEMMA InFileSplit ==
  ASSUME NEW a, AstShape(a), NEW x \in InFile(a)
  PROVE  \E y \in Range(a.members[TU]) : x \in Inside(a, y)
<1> DEFINE S == {z \in Decl : \E y \in Range(a.members[TU]) : z \in Inside(a, y)}
<1>1. S \in SUBSET Decl
  OBVIOUS
<1>2. Range(a.members[TU]) \subseteq S
  <2>1. a.members[TU] \in Seq(Decl)
    BY DEF AstShape
  <2>2. Range(a.members[TU]) \subseteq Decl
    BY <2>1 DEF Range
  <2>3. \A y \in Decl : y \in Inside(a, y)
    BY DEF Inside
  <2> QED BY <2>2, <2>3
<1>3. ASSUME NEW k \in S, a.kind[k] \in FileKinds PROVE Range(a.members[k]) \subseteq S
  <2>1. PICK y \in Range(a.members[TU]) : k \in Inside(a, y)
    OBVIOUS
  <2>2. a.members[k] \in Seq(Decl)
    BY DEF AstShape
  <2>3. Range(a.members[k]) \subseteq Decl
    BY <2>2 DEF Range
  <2>4. Range(a.members[k]) \subseteq Inside(a, y)
    BY <1>3, <2>1, <2>3 DEF Inside
  <2> QED BY <2>1, <2>3, <2>4
<1> HIDE DEF S
<1>4. x \in S
  BY <1>1, <1>2, <1>3 DEF InFile
<1> QED BY <1>4 DEF S

\* What the visitor starts with, and what it calls.
LEMMA ReachedClosed ==
  ASSUME NEW a, AstShape(a)
  PROVE  /\ Range(a.members[TU]) \subseteq Reached(a)
         /\ \A x \in Reached(a) : Called(a, x) \subseteq Reached(a)
<1>1. a.members[TU] \in Seq(Decl)
  BY DEF AstShape
<1>2. Range(a.members[TU]) \subseteq Decl
  BY <1>1 DEF Range
<1>3. \A x \in Decl : Called(a, x) \subseteq Decl
  <2> SUFFICES ASSUME NEW x \in Decl PROVE Called(a, x) \subseteq Decl
    OBVIOUS
  <2>1. /\ a.members[x] \in Seq(Decl) /\ a.specializations[x] \in Seq(Decl)
        /\ {a.templated[x], a.friendDecl[x]} \subseteq Decl \cup {NoDecl}
    BY DEF AstShape
  <2>2. Range(a.members[x]) \subseteq Decl /\ Range(a.specializations[x]) \subseteq Decl
    BY <2>1 DEF Range
  <2> QED BY <2>1, <2>2 DEF Called
<1>4. Range(a.members[TU]) \subseteq Reached(a)
  BY <1>2 DEF Reached
<1>5. \A x \in Reached(a) : Called(a, x) \subseteq Reached(a)
  BY <1>3 DEF Reached
<1> QED BY <1>4, <1>5

\* What an instance is.
LEMMA InstanceIs ==
  ASSUME NEW a, NEW s \in Instances(a)
  PROVE  /\ s \in Decl /\ a.kind[s] = "ClassTemplateSpecialization" /\ a.definition[s] = s
  BY DEF Instances

\* The calls of a handler in their order, where that matters.
Exact(todo, d, f) ==
  /\ ast.kind[d] \in FileKinds => todo = VisitEach(ast.members[d], f)
  /\ ast.kind[d] \in RecordKinds /\ SkipRecord(d, f) => todo = <<>>
  /\ ast.kind[d] \in RecordKinds /\ ~SkipRecord(d, f) =>
       \E g \in Seq(CallsOf(d, f)) :
         /\ todo = VisitEach(ast.members[d], f) \o g
         /\ \A it \in Range(g) : it.op = "go"
         /\ ast.definition[d] = d => go(d, f, TRUE) \in Range(g)
  /\ ast.kind[d] \in TemplateKinds =>
       \A s \in Range(ast.specializations[d]) : Visit(s, set_specialization(f)) \in Range(todo)
  /\ ast.kind[d] = "Friend" /\ ast.friendDecl[d] # NoDecl => Visit(ast.friendDecl[d], f) \in Range(todo)

\* Nothing is asked of the other handlers.
LEMMA ExactOther ==
  ASSUME NEW d, NEW f, NEW todo, NEW k, ast.kind[d] = k,
         k \notin FileKinds \cup RecordKinds \cup TemplateKinds \cup {"Friend"}
  PROVE  Exact(todo, d, f)
  BY DEF Exact

\* Every step other than go and a second visit runs one handler, which makes
\* its calls in this order.
LEMMA HandlerExact ==
  ASSUME IInv, Next, ~VisitAgain, ~Go
  PROVE  \E todo \in Seq(CallsOf(Top.d, Top.flags)) : Enter(Kinds, todo) /\ Exact(todo, Top.d, Top.flags)
<1> DEFINE S == CallsOf(Top.d, Top.flags)
<1>1. ASSUME NEW kinds \in SUBSET Kinds, NEW todo, Enter(kinds, todo)
      PROVE  /\ AstShape(ast) /\ Top.d \in Decl /\ Top.flags \in Flags /\ ast.kind[Top.d] \in kinds
             /\ Enter(Kinds, todo)
  <2>1. /\ Top.d \in Decl /\ Top.flags \in Flags /\ ast.kind[Top.d] \in kinds
    BY <1>1, Entered
  <2> QED BY <1>1, <2>1, AstFacts DEF Enter
<1> USE DEF Handle
<1>2. CASE VisitNamespaceDecl \/ VisitLinkageSpecDecl
  <2> DEFINE todo == VisitEach(ast.members[Top.d], Top.flags)
  <2>1. Enter({"Namespace"}, todo) \/ Enter({"LinkageSpec"}, todo)
    BY <1>2 DEF VisitNamespaceDecl, VisitLinkageSpecDecl
  <2> HIDE DEF todo
  <2>2. /\ AstShape(ast) /\ Top.d \in Decl /\ Top.flags \in Flags
        /\ ast.kind[Top.d] \in {"Namespace", "LinkageSpec"} /\ Enter(Kinds, todo)
    BY <1>1, <2>1 DEF Kinds
  <2>3. todo \in Seq(S)
    BY <2>2, EachCall DEF todo
  <2>4. Exact(todo, Top.d, Top.flags)
    BY <2>2 DEF Exact, todo, FileKinds, RecordKinds, TemplateKinds
  <2> QED BY <2>2, <2>3, <2>4
<1>3. CASE VisitCXXRecordDecl
  <2> DEFINE v == VisitEach(ast.members[Top.d], Top.flags)
             g == VisitTagDecl(Top.d, Top.flags)
             todo == IF SkipRecord(Top.d, Top.flags) THEN <<>> ELSE v \o g
  <2>1. Enter(RecordKinds, todo)
    BY <1>3 DEF VisitCXXRecordDecl
  <2>2. /\ AstShape(ast) /\ Top.d \in Decl /\ Top.flags \in Flags
        /\ ast.kind[Top.d] \in RecordKinds /\ Enter(Kinds, todo)
    BY <1>1, <2>1 DEF Kinds, RecordKinds
  <2>3. v \in Seq(S)
    BY <2>2, EachCall
  <2>4. g \in Seq(S)
    <3>1. \A def \in BOOLEAN : <<go(Top.d, Top.flags, def)>> \in Seq(S)
      BY <2>2, OneCall, CallSeqs DEF GoKinds, EntityKinds
    <3> QED BY <3>1, CallSeqs DEF VisitTagDecl
  <2>5. /\ \A it \in Range(g) : it.op = "go"
        /\ ast.definition[Top.d] = Top.d => go(Top.d, Top.flags, TRUE) \in Range(g)
    <3>1. /\ \A def : Range(<<go(Top.d, Top.flags, def)>>) = {go(Top.d, Top.flags, def)}
          /\ \A def : go(Top.d, Top.flags, def).op = "go"
          /\ Range(<<>>) = {}
      BY CallRanges DEF go
    <3>2. PICK a, b : a = <<go(Top.d, Top.flags, TRUE)>> /\ b = <<go(Top.d, Top.flags, FALSE)>>
      OBVIOUS
    <3>3. Top.d # NoDecl
      BY <2>2, ConstantAssumption
    <3>4. ast.definition[Top.d] = Top.d => g = a
      BY <3>2, <3>3 DEF VisitTagDecl
    <3>5. ast.definition[Top.d] # Top.d /\ ast.definition[Top.d] = NoDecl /\ ast.previous[Top.d] = NoDecl => g = b
      BY <3>2, <3>3 DEF VisitTagDecl
    <3>6. ast.definition[Top.d] # Top.d /\ ~(ast.definition[Top.d] = NoDecl /\ ast.previous[Top.d] = NoDecl) => g = <<>>
      BY <3>2, <3>3 DEF VisitTagDecl
    <3>7. g = a \/ g = b \/ g = <<>>
      BY <3>4, <3>5, <3>6
    <3> HIDE DEF g
    <3> QED BY <3>1, <3>2, <3>7, <3>4
  <2> HIDE DEF v, g
  <2>6. todo \in Seq(S)
    BY <2>3, <2>4, CallSeqs
  <2>7. Exact(todo, Top.d, Top.flags)
    <3>1. \A q \in {v \o g} : q = VisitEach(ast.members[Top.d], Top.flags) \o g
      BY DEF v
    <3> HIDE DEF todo
    <3>2. /\ SkipRecord(Top.d, Top.flags) => todo = <<>>
          /\ ~SkipRecord(Top.d, Top.flags) => todo = VisitEach(ast.members[Top.d], Top.flags) \o g
      BY <3>1 DEF todo
    <3>3. ast.kind[Top.d] \notin FileKinds \cup TemplateKinds \cup {"Friend"}
      BY <2>2 DEF RecordKinds, FileKinds, TemplateKinds
    <3> QED BY <2>4, <2>5, <3>2, <3>3 DEF Exact
  <2> QED BY <2>2, <2>6, <2>7
<1>4. ASSUME NEW k \in TemplateKinds, NEW self, Enter({k}, TemplateThenSpecializations(self)),
              AstShape(ast) /\ Top.d \in Decl /\ Top.flags \in Flags
                /\ ast.kind[Top.d] = k /\ templates_ => self \in Seq(S)
       PROVE  \E todo \in Seq(S) : Enter(Kinds, todo) /\ Exact(todo, Top.d, Top.flags)
  <2> DEFINE todo == TemplateThenSpecializations(self)
             first == IF templates_ THEN self ELSE <<>>
             rest == VisitEach(ast.specializations[Top.d], set_specialization(Top.flags))
  <2>1. /\ AstShape(ast) /\ Top.d \in Decl /\ Top.flags \in Flags
        /\ ast.kind[Top.d] = k /\ Enter(Kinds, todo)
    BY <1>1, <1>4 DEF Kinds, TemplateKinds
  <2>2. rest \in Seq(S)
    BY <1>4, <2>1, EachCall
  <2>3. first \in Seq(S)
    BY <1>4, <2>1, CallSeqs
  <2>4. todo = first \o rest
    BY DEF TemplateThenSpecializations
  <2>5. Range(rest) = {Visit(x, set_specialization(Top.flags)) : x \in Range(ast.specializations[Top.d])}
    BY <2>1, CallRanges DEF AstShape
  <2> HIDE DEF first, rest, todo
  <2>6. todo \in Seq(S) /\ Range(todo) = Range(first) \cup Range(rest)
    BY <2>2, <2>3, <2>4, CallSeqs, CallRanges
  <2>7. ast.kind[Top.d] \notin FileKinds \cup RecordKinds \cup {"Friend"}
    BY <1>4, <2>1 DEF RecordKinds, FileKinds, TemplateKinds
  <2>8. Exact(todo, Top.d, Top.flags)
    BY <2>5, <2>6, <2>7 DEF Exact
  <2> QED BY <2>1, <2>6, <2>8
<1>5. CASE VisitClassTemplateDecl
  <2> DEFINE self == <<Visit(ast.templated[Top.d], set_template(Top.flags))>>
  <2>1. Enter({"ClassTemplate"}, TemplateThenSpecializations(self))
    BY <1>5 DEF VisitClassTemplateDecl
  <2>2. AstShape(ast) /\ Top.d \in Decl /\ Top.flags \in Flags
          /\ ast.kind[Top.d] = "ClassTemplate" /\ templates_ => self \in Seq(S)
    BY OneCall, CallSeqs
  <2> HIDE DEF self
  <2> QED BY <1>4, <2>1, <2>2 DEF TemplateKinds
<1>6. CASE VisitFunctionTemplateDecl \/ VisitVarTemplateDecl
  <2> DEFINE self == <<go(Top.d, set_template(Top.flags), TRUE)>>
  <2>1. PICK k \in {"FunctionTemplate", "VarTemplate"} : Enter({k}, TemplateThenSpecializations(self))
    BY <1>6 DEF VisitFunctionTemplateDecl, VisitVarTemplateDecl
  <2>2. AstShape(ast) /\ Top.d \in Decl /\ Top.flags \in Flags
          /\ ast.kind[Top.d] = k /\ templates_ => self \in Seq(S)
    BY OneCall, CallSeqs
  <2> HIDE DEF self
  <2> QED BY <1>4, <2>1, <2>2 DEF TemplateKinds
<1>7. CASE VisitFriendDecl
  <2> DEFINE todo == IF ast.friendDecl[Top.d] = NoDecl THEN <<>>
                     ELSE <<Visit(ast.friendDecl[Top.d], Top.flags)>>
  <2>1. Enter({"Friend"}, todo)
    BY <1>7 DEF VisitFriendDecl
  <2>2. ast.friendDecl[Top.d] # NoDecl => Visit(ast.friendDecl[Top.d], Top.flags) \in Range(todo)
    BY CallRanges
  <2> HIDE DEF todo
  <2>3. /\ AstShape(ast) /\ Top.d \in Decl /\ Top.flags \in Flags
        /\ ast.kind[Top.d] = "Friend" /\ Enter(Kinds, todo)
    BY <1>1, <2>1 DEF Kinds
  <2>4. todo \in Seq(S)
    BY <2>3, OneCall, CallSeqs DEF todo
  <2>5. Exact(todo, Top.d, Top.flags)
    BY <2>2, <2>3 DEF Exact, FileKinds, RecordKinds, TemplateKinds
  <2> QED BY <2>3, <2>4, <2>5
<1>8. CASE \/ VisitEnumDecl \/ VisitTypedefNameDecl \/ VisitVarDecl \/ VisitFunctionDecl \/ VisitCXXMethodDecl
           \/ VisitCXXConstructorDecl \/ VisitCXXDestructorDecl \/ VisitStaticAssertDecl \/ VisitIgnored
  <2>1. ast.kind[Top.d] \notin FileKinds \cup RecordKinds \cup TemplateKinds \cup {"Friend"}
    BY <1>8 DEF Enter, VisitEnumDecl, VisitTypedefNameDecl, VisitVarDecl, VisitFunctionDecl, VisitCXXMethodDecl,
       VisitCXXConstructorDecl, VisitCXXDestructorDecl, VisitStaticAssertDecl, VisitIgnored, VisitMember, VisitDeleted,
       FileKinds, RecordKinds, TemplateKinds
  <2>2. PICK todo \in Seq(S) : Enter(Kinds, todo)
    BY HandlerCalls
  <2> QED BY <2>1, <2>2, ExactOther
<1> QED
  BY <1>2, <1>3, <1>5, <1>6, <1>7, <1>8 DEF Next

\* The top of the stack is replaced by the calls todo.
Shifted(todo) ==
  /\ 1 \in DOMAIN stack /\ Top = stack[1] /\ DOMAIN stack \subseteq Nat \ {0} /\ DOMAIN stack' \subseteq Nat \ {0}
  /\ Len(todo) \in Nat /\ DOMAIN todo = 1 .. Len(todo)
  /\ \A i \in DOMAIN todo : i \in DOMAIN stack' /\ stack'[i] = todo[i]
  /\ \A j \in DOMAIN stack :
       j > 1 => j - 1 + Len(todo) \in DOMAIN stack' /\ stack'[j - 1 + Len(todo)] = stack[j]
  /\ \A i \in DOMAIN stack' :
       \/ i \in DOMAIN todo
       \/ /\ i > Len(todo) /\ i - Len(todo) + 1 \in DOMAIN stack
          /\ stack'[i] = stack[i - Len(todo) + 1]

\* Positions after a handler.
LEMMA Shift ==
  ASSUME stack \in Seq(Item), stack # <<>>, NEW todo \in Seq(Item), stack' = todo \o Tail(stack)
  PROVE  Shifted(todo)
<1> DEFINE u == Tail(stack)
<1>1. /\ u \in Seq(Item) /\ Len(u) = Len(stack) - 1
      /\ \A i \in 1 .. Len(u) : u[i] = stack[i + 1]
  BY HeadTailProperties
<1>2. /\ Len(stack) \in Nat /\ Len(stack) > 0 /\ DOMAIN stack = 1 .. Len(stack)
      /\ Len(todo) \in Nat /\ DOMAIN todo = 1 .. Len(todo) /\ Top = stack[1]
  BY DEF Top
<1>3. stack' = todo \o u
  OBVIOUS
<1> HIDE DEF u
<1>4. /\ DOMAIN stack' = 1 .. Len(todo) + Len(u)
      /\ \A i \in 1 .. Len(todo) + Len(u) :
           stack'[i] = IF i <= Len(todo) THEN todo[i] ELSE u[i - Len(todo)]
  <2>1. /\ DOMAIN (todo \o u) = 1 .. Len(todo) + Len(u)
        /\ \A i \in 1 .. Len(todo) + Len(u) :
             (todo \o u)[i] = IF i <= Len(todo) THEN todo[i] ELSE u[i - Len(todo)]
    BY <1>1, ConcatProperties
  <2> QED BY <1>3, <2>1
<1>5. \A i \in DOMAIN todo : i \in DOMAIN stack' /\ stack'[i] = todo[i]
  BY <1>1, <1>2, <1>4
<1>6. ASSUME NEW j \in DOMAIN stack, j > 1
      PROVE  j - 1 + Len(todo) \in DOMAIN stack' /\ stack'[j - 1 + Len(todo)] = stack[j]
  <2>1. j - 1 \in 1 .. Len(u) /\ u[j - 1] = stack[j]
    BY <1>1, <1>2, <1>6
  <2>2. /\ j - 1 + Len(todo) \in 1 .. Len(todo) + Len(u) /\ ~(j - 1 + Len(todo) <= Len(todo))
        /\ j - 1 + Len(todo) - Len(todo) = j - 1
    BY <1>1, <1>2, <1>6
  <2> QED BY <1>4, <2>1, <2>2
<1>7. ASSUME NEW i \in DOMAIN stack', i \notin DOMAIN todo
      PROVE  /\ i > Len(todo) /\ i - Len(todo) + 1 \in DOMAIN stack
             /\ stack'[i] = stack[i - Len(todo) + 1]
  <2>1. i > Len(todo) /\ i - Len(todo) \in 1 .. Len(u)
    BY <1>1, <1>2, <1>4, <1>7
  <2> QED BY <1>1, <1>2, <1>4, <2>1
<1>8. 1 \in DOMAIN stack /\ DOMAIN stack \subseteq Nat \ {0} /\ DOMAIN stack' \subseteq Nat \ {0}
  BY <1>1, <1>2, <1>4
<1> QED BY <1>2, <1>5, <1>6, <1>7, <1>8 DEF Shifted

\* A call of go or a second visit makes no calls.
LEMMA PopShift ==
  ASSUME stack \in Seq(Item), stack # <<>>, stack' = Tail(stack)
  PROVE  Shifted(<<>>)
<1>1. <<>> \in Seq(Item) /\ Tail(stack) \in Seq(Item)
  BY HeadTailProperties
<1>2. <<>> \o Tail(stack) = Tail(stack)
  BY <1>1
<1> QED BY <1>1, <1>2, Shift

\* What a handler does.
Handled(todo) ==
  /\ todo \in Seq(CallsOf(Top.d, Top.flags)) /\ Exact(todo, Top.d, Top.flags) /\ Shifted(todo)
  /\ Range(todo) \subseteq CallsOf(Top.d, Top.flags)
  /\ Range(stack) = {Top} \cup Rest /\ Range(stack') = Range(todo) \cup Rest
  /\ Top.op = "Visit" /\ Top.d \in Decl /\ Top.flags \in Flags /\ Top.d \notin visited_
  /\ visited_' = visited_ \cup {Top.d}
  /\ UNCHANGED <<ast, templates_, filter_>>
  /\ Range(definitions_') = Range(definitions_) /\ Range(template_definitions_') = Range(template_definitions_)

\* Every step but those of Popped is one of a handler.
LEMMA HandlerStep ==
  ASSUME IInv, Next, ~VisitAgain, ~Go
  PROVE  \E todo : Handled(todo)
<1>1. PICK todo \in Seq(CallsOf(Top.d, Top.flags)) :
        Enter(Kinds, todo) /\ Exact(todo, Top.d, Top.flags)
  BY HandlerExact
<1>2. stack \in Seq(Item) /\ stack # <<>> /\ stack' = todo \o Tail(stack) /\ UNCHANGED lists
  BY <1>1 DEF IInv, TypeOK, Enter
<1>3. Range(stack) = {Top} \cup Rest /\ Tail(stack) \in Seq(Item)
  BY <1>2, PopRange
<1>4. todo \in Seq(Item) /\ Range(todo) \subseteq CallsOf(Top.d, Top.flags)
  BY DEF CallsOf, Range
<1>5. Range(stack') = Range(todo) \cup Rest
  <2>1. Range(todo \o Tail(stack)) = Range(todo) \cup Range(Tail(stack))
    <3> HIDE DEF Rest
    <3>1. \A S : \A a, b \in Seq(S) : Range(a \o b) = Range(a) \cup Range(b)
      BY CallRanges
    <3> QED BY <1>3, <1>4, <3>1
  <2> QED BY <1>2, <2>1 DEF Rest
<1>6. Range(definitions_') = Range(definitions_) /\ Range(template_definitions_') = Range(template_definitions_)
  BY <1>2 DEF lists, Range
<1>7. Shifted(todo)
  BY <1>2, <1>4, Shift
<1> QED BY <1>1, <1>3, <1>4, <1>5, <1>6, <1>7, EnterPushes DEF Handled

\* What go and a second visit do.
Popped ==
  /\ Shifted(<<>>) /\ Range(stack) = {Top} \cup Rest /\ Range(stack') = Rest
  /\ UNCHANGED <<ast, templates_, filter_, visited_>>
  /\ Top.op = "Visit" => Top.d \in visited_

\* go and a second visit make no calls.
LEMMA PopStep ==
  ASSUME IInv, VisitAgain \/ Go
  PROVE  Popped
<1>1. stack \in Seq(Item) /\ stack # <<>> /\ stack' = Tail(stack)
  BY DEF IInv, TypeOK, VisitAgain, Go
<1>2. Range(stack) = {Top} \cup Rest
  BY <1>1, PopRange
<1>3. Range(stack') = Rest
  BY <1>1 DEF Rest, Range
<1>4. Shifted(<<>>)
  BY <1>1, PopShift
<1> QED BY <1>2, <1>3, <1>4 DEF Popped, VisitAgain, Go, input

\* A namespace is entered from the scope that it stands in.
PlaceInv ==
  \A c \in Scopes(ast) : \A n \in Range(ast.members[c]) :
    ast.kind[n] \in FileKinds /\ (n \in visited_ \/ Awaited(n)) => c \in visited_ \cup {TU}

\* What only a class lists is entered from the class.
OwnInv ==
  \A c \in Decl : ast.kind[c] \in RecordKinds =>
    \A t \in Range(ast.members[c]) : OnlyIn(ast, t, c) /\ (t \in visited_ \/ Awaited(t)) => c \in visited_

\* Only what the traversal may visit is visited.
ReachedInv ==
  /\ visited_ \subseteq Reached(ast)
  /\ \A x \in Decl : Awaited(x) => x \in Reached(ast)

\* Without -templates nothing is in a template.
PlainInv == ~templates_ => \A it \in Range(stack) : ~it.flags.in_template

\* s is listed with the templates, or a call will record it there.
Instantiated(s) ==
  \/ s \in Range(template_definitions_)
  \/ \E it \in Range(stack) : it.op = "go" /\ it.d = s /\ it.flags.in_specialization /\ it.definition

\* A visited instance is recorded, or will be.
KeptInv == \A s \in Instances(ast) \cap visited_ : Instantiated(s) /\ (~templates_ => Kept(s))

\* What clang promises of instances.
LEMMA InstanceFacts ==
  ASSUME IInv
  PROVE  AstShape(ast) /\ LocalsAreOwned(ast) /\ ScopesNest(ast) /\ InstancesFollow(ast, Instances(ast))
  BY AstAssumption, ScopeAssumption, InstanceAssumption DEF IInv

\* Where a visit comes from.
LEMMA VisitSources ==
  ASSUME AstShape(ast), NEW d \in Decl, NEW f \in Flags, NEW it \in CallsOf(d, f), it.op = "Visit"
  PROVE  \/ /\ it.flags = f /\ it.d \in Range(ast.members[d])
            /\ ast.kind[d] \in FileKinds \cup RecordKinds
         \/ /\ it.d \in Referred(ast)
            /\ \/ it.d \in Range(ast.specializations[d]) /\ it.flags = set_specialization(f)
               \/ it.d \in {ast.templated[d], ast.friendDecl[d]}
<1>2. \/ it.d = ast.friendDecl[d] \/ it.d = ast.templated[d]
      \/ it.d \in Range(ast.specializations[d])
      => it.d \in Referred(ast)
  <2> DEFINE R(t) == Range(ast.specializations[t]) \cup {ast.templated[t], ast.friendDecl[t]}
  <2>1. Referred(ast) = UNION {R(t) : t \in Decl} /\ R(d) \in {R(t) : t \in Decl}
    BY DEF Referred
  <2>2. R(d) = Range(ast.specializations[d]) \cup {ast.templated[d], ast.friendDecl[d]}
    OBVIOUS
  <2> HIDE DEF R
  <2>3. R(d) \subseteq Referred(ast)
    BY <2>1
  <2> QED BY <2>2, <2>3
<1>3. \/ it.flags = f /\ ast.kind[d] \in FileKinds \cup RecordKinds /\ it.d \in Range(ast.members[d])
      \/ it.d = ast.friendDecl[d] \/ it.d = ast.templated[d]
      \/ it.d \in Range(ast.specializations[d]) /\ it.flags = set_specialization(f)
  BY DEF CallsOf, FileKinds
<1> QED BY <1>2, <1>3

\* The parts of the invariant that say where a visit comes from, through a
\* handler.
LEMMA PlaceHandler ==
  ASSUME IInv, PlaceInv, NEW todo, Handled(todo)
  PROVE  PlaceInv'
<1>1. /\ AstShape(ast) /\ ScopesNest(ast) /\ InstancesFollow(ast, Instances(ast))
  BY InstanceFacts
<1>2. SUFFICES ASSUME NEW c \in Scopes(ast), NEW n \in Range(ast.members[c]), ast.kind[n] \in FileKinds,
                      n \in visited_' \/ Awaited(n)'
               PROVE  c \in visited_' \cup {TU}
  <2>1. ast' = ast
    BY DEF Handled
  <2> QED BY <2>1 DEF PlaceInv
<1>3. CASE n \in visited_ \/ Awaited(n)
  BY <1>2, <1>3 DEF PlaceInv, Handled
<1>4. CASE n = Top.d
  BY <1>2, <1>4 DEF PlaceInv, Handled, Awaited
<1>5. CASE \E it \in Range(todo) : it.op = "Visit" /\ it.d = n
  <2>1. PICK it \in CallsOf(Top.d, Top.flags) : it.op = "Visit" /\ it.d = n
    BY <1>5 DEF Handled
  <2>2. n \in Decl
    BY <2>1 DEF CallsOf, Item
  <2>3. n \notin Referred(ast) \cup InClass(ast)
    BY <1>1, <1>2, <2>2 DEF ScopesNest
  <2>4. n \in Range(ast.members[Top.d]) /\ ast.kind[Top.d] \in FileKinds \cup RecordKinds /\ Top.d \in Decl
    BY <1>1, <2>1, <2>3, VisitSources DEF Handled
  <2>5. ast.kind[Top.d] \in FileKinds
    BY <2>3, <2>4 DEF InClass
  <2>6. Top.d \in Scopes(ast)
    BY <2>4, <2>5 DEF Scopes
  <2>7. PICK i \in DOMAIN ast.members[c] : ast.members[c][i] = n
    BY DEF Range
  <2>8. PICK j \in DOMAIN ast.members[Top.d] : ast.members[Top.d][j] = n
    BY <2>4 DEF Range
  <2>9. c = Top.d
    BY <1>1, <1>2, <2>6, <2>7, <2>8 DEF InstancesFollow
  <2> QED BY <2>9 DEF Handled
<1> QED BY <1>2, <1>3, <1>4, <1>5 DEF Handled, Awaited

\* Referred declarations are not OnlyIn a class.
LEMMA OwnHandler ==
  ASSUME IInv, OwnInv, NEW todo, Handled(todo)
  PROVE  OwnInv'
<1>1. /\ AstShape(ast) /\ ScopesNest(ast) /\ InstancesFollow(ast, Instances(ast))
  BY InstanceFacts
<1>2. SUFFICES ASSUME NEW c \in Decl, NEW t \in Range(ast.members[c]), ast.kind[c] \in RecordKinds, OnlyIn(ast, t, c),
                      t \in visited_' \/ Awaited(t)'
               PROVE  c \in visited_'
  <2>1. ast' = ast
    BY DEF Handled
  <2> QED BY <2>1 DEF OwnInv
<1>3. CASE t \in visited_ \/ Awaited(t)
  BY <1>2, <1>3 DEF OwnInv, Handled
<1>4. CASE t = Top.d
  BY <1>2, <1>4 DEF OwnInv, Handled, Awaited
<1>5. CASE \E it \in Range(todo) : it.op = "Visit" /\ it.d = t
  <2>1. PICK it \in CallsOf(Top.d, Top.flags) : it.op = "Visit" /\ it.d = t
    BY <1>5 DEF Handled
  <2>2. t \in Range(ast.members[Top.d]) /\ ast.kind[Top.d] \in FileKinds \cup RecordKinds /\ Top.d \in Decl
    BY <1>1, <1>2, <2>1, VisitSources DEF Handled, OnlyIn
  <2>3. c = Top.d
    BY <1>2, <2>2 DEF OnlyIn
  <2> QED BY <2>3 DEF Handled
<1> QED BY <1>2, <1>3, <1>4, <1>5 DEF Handled, Awaited

\* Only with -templates is the templated declaration visited.
LEMMA PlainHandler ==
  ASSUME PlainInv, NEW todo, Handled(todo)
  PROVE  PlainInv'
<1>1. SUFFICES ASSUME ~templates_, NEW it \in Range(stack') PROVE ~it.flags.in_template
  BY DEF PlainInv, Handled
<1>2. CASE it \in Rest
  BY <1>1, <1>2 DEF PlainInv, Handled
<1>3. CASE it \in Range(todo)
  <2>1. it \in CallsOf(Top.d, Top.flags) /\ ~Top.flags.in_template /\ Top.flags \in Flags
    BY <1>1, <1>3 DEF Handled, PlainInv
  <2>2. ~set_specialization(Top.flags).in_template
    BY <2>1 DEF set_specialization, Flags
  <2> QED BY <1>1, <2>1, <2>2 DEF CallsOf
<1> QED BY <1>1, <1>2, <1>3 DEF Handled

\* Called has what a handler calls; FlagsInv excludes what it skips.
LEMMA ReachedHandler ==
  ASSUME IInv, MembersInv, ReachedInv, NEW todo, Handled(todo)
  PROVE  ReachedInv'
<1>1. /\ AstShape(ast) /\ ScopesNest(ast)
  BY InstanceFacts
<1>2. Top.d \in Reached(ast) /\ Top.d \in Decl /\ Top.flags \in Flags
  BY DEF ReachedInv, Awaited, Handled
<1>3. Called(ast, Top.d) \subseteq Reached(ast)
  BY <1>1, <1>2, ReachedClosed
<1>4. ASSUME NEW it \in Range(todo), it.op = "Visit"
      PROVE  it.d \in Called(ast, Top.d)
  <2>1. it \in CallsOf(Top.d, Top.flags) /\ it.d \in Decl
    BY <1>4 DEF Handled, CallsOf, Item
  <2>2. CASE it.d \in Range(ast.specializations[Top.d]) \cup {ast.templated[Top.d], ast.friendDecl[Top.d]}
    BY <2>1, <2>2, ConstantAssumption DEF Called
  <2>3. CASE ast.kind[Top.d] \in FileKinds \cup {"CXXRecord"} /\ it.d \in Range(ast.members[Top.d])
    BY <2>3 DEF Called
  <2>4. CASE ast.kind[Top.d] = "ClassTemplateSpecialization" /\ it.d \in Range(ast.members[Top.d])
    <3>1. CASE Top.d \in Referred(ast) \cup InClass(ast)
      BY <2>4, <3>1 DEF Called
    <3>2. CASE Top.d \notin Referred(ast) \cup InClass(ast)
      <4>1. Top.flags = NoFlags
        BY <3>2 DEF MembersInv, FlagsInv, FileOnly, Handled
      <4>2. SkipRecord(Top.d, Top.flags)
        BY <2>4, <4>1 DEF SkipRecord, NoFlags
      <4>3. todo = <<>>
        BY <2>4, <4>2 DEF Handled, Exact, RecordKinds
      <4> QED BY <1>4, <4>3, CallRanges
    <3> QED BY <3>1, <3>2
  <2> QED BY <1>1, <1>2, <1>4, <2>1, <2>2, <2>3, <2>4, VisitSources DEF RecordKinds
<1>5. visited_' \subseteq Reached(ast)
  BY <1>2 DEF ReachedInv, Handled
<1>6. \A x \in Decl : Awaited(x)' => x \in Reached(ast)
  BY <1>3, <1>4 DEF ReachedInv, Handled, Awaited
<1> QED BY <1>5, <1>6 DEF ReachedInv, Handled

\* Fewer calls are left.
LEMMA SetsPop ==
  ASSUME PlaceInv, OwnInv, ReachedInv, PlainInv, Popped
  PROVE  PlaceInv' /\ OwnInv' /\ ReachedInv' /\ PlainInv'
<1>1. /\ ast' = ast /\ templates_' = templates_ /\ visited_' = visited_ /\ Range(stack') \subseteq Range(stack)
      /\ \A x : Awaited(x)' => Awaited(x)
  <2>1. Range(stack') \subseteq Range(stack)
    BY DEF Popped
  <2> QED BY <2>1 DEF Popped, Awaited
<1>2. PlaceInv'
  BY <1>1 DEF PlaceInv
<1>3. OwnInv'
  BY <1>1 DEF OwnInv
<1>4. ReachedInv'
  BY <1>1 DEF ReachedInv
<1>5. PlainInv'
  BY <1>1 DEF PlainInv
<1> QED BY <1>2, <1>3, <1>4, <1>5

\* A definition that is recorded with in_specialization gets into the list of
\* templates.
LEMMA GoInstantiates ==
  ASSUME IInv, EverythingKept, Go
  PROVE  \A s : Instantiated(s) => Instantiated(s)'
<1>1. /\ Range(stack) = {Top} \cup Rest /\ Range(stack') = Rest /\ Top.op = "go" /\ Top.d \in Decl
      /\ Top.definition \in BOOLEAN
  BY GoEffect
<1>2. template_definitions_ \in Seq(Decl) /\ filter_[Top.d] = "DEFINITION"
  BY <1>1 DEF IInv, TypeOK, EverythingKept
<1>3. Range(template_definitions_) \subseteq Range(template_definitions_')
  <2>1. \A l \in Seq(Decl) : Range(Append(l, Top.d)) = Range(l) \cup {Top.d}
    BY <1>1, AppendRange
  <2>2. template_definitions_' \in {template_definitions_, Append(template_definitions_, Top.d)}
    BY DEF Go, add_definition, add_declaration, AddTemplate, lists
  <2> QED BY <1>2, <2>1, <2>2
<1>4. ASSUME Top.flags.in_specialization, Top.definition
      PROVE  Top.d \in Range(template_definitions_')
  <2>1. Recorded(Top) = "DEFINITION"
    BY <1>2, <1>4 DEF Recorded
  <2>2. template_definitions_' = Append(template_definitions_, Top.d)
    BY <1>4, <2>1 DEF Go, add_definition, AddTemplate
  <2> QED BY <1>1, <1>2, <2>2, AppendRange
<1> QED BY <1>1, <1>3, <1>4 DEF Instantiated

\* go records what it was called for.
LEMMA KeptPop ==
  ASSUME IInv, EverythingKept, KeptInv, VisitAgain \/ Go
  PROVE  KeptInv'
<1>1. Popped
  BY PopStep
<1>2. /\ \A s : Instantiated(s) => Instantiated(s)'
      /\ \A s : Kept(s) => Kept(s)'
  <2>1. CASE Go
    BY <2>1, GoInstantiates, GoKeeps
  <2>2. CASE VisitAgain
    <3>1. Range(definitions_') = Range(definitions_) /\ Range(template_definitions_') = Range(template_definitions_)
      BY <2>2 DEF VisitAgain, lists, Range
    <3>2. Range(stack) = {Top} \cup Range(stack') /\ Top.op = "Visit"
      BY <1>1, <2>2 DEF Popped, VisitAgain
    <3> QED BY <3>1, <3>2 DEF Instantiated, Kept
  <2> QED BY <2>1, <2>2
<1> QED BY <1>1, <1>2 DEF KeptInv, Popped

\* An instance that is visited with in_specialization is recorded.
LEMMA KeptHandler ==
  ASSUME IInv, KeptInv, PlainInv, NEW todo, Handled(todo),
         Top.d \in Instances(ast) => Top.flags.in_specialization
  PROVE  KeptInv'
<1>1. /\ \A s : Instantiated(s) => Instantiated(s)'
      /\ \A s : Kept(s) => Kept(s)'
  <2>1. Top.op = "Visit" /\ Range(stack) = {Top} \cup Rest /\ Range(stack') = Range(todo) \cup Rest
        /\ Range(definitions_') = Range(definitions_) /\ Range(template_definitions_') = Range(template_definitions_)
    BY DEF Handled
  <2> QED BY <2>1 DEF Instantiated, Kept
<1>2. ASSUME NEW s, s = Top.d, s \in Instances(ast)
      PROVE  Instantiated(s)' /\ (~templates_ => Kept(s)')
  <2>1. /\ ast.kind[Top.d] = "ClassTemplateSpecialization" /\ ast.definition[Top.d] = Top.d
        /\ Top.d \notin ast.implicit
    BY <1>2, InstanceIs, InstanceFacts DEF InstancesFollow
  <2>2. ~SkipRecord(Top.d, Top.flags)
    BY <1>2, <2>1 DEF SkipRecord
  <2>3. PICK g \in Seq(CallsOf(Top.d, Top.flags)) :
          todo = VisitEach(ast.members[Top.d], Top.flags) \o g /\ go(Top.d, Top.flags, TRUE) \in Range(g)
    BY <2>1, <2>2 DEF Handled, Exact, RecordKinds
  <2>4. VisitEach(ast.members[Top.d], Top.flags) \in Seq(CallsOf(Top.d, Top.flags))
    BY <2>1, InstanceFacts, EachCall DEF Handled, RecordKinds
  <2>5. Range(todo) = Range(VisitEach(ast.members[Top.d], Top.flags)) \cup Range(g)
    <3>1. PICK v : v = VisitEach(ast.members[Top.d], Top.flags)
      OBVIOUS
    <3> QED BY <2>3, <2>4, <3>1, CallRanges
  <2>6. PICK it \in Range(stack') : it.op = "go" /\ it.d = Top.d /\ it.flags = Top.flags /\ it.definition
    BY <2>3, <2>5 DEF Handled, go
  <2>7. ~templates_ => ~Top.flags.in_template
    BY DEF PlainInv, Handled
  <2> QED BY <1>2, <2>6, <2>7 DEF Instantiated, Kept
<1>3. SUFFICES ASSUME NEW s \in Instances(ast), s \in visited_' PROVE Instantiated(s)' /\ (~templates_ => Kept(s)')
  <2>1. ast' = ast /\ templates_' = templates_
    BY DEF Handled
  <2> QED BY <2>1 DEF KeptInv
<1>4. CASE s \in visited_
  BY <1>1, <1>3, <1>4 DEF KeptInv
<1>5. CASE s = Top.d
  BY <1>2, <1>3, <1>5
<1> QED BY <1>3, <1>4, <1>5 DEF Handled

(***************************************************************************)
(* The order of the calls.  The last calls are those of the file: visits   *)
(* without flags, in the order of the source.  The first m are what is     *)
(* left of the last of them that was taken up.                             *)
(***************************************************************************)
\* A namespace of the file is entered once.
FlatInv(m) ==
  /\ \A p \in DOMAIN stack : p > m =>
       /\ stack[p].op = "Visit" /\ stack[p].flags = NoFlags
       /\ \E c \in Scopes(ast) : stack[p].d \in Range(ast.members[c])
  /\ \A p, q \in DOMAIN stack : m < p /\ p < q =>
       \A x \in Inside(ast, stack[p].d), y \in Inside(ast, stack[q].d) : Precedes(ast, x, y)
  /\ \A x \in InFile(ast) : x \in visited_ \/ \E p \in DOMAIN stack : p > m /\ x \in Inside(ast, stack[p].d)
  /\ \A p \in DOMAIN stack : p > m /\ ast.kind[stack[p].d] \in FileKinds =>
       /\ stack[p].d \notin visited_
       /\ \A q \in DOMAIN stack : q > m /\ stack[q].d = stack[p].d => q = p

\* The template of s comes before the call at j, or s does by its template.
ByTemplate(s, j) ==
  \E i \in DOMAIN stack :
    /\ i < j /\ stack[i].op = "Visit"
    /\ \/ stack[i].d = s /\ stack[i].flags.in_specialization
       \/ stack[i].d \notin visited_ /\ s \in Range(ast.specializations[stack[i].d])

\* The other m calls come from the handler of one call of the file: no
\* namespaces, everything that what is visited leads to, and an instance in a
\* class only after its template.
DeepInv(m) ==
  /\ \A j \in DOMAIN stack : j <= m /\ stack[j].op = "Visit" => ast.kind[stack[j].d] \notin FileKinds
  /\ \A x \in visited_ : \A y \in Leads(ast, Instances(ast), x) :
       y \in visited_ \/ \E j \in DOMAIN stack : j <= m /\ stack[j].op = "Visit" /\ stack[j].d = y
  /\ \A j \in DOMAIN stack :
       j <= m /\ stack[j].op = "Visit" /\ stack[j].d \in Instances(ast) /\ ~stack[j].flags.in_specialization =>
         stack[j].d \in visited_ \/ ByTemplate(stack[j].d, j)

\* The stack is the calls of one visit over those of the file.
OrderInv == \E m \in Nat : FlatInv(m) /\ DeepInv(m)

\* The first visit of an instance comes from its template.
LEMMA TemplateFirst ==
  ASSUME IInv, OrderInv, Top.op = "Visit", 1 \in DOMAIN stack, Top = stack[1], DOMAIN stack \subseteq Nat \ {0},
         Top.d \in Instances(ast), Top.d \notin visited_
  PROVE  Top.flags.in_specialization
<1>1. PICK m \in Nat : FlatInv(m) /\ DeepInv(m)
  BY DEF OrderInv
<1>2. SUFFICES ASSUME ~Top.flags.in_specialization PROVE FALSE
  OBVIOUS
<1>3. CASE m >= 1
  <2>1. ByTemplate(Top.d, 1)
    BY <1>1, <1>2, <1>3 DEF DeepInv
  <2> QED BY <2>1 DEF ByTemplate
<1>4. CASE m = 0
  <2> DEFINE s == Top.d
  <2>1. /\ AstShape(ast) /\ InstancesFollow(ast, Instances(ast))
    BY InstanceFacts
  <2>2. \E c \in Scopes(ast) : s \in Range(ast.members[c])
    BY <1>1, <1>4 DEF FlatInv
  <2>3. PICK t \in Decl, d \in InFile(ast) \ {s} :
          s \in Range(ast.specializations[t]) /\ Brings(ast, Instances(ast), d, t) /\ ~Precedes(ast, s, d)
    BY <2>1, <2>2 DEF InstancesFollow
  <2>4. s \in Decl /\ ast.kind[s] = "ClassTemplateSpecialization"
    BY InstanceIs
  <2>5. s \in Inside(ast, s) /\ \A x \in Inside(ast, s) : x = s
    BY <2>1, <2>4, InsideSplit DEF FileKinds
  <2>6. d \in visited_
    <3>1. ASSUME NEW p \in DOMAIN stack, d \in Inside(ast, stack[p].d) PROVE FALSE
      <4>1. p # 1
        BY <2>3, <2>5, <3>1
      <4>2. p > 1
        BY <4>1
      <4> QED BY <1>1, <1>4, <2>3, <2>5, <3>1, <4>2 DEF FlatInv
    <3> QED BY <1>1, <2>3, <3>1 DEF FlatInv
  <2>7. \A x \in visited_ : Leads(ast, Instances(ast), x) \subseteq visited_
    BY <1>1, <1>4 DEF DeepInv
  <2>8. visited_ \in SUBSET Decl
    BY DEF IInv, TypeOK
  <2>9. t \in visited_
    BY <2>3, <2>6, <2>7, <2>8 DEF Brings
  <2>10. ast.kind[t] \in TemplateKinds
    <3>1. ast.specializations[t] # <<>>
      BY <2>3, CallRanges
    <3> QED BY <2>1, <3>1 DEF InstancesFollow
  <2>11. Leads(ast, Instances(ast), t) = Range(ast.specializations[t])
    <3>1. t \notin Instances(ast) /\ ast.kind[t] # "CXXRecord" /\ ast.kind[t] # "Friend"
      BY <2>10, InstanceIs DEF TemplateKinds
    <3> QED BY <2>10, <3>1 DEF Leads
  <2> QED BY <2>3, <2>7, <2>9, <2>11
<1> QED BY <1>3, <1>4

\* The number of calls left of the last call of the file, after a step.
Left(m, todo) == (IF m = 0 THEN 0 ELSE m - 1) + Len(todo)

\* Where the calls are after a step.
LEMMA Positions ==
  ASSUME NEW todo, Shifted(todo), NEW m \in Nat, NEW n, n = Left(m, todo)
  PROVE  /\ n \in Nat
         /\ \A p \in DOMAIN stack' : p > n =>
              \E q \in DOMAIN stack : q > m /\ q > 1 /\ q - 1 + Len(todo) = p /\ stack'[p] = stack[q]
         /\ \A q \in DOMAIN stack : q > 1 /\ q > m =>
              q - 1 + Len(todo) \in DOMAIN stack' /\ q - 1 + Len(todo) > n /\ stack'[q - 1 + Len(todo)] = stack[q]
         /\ \A p \in DOMAIN stack' : p <= n =>
              \/ p \in DOMAIN todo /\ stack'[p] = todo[p]
              \/ \E q \in DOMAIN stack : q <= m /\ q > 1 /\ q - 1 + Len(todo) = p /\ stack'[p] = stack[q]
         /\ \A q \in DOMAIN stack : q > 1 /\ q <= m =>
              q - 1 + Len(todo) \in DOMAIN stack' /\ q - 1 + Len(todo) <= n /\ stack'[q - 1 + Len(todo)] = stack[q]
         /\ \A i \in DOMAIN todo : i \in DOMAIN stack' /\ i <= n /\ stack'[i] = todo[i]
<1>1. PICK L : L = Len(todo)
  OBVIOUS
<1>2. /\ L \in Nat /\ DOMAIN todo = 1 .. L /\ DOMAIN stack \subseteq Nat \ {0} /\ DOMAIN stack' \subseteq Nat \ {0}
  BY <1>1 DEF Shifted
<1>3. n \in Nat /\ (m = 0 => n = L) /\ (m # 0 => n = m - 1 + L)
  <2>1. m = 0 => n = 0 + L
    BY <1>1 DEF Left
  <2>2. m # 0 => n = m - 1 + L
    BY <1>1 DEF Left
  <2> QED BY <1>2, <2>1, <2>2
<1>4. /\ \A i \in DOMAIN todo : i \in DOMAIN stack' /\ stack'[i] = todo[i]
      /\ \A q \in DOMAIN stack : q > 1 => q - 1 + L \in DOMAIN stack' /\ stack'[q - 1 + L] = stack[q]
  BY <1>1 DEF Shifted
<1>5. ASSUME NEW p \in DOMAIN stack', p \notin DOMAIN todo
      PROVE  \E q \in DOMAIN stack : q > 1 /\ q - 1 + L = p /\ stack'[p] = stack[q]
  <2>1. PICK q : q = p - L + 1
    OBVIOUS
  <2>2. p > L /\ q \in DOMAIN stack /\ stack'[p] = stack[q]
    BY <1>1, <1>5, <2>1 DEF Shifted
  <2>3. q > 1 /\ q - 1 + L = p
    BY <1>2, <2>1, <2>2
  <2> QED BY <2>2, <2>3
<1>6. ASSUME NEW p \in DOMAIN stack', p > n
      PROVE  \E q \in DOMAIN stack : q > m /\ q > 1 /\ q - 1 + L = p /\ stack'[p] = stack[q]
  <2>1. p \notin DOMAIN todo
    BY <1>2, <1>3, <1>6
  <2>2. PICK q \in DOMAIN stack : q > 1 /\ q - 1 + L = p /\ stack'[p] = stack[q]
    BY <1>5, <2>1
  <2>3. q > m
    BY <1>2, <1>3, <1>6, <2>2
  <2> QED BY <2>2, <2>3
<1>7. \A q \in DOMAIN stack : q > 1 /\ q > m =>
        q - 1 + L \in DOMAIN stack' /\ q - 1 + L > n /\ stack'[q - 1 + L] = stack[q]
  BY <1>2, <1>3, <1>4
<1>8. ASSUME NEW p \in DOMAIN stack', p <= n, p \notin DOMAIN todo
      PROVE  \E q \in DOMAIN stack : q <= m /\ q > 1 /\ q - 1 + L = p /\ stack'[p] = stack[q]
  <2>1. PICK q \in DOMAIN stack : q > 1 /\ q - 1 + L = p /\ stack'[p] = stack[q]
    BY <1>5, <1>8
  <2>2. q <= m
    BY <1>2, <1>3, <1>8, <2>1
  <2> QED BY <2>1, <2>2
<1>9. \A q \in DOMAIN stack : q > 1 /\ q <= m =>
        q - 1 + L \in DOMAIN stack' /\ q - 1 + L <= n /\ stack'[q - 1 + L] = stack[q]
  BY <1>2, <1>3, <1>4
<1>10. \A i \in DOMAIN todo : i \in DOMAIN stack' /\ i <= n /\ stack'[i] = todo[i]
  BY <1>2, <1>3, <1>4
<1> QED BY <1>1, <1>3, <1>4, <1>6, <1>7, <1>8, <1>9, <1>10

\* The calls of the file stay, all but one that is done with.
LEMMA FlatStays ==
  ASSUME NEW todo, Shifted(todo), NEW m \in Nat, NEW n, n = Left(m, todo), FlatInv(m), ast' = ast,
         visited_ \subseteq visited_', \A x \in visited_' : x \in visited_ \/ ast.kind[x] \notin FileKinds,
         m = 0 => \A x \in Inside(ast, Top.d) : x \in visited_'
  PROVE  FlatInv(n)'
<1>1. /\ n \in Nat
      /\ \A p \in DOMAIN stack' : p > n =>
           \E q \in DOMAIN stack : q > m /\ q > 1 /\ q - 1 + Len(todo) = p /\ stack'[p] = stack[q]
      /\ \A q \in DOMAIN stack : q > 1 /\ q > m =>
           q - 1 + Len(todo) \in DOMAIN stack' /\ q - 1 + Len(todo) > n /\ stack'[q - 1 + Len(todo)] = stack[q]
  BY Positions
<1>2. /\ Len(todo) \in Nat /\ DOMAIN stack \subseteq Nat \ {0} /\ Top = stack[1]
  BY DEF Shifted
<1>3. ASSUME NEW p \in DOMAIN stack', p > n
      PROVE  /\ stack'[p].op = "Visit" /\ stack'[p].flags = NoFlags
             /\ \E c \in Scopes(ast) : stack'[p].d \in Range(ast.members[c])
  BY <1>1, <1>3 DEF FlatInv
<1>4. ASSUME NEW p \in DOMAIN stack', NEW q \in DOMAIN stack', n < p, p < q,
             NEW x \in Inside(ast, stack'[p].d), NEW y \in Inside(ast, stack'[q].d)
      PROVE  Precedes(ast, x, y)
  <2>1. PICK i \in DOMAIN stack : i > m /\ i - 1 + Len(todo) = p /\ stack'[p] = stack[i]
    BY <1>1, <1>4
  <2>2. q > n /\ p \in Nat /\ q \in Nat
    BY <1>1, <1>4 DEF Shifted
  <2>3. PICK j \in DOMAIN stack : j > m /\ j - 1 + Len(todo) = q /\ stack'[q] = stack[j]
    BY <1>1, <2>2
  <2>4. i < j /\ m < i
    BY <1>2, <1>4, <2>1, <2>3
  <2> QED BY <1>4, <2>1, <2>3, <2>4 DEF FlatInv
<1>5. ASSUME NEW x \in InFile(ast), x \notin visited_'
      PROVE  \E p \in DOMAIN stack' : p > n /\ x \in Inside(ast, stack'[p].d)
  <2>1. PICK q \in DOMAIN stack : q > m /\ x \in Inside(ast, stack[q].d)
    BY <1>5 DEF FlatInv
  <2>2. q > 1
    <3>1. q = 1 => m = 0
      BY <2>1
    <3>2. q # 1
      BY <1>2, <1>5, <2>1, <3>1
    <3> QED BY <1>2, <3>2
  <2> QED BY <1>1, <2>1, <2>2
<1>6. ASSUME NEW p \in DOMAIN stack', p > n, ast.kind[stack'[p].d] \in FileKinds
      PROVE  /\ stack'[p].d \notin visited_'
             /\ \A q \in DOMAIN stack' : q > n /\ stack'[q].d = stack'[p].d => q = p
  <2>1. PICK i \in DOMAIN stack : i > m /\ i - 1 + Len(todo) = p /\ stack'[p] = stack[i]
    BY <1>1, <1>6
  <2>2. stack'[p].d \notin visited_'
    BY <1>6, <2>1 DEF FlatInv
  <2>3. ASSUME NEW q \in DOMAIN stack', q > n, stack'[q].d = stack'[p].d PROVE q = p
    <3>1. PICK j \in DOMAIN stack : j > m /\ j - 1 + Len(todo) = q /\ stack'[q] = stack[j]
      BY <1>1, <2>3
    <3>2. i = j
      BY <1>6, <2>1, <2>3, <3>1 DEF FlatInv
    <3> QED BY <2>1, <3>1, <3>2
  <2> QED BY <2>2, <2>3
<1> QED BY <1>3, <1>4, <1>5, <1>6 DEF FlatInv

\* What a step asks of the calls it makes.
Deeper(todo) ==
  /\ \A i \in DOMAIN todo : todo[i].op = "Visit" => ast.kind[todo[i].d] \notin FileKinds
  /\ visited_ \subseteq visited_' /\ (Top.op = "Visit" => Top.d \in visited_')
  /\ \A x \in visited_' : x \in visited_ \/
       /\ x = Top.d /\ Top.op = "Visit"
       /\ \A y \in Leads(ast, Instances(ast), x) :
            \E i \in DOMAIN todo : todo[i].op = "Visit" /\ todo[i].d = y
  /\ Top.op = "Visit" /\ Top.d \notin visited_ =>
       \A s \in Range(ast.specializations[Top.d]) :
         \E i \in DOMAIN todo : todo[i].op = "Visit" /\ todo[i].d = s /\ todo[i].flags.in_specialization
  /\ \A j \in DOMAIN todo :
       todo[j].op = "Visit" /\ todo[j].d \in Instances(ast) /\ ~todo[j].flags.in_specialization =>
         \E i \in DOMAIN todo :
           /\ i < j /\ todo[i].op = "Visit" /\ todo[i].d \notin visited_'
           /\ todo[j].d \in Range(ast.specializations[todo[i].d])

\* A step replaces a call by what it leads to.
LEMMA DeepStays ==
  ASSUME NEW todo, Shifted(todo), NEW m \in Nat, NEW n, n = Left(m, todo), DeepInv(m), ast' = ast, Deeper(todo)
  PROVE  DeepInv(n)'
<1>1. /\ n \in Nat
      /\ \A p \in DOMAIN stack' : p <= n =>
           \/ p \in DOMAIN todo /\ stack'[p] = todo[p]
           \/ \E q \in DOMAIN stack : q <= m /\ q > 1 /\ q - 1 + Len(todo) = p /\ stack'[p] = stack[q]
      /\ \A q \in DOMAIN stack : q > 1 /\ q <= m =>
           q - 1 + Len(todo) \in DOMAIN stack' /\ q - 1 + Len(todo) <= n /\ stack'[q - 1 + Len(todo)] = stack[q]
      /\ \A i \in DOMAIN todo : i \in DOMAIN stack' /\ i <= n /\ stack'[i] = todo[i]
  BY Positions
<1>2. /\ Len(todo) \in Nat /\ DOMAIN todo = 1 .. Len(todo) /\ DOMAIN stack \subseteq Nat \ {0} /\ Top = stack[1]
  BY DEF Shifted
<1>3. \A j \in DOMAIN stack' : j <= n /\ stack'[j].op = "Visit" => ast.kind[stack'[j].d] \notin FileKinds
  BY <1>1 DEF DeepInv, Deeper
<1>4. ASSUME NEW x \in visited_', NEW y \in Leads(ast, Instances(ast), x), y \notin visited_'
      PROVE  \E j \in DOMAIN stack' : j <= n /\ stack'[j].op = "Visit" /\ stack'[j].d = y
  <2>1. CASE x \in visited_
    <3>1. PICK j \in DOMAIN stack : j <= m /\ stack[j].op = "Visit" /\ stack[j].d = y
      BY <1>4, <2>1 DEF DeepInv, Deeper
    <3>2. j # 1
      BY <1>2, <1>4, <3>1 DEF Deeper
    <3>3. j > 1
      BY <1>2, <3>2
    <3> QED BY <1>1, <3>1, <3>3
  <2>2. CASE x \notin visited_
    BY <1>1, <1>4, <2>2 DEF Deeper
  <2> QED BY <2>1, <2>2
<1>5. ASSUME NEW j \in DOMAIN stack', j <= n, stack'[j].op = "Visit", stack'[j].d \in Instances(ast),
             ~stack'[j].flags.in_specialization, stack'[j].d \notin visited_', NEW s, s = stack'[j].d
      PROVE  \E i \in DOMAIN stack' :
               /\ i < j /\ stack'[i].op = "Visit"
               /\ \/ stack'[i].d = s /\ stack'[i].flags.in_specialization
                  \/ stack'[i].d \notin visited_' /\ s \in Range(ast.specializations[stack'[i].d])
  <2>1. CASE j \in DOMAIN todo /\ stack'[j] = todo[j]
    <3>1. PICK i \in DOMAIN todo :
            /\ i < j /\ todo[i].op = "Visit" /\ todo[i].d \notin visited_'
            /\ todo[j].d \in Range(ast.specializations[todo[i].d])
      BY <1>5, <2>1 DEF Deeper
    <3> QED BY <1>1, <1>5, <2>1, <3>1
  <2>2. CASE \E q \in DOMAIN stack : q <= m /\ q > 1 /\ q - 1 + Len(todo) = j /\ stack'[j] = stack[q]
    <3>1. PICK q \in DOMAIN stack : q <= m /\ q > 1 /\ q - 1 + Len(todo) = j /\ stack'[j] = stack[q]
      BY <2>2
    <3>2. s \notin visited_ /\ ByTemplate(s, q)
      BY <1>5, <3>1 DEF DeepInv, Deeper
    <3>3. PICK i \in DOMAIN stack :
            /\ i < q /\ stack[i].op = "Visit"
            /\ \/ stack[i].d = s /\ stack[i].flags.in_specialization
               \/ stack[i].d \notin visited_ /\ s \in Range(ast.specializations[stack[i].d])
      BY <3>2 DEF ByTemplate
    <3>4. ASSUME Top.op = "Visit", Top.d \notin visited_, s \in Range(ast.specializations[Top.d])
          PROVE  \E k \in DOMAIN stack' : k < j /\ stack'[k].op = "Visit" /\ stack'[k].d = s /\ stack'[k].flags.in_specialization
      <4>1. PICK k \in DOMAIN todo : todo[k].op = "Visit" /\ todo[k].d = s /\ todo[k].flags.in_specialization
        BY <3>4 DEF Deeper
      <4>2. k < j
        BY <1>2, <3>1
      <4> QED BY <1>1, <4>1, <4>2
    <3>5. CASE i = 1
      <4>1. stack[1].d # s
        BY <1>2, <1>5, <3>3, <3>5 DEF Deeper
      <4> QED BY <1>2, <3>3, <3>4, <3>5, <4>1
    <3>6. CASE i > 1
      <4>1. PICK k : k = i - 1 + Len(todo)
        OBVIOUS
      <4>2. k \in DOMAIN stack' /\ stack'[k] = stack[i] /\ k < j
        BY <1>1, <1>2, <3>1, <3>3, <3>6, <4>1
      <4>3. CASE stack[i].d = s /\ stack[i].flags.in_specialization
        BY <3>3, <4>2, <4>3
      <4>4. CASE stack[i].d \notin visited_' /\ s \in Range(ast.specializations[stack[i].d])
        BY <3>3, <4>2, <4>4
      <4>5. CASE stack[i].d \in visited_' /\ stack[i].d \notin visited_ /\ s \in Range(ast.specializations[stack[i].d])
        <5>1. stack[i].d = Top.d /\ Top.op = "Visit"
          BY <4>5 DEF Deeper
        <5> QED BY <3>4, <4>5, <5>1
      <4> QED BY <3>3, <4>3, <4>4, <4>5
    <3> QED BY <1>2, <3>5, <3>6
  <2> QED BY <1>1, <1>5, <2>1, <2>2
<1> QED BY <1>3, <1>4, <1>5 DEF DeepInv, ByTemplate

\* A call of the file that is answered without calls is done with.
LEMMA OrderPop ==
  ASSUME IInv, OrderInv, Popped
  PROVE  OrderInv'
<1>1. PICK m \in Nat : FlatInv(m) /\ DeepInv(m)
  BY DEF OrderInv
<1>2. PICK n : n = Left(m, <<>>)
  OBVIOUS
<1>3. Shifted(<<>>) /\ ast' = ast /\ visited_' = visited_
  BY DEF Popped
<1>4. n \in Nat
  BY <1>2, <1>3, Positions
<1>5. ASSUME m = 0 PROVE \A x \in Inside(ast, Top.d) : x \in visited_
  <2>1. 1 \in DOMAIN stack /\ Top = stack[1]
    BY <1>3 DEF Shifted
  <2>2. Top.op = "Visit" /\ (ast.kind[Top.d] \in FileKinds => Top.d \notin visited_)
    BY <1>1, <1>5, <2>1 DEF FlatInv
  <2>3. Top.d \in visited_ /\ Top.d \in Decl
    BY <2>2 DEF Popped, IInv, TypeOK
  <2> QED BY <2>2, <2>3, InsideSplit, InstanceFacts
<1>6. FlatInv(n)'
  <2>1. \A x \in visited_' : x \in visited_ \/ ast.kind[x] \notin FileKinds
    BY <1>3
  <2>2. visited_ \subseteq visited_'
    BY <1>3
  <2>3. m = 0 => \A x \in Inside(ast, Top.d) : x \in visited_'
    BY <1>3, <1>5
  <2>4. PICK todo : todo = <<>>
    OBVIOUS
  <2> QED BY <1>1, <1>2, <1>3, <2>1, <2>2, <2>3, <2>4, FlatStays
<1>7. Deeper(<<>>)
  BY <1>3 DEF Deeper, Popped
<1>8. DeepInv(n)'
  <2>1. PICK todo : todo = <<>>
    OBVIOUS
  <2> QED BY <1>1, <1>2, <1>3, <1>7, <2>1, DeepStays
<1> QED BY <1>4, <1>6, <1>8 DEF OrderInv

\* What a handler leads to.
LEMMA HandlerLeads ==
  ASSUME IInv, NEW todo, Handled(todo), Top.d \in Instances(ast) => Top.flags.in_specialization,
         NEW y \in Leads(ast, Instances(ast), Top.d)
  PROVE  \E it \in Range(todo) : it.op = "Visit" /\ it.d = y
<1>1. AstShape(ast) /\ InstancesFollow(ast, Instances(ast)) /\ Top.d \in Decl /\ Top.flags \in Flags
  BY InstanceFacts DEF Handled
<1>2. CASE (ast.kind[Top.d] = "CXXRecord" /\ Top.d \notin ast.implicit) \/ Top.d \in Instances(ast)
  <2>1. /\ ast.kind[Top.d] \in RecordKinds /\ ast.kind[Top.d] \notin TemplateKinds
        /\ ast.kind[Top.d] # "Friend" /\ ~SkipRecord(Top.d, Top.flags)
    BY <1>1, <1>2, InstanceIs DEF RecordKinds, TemplateKinds, SkipRecord, InstancesFollow
  <2>2. y \in Range(ast.members[Top.d])
    BY <1>2, <2>1 DEF Leads
  <2>3. PICK g \in Seq(CallsOf(Top.d, Top.flags)) : todo = VisitEach(ast.members[Top.d], Top.flags) \o g
    BY <2>1 DEF Handled, Exact
  <2>4. PICK v \in Seq(CallsOf(Top.d, Top.flags)) : v = VisitEach(ast.members[Top.d], Top.flags)
    BY <1>1, <2>1, EachCall
  <2>5. Range(todo) = Range(v) \cup Range(g)
    BY <2>3, <2>4, CallRanges
  <2>6. ast.members[Top.d] \in Seq(Decl)
    BY <1>1 DEF AstShape
  <2>7. Visit(y, Top.flags) \in Range(v)
    BY <2>2, <2>4, <2>6, CallRanges
  <2> QED BY <2>5, <2>7 DEF Visit
<1>3. CASE ast.kind[Top.d] \in TemplateKinds
  <2>1. Top.d \notin Instances(ast) /\ ast.kind[Top.d] # "CXXRecord" /\ ast.kind[Top.d] # "Friend"
    BY <1>3, InstanceIs DEF TemplateKinds
  <2>2. y \in Range(ast.specializations[Top.d])
    BY <1>3, <2>1 DEF Leads
  <2>3. Visit(y, set_specialization(Top.flags)) \in Range(todo)
    BY <1>3, <2>2 DEF Handled, Exact
  <2> QED BY <2>3 DEF Visit
<1>4. CASE ast.kind[Top.d] = "Friend"
  <2>1. Top.d \notin Instances(ast) /\ ast.kind[Top.d] # "CXXRecord" /\ ast.kind[Top.d] \notin TemplateKinds
    BY <1>4, InstanceIs DEF TemplateKinds
  <2>2. y = ast.friendDecl[Top.d] /\ y # NoDecl
    BY <1>4, <2>1 DEF Leads
  <2>3. Visit(y, Top.flags) \in Range(todo)
    BY <1>4, <2>2 DEF Handled, Exact
  <2> QED BY <2>3 DEF Visit
<1>5. CASE /\ ~((ast.kind[Top.d] = "CXXRecord" /\ Top.d \notin ast.implicit) \/ Top.d \in Instances(ast))
           /\ ast.kind[Top.d] \notin TemplateKinds /\ ast.kind[Top.d] # "Friend"
  <2>1. Leads(ast, Instances(ast), Top.d) = {}
    BY <1>5 DEF Leads
  <2> QED BY <2>1
<1> QED BY <1>2, <1>3, <1>4, <1>5

\* A class that lists an instance lists its template before it.
LEMMA HandlerBefore ==
  ASSUME IInv, OwnInv, NEW todo, Handled(todo), ast.kind[Top.d] \notin FileKinds,
         NEW j \in DOMAIN todo, todo[j].op = "Visit", todo[j].d \in Instances(ast), ~todo[j].flags.in_specialization
  PROVE  \E i \in DOMAIN todo :
           /\ i < j /\ todo[i].op = "Visit" /\ todo[i].d \notin visited_'
           /\ todo[j].d \in Range(ast.specializations[todo[i].d])
<1>1. AstShape(ast) /\ InstancesFollow(ast, Instances(ast)) /\ Top.d \in Decl /\ Top.flags \in Flags
  BY InstanceFacts DEF Handled
<1>2. todo[j] \in CallsOf(Top.d, Top.flags) /\ todo[j].d \in Decl
  BY InstanceIs DEF Handled, Range
<1>3. ast.kind[Top.d] \in RecordKinds
  <2>1. set_specialization(Top.flags).in_specialization
    BY <1>1 DEF set_specialization, Flags
  <2>2. todo[j].d \notin {ast.templated[Top.d], ast.friendDecl[Top.d]}
    BY <1>1 DEF InstancesFollow
  <2> QED BY <1>1, <1>2, <2>1, <2>2, VisitSources
<1>4. PICK g \in Seq(CallsOf(Top.d, Top.flags)) :
        todo = VisitEach(ast.members[Top.d], Top.flags) \o g /\ \A it \in Range(g) : it.op = "go"
  <2>1. todo # <<>>
    OBVIOUS
  <2> QED BY <1>3, <2>1 DEF Handled, Exact
<1>5. PICK v \in Seq(CallsOf(Top.d, Top.flags)) : v = VisitEach(ast.members[Top.d], Top.flags)
  BY <1>1, <1>3, EachCall
<1>6. PICK s \in Seq(Decl) : s = ast.members[Top.d]
  BY <1>1 DEF AstShape
<1>7. /\ Len(s) \in Nat /\ DOMAIN s = 1 .. Len(s) /\ DOMAIN v = DOMAIN s
      /\ \A i \in DOMAIN s : v[i] = Visit(s[i], Top.flags)
  BY <1>5, <1>6 DEF VisitEach
<1>8. /\ Len(v) = Len(s) /\ Len(g) \in Nat
      /\ DOMAIN (v \o g) = 1 .. Len(v) + Len(g)
      /\ \A i \in 1 .. Len(v) + Len(g) : (v \o g)[i] = IF i <= Len(v) THEN v[i] ELSE g[i - Len(v)]
  BY <1>5, <1>7, ConcatProperties
<1>9. j \in DOMAIN s
  <2>0. PICK w : w = v \o g /\ w = todo
    BY <1>4, <1>5
  <2>1. j \in 1 .. Len(s) + Len(g) /\ todo[j] = IF j <= Len(s) THEN v[j] ELSE g[j - Len(s)]
    BY <1>7, <1>8, <2>0
  <2>2. ASSUME ~(j <= Len(s)) PROVE FALSE
    <3>1. j - Len(s) \in 1 .. Len(g) /\ todo[j] = g[j - Len(s)]
      BY <1>7, <1>8, <2>1, <2>2
    <3>2. todo[j] \in Range(g)
      BY <1>4, <3>1 DEF Range
    <3> QED BY <1>4, <3>2
  <2> QED BY <1>7, <2>1, <2>2
<1>10. \A i \in DOMAIN s : i \in DOMAIN todo /\ todo[i] = Visit(s[i], Top.flags)
  BY <1>4, <1>5, <1>7, <1>8
<1>11. /\ todo[j].d = s[j]
       /\ \A i \in DOMAIN s : i \in DOMAIN todo /\ todo[i].op = "Visit" /\ todo[i].d = s[i]
  <2>1. \A x, f : Visit(x, f).op = "Visit" /\ Visit(x, f).d = x
    BY DEF Visit
  <2>2. ASSUME NEW i \in DOMAIN s
        PROVE  i \in DOMAIN todo /\ todo[i].op = "Visit" /\ todo[i].d = s[i]
    <3>1. PICK it, x, f : it = todo[i] /\ x = s[i] /\ f = Top.flags
      OBVIOUS
    <3>2. i \in DOMAIN todo /\ it = Visit(x, f)
      BY <1>10, <2>2, <3>1
    <3>3. it.op = "Visit" /\ it.d = x
      BY <2>1, <3>2
    <3> QED BY <3>1, <3>2, <3>3
  <2> QED BY <1>9, <2>2
<1>12. PICK i \in 1 .. j - 1 :
         s[j] \in Range(ast.specializations[s[i]]) /\ OnlyIn(ast, s[i], Top.d)
  BY <1>1, <1>3, <1>6, <1>9, <1>11 DEF InstancesFollow
<1>13. i \in DOMAIN s /\ i < j
  BY <1>7, <1>9
<1>14. s[i] \notin visited_'
  <2>1. s[i] \in Range(ast.members[Top.d])
    BY <1>6, <1>13 DEF Range
  <2>2. s[i] \notin visited_ /\ ~Awaited(s[i])
    BY <1>1, <1>3, <1>12, <2>1 DEF OwnInv, Handled
  <2>3. Awaited(Top.d)
    BY DEF Handled, Awaited
  <2>4. s[i] # Top.d
    BY <2>2, <2>3
  <2>5. visited_' = visited_ \cup {Top.d}
    BY DEF Handled
  <2> QED BY <2>2, <2>4, <2>5
<1>15. todo[i].op = "Visit" /\ todo[i].d = s[i] /\ i \in DOMAIN todo
  BY <1>11, <1>13
<1> QED BY <1>11, <1>12, <1>13, <1>14, <1>15

\* A declaration that is no namespace.
LEMMA OrderHandler ==
  ASSUME IInv, OwnInv, OrderInv, NEW todo, Handled(todo), ast.kind[Top.d] \notin FileKinds
  PROVE  OrderInv'
<1>1. PICK m \in Nat : FlatInv(m) /\ DeepInv(m)
  BY DEF OrderInv
<1>2. PICK n : n = Left(m, todo)
  OBVIOUS
<1>3. /\ Shifted(todo) /\ ast' = ast /\ visited_' = visited_ \cup {Top.d} /\ Top.d \in Decl /\ Top.d \notin visited_
      /\ Top.op = "Visit" /\ Top.flags \in Flags
  BY DEF Handled
<1>4. n \in Nat
  BY <1>2, <1>3, Positions
<1>5. AstShape(ast) /\ ScopesNest(ast) /\ InstancesFollow(ast, Instances(ast))
  BY InstanceFacts
<1>6. FlatInv(n)'
  <2>1. /\ \A x \in visited_' : x \in visited_ \/ ast.kind[x] \notin FileKinds
        /\ visited_ \subseteq visited_'
    BY <1>3
  <2>2. \A x \in Inside(ast, Top.d) : x \in visited_'
    BY <1>3, <1>5, InsideSplit
  <2> QED BY <1>1, <1>2, <1>3, <2>1, <2>2, FlatStays
<1>7. Deeper(todo)
  <2>1. \A i \in DOMAIN todo : todo[i] \in CallsOf(Top.d, Top.flags) /\ todo[i] \in Range(todo)
    BY DEF Handled, Range
  <2>2. ASSUME NEW i \in DOMAIN todo, todo[i].op = "Visit" PROVE ast.kind[todo[i].d] \notin FileKinds
    <3>1. todo[i].d \in Decl
      BY <2>1 DEF CallsOf, Item
    <3>2. todo[i].d \in Referred(ast) \cup InClass(ast)
      <4>1. ASSUME todo[i].d \in Range(ast.members[Top.d]), ast.kind[Top.d] \in RecordKinds
            PROVE  todo[i].d \in InClass(ast)
        BY <1>3, <4>1 DEF InClass
      <4> QED BY <1>3, <1>5, <2>1, <2>2, <4>1, VisitSources
    <3> QED BY <1>5, <3>1, <3>2 DEF ScopesNest
  <2>3. Top.d \in Instances(ast) => Top.flags.in_specialization
    BY <1>3, TemplateFirst DEF Shifted
  <2>4. ASSUME NEW y \in Leads(ast, Instances(ast), Top.d)
        PROVE  \E i \in DOMAIN todo : todo[i].op = "Visit" /\ todo[i].d = y
    <3>1. PICK it \in Range(todo) : it.op = "Visit" /\ it.d = y
      BY <2>3, HandlerLeads
    <3> QED BY <3>1 DEF Range
  <2>5. ASSUME NEW s \in Range(ast.specializations[Top.d])
        PROVE  \E i \in DOMAIN todo : todo[i].op = "Visit" /\ todo[i].d = s /\ todo[i].flags.in_specialization
    <3>1. ast.specializations[Top.d] # <<>>
      BY CallRanges
    <3>2. ast.kind[Top.d] \in TemplateKinds
      BY <1>3, <1>5, <3>1 DEF InstancesFollow
    <3>3. Visit(s, set_specialization(Top.flags)) \in Range(todo)
      BY <3>2 DEF Handled, Exact
    <3>4. set_specialization(Top.flags).in_specialization
      BY <1>3 DEF set_specialization, Flags
    <3> QED BY <3>3, <3>4 DEF Range, Visit
  <2>6. ASSUME NEW j \in DOMAIN todo, todo[j].op = "Visit", todo[j].d \in Instances(ast), ~todo[j].flags.in_specialization
        PROVE  \E i \in DOMAIN todo :
                 /\ i < j /\ todo[i].op = "Visit" /\ todo[i].d \notin visited_'
                 /\ todo[j].d \in Range(ast.specializations[todo[i].d])
    BY <2>6, HandlerBefore
  <2> QED BY <1>3, <2>2, <2>4, <2>5, <2>6 DEF Deeper
<1>8. DeepInv(n)'
  BY <1>1, <1>2, <1>3, <1>7, DeepStays
<1> QED BY <1>4, <1>6, <1>8 DEF OrderInv

\* The calls of a namespace replace the one that entered it.
Opened(s, L) ==
  /\ s \in Seq(Decl) /\ s = ast.members[Top.d] /\ L = Len(s) /\ L \in Nat /\ DOMAIN s = 1 .. L
  /\ \A i \in DOMAIN s : i \in DOMAIN stack' /\ stack'[i].op = "Visit" /\ stack'[i].flags = NoFlags /\ stack'[i].d = s[i]
  /\ \A q \in DOMAIN stack : q > 1 => q - 1 + L \in DOMAIN stack' /\ stack'[q - 1 + L] = stack[q]
  /\ \A p \in DOMAIN stack' :
       p \in DOMAIN s \/ \E q \in DOMAIN stack : q > 1 /\ q - 1 + L = p /\ stack'[p] = stack[q]
  /\ 1 \in DOMAIN stack /\ Top = stack[1] /\ DOMAIN stack \subseteq Nat \ {0} /\ DOMAIN stack' \subseteq Nat \ {0}

\* A namespace is entered from the file.
LEMMA Opens ==
  ASSUME IInv, NEW todo, Handled(todo), ast.kind[Top.d] \in FileKinds, Top.flags = NoFlags
  PROVE  \E s, L : Opened(s, L)
<1>1. AstShape(ast)
  BY InstanceFacts
<1>2. Shifted(todo) /\ todo = VisitEach(ast.members[Top.d], NoFlags) /\ Top.d \in Decl
  BY DEF Handled, Exact
<1>3. PICK s \in Seq(Decl) : s = ast.members[Top.d]
  BY <1>1, <1>2 DEF AstShape
<1>4. PICK L : L = Len(s)
  OBVIOUS
<1>5. L \in Nat /\ DOMAIN s = 1 .. L
  BY <1>3, <1>4
<1>6. /\ DOMAIN todo = DOMAIN s
      /\ \A i \in DOMAIN s : todo[i].op = "Visit" /\ todo[i].flags = NoFlags /\ todo[i].d = s[i]
  BY <1>2, <1>3 DEF VisitEach, Visit
<1>7. Len(todo) = L /\ Len(todo) \in Nat
  BY <1>2, <1>5, <1>6 DEF Shifted
<1>8. /\ \A i \in DOMAIN s : i \in DOMAIN stack' /\ stack'[i].op = "Visit" /\ stack'[i].flags = NoFlags /\ stack'[i].d = s[i]
  BY <1>2, <1>6 DEF Shifted
<1>9. \A q \in DOMAIN stack : q > 1 => q - 1 + L \in DOMAIN stack' /\ stack'[q - 1 + L] = stack[q]
  BY <1>2, <1>7 DEF Shifted
<1>10. /\ 1 \in DOMAIN stack /\ Top = stack[1] /\ DOMAIN stack \subseteq Nat \ {0} /\ DOMAIN stack' \subseteq Nat \ {0}
  BY <1>2 DEF Shifted
<1>11. ASSUME NEW p \in DOMAIN stack', p \notin DOMAIN s
       PROVE  \E q \in DOMAIN stack : q > 1 /\ q - 1 + L = p /\ stack'[p] = stack[q]
  <2>1. PICK q : q = p - L + 1
    OBVIOUS
  <2>2. p > L /\ q \in DOMAIN stack /\ stack'[p] = stack[q]
    BY <1>2, <1>6, <1>7, <1>11, <2>1 DEF Shifted
  <2>3. q > 1 /\ q - 1 + L = p
    BY <1>5, <1>10, <2>1, <2>2
  <2> QED BY <2>2, <2>3
<1>12. Opened(s, L)
  BY <1>3, <1>4, <1>5, <1>8, <1>9, <1>10, <1>11 DEF Opened
<1> QED BY <1>12

\* What is in a namespace comes where the namespace was.
LEMMA OpenedOrder ==
  ASSUME IInv, FlatInv(0), NEW s, NEW L, Opened(s, L), Top.d \in Decl, ast.kind[Top.d] \in FileKinds,
         NEW p \in DOMAIN stack', NEW q \in DOMAIN stack', p < q,
         NEW x \in Inside(ast, stack'[p].d), NEW y \in Inside(ast, stack'[q].d)
  PROVE  Precedes(ast, x, y)
<1>1. AstShape(ast) /\ Top.d \in Scopes(ast)
  BY InstanceFacts DEF Scopes
<1>2. /\ s = ast.members[Top.d] /\ L \in Nat /\ DOMAIN s = 1 .. L /\ p \in Nat /\ q \in Nat
      /\ 1 \in DOMAIN stack /\ Top = stack[1] /\ DOMAIN stack \subseteq Nat \ {0}
  BY DEF Opened
<1>3. CASE p \in DOMAIN s /\ q \in DOMAIN s
  <2>1. x \in Inside(ast, s[p]) /\ y \in Inside(ast, s[q])
    BY <1>3 DEF Opened
  <2> QED BY <1>1, <1>2, <1>3, <2>1 DEF Precedes
<1>4. CASE p \in DOMAIN s /\ q \notin DOMAIN s
  <2>1. PICK k \in DOMAIN stack : k > 1 /\ stack'[q] = stack[k]
    BY <1>4 DEF Opened
  <2>2. s[p] \in Range(ast.members[Top.d]) /\ x \in Inside(ast, s[p])
    BY <1>2, <1>4 DEF Opened, Range
  <2>3. x \in Inside(ast, stack[1].d)
    BY <1>1, <1>2, <2>2, InsideMember
  <2>4. 0 < 1 /\ 1 < k
    BY <1>2, <2>1
  <2> QED BY <1>2, <2>1, <2>3, <2>4 DEF FlatInv
<1>5. CASE p \notin DOMAIN s
  <2>1. PICK k \in DOMAIN stack : k > 1 /\ k - 1 + L = p /\ stack'[p] = stack[k]
    BY <1>5 DEF Opened
  <2>2. q \notin DOMAIN s
    BY <1>2, <2>1
  <2>3. PICK l \in DOMAIN stack : l > 1 /\ l - 1 + L = q /\ stack'[q] = stack[l]
    BY <2>2 DEF Opened
  <2>4. 0 < k /\ k < l
    BY <1>2, <2>1, <2>3
  <2> QED BY <2>1, <2>3, <2>4 DEF FlatInv
<1> QED BY <1>3, <1>4, <1>5

\* A namespace.
LEMMA OrderOpens ==
  ASSUME IInv, PlaceInv, OrderInv, NEW todo, Handled(todo), ast.kind[Top.d] \in FileKinds
  PROVE  OrderInv'
<1>1. PICK m \in Nat : FlatInv(m) /\ DeepInv(m)
  BY DEF OrderInv
<1>2. /\ Shifted(todo) /\ ast' = ast /\ visited_' = visited_ \cup {Top.d} /\ Top.d \in Decl /\ Top.d \notin visited_
      /\ Top.op = "Visit" /\ 1 \in DOMAIN stack /\ Top = stack[1]
  BY DEF Handled, Shifted
<1>3. m = 0
  <2>1. ~(1 <= m)
    BY <1>1, <1>2 DEF DeepInv
  <2> QED BY <2>1
<1>4. FlatInv(0) /\ DeepInv(0)
  BY <1>1, <1>3
<1>5. Top.flags = NoFlags
  <2>1. 1 > 0
    OBVIOUS
  <2> QED BY <1>2, <1>4, <2>1 DEF FlatInv
<1>6. PICK s, L : Opened(s, L)
  BY <1>5, Opens
<1>7. AstShape(ast) /\ InstancesFollow(ast, Instances(ast)) /\ Top.d \in Scopes(ast)
  BY <1>2, InstanceFacts DEF Scopes
<1>8. /\ s = ast.members[Top.d] /\ L \in Nat /\ DOMAIN s = 1 .. L /\ DOMAIN stack \subseteq Nat \ {0}
      /\ DOMAIN stack' \subseteq Nat \ {0} /\ s \in Seq(Decl)
  BY <1>6 DEF Opened
<1>9. ASSUME NEW i \in DOMAIN s, ast.kind[s[i]] \in FileKinds
      PROVE  s[i] \notin visited_ /\ ~Awaited(s[i]) /\ s[i] # Top.d
  <2>1. s[i] \in Range(ast.members[Top.d])
    BY <1>8 DEF Range
  <2>2. Top.d \notin visited_ \cup {TU}
    BY <1>2, ConstantAssumption
  <2>3. s[i] \notin visited_ /\ ~Awaited(s[i])
    BY <1>7, <1>9, <2>1, <2>2 DEF PlaceInv
  <2>4. Awaited(Top.d)
    BY <1>2 DEF Handled, Awaited
  <2> QED BY <2>3, <2>4
<1>10. ASSUME NEW q \in DOMAIN stack PROVE stack[q].op = "Visit" /\ Awaited(stack[q].d)
  <2>1. q > 0
    BY <1>8
  <2>2. stack[q].op = "Visit"
    BY <1>4, <2>1 DEF FlatInv
  <2>3. stack[q] \in Range(stack)
    BY DEF Range
  <2> QED BY <2>2, <2>3 DEF Awaited
<1>11. FlatInv(0)'
  <2>1. ASSUME NEW p \in DOMAIN stack'
        PROVE  /\ stack'[p].op = "Visit" /\ stack'[p].flags = NoFlags
               /\ \E c \in Scopes(ast) : stack'[p].d \in Range(ast.members[c])
    <3>1. CASE p \in DOMAIN s
      <4>1. s[p] \in Range(ast.members[Top.d])
        BY <1>8, <3>1 DEF Range
      <4>2. stack'[p].op = "Visit" /\ stack'[p].flags = NoFlags /\ stack'[p].d = s[p]
        BY <1>6, <3>1 DEF Opened
      <4> QED BY <1>7, <4>1, <4>2
    <3>2. CASE p \notin DOMAIN s
      <4>1. PICK k \in DOMAIN stack : k > 1 /\ stack'[p] = stack[k]
        BY <1>6, <3>2 DEF Opened
      <4>2. k > 0
        BY <1>8
      <4> QED BY <1>4, <4>1, <4>2 DEF FlatInv
    <3> QED BY <3>1, <3>2
  <2>2. ASSUME NEW p \in DOMAIN stack', NEW q \in DOMAIN stack', p < q,
               NEW x \in Inside(ast, stack'[p].d), NEW y \in Inside(ast, stack'[q].d)
        PROVE  Precedes(ast, x, y)
    BY <1>2, <1>4, <1>6, <2>2, OpenedOrder
  <2>3. ASSUME NEW x \in InFile(ast), x \notin visited_'
        PROVE  \E p \in DOMAIN stack' : p > 0 /\ x \in Inside(ast, stack'[p].d)
    <3>1. x \notin visited_ /\ x # Top.d
      BY <1>2, <2>3
    <3>2. PICK q \in DOMAIN stack : x \in Inside(ast, stack[q].d)
      BY <1>4, <3>1 DEF FlatInv
    <3>3. CASE q = 1
      <4>1. PICK y \in Range(ast.members[Top.d]) : x \in Inside(ast, y)
        BY <1>2, <1>7, <3>1, <3>2, <3>3, InsideSplit
      <4>2. PICK i \in DOMAIN s : y = s[i]
        BY <1>8 DEF Range
      <4>3. i \in DOMAIN stack' /\ stack'[i].d = y
        BY <1>6, <4>2 DEF Opened
      <4> QED BY <1>8, <4>1, <4>2, <4>3
    <3>4. CASE q # 1
      <4>1. q > 1
        BY <1>8, <3>4
      <4>2. q - 1 + L \in DOMAIN stack' /\ stack'[q - 1 + L] = stack[q]
        BY <1>6, <4>1 DEF Opened
      <4>3. q - 1 + L > 0
        BY <1>8, <4>1
      <4> QED BY <3>2, <4>2, <4>3
    <3> QED BY <3>3, <3>4
  <2>4. ASSUME NEW p \in DOMAIN stack', ast.kind[stack'[p].d] \in FileKinds
        PROVE  /\ stack'[p].d \notin visited_'
               /\ \A q \in DOMAIN stack' : stack'[q].d = stack'[p].d => q = p
    <3>1. CASE p \in DOMAIN s
      <4>1. stack'[p].d = s[p]
        BY <1>6, <3>1 DEF Opened
      <4>2. s[p] \notin visited_ /\ ~Awaited(s[p]) /\ s[p] # Top.d
        BY <1>9, <2>4, <3>1, <4>1
      <4>3. ASSUME NEW q \in DOMAIN stack', stack'[q].d = stack'[p].d PROVE q = p
        <5>1. CASE q \in DOMAIN s
          <6>1. s[q] = s[p]
            BY <1>6, <4>1, <4>3, <5>1 DEF Opened
          <6> QED BY <1>7, <1>8, <2>4, <3>1, <4>1, <5>1, <6>1 DEF InstancesFollow
        <5>2. CASE q \notin DOMAIN s
          <6>1. PICK k \in DOMAIN stack : stack'[q] = stack[k]
            BY <1>6, <5>2 DEF Opened
          <6> QED BY <1>10, <4>1, <4>2, <4>3, <6>1
        <5> QED BY <5>1, <5>2
      <4> QED BY <1>2, <4>1, <4>2, <4>3
    <3>2. CASE p \notin DOMAIN s
      <4>1. PICK k \in DOMAIN stack : k > 1 /\ k - 1 + L = p /\ stack'[p] = stack[k]
        BY <1>6, <3>2 DEF Opened
      <4>2. /\ stack[k].d \notin visited_
            /\ \A q \in DOMAIN stack : q > 0 /\ stack[q].d = stack[k].d => q = k
        <5>1. k > 0
          BY <1>8
        <5> QED BY <1>4, <2>4, <4>1, <5>1 DEF FlatInv
      <4>3. stack[k].d # Top.d
        <5>1. 1 # k /\ 1 > 0
          BY <1>8, <4>1
        <5> QED BY <1>2, <4>2, <5>1
      <4>4. ASSUME NEW q \in DOMAIN stack', stack'[q].d = stack'[p].d PROVE q = p
        <5>1. CASE q \in DOMAIN s
          <6>1. stack'[q].d = s[q]
            BY <1>6, <5>1 DEF Opened
          <6> QED BY <1>9, <1>10, <2>4, <4>1, <4>4, <5>1, <6>1
        <5>2. CASE q \notin DOMAIN s
          <6>1. PICK l \in DOMAIN stack : l > 1 /\ l - 1 + L = q /\ stack'[q] = stack[l]
            BY <1>6, <5>2 DEF Opened
          <6>2. l > 0
            BY <1>8
          <6>3. l = k
            BY <4>1, <4>2, <4>4, <6>1, <6>2
          <6> QED BY <4>1, <6>1, <6>3
        <5> QED BY <5>1, <5>2
      <4> QED BY <1>2, <4>1, <4>2, <4>3, <4>4
    <3> QED BY <3>1, <3>2
  <2> QED BY <1>2, <2>1, <2>2, <2>3, <2>4 DEF FlatInv
<1>12. DeepInv(0)'
  <2>1. \A j \in DOMAIN stack' : ~(j <= 0)
    BY <1>8
  <2>2. \A j \in DOMAIN stack : ~(j <= 0)
    BY <1>8
  <2>3. Leads(ast, Instances(ast), Top.d) = {}
    <3>1. Top.d \notin Instances(ast)
      BY InstanceIs DEF FileKinds
    <3>2. ast.kind[Top.d] \notin {"CXXRecord", "Friend"} \cup TemplateKinds
      BY DEF FileKinds, TemplateKinds
    <3> QED BY <3>1, <3>2 DEF Leads
  <2>4. ASSUME NEW x \in visited_', NEW y \in Leads(ast, Instances(ast), x) PROVE y \in visited_'
    <3>1. x \in visited_
      BY <1>2, <2>3, <2>4
    <3>2. y \in visited_
      BY <1>4, <2>2, <2>4, <3>1 DEF DeepInv
    <3> QED BY <1>2, <3>2
  <2> QED BY <1>2, <2>1, <2>4 DEF DeepInv
<1> QED BY <1>11, <1>12 DEF OrderInv

InstanceInv == PlaceInv /\ OwnInv /\ ReachedInv /\ PlainInv /\ KeptInv /\ OrderInv

\* At first there are only the calls of the file.
LEMMA OrderInit == Init => OrderInv
<1> SUFFICES ASSUME Init PROVE OrderInv
  OBVIOUS
<1>1. AstShape(ast) /\ InstancesFollow(ast, Instances(ast)) /\ TU \in Scopes(ast)
  BY AstAssumption, InstanceAssumption DEF Init, Scopes
<1>2. PICK s \in Seq(Decl) : s = ast.members[TU]
  BY <1>1 DEF AstShape
<1>3. /\ DOMAIN stack = DOMAIN s /\ visited_ = {} /\ DOMAIN s \subseteq Nat \ {0}
      /\ \A i \in DOMAIN s : stack[i].op = "Visit" /\ stack[i].flags = NoFlags /\ stack[i].d = s[i]
  BY <1>2 DEF Init, VisitEach, Visit
<1>4. \A i \in DOMAIN s : s[i] \in Range(ast.members[TU])
  BY <1>2 DEF Range
<1>5. FlatInv(0)
  <2>1. ASSUME NEW p \in DOMAIN stack, NEW q \in DOMAIN stack, p < q,
               NEW x \in Inside(ast, stack[p].d), NEW y \in Inside(ast, stack[q].d)
        PROVE  Precedes(ast, x, y)
    <3>1. x \in Inside(ast, s[p]) /\ y \in Inside(ast, s[q]) /\ p \in DOMAIN s /\ q \in DOMAIN s
      BY <1>3, <2>1
    <3> QED BY <1>1, <1>2, <2>1, <3>1 DEF Precedes
  <2>2. ASSUME NEW x \in InFile(ast)
        PROVE  \E p \in DOMAIN stack : p > 0 /\ x \in Inside(ast, stack[p].d)
    <3>1. PICK y \in Range(ast.members[TU]) : x \in Inside(ast, y)
      BY <1>1, InFileSplit
    <3>2. PICK i \in DOMAIN s : y = s[i]
      BY <1>2 DEF Range
    <3> QED BY <1>3, <3>1, <3>2
  <2>3. ASSUME NEW p \in DOMAIN stack, ast.kind[stack[p].d] \in FileKinds,
               NEW q \in DOMAIN stack, stack[q].d = stack[p].d
        PROVE  q = p
    <3>1. s[p] = s[q] /\ ast.kind[s[p]] \in FileKinds /\ p \in DOMAIN s /\ q \in DOMAIN s
      BY <1>3, <2>3
    <3> QED BY <1>1, <1>2, <3>1 DEF InstancesFollow
  <2> QED BY <1>1, <1>3, <1>4, <2>1, <2>2, <2>3 DEF FlatInv
<1>6. DeepInv(0)
  <2>1. \A j \in DOMAIN stack : ~(j <= 0)
    BY <1>3
  <2> QED BY <1>3, <2>1 DEF DeepInv
<1> QED BY <1>5, <1>6 DEF OrderInv

\* Nothing is visited yet.
LEMMA InstanceInit == Init => InstanceInv
<1> SUFFICES ASSUME Init PROVE InstanceInv
  OBVIOUS
<1>1. AstShape(ast) /\ InstancesFollow(ast, Instances(ast))
  BY AstAssumption, InstanceAssumption DEF Init
<1>2. ast.members[TU] \in Seq(Decl)
  BY <1>1 DEF AstShape
<1>3. visited_ = {} /\ Range(stack) = {Visit(x, NoFlags) : x \in Range(ast.members[TU])}
  BY <1>2, CallRanges DEF Init
<1>4. \A x : /\ Visit(x, NoFlags).op = "Visit" /\ Visit(x, NoFlags).d = x
             /\ Visit(x, NoFlags).flags = NoFlags
  BY DEF Visit
<1>5. \A x : Awaited(x) <=> x \in Range(ast.members[TU])
  BY <1>3, <1>4 DEF Awaited
<1>6. PlaceInv
  <2>1. ASSUME NEW c \in Scopes(ast), NEW n \in Range(ast.members[c]), ast.kind[n] \in FileKinds,
               n \in Range(ast.members[TU])
        PROVE  c = TU
    <3>1. PICK i \in DOMAIN ast.members[c] : n = ast.members[c][i]
      BY DEF Range
    <3>2. PICK j \in DOMAIN ast.members[TU] : n = ast.members[TU][j]
      BY <2>1 DEF Range
    <3>3. TU \in Scopes(ast)
      BY DEF Scopes
    <3> QED BY <1>1, <2>1, <3>1, <3>2, <3>3 DEF InstancesFollow
  <2> QED BY <1>3, <1>5, <2>1 DEF PlaceInv
<1>7. OwnInv
  BY <1>3, <1>5 DEF OwnInv, OnlyIn
<1>8. ReachedInv
  BY <1>1, <1>3, <1>5, ReachedClosed DEF ReachedInv
<1>9. PlainInv
  <2>1. ~NoFlags.in_template
    BY DEF NoFlags
  <2> QED BY <1>3, <1>4, <2>1 DEF PlainInv
<1>10. KeptInv
  BY <1>3 DEF KeptInv
<1> QED BY <1>6, <1>7, <1>8, <1>9, <1>10, OrderInit DEF InstanceInv

\* Every step preserves the invariant.
LEMMA InstanceStep == EverythingKept /\ IInv /\ MembersInv /\ InstanceInv /\ [Next]_vars => InstanceInv'
<1> SUFFICES ASSUME EverythingKept, IInv, MembersInv, InstanceInv, [Next]_vars PROVE InstanceInv'
  OBVIOUS
<1>1. PlaceInv /\ OwnInv /\ ReachedInv /\ PlainInv /\ KeptInv /\ OrderInv
  BY DEF InstanceInv
<1>2. CASE UNCHANGED vars
  BY <1>1, <1>2 DEF vars, InstanceInv, PlaceInv, OwnInv, ReachedInv, PlainInv, KeptInv, OrderInv, FlatInv, DeepInv,
     ByTemplate, Instantiated, Kept, Awaited
<1>3. CASE VisitAgain \/ Go
  <2>1. Popped
    BY <1>3, PopStep
  <2>2. PlaceInv' /\ OwnInv' /\ ReachedInv' /\ PlainInv'
    BY <1>1, <2>1, SetsPop
  <2>3. KeptInv'
    BY <1>1, <1>3, KeptPop
  <2>4. OrderInv'
    BY <1>1, <2>1, OrderPop
  <2> QED BY <2>2, <2>3, <2>4 DEF InstanceInv
<1>4. CASE Next /\ ~VisitAgain /\ ~Go
  <2>1. PICK todo : Handled(todo)
    BY <1>4, HandlerStep
  <2>2. PlaceInv' /\ OwnInv' /\ PlainInv'
    BY <1>1, <2>1, PlaceHandler, OwnHandler, PlainHandler
  <2>3. ReachedInv'
    BY <1>1, <2>1, ReachedHandler
  <2>4. Top.d \in Instances(ast) => Top.flags.in_specialization
    BY <1>1, <2>1, TemplateFirst DEF Handled, Shifted
  <2>5. KeptInv'
    BY <1>1, <2>1, <2>4, KeptHandler
  <2>6. CASE ast.kind[Top.d] \in FileKinds
    BY <1>1, <2>1, <2>2, <2>3, <2>5, <2>6, OrderOpens DEF InstanceInv
  <2>7. CASE ast.kind[Top.d] \notin FileKinds
    BY <1>1, <2>1, <2>2, <2>3, <2>5, <2>7, OrderHandler DEF InstanceInv
  <2> QED BY <2>6, <2>7
<1> QED BY <1>2, <1>3, <1>4

\* With no calls left, what a visited template leads to is visited.
LEMMA InstancesAtEnd ==
  ASSUME IInv, InstanceInv
  PROVE  InstancesRecorded
<1> SUFFICES ASSUME Done, NEW t \in visited_, NEW s \in ClassInstances(t)
             PROVE  s \in Range(template_definitions_) /\ (~templates_ => s \in Range(definitions_))
  BY DEF InstancesRecorded
<1>1. AstShape(ast) /\ InstancesFollow(ast, Instances(ast)) /\ t \in Decl /\ ast.specializations[t] \in Seq(Decl)
  BY InstanceFacts DEF IInv, TypeOK, AstShape
<1>2. /\ s \in Range(ast.specializations[t]) /\ ast.kind[s] = "ClassTemplateSpecialization"
      /\ ast.definition[s] = s /\ s \notin ast.dependent
  BY DEF ClassInstances
<1>3. s \in Decl
  BY <1>1, <1>2 DEF Range
<1>4. s \in Instances(ast)
  BY <1>2, <1>3 DEF Instances, InstanceInv, ReachedInv
<1>5. s \in visited_
  <2>1. ast.kind[t] \in TemplateKinds
    <3>1. ast.specializations[t] # <<>>
      BY <1>2, CallRanges
    <3> QED BY <1>1, <3>1 DEF InstancesFollow
  <2>2. ast.kind[t] \notin {"CXXRecord", "Friend"} /\ t \notin Instances(ast)
    BY <2>1, InstanceIs DEF TemplateKinds
  <2>3. s \in Leads(ast, Instances(ast), t)
    BY <1>2, <2>1, <2>2 DEF Leads
  <2>4. DOMAIN stack = {}
    BY DEF Done
  <2>5. PICK m \in Nat : DeepInv(m)
    BY DEF InstanceInv, OrderInv
  <2> QED BY <2>3, <2>4, <2>5 DEF DeepInv
<1>6. Range(stack) = {}
  BY DEF Done, Range
<1> QED BY <1>4, <1>5, <1>6 DEF InstanceInv, KeptInv, Instantiated, Kept

\* When everything is kept, the traversal ends with every instance of a visited
\* class template among the instances, and without -templates in the module
\* too, for every AST: the first visit of an instance comes from its template
\* with in_specialization, although its explicit instantiation stands in the
\* file or in a class as well and a second visit does nothing.
THEOREM InstancesAreRecorded == EverythingKept => (Spec => []InstancesRecorded)
<1> SUFFICES ASSUME EverythingKept PROVE Spec => []InstancesRecorded
  OBVIOUS
<1>1. IInv /\ MembersInv /\ [Next]_vars => MembersInv'
  BY MembersStep
<1>2. IInv /\ MembersInv /\ InstanceInv /\ [Next]_vars => InstanceInv'
  BY InstanceStep
<1>3. IInv /\ InstanceInv => InstancesRecorded
  BY InstancesAtEnd
<1> QED BY <1>1, <1>2, <1>3, InitEstablishes, NextPreserves, MembersInit, InstanceInit, PTL DEF Spec
==============================================================================

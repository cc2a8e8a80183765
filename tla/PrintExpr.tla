------------------------------- MODULE PrintExpr -------------------------------
(***************************************************************************)
(* The expression printer (src/src/PrintExpr.cpp) with the names it gives  *)
(* to values that an expression uses without a variable: the operand of    *)
(* x ?: y, the array and the index of an array copy, the object of a       *)
(* structured binding (src/include/OpaqueNames.hpp,                        *)
(* src/src/PrintLocalDecl.cpp).                                            *)
(*                                                                         *)
(* The printer is recursive: a frame of the stack is a handler, with what  *)
(* it still has to do.  The expression is chosen as the printer gets to    *)
(* it, among those clang can build.  Of the output, the model keeps the    *)
(* names and what they stand for when Coq reads them: Eif2,                *)
(* Earrayloop_init and Ddecompose bind names, innermost first              *)
(* (theories/lang/cpp/logic/expr.v).                                       *)
(***************************************************************************)
EXTENDS Integers, Sequences, FiniteSets

CONSTANTS
  MaxNodes,     \* bound on the expressions that have subexpressions
  MaxArgs       \* bound on the arguments of a call or a list

ASSUME PrintExprAssumption ==
  /\ MaxNodes \in Nat /\ MaxArgs \in Nat

VARIABLES
  stack,   \* the active handlers, outermost first
  lists,   \* the OpaqueNames objects created so far
  values,  \* number of OpaqueValueExprs met
  shared,  \* those of default arguments that have been printed
  refs,    \* the names printed for references, with what they stand for
  size     \* number of expressions met that have subexpressions

vars == <<stack, lists, values, shared, refs, size>>

(***************************************************************************)
(* struct OpaqueNames.  anonymous holds at most one declaration, since     *)
(* every local declaration has an object of its own.                       *)
(***************************************************************************)
NoNames == [indexes |-> <<>>, anonymous |-> <<>>, index_count |-> -1]

fresh_AfterPush(ls, li) == Len(ls[li].indexes) + 1

fresh(ls, li) == Len(ls[li].indexes)

\* The loop of find and of find_anon: the first index from 0, -1 for none.
FirstIndex(is, e) ==
  IF \E i \in DOMAIN is : is[i] = e
  THEN (CHOOSE i \in DOMAIN is : is[i] = e /\ \A j \in 1 .. i - 1 : is[j] # e) - 1
  ELSE -1

find(ls, li, e) == FirstIndex(ls[li].indexes, e)

push_back(ls, li, e) == [ls EXCEPT ![li].indexes = Append(@, e)]

inc_index_count(li) == [lists EXCEPT ![li].index_count = @ + 1]

dec_index_count_Never(li) == lists

dec_index_count(li) == [lists EXCEPT ![li].index_count = @ - 1]

push_anon(li, e) == [lists EXCEPT ![li].anonymous = Append(@, e)]

pop_anon(li) == [lists EXCEPT ![li].anonymous = SubSeq(@, 1, Len(@) - 1)]

find_anon_Last(ls, li, e) == Len(ls[li].anonymous)

find_anon(ls, li, e) == FirstIndex(ls[li].anonymous, e)

(***************************************************************************)
(* What the handlers do with their subexpressions: "li" prints the next    *)
(* one with the names of the handler, "new" with a new OpaqueNames; "inc", *)
(* "dec" and the rest are the calls on OpaqueNames between them.           *)
(***************************************************************************)
Args(n) == {[i \in 1 .. k |-> "li"] : k \in n .. n + MaxArgs}

UnaryOperatorCode == {<<"li">>}
BinaryOperatorCode == {<<"li", "li">>}
\* Comma, LAnd and LOr.
SequencedCode == {<<"new", "new">>}
CallExprCode == Args(1)
CastExprCode == {<<"li">>}
NamedCastExprCode == {<<"li">>}
\* Literals, this, nullptr, lambdas, traits, initializations without operands.
LiteralCode == {<<>>}
MemberExprCode == {<<"li">>}
SubscriptCode == {<<"li", "li">>}
ConstructExprCode == Args(0)
MemberCallExprCode == Args(1)
ConditionalCode == {<<"li", "li", "li">>}
ListCode == Args(0)
TypeTraitCode == {<<>>, <<"li">>}
NewDeleteCode == Args(0)
TemporaryCode == {<<"li">>}
AtomicCode == Args(0)
PseudoDestructorCode == {<<"new">>}
ConstructorConversionCode == {<<"new">>}
If2Code == <<"li", "inc", "li", "li", "li", "dec">>
LoopCode == <<"li", "inc", "li", "dec">>
\* Two bindings.
DecomposeCode == <<"li", "push", "li", "li", "pop">>

OperandCodes ==
  UnaryOperatorCode \cup BinaryOperatorCode \cup CallExprCode \cup CastExprCode
    \cup NamedCastExprCode \cup LiteralCode \cup MemberExprCode \cup SubscriptCode
    \cup ConstructExprCode \cup MemberCallExprCode \cup ConditionalCode \cup ListCode
    \cup TypeTraitCode \cup NewDeleteCode \cup TemporaryCode \cup AtomicCode

(***************************************************************************)
(* Frames.  name is what the binder has printed; level what follows it in  *)
(* an array loop; pc is the next step of code.                             *)
(***************************************************************************)
Frame(kind, code, li, value, name) ==
  [kind |-> kind, code |-> code, li |-> li, value |-> value, name |-> name, level |-> -1, pc |-> 1]

Top == stack[Len(stack)]

Active == stack # <<>> /\ Top.pc <= Len(Top.code)

Step == Top.code[Top.pc]

\* The next step prints a subexpression.
Printing == Active /\ Step \in {"li", "new"}

Advanced == [stack EXCEPT ![Len(stack)].pc = @ + 1]

\* The names the subexpression is printed with, and all the objects then:
\* ClangPrinter::printExpr without names makes new ones.
Names == IF Step = "new" THEN Len(lists) + 1 ELSE Top.li

Lists == IF Step = "new" THEN Append(lists, NoNames) ELSE lists

(***************************************************************************)
(* What clang builds.  A path is the frames above frame j.                 *)
(***************************************************************************)
Above(j) == {stack[i] : i \in j + 1 .. Len(stack)}

\* The handler is at its n-th step.
At(f, n) == f.pc = n

Plainly(f) == f.kind \in {"operand", "conversion"} \/ (f.kind = "loop" /\ At(f, 1))

\* The value of x ?: y occurs in its condition and its second operand, that of
\* a loop in its body, under operators and, for a loop in a loop, in the array
\* the inner one copies.  Only the second operand of x ?: y is converted to
\* the type of y, by a call of a constructor below the conversion.
MayRefer(j) ==
  /\ \/ stack[j].kind = "if2" /\ \E n \in {3, 4} : At(stack[j], n)
     \/ stack[j].kind = "loop" /\ At(stack[j], 3)
  /\ \A f \in Above(j) :
       /\ Plainly(f)
       /\ f.kind = "conversion" => stack[j].kind = "if2" /\ At(stack[j], 4)
  /\ Top.kind # "conversion"

\* An index belongs to the loop in whose body it occurs.
MayIndex(j) == stack[j].kind = "loop" /\ MayRefer(j)

\* The bindings project from the object.
MayProject(j) ==
  /\ stack[j].kind = "decompose" /\ \E n \in {3, 4} : At(stack[j], n)
  /\ \A f \in Above(j) : f.kind = "operand"

(***************************************************************************)
(* What Coq reads: the innermost binder of the name, in the part of the    *)
(* term where the name is bound.                                           *)
(***************************************************************************)
Binds(f, kinds) == f.kind \in kinds /\ f.pc > 1

Innermost(S) == IF S = {} THEN 0 ELSE CHOOSE j \in S : \A k \in S : k <= j

OpaqueBinder(n) ==
  Innermost({j \in DOMAIN stack : Binds(stack[j], {"if2", "loop"}) /\ stack[j].name = n})

IndexBinder(n) == Innermost({j \in DOMAIN stack : Binds(stack[j], {"loop"}) /\ stack[j].level = n})

AnonBinder(n) == Innermost({j \in DOMAIN stack : Binds(stack[j], {"decompose"}) /\ stack[j].name = n})

\* apart: printed with another OpaqueNames than the binder.  foreign: read as
\* bound by an expression with another OpaqueNames.  again: its value has an
\* older name in the binder's OpaqueNames.
Ref(kind, n, meant, read) ==
  [kind |-> kind, name |-> n, meant |-> meant, read |-> read, apart |-> Names # stack[meant].li,
   foreign |-> read # 0 /\ stack[read].li # stack[meant].li,
   again |-> LET is == lists[stack[meant].li].indexes
             IN \E a, b \in DOMAIN is : a # b /\ is[a] = stack[meant].value /\ is[b] = stack[meant].value]

(***************************************************************************)
(* The handlers.                                                           *)
(***************************************************************************)
Enter(f) ==
  /\ size < MaxNodes
  /\ size' = size + 1
  /\ stack' = Append(stack, f)

\* A handler without subexpressions.
VisitLeaf ==
  /\ Printing
  /\ stack' = Advanced
  /\ lists' = Lists
  /\ UNCHANGED <<values, shared, refs, size>>

\* A handler with no names of its own.
VisitOperand ==
  /\ Printing
  /\ \E c \in OperandCodes \ LiteralCode : Enter(Frame("operand", c, Names, 0, -1))
  /\ lists' = Lists
  /\ UNCHANGED <<values, shared, refs>>

\* VisitBinaryOperator and VisitCXXPseudoDestructorExpr.
VisitSequenced ==
  /\ Printing
  /\ \E c \in SequencedCode \cup PseudoDestructorCode : Enter(Frame("sequenced", c, Names, 0, -1))
  /\ lists' = Lists
  /\ UNCHANGED <<values, shared, refs>>

\* VisitCastExpr, the first case.
VisitConstructorConversion ==
  /\ Printing
  /\ \E c \in ConstructorConversionCode : Enter(Frame("conversion", c, Names, 0, -1))
  /\ lists' = Lists
  /\ UNCHANGED <<values, shared, refs>>

\* VisitBinaryConditionalOperator: of a default argument, it may have been
\* printed before, though not around itself.
VisitBinaryConditionalOperator ==
  /\ Printing
  /\ \E v \in {values + 1} \cup (shared \ {stack[j].value : j \in DOMAIN stack}) :
       /\ Enter(Frame("if2", If2Code, Names, v, fresh(Lists, Names)))
       /\ lists' = push_back(Lists, Names, v)
       /\ values' = IF v > values THEN v ELSE values
  /\ UNCHANGED <<shared, refs>>

VisitArrayInitLoopExpr ==
  /\ Printing
  /\ values' = values + 1
  /\ Enter(Frame("loop", LoopCode, Names, values + 1, fresh(Lists, Names)))
  /\ lists' = push_back(Lists, Names, values + 1)
  /\ UNCHANGED <<shared, refs>>

\* inc_index_count; a loop prints the level next.
IncIndexCount_LevelFirst ==
  /\ Active /\ Step = "inc"
  /\ lists' = inc_index_count(Top.li)
  /\ stack' = [Advanced EXCEPT ![Len(stack)].level =
                 IF Top.kind = "loop" THEN lists[Top.li].index_count ELSE @]
  /\ UNCHANGED <<values, shared, refs, size>>

IncIndexCount ==
  /\ Active /\ Step = "inc"
  /\ lists' = inc_index_count(Top.li)
  /\ stack' = [Advanced EXCEPT ![Len(stack)].level =
                 IF Top.kind = "loop" THEN lists[Top.li].index_count + 1 ELSE @]
  /\ UNCHANGED <<values, shared, refs, size>>

DecIndexCount ==
  /\ Active /\ Step = "dec"
  /\ lists' = dec_index_count(Top.li)
  /\ stack' = Advanced
  /\ UNCHANGED <<values, shared, refs, size>>

\* VisitDecompositionDecl, between the initializer and the bindings, and at
\* the end.
PushAnon ==
  /\ Active /\ Step = "push"
  /\ lists' = push_anon(Top.li, Len(stack))
  /\ stack' = [Advanced EXCEPT ![Len(stack)].name = Len(lists[Top.li].anonymous)]
  /\ UNCHANGED <<values, shared, refs, size>>

PopAnon ==
  /\ Active /\ Step = "pop"
  /\ lists' = pop_anon(Top.li)
  /\ stack' = Advanced
  /\ UNCHANGED <<values, shared, refs, size>>

\* A reference, printed with the names of the expression around it.
Refer(r) ==
  /\ stack' = Advanced
  /\ refs' = refs \cup {r}
  /\ lists' = Lists
  /\ UNCHANGED <<values, shared, size>>

VisitOpaqueValueExpr ==
  /\ Printing
  /\ \E j \in DOMAIN stack :
       /\ MayRefer(j)
       /\ LET n == find(Lists, Names, stack[j].value)
          IN Refer(Ref("opaque", n, j, OpaqueBinder(n)))

VisitArrayInitIndexExpr ==
  /\ Printing
  /\ \E j \in DOMAIN stack :
       /\ MayIndex(j)
       /\ LET n == Lists[Names].index_count
          IN Refer(Ref("index", n, j, IndexBinder(n)))

\* VisitDeclRefExpr on the object of a structured binding: printVarRef.
VisitDeclRefExpr ==
  /\ Printing
  /\ \E j \in DOMAIN stack :
       /\ MayProject(j)
       /\ LET n == find_anon(Lists, Names, j)
          IN Refer(Ref("anonymous", n, j, AnonBinder(n)))

\* A handler returns to the one that called it.  An x ?: y may be a
\* default argument, which another call uses again.
Return ==
  /\ stack # <<>> /\ Top.pc > Len(Top.code)
  /\ LET caller == SubSeq(stack, 1, Len(stack) - 1)
     IN stack' = IF caller = <<>> THEN <<>> ELSE [caller EXCEPT ![Len(caller)].pc = @ + 1]
  /\ shared' \in IF Top.kind = "if2" THEN {shared, shared \cup {Top.value}} ELSE {shared}
  /\ UNCHANGED <<lists, values, refs, size>>

\* printExpr on the expression of a statement or an initializer, or
\* printLocalDecl on a structured binding, with names of their own.
Init ==
  /\ lists = <<NoNames>>
  /\ stack \in {<<Frame("operand", <<"li">>, 1, 0, -1)>>, <<Frame("decompose", DecomposeCode, 1, 0, -1)>>}
  /\ values = 0 /\ shared = {} /\ refs = {} /\ size = 0

Next ==
  \/ VisitLeaf \/ VisitOperand \/ VisitSequenced \/ VisitConstructorConversion
  \/ VisitBinaryConditionalOperator \/ VisitArrayInitLoopExpr
  \/ IncIndexCount \/ DecIndexCount \/ PushAnon \/ PopAnon
  \/ VisitOpaqueValueExpr \/ VisitArrayInitIndexExpr \/ VisitDeclRefExpr
  \/ Return

Spec == Init /\ [][Next]_vars

(***************************************************************************)
(* Properties.                                                             *)
(***************************************************************************)
Codes == OperandCodes \cup SequencedCode \cup PseudoDestructorCode
           \cup ConstructorConversionCode \cup {If2Code, LoopCode, DecomposeCode}

\* Every variable has its type, and no OpaqueNames counts more loops than
\* there are active handlers.
TypeOK ==
  /\ \A j \in DOMAIN stack :
       /\ stack[j].kind \in {"operand", "sequenced", "conversion", "if2", "loop", "decompose"}
       /\ stack[j].code \in Codes
       /\ stack[j].li \in DOMAIN lists
       /\ stack[j].value \in 0 .. values
       /\ stack[j].name \in -1 .. MaxNodes /\ stack[j].level \in -1 .. MaxNodes
       /\ stack[j].pc \in 1 .. Len(stack[j].code) + 1
  /\ \A i \in DOMAIN lists :
       /\ lists[i].indexes \in Seq(1 .. values)
       /\ lists[i].anonymous \in Seq(Nat)
       /\ lists[i].index_count \in -1 .. Len(stack) - 1
  /\ values \in 0 .. MaxNodes /\ shared \subseteq 1 .. values /\ size \in 0 .. MaxNodes
  /\ \A r \in refs : r.name \in -1 .. MaxNodes

\* Every name printed for x ?: y or for the array of a loop is bound, where it
\* occurs, by the very expression whose value it is: whatever is nested in
\* what, and with the names of finished expressions still on the list.  Below
\* a constructor conversion the name is lost, and never bound by another
\* expression, though new OpaqueNames count from 0 again.  Where a default
\* argument is printed again with the same OpaqueNames, find returns its older
\* name, which can only be bound by an expression around those OpaqueNames.
RefsResolve ==
  \A r \in refs : r.kind = "opaque" =>
    /\ r.apart => r.read = 0
    /\ ~r.apart /\ ~r.again => r.read = r.meant
    /\ ~r.apart /\ r.again => r.read = 0 \/ r.foreign

\* Every index is bound by the loop in whose body it stands, also under loops
\* in loops and x ?: y, which counts as a loop.
IndexesResolve == \A r \in refs : r.kind = "index" => r.read = r.meant

\* The bindings of a structured binding project from its object.
BindingsResolve == \A r \in refs : r.kind = "anonymous" => r.read = r.meant
================================================================================

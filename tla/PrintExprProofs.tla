---------------------------- MODULE PrintExprProofs ----------------------------
(***************************************************************************)
(* Proofs about the names of the expression printer (PrintExpr).           *)
(*                                                                         *)
(* The inductive invariant says what the active handlers and the           *)
(* OpaqueNames objects have in common: who waits for whom, which entry of  *)
(* indexes and of anonymous a binder owns, and how many binders            *)
(* _index_count counts.                                                    *)
(***************************************************************************)
EXTENDS PrintExpr, FiniteSetTheorems, SequenceTheorems, WellFoundedInduction, TLAPS

Kinds == {"operand", "sequenced", "conversion", "if2", "loop", "decompose"}

FrameType ==
  [kind : Kinds, code : Codes, li : Nat, value : Nat, name : -1 .. MaxNodes,
   level : -1 .. MaxNodes, pc : Nat]

ListType == [indexes : Seq(Nat), anonymous : Seq(Nat), index_count : Int]

\* A handler has the steps of its kind.
Fits(f) ==
  /\ f.kind = "operand" => f.code \in Seq({"li"})
  /\ f.kind \in {"sequenced", "conversion"} => f.code \in Seq({"new"})
  /\ f.kind = "if2" => f.code = If2Code
  /\ f.kind = "loop" => f.code = LoopCode
  /\ f.kind = "decompose" => f.code = DecomposeCode

Sizes ==
  /\ size \in Nat /\ size <= MaxNodes
  /\ values \in Nat /\ values <= size
  /\ shared \subseteq 1 .. values
  /\ Len(stack) <= size + 1

Frames ==
  /\ stack \in Seq(FrameType)
  /\ \A j \in DOMAIN stack :
       /\ Fits(stack[j])
       /\ stack[j].li \in DOMAIN lists
       /\ stack[j].value <= values
       /\ stack[j].pc \in 1 .. Len(stack[j].code) + 1

Objects ==
  /\ lists \in Seq(ListType) /\ 1 \in DOMAIN lists
  /\ \A l \in DOMAIN lists :
       /\ Len(lists[l].indexes) <= size
       /\ \A k \in DOMAIN lists[l].indexes : lists[l].indexes[k] \in 1 .. values

\* A handler below another one is printing a subexpression.
Waits(f) == f.pc <= Len(f.code) /\ f.code[f.pc] \in {"li", "new"}

WaitInv == \A j \in DOMAIN stack : j < Len(stack) => Waits(stack[j])

\* Handlers share their OpaqueNames until one of them makes new ones.
Renewing(f) == f.kind \in {"sequenced", "conversion"}

ChainInv ==
  \A i, j \in DOMAIN stack :
    j <= i /\ (\A k \in j .. i - 1 : ~Renewing(stack[k])) => stack[i].li = stack[j].li

\* Only a structured binding has a name in anonymous, and only between push_anon
\* and pop_anon.
Pushed(f) == f.kind = "decompose" /\ f.pc \in 3 .. 5

AnonInv ==
  /\ \A j \in DOMAIN stack : stack[j].kind = "decompose" => j = 1 /\ stack[j].li = 1
  /\ \A j \in DOMAIN stack : Pushed(stack[j]) => stack[j].name = 0
  /\ \A l \in DOMAIN lists :
       lists[l].anonymous = IF l = 1 /\ stack # <<>> /\ Pushed(stack[1]) THEN <<1>> ELSE <<>>

\* Between inc_index_count and dec_index_count.
Counted(f) == (f.kind = "if2" /\ f.pc \in 3 .. 6) \/ (f.kind = "loop" /\ f.pc \in 3 .. 4)

Counting(l, j) == {i \in 1 .. j : stack[i].li = l /\ Counted(stack[i])}

CountInv ==
  \A l \in DOMAIN lists : lists[l].index_count = Cardinality(Counting(l, Len(stack))) - 1

LevelInv ==
  \A j \in DOMAIN stack :
    stack[j].kind = "loop" /\ Counted(stack[j])
      => stack[j].level = Cardinality(Counting(stack[j].li, j)) - 1

\* The entry of a binder is the last one with its value, and the value is in no
\* OpaqueNames made above it.
Binder(f) == f.kind \in {"if2", "loop"}

Entries(l) == lists[l].indexes

BoundInv ==
  \A j \in DOMAIN stack : Binder(stack[j]) =>
    /\ stack[j].value \in Nat \ {0}
    /\ stack[j].name \in Nat
    /\ stack[j].name + 1 \in DOMAIN Entries(stack[j].li)
    /\ Entries(stack[j].li)[stack[j].name + 1] = stack[j].value
    /\ \A k \in DOMAIN Entries(stack[j].li) :
         Entries(stack[j].li)[k] = stack[j].value => k <= stack[j].name + 1

ApartInv ==
  \A i, j \in DOMAIN stack :
    Binder(stack[j]) /\ j < i /\ stack[i].li # stack[j].li
      => \A k \in DOMAIN Entries(stack[i].li) : Entries(stack[i].li)[k] # stack[j].value

\* No two active binders have the same value.
DistinctInv ==
  \A i, j \in DOMAIN stack :
    Binder(stack[i]) /\ Binder(stack[j]) /\ stack[i].value = stack[j].value => i = j

ExprInv ==
  /\ Sizes /\ Frames /\ Objects /\ WaitInv /\ ChainInv /\ AnonInv
  /\ CountInv /\ LevelInv /\ BoundInv /\ ApartInv /\ DistinctInv

(***************************************************************************)
(* The steps of a handler.                                                 *)
(***************************************************************************)
Steps == {"li", "new", "inc", "dec", "push", "pop"}

\* A call has as many steps as arguments, all printed with the caller's names.
LEMMA ArgsPrintedWithNames ==
  ASSUME NEW n \in Nat, NEW c \in Args(n)
  PROVE  c \in Seq({"li"})
  <1>1. PICK k \in n .. n + MaxArgs : c = [i \in 1 .. k |-> "li"] BY DEF Args
  <1>2. k \in Nat BY PrintExprAssumption
  <1> QED BY <1>1, <1>2

\* Every handler with no names of its own only passes its names on.
LEMMA OperandsPassNames == OperandCodes \subseteq Seq({"li"})
  <1>1. Args(0) \subseteq Seq({"li"}) /\ Args(1) \subseteq Seq({"li"})
    BY ArgsPrintedWithNames
  <1>2. {<<"li">>, <<"li", "li">>, <<"li", "li", "li">>, <<>>} \subseteq Seq({"li"})
    OBVIOUS
  <1> QED
    BY <1>1, <1>2 DEF OperandCodes, UnaryOperatorCode, BinaryOperatorCode, CallExprCode, CastExprCode,
         NamedCastExprCode, LiteralCode, MemberExprCode, SubscriptCode, ConstructExprCode,
         MemberCallExprCode, ConditionalCode, ListCode, TypeTraitCode, NewDeleteCode,
         TemporaryCode, AtomicCode

\* The codes of all handlers are sequences.
LEMMA CodesAreSequences == Codes \subseteq Seq(Steps)
  <1>1. Seq({"li"}) \subseteq Seq(Steps) BY DEF Steps
  <1>2. {<<"new">>, <<"new", "new">>, If2Code, LoopCode, DecomposeCode} \subseteq Seq(Steps)
    BY DEF Steps, If2Code, LoopCode, DecomposeCode
  <1> QED
    BY <1>1, <1>2, OperandsPassNames
       DEF Codes, SequencedCode, PseudoDestructorCode, ConstructorConversionCode

\* Where in a handler each kind of step stands.
LEMMA StepsOf ==
  ASSUME NEW f \in FrameType, Fits(f), f.pc \in 1 .. Len(f.code) + 1
  PROVE  /\ Len(f.code) \in Nat
         /\ f.kind = "if2" => Len(f.code) = 6
         /\ f.kind = "loop" => Len(f.code) = 4
         /\ f.kind = "decompose" => Len(f.code) = 5
         /\ f.pc <= Len(f.code) =>
              /\ f.code[f.pc] = "li" =>
                   \/ f.kind = "operand"
                   \/ f.kind = "if2" /\ f.pc \in {1, 3, 4, 5}
                   \/ f.kind = "loop" /\ f.pc \in {1, 3}
                   \/ f.kind = "decompose" /\ f.pc \in {1, 3, 4}
              /\ f.code[f.pc] = "new" => Renewing(f)
              /\ Renewing(f) => f.code[f.pc] = "new"
              /\ f.code[f.pc] = "inc" => f.kind \in {"if2", "loop"} /\ f.pc = 2
              /\ f.code[f.pc] = "dec" => (f.kind = "if2" /\ f.pc = 6) \/ (f.kind = "loop" /\ f.pc = 4)
              /\ f.code[f.pc] = "push" => f.kind = "decompose" /\ f.pc = 2
              /\ f.code[f.pc] = "pop" => f.kind = "decompose" /\ f.pc = 5
  <1>1. f.code \in Seq(Steps) BY CodesAreSequences DEF FrameType
  <1>2. Len(f.code) \in Nat /\ f.pc \in Nat BY <1>1 DEF FrameType
  <1>3. CASE f.kind = "operand"
    <2>1. f.code \in Seq({"li"}) BY <1>3 DEF Fits
    <2>2. f.pc <= Len(f.code) => f.code[f.pc] = "li" BY <1>2, <2>1
    <2> QED BY <1>2, <1>3, <2>2 DEF Renewing
  <1>4. CASE f.kind \in {"sequenced", "conversion"}
    <2>1. f.code \in Seq({"new"}) BY <1>4 DEF Fits
    <2>2. f.pc <= Len(f.code) => f.code[f.pc] = "new" BY <1>2, <2>1
    <2> QED BY <1>2, <1>4, <2>2 DEF Renewing
  <1>5. CASE f.kind = "if2"
    <2>1. f.code = If2Code /\ Len(f.code) = 6 BY <1>5 DEF Fits, If2Code
    <2>2. f.pc \in {1, 2, 3, 4, 5, 6, 7} BY <2>1
    <2> QED BY <1>5, <2>1, <2>2 DEF If2Code, Renewing
  <1>6. CASE f.kind = "loop"
    <2>1. f.code = LoopCode /\ Len(f.code) = 4 BY <1>6 DEF Fits, LoopCode
    <2>2. f.pc \in {1, 2, 3, 4, 5} BY <2>1
    <2> QED BY <1>6, <2>1, <2>2 DEF LoopCode, Renewing
  <1>7. CASE f.kind = "decompose"
    <2>1. f.code = DecomposeCode /\ Len(f.code) = 5 BY <1>7 DEF Fits, DecomposeCode
    <2>2. f.pc \in {1, 2, 3, 4, 5, 6} BY <2>1
    <2> QED BY <1>7, <2>1, <2>2 DEF DecomposeCode, Renewing
  <1> QED BY <1>3, <1>4, <1>5, <1>6, <1>7 DEF FrameType, Kinds

(***************************************************************************)
(* What a step does to the stack.                                          *)
(***************************************************************************)
\* The frames of the stack are frames.
LEMMA StackFacts ==
  ASSUME Frames
  PROVE  /\ Len(stack) \in Nat
         /\ DOMAIN stack = 1 .. Len(stack)
         /\ \A j \in DOMAIN stack : stack[j] \in FrameType
         /\ stack # <<>> => Len(stack) \in DOMAIN stack /\ Top \in FrameType
         /\ stack = <<>> => Len(stack) = 0
  <1>1. stack \in Seq(FrameType) BY DEF Frames
  <1> QED BY <1>1 DEF Top

\* The top frame has become f.
Retops(f) ==
  /\ stack # <<>>
  /\ stack' \in Seq(FrameType) /\ Len(stack') = Len(stack)
  /\ DOMAIN stack' = DOMAIN stack
  /\ \A j \in DOMAIN stack : j # Len(stack) => stack'[j] = stack[j]
  /\ stack'[Len(stack)] = f

Pushes(f) ==
  /\ stack' \in Seq(FrameType) /\ Len(stack') = Len(stack) + 1
  /\ DOMAIN stack' = DOMAIN stack \cup {Len(stack) + 1}
  /\ \A j \in DOMAIN stack : stack'[j] = stack[j]
  /\ stack'[Len(stack) + 1] = f

\* The top frame is gone, and its caller goes on.
Pops ==
  /\ stack # <<>>
  /\ stack' \in Seq(FrameType) /\ Len(stack') = Len(stack) - 1
  /\ DOMAIN stack' = 1 .. Len(stack) - 1
  /\ \A j \in DOMAIN stack' :
       stack'[j] = IF j = Len(stack) - 1 THEN [stack[j] EXCEPT !.pc = @ + 1] ELSE stack[j]

\* A frame that is moved on, or gets a level or a name, stays a frame.
LEMMA FramesMove ==
  ASSUME NEW f \in FrameType, NEW n \in -1 .. MaxNodes
  PROVE  /\ [f EXCEPT !.pc = @ + 1] \in FrameType
         /\ [f EXCEPT !.pc = @ + 1, !.level = n] \in FrameType
         /\ [f EXCEPT !.pc = @ + 1, !.name = n] \in FrameType
  <1> DEFINE g == [f EXCEPT !.pc = @ + 1]
  <1>1. g \in FrameType BY DEF FrameType
  <1>2. [g EXCEPT !.level = n] = [f EXCEPT !.pc = @ + 1, !.level = n] BY DEF FrameType
  <1>3. [g EXCEPT !.name = n] = [f EXCEPT !.pc = @ + 1, !.name = n] BY DEF FrameType
  <1> HIDE DEF g
  <1>4. [g EXCEPT !.level = n] \in FrameType /\ [g EXCEPT !.name = n] \in FrameType
    BY <1>1 DEF FrameType
  <1> QED BY <1>1, <1>2, <1>3, <1>4 DEF g

\* Advanced only moves the top frame on.
LEMMA AdvancedRetops ==
  ASSUME Frames, stack # <<>>, stack' = Advanced
  PROVE  Retops([Top EXCEPT !.pc = @ + 1])
  <1>1. stack \in Seq(FrameType) BY DEF Frames
  <1>2. Len(stack) \in DOMAIN stack /\ stack[Len(stack)] \in FrameType BY StackFacts DEF Top
  <1>3. [stack[Len(stack)] EXCEPT !.pc = @ + 1] \in FrameType BY <1>2 DEF FrameType
  <1> QED BY <1>1, <1>2, <1>3 DEF Retops, Advanced, Top

\* So does it when the step gives the frame a level or a name.
LEMMA AdvancedWithRetops ==
  ASSUME Frames, stack # <<>>, NEW n \in -1 .. MaxNodes
  PROVE  /\ stack' = [Advanced EXCEPT ![Len(stack)].level = n]
              => Retops([Top EXCEPT !.pc = @ + 1, !.level = n])
         /\ stack' = [Advanced EXCEPT ![Len(stack)].name = n]
              => Retops([Top EXCEPT !.pc = @ + 1, !.name = n])
  <1>1. stack \in Seq(FrameType) BY DEF Frames
  <1>2. Len(stack) \in DOMAIN stack /\ stack[Len(stack)] \in FrameType BY StackFacts DEF Top
  <1>3. /\ [stack[Len(stack)] EXCEPT !.pc = @ + 1, !.level = n] \in FrameType
        /\ [stack[Len(stack)] EXCEPT !.pc = @ + 1, !.name = n] \in FrameType
    BY <1>2, FramesMove
  <1>4. ASSUME stack' = [Advanced EXCEPT ![Len(stack)].level = n]
        PROVE  Retops([Top EXCEPT !.pc = @ + 1, !.level = n])
    <2>1. stack' = [stack EXCEPT ![Len(stack)] = [stack[Len(stack)] EXCEPT !.pc = @ + 1, !.level = n]]
      BY <1>1, <1>2, <1>4 DEF Advanced
    <2> QED BY <1>1, <1>2, <1>3, <2>1 DEF Retops, Top
  <1>5. ASSUME stack' = [Advanced EXCEPT ![Len(stack)].name = n]
        PROVE  Retops([Top EXCEPT !.pc = @ + 1, !.name = n])
    <2>1. stack' = [stack EXCEPT ![Len(stack)] = [stack[Len(stack)] EXCEPT !.pc = @ + 1, !.name = n]]
      BY <1>1, <1>2, <1>5 DEF Advanced
    <2> QED BY <1>1, <1>2, <1>3, <2>1 DEF Retops, Top
  <1> QED BY <1>4, <1>5

\* A call puts a frame on the stack.
LEMMA EnterPushes ==
  ASSUME Frames, NEW f \in FrameType, Enter(f)
  PROVE  Pushes(f) /\ size < MaxNodes /\ size' = size + 1
  <1>1. stack \in Seq(FrameType) BY DEF Frames
  <1> QED BY <1>1 DEF Enter, Pushes

\* A sequence without its last element.
LEMMA AllButLast ==
  ASSUME NEW S, NEW s \in Seq(S), NEW n \in Nat, n = Len(s), n # 0
  PROVE  /\ SubSeq(s, 1, n - 1) \in Seq(S) /\ Len(SubSeq(s, 1, n - 1)) = n - 1
         /\ \A j \in 1 .. n - 1 : SubSeq(s, 1, n - 1)[j] = s[j]
  BY SubSeqProperties

\* A return takes it off, and moves the caller on.
LEMMA ReturnPops ==
  ASSUME Frames, Return
  PROVE  Pops /\ Top.pc > Len(Top.code)
  <1>1. stack \in Seq(FrameType) BY DEF Frames
  <1>2. stack # <<>> /\ Len(stack) \in Nat \ {0} BY <1>1 DEF Return
  <1> DEFINE caller == SubSeq(stack, 1, Len(stack) - 1)
  <1>3. /\ caller \in Seq(FrameType) /\ Len(caller) = Len(stack) - 1
        /\ \A j \in 1 .. Len(stack) - 1 : caller[j] = stack[j]
    BY <1>1, <1>2, AllButLast
  <1>4. stack' = IF caller = <<>> THEN <<>> ELSE [caller EXCEPT ![Len(caller)].pc = @ + 1]
    BY DEF Return
  <1> HIDE DEF caller
  <1>5. CASE Len(stack) = 1
    BY <1>1, <1>2, <1>3, <1>4, <1>5 DEF Pops, Return
  <1>6. CASE Len(stack) > 1
    <2>1. caller # <<>> /\ Len(caller) \in DOMAIN caller /\ caller[Len(caller)] \in FrameType
      BY <1>2, <1>3, <1>6
    <2>2. [caller[Len(caller)] EXCEPT !.pc = @ + 1] \in FrameType BY <2>1 DEF FrameType
    <2>3. stack' = [caller EXCEPT ![Len(caller)] = [caller[Len(caller)] EXCEPT !.pc = @ + 1]]
      BY <1>4, <2>1
    <2>4. stack' \in Seq(FrameType) /\ Len(stack') = Len(stack) - 1 /\ DOMAIN stack' = 1 .. Len(stack) - 1
      BY <1>2, <1>3, <2>1, <2>2, <2>3
    <2>5. ASSUME NEW j \in DOMAIN stack'
          PROVE  stack'[j] = IF j = Len(stack) - 1 THEN [stack[j] EXCEPT !.pc = @ + 1] ELSE stack[j]
      BY <1>2, <1>3, <2>1, <2>3, <2>4
    <2> QED BY <1>2, <2>4, <2>5 DEF Pops, Return
  <1> QED BY <1>2, <1>5, <1>6

(***************************************************************************)
(* What a step does to the OpaqueNames.                                    *)
(***************************************************************************)
\* All objects there were stay, and at most one is new, without any name.
Extends(ls) ==
  /\ ls \in Seq(ListType)
  /\ DOMAIN lists \subseteq DOMAIN ls
  /\ \A l \in DOMAIN lists : ls[l] = lists[l]
  /\ \A l \in DOMAIN ls \ DOMAIN lists : ls[l] = NoNames

\* The next step is of the code.
LEMMA TopStep ==
  ASSUME Frames, Active
  PROVE  /\ stack # <<>> /\ Len(stack) \in DOMAIN stack /\ Top = stack[Len(stack)]
         /\ Top \in FrameType /\ Fits(Top)
         /\ Top.li \in DOMAIN lists
         /\ Top.pc \in 1 .. Len(Top.code) + 1 /\ Top.pc <= Len(Top.code)
         /\ Step = Top.code[Top.pc]
  BY StackFacts DEF Frames, Active, Top, Step

\* The names of a subexpression are those of the handler around it, or new.
LEMMA ListsFacts ==
  ASSUME Frames, Objects, Printing
  PROVE  /\ Extends(Lists)
         /\ Names \in DOMAIN Lists /\ Names \in Nat
         /\ ~Renewing(Top) => Names = Top.li /\ Names \in DOMAIN lists /\ Lists = lists
         /\ Renewing(Top) => Names \notin DOMAIN lists
  <1>1. Active BY DEF Printing
  <1>2. Step = "li" \/ Step = "new" BY DEF Printing
  <1>3. lists \in Seq(ListType) /\ DOMAIN lists = 1 .. Len(lists) /\ Len(lists) \in Nat BY DEF Objects
  <1>4. NoNames \in ListType BY DEF NoNames, ListType
  <1>5. /\ Renewing(Top) => Step = "new"
        /\ Step = "new" => Renewing(Top)
    BY <1>1, TopStep, StepsOf
  <1>6. CASE Step = "li"
    <2>1. Names = Top.li /\ Lists = lists BY <1>6 DEF Names, Lists
    <2>2. Top.li \in DOMAIN lists BY <1>1, TopStep
    <2> QED BY <1>3, <1>5, <1>6, <2>1, <2>2 DEF Extends
  <1>7. CASE Step = "new"
    <2>1. Names = Len(lists) + 1 /\ Lists = Append(lists, NoNames) BY <1>7 DEF Names, Lists
    <2> HIDE DEF NoNames
    <2>2. /\ Append(lists, NoNames) \in Seq(ListType)
          /\ DOMAIN Append(lists, NoNames) = 1 .. Len(lists) + 1
          /\ \A l \in 1 .. Len(lists) : Append(lists, NoNames)[l] = lists[l]
          /\ Append(lists, NoNames)[Len(lists) + 1] = NoNames
      BY <1>3, <1>4
    <2>3. ASSUME NEW l \in (1 .. Len(lists) + 1) \ (1 .. Len(lists)) PROVE l = Len(lists) + 1
      BY <1>3
    <2> QED BY <1>3, <1>5, <1>7, <2>1, <2>2, <2>3 DEF Extends
  <1> QED BY <1>2, <1>6, <1>7

(***************************************************************************)
(* The steps that keep all names, and those that add a handler.            *)
(***************************************************************************)
\* Two states of a handler.
Alike(g, f) ==
  /\ g.kind = f.kind /\ g.code = f.code /\ g.li = f.li /\ g.value = f.value
  /\ Binder(f) => g.name = f.name

Keeps ==
  /\ DOMAIN stack' \subseteq DOMAIN stack
  /\ \A j \in DOMAIN stack' : Alike(stack'[j], stack[j])
  /\ DOMAIN lists \subseteq DOMAIN lists'
  /\ \A l \in DOMAIN lists : lists'[l].indexes = lists[l].indexes

\* The entries of an object, none for one yet to come.
Old(l) == IF l \in DOMAIN lists THEN lists[l].indexes ELSE <<>>

Adds(f) ==
  /\ stack # <<>>
  /\ Pushes(f)
  /\ DOMAIN lists \subseteq DOMAIN lists'
  /\ f.li \in DOMAIN lists'
  /\ IF Renewing(Top) THEN f.li \notin DOMAIN lists ELSE f.li = Top.li
  /\ \A l \in DOMAIN lists : l # f.li => lists'[l].indexes = lists[l].indexes
  /\ lists'[f.li].indexes = IF Binder(f) THEN Append(Old(f.li), f.value) ELSE Old(f.li)
  /\ Binder(f) =>
       /\ f.name = Len(Old(f.li)) /\ f.value \in Nat \ {0}
       /\ \A j \in DOMAIN stack : Binder(stack[j]) => stack[j].value # f.value

\* Then the binders own what they owned.
LEMMA KeepsNames ==
  ASSUME Frames, ChainInv, BoundInv, ApartInv, DistinctInv, Keeps, stack' \in Seq(FrameType)
  PROVE  ChainInv' /\ BoundInv' /\ ApartInv' /\ DistinctInv'
  <1>1. ASSUME NEW j \in DOMAIN stack'
        PROVE  /\ j \in DOMAIN stack
               /\ stack'[j].kind = stack[j].kind /\ stack'[j].li = stack[j].li
               /\ stack'[j].value = stack[j].value
               /\ Binder(stack[j]) => stack'[j].name = stack[j].name
               /\ Renewing(stack'[j]) <=> Renewing(stack[j])
               /\ Binder(stack'[j]) <=> Binder(stack[j])
               /\ stack[j].li \in DOMAIN lists
               /\ lists'[stack[j].li].indexes = lists[stack[j].li].indexes
    BY DEF Keeps, Alike, Frames, Renewing, Binder
  <1>2. ChainInv'
    <2>1. SUFFICES ASSUME NEW i \in DOMAIN stack', NEW j \in DOMAIN stack', j <= i,
                          \A k \in j .. i - 1 : ~Renewing(stack'[k])
                   PROVE  stack'[i].li = stack'[j].li
      BY DEF ChainInv, Renewing
    <2>2. ASSUME NEW k \in j .. i - 1 PROVE ~Renewing(stack[k])
      BY <1>1, <2>1
    <2> QED BY <1>1, <2>1, <2>2 DEF ChainInv
  <1>3. BoundInv'
    <2>1. SUFFICES ASSUME NEW j \in DOMAIN stack', Binder(stack[j])
                   PROVE  /\ stack[j].value \in Nat \ {0}
                          /\ stack[j].name \in Nat
                          /\ stack[j].name + 1 \in DOMAIN lists[stack[j].li].indexes
                          /\ lists[stack[j].li].indexes[stack[j].name + 1] = stack[j].value
                          /\ \A k \in DOMAIN lists[stack[j].li].indexes :
                               lists[stack[j].li].indexes[k] = stack[j].value => k <= stack[j].name + 1
      BY <1>1 DEF BoundInv, Binder, Entries
    <2> QED BY <1>1, <2>1 DEF BoundInv, Entries
  <1>4. ApartInv'
    <2>1. SUFFICES ASSUME NEW i \in DOMAIN stack', NEW j \in DOMAIN stack',
                          Binder(stack[j]), j < i, stack[i].li # stack[j].li
                   PROVE  \A k \in DOMAIN lists[stack[i].li].indexes :
                            lists[stack[i].li].indexes[k] # stack[j].value
      BY <1>1 DEF ApartInv, Binder, Entries
    <2> QED BY <1>1, <2>1 DEF ApartInv, Entries
  <1>5. DistinctInv' BY <1>1 DEF DistinctInv, Binder
  <1> QED BY <1>2, <1>3, <1>4, <1>5

\* A new handler adds at most one entry, its own, behind the others.
LEMMA AddsEntries ==
  ASSUME Frames, Objects, NEW f \in FrameType, Adds(f), NEW l, l \in DOMAIN lists \/ l = f.li
  PROVE  /\ Old(l) \in Seq(Nat)
         /\ \A k \in DOMAIN Old(l) : k \in DOMAIN lists'[l].indexes /\ lists'[l].indexes[k] = Old(l)[k]
         /\ \A k \in DOMAIN lists'[l].indexes : k \notin DOMAIN Old(l) =>
              Binder(f) /\ l = f.li /\ k = Len(Old(l)) + 1 /\ lists'[l].indexes[k] = f.value
         /\ Binder(f) /\ l = f.li =>
              Len(Old(l)) + 1 \in DOMAIN lists'[l].indexes /\ lists'[l].indexes[Len(Old(l)) + 1] = f.value
  <1>1. Old(l) \in Seq(Nat)
    <2>1. CASE l \in DOMAIN lists
      <3>1. lists[l] \in ListType BY <2>1 DEF Objects
      <3>2. lists[l].indexes \in Seq(Nat) BY <3>1 DEF ListType
      <3> QED BY <2>1, <3>2 DEF Old
    <2>2. CASE l \notin DOMAIN lists BY <2>2 DEF Old
    <2> QED BY <2>1, <2>2
  <1>2. CASE Binder(f) /\ l = f.li
    <2>1. f.value \in Nat BY DEF FrameType
    <2>2. lists'[l].indexes = Append(Old(l), f.value) BY <1>2 DEF Adds
    <2> QED BY <1>1, <1>2, <2>1, <2>2
  <1>3. CASE ~(Binder(f) /\ l = f.li)
    <2>1. lists'[l].indexes = Old(l) BY <1>3 DEF Adds, Old
    <2> QED BY <1>1, <1>3, <2>1
  <1> QED BY <1>2, <1>3

\* So the binders below it still own what they owned, and it owns its entry.
LEMMA AddsNames ==
  ASSUME Frames, Objects, ChainInv, BoundInv, ApartInv, DistinctInv, NEW f \in FrameType, Adds(f)
  PROVE  ChainInv' /\ BoundInv' /\ ApartInv' /\ DistinctInv'
  <1> DEFINE n == Len(stack) + 1
  <1>1. /\ Len(stack) \in DOMAIN stack /\ Top = stack[Len(stack)] /\ Len(stack) \in Nat
        /\ DOMAIN stack = 1 .. Len(stack)
    BY StackFacts DEF Adds, Top
  <1>2. /\ DOMAIN stack' = DOMAIN stack \cup {n} /\ n \notin DOMAIN stack
        /\ stack'[n] = f
        /\ \A j \in DOMAIN stack : stack'[j] = stack[j]
    BY <1>1 DEF Adds, Pushes
  <1>3. \A j \in DOMAIN stack : stack[j].li \in DOMAIN lists BY DEF Frames
  <1>4. \A l : l \in DOMAIN lists => Old(l) = Entries(l) BY DEF Old, Entries
  <1>5. Binder(f) => \A j \in DOMAIN stack : Binder(stack[j]) => stack[j].value # f.value
    BY DEF Adds
  <1> HIDE DEF n
  <1>6. ChainInv'
    <2>1. SUFFICES ASSUME NEW i \in DOMAIN stack', NEW j \in DOMAIN stack', j <= i,
                          \A k \in j .. i - 1 : ~Renewing(stack'[k])
                   PROVE  stack'[i].li = stack'[j].li
      BY DEF ChainInv, Renewing
    <2>2. CASE i \in DOMAIN stack
      <3>1. j \in DOMAIN stack /\ \A k \in j .. i - 1 : k \in DOMAIN stack
        BY <1>1, <1>2, <2>1, <2>2 DEF n
      <3> QED BY <1>2, <2>1, <2>2, <3>1 DEF ChainInv
    <2>3. CASE i = n /\ j \in DOMAIN stack
      <3>1. \A k \in j .. Len(stack) : k \in DOMAIN stack /\ ~Renewing(stack[k])
        BY <1>1, <1>2, <2>1, <2>3 DEF n
      <3>2. stack[Len(stack)].li = stack[j].li
        BY <1>1, <2>3, <3>1 DEF ChainInv
      <3>3. ~Renewing(Top) BY <1>1, <2>3, <3>1
      <3> QED BY <1>1, <1>2, <2>3, <3>2, <3>3 DEF Adds
    <2>4. CASE i = n /\ j = n BY <2>4
    <2> QED BY <1>2, <2>2, <2>3, <2>4
  <1>7. BoundInv'
    <2>1. SUFFICES ASSUME NEW j \in DOMAIN stack', Binder(stack'[j]),
                          NEW g, g = stack'[j], NEW e, e = lists'[g.li].indexes
                   PROVE  /\ g.value \in Nat \ {0}
                          /\ g.name \in Nat
                          /\ g.name + 1 \in DOMAIN e
                          /\ e[g.name + 1] = g.value
                          /\ \A k \in DOMAIN e : e[k] = g.value => k <= g.name + 1
      BY DEF BoundInv, Binder, Entries
    <2>2. CASE j \in DOMAIN stack
      <3>1. g = stack[j] /\ g.li \in DOMAIN lists /\ Old(g.li) = Entries(g.li)
        BY <1>2, <1>3, <1>4, <2>1, <2>2
      <3>2. /\ \A k \in DOMAIN Old(g.li) : k \in DOMAIN e /\ e[k] = Old(g.li)[k]
            /\ \A k \in DOMAIN e : k \notin DOMAIN Old(g.li) => Binder(f) /\ e[k] = f.value
        BY <2>1, <3>1, AddsEntries
      <3> QED BY <1>5, <2>1, <2>2, <3>1, <3>2 DEF BoundInv
    <2>3. CASE j = n
      <3>1. g = f /\ Binder(f) BY <1>2, <2>1, <2>3
      <3>2. f.name = Len(Old(f.li)) /\ f.value \in Nat \ {0} BY <3>1 DEF Adds
      <3>3. /\ Old(f.li) \in Seq(Nat)
            /\ \A k \in DOMAIN e : k \notin DOMAIN Old(f.li) => k = Len(Old(f.li)) + 1
            /\ Len(Old(f.li)) + 1 \in DOMAIN e /\ e[Len(Old(f.li)) + 1] = f.value
        BY <2>1, <3>1, AddsEntries
      <3>4. Len(Old(f.li)) \in Nat /\ \A k \in DOMAIN Old(f.li) : k <= Len(Old(f.li)) + 1 BY <3>3
      <3>5. \A k \in DOMAIN e : k <= Len(Old(f.li)) + 1 BY <3>3, <3>4
      <3> QED BY <3>1, <3>2, <3>3, <3>4, <3>5
    <2> QED BY <1>2, <2>2, <2>3
  <1>8. ApartInv'
    <2>1. SUFFICES ASSUME NEW i \in DOMAIN stack', NEW j \in DOMAIN stack',
                          Binder(stack'[j]), j < i, stack'[i].li # stack'[j].li,
                          NEW k \in DOMAIN lists'[stack'[i].li].indexes
                   PROVE  lists'[stack'[i].li].indexes[k] # stack'[j].value
      BY DEF ApartInv, Binder, Entries
    <2>2. j \in DOMAIN stack /\ stack'[j] = stack[j] BY <1>1, <1>2, <2>1 DEF n
    <2>3. CASE i \in DOMAIN stack
      <3>1. stack'[i] = stack[i] /\ stack[i].li \in DOMAIN lists /\ Old(stack[i].li) = Entries(stack[i].li)
        BY <1>2, <1>3, <1>4, <2>3
      <3>2. CASE k \in DOMAIN Old(stack[i].li)
        <4>1. lists'[stack[i].li].indexes[k] = Old(stack[i].li)[k] BY <3>1, <3>2, AddsEntries
        <4> QED BY <2>1, <2>2, <2>3, <3>1, <3>2, <4>1 DEF ApartInv
      <3>3. CASE k \notin DOMAIN Old(stack[i].li)
        <4>1. Binder(f) /\ lists'[stack[i].li].indexes[k] = f.value BY <2>1, <3>1, <3>3, AddsEntries
        <4> QED BY <1>5, <2>1, <2>2, <3>1, <4>1
      <3> QED BY <3>2, <3>3
    <2>4. CASE i = n
      <3>1. stack'[i] = f BY <1>2, <2>4
      <3>2. CASE k \in DOMAIN Old(f.li)
        <4>1. lists'[f.li].indexes[k] = Old(f.li)[k] BY <3>2, AddsEntries
        <4>2. ~Renewing(Top) /\ f.li = Top.li BY <3>2 DEF Adds, Old
        <4>3. j < Len(stack) BY <1>1, <2>1, <2>2, <3>1, <4>2
        <4>4. Old(f.li) = Entries(stack[Len(stack)].li) BY <1>1, <1>3, <1>4, <4>2
        <4> QED BY <1>1, <2>1, <2>2, <3>1, <3>2, <4>1, <4>2, <4>3, <4>4 DEF ApartInv
      <3>3. CASE k \notin DOMAIN Old(f.li)
        <4>1. Binder(f) /\ lists'[f.li].indexes[k] = f.value BY <2>1, <3>1, <3>3, AddsEntries
        <4> QED BY <1>5, <2>1, <2>2, <3>1, <4>1
      <3> QED BY <3>2, <3>3
    <2> QED BY <1>2, <2>3, <2>4
  <1>9. DistinctInv'
    <2>1. SUFFICES ASSUME NEW i \in DOMAIN stack', NEW j \in DOMAIN stack',
                          Binder(stack'[i]), Binder(stack'[j]), stack'[i].value = stack'[j].value
                   PROVE  i = j
      BY DEF DistinctInv, Binder
    <2> QED BY <1>2, <1>5, <2>1 DEF DistinctInv
  <1> QED BY <1>6, <1>7, <1>8, <1>9

(***************************************************************************)
(* The count of the binders.                                               *)
(***************************************************************************)
\* At most j handlers are counted up to frame j.
LEMMA CountingFinite ==
  ASSUME NEW l, NEW j \in Nat
  PROVE  IsFiniteSet(Counting(l, j)) /\ Cardinality(Counting(l, j)) \in Nat
         /\ Cardinality(Counting(l, j)) <= j
  <1>1. IsFiniteSet(1 .. j) /\ Cardinality(1 .. j) = j BY FS_Interval
  <1>2. Counting(l, j) \subseteq 1 .. j BY DEF Counting
  <1>3. IsFiniteSet(Counting(l, j)) /\ Cardinality(Counting(l, j)) <= j BY <1>1, <1>2, FS_Subset
  <1> QED BY <1>3, FS_CardinalityType

\* No handler starts or stops being counted.
SameCount ==
  /\ \A j \in DOMAIN stack \cap DOMAIN stack' :
       /\ stack'[j].kind = stack[j].kind /\ stack'[j].li = stack[j].li
       /\ Counted(stack'[j]) <=> Counted(stack[j])
       /\ stack'[j].level = stack[j].level
  /\ \A j \in DOMAIN stack' \ DOMAIN stack : ~Counted(stack'[j])
  /\ \A j \in DOMAIN stack \ DOMAIN stack' : ~Counted(stack[j])
  /\ \A l \in DOMAIN lists : l \in DOMAIN lists' /\ lists'[l].index_count = lists[l].index_count
  /\ \A l \in DOMAIN lists' \ DOMAIN lists : lists'[l].index_count = -1

\* Then _index_count and the levels stay right.
LEMMA SameCountKeeps ==
  ASSUME Frames, CountInv, LevelInv, stack' \in Seq(FrameType), SameCount
  PROVE  CountInv' /\ LevelInv'
  <1>1. /\ DOMAIN stack = 1 .. Len(stack) /\ Len(stack) \in Nat
        /\ DOMAIN stack' = 1 .. Len(stack') /\ Len(stack') \in Nat
    BY DEF Frames
  <1>2. CountInv'
    <2>1. SUFFICES ASSUME NEW l \in DOMAIN lists', NEW S, S = {i \in 1 .. Len(stack') : stack'[i].li = l /\ Counted(stack'[i])}
                   PROVE  lists'[l].index_count = Cardinality(S) - 1
      BY DEF CountInv, Counting, Counted
    <2>2. CASE l \in DOMAIN lists
      <3>1. \A i : i \in S => i \in Counting(l, Len(stack)) BY <1>1, <2>1 DEF SameCount, Counting
      <3>2. \A i : i \in Counting(l, Len(stack)) => i \in S BY <1>1, <2>1 DEF SameCount, Counting
      <3>3. S = Counting(l, Len(stack)) BY <3>1, <3>2 DEF Counting
      <3> QED BY <2>2, <3>3 DEF CountInv, SameCount
    <2>3. CASE l \notin DOMAIN lists
      <3>1. S = {} BY <1>1, <2>1, <2>3 DEF SameCount, Frames
      <3>2. Cardinality(S) = 0 BY <3>1, FS_EmptySet
      <3>3. lists'[l].index_count = -1 BY <2>1, <2>3 DEF SameCount
      <3> QED BY <3>2, <3>3
    <2> QED BY <2>2, <2>3
  <1>3. LevelInv'
    <2>1. SUFFICES ASSUME NEW j \in DOMAIN stack', stack'[j].kind = "loop", Counted(stack'[j]),
                          NEW S, S = {i \in 1 .. j : stack'[i].li = stack'[j].li /\ Counted(stack'[i])}
                   PROVE  stack'[j].level = Cardinality(S) - 1
      BY DEF LevelInv, Counting, Counted
    <2>2. j \in DOMAIN stack /\ \A i \in 1 .. j : i \in DOMAIN stack /\ i \in DOMAIN stack'
      BY <1>1, <2>1 DEF SameCount
    <2>3. \A i : i \in S <=> i \in Counting(stack[j].li, j) BY <2>1, <2>2 DEF SameCount, Counting
    <2>4. S = Counting(stack[j].li, j) BY <2>1, <2>3 DEF Counting
    <2> QED BY <2>1, <2>2, <2>4 DEF LevelInv, SameCount
  <1> QED BY <1>2, <1>3

\* inc_index_count starts to count the top frame, and dec_index_count stops.
Recounts(n) ==
  /\ lists' \in Seq(ListType) /\ DOMAIN lists' = DOMAIN lists
  /\ \A l \in DOMAIN lists :
       lists'[l].index_count = IF l = Top.li THEN lists[l].index_count + n ELSE lists[l].index_count

\* One more is counted after inc_index_count, and a loop prints that count.
LEMMA IncCounts ==
  ASSUME Frames, Objects, CountInv, LevelInv, NEW f \in FrameType, Retops(f), Recounts(1),
         f.kind = Top.kind, f.li = Top.li, Counted(f), ~Counted(Top),
         f.kind = "loop" => f.level = lists[Top.li].index_count + 1
  PROVE  CountInv' /\ LevelInv'
  <1> DEFINE n == Len(stack)
             C == Counting(Top.li, n)
  <1>1. /\ DOMAIN stack = 1 .. n /\ n \in Nat /\ n \in DOMAIN stack
        /\ DOMAIN stack' = 1 .. n /\ Len(stack') = n
        /\ stack'[n] = f /\ stack[n] = Top
        /\ \A j \in DOMAIN stack : j # n => stack'[j] = stack[j]
        /\ \A j \in DOMAIN stack : stack'[j].li = stack[j].li
    BY StackFacts DEF Retops, Top
  <1>2. Top.li \in DOMAIN lists BY <1>1 DEF Frames
  <1>3. n \notin C /\ IsFiniteSet(C) /\ Cardinality(C) \in Nat
    BY <1>1, CountingFinite DEF Counting
  <1>4. Cardinality(C \cup {n}) = Cardinality(C) + 1 BY <1>3, FS_AddElement
  <1>5. lists[Top.li].index_count = Cardinality(C) - 1 BY <1>2 DEF CountInv
  <1>6. {i \in 1 .. n : stack'[i].li = Top.li /\ Counted(stack'[i])} = C \cup {n}
    BY <1>1 DEF Counting
  <1> HIDE DEF n, C
  <1>7. CountInv'
    <2>1. SUFFICES ASSUME NEW l \in DOMAIN lists, NEW S, S = {i \in 1 .. n : stack'[i].li = l /\ Counted(stack'[i])}
                   PROVE  lists'[l].index_count = Cardinality(S) - 1
      BY <1>1 DEF CountInv, Counting, Counted, Recounts
    <2>2. CASE l = Top.li
      <3>1. S = C \cup {n} BY <1>6, <2>1, <2>2
      <3>2. lists'[l].index_count = Cardinality(C) - 1 + 1 BY <1>5, <2>2 DEF Recounts
      <3> QED BY <1>3, <1>4, <3>1, <3>2
    <2>3. CASE l # Top.li
      <3>1. S = Counting(l, n) BY <1>1, <2>1, <2>3 DEF Counting
      <3> QED BY <2>3, <3>1 DEF CountInv, Recounts, n
    <2> QED BY <2>2, <2>3
  <1>8. LevelInv'
    <2>1. SUFFICES ASSUME NEW j \in DOMAIN stack, stack'[j].kind = "loop", Counted(stack'[j]),
                          NEW S, S = {i \in 1 .. j : stack'[i].li = stack'[j].li /\ Counted(stack'[i])}
                   PROVE  stack'[j].level = Cardinality(S) - 1
      BY <1>1 DEF LevelInv, Counting, Counted
    <2>2. CASE j = n
      <3>1. S = C \cup {n} BY <1>1, <1>6, <2>1, <2>2
      <3>2. f.level = Cardinality(C) - 1 + 1 BY <1>1, <1>5, <2>1, <2>2
      <3> QED BY <1>1, <1>3, <1>4, <2>2, <3>1, <3>2
    <2>3. CASE j # n
      <3>1. stack'[j] = stack[j] /\ \A i \in 1 .. j : stack'[i] = stack[i] BY <1>1, <2>3
      <3>2. S = Counting(stack[j].li, j) BY <2>1, <3>1 DEF Counting
      <3> QED BY <2>1, <3>1, <3>2 DEF LevelInv
    <2> QED BY <2>2, <2>3
  <1> QED BY <1>7, <1>8

\* dec_index_count takes back what inc_index_count has added.
LEMMA DecCounts ==
  ASSUME Frames, Objects, CountInv, LevelInv, NEW f \in FrameType, Retops(f), Recounts(-1),
         f.kind = Top.kind, f.li = Top.li, ~Counted(f), Counted(Top)
  PROVE  CountInv' /\ LevelInv'
  <1> DEFINE n == Len(stack)
             C == Counting(Top.li, n)
  <1>1. /\ DOMAIN stack = 1 .. n /\ n \in Nat /\ n \in DOMAIN stack
        /\ DOMAIN stack' = 1 .. n /\ Len(stack') = n
        /\ stack'[n] = f /\ stack[n] = Top
        /\ \A j \in DOMAIN stack : j # n => stack'[j] = stack[j]
        /\ \A j \in DOMAIN stack : stack'[j].li = stack[j].li
    BY StackFacts DEF Retops, Top
  <1>2. Top.li \in DOMAIN lists BY <1>1 DEF Frames
  <1>3. n \in C /\ IsFiniteSet(C) /\ Cardinality(C) \in Nat
    BY <1>1, CountingFinite DEF Counting
  <1>4. Cardinality(C \ {n}) = Cardinality(C) - 1 BY <1>3, FS_RemoveElement
  <1>5. lists[Top.li].index_count = Cardinality(C) - 1 BY <1>2 DEF CountInv
  <1>6. {i \in 1 .. n : stack'[i].li = Top.li /\ Counted(stack'[i])} = C \ {n}
    BY <1>1 DEF Counting
  <1> HIDE DEF n, C
  <1>7. CountInv'
    <2>1. SUFFICES ASSUME NEW l \in DOMAIN lists, NEW S, S = {i \in 1 .. n : stack'[i].li = l /\ Counted(stack'[i])}
                   PROVE  lists'[l].index_count = Cardinality(S) - 1
      BY <1>1 DEF CountInv, Counting, Counted, Recounts
    <2>2. CASE l = Top.li
      <3>1. S = C \ {n} BY <1>6, <2>1, <2>2
      <3>2. lists'[l].index_count = Cardinality(C) - 1 + -1 BY <1>5, <2>2 DEF Recounts
      <3> QED BY <1>3, <1>4, <3>1, <3>2
    <2>3. CASE l # Top.li
      <3>1. S = Counting(l, n) BY <1>1, <2>1, <2>3 DEF Counting
      <3> QED BY <2>3, <3>1 DEF CountInv, Recounts, n
    <2> QED BY <2>2, <2>3
  <1>8. LevelInv'
    <2>1. SUFFICES ASSUME NEW j \in DOMAIN stack, stack'[j].kind = "loop", Counted(stack'[j]),
                          NEW S, S = {i \in 1 .. j : stack'[i].li = stack'[j].li /\ Counted(stack'[i])}
                   PROVE  stack'[j].level = Cardinality(S) - 1
      BY <1>1 DEF LevelInv, Counting, Counted
    <2>2. j # n BY <1>1, <2>1
    <2>3. stack'[j] = stack[j] /\ \A i \in 1 .. j : stack'[i] = stack[i] BY <1>1, <2>2
    <2>4. S = Counting(stack[j].li, j) BY <2>1, <2>3 DEF Counting
    <2> QED BY <2>1, <2>3, <2>4 DEF LevelInv
  <1> QED BY <1>7, <1>8

(***************************************************************************)
(* The names of structured bindings.                                       *)
(***************************************************************************)
\* No structured binding is pushed or popped.
SameAnon ==
  /\ \A j \in DOMAIN stack \cap DOMAIN stack' :
       /\ stack'[j].kind = stack[j].kind /\ stack'[j].li = stack[j].li
       /\ stack'[j].name = stack[j].name
       /\ Pushed(stack'[j]) <=> Pushed(stack[j])
  /\ \A j \in DOMAIN stack' \ DOMAIN stack : stack'[j].kind # "decompose"
  /\ \A j \in DOMAIN stack \ DOMAIN stack' : ~Pushed(stack[j])
  /\ \A l \in DOMAIN lists : l \in DOMAIN lists' /\ lists'[l].anonymous = lists[l].anonymous
  /\ \A l \in DOMAIN lists' \ DOMAIN lists : lists'[l].anonymous = <<>>

\* Then anonymous stays right.
LEMMA SameAnonKeeps ==
  ASSUME Frames, AnonInv, stack' \in Seq(FrameType), SameAnon, 1 \in DOMAIN lists
  PROVE  AnonInv'
  <1>1. /\ DOMAIN stack = 1 .. Len(stack) /\ Len(stack) \in Nat
        /\ DOMAIN stack' = 1 .. Len(stack') /\ Len(stack') \in Nat
        /\ stack # <<>> <=> 1 \in DOMAIN stack
        /\ stack' # <<>> <=> 1 \in DOMAIN stack'
    BY DEF Frames
  <1>2. (1 \in DOMAIN stack /\ Pushed(stack[1])) <=> (1 \in DOMAIN stack' /\ Pushed(stack'[1]))
    BY DEF SameAnon, Pushed
  <1>3. ASSUME NEW l \in DOMAIN lists'
        PROVE  lists'[l].anonymous = IF l = 1 /\ 1 \in DOMAIN stack' /\ Pushed(stack'[1]) THEN <<1>> ELSE <<>>
    <2>1. CASE l \in DOMAIN lists BY <1>1, <1>2, <2>1 DEF SameAnon, AnonInv
    <2>2. CASE l \notin DOMAIN lists BY <1>3, <2>2 DEF SameAnon
    <2> QED BY <2>1, <2>2
  <1>4. ASSUME NEW j \in DOMAIN stack'
        PROVE  /\ stack'[j].kind = "decompose" => j = 1 /\ stack'[j].li = 1
               /\ Pushed(stack'[j]) => stack'[j].name = 0
    BY DEF SameAnon, AnonInv, Pushed
  <1> QED BY <1>1, <1>3, <1>4 DEF AnonInv, Pushed

(***************************************************************************)
(* The steps, by what they do.                                             *)
(***************************************************************************)
\* A handler that is printing goes on.
LEMMA MovedOn ==
  ASSUME NEW f \in FrameType, Fits(f), f.pc \in 1 .. Len(f.code) + 1, Waits(f),
         NEW g, g = [f EXCEPT !.pc = @ + 1]
  PROVE  /\ g \in FrameType /\ Fits(g) /\ g.pc \in 1 .. Len(g.code) + 1
         /\ Alike(g, f) /\ g.name = f.name /\ g.level = f.level
         /\ Counted(g) <=> Counted(f)
         /\ Pushed(g) <=> Pushed(f)
  <1>1. g \in FrameType BY DEF FrameType
  <1>2. /\ g.kind = f.kind /\ g.code = f.code /\ g.li = f.li /\ g.value = f.value
        /\ g.name = f.name /\ g.level = f.level /\ g.pc = f.pc + 1
    BY DEF FrameType
  <1>3. Fits(g) BY <1>2 DEF Fits
  <1>4. Len(f.code) \in Nat /\ f.pc \in Nat /\ f.pc <= Len(f.code)
    BY StepsOf DEF FrameType, Waits
  <1>5. g.pc \in 1 .. Len(g.code) + 1 BY <1>2, <1>4
  <1>6. \/ f.kind = "operand" \/ Renewing(f)
        \/ f.kind = "if2" /\ f.pc \in {1, 3, 4, 5}
        \/ f.kind = "loop" /\ f.pc \in {1, 3}
        \/ f.kind = "decompose" /\ f.pc \in {1, 3, 4}
    BY StepsOf DEF Waits
  <1>7. Counted(g) <=> Counted(f) BY <1>2, <1>4, <1>6 DEF Counted, Renewing
  <1>8. Pushed(g) <=> Pushed(f) BY <1>2, <1>4, <1>6 DEF Pushed, Renewing
  <1> QED BY <1>1, <1>2, <1>3, <1>5, <1>7, <1>8 DEF Alike

\* A handler that has returned is neither counted nor pushed.
LEMMA Finished ==
  ASSUME NEW f \in FrameType, Fits(f), f.pc \in 1 .. Len(f.code) + 1, f.pc > Len(f.code)
  PROVE  ~Counted(f) /\ ~Pushed(f)
  <1>1. /\ f.pc \in Nat /\ Len(f.code) \in Nat
        /\ f.kind = "if2" => Len(f.code) = 6
        /\ f.kind = "loop" => Len(f.code) = 4
        /\ f.kind = "decompose" => Len(f.code) = 5
    BY StepsOf DEF FrameType
  <1>2. /\ f.kind = "if2" => f.pc > 6
        /\ f.kind = "loop" => f.pc > 4
        /\ f.kind = "decompose" => f.pc > 5
    BY <1>1
  <1> QED BY <1>1, <1>2 DEF Counted, Pushed

\* The objects stay well formed when one is added.
LEMMA ExtendsObjects ==
  ASSUME Sizes, Objects, Extends(lists'), UNCHANGED values, size' \in Nat, size <= size'
  PROVE  Objects'
  <1>1. ASSUME NEW l \in DOMAIN lists'
        PROVE  /\ Len(lists'[l].indexes) <= size'
               /\ \A k \in DOMAIN lists'[l].indexes : lists'[l].indexes[k] \in 1 .. values'
    <2>1. CASE l \in DOMAIN lists
      <3>1. lists'[l] = lists[l] /\ Len(lists[l].indexes) <= size BY <2>1 DEF Extends, Objects
      <3>2. lists[l] \in ListType BY <2>1 DEF Objects
      <3>3. Len(lists[l].indexes) \in Nat BY <3>2 DEF ListType
      <3>4. Len(lists'[l].indexes) <= size' BY <3>1, <3>3 DEF Sizes
      <3> QED BY <2>1, <3>1, <3>4 DEF Objects
    <2>2. CASE l \notin DOMAIN lists
      <3>1. lists'[l].indexes = <<>> BY <1>1, <2>2 DEF Extends, NoNames
      <3>2. Len(lists'[l].indexes) = 0 /\ DOMAIN lists'[l].indexes = {} BY <3>1
      <3> QED BY <3>2
    <2> QED BY <2>1, <2>2
  <1>2. lists' \in Seq(ListType) /\ 1 \in DOMAIN lists' BY DEF Extends, Objects
  <1> QED BY <1>1, <1>2 DEF Objects

\* The stack stays well formed when its top frame moves on.
LEMMA RetopsTyped ==
  ASSUME Sizes, Frames, WaitInv, NEW f \in FrameType, Retops(f), Alike(f, Top), Fits(f),
         f.pc \in 1 .. Len(f.code) + 1, DOMAIN lists \subseteq DOMAIN lists',
         UNCHANGED <<values, shared, size>>
  PROVE  /\ Sizes' /\ Frames' /\ WaitInv'
         /\ DOMAIN stack' \subseteq DOMAIN stack
         /\ \A j \in DOMAIN stack' : Alike(stack'[j], stack[j])
  <1>1. /\ DOMAIN stack' = DOMAIN stack /\ Len(stack') = Len(stack) /\ stack' \in Seq(FrameType)
        /\ stack'[Len(stack)] = f /\ stack[Len(stack)] = Top
        /\ Len(stack) \in DOMAIN stack
        /\ \A j \in DOMAIN stack : j # Len(stack) => stack'[j] = stack[j]
        /\ DOMAIN stack = 1 .. Len(stack) /\ Len(stack) \in Nat
    BY StackFacts DEF Retops, Top
  <1>2. Sizes' BY <1>1 DEF Sizes
  <1>3. Frames'
    <2>1. ASSUME NEW j \in DOMAIN stack
          PROVE  /\ Fits(stack'[j]) /\ stack'[j].li \in DOMAIN lists' /\ stack'[j].value <= values'
                 /\ stack'[j].pc \in 1 .. Len(stack'[j].code) + 1
      BY <1>1 DEF Frames, Alike
    <2> QED BY <1>1, <2>1 DEF Frames, Fits
  <1>4. WaitInv' BY <1>1 DEF WaitInv, Waits
  <1>5. \A j \in DOMAIN stack : Alike(stack'[j], stack[j]) BY <1>1 DEF Alike
  <1> QED BY <1>1, <1>2, <1>3, <1>4, <1>5

\* A step that prints a leaf or a reference.
LEMMA QuietStep ==
  ASSUME ExprInv, Printing, stack' = Advanced, lists' = Lists, UNCHANGED <<values, shared, size>>
  PROVE  ExprInv'
  <1> USE DEF ExprInv
  <1> DEFINE g == [Top EXCEPT !.pc = @ + 1]
  <1>1. /\ stack # <<>> /\ Len(stack) \in DOMAIN stack /\ Top = stack[Len(stack)]
        /\ Top \in FrameType /\ Fits(Top)
        /\ Top.pc \in 1 .. Len(Top.code) + 1 /\ Waits(Top)
    BY TopStep DEF Printing, Waits
  <1>2. /\ g \in FrameType /\ Fits(g) /\ g.pc \in 1 .. Len(g.code) + 1
        /\ Alike(g, Top) /\ g.name = Top.name /\ g.level = Top.level
        /\ Counted(g) <=> Counted(Top)
        /\ Pushed(g) <=> Pushed(Top)
    BY <1>1, MovedOn
  <1>3. Retops(g) BY <1>1, AdvancedRetops
  <1> HIDE DEF g
  <1>4. Extends(lists') BY ListsFacts
  <1>5. DOMAIN lists \subseteq DOMAIN lists' BY <1>4 DEF Extends
  <1>6. /\ Sizes' /\ Frames' /\ WaitInv'
        /\ DOMAIN stack' \subseteq DOMAIN stack
        /\ \A j \in DOMAIN stack' : Alike(stack'[j], stack[j])
    BY <1>2, <1>3, <1>5, RetopsTyped
  <1>7. Objects' BY <1>4, ExtendsObjects DEF Sizes
  <1>8. ChainInv' /\ BoundInv' /\ ApartInv' /\ DistinctInv'
    <2>1. Keeps BY <1>4, <1>6 DEF Keeps, Extends
    <2> QED BY <1>3, <2>1, KeepsNames DEF Retops
  <1>9. /\ DOMAIN stack' = DOMAIN stack /\ stack' \in Seq(FrameType)
        /\ \A j \in DOMAIN stack : stack'[j] = IF j = Len(stack) THEN g ELSE stack[j]
    BY <1>3 DEF Retops
  <1>10. CountInv' /\ LevelInv'
    <2>1. SameCount BY <1>1, <1>2, <1>4, <1>9 DEF SameCount, Extends, NoNames, Alike
    <2> QED BY <1>9, <2>1, SameCountKeeps
  <1>11. AnonInv'
    <2>1. SameAnon BY <1>1, <1>2, <1>4, <1>9 DEF SameAnon, Extends, NoNames, Alike
    <2> QED BY <1>9, <2>1, SameAnonKeeps DEF Objects
  <1> QED BY <1>6, <1>7, <1>8, <1>10, <1>11

SetCount(l, n) == [lists EXCEPT ![l].index_count = n]

\* What a change of _index_count changes.
LEMMA CountUpdates ==
  ASSUME Objects, NEW l \in DOMAIN lists, NEW n \in Int
  PROVE  /\ SetCount(l, n) \in Seq(ListType)
         /\ DOMAIN SetCount(l, n) = DOMAIN lists
         /\ \A m \in DOMAIN lists :
              /\ SetCount(l, n)[m].indexes = lists[m].indexes
              /\ SetCount(l, n)[m].anonymous = lists[m].anonymous
              /\ SetCount(l, n)[m].index_count = IF m = l THEN n ELSE lists[m].index_count
  <1>1. lists \in Seq(ListType) /\ lists[l] \in ListType BY DEF Objects
  <1> DEFINE o == [lists[l] EXCEPT !.index_count = n]
  <1>2. /\ o \in ListType
        /\ o.indexes = lists[l].indexes /\ o.anonymous = lists[l].anonymous /\ o.index_count = n
    BY <1>1 DEF ListType
  <1>3. SetCount(l, n) = [lists EXCEPT ![l] = o] BY DEF SetCount
  <1> HIDE DEF o
  <1> QED BY <1>1, <1>2, <1>3

SetAnon(l, a) == [lists EXCEPT ![l].anonymous = a]

\* What push_anon and pop_anon change.
LEMMA AnonUpdates ==
  ASSUME Objects, NEW l \in DOMAIN lists, NEW a \in Seq(Nat)
  PROVE  /\ SetAnon(l, a) \in Seq(ListType)
         /\ DOMAIN SetAnon(l, a) = DOMAIN lists
         /\ \A m \in DOMAIN lists :
              /\ SetAnon(l, a)[m].indexes = lists[m].indexes
              /\ SetAnon(l, a)[m].index_count = lists[m].index_count
              /\ SetAnon(l, a)[m].anonymous = IF m = l THEN a ELSE lists[m].anonymous
  <1>1. lists \in Seq(ListType) /\ lists[l] \in ListType BY DEF Objects
  <1> DEFINE o == [lists[l] EXCEPT !.anonymous = a]
  <1>2. /\ o \in ListType
        /\ o.indexes = lists[l].indexes /\ o.index_count = lists[l].index_count /\ o.anonymous = a
    BY <1>1 DEF ListType
  <1>3. SetAnon(l, a) = [lists EXCEPT ![l] = o] BY DEF SetAnon
  <1> HIDE DEF o
  <1> QED BY <1>1, <1>2, <1>3

\* The objects stay well formed when no entry changes.
LEMMA SameEntriesObjects ==
  ASSUME Objects, UNCHANGED <<values, size>>, lists' \in Seq(ListType), DOMAIN lists' = DOMAIN lists,
         \A l \in DOMAIN lists : lists'[l].indexes = lists[l].indexes
  PROVE  Objects'
  BY DEF Objects

\* inc_index_count.
LEMMA IncStep ==
  ASSUME ExprInv, IncIndexCount
  PROVE  ExprInv'
  <1> USE DEF ExprInv
  <1>1. /\ stack # <<>> /\ Len(stack) \in DOMAIN stack /\ Top = stack[Len(stack)]
        /\ Top \in FrameType /\ Fits(Top) /\ Top.li \in DOMAIN lists
        /\ Top.pc \in 1 .. Len(Top.code) + 1 /\ Top.pc <= Len(Top.code) /\ Top.code[Top.pc] = "inc"
    BY TopStep DEF IncIndexCount
  <1>2. /\ Top.kind \in {"if2", "loop"} /\ Top.pc = 2 /\ ~Counted(Top)
        /\ Len(Top.code) \in Nat /\ Len(Top.code) >= 2
    BY <1>1, StepsOf DEF Counted
  <1> DEFINE n == IF Top.kind = "loop" THEN lists[Top.li].index_count + 1 ELSE Top.level
             f == [Top EXCEPT !.pc = @ + 1, !.level = n]
  <1>3. n \in -1 .. MaxNodes
    <2>1. Len(stack) \in Nat \ {0} /\ DOMAIN stack = 1 .. Len(stack) BY <1>1, StackFacts
    <2>2. Counting(Top.li, Len(stack)) = Counting(Top.li, Len(stack) - 1)
      BY <1>1, <1>2, <2>1 DEF Counting
    <2>3. /\ Cardinality(Counting(Top.li, Len(stack) - 1)) \in Nat
          /\ Cardinality(Counting(Top.li, Len(stack) - 1)) <= Len(stack) - 1
      <3>1. Len(stack) - 1 \in Nat BY <2>1
      <3> QED BY <3>1, CountingFinite
    <2>4. lists[Top.li].index_count = Cardinality(Counting(Top.li, Len(stack) - 1)) - 1
      BY <1>1, <2>2 DEF CountInv
    <2>5. lists[Top.li].index_count + 1 \in -1 .. MaxNodes
      BY <2>1, <2>3, <2>4, PrintExprAssumption DEF Sizes
    <2>6. Top.level \in -1 .. MaxNodes BY <1>1 DEF FrameType
    <2> QED BY <2>5, <2>6
  <1>4. stack' = [Advanced EXCEPT ![Len(stack)].level = n]
    <2>1. Advanced[Len(stack)].level = Top.level BY <1>1 DEF Advanced, FrameType
    <2> QED BY <2>1 DEF IncIndexCount
  <1> HIDE DEF n
  <1>5. Retops(f) BY <1>1, <1>3, <1>4, AdvancedWithRetops
  <1>6. f \in FrameType BY <1>1, <1>3, FramesMove
  <1>7. /\ f.kind = Top.kind /\ f.code = Top.code /\ f.li = Top.li /\ f.value = Top.value
        /\ f.name = Top.name /\ f.level = n /\ f.pc = 3
    BY <1>1, <1>2 DEF FrameType
  <1> HIDE DEF f
  <1>8. Fits(f) /\ Alike(f, Top) BY <1>1, <1>7 DEF Fits, Alike
  <1>9. f.pc \in 1 .. Len(f.code) + 1 BY <1>2, <1>7
  <1>10. Counted(f) BY <1>2, <1>7 DEF Counted
  <1>11. /\ lists' \in Seq(ListType) /\ DOMAIN lists' = DOMAIN lists
         /\ \A l \in DOMAIN lists :
              /\ lists'[l].indexes = lists[l].indexes
              /\ lists'[l].anonymous = lists[l].anonymous
              /\ lists'[l].index_count = IF l = Top.li THEN lists[l].index_count + 1 ELSE lists[l].index_count
    <2>1. lists[Top.li] \in ListType BY <1>1 DEF Objects
    <2>2. lists[Top.li].index_count + 1 \in Int BY <2>1 DEF ListType
    <2>3. lists' = SetCount(Top.li, lists[Top.li].index_count + 1)
      BY DEF IncIndexCount, inc_index_count, SetCount
    <2>4. /\ lists' \in Seq(ListType) /\ DOMAIN lists' = DOMAIN lists
          /\ \A m \in DOMAIN lists :
               /\ lists'[m].indexes = lists[m].indexes
               /\ lists'[m].anonymous = lists[m].anonymous
               /\ lists'[m].index_count = IF m = Top.li THEN lists[Top.li].index_count + 1 ELSE lists[m].index_count
      BY <1>1, <2>2, <2>3, CountUpdates
    <2> QED BY <2>2, <2>4
  <1>12. UNCHANGED <<values, shared, size>> BY DEF IncIndexCount
  <1>13. /\ Sizes' /\ Frames' /\ WaitInv'
         /\ DOMAIN stack' \subseteq DOMAIN stack
         /\ \A j \in DOMAIN stack' : Alike(stack'[j], stack[j])
    BY <1>5, <1>6, <1>8, <1>9, <1>11, <1>12, RetopsTyped
  <1>14. Objects' BY <1>11, <1>12, SameEntriesObjects
  <1>15. ChainInv' /\ BoundInv' /\ ApartInv' /\ DistinctInv'
    <2>1. Keeps BY <1>11, <1>13 DEF Keeps
    <2> QED BY <1>5, <2>1, KeepsNames DEF Retops
  <1>16. CountInv' /\ LevelInv'
    <2>1. Recounts(1) BY <1>11 DEF Recounts
    <2>2. f.kind = "loop" => f.level = lists[Top.li].index_count + 1 BY <1>7 DEF n
    <2> QED BY <1>2, <1>5, <1>6, <1>7, <1>10, <2>1, <2>2, IncCounts
  <1>17. AnonInv'
    <2>1. /\ DOMAIN stack' = DOMAIN stack /\ stack' \in Seq(FrameType)
          /\ \A j \in DOMAIN stack : stack'[j] = IF j = Len(stack) THEN f ELSE stack[j]
      BY <1>5 DEF Retops
    <2>2. ~Pushed(f) /\ ~Pushed(Top) BY <1>2, <1>7 DEF Pushed
    <2>3. SameAnon BY <1>1, <1>7, <1>11, <2>1, <2>2 DEF SameAnon
    <2> QED BY <2>1, <2>3, SameAnonKeeps DEF Objects
  <1> QED BY <1>13, <1>14, <1>15, <1>16, <1>17

\* dec_index_count.
LEMMA DecStep ==
  ASSUME ExprInv, DecIndexCount
  PROVE  ExprInv'
  <1> USE DEF ExprInv
  <1>1. /\ stack # <<>> /\ Len(stack) \in DOMAIN stack /\ Top = stack[Len(stack)]
        /\ Top \in FrameType /\ Fits(Top) /\ Top.li \in DOMAIN lists
        /\ Top.pc \in 1 .. Len(Top.code) + 1 /\ Top.pc <= Len(Top.code) /\ Top.code[Top.pc] = "dec"
    BY TopStep DEF DecIndexCount
  <1>2. /\ (Top.kind = "if2" /\ Top.pc = 6) \/ (Top.kind = "loop" /\ Top.pc = 4)
        /\ Counted(Top) /\ Len(Top.code) \in Nat
    BY <1>1, StepsOf DEF Counted
  <1> DEFINE f == [Top EXCEPT !.pc = @ + 1]
  <1>3. Retops(f) BY <1>1, AdvancedRetops DEF DecIndexCount
  <1>4. f \in FrameType BY <1>1 DEF FrameType
  <1>5. /\ f.kind = Top.kind /\ f.code = Top.code /\ f.li = Top.li /\ f.value = Top.value
        /\ f.name = Top.name /\ f.pc = Top.pc + 1
    BY <1>1 DEF FrameType
  <1> HIDE DEF f
  <1>6. Fits(f) /\ Alike(f, Top) BY <1>1, <1>5 DEF Fits, Alike
  <1>7. f.pc \in 1 .. Len(f.code) + 1 BY <1>1, <1>2, <1>5
  <1>8. ~Counted(f) BY <1>2, <1>5 DEF Counted
  <1>9. /\ lists' \in Seq(ListType) /\ DOMAIN lists' = DOMAIN lists
        /\ \A l \in DOMAIN lists :
             /\ lists'[l].indexes = lists[l].indexes
             /\ lists'[l].anonymous = lists[l].anonymous
             /\ lists'[l].index_count = IF l = Top.li THEN lists[l].index_count + -1 ELSE lists[l].index_count
    <2>1. lists[Top.li] \in ListType BY <1>1 DEF Objects
    <2>2. lists[Top.li].index_count - 1 \in Int /\ lists[Top.li].index_count - 1 = lists[Top.li].index_count + -1
      BY <2>1 DEF ListType
    <2>3. lists' = SetCount(Top.li, lists[Top.li].index_count - 1)
      BY DEF DecIndexCount, dec_index_count, SetCount
    <2>4. /\ lists' \in Seq(ListType) /\ DOMAIN lists' = DOMAIN lists
          /\ \A m \in DOMAIN lists :
               /\ lists'[m].indexes = lists[m].indexes
               /\ lists'[m].anonymous = lists[m].anonymous
               /\ lists'[m].index_count = IF m = Top.li THEN lists[Top.li].index_count - 1 ELSE lists[m].index_count
      BY <1>1, <2>2, <2>3, CountUpdates
    <2> QED BY <2>2, <2>4
  <1>10. UNCHANGED <<values, shared, size>> BY DEF DecIndexCount
  <1>11. /\ Sizes' /\ Frames' /\ WaitInv'
         /\ DOMAIN stack' \subseteq DOMAIN stack
         /\ \A j \in DOMAIN stack' : Alike(stack'[j], stack[j])
    BY <1>3, <1>4, <1>6, <1>7, <1>9, <1>10, RetopsTyped
  <1>12. Objects' BY <1>9, <1>10, SameEntriesObjects
  <1>13. ChainInv' /\ BoundInv' /\ ApartInv' /\ DistinctInv'
    <2>1. Keeps BY <1>9, <1>11 DEF Keeps
    <2> QED BY <1>3, <2>1, KeepsNames DEF Retops
  <1>14. CountInv' /\ LevelInv'
    <2>1. Recounts(-1) BY <1>9 DEF Recounts
    <2> QED BY <1>2, <1>3, <1>4, <1>5, <1>8, <2>1, DecCounts
  <1>15. AnonInv'
    <2>1. /\ DOMAIN stack' = DOMAIN stack /\ stack' \in Seq(FrameType)
          /\ \A j \in DOMAIN stack : stack'[j] = IF j = Len(stack) THEN f ELSE stack[j]
      BY <1>3 DEF Retops
    <2>2. ~Pushed(f) /\ ~Pushed(Top) BY <1>2, <1>5 DEF Pushed
    <2>3. SameAnon BY <1>1, <1>5, <1>9, <2>1, <2>2 DEF SameAnon
    <2> QED BY <2>1, <2>3, SameAnonKeeps DEF Objects
  <1> QED BY <1>11, <1>12, <1>13, <1>14, <1>15

\* push_anon.
LEMMA PushStep ==
  ASSUME ExprInv, PushAnon
  PROVE  ExprInv'
  <1> USE DEF ExprInv
  <1>1. /\ stack # <<>> /\ Len(stack) \in DOMAIN stack /\ Top = stack[Len(stack)]
        /\ Top \in FrameType /\ Fits(Top) /\ Top.li \in DOMAIN lists
        /\ Top.pc \in 1 .. Len(Top.code) + 1 /\ Top.pc <= Len(Top.code) /\ Top.code[Top.pc] = "push"
    BY TopStep DEF PushAnon
  <1>2. Top.kind = "decompose" /\ Top.pc = 2 /\ Len(Top.code) = 5 BY <1>1, StepsOf
  <1>3. /\ Len(stack) = 1 /\ DOMAIN stack = {1} /\ Top = stack[1] /\ Top.li = 1
    <2>1. Len(stack) = 1 /\ Top.li = 1 BY <1>1, <1>2 DEF AnonInv
    <2> QED BY <1>1, <2>1, StackFacts
  <1>4. lists[1].anonymous = <<>>
    BY <1>1, <1>2, <1>3 DEF AnonInv, Pushed
  <1> DEFINE f == [Top EXCEPT !.pc = @ + 1, !.name = 0]
  <1>5. Retops(f)
    <2>1. 0 \in -1 .. MaxNodes BY PrintExprAssumption
    <2>2. Len(lists[Top.li].anonymous) = 0 BY <1>3, <1>4
    <2>3. stack' = [Advanced EXCEPT ![Len(stack)].name = 0] BY <2>2 DEF PushAnon
    <2> QED BY <1>1, <2>1, <2>3, AdvancedWithRetops
  <1>6. f \in FrameType 
    <2>1. 0 \in -1 .. MaxNodes BY PrintExprAssumption
    <2> QED BY <1>1, <2>1, FramesMove
  <1>7. /\ f.kind = Top.kind /\ f.code = Top.code /\ f.li = Top.li /\ f.value = Top.value
        /\ f.level = Top.level /\ f.pc = 3 /\ f.name = 0
    BY <1>1, <1>2 DEF FrameType
  <1> HIDE DEF f
  <1>8. Fits(f) /\ Alike(f, Top) BY <1>1, <1>2, <1>7 DEF Fits, Alike, Binder
  <1>9. f.pc \in 1 .. Len(f.code) + 1
    <2>1. Len(f.code) = 5 BY <1>2, <1>7
    <2> QED BY <1>7, <2>1
  <1>10. /\ lists' \in Seq(ListType) /\ DOMAIN lists' = DOMAIN lists
         /\ \A l \in DOMAIN lists :
              /\ lists'[l].indexes = lists[l].indexes
              /\ lists'[l].index_count = lists[l].index_count
              /\ lists'[l].anonymous = IF l = 1 THEN <<1>> ELSE lists[l].anonymous
    <2>1. lists' = SetAnon(1, <<1>>)
      <3>1. Append(lists[1].anonymous, 1) = <<1>> BY <1>4
      <3> QED BY <1>3, <3>1 DEF PushAnon, push_anon, SetAnon
    <2>2. <<1>> \in Seq(Nat) OBVIOUS
    <2>3. 1 \in DOMAIN lists BY <1>1, <1>3
    <2> HIDE DEF ExprInv
    <2> QED BY <2>1, <2>2, <2>3, AnonUpdates DEF ExprInv
  <1>11. UNCHANGED <<values, shared, size>> BY DEF PushAnon
  <1>12. /\ Sizes' /\ Frames' /\ WaitInv'
         /\ DOMAIN stack' \subseteq DOMAIN stack
         /\ \A j \in DOMAIN stack' : Alike(stack'[j], stack[j])
    BY <1>5, <1>6, <1>8, <1>9, <1>10, <1>11, RetopsTyped
  <1>13. Objects' BY <1>10, <1>11, SameEntriesObjects
  <1>14. ChainInv' /\ BoundInv' /\ ApartInv' /\ DistinctInv'
    <2>1. Keeps BY <1>10, <1>12 DEF Keeps
    <2> QED BY <1>5, <2>1, KeepsNames DEF Retops
  <1>15. /\ DOMAIN stack' = {1} /\ stack' \in Seq(FrameType) /\ stack'[1] = f
    BY <1>3, <1>5 DEF Retops
  <1>16. CountInv' /\ LevelInv'
    <2>1. ~Counted(f) /\ ~Counted(Top) BY <1>2, <1>7 DEF Counted
    <2>2. SameCount BY <1>3, <1>7, <1>10, <1>15, <2>1 DEF SameCount
    <2> QED BY <1>15, <2>2, SameCountKeeps
  <1>17. AnonInv'
    <2>1. Pushed(f) BY <1>2, <1>7 DEF Pushed
    <2>2. stack' # <<>> BY <1>15
    <2>3. \A l \in DOMAIN lists' :
            lists'[l].anonymous = IF l = 1 /\ stack' # <<>> /\ Pushed(stack'[1]) THEN <<1>> ELSE <<>>
      BY <1>10, <1>15, <2>1, <2>2 DEF AnonInv
    <2>4. \A j \in DOMAIN stack' : /\ stack'[j].kind = "decompose" => j = 1 /\ stack'[j].li = 1
                                   /\ Pushed(stack'[j]) => stack'[j].name = 0
      BY <1>3, <1>7, <1>15, <2>1
    <2> QED BY <2>3, <2>4 DEF AnonInv, Pushed
  <1> QED BY <1>12, <1>13, <1>14, <1>16, <1>17

\* pop_anon.
LEMMA PopStep ==
  ASSUME ExprInv, PopAnon
  PROVE  ExprInv'
  <1> USE DEF ExprInv
  <1>1. /\ stack # <<>> /\ Len(stack) \in DOMAIN stack /\ Top = stack[Len(stack)]
        /\ Top \in FrameType /\ Fits(Top) /\ Top.li \in DOMAIN lists
        /\ Top.pc \in 1 .. Len(Top.code) + 1 /\ Top.pc <= Len(Top.code) /\ Top.code[Top.pc] = "pop"
    BY TopStep DEF PopAnon
  <1>2. Top.kind = "decompose" /\ Top.pc = 5 /\ Len(Top.code) = 5 BY <1>1, StepsOf
  <1>3. /\ Len(stack) = 1 /\ DOMAIN stack = {1} /\ Top = stack[1] /\ Top.li = 1
    <2>1. Len(stack) = 1 /\ Top.li = 1 BY <1>1, <1>2 DEF AnonInv
    <2> QED BY <1>1, <2>1, StackFacts
  <1>4. lists[1].anonymous = <<1>>
    BY <1>1, <1>2, <1>3 DEF AnonInv, Pushed
  <1> DEFINE f == [Top EXCEPT !.pc = @ + 1]
  <1>5. Retops(f)
    BY <1>1, AdvancedRetops DEF PopAnon
  <1>6. f \in FrameType BY <1>1 DEF FrameType
  <1>7. /\ f.kind = Top.kind /\ f.code = Top.code /\ f.li = Top.li /\ f.value = Top.value
        /\ f.level = Top.level /\ f.pc = 6
    BY <1>1, <1>2 DEF FrameType
  <1> HIDE DEF f
  <1>8. Fits(f) /\ Alike(f, Top) BY <1>1, <1>2, <1>7 DEF Fits, Alike, Binder
  <1>9. f.pc \in 1 .. Len(f.code) + 1
    <2>1. Len(f.code) = 5 BY <1>2, <1>7
    <2> QED BY <1>7, <2>1
  <1>10. /\ lists' \in Seq(ListType) /\ DOMAIN lists' = DOMAIN lists
         /\ \A l \in DOMAIN lists :
              /\ lists'[l].indexes = lists[l].indexes
              /\ lists'[l].index_count = lists[l].index_count
              /\ lists'[l].anonymous = IF l = 1 THEN <<>> ELSE lists[l].anonymous
    <2>1. lists' = SetAnon(1, <<>>)
      <3>1. SubSeq(lists[1].anonymous, 1, Len(lists[1].anonymous) - 1) = <<>>
        <4>1. Len(lists[1].anonymous) = 1 BY <1>4
        <4> QED BY <4>1, SubSeqEmpty
      <3> QED BY <1>3, <3>1 DEF PopAnon, pop_anon, SetAnon
    <2>2. <<>> \in Seq(Nat) OBVIOUS
    <2>3. 1 \in DOMAIN lists BY <1>1, <1>3
    <2> HIDE DEF ExprInv
    <2> QED BY <2>1, <2>2, <2>3, AnonUpdates DEF ExprInv
  <1>11. UNCHANGED <<values, shared, size>> BY DEF PopAnon
  <1>12. /\ Sizes' /\ Frames' /\ WaitInv'
         /\ DOMAIN stack' \subseteq DOMAIN stack
         /\ \A j \in DOMAIN stack' : Alike(stack'[j], stack[j])
    BY <1>5, <1>6, <1>8, <1>9, <1>10, <1>11, RetopsTyped
  <1>13. Objects' BY <1>10, <1>11, SameEntriesObjects
  <1>14. ChainInv' /\ BoundInv' /\ ApartInv' /\ DistinctInv'
    <2>1. Keeps BY <1>10, <1>12 DEF Keeps
    <2> QED BY <1>5, <2>1, KeepsNames DEF Retops
  <1>15. /\ DOMAIN stack' = {1} /\ stack' \in Seq(FrameType) /\ stack'[1] = f
    BY <1>3, <1>5 DEF Retops
  <1>16. CountInv' /\ LevelInv'
    <2>1. ~Counted(f) /\ ~Counted(Top) BY <1>2, <1>7 DEF Counted
    <2>2. SameCount BY <1>3, <1>7, <1>10, <1>15, <2>1 DEF SameCount
    <2> QED BY <1>15, <2>2, SameCountKeeps
  <1>17. AnonInv'
    <2>1. ~Pushed(f) BY <1>2, <1>7 DEF Pushed
    <2>2. stack' # <<>> BY <1>15
    <2>3. \A l \in DOMAIN lists' :
            lists'[l].anonymous = IF l = 1 /\ stack' # <<>> /\ Pushed(stack'[1]) THEN <<1>> ELSE <<>>
      BY <1>10, <1>15, <2>1, <2>2 DEF AnonInv
    <2>4. \A j \in DOMAIN stack' : /\ stack'[j].kind = "decompose" => j = 1 /\ stack'[j].li = 1
                                   /\ Pushed(stack'[j]) => stack'[j].name = 0
      BY <1>3, <1>7, <1>15, <2>1
    <2> QED BY <2>3, <2>4 DEF AnonInv, Pushed
  <1> QED BY <1>12, <1>13, <1>14, <1>16, <1>17

\* A handler returns.
LEMMA ReturnStep ==
  ASSUME ExprInv, Return
  PROVE  ExprInv'
  <1> USE DEF ExprInv
  <1>1. Pops /\ Top.pc > Len(Top.code) BY ReturnPops
  <1>2. /\ Len(stack) \in Nat /\ DOMAIN stack = 1 .. Len(stack) /\ Len(stack) \in DOMAIN stack
        /\ Top = stack[Len(stack)] /\ \A j \in DOMAIN stack : stack[j] \in FrameType
    BY <1>1, StackFacts DEF Pops, Top
  <1>3. /\ stack' \in Seq(FrameType) /\ Len(stack') = Len(stack) - 1
        /\ DOMAIN stack' = 1 .. Len(stack) - 1 /\ DOMAIN stack' \subseteq DOMAIN stack
        /\ \A j \in DOMAIN stack' : j < Len(stack)
        /\ \A j \in DOMAIN stack : j \notin DOMAIN stack' => j = Len(stack)
    BY <1>1, <1>2 DEF Pops
  <1>4. ASSUME NEW j \in DOMAIN stack'
        PROVE  /\ stack'[j] \in FrameType /\ Fits(stack'[j])
               /\ stack'[j].pc \in 1 .. Len(stack'[j].code) + 1
               /\ Alike(stack'[j], stack[j])
               /\ stack'[j].name = stack[j].name /\ stack'[j].level = stack[j].level
               /\ Counted(stack'[j]) <=> Counted(stack[j])
               /\ Pushed(stack'[j]) <=> Pushed(stack[j])
    <2>1. /\ j \in DOMAIN stack /\ j < Len(stack) /\ Waits(stack[j]) /\ stack[j] \in FrameType
          /\ Fits(stack[j]) /\ stack[j].pc \in 1 .. Len(stack[j].code) + 1
      BY <1>2, <1>3 DEF WaitInv, Frames
    <2>2. CASE j = Len(stack) - 1
      <3>1. stack'[j] = [stack[j] EXCEPT !.pc = @ + 1] BY <1>1, <2>2 DEF Pops
      <3> QED BY <2>1, <3>1, MovedOn
    <2>3. CASE j # Len(stack) - 1
      <3>1. stack'[j] = stack[j] BY <1>1, <2>3 DEF Pops
      <3> QED BY <2>1, <3>1 DEF Alike
    <2> QED BY <2>2, <2>3
  <1>5. lists' = lists /\ values' = values /\ size' = size BY DEF Return
  <1>6. Sizes'
    <2>1. shared' = shared \/ (Top.kind = "if2" /\ shared' = shared \cup {Top.value})
      BY DEF Return
    <2>2. Top.kind = "if2" => Top.value \in 1 .. values
      <3>1. Top.kind = "if2" => Top.value \in Nat \ {0} BY <1>2 DEF BoundInv, Binder
      <3>2. Top.value <= values BY <1>2 DEF Frames
      <3> QED BY <3>1, <3>2 DEF Sizes
    <2>3. shared' \subseteq 1 .. values BY <2>1, <2>2 DEF Sizes
    <2>4. Len(stack') <= size + 1 BY <1>2, <1>3 DEF Sizes
    <2> QED BY <1>5, <2>3, <2>4 DEF Sizes
  <1>7. Frames'
    <2>1. \A j \in DOMAIN stack' : stack'[j].li \in DOMAIN lists' /\ stack'[j].value <= values'
      BY <1>3, <1>4, <1>5 DEF Frames, Alike
    <2> QED BY <1>3, <1>4, <2>1 DEF Frames, Fits
  <1>8. Objects' BY <1>5 DEF Objects
  <1>9. WaitInv'
    <2>1. ASSUME NEW j \in DOMAIN stack', j < Len(stack') PROVE Waits(stack'[j])
      <3>1. stack'[j] = stack[j] BY <1>1, <1>2, <1>3, <2>1 DEF Pops
      <3>2. Waits(stack[j]) BY <1>3, <2>1 DEF WaitInv
      <3> QED BY <3>1, <3>2
    <2> QED BY <2>1 DEF WaitInv, Waits
  <1>10. ChainInv' /\ BoundInv' /\ ApartInv' /\ DistinctInv'
    <2>1. Keeps BY <1>3, <1>4, <1>5 DEF Keeps
    <2> QED BY <1>3, <2>1, KeepsNames
  <1>11. ~Counted(Top) /\ ~Pushed(Top)
    <2>1. Fits(Top) /\ Top.pc \in 1 .. Len(Top.code) + 1 BY <1>2 DEF Frames
    <2> QED BY <1>1, <1>2, <2>1, Finished
  <1>12. CountInv' /\ LevelInv'
    <2>1. SameCount BY <1>2, <1>3, <1>4, <1>5, <1>11 DEF SameCount, Alike
    <2> QED BY <1>3, <2>1, SameCountKeeps
  <1>13. AnonInv'
    <2>1. SameAnon BY <1>2, <1>3, <1>4, <1>5, <1>11 DEF SameAnon, Alike
    <2> QED BY <1>3, <2>1, SameAnonKeeps DEF Objects
  <1> QED BY <1>6, <1>7, <1>8, <1>9, <1>10, <1>12, <1>13

\* The counts and the names of structured bindings stay, and new objects have none.
SameOther ==
  /\ \A l \in DOMAIN lists :
       /\ l \in DOMAIN lists'
       /\ lists'[l].index_count = lists[l].index_count
       /\ lists'[l].anonymous = lists[l].anonymous
  /\ \A l \in DOMAIN lists' \ DOMAIN lists : lists'[l].index_count = -1 /\ lists'[l].anonymous = <<>>

\* A handler is called.
LEMMA AddStep ==
  ASSUME ExprInv, NEW f \in FrameType, Fits(f), f.pc = 1, f.kind # "decompose", Adds(f), Waits(Top),
         Objects', SameOther, f.value <= values', values <= values', values' \in Nat, values' <= size',
         size' = size + 1, size < MaxNodes, shared' = shared
  PROVE  ExprInv'
  <1> USE DEF ExprInv
  <1> DEFINE n == Len(stack) + 1
  <1>1. /\ Len(stack) \in Nat /\ DOMAIN stack = 1 .. Len(stack) /\ Len(stack) \in DOMAIN stack
        /\ Top = stack[Len(stack)]
    BY StackFacts DEF Adds, Top
  <1>2. /\ stack' \in Seq(FrameType) /\ Len(stack') = n
        /\ DOMAIN stack' = DOMAIN stack \cup {n} /\ n \notin DOMAIN stack
        /\ stack'[n] = f /\ \A j \in DOMAIN stack : stack'[j] = stack[j]
    BY <1>1 DEF Adds, Pushes
  <1>3. Sizes'
    <2>1. size' \in Nat /\ size' <= MaxNodes BY PrintExprAssumption DEF Sizes
    <2>2. Len(stack') <= size' + 1 BY <1>1, <1>2 DEF Sizes
    <2>3. shared' \subseteq 1 .. values' BY DEF Sizes
    <2> QED BY <2>1, <2>2, <2>3 DEF Sizes
  <1>4. Frames'
    <2>1. f.pc \in 1 .. Len(f.code) + 1
      <3>1. f.code \in Seq(Steps) BY CodesAreSequences DEF FrameType
      <3> QED BY <3>1
    <2>2. f.li \in DOMAIN lists' /\ DOMAIN lists \subseteq DOMAIN lists' BY DEF Adds
    <2>3. ASSUME NEW j \in DOMAIN stack'
          PROVE  /\ Fits(stack'[j]) /\ stack'[j].li \in DOMAIN lists' /\ stack'[j].value <= values'
                 /\ stack'[j].pc \in 1 .. Len(stack'[j].code) + 1
      <3>1. CASE j = n BY <1>2, <2>1, <2>2, <3>1
      <3>2. CASE j \in DOMAIN stack
        <4>1. stack[j].value \in Nat /\ stack[j].value <= values
          BY <3>2, StackFacts DEF Frames, FrameType
        <4>2. stack[j].value <= values' BY <4>1 DEF Sizes
        <4> QED BY <1>2, <2>2, <3>2, <4>2 DEF Frames
      <3> QED BY <1>2, <3>1, <3>2
    <2> QED BY <1>2, <2>3 DEF Frames, Fits
  <1>5. WaitInv'
    <2>1. ASSUME NEW j \in DOMAIN stack', j < n PROVE Waits(stack'[j])
      <3>1. j \in DOMAIN stack /\ stack'[j] = stack[j] BY <1>1, <1>2, <2>1
      <3>2. j = Len(stack) \/ j < Len(stack) BY <1>1, <3>1
      <3> QED BY <1>1, <3>1, <3>2 DEF WaitInv
    <2> QED BY <1>2, <2>1 DEF WaitInv, Waits
  <1>6. ChainInv' /\ BoundInv' /\ ApartInv' /\ DistinctInv' BY AddsNames
  <1>7. CountInv' /\ LevelInv'
    <2>1. ~Counted(f) BY DEF Counted
    <2>2. SameCount BY <1>2, <2>1 DEF SameCount, SameOther
    <2> QED BY <1>2, <2>2, SameCountKeeps
  <1>8. AnonInv'
    <2>1. SameAnon BY <1>2 DEF SameAnon, SameOther
    <2> QED BY <1>2, <2>1, SameAnonKeeps DEF Objects
  <1> QED BY <1>3, <1>4, <1>5, <1>6, <1>7, <1>8

\* A new frame is a frame.
LEMMA NewFrames ==
  ASSUME NEW kind \in Kinds, NEW c \in Codes, NEW l \in Nat, NEW v \in Nat, NEW n \in -1 .. MaxNodes
  PROVE  /\ Frame(kind, c, l, v, n) \in FrameType
         /\ Frame(kind, c, l, v, n).kind = kind /\ Frame(kind, c, l, v, n).code = c
         /\ Frame(kind, c, l, v, n).li = l /\ Frame(kind, c, l, v, n).value = v
         /\ Frame(kind, c, l, v, n).name = n /\ Frame(kind, c, l, v, n).pc = 1
  <1>1. -1 \in -1 .. MaxNodes BY PrintExprAssumption
  <1> QED BY <1>1 DEF Frame, FrameType

\* The handlers without names of their own.
QuietFrames ==
  {<<"operand", c>> : c \in OperandCodes \ LiteralCode}
    \cup {<<"sequenced", c>> : c \in SequencedCode \cup PseudoDestructorCode}
    \cup {<<"conversion", c>> : c \in ConstructorConversionCode}

\* A call of one of them keeps the invariant.
LEMMA QuietAddStep ==
  ASSUME ExprInv, Printing, NEW kind, NEW c, <<kind, c>> \in QuietFrames,
         Enter(Frame(kind, c, Names, 0, -1)), lists' = Lists, UNCHANGED <<values, shared>>
  PROVE  ExprInv'
  <1> USE DEF ExprInv
  <1> DEFINE f == Frame(kind, c, Names, 0, -1)
  <1>1. /\ kind \in {"operand", "sequenced", "conversion"} /\ c \in Codes
        /\ kind = "operand" => c \in Seq({"li"})
        /\ kind \in {"sequenced", "conversion"} => c \in Seq({"new"})
    <2>1. OperandCodes \subseteq Seq({"li"}) BY OperandsPassNames
    <2>2. SequencedCode \cup PseudoDestructorCode \cup ConstructorConversionCode \subseteq Seq({"new"})
      BY DEF SequencedCode, PseudoDestructorCode, ConstructorConversionCode
    <2> QED BY <2>1, <2>2 DEF QuietFrames, Codes
  <1>2. /\ Extends(Lists) /\ Names \in DOMAIN Lists /\ Names \in Nat
        /\ ~Renewing(Top) => Names = Top.li
        /\ Renewing(Top) => Names \notin DOMAIN lists
    BY ListsFacts
  <1>3. /\ f \in FrameType /\ f.kind = kind /\ f.code = c /\ f.li = Names /\ f.value = 0 /\ f.pc = 1
    <2>1. -1 \in -1 .. MaxNodes /\ kind \in Kinds BY <1>1, PrintExprAssumption DEF Kinds
    <2> QED BY <1>1, <1>2, <2>1, NewFrames
  <1> HIDE DEF f
  <1>4. Fits(f) /\ ~Binder(f) /\ f.kind # "decompose" BY <1>1, <1>3 DEF Fits, Binder
  <1>5. Pushes(f) /\ size < MaxNodes /\ size' = size + 1 BY <1>3, EnterPushes DEF f
  <1>6. stack # <<>> /\ Waits(Top) BY TopStep DEF Printing, Waits
  <1>7. Adds(f)
    <2>1. lists'[f.li].indexes = Old(f.li) BY <1>2, <1>3 DEF Extends, Old, NoNames
    <2> QED BY <1>2, <1>3, <1>4, <1>5, <1>6, <2>1 DEF Adds, Extends
  <1>8. SameOther BY <1>2 DEF SameOther, Extends, NoNames
  <1>9. Objects' BY <1>2, <1>5, ExtendsObjects DEF Sizes
  <1>10. 0 <= values' /\ values <= values' /\ values' \in Nat /\ values' <= size' BY <1>5 DEF Sizes
  <1> QED BY <1>3, <1>4, <1>5, <1>6, <1>7, <1>8, <1>9, <1>10, AddStep

\* What fresh appends.
LEMMA PushBackFacts ==
  ASSUME NEW ls \in Seq(ListType), NEW l \in DOMAIN ls, NEW v \in Nat
  PROVE  /\ push_back(ls, l, v) \in Seq(ListType)
         /\ DOMAIN push_back(ls, l, v) = DOMAIN ls
         /\ \A m \in DOMAIN ls :
              /\ push_back(ls, l, v)[m].indexes = IF m = l THEN Append(ls[m].indexes, v) ELSE ls[m].indexes
              /\ push_back(ls, l, v)[m].anonymous = ls[m].anonymous
              /\ push_back(ls, l, v)[m].index_count = ls[m].index_count
  <1>1. ls[l] \in ListType OBVIOUS
  <1>2. ls[l].indexes \in Seq(Nat) BY <1>1 DEF ListType
  <1>3. Append(ls[l].indexes, v) \in Seq(Nat) BY <1>2
  <1> DEFINE o == [ls[l] EXCEPT !.indexes = Append(@, v)]
  <1>4. /\ o \in ListType /\ o.indexes = Append(ls[l].indexes, v)
        /\ o.anonymous = ls[l].anonymous /\ o.index_count = ls[l].index_count
    BY <1>1, <1>3 DEF ListType
  <1>5. push_back(ls, l, v) = [ls EXCEPT ![l] = o] BY DEF push_back
  <1> HIDE DEF o
  <1>6. [ls EXCEPT ![l] = o] \in Seq(ListType) /\ DOMAIN [ls EXCEPT ![l] = o] = DOMAIN ls BY <1>4
  <1>7. ASSUME NEW m \in DOMAIN ls PROVE [ls EXCEPT ![l] = o][m] = IF m = l THEN o ELSE ls[m]
    OBVIOUS
  <1> QED BY <1>4, <1>5, <1>6, <1>7

\* The handlers of x ?: y and of array loops.
LEMMA BinderAddStep ==
  ASSUME ExprInv, Printing, NEW kind, NEW c, <<kind, c>> \in {<<"if2", If2Code>>, <<"loop", LoopCode>>},
         NEW v \in {values + 1} \cup (shared \ {stack[j].value : j \in DOMAIN stack}),
         Enter(Frame(kind, c, Names, v, fresh(Lists, Names))),
         lists' = push_back(Lists, Names, v), values' = IF v > values THEN v ELSE values,
         UNCHANGED shared
  PROVE  ExprInv'
  <1> USE DEF ExprInv
  <1> DEFINE f == Frame(kind, c, Names, v, fresh(Lists, Names))
  <1>1. /\ kind \in {"if2", "loop"} /\ c \in Codes
        /\ kind = "if2" => c = If2Code
        /\ kind = "loop" => c = LoopCode
    BY DEF Codes
  <1>2. /\ Extends(Lists) /\ Names \in DOMAIN Lists /\ Names \in Nat
        /\ ~Renewing(Top) => Names = Top.li
        /\ Renewing(Top) => Names \notin DOMAIN lists
    BY ListsFacts
  <1>3. Lists \in Seq(ListType) BY <1>2 DEF Extends
  <1>4. v \in Nat \ {0} /\ v <= values' /\ values <= values' /\ values' \in Nat /\ values' <= values + 1
    BY DEF Sizes
  <1>5. ASSUME NEW l \in DOMAIN Lists
        PROVE  /\ Lists[l].indexes \in Seq(Nat) /\ Lists[l].indexes = Old(l)
               /\ Len(Lists[l].indexes) \in Nat /\ Len(Lists[l].indexes) <= size
               /\ \A k \in DOMAIN Lists[l].indexes : Lists[l].indexes[k] \in 1 .. values
    <2>1. Lists[l].indexes = Old(l) BY <1>2 DEF Extends, Old, NoNames
    <2>2. Lists[l] \in ListType BY <1>3
    <2>3. Lists[l].indexes \in Seq(Nat) BY <2>2 DEF ListType
    <2>4. /\ Len(Old(l)) <= size
          /\ \A k \in DOMAIN Old(l) : Old(l)[k] \in 1 .. values
      <3>1. CASE l \in DOMAIN lists BY <3>1 DEF Old, Objects
      <3>2. CASE l \notin DOMAIN lists
        <4>1. Old(l) = <<>> BY <3>2 DEF Old
        <4>2. Len(Old(l)) = 0 /\ DOMAIN Old(l) = {} BY <4>1
        <4> QED BY <4>2 DEF Sizes
      <3> QED BY <3>1, <3>2
    <2> QED BY <2>1, <2>3, <2>4
  <1>6. size < MaxNodes BY DEF Enter
  <1>7. fresh(Lists, Names) = Len(Old(Names)) /\ fresh(Lists, Names) \in -1 .. MaxNodes
    <2>1. fresh(Lists, Names) = Len(Old(Names)) BY <1>2, <1>5 DEF fresh
    <2>2. Len(Old(Names)) \in Nat /\ Len(Old(Names)) <= size BY <1>2, <1>5
    <2> QED BY <1>6, <2>1, <2>2, PrintExprAssumption DEF Sizes
  <1>8. /\ f \in FrameType /\ f.kind = kind /\ f.code = c /\ f.li = Names /\ f.value = v /\ f.pc = 1
        /\ f.name = Len(Old(Names))
    <2>1. kind \in Kinds BY <1>1 DEF Kinds
    <2> QED BY <1>1, <1>2, <1>4, <1>7, <2>1, NewFrames
  <1> HIDE DEF f
  <1>9. Fits(f) /\ Binder(f) /\ f.kind # "decompose" BY <1>1, <1>8 DEF Fits, Binder
  <1>10. Pushes(f) /\ size' = size + 1 BY <1>8, EnterPushes DEF f
  <1>11. stack # <<>> /\ Waits(Top) BY TopStep DEF Printing, Waits
  <1>12. /\ lists' \in Seq(ListType) /\ DOMAIN lists' = DOMAIN Lists
         /\ \A m \in DOMAIN Lists :
              /\ lists'[m].indexes = IF m = Names THEN Append(Lists[m].indexes, v) ELSE Lists[m].indexes
              /\ lists'[m].anonymous = Lists[m].anonymous
              /\ lists'[m].index_count = Lists[m].index_count
    <2>1. v \in Nat BY <1>4
    <2> DEFINE pb == push_back(Lists, Names, v)
    <2>2. /\ pb \in Seq(ListType) /\ DOMAIN pb = DOMAIN Lists
          /\ \A m \in DOMAIN Lists :
               /\ pb[m].indexes = IF m = Names THEN Append(Lists[m].indexes, v) ELSE Lists[m].indexes
               /\ pb[m].anonymous = Lists[m].anonymous
               /\ pb[m].index_count = Lists[m].index_count
      <3> HIDE DEF ExprInv
      <3> QED BY <1>2, <1>3, <2>1, PushBackFacts, Zenon
    <2>3. lists' = pb OBVIOUS
    <2> HIDE DEF pb
    <2> QED BY <2>2, <2>3
  <1>13. SameOther BY <1>2, <1>12 DEF SameOther, Extends, NoNames
  <1>14. Adds(f)
    <2>1. lists'[f.li].indexes = Append(Old(f.li), f.value) BY <1>2, <1>5, <1>8, <1>12
    <2>2. \A l \in DOMAIN lists : l # f.li => lists'[l].indexes = lists[l].indexes
      BY <1>2, <1>8, <1>12 DEF Extends
    <2>3. ASSUME NEW j \in DOMAIN stack PROVE stack[j].value # f.value
      <3>1. stack[j].value <= values /\ stack[j].value \in Nat BY StackFacts DEF Frames, FrameType
      <3>2. v = values + 1 \/ v \notin {stack[i].value : i \in DOMAIN stack} OBVIOUS
      <3> QED BY <1>8, <3>1, <3>2 DEF Sizes
    <2>4. DOMAIN lists \subseteq DOMAIN lists' /\ f.li \in DOMAIN lists' BY <1>2, <1>8, <1>12 DEF Extends
    <2> QED BY <1>2, <1>4, <1>8, <1>9, <1>10, <1>11, <2>1, <2>2, <2>3, <2>4 DEF Adds
  <1>15. Objects'
    <2>1. ASSUME NEW l \in DOMAIN lists'
          PROVE  /\ Len(lists'[l].indexes) <= size'
                 /\ \A k \in DOMAIN lists'[l].indexes : lists'[l].indexes[k] \in 1 .. values'
      <3>1. l \in DOMAIN Lists BY <1>12
      <3>2. /\ Lists[l].indexes \in Seq(Nat) /\ Len(Lists[l].indexes) <= size /\ Len(Lists[l].indexes) \in Nat
            /\ \A k \in DOMAIN Lists[l].indexes : Lists[l].indexes[k] \in 1 .. values'
        BY <1>4, <1>5, <3>1 DEF Sizes
      <3>3. v \in 1 .. values' BY <1>4
      <3>4. CASE l = Names
        <4>1. lists'[l].indexes = Append(Lists[l].indexes, v) BY <1>12, <3>1, <3>4
        <4>2. Len(lists'[l].indexes) <= size' BY <1>4, <1>10, <3>2, <4>1 DEF Sizes
        <4>3. ASSUME NEW k \in DOMAIN lists'[l].indexes PROVE lists'[l].indexes[k] \in 1 .. values'
          BY <1>4, <3>2, <3>3, <4>1
        <4> QED BY <4>2, <4>3
      <3>5. CASE l # Names
        <4>1. lists'[l].indexes = Lists[l].indexes BY <1>12, <3>1, <3>5
        <4> QED BY <1>10, <3>2, <4>1 DEF Sizes
      <3> QED BY <3>4, <3>5
    <2>2. 1 \in DOMAIN lists' BY <1>2, <1>12 DEF Objects, Extends
    <2> QED BY <1>12, <2>1, <2>2 DEF Objects
  <1>16. f.value <= values' /\ values' <= size' BY <1>4, <1>8, <1>10 DEF Sizes
  <1> QED BY <1>4, <1>6, <1>8, <1>9, <1>10, <1>11, <1>13, <1>14, <1>15, <1>16, AddStep

(***************************************************************************)
(* What find returns and what Coq reads.                                   *)
(***************************************************************************)
\* A set of numbers that is not empty has a least one.
LEMMA Least ==
  ASSUME NEW T \in SUBSET Nat, T # {}
  PROVE  \E x \in T : \A y \in T : x <= y
  <1> DEFINE R == {ss \in Nat \X Nat : ss[1] < ss[2]}
  <1>1. IsWellFoundedOn(R, Nat) BY NatLessThanWellFounded DEF OpToRel
  <1>2. \A x, y \in T : y < x => <<y, x>> \in R OBVIOUS
  <1>3. PICK x \in T : \A y \in T : ~(<<y, x>> \in R)
    <2> HIDE DEF R
    <2> QED BY <1>1, WFMin
  <1> HIDE DEF R
  <1>4. \A y \in T : ~(y < x) BY <1>2, <1>3
  <1>5. x \in Nat /\ \A y \in T : y \in Nat OBVIOUS
  <1> QED BY <1>4, <1>5

\* One that is bounded has a greatest one.
LEMMA Greatest ==
  ASSUME NEW n \in Nat, NEW T \in SUBSET (1 .. n), T # {}
  PROVE  \E x \in T : \A y \in T : y <= x
  <1> DEFINE D == {n - y : y \in T}
  <1>1. D \subseteq Nat /\ D # {}
    <2>1. ASSUME NEW y \in T PROVE n - y \in Nat OBVIOUS
    <2>2. D \subseteq Nat BY <2>1
    <2>3. PICK y \in T : TRUE OBVIOUS
    <2>4. n - y \in D BY <2>3
    <2> QED BY <2>2, <2>4
  <1>2. PICK d \in D : \A e \in D : d <= e
    <2> HIDE DEF D
    <2> QED BY <1>1, Least
  <1>3. PICK x \in T : d = n - x OBVIOUS
  <1>4. \A y \in T : n - y \in D OBVIOUS
  <1>5. \A y \in T : n - x <= n - y BY <1>2, <1>3, <1>4
  <1>6. \A y \in T : y <= x BY <1>5
  <1> QED BY <1>6

\* The loop of find returns the first entry of the value, or -1.
LEMMA FirstIndexFacts ==
  ASSUME NEW is \in Seq(Nat), NEW e
  PROVE  /\ (\A k \in DOMAIN is : is[k] # e) => FirstIndex(is, e) = -1
         /\ (\E k \in DOMAIN is : is[k] = e) =>
              /\ FirstIndex(is, e) \in Nat
              /\ FirstIndex(is, e) + 1 \in DOMAIN is /\ is[FirstIndex(is, e) + 1] = e
              /\ \A k \in DOMAIN is : is[k] = e => FirstIndex(is, e) + 1 <= k
         /\ FirstIndex(is, e) \in -1 .. Len(is) - 1
  <1>1. DOMAIN is = 1 .. Len(is) /\ Len(is) \in Nat OBVIOUS
  <1>2. CASE \A k \in DOMAIN is : is[k] # e
    BY <1>1, <1>2 DEF FirstIndex
  <1>3. CASE \E k \in DOMAIN is : is[k] = e
    <2> DEFINE T == {k \in DOMAIN is : is[k] = e}
               P(i) == is[i] = e /\ \A j \in 1 .. i - 1 : is[j] # e
               c == CHOOSE i \in DOMAIN is : P(i)
    <2>1. T \in SUBSET Nat /\ T # {} BY <1>1, <1>3
    <2>2. PICK x \in T : \A y \in T : x <= y
      <3> HIDE DEF T
      <3> QED BY <2>1, Least
    <2>3. P(x)
      <3>1. ASSUME NEW j \in 1 .. x - 1, is[j] = e PROVE FALSE
        <4>1. j \in T BY <1>1, <3>1
        <4> QED BY <1>1, <2>2, <3>1, <4>1
      <3> QED BY <3>1
    <2>4. c \in DOMAIN is /\ P(c) BY <2>3
    <2>5. FirstIndex(is, e) = c - 1 BY <1>3 DEF FirstIndex
    <2> HIDE DEF c
    <2>6. ASSUME NEW k \in DOMAIN is, is[k] = e PROVE c <= k
      BY <1>1, <2>4, <2>6
    <2> QED BY <1>1, <1>3, <2>4, <2>5, <2>6
  <1> QED BY <1>2, <1>3

\* The innermost of some frames is one of them, and none is further in.
LEMMA InnermostFacts ==
  ASSUME Frames, NEW S \in SUBSET DOMAIN stack
  PROVE  /\ S = {} => Innermost(S) = 0
         /\ S # {} => Innermost(S) \in S
         /\ \A j \in S : (\A k \in S : k <= j) => Innermost(S) = j
  <1>1. Len(stack) \in Nat /\ S \in SUBSET (1 .. Len(stack)) BY StackFacts
  <1>2. CASE S = {} BY <1>2 DEF Innermost
  <1>3. CASE S # {}
    <2> DEFINE P(x) == \A y \in S : y <= x
               c == CHOOSE x \in S : P(x)
    <2>1. \E x \in S : P(x) BY <1>1, <1>3, Greatest
    <2>2. c \in S /\ P(c) BY <2>1
    <2>3. Innermost(S) = c BY <1>3 DEF Innermost
    <2> HIDE DEF c
    <2>4. ASSUME NEW j \in S, P(j) PROVE c = j BY <1>1, <2>2, <2>4
    <2> QED BY <1>3, <2>2, <2>3, <2>4
  <1> QED BY <1>2, <1>3

\* An expression that refers to a value is under it, with nothing in between that
\* could bind the name.
LEMMA NothingBetween ==
  ASSUME Frames, NEW j \in DOMAIN stack, MayRefer(j)
  PROVE  /\ Binder(stack[j]) /\ stack[j].pc > 1
         /\ stack[j].kind = "loop" => stack[j].pc = 3
         /\ \A i \in DOMAIN stack : i > j =>
              /\ ~Binds(stack[i], {"if2", "loop"}) /\ ~Counted(stack[i])
              /\ stack[j].kind = "loop" => ~Renewing(stack[i])
  <1>1. DOMAIN stack = 1 .. Len(stack) /\ Len(stack) \in Nat BY StackFacts
  <1>2. ASSUME NEW i \in DOMAIN stack, i > j
        PROVE  /\ Plainly(stack[i])
               /\ stack[i].kind = "conversion" => stack[j].kind = "if2"
    <2>1. stack[i] \in Above(j) BY <1>1, <1>2 DEF Above
    <2> QED BY <2>1 DEF MayRefer
  <1>3. ASSUME NEW i \in DOMAIN stack, i > j
        PROVE  /\ ~Binds(stack[i], {"if2", "loop"}) /\ ~Counted(stack[i])
               /\ stack[j].kind = "loop" => ~Renewing(stack[i])
    BY <1>2, <1>3 DEF Plainly, At, Binds, Counted, Renewing
  <1>4. /\ Binder(stack[j]) /\ stack[j].pc > 1
        /\ stack[j].kind = "loop" => stack[j].pc = 3
    BY DEF MayRefer, At, Binder
  <1> QED BY <1>3, <1>4

(***************************************************************************)
(* The references.                                                         *)
(***************************************************************************)
\* What RefsResolve says of one reference.
Resolved(r) ==
  /\ r.apart => r.read = 0
  /\ ~r.apart /\ ~r.again => r.read = r.meant
  /\ ~r.apart /\ r.again => r.read = 0 \/ r.foreign

\* The name find returns for an OpaqueValueExpr.
LEMMA OpaqueRefs ==
  ASSUME ExprInv, Printing, NEW j \in DOMAIN stack, MayRefer(j),
         NEW n, n = find(Lists, Names, stack[j].value)
  PROVE  /\ n \in -1 .. MaxNodes
         /\ Resolved(Ref("opaque", n, j, OpaqueBinder(n)))
  <1> USE DEF ExprInv
  <1> DEFINE v == stack[j].value
             es == Lists[Names].indexes
             S == {i \in DOMAIN stack : Binds(stack[i], {"if2", "loop"}) /\ stack[i].name = n}
  <1>1. DOMAIN stack = 1 .. Len(stack) /\ Len(stack) \in Nat /\ \A i \in DOMAIN stack : stack[i] \in FrameType
    BY StackFacts
  <1>2. /\ Binder(stack[j]) /\ stack[j].pc > 1
        /\ \A i \in DOMAIN stack : i > j => ~Binds(stack[i], {"if2", "loop"})
    BY NothingBetween
  <1>3. /\ Extends(Lists) /\ Names \in DOMAIN Lists
        /\ ~Renewing(Top) => Names = Top.li /\ Names \in DOMAIN lists
        /\ Renewing(Top) => Names \notin DOMAIN lists
    BY ListsFacts
  <1>4. /\ es \in Seq(Nat)
        /\ Names \in DOMAIN lists => es = lists[Names].indexes
        /\ Names \notin DOMAIN lists => es = <<>>
    <2>1. Lists[Names] \in ListType BY <1>3 DEF Extends
    <2>2. es \in Seq(Nat) BY <2>1 DEF ListType
    <2> QED BY <1>3, <2>2 DEF Extends, NoNames
  <1>5. n = FirstIndex(es, v) BY DEF find
  <1>6. OpaqueBinder(n) = Innermost(S) BY DEF OpaqueBinder
  <1>7. S \in SUBSET DOMAIN stack OBVIOUS
  <1>8. /\ Names # stack[j].li => \A k \in DOMAIN es : es[k] # v
    <2>1. ASSUME Names # stack[j].li, NEW k \in DOMAIN es PROVE es[k] # v
      <3>1. Names \in DOMAIN lists /\ Names = Top.li
        <4>1. Names \notin DOMAIN lists => DOMAIN es = {} BY <1>4
        <4> QED BY <1>3, <2>1, <4>1
      <3>2. Top = stack[Len(stack)] /\ Len(stack) \in DOMAIN stack BY TopStep DEF Printing
      <3>3. j < Len(stack) BY <1>1, <2>1, <3>1, <3>2
      <3>4. es = Entries(stack[Len(stack)].li) BY <1>4, <3>1, <3>2 DEF Entries
      <3> QED BY <1>2, <2>1, <3>1, <3>2, <3>3, <3>4 DEF ApartInv
    <2> QED BY <2>1
  <1>9. n \in -1 .. MaxNodes
    <2>1. n \in -1 .. Len(es) - 1 BY <1>4, <1>5, FirstIndexFacts
    <2>2. Len(es) <= size /\ Len(es) \in Nat
      <3>1. CASE Names \in DOMAIN lists BY <1>4, <3>1 DEF Objects
      <3>2. CASE Names \notin DOMAIN lists
        <4>1. Len(es) = 0 BY <1>4, <3>2
        <4> QED BY <4>1 DEF Sizes
      <3> QED BY <3>1, <3>2
    <2> HIDE DEF es
    <2> QED BY <2>1, <2>2, PrintExprAssumption DEF Sizes
  <1> HIDE DEF es, S, v
  <1>10. CASE Names # stack[j].li
    <2>1. n = -1 BY <1>4, <1>5, <1>8, <1>10, FirstIndexFacts
    <2>2. S = {} BY <2>1 DEF S, Binds, BoundInv, Binder
    <2>3. OpaqueBinder(n) = 0 BY <1>6, <1>7, <2>2, InnermostFacts
    <2> QED BY <1>9, <1>10, <2>3 DEF Resolved, Ref
  <1>11. CASE Names = stack[j].li
    <2>1. /\ stack[j].li \in DOMAIN lists
          /\ lists[stack[j].li].indexes = es
      BY <1>4, <1>11 DEF Frames
    <2>2. /\ stack[j].name \in Nat /\ stack[j].name + 1 \in DOMAIN es /\ es[stack[j].name + 1] = v
          /\ \A k \in DOMAIN es : es[k] = v => k <= stack[j].name + 1
      BY <1>2, <2>1 DEF BoundInv, Entries, v
    <2>3. /\ n \in Nat /\ n + 1 \in DOMAIN es /\ es[n + 1] = v
          /\ \A k \in DOMAIN es : es[k] = v => n + 1 <= k
      BY <1>4, <1>5, <2>2, FirstIndexFacts
    <2> DEFINE again == \E a, b \in DOMAIN es : a # b /\ es[a] = v /\ es[b] = v
    <2>4. CASE ~again
      <3>1. n + 1 = stack[j].name + 1 BY <2>2, <2>3, <2>4
      <3>2. n = stack[j].name BY <2>2, <2>3, <3>1
      <3>3. j \in S BY <1>2, <3>2 DEF S, Binds, Binder
      <3>4. \A k \in S : k <= j BY <1>1, <1>2 DEF S
      <3>5. OpaqueBinder(n) = j BY <1>6, <1>7, <3>3, <3>4, InnermostFacts
      <3> QED BY <1>9, <1>11, <2>1, <2>4, <3>5 DEF Resolved, Ref, v
    <2>5. CASE again
      <3>1. n # stack[j].name
        <4>1. PICK a, b \in DOMAIN es : a # b /\ es[a] = v /\ es[b] = v BY <2>5
        <4>2. a \in Nat /\ b \in Nat BY <1>4
        <4> QED BY <2>2, <2>3, <4>1, <4>2
      <3>2. ASSUME NEW i \in S PROVE stack[i].li # stack[j].li
        <4>1. i \in DOMAIN stack /\ Binder(stack[i]) /\ stack[i].name = n BY DEF S, Binds, Binder
        <4>2. SUFFICES ASSUME stack[i].li = stack[j].li PROVE FALSE OBVIOUS
        <4>3. es[n + 1] = stack[i].value BY <2>1, <4>1, <4>2 DEF BoundInv, Entries
        <4>4. i = j BY <1>2, <2>3, <4>1, <4>3 DEF DistinctInv, v
        <4> QED BY <3>1, <4>1, <4>4
      <3>3. CASE S = {}
        <4>1. OpaqueBinder(n) = 0 BY <1>6, <1>7, <3>3, InnermostFacts
        <4> QED BY <1>9, <1>11, <2>1, <2>5, <4>1 DEF Resolved, Ref, v
      <3>4. CASE S # {}
        <4>1. OpaqueBinder(n) \in S BY <1>6, <1>7, <3>4, InnermostFacts
        <4>2. stack[OpaqueBinder(n)].li # stack[j].li /\ OpaqueBinder(n) # 0 BY <1>1, <1>7, <3>2, <4>1
        <4> QED BY <1>9, <1>11, <2>1, <2>5, <4>2 DEF Resolved, Ref, v
      <3> QED BY <3>3, <3>4
    <2> QED BY <2>4, <2>5
  <1> QED BY <1>10, <1>11

\* The count that is printed for an ArrayInitIndexExpr.
LEMMA IndexRefs ==
  ASSUME ExprInv, Printing, NEW j \in DOMAIN stack, MayIndex(j),
         NEW n, n = Lists[Names].index_count
  PROVE  n \in -1 .. MaxNodes /\ IndexBinder(n) = j
  <1> USE DEF ExprInv
  <1> DEFINE S == {i \in DOMAIN stack : Binds(stack[i], {"loop"}) /\ stack[i].level = n}
  <1>1. /\ DOMAIN stack = 1 .. Len(stack) /\ Len(stack) \in Nat
        /\ \A i \in DOMAIN stack : stack[i] \in FrameType
    BY StackFacts
  <1>2. /\ Top = stack[Len(stack)] /\ Len(stack) \in DOMAIN stack BY TopStep DEF Printing
  <1>3. stack[j].kind = "loop" /\ MayRefer(j) BY DEF MayIndex
  <1>4. /\ stack[j].pc = 3
        /\ \A i \in DOMAIN stack : i > j =>
             ~Binds(stack[i], {"if2", "loop"}) /\ ~Counted(stack[i]) /\ ~Renewing(stack[i])
    BY <1>3, NothingBetween
  <1>5. \A k \in j .. Len(stack) : k \in DOMAIN stack /\ ~Renewing(stack[k])
    BY <1>1, <1>3, <1>4 DEF Renewing
  <1>6. Names = stack[j].li /\ Lists = lists
    <2>1. ~Renewing(Top) BY <1>1, <1>2, <1>5
    <2>2. Names = Top.li /\ Lists = lists BY <2>1, ListsFacts
    <2>3. j <= Len(stack) /\ \A k \in j .. Len(stack) - 1 : ~Renewing(stack[k]) BY <1>1, <1>5
    <2>4. stack[Len(stack)].li = stack[j].li BY <1>2, <2>3 DEF ChainInv
    <2> QED BY <1>2, <2>2, <2>4
  <1>7. stack[j].level = n
    <2>1. stack[j].li \in DOMAIN lists BY DEF Frames
    <2>2. n = Cardinality(Counting(stack[j].li, Len(stack))) - 1 BY <1>6, <2>1 DEF CountInv
    <2>3. Counted(stack[j]) BY <1>3, <1>4 DEF Counted
    <2>4. stack[j].level = Cardinality(Counting(stack[j].li, j)) - 1 BY <1>3, <2>3 DEF LevelInv
    <2>5. Counting(stack[j].li, Len(stack)) = Counting(stack[j].li, j)
      BY <1>1, <1>4 DEF Counting
    <2> QED BY <2>2, <2>4, <2>5
  <1>8. n \in -1 .. MaxNodes BY <1>1, <1>7 DEF FrameType
  <1>9. j \in S BY <1>3, <1>4, <1>7 DEF Binds
  <1>10. \A k \in S : k <= j BY <1>1, <1>4 DEF Binds
  <1>11. IndexBinder(n) = Innermost(S) BY DEF IndexBinder
  <1> HIDE DEF S
  <1>12. S \in SUBSET DOMAIN stack BY DEF S
  <1> QED BY <1>8, <1>9, <1>10, <1>11, <1>12, InnermostFacts

\* The name find_anon returns for the object of a structured binding.
LEMMA BindingRefs ==
  ASSUME ExprInv, Printing, NEW j \in DOMAIN stack, MayProject(j),
         NEW n, n = find_anon(Lists, Names, j)
  PROVE  n \in -1 .. MaxNodes /\ AnonBinder(n) = j
  <1> USE DEF ExprInv
  <1> DEFINE S == {i \in DOMAIN stack : Binds(stack[i], {"decompose"}) /\ stack[i].name = n}
  <1>1. DOMAIN stack = 1 .. Len(stack) /\ Len(stack) \in Nat BY StackFacts
  <1>2. Top = stack[Len(stack)] /\ Len(stack) \in DOMAIN stack /\ stack # <<>> BY TopStep DEF Printing
  <1>3. stack[j].kind = "decompose" /\ stack[j].pc \in {3, 4} BY DEF MayProject, At
  <1>4. j = 1 /\ stack[j].li = 1 /\ Pushed(stack[j]) /\ stack[j].name = 0
    BY <1>3 DEF AnonInv, Pushed
  <1>5. ASSUME NEW i \in DOMAIN stack, i > j PROVE stack[i].kind = "operand"
    <2>1. stack[i] \in Above(j) BY <1>1, <1>5 DEF Above
    <2> QED BY <2>1 DEF MayProject
  <1>6. \A k \in j .. Len(stack) : k \in DOMAIN stack /\ ~Renewing(stack[k])
    BY <1>1, <1>3, <1>5 DEF Renewing
  <1>7. Names = 1 /\ Lists = lists
    <2>1. ~Renewing(Top) BY <1>1, <1>2, <1>6
    <2>2. Names = Top.li /\ Lists = lists BY <2>1, ListsFacts
    <2>3. j <= Len(stack) /\ \A k \in j .. Len(stack) - 1 : ~Renewing(stack[k]) BY <1>1, <1>6
    <2>4. stack[Len(stack)].li = stack[j].li BY <1>2, <2>3 DEF ChainInv
    <2> QED BY <1>2, <1>4, <2>2, <2>4
  <1>8. n = 0
    <2>1. lists[1].anonymous = <<1>> BY <1>2, <1>4 DEF AnonInv, Objects
    <2>2. n = FirstIndex(<<1>>, 1) BY <1>4, <1>7, <2>1 DEF find_anon
    <2>3. <<1>> \in Seq(Nat) /\ DOMAIN <<1>> = {1} /\ <<1>>[1] = 1 OBVIOUS
    <2>4. FirstIndex(<<1>>, 1) \in Nat /\ FirstIndex(<<1>>, 1) + 1 \in DOMAIN <<1>>
      BY <2>3, FirstIndexFacts
    <2> QED BY <2>2, <2>3, <2>4
  <1>9. n \in -1 .. MaxNodes BY <1>8, PrintExprAssumption
  <1>10. j \in S BY <1>3, <1>4, <1>8 DEF Binds
  <1>11. \A k \in S : k <= j BY <1>1, <1>5 DEF Binds
  <1>12. AnonBinder(n) = Innermost(S) BY DEF AnonBinder
  <1> HIDE DEF S
  <1>13. S \in SUBSET DOMAIN stack BY DEF S
  <1> QED BY <1>9, <1>10, <1>11, <1>12, <1>13, InnermostFacts

(***************************************************************************)
(* The invariant and the theorems.                                         *)
(***************************************************************************)
RefInv ==
  \A r \in refs :
    /\ r.name \in -1 .. MaxNodes
    /\ r.kind = "opaque" => Resolved(r)
    /\ r.kind \in {"index", "anonymous"} => r.read = r.meant

PrintExprInv == ExprInv /\ RefInv

\* The invariant holds when printExpr or printLocalDecl is called.
LEMMA PrintExprInit == Init => PrintExprInv
  <1> SUFFICES ASSUME Init PROVE PrintExprInv OBVIOUS
  <1> DEFINE f == stack[1]
  <1>1. PICK kind, c : /\ <<kind, c>> \in {<<"operand", <<"li">>>>, <<"decompose", DecomposeCode>>}
                       /\ stack = <<Frame(kind, c, 1, 0, -1)>>
    BY DEF Init
  <1>2. /\ kind \in {"operand", "decompose"} /\ kind \in Kinds /\ c \in Codes
        /\ kind = "operand" => c = <<"li">>
        /\ kind = "decompose" => c = DecomposeCode
    BY <1>1 DEF Kinds, Codes, OperandCodes, UnaryOperatorCode
  <1>3. -1 \in -1 .. MaxNodes BY PrintExprAssumption
  <1>4. /\ Frame(kind, c, 1, 0, -1) \in FrameType
        /\ Frame(kind, c, 1, 0, -1).kind = kind /\ Frame(kind, c, 1, 0, -1).code = c
        /\ Frame(kind, c, 1, 0, -1).li = 1 /\ Frame(kind, c, 1, 0, -1).value = 0
        /\ Frame(kind, c, 1, 0, -1).pc = 1
    BY <1>2, <1>3, NewFrames
  <1>5. /\ stack \in Seq(FrameType) /\ DOMAIN stack = {1} /\ Len(stack) = 1
        /\ f \in FrameType /\ f.kind = kind /\ f.code = c /\ f.li = 1 /\ f.value = 0 /\ f.pc = 1
    BY <1>1, <1>4
  <1>6. /\ lists \in Seq(ListType) /\ DOMAIN lists = {1}
        /\ lists[1].indexes = <<>> /\ lists[1].anonymous = <<>> /\ lists[1].index_count = -1
    <2>1. NoNames \in ListType BY DEF NoNames, ListType
    <2>2. lists = <<NoNames>> BY DEF Init
    <2>3. lists \in Seq(ListType) /\ DOMAIN lists = {1} /\ lists[1] = NoNames BY <2>1, <2>2
    <2> QED BY <2>3 DEF NoNames
  <1> HIDE DEF f
  <1>7. ~Counted(f) /\ ~Pushed(f) /\ ~Binder(f) BY <1>2, <1>5 DEF Counted, Pushed, Binder
  <1>8. Sizes BY <1>5, PrintExprAssumption DEF Init, Sizes
  <1>9. Frames
    <2>1. Fits(f)
      <3>1. <<"li">> \in Seq({"li"}) OBVIOUS
      <3> QED BY <1>2, <1>5, <3>1 DEF Fits
    <2>2. f.pc \in 1 .. Len(f.code) + 1
      <3>1. f.code \in Seq(Steps) BY <1>2, <1>5, CodesAreSequences
      <3> QED BY <1>5, <3>1
    <2> QED BY <1>5, <1>6, <2>1, <2>2 DEF Init, Frames, f
  <1>10. Objects
    <2>1. Len(lists[1].indexes) = 0 /\ DOMAIN lists[1].indexes = {} BY <1>6
    <2> QED BY <1>6, <1>8, <2>1 DEF Objects, Sizes
  <1>11. WaitInv /\ ChainInv /\ DistinctInv BY <1>5 DEF WaitInv, ChainInv, DistinctInv
  <1>12. AnonInv BY <1>5, <1>6, <1>7 DEF AnonInv, f
  <1>13. CountInv
    <2>1. Counting(1, Len(stack)) = {} BY <1>5, <1>7 DEF Counting, f
    <2>2. Cardinality(Counting(1, Len(stack))) = 0 BY <2>1, FS_EmptySet
    <2> QED BY <1>6, <2>2 DEF CountInv
  <1>14. LevelInv /\ BoundInv /\ ApartInv BY <1>5, <1>7 DEF LevelInv, BoundInv, ApartInv, f
  <1>15. RefInv BY DEF Init, RefInv
  <1> QED BY <1>8, <1>9, <1>10, <1>11, <1>12, <1>13, <1>14, <1>15 DEF PrintExprInv, ExprInv

\* Every step of a handler keeps it.
LEMMA PrintExprStep == PrintExprInv /\ [Next]_vars => PrintExprInv'
  <1> SUFFICES ASSUME PrintExprInv, [Next]_vars PROVE PrintExprInv' OBVIOUS
  <1> USE DEF PrintExprInv
  <1>1. CASE VisitLeaf
    <2>1. ExprInv' BY <1>1, QuietStep DEF VisitLeaf
    <2> QED BY <1>1, <2>1 DEF VisitLeaf, RefInv, Resolved
  <1>2. CASE VisitOperand
    <2>1. PICK c \in OperandCodes \ LiteralCode : Enter(Frame("operand", c, Names, 0, -1))
      BY <1>2 DEF VisitOperand
    <2>2. <<"operand", c>> \in QuietFrames BY DEF QuietFrames
    <2>3. Printing /\ lists' = Lists /\ UNCHANGED <<values, shared, refs>> BY <1>2 DEF VisitOperand
    <2>4. ExprInv' BY <2>1, <2>2, <2>3, QuietAddStep
    <2> QED BY <2>3, <2>4 DEF RefInv, Resolved
  <1>3. CASE VisitSequenced
    <2>1. PICK c \in SequencedCode \cup PseudoDestructorCode : Enter(Frame("sequenced", c, Names, 0, -1))
      BY <1>3 DEF VisitSequenced
    <2>2. <<"sequenced", c>> \in QuietFrames BY DEF QuietFrames
    <2>3. Printing /\ lists' = Lists /\ UNCHANGED <<values, shared, refs>> BY <1>3 DEF VisitSequenced
    <2>4. ExprInv' BY <2>1, <2>2, <2>3, QuietAddStep
    <2> QED BY <2>3, <2>4 DEF RefInv, Resolved
  <1>4. CASE VisitConstructorConversion
    <2>1. PICK c \in ConstructorConversionCode : Enter(Frame("conversion", c, Names, 0, -1))
      BY <1>4 DEF VisitConstructorConversion
    <2>2. <<"conversion", c>> \in QuietFrames BY DEF QuietFrames
    <2>3. Printing /\ lists' = Lists /\ UNCHANGED <<values, shared, refs>>
      BY <1>4 DEF VisitConstructorConversion
    <2>4. ExprInv' BY <2>1, <2>2, <2>3, QuietAddStep
    <2> QED BY <2>3, <2>4 DEF RefInv, Resolved
  <1>5. CASE VisitBinaryConditionalOperator
    <2>1. PICK v \in {values + 1} \cup (shared \ {stack[j].value : j \in DOMAIN stack}) :
            /\ Enter(Frame("if2", If2Code, Names, v, fresh(Lists, Names)))
            /\ lists' = push_back(Lists, Names, v)
            /\ values' = IF v > values THEN v ELSE values
      BY <1>5 DEF VisitBinaryConditionalOperator
    <2>2. Printing /\ UNCHANGED <<shared, refs>> BY <1>5 DEF VisitBinaryConditionalOperator
    <2>3. ExprInv' BY <2>1, <2>2, BinderAddStep
    <2> QED BY <2>2, <2>3 DEF RefInv, Resolved
  <1>6. CASE VisitArrayInitLoopExpr
    <2> DEFINE v == values + 1
    <2>1. /\ Printing /\ Enter(Frame("loop", LoopCode, Names, v, fresh(Lists, Names)))
          /\ lists' = push_back(Lists, Names, v) /\ values' = v
          /\ UNCHANGED <<shared, refs>>
      BY <1>6 DEF VisitArrayInitLoopExpr
    <2>2. v > values BY DEF ExprInv, Sizes
    <2>3. v \in {values + 1} \cup (shared \ {stack[j].value : j \in DOMAIN stack}) OBVIOUS
    <2> HIDE DEF v
    <2>4. values' = IF v > values THEN v ELSE values BY <2>1, <2>2
    <2>5. ExprInv' BY <2>1, <2>3, <2>4, BinderAddStep
    <2> QED BY <2>1, <2>5 DEF RefInv, Resolved
  <1>7. CASE IncIndexCount
    <2>1. ExprInv' BY <1>7, IncStep
    <2> QED BY <1>7, <2>1 DEF IncIndexCount, RefInv, Resolved
  <1>8. CASE DecIndexCount
    <2>1. ExprInv' BY <1>8, DecStep
    <2> QED BY <1>8, <2>1 DEF DecIndexCount, RefInv, Resolved
  <1>9. CASE PushAnon
    <2>1. ExprInv' BY <1>9, PushStep
    <2> QED BY <1>9, <2>1 DEF PushAnon, RefInv, Resolved
  <1>10. CASE PopAnon
    <2>1. ExprInv' BY <1>10, PopStep
    <2> QED BY <1>10, <2>1 DEF PopAnon, RefInv, Resolved
  <1>11. CASE VisitOpaqueValueExpr
    <2>1. PICK j \in DOMAIN stack :
            MayRefer(j) /\ Refer(Ref("opaque", find(Lists, Names, stack[j].value), j,
                                     OpaqueBinder(find(Lists, Names, stack[j].value))))
      BY <1>11 DEF VisitOpaqueValueExpr
    <2> DEFINE n == find(Lists, Names, stack[j].value)
               r == Ref("opaque", n, j, OpaqueBinder(n))
    <2>2. Printing BY <1>11 DEF VisitOpaqueValueExpr
    <2>3. ExprInv' BY <2>1, <2>2, QuietStep DEF Refer
    <2>4. n \in -1 .. MaxNodes /\ Resolved(r) BY <2>1, <2>2, OpaqueRefs
    <2>5. r.name = n /\ r.kind = "opaque" BY DEF Ref
    <2>6. refs' = refs \cup {r} BY <2>1 DEF Refer
    <2> HIDE DEF n, r
    <2> QED BY <2>3, <2>4, <2>5, <2>6 DEF RefInv, Resolved
  <1>12. CASE VisitArrayInitIndexExpr
    <2>1. PICK j \in DOMAIN stack :
            MayIndex(j) /\ Refer(Ref("index", Lists[Names].index_count, j,
                                     IndexBinder(Lists[Names].index_count)))
      BY <1>12 DEF VisitArrayInitIndexExpr
    <2> DEFINE n == Lists[Names].index_count
               r == Ref("index", n, j, IndexBinder(n))
    <2>2. Printing BY <1>12 DEF VisitArrayInitIndexExpr
    <2>3. ExprInv' BY <2>1, <2>2, QuietStep DEF Refer
    <2>4. n \in -1 .. MaxNodes /\ IndexBinder(n) = j BY <2>1, <2>2, IndexRefs
    <2>5. r.name = n /\ r.kind = "index" /\ r.meant = j /\ r.read = IndexBinder(n) BY DEF Ref
    <2>6. refs' = refs \cup {r} BY <2>1 DEF Refer
    <2> HIDE DEF n, r
    <2> QED BY <2>3, <2>4, <2>5, <2>6 DEF RefInv, Resolved
  <1>13. CASE VisitDeclRefExpr
    <2>1. PICK j \in DOMAIN stack :
            MayProject(j) /\ Refer(Ref("anonymous", find_anon(Lists, Names, j), j,
                                       AnonBinder(find_anon(Lists, Names, j))))
      BY <1>13 DEF VisitDeclRefExpr
    <2> DEFINE n == find_anon(Lists, Names, j)
               r == Ref("anonymous", n, j, AnonBinder(n))
    <2>2. Printing BY <1>13 DEF VisitDeclRefExpr
    <2>3. ExprInv' BY <2>1, <2>2, QuietStep DEF Refer
    <2>4. n \in -1 .. MaxNodes /\ AnonBinder(n) = j BY <2>1, <2>2, BindingRefs
    <2>5. r.name = n /\ r.kind = "anonymous" /\ r.meant = j /\ r.read = AnonBinder(n) BY DEF Ref
    <2>6. refs' = refs \cup {r} BY <2>1 DEF Refer
    <2> HIDE DEF n, r
    <2> QED BY <2>3, <2>4, <2>5, <2>6 DEF RefInv, Resolved
  <1>14. CASE Return
    <2>1. ExprInv' BY <1>14, ReturnStep
    <2> QED BY <1>14, <2>1 DEF Return, RefInv, Resolved
  <1>15. CASE UNCHANGED vars
    <2>1. ExprInv'
      BY <1>15 DEF vars, ExprInv, Sizes, Frames, Objects, WaitInv, ChainInv, AnonInv, CountInv, LevelInv,
           BoundInv, ApartInv, DistinctInv, Fits, Waits, Renewing, Pushed, Counting, Counted, Binder, Entries
    <2> QED BY <1>15, <2>1 DEF vars, RefInv, Resolved
  <1> QED
    BY <1>1, <1>2, <1>3, <1>4, <1>5, <1>6, <1>7, <1>8, <1>9, <1>10, <1>11, <1>12, <1>13, <1>14, <1>15
       DEF Next

\* So it always holds.
LEMMA PrintExprInvariance == Spec => []PrintExprInv
  BY PrintExprInit, PrintExprStep, PTL DEF Spec

\* The expression printer is well typed: its counts and names stay within the
\* expressions it has met, and no OpaqueNames counts more binders than are
\* active.
THEOREM PrintExprTypes == Spec => []TypeOK
  <1>1. PrintExprInv => TypeOK
    <2> SUFFICES ASSUME PrintExprInv PROVE TypeOK OBVIOUS
    <2> USE DEF PrintExprInv, ExprInv
    <2>1. Len(stack) \in Nat /\ \A j \in DOMAIN stack : stack[j] \in FrameType BY StackFacts
    <2>2. ASSUME NEW j \in DOMAIN stack
          PROVE  /\ stack[j].kind \in {"operand", "sequenced", "conversion", "if2", "loop", "decompose"}
                 /\ stack[j].code \in Codes
                 /\ stack[j].li \in DOMAIN lists
                 /\ stack[j].value \in 0 .. values
                 /\ stack[j].name \in -1 .. MaxNodes /\ stack[j].level \in -1 .. MaxNodes
                 /\ stack[j].pc \in 1 .. Len(stack[j].code) + 1
      <3>1. /\ stack[j].kind \in Kinds /\ stack[j].code \in Codes /\ stack[j].value \in Nat
            /\ stack[j].name \in -1 .. MaxNodes /\ stack[j].level \in -1 .. MaxNodes
        BY <2>1 DEF FrameType
      <3>2. stack[j].value \in 0 .. values BY <3>1 DEF Frames, Sizes
      <3> QED BY <3>1, <3>2 DEF Frames, Kinds
    <2>3. ASSUME NEW i \in DOMAIN lists
          PROVE  /\ lists[i].indexes \in Seq(1 .. values)
                 /\ lists[i].anonymous \in Seq(Nat)
                 /\ lists[i].index_count \in -1 .. Len(stack) - 1
      <3>1. lists[i] \in ListType BY DEF Objects
      <3>2. lists[i].indexes \in Seq(Nat) /\ lists[i].anonymous \in Seq(Nat) BY <3>1 DEF ListType
      <3>3. \A k \in DOMAIN lists[i].indexes : lists[i].indexes[k] \in 1 .. values BY DEF Objects
      <3>4. lists[i].indexes \in Seq(1 .. values)
        <4> DEFINE es == lists[i].indexes
                   T == 1 .. values
        <4>1. es \in Seq(Nat) /\ \A k \in 1 .. Len(es) : es[k] \in T BY <3>2, <3>3
        <4> HIDE DEF es, T
        <4>2. es \in Seq(T) BY <4>1
        <4> QED BY <4>2 DEF es, T
      <3>5. lists[i].index_count = Cardinality(Counting(i, Len(stack))) - 1 BY DEF CountInv
      <3>6. /\ Cardinality(Counting(i, Len(stack))) \in Nat
            /\ Cardinality(Counting(i, Len(stack))) <= Len(stack)
        BY <2>1, CountingFinite
      <3>7. lists[i].index_count \in -1 .. Len(stack) - 1 BY <2>1, <3>5, <3>6
      <3> QED BY <3>2, <3>4, <3>7
    <2>4. values \in 0 .. MaxNodes /\ shared \subseteq 1 .. values /\ size \in 0 .. MaxNodes
      BY PrintExprAssumption DEF Sizes
    <2>5. \A r \in refs : r.name \in -1 .. MaxNodes BY DEF RefInv
    <2> QED BY <2>2, <2>3, <2>4, <2>5 DEF TypeOK
  <1> QED BY <1>1, PrintExprInvariance, PTL

\* In an expression of any size, the name of x ?: y or of the array of a loop is
\* bound by the expression whose value it is, except below a constructor
\* conversion, where it is not bound at all, and in a default argument printed
\* again, where only an expression around the OpaqueNames can bind it.
THEOREM OpaqueNamesResolve == Spec => []RefsResolve
  <1>1. PrintExprInv => RefsResolve
    BY DEF PrintExprInv, RefInv, Resolved, RefsResolve
  <1> QED BY <1>1, PrintExprInvariance, PTL

\* In an expression of any size, an index is bound by the loop it belongs to.
THEOREM LoopIndexesResolve == Spec => []IndexesResolve
  <1>1. PrintExprInv => IndexesResolve
    BY DEF PrintExprInv, RefInv, IndexesResolve
  <1> QED BY <1>1, PrintExprInvariance, PTL

\* In an expression of any size, the bindings of a structured binding project
\* from its object.
THEOREM BindingNamesResolve == Spec => []BindingsResolve
  <1>1. PrintExprInv => BindingsResolve
    BY DEF PrintExprInv, RefInv, BindingsResolve
  <1> QED BY <1>1, PrintExprInvariance, PTL
================================================================================

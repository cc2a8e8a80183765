---------------------------- MODULE PrintStmtProofs ----------------------------
(***************************************************************************)
(* Proofs about the statement printer (PrintStmt), for statements of any   *)
(* size and depth.                                                         *)
(***************************************************************************)
EXTENDS PrintStmt, SequenceTheorems, WellFoundedInduction, TLAPS

(***************************************************************************)
(* A path: what a sequence of tokens does, one token after the other, by   *)
(* the steps R on the states S.                                            *)
(***************************************************************************)
Path(code, S, R, a, b) ==
  \E p \in [1 .. Len(code) + 1 -> S] :
    /\ p[1] = a /\ p[Len(code) + 1] = b
    /\ \A i \in 1 .. Len(code) : <<p[i], code[i], p[i + 1]>> \in R

\* Multiples of a positive length.
LEMMA Mul ==
  ASSUME NEW L \in Nat, L > 0, NEW m \in Int, m >= 1
  PROVE  L * m >= L
OBVIOUS
\* Differences of multiples.
LEMMA Dist == 
  ASSUME NEW L \in Nat, NEW k \in Int, NEW h \in Int PROVE L * k - L * h = L * (k - h)
OBVIOUS
\* A number, its quotient and its remainder.
LEMMA DivMod ==
  ASSUME NEW L \in Nat, L > 0, NEW a \in Nat
  PROVE  \E k \in Int, m \in 0 .. L - 1 : m = a % L /\ a = L * k + m
<1>1. a \div L \in Int
  OBVIOUS
<1>2. a % L \in 0 .. L - 1
  OBVIOUS
<1>3. PICK d \in Int, m \in 0 .. L - 1 : d = a \div L /\ m = a % L
  BY <1>1, <1>2
<1>4. a = d * L + m
  BY <1>3
<1>5. d * L = L * d
  OBVIOUS
<1>6. a = L * d + m
  BY <1>4, <1>5
<1> QED BY <1>3, <1>6

\* The remainder is unique.
LEMMA ModUnique ==
  ASSUME NEW L \in Nat, L > 0, NEW a \in Nat, NEW k \in Int, NEW r \in 0 .. L - 1, a = L * k + r
  PROVE  a % L = r
<1>1. PICK h \in Int, s \in 0 .. L - 1 : s = a % L /\ a = L * h + s
  BY DivMod
<1>2. L * (k - h) = s - r
  BY <1>1, Dist
<1>3. L * (h - k) = r - s
  BY <1>1, Dist
<1>4. ~(k - h >= 1)
  BY <1>1, <1>2, Mul
<1>5. ~(h - k >= 1)
  BY <1>1, <1>3, Mul
<1>6. k = h
  BY <1>1, <1>4, <1>5
<1>7. s = r
  BY <1>1, <1>6
<1> QED BY <1>1, <1>7
\* The next remainder.
LEMMA ModStep ==
  ASSUME NEW L \in Nat, L > 0, NEW i \in Nat, i > 0
  PROVE  i % L = IF (i - 1) % L = L - 1 THEN 0 ELSE ((i - 1) % L) + 1
<1>0. i - 1 \in Nat
  OBVIOUS
<1>1. PICK k \in Int, r \in 0 .. L - 1 : r = (i - 1) % L /\ i - 1 = L * k + r
  BY <1>0, DivMod
<1>2. CASE r = L - 1
  <2>1. i = L * (k + 1) + 0
    <3>1. L * (k + 1) = L * k + L
      BY <1>1
    <3> QED BY <1>1, <1>2, <3>1
  <2>2. i % L = 0
    BY <1>1, <2>1, ModUnique
  <2> QED BY <1>1, <1>2, <2>2
<1>3. CASE r # L - 1
  <2>1. i = L * k + (r + 1) /\ r + 1 \in 0 .. L - 1
    BY <1>1, <1>3
  <2>2. i % L = r + 1
    BY <1>1, <2>1, ModUnique
  <2> QED BY <1>1, <1>3, <2>2
<1> QED BY <1>2, <1>3
\* A multiple has no remainder.
LEMMA ModMul ==
  ASSUME NEW L \in Nat, L > 0, NEW n \in Nat
  PROVE  (n * L) % L = 0
<1>1. n * L = L * n + 0 /\ n * L \in Nat
  OBVIOUS
<1> QED BY <1>1, ModUnique
\* A number below the length is its own remainder.
LEMMA ModSmall ==
  ASSUME NEW L \in Nat, L > 0, NEW i \in 0 .. L - 1
  PROVE  i % L = i
<1>1. i = L * 0 + i
  OBVIOUS
<1> QED BY <1>1, ModUnique

\* The tokens of a constructor and its arguments.
LEMMA CtorSeq ==
  ASSUME NEW S, NEW c, NEW args \in Seq(S), <<"(", c>> \in S, <<")">> \in S
  PROVE  Ctor(c, args) \in Seq(S)
BY DEF Ctor

\* The type and the length of a repetition.
LEMMA RepeatSeq ==
  ASSUME NEW S, NEW n \in Nat, NEW s \in Seq(S)
  PROVE  Repeat(n, s) \in Seq(S) /\ Len(Repeat(n, s)) = n * Len(s)
<1>1. n * Len(s) \in Nat
  OBVIOUS
<1>2. ASSUME NEW i \in 1 .. n * Len(s) PROVE s[((i - 1) % Len(s)) + 1] \in S
  <2>1. Len(s) > 0
    BY <1>1
  <2>2. ((i - 1) % Len(s)) \in 0 .. Len(s) - 1
    BY <2>1
  <2> QED BY <2>2
<1> QED BY <1>1, <1>2 DEF Repeat

\* No token leads nowhere.
LEMMA PathNone ==
  ASSUME NEW S, NEW R, NEW a \in S
  PROVE  Path(<<>>, S, R, a, a)
<1> DEFINE p == [i \in 1 .. 1 |-> a]
<1>1. p \in [1 .. Len(<<>>) + 1 -> S] /\ p[1] = a /\ p[Len(<<>>) + 1] = a
  OBVIOUS
<1>2. 1 .. Len(<<>>) = {}
  OBVIOUS
<1> HIDE DEF p
<1> QED BY <1>1, <1>2 DEF Path

\* One token is one step.
LEMMA PathOne ==
  ASSUME NEW S, NEW R, NEW a \in S, NEW b \in S, NEW t, <<a, t, b>> \in R
  PROVE  Path(<<t>>, S, R, a, b)
<1> DEFINE p == [i \in 1 .. 2 |-> IF i = 1 THEN a ELSE b]
<1>1. p \in [1 .. Len(<<t>>) + 1 -> S]
  OBVIOUS
<1>2. p[1] = a /\ p[Len(<<t>>) + 1] = b
  OBVIOUS
<1>3. \A i \in 1 .. Len(<<t>>) : <<p[i], <<t>>[i], p[i + 1]>> \in R
  <2> SUFFICES <<p[1], <<t>>[1], p[2]>> \in R
    OBVIOUS
  <2> QED OBVIOUS
<1> QED BY <1>1, <1>2, <1>3 DEF Path

\* Paths follow one another.
LEMMA PathConcat ==
  ASSUME NEW T, NEW S, NEW R, NEW c \in Seq(T), NEW d \in Seq(T),
         NEW a, NEW b, NEW e, Path(c, S, R, a, b), Path(d, S, R, b, e)
  PROVE  Path(c \o d, S, R, a, e)
<1>1. PICK p \in [1 .. Len(c) + 1 -> S] :
        /\ p[1] = a /\ p[Len(c) + 1] = b
        /\ \A i \in 1 .. Len(c) : <<p[i], c[i], p[i + 1]>> \in R
  BY DEF Path
<1>2. PICK q \in [1 .. Len(d) + 1 -> S] :
        /\ q[1] = b /\ q[Len(d) + 1] = e
        /\ \A i \in 1 .. Len(d) : <<q[i], d[i], q[i + 1]>> \in R
  BY DEF Path
<1>0. PICK m \in Nat, n \in Nat : m = Len(c) /\ n = Len(d)
  OBVIOUS
<1> DEFINE z == c \o d
<1>3. Len(z) = m + n
  BY <1>0
<1>4. \A i \in 1 .. m : z[i] = c[i]
  BY <1>0
<1>5. \A i \in 1 .. n : z[m + i] = d[i]
  BY <1>0
<1> DEFINE r == [i \in 1 .. (m + n) + 1 |-> IF i <= m THEN p[i] ELSE q[i - m]]
<1>6. r \in [1 .. (m + n) + 1 -> S]
  BY <1>0, <1>1, <1>2
<1>7. r[1] = a /\ r[(m + n) + 1] = e
  BY <1>0, <1>1, <1>2
<1>8. (\A i \in 1 .. m : r[i] = p[i]) /\ (\A i \in 1 .. n + 1 : r[m + i] = q[i])
  BY <1>0
<1> HIDE DEF r, z
<1>9. ASSUME NEW i \in 1 .. m + n PROVE <<r[i], z[i], r[i + 1]>> \in R
  <2>1. CASE i <= m
    <3>1. i \in 1 .. m
      BY <2>1
    <3>2. r[i + 1] = p[i + 1]
      <4>1. CASE i = m
        <5>1. r[m + 1] = q[1]
          BY <1>8
        <5> QED BY <1>0, <1>1, <1>2, <4>1, <5>1
      <4>2. CASE i < m
        BY <1>8, <4>2
      <4> QED BY <2>1, <4>1, <4>2
    <3> QED BY <1>0, <1>1, <1>4, <1>8, <3>1, <3>2
  <2>2. CASE i > m
    <3>1. PICK k \in 1 .. n : i = m + k
      <4>1. i - m \in 1 .. n /\ i = m + (i - m)
        BY <2>2
      <4> QED BY <4>1
    <3>2. r[i + 1] = q[k + 1]
      <4>1. i + 1 = m + (k + 1) /\ k + 1 \in 1 .. n + 1
        BY <3>1
      <4>2. r[m + (k + 1)] = q[k + 1]
        BY <1>8, <4>1
      <4> QED BY <4>1, <4>2
    <3>3. r[i] = q[k] /\ z[i] = d[k]
      BY <1>5, <1>8, <3>1
    <3> QED BY <1>0, <1>2, <3>2, <3>3
  <2> QED BY <2>1, <2>2
<1>10. Path(z, S, R, a, e)
  BY <1>3, <1>6, <1>7, <1>9 DEF Path
<1> QED BY <1>10 DEF z

\* A path starts with the step of its first token.
LEMMA PathStep ==
  ASSUME NEW T, NEW S, NEW R, NEW c \in Seq(T), c # <<>>, NEW a, NEW b, Path(c, S, R, a, b)
  PROVE  \E m \in S : <<a, Head(c), m>> \in R /\ Path(Tail(c), S, R, m, b)
<1>1. PICK p \in [1 .. Len(c) + 1 -> S] :
        /\ p[1] = a /\ p[Len(c) + 1] = b
        /\ \A i \in 1 .. Len(c) : <<p[i], c[i], p[i + 1]>> \in R
  BY DEF Path
<1>2. Tail(c) \in Seq(T) /\ Len(Tail(c)) = Len(c) - 1 /\ Len(c) \in Nat \ {0} /\ Head(c) = c[1]
      /\ \A i \in 1 .. Len(c) - 1 : Tail(c)[i] = c[i + 1]
  OBVIOUS
<1> DEFINE q == [i \in 1 .. Len(Tail(c)) + 1 |-> p[i + 1]]
<1>3. q \in [1 .. Len(Tail(c)) + 1 -> S] /\ q[1] = p[2] /\ q[Len(Tail(c)) + 1] = b
  BY <1>1, <1>2
<1>4. ASSUME NEW i \in 1 .. Len(Tail(c)) PROVE <<q[i], Tail(c)[i], q[i + 1]>> \in R
  <2>1. i + 1 \in 1 .. Len(c) /\ q[i] = p[i + 1] /\ q[i + 1] = p[(i + 1) + 1] /\ Tail(c)[i] = c[i + 1]
    BY <1>2
  <2> QED BY <1>1, <2>1
<1> HIDE DEF q
<1>5. Path(Tail(c), S, R, p[2], b)
  BY <1>3, <1>4 DEF Path
<1>6. <<a, Head(c), p[2]>> \in R /\ p[2] \in S
  BY <1>1, <1>2
<1> QED BY <1>5, <1>6

\* What leads back to its start may be repeated.
LEMMA PathRepeat ==
  ASSUME NEW T, NEW S, NEW R, NEW n \in Nat, NEW s \in Seq(T), NEW a \in S, Path(s, S, R, a, a)
  PROVE  Path(Repeat(n, s), S, R, a, a)
<1>1. PICK q \in [1 .. Len(s) + 1 -> S] :
        /\ q[1] = a /\ q[Len(s) + 1] = a
        /\ \A i \in 1 .. Len(s) : <<q[i], s[i], q[i + 1]>> \in R
  BY DEF Path
<1>2. PICK L \in Nat : L = Len(s)
  OBVIOUS
<1>3. PICK N \in Nat : N = n * L
  OBVIOUS
<1>0. Len(Repeat(n, s)) = N
  BY <1>2, <1>3, RepeatSeq
<1>c. CASE L = 0
  <2>1. Len(Repeat(n, s)) = 0
    BY <1>0, <1>3, <1>c
  <2> DEFINE p == [i \in 1 .. 1 |-> a]
  <2>2. p \in [1 .. Len(Repeat(n, s)) + 1 -> S] /\ p[1] = a /\ p[Len(Repeat(n, s)) + 1] = a
    BY <2>1
  <2>3. 1 .. Len(Repeat(n, s)) = {}
    BY <2>1
  <2> HIDE DEF p
  <2> QED BY <2>2, <2>3 DEF Path
<1>d. CASE L > 0
  <2> DEFINE p == [i \in 1 .. N + 1 |-> q[((i - 1) % L) + 1]]
  <2>1. \A i \in Nat : i % L \in 0 .. L - 1
    BY <1>d
  <2>2. p \in [1 .. N + 1 -> S]
    <3> SUFFICES ASSUME NEW i \in 1 .. N + 1 PROVE ((i - 1) % L) + 1 \in 1 .. Len(s) + 1
      BY <1>1
    <3> QED BY <1>2, <2>1
  <2>p. \A i \in 1 .. N + 1 : p[i] = q[((i - 1) % L) + 1]
    OBVIOUS
  <2> HIDE DEF p
  <2>3. p[1] = a
    <3>1. 0 % L = 0
      BY <1>d, ModSmall
    <3> QED BY <1>1, <2>p, <3>1
  <2>4. p[N + 1] = a
    <3>1. N % L = 0
      BY <1>3, <1>d, ModMul
    <3> QED BY <1>1, <2>p, <3>1
  <2>5. ASSUME NEW i \in 1 .. N PROVE <<p[i], Repeat(n, s)[i], p[i + 1]>> \in R
    <3>0. i - 1 \in Nat
      BY <1>3
    <3>1. PICK r \in 0 .. L - 1 : r = (i - 1) % L
      BY <2>1, <3>0
    <3>2. p[i] = q[r + 1]
      BY <2>p, <3>1
    <3>6. Repeat(n, s)[i] = s[r + 1]
      BY <1>2, <1>3, <3>1 DEF Repeat
    <3>3. p[i + 1] = q[(i % L) + 1]
      BY <2>p
    <3>4. i % L = IF r = L - 1 THEN 0 ELSE r + 1
      <4>1. i \in Nat /\ i > 0
        BY <1>3
      <4>2. i % L = IF (i - 1) % L = L - 1 THEN 0 ELSE ((i - 1) % L) + 1
        BY <1>d, <4>1, ModStep
      <4> QED BY <3>1, <4>2
    <3>5. p[i + 1] = q[(r + 1) + 1]
      BY <1>1, <1>2, <3>3, <3>4
    <3> QED BY <1>1, <1>2, <3>2, <3>5, <3>6
  <2> QED BY <1>0, <2>2, <2>3, <2>4, <2>5 DEF Path
<1> QED BY <1>c, <1>d
(***************************************************************************)
(* Types.  The tokens of a handler say which calls it can make.            *)
(***************************************************************************)
Ctors == DOMAIN Signatures \cup {"Some"}

\* The words, and the names that sorts are made of.
Words == {"None", "Stmt", "Expr", "Z", "ident", "bool", "type", "obj_name", "operand"}

Sorts == Words \cup {"VarDecl", "SwitchBranch", "body", "Some", "list", "fits", "ill", "::", "nil"}

Texts ==
  {<<"(", c>> : c \in Ctors} \cup {<<")">>, <<"[">>, <<"]">>, <<"::">>} \cup {W(s) : s \in Words}

RangeParts == {"range", "begin", "end", "loopvar", "rangeinit"}

Uses ==
  {<<s>> : s \in {"expr", "cond", "inc"}}

Pairs == {<<s, "local">> : s \in RangeParts}

Calls == {<<s>> : s \in {"stmt", "init", "local"} \cup RangeParts} \cup Pairs

Tokens(kind) ==
  CASE kind \in {"VarDecl", "Leaf", "CXXTryStmt"} -> Texts \cup Uses
    [] kind = "DeclStmt" -> Texts \cup {<<"local">>} \cup Pairs
    [] kind \in {"CompoundStmt", "AttributedStmt", "LabelStmt", "Function"} \cup Labels -> Texts \cup {<<"stmt">>}
    [] kind = "CXXForRangeStmt" -> Texts \cup Uses \cup {<<"stmt">>} \cup {<<s>> : s \in RangeParts}
    [] OTHER -> Texts \cup Uses \cup {<<"stmt">>, <<"init">>, <<"local">>}

HiddenNames == {"__range", "__begin", "__end"}

Variable == [name : Names \cup HiddenNames, id : Nat, how : Hows, init : BOOLEAN]

FrameType ==
  [kind : Kinds, code : Seq(Texts \cup Uses \cup Calls), cpp : SUBSET Variable, coq : SUBSET Variable, depth : Nat,
   nocase : BOOLEAN, labels : Nat, default : BOOLEAN, listed : Nat, declared : BOOLEAN, refused : BOOLEAN]

Group == [head : Ctors \cup {"list"}, args : Seq(Seq(Sorts))]

FrameOK(f) ==
  /\ f \in FrameType
  /\ f.code \in Seq(Tokens(f.kind))
  /\ f.listed <= f.labels /\ f.labels <= size

Types ==
  /\ stack \in Seq(FrameType)
  /\ \A j \in DOMAIN stack : FrameOK(stack[j])
  /\ out \in Seq(Group)
  /\ size \in Nat /\ size <= MaxNodes /\ decls \in Nat /\ loose \in BOOLEAN

\* A handler below another one is at a call: "local" and its kin are left to
\* PrintLocalDecl, the rest to printStmt.
CallInv ==
  \A j \in DOMAIN stack :
    /\ stack[j].kind = "Function" <=> j = 1
    /\ j < Len(stack) =>
         /\ stack[j].code # <<>> /\ Head(stack[j].code) \in Calls
         /\ stack[j + 1].kind = "VarDecl" <=> Head(stack[j].code) \in {<<"local">>} \cup Pairs

(***************************************************************************)
(* Names.                                                                  *)
(***************************************************************************)
Printed == {"auto", "static", "extern"}

InBoth(f) == {d \in f.cpp : d.how \in {"auto", "extern"}}

\* What is declared in C++ is declared in Coq, but for the handlers that still
\* have to hand it to their caller.
NameOK(f) ==
  /\ f.kind \notin {"VarDecl", "LabelStmt"} => f.coq = InBoth(f)
  /\ f.kind \in {"VarDecl", "LabelStmt"} => f.coq = {}
  /\ f.kind = "VarDecl" => \A d \in f.cpp : d.how \in Printed
  /\ f.kind = "LabelStmt" =>
       /\ \A i, k \in DOMAIN f.code : f.code[i] = <<"stmt">> /\ f.code[k] = <<"stmt">> => i = k
       /\ f.cpp # {} => f.code \in Seq(Texts)

NameInv == \A j \in DOMAIN stack : NameOK(stack[j])

\* The variables that a range-for hides have the number of the loop.
HiddenPlace(s, j, d) ==
  \/ s[j].kind = "CXXForRangeStmt" /\ d.id = j + 1
  \/ s[j].kind = "DeclStmt" /\ d.id = j /\ j > 1 /\ s[j - 1].kind = "CXXForRangeStmt"
  \/ /\ s[j].kind = "VarDecl" /\ d.id = j - 1 /\ j > 2
     /\ s[j - 1].kind = "DeclStmt" /\ s[j - 2].kind = "CXXForRangeStmt"

HiddenInv ==
  \A j \in DOMAIN stack :
    /\ stack[j].kind = "DeclStmt" /\ (\E i \in DOMAIN stack[j].code : stack[j].code[i] \in Pairs) =>
         j > 1 /\ stack[j - 1].kind = "CXXForRangeStmt"
    /\ \A d \in stack[j].cpp :
         d.name \in HiddenNames => d.how = "auto" /\ d.init = TRUE /\ HiddenPlace(stack, j, d)

\* The others are numbered one after the other.
NumberInv ==
  \A i, j \in DOMAIN stack : \A d \in stack[i].cpp, e \in stack[j].cpp :
    d.name \in Names /\ e.name \in Names => d.id <= decls /\ (d.id = e.id => d = e /\ i = j)

(***************************************************************************)
(* Switches.                                                               *)
(***************************************************************************)
\* The frame in whose parentheses frame j of s prints its statement.
TargetOf(s, j) == CHOOSE k \in 1 .. j : s[k].kind \notin Labels /\ \A i \in k + 1 .. j : s[i].kind \in Labels

\* InSwitchBlock, of any stack.
InBlock(s, j) == j > 1 /\ s[j].kind = "CompoundStmt" /\ s[j - 1].kind = "SwitchStmt"

\* Handler k prints a statement with a case that is not in a block of switch j.
Unseen(s, j, k) ==
  /\ k \in j + 1 .. Len(s)
  /\ \A i \in j + 1 .. k : s[i].kind # "SwitchStmt"
  /\ ~no_case(s[k]) /\ ~InBlock(s, TargetOf(s, k))

\* A case that wp_switch_block does not see is in a statement that it refuses,
\* once that statement is printed.
SwitchInv ==
  \A j \in DOMAIN stack :
    stack[j].kind = "SwitchStmt" /\ ~stack[j].refused /\ stack[j].listed # stack[j].labels =>
      \E k \in Nat : Unseen(stack, j, k)

(***************************************************************************)
(* Depths.                                                                 *)
(***************************************************************************)
Delta(t) == CASE t[1] \in {"(", "["} -> 1 [] t[1] \in {")", "]"} -> -1 [] OTHER -> 0

Depths == Nat \ {0}

DepthStep == {x \in Depths \X (Texts \cup Uses \cup Calls) \X Depths : x[3] = x[1] + Delta(x[2])}

\* Printing the code at depth m ends at depth n.
DepthPath(code, m, n) == Path(code, Depths, DepthStep, m, n)

\* What is left of a handler brings the formatter back to where it started.
DepthInv ==
  /\ \A j \in DOMAIN stack : stack[j].depth \in Depths
  /\ stack # <<>> => DepthPath(Top.code, Len(out), Top.depth)
  /\ \A j \in DOMAIN stack : j < Len(stack) => DepthPath(Tail(stack[j].code), stack[j + 1].depth, stack[j].depth)

(***************************************************************************)
(* Terms.  A parenthesis that is open is known by its constructor and the  *)
(* number of its arguments; a list by the sort of its elements and whether *)
(* its last element still needs its "::".                                  *)
(***************************************************************************)
Abstract == [head : Ctors \cup {"list"}, sort : Sorts, n : Nat]

Opened(h, s) == [head |-> h, sort |-> s, n |-> 0]

Elements == Sorts \ {"ill", "::", "nil"}

\* A term of sort s can follow in g, which is h then.
Takes(g, s, h) ==
  /\ h = [head |-> g.head, sort |-> g.sort, n |-> g.n + 1]
  /\ g.head \in {"list", "Some"} => g.n = 0 /\ s = <<g.sort>>
  /\ g.head \notin {"list", "Some"} => g.n < Len(Signatures[g.head][1]) /\ s \in Signatures[g.head][1][g.n + 1]

\* What g can be read as when it is closed.
Result(g) ==
  CASE g.head = "list" -> ListOf(g.sort)
    [] g.head = "Some" -> {<<"Some", g.sort>>}
    [] OTHER -> {<<Signatures[g.head][2]>>}

Full(g) ==
  CASE g.head = "list" -> g.n = 0
    [] g.head = "Some" -> g.n = 1
    [] OTHER -> g.n = Len(Signatures[g.head][1])

VarList == Opened("list", "VarDecl")

\* A token that stays in the parenthesis g.
Reads(kind, t, g, h) ==
  /\ t[1] \notin {"(", ")", "[", "]"}
  /\ t[1] = "w" => Takes(g, t[2], h)
  /\ t[1] = "::" => g.head = "list" /\ g.n = 1 /\ h = Opened("list", g.sort)
  /\ t[1] \in {"expr", "cond", "inc"} => Takes(g, <<"Expr">>, h)
  /\ t[1] = "stmt" => Takes(g, <<"Stmt">>, h) /\ (kind \in {"CompoundStmt"} \cup Labels => g.head = "list")
  /\ kind = "DeclStmt" /\ t[1] \in {"local"} \cup RangeParts => g = VarList /\ h = g
  /\ kind # "DeclStmt" /\ t[1] = "local" => Takes(g, <<"VarDecl">>, h)
  /\ kind # "DeclStmt" /\ t[1] \in {"init"} \cup RangeParts => Takes(g, <<"Stmt">>, h)

Terms == Seq(Abstract)

TermStepOK(kind, a, t, b) ==
  \/ /\ t[1] = "(" /\ Len(a) > 0
     /\ \E s \in Elements : b = Append(a, Opened(t[2], s))
  \/ /\ t[1] = "[" /\ Len(a) > 0
     /\ \E s \in Elements : b = Append(a, Opened("list", s))
  \/ \E q \in Terms, f, g, h \in Abstract :
       /\ t[1] = IF g.head = "list" THEN "]" ELSE ")"
       /\ a = Append(Append(q, f), g) /\ b = Append(q, h)
       /\ Full(g) /\ \A s \in Result(g) : Takes(f, s, h)
  \/ \E q \in Terms, g, h \in Abstract : a = Append(q, g) /\ b = Append(q, h) /\ Reads(kind, t, g, h)

TermStep(kind) == {x \in Terms \X Tokens(kind) \X Terms : TermStepOK(kind, x[1], x[2], x[3])}

\* With a before it, the code of a handler of that kind makes b.
TermPath(kind, code, a, b) == Path(code, Terms, TermStep(kind), a, b)

\* The types of what is open.
LEMMA AbstractTypes ==
  /\ \A h \in Ctors \cup {"list"}, s \in Sorts : Opened(h, s) \in Abstract
  /\ \A g \in Abstract : \A s, h : Takes(g, s, h) => h \in Abstract
  /\ \A q \in Terms, g \in Abstract : Append(q, g) \in Terms /\ Len(Append(q, g)) > 0
<1>1. \A h \in Ctors \cup {"list"}, s \in Sorts : Opened(h, s) \in Abstract
  BY DEF Abstract, Opened
<1>2. \A g \in Abstract : \A s, h : Takes(g, s, h) => h \in Abstract
  BY DEF Abstract, Takes
<1>3. \A q \in Terms, g \in Abstract : Append(q, g) \in Terms /\ Len(Append(q, g)) > 0
  BY DEF Terms
<1> QED BY <1>1, <1>2, <1>3

\* A token that stays in the parenthesis g.
LEMMA TakePath ==
  ASSUME NEW kind, NEW t \in Tokens(kind), NEW q \in Terms, NEW g \in Abstract, NEW h \in Abstract,
         Reads(kind, t, g, h)
  PROVE  TermPath(kind, <<t>>, Append(q, g), Append(q, h))
<1>1. <<Append(q, g), t, Append(q, h)>> \in TermStep(kind)
  BY AbstractTypes DEF TermStep, TermStepOK
<1> QED BY <1>1, AbstractTypes, PathOne DEF TermPath

\* A constructor is one argument of what is open around it.
LEMMA CtorPath ==
  ASSUME NEW kind, NEW c \in Ctors, NEW s \in Elements, NEW args \in Seq(Tokens(kind)),
         NEW q \in Terms, NEW f \in Abstract, NEW g \in Abstract, NEW h \in Abstract,
         {<<"(", c>>, <<")">>} \subseteq Tokens(kind),
         TermPath(kind, args, Append(Append(q, f), Opened(c, s)), Append(Append(q, f), g)),
         g.head # "list", Full(g), \A r \in Result(g) : Takes(f, r, h)
  PROVE  TermPath(kind, Ctor(c, args), Append(q, f), Append(q, h)) /\ Ctor(c, args) \in Seq(Tokens(kind))
<1> DEFINE a == Append(q, f)
           b == Append(a, Opened(c, s))
           d == Append(a, g)
<1>1. a \in Terms /\ b \in Terms /\ d \in Terms /\ Len(a) > 0 /\ Append(q, h) \in Terms
  BY AbstractTypes DEF Elements
<1>2. <<a, <<"(", c>>, b>> \in TermStep(kind)
  <2>1. TermStepOK(kind, a, <<"(", c>>, b)
    BY <1>1 DEF TermStepOK
  <2> QED BY <1>1, <2>1 DEF TermStep
<1>3. <<d, <<")">>, Append(q, h)>> \in TermStep(kind)
  <2>1. TermStepOK(kind, d, <<")">>, Append(q, h))
    BY DEF TermStepOK
  <2> QED BY <1>1, <2>1 DEF TermStep
<1>4. Path(<<<<"(", c>>>>, Terms, TermStep(kind), a, b)
  BY <1>1, <1>2, PathOne
<1>5. Path(<<<<")">>>>, Terms, TermStep(kind), d, Append(q, h))
  BY <1>1, <1>3, PathOne
<1>6. Path(args, Terms, TermStep(kind), b, d)
  BY DEF TermPath
<1> HIDE DEF a, b, d
<1>7. <<<<"(", c>>>> \in Seq(Tokens(kind)) /\ <<<<")">>>> \in Seq(Tokens(kind)) /\ <<<<"(", c>>>> \o args \in Seq(Tokens(kind))
  OBVIOUS
<1>8. Path(<<<<"(", c>>>> \o args, Terms, TermStep(kind), a, d)
  BY <1>4, <1>6, <1>7, PathConcat
<1>9. Path((<<<<"(", c>>>> \o args) \o <<<<")">>>>, Terms, TermStep(kind), a, Append(q, h))
  BY <1>5, <1>7, <1>8, PathConcat
<1>10. (<<<<"(", c>>>> \o args) \o <<<<")">>>> = Ctor(c, args)
  BY DEF Ctor
<1> QED BY <1>9, <1>10, CtorSeq DEF TermPath, a

\* So is a list.
LEMMA ListPath ==
  ASSUME NEW kind, NEW s \in Elements, NEW items \in Seq(Tokens(kind)),
         NEW q \in Terms, NEW f \in Abstract, NEW h \in Abstract,
         {<<"[">>, <<"]">>} \subseteq Tokens(kind),
         TermPath(kind, items, Append(Append(q, f), Opened("list", s)), Append(Append(q, f), Opened("list", s))),
         \A r \in ListOf(s) : Takes(f, r, h)
  PROVE  TermPath(kind, <<<<"[">>>> \o items \o <<<<"]">>>>, Append(q, f), Append(q, h))
<1> DEFINE a == Append(q, f)
           g == Opened("list", s)
           b == Append(a, g)
<1>0. g \in Abstract /\ g.head = "list" /\ Full(g) /\ Result(g) = ListOf(s)
  BY AbstractTypes DEF Full, Result, Opened, Elements
<1>1. a \in Terms /\ b \in Terms /\ Len(a) > 0 /\ Append(q, h) \in Terms
  BY <1>0, AbstractTypes
<1>2. <<a, <<"[">>, b>> \in TermStep(kind)
  <2>1. TermStepOK(kind, a, <<"[">>, b)
    BY <1>1 DEF TermStepOK
  <2> QED BY <1>1, <2>1 DEF TermStep
<1> HIDE DEF g
<1>3. <<b, <<"]">>, Append(q, h)>> \in TermStep(kind)
  <2>1. TermStepOK(kind, b, <<"]">>, Append(q, h))
    BY <1>0 DEF TermStepOK
  <2> QED BY <1>1, <2>1 DEF TermStep
<1>4. Path(<<<<"[">>>>, Terms, TermStep(kind), a, b)
  BY <1>1, <1>2, PathOne
<1>5. Path(<<<<"]">>>>, Terms, TermStep(kind), b, Append(q, h))
  BY <1>1, <1>3, PathOne
<1>6. Path(items, Terms, TermStep(kind), b, b)
  BY DEF TermPath, g
<1> HIDE DEF a, b
<1>7. <<<<"[">>>> \in Seq(Tokens(kind)) /\ <<<<"]">>>> \in Seq(Tokens(kind)) /\ <<<<"[">>>> \o items \in Seq(Tokens(kind))
  OBVIOUS
<1>8. Path(<<<<"[">>>> \o items, Terms, TermStep(kind), a, b)
  BY <1>4, <1>6, <1>7, PathConcat
<1>9. Path((<<<<"[">>>> \o items) \o <<<<"]">>>>, Terms, TermStep(kind), a, Append(q, h))
  BY <1>5, <1>7, <1>8, PathConcat
<1> QED BY <1>9 DEF TermPath, a

\* The code moves the parenthesis it stands in from g to h.
Fits(kind, code, g, h) ==
  /\ code \in Seq(Tokens(kind)) /\ g \in Abstract /\ h \in Abstract
  /\ \A q \in Terms : TermPath(kind, code, Append(q, g), Append(q, h))

\* One token, wherever the printer is.
LEMMA FitsOne ==
  ASSUME NEW kind, NEW t \in Tokens(kind), NEW g \in Abstract, NEW h \in Abstract, Reads(kind, t, g, h)
  PROVE  Fits(kind, <<t>>, g, h)
BY TakePath DEF Fits

\* Texts follow one another.
LEMMA FitsConcat ==
  ASSUME NEW kind, NEW c, NEW d, NEW f, NEW g, NEW h, Fits(kind, c, f, g), Fits(kind, d, g, h)
  PROVE  Fits(kind, c \o d, f, h)
<1>1. c \in Seq(Tokens(kind)) /\ d \in Seq(Tokens(kind)) /\ c \o d \in Seq(Tokens(kind))
  BY DEF Fits
<1>2. ASSUME NEW q \in Terms PROVE TermPath(kind, c \o d, Append(q, f), Append(q, h))
  <2>1. TermPath(kind, c, Append(q, f), Append(q, g)) /\ TermPath(kind, d, Append(q, g), Append(q, h))
    BY DEF Fits
  <2> QED BY <1>1, <2>1, PathConcat DEF TermPath
<1> QED BY <1>1, <1>2 DEF Fits

\* Two tokens.
LEMMA TwoTokens ==
  ASSUME NEW t, NEW u
  PROVE  <<t>> \o <<u>> = <<t, u>>
<1>1. PICK x, y : x = <<t>> \o <<u>> /\ y = <<t, u>>
  OBVIOUS
<1>2. x \in Seq({t, u}) /\ Len(x) = 2 /\ x[1] = t /\ x[2] = u
  BY <1>1
<1>3. y \in Seq({t, u}) /\ Len(y) = 2 /\ y[1] = t /\ y[2] = u
  BY <1>1
<1>4. \A i \in 1 .. Len(x) : x[i] = y[i]
  BY <1>2, <1>3
<1>5. x = y
  BY <1>2, <1>3, <1>4, SeqEqual
<1> QED BY <1>1, <1>5

\* Three tokens.
LEMMA ThreeTokens ==
  ASSUME NEW t, NEW u, NEW v
  PROVE  <<t, u>> \o <<v>> = <<t, u, v>>
<1>1. PICK x, y : x = <<t, u>> \o <<v>> /\ y = <<t, u, v>>
  OBVIOUS
<1>2. x \in Seq({t, u, v}) /\ Len(x) = 3 /\ x[1] = t /\ x[2] = u /\ x[3] = v
  BY <1>1
<1>3. y \in Seq({t, u, v}) /\ Len(y) = 3 /\ y[1] = t /\ y[2] = u /\ y[3] = v
  BY <1>1
<1>4. \A i \in 1 .. Len(x) : x[i] = y[i]
  BY <1>2, <1>3
<1>5. x = y
  BY <1>2, <1>3, <1>4, SeqEqual
<1> QED BY <1>1, <1>5

\* Two tokens, one after the other.
LEMMA FitsTwo ==
  ASSUME NEW kind, NEW t, NEW u, NEW f, NEW g, NEW h, Fits(kind, <<t>>, f, g), Fits(kind, <<u>>, g, h)
  PROVE  Fits(kind, <<t, u>>, f, h)
<1>1. <<t>> \o <<u>> = <<t, u>>
  BY TwoTokens
<1> QED BY <1>1, FitsConcat

\* Three tokens, one after the other.
LEMMA FitsThree ==
  ASSUME NEW kind, NEW t, NEW u, NEW v, NEW f, NEW g, NEW h, NEW i,
         Fits(kind, <<t>>, f, g), Fits(kind, <<u>>, g, h), Fits(kind, <<v>>, h, i)
  PROVE  Fits(kind, <<t, u, v>>, f, i)
<1>1. <<t, u>> \o <<v>> = <<t, u, v>>
  BY ThreeTokens
<1> QED BY <1>1, FitsConcat, FitsTwo

\* A constructor with all its arguments is one argument of f.
LEMMA FitsCtor ==
  ASSUME NEW kind, NEW c \in Ctors, NEW s \in Elements, NEW args, NEW f \in Abstract, NEW g, NEW h \in Abstract,
         Texts \subseteq Tokens(kind), Fits(kind, args, Opened(c, s), g),
         g.head # "list", Full(g), \A r \in Result(g) : Takes(f, r, h)
  PROVE  Fits(kind, Ctor(c, args), f, h)
<1>1. {<<"(", c>>, <<")">>} \subseteq Tokens(kind)
  BY DEF Texts
<1>2. args \in Seq(Tokens(kind)) /\ g \in Abstract
  BY DEF Fits
<1>3. ASSUME NEW q \in Terms PROVE TermPath(kind, Ctor(c, args), Append(q, f), Append(q, h))
  <2>1. Append(q, f) \in Terms
    BY AbstractTypes
  <2>2. TermPath(kind, args, Append(Append(q, f), Opened(c, s)), Append(Append(q, f), g))
    BY <2>1 DEF Fits
  <2> QED BY <1>1, <1>2, <2>2, CtorPath
<1>4. Ctor(c, args) \in Seq(Tokens(kind))
  BY <1>1, <1>2, CtorSeq
<1> QED BY <1>3, <1>4 DEF Fits

\* A text that leaves g as it is may be repeated.
LEMMA FitsRepeat ==
  ASSUME NEW kind, NEW n \in Nat, NEW s, NEW g, Fits(kind, s, g, g)
  PROVE  Fits(kind, Repeat(n, s), g, g)
<1>1. s \in Seq(Tokens(kind)) /\ g \in Abstract
  BY DEF Fits
<1>2. ASSUME NEW q \in Terms PROVE TermPath(kind, Repeat(n, s), Append(q, g), Append(q, g))
  <2>1. TermPath(kind, s, Append(q, g), Append(q, g)) /\ Append(q, g) \in Terms
    BY <1>1, AbstractTypes DEF Fits
  <2> QED BY <1>1, <2>1, PathRepeat DEF TermPath
<1> QED BY <1>1, <1>2, RepeatSeq DEF Fits

\* A list whose items are printed by code.
LEMMA FitsItems ==
  ASSUME NEW kind, NEW s \in Elements, NEW code, NEW f \in Abstract, NEW h \in Abstract,
         Texts \subseteq Tokens(kind), Fits(kind, code, Opened("list", s), Opened("list", s)),
         \A r \in ListOf(s) : Takes(f, r, h)
  PROVE  Fits(kind, <<<<"[">>>> \o code \o <<<<"]">>>>, f, h)
<1>1. {<<"[">>, <<"]">>} \subseteq Tokens(kind)
  BY DEF Texts
<1>2. code \in Seq(Tokens(kind))
  BY DEF Fits
<1>3. ASSUME NEW q \in Terms PROVE TermPath(kind, <<<<"[">>>> \o code \o <<<<"]">>>>, Append(q, f), Append(q, h))
  <2>1. Append(q, f) \in Terms
    BY AbstractTypes
  <2>2. TermPath(kind, code, Append(Append(q, f), Opened("list", s)), Append(Append(q, f), Opened("list", s)))
    BY <2>1 DEF Fits
  <2> QED BY <1>1, <1>2, <2>2, ListPath
<1> QED BY <1>1, <1>2, <1>3 DEF Fits

\* A list of any length is one argument of f.
LEMMA FitsList ==
  ASSUME NEW kind, NEW n \in Nat, NEW s \in Elements, NEW item, NEW f \in Abstract, NEW h \in Abstract,
         Texts \subseteq Tokens(kind), Fits(kind, item, Opened("list", s), [head |-> "list", sort |-> s, n |-> 1]),
         \A r \in ListOf(s) : Takes(f, r, h)
  PROVE  Fits(kind, List(n, item), f, h)
<1>1. <<"::">> \in Tokens(kind) /\ [head |-> "list", sort |-> s, n |-> 1] \in Abstract /\ Opened("list", s) \in Abstract
  BY AbstractTypes DEF Texts, Abstract, Elements
<1>2. Reads(kind, <<"::">>, [head |-> "list", sort |-> s, n |-> 1], Opened("list", s))
  BY DEF Reads, RangeParts
<1>3. Fits(kind, <<<<"::">>>>, [head |-> "list", sort |-> s, n |-> 1], Opened("list", s))
  BY <1>1, <1>2, FitsOne
<1>4. Fits(kind, item \o <<<<"::">>>>, Opened("list", s), Opened("list", s))
  BY <1>3, FitsConcat
<1>5. Fits(kind, Repeat(n, item \o <<<<"::">>>>), Opened("list", s), Opened("list", s))
  BY <1>4, FitsRepeat
<1> QED BY <1>5, FitsItems DEF List

\* A constructor with i of its arguments.
At(c, i) == [head |-> c, sort |-> "Some", n |-> i]

\* A constructor takes all the arguments that args prints, and gives a statement
\* or a declaration.
LEMMA FitsTerm ==
  ASSUME NEW kind, NEW c \in DOMAIN Signatures, NEW args, NEW n \in Nat, NEW f \in Abstract, NEW h \in Abstract,
         Texts \subseteq Tokens(kind), Fits(kind, args, At(c, 0), At(c, n)),
         n = Len(Signatures[c][1]), Takes(f, <<Signatures[c][2]>>, h)
  PROVE  Fits(kind, Ctor(c, args), f, h)
<1>1. c \in Ctors /\ c \notin {"Some", "list"} /\ "Some" \in Elements
  BY DEF Ctors, Signatures, Elements, Sorts
<1>2. Opened(c, "Some") = At(c, 0)
  BY DEF Opened, At
<1>3. Full(At(c, n)) /\ At(c, n).head # "list" /\ Result(At(c, n)) = {<<Signatures[c][2]>>}
  BY <1>1 DEF Full, Result, At
<1> HIDE DEF At
<1> QED BY <1>1, <1>2, <1>3, FitsCtor

\* So is Some with its argument.
LEMMA FitsSome ==
  ASSUME NEW kind, NEW s \in Elements, NEW t \in Tokens(kind), NEW f \in Abstract, NEW h \in Abstract,
         Texts \subseteq Tokens(kind), Takes(f, <<"Some", s>>, h),
         Reads(kind, t, Opened("Some", s), [head |-> "Some", sort |-> s, n |-> 1])
  PROVE  Fits(kind, Ctor("Some", <<t>>), f, h)
<1> DEFINE g == [head |-> "Some", sort |-> s, n |-> 1]
<1>1. "Some" \in Ctors /\ g \in Abstract /\ Opened("Some", s) \in Abstract
  BY DEF Ctors, Abstract, Opened, Elements
<1>2. Full(g) /\ g.head # "list" /\ Result(g) = {<<"Some", s>>}
  BY DEF Full, Result
<1> HIDE DEF g
<1>3. Fits(kind, <<t>>, Opened("Some", s), g)
  BY <1>1, FitsOne DEF g
<1> QED BY <1>1, <1>2, <1>3, FitsCtor

\* So is a word.
LEMMA FitsWord ==
  ASSUME NEW kind, NEW s \in Words, NEW f \in Abstract, NEW h \in Abstract,
         Texts \subseteq Tokens(kind), Takes(f, <<s>>, h)
  PROVE  Fits(kind, <<W(s)>>, f, h)
<1>1. W(s) \in Tokens(kind)
  BY DEF Texts
<1>2. Reads(kind, W(s), f, h)
  BY DEF Reads, W, RangeParts
<1> QED BY <1>1, <1>2, FitsOne

\* So is an option.
LEMMA FitsOpt ==
  ASSUME NEW kind, NEW s \in Elements, NEW t, <<t>> \in Tokens(kind), NEW f \in Abstract, NEW h \in Abstract, NEW x \in Opt(t),
         Texts \subseteq Tokens(kind), Takes(f, <<"None">>, h), Takes(f, <<"Some", s>>, h),
         Reads(kind, <<t>>, Opened("Some", s), [head |-> "Some", sort |-> s, n |-> 1])
  PROVE  Fits(kind, x, f, h)
<1>1. "None" \in Words
  BY DEF Words
<1>2. Fits(kind, None, f, h)
  BY <1>1, FitsWord DEF None
<1>3. Fits(kind, Ctor("Some", <<<<t>>>>), f, h)
  BY FitsSome
<1> QED BY <1>2, <1>3 DEF Opt
\* What the constructors take, one argument after the other.
LEMMA AtTypes == \A c \in DOMAIN Signatures, i \in Nat : At(c, i) \in Abstract
BY DEF At, Abstract, Ctors, Sorts

\* The arguments of Sseq.
LEMMA SseqTakes ==
  /\ "Sseq" \in DOMAIN Signatures /\ Len(Signatures["Sseq"][1]) = 1 /\ Signatures["Sseq"][2] = "Stmt"
  /\ \A r \in ListOf("Stmt") : Takes(At("Sseq", 0), r, At("Sseq", 1))
<1>1. "Sseq" \in DOMAIN Signatures /\ Signatures["Sseq"][2] = "Stmt"
  BY DEF Signatures
<1>2. Signatures["Sseq"][1] = <<ListOf("Stmt")>>
  BY DEF Signatures
<1>3. /\ Len(Signatures["Sseq"][1]) = 1
      /\ Signatures["Sseq"][1][1] = ListOf("Stmt")
  BY <1>2
<1>4. \A r \in ListOf("Stmt") : Takes(At("Sseq", 0), r, At("Sseq", 1))
  BY <1>3 DEF Takes, At
<1> QED BY <1>1, <1>3, <1>4

\* The arguments of Sdecl.
LEMMA SdeclTakes ==
  /\ "Sdecl" \in DOMAIN Signatures /\ Len(Signatures["Sdecl"][1]) = 1 /\ Signatures["Sdecl"][2] = "Stmt"
  /\ \A r \in ListOf("VarDecl") : Takes(At("Sdecl", 0), r, At("Sdecl", 1))
<1>1. "Sdecl" \in DOMAIN Signatures /\ Signatures["Sdecl"][2] = "Stmt"
  BY DEF Signatures
<1>2. Signatures["Sdecl"][1] = <<ListOf("VarDecl")>>
  BY DEF Signatures
<1>3. /\ Len(Signatures["Sdecl"][1]) = 1
      /\ Signatures["Sdecl"][1][1] = ListOf("VarDecl")
  BY <1>2
<1>4. \A r \in ListOf("VarDecl") : Takes(At("Sdecl", 0), r, At("Sdecl", 1))
  BY <1>3 DEF Takes, At
<1> QED BY <1>1, <1>3, <1>4

\* The arguments of Sif.
LEMMA SifTakes ==
  /\ "Sif" \in DOMAIN Signatures /\ Len(Signatures["Sif"][1]) = 4 /\ Signatures["Sif"][2] = "Stmt"
  /\ Takes(At("Sif", 0), <<"None">>, At("Sif", 1))
  /\ Takes(At("Sif", 0), <<"Some", "VarDecl">>, At("Sif", 1))
  /\ Takes(At("Sif", 1), <<"Expr">>, At("Sif", 2))
  /\ Takes(At("Sif", 2), <<"Stmt">>, At("Sif", 3))
  /\ Takes(At("Sif", 3), <<"Stmt">>, At("Sif", 4))
<1>1. "Sif" \in DOMAIN Signatures /\ Signatures["Sif"][2] = "Stmt"
  BY DEF Signatures
<1>2. Signatures["Sif"][1] = <<Option("VarDecl"), Sort("Expr"), Sort("Stmt"), Sort("Stmt")>>
  BY DEF Signatures
<1>3. /\ Len(Signatures["Sif"][1]) = 4
      /\ Signatures["Sif"][1][1] = Option("VarDecl")
      /\ Signatures["Sif"][1][2] = Sort("Expr")
      /\ Signatures["Sif"][1][3] = Sort("Stmt")
      /\ Signatures["Sif"][1][4] = Sort("Stmt")
  BY <1>2
<1>4. Takes(At("Sif", 0), <<"None">>, At("Sif", 1))
  BY <1>3 DEF Takes, At, Option
<1>5. Takes(At("Sif", 0), <<"Some", "VarDecl">>, At("Sif", 1))
  BY <1>3 DEF Takes, At, Option
<1>6. Takes(At("Sif", 1), <<"Expr">>, At("Sif", 2))
  BY <1>3 DEF Takes, At, Sort
<1>7. Takes(At("Sif", 2), <<"Stmt">>, At("Sif", 3))
  BY <1>3 DEF Takes, At, Sort
<1>8. Takes(At("Sif", 3), <<"Stmt">>, At("Sif", 4))
  BY <1>3 DEF Takes, At, Sort
<1> QED BY <1>1, <1>3, <1>4, <1>5, <1>6, <1>7, <1>8

\* The arguments of Swhile.
LEMMA SwhileTakes ==
  /\ "Swhile" \in DOMAIN Signatures /\ Len(Signatures["Swhile"][1]) = 3 /\ Signatures["Swhile"][2] = "Stmt"
  /\ Takes(At("Swhile", 0), <<"None">>, At("Swhile", 1))
  /\ Takes(At("Swhile", 0), <<"Some", "VarDecl">>, At("Swhile", 1))
  /\ Takes(At("Swhile", 1), <<"Expr">>, At("Swhile", 2))
  /\ Takes(At("Swhile", 2), <<"Stmt">>, At("Swhile", 3))
<1>1. "Swhile" \in DOMAIN Signatures /\ Signatures["Swhile"][2] = "Stmt"
  BY DEF Signatures
<1>2. Signatures["Swhile"][1] = <<Option("VarDecl"), Sort("Expr"), Sort("Stmt")>>
  BY DEF Signatures
<1>3. /\ Len(Signatures["Swhile"][1]) = 3
      /\ Signatures["Swhile"][1][1] = Option("VarDecl")
      /\ Signatures["Swhile"][1][2] = Sort("Expr")
      /\ Signatures["Swhile"][1][3] = Sort("Stmt")
  BY <1>2
<1>4. Takes(At("Swhile", 0), <<"None">>, At("Swhile", 1))
  BY <1>3 DEF Takes, At, Option
<1>5. Takes(At("Swhile", 0), <<"Some", "VarDecl">>, At("Swhile", 1))
  BY <1>3 DEF Takes, At, Option
<1>6. Takes(At("Swhile", 1), <<"Expr">>, At("Swhile", 2))
  BY <1>3 DEF Takes, At, Sort
<1>7. Takes(At("Swhile", 2), <<"Stmt">>, At("Swhile", 3))
  BY <1>3 DEF Takes, At, Sort
<1> QED BY <1>1, <1>3, <1>4, <1>5, <1>6, <1>7

\* The arguments of Sfor.
LEMMA SforTakes ==
  /\ "Sfor" \in DOMAIN Signatures /\ Len(Signatures["Sfor"][1]) = 4 /\ Signatures["Sfor"][2] = "Stmt"
  /\ Takes(At("Sfor", 0), <<"None">>, At("Sfor", 1))
  /\ Takes(At("Sfor", 0), <<"Some", "Stmt">>, At("Sfor", 1))
  /\ Takes(At("Sfor", 1), <<"None">>, At("Sfor", 2))
  /\ Takes(At("Sfor", 1), <<"Some", "Expr">>, At("Sfor", 2))
  /\ Takes(At("Sfor", 2), <<"None">>, At("Sfor", 3))
  /\ Takes(At("Sfor", 2), <<"Some", "Expr">>, At("Sfor", 3))
  /\ Takes(At("Sfor", 3), <<"Stmt">>, At("Sfor", 4))
<1>1. "Sfor" \in DOMAIN Signatures /\ Signatures["Sfor"][2] = "Stmt"
  BY DEF Signatures
<1>2. Signatures["Sfor"][1] = <<Option("Stmt"), Option("Expr"), Option("Expr"), Sort("Stmt")>>
  BY DEF Signatures
<1>3. /\ Len(Signatures["Sfor"][1]) = 4
      /\ Signatures["Sfor"][1][1] = Option("Stmt")
      /\ Signatures["Sfor"][1][2] = Option("Expr")
      /\ Signatures["Sfor"][1][3] = Option("Expr")
      /\ Signatures["Sfor"][1][4] = Sort("Stmt")
  BY <1>2
<1>4. Takes(At("Sfor", 0), <<"None">>, At("Sfor", 1))
  BY <1>3 DEF Takes, At, Option
<1>5. Takes(At("Sfor", 0), <<"Some", "Stmt">>, At("Sfor", 1))
  BY <1>3 DEF Takes, At, Option
<1>6. Takes(At("Sfor", 1), <<"None">>, At("Sfor", 2))
  BY <1>3 DEF Takes, At, Option
<1>7. Takes(At("Sfor", 1), <<"Some", "Expr">>, At("Sfor", 2))
  BY <1>3 DEF Takes, At, Option
<1>8. Takes(At("Sfor", 2), <<"None">>, At("Sfor", 3))
  BY <1>3 DEF Takes, At, Option
<1>9. Takes(At("Sfor", 2), <<"Some", "Expr">>, At("Sfor", 3))
  BY <1>3 DEF Takes, At, Option
<1>10. Takes(At("Sfor", 3), <<"Stmt">>, At("Sfor", 4))
  BY <1>3 DEF Takes, At, Sort
<1> QED BY <1>1, <1>3, <1>4, <1>5, <1>6, <1>7, <1>8, <1>9, <1>10

\* The arguments of Sforeach.
LEMMA SforeachTakes ==
  /\ "Sforeach" \in DOMAIN Signatures /\ Len(Signatures["Sforeach"][1]) = 8 /\ Signatures["Sforeach"][2] = "Stmt"
  /\ Takes(At("Sforeach", 0), <<"Stmt">>, At("Sforeach", 1))
  /\ Takes(At("Sforeach", 1), <<"Stmt">>, At("Sforeach", 2))
  /\ Takes(At("Sforeach", 2), <<"Stmt">>, At("Sforeach", 3))
  /\ Takes(At("Sforeach", 3), <<"None">>, At("Sforeach", 4))
  /\ Takes(At("Sforeach", 3), <<"Some", "Stmt">>, At("Sforeach", 4))
  /\ Takes(At("Sforeach", 4), <<"None">>, At("Sforeach", 5))
  /\ Takes(At("Sforeach", 4), <<"Some", "Expr">>, At("Sforeach", 5))
  /\ Takes(At("Sforeach", 5), <<"None">>, At("Sforeach", 6))
  /\ Takes(At("Sforeach", 5), <<"Some", "Expr">>, At("Sforeach", 6))
  /\ Takes(At("Sforeach", 6), <<"Stmt">>, At("Sforeach", 7))
  /\ Takes(At("Sforeach", 7), <<"Stmt">>, At("Sforeach", 8))
<1>1. "Sforeach" \in DOMAIN Signatures /\ Signatures["Sforeach"][2] = "Stmt"
  BY DEF Signatures
<1>2. Signatures["Sforeach"][1] =
        <<Sort("Stmt"), Sort("Stmt"), Sort("Stmt"), Option("Stmt"), Option("Expr"), Option("Expr"), Sort("Stmt"), Sort("Stmt")>>
  BY DEF Signatures
<1>3. Len(Signatures["Sforeach"][1]) = 8
  BY <1>2
<1>4. /\ Signatures["Sforeach"][1][1] = Sort("Stmt")
      /\ Signatures["Sforeach"][1][2] = Sort("Stmt")
      /\ Signatures["Sforeach"][1][3] = Sort("Stmt")
      /\ Signatures["Sforeach"][1][4] = Option("Stmt")
      /\ Signatures["Sforeach"][1][5] = Option("Expr")
      /\ Signatures["Sforeach"][1][6] = Option("Expr")
      /\ Signatures["Sforeach"][1][7] = Sort("Stmt")
      /\ Signatures["Sforeach"][1][8] = Sort("Stmt")
  BY <1>2
<1>5. Takes(At("Sforeach", 0), <<"Stmt">>, At("Sforeach", 1))
  BY <1>3, <1>4 DEF Takes, At, Sort
<1>6. Takes(At("Sforeach", 1), <<"Stmt">>, At("Sforeach", 2))
  BY <1>3, <1>4 DEF Takes, At, Sort
<1>7. Takes(At("Sforeach", 2), <<"Stmt">>, At("Sforeach", 3))
  BY <1>3, <1>4 DEF Takes, At, Sort
<1>8. Takes(At("Sforeach", 3), <<"None">>, At("Sforeach", 4))
  BY <1>3, <1>4 DEF Takes, At, Option
<1>9. Takes(At("Sforeach", 3), <<"Some", "Stmt">>, At("Sforeach", 4))
  BY <1>3, <1>4 DEF Takes, At, Option
<1>10. Takes(At("Sforeach", 4), <<"None">>, At("Sforeach", 5))
  BY <1>3, <1>4 DEF Takes, At, Option
<1>11. Takes(At("Sforeach", 4), <<"Some", "Expr">>, At("Sforeach", 5))
  BY <1>3, <1>4 DEF Takes, At, Option
<1>12. Takes(At("Sforeach", 5), <<"None">>, At("Sforeach", 6))
  BY <1>3, <1>4 DEF Takes, At, Option
<1>13. Takes(At("Sforeach", 5), <<"Some", "Expr">>, At("Sforeach", 6))
  BY <1>3, <1>4 DEF Takes, At, Option
<1>14. Takes(At("Sforeach", 6), <<"Stmt">>, At("Sforeach", 7))
  BY <1>3, <1>4 DEF Takes, At, Sort
<1>15. Takes(At("Sforeach", 7), <<"Stmt">>, At("Sforeach", 8))
  BY <1>3, <1>4 DEF Takes, At, Sort
<1> QED BY <1>1, <1>3, <1>5, <1>6, <1>7, <1>8, <1>9, <1>10, <1>11, <1>12, <1>13, <1>14, <1>15

\* The arguments of Sdo.
LEMMA SdoTakes ==
  /\ "Sdo" \in DOMAIN Signatures /\ Len(Signatures["Sdo"][1]) = 2 /\ Signatures["Sdo"][2] = "Stmt"
  /\ Takes(At("Sdo", 0), <<"Stmt">>, At("Sdo", 1))
  /\ Takes(At("Sdo", 1), <<"Expr">>, At("Sdo", 2))
<1>1. "Sdo" \in DOMAIN Signatures /\ Signatures["Sdo"][2] = "Stmt"
  BY DEF Signatures
<1>2. Signatures["Sdo"][1] = <<Sort("Stmt"), Sort("Expr")>>
  BY DEF Signatures
<1>3. /\ Len(Signatures["Sdo"][1]) = 2
      /\ Signatures["Sdo"][1][1] = Sort("Stmt")
      /\ Signatures["Sdo"][1][2] = Sort("Expr")
  BY <1>2
<1>4. Takes(At("Sdo", 0), <<"Stmt">>, At("Sdo", 1))
  BY <1>3 DEF Takes, At, Sort
<1>5. Takes(At("Sdo", 1), <<"Expr">>, At("Sdo", 2))
  BY <1>3 DEF Takes, At, Sort
<1> QED BY <1>1, <1>3, <1>4, <1>5

\* The arguments of Sswitch.
LEMMA SswitchTakes ==
  /\ "Sswitch" \in DOMAIN Signatures /\ Len(Signatures["Sswitch"][1]) = 3 /\ Signatures["Sswitch"][2] = "Stmt"
  /\ Takes(At("Sswitch", 0), <<"None">>, At("Sswitch", 1))
  /\ Takes(At("Sswitch", 0), <<"Some", "VarDecl">>, At("Sswitch", 1))
  /\ Takes(At("Sswitch", 1), <<"Expr">>, At("Sswitch", 2))
  /\ Takes(At("Sswitch", 2), <<"Stmt">>, At("Sswitch", 3))
<1>1. "Sswitch" \in DOMAIN Signatures /\ Signatures["Sswitch"][2] = "Stmt"
  BY DEF Signatures
<1>2. Signatures["Sswitch"][1] = <<Option("VarDecl"), Sort("Expr"), Sort("Stmt")>>
  BY DEF Signatures
<1>3. /\ Len(Signatures["Sswitch"][1]) = 3
      /\ Signatures["Sswitch"][1][1] = Option("VarDecl")
      /\ Signatures["Sswitch"][1][2] = Sort("Expr")
      /\ Signatures["Sswitch"][1][3] = Sort("Stmt")
  BY <1>2
<1>4. Takes(At("Sswitch", 0), <<"None">>, At("Sswitch", 1))
  BY <1>3 DEF Takes, At, Option
<1>5. Takes(At("Sswitch", 0), <<"Some", "VarDecl">>, At("Sswitch", 1))
  BY <1>3 DEF Takes, At, Option
<1>6. Takes(At("Sswitch", 1), <<"Expr">>, At("Sswitch", 2))
  BY <1>3 DEF Takes, At, Sort
<1>7. Takes(At("Sswitch", 2), <<"Stmt">>, At("Sswitch", 3))
  BY <1>3 DEF Takes, At, Sort
<1> QED BY <1>1, <1>3, <1>4, <1>5, <1>6, <1>7

\* The arguments of Scase.
LEMMA ScaseTakes ==
  /\ "Scase" \in DOMAIN Signatures /\ Len(Signatures["Scase"][1]) = 1 /\ Signatures["Scase"][2] = "Stmt"
  /\ Takes(At("Scase", 0), <<"SwitchBranch">>, At("Scase", 1))
<1>1. "Scase" \in DOMAIN Signatures /\ Signatures["Scase"][2] = "Stmt"
  BY DEF Signatures
<1>2. Signatures["Scase"][1] = <<Sort("SwitchBranch")>>
  BY DEF Signatures
<1>3. /\ Len(Signatures["Scase"][1]) = 1
      /\ Signatures["Scase"][1][1] = Sort("SwitchBranch")
  BY <1>2
<1>4. Takes(At("Scase", 0), <<"SwitchBranch">>, At("Scase", 1))
  BY <1>3 DEF Takes, At, Sort
<1> QED BY <1>1, <1>3, <1>4

\* The arguments of Exact.
LEMMA ExactTakes ==
  /\ "Exact" \in DOMAIN Signatures /\ Len(Signatures["Exact"][1]) = 1 /\ Signatures["Exact"][2] = "SwitchBranch"
  /\ Takes(At("Exact", 0), <<"Z">>, At("Exact", 1))
<1>1. "Exact" \in DOMAIN Signatures /\ Signatures["Exact"][2] = "SwitchBranch"
  BY DEF Signatures
<1>2. Signatures["Exact"][1] = <<Sort("Z")>>
  BY DEF Signatures
<1>3. /\ Len(Signatures["Exact"][1]) = 1
      /\ Signatures["Exact"][1][1] = Sort("Z")
  BY <1>2
<1>4. Takes(At("Exact", 0), <<"Z">>, At("Exact", 1))
  BY <1>3 DEF Takes, At, Sort
<1> QED BY <1>1, <1>3, <1>4

\* The arguments of Range.
LEMMA RangeTakes ==
  /\ "Range" \in DOMAIN Signatures /\ Len(Signatures["Range"][1]) = 2 /\ Signatures["Range"][2] = "SwitchBranch"
  /\ Takes(At("Range", 0), <<"Z">>, At("Range", 1))
  /\ Takes(At("Range", 1), <<"Z">>, At("Range", 2))
<1>1. "Range" \in DOMAIN Signatures /\ Signatures["Range"][2] = "SwitchBranch"
  BY DEF Signatures
<1>2. Signatures["Range"][1] = <<Sort("Z"), Sort("Z")>>
  BY DEF Signatures
<1>3. /\ Len(Signatures["Range"][1]) = 2
      /\ Signatures["Range"][1][1] = Sort("Z")
      /\ Signatures["Range"][1][2] = Sort("Z")
  BY <1>2
<1>4. Takes(At("Range", 0), <<"Z">>, At("Range", 1))
  BY <1>3 DEF Takes, At, Sort
<1>5. Takes(At("Range", 1), <<"Z">>, At("Range", 2))
  BY <1>3 DEF Takes, At, Sort
<1> QED BY <1>1, <1>3, <1>4, <1>5

\* The arguments of Sreturn_val.
LEMMA Sreturn_valTakes ==
  /\ "Sreturn_val" \in DOMAIN Signatures /\ Len(Signatures["Sreturn_val"][1]) = 1 /\ Signatures["Sreturn_val"][2] = "Stmt"
  /\ Takes(At("Sreturn_val", 0), <<"Expr">>, At("Sreturn_val", 1))
<1>1. "Sreturn_val" \in DOMAIN Signatures /\ Signatures["Sreturn_val"][2] = "Stmt"
  BY DEF Signatures
<1>2. Signatures["Sreturn_val"][1] = <<Sort("Expr")>>
  BY DEF Signatures
<1>3. /\ Len(Signatures["Sreturn_val"][1]) = 1
      /\ Signatures["Sreturn_val"][1][1] = Sort("Expr")
  BY <1>2
<1>4. Takes(At("Sreturn_val", 0), <<"Expr">>, At("Sreturn_val", 1))
  BY <1>3 DEF Takes, At, Sort
<1> QED BY <1>1, <1>3, <1>4

\* The arguments of Sexpr.
LEMMA SexprTakes ==
  /\ "Sexpr" \in DOMAIN Signatures /\ Len(Signatures["Sexpr"][1]) = 1 /\ Signatures["Sexpr"][2] = "Stmt"
  /\ Takes(At("Sexpr", 0), <<"Expr">>, At("Sexpr", 1))
<1>1. "Sexpr" \in DOMAIN Signatures /\ Signatures["Sexpr"][2] = "Stmt"
  BY DEF Signatures
<1>2. Signatures["Sexpr"][1] = <<Sort("Expr")>>
  BY DEF Signatures
<1>3. /\ Len(Signatures["Sexpr"][1]) = 1
      /\ Signatures["Sexpr"][1][1] = Sort("Expr")
  BY <1>2
<1>4. Takes(At("Sexpr", 0), <<"Expr">>, At("Sexpr", 1))
  BY <1>3 DEF Takes, At, Sort
<1> QED BY <1>1, <1>3, <1>4

\* The arguments of Sattr.
LEMMA SattrTakes ==
  /\ "Sattr" \in DOMAIN Signatures /\ Len(Signatures["Sattr"][1]) = 2 /\ Signatures["Sattr"][2] = "Stmt"
  /\ \A r \in ListOf("ident") : Takes(At("Sattr", 0), r, At("Sattr", 1))
  /\ Takes(At("Sattr", 1), <<"Stmt">>, At("Sattr", 2))
<1>1. "Sattr" \in DOMAIN Signatures /\ Signatures["Sattr"][2] = "Stmt"
  BY DEF Signatures
<1>2. Signatures["Sattr"][1] = <<ListOf("ident"), Sort("Stmt")>>
  BY DEF Signatures
<1>3. /\ Len(Signatures["Sattr"][1]) = 2
      /\ Signatures["Sattr"][1][1] = ListOf("ident")
      /\ Signatures["Sattr"][1][2] = Sort("Stmt")
  BY <1>2
<1>4. \A r \in ListOf("ident") : Takes(At("Sattr", 0), r, At("Sattr", 1))
  BY <1>3 DEF Takes, At
<1>5. Takes(At("Sattr", 1), <<"Stmt">>, At("Sattr", 2))
  BY <1>3 DEF Takes, At, Sort
<1> QED BY <1>1, <1>3, <1>4, <1>5

\* The arguments of Sasm.
LEMMA SasmTakes ==
  /\ "Sasm" \in DOMAIN Signatures /\ Len(Signatures["Sasm"][1]) = 5 /\ Signatures["Sasm"][2] = "Stmt"
  /\ Takes(At("Sasm", 0), <<"ident">>, At("Sasm", 1))
  /\ Takes(At("Sasm", 1), <<"bool">>, At("Sasm", 2))
  /\ \A r \in ListOf("operand") : Takes(At("Sasm", 2), r, At("Sasm", 3))
  /\ \A r \in ListOf("operand") : Takes(At("Sasm", 3), r, At("Sasm", 4))
  /\ \A r \in ListOf("ident") : Takes(At("Sasm", 4), r, At("Sasm", 5))
<1>1. "Sasm" \in DOMAIN Signatures /\ Signatures["Sasm"][2] = "Stmt"
  BY DEF Signatures
<1>2. Signatures["Sasm"][1] = <<Sort("ident"), Sort("bool"), ListOf("operand"), ListOf("operand"), ListOf("ident")>>
  BY DEF Signatures
<1>3. /\ Len(Signatures["Sasm"][1]) = 5
      /\ Signatures["Sasm"][1][1] = Sort("ident")
      /\ Signatures["Sasm"][1][2] = Sort("bool")
      /\ Signatures["Sasm"][1][3] = ListOf("operand")
      /\ Signatures["Sasm"][1][4] = ListOf("operand")
      /\ Signatures["Sasm"][1][5] = ListOf("ident")
  BY <1>2
<1>4. Takes(At("Sasm", 0), <<"ident">>, At("Sasm", 1))
  BY <1>3 DEF Takes, At, Sort
<1>5. Takes(At("Sasm", 1), <<"bool">>, At("Sasm", 2))
  BY <1>3 DEF Takes, At, Sort
<1>6. \A r \in ListOf("operand") : Takes(At("Sasm", 2), r, At("Sasm", 3))
  BY <1>3 DEF Takes, At
<1>7. \A r \in ListOf("operand") : Takes(At("Sasm", 3), r, At("Sasm", 4))
  BY <1>3 DEF Takes, At
<1>8. \A r \in ListOf("ident") : Takes(At("Sasm", 4), r, At("Sasm", 5))
  BY <1>3 DEF Takes, At
<1> QED BY <1>1, <1>3, <1>4, <1>5, <1>6, <1>7, <1>8

\* The arguments of Slabeled.
LEMMA SlabeledTakes ==
  /\ "Slabeled" \in DOMAIN Signatures /\ Len(Signatures["Slabeled"][1]) = 2 /\ Signatures["Slabeled"][2] = "Stmt"
  /\ Takes(At("Slabeled", 0), <<"ident">>, At("Slabeled", 1))
  /\ Takes(At("Slabeled", 1), <<"Stmt">>, At("Slabeled", 2))
<1>1. "Slabeled" \in DOMAIN Signatures /\ Signatures["Slabeled"][2] = "Stmt"
  BY DEF Signatures
<1>2. Signatures["Slabeled"][1] = <<Sort("ident"), Sort("Stmt")>>
  BY DEF Signatures
<1>3. /\ Len(Signatures["Slabeled"][1]) = 2
      /\ Signatures["Slabeled"][1][1] = Sort("ident")
      /\ Signatures["Slabeled"][1][2] = Sort("Stmt")
  BY <1>2
<1>4. Takes(At("Slabeled", 0), <<"ident">>, At("Slabeled", 1))
  BY <1>3 DEF Takes, At, Sort
<1>5. Takes(At("Slabeled", 1), <<"Stmt">>, At("Slabeled", 2))
  BY <1>3 DEF Takes, At, Sort
<1> QED BY <1>1, <1>3, <1>4, <1>5

\* The arguments of Sgoto.
LEMMA SgotoTakes ==
  /\ "Sgoto" \in DOMAIN Signatures /\ Len(Signatures["Sgoto"][1]) = 1 /\ Signatures["Sgoto"][2] = "Stmt"
  /\ Takes(At("Sgoto", 0), <<"ident">>, At("Sgoto", 1))
<1>1. "Sgoto" \in DOMAIN Signatures /\ Signatures["Sgoto"][2] = "Stmt"
  BY DEF Signatures
<1>2. Signatures["Sgoto"][1] = <<Sort("ident")>>
  BY DEF Signatures
<1>3. /\ Len(Signatures["Sgoto"][1]) = 1
      /\ Signatures["Sgoto"][1][1] = Sort("ident")
  BY <1>2
<1>4. Takes(At("Sgoto", 0), <<"ident">>, At("Sgoto", 1))
  BY <1>3 DEF Takes, At, Sort
<1> QED BY <1>1, <1>3, <1>4

\* The arguments of Sunsupported.
LEMMA SunsupportedTakes ==
  /\ "Sunsupported" \in DOMAIN Signatures /\ Len(Signatures["Sunsupported"][1]) = 1 /\ Signatures["Sunsupported"][2] = "Stmt"
  /\ Takes(At("Sunsupported", 0), <<"ident">>, At("Sunsupported", 1))
<1>1. "Sunsupported" \in DOMAIN Signatures /\ Signatures["Sunsupported"][2] = "Stmt"
  BY DEF Signatures
<1>2. Signatures["Sunsupported"][1] = <<Sort("ident")>>
  BY DEF Signatures
<1>3. /\ Len(Signatures["Sunsupported"][1]) = 1
      /\ Signatures["Sunsupported"][1][1] = Sort("ident")
  BY <1>2
<1>4. Takes(At("Sunsupported", 0), <<"ident">>, At("Sunsupported", 1))
  BY <1>3 DEF Takes, At, Sort
<1> QED BY <1>1, <1>3, <1>4

\* The arguments of Dvar.
LEMMA DvarTakes ==
  /\ "Dvar" \in DOMAIN Signatures /\ Len(Signatures["Dvar"][1]) = 3 /\ Signatures["Dvar"][2] = "VarDecl"
  /\ Takes(At("Dvar", 0), <<"ident">>, At("Dvar", 1))
  /\ Takes(At("Dvar", 1), <<"type">>, At("Dvar", 2))
  /\ Takes(At("Dvar", 2), <<"None">>, At("Dvar", 3))
  /\ Takes(At("Dvar", 2), <<"Some", "Expr">>, At("Dvar", 3))
<1>1. "Dvar" \in DOMAIN Signatures /\ Signatures["Dvar"][2] = "VarDecl"
  BY DEF Signatures
<1>2. Signatures["Dvar"][1] = <<Sort("ident"), Sort("type"), Option("Expr")>>
  BY DEF Signatures
<1>3. /\ Len(Signatures["Dvar"][1]) = 3
      /\ Signatures["Dvar"][1][1] = Sort("ident")
      /\ Signatures["Dvar"][1][2] = Sort("type")
      /\ Signatures["Dvar"][1][3] = Option("Expr")
  BY <1>2
<1>4. Takes(At("Dvar", 0), <<"ident">>, At("Dvar", 1))
  BY <1>3 DEF Takes, At, Sort
<1>5. Takes(At("Dvar", 1), <<"type">>, At("Dvar", 2))
  BY <1>3 DEF Takes, At, Sort
<1>6. Takes(At("Dvar", 2), <<"None">>, At("Dvar", 3))
  BY <1>3 DEF Takes, At, Option
<1>7. Takes(At("Dvar", 2), <<"Some", "Expr">>, At("Dvar", 3))
  BY <1>3 DEF Takes, At, Option
<1> QED BY <1>1, <1>3, <1>4, <1>5, <1>6, <1>7

\* The arguments of Dinit.
LEMMA DinitTakes ==
  /\ "Dinit" \in DOMAIN Signatures /\ Len(Signatures["Dinit"][1]) = 4 /\ Signatures["Dinit"][2] = "VarDecl"
  /\ Takes(At("Dinit", 0), <<"bool">>, At("Dinit", 1))
  /\ Takes(At("Dinit", 1), <<"obj_name">>, At("Dinit", 2))
  /\ Takes(At("Dinit", 2), <<"type">>, At("Dinit", 3))
  /\ Takes(At("Dinit", 3), <<"None">>, At("Dinit", 4))
  /\ Takes(At("Dinit", 3), <<"Some", "Expr">>, At("Dinit", 4))
<1>1. "Dinit" \in DOMAIN Signatures /\ Signatures["Dinit"][2] = "VarDecl"
  BY DEF Signatures
<1>2. Signatures["Dinit"][1] = <<Sort("bool"), Sort("obj_name"), Sort("type"), Option("Expr")>>
  BY DEF Signatures
<1>3. /\ Len(Signatures["Dinit"][1]) = 4
      /\ Signatures["Dinit"][1][1] = Sort("bool")
      /\ Signatures["Dinit"][1][2] = Sort("obj_name")
      /\ Signatures["Dinit"][1][3] = Sort("type")
      /\ Signatures["Dinit"][1][4] = Option("Expr")
  BY <1>2
<1>4. Takes(At("Dinit", 0), <<"bool">>, At("Dinit", 1))
  BY <1>3 DEF Takes, At, Sort
<1>5. Takes(At("Dinit", 1), <<"obj_name">>, At("Dinit", 2))
  BY <1>3 DEF Takes, At, Sort
<1>6. Takes(At("Dinit", 2), <<"type">>, At("Dinit", 3))
  BY <1>3 DEF Takes, At, Sort
<1>7. Takes(At("Dinit", 3), <<"None">>, At("Dinit", 4))
  BY <1>3 DEF Takes, At, Option
<1>8. Takes(At("Dinit", 3), <<"Some", "Expr">>, At("Dinit", 4))
  BY <1>3 DEF Takes, At, Option
<1> QED BY <1>1, <1>3, <1>4, <1>5, <1>6, <1>7, <1>8

\* The arguments of Ddecompose.
LEMMA DdecomposeTakes ==
  /\ "Ddecompose" \in DOMAIN Signatures /\ Len(Signatures["Ddecompose"][1]) = 3 /\ Signatures["Ddecompose"][2] = "VarDecl"
  /\ Takes(At("Ddecompose", 0), <<"Expr">>, At("Ddecompose", 1))
  /\ Takes(At("Ddecompose", 1), <<"ident">>, At("Ddecompose", 2))
  /\ \A r \in ListOf("VarDecl") : Takes(At("Ddecompose", 2), r, At("Ddecompose", 3))
<1>1. "Ddecompose" \in DOMAIN Signatures /\ Signatures["Ddecompose"][2] = "VarDecl"
  BY DEF Signatures
<1>2. Signatures["Ddecompose"][1] = <<Sort("Expr"), Sort("ident"), ListOf("VarDecl")>>
  BY DEF Signatures
<1>3. /\ Len(Signatures["Ddecompose"][1]) = 3
      /\ Signatures["Ddecompose"][1][1] = Sort("Expr")
      /\ Signatures["Ddecompose"][1][2] = Sort("ident")
      /\ Signatures["Ddecompose"][1][3] = ListOf("VarDecl")
  BY <1>2
<1>4. Takes(At("Ddecompose", 0), <<"Expr">>, At("Ddecompose", 1))
  BY <1>3 DEF Takes, At, Sort
<1>5. Takes(At("Ddecompose", 1), <<"ident">>, At("Ddecompose", 2))
  BY <1>3 DEF Takes, At, Sort
<1>6. \A r \in ListOf("VarDecl") : Takes(At("Ddecompose", 2), r, At("Ddecompose", 3))
  BY <1>3 DEF Takes, At
<1> QED BY <1>1, <1>3, <1>4, <1>5, <1>6

\* The calls of handlers.
LEMMA TokenFacts ==
  /\ \A kind \in Kinds : Texts \subseteq Tokens(kind)
  /\ \A kind \in Loops \cup {"IfStmt", "SwitchStmt", "VarDecl", "Leaf"} : Uses \subseteq Tokens(kind)
  /\ \A kind \in Controls \cup Labels \cup {"CompoundStmt", "AttributedStmt", "LabelStmt", "Function"} : <<"stmt">> \in Tokens(kind)
  /\ \A kind \in Controls \ {"CXXForRangeStmt"} : <<"local">> \in Tokens(kind) /\ <<"init">> \in Tokens(kind)
  /\ \A s \in RangeParts : <<s>> \in Tokens("CXXForRangeStmt") /\ <<s, "local">> \in Tokens("DeclStmt")
  /\ <<"local">> \in Tokens("DeclStmt")
BY DEF Tokens, Kinds, Controls, Loops, Labels, Pairs

\* printExpr prints an expression.
LEMMA FitsExpr ==
  ASSUME NEW kind, NEW s \in {"expr", "cond", "inc"}, Uses \subseteq Tokens(kind),
         NEW f \in Abstract, NEW h \in Abstract, Takes(f, <<"Expr">>, h)
  PROVE  Fits(kind, <<<<s>>>>, f, h) /\ Reads(kind, <<s>>, f, h)
<1>1. <<s>> \in Tokens(kind)
  BY DEF Uses
<1>2. Reads(kind, <<s>>, f, h)
  BY DEF Reads, RangeParts
<1> QED BY <1>1, <1>2, FitsOne

\* printStmt prints a statement.
LEMMA FitsStmt ==
  ASSUME NEW kind, <<"stmt">> \in Tokens(kind),
         NEW f \in Abstract, NEW h \in Abstract, Takes(f, <<"Stmt">>, h),
         kind \in {"CompoundStmt"} \cup Labels => f.head = "list"
  PROVE  Fits(kind, Body, f, h)
<1>1. Reads(kind, <<"stmt">>, f, h)
  BY DEF Reads, RangeParts
<1> QED BY <1>1, FitsOne DEF Body

\* Some has one argument.
LEMMA SomeTakes ==
  ASSUME NEW s \in Elements
  PROVE  /\ Takes(Opened("Some", s), <<s>>, [head |-> "Some", sort |-> s, n |-> 1])
         /\ Opened("Some", s) \in Abstract /\ [head |-> "Some", sort |-> s, n |-> 1] \in Abstract
BY DEF Takes, Opened, Abstract, Ctors, Elements

\* An optional expression.
LEMMA FitsOptExpr ==
  ASSUME NEW kind, Texts \cup Uses \subseteq Tokens(kind), NEW f \in Abstract, NEW h \in Abstract, NEW x \in Opt("expr"),
         Takes(f, <<"None">>, h), Takes(f, <<"Some", "Expr">>, h)
  PROVE  Fits(kind, x, f, h)
<1>1. "Expr" \in Elements /\ <<"expr">> \in Tokens(kind)
  BY DEF Elements, Sorts, Words, Uses
<1>2. Reads(kind, <<"expr">>, Opened("Some", "Expr"), [head |-> "Some", sort |-> "Expr", n |-> 1])
  BY <1>1, SomeTakes, FitsExpr
<1> QED BY <1>1, <1>2, FitsOpt

\* An optional statement.
LEMMA FitsOptStmt ==
  ASSUME NEW kind, Texts \subseteq Tokens(kind), NEW f \in Abstract, NEW h \in Abstract, NEW t \in {"init", "rangeinit"},
         <<t>> \in Tokens(kind), kind # "DeclStmt",
         NEW x \in Opt(t), Takes(f, <<"None">>, h), Takes(f, <<"Some", "Stmt">>, h)
  PROVE  Fits(kind, x, f, h)
<1>1. "Stmt" \in Elements
  BY DEF Elements, Sorts, Words
<1>2. Reads(kind, <<t>>, Opened("Some", "Stmt"), [head |-> "Some", sort |-> "Stmt", n |-> 1])
  BY <1>1, SomeTakes DEF Reads, RangeParts
<1> QED BY <1>1, <1>2, FitsOpt

\* An optional condition variable.
LEMMA FitsCondVar ==
  ASSUME NEW kind, Texts \cup {<<"local">>} \subseteq Tokens(kind), kind # "DeclStmt",
         NEW f \in Abstract, NEW h \in Abstract, NEW x \in CondVar,
         Takes(f, <<"None">>, h), Takes(f, <<"Some", "VarDecl">>, h)
  PROVE  Fits(kind, x, f, h)
<1>1. "VarDecl" \in Elements
  BY DEF Elements, Sorts
<1>2. Reads(kind, <<"local">>, Opened("Some", "VarDecl"), [head |-> "Some", sort |-> "VarDecl", n |-> 1])
  BY <1>1, SomeTakes DEF Reads, RangeParts
<1> QED BY <1>1, <1>2, FitsOpt DEF CondVar

\* The statements that a range-for is made of.
LEMMA FitsPart ==
  ASSUME NEW s \in RangeParts, NEW f \in Abstract, NEW h \in Abstract, Takes(f, <<"Stmt">>, h)
  PROVE  Fits("CXXForRangeStmt", <<<<s>>>>, f, h)
<1>1. Reads("CXXForRangeStmt", <<s>>, f, h)
  BY DEF Reads, RangeParts
<1> QED BY <1>1, TokenFacts, FitsOne

\* What is printed for a WhileStmt is one statement.
LEMMA WhileFits ==
  ASSUME NEW c \in WhileStmtCode, NEW f \in Abstract, NEW h \in Abstract, Takes(f, <<"Stmt">>, h)
  PROVE  Fits("WhileStmt", c, f, h)
<1> DEFINE k == "WhileStmt"
           at(i) == At("Swhile", i)
<1>0. k \in Kinds /\ Texts \subseteq Tokens(k) /\ \A i \in Nat : at(i) \in Abstract
  BY TokenFacts, SwhileTakes, AtTypes DEF Kinds, Controls, Loops, Labels
<1>p. PICK v \in CondVar : c = Ctor("Swhile", v \o <<<<"expr">>>> \o Body)
  BY DEF WhileStmtCode
<1>1. Fits(k, v, at(0), at(1))
  BY <1>0, <1>p, TokenFacts, SwhileTakes, FitsCondVar DEF Controls, Loops
<1>2. Fits(k, <<<<"expr">>>>, at(1), at(2))
  BY <1>0, TokenFacts, SwhileTakes, FitsExpr DEF Loops
<1>2a. Fits(k, v \o <<<<"expr">>>>, at(0), at(2))
  BY <1>1, <1>2, FitsConcat
<1>3. Fits(k, Body, at(2), at(3))
  BY <1>0, TokenFacts, SwhileTakes, FitsStmt DEF Controls, Loops, Labels
<1>3a. Fits(k, v \o <<<<"expr">>>> \o Body, at(0), at(3))
  BY <1>2a, <1>3, FitsConcat
<1> QED BY <1>0, <1>p, <1>3a, SwhileTakes, FitsTerm

\* What is printed for a ForStmt is one statement.
LEMMA ForFits ==
  ASSUME NEW c \in ForStmtCode, NEW f \in Abstract, NEW h \in Abstract, Takes(f, <<"Stmt">>, h)
  PROVE  Fits("ForStmt", c, f, h)
<1> DEFINE k == "ForStmt"
           at(i) == At("Sfor", i)
<1>0. k \in Kinds /\ Texts \subseteq Tokens(k) /\ \A i \in Nat : at(i) \in Abstract
  BY TokenFacts, SforTakes, AtTypes DEF Kinds, Controls, Loops, Labels
<1>p. PICK i \in Opt("init"), b \in Opt("expr"), n \in Opt("expr") : c = Ctor("Sfor", i \o b \o n \o Body)
  BY DEF ForStmtCode
<1>1. Fits(k, i, at(0), at(1))
  BY <1>0, <1>p, TokenFacts, SforTakes, FitsOptStmt DEF Controls, Loops
<1>2. Fits(k, b, at(1), at(2))
  BY <1>0, <1>p, TokenFacts, SforTakes, FitsOptExpr DEF Loops
<1>2a. Fits(k, i \o b, at(0), at(2))
  BY <1>1, <1>2, FitsConcat
<1>3. Fits(k, n, at(2), at(3))
  BY <1>0, <1>p, TokenFacts, SforTakes, FitsOptExpr DEF Loops
<1>3a. Fits(k, i \o b \o n, at(0), at(3))
  BY <1>2a, <1>3, FitsConcat
<1>4. Fits(k, Body, at(3), at(4))
  BY <1>0, TokenFacts, SforTakes, FitsStmt DEF Controls, Loops, Labels
<1>4a. Fits(k, i \o b \o n \o Body, at(0), at(4))
  BY <1>3a, <1>4, FitsConcat
<1> QED BY <1>0, <1>p, <1>4a, SforTakes, FitsTerm

\* What is printed for a DoStmt is one statement.
LEMMA DoFits ==
  ASSUME NEW c \in DoStmtCode, NEW f \in Abstract, NEW h \in Abstract, Takes(f, <<"Stmt">>, h)
  PROVE  Fits("DoStmt", c, f, h)
<1> DEFINE k == "DoStmt"
           at(i) == At("Sdo", i)
<1>0. k \in Kinds /\ Texts \subseteq Tokens(k) /\ \A i \in Nat : at(i) \in Abstract
  BY TokenFacts, SdoTakes, AtTypes DEF Kinds, Controls, Loops, Labels
<1>p. c = Ctor("Sdo", Body \o <<<<"expr">>>>)
  BY DEF DoStmtCode
<1>1. Fits(k, Body, at(0), at(1))
  BY <1>0, TokenFacts, SdoTakes, FitsStmt DEF Controls, Loops, Labels
<1>2. Fits(k, <<<<"expr">>>>, at(1), at(2))
  BY <1>0, TokenFacts, SdoTakes, FitsExpr DEF Loops
<1>2a. Fits(k, Body \o <<<<"expr">>>>, at(0), at(2))
  BY <1>1, <1>2, FitsConcat
<1> QED BY <1>0, <1>p, <1>2a, SdoTakes, FitsTerm

\* What is printed for an IfStmt is one statement.
LEMMA IfFits ==
  ASSUME NEW c \in IfStmtCode, NEW f \in Abstract, NEW h \in Abstract, Takes(f, <<"Stmt">>, h)
  PROVE  Fits("IfStmt", c, f, h)
<1> DEFINE k == "IfStmt"
           at(i) == At("Sif", i)
<1>0. k \in Kinds /\ Texts \subseteq Tokens(k) /\ \A i \in Nat : at(i) \in Abstract
  BY TokenFacts, SifTakes, AtTypes DEF Kinds, Controls, Loops, Labels
<1>p. PICK v \in CondVar, e \in {Body, <<W("Stmt")>>} : c = Ctor("Sif", v \o <<<<"expr">>>> \o Body \o e)
  BY DEF IfStmtCode
<1>1. Fits(k, v, at(0), at(1))
  BY <1>0, <1>p, TokenFacts, SifTakes, FitsCondVar DEF Controls, Loops
<1>2. Fits(k, <<<<"expr">>>>, at(1), at(2))
  BY <1>0, TokenFacts, SifTakes, FitsExpr DEF Loops
<1>2a. Fits(k, v \o <<<<"expr">>>>, at(0), at(2))
  BY <1>1, <1>2, FitsConcat
<1>3. Fits(k, Body, at(2), at(3))
  BY <1>0, TokenFacts, SifTakes, FitsStmt DEF Controls, Loops, Labels
<1>3a. Fits(k, v \o <<<<"expr">>>> \o Body, at(0), at(3))
  BY <1>2a, <1>3, FitsConcat
<1>4. Fits(k, e, at(3), at(4))
  <2>1. Fits(k, Body, at(3), at(4))
    BY <1>0, TokenFacts, SifTakes, FitsStmt DEF Controls, Loops, Labels
  <2>2. Fits(k, <<W("Stmt")>>, at(3), at(4))
    BY <1>0, SifTakes, FitsWord DEF Words
  <2> QED BY <1>p, <2>1, <2>2
<1>4a. Fits(k, v \o <<<<"expr">>>> \o Body \o e, at(0), at(4))
  BY <1>3a, <1>4, FitsConcat
<1> QED BY <1>0, <1>p, <1>4a, SifTakes, FitsTerm

\* What is printed for a SwitchStmt is one statement.
LEMMA SwitchFits ==
  ASSUME NEW c \in SwitchStmtCode, NEW f \in Abstract, NEW h \in Abstract, Takes(f, <<"Stmt">>, h)
  PROVE  Fits("SwitchStmt", c, f, h)
<1> DEFINE k == "SwitchStmt"
           at(i) == At("Sswitch", i)
<1>0. k \in Kinds /\ Texts \subseteq Tokens(k) /\ \A i \in Nat : at(i) \in Abstract
  BY TokenFacts, SswitchTakes, AtTypes DEF Kinds, Controls, Loops, Labels
<1>p. PICK v \in CondVar : c = Ctor("Sswitch", v \o <<<<"expr">>>> \o Body)
  BY DEF SwitchStmtCode
<1>1. Fits(k, v, at(0), at(1))
  BY <1>0, <1>p, TokenFacts, SswitchTakes, FitsCondVar DEF Controls, Loops
<1>2. Fits(k, <<<<"expr">>>>, at(1), at(2))
  BY <1>0, TokenFacts, SswitchTakes, FitsExpr DEF Loops
<1>2a. Fits(k, v \o <<<<"expr">>>>, at(0), at(2))
  BY <1>1, <1>2, FitsConcat
<1>3. Fits(k, Body, at(2), at(3))
  BY <1>0, TokenFacts, SswitchTakes, FitsStmt DEF Controls, Loops, Labels
<1>3a. Fits(k, v \o <<<<"expr">>>> \o Body, at(0), at(3))
  BY <1>2a, <1>3, FitsConcat
<1> QED BY <1>0, <1>p, <1>3a, SswitchTakes, FitsTerm

\* What is printed for a CXXForRangeStmt is one statement.
LEMMA RangeFits ==
  ASSUME NEW c \in CXXForRangeStmtCode, NEW f \in Abstract, NEW h \in Abstract, Takes(f, <<"Stmt">>, h)
  PROVE  Fits("CXXForRangeStmt", c, f, h)
<1> DEFINE k == "CXXForRangeStmt"
           at(i) == At("Sforeach", i)
<1>0. k \in Kinds /\ Texts \subseteq Tokens(k) /\ \A i \in Nat : at(i) \in Abstract
  BY TokenFacts, SforeachTakes, AtTypes DEF Kinds, Controls, Loops, Labels
<1>p. PICK i \in Opt("rangeinit") : c = Ctor("Sforeach", <<<<"range">>, <<"begin">>, <<"end">>>> \o i \o Ctor("Some", <<<<"cond">>>>) \o Ctor("Some", <<<<"inc">>>>) \o <<<<"loopvar">>>> \o Body)
  BY DEF CXXForRangeStmtCode
<1>1. Fits(k, <<<<"range">>, <<"begin">>, <<"end">>>>, at(0), at(3))
  <2>1. Fits(k, <<<<"range">>>>, at(0), at(1)) /\ Fits(k, <<<<"begin">>>>, at(1), at(2)) /\ Fits(k, <<<<"end">>>>, at(2), at(3))
    BY <1>0, SforeachTakes, FitsPart DEF RangeParts
  <2> QED BY <2>1, FitsThree
<1>2. Fits(k, i, at(3), at(4))
  BY <1>0, <1>p, TokenFacts, SforeachTakes, FitsOptStmt DEF RangeParts
<1>2a. Fits(k, <<<<"range">>, <<"begin">>, <<"end">>>> \o i, at(0), at(4))
  BY <1>1, <1>2, FitsConcat
<1>3. Fits(k, Ctor("Some", <<<<"cond">>>>), at(4), at(5))
  <2>1. "Expr" \in Elements /\ <<"cond">> \in Tokens(k)
    BY TokenFacts DEF Elements, Sorts, Words, Uses, Loops
  <2>2. Reads(k, <<"cond">>, Opened("Some", "Expr"), [head |-> "Some", sort |-> "Expr", n |-> 1])
    BY <2>1, TokenFacts, SomeTakes, FitsExpr DEF Loops
  <2> QED BY <1>0, <2>1, <2>2, SforeachTakes, FitsSome
<1>3a. Fits(k, <<<<"range">>, <<"begin">>, <<"end">>>> \o i \o Ctor("Some", <<<<"cond">>>>), at(0), at(5))
  BY <1>2a, <1>3, FitsConcat
<1>4. Fits(k, Ctor("Some", <<<<"inc">>>>), at(5), at(6))
  <2>1. "Expr" \in Elements /\ <<"inc">> \in Tokens(k)
    BY TokenFacts DEF Elements, Sorts, Words, Uses, Loops
  <2>2. Reads(k, <<"inc">>, Opened("Some", "Expr"), [head |-> "Some", sort |-> "Expr", n |-> 1])
    BY <2>1, TokenFacts, SomeTakes, FitsExpr DEF Loops
  <2> QED BY <1>0, <2>1, <2>2, SforeachTakes, FitsSome
<1>4a. Fits(k, <<<<"range">>, <<"begin">>, <<"end">>>> \o i \o Ctor("Some", <<<<"cond">>>>) \o Ctor("Some", <<<<"inc">>>>), at(0), at(6))
  BY <1>3a, <1>4, FitsConcat
<1>5. Fits(k, <<<<"loopvar">>>>, at(6), at(7))
  BY <1>0, SforeachTakes, FitsPart DEF RangeParts
<1>5a. Fits(k, <<<<"range">>, <<"begin">>, <<"end">>>> \o i \o Ctor("Some", <<<<"cond">>>>) \o Ctor("Some", <<<<"inc">>>>) \o <<<<"loopvar">>>>, at(0), at(7))
  BY <1>4a, <1>5, FitsConcat
<1>6. Fits(k, Body, at(7), at(8))
  BY <1>0, TokenFacts, SforeachTakes, FitsStmt DEF Controls, Loops, Labels
<1>6a. Fits(k, <<<<"range">>, <<"begin">>, <<"end">>>> \o i \o Ctor("Some", <<<<"cond">>>>) \o Ctor("Some", <<<<"inc">>>>) \o <<<<"loopvar">>>> \o Body, at(0), at(8))
  BY <1>5a, <1>6, FitsConcat
<1> QED BY <1>0, <1>p, <1>6a, SforeachTakes, FitsTerm

\* What is printed for a CompoundStmt is one statement.
LEMMA CompoundFits ==
  ASSUME NEW c \in CompoundStmtCode, NEW f \in Abstract, NEW h \in Abstract, Takes(f, <<"Stmt">>, h)
  PROVE  Fits("CompoundStmt", c, f, h)
<1> DEFINE k == "CompoundStmt"
           at(i) == At("Sseq", i)
<1>0. k \in Kinds /\ Texts \subseteq Tokens(k) /\ \A i \in Nat : at(i) \in Abstract
  BY TokenFacts, SseqTakes, AtTypes DEF Kinds, Controls, Loops, Labels
<1>p. PICK n \in 0 .. MaxItems : c = Ctor("Sseq", List(n, Body))
  BY DEF CompoundStmtCode
<1>1. Fits(k, List(n, Body), at(0), at(1))
  <2>1. "Stmt" \in Elements /\ [head |-> "list", sort |-> "Stmt", n |-> 1] \in Abstract /\ Opened("list", "Stmt") \in Abstract /\ Takes(Opened("list", "Stmt"), <<"Stmt">>, [head |-> "list", sort |-> "Stmt", n |-> 1])
    BY DEF Elements, Sorts, Words, Abstract, Opened, Takes
  <2>2. Fits(k, Body, Opened("list", "Stmt"), [head |-> "list", sort |-> "Stmt", n |-> 1])
    BY <2>1, TokenFacts, FitsStmt DEF Opened
  <2>3. n \in Nat
    BY <1>p, PrintStmtAssumption
  <2> QED BY <1>0, <2>1, <2>2, <2>3, SseqTakes, FitsList
<1> QED BY <1>0, <1>p, <1>1, SseqTakes, FitsTerm

\* What is printed for an AttributedStmt is one statement.
LEMMA AttributedFits ==
  ASSUME NEW c \in AttributedStmtCode, NEW f \in Abstract, NEW h \in Abstract, Takes(f, <<"Stmt">>, h)
  PROVE  Fits("AttributedStmt", c, f, h)
<1> DEFINE k == "AttributedStmt"
           at(i) == At("Sattr", i)
<1>0. k \in Kinds /\ Texts \subseteq Tokens(k) /\ \A i \in Nat : at(i) \in Abstract
  BY TokenFacts, SattrTakes, AtTypes DEF Kinds, Controls, Loops, Labels
<1>p. c = Ctor("Sattr", List(1, <<W("ident")>>) \o Body)
  BY DEF AttributedStmtCode
<1>1. Fits(k, List(1, <<W("ident")>>), at(0), at(1))
  <2>1. "ident" \in Elements /\ [head |-> "list", sort |-> "ident", n |-> 1] \in Abstract /\ Opened("list", "ident") \in Abstract /\ Takes(Opened("list", "ident"), <<"ident">>, [head |-> "list", sort |-> "ident", n |-> 1])
    BY DEF Elements, Sorts, Words, Abstract, Opened, Takes
  <2>2. Fits(k, <<W("ident")>>, Opened("list", "ident"), [head |-> "list", sort |-> "ident", n |-> 1])
    BY <1>0, <2>1, FitsWord DEF Words
  <2> QED BY <1>0, <1>p, <2>1, <2>2, SattrTakes, FitsList
<1>2. Fits(k, Body, at(1), at(2))
  BY <1>0, TokenFacts, SattrTakes, FitsStmt DEF Controls, Loops, Labels
<1>2a. Fits(k, List(1, <<W("ident")>>) \o Body, at(0), at(2))
  BY <1>1, <1>2, FitsConcat
<1> QED BY <1>0, <1>p, <1>2a, SattrTakes, FitsTerm

\* What is printed for a LabelStmt is one statement.
LEMMA LabelFits ==
  ASSUME NEW c \in LabelStmtCode, NEW f \in Abstract, NEW h \in Abstract, Takes(f, <<"Stmt">>, h)
  PROVE  Fits("LabelStmt", c, f, h)
<1> DEFINE k == "LabelStmt"
           at(i) == At("Slabeled", i)
<1>0. k \in Kinds /\ Texts \subseteq Tokens(k) /\ \A i \in Nat : at(i) \in Abstract
  BY TokenFacts, SlabeledTakes, AtTypes DEF Kinds, Controls, Loops, Labels
<1>p. c = Ctor("Slabeled", <<W("ident")>> \o Body)
  BY DEF LabelStmtCode
<1>1. Fits(k, <<W("ident")>>, at(0), at(1))
  BY <1>0, SlabeledTakes, FitsWord DEF Words
<1>2. Fits(k, Body, at(1), at(2))
  BY <1>0, TokenFacts, SlabeledTakes, FitsStmt DEF Controls, Loops, Labels
<1>2a. Fits(k, <<W("ident")>> \o Body, at(0), at(2))
  BY <1>1, <1>2, FitsConcat
<1> QED BY <1>0, <1>p, <1>2a, SlabeledTakes, FitsTerm

\* A statement without arguments is one statement.
LEMMA WordFits ==
  ASSUME NEW c \in WordCode, NEW f \in Abstract, NEW h \in Abstract, Takes(f, <<"Stmt">>, h)
  PROVE  Fits("Leaf", c, f, h)
BY TokenFacts, FitsWord DEF WordCode, Kinds, Words

\* What is printed for an expression is one statement.
LEMMA ExprFits ==
  ASSUME NEW c \in ExprCode, NEW f \in Abstract, NEW h \in Abstract, Takes(f, <<"Stmt">>, h)
  PROVE  Fits("Leaf", c, f, h)
<1> DEFINE k == "Leaf"
           at(i) == At("Sexpr", i)
<1>0. k \in Kinds /\ Texts \subseteq Tokens(k) /\ \A i \in Nat : at(i) \in Abstract
  BY TokenFacts, SexprTakes, AtTypes DEF Kinds, Controls, Loops, Labels
<1>p. c = Ctor("Sexpr", <<<<"expr">>>>)
  BY DEF ExprCode
<1>1. Fits(k, <<<<"expr">>>>, at(0), at(1))
  BY <1>0, TokenFacts, SexprTakes, FitsExpr DEF Loops
<1> QED BY <1>0, <1>p, <1>1, SexprTakes, FitsTerm

\* What is printed for a ReturnStmt is one statement.
LEMMA ReturnFits ==
  ASSUME NEW c \in ReturnStmtCode, NEW f \in Abstract, NEW h \in Abstract, Takes(f, <<"Stmt">>, h)
  PROVE  Fits("Leaf", c, f, h)
<1> DEFINE k == "Leaf"
           at(i) == At("Sreturn_val", i)
<1>0. k \in Kinds /\ Texts \subseteq Tokens(k) /\ \A i \in Nat : at(i) \in Abstract
  BY TokenFacts, Sreturn_valTakes, AtTypes DEF Kinds, Controls, Loops, Labels
<1>p. c = Ctor("Sreturn_val", <<<<"expr">>>>)
  BY DEF ReturnStmtCode
<1>1. Fits(k, <<<<"expr">>>>, at(0), at(1))
  BY <1>0, TokenFacts, Sreturn_valTakes, FitsExpr DEF Loops
<1> QED BY <1>0, <1>p, <1>1, Sreturn_valTakes, FitsTerm

\* What is printed for a GotoStmt is one statement.
LEMMA GotoFits ==
  ASSUME NEW c \in GotoStmtCode, NEW f \in Abstract, NEW h \in Abstract, Takes(f, <<"Stmt">>, h)
  PROVE  Fits("Leaf", c, f, h)
<1> DEFINE k == "Leaf"
           at(i) == At("Sgoto", i)
<1>0. k \in Kinds /\ Texts \subseteq Tokens(k) /\ \A i \in Nat : at(i) \in Abstract
  BY TokenFacts, SgotoTakes, AtTypes DEF Kinds, Controls, Loops, Labels
<1>p. c = Ctor("Sgoto", <<W("ident")>>)
  BY DEF GotoStmtCode
<1>1. Fits(k, <<W("ident")>>, at(0), at(1))
  BY <1>0, SgotoTakes, FitsWord DEF Words
<1> QED BY <1>0, <1>p, <1>1, SgotoTakes, FitsTerm

\* What is printed for a GCCAsmStmt is one statement.
LEMMA AsmFits ==
  ASSUME NEW c \in GCCAsmStmtCode, NEW f \in Abstract, NEW h \in Abstract, Takes(f, <<"Stmt">>, h)
  PROVE  Fits("Leaf", c, f, h)
<1> DEFINE k == "Leaf"
           at(i) == At("Sasm", i)
<1>0. k \in Kinds /\ Texts \subseteq Tokens(k) /\ \A i \in Nat : at(i) \in Abstract
  BY TokenFacts, SasmTakes, AtTypes DEF Kinds, Controls, Loops, Labels
<1>p. c = Ctor("Sasm", <<W("ident"), W("bool")>> \o List(1, <<W("operand")>>) \o List(1, <<W("operand")>>) \o List(1, <<W("ident")>>))
  BY DEF GCCAsmStmtCode
<1>1. Fits(k, <<W("ident"), W("bool")>>, at(0), at(2))
  <2>1. Fits(k, <<W("ident")>>, at(0), at(1)) /\ Fits(k, <<W("bool")>>, at(1), at(2))
    BY <1>0, SasmTakes, FitsWord DEF Words
  <2> QED BY <2>1, FitsTwo
<1>2. Fits(k, List(1, <<W("operand")>>), at(2), at(3))
  <2>1. "operand" \in Elements /\ [head |-> "list", sort |-> "operand", n |-> 1] \in Abstract /\ Opened("list", "operand") \in Abstract /\ Takes(Opened("list", "operand"), <<"operand">>, [head |-> "list", sort |-> "operand", n |-> 1])
    BY DEF Elements, Sorts, Words, Abstract, Opened, Takes
  <2>2. Fits(k, <<W("operand")>>, Opened("list", "operand"), [head |-> "list", sort |-> "operand", n |-> 1])
    BY <1>0, <2>1, FitsWord DEF Words
  <2> QED BY <1>0, <1>p, <2>1, <2>2, SasmTakes, FitsList
<1>2a. Fits(k, <<W("ident"), W("bool")>> \o List(1, <<W("operand")>>), at(0), at(3))
  BY <1>1, <1>2, FitsConcat
<1>3. Fits(k, List(1, <<W("operand")>>), at(3), at(4))
  <2>1. "operand" \in Elements /\ [head |-> "list", sort |-> "operand", n |-> 1] \in Abstract /\ Opened("list", "operand") \in Abstract /\ Takes(Opened("list", "operand"), <<"operand">>, [head |-> "list", sort |-> "operand", n |-> 1])
    BY DEF Elements, Sorts, Words, Abstract, Opened, Takes
  <2>2. Fits(k, <<W("operand")>>, Opened("list", "operand"), [head |-> "list", sort |-> "operand", n |-> 1])
    BY <1>0, <2>1, FitsWord DEF Words
  <2> QED BY <1>0, <1>p, <2>1, <2>2, SasmTakes, FitsList
<1>3a. Fits(k, <<W("ident"), W("bool")>> \o List(1, <<W("operand")>>) \o List(1, <<W("operand")>>), at(0), at(4))
  BY <1>2a, <1>3, FitsConcat
<1>4. Fits(k, List(1, <<W("ident")>>), at(4), at(5))
  <2>1. "ident" \in Elements /\ [head |-> "list", sort |-> "ident", n |-> 1] \in Abstract /\ Opened("list", "ident") \in Abstract /\ Takes(Opened("list", "ident"), <<"ident">>, [head |-> "list", sort |-> "ident", n |-> 1])
    BY DEF Elements, Sorts, Words, Abstract, Opened, Takes
  <2>2. Fits(k, <<W("ident")>>, Opened("list", "ident"), [head |-> "list", sort |-> "ident", n |-> 1])
    BY <1>0, <2>1, FitsWord DEF Words
  <2> QED BY <1>0, <1>p, <2>1, <2>2, SasmTakes, FitsList
<1>4a. Fits(k, <<W("ident"), W("bool")>> \o List(1, <<W("operand")>>) \o List(1, <<W("operand")>>) \o List(1, <<W("ident")>>), at(0), at(5))
  BY <1>3a, <1>4, FitsConcat
<1> QED BY <1>0, <1>p, <1>4a, SasmTakes, FitsTerm

\* What is printed for a CXXTryStmt is one statement.
LEMMA TryFits ==
  ASSUME NEW c \in CXXTryStmtCode, NEW f \in Abstract, NEW h \in Abstract, Takes(f, <<"Stmt">>, h)
  PROVE  Fits("CXXTryStmt", c, f, h)
<1> DEFINE k == "CXXTryStmt"
           at(i) == At("Sunsupported", i)
<1>0. k \in Kinds /\ Texts \subseteq Tokens(k) /\ \A i \in Nat : at(i) \in Abstract
  BY TokenFacts, SunsupportedTakes, AtTypes DEF Kinds, Controls, Loops, Labels
<1>p. c = Ctor("Sunsupported", <<W("ident")>>)
  BY DEF CXXTryStmtCode
<1>1. Fits(k, <<W("ident")>>, at(0), at(1))
  BY <1>0, SunsupportedTakes, FitsWord DEF Words
<1> QED BY <1>0, <1>p, <1>1, SunsupportedTakes, FitsTerm

\* PrintLocalDecl prints one VarDecl for a variable.
LEMMA VarFits ==
  ASSUME NEW c \in VarDeclCode, NEW f \in Abstract, NEW h \in Abstract, Takes(f, <<"VarDecl">>, h)
  PROVE  Fits("VarDecl", c, f, h)
<1> DEFINE k == "VarDecl"
           at(i) == At("Dvar", i)
<1>0. k \in Kinds /\ Texts \subseteq Tokens(k) /\ \A i \in Nat : at(i) \in Abstract
  BY TokenFacts, DvarTakes, AtTypes DEF Kinds, Controls, Loops, Labels
<1>p. PICK i \in Opt("expr") : c = Ctor("Dvar", <<W("ident"), W("type")>> \o i)
  BY DEF VarDeclCode
<1>1. Fits(k, <<W("ident"), W("type")>>, at(0), at(2))
  <2>1. Fits(k, <<W("ident")>>, at(0), at(1)) /\ Fits(k, <<W("type")>>, at(1), at(2))
    BY <1>0, DvarTakes, FitsWord DEF Words
  <2> QED BY <2>1, FitsTwo
<1>2. Fits(k, i, at(2), at(3))
  BY <1>0, <1>p, TokenFacts, DvarTakes, FitsOptExpr DEF Loops
<1>2a. Fits(k, <<W("ident"), W("type")>> \o i, at(0), at(3))
  BY <1>1, <1>2, FitsConcat
<1> QED BY <1>0, <1>p, <1>2a, DvarTakes, FitsTerm

\* And for a static one.
LEMMA StaticFits ==
  ASSUME NEW c \in StaticVarDeclCode, NEW f \in Abstract, NEW h \in Abstract, Takes(f, <<"VarDecl">>, h)
  PROVE  Fits("VarDecl", c, f, h)
<1> DEFINE k == "VarDecl"
           at(i) == At("Dinit", i)
<1>0. k \in Kinds /\ Texts \subseteq Tokens(k) /\ \A i \in Nat : at(i) \in Abstract
  BY TokenFacts, DinitTakes, AtTypes DEF Kinds, Controls, Loops, Labels
<1>p. PICK i \in Opt("expr") : c = Ctor("Dinit", <<W("bool"), W("obj_name"), W("type")>> \o i)
  BY DEF StaticVarDeclCode
<1>1. Fits(k, <<W("bool"), W("obj_name"), W("type")>>, at(0), at(3))
  <2>1. /\ Fits(k, <<W("bool")>>, at(0), at(1)) /\ Fits(k, <<W("obj_name")>>, at(1), at(2))
        /\ Fits(k, <<W("type")>>, at(2), at(3))
    BY <1>0, DinitTakes, FitsWord DEF Words
  <2> QED BY <2>1, FitsThree
<1>2. Fits(k, i, at(3), at(4))
  BY <1>0, <1>p, TokenFacts, DinitTakes, FitsOptExpr DEF Loops
<1>2a. Fits(k, <<W("bool"), W("obj_name"), W("type")>> \o i, at(0), at(4))
  BY <1>1, <1>2, FitsConcat
<1> QED BY <1>0, <1>p, <1>2a, DinitTakes, FitsTerm

\* And for a structured binding.
LEMMA DecompositionFits ==
  ASSUME NEW c \in DecompositionDeclCode, NEW f \in Abstract, NEW h \in Abstract, Takes(f, <<"VarDecl">>, h)
  PROVE  Fits("VarDecl", c, f, h)
<1> DEFINE k == "VarDecl"
           at(i) == At("Ddecompose", i)
<1>0. k \in Kinds /\ Texts \subseteq Tokens(k) /\ \A i \in Nat : at(i) \in Abstract
  BY TokenFacts, DdecomposeTakes, AtTypes DEF Kinds, Controls, Loops, Labels
<1>p. c = Ctor("Ddecompose", <<<<"expr">>, W("ident")>> \o List(1, Ctor("Dvar", <<W("ident"), W("type")>> \o Ctor("Some", <<W("Expr")>>))))
  BY DEF DecompositionDeclCode
<1>1. Fits(k, <<<<"expr">>, W("ident")>>, at(0), at(2))
  <2>1. Fits(k, <<<<"expr">>>>, at(0), at(1)) /\ Fits(k, <<W("ident")>>, at(1), at(2))
    BY <1>0, TokenFacts, DdecomposeTakes, FitsExpr, FitsWord DEF Words
  <2> QED BY <2>1, FitsTwo
<1>2. Fits(k, List(1, Ctor("Dvar", <<W("ident"), W("type")>> \o Ctor("Some", <<W("Expr")>>))), at(2), at(3))
  <2>1. "VarDecl" \in Elements /\ [head |-> "list", sort |-> "VarDecl", n |-> 1] \in Abstract /\ Opened("list", "VarDecl") \in Abstract /\ Takes(Opened("list", "VarDecl"), <<"VarDecl">>, [head |-> "list", sort |-> "VarDecl", n |-> 1])
    BY DEF Elements, Sorts, Words, Abstract, Opened, Takes
  <2>3. \A i \in Nat : At("Dvar", i) \in Abstract
    BY DvarTakes, AtTypes
  <2>4. Fits(k, <<W("ident")>>, At("Dvar", 0), At("Dvar", 1)) /\ Fits(k, <<W("type")>>, At("Dvar", 1), At("Dvar", 2))
    BY <1>0, <2>3, DvarTakes, FitsWord DEF Words
  <2>5. Fits(k, <<W("ident"), W("type")>>, At("Dvar", 0), At("Dvar", 2))
    BY <2>4, FitsTwo
  <2>6. "Expr" \in Elements /\ W("Expr") \in Tokens(k)
    BY <1>0 DEF Elements, Sorts, Words, Texts
  <2>7. Reads(k, W("Expr"), Opened("Some", "Expr"), [head |-> "Some", sort |-> "Expr", n |-> 1])
    BY <2>6, SomeTakes DEF Reads, RangeParts, W
  <2>8. Fits(k, Ctor("Some", <<W("Expr")>>), At("Dvar", 2), At("Dvar", 3))
    BY <1>0, <2>3, <2>6, <2>7, DvarTakes, FitsSome
  <2>9. Fits(k, <<W("ident"), W("type")>> \o Ctor("Some", <<W("Expr")>>), At("Dvar", 0), At("Dvar", 3))
    BY <2>5, <2>8, FitsConcat
  <2>2. Fits(k, Ctor("Dvar", <<W("ident"), W("type")>> \o Ctor("Some", <<W("Expr")>>)), Opened("list", "VarDecl"), [head |-> "list", sort |-> "VarDecl", n |-> 1])
    BY <1>0, <2>1, <2>9, DvarTakes, FitsTerm
  <2> QED BY <1>0, <1>p, <2>1, <2>2, DdecomposeTakes, FitsList
<1>2a. Fits(k, <<<<"expr">>, W("ident")>> \o List(1, Ctor("Dvar", <<W("ident"), W("type")>> \o Ctor("Some", <<W("Expr")>>))), at(0), at(3))
  BY <1>1, <1>2, FitsConcat
<1> QED BY <1>0, <1>p, <1>2a, DdecomposeTakes, FitsTerm

\* The list of the declarations of a DeclStmt.
LEMMA VarListFacts == VarList \in Abstract /\ "VarDecl" \in Elements /\ VarList = Opened("list", "VarDecl")
BY DEF VarList, Opened, Abstract, Elements, Sorts, Words

\* What is printed for a DeclStmt is one statement.
LEMMA DeclFits ==
  ASSUME NEW c \in DeclStmtCode, NEW f \in Abstract, NEW h \in Abstract, Takes(f, <<"Stmt">>, h)
  PROVE  Fits("DeclStmt", c, f, h)
<1> DEFINE k == "DeclStmt"
           at(i) == At("Sdecl", i)
<1>0. k \in Kinds /\ Texts \subseteq Tokens(k) /\ \A i \in Nat : at(i) \in Abstract
  BY TokenFacts, SdeclTakes, AtTypes DEF Kinds
<1>p. PICK n \in 1 .. MaxItems : c = Ctor("Sdecl", <<<<"[">>>> \o Repeat(n, <<<<"local">>>>) \o <<<<"]">>>>)
  BY DEF DeclStmtCode
<1>1. n \in Nat
  BY PrintStmtAssumption
<1>2. Reads(k, <<"local">>, VarList, VarList)
  BY DEF Reads
<1>3. Fits(k, <<<<"local">>>>, VarList, VarList)
  BY <1>2, TokenFacts, VarListFacts, FitsOne
<1>4. Fits(k, Repeat(n, <<<<"local">>>>), VarList, VarList)
  BY <1>1, <1>3, FitsRepeat
<1>5. Fits(k, <<<<"[">>>> \o Repeat(n, <<<<"local">>>>) \o <<<<"]">>>>, at(0), at(1))
  BY <1>0, <1>4, VarListFacts, SdeclTakes, FitsItems
<1> QED BY <1>0, <1>p, <1>5, SdeclTakes, FitsTerm

\* The declaration of a variable of a range-for is one statement.
LEMMA RangeDeclFits ==
  ASSUME NEW s \in RangeParts, NEW f \in Abstract, NEW h \in Abstract, Takes(f, <<"Stmt">>, h)
  PROVE  Fits("DeclStmt", Ctor("Sdecl", <<<<"[">>, <<s, "local">>, <<"]">>>>), f, h)
<1> DEFINE k == "DeclStmt"
           at(i) == At("Sdecl", i)
<1>0. k \in Kinds /\ Texts \subseteq Tokens(k) /\ \A i \in Nat : at(i) \in Abstract
  BY TokenFacts, SdeclTakes, AtTypes DEF Kinds
<1>2. Reads(k, <<s, "local">>, VarList, VarList)
  BY DEF Reads, RangeParts
<1>3. Fits(k, <<<<s, "local">>>>, VarList, VarList)
  BY <1>2, TokenFacts, VarListFacts, FitsOne
<1>5. Fits(k, <<<<"[">>>> \o <<<<s, "local">>>> \o <<<<"]">>>>, at(0), at(1))
  BY <1>0, <1>3, VarListFacts, SdeclTakes, FitsItems
<1>6. <<<<"[">>>> \o <<<<s, "local">>>> \o <<<<"]">>>> = <<<<"[">>, <<s, "local">>, <<"]">>>>
  <2>1. <<<<"[">>>> \o <<<<s, "local">>>> = <<<<"[">>, <<s, "local">>>>
    BY TwoTokens
  <2>2. <<<<"[">>, <<s, "local">>>> \o <<<<"]">>>> = <<<<"[">>, <<s, "local">>, <<"]">>>>
    BY ThreeTokens
  <2> QED BY <2>1, <2>2
<1> QED BY <1>0, <1>5, <1>6, SdeclTakes, FitsTerm

StmtList(n) == [head |-> "list", sort |-> "Stmt", n |-> n]

\* A case fits in the list of a block, between two statements.
LEMMA CaseFits ==
  ASSUME NEW c \in CaseStmtCode
  PROVE  Fits("CaseStmt", c, StmtList(0), StmtList(1))
<1> DEFINE k == "CaseStmt"
<1>0. /\ k \in Kinds /\ Texts \subseteq Tokens(k)
      /\ \A i \in Nat : At("Scase", i) \in Abstract /\ At("Exact", i) \in Abstract /\ At("Range", i) \in Abstract
  BY TokenFacts, ScaseTakes, ExactTakes, RangeTakes, AtTypes DEF Kinds, Labels
<1>1. /\ StmtList(0) \in Abstract /\ StmtList(1) \in Abstract
      /\ Takes(StmtList(0), <<"Stmt">>, StmtList(1)) /\ StmtList(0).head = "list"
      /\ Reads(k, <<"::">>, StmtList(1), StmtList(0)) /\ <<"::">> \in Texts
  BY DEF StmtList, Abstract, Sorts, Words, Takes, Reads, RangeParts, Opened, Texts
<1>p. PICK b \in {Ctor("Range", <<W("Z"), W("Z")>>), Ctor("Exact", <<W("Z")>>)} :
        c = Ctor("Scase", b) \o <<<<"::">>>> \o Body
  BY DEF CaseStmtCode
<1>2. Fits(k, <<W("Z")>>, At("Exact", 0), At("Exact", 1))
  BY <1>0, ExactTakes, FitsWord DEF Words
<1>3. Fits(k, Ctor("Exact", <<W("Z")>>), At("Scase", 0), At("Scase", 1))
  BY <1>0, <1>2, ExactTakes, ScaseTakes, FitsTerm
<1>4. Fits(k, <<W("Z")>>, At("Range", 0), At("Range", 1)) /\ Fits(k, <<W("Z")>>, At("Range", 1), At("Range", 2))
  BY <1>0, RangeTakes, FitsWord DEF Words
<1>5. Fits(k, <<W("Z"), W("Z")>>, At("Range", 0), At("Range", 2))
  BY <1>4, FitsTwo
<1>6. Fits(k, Ctor("Range", <<W("Z"), W("Z")>>), At("Scase", 0), At("Scase", 1))
  BY <1>0, <1>5, RangeTakes, ScaseTakes, FitsTerm
<1>7. Fits(k, b, At("Scase", 0), At("Scase", 1))
  BY <1>3, <1>6
<1>8. Fits(k, Ctor("Scase", b), StmtList(0), StmtList(1))
  BY <1>0, <1>1, <1>7, ScaseTakes, FitsTerm
<1>9. Fits(k, <<<<"::">>>>, StmtList(1), StmtList(0))
  BY <1>0, <1>1, FitsOne
<1>10. Fits(k, Body, StmtList(0), StmtList(1))
  BY <1>1, TokenFacts, FitsStmt DEF Labels
<1>11. Fits(k, Ctor("Scase", b) \o <<<<"::">>>>, StmtList(0), StmtList(0))
  BY <1>8, <1>9, FitsConcat
<1> QED BY <1>p, <1>10, <1>11, FitsConcat

\* So does default.
LEMMA DefaultFits ==
  ASSUME NEW c \in DefaultStmtCode
  PROVE  Fits("DefaultStmt", c, StmtList(0), StmtList(1))
<1> DEFINE k == "DefaultStmt"
<1>0. k \in Kinds /\ Texts \subseteq Tokens(k)
  BY TokenFacts DEF Kinds, Labels
<1>1. /\ StmtList(0) \in Abstract /\ StmtList(1) \in Abstract
      /\ Takes(StmtList(0), <<"Stmt">>, StmtList(1)) /\ StmtList(0).head = "list"
      /\ Reads(k, <<"::">>, StmtList(1), StmtList(0)) /\ <<"::">> \in Texts
  BY DEF StmtList, Abstract, Sorts, Words, Takes, Reads, RangeParts, Opened, Texts
<1>2. Fits(k, <<W("Stmt")>>, StmtList(0), StmtList(1))
  BY <1>0, <1>1, FitsWord DEF Words
<1>3. Fits(k, <<<<"::">>>>, StmtList(1), StmtList(0))
  BY <1>0, <1>1, FitsOne
<1>4. Fits(k, Body, StmtList(0), StmtList(1))
  BY <1>1, TokenFacts, FitsStmt DEF Labels
<1>5. Fits(k, <<W("Stmt"), <<"::">>>>, StmtList(0), StmtList(0))
  BY <1>2, <1>3, FitsTwo
<1>6. Fits(k, <<W("Stmt"), <<"::">>>> \o Body, StmtList(0), StmtList(1))
  BY <1>4, <1>5, FitsConcat
<1> QED BY <1>6 DEF DefaultStmtCode

(***************************************************************************)
(* Induction.                                                              *)
(***************************************************************************)
LEMMA NatLeast ==
  ASSUME NEW T, T \subseteq Nat, T # {}
  PROVE  \E x \in T : \A y \in T : x <= y
<1>1. IsWellFoundedOn(OpToRel(<, Nat), Nat)
  BY NatLessThanWellFounded
<1>2. PICK x \in T : \A y \in T : ~ (<<y, x>> \in OpToRel(<, Nat))
  BY <1>1, WFMin
<1>3. \A y \in T : ~(y < x)
  BY <1>2 DEF OpToRel
<1> QED BY <1>3

\* A non-empty bounded set has a greatest element.
LEMMA Greatest ==
  ASSUME NEW n \in Nat, NEW T, T \subseteq 0 .. n, T # {}
  PROVE  \E x \in T : \A y \in T : y <= x
<1> DEFINE U == {n - i : i \in T}
<1>1. U \subseteq Nat /\ U # {}
  <2>1. \A i \in T : n - i \in Nat
    OBVIOUS
  <2> QED BY <2>1
<1>2. PICK u \in U : \A v \in U : u <= v
  BY <1>1, NatLeast
<1>3. PICK x \in T : u = n - x
  OBVIOUS
<1>4. ASSUME NEW y \in T PROVE y <= x
  <2>1. n - y \in U
    OBVIOUS
  <2> QED BY <1>2, <1>3, <2>1
<1> QED BY <1>4

\* Induction, for a set: its complement would have a least element.
LEMMA SetInduction ==
  ASSUME NEW S, 0 \in S, \A n \in Nat : n \in S => n + 1 \in S
  PROVE  Nat \subseteq S
<1> SUFFICES ASSUME Nat \ S # {} PROVE FALSE
  OBVIOUS
<1>1. PICK x \in Nat \ S : \A y \in Nat \ S : x <= y
  BY NatLeast
<1>2. x # 0 /\ x - 1 \in Nat
  BY <1>1
<1>3. x - 1 \in S
  BY <1>1, <1>2
<1> QED BY <1>1, <1>2, <1>3

\* What WriteAll keeps: G[i] is what is known of the output after i tokens.
LEMMA WriteAllInduction ==
  ASSUME NEW T, NEW ts \in Seq(T), NEW o, NEW G, o \in G[0],
         \A i \in 1 .. Len(ts) : \A x \in G[i - 1] : Write(x, ts[i]) \in G[i]
  PROVE  WriteAll(o, ts) \in G[Len(ts)]
<1> DEFINE n == Len(ts)
           U == UNION {G[i] : i \in 0 .. n}
           Upto(m) == {f \in [0 .. m -> U] : /\ f[0] = o
                                             /\ \A i \in 1 .. m : f[i] = Write(f[i - 1], ts[i])
                                             /\ \A i \in 0 .. m : f[i] \in G[i]}
           S == {m \in Nat : m <= n => Upto(m) # {}}
<1>n. n \in Nat
  OBVIOUS
<1> HIDE DEF n
<1>1. 0 \in S
  <2> DEFINE f == [i \in 0 .. 0 |-> o]
  <2>1. o \in U
    BY <1>n
  <2>2. f \in Upto(0)
    BY <2>1
  <2> QED BY <2>2
<1>2. ASSUME NEW m \in Nat, m \in S PROVE m + 1 \in S
  <2> SUFFICES ASSUME m + 1 <= n PROVE Upto(m + 1) # {}
    <3> HIDE DEF Upto
    <3> QED OBVIOUS
  <2>0. Upto(m) # {}
    <3> HIDE DEF Upto
    <3> QED BY <1>n, <1>2
  <2>1. PICK f \in Upto(m) : TRUE
    BY <2>0
  <2>2. f \in [0 .. m -> U] /\ f[m] \in G[m]
    BY <2>1
  <2> DEFINE w == Write(f[m], ts[m + 1])
             g == [i \in 0 .. m + 1 |-> IF i <= m THEN f[i] ELSE w]
  <2>3. w \in G[m + 1]
    <3>1. m + 1 \in 1 .. Len(ts) /\ (m + 1) - 1 = m
      BY DEF n
    <3> QED BY <2>2, <3>1
  <2>4. w \in U
    BY <1>n, <2>3
  <2>w. w = Write(f[m], ts[m + 1])
    OBVIOUS
  <2> HIDE DEF w
  <2>5. g \in [0 .. m + 1 -> U]
    BY <2>2, <2>4
  <2>6. g[0] = o
    BY <2>1
  <2>7. \A i \in 0 .. m : g[i] = f[i]
    OBVIOUS
  <2>8. g[m + 1] = w
    OBVIOUS
  <2> HIDE DEF g
  <2>9. ASSUME NEW i \in 1 .. m + 1 PROVE g[i] = Write(g[i - 1], ts[i])
    <3>1. CASE i = m + 1
      <4>1. g[i - 1] = f[m]
        BY <2>7, <3>1
      <4> QED BY <2>8, <2>w, <3>1, <4>1
    <3>2. CASE i # m + 1
      <4>1. i \in 1 .. m /\ i - 1 \in 0 .. m
        BY <3>2
      <4>2. f[i] = Write(f[i - 1], ts[i])
        BY <2>1, <4>1
      <4> QED BY <2>7, <4>1, <4>2
    <3> QED BY <3>1, <3>2
  <2>10. ASSUME NEW i \in 0 .. m + 1 PROVE g[i] \in G[i]
    <3>1. CASE i = m + 1
      BY <2>3, <2>8, <3>1
    <3>2. CASE i # m + 1
      <4>1. i \in 0 .. m
        BY <3>2
      <4> QED BY <2>1, <2>7, <4>1
    <3> QED BY <3>1, <3>2
  <2>11. g \in Upto(m + 1)
    BY <2>5, <2>6, <2>9, <2>10
  <2> QED BY <2>11
<1>3. n \in S
  <2> HIDE DEF S
  <2> QED BY <1>1, <1>2, <1>n, SetInduction
<1>f. Upto(n) # {}
  <2> HIDE DEF Upto
  <2> QED BY <1>3, <1>n
<1>4. PICK f \in Upto(n) : TRUE
  BY <1>f
<1> DEFINE R(h) == [i \in 0 .. n |-> IF i = 0 THEN o ELSE Write(h[i - 1], ts[i])]
<1>5. f = R(f)
  <2>1. f \in [0 .. n -> U]
    BY <1>4
  <2>2. ASSUME NEW i \in 0 .. n PROVE f[i] = IF i = 0 THEN o ELSE Write(f[i - 1], ts[i])
    <3>1. CASE i = 0
      BY <1>4, <3>1
    <3>2. CASE i # 0
      <4>1. i \in 1 .. n
        BY <1>n, <3>2
      <4> QED BY <1>4, <3>2, <4>1
    <3> QED BY <3>1, <3>2
  <2> QED BY <2>1, <2>2
<1> DEFINE w == CHOOSE h : h = R(h)
<1>6. w = R(w)
  BY <1>5
<1>w. \A i \in 0 .. n : w[i] = IF i = 0 THEN o ELSE Write(w[i - 1], ts[i])
  <2> HIDE DEF w
  <2> QED BY <1>6
<1>7. WriteAll(o, ts) = w[n]
  BY DEF WriteAll, n
<1> HIDE DEF w
<1> DEFINE V == {m \in Nat : m <= n => w[m] \in G[m]}
<1>8. 0 \in V
  BY <1>n, <1>w
<1>9. ASSUME NEW m \in Nat, m \in V PROVE m + 1 \in V
  <2> SUFFICES ASSUME m + 1 <= n PROVE w[m + 1] \in G[m + 1]
    OBVIOUS
  <2>1. m + 1 \in 1 .. Len(ts) /\ (m + 1) - 1 = m /\ m + 1 # 0 /\ m + 1 \in 0 .. n
    BY <1>n DEF n
  <2>2. w[m] \in G[m]
    BY <1>9, <1>n
  <2>3. w[m + 1] = Write(w[m], ts[m + 1])
    BY <1>w, <2>1
  <2> QED BY <2>1, <2>2, <2>3
<1>10. n \in V
  <2> HIDE DEF V
  <2> QED BY <1>8, <1>9, <1>n, SetInduction
<1> QED BY <1>7, <1>10, <1>n DEF n

(***************************************************************************)
(* What is written.                                                        *)
(***************************************************************************)
LEMMA SeqFirst ==
  ASSUME NEW S, NEW s \in Seq(S)
  PROVE  Len(s) \in Nat /\ (Len(s) # 0 => s[1] \in S)
OBVIOUS

\* The sorts of the constructors.
LEMMA SignatureSorts == \A c \in DOMAIN Signatures : Signatures[c][2] \in Sorts
<1>1. ASSUME NEW c \in DOMAIN Signatures PROVE Signatures[c][2] \in {"Stmt", "SwitchBranch", "VarDecl", "body"}
  BY DEF Signatures
<1> QED BY <1>1 DEF Sorts, Words

\* What an argument is read as is a sort.
LEMMA ArgumentType ==
  ASSUME NEW g \in Group, NEW s \in Seq(Sorts)
  PROVE  Argument(g, s) \in Seq(Sorts)
<1>1. <<"fits">> \in Seq(Sorts) /\ Ill \in Seq(Sorts)
  BY DEF Sorts, Ill
<1> QED BY <1>1 DEF Argument

\* What a parenthesis is read as is a sort.
LEMMA ReadingType ==
  ASSUME NEW g \in Group
  PROVE  Reading(g) \in Seq(Sorts)
<1>1. g.args \in Seq(Seq(Sorts)) /\ g.head \in Ctors \cup {"list"}
  BY DEF Group
<1>2. Ill \in Seq(Sorts) /\ <<"list">> \in Seq(Sorts) /\ <<"Some">> \in Seq(Sorts)
  BY DEF Sorts, Ill
<1>3. CASE g.head = "list"
  <2>0. PICK as \in Seq(Seq(Sorts)) : as = g.args
    BY <1>1
  <2>a. Len(as) \in Nat /\ (Len(as) # 0 => as[1] \in Seq(Sorts))
    BY SeqFirst
  <2>1. PICK n \in Nat : n = Len(as)
    BY <2>a
  <2>2. n % 2 = 1 => n # 0
    <3>1. 0 % 2 = 0
      BY ModSmall
    <3> QED BY <3>1
  <2>3. n % 2 = 1 => <<"list">> \o as[1] \in Seq(Sorts)
    <3>1. n # 0 => as[1] \in Seq(Sorts)
      BY <2>1, <2>a
    <3>2. \A y \in Seq(Sorts) : <<"list">> \o y \in Seq(Sorts)
      BY <1>2
    <3> QED BY <2>2, <3>1, <3>2
  <2>4. ListSort(as) \in Seq(Sorts)
    BY <1>2, <2>1, <2>3 DEF ListSort
  <2> QED BY <1>3, <2>0, <2>4 DEF Reading
<1>4. CASE g.head = "Some"
  BY <1>1, <1>2, <1>4 DEF Reading
<1>5. CASE g.head \in DOMAIN Signatures
  <2>0. g.head \notin {"list", "Some"}
    BY <1>5 DEF Signatures
  <2>1. Signatures[g.head][2] \in Sorts
    BY <1>5, SignatureSorts
  <2>2. CtorSort(g.head, g.args) \in Seq(Sorts)
    BY <1>2, <2>1 DEF CtorSort
  <2> QED BY <2>0, <2>2 DEF Reading
<1> QED BY <1>1, <1>3, <1>4, <1>5 DEF Ctors

\* What word does.
LEMMA WordType ==
  ASSUME NEW o \in Seq(Group), NEW n \in Nat, n > 0, Len(o) = n, NEW s \in Seq(Sorts)
  PROVE  /\ word(o, s) \in Seq(Group) /\ Len(word(o, s)) = n
         /\ \A i \in 1 .. n - 1 : word(o, s)[i] = o[i]
         /\ word(o, s)[n] = [head |-> o[n].head, args |-> Append(o[n].args, Argument(o[n], s))]
<1>1. n = Len(o) /\ n > 0
  OBVIOUS
<1>2. o[n] \in Group
  BY <1>1
<1>3. PICK a : a = Argument(o[n], s)
  OBVIOUS
<1>4. a \in Seq(Sorts)
  BY <1>2, <1>3, ArgumentType
<1>5. PICK e : e = [o[n] EXCEPT !.args = Append(@, a)]
  OBVIOUS
<1>6. e = [head |-> o[n].head, args |-> Append(o[n].args, a)]
  BY <1>2, <1>5 DEF Group
<1>7. e \in Group
  BY <1>2, <1>4, <1>6 DEF Group
<1>8. word(o, s) = [o EXCEPT ![n] = e]
  BY <1>1, <1>3, <1>5 DEF word
<1>9. [o EXCEPT ![n] = e] \in Seq(Group) /\ Len([o EXCEPT ![n] = e]) = n /\ [o EXCEPT ![n] = e][n] = e
      /\ \A i \in 1 .. n - 1 : [o EXCEPT ![n] = e][i] = o[i]
  BY <1>1, <1>7
<1> QED BY <1>1, <1>3, <1>6, <1>8, <1>9

\* What rparen does.
LEMMA RparenType ==
  ASSUME NEW o \in Seq(Group), NEW n \in Nat, n > 0, Len(o) = n + 1
  PROVE  /\ rparen(o) \in Seq(Group) /\ Len(rparen(o)) = n
         /\ \A i \in 1 .. n - 1 : rparen(o)[i] = o[i]
         /\ rparen(o)[n] = [head |-> o[n].head, args |-> Append(o[n].args, Argument(o[n], Reading(o[n + 1])))]
<1>1. n = Len(o) - 1
  OBVIOUS
<1>2. PICK x : x = SubSeq(o, 1, n)
  OBVIOUS
<1>3. x \in Seq(Group) /\ Len(x) = n /\ \A i \in 1 .. n : x[i] = o[i]
  BY <1>1, <1>2
<1>4. o[n + 1] \in Group
  BY <1>1
<1>5. PICK r : r = Reading(o[n + 1])
  OBVIOUS
<1>6. r \in Seq(Sorts)
  BY <1>4, <1>5, ReadingType
<1>7. rparen(o) = word(x, r)
  BY <1>1, <1>2, <1>5 DEF rparen
<1>8. x[n] = o[n]
  BY <1>1, <1>3
<1>9. /\ word(x, r) \in Seq(Group) /\ Len(word(x, r)) = n
      /\ \A i \in 1 .. n - 1 : word(x, r)[i] = x[i]
      /\ word(x, r)[n] = [head |-> x[n].head, args |-> Append(x[n].args, Argument(x[n], r))]
  BY <1>1, <1>3, <1>6, WordType
<1>10. \A i \in 1 .. n - 1 : word(x, r)[i] = o[i]
  <2> SUFFICES ASSUME NEW i \in 1 .. n - 1 PROVE word(x, r)[i] = o[i]
    OBVIOUS
  <2>1. i \in 1 .. n
    OBVIOUS
  <2> QED BY <1>3, <1>9, <2>1
<1>11. rparen(o)[n] = [head |-> o[n].head, args |-> Append(o[n].args, Argument(o[n], Reading(o[n + 1])))]
  BY <1>5, <1>7, <1>8, <1>9
<1> QED BY <1>7, <1>9, <1>10, <1>11

\* What lparen does.
LEMMA LparenType ==
  ASSUME NEW o \in Seq(Group), NEW h \in Ctors \cup {"list"}
  PROVE  /\ lparen(o, h) \in Seq(Group) /\ Len(lparen(o, h)) = Len(o) + 1
         /\ \A i \in 1 .. Len(o) : lparen(o, h)[i] = o[i]
         /\ lparen(o, h)[Len(o) + 1] = [head |-> h, args |-> <<>>]
<1>1. PICK e : e = [head |-> h, args |-> <<>>]
  OBVIOUS
<1>2. e \in Group
  BY <1>1 DEF Group
<1>3. lparen(o, h) = Append(o, e)
  BY <1>1 DEF lparen
<1> QED BY <1>1, <1>2, <1>3

\* The sorts of the words.
LEMMA SortSeqs ==
  /\ <<"nil">> \in Seq(Sorts) /\ <<"::">> \in Seq(Sorts) /\ <<"Expr">> \in Seq(Sorts)
  /\ \A s \in Words : <<s>> \in Seq(Sorts)
BY DEF Sorts, Words

\* The depth is that of the parentheses.
LEMMA WriteType ==
  ASSUME NEW o \in Seq(Group), NEW t \in Texts, Len(o) > 0, Len(o) + Delta(t) > 0
  PROVE  Write(o, t) \in Seq(Group) /\ Len(Write(o, t)) = Len(o) + Delta(t)
<1>0. Len(o) \in Nat /\ Len(o) > 0
  OBVIOUS
<1>1. CASE \E c \in Ctors : t = <<"(", c>>
  <2>1. PICK c \in Ctors : t = <<"(", c>>
    BY <1>1
  <2>2. Write(o, t) = lparen(o, c) /\ Delta(t) = 1
    BY <2>1 DEF Write, ctor, Delta
  <2> QED BY <2>2, LparenType
<1>2. CASE t = <<")">>
  <2>1. Write(o, t) = rparen(o) /\ Delta(t) = -1
    BY <1>2 DEF Write, end_ctor, Delta
  <2>2. Len(o) - 1 \in Nat /\ Len(o) - 1 > 0 /\ Len(o) = (Len(o) - 1) + 1
    BY <2>1
  <2>3. rparen(o) \in Seq(Group) /\ Len(rparen(o)) = Len(o) - 1
    BY <2>2, RparenType
  <2> QED BY <2>1, <2>3
<1>3. CASE t = <<"[">>
  <2>1. Write(o, t) = lparen(o, "list") /\ Delta(t) = 1
    BY <1>3 DEF Write, begin_list, Delta
  <2> QED BY <2>1, LparenType
<1>4. CASE t = <<"]">>
  <2>1. Write(o, t) = rparen(word(o, <<"nil">>)) /\ Delta(t) = -1
    BY <1>4 DEF Write, end_list, Delta
  <2>2. word(o, <<"nil">>) \in Seq(Group) /\ Len(word(o, <<"nil">>)) = Len(o)
    BY <1>0, SortSeqs, WordType
  <2>3. Len(o) - 1 \in Nat /\ Len(o) - 1 > 0 /\ Len(o) = (Len(o) - 1) + 1
    BY <2>1
  <2>4. PICK x : x = word(o, <<"nil">>)
    OBVIOUS
  <2>5. rparen(x) \in Seq(Group) /\ Len(rparen(x)) = Len(o) - 1
    BY <2>2, <2>3, <2>4, RparenType
  <2> QED BY <2>1, <2>4, <2>5
<1>5. CASE t = <<"::">>
  <2>1. Write(o, t) = word(o, <<"::">>) /\ Delta(t) = 0
    BY <1>5 DEF Write, cons, Delta
  <2>2. word(o, <<"::">>) \in Seq(Group) /\ Len(word(o, <<"::">>)) = Len(o)
    BY <1>0, SortSeqs, WordType
  <2> QED BY <2>1, <2>2
<1>6. CASE \E s \in Words : t = W(s)
  <2>1. PICK s \in Words : t = W(s)
    BY <1>6
  <2>2. Write(o, t) = word(o, <<s>>) /\ Delta(t) = 0
    BY <2>1 DEF Write, W, Delta
  <2>3. word(o, <<s>>) \in Seq(Group) /\ Len(word(o, <<s>>)) = Len(o)
    BY <1>0, SortSeqs, WordType
  <2> QED BY <2>2, <2>3
<1> QED BY <1>1, <1>2, <1>3, <1>4, <1>5, <1>6 DEF Texts

All == Texts \cup Uses \cup Calls

\* All the tokens.
LEMMA TokensAll == \A kind \in Kinds : Tokens(kind) \subseteq All
BY DEF Tokens, All, Calls

\* A token is known by its first word.
LEMMA TokenWords ==
  ASSUME NEW t \in All
  PROVE  /\ IsText(t) <=> t \in Texts
         /\ t[1] \in {"expr", "cond", "inc"} <=> t \in Uses
         /\ t[1] = "stmt" => t = <<"stmt">>
         /\ t[1] = "init" => t = <<"init">>
         /\ t[1] = "local" => t = <<"local">>
         /\ t[1] \in RangeParts => t = <<t[1]>> \/ t = <<t[1], "local">>
         /\ t \in Calls => t[1] \in {"stmt", "init", "local"} \cup RangeParts
<1>1. ASSUME t \in Texts PROVE t[1] \in {"(", ")", "[", "]", "::", "w"}
  BY <1>1 DEF Texts, W
<1>2. ASSUME t \in Uses PROVE t[1] \in {"expr", "cond", "inc"}
  BY <1>2 DEF Uses
<1>3. ASSUME t \in Calls
      PROVE  \/ t[1] \in {"stmt", "init", "local"} /\ t = <<t[1]>>
             \/ t[1] \in RangeParts /\ (t = <<t[1]>> \/ t = <<t[1], "local">>)
  <2>1. CASE \E s \in {"stmt", "init", "local"} \cup RangeParts : t = <<s>>
    BY <2>1
  <2>2. CASE \E s \in RangeParts : t = <<s, "local">>
    BY <2>2
  <2> QED BY <1>3, <2>1, <2>2 DEF Calls, Pairs
<1> QED BY <1>1, <1>2, <1>3 DEF All, IsText, RangeParts

\* The first m tokens, and the others.
Splits(c, m, S, R, a, b) ==
  \E p \in [1 .. m + 1 -> S] :
    /\ p[1] = a /\ \A i \in 1 .. m : <<p[i], c[i], p[i + 1]>> \in R
    /\ Path(SubSeq(c, m + 1, Len(c)), S, R, p[m + 1], b)

\* A path can be split anywhere.
LEMMA PathSplit ==
  ASSUME NEW T, NEW S, NEW R, NEW c \in Seq(T), NEW a, NEW b, Path(c, S, R, a, b), NEW m \in 0 .. Len(c)
  PROVE  Splits(c, m, S, R, a, b)
<1>1. PICK p \in [1 .. Len(c) + 1 -> S] :
        /\ p[1] = a /\ p[Len(c) + 1] = b
        /\ \A i \in 1 .. Len(c) : <<p[i], c[i], p[i + 1]>> \in R
  BY DEF Path
<1>2. PICK n \in Nat : n = Len(c)
  OBVIOUS
<1>3. PICK d : d = SubSeq(c, m + 1, n)
  OBVIOUS
<1>4. Len(d) = n - m /\ \A i \in 1 .. n - m : d[i] = c[m + i]
  BY <1>2, <1>3
<1> DEFINE q == [i \in 1 .. (n - m) + 1 |-> p[m + i]]
           r == [i \in 1 .. m + 1 |-> p[i]]
<1>5. q \in [1 .. (n - m) + 1 -> S] /\ q[1] = p[m + 1] /\ q[(n - m) + 1] = b
  BY <1>1, <1>2
<1>6. ASSUME NEW i \in 1 .. n - m PROVE <<q[i], d[i], q[i + 1]>> \in R
  <2>0. m + i \in 1 .. n /\ i + 1 \in 1 .. (n - m) + 1 /\ i \in 1 .. (n - m) + 1 /\ m + (i + 1) = (m + i) + 1
    BY <1>2
  <2>1. q[i] = p[m + i] /\ q[i + 1] = p[(m + i) + 1] /\ d[i] = c[m + i]
    BY <1>4, <2>0
  <2> QED BY <1>1, <1>2, <2>0, <2>1
<1> HIDE DEF q
<1>7. Path(d, S, R, p[m + 1], b)
  BY <1>4, <1>5, <1>6 DEF Path
<1>8. r \in [1 .. m + 1 -> S] /\ r[1] = a /\ r[m + 1] = p[m + 1] /\ \A i \in 1 .. m : r[i] = p[i] /\ r[i + 1] = p[i + 1]
  BY <1>1, <1>2
<1> HIDE DEF r
<1>9. \A i \in 1 .. m : <<r[i], c[i], r[i + 1]>> \in R
  BY <1>1, <1>2, <1>8
<1>10. Path(d, S, R, r[m + 1], b)
  BY <1>7, <1>8
<1>11. d = SubSeq(c, m + 1, Len(c))
  BY <1>2, <1>3
<1>12. r[1] = a
  BY <1>8
<1> QED BY <1>8, <1>9, <1>10, <1>11, <1>12 DEF Splits

\* Text is a beginning of the code of the handler at the top.
LEMMA TextIs ==
  ASSUME NEW S, Top.code \in Seq(S)
  PROVE  \E m \in 0 .. Len(Top.code) :
           /\ Text = SubSeq(Top.code, 1, m) /\ Len(Text) = m
           /\ \A k \in 1 .. m : Text[k] = Top.code[k] /\ IsText(Top.code[k])
<1>1. PICK c \in Seq(S) : c = Top.code
  OBVIOUS
<1>2. PICK n \in Nat : n = Len(c)
  OBVIOUS
<1> DEFINE T == {i \in 0 .. n : \A k \in 1 .. i : IsText(c[k])}
<1>3. 0 \in T
  BY <1>2
<1>4. PICK x \in T : \A y \in T : y <= x
  BY <1>2, <1>3, Greatest
<1> DEFINE Last(i) == (\A k \in 1 .. i : IsText(c[k])) /\ (i < n => ~IsText(c[i + 1]))
<1>5. Last(x)
  <2>1. ASSUME x < n, IsText(c[x + 1]) PROVE FALSE
    <3>1. x + 1 \in 0 .. n /\ \A k \in 1 .. x + 1 : k = x + 1 \/ k \in 1 .. x
      BY <2>1
    <3>2. x + 1 \in T
      BY <1>4, <2>1, <3>1
    <3> QED BY <1>4, <3>2
  <2> QED BY <1>4, <2>1
<1>6. \E i \in 0 .. n : Last(i)
  BY <1>4, <1>5
<1>7. PICK m : m = CHOOSE i \in 0 .. n : Last(i)
  OBVIOUS
<1>8. m \in 0 .. n /\ Last(m)
  BY <1>6, <1>7
<1>9. Text = SubSeq(c, 1, m)
  BY <1>1, <1>2, <1>7 DEF Text
<1>10. Len(SubSeq(c, 1, m)) = m /\ \A k \in 1 .. m : SubSeq(c, 1, m)[k] = c[k]
  BY <1>2, <1>8
<1> HIDE DEF Last
<1>11. \A k \in 1 .. m : IsText(c[k])
  BY <1>8 DEF Last
<1> QED BY <1>1, <1>2, <1>8, <1>9, <1>10, <1>11

\* Writing a text moves the depth by its parentheses: by induction on its length.
LEMMA TextDepth ==
  ASSUME NEW o \in Seq(Group), NEW n \in Nat, NEW ts \in Seq(Texts), Len(ts) = n,
         NEW p \in [1 .. n + 1 -> Depths], p[1] = Len(o),
         \A i \in 1 .. n : p[i + 1] = p[i] + Delta(ts[i])
  PROVE  WriteAll(o, ts) \in Seq(Group) /\ Len(WriteAll(o, ts)) = p[n + 1]
<1> DEFINE G == [i \in 0 .. n |-> {x \in Seq(Group) : Len(x) = p[i + 1]}]
<1>1. o \in G[0]
  OBVIOUS
<1>2. ASSUME NEW i \in 1 .. n, NEW x \in G[i - 1] PROVE Write(x, ts[i]) \in G[i]
  <2>1. x \in Seq(Group) /\ Len(x) = p[i] /\ p[i] \in Depths /\ p[i + 1] \in Depths /\ ts[i] \in Texts
    OBVIOUS
  <2>2. p[i] > 0 /\ p[i + 1] > 0 /\ p[i + 1] = p[i] + Delta(ts[i])
    BY <2>1 DEF Depths
  <2>3. Write(x, ts[i]) \in Seq(Group) /\ Len(Write(x, ts[i])) = p[i] + Delta(ts[i])
    BY <2>1, <2>2, WriteType
  <2> QED BY <2>2, <2>3
<1>3. G[n] = {x \in Seq(Group) : Len(x) = p[n + 1]}
  OBVIOUS
<1> HIDE DEF G
<1>4. WriteAll(o, ts) \in G[Len(ts)]
  BY <1>1, <1>2, WriteAllInduction
<1> QED BY <1>3, <1>4

\* A token moves the number of open terms and the depth alike.
LEMMA StepDelta ==
  ASSUME NEW kind \in Kinds, NEW a, NEW t, NEW b, <<a, t, b>> \in TermStep(kind)
  PROVE  Len(a) \in Depths /\ Len(b) \in Depths /\ Len(b) = Len(a) + Delta(t) /\ t \in All
<1>1. a \in Terms /\ b \in Terms /\ t \in Tokens(kind) /\ TermStepOK(kind, a, t, b)
  BY DEF TermStep
<1>2. t \in All
  BY <1>1, TokensAll
<1>3. CASE t[1] = "(" /\ Len(a) > 0 /\ \E s \in Elements : b = Append(a, Opened(t[2], s))
  <2>1. PICK x : b = Append(a, x)
    BY <1>3
  <2>2. Len(b) = Len(a) + 1 /\ Len(a) \in Nat
    BY <1>1, <2>1 DEF Terms
  <2>3. Delta(t) = 1
    BY <1>3 DEF Delta
  <2> QED BY <1>2, <1>3, <2>2, <2>3 DEF Depths
<1>4. CASE t[1] = "[" /\ Len(a) > 0 /\ \E s \in Elements : b = Append(a, Opened("list", s))
  <2>1. PICK x : b = Append(a, x)
    BY <1>4
  <2>2. Len(b) = Len(a) + 1 /\ Len(a) \in Nat
    BY <1>1, <2>1 DEF Terms
  <2>3. Delta(t) = 1
    BY <1>4 DEF Delta
  <2> QED BY <1>2, <1>4, <2>2, <2>3 DEF Depths
<1>5. CASE \E q \in Terms, f, g, h \in Abstract :
            /\ t[1] = IF g.head = "list" THEN "]" ELSE ")"
            /\ a = Append(Append(q, f), g) /\ b = Append(q, h)
            /\ Full(g) /\ \A s \in Result(g) : Takes(f, s, h)
  <2>1. PICK q \in Terms, f \in Abstract, g \in Abstract, h \in Abstract :
          t[1] \in {"]", ")"} /\ a = Append(Append(q, f), g) /\ b = Append(q, h)
    BY <1>5
  <2>2. Delta(t) = -1
    BY <2>1 DEF Delta
  <2>3. Len(a) = Len(q) + 2 /\ Len(b) = Len(q) + 1 /\ Len(q) \in Nat
    BY <2>1 DEF Terms
  <2> QED BY <1>2, <2>2, <2>3 DEF Depths
<1>6. CASE \E q \in Terms, g, h \in Abstract : a = Append(q, g) /\ b = Append(q, h) /\ Reads(kind, t, g, h)
  <2>1. PICK q \in Terms, g \in Abstract, h \in Abstract : a = Append(q, g) /\ b = Append(q, h) /\ Reads(kind, t, g, h)
    BY <1>6
  <2>2. Delta(t) = 0
    BY <2>1 DEF Delta, Reads
  <2>3. Len(a) = Len(q) + 1 /\ Len(b) = Len(q) + 1 /\ Len(q) \in Nat
    BY <2>1 DEF Terms
  <2> QED BY <1>2, <2>2, <2>3 DEF Depths
<1> QED BY <1>1, <1>3, <1>4, <1>5, <1>6 DEF TermStepOK

\* The code brings the formatter back to its depth.
Neutral(code) == \A n \in Depths : DepthPath(code, n, n)

\* What is one argument restores the depth.
LEMMA FitsDepth ==
  ASSUME NEW kind \in Kinds, NEW code, NEW g, NEW h, Fits(kind, code, g, h)
  PROVE  code \in Seq(Tokens(kind)) /\ Neutral(code)
<1>1. code \in Seq(Tokens(kind)) /\ g \in Abstract /\ h \in Abstract
  BY DEF Fits
<1>2. ASSUME NEW n \in Depths PROVE DepthPath(code, n, n)
  <2> DEFINE q == [i \in 1 .. n - 1 |-> g]
  <2>1. q \in Terms /\ Len(q) = n - 1
    BY <1>1 DEF Terms, Depths
  <2> HIDE DEF q
  <2>2. Len(Append(q, g)) = n /\ Len(Append(q, h)) = n
    BY <1>1, <2>1 DEF Terms, Depths
  <2>3. TermPath(kind, code, Append(q, g), Append(q, h))
    BY <2>1 DEF Fits
  <2>4. PICK x, y : x = Append(q, g) /\ y = Append(q, h)
    OBVIOUS
  <2>5. PICK p \in [1 .. Len(code) + 1 -> Terms] :
          /\ p[1] = x /\ p[Len(code) + 1] = y
          /\ \A i \in 1 .. Len(code) : <<p[i], code[i], p[i + 1]>> \in TermStep(kind)
    BY <2>3, <2>4 DEF TermPath, Path
  <2>6. PICK m \in Nat : m = Len(code)
    BY <1>1, SeqFirst
  <2>7. \A i \in 1 .. m : /\ Len(p[i]) \in Depths /\ Len(p[i + 1]) \in Depths
                          /\ Len(p[i + 1]) = Len(p[i]) + Delta(code[i]) /\ code[i] \in All
    <3> SUFFICES ASSUME NEW i \in 1 .. m
                 PROVE  /\ Len(p[i]) \in Depths /\ Len(p[i + 1]) \in Depths
                        /\ Len(p[i + 1]) = Len(p[i]) + Delta(code[i]) /\ code[i] \in All
      OBVIOUS
    <3>1. <<p[i], code[i], p[i + 1]>> \in TermStep(kind)
      BY <2>5, <2>6
    <3> QED BY <3>1, StepDelta
  <2>8. \A i \in 1 .. m + 1 : Len(p[i]) \in Depths
    <3> SUFFICES ASSUME NEW i \in 1 .. m + 1 PROVE Len(p[i]) \in Depths
      OBVIOUS
    <3>1. CASE i = 1
      BY <2>2, <2>4, <2>5, <3>1
    <3>2. CASE i # 1
      <4>1. i - 1 \in 1 .. m /\ (i - 1) + 1 = i
        BY <3>2
      <4> QED BY <2>7, <4>1
    <3> QED BY <3>1, <3>2
  <2> DEFINE d == [i \in 1 .. m + 1 |-> Len(p[i])]
  <2>9. d \in [1 .. m + 1 -> Depths] /\ d[1] = n /\ d[m + 1] = n
    BY <2>2, <2>4, <2>5, <2>6, <2>8
  <2>10. \A i \in 1 .. m : d[i + 1] = d[i] + Delta(code[i])
    BY <2>7
  <2> HIDE DEF d
  <2>11. \A i \in 1 .. m : <<d[i], code[i], d[i + 1]>> \in DepthStep
    BY <2>7, <2>9, <2>10 DEF DepthStep, All
  <2> QED BY <2>6, <2>9, <2>11 DEF DepthPath, Path
<1> QED BY <1>1, <1>2 DEF Neutral

\* The types of what a handler hands to its caller.
LEMMA LeftTypes ==
  ASSUME NEW f \in FrameType
  PROVE  CppLeft(f) \in SUBSET Variable /\ CoqLeft(f) \in SUBSET Variable /\ no_case(f) \in BOOLEAN
<1>1. f.cpp \in SUBSET Variable /\ f.coq \in SUBSET Variable /\ f.nocase \in BOOLEAN
  BY DEF FrameType
<1>2. ASSUME NEW d \in f.cpp PROVE [d EXCEPT !.how = IF @ = "static" THEN @ ELSE "labelled"] \in Variable
  BY <1>1 DEF Variable, Hows
<1> QED BY <1>1, <1>2 DEF CppLeft, CoqLeft, no_case

\* What the end of a statement in the block of a switch changes.
LEMMA SwitchBlockFacts ==
  ASSUME NEW e \in FrameType, NEW f \in FrameType, NEW u, u = SwitchBlock(e, f)
  PROVE     /\ u \in FrameType
            /\ u.kind = e.kind /\ u.depth = e.depth /\ u.labels = e.labels /\ u.default = e.default
            /\ u.listed = e.listed /\ u.code = e.code /\ u.cpp = e.cpp /\ u.coq = e.coq /\ u.nocase = e.nocase
            /\ u.refused = (e.refused \/ ~no_case(f))
<1>1. no_case(f) \in BOOLEAN
  BY LeftTypes
<1> QED BY <1>1 DEF SwitchBlock, FrameType

\* A handler after the return of one that it called.
Update(e, code, cpp, coq, nocase, refused) ==
  [e EXCEPT !.code = code, !.cpp = cpp, !.coq = coq, !.nocase = nocase, !.refused = refused]

\* What a finished handler f leaves of the stack s that called it.
ResumesTo(f, s, c, r) ==
  /\ r \in Seq(FrameType) /\ Len(r) = c
  /\ \A i \in 1 .. c :
       /\ r[i].kind = s[i].kind /\ r[i].depth = s[i].depth /\ r[i].labels = s[i].labels
       /\ r[i].default = s[i].default /\ r[i].listed = s[i].listed
       /\ s[i].refused => r[i].refused
  /\ \A i \in 1 .. c - 1 :
       /\ r[i].code = s[i].code /\ r[i].cpp = s[i].cpp /\ r[i].coq = s[i].coq /\ r[i].nocase = s[i].nocase
  /\ r[c].code = Tail(s[c].code)
  /\ r[c].cpp = s[c].cpp \cup Keeps(s[c], CppLeft(f), {"LabelStmt"})
  /\ r[c].coq = s[c].coq \cup Keeps(s[c], CoqLeft(f), {})
  /\ r[c].nocase = (s[c].nocase /\ no_case(f))
  /\ s[c].kind = "SwitchStmt" /\ f.kind \notin {"VarDecl", "CompoundStmt"} => r[c].refused
  /\ f.kind \notin Labels /\ InSwitchBlock(Target(c)) /\ ~no_case(f) => r[Target(c) - 1].refused

\* What a return changes in the handlers below.
LEMMA ResumedFacts ==
  ASSUME NEW s \in Seq(FrameType), NEW c \in Nat, c > 0, Len(s) = c, NEW f \in FrameType, s[c].code # <<>>,
         Target(c) \in 1 .. c, NEW r, r = Resumed(f, s)
  PROVE  ResumesTo(f, s, c, r)
<1> DEFINE cpp == s[c].cpp \cup Keeps(s[c], CppLeft(f), {"LabelStmt"})
           coq == s[c].coq \cup Keeps(s[c], CoqLeft(f), {})
           nocase == (s[c].nocase /\ no_case(f))
           refused == (s[c].refused \/ (s[c].kind = "SwitchStmt" /\ f.kind \notin {"VarDecl", "CompoundStmt"}))
<1>1. s[c] \in FrameType
  OBVIOUS
<1>2. /\ cpp \in SUBSET Variable /\ coq \in SUBSET Variable /\ nocase \in BOOLEAN /\ refused \in BOOLEAN
      /\ Tail(s[c].code) \in Seq(Texts \cup Uses \cup Calls)
  <2>1. s[c].cpp \in SUBSET Variable /\ s[c].coq \in SUBSET Variable /\ s[c].code \in Seq(Texts \cup Uses \cup Calls)
        /\ s[c].nocase \in BOOLEAN /\ s[c].refused \in BOOLEAN
    BY <1>1 DEF FrameType
  <2>2. \A S \in SUBSET Variable : \A k : Keeps(s[c], S, k) \in SUBSET Variable
    BY DEF Keeps
  <2>3. Tail(s[c].code) \in Seq(Texts \cup Uses \cup Calls)
    BY <2>1
  <2> QED BY <2>1, <2>2, <2>3, LeftTypes
<1>3. PICK u : u = Update(s[c], Tail(s[c].code), cpp, coq, nocase, refused)
  OBVIOUS
<1>4. PICK q : q = [s EXCEPT ![c].code = Tail(@),
                           ![c].cpp = @ \cup Keeps(s[c], CppLeft(f), {"LabelStmt"}),
                           ![c].coq = @ \cup Keeps(s[c], CoqLeft(f), {}),
                           ![c].nocase = @ /\ no_case(f),
                           ![c].refused = @ \/ (s[c].kind = "SwitchStmt" /\ f.kind \notin {"VarDecl", "CompoundStmt"})]
  OBVIOUS
<1>5. PICK t \in 1 .. c : t = Target(c)
  OBVIOUS
<1>6. r = IF f.kind \notin Labels /\ InSwitchBlock(t) THEN [q EXCEPT ![t - 1] = SwitchBlock(@, f)] ELSE q
  BY <1>4, <1>5 DEF Resumed
<1>q. q = [s EXCEPT ![c] = u]
  BY <1>1, <1>3, <1>4 DEF Update, FrameType, cpp, coq, nocase, refused
<1> HIDE DEF cpp, coq, nocase, refused
<1>7. /\ u \in FrameType
      /\ u.kind = s[c].kind /\ u.depth = s[c].depth /\ u.labels = s[c].labels /\ u.default = s[c].default
      /\ u.listed = s[c].listed
      /\ u.code = Tail(s[c].code) /\ u.cpp = cpp /\ u.coq = coq /\ u.nocase = nocase /\ u.refused = refused
  <2>1. PICK code \in Seq(Texts \cup Uses \cup Calls), x \in SUBSET Variable, y \in SUBSET Variable, no \in BOOLEAN, re \in BOOLEAN :
          code = Tail(s[c].code) /\ x = cpp /\ y = coq /\ no = nocase /\ re = refused
    BY <1>2
  <2>2. u = Update(s[c], code, x, y, no, re)
    BY <1>3, <2>1
  <2>3. /\ u \in FrameType
        /\ u.kind = s[c].kind /\ u.depth = s[c].depth /\ u.labels = s[c].labels /\ u.default = s[c].default
        /\ u.listed = s[c].listed
        /\ u.code = code /\ u.cpp = x /\ u.coq = y /\ u.nocase = no /\ u.refused = re
    BY <1>1, <2>2 DEF Update, FrameType
  <2> QED BY <2>1, <2>3
<1>8. q \in Seq(FrameType) /\ Len(q) = c /\ q[c] = u /\ \A i \in 1 .. c - 1 : q[i] = s[i]
  BY <1>q, <1>7
<1>9. CASE ~(f.kind \notin Labels /\ InSwitchBlock(t))
  <2>1. r = q
    BY <1>6, <1>9
  <2>7. r \in Seq(FrameType) /\ Len(r) = c /\ r[c] = u /\ \A i \in 1 .. c - 1 : r[i] = s[i]
    BY <1>8, <2>1
  <2>8. ASSUME NEW i \in 1 .. c
        PROVE  /\ r[i].kind = s[i].kind /\ r[i].depth = s[i].depth /\ r[i].labels = s[i].labels
               /\ r[i].default = s[i].default /\ r[i].listed = s[i].listed
               /\ s[i].refused => r[i].refused
    <3>1. CASE i = c
      BY <1>7, <2>7, <3>1 DEF refused
    <3>3. CASE i # c
      BY <2>7, <3>3
    <3> QED BY <3>1, <3>3
  <2>9. \A i \in 1 .. c - 1 :
          /\ r[i].code = s[i].code /\ r[i].cpp = s[i].cpp /\ r[i].coq = s[i].coq /\ r[i].nocase = s[i].nocase
    BY <2>7
  <2>10. ~(f.kind \notin Labels /\ InSwitchBlock(Target(c)))
    BY <1>5, <1>9
  <2> QED BY <1>7, <2>7, <2>8, <2>9, <2>10 DEF cpp, coq, nocase, refused, ResumesTo
<1>10. CASE f.kind \notin Labels /\ InSwitchBlock(t)
  <2>1. t > 1 /\ t - 1 \in 1 .. c - 1
    BY <1>5, <1>10 DEF InSwitchBlock
  <2>2. PICK v : v = SwitchBlock(s[t - 1], f)
    OBVIOUS
  <2>3. s[t - 1] \in FrameType
    BY <2>1
  <2>4. /\ v \in FrameType
        /\ v.kind = s[t - 1].kind /\ v.depth = s[t - 1].depth /\ v.labels = s[t - 1].labels /\ v.default = s[t - 1].default
        /\ v.listed = s[t - 1].listed /\ v.code = s[t - 1].code /\ v.cpp = s[t - 1].cpp /\ v.coq = s[t - 1].coq
        /\ v.nocase = s[t - 1].nocase /\ v.refused = (s[t - 1].refused \/ ~no_case(f))
    BY <2>2, <2>3, SwitchBlockFacts
  <2>5. r = [q EXCEPT ![t - 1] = v]
    BY <1>6, <1>8, <1>10, <2>1, <2>2
  <2>7. r \in Seq(FrameType) /\ Len(r) = c /\ r[t - 1] = v /\ r[c] = u /\ \A i \in 1 .. c - 1 : i # t - 1 => r[i] = s[i]
    BY <1>8, <2>1, <2>4, <2>5
  <2>8. ASSUME NEW i \in 1 .. c
        PROVE  /\ r[i].kind = s[i].kind /\ r[i].depth = s[i].depth /\ r[i].labels = s[i].labels
               /\ r[i].default = s[i].default /\ r[i].listed = s[i].listed
               /\ s[i].refused => r[i].refused
    <3>1. CASE i = c
      BY <1>7, <2>7, <3>1 DEF refused
    <3>2. CASE i = t - 1
      BY <2>4, <2>7, <3>2
    <3>3. CASE i # c /\ i # t - 1
      BY <2>7, <3>3
    <3> QED BY <3>1, <3>2, <3>3
  <2>9. \A i \in 1 .. c - 1 :
          /\ r[i].code = s[i].code /\ r[i].cpp = s[i].cpp /\ r[i].coq = s[i].coq /\ r[i].nocase = s[i].nocase
    BY <2>1, <2>4, <2>7
  <2>10. ~no_case(f) => r[t - 1].refused
    BY <2>4, <2>7
  <2> QED BY <1>5, <1>7, <2>7, <2>8, <2>9, <2>10 DEF cpp, coq, nocase, refused, ResumesTo
<1> QED BY <1>9, <1>10

(***************************************************************************)
(* Targets.                                                                *)
(***************************************************************************)
IsTarget(s, j, k) == k \in 1 .. j /\ s[k].kind \notin Labels /\ \A i \in k + 1 .. j : s[i].kind \in Labels

\* The target exists.
LEMMA TargetFacts ==
  ASSUME NEW s, NEW j \in Nat, j > 0, s[1].kind \notin Labels
  PROVE  IsTarget(s, j, TargetOf(s, j))
<1> DEFINE T == {k \in 1 .. j : s[k].kind \notin Labels}
<1>1. T \subseteq 0 .. j /\ T # {}
  OBVIOUS
<1>2. PICK x \in T : \A y \in T : y <= x
  BY <1>1, Greatest
<1>3. ASSUME NEW i \in x + 1 .. j PROVE s[i].kind \in Labels
  <2>1. i \notin T
    BY <1>2
  <2>2. i \in 1 .. j
    BY <1>2
  <2> QED BY <2>1, <2>2
<1>4. x \in 1 .. j /\ s[x].kind \notin Labels /\ \A i \in x + 1 .. j : s[i].kind \in Labels
  BY <1>2, <1>3
<1> HIDE DEF T
<1> QED BY <1>4 DEF IsTarget, TargetOf

\* The target is unique.
LEMMA TargetUnique ==
  ASSUME NEW s, NEW j \in Nat, NEW k, NEW l, IsTarget(s, j, k), IsTarget(s, j, l)
  PROVE  k = l
<1>1. k \in 1 .. j /\ l \in 1 .. j
  BY DEF IsTarget
<1>2. ~(k < l)
  BY <1>1 DEF IsTarget
<1>3. ~(l < k)
  BY <1>1 DEF IsTarget
<1> QED BY <1>1, <1>2, <1>3

\* TargetOf is Target.
LEMMA TargetIs == \A j : Target(j) = TargetOf(stack, j)
BY DEF Target, TargetOf

(***************************************************************************)
(* Tokens and handlers.                                                    *)
(***************************************************************************)
LEMMA TokenKinds ==
  ASSUME NEW kind \in Kinds, NEW t \in Tokens(kind)
  PROVE  /\ t \in Pairs => kind = "DeclStmt"
         /\ t = <<"stmt">> => kind \notin {"VarDecl", "Leaf", "CXXTryStmt", "DeclStmt"}
         /\ t = <<"init">> => kind \in Controls
         /\ t = <<"local">> => kind \in {"DeclStmt"} \cup Controls
         /\ (\E s \in RangeParts : t = <<s>>) => kind = "CXXForRangeStmt"
         /\ kind \in {"VarDecl", "Leaf", "CXXTryStmt"} => t \in Texts \cup Uses
         /\ kind = "DeclStmt" => t \in Texts \cup {<<"local">>} \cup Pairs
         /\ kind \in {"CompoundStmt", "AttributedStmt", "LabelStmt", "Function"} \cup Labels => t \in Texts \cup {<<"stmt">>}
<1>1. t \in All
  BY TokensAll
<1>2. t \in Texts => t[1] \in {"(", ")", "[", "]", "::", "w"}
  BY <1>1, TokenWords DEF IsText
<1>3. t \in Uses => t[1] \in {"expr", "cond", "inc"}
  BY <1>1, TokenWords
<1>4. t \in Pairs => t[1] \in RangeParts /\ t[2] = "local" /\ Len(t) = 2
  BY DEF Pairs
<1>5. CASE kind \in {"VarDecl", "Leaf", "CXXTryStmt"}
  <2>1. t \in Texts \cup Uses
    BY <1>5 DEF Tokens, Labels
  <2> QED BY <1>2, <1>3, <1>4, <1>5, <2>1 DEF RangeParts, Labels
<1>6. CASE kind = "DeclStmt"
  <2>1. t \in Texts \cup {<<"local">>} \cup Pairs
    BY <1>6 DEF Tokens, Labels
  <2> QED BY <1>2, <1>4, <1>6, <2>1 DEF RangeParts, Labels
<1>7. CASE kind \in {"CompoundStmt", "AttributedStmt", "LabelStmt", "Function"} \cup Labels
  <2>1. t \in Texts \cup {<<"stmt">>}
    BY <1>7 DEF Tokens, Labels
  <2> QED BY <1>2, <1>4, <1>7, <2>1 DEF RangeParts, Labels
<1>8. CASE kind = "CXXForRangeStmt"
  <2>1. t \in Texts \cup Uses \cup {<<"stmt">>} \cup {<<s>> : s \in RangeParts}
    BY <1>8 DEF Tokens, Labels
  <2>2. t \in {<<s>> : s \in RangeParts} => Len(t) = 1 /\ t[1] \in RangeParts
    OBVIOUS
  <2> QED BY <1>2, <1>3, <1>4, <1>8, <2>1, <2>2 DEF RangeParts, Labels, Controls, Loops
<1>9. CASE kind \in Controls \ {"CXXForRangeStmt"}
  <2>1. t \in Texts \cup Uses \cup {<<"stmt">>, <<"init">>, <<"local">>}
    BY <1>9 DEF Tokens, Labels, Controls, Loops
  <2> QED BY <1>2, <1>3, <1>4, <1>9, <2>1 DEF RangeParts, Labels, Controls, Loops
<1> QED BY <1>5, <1>6, <1>7, <1>8, <1>9 DEF Kinds

\* The first token is a token.
LEMMA HeadIn ==
  ASSUME NEW T, NEW c \in Seq(T), c # <<>>
  PROVE  Head(c) \in T
OBVIOUS

\* The handler at the top and its next token.
LEMMA ActiveFacts ==
  ASSUME Types, Active
  PROVE  /\ Len(stack) \in Nat /\ Len(stack) > 0 /\ Top \in FrameType /\ Top = stack[Len(stack)]
         /\ Top.kind \in Kinds /\ Top.code \in Seq(Tokens(Top.kind)) /\ Top.code # <<>>
         /\ Step \in Tokens(Top.kind) /\ Step \in All /\ Step = Head(Top.code)
<1>1. stack \in Seq(FrameType) /\ stack # <<>>
  BY DEF Types, Active
<1>2. Len(stack) \in Nat /\ Len(stack) > 0 /\ Len(stack) \in DOMAIN stack
  BY <1>1
<1>3. Top \in FrameType /\ FrameOK(Top) /\ Top = stack[Len(stack)]
  BY <1>1, <1>2 DEF Top, Types
<1>4. Top.kind \in Kinds /\ Top.code \in Seq(Tokens(Top.kind)) /\ Top.code # <<>>
  BY <1>3 DEF FrameType, FrameOK, Active
<1>7. Step \in Tokens(Top.kind)
  BY <1>4, HeadIn DEF Step
<1> QED BY <1>2, <1>3, <1>4, <1>7, TokensAll DEF Step

\* A handler of that kind and its code print a term of sort s.
Prints(kind, code, s) == \A g, h \in Abstract : Takes(g, <<s>>, h) => Fits(kind, code, g, h)

\* Where a statement and a declaration can stand.
LEMMA StmtPlace ==
  /\ StmtList(0) \in Abstract /\ StmtList(1) \in Abstract /\ Takes(StmtList(0), <<"Stmt">>, StmtList(1))
  /\ VarList \in Abstract /\ [head |-> "list", sort |-> "VarDecl", n |-> 1] \in Abstract
  /\ Takes(VarList, <<"VarDecl">>, [head |-> "list", sort |-> "VarDecl", n |-> 1])
BY DEF StmtList, Abstract, Sorts, Words, Takes, VarList, Opened

\* What prints a statement or a declaration restores the depth.
LEMMA PrintsDepth ==
  ASSUME NEW kind \in Kinds, NEW code, NEW s \in {"Stmt", "VarDecl"}, Prints(kind, code, s)
  PROVE  code \in Seq(Tokens(kind)) /\ Neutral(code)
<1>1. \E g, h : Fits(kind, code, g, h)
  BY StmtPlace DEF Prints
<1> QED BY <1>1, FitsDepth

\* Handlers of statements, but for the labels.
StmtCode(kind, c) ==
  \/ kind = "Leaf" /\ c \in WordCode \cup ExprCode \cup ReturnStmtCode \cup GotoStmtCode \cup GCCAsmStmtCode
  \/ kind = "CXXTryStmt" /\ c \in CXXTryStmtCode
  \/ kind = "DeclStmt" /\ c \in DeclStmtCode
  \/ kind = "DeclStmt" /\ \E s \in RangeParts : c = Ctor("Sdecl", <<<<"[">>, <<s, "local">>, <<"]">>>>)
  \/ kind = "CompoundStmt" /\ c \in CompoundStmtCode
  \/ kind = "AttributedStmt" /\ c \in AttributedStmtCode
  \/ kind = "LabelStmt" /\ c \in LabelStmtCode
  \/ kind = "WhileStmt" /\ c \in WhileStmtCode
  \/ kind = "ForStmt" /\ c \in ForStmtCode
  \/ kind = "DoStmt" /\ c \in DoStmtCode
  \/ kind = "IfStmt" /\ c \in IfStmtCode
  \/ kind = "SwitchStmt" /\ c \in SwitchStmtCode
  \/ kind = "CXXForRangeStmt" /\ c \in CXXForRangeStmtCode

StmtKinds == Kinds \ ({"Function", "VarDecl"} \cup Labels)

\* Each handler of a statement prints one statement.
LEMMA StmtPrints ==
  ASSUME NEW kind, NEW c, StmtCode(kind, c)
  PROVE  kind \in StmtKinds /\ Prints(kind, c, "Stmt")
<1>1. kind \in StmtKinds
  BY DEF StmtCode, StmtKinds, Kinds, Controls, Loops, Labels
<1>2. ASSUME NEW g \in Abstract, NEW h \in Abstract, Takes(g, <<"Stmt">>, h) PROVE Fits(kind, c, g, h)
  BY <1>2, WordFits, ExprFits, ReturnFits, GotoFits, AsmFits, TryFits, DeclFits, RangeDeclFits, CompoundFits,
     AttributedFits, LabelFits, WhileFits, ForFits, DoFits, IfFits, SwitchFits, RangeFits DEF StmtCode
<1> QED BY <1>1, <1>2 DEF Prints

\* Each handler of a declaration prints one VarDecl.
LEMMA VarPrints ==
  ASSUME NEW c \in VarDeclCode \cup StaticVarDeclCode \cup DecompositionDeclCode
  PROVE  Prints("VarDecl", c, "VarDecl")
BY VarFits, StaticFits, DecompositionFits DEF Prints

\* A DeclStmt of the source has no variable of a range-for.
LEMMA DeclCodePairs ==
  ASSUME NEW c \in DeclStmtCode, NEW i \in DOMAIN c
  PROVE  c[i] \notin Pairs
<1>1. PICK n \in 1 .. MaxItems : c = Ctor("Sdecl", <<<<"[">>>> \o Repeat(n, <<<<"local">>>>) \o <<<<"]">>>>)
  BY DEF DeclStmtCode
<1> DEFINE T == {<<"(", "Sdecl">>, <<")">>, <<"[">>, <<"]">>, <<"local">>}
<1>2. n \in Nat
  BY PrintStmtAssumption
<1>3. Repeat(n, <<<<"local">>>>) \in Seq(T)
  <2>1. <<<<"local">>>> \in Seq(T)
    OBVIOUS
  <2> HIDE DEF T
  <2> QED BY <1>2, <2>1, RepeatSeq
<1>4. PICK x \in Seq(T) : x = Repeat(n, <<<<"local">>>>)
  BY <1>3
<1>5. <<<<"[">>>> \o x \o <<<<"]">>>> \in Seq(T)
  OBVIOUS
<1>6. c \in Seq(T)
  <2>1. <<"(", "Sdecl">> \in T /\ <<")">> \in T
    OBVIOUS
  <2> HIDE DEF T
  <2> QED BY <1>1, <1>4, <1>5, <2>1, CtorSeq
<1>7. c[i] \in T
  <2> HIDE DEF T
  <2> QED BY <1>6
<1>8. \A s \in RangeParts : <<s, "local">> \notin T
  BY DEF RangeParts
<1> QED BY <1>7, <1>8 DEF Pairs

\* A label is on one statement.
LEMMA LabelCodeStmt ==
  ASSUME NEW c \in LabelStmtCode
  PROVE  \A i, k \in DOMAIN c : c[i] = <<"stmt">> /\ c[k] = <<"stmt">> => i = k
<1>1. c = Ctor("Slabeled", <<W("ident")>> \o Body)
  BY DEF LabelStmtCode
<1>2. <<W("ident")>> \o <<<<"stmt">>>> = <<W("ident"), <<"stmt">>>>
  BY TwoTokens
<1>3. c = <<<<"(", "Slabeled">>>> \o <<W("ident"), <<"stmt">>>> \o <<<<")">>>>
  BY <1>1, <1>2 DEF Ctor, Body
<1>4. PICK w : w = W("ident") /\ w # <<"stmt">>
  <2>1. W("ident")[1] = "w"
    BY DEF W
  <2>2. <<"stmt">>[1] = "stmt"
    OBVIOUS
  <2> QED BY <2>1, <2>2
<1>5. Len(c) = 4 /\ DOMAIN c = 1 .. 4 /\ c[1] = <<"(", "Slabeled">> /\ c[2] = w /\ c[4] = <<")">>
  BY <1>3, <1>4
<1> QED BY <1>4, <1>5

(***************************************************************************)
(* Calls.                                                                  *)
(***************************************************************************)
VarSets == SUBSET Variable

\* The same handlers at the same place.
Alike(s, t) ==
  /\ Len(s) = Len(t)
  /\ \A j \in 1 .. Len(t) :
       s[j].kind = t[j].kind /\ s[j].code = t[j].code /\ s[j].depth = t[j].depth /\ s[j].coq = t[j].coq /\ s[j].nocase = t[j].nocase

\* The handler at the top calls f, the stack otherwise being s.
Opens(s, f) ==
  /\ Active /\ Step \in Calls
  /\ stack' = Append(s, f) /\ out' = out
  /\ s \in Seq(FrameType) /\ Alike(s, stack)
  /\ f.kind \in Kinds \ {"Function"} /\ f = Frame(f.kind, f.code, f.cpp) /\ f.cpp \in VarSets
  /\ f.kind = "VarDecl" <=> Step \in {<<"local">>} \cup Pairs
  /\ f.kind \in Labels => Step = <<"stmt">> /\ Fits(f.kind, f.code, StmtList(0), StmtList(1))
  /\ f.kind = "VarDecl" => Prints(f.kind, f.code, "VarDecl")
  /\ f.kind \in StmtKinds => Prints(f.kind, f.code, "Stmt")

\* The variables that f has.
NewNames(f) ==
  /\ \/ f.cpp = {} /\ decls' = decls /\ f.kind # "VarDecl"
     \/ /\ \E n \in Names, how \in Hows, i \in BOOLEAN :
             f.cpp = {Var(n, how, i)} /\ (IF f.kind = "VarDecl" THEN how \in Printed ELSE how \notin {"auto", "extern"})
        /\ decls' = decls + 1 /\ f.kind # "LabelStmt"
     \/ /\ f.kind = "VarDecl" /\ Step \in Pairs /\ decls' = decls
        /\ \E v \in Variable : /\ f.cpp = {v} /\ v.name \in HiddenNames /\ v.id = Len(stack)
                               /\ v.how = "auto" /\ v.init = TRUE
  /\ f.kind = "LabelStmt" => f.code \in LabelStmtCode
  /\ f.kind = "DeclStmt" /\ (\E i \in DOMAIN f.code : f.code[i] \in Pairs) => Top.kind = "CXXForRangeStmt"

Plain(f) ==
  /\ Opens(stack, f) /\ f.kind \notin Labels /\ NewNames(f) /\ loose' = loose
  /\ size' \in Nat /\ size <= size' /\ size' <= MaxNodes

\* printStmt calls the handler of a statement.
LEMMA OpensStmt ==
  ASSUME Types, Active, NEW kind, NEW code, StmtCode(kind, code), NEW cpp \in VarSets,
         Step \in Calls, Step \notin {<<"local">>} \cup Pairs,
         NEW f, f = Frame(kind, code, cpp), stack' = Append(stack, f), out' = out
  PROVE  Opens(stack, f) /\ f.kind = kind /\ f.code = code /\ f.cpp = cpp
<1>1. kind \in StmtKinds /\ Prints(kind, code, "Stmt")
  BY StmtPrints
<1>2. f.kind = kind /\ f.code = code /\ f.cpp = cpp
  BY DEF Frame
<1>3. stack \in Seq(FrameType) /\ Alike(stack, stack)
  BY DEF Types, Alike
<1>4. kind \in Kinds \ {"Function"} /\ kind # "VarDecl" /\ kind \notin Labels
  BY <1>1 DEF StmtKinds
<1> QED BY <1>1, <1>2, <1>3, <1>4 DEF Opens

\* The calls.
LEMMA CallFacts ==
  /\ <<"stmt">> \in Calls /\ <<"init">> \in Calls
  /\ <<"stmt">> \notin {<<"local">>} \cup Pairs /\ <<"init">> \notin {<<"local">>} \cup Pairs
  /\ <<"local">> \in Calls /\ Pairs \subseteq Calls
  /\ \A s \in RangeParts : <<s>> \in Calls /\ <<s>> \notin {<<"local">>} \cup Pairs
<1>1. \A p \in Pairs : Len(p) = 2
  BY DEF Pairs
<1>2. \A x : Len(<<x>>) = 1
  OBVIOUS
<1>3. \A x : <<x>> \notin Pairs
  BY <1>1, <1>2
<1>4. \A s \in RangeParts \cup {"stmt", "init"} : <<s>> # <<"local">>
  BY DEF RangeParts
<1> QED BY <1>3, <1>4 DEF Calls

\* The call of an action.
LEMMA DoesFacts ==
  ASSUME Types, NEW s \in {"stmt", "init", "local"}, Does(s)
  PROVE  Active /\ Step = <<s>> /\ Step \in Calls
<1>1. Active /\ Step[1] = s
  BY DEF Does
<1>2. Step \in All
  BY <1>1, ActiveFacts
<1>3. Step = <<s>>
  BY <1>1, <1>2, TokenWords
<1> QED BY <1>1, <1>3, CallFacts

\* A statement that declares nothing by itself.
LEMMA PlainStmt ==
  ASSUME Types, NEW s \in {"stmt", "init"}, Does(s), NEW kind, NEW code, StmtCode(kind, code),
         kind = "DeclStmt" => code \in DeclStmtCode,
         stack' = Append(stack, Frame(kind, code, {})), UNCHANGED <<out, decls, loose>>,
         size' \in Nat, size <= size', size' <= MaxNodes
  PROVE  \E f : Plain(f)
<1>1. PICK f : f = Frame(kind, code, {})
  OBVIOUS
<1>2. Active /\ Step \in Calls /\ Step \notin {<<"local">>} \cup Pairs
  BY DoesFacts, CallFacts
<1>3. Opens(stack, f) /\ f.kind = kind /\ f.code = code /\ f.cpp = {}
  <2>1. {} \in VarSets
    BY DEF VarSets
  <2> QED BY <1>1, <1>2, <2>1, OpensStmt
<1>4. kind = "LabelStmt" => code \in LabelStmtCode
  BY DEF StmtCode
<1>5. kind # "VarDecl"
  BY DEF StmtCode
<1>6. NewNames(f)
  BY <1>3, <1>4, <1>5, DeclCodePairs DEF NewNames
<1>7. f.kind \notin Labels
  BY <1>3, StmtPrints DEF StmtKinds
<1> QED BY <1>3, <1>6, <1>7 DEF Plain

\* A statement with a variable of its own.
OwnVar(V) == \E n \in Names, how \in {"unprinted", "later"} : V = {Var(n, how, TRUE)}

\* A handler with a variable of its own is called.
LEMMA PlainVar ==
  ASSUME Types, Does("stmt"), NEW kind, NEW code, StmtCode(kind, code), kind # "LabelStmt", kind # "DeclStmt",
         NEW V, OwnVar(V), stack' = Append(stack, Frame(kind, code, V)), UNCHANGED <<out, loose>>,
         decls' = decls + 1,
         size' \in Nat, size <= size', size' <= MaxNodes
  PROVE  \E f : Plain(f)
<1>0. V \in VarSets
  <2>1. decls + 1 \in Nat
    BY DEF Types
  <2> QED BY <2>1 DEF Var, Variable, Hows, VarSets, OwnVar
<1>1. PICK f : f = Frame(kind, code, V)
  OBVIOUS
<1>2. Active /\ Step \in Calls /\ Step \notin {<<"local">>} \cup Pairs
  BY DoesFacts, CallFacts
<1>3. Opens(stack, f) /\ f.kind = kind /\ f.code = code /\ f.cpp = V
  BY <1>0, <1>1, <1>2, OpensStmt
<1>5. NewNames(f)
  <2>1. f.kind # "VarDecl" /\ f.kind # "LabelStmt" /\ f.kind # "DeclStmt"
    BY <1>3 DEF StmtCode
  <2>2. \E m \in Names, w \in Hows, i \in BOOLEAN :
          f.cpp = {Var(m, w, i)} /\ (f.kind # "VarDecl" => w \notin {"auto", "extern"})
    BY <1>3 DEF Var, OwnVar, Hows
  <2> QED BY <2>1, <2>2 DEF NewNames
<1>6. f.kind \notin Labels
  BY <1>3, StmtPrints DEF StmtKinds
<1> QED BY <1>3, <1>5, <1>6 DEF Plain

\* No statement is counted.
LEMMA Same == ASSUME Types PROVE size \in Nat /\ size <= size /\ size <= MaxNodes
BY DEF Types

\* Enter counts one statement.
LEMMA EnterSize ==
  ASSUME Types, NEW f, Enter(f)
  PROVE  stack' = Append(stack, f) /\ size' \in Nat /\ size <= size' /\ size' <= MaxNodes
BY PrintStmtAssumption DEF Enter, Types

\* VisitLeaf calls a handler.
LEMMA LeafPlain == ASSUME Types, VisitLeaf PROVE \E f : Plain(f)
<1>1. PICK c \in WordCode \cup ExprCode \cup ReturnStmtCode \cup GotoStmtCode \cup GCCAsmStmtCode :
        stack' = Append(stack, Frame("Leaf", c, {}))
  BY DEF VisitLeaf
<1>2. StmtCode("Leaf", c)
  BY DEF StmtCode
<1> QED BY <1>1, <1>2, Same, PlainStmt DEF VisitLeaf

\* VisitCXXTryStmt calls a handler.
LEMMA TryPlain == ASSUME Types, VisitCXXTryStmt PROVE \E f : Plain(f)
<1>1. PICK c \in CXXTryStmtCode : Enter(Frame("CXXTryStmt", c, {}))
  BY DEF VisitCXXTryStmt
<1>2. StmtCode("CXXTryStmt", c)
  BY DEF StmtCode
<1>3. stack' = Append(stack, Frame("CXXTryStmt", c, {})) /\ size' \in Nat /\ size <= size' /\ size' <= MaxNodes
  BY <1>1, EnterSize
<1> QED BY <1>2, <1>3, PlainStmt DEF VisitCXXTryStmt

\* VisitDeclStmt calls a handler.
LEMMA DeclPlain == ASSUME Types, VisitDeclStmt PROVE \E f : Plain(f)
<1>1. PICK c \in DeclStmtCode : Enter(Frame("DeclStmt", c, {}))
  BY DEF VisitDeclStmt
<1>2. StmtCode("DeclStmt", c)
  BY DEF StmtCode
<1>3. stack' = Append(stack, Frame("DeclStmt", c, {})) /\ size' \in Nat /\ size <= size' /\ size' <= MaxNodes
  BY <1>1, EnterSize
<1> QED BY <1>2, <1>3, PlainStmt DEF VisitDeclStmt

\* VisitBlock and VisitControl call one.
LEMMA BlockPlain == ASSUME Types, VisitBlock \/ VisitControl PROVE \E f : Plain(f)
<1>1. PICK kind, c : StmtCode(kind, c) /\ kind # "DeclStmt" /\ Enter(Frame(kind, c, {}))
  BY DEF VisitBlock, VisitControl, StmtCode
<1>3. stack' = Append(stack, Frame(kind, c, {})) /\ size' \in Nat /\ size <= size' /\ size' <= MaxNodes
  BY <1>1, EnterSize
<1>4. Does("stmt") /\ UNCHANGED <<out, decls, loose>>
  BY DEF VisitBlock, VisitControl
<1> QED BY <1>1, <1>3, <1>4, PlainStmt

\* VisitWithInit calls a handler.
LEMMA WithInitPlain == ASSUME Types, VisitWithInit PROVE \E f : Plain(f)
<1>1. PICK kind, c, V :
        /\ StmtCode(kind, c) /\ kind # "LabelStmt" /\ kind # "DeclStmt"
        /\ OwnVar(V) /\ Enter(Frame(kind, c, V))
  BY DEF VisitWithInit, StmtCode, OwnVar
<1>3. stack' = Append(stack, Frame(kind, c, V)) /\ size' \in Nat /\ size <= size' /\ size' <= MaxNodes
  BY <1>1, EnterSize
<1>4. Does("stmt") /\ UNCHANGED <<out, loose>> /\ decls' = decls + 1
  BY DEF VisitWithInit
<1> QED BY <1>1, <1>3, <1>4, PlainVar

\* VisitCXXForRangeStmt calls a handler.
LEMMA ForRangePlain == ASSUME Types, VisitCXXForRangeStmt PROVE \E f : Plain(f)
<1>0. Does("stmt") /\ UNCHANGED <<out, loose>>
  BY DEF VisitCXXForRangeStmt
<1>1. PICK c \in CXXForRangeStmtCode, n \in Names :
        \/ Enter(Frame("CXXForRangeStmt", c, {Var(n, "later", TRUE)})) /\ decls' = decls + 1
        \/ Enter(Frame("CXXForRangeStmt", c, {})) /\ decls' = decls
  BY DEF VisitCXXForRangeStmt
<1>2. StmtCode("CXXForRangeStmt", c)
  BY DEF StmtCode
<1>3. CASE Enter(Frame("CXXForRangeStmt", c, {Var(n, "later", TRUE)})) /\ decls' = decls + 1
  <2>0. PICK V : V = {Var(n, "later", TRUE)} /\ OwnVar(V)
    BY DEF OwnVar
  <2>1. stack' = Append(stack, Frame("CXXForRangeStmt", c, V)) /\ size' \in Nat /\ size <= size' /\ size' <= MaxNodes
    BY <1>3, <2>0, EnterSize
  <2> QED BY <1>0, <1>2, <1>3, <2>0, <2>1, PlainVar
<1>4. CASE Enter(Frame("CXXForRangeStmt", c, {})) /\ decls' = decls
  <2>1. stack' = Append(stack, Frame("CXXForRangeStmt", c, {})) /\ size' \in Nat /\ size <= size' /\ size' <= MaxNodes
    BY <1>4, EnterSize
  <2> QED BY <1>0, <1>2, <1>4, <2>1, PlainStmt
<1> QED BY <1>1, <1>3, <1>4

\* VisitRangeDecl calls a handler.
LEMMA RangeDeclPlain == ASSUME Types, VisitRangeDecl PROVE \E f : Plain(f)
<1>1. Active /\ Step[1] \in RangeParts /\ Len(Step) = 1 /\ UNCHANGED <<out, size, decls, loose>>
  BY DEF VisitRangeDecl, RangeParts
<1>2. PICK s \in RangeParts : Step = <<s>>
  <2>1. Step \in All
    BY <1>1, ActiveFacts
  <2>2. Step = <<Step[1]>> \/ Step = <<Step[1], "local">>
    BY <1>1, <2>1, TokenWords
  <2>3. \A x, y : Len(<<x, y>>) = 2
    OBVIOUS
  <2> QED BY <1>1, <2>2, <2>3
<1>3. Step \in Calls /\ Step \notin {<<"local">>} \cup Pairs
  BY <1>2, CallFacts
<1>4. PICK c : c = Ctor("Sdecl", <<<<"[">>, <<s, "local">>, <<"]">>>>)
  OBVIOUS
<1>5. StmtCode("DeclStmt", c)
  BY <1>4 DEF StmtCode
<1>6. PICK f : f = Frame("DeclStmt", c, {})
  OBVIOUS
<1>7. stack' = Append(stack, f)
  BY <1>2, <1>4, <1>6 DEF VisitRangeDecl, RangeDecl
<1>8. Opens(stack, f) /\ f.kind = "DeclStmt" /\ f.code = c /\ f.cpp = {}
  <2>1. {} \in VarSets
    BY DEF VarSets
  <2> QED BY <1>1, <1>3, <1>5, <1>6, <1>7, <2>1, OpensStmt
<1>9. Top.kind = "CXXForRangeStmt"
  BY <1>1, <1>2, ActiveFacts, TokenKinds
<1>10. NewNames(f)
  BY <1>1, <1>8, <1>9 DEF NewNames
<1>11. f.kind \notin Labels
  BY <1>8 DEF Labels
<1> QED BY <1>1, <1>8, <1>10, <1>11, Same DEF Plain

\* A declaration.
LEMMA OpensVar ==
  ASSUME Types, Active, NEW c \in VarDeclCode \cup StaticVarDeclCode \cup DecompositionDeclCode, NEW V \in VarSets,
         Step \in {<<"local">>} \cup Pairs, NEW s \in Seq(FrameType), Alike(s, stack),
         NEW f, f = Frame("VarDecl", c, V), stack' = Append(s, f), out' = out
  PROVE  Opens(s, f) /\ f.kind = "VarDecl" /\ f.code = c /\ f.cpp = V
<1>1. Prints("VarDecl", c, "VarDecl")
  BY VarPrints
<1>2. f.kind = "VarDecl" /\ f.code = c /\ f.cpp = V
  BY DEF Frame
<1>4. "VarDecl" \in Kinds \ {"Function"} /\ "VarDecl" \notin Labels \cup StmtKinds
  BY DEF StmtKinds, Kinds, Labels
<1> QED BY <1>1, <1>2, <1>4, CallFacts DEF Opens

\* PrintLocalDecl is called for a variable.
LEMMA PlainDecl ==
  ASSUME Types, Active, NEW c \in VarDeclCode \cup StaticVarDeclCode \cup DecompositionDeclCode,
         NEW n \in Names, NEW how \in Printed, NEW i \in BOOLEAN, Step \in {<<"local">>} \cup Pairs,
         EnterDecl(c, Var(n, how, i)), decls' = decls + 1, UNCHANGED <<out, size, loose>>
  PROVE  \E f : Plain(f)
<1>1. how \in Hows /\ Var(n, how, i) \in Variable
  BY DEF Var, Variable, Types, Printed, Hows
<1>2. stack \in Seq(FrameType) /\ Alike(stack, stack)
  BY DEF Types, Alike
<1>v. PICK V \in VarSets : V = {Var(n, how, i)}
  BY <1>1 DEF VarSets
<1>3. PICK f : f = Frame("VarDecl", c, V)
  OBVIOUS
<1>a. stack' = Append(stack, f) /\ out' = out
  BY <1>v, <1>3 DEF EnterDecl
<1>b. Opens(stack, f) /\ f.kind = "VarDecl" /\ f.code = c /\ f.cpp = V
  BY <1>a, <1>2, <1>3, OpensVar
<1>4. Opens(stack, f) /\ f.kind = "VarDecl" /\ f.code = c /\ f.cpp = {Var(n, how, i)}
  BY <1>v, <1>b
<1>5. NewNames(f)
  <2>1. f.kind \notin {"LabelStmt", "DeclStmt"}
    BY <1>4
  <2>2. \E m \in Names, w \in Hows, b \in BOOLEAN :
          f.cpp = {Var(m, w, b)} /\ (IF f.kind = "VarDecl" THEN w \in Printed ELSE w \notin {"auto", "extern"})
    BY <1>1, <1>4
  <2> QED BY <2>1, <2>2 DEF NewNames
<1>6. f.kind \notin Labels
  BY <1>4 DEF Labels
<1> QED BY <1>4, <1>5, <1>6, Same DEF Plain

\* The names of declared variables.
LEMMA DeclarableNames == Declarable \subseteq Names
BY DEF Declarable

\* VisitVarDecl calls a handler.
LEMMA VarPlain == ASSUME Types, VisitVarDecl PROVE \E f : Plain(f)
<1>1. Does("local") /\ decls' = decls + 1 /\ UNCHANGED <<out, size, loose>>
  BY DEF VisitVarDecl
<1>2. Active /\ Step = <<"local">>
  BY <1>1, DoesFacts
<1>3. PICK n \in Names, c \in VarDeclCode \cup StaticVarDeclCode \cup DecompositionDeclCode, how \in Printed, i \in BOOLEAN :
        EnterDecl(c, Var(n, how, i))
  <2>1. PICK n \in Declarable :
          \/ \E c \in VarDeclCode : EnterDecl(c, Var(n, "auto", <<"expr">> \in {c[i] : i \in DOMAIN c}))
          \/ \E c \in StaticVarDeclCode : EnterDecl(c, Var(n, "static", FALSE))
          \/ \E c \in VarDeclCode : EnterDecl(c, Var(n, "extern", FALSE))
          \/ \E c \in DecompositionDeclCode : EnterDecl(c, Var(n, "auto", TRUE))
    BY DEF VisitVarDecl
  <2>2. n \in Names
    BY DeclarableNames
  <2>3. {"auto", "static", "extern"} \subseteq Printed
    BY DEF Printed
  <2>4. ASSUME NEW c \in VarDeclCode, EnterDecl(c, Var(n, "auto", <<"expr">> \in {c[i] : i \in DOMAIN c}))
        PROVE  \E i \in BOOLEAN : EnterDecl(c, Var(n, "auto", i))
    <3>1. (<<"expr">> \in {c[i] : i \in DOMAIN c}) \in BOOLEAN
      OBVIOUS
    <3>2. PICK b \in BOOLEAN : b = (<<"expr">> \in {c[i] : i \in DOMAIN c})
      BY <3>1
    <3>3. EnterDecl(c, Var(n, "auto", b))
      BY <2>4, <3>2
    <3> QED BY <3>3
  <2> QED BY <2>1, <2>2, <2>3, <2>4
<1> QED BY <1>1, <1>2, <1>3, PlainDecl

\* The declaration of the init-statement of a range-for.
RangeInit(d, f, s) ==
  /\ Len(stack) > 1 /\ d \in stack[Len(stack) - 1].cpp /\ d.how = "later"
  /\ s = [stack EXCEPT ![Len(stack) - 1].cpp = @ \ {d}]
  /\ Opens(s, f) /\ f.kind = "VarDecl" /\ f.cpp = {[d EXCEPT !.how = "auto"]}
  /\ UNCHANGED <<size, decls, loose>>

\* The hidden names of a range-for.
LEMMA HiddenIs ==
  /\ DOMAIN Hidden = {"range", "begin", "end"} /\ \A i \in DOMAIN Hidden : Hidden[i] \in HiddenNames
BY DEF Hidden, HiddenNames

\* VisitRangeVar calls a handler, for a hidden variable or for that of the init-statement.
LEMMA RangeVarOpens ==
  ASSUME Types, HiddenInv, VisitRangeVar
  PROVE  (\E f : Plain(f)) \/ (\E d, f, s : RangeInit(d, f, s))
<1>1. Active /\ Step[1] \in RangeParts /\ Len(Step) = 2 /\ UNCHANGED <<out, size, loose>>
  BY DEF VisitRangeVar, RangeParts
<1>2. Step \in Pairs /\ Step = <<Step[1], "local">>
  <2>1. Step \in All
    BY <1>1, ActiveFacts
  <2>2. Step = <<Step[1]>> \/ Step = <<Step[1], "local">>
    BY <1>1, <2>1, TokenWords
  <2>3. \A x : Len(<<x>>) = 1
    OBVIOUS
  <2> QED BY <1>1, <2>2, <2>3 DEF Pairs
<1>3. PICK n \in Nat : n = Len(stack) /\ n > 0 /\ Top = stack[n] /\ n \in DOMAIN stack
  BY <1>1, ActiveFacts DEF Types
<1>4. n > 1 /\ stack \in Seq(FrameType) /\ Alike(stack, stack)
  <2>1. Top.kind = "DeclStmt" /\ Top.code # <<>> /\ Top.code \in Seq(Tokens(Top.kind)) /\ Step = Head(Top.code)
    BY <1>1, <1>2, ActiveFacts, TokenKinds
  <2>2. 1 \in DOMAIN Top.code /\ Top.code[1] = Step
    BY <2>1
  <2> QED BY <1>2, <1>3, <2>1, <2>2 DEF HiddenInv, Types, Alike
<1>5. PICK c \in VarDeclCode :
        CASE Step[1] \in DOMAIN Hidden ->
               /\ EnterDecl(c, [Var(Hidden[Step[1]], "auto", TRUE) EXCEPT !.id = Len(stack)])
               /\ decls' = decls
          [] Step[1] = "loopvar" ->
               /\ \E m \in Declarable : EnterDecl(c, Var(m, "auto", TRUE))
               /\ decls' = decls + 1
          [] Step[1] = "rangeinit" ->
               /\ \E d \in {d \in stack[Len(stack) - 1].cpp : d.how = "later"} :
                    stack' = Append([stack EXCEPT ![Len(stack) - 1].cpp = @ \ {d}],
                                    Frame("VarDecl", c, {[d EXCEPT !.how = "auto"]}))
               /\ decls' = decls
  BY DEF VisitRangeVar
<1>6. CASE Step[1] \in DOMAIN Hidden
  <2>1. EnterDecl(c, [Var(Hidden[Step[1]], "auto", TRUE) EXCEPT !.id = Len(stack)]) /\ decls' = decls
    BY <1>5, <1>6, HiddenIs
  <2>2. PICK h \in HiddenNames : h = Hidden[Step[1]]
    BY <1>6, HiddenIs
  <2>3. PICK v : v = [Var(h, "auto", TRUE) EXCEPT !.id = Len(stack)]
    OBVIOUS
  <2>4. /\ v \in Variable /\ v.name = h /\ v.id = Len(stack) /\ v.how = "auto" /\ v.init = TRUE
    BY <1>3, <2>3 DEF Var, Variable, Hows
  <2>5. PICK V \in VarSets : V = {v}
    BY <2>4 DEF VarSets
  <2>6. PICK f : f = Frame("VarDecl", c, V)
    OBVIOUS
  <2>7. stack' = Append(stack, f)
    BY <2>1, <2>2, <2>3, <2>5, <2>6 DEF EnterDecl
  <2>8. Opens(stack, f) /\ f.kind = "VarDecl" /\ f.code = c /\ f.cpp = V
    BY <1>1, <1>2, <1>4, <2>6, <2>7, OpensVar
  <2>9. NewNames(f)
    BY <1>2, <2>1, <2>4, <2>5, <2>8 DEF NewNames
  <2>10. f.kind \notin Labels
    BY <2>8 DEF Labels
  <2> QED BY <1>1, <2>8, <2>9, <2>10, Same DEF Plain
<1>7. CASE Step[1] = "loopvar"
  <2>1. PICK m \in Declarable : EnterDecl(c, Var(m, "auto", TRUE)) /\ decls' = decls + 1
    BY <1>5, <1>7, HiddenIs
  <2>2. m \in Names /\ "auto" \in Printed /\ TRUE \in BOOLEAN
    BY DeclarableNames DEF Printed
  <2> QED BY <1>1, <1>2, <2>1, <2>2, PlainDecl
<1>8. CASE Step[1] = "rangeinit"
  <2>1. decls' = decls
    BY <1>5, <1>8, HiddenIs
  <2>2. PICK d \in stack[n - 1].cpp :
          /\ d.how = "later"
          /\ stack' = Append([stack EXCEPT ![n - 1].cpp = @ \ {d}], Frame("VarDecl", c, {[d EXCEPT !.how = "auto"]}))
    BY <1>3, <1>5, <1>8, HiddenIs
  <2>3. PICK s : s = [stack EXCEPT ![n - 1].cpp = @ \ {d}]
    OBVIOUS
  <2>4. stack[n - 1] \in FrameType /\ n - 1 \in 1 .. n
    BY <1>3, <1>4
  <2>5. PICK e : e = [stack[n - 1] EXCEPT !.cpp = @ \ {d}]
    OBVIOUS
  <2>6. e \in FrameType /\ e.kind = stack[n - 1].kind /\ e.code = stack[n - 1].code /\ e.depth = stack[n - 1].depth
        /\ e.coq = stack[n - 1].coq /\ e.nocase = stack[n - 1].nocase
    BY <2>4, <2>5 DEF FrameType
  <2>7. s = [stack EXCEPT ![n - 1] = e]
    BY <2>3, <2>5
  <2>8. s \in Seq(FrameType) /\ Len(s) = n /\ s[n - 1] = e /\ \A i \in 1 .. n : i # n - 1 => s[i] = stack[i]
    BY <1>3, <1>4, <2>4, <2>6, <2>7
  <2>9. Alike(s, stack)
    BY <1>3, <2>4, <2>6, <2>8 DEF Alike
  <2>10. [d EXCEPT !.how = "auto"] \in Variable
    <3>1. d \in Variable
      BY <2>2, <2>4 DEF FrameType
    <3> QED BY <3>1 DEF Variable, Hows
  <2>11. PICK V \in VarSets : V = {[d EXCEPT !.how = "auto"]}
    BY <2>10 DEF VarSets
  <2>12. PICK f : f = Frame("VarDecl", c, V)
    OBVIOUS
  <2>13. stack' = Append(s, f)
    BY <2>2, <2>3, <2>11, <2>12
  <2>14. Opens(s, f) /\ f.kind = "VarDecl" /\ f.code = c /\ f.cpp = V
    BY <1>1, <1>2, <2>8, <2>9, <2>12, <2>13, OpensVar
  <2>15. RangeInit(d, f, s)
    BY <1>1, <1>3, <1>4, <2>1, <2>2, <2>3, <2>11, <2>14 DEF RangeInit
  <2> QED BY <2>15
<1> QED BY <1>1, <1>6, <1>7, <1>8, HiddenIs DEF RangeParts

\* A label and the switch j that it belongs to.
LabelOpens(j, isDefault, f) ==
  /\ j \in InnermostSwitch /\ f.kind \in Labels /\ f.cpp = {}
  /\ Opens(Labelled(j, isDefault), f)
  /\ size < MaxNodes /\ size' = size + 1 /\ decls' = decls
  /\ loose' = (loose \/ stack[Target(Len(stack))].kind # "CompoundStmt")

\* What the label changes in its switch.
LEMMA LabelledFacts ==
  ASSUME Types, NEW j \in InnermostSwitch, NEW isDefault \in BOOLEAN, NEW s, s = Labelled(j, isDefault)
  PROVE  /\ s \in Seq(FrameType) /\ Alike(s, stack) /\ j \in 1 .. Len(stack)
         /\ \A i \in 1 .. Len(stack) : i # j => s[i] = stack[i]
         /\ s[j].cpp = stack[j].cpp /\ s[j].labels = stack[j].labels + 1
         /\ s[j].declared = stack[j].declared
         /\ IF InSwitchBlock(Target(Len(stack)))
            THEN s[j].listed = stack[j].listed + 1 /\ (stack[j].refused => s[j].refused)
            ELSE s[j].listed = stack[j].listed /\ s[j].refused = stack[j].refused
<1>1. stack \in Seq(FrameType) /\ j \in 1 .. Len(stack) /\ stack[j] \in FrameType
  BY DEF Types, InnermostSwitch
<1>2. PICK sw : sw = [stack[j] EXCEPT !.labels = @ + 1, !.default = @ \/ isDefault]
  OBVIOUS
<1>3. /\ sw \in FrameType /\ sw.kind = stack[j].kind /\ sw.code = stack[j].code /\ sw.depth = stack[j].depth
      /\ sw.coq = stack[j].coq /\ sw.nocase = stack[j].nocase /\ sw.cpp = stack[j].cpp /\ sw.declared = stack[j].declared
      /\ sw.labels = stack[j].labels + 1 /\ sw.listed = stack[j].listed /\ sw.refused = stack[j].refused
  <2>1. stack[j].default \in BOOLEAN /\ stack[j].labels \in Nat
    BY <1>1 DEF FrameType
  <2>2. PICK b \in BOOLEAN : b = (stack[j].default \/ isDefault)
    BY <2>1
  <2>a. PICK g \in FrameType, k \in Nat : g = stack[j] /\ k = g.labels + 1
    BY <1>1, <2>1
  <2>3. sw = [g EXCEPT !.labels = k, !.default = b]
    BY <1>1, <1>2, <2>2, <2>a DEF FrameType
  <2>4. /\ sw.kind = g.kind /\ sw.code = g.code /\ sw.depth = g.depth
        /\ sw.coq = g.coq /\ sw.nocase = g.nocase /\ sw.cpp = g.cpp /\ sw.declared = g.declared
        /\ sw.labels = k /\ sw.listed = g.listed /\ sw.refused = g.refused
    BY <2>3 DEF FrameType
  <2>5. sw \in FrameType
    BY <2>3 DEF FrameType
  <2> QED BY <2>a, <2>4, <2>5
<1>4. PICK e : e = SwitchLabel(sw)
  OBVIOUS
<1>5. /\ e \in FrameType /\ e.kind = stack[j].kind /\ e.code = stack[j].code /\ e.depth = stack[j].depth
      /\ e.coq = stack[j].coq /\ e.nocase = stack[j].nocase /\ e.cpp = stack[j].cpp /\ e.declared = stack[j].declared
      /\ e.labels = stack[j].labels + 1 /\ e.listed = stack[j].listed + 1 /\ (stack[j].refused => e.refused)
  <2>1. sw.refused \in BOOLEAN /\ sw.declared \in BOOLEAN /\ sw.listed \in Nat
    BY <1>3 DEF FrameType
  <2>2. PICK b \in BOOLEAN : b = (sw.refused \/ sw.declared)
    BY <2>1
  <2>a. PICK g \in FrameType, k \in Nat : g = sw /\ k = g.listed + 1
    BY <1>3, <2>1
  <2>3. e = [g EXCEPT !.listed = k, !.refused = b]
    BY <1>4, <2>2, <2>a DEF FrameType, SwitchLabel
  <2>4. /\ e.kind = g.kind /\ e.code = g.code /\ e.depth = g.depth
        /\ e.coq = g.coq /\ e.nocase = g.nocase /\ e.cpp = g.cpp /\ e.declared = g.declared
        /\ e.labels = g.labels /\ e.listed = k /\ e.refused = b
    BY <2>3 DEF FrameType
  <2>5. e \in FrameType
    BY <2>3 DEF FrameType
  <2> QED BY <1>3, <2>2, <2>a, <2>4, <2>5
<1>6. CASE InSwitchBlock(Target(Len(stack)))
  <2>1. s = [stack EXCEPT ![j] = e]
    BY <1>2, <1>4, <1>6 DEF Labelled
  <2>2. s \in Seq(FrameType) /\ Len(s) = Len(stack) /\ s[j] = e /\ \A i \in 1 .. Len(stack) : i # j => s[i] = stack[i]
    BY <1>1, <1>5, <2>1
  <2>3. Alike(s, stack)
    BY <1>1, <1>5, <2>2 DEF Alike
  <2> QED BY <1>1, <1>5, <1>6, <2>2, <2>3
<1>7. CASE ~InSwitchBlock(Target(Len(stack)))
  <2>1. s = [stack EXCEPT ![j] = sw]
    BY <1>2, <1>7 DEF Labelled
  <2>2. s \in Seq(FrameType) /\ Len(s) = Len(stack) /\ s[j] = sw /\ \A i \in 1 .. Len(stack) : i # j => s[i] = stack[i]
    BY <1>1, <1>3, <2>1
  <2>3. Alike(s, stack)
    BY <1>1, <1>3, <2>2 DEF Alike
  <2> QED BY <1>1, <1>3, <1>7, <2>2, <2>3
<1> QED BY <1>6, <1>7

\* VisitSwitchCase calls the handler of a label.
LEMMA CaseOpens ==
  ASSUME Types, VisitSwitchCase
  PROVE  \E j, f : \E b \in BOOLEAN : LabelOpens(j, b, f)
<1>1. Does("stmt") /\ size < MaxNodes /\ size' = size + 1 /\ UNCHANGED <<out, decls>>
      /\ loose' = (loose \/ stack[Target(Len(stack))].kind # "CompoundStmt")
  BY DEF VisitSwitchCase
<1>2. Active /\ Step = <<"stmt">> /\ Step \in Calls /\ Step \notin {<<"local">>} \cup Pairs
  BY <1>1, DoesFacts, CallFacts
<1>3. PICK j \in InnermostSwitch :
        \/ \E c \in CaseStmtCode : stack' = Append(Labelled(j, FALSE), Frame("CaseStmt", c, {}))
        \/ \E c \in DefaultStmtCode : stack' = Append(Labelled(j, TRUE), Frame("DefaultStmt", c, {}))
  BY DEF VisitSwitchCase
<1>4. PICK b \in BOOLEAN, kind \in Labels, c \in CaseStmtCode \cup DefaultStmtCode :
        /\ stack' = Append(Labelled(j, b), Frame(kind, c, {}))
        /\ Fits(kind, c, StmtList(0), StmtList(1))
  BY <1>3, CaseFits, DefaultFits DEF Labels
<1>s. PICK s : s = Labelled(j, b)
  OBVIOUS
<1>5. s \in Seq(FrameType) /\ Alike(s, stack)
  BY <1>s, LabelledFacts
<1>6. PICK f : f = Frame(kind, c, {})
  OBVIOUS
<1>7. f.kind = kind /\ f.code = c /\ f.cpp = {}
  BY <1>6 DEF Frame
<1>8. kind \in Kinds \ {"Function"} /\ kind # "VarDecl" /\ kind \notin StmtKinds
  BY DEF Kinds, Labels, StmtKinds
<1>9. Opens(s, f)
  <2>1. {} \in VarSets
    BY DEF VarSets
  <2> QED BY <1>1, <1>2, <1>4, <1>s, <1>5, <1>6, <1>7, <1>8, <2>1 DEF Opens
<1>10. LabelOpens(j, b, f)
  BY <1>1, <1>s, <1>7, <1>9 DEF LabelOpens
<1> QED BY <1>10

\* Append, element by element.
LEMMA AppendFacts ==
  ASSUME NEW S, NEW s \in Seq(S), NEW x \in S, NEW r, r = Append(s, x)
  PROVE  /\ r \in Seq(S) /\ Len(r) = Len(s) + 1 /\ r[Len(s) + 1] = x
         /\ \A i \in 1 .. Len(s) : r[i] = s[i]
OBVIOUS

\* Sequences over a larger set.
LEMMA SeqMono ==
  ASSUME NEW S, NEW T, S \subseteq T, NEW s \in Seq(S)
  PROVE  s \in Seq(T)
OBVIOUS

\* The stack of n handlers once f is called.
Called(s, f, n) ==
  /\ n \in Nat /\ n > 0 /\ DOMAIN stack = 1 .. n
  /\ stack' \in Seq(FrameType) /\ Len(stack') = n + 1 /\ DOMAIN stack' = 1 .. n + 1 /\ stack'[n + 1] = f
  /\ \A j \in 1 .. n : /\ stack'[j] = s[j]
                       /\ stack'[j].kind = stack[j].kind /\ stack'[j].code = stack[j].code
                       /\ stack'[j].depth = stack[j].depth /\ stack'[j].coq = stack[j].coq
                       /\ stack'[j].nocase = stack[j].nocase
  /\ f \in FrameType /\ f.kind # "Function" /\ f.code \in Seq(Tokens(f.kind)) /\ Neutral(f.code)
  /\ f.depth = Len(out) /\ f.coq = {} /\ f.nocase = TRUE /\ f.labels = 0 /\ f.listed = 0
  /\ stack[n].code # <<>> /\ Head(stack[n].code) = Step /\ Step \in Calls

\* The stack after a call.
LEMMA OpensFacts ==
  ASSUME Types, NEW s, NEW f, Opens(s, f), NEW n, n = Len(stack)
  PROVE  Called(s, f, n)
<1>1. n \in Nat /\ n > 0 /\ stack[n].code # <<>> /\ Head(stack[n].code) = Step /\ Step \in Calls
  BY ActiveFacts DEF Opens
<1>2. f.code \in Seq(Tokens(f.kind)) /\ Neutral(f.code) /\ f.kind \in Kinds /\ f.kind # "Function"
  <2>1. f.kind \in Kinds \ {"Function"}
    BY DEF Opens
  <2>2. CASE f.kind \in Labels
    <3>1. Fits(f.kind, f.code, StmtList(0), StmtList(1))
      BY <2>2 DEF Opens
    <3> QED BY <2>1, <3>1, FitsDepth
  <2>3. CASE f.kind = "VarDecl"
    <3>1. Prints(f.kind, f.code, "VarDecl")
      BY <2>3 DEF Opens
    <3> QED BY <2>1, <3>1, PrintsDepth
  <2>4. CASE f.kind \in StmtKinds
    <3>1. Prints(f.kind, f.code, "Stmt")
      BY <2>4 DEF Opens
    <3> QED BY <2>1, <3>1, PrintsDepth
  <2> QED BY <2>1, <2>2, <2>3, <2>4 DEF StmtKinds
<1>3. f.code \in Seq(Texts \cup Uses \cup Calls)
  <2>1. Tokens(f.kind) \subseteq All
    BY <1>2, TokensAll
  <2> QED BY <1>2, <2>1, SeqMono DEF All
<1>4. PICK k, c, V : k = f.kind /\ c = f.code /\ V = f.cpp
  OBVIOUS
<1>5. f = Frame(k, c, V) /\ V \in SUBSET Variable
  BY <1>4 DEF Opens, VarSets
<1>6. Len(out) \in Nat
  BY SeqFirst DEF Types
<1>7. /\ f \in FrameType /\ f.depth = Len(out) /\ f.coq = {} /\ f.nocase = TRUE /\ f.labels = 0 /\ f.listed = 0
  BY <1>2, <1>3, <1>4, <1>5, <1>6 DEF Frame, FrameType, get_depth
<1>8. s \in Seq(FrameType) /\ Len(s) = n /\ stack' = Append(s, f) /\ stack \in Seq(FrameType)
      /\ \A j \in 1 .. n : /\ s[j].kind = stack[j].kind /\ s[j].code = stack[j].code
                           /\ s[j].depth = stack[j].depth /\ s[j].coq = stack[j].coq /\ s[j].nocase = stack[j].nocase
  BY DEF Opens, Alike, Types
<1>9. /\ stack' \in Seq(FrameType) /\ Len(stack') = n + 1 /\ stack'[n + 1] = f
      /\ \A i \in 1 .. n : stack'[i] = s[i]
  BY <1>1, <1>7, <1>8, AppendFacts
<1>10. DOMAIN stack' = 1 .. n + 1 /\ DOMAIN stack = 1 .. n
  BY <1>8, <1>9
<1> QED BY <1>1, <1>2, <1>7, <1>8, <1>9, <1>10 DEF Called

\* The handler at the top goes on with code c.
Goes(c) == stack' = [stack EXCEPT ![Len(stack)].code = c]

\* The stack after the handler at the top has printed something.
LEMMA GoesFacts ==
  ASSUME Types, Active, NEW c \in Seq(Tokens(Top.kind)), Goes(c), NEW n, n = Len(stack)
  PROVE  /\ n \in Nat /\ n > 0 /\ DOMAIN stack = 1 .. n
         /\ stack' \in Seq(FrameType) /\ Len(stack') = n /\ DOMAIN stack' = 1 .. n /\ stack'[n].code = c
         /\ \A j \in 1 .. n - 1 : stack'[j] = stack[j]
         /\ \A j \in 1 .. n :
              /\ stack'[j].kind = stack[j].kind /\ stack'[j].depth = stack[j].depth /\ stack'[j].cpp = stack[j].cpp
              /\ stack'[j].coq = stack[j].coq /\ stack'[j].nocase = stack[j].nocase /\ stack'[j].labels = stack[j].labels
              /\ stack'[j].listed = stack[j].listed /\ stack'[j].refused = stack[j].refused
<1>1. n \in Nat /\ n > 0 /\ stack[n] \in FrameType /\ stack \in Seq(FrameType) /\ Top = stack[n] /\ Top.kind \in Kinds
  BY ActiveFacts DEF Types
<1>2. c \in Seq(Texts \cup Uses \cup Calls)
  <2>1. Tokens(Top.kind) \subseteq All
    BY <1>1, TokensAll
  <2> QED BY <2>1, SeqMono DEF All
<1>3. PICK e : e = [stack[n] EXCEPT !.code = c]
  OBVIOUS
<1>4. /\ e \in FrameType /\ e.code = c /\ e.kind = stack[n].kind /\ e.depth = stack[n].depth /\ e.cpp = stack[n].cpp
      /\ e.coq = stack[n].coq /\ e.nocase = stack[n].nocase /\ e.labels = stack[n].labels
      /\ e.listed = stack[n].listed /\ e.refused = stack[n].refused
  BY <1>1, <1>2, <1>3 DEF FrameType
<1>5. stack' = [stack EXCEPT ![n] = e]
  BY <1>3 DEF Goes
<1>6. /\ stack' \in Seq(FrameType) /\ Len(stack') = n /\ stack'[n] = e
      /\ \A j \in 1 .. n - 1 : stack'[j] = stack[j]
  BY <1>1, <1>4, <1>5
<1>7. DOMAIN stack' = 1 .. n /\ DOMAIN stack = 1 .. n
  BY <1>1, <1>6
<1> QED BY <1>1, <1>4, <1>6, <1>7

\* ResumesTo depends on the handlers only.
LEMMA ResumesSame ==
  ASSUME NEW f, NEW s, NEW t, NEW c \in Nat, c > 0, NEW r, \A i \in 1 .. c : s[i] = t[i], ResumesTo(f, s, c, r)
  PROVE  ResumesTo(f, t, c, r)
<1>1. c \in 1 .. c /\ \A i \in 1 .. c - 1 : i \in 1 .. c
  OBVIOUS
<1>2. s[c] = t[c]
  BY <1>1
<1> QED BY <1>1, <1>2 DEF ResumesTo

\* A handler returns to the one below it.
LEMMA ReturnFacts ==
  ASSUME Types, CallInv, Return, NEW n, n = Len(stack), n > 1, NEW c, c = n - 1
  PROVE  /\ n \in Nat /\ c \in Nat /\ c > 0 /\ n = c + 1 /\ DOMAIN stack = 1 .. n
         /\ Top = stack[n] /\ Top \in FrameType /\ Top.code = <<>>
         /\ stack' \in Seq(FrameType) /\ Len(stack') = c /\ DOMAIN stack' = 1 .. c
         /\ stack[c].code # <<>> /\ Head(stack[c].code) \in Calls
         /\ ResumesTo(Top, stack, c, stack')
<1>1. /\ n \in Nat /\ stack \in Seq(FrameType) /\ DOMAIN stack = 1 .. n /\ Top = stack[n] /\ Top \in FrameType
      /\ Top.code = <<>>
  BY DEF Types, Top, Return, Finished
<1>2. PICK s : s = SubSeq(stack, 1, n - 1)
  OBVIOUS
<1>3. s \in Seq(FrameType) /\ Len(s) = c /\ c \in Nat /\ c > 0 /\ n = c + 1 /\ \A i \in 1 .. c : s[i] = stack[i]
  BY <1>1, <1>2
<1>4. stack[c].code # <<>> /\ Head(stack[c].code) \in Calls
  BY <1>1, <1>3 DEF CallInv
<1>5. Target(c) \in 1 .. c
  <2>1. stack[1].kind \notin Labels
    BY <1>1 DEF CallInv, Labels
  <2>2. IsTarget(stack, c, TargetOf(stack, c))
    BY <1>3, <2>1, TargetFacts
  <2> QED BY <2>2, TargetIs DEF IsTarget
<1>6. s # <<>>
  BY <1>3
<1>7. stack' = Resumed(Top, s)
  BY <1>2, <1>6 DEF Return
<1>8. s[c].code # <<>>
  BY <1>3, <1>4
<1>9. ResumesTo(Top, s, c, stack')
  BY <1>1, <1>3, <1>5, <1>7, <1>8, ResumedFacts
<1>10. ResumesTo(Top, stack, c, stack')
  BY <1>3, <1>9, ResumesSame
<1>11. stack' \in Seq(FrameType) /\ Len(stack') = c
  BY <1>9 DEF ResumesTo
<1>12. DOMAIN stack' = 1 .. c
  BY <1>11
<1> QED BY <1>1, <1>3, <1>4, <1>10, <1>11, <1>12

\* The body of the function is printed.
LEMMA LastReturn ==
  ASSUME Types, CallInv, Return, Len(stack) <= 1
  PROVE  stack' = <<>> /\ out' = out
<1>1. stack \in Seq(FrameType) /\ stack # <<>>
  BY DEF Types, Return
<1>2. Len(stack) = 1 /\ DOMAIN stack = 1 .. 1 /\ Top = stack[1]
  <2>1. Len(stack) \in Nat /\ Len(stack) # 0
    BY <1>1
  <2>2. Len(stack) = 1
    BY <2>1
  <2> QED BY <1>1, <2>2 DEF Top
<1>3. Top.kind = "Function"
  BY <1>2 DEF CallInv
<1>4. SubSeq(stack, 1, Len(stack) - 1) = <<>>
  BY <1>1, <1>2
<1>5. stack' = <<>>
  BY <1>4 DEF Return
<1>6. out' = out
  BY <1>3 DEF Return
<1> QED BY <1>5, <1>6

(***************************************************************************)
(* The steps.                                                              *)
(***************************************************************************)
LEMMA StepCases ==
  ASSUME Types, HiddenInv, Next
  PROVE  \/ \E f : Plain(f)
         \/ \E d, f, s : RangeInit(d, f, s)
         \/ \E j, f : \E b \in BOOLEAN : LabelOpens(j, b, f)
         \/ PrintText \/ PrintExpr \/ VisitOtherDecl \/ VisitStmt \/ Return
BY LeafPlain, TryPlain, DeclPlain, BlockPlain, WithInitPlain, ForRangePlain, RangeDeclPlain, VarPlain,
   RangeVarOpens, CaseOpens DEF Next

(***************************************************************************)
(* Depths and types.                                                       *)
(***************************************************************************)
LEMMA PathEnds ==
  ASSUME NEW T, NEW S, NEW R, NEW c \in Seq(T), NEW a, NEW b, Path(c, S, R, a, b)
  PROVE  a \in S /\ b \in S
<1>1. PICK p \in [1 .. Len(c) + 1 -> S] : p[1] = a /\ p[Len(c) + 1] = b
  BY DEF Path
<1>2. 1 \in 1 .. Len(c) + 1 /\ Len(c) + 1 \in 1 .. Len(c) + 1
  OBVIOUS
<1> QED BY <1>1, <1>2

\* An empty code ends where it starts.
LEMMA PathEmpty ==
  ASSUME NEW S, NEW R, NEW a, NEW b, Path(<<>>, S, R, a, b)
  PROVE  a = b
BY DEF Path

\* A call leaves the depth as it is.
LEMMA CallDelta ==
  ASSUME NEW t \in Calls \cup Uses
  PROVE  Delta(t) = 0
BY DEF Calls, Uses, Delta, Pairs, RangeParts

\* A call and what follows it.
LEMMA DepthStepped ==
  ASSUME NEW T, NEW c \in Seq(T), c # <<>>, Head(c) \in Calls \cup Uses, NEW m, NEW n, DepthPath(c, m, n)
  PROVE  DepthPath(Tail(c), m, n)
<1>1. PICK k \in Depths : <<m, Head(c), k>> \in DepthStep /\ Path(Tail(c), Depths, DepthStep, k, n)
  BY PathStep DEF DepthPath
<1>2. m \in Depths /\ k = m + Delta(Head(c))
  BY <1>1 DEF DepthStep
<1>3. k = m
  BY <1>2, CallDelta DEF Depths
<1> QED BY <1>1, <1>3 DEF DepthPath

\* The depth of the handler at the top.
LEMMA DepthTop ==
  ASSUME Types, DepthInv, stack # <<>>, NEW n, n = Len(stack)
  PROVE  /\ n \in Nat /\ n > 0 /\ Top = stack[n] /\ stack[n].code \in Seq(Tokens(stack[n].kind))
         /\ DepthPath(stack[n].code, Len(out), stack[n].depth)
         /\ Len(out) \in Depths /\ stack[n].depth \in Depths /\ DOMAIN stack = 1 .. n
<1>1. n \in Nat /\ n > 0 /\ DOMAIN stack = 1 .. n /\ Top = stack[n]
  BY DEF Types, Top
<1>2. stack[n].code \in Seq(Tokens(stack[n].kind))
  BY <1>1 DEF Types, FrameOK
<1>3. DepthPath(stack[n].code, Len(out), stack[n].depth)
  BY <1>1 DEF DepthInv
<1>4. Len(out) \in Depths /\ stack[n].depth \in Depths
  BY <1>2, <1>3, PathEnds DEF DepthPath
<1> QED BY <1>1, <1>2, <1>3, <1>4

\* A call preserves DepthInv.
LEMMA OpensDepth ==
  ASSUME Types, DepthInv, NEW s, NEW f, Opens(s, f)
  PROVE  DepthInv'
<1>1. PICK n : n = Len(stack)
  OBVIOUS
<1>2. /\ n \in Nat /\ n > 0 /\ DOMAIN stack = 1 .. n
      /\ Len(stack') = n + 1 /\ DOMAIN stack' = 1 .. n + 1 /\ stack'[n + 1] = f
      /\ \A j \in 1 .. n : stack'[j].code = stack[j].code /\ stack'[j].depth = stack[j].depth
      /\ Neutral(f.code) /\ f.depth = Len(out)
      /\ stack[n].code # <<>> /\ Head(stack[n].code) \in Calls
  <2>1. Called(s, f, n)
    BY <1>1, OpensFacts
  <2> QED BY <2>1 DEF Called
<1>3. stack # <<>> /\ out' = out
  BY DEF Opens, Active
<1>4. /\ stack[n].code \in Seq(Tokens(stack[n].kind)) /\ DepthPath(stack[n].code, Len(out), stack[n].depth)
      /\ Len(out) \in Depths
  BY <1>1, <1>3, DepthTop
<1>5. DepthPath(f.code, Len(out), f.depth)
  BY <1>2, <1>4 DEF Neutral
<1>6. DepthPath(Tail(stack[n].code), f.depth, stack[n].depth)
  <2>1. PICK c, k, e : c = stack[n].code /\ k = stack[n].kind /\ e = stack[n].depth
    OBVIOUS
  <2>2. DepthPath(Tail(c), f.depth, e)
    BY <1>2, <1>4, <2>1, DepthStepped
  <2> QED BY <2>1, <2>2
<1>7. ASSUME NEW j \in 1 .. n + 1 PROVE stack'[j].depth \in Depths
  <2>1. CASE j = n + 1
    BY <1>2, <1>4, <2>1
  <2>2. CASE j # n + 1
    <3>1. j \in 1 .. n /\ j \in DOMAIN stack
      BY <1>2, <2>2
    <3>2. stack[j].depth \in Depths
      BY <3>1 DEF DepthInv
    <3> QED BY <1>2, <3>1, <3>2
  <2> QED BY <2>1, <2>2
<1>8. DepthPath(stack'[Len(stack')].code, Len(out'), stack'[Len(stack')].depth)
  BY <1>2, <1>3, <1>5
<1>9. ASSUME NEW j \in 1 .. n + 1, j < n + 1
      PROVE  DepthPath(Tail(stack'[j].code), stack'[j + 1].depth, stack'[j].depth)
  <2>1. CASE j = n
    BY <1>2, <1>6, <2>1
  <2>2. CASE j < n
    <3>1. j \in 1 .. n /\ j + 1 \in 1 .. n
      BY <1>2, <1>9, <2>2
    <3> QED BY <1>1, <1>2, <2>2, <3>1 DEF DepthInv
  <2> QED BY <1>2, <1>9, <2>1, <2>2
<1> QED BY <1>2, <1>7, <1>8, <1>9 DEF DepthInv, Top

\* Printing preserves DepthInv.
LEMMA GoesDepth ==
  ASSUME Types, DepthInv, Active, NEW c \in Seq(Tokens(Top.kind)), Goes(c), DepthPath(c, Len(out'), Top.depth)
  PROVE  DepthInv'
<1>1. PICK n : n = Len(stack)
  OBVIOUS
<1>2. /\ n \in Nat /\ n > 0 /\ DOMAIN stack = 1 .. n /\ Len(stack') = n /\ DOMAIN stack' = 1 .. n /\ stack'[n].code = c
      /\ \A j \in 1 .. n - 1 : stack'[j] = stack[j]
      /\ \A j \in 1 .. n : stack'[j].depth = stack[j].depth
  BY <1>1, GoesFacts
<1>3. Top = stack[n]
  BY <1>1 DEF Top
<1>4. \A j \in 1 .. n : stack'[j].depth \in Depths
  BY <1>2 DEF DepthInv
<1>5. DepthPath(stack'[Len(stack')].code, Len(out'), stack'[Len(stack')].depth)
  BY <1>2, <1>3
<1>6. ASSUME NEW j \in 1 .. n, j < n
      PROVE  DepthPath(Tail(stack'[j].code), stack'[j + 1].depth, stack'[j].depth)
  <2>1. j \in 1 .. n - 1 /\ j + 1 \in 1 .. n
    BY <1>2, <1>6
  <2> QED BY <1>1, <1>2, <1>6, <2>1 DEF DepthInv
<1> QED BY <1>2, <1>4, <1>5, <1>6 DEF DepthInv, Top

\* The handler at the top prints what it has before c.
Advances(c) ==
  /\ Active /\ Goes(c) /\ c \in Seq(Tokens(Top.kind))
  /\ out' \in Seq(Group) /\ DepthPath(c, Len(out'), Top.depth)
  /\ \E m \in Nat : \A i \in DOMAIN c : i + m \in DOMAIN Top.code /\ c[i] = Top.code[i + m]
  /\ UNCHANGED <<size, decls, loose>>

\* Tail, element by element.
LEMMA TailFacts ==
  ASSUME NEW S, NEW c \in Seq(S), c # <<>>, NEW d, d = Tail(c)
  PROVE  /\ d \in Seq(S) /\ Len(d) = Len(c) - 1
         /\ \A i \in DOMAIN d : i + 1 \in DOMAIN c /\ d[i] = c[i + 1]
OBVIOUS

\* PrintText prints the text that the code starts with.
LEMMA TextAdvances ==
  ASSUME Types, DepthInv, PrintText
  PROVE  \E c : Advances(c)
<1>1. PICK code : code = Top.code
  OBVIOUS
<1>2. Active /\ code \in Seq(Tokens(Top.kind)) /\ Top.kind \in Kinds /\ stack # <<>>
  BY <1>1, ActiveFacts DEF PrintText, Active
<1>3. DepthPath(code, Len(out), Top.depth)
  BY <1>1, <1>2, DepthTop
<1>4. PICK m \in 0 .. Len(code) : /\ Text = SubSeq(code, 1, m) /\ Len(Text) = m
                                 /\ \A k \in 1 .. m : Text[k] = code[k] /\ IsText(code[k])
  BY <1>1, <1>2, TextIs
<1>5. PICK p \in [1 .. m + 1 -> Depths] :
        /\ p[1] = Len(out) /\ \A i \in 1 .. m : <<p[i], code[i], p[i + 1]>> \in DepthStep
        /\ Path(SubSeq(code, m + 1, Len(code)), Depths, DepthStep, p[m + 1], Top.depth)
  <2>1. Splits(code, m, Depths, DepthStep, Len(out), Top.depth)
    BY <1>2, <1>3, PathSplit DEF DepthPath
  <2> QED BY <2>1 DEF Splits
<1>6. Text \in Seq(Texts)
  <2>1. Tokens(Top.kind) \subseteq All
    BY <1>2, TokensAll
  <2>2. \A k \in 1 .. m : code[k] \in All
    BY <1>2, <2>1
  <2>3. \A k \in 1 .. m : Text[k] \in Texts
    BY <1>4, <2>2, TokenWords
  <2>4. Text \in Seq(Tokens(Top.kind))
    BY <1>2, <1>4
  <2>5. DOMAIN Text = 1 .. m /\ Text = [k \in 1 .. m |-> Text[k]]
    BY <1>4, <2>4
  <2> QED BY <2>3, <2>5
<1>7. \A i \in 1 .. m : p[i + 1] = p[i] + Delta(Text[i])
  BY <1>4, <1>5 DEF DepthStep
<1>8. out' = WriteAll(out, Text) /\ out \in Seq(Group)
  BY DEF PrintText, Types
<1>9. out' \in Seq(Group) /\ Len(out') = p[m + 1]
  <2>1. m \in Nat
    OBVIOUS
  <2> QED BY <1>4, <1>5, <1>6, <1>7, <1>8, <2>1, TextDepth
<1>10. PICK c : c = SubSeq(code, m + 1, Len(code))
  OBVIOUS
<1>11. c \in Seq(Tokens(Top.kind)) /\ m \in Nat /\ \A i \in DOMAIN c : i + m \in DOMAIN code /\ c[i] = code[i + m]
  BY <1>2, <1>10
<1>12. DepthPath(c, Len(out'), Top.depth)
  BY <1>5, <1>9, <1>10 DEF DepthPath
<1>13. Goes(c)
  BY <1>1, <1>4, <1>10 DEF Goes, PrintText, Top
<1>14. UNCHANGED <<size, decls, loose>>
  BY DEF PrintText
<1> QED BY <1>1, <1>2, <1>9, <1>11, <1>12, <1>13, <1>14 DEF Advances

\* A call that another module models is skipped.
LEMMA CallAdvances ==
  ASSUME Types, DepthInv, Active, Step \in Calls \cup Uses, stack' = Advanced, UNCHANGED <<size, decls, loose>>,
         out' \in Seq(Group), Len(out') = Len(out)
  PROVE  Advances(Tail(Top.code))
<1>1. PICK code : code = Top.code
  OBVIOUS
<1>2. code \in Seq(Tokens(Top.kind)) /\ code # <<>> /\ Head(code) = Step /\ stack # <<>>
  BY <1>1, ActiveFacts DEF Active
<1>3. DepthPath(code, Len(out), Top.depth)
  BY <1>1, <1>2, DepthTop
<1>4. DepthPath(Tail(code), Len(out'), Top.depth)
  BY <1>2, <1>3, DepthStepped
<1>5. PICK c : c = Tail(code)
  OBVIOUS
<1>6. c \in Seq(Tokens(Top.kind)) /\ 1 \in Nat /\ \A i \in DOMAIN c : i + 1 \in DOMAIN code /\ c[i] = code[i + 1]
  BY <1>2, <1>5, TailFacts
<1>7. Goes(c)
  BY <1>1, <1>5 DEF Goes, Advanced, Top
<1> QED BY <1>1, <1>4, <1>5, <1>6, <1>7 DEF Advances

\* PrintExpr prints an expression.
LEMMA ExprAdvances ==
  ASSUME Types, DepthInv, PrintExpr
  PROVE  Advances(Tail(Top.code))
<1>1. Active /\ Step[1] \in {"expr", "cond", "inc"} /\ out' = word(out, <<"Expr">>) /\ stack' = Advanced
      /\ UNCHANGED <<size, decls, loose>>
  BY DEF PrintExpr
<1>2. Step \in Uses
  BY <1>1, ActiveFacts, TokenWords
<1>3. PICK n : n = Len(out)
  OBVIOUS
<1>4. n \in Nat /\ n > 0 /\ out \in Seq(Group)
  BY <1>1, <1>3, DepthTop DEF Active, Depths, Types
<1>5. out' \in Seq(Group) /\ Len(out') = n
  BY <1>1, <1>3, <1>4, SortSeqs, WordType
<1> QED BY <1>1, <1>2, <1>3, <1>5, CallAdvances

\* VisitOtherDecl prints nothing.
LEMMA OtherDeclAdvances ==
  ASSUME Types, DepthInv, VisitOtherDecl
  PROVE  Advances(Tail(Top.code))
<1>1. Does("local") /\ stack' = Advanced /\ UNCHANGED <<out, size, decls, loose>>
  BY DEF VisitOtherDecl
<1>2. Active /\ Step \in Calls
  BY <1>1, DoesFacts
<1>3. out' \in Seq(Group) /\ Len(out') = Len(out)
  BY <1>1 DEF Types
<1> QED BY <1>1, <1>2, <1>3, CallAdvances

\* A finished handler has the depth it started with.
LEMMA ReturnDepth ==
  ASSUME Types, CallInv, DepthInv, Return
  PROVE  DepthInv' /\ out' \in Seq(Group)
<1>1. stack # <<>> /\ out \in Seq(Group)
  BY DEF Return, Types
<1>2. CASE Len(stack) <= 1
  <2>1. stack' = <<>> /\ out' = out
    BY <1>2, LastReturn
  <2> QED BY <1>1, <2>1 DEF DepthInv
<1>3. CASE Len(stack) > 1
  <2>1. PICK n, c : n = Len(stack) /\ c = n - 1
    OBVIOUS
  <2>2. /\ n \in Nat /\ c \in Nat /\ c > 0 /\ n = c + 1 /\ DOMAIN stack = 1 .. n
        /\ Top = stack[n] /\ Top.code = <<>> /\ Len(stack') = c /\ DOMAIN stack' = 1 .. c
        /\ ResumesTo(Top, stack, c, stack')
    BY <1>3, <2>1, ReturnFacts
  <2>3. /\ stack'[c].code = Tail(stack[c].code)
        /\ \A i \in 1 .. c - 1 : stack'[i].code = stack[i].code
        /\ \A i \in 1 .. c : stack'[i].depth = stack[i].depth
    BY <2>2 DEF ResumesTo
  <2>4. Len(out) = stack[n].depth /\ Len(out) \in Depths
    BY <1>1, <2>1, <2>2, DepthTop, PathEmpty DEF DepthPath
  <2>5. out' \in Seq(Group) /\ Len(out') = Len(out)
    <3>1. PICK k : k = Len(out)
      OBVIOUS
    <3>2. k \in Nat /\ k > 0
      BY <2>4, <3>1 DEF Depths
    <3>3. cons(out) \in Seq(Group) /\ Len(cons(out)) = k
      BY <1>1, <3>1, <3>2, SortSeqs, WordType DEF cons
    <3>4. out' = cons(out) \/ out' = out
      BY DEF Return
    <3> QED BY <1>1, <3>1, <3>3, <3>4
  <2>6. \A j \in 1 .. c : stack'[j].depth \in Depths
    BY <2>2, <2>3 DEF DepthInv
  <2>7. DepthPath(stack'[c].code, Len(out'), stack'[c].depth)
    <3>1. c \in 1 .. n /\ c < Len(stack) /\ c + 1 = n /\ c \in 1 .. c
      BY <2>1, <2>2
    <3> QED BY <2>2, <2>3, <2>4, <2>5, <3>1 DEF DepthInv
  <2>8. ASSUME NEW j \in 1 .. c, j < c
        PROVE  DepthPath(Tail(stack'[j].code), stack'[j + 1].depth, stack'[j].depth)
    <3>1. j \in 1 .. c - 1 /\ j + 1 \in 1 .. c /\ j \in 1 .. n /\ j < Len(stack)
      BY <2>1, <2>2, <2>8
    <3> QED BY <2>2, <2>3, <3>1 DEF DepthInv
  <2> QED BY <2>2, <2>5, <2>6, <2>7, <2>8 DEF DepthInv, Top
<1>4. Len(stack) \in Nat
  BY DEF Types
<1> QED BY <1>2, <1>3, <1>4

(***************************************************************************)
(* Types and calls.                                                        *)
(***************************************************************************)
\* The switches of s are those of t.
SameCounts(s, t) ==
  \A j \in 1 .. Len(t) : s[j].labels = t[j].labels /\ s[j].listed = t[j].listed /\ s[j].refused = t[j].refused

\* What the init-statement of a range-for changes.
LEMMA RangeInitFacts ==
  ASSUME Types, NEW d, NEW f, NEW s, RangeInit(d, f, s), NEW n, n = Len(stack)
  PROVE  /\ n \in Nat /\ n > 1 /\ d \in stack[n - 1].cpp /\ d.how = "later" /\ d \in Variable
         /\ f.kind = "VarDecl" /\ f.cpp = {[d EXCEPT !.how = "auto"]} /\ Opens(s, f)
         /\ SameCounts(s, stack)
         /\ s[n - 1].cpp = stack[n - 1].cpp \ {d} /\ \A j \in 1 .. n : j # n - 1 => s[j].cpp = stack[j].cpp
         /\ UNCHANGED <<size, decls, loose>>
<1>1. /\ n > 1 /\ d \in stack[n - 1].cpp /\ d.how = "later" /\ s = [stack EXCEPT ![n - 1].cpp = @ \ {d}]
      /\ Opens(s, f) /\ f.kind = "VarDecl" /\ f.cpp = {[d EXCEPT !.how = "auto"]} /\ UNCHANGED <<size, decls, loose>>
  BY DEF RangeInit
<1>2. n \in Nat /\ stack \in Seq(FrameType) /\ n - 1 \in 1 .. n /\ stack[n - 1] \in FrameType
  BY <1>1 DEF Types
<1>3. PICK e : e = [stack[n - 1] EXCEPT !.cpp = @ \ {d}]
  OBVIOUS
<1>4. e.cpp = stack[n - 1].cpp \ {d} /\ e.labels = stack[n - 1].labels /\ e.listed = stack[n - 1].listed
      /\ e.refused = stack[n - 1].refused
  BY <1>2, <1>3 DEF FrameType
<1>5. s = [stack EXCEPT ![n - 1] = e]
  BY <1>1, <1>3
<1>6. s[n - 1] = e /\ \A j \in 1 .. n : j # n - 1 => s[j] = stack[j]
  BY <1>2, <1>5
<1>7. SameCounts(s, stack)
  BY <1>2, <1>4, <1>6 DEF SameCounts
<1>8. d \in Variable
  BY <1>1, <1>2 DEF FrameType
<1> QED BY <1>1, <1>2, <1>4, <1>6, <1>7, <1>8

\* The parts of Types.
LEMMA TypesFrom ==
  ASSUME stack' \in Seq(FrameType), out' \in Seq(Group), size' \in Nat, size' <= MaxNodes, decls' \in Nat,
         loose' \in BOOLEAN,
         \A j \in DOMAIN stack' : /\ stack'[j].code \in Seq(Tokens(stack'[j].kind))
                                  /\ stack'[j].listed <= stack'[j].labels /\ stack'[j].labels <= size'
  PROVE  Types'
<1>1. \A j \in DOMAIN stack' : stack'[j] \in FrameType
  OBVIOUS
<1> QED BY <1>1 DEF Types, FrameOK

\* A call preserves Types.
LEMMA OpensTypes ==
  ASSUME Types, NEW s, NEW f, Opens(s, f), size' \in Nat, size' <= MaxNodes, decls' \in Nat, loose' \in BOOLEAN,
         \A j \in 1 .. Len(stack) : s[j].listed <= s[j].labels /\ s[j].labels <= size'
  PROVE  Types'
<1>1. PICK n : n = Len(stack)
  OBVIOUS
<1>2. /\ n \in Nat /\ n > 0 /\ DOMAIN stack = 1 .. n /\ stack' \in Seq(FrameType)
      /\ DOMAIN stack' = 1 .. n + 1 /\ stack'[n + 1] = f
      /\ \A j \in 1 .. n : stack'[j] = s[j] /\ stack'[j].kind = stack[j].kind /\ stack'[j].code = stack[j].code
      /\ f.code \in Seq(Tokens(f.kind)) /\ f.labels = 0 /\ f.listed = 0
  <2>1. Called(s, f, n)
    BY <1>1, OpensFacts
  <2> QED BY <2>1 DEF Called
<1>3. out' \in Seq(Group)
  BY DEF Types, Opens
<1>4. ASSUME NEW j \in DOMAIN stack'
      PROVE  /\ stack'[j].code \in Seq(Tokens(stack'[j].kind))
             /\ stack'[j].listed <= stack'[j].labels /\ stack'[j].labels <= size'
  <2>1. CASE j = n + 1
    BY <1>2, <2>1
  <2>2. CASE j \in 1 .. n
    <3>1. stack[j].code \in Seq(Tokens(stack[j].kind))
      BY <1>2, <2>2 DEF Types, FrameOK
    <3> QED BY <1>1, <1>2, <2>2, <3>1
  <2> QED BY <1>2, <2>1, <2>2
<1> QED BY <1>2, <1>3, <1>4, TypesFrom

\* A call of a handler preserves Types.
LEMMA PlainTypes ==
  ASSUME Types, NEW f, Plain(f)
  PROVE  Types'
<1>1. Opens(stack, f) /\ size' \in Nat /\ size <= size' /\ size' <= MaxNodes /\ loose' \in BOOLEAN /\ NewNames(f)
  BY DEF Plain, Types
<1>2. decls' \in Nat
  BY <1>1 DEF NewNames, Types
<1>3. \A j \in 1 .. Len(stack) : stack[j].listed <= stack[j].labels /\ stack[j].labels <= size'
  <2>1. \A j \in 1 .. Len(stack) : stack[j].listed <= stack[j].labels /\ stack[j].labels <= size /\ stack[j].labels \in Nat
    BY DEF Types, FrameOK, FrameType
  <2>2. size \in Nat
    BY DEF Types
  <2> QED BY <1>1, <2>1, <2>2
<1> QED BY <1>1, <1>2, <1>3, OpensTypes

\* The init-statement of a range-for preserves Types.
LEMMA RangeInitTypes ==
  ASSUME Types, NEW d, NEW f, NEW s, RangeInit(d, f, s)
  PROVE  Types'
<1>1. Opens(s, f) /\ SameCounts(s, stack) /\ UNCHANGED <<size, decls, loose>>
  BY RangeInitFacts
<1>2. size' \in Nat /\ size' <= MaxNodes /\ decls' \in Nat /\ loose' \in BOOLEAN
  BY <1>1 DEF Types
<1>3. \A j \in 1 .. Len(stack) : s[j].listed <= s[j].labels /\ s[j].labels <= size'
  BY <1>1 DEF SameCounts, Types, FrameOK
<1> QED BY <1>1, <1>2, <1>3, OpensTypes

\* A label preserves Types.
LEMMA LabelTypes ==
  ASSUME Types, NEW j, NEW b \in BOOLEAN, NEW f, LabelOpens(j, b, f)
  PROVE  Types'
<1>1. PICK s : s = Labelled(j, b)
  OBVIOUS
<1>2. /\ Opens(s, f) /\ j \in InnermostSwitch /\ size < MaxNodes /\ size' = size + 1 /\ decls' = decls
      /\ loose' \in BOOLEAN
  <2>1. loose' = (loose \/ stack[Target(Len(stack))].kind # "CompoundStmt")
    BY DEF LabelOpens
  <2>2. loose' \in BOOLEAN
    BY <2>1 DEF Types
  <2> QED BY <1>1, <2>2 DEF LabelOpens
<1>3. size' \in Nat /\ size' <= MaxNodes /\ decls' \in Nat
  BY <1>2, PrintStmtAssumption DEF Types
<1>4. ASSUME NEW i \in 1 .. Len(stack)
      PROVE  s[i].listed <= s[i].labels /\ s[i].labels <= size'
  <2>1. /\ stack[i].listed \in Nat /\ stack[i].labels \in Nat /\ size \in Nat
        /\ stack[i].listed <= stack[i].labels /\ stack[i].labels <= size
    BY DEF Types, FrameOK, FrameType
  <2>2. CASE i # j
    <3>1. s[i] = stack[i]
      BY <1>1, <1>2, <2>2, LabelledFacts
    <3> QED BY <1>2, <2>1, <3>1
  <2>3. CASE i = j
    <3>1. s[j].labels = stack[j].labels + 1 /\ (s[j].listed = stack[j].listed \/ s[j].listed = stack[j].listed + 1)
      BY <1>1, <1>2, LabelledFacts
    <3> QED BY <1>2, <2>1, <2>3, <3>1
  <2> QED BY <2>2, <2>3
<1> QED BY <1>2, <1>3, <1>4, OpensTypes

\* Printing a text, an expression or nothing preserves Types.
LEMMA AdvancesTypes ==
  ASSUME Types, NEW c, Advances(c)
  PROVE  Types'
<1>1. Active /\ Goes(c) /\ c \in Seq(Tokens(Top.kind)) /\ out' \in Seq(Group) /\ UNCHANGED <<size, decls, loose>>
  BY DEF Advances
<1>2. PICK n : n = Len(stack)
  OBVIOUS
<1>3. /\ n \in Nat /\ n > 0 /\ DOMAIN stack = 1 .. n /\ stack' \in Seq(FrameType) /\ DOMAIN stack' = 1 .. n
      /\ stack'[n].code = c /\ \A j \in 1 .. n - 1 : stack'[j] = stack[j]
      /\ \A j \in 1 .. n : /\ stack'[j].kind = stack[j].kind /\ stack'[j].labels = stack[j].labels
                           /\ stack'[j].listed = stack[j].listed
  BY <1>1, <1>2, GoesFacts
<1>4. Top = stack[n]
  BY <1>2 DEF Top
<1>5. ASSUME NEW j \in DOMAIN stack'
      PROVE  /\ stack'[j].code \in Seq(Tokens(stack'[j].kind))
             /\ stack'[j].listed <= stack'[j].labels /\ stack'[j].labels <= size'
  <2>1. stack'[j].listed <= stack'[j].labels /\ stack'[j].labels <= size'
    BY <1>1, <1>3 DEF Types, FrameOK
  <2>2. CASE j = n
    BY <1>1, <1>3, <1>4, <2>1, <2>2
  <2>3. CASE j # n
    <3>1. stack[j].code \in Seq(Tokens(stack[j].kind)) /\ stack'[j] = stack[j]
      BY <1>3, <2>3 DEF Types, FrameOK
    <3> QED BY <2>1, <3>1
  <2> QED BY <2>2, <2>3
<1>6. size' \in Nat /\ size' <= MaxNodes /\ decls' \in Nat /\ loose' \in BOOLEAN
  BY <1>1 DEF Types
<1> QED BY <1>1, <1>3, <1>5, <1>6, TypesFrom

\* A return preserves Types.
LEMMA ReturnTypes ==
  ASSUME Types, CallInv, DepthInv, Return
  PROVE  Types'
<1>1. out' \in Seq(Group) /\ UNCHANGED <<size, decls, loose>>
  BY ReturnDepth DEF Return
<1>2. size' \in Nat /\ size' <= MaxNodes /\ decls' \in Nat /\ loose' \in BOOLEAN
  BY <1>1 DEF Types
<1>3. CASE Len(stack) <= 1
  <2>1. stack' = <<>>
    BY <1>3, LastReturn
  <2>2. stack' \in Seq(FrameType) /\ DOMAIN stack' = {}
    BY <2>1
  <2> QED BY <1>1, <1>2, <2>2, TypesFrom
<1>4. CASE Len(stack) > 1
  <2>1. PICK n, c : n = Len(stack) /\ c = n - 1
    OBVIOUS
  <2>2. /\ n \in Nat /\ c \in Nat /\ c > 0 /\ n = c + 1 /\ DOMAIN stack = 1 .. n
        /\ stack' \in Seq(FrameType) /\ DOMAIN stack' = 1 .. c /\ stack[c].code # <<>>
        /\ ResumesTo(Top, stack, c, stack')
    BY <1>4, <2>1, ReturnFacts
  <2>3. /\ stack'[c].code = Tail(stack[c].code)
        /\ \A i \in 1 .. c - 1 : stack'[i].code = stack[i].code
        /\ \A i \in 1 .. c : /\ stack'[i].kind = stack[i].kind /\ stack'[i].labels = stack[i].labels
                             /\ stack'[i].listed = stack[i].listed
    BY <2>2 DEF ResumesTo
  <2>4. ASSUME NEW j \in DOMAIN stack'
        PROVE  /\ stack'[j].code \in Seq(Tokens(stack'[j].kind))
               /\ stack'[j].listed <= stack'[j].labels /\ stack'[j].labels <= size'
    <3>1. j \in 1 .. n /\ j \in 1 .. c
      BY <2>2
    <3>2. stack'[j].listed <= stack'[j].labels /\ stack'[j].labels <= size'
      BY <1>1, <2>2, <2>3, <3>1 DEF Types, FrameOK
    <3>3. stack[j].code \in Seq(Tokens(stack[j].kind))
      BY <2>2, <3>1 DEF Types, FrameOK
    <3>4. CASE j = c
      <4>1. Tail(stack[c].code) \in Seq(Tokens(stack[c].kind))
        BY <2>2, <3>3, <3>4, TailFacts
      <4> QED BY <2>2, <2>3, <3>1, <3>2, <3>4, <4>1
    <3>5. CASE j \in 1 .. c - 1
      BY <2>3, <3>1, <3>2, <3>3, <3>5
    <3> QED BY <2>2, <3>1, <3>4, <3>5
  <2> QED BY <1>1, <1>2, <2>2, <2>4, TypesFrom
<1>5. Len(stack) \in Nat
  BY DEF Types
<1> QED BY <1>3, <1>4, <1>5

\* A call preserves CallInv.
LEMMA OpensCalls ==
  ASSUME Types, CallInv, NEW s, NEW f, Opens(s, f)
  PROVE  CallInv'
<1>1. PICK n : n = Len(stack)
  OBVIOUS
<1>2. /\ n \in Nat /\ n > 0 /\ DOMAIN stack = 1 .. n
      /\ Len(stack') = n + 1 /\ DOMAIN stack' = 1 .. n + 1 /\ stack'[n + 1] = f
      /\ \A j \in 1 .. n : stack'[j].kind = stack[j].kind /\ stack'[j].code = stack[j].code
      /\ f.kind # "Function" /\ stack[n].code # <<>> /\ Head(stack[n].code) = Step /\ Step \in Calls
  <2>1. Called(s, f, n)
    BY <1>1, OpensFacts
  <2> QED BY <2>1 DEF Called
<1>3. f.kind = "VarDecl" <=> Step \in {<<"local">>} \cup Pairs
  BY DEF Opens
<1>4. \A j \in 1 .. n + 1 : stack'[j].kind = "Function" <=> j = 1
  BY <1>2 DEF CallInv
<1>5. ASSUME NEW j \in 1 .. n + 1, j < n + 1
      PROVE  /\ stack'[j].code # <<>> /\ Head(stack'[j].code) \in Calls
             /\ stack'[j + 1].kind = "VarDecl" <=> Head(stack'[j].code) \in {<<"local">>} \cup Pairs
  <2>1. CASE j = n
    BY <1>2, <1>3, <2>1
  <2>2. CASE j < n
    <3>1. j \in 1 .. n /\ j + 1 \in 1 .. n
      BY <1>2, <2>2
    <3> QED BY <1>1, <1>2, <2>2, <3>1 DEF CallInv
  <2> QED BY <1>2, <1>5, <2>1, <2>2
<1> QED BY <1>2, <1>4, <1>5 DEF CallInv

\* Printing a text, an expression or nothing preserves CallInv.
LEMMA AdvancesCalls ==
  ASSUME Types, CallInv, NEW c, Advances(c)
  PROVE  CallInv'
<1>1. Active /\ Goes(c) /\ c \in Seq(Tokens(Top.kind))
  BY DEF Advances
<1>2. PICK n : n = Len(stack)
  OBVIOUS
<1>3. /\ n \in Nat /\ n > 0 /\ DOMAIN stack = 1 .. n /\ Len(stack') = n /\ DOMAIN stack' = 1 .. n
      /\ \A j \in 1 .. n - 1 : stack'[j] = stack[j]
      /\ \A j \in 1 .. n : stack'[j].kind = stack[j].kind
  BY <1>1, <1>2, GoesFacts
<1>4. \A j \in 1 .. n : stack'[j].kind = "Function" <=> j = 1
  BY <1>3 DEF CallInv
<1>5. ASSUME NEW j \in 1 .. n, j < n
      PROVE  /\ stack'[j].code # <<>> /\ Head(stack'[j].code) \in Calls
             /\ stack'[j + 1].kind = "VarDecl" <=> Head(stack'[j].code) \in {<<"local">>} \cup Pairs
  <2>1. j \in 1 .. n - 1 /\ j + 1 \in 1 .. n
    BY <1>3, <1>5
  <2> QED BY <1>2, <1>3, <1>5, <2>1 DEF CallInv
<1> QED BY <1>3, <1>4, <1>5 DEF CallInv

\* A return preserves CallInv.
LEMMA ReturnCalls ==
  ASSUME Types, CallInv, Return
  PROVE  CallInv'
<1>1. CASE Len(stack) <= 1
  <2>1. stack' = <<>>
    BY <1>1, LastReturn
  <2>2. DOMAIN stack' = {}
    BY <2>1
  <2> QED BY <2>2 DEF CallInv
<1>2. CASE Len(stack) > 1
  <2>1. PICK n, c : n = Len(stack) /\ c = n - 1
    OBVIOUS
  <2>2. /\ n \in Nat /\ c \in Nat /\ c > 0 /\ n = c + 1 /\ DOMAIN stack = 1 .. n
        /\ Len(stack') = c /\ DOMAIN stack' = 1 .. c /\ ResumesTo(Top, stack, c, stack')
    BY <1>2, <2>1, ReturnFacts
  <2>3. /\ \A i \in 1 .. c - 1 : stack'[i].code = stack[i].code
        /\ \A i \in 1 .. c : stack'[i].kind = stack[i].kind
    BY <2>2 DEF ResumesTo
  <2>4. \A j \in 1 .. c : stack'[j].kind = "Function" <=> j = 1
    BY <2>2, <2>3 DEF CallInv
  <2>5. ASSUME NEW j \in 1 .. c, j < c
        PROVE  /\ stack'[j].code # <<>> /\ Head(stack'[j].code) \in Calls
               /\ stack'[j + 1].kind = "VarDecl" <=> Head(stack'[j].code) \in {<<"local">>} \cup Pairs
    <3>1. j \in 1 .. c - 1 /\ j + 1 \in 1 .. c /\ j < n /\ j \in 1 .. n
      BY <2>2, <2>5
    <3> QED BY <2>1, <2>2, <2>3, <3>1 DEF CallInv
  <2> QED BY <2>2, <2>4, <2>5 DEF CallInv
<1>3. Len(stack) \in Nat
  BY DEF Types
<1> QED BY <1>1, <1>2, <1>3

(***************************************************************************)
(* The hidden variables of a range-for.                                    *)
(***************************************************************************)

(***************************************************************************)
(* The hidden variables of a range-for.                                    *)
(***************************************************************************)
LEMMA HiddenPlaceSame ==
  ASSUME NEW s, NEW t, NEW j \in Nat, j > 0, \A i \in 1 .. j : s[i].kind = t[i].kind, NEW d, HiddenPlace(s, j, d)
  PROVE  HiddenPlace(t, j, d)
<1>1. j \in 1 .. j /\ (j > 1 => j - 1 \in 1 .. j) /\ (j > 2 => j - 2 \in 1 .. j)
  OBVIOUS
<1> QED BY <1>1 DEF HiddenPlace

\* No variable of the source has a hidden name.
LEMMA NamesApart ==
  ASSUME NEW m \in Names
  PROVE  m \notin HiddenNames
BY PrintStmtAssumption DEF HiddenNames

\* The hidden variables of a new handler.
LEMMA NewHidden ==
  ASSUME Types, HiddenInv, NEW f, Plain(f), NEW n, n = Len(stack)
  PROVE  /\ f.kind = "DeclStmt" /\ (\E i \in DOMAIN f.code : f.code[i] \in Pairs) => stack[n].kind = "CXXForRangeStmt"
         /\ \A d \in f.cpp : d.name \in HiddenNames =>
              /\ d.how = "auto" /\ d.init = TRUE /\ f.kind = "VarDecl" /\ d.id = n /\ n > 1
              /\ stack[n].kind = "DeclStmt" /\ stack[n - 1].kind = "CXXForRangeStmt"
<1>1. Active /\ NewNames(f) /\ Top = stack[n]
  BY DEF Plain, Opens, Top
<1>2. f.kind = "DeclStmt" /\ (\E i \in DOMAIN f.code : f.code[i] \in Pairs) => stack[n].kind = "CXXForRangeStmt"
  BY <1>1 DEF NewNames
<1>3. ASSUME NEW d \in f.cpp, d.name \in HiddenNames
      PROVE  /\ d.how = "auto" /\ d.init = TRUE /\ f.kind = "VarDecl" /\ d.id = n /\ n > 1
             /\ stack[n].kind = "DeclStmt" /\ stack[n - 1].kind = "CXXForRangeStmt"
  <2>1. ~\E m \in Names, how \in Hows, i \in BOOLEAN : f.cpp = {Var(m, how, i)}
    <3>1. SUFFICES ASSUME NEW m \in Names, NEW how \in Hows, NEW i \in BOOLEAN, f.cpp = {Var(m, how, i)}
                   PROVE  FALSE
      OBVIOUS
    <3>2. d.name = m
      BY <3>1 DEF Var
    <3> QED BY <1>3, <3>2, NamesApart
  <2>2. f.kind = "VarDecl" /\ Step \in Pairs /\ d.id = Len(stack) /\ d.how = "auto" /\ d.init = TRUE
    BY <1>1, <1>3, <2>1 DEF NewNames
  <2>3. /\ n \in Nat /\ n > 0 /\ Top.kind \in Kinds /\ Top.code \in Seq(Tokens(Top.kind)) /\ Top.code # <<>>
        /\ Step = Head(Top.code) /\ Step \in Tokens(Top.kind)
    BY <1>1, ActiveFacts
  <2>4. Top.kind = "DeclStmt"
    BY <2>2, <2>3, TokenKinds
  <2>5. 1 \in DOMAIN Top.code /\ Top.code[1] \in Pairs
    BY <2>2, <2>3
  <2>6. n \in DOMAIN stack
    BY <2>3 DEF Types
  <2> QED BY <1>1, <2>2, <2>4, <2>5, <2>6 DEF HiddenInv
<1> QED BY <1>2, <1>3

\* A call preserves HiddenInv.
LEMMA OpensHidden ==
  ASSUME Types, HiddenInv, NEW s, NEW f, Opens(s, f), NEW n, n = Len(stack),
         \A j \in 1 .. n : s[j].cpp \subseteq stack[j].cpp,
         f.kind = "DeclStmt" /\ (\E i \in DOMAIN f.code : f.code[i] \in Pairs) => stack[n].kind = "CXXForRangeStmt",
         \A d \in f.cpp : d.name \in HiddenNames =>
              /\ d.how = "auto" /\ d.init = TRUE /\ f.kind = "VarDecl" /\ d.id = n /\ n > 1
              /\ stack[n].kind = "DeclStmt" /\ stack[n - 1].kind = "CXXForRangeStmt"
  PROVE  HiddenInv'
<1>2. /\ n \in Nat /\ n > 0 /\ DOMAIN stack = 1 .. n
      /\ DOMAIN stack' = 1 .. n + 1 /\ stack'[n + 1] = f
      /\ \A j \in 1 .. n : stack'[j].kind = stack[j].kind /\ stack'[j].code = stack[j].code /\ stack'[j] = s[j]
  <2>1. Called(s, f, n)
    BY OpensFacts
  <2> QED BY <2>1 DEF Called
<1>3. ASSUME NEW j \in 1 .. n + 1
      PROVE  /\ stack'[j].kind = "DeclStmt" /\ (\E i \in DOMAIN stack'[j].code : stack'[j].code[i] \in Pairs) =>
                  j > 1 /\ stack'[j - 1].kind = "CXXForRangeStmt"
             /\ \A d \in stack'[j].cpp :
                  d.name \in HiddenNames => d.how = "auto" /\ d.init = TRUE /\ HiddenPlace(stack', j, d)
  <2>1. CASE j = n + 1
    <3>1. n \in 1 .. n /\ (n > 1 => n - 1 \in 1 .. n) /\ j - 1 = n /\ j - 2 = n - 1
      BY <1>2, <2>1
    <3>2. \A d \in f.cpp : d.name \in HiddenNames => HiddenPlace(stack', j, d)
      BY <1>2, <2>1, <3>1 DEF HiddenPlace
    <3> QED BY <1>2, <2>1, <3>1, <3>2
  <2>2. CASE j \in 1 .. n
    <3>1. j \in Nat /\ j > 0 /\ (j > 1 => j - 1 \in 1 .. n) /\ \A i \in 1 .. j : i \in 1 .. n
      BY <1>2, <2>2
    <3>2. \A i \in 1 .. j : stack[i].kind = stack'[i].kind
      BY <1>2, <3>1
    <3>3. stack'[j].cpp \subseteq stack[j].cpp
      BY <1>2, <2>2
    <3>4. \A d \in stack'[j].cpp :
                  d.name \in HiddenNames => d.how = "auto" /\ d.init = TRUE /\ HiddenPlace(stack, j, d)
      BY <1>2, <2>2, <3>3 DEF HiddenInv
    <3>5. \A d : HiddenPlace(stack, j, d) => HiddenPlace(stack', j, d)
      BY <3>1, <3>2, HiddenPlaceSame
    <3>6. stack[j].kind = "DeclStmt" /\ (\E i \in DOMAIN stack[j].code : stack[j].code[i] \in Pairs) =>
                  j > 1 /\ stack[j - 1].kind = "CXXForRangeStmt"
      BY <1>2, <2>2 DEF HiddenInv
    <3>7. stack'[j].kind = stack[j].kind /\ stack'[j].code = stack[j].code
          /\ (j > 1 => stack'[j - 1].kind = stack[j - 1].kind)
      BY <1>2, <2>2, <3>1
    <3>8. stack'[j].kind = "DeclStmt" /\ (\E i \in DOMAIN stack'[j].code : stack'[j].code[i] \in Pairs) =>
                  j > 1 /\ stack'[j - 1].kind = "CXXForRangeStmt"
      BY <3>6, <3>7, Zenon
    <3>9. \A d \in stack'[j].cpp :
                  d.name \in HiddenNames => d.how = "auto" /\ d.init = TRUE /\ HiddenPlace(stack', j, d)
      BY <3>4, <3>5, Zenon
    <3> QED BY <3>8, <3>9, Zenon
  <2>3. j = n + 1 \/ j \in 1 .. n
    BY <1>2
  <2> QED BY <2>1, <2>2, <2>3, Zenon
<1> QED BY <1>2, <1>3 DEF HiddenInv

\* A call of a handler preserves HiddenInv.
LEMMA PlainHidden ==
  ASSUME Types, HiddenInv, NEW f, Plain(f)
  PROVE  HiddenInv'
<1>1. PICK n : n = Len(stack)
  OBVIOUS
<1>2. /\ f.kind = "DeclStmt" /\ (\E i \in DOMAIN f.code : f.code[i] \in Pairs) => stack[n].kind = "CXXForRangeStmt"
      /\ \A d \in f.cpp : d.name \in HiddenNames =>
           /\ d.how = "auto" /\ d.init = TRUE /\ f.kind = "VarDecl" /\ d.id = n /\ n > 1
           /\ stack[n].kind = "DeclStmt" /\ stack[n - 1].kind = "CXXForRangeStmt"
  BY <1>1, NewHidden
<1>3. Opens(stack, f) /\ \A j \in 1 .. n : stack[j].cpp \subseteq stack[j].cpp
  BY DEF Plain
<1> QED BY <1>1, <1>2, <1>3, OpensHidden

\* The init-statement of a range-for preserves HiddenInv.
LEMMA RangeInitHidden ==
  ASSUME Types, HiddenInv, NEW d, NEW f, NEW s, RangeInit(d, f, s)
  PROVE  HiddenInv'
<1>1. PICK n : n = Len(stack)
  OBVIOUS
<1>2. /\ n \in Nat /\ n > 1 /\ d \in stack[n - 1].cpp /\ d.how = "later" /\ d \in Variable
      /\ f.kind = "VarDecl" /\ f.cpp = {[d EXCEPT !.how = "auto"]} /\ Opens(s, f)
      /\ s[n - 1].cpp = stack[n - 1].cpp \ {d} /\ \A j \in 1 .. n : j # n - 1 => s[j].cpp = stack[j].cpp
  BY <1>1, RangeInitFacts
<1>3. d.name \notin HiddenNames
  <2>1. n - 1 \in DOMAIN stack
    BY <1>1, <1>2 DEF Types
  <2> QED BY <1>2, <2>1 DEF HiddenInv
<1>4. \A e \in f.cpp : e.name \notin HiddenNames
  BY <1>2, <1>3 DEF Variable
<1>5. \A j \in 1 .. n : s[j].cpp \subseteq stack[j].cpp
  BY <1>2
<1> QED BY <1>1, <1>2, <1>4, <1>5, OpensHidden

\* A label preserves HiddenInv.
LEMMA LabelHidden ==
  ASSUME Types, HiddenInv, NEW j, NEW b \in BOOLEAN, NEW f, LabelOpens(j, b, f)
  PROVE  HiddenInv'
<1>1. PICK n, s : n = Len(stack) /\ s = Labelled(j, b)
  OBVIOUS
<1>2. /\ Opens(s, f) /\ j \in InnermostSwitch /\ f.cpp = {} /\ f.kind # "DeclStmt"
  BY <1>1 DEF LabelOpens, Labels
<1>3. \A i \in 1 .. n : s[i].cpp \subseteq stack[i].cpp
  <2>1. s[j].cpp = stack[j].cpp /\ \A i \in 1 .. n : i # j => s[i] = stack[i]
    BY <1>1, <1>2, LabelledFacts
  <2> QED BY <2>1
<1> QED BY <1>1, <1>2, <1>3, OpensHidden

\* Printing a text, an expression or nothing preserves HiddenInv.
LEMMA AdvancesHidden ==
  ASSUME Types, HiddenInv, NEW c, Advances(c)
  PROVE  HiddenInv'
<1>1. Active /\ Goes(c) /\ c \in Seq(Tokens(Top.kind))
      /\ \A i \in DOMAIN c : \E k \in DOMAIN Top.code : c[i] = Top.code[k]
  BY DEF Advances
<1>2. PICK n : n = Len(stack)
  OBVIOUS
<1>3. /\ n \in Nat /\ n > 0 /\ DOMAIN stack = 1 .. n /\ DOMAIN stack' = 1 .. n /\ stack'[n].code = c
      /\ \A j \in 1 .. n - 1 : stack'[j] = stack[j]
      /\ \A j \in 1 .. n : stack'[j].kind = stack[j].kind /\ stack'[j].cpp = stack[j].cpp
  BY <1>1, <1>2, GoesFacts
<1>4. ASSUME NEW j \in 1 .. n
      PROVE  /\ stack'[j].kind = "DeclStmt" /\ (\E i \in DOMAIN stack'[j].code : stack'[j].code[i] \in Pairs) =>
                  j > 1 /\ stack'[j - 1].kind = "CXXForRangeStmt"
             /\ \A d \in stack'[j].cpp :
                  d.name \in HiddenNames => d.how = "auto" /\ d.init = TRUE /\ HiddenPlace(stack', j, d)
  <2>1. j \in Nat /\ j > 0 /\ (j > 1 => j - 1 \in 1 .. n) /\ \A i \in 1 .. j : i \in 1 .. n
    BY <1>3
  <2>2. \A i \in 1 .. j : stack[i].kind = stack'[i].kind
    BY <1>3, <2>1
  <2>3. \A d : HiddenPlace(stack, j, d) => HiddenPlace(stack', j, d)
    BY <2>1, <2>2, HiddenPlaceSame
  <2>4. (\E i \in DOMAIN stack'[j].code : stack'[j].code[i] \in Pairs) => \E i \in DOMAIN stack[j].code : stack[j].code[i] \in Pairs
    <3>1. CASE j = n
      BY <1>1, <1>2, <1>3, <3>1 DEF Top
    <3>2. CASE j # n
      BY <1>3, <3>2
    <3> QED BY <3>1, <3>2
  <2> QED BY <1>3, <2>1, <2>3, <2>4 DEF HiddenInv
<1> QED BY <1>3, <1>4 DEF HiddenInv

(***************************************************************************)
(* What a finished handler hands to its caller.                            *)
(***************************************************************************)
Handed(f, d) ==
  IF f.kind = "LabelStmt" THEN [d EXCEPT !.how = IF @ = "static" THEN @ ELSE "labelled"] ELSE d

\* What becomes of a variable that is handed to the caller.
LEMMA HandedFacts ==
  ASSUME NEW f, NEW d \in Variable, NEW e, e = Handed(f, d)
  PROVE  /\ e \in Variable /\ e.name = d.name /\ e.id = d.id /\ e.init = d.init
         /\ f.kind # "LabelStmt" => e = d
         /\ f.kind = "LabelStmt" => e.how \in {"static", "labelled"} /\ (e.how = "static" <=> d.how = "static")
BY DEF Handed, Variable, Hows

\* What a handler leaves is what it has.
LEMMA LeftHanded ==
  ASSUME NEW f
  PROVE  /\ CppLeft(f) \subseteq {Handed(f, d) : d \in f.cpp}
         /\ f.kind \notin {"VarDecl", "DeclStmt", "LabelStmt"} \cup Labels => CppLeft(f) = {} /\ CoqLeft(f) = {}
BY DEF CppLeft, CoqLeft, Handed, Labels

\* A caller keeps part of what it is handed.
LEMMA KeepsIn == \A e, S, k : Keeps(e, S, k) \subseteq S
BY DEF Keeps

\* The variables of the caller afterwards.
LEMMA ResumedVars ==
  ASSUME NEW f \in FrameType, NEW s, NEW c \in Nat, NEW r, ResumesTo(f, s, c, r), NEW e \in r[c].cpp, e \notin s[c].cpp
  PROVE  /\ \E d \in f.cpp : e = Handed(f, d) /\ d \in Variable
         /\ f.kind \in {"VarDecl", "DeclStmt", "LabelStmt"} \cup Labels
<1>1. e \in Keeps(s[c], CppLeft(f), {"LabelStmt"})
  BY DEF ResumesTo
<1>2. e \in CppLeft(f)
  BY <1>1, KeepsIn
<1>3. f.cpp \subseteq Variable
  BY DEF FrameType
<1> QED BY <1>2, <1>3, LeftHanded

\* A return preserves HiddenInv.
LEMMA ReturnHidden ==
  ASSUME Types, CallInv, HiddenInv, Return
  PROVE  HiddenInv'
<1>1. CASE Len(stack) <= 1
  <2>1. stack' = <<>>
    BY <1>1, LastReturn
  <2>2. DOMAIN stack' = {}
    BY <2>1
  <2> QED BY <2>2 DEF HiddenInv
<1>2. CASE Len(stack) > 1
  <2>1. PICK n, c : n = Len(stack) /\ c = n - 1
    OBVIOUS
  <2>2. /\ n \in Nat /\ c \in Nat /\ c > 0 /\ n = c + 1 /\ DOMAIN stack = 1 .. n /\ Top = stack[n] /\ Top \in FrameType
        /\ DOMAIN stack' = 1 .. c /\ ResumesTo(Top, stack, c, stack') /\ stack[c].code # <<>>
    BY <1>2, <2>1, ReturnFacts
  <2>3. /\ \A i \in 1 .. c - 1 : stack'[i].code = stack[i].code /\ stack'[i].cpp = stack[i].cpp
        /\ \A i \in 1 .. c : stack'[i].kind = stack[i].kind
        /\ stack'[c].code = Tail(stack[c].code)
    BY <2>2 DEF ResumesTo
  <2>4. ASSUME NEW j \in 1 .. c
        PROVE  stack'[j].kind = "DeclStmt" /\ (\E i \in DOMAIN stack'[j].code : stack'[j].code[i] \in Pairs) =>
                  j > 1 /\ stack'[j - 1].kind = "CXXForRangeStmt"
    <3>1. (\E i \in DOMAIN stack'[j].code : stack'[j].code[i] \in Pairs) => \E i \in DOMAIN stack[j].code : stack[j].code[i] \in Pairs
      <4>1. CASE j = c
        <5>1. stack[c].code \in Seq(Tokens(stack[c].kind))
          BY <2>2 DEF Types, FrameOK
        <5>2. \A i \in DOMAIN Tail(stack[c].code) : \E k \in DOMAIN stack[c].code : Tail(stack[c].code)[i] = stack[c].code[k]
          BY <2>2, <5>1, TailFacts
        <5> QED BY <2>3, <4>1, <5>2
      <4>2. CASE j # c
        BY <2>2, <2>3, <4>2
      <4> QED BY <4>1, <4>2
    <3>2. j \in 1 .. n /\ (j > 1 => j - 1 \in 1 .. c)
      BY <2>2
    <3> QED BY <2>2, <2>3, <3>1, <3>2 DEF HiddenInv
  <2>5. ASSUME NEW j \in 1 .. c, NEW e \in stack'[j].cpp, e.name \in HiddenNames
        PROVE  e.how = "auto" /\ e.init = TRUE /\ HiddenPlace(stack', j, e)
    <3>1. j \in Nat /\ j > 0 /\ j \in 1 .. n /\ (\A i \in 1 .. j : i \in 1 .. c) /\ c \in 1 .. c /\ n \in 1 .. n
      BY <2>2
    <3>2. \A i \in 1 .. j : stack[i].kind = stack'[i].kind
      BY <2>3, <3>1
    <3>3. \A d : HiddenPlace(stack, j, d) => HiddenPlace(stack', j, d)
      BY <3>1, <3>2, HiddenPlaceSame
    <3>4. CASE e \in stack[j].cpp
      <4>1. e.how = "auto" /\ e.init = TRUE /\ HiddenPlace(stack, j, e)
        BY <2>2, <2>5, <3>1, <3>4 DEF HiddenInv
      <4> QED BY <3>3, <4>1
    <3>5. CASE e \notin stack[j].cpp
      <4>1. j = c
        BY <2>2, <2>3, <2>5, <3>5
      <4>2. /\ \E d \in Top.cpp : e = Handed(Top, d) /\ d \in Variable
            /\ Top.kind \in {"VarDecl", "DeclStmt", "LabelStmt"} \cup Labels
        BY <2>2, <2>5, <3>5, <4>1, ResumedVars
      <4>3. PICK d \in Top.cpp : e = Handed(Top, d) /\ d \in Variable
        BY <4>2
      <4>4. e.name = d.name /\ e.id = d.id /\ (Top.kind # "LabelStmt" => e = d)
        BY <4>3, HandedFacts
      <4>5. d.how = "auto" /\ d.init = TRUE /\ HiddenPlace(stack, n, d)
        BY <2>2, <2>5, <3>1, <4>4 DEF HiddenInv
      <4>6. \/ Top.kind = "DeclStmt" /\ d.id = n /\ stack[c].kind = "CXXForRangeStmt"
            \/ Top.kind = "VarDecl" /\ d.id = c /\ c > 1 /\ stack[c].kind = "DeclStmt" /\ stack[c - 1].kind = "CXXForRangeStmt"
        <5>1. n - 1 = c /\ n - 2 = c - 1 /\ (n > 2 => c > 1)
          BY <2>2
        <5> QED BY <2>2, <4>2, <4>5, <5>1 DEF HiddenPlace, Labels
      <4>7. e = d
        BY <4>4, <4>6
      <4>8. HiddenPlace(stack, c, d)
        BY <2>2, <4>6 DEF HiddenPlace
      <4> QED BY <3>3, <4>1, <4>5, <4>7, <4>8
    <3> QED BY <3>4, <3>5
  <2> QED BY <2>2, <2>4, <2>5 DEF HiddenInv
<1>3. Len(stack) \in Nat
  BY DEF Types
<1> QED BY <1>1, <1>2, <1>3

(***************************************************************************)
(* Names.                                                                  *)
(***************************************************************************)
\* What NameOK says depends on these.
LEMMA NameSame ==
  ASSUME NEW f, NEW g, NameOK(f), g.kind = f.kind, g.coq = f.coq, g.cpp = f.cpp, g.code = f.code
  PROVE  NameOK(g)
BY DEF NameOK, InBoth

\* A new handler has in Coq what it has in C++.
LEMMA NewName ==
  ASSUME Types, NEW f, Plain(f)
  PROVE  NameOK(f)
<1>1. NewNames(f) /\ f.coq = {}
  <2>1. Called(stack, f, Len(stack))
    BY OpensFacts DEF Plain
  <2> QED BY <2>1 DEF Called, Plain
<1>2. ASSUME f.kind \notin {"VarDecl", "LabelStmt"}
      PROVE  \A d \in f.cpp : d.how \notin {"auto", "extern"}
  BY <1>1, <1>2 DEF NewNames, Var
<1>3. ASSUME f.kind = "VarDecl"
      PROVE  \A d \in f.cpp : d.how \in Printed
  BY <1>1, <1>3 DEF NewNames, Var, Printed
<1>4. ASSUME f.kind = "LabelStmt"
      PROVE  f.cpp = {} /\ f.code \in LabelStmtCode
  BY <1>1, <1>4 DEF NewNames
<1> QED BY <1>1, <1>2, <1>3, <1>4, LabelCodeStmt DEF NameOK, InBoth

\* A call preserves NameInv.
LEMMA OpensNames ==
  ASSUME Types, NameInv, NEW s, NEW f, Opens(s, f), NameOK(f), \A j \in 1 .. Len(stack) : NameOK(s[j])
  PROVE  NameInv'
<1>1. PICK n : n = Len(stack)
  OBVIOUS
<1>2. /\ n \in Nat /\ DOMAIN stack' = 1 .. n + 1 /\ stack'[n + 1] = f /\ \A j \in 1 .. n : stack'[j] = s[j]
  <2>1. Called(s, f, n)
    BY <1>1, OpensFacts
  <2> QED BY <2>1 DEF Called
<1>3. ASSUME NEW j \in 1 .. n + 1 PROVE NameOK(stack'[j])
  <2>1. j = n + 1 \/ j \in 1 .. n
    BY <1>2
  <2> QED BY <1>1, <1>2, <2>1
<1> QED BY <1>2, <1>3 DEF NameInv

\* A call of a handler preserves NameInv.
LEMMA PlainNames ==
  ASSUME Types, NameInv, NEW f, Plain(f)
  PROVE  NameInv'
<1>1. Opens(stack, f) /\ NameOK(f)
  BY NewName DEF Plain
<1>2. \A j \in 1 .. Len(stack) : NameOK(stack[j])
  BY DEF NameInv, Types
<1> QED BY <1>1, <1>2, OpensNames

\* The init-statement of a range-for preserves NameInv.
LEMMA RangeInitNames ==
  ASSUME Types, HiddenInv, NameInv, NEW d, NEW f, NEW s, RangeInit(d, f, s)
  PROVE  NameInv'
<1>1. PICK n : n = Len(stack)
  OBVIOUS
<1>2. /\ n \in Nat /\ n > 1 /\ d \in stack[n - 1].cpp /\ d.how = "later" /\ d \in Variable
      /\ f.kind = "VarDecl" /\ f.cpp = {[d EXCEPT !.how = "auto"]} /\ Opens(s, f)
      /\ s[n - 1].cpp = stack[n - 1].cpp \ {d} /\ \A j \in 1 .. n : j # n - 1 => s[j].cpp = stack[j].cpp
  BY <1>1, RangeInitFacts
<1>3. Called(s, f, n)
  BY <1>1, <1>2, OpensFacts
<1>4. NameOK(f)
  <2>1. f.coq = {}
    BY <1>3 DEF Called
  <2>2. \A e \in f.cpp : e.how = "auto"
    BY <1>2 DEF Variable
  <2> QED BY <1>2, <2>1, <2>2 DEF NameOK, Printed
<1>5. ASSUME NEW j \in 1 .. n PROVE NameOK(s[j])
  <2>1. s[j].kind = stack[j].kind /\ s[j].code = stack[j].code /\ s[j].coq = stack[j].coq
    BY <1>1, <1>2 DEF Opens, Alike
  <2>2. NameOK(stack[j])
    BY <1>1 DEF NameInv, Types
  <2>3. CASE j # n - 1
    BY <1>2, <2>1, <2>2, <2>3, NameSame
  <2>4. CASE j = n - 1
    <3>1. InBoth(s[j]) = InBoth(stack[j])
      BY <1>2, <2>4 DEF InBoth
    <3>2. stack[j].kind = "LabelStmt" /\ s[j].cpp # {} => stack[j].cpp # {}
      BY <1>2, <2>4
    <3>3. \A e \in s[j].cpp : e \in stack[j].cpp
      BY <1>2, <2>4
    <3> QED BY <2>1, <2>2, <3>1, <3>2, <3>3 DEF NameOK
  <2> QED BY <2>3, <2>4
<1> QED BY <1>1, <1>2, <1>4, <1>5, OpensNames

\* A label preserves NameInv.
LEMMA LabelNames ==
  ASSUME Types, NameInv, NEW j, NEW b \in BOOLEAN, NEW f, LabelOpens(j, b, f)
  PROVE  NameInv'
<1>1. PICK n, s : n = Len(stack) /\ s = Labelled(j, b)
  OBVIOUS
<1>2. /\ Opens(s, f) /\ j \in InnermostSwitch /\ f.cpp = {} /\ f.kind \in Labels
  BY <1>1 DEF LabelOpens
<1>3. Called(s, f, n)
  BY <1>1, <1>2, OpensFacts
<1>4. NameOK(f)
  <2>1. f.coq = {}
    BY <1>3 DEF Called
  <2> QED BY <1>2, <2>1 DEF NameOK, InBoth, Labels
<1>5. ASSUME NEW i \in 1 .. n PROVE NameOK(s[i])
  <2>1. s[i].kind = stack[i].kind /\ s[i].code = stack[i].code /\ s[i].coq = stack[i].coq
    BY <1>1, <1>2 DEF Opens, Alike
  <2>2. NameOK(stack[i])
    BY <1>1 DEF NameInv, Types
  <2>3. s[j].cpp = stack[j].cpp /\ \A k \in 1 .. n : k # j => s[k] = stack[k]
    BY <1>1, <1>2, LabelledFacts
  <2>4. s[i].cpp = stack[i].cpp
    BY <2>3
  <2> QED BY <2>1, <2>2, <2>4, NameSame
<1> QED BY <1>1, <1>2, <1>4, <1>5, OpensNames

\* The end of a code has the tokens of the code.
LEMMA EndOfLabel ==
  ASSUME NEW S, NEW code \in Seq(S), NEW c, NEW m \in Nat,
         \A i \in DOMAIN c : i + m \in DOMAIN code /\ c[i] = code[i + m],
         c \in Seq(S),
         \A i, k \in DOMAIN code : code[i] = <<"stmt">> /\ code[k] = <<"stmt">> => i = k
  PROVE  /\ \A i, k \in DOMAIN c : c[i] = <<"stmt">> /\ c[k] = <<"stmt">> => i = k
         /\ code \in Seq(Texts) => c \in Seq(Texts)
<1>1. ASSUME NEW i \in DOMAIN c, NEW k \in DOMAIN c, c[i] = <<"stmt">>, c[k] = <<"stmt">>
      PROVE  i = k
  <2>1. i + m = k + m /\ i \in Nat /\ k \in Nat
    BY <1>1
  <2> QED BY <2>1
<1>2. ASSUME code \in Seq(Texts)
      PROVE  c \in Seq(Texts)
  <2>1. \A i \in DOMAIN c : c[i] \in Texts
    BY <1>2
  <2>2. DOMAIN c = 1 .. Len(c) /\ Len(c) \in Nat /\ c = [i \in 1 .. Len(c) |-> c[i]]
    OBVIOUS
  <2> QED BY <2>1, <2>2
<1> QED BY <1>1, <1>2

\* Printing a text, an expression or nothing preserves NameInv.
LEMMA AdvancesNames ==
  ASSUME Types, NameInv, NEW c, Advances(c)
  PROVE  NameInv'
<1>1. Active /\ Goes(c) /\ c \in Seq(Tokens(Top.kind))
  BY DEF Advances
<1>2. PICK m \in Nat : \A i \in DOMAIN c : i + m \in DOMAIN Top.code /\ c[i] = Top.code[i + m]
  BY DEF Advances
<1>3. PICK n : n = Len(stack)
  OBVIOUS
<1>4. /\ n \in Nat /\ n > 0 /\ DOMAIN stack = 1 .. n /\ DOMAIN stack' = 1 .. n /\ stack'[n].code = c
      /\ \A j \in 1 .. n - 1 : stack'[j] = stack[j]
      /\ \A j \in 1 .. n : stack'[j].kind = stack[j].kind /\ stack'[j].cpp = stack[j].cpp /\ stack'[j].coq = stack[j].coq
  BY <1>1, <1>3, GoesFacts
<1>5. Top = stack[n] /\ Top.code \in Seq(Tokens(Top.kind))
  BY <1>1, <1>3, ActiveFacts
<1>6. NameOK(stack'[n])
  <2>1. NameOK(stack[n])
    BY <1>4 DEF NameInv
  <2>2. stack'[n].kind = stack[n].kind /\ stack'[n].cpp = stack[n].cpp /\ stack'[n].coq = stack[n].coq
    BY <1>4
  <2>3. InBoth(stack'[n]) = InBoth(stack[n])
    BY <2>2 DEF InBoth
  <2>4. ASSUME stack[n].kind = "LabelStmt"
        PROVE  /\ \A i, k \in DOMAIN c : c[i] = <<"stmt">> /\ c[k] = <<"stmt">> => i = k
               /\ Top.code \in Seq(Texts) => c \in Seq(Texts)
    <3>1. \A i, k \in DOMAIN Top.code : Top.code[i] = <<"stmt">> /\ Top.code[k] = <<"stmt">> => i = k
      BY <1>5, <2>1, <2>4 DEF NameOK
    <3> QED BY <1>1, <1>2, <1>5, <3>1, EndOfLabel
  <2> QED BY <1>4, <1>5, <2>1, <2>2, <2>3, <2>4 DEF NameOK
<1>7. \A j \in 1 .. n : NameOK(stack'[j])
  BY <1>4, <1>6 DEF NameInv
<1> QED BY <1>4, <1>7 DEF NameInv

\* What is left is the same in C++ and in Coq.
LEMMA LeftBoth ==
  ASSUME NEW f \in FrameType, NameOK(f)
  PROVE  CoqLeft(f) = {d \in CppLeft(f) : d.how \in {"auto", "extern"}}
<1>1. CASE f.kind = "VarDecl"
  <2>1. \A d \in f.cpp : d.how \in {"auto", "static", "extern"}
    BY <1>1 DEF NameOK, Printed
  <2>2. CppLeft(f) = f.cpp /\ CoqLeft(f) = {d \in f.cpp : d.how # "static"}
    BY <1>1 DEF CppLeft, CoqLeft, Labels
  <2> QED BY <2>1, <2>2
<1>2. CASE f.kind \in {"DeclStmt"} \cup Labels
  <2>1. CppLeft(f) = f.cpp /\ CoqLeft(f) = f.coq
    BY <1>2 DEF CppLeft, CoqLeft, Labels
  <2>2. f.coq = InBoth(f)
    BY <1>2 DEF NameOK, Labels
  <2> QED BY <2>1, <2>2 DEF InBoth
<1>3. CASE f.kind = "LabelStmt"
  <2>1. CoqLeft(f) = {}
    BY <1>3 DEF CoqLeft, Labels
  <2>2. ASSUME NEW e \in CppLeft(f) PROVE e.how \notin {"auto", "extern"}
    <3>1. PICK d \in f.cpp : e = Handed(f, d)
      BY LeftHanded
    <3>2. d \in Variable
      BY DEF FrameType
    <3> QED BY <1>3, <3>1, <3>2, HandedFacts
  <2> QED BY <2>1, <2>2
<1>4. CASE f.kind \notin {"VarDecl", "DeclStmt", "LabelStmt"} \cup Labels
  BY <1>4, LeftHanded
<1> QED BY <1>1, <1>2, <1>3, <1>4

\* The label of a label is printed when its statement is.
LEMMA LabelTail ==
  ASSUME NEW code \in Seq(Texts \cup {<<"stmt">>}), code # <<>>, Head(code) = <<"stmt">>,
         \A i, k \in DOMAIN code : code[i] = <<"stmt">> /\ code[k] = <<"stmt">> => i = k
  PROVE  Tail(code) \in Seq(Texts)
<1>1. PICK c : c = Tail(code)
  OBVIOUS
<1>2. c \in Seq(Texts \cup {<<"stmt">>}) /\ \A i \in DOMAIN c : i + 1 \in DOMAIN code /\ c[i] = code[i + 1]
  BY <1>1, TailFacts
<1>3. 1 \in DOMAIN code /\ code[1] = <<"stmt">>
  OBVIOUS
<1>4. ASSUME NEW i \in DOMAIN c PROVE c[i] \in Texts
  <2>1. i \in Nat /\ i > 0 /\ i + 1 # 1
    BY <1>2
  <2>2. c[i] # <<"stmt">>
    BY <1>2, <1>3, <2>1
  <2>3. c[i] \in Texts \cup {<<"stmt">>}
    BY <1>2
  <2> QED BY <2>2, <2>3
<1>5. DOMAIN c = 1 .. Len(c) /\ Len(c) \in Nat /\ c = [i \in 1 .. Len(c) |-> c[i]]
  BY <1>2
<1>6. c \in Seq(Texts)
  <2> HIDE <1>1
  <2> QED BY <1>4, <1>5
<1> QED BY <1>1, <1>6

\* So it is for the caller.
LEMMA ResumedName ==
  ASSUME NEW f \in FrameType, NameOK(f), NEW e \in FrameType, NameOK(e), e.code \in Seq(Tokens(e.kind)),
         e.code # <<>>, Head(e.code) \in Calls, NEW u,
         u.kind = e.kind, u.code = Tail(e.code), u.cpp = e.cpp \cup Keeps(e, CppLeft(f), {"LabelStmt"}),
         u.coq = e.coq \cup Keeps(e, CoqLeft(f), {})
  PROVE  NameOK(u)
<1>1. Head(e.code) \in Tokens(e.kind) /\ e.kind \in Kinds
  BY HeadIn DEF FrameType
<1>2. Head(e.code) \notin Texts \cup Uses
  BY DEF Calls, Pairs, RangeParts, Texts, Uses, W, Words
<1>3. e.kind # "VarDecl"
  BY <1>1, <1>2, TokenKinds
<1>4. CASE e.kind = "LabelStmt"
  <2>1. Head(e.code) = <<"stmt">>
    BY <1>1, <1>2, <1>4, TokenKinds
  <2>2. Keeps(e, CoqLeft(f), {}) = {}
    BY <1>4, <2>1 DEF Keeps, Declaring, Labels
  <2>3. u.coq = {}
    BY <1>4, <2>2 DEF NameOK
  <2>4. \A i, k \in DOMAIN e.code : e.code[i] = <<"stmt">> /\ e.code[k] = <<"stmt">> => i = k
    BY <1>4 DEF NameOK
  <2>5. Tokens("LabelStmt") = Texts \cup {<<"stmt">>}
    BY DEF Tokens, Labels
  <2>6. u.code \in Seq(Texts)
    BY <1>4, <2>1, <2>4, <2>5, LabelTail
  <2>7. ASSUME NEW i \in DOMAIN u.code, NEW k \in DOMAIN u.code, u.code[i] = <<"stmt">>, u.code[k] = <<"stmt">>
        PROVE  i = k
    <3>1. \A j \in DOMAIN u.code : j + 1 \in DOMAIN e.code /\ u.code[j] = e.code[j + 1]
      BY TailFacts
    <3>2. i + 1 = k + 1
      BY <2>4, <2>7, <3>1
    <3> QED BY <2>6, <3>2
  <2> QED BY <1>4, <2>3, <2>6, <2>7 DEF NameOK
<1>5. CASE e.kind # "LabelStmt"
  <2>1. e.coq = InBoth(e)
    BY <1>3, <1>5 DEF NameOK
  <2>2. CoqLeft(f) = {d \in CppLeft(f) : d.how \in {"auto", "extern"}}
    BY LeftBoth
  <2>3. u.coq = InBoth(u)
    <3>1. CASE Declaring(e) \/ e.kind \in {"CompoundStmt"} \cup Labels
      <4>1. u.cpp = e.cpp \cup CppLeft(f) /\ u.coq = e.coq \cup CoqLeft(f)
        BY <3>1 DEF Keeps
      <4> QED BY <2>1, <2>2, <4>1 DEF InBoth
    <3>2. CASE ~(Declaring(e) \/ e.kind \in {"CompoundStmt"} \cup Labels)
      <4>1. u.cpp = e.cpp /\ u.coq = e.coq
        BY <1>5, <3>2 DEF Keeps
      <4> QED BY <2>1, <4>1 DEF InBoth
    <3> QED BY <3>1, <3>2
  <2> QED BY <1>3, <1>5, <2>3 DEF NameOK
<1> QED BY <1>4, <1>5

\* A return preserves NameInv.
LEMMA ReturnNames ==
  ASSUME Types, CallInv, NameInv, Return
  PROVE  NameInv'
<1>1. CASE Len(stack) <= 1
  <2>1. stack' = <<>>
    BY <1>1, LastReturn
  <2>2. DOMAIN stack' = {}
    BY <2>1
  <2> QED BY <2>2 DEF NameInv
<1>2. CASE Len(stack) > 1
  <2>1. PICK n, c : n = Len(stack) /\ c = n - 1
    OBVIOUS
  <2>2. /\ n \in Nat /\ c \in Nat /\ c > 0 /\ n = c + 1 /\ DOMAIN stack = 1 .. n /\ Top = stack[n] /\ Top \in FrameType
        /\ DOMAIN stack' = 1 .. c /\ ResumesTo(Top, stack, c, stack') /\ stack[c].code # <<>> /\ Head(stack[c].code) \in Calls
    BY <1>2, <2>1, ReturnFacts
  <2>3. /\ \A i \in 1 .. c - 1 : stack'[i].code = stack[i].code /\ stack'[i].cpp = stack[i].cpp /\ stack'[i].coq = stack[i].coq
        /\ \A i \in 1 .. c : stack'[i].kind = stack[i].kind
        /\ stack'[c].code = Tail(stack[c].code)
        /\ stack'[c].cpp = stack[c].cpp \cup Keeps(stack[c], CppLeft(Top), {"LabelStmt"})
        /\ stack'[c].coq = stack[c].coq \cup Keeps(stack[c], CoqLeft(Top), {})
    BY <2>2 DEF ResumesTo
  <2>4. n \in 1 .. n /\ c \in 1 .. n /\ c \in 1 .. c
    BY <2>2
  <2>5. NameOK(stack'[c])
    <3>1. NameOK(Top) /\ NameOK(stack[c])
      BY <2>2, <2>4 DEF NameInv
    <3>2. stack[c] \in FrameType /\ stack[c].code \in Seq(Tokens(stack[c].kind))
      BY <2>2, <2>4 DEF Types, FrameOK
    <3>3. stack'[c].kind = stack[c].kind
      BY <2>3, <2>4
    <3> QED BY <2>2, <2>3, <3>1, <3>2, <3>3, ResumedName
  <2>6. ASSUME NEW j \in 1 .. c PROVE NameOK(stack'[j])
    <3>1. CASE j \in 1 .. c - 1
      <4>1. NameOK(stack[j])
        BY <2>2 DEF NameInv
      <4> QED BY <2>3, <3>1, <4>1, NameSame
    <3> QED BY <2>2, <2>5, <3>1
  <2> QED BY <2>2, <2>6 DEF NameInv
<1>3. Len(stack) \in Nat
  BY DEF Types
<1> QED BY <1>1, <1>2, <1>3

(***************************************************************************)
(* Numbers.                                                                *)
(***************************************************************************)
LEMMA VarIds ==
  ASSUME Types, NEW j \in 1 .. Len(stack), NEW d \in stack[j].cpp
  PROVE  d \in Variable /\ d.id \in Nat
<1>1. stack[j] \in FrameType
  BY DEF Types
<1>2. d \in Variable
  BY <1>1 DEF FrameType
<1> QED BY <1>2 DEF Variable

\* A call preserves NumberInv.
LEMMA OpensNumber ==
  ASSUME Types, NumberInv, NEW s, NEW f, Opens(s, f), NEW n, n = Len(stack), decls' \in Nat, decls <= decls',
         \A j \in 1 .. n : s[j].cpp \subseteq stack[j].cpp,
         \A d, e \in f.cpp : d = e,
         \A d \in f.cpp : d.name \in Names =>
           /\ d.id <= decls'
           /\ \A j \in 1 .. n : \A e \in s[j].cpp : e.name \in Names => e.id # d.id
  PROVE  NumberInv'
<1>2. /\ n \in Nat /\ n > 0 /\ DOMAIN stack = 1 .. n
      /\ DOMAIN stack' = 1 .. n + 1 /\ stack'[n + 1] = f /\ \A j \in 1 .. n : stack'[j] = s[j]
  <2>1. Called(s, f, n)
    BY OpensFacts
  <2> QED BY <2>1 DEF Called
<1>3. decls \in Nat /\ \A j \in 1 .. n : \A d \in stack[j].cpp : d.id \in Nat
  BY VarIds DEF Types
<1>4. ASSUME NEW i \in 1 .. n + 1, NEW j \in 1 .. n + 1, NEW d \in stack'[i].cpp, NEW e \in stack'[j].cpp,
             d.name \in Names, e.name \in Names
      PROVE  d.id <= decls' /\ (d.id = e.id => d = e /\ i = j)
  <2>1. CASE i \in 1 .. n /\ j \in 1 .. n
    <3>1. d \in stack[i].cpp /\ e \in stack[j].cpp
      BY <1>2, <2>1
    <3>2. d.id <= decls /\ (d.id = e.id => d = e /\ i = j)
      BY <1>2, <1>4, <2>1, <3>1 DEF NumberInv
    <3> QED BY <1>3, <2>1, <3>1, <3>2
  <2>2. CASE i \in 1 .. n /\ j = n + 1
    <3>1. d \in stack[i].cpp /\ d \in s[i].cpp /\ e \in f.cpp
      BY <1>2, <2>2
    <3>2. d.id <= decls /\ d.id # e.id
      BY <1>2, <1>4, <2>2, <3>1 DEF NumberInv
    <3> QED BY <1>3, <2>2, <3>1, <3>2
  <2>3. CASE i = n + 1 /\ j \in 1 .. n
    <3>1. e \in s[j].cpp /\ d \in f.cpp
      BY <1>2, <2>3
    <3> QED BY <1>4, <2>3, <3>1
  <2>4. CASE i = n + 1 /\ j = n + 1
    <3>1. e \in f.cpp /\ d \in f.cpp
      BY <1>2, <2>4
    <3> QED BY <1>4, <2>4, <3>1
  <2>5. (i \in 1 .. n \/ i = n + 1) /\ (j \in 1 .. n \/ j = n + 1)
    BY <1>2
  <2> QED BY <2>1, <2>2, <2>3, <2>4, <2>5
<1> QED BY <1>2, <1>4 DEF NumberInv

\* A call of a handler preserves NumberInv.
LEMMA PlainNumber ==
  ASSUME Types, NumberInv, NEW f, Plain(f)
  PROVE  NumberInv'
<1>1. PICK n : n = Len(stack)
  OBVIOUS
<1>2. Opens(stack, f) /\ NewNames(f)
  BY DEF Plain
<1>3. decls \in Nat /\ n \in Nat /\ DOMAIN stack = 1 .. n
  BY <1>1 DEF Types
<1>4. \A j \in 1 .. n : \A e \in stack[j].cpp : e.name \in Names => e.id <= decls /\ e.id \in Nat
  BY <1>1, <1>3, VarIds DEF NumberInv
<1>5. /\ decls' \in Nat /\ decls <= decls' /\ \A d, e \in f.cpp : d = e
      /\ \A d \in f.cpp : d.name \in Names => d.id = decls + 1 /\ decls' = decls + 1
  <2>1. CASE f.cpp = {} /\ decls' = decls
    BY <1>3, <2>1
  <2>2. CASE (\E m \in Names, how \in Hows, i \in BOOLEAN : f.cpp = {Var(m, how, i)}) /\ decls' = decls + 1
    <3>1. PICK m \in Names, how \in Hows, i \in BOOLEAN : f.cpp = {Var(m, how, i)}
      BY <2>2
    <3>2. PICK v : v = Var(m, how, i)
      OBVIOUS
    <3>3. f.cpp = {v} /\ v.id = decls + 1
      BY <3>1, <3>2 DEF Var
    <3> QED BY <1>3, <2>2, <3>3
  <2>3. CASE (\E v \in Variable : f.cpp = {v} /\ v.name \in HiddenNames) /\ decls' = decls
    BY <1>3, <2>3, NamesApart
  <2> QED BY <1>2, <2>1, <2>2, <2>3 DEF NewNames
<1>6. \A d \in f.cpp : d.name \in Names =>
           /\ d.id <= decls'
           /\ \A j \in 1 .. n : \A e \in stack[j].cpp : e.name \in Names => e.id # d.id
  BY <1>3, <1>4, <1>5
<1>7. \A j \in 1 .. n : stack[j].cpp \subseteq stack[j].cpp
  OBVIOUS
<1> QED BY <1>1, <1>2, <1>5, <1>6, <1>7, OpensNumber

\* The init-statement of a range-for preserves NumberInv.
LEMMA RangeInitNumber ==
  ASSUME Types, NumberInv, NEW d, NEW f, NEW s, RangeInit(d, f, s)
  PROVE  NumberInv'
<1>1. PICK n : n = Len(stack)
  OBVIOUS
<1>2. /\ n \in Nat /\ n > 1 /\ d \in stack[n - 1].cpp /\ d.how = "later" /\ d \in Variable
      /\ f.kind = "VarDecl" /\ f.cpp = {[d EXCEPT !.how = "auto"]} /\ Opens(s, f) /\ decls' = decls
      /\ s[n - 1].cpp = stack[n - 1].cpp \ {d} /\ \A j \in 1 .. n : j # n - 1 => s[j].cpp = stack[j].cpp
  BY <1>1, RangeInitFacts
<1>3. decls \in Nat /\ DOMAIN stack = 1 .. n /\ n - 1 \in 1 .. n
  BY <1>1, <1>2 DEF Types
<1>v. PICK v : v = [d EXCEPT !.how = "auto"]
  OBVIOUS
<1>4. v = [d EXCEPT !.how = "auto"] /\ v.name = d.name /\ v.id = d.id
  BY <1>2, <1>v DEF Variable
<1>5. ASSUME v.name \in Names
      PROVE  /\ v.id <= decls'
             /\ \A j \in 1 .. n : \A e \in s[j].cpp : e.name \in Names => e.id # v.id
  <2>1. v.id <= decls'
    BY <1>2, <1>3, <1>4, <1>5 DEF NumberInv
  <2>2. ASSUME NEW j \in 1 .. n, NEW e \in s[j].cpp, e.name \in Names, e.id = v.id
        PROVE  FALSE
    <3>1. e \in stack[j].cpp
      BY <1>2, <2>2
    <3>2. e = d /\ j = n - 1
      BY <1>2, <1>3, <1>4, <1>5, <2>2, <3>1 DEF NumberInv
    <3> QED BY <1>2, <2>2, <3>2
  <2> QED BY <2>1, <2>2
<1>6. \A j \in 1 .. n : s[j].cpp \subseteq stack[j].cpp
  BY <1>2
<1>7. decls' \in Nat /\ decls <= decls'
  BY <1>2, <1>3
<1>8. /\ \A x, y \in f.cpp : x = y
      /\ \A x \in f.cpp : x.name \in Names =>
           /\ x.id <= decls'
           /\ \A j \in 1 .. n : \A e \in s[j].cpp : e.name \in Names => e.id # x.id
  BY <1>2, <1>4, <1>5
<1> QED BY <1>1, <1>2, <1>6, <1>7, <1>8, OpensNumber

\* A label preserves NumberInv.
LEMMA LabelNumber ==
  ASSUME Types, NumberInv, NEW j, NEW b \in BOOLEAN, NEW f, LabelOpens(j, b, f)
  PROVE  NumberInv'
<1>1. PICK n, s : n = Len(stack) /\ s = Labelled(j, b)
  OBVIOUS
<1>2. /\ Opens(s, f) /\ j \in InnermostSwitch /\ f.cpp = {} /\ decls' = decls
  BY <1>1 DEF LabelOpens
<1>3. \A i \in 1 .. n : s[i].cpp \subseteq stack[i].cpp
  <2>1. s[j].cpp = stack[j].cpp /\ \A i \in 1 .. n : i # j => s[i] = stack[i]
    BY <1>1, <1>2, LabelledFacts
  <2> QED BY <2>1
<1>4. decls' \in Nat /\ decls <= decls'
  BY <1>2 DEF Types
<1> QED BY <1>1, <1>2, <1>3, <1>4, OpensNumber

\* Printing a text, an expression or nothing preserves NumberInv.
LEMMA AdvancesNumber ==
  ASSUME Types, NumberInv, NEW c, Advances(c)
  PROVE  NumberInv'
<1>1. Active /\ Goes(c) /\ c \in Seq(Tokens(Top.kind)) /\ decls' = decls
  BY DEF Advances
<1>2. PICK n : n = Len(stack)
  OBVIOUS
<1>3. /\ DOMAIN stack = 1 .. n /\ DOMAIN stack' = 1 .. n
      /\ \A j \in 1 .. n : stack'[j].cpp = stack[j].cpp
  BY <1>1, <1>2, GoesFacts
<1> QED BY <1>1, <1>3 DEF NumberInv

\* A return preserves NumberInv.
LEMMA ReturnNumber ==
  ASSUME Types, CallInv, NumberInv, Return
  PROVE  NumberInv'
<1>1. CASE Len(stack) <= 1
  <2>1. stack' = <<>>
    BY <1>1, LastReturn
  <2>2. DOMAIN stack' = {}
    BY <2>1
  <2> QED BY <2>2 DEF NumberInv
<1>2. CASE Len(stack) > 1
  <2>1. PICK n, c : n = Len(stack) /\ c = n - 1
    OBVIOUS
  <2>2. /\ n \in Nat /\ c \in Nat /\ c > 0 /\ n = c + 1 /\ DOMAIN stack = 1 .. n /\ Top = stack[n] /\ Top \in FrameType
        /\ DOMAIN stack' = 1 .. c /\ ResumesTo(Top, stack, c, stack')
    BY <1>2, <2>1, ReturnFacts
  <2>3. \A i \in 1 .. c - 1 : stack'[i].cpp = stack[i].cpp
    BY <2>2 DEF ResumesTo
  <2>4. decls' = decls /\ n \in 1 .. n /\ \A i \in 1 .. c : i \in 1 .. n /\ i # n /\ (i # c => i \in 1 .. c - 1)
    BY <2>2 DEF Return
  \* Where a variable was before.
  <2>5. ASSUME NEW i \in 1 .. c, NEW d \in stack'[i].cpp
        PROVE  \/ d \in stack[i].cpp
               \/ i = c /\ \E v \in stack[n].cpp : d = Handed(Top, v) /\ d.name = v.name /\ d.id = v.id
    <3>1. CASE i # c
      BY <2>3, <2>4, <2>5, <3>1
    <3>2. CASE i = c /\ d \notin stack[i].cpp
      <4>1. PICK v \in Top.cpp : d = Handed(Top, v) /\ v \in Variable
        BY <2>2, <2>5, <3>2, ResumedVars
      <4>2. d.name = v.name /\ d.id = v.id
        BY <4>1, HandedFacts
      <4> QED BY <2>2, <3>2, <4>1, <4>2
    <3> QED BY <3>1, <3>2
  <2>6. ASSUME NEW i \in 1 .. c, NEW j \in 1 .. c, NEW d \in stack'[i].cpp, NEW e \in stack'[j].cpp,
               d.name \in Names, e.name \in Names
        PROVE  d.id <= decls /\ (d.id = e.id => d = e /\ i = j)
    <3>1. CASE d \in stack[i].cpp /\ e \in stack[j].cpp
      BY <2>2, <2>4, <2>6, <3>1 DEF NumberInv
    <3>2. CASE d \in stack[i].cpp /\ e \notin stack[j].cpp
      <4>1. PICK v \in stack[n].cpp : e.name = v.name /\ e.id = v.id
        BY <2>5, <2>6, <3>2
      <4>2. d.id <= decls /\ (d.id = v.id => i = n)
        BY <2>2, <2>4, <2>6, <3>2, <4>1 DEF NumberInv
      <4> QED BY <2>4, <4>1, <4>2
    <3>3. CASE d \notin stack[i].cpp /\ e \in stack[j].cpp
      <4>1. PICK v \in stack[n].cpp : d.name = v.name /\ d.id = v.id
        BY <2>5, <2>6, <3>3
      <4>2. v.id <= decls /\ (v.id = e.id => n = j)
        BY <2>2, <2>4, <2>6, <3>3, <4>1 DEF NumberInv
      <4> QED BY <2>4, <4>1, <4>2
    <3>4. CASE d \notin stack[i].cpp /\ e \notin stack[j].cpp
      <4>1. PICK v \in stack[n].cpp : d = Handed(Top, v) /\ d.name = v.name /\ d.id = v.id
        BY <2>5, <2>6, <3>4
      <4>2. PICK w \in stack[n].cpp : e = Handed(Top, w) /\ e.name = w.name /\ e.id = w.id
        BY <2>5, <2>6, <3>4
      <4>3. v.id <= decls /\ (v.id = w.id => v = w)
        BY <2>2, <2>4, <2>6, <4>1, <4>2 DEF NumberInv
      <4>4. i = c /\ j = c
        BY <2>5, <2>6, <3>4
      <4> QED BY <4>1, <4>2, <4>3, <4>4
    <3> QED BY <3>1, <3>2, <3>3, <3>4
  <2> QED BY <2>2, <2>4, <2>6 DEF NumberInv
<1>3. Len(stack) \in Nat
  BY DEF Types
<1> QED BY <1>1, <1>2, <1>3

(***************************************************************************)
(* Switches.                                                               *)
(***************************************************************************)
LEMMA TargetSame ==
  ASSUME NEW s, NEW t, NEW k \in Nat, k > 0, s[1].kind \notin Labels, \A i \in 1 .. k : s[i].kind = t[i].kind
  PROVE  TargetOf(t, k) = TargetOf(s, k) /\ (InBlock(t, TargetOf(t, k)) <=> InBlock(s, TargetOf(s, k)))
<1>1. PICK x, y : x = TargetOf(s, k) /\ y = TargetOf(t, k)
  OBVIOUS
<1>2. IsTarget(s, k, x)
  BY <1>1, TargetFacts
<1>3. t[1].kind \notin Labels
  OBVIOUS
<1>4. IsTarget(t, k, y)
  BY <1>1, <1>3, TargetFacts
<1>5. IsTarget(t, k, x)
  BY <1>2 DEF IsTarget
<1>6. x = y
  BY <1>4, <1>5, TargetUnique
<1>7. x \in 1 .. k /\ (x > 1 => x - 1 \in 1 .. k)
  BY <1>2 DEF IsTarget
<1> QED BY <1>1, <1>6, <1>7 DEF InBlock

\* An unseen case stays unseen while the handlers around it stay.
LEMMA UnseenSame ==
  ASSUME NEW s, NEW t, NEW j \in Nat, NEW k \in Nat, Unseen(s, j, k), k <= Len(t), Len(s) \in Nat, Len(t) \in Nat,
         s[1].kind \notin Labels,
         \A i \in 1 .. k : s[i].kind = t[i].kind, ~no_case(t[k])
  PROVE  Unseen(t, j, k)
<1>1. k \in j + 1 .. Len(s) /\ (\A i \in j + 1 .. k : s[i].kind # "SwitchStmt") /\ ~InBlock(s, TargetOf(s, k))
  BY DEF Unseen
<1>2. k > 0 /\ k \in j + 1 .. Len(t) /\ \A i \in j + 1 .. k : i \in 1 .. k
  BY <1>1
<1>3. ~InBlock(t, TargetOf(t, k))
  BY <1>1, <1>2, TargetSame
<1> QED BY <1>1, <1>2, <1>3 DEF Unseen

\* no_case depends on two fields.
LEMMA NoCaseSame ==
  ASSUME NEW f, NEW g, f.kind = g.kind, f.nocase = g.nocase
  PROVE  no_case(f) <=> no_case(g)
BY DEF no_case

\* InBlock is InSwitchBlock.
LEMMA Bridge == \A j : InSwitchBlock(Target(j)) <=> InBlock(stack, TargetOf(stack, j))
BY TargetIs DEF InSwitchBlock, InBlock

\* The first handler is that of the function.
LEMMA FirstKind ==
  ASSUME Types, CallInv, stack # <<>>
  PROVE  stack[1].kind \notin Labels
<1>1. 1 \in DOMAIN stack
  BY DEF Types
<1> QED BY <1>1 DEF CallInv, Labels

\* What is open stays so.
LEMMA SwitchKept ==
  ASSUME Types, CallInv, SwitchInv, NEW n, n = Len(stack), NEW j \in 1 .. n, Len(stack') \in Nat, n <= Len(stack'),
         \A i \in 1 .. n : stack'[i].kind = stack[i].kind /\ stack'[i].nocase = stack[i].nocase,
         stack[j].kind = "SwitchStmt", ~stack[j].refused, stack[j].listed # stack[j].labels
  PROVE  \E k \in Nat : Unseen(stack', j, k)
<1>1. n \in Nat /\ DOMAIN stack = 1 .. n /\ stack # <<>> /\ j \in Nat
  BY DEF Types
<1>2. PICK k \in Nat : Unseen(stack, j, k)
  BY <1>1 DEF SwitchInv
<1>3. k \in 1 .. n /\ k <= Len(stack') /\ ~no_case(stack[k]) /\ \A i \in 1 .. k : i \in 1 .. n
  BY <1>1, <1>2 DEF Unseen
<1>4. ~no_case(stack'[k])
  <2>1. stack[k].kind = stack'[k].kind /\ stack[k].nocase = stack'[k].nocase
    BY <1>3
  <2> QED BY <1>3, <2>1, NoCaseSame
<1>5. \A i \in 1 .. k : stack[i].kind = stack'[i].kind
  BY <1>3
<1>6. Unseen(stack', j, k)
  BY <1>1, <1>2, <1>3, <1>4, <1>5, FirstKind, UnseenSame
<1> QED BY <1>6

\* A call preserves SwitchInv.
LEMMA OpensSwitch ==
  ASSUME Types, CallInv, SwitchInv, NEW s, NEW f, Opens(s, f), SameCounts(s, stack)
  PROVE  SwitchInv'
<1>1. PICK n : n = Len(stack)
  OBVIOUS
<1>2. /\ n \in Nat /\ n > 0 /\ DOMAIN stack' = 1 .. n + 1 /\ Len(stack') = n + 1 /\ stack'[n + 1] = f
      /\ \A j \in 1 .. n : stack'[j] = s[j] /\ stack'[j].kind = stack[j].kind /\ stack'[j].nocase = stack[j].nocase
      /\ f.labels = 0 /\ f.listed = 0
  <2>1. Called(s, f, n)
    BY <1>1, OpensFacts
  <2> QED BY <2>1 DEF Called
<1>3. ASSUME NEW j \in 1 .. n + 1, stack'[j].kind = "SwitchStmt", ~stack'[j].refused, stack'[j].listed # stack'[j].labels
      PROVE  \E k \in Nat : Unseen(stack', j, k)
  <2>1. j # n + 1
    BY <1>2, <1>3
  <2>2. j \in 1 .. n
    BY <1>2, <2>1
  <2>3. stack'[j] = s[j] /\ stack'[j].kind = stack[j].kind
    BY <1>2, <2>2
  <2>4. s[j].labels = stack[j].labels /\ s[j].listed = stack[j].listed /\ s[j].refused = stack[j].refused
    BY <1>1, <2>2 DEF SameCounts
  <2>5. stack[j].kind = "SwitchStmt" /\ stack[j].listed # stack[j].labels /\ ~stack[j].refused
    BY <1>3, <2>3, <2>4
  <2>6. Len(stack') \in Nat /\ n <= Len(stack')
    BY <1>2
  <2> QED BY <1>1, <1>2, <2>2, <2>5, <2>6, SwitchKept
<1> QED BY <1>2, <1>3 DEF SwitchInv

\* A call of a handler preserves SwitchInv.
LEMMA PlainSwitch ==
  ASSUME Types, CallInv, SwitchInv, NEW f, Plain(f)
  PROVE  SwitchInv'
BY OpensSwitch DEF Plain, SameCounts

\* The init-statement of a range-for preserves SwitchInv.
LEMMA RangeInitSwitch ==
  ASSUME Types, CallInv, SwitchInv, NEW d, NEW f, NEW s, RangeInit(d, f, s)
  PROVE  SwitchInv'
<1>1. Opens(s, f) /\ SameCounts(s, stack)
  BY RangeInitFacts
<1> QED BY <1>1, OpensSwitch

\* A label preserves SwitchInv.
LEMMA LabelSwitch ==
  ASSUME Types, CallInv, SwitchInv, NEW l, NEW b \in BOOLEAN, NEW f, LabelOpens(l, b, f)
  PROVE  SwitchInv'
<1>1. PICK n, s : n = Len(stack) /\ s = Labelled(l, b)
  OBVIOUS
<1>2. Opens(s, f) /\ l \in InnermostSwitch /\ f.kind \in Labels
  BY <1>1 DEF LabelOpens
<1>3. /\ n \in Nat /\ n > 0 /\ DOMAIN stack' = 1 .. n + 1 /\ Len(stack') = n + 1 /\ stack'[n + 1] = f
      /\ \A j \in 1 .. n : stack'[j] = s[j] /\ stack'[j].kind = stack[j].kind /\ stack'[j].nocase = stack[j].nocase
      /\ f.labels = 0 /\ f.listed = 0
  <2>1. Called(s, f, n)
    BY <1>1, <1>2, OpensFacts
  <2> QED BY <2>1 DEF Called
<1>4. /\ l \in 1 .. n /\ \A i \in 1 .. n : i # l => s[i] = stack[i]
      /\ s[l].labels = stack[l].labels + 1
      /\ IF InSwitchBlock(Target(n))
         THEN s[l].listed = stack[l].listed + 1 /\ (stack[l].refused => s[l].refused)
         ELSE s[l].listed = stack[l].listed /\ s[l].refused = stack[l].refused
  BY <1>1, <1>2, LabelledFacts
<1>5. Len(stack') \in Nat /\ n <= Len(stack') /\ stack # <<>>
  BY <1>1, <1>3 DEF Types
<1>6. ASSUME NEW j \in 1 .. n + 1, stack'[j].kind = "SwitchStmt", ~stack'[j].refused, stack'[j].listed # stack'[j].labels
      PROVE  \E k \in Nat : Unseen(stack', j, k)
  <2>1. j \in 1 .. n /\ stack'[j] = s[j] /\ stack[j].kind = "SwitchStmt"
    BY <1>2, <1>3, <1>6 DEF Labels
  <2>2. CASE j # l
    <3>1. ~stack[j].refused /\ stack[j].listed # stack[j].labels
      BY <1>4, <1>6, <2>1, <2>2
    <3> QED BY <1>1, <1>3, <1>5, <2>1, <3>1, SwitchKept
  <2>3. CASE j = l /\ InSwitchBlock(Target(n))
    <3>1. ~stack[j].refused /\ stack[j].listed # stack[j].labels
      BY <1>4, <1>6, <2>1, <2>3
    <3> QED BY <1>1, <1>3, <1>5, <2>1, <3>1, SwitchKept
  <2>4. CASE j = l /\ ~InSwitchBlock(Target(n))
    <3>1. n + 1 \in j + 1 .. Len(stack') /\ n + 1 \in Nat
      BY <1>3, <2>1
    <3>2. ASSUME NEW i \in j + 1 .. n + 1 PROVE stack'[i].kind # "SwitchStmt"
      <4>1. CASE i = n + 1
        BY <1>2, <1>3, <4>1 DEF Labels
      <4>2. CASE i # n + 1
        <5>1. i \in j + 1 .. n /\ i \in 1 .. n
          BY <1>3, <2>1, <4>2
        <5>2. stack[i].kind # "SwitchStmt"
          BY <1>1, <1>2, <2>4, <5>1 DEF InnermostSwitch
        <5> QED BY <1>3, <5>1, <5>2
      <4> QED BY <4>1, <4>2
    <3>3. ~no_case(stack'[n + 1])
      <4>1. ~no_case(f)
        BY <1>2 DEF no_case, Labels
      <4> QED BY <1>3, <4>1
    <3>4. ~InBlock(stack', TargetOf(stack', n + 1))
      <4>1. PICK x : x = TargetOf(stack, n)
        OBVIOUS
      <4>2. stack[1].kind \notin Labels
        BY <1>5, FirstKind
      <4>3. IsTarget(stack, n, x)
        BY <1>3, <4>1, <4>2, TargetFacts
      <4>a. x \in 1 .. n /\ stack[x].kind \notin Labels /\ \A i \in x + 1 .. n : stack[i].kind \in Labels
        BY <4>3 DEF IsTarget
      <4>4. x \in 1 .. n /\ (x > 1 => x - 1 \in 1 .. n) /\ stack[x].kind \notin Labels /\ \A i \in x + 1 .. n : stack[i].kind \in Labels
        BY <1>3, <4>a
      <4>5. IsTarget(stack', n + 1, x)
        <5>1. x \in 1 .. n + 1 /\ stack'[x].kind \notin Labels
          BY <1>3, <4>4
        <5>2. ASSUME NEW i \in x + 1 .. n + 1 PROVE stack'[i].kind \in Labels
          <6>1. CASE i = n + 1
            BY <1>2, <1>3, <6>1
          <6>2. CASE i # n + 1
            <7>1. i \in x + 1 .. n /\ i \in 1 .. n
              BY <1>3, <4>4, <6>2
            <7> QED BY <1>3, <4>4, <7>1
          <6> QED BY <6>1, <6>2
        <5> QED BY <5>1, <5>2 DEF IsTarget
      <4>6. stack'[1].kind \notin Labels
        BY <1>3, <4>2
      <4>7. IsTarget(stack', n + 1, TargetOf(stack', n + 1))
        BY <3>1, <1>3, <4>6, TargetFacts
      <4>8. TargetOf(stack', n + 1) = x
        BY <3>1, <4>5, <4>7, TargetUnique
      <4>9. ~InBlock(stack, x)
        BY <2>4, <4>1, Bridge
      <4>10. ~InBlock(stack', x)
        BY <1>3, <4>4, <4>9 DEF InBlock
      <4> QED BY <4>8, <4>10
    <3> QED BY <3>1, <3>2, <3>3, <3>4 DEF Unseen
  <2> QED BY <2>2, <2>3, <2>4
<1> QED BY <1>3, <1>6 DEF SwitchInv

\* Printing a text, an expression or nothing preserves SwitchInv.
LEMMA AdvancesSwitch ==
  ASSUME Types, CallInv, SwitchInv, NEW c, Advances(c)
  PROVE  SwitchInv'
<1>1. Active /\ Goes(c) /\ c \in Seq(Tokens(Top.kind))
  BY DEF Advances
<1>2. PICK n : n = Len(stack)
  OBVIOUS
<1>3. /\ n \in Nat /\ DOMAIN stack = 1 .. n /\ DOMAIN stack' = 1 .. n /\ Len(stack') = n
      /\ \A j \in 1 .. n : /\ stack'[j].kind = stack[j].kind /\ stack'[j].nocase = stack[j].nocase
                           /\ stack'[j].labels = stack[j].labels /\ stack'[j].listed = stack[j].listed
                           /\ stack'[j].refused = stack[j].refused
  BY <1>1, <1>2, GoesFacts
<1>4. ASSUME NEW j \in 1 .. n, stack'[j].kind = "SwitchStmt", ~stack'[j].refused, stack'[j].listed # stack'[j].labels
      PROVE  \E k \in Nat : Unseen(stack', j, k)
  <2>1. stack[j].kind = "SwitchStmt" /\ ~stack[j].refused /\ stack[j].listed # stack[j].labels
    BY <1>3, <1>4
  <2>2. Len(stack') \in Nat /\ n <= Len(stack')
    BY <1>3
  <2> QED BY <1>2, <1>3, <2>1, <2>2, SwitchKept
<1> QED BY <1>3, <1>4 DEF SwitchInv

\* The domain of a sequence.
LEMMA SeqDomain == \A S : \A s \in Seq(S) : DOMAIN s = 1 .. Len(s)
OBVIOUS

\* A case in a statement is a case in the statement around it.
LEMMA NoCaseLower ==
  ASSUME NEW f, NEW e, NEW u, u.kind = e.kind, u.nocase = (e.nocase /\ no_case(f))
  PROVE  /\ ~no_case(e) => ~no_case(u)
         /\ ~no_case(f) /\ e.kind \notin {"SwitchStmt", "DeclStmt", "Leaf", "VarDecl"} => ~no_case(u)
<1>1. CASE e.kind \in Labels \cup {"CXXTryStmt"}
  <2>1. ~no_case(u)
    BY <1>1 DEF no_case, Labels
  <2> QED BY <2>1
<1>2. CASE e.kind \in {"SwitchStmt", "DeclStmt", "Leaf", "VarDecl"}
  <2>1. no_case(e)
    BY <1>2 DEF no_case, Labels
  <2> QED BY <1>2, <2>1
<1>3. CASE e.kind \notin {"SwitchStmt", "DeclStmt", "Leaf", "VarDecl", "CXXTryStmt"} \cup Labels
  <2>1. no_case(e) = e.nocase /\ no_case(u) = u.nocase
    BY <1>3 DEF no_case
  <2> QED BY <2>1
<1> QED BY <1>1, <1>2, <1>3

\* The handler that is done had a case, and none was below it.
LEMMA UnseenMoves ==
  ASSUME Types, CallInv, Return, NEW n, n = Len(stack), NEW c \in Nat, c > 0, n = c + 1,
         ResumesTo(Top, stack, c, stack'), Len(stack') = c,
         NEW j \in 1 .. c, stack[j].kind = "SwitchStmt", Unseen(stack, j, n), ~stack'[j].refused
  PROVE  Unseen(stack', j, c)
<1>0. stack # <<>>
  BY DEF Return
<1>1. /\ Top = stack[n] /\ n \in Nat /\ DOMAIN stack = 1 .. n /\ n \in 1 .. n /\ c \in 1 .. n /\ c \in 1 .. c
      /\ stack # <<>>
  <2>1. Top = stack[n]
    BY Zenon DEF Top
  <2>2. stack \in Seq(FrameType)
    BY DEF Types
  <2>3. DOMAIN stack = 1 .. n
    BY <2>2, SeqDomain, Zenon
  <2> QED BY <1>0, <2>1, <2>3
<1>2. /\ \A i \in 1 .. c : stack'[i].kind = stack[i].kind
      /\ stack'[c].nocase = (stack[c].nocase /\ no_case(Top))
      /\ stack[c].kind = "SwitchStmt" /\ Top.kind \notin {"VarDecl", "CompoundStmt"} => stack'[c].refused
      /\ Top.kind \notin Labels /\ InSwitchBlock(Target(c)) /\ ~no_case(Top) => stack'[Target(c) - 1].refused
  BY DEF ResumesTo
<1>3. /\ \A i \in j + 1 .. n : stack[i].kind # "SwitchStmt"
      /\ ~no_case(stack[n]) /\ ~InBlock(stack, TargetOf(stack, n))
  BY DEF Unseen
<1>4. stack[1].kind \notin Labels
  BY <1>1, FirstKind
<1>5. Top.kind # "VarDecl"
  BY <1>1, <1>3 DEF no_case, Labels
<1>6. j # c
  <2>1. SUFFICES ASSUME j = c PROVE FALSE
    OBVIOUS
  <2>2. Top.kind = "CompoundStmt"
    BY <1>2, <1>5, <2>1
  <2>3. InBlock(stack, n) /\ IsTarget(stack, n, n)
    BY <1>1, <2>1, <2>2 DEF InBlock, IsTarget, Labels
  <2>4. IsTarget(stack, n, TargetOf(stack, n))
    BY <1>1, <1>4, TargetFacts
  <2>5. TargetOf(stack, n) = n
    BY <1>1, <2>3, <2>4, TargetUnique
  <2> QED BY <1>3, <2>3, <2>5
<1>7. c \in j + 1 .. c /\ \A i \in j + 1 .. c : i \in j + 1 .. n /\ i \in 1 .. c
  BY <1>6
<1>8. ~no_case(stack'[c])
  <2>1. stack[c].kind # "SwitchStmt"
    BY <1>3, <1>7
  <2>2. /\ stack[c].code # <<>> /\ Head(stack[c].code) \in Calls
        /\ stack[c + 1].kind = "VarDecl" <=> Head(stack[c].code) \in {<<"local">>} \cup Pairs
    BY <1>1 DEF CallInv
  <2>3. Head(stack[c].code) \in Tokens(stack[c].kind) /\ stack[c].kind \in Kinds
    <3>1. stack[c].code \in Seq(Tokens(stack[c].kind)) /\ stack[c] \in FrameType
      BY <1>1 DEF Types, FrameOK
    <3> QED BY <2>2, <3>1, HeadIn DEF FrameType
  <2>4. Head(stack[c].code) \notin Texts \cup Uses
    BY <2>2 DEF Calls, Pairs, RangeParts, Texts, Uses, W, Words
  <2>5. stack[c].kind \notin {"DeclStmt", "Leaf", "VarDecl"}
    BY <1>1, <1>5, <2>2, <2>3, <2>4, TokenKinds
  <2>6. stack[c].kind \notin {"SwitchStmt", "DeclStmt", "Leaf", "VarDecl"} /\ stack'[c].kind = stack[c].kind /\ ~no_case(Top)
    BY <1>1, <1>2, <1>3, <2>1, <2>5
  <2> QED BY <1>2, <2>6, NoCaseLower
<1>9. ~InBlock(stack, TargetOf(stack, c))
  <2>1. SUFFICES ASSUME InBlock(stack, TargetOf(stack, c)) PROVE FALSE
    OBVIOUS
  <2>2. PICK x : x = TargetOf(stack, c)
    OBVIOUS
  <2>3. IsTarget(stack, c, x)
    BY <1>4, <2>2, TargetFacts
  <2>4. x \in 1 .. c /\ stack[x].kind \notin Labels /\ (\A i \in x + 1 .. c : stack[i].kind \in Labels) /\ x > 1
        /\ stack[x].kind = "CompoundStmt" /\ stack[x - 1].kind = "SwitchStmt"
    BY <2>1, <2>2, <2>3 DEF IsTarget, InBlock
  <2>5. CASE Top.kind \in Labels
    <3>1. IsTarget(stack, n, x)
      <4>1. ASSUME NEW i \in x + 1 .. n PROVE stack[i].kind \in Labels
        <5>1. i = n \/ i \in x + 1 .. c
          BY <2>4
        <5> QED BY <1>1, <2>4, <2>5, <5>1
      <4> QED BY <2>4, <4>1 DEF IsTarget
    <3>2. IsTarget(stack, n, TargetOf(stack, n))
      BY <1>1, <1>4, TargetFacts
    <3>3. TargetOf(stack, n) = x
      BY <1>1, <3>1, <3>2, TargetUnique
    <3> QED BY <1>3, <2>1, <2>2, <3>3
  <2>6. CASE Top.kind \notin Labels
    <3>1. Target(c) = x /\ InSwitchBlock(Target(c)) /\ ~no_case(Top)
      BY <1>1, <1>3, <2>1, <2>2, TargetIs, Bridge
    <3>2. stack'[x - 1].refused
      BY <1>2, <2>6, <3>1
    <3>3. j = x - 1
      <4>1. x - 1 \notin j + 1 .. n /\ x - 1 \in 1 .. n
        BY <1>3, <2>4
      <4>2. x - 1 <= j
        BY <4>1
      <4>3. j # x
        BY <2>4
      <4>4. j \notin x + 1 .. c
        BY <2>4 DEF Labels
      <4> QED BY <2>4, <4>2, <4>3, <4>4
    <3> QED BY <3>2, <3>3
  <2> QED BY <2>5, <2>6
<1>10. ~InBlock(stack', TargetOf(stack', c))
  <2>1. \A i \in 1 .. c : stack[i].kind = stack'[i].kind
    BY <1>2
  <2> QED BY <1>4, <1>9, <2>1, TargetSame
<1> QED BY <1>2, <1>3, <1>7, <1>8, <1>10 DEF Unseen

\* A return preserves SwitchInv.
LEMMA ReturnSwitch ==
  ASSUME Types, CallInv, SwitchInv, Return
  PROVE  SwitchInv'
<1>1. CASE Len(stack) <= 1
  <2>1. stack' = <<>>
    BY <1>1, LastReturn
  <2>2. DOMAIN stack' = {}
    BY <2>1
  <2> QED BY <2>2 DEF SwitchInv
<1>2. CASE Len(stack) > 1
  <2>1. PICK n, c : n = Len(stack) /\ c = n - 1
    OBVIOUS
  <2>2. /\ n \in Nat /\ c \in Nat /\ c > 0 /\ n = c + 1 /\ DOMAIN stack = 1 .. n
        /\ DOMAIN stack' = 1 .. c /\ Len(stack') = c /\ ResumesTo(Top, stack, c, stack')
    BY <1>2, <2>1, ReturnFacts
  <2>3. /\ \A i \in 1 .. c : /\ stack'[i].kind = stack[i].kind /\ stack'[i].labels = stack[i].labels
                             /\ stack'[i].listed = stack[i].listed /\ (stack[i].refused => stack'[i].refused)
        /\ \A i \in 1 .. c - 1 : stack'[i].nocase = stack[i].nocase
        /\ stack'[c].nocase = (stack[c].nocase /\ no_case(Top))
    BY <2>2 DEF ResumesTo
  <2>4. ASSUME NEW j \in 1 .. c, stack'[j].kind = "SwitchStmt", ~stack'[j].refused, stack'[j].listed # stack'[j].labels
        PROVE  \E k \in Nat : Unseen(stack', j, k)
    <3>1. j \in 1 .. n /\ j \in Nat /\ stack[j].kind = "SwitchStmt" /\ ~stack[j].refused /\ stack[j].listed # stack[j].labels
      BY <2>2, <2>3, <2>4
    <3>2. PICK k \in Nat : Unseen(stack, j, k)
      BY <2>2, <3>1 DEF SwitchInv
    <3>3. k \in j + 1 .. n /\ ~no_case(stack[k])
      BY <2>1, <3>2 DEF Unseen
    <3>4. CASE k = n
      <4>1. Unseen(stack, j, n)
        BY <3>2, <3>4
      <4>2. Unseen(stack', j, c)
        BY <2>1, <2>2, <2>4, <3>1, <4>1, UnseenMoves
      <4> QED BY <2>2, <4>2
    <3>5. CASE k # n
      <4>1. k \in 1 .. c /\ k <= Len(stack') /\ Len(stack) \in Nat /\ Len(stack') \in Nat /\ stack # <<>>
            /\ \A i \in 1 .. k : i \in 1 .. c
        BY <1>2, <2>1, <2>2, <3>1, <3>3, <3>5
      <4>2. ~no_case(stack'[k])
        <5>1. CASE k = c
          <6>1. c \in 1 .. c
            BY <2>2
          <6>2. stack'[c].kind = stack[c].kind /\ ~no_case(stack[c])
            BY <2>3, <3>3, <5>1, <6>1
          <6> QED BY <2>3, <5>1, <6>2, NoCaseLower
        <5>2. CASE k # c
          <6>1. k \in 1 .. c - 1
            BY <2>2, <4>1, <5>2
          <6>2. stack'[k].kind = stack[k].kind /\ stack'[k].nocase = stack[k].nocase
            BY <2>3, <4>1, <6>1
          <6> QED BY <3>3, <6>2, NoCaseSame
        <5> QED BY <5>1, <5>2
      <4>3. \A i \in 1 .. k : stack[i].kind = stack'[i].kind
        BY <2>3, <4>1
      <4>4. stack[1].kind \notin Labels
        BY <4>1, FirstKind
      <4>5. Unseen(stack', j, k)
        BY <3>1, <3>2, <4>1, <4>2, <4>3, <4>4, UnseenSame
      <4> QED BY <4>5
    <3> QED BY <3>4, <3>5
  <2> QED BY <2>2, <2>4 DEF SwitchInv
<1>3. Len(stack) \in Nat
  BY DEF Types
<1> QED BY <1>1, <1>2, <1>3

(***************************************************************************)
(* The inductive invariant.                                                *)
(***************************************************************************)
Inv == Types /\ CallInv /\ DepthInv /\ HiddenInv /\ NameInv /\ NumberInv /\ SwitchInv

\* The handlers of a function and of its body.
LEMMA InitStack ==
  ASSUME Init
  PROVE  \E p \in Variable, e, g \in FrameType :
           /\ stack = <<e, g>> /\ p.name \in Names /\ p.id = 1 /\ p.how = "auto"
           /\ e.kind = "Function" /\ e.code = Body /\ e.cpp = {p} /\ e.coq = {p} /\ e.depth = 1
           /\ e.labels = 0 /\ e.listed = 0
           /\ g.kind = "CompoundStmt" /\ g.code \in CompoundStmtCode /\ g.cpp = {} /\ g.coq = {} /\ g.depth = 1
           /\ g.labels = 0 /\ g.listed = 0
           /\ Prints("CompoundStmt", g.code, "Stmt")
<1>1. PICK m \in Names, c \in CompoundStmtCode :
        LET p == [name |-> m, id |-> 1, how |-> "auto", init |-> TRUE]
        IN stack = <<[Frame("Function", Body, {p}) EXCEPT !.coq = {p}], Frame("CompoundStmt", c, {})>>
  BY DEF Init
<1>2. PICK p : p = [name |-> m, id |-> 1, how |-> "auto", init |-> TRUE]
  OBVIOUS
<1>3. p \in Variable /\ p.name \in Names /\ p.id = 1 /\ p.how = "auto"
  BY <1>2 DEF Variable, Hows
<1>4. PICK e, g : e = [Frame("Function", Body, {p}) EXCEPT !.coq = {p}] /\ g = Frame("CompoundStmt", c, {})
  OBVIOUS
<1>5. stack = <<e, g>>
  BY <1>1, <1>2, <1>4
<1>6. Len(out) = 1
  BY DEF Init, NoOutput
<1>7. StmtCode("CompoundStmt", c)
  BY DEF StmtCode
<1>8. Prints("CompoundStmt", c, "Stmt")
  BY <1>7, StmtPrints
<1>9. {"Function", "CompoundStmt"} \subseteq Kinds
  BY DEF Kinds
<1>10. c \in Seq(Texts \cup Uses \cup Calls) /\ Body \in Seq(Texts \cup Uses \cup Calls)
  <2>1. c \in Seq(Tokens("CompoundStmt"))
    BY <1>8, <1>9, PrintsDepth
  <2>2. c \in Seq(All)
    BY <1>9, <2>1, TokensAll, SeqMono
  <2>3. <<"stmt">> \in Calls
    BY CallFacts
  <2> QED BY <2>2, <2>3 DEF All, Body
<1>11. PICK V : V = {p}
  OBVIOUS
<1>12. V \in SUBSET Variable
  BY <1>3, <1>11
<1>13. /\ e \in FrameType /\ e.kind = "Function" /\ e.code = Body /\ e.cpp = V /\ e.coq = V /\ e.depth = 1
       /\ e.labels = 0 /\ e.listed = 0
  <2>1. e = [Frame("Function", Body, V) EXCEPT !.coq = V]
    BY <1>4, <1>11
  <2>2. PICK x : x = Frame("Function", Body, V)
    OBVIOUS
  <2>3. /\ x \in FrameType /\ x.kind = "Function" /\ x.code = Body /\ x.cpp = V /\ x.depth = 1
        /\ x.labels = 0 /\ x.listed = 0
    BY <1>6, <1>9, <1>10, <1>12, <2>2 DEF Frame, FrameType, get_depth
  <2>4. e = [x EXCEPT !.coq = V]
    BY <2>1, <2>2
  <2> QED BY <1>12, <2>3, <2>4 DEF FrameType
<1>14. /\ g \in FrameType /\ g.kind = "CompoundStmt" /\ g.code = c /\ g.cpp = {} /\ g.coq = {} /\ g.depth = 1
       /\ g.labels = 0 /\ g.listed = 0
  BY <1>4, <1>6, <1>9, <1>10 DEF Frame, FrameType, get_depth
<1> QED BY <1>3, <1>5, <1>8, <1>11, <1>13, <1>14

\* The invariant holds when the body is visited.
LEMMA InitInv == Init => Inv
<1>1. SUFFICES ASSUME Init PROVE Inv
  OBVIOUS
<1>2. PICK p \in Variable, e \in FrameType, g \in FrameType :
           /\ stack = <<e, g>> /\ p.name \in Names /\ p.id = 1 /\ p.how = "auto"
           /\ e.kind = "Function" /\ e.code = Body /\ e.cpp = {p} /\ e.coq = {p} /\ e.depth = 1
           /\ e.labels = 0 /\ e.listed = 0
           /\ g.kind = "CompoundStmt" /\ g.code \in CompoundStmtCode /\ g.cpp = {} /\ g.coq = {} /\ g.depth = 1
           /\ g.labels = 0 /\ g.listed = 0
           /\ Prints("CompoundStmt", g.code, "Stmt")
  BY <1>1, InitStack
<1>3. /\ stack \in Seq(FrameType) /\ Len(stack) = 2 /\ DOMAIN stack = {1, 2} /\ stack[1] = e /\ stack[2] = g /\ Top = g
      /\ stack # <<>>
  BY <1>2 DEF Top
<1>4. out = NoOutput /\ size = 0 /\ decls = 1 /\ loose = FALSE
  BY <1>1 DEF Init
<1>5. out \in Seq(Group) /\ Len(out) = 1
  <2>1. "Body" \in Ctors
    BY DEF Ctors, Signatures
  <2>2. [head |-> "Body", args |-> <<>>] \in Group
    BY <2>1 DEF Group
  <2> QED BY <1>4, <2>2 DEF NoOutput
<1>6. Types
  <2>1. g.code \in Seq(Tokens(g.kind))
    BY <1>2, PrintsDepth DEF Kinds
  <2>2. e.code \in Seq(Tokens(e.kind))
    <3>1. <<"stmt">> \in Tokens("Function")
      BY TokenFacts
    <3> QED BY <1>2, <3>1 DEF Body
  <2>3. FrameOK(e) /\ FrameOK(g)
    BY <1>2, <1>4, <2>1, <2>2 DEF FrameOK
  <2>4. MaxNodes \in Nat
    BY PrintStmtAssumption
  <2>5. \A j \in DOMAIN stack : FrameOK(stack[j])
    BY <1>3, <2>3
  <2>6. loose \in BOOLEAN
    BY <1>4
  <2>7. size \in Nat /\ size <= MaxNodes /\ decls \in Nat
    BY <1>4, <2>4
  <2> QED BY <1>3, <1>5, <2>5, <2>6, <2>7 DEF Types
<1>7. CallInv
  <2>1. e.code # <<>> /\ Head(e.code) = <<"stmt">>
    BY <1>2 DEF Body
  <2>2. g.kind # "VarDecl" /\ g.kind # "Function"
    BY <1>2
  <2> QED BY <1>2, <1>3, <2>1, <2>2, CallFacts DEF CallInv
<1>8. DepthInv
  <2>0. "CompoundStmt" \in Kinds /\ 1 \in Depths
    BY DEF Kinds, Depths
  <2>1. Neutral(g.code) /\ 1 \in Depths
    BY <1>2, <2>0, PrintsDepth
  <2>2. DepthPath(g.code, Len(out), g.depth)
    BY <1>2, <1>5, <2>1 DEF Neutral
  <2>3. Tail(e.code) = <<>>
    BY <1>2 DEF Body
  <2>4. DepthPath(Tail(e.code), g.depth, e.depth)
    <3>1. g.depth = 1 /\ e.depth = 1
      BY <1>2
    <3>2. DepthPath(<<>>, 1, 1)
      BY <2>1, PathNone DEF DepthPath
    <3> QED BY <2>3, <3>1, <3>2
  <2>5. \A j \in DOMAIN stack : stack[j].depth \in Depths
    BY <1>2, <1>3, <2>1
  <2>6. DepthPath(Top.code, Len(out), Top.depth)
    BY <1>3, <2>2
  <2>7. ASSUME NEW j \in DOMAIN stack, j < Len(stack)
        PROVE  DepthPath(Tail(stack[j].code), stack[j + 1].depth, stack[j].depth)
    <3>1. j = 1 /\ stack[j] = e /\ stack[j + 1] = g
      BY <1>3, <2>7
    <3> QED BY <2>4, <3>1
  <2> QED BY <2>5, <2>6, <2>7 DEF DepthInv
<1>9. HiddenInv
  <2>1. p.name \notin HiddenNames
    BY <1>2, NamesApart
  <2>2. e.kind # "DeclStmt" /\ g.kind # "DeclStmt"
    BY <1>2
  <2> QED BY <1>2, <1>3, <2>1, <2>2 DEF HiddenInv
<1>10. NameInv
  <2>1. NameOK(e)
    BY <1>2 DEF NameOK, InBoth
  <2>2. NameOK(g)
    BY <1>2 DEF NameOK, InBoth
  <2> QED BY <1>3, <2>1, <2>2 DEF NameInv
<1>11. NumberInv
  BY <1>2, <1>3, <1>4 DEF NumberInv
<1>12. SwitchInv
  BY <1>2, <1>3 DEF SwitchInv
<1> QED BY <1>6, <1>7, <1>8, <1>9, <1>10, <1>11, <1>12 DEF Inv

\* A call of a handler preserves Inv.
LEMMA PlainInv == ASSUME Inv, NEW f, Plain(f) PROVE Inv'
BY PlainTypes, OpensCalls, OpensDepth, PlainHidden, PlainNames, PlainNumber, PlainSwitch DEF Inv, Plain

\* The init-statement of a range-for preserves Inv.
LEMMA RangeInitInv == ASSUME Inv, NEW d, NEW f, NEW s, RangeInit(d, f, s) PROVE Inv'
<1>1. Opens(s, f)
  BY DEF RangeInit
<1> QED BY <1>1, RangeInitTypes, OpensCalls, OpensDepth, RangeInitHidden, RangeInitNames, RangeInitNumber,
           RangeInitSwitch DEF Inv

\* A label preserves Inv.
LEMMA LabelInv == ASSUME Inv, NEW j, NEW b \in BOOLEAN, NEW f, LabelOpens(j, b, f) PROVE Inv'
<1>1. PICK s : s = Labelled(j, b)
  OBVIOUS
<1>2. Opens(s, f)
  BY <1>1 DEF LabelOpens
<1>3. CallInv' /\ DepthInv'
  BY <1>2, OpensCalls, OpensDepth DEF Inv
<1> QED BY <1>3, LabelTypes, LabelHidden, LabelNames, LabelNumber, LabelSwitch DEF Inv

\* Printing a text, an expression or nothing preserves Inv.
LEMMA AdvancesInv == ASSUME Inv, NEW c, Advances(c) PROVE Inv'
<1>1. DepthInv'
  BY GoesDepth DEF Inv, Advances
<1> QED BY <1>1, AdvancesTypes, AdvancesCalls, AdvancesHidden, AdvancesNames, AdvancesNumber, AdvancesSwitch DEF Inv

\* A return preserves Inv.
LEMMA ReturnInv == ASSUME Inv, Return PROVE Inv'
BY ReturnTypes, ReturnCalls, ReturnDepth, ReturnHidden, ReturnNames, ReturnNumber, ReturnSwitch DEF Inv

\* VisitStmt ends the program.
LEMMA StopInv == ASSUME Inv, VisitStmt PROVE Inv'
<1>1. stack' = <<>> /\ out' = NoOutput /\ UNCHANGED <<size, decls, loose>>
  BY DEF VisitStmt
<1>2. DOMAIN stack' = {} /\ stack' \in Seq(FrameType)
  BY <1>1
<1>3. out' \in Seq(Group)
  <2>1. "Body" \in Ctors
    BY DEF Ctors, Signatures
  <2>2. [head |-> "Body", args |-> <<>>] \in Group
    BY <2>1 DEF Group
  <2> QED BY <1>1, <2>2 DEF NoOutput
<1>4. Types'
  BY <1>1, <1>2, <1>3 DEF Inv, Types
<1>5. CallInv' /\ HiddenInv' /\ NameInv' /\ NumberInv' /\ SwitchInv'
  BY <1>2 DEF CallInv, HiddenInv, NameInv, NumberInv, SwitchInv
<1>6. DepthInv'
  BY <1>1, <1>2 DEF DepthInv
<1> QED BY <1>4, <1>5, <1>6 DEF Inv

\* The invariant is inductive.
LEMMA NextInv == Inv /\ [Next]_vars => Inv'
<1>1. SUFFICES ASSUME Inv, [Next]_vars PROVE Inv'
  OBVIOUS
<1>2. CASE Next
  <2>1. Types /\ HiddenInv /\ DepthInv
    BY <1>1 DEF Inv
  <2> QED BY <1>1, <1>2, <2>1, StepCases, PlainInv, RangeInitInv, LabelInv, TextAdvances, ExprAdvances, OtherDeclAdvances,
             AdvancesInv, ReturnInv, StopInv
<1>3. CASE UNCHANGED vars
  <2>1. UNCHANGED <<stack, out, size, decls, loose>>
    BY <1>3 DEF vars
  <2>2. Types'
    BY <1>1, <2>1 DEF Inv, Types, FrameOK
  <2>3. CallInv' /\ HiddenInv' /\ NameInv' /\ NumberInv' /\ SwitchInv'
    BY <1>1, <2>1 DEF Inv, CallInv, HiddenInv, NameInv, NumberInv, SwitchInv
  <2>4. DepthInv'
    BY <1>1, <2>1 DEF Inv, DepthInv, Top
  <2> QED BY <2>2, <2>3, <2>4 DEF Inv
<1> QED BY <1>1, <1>2, <1>3

\* It holds in every state.
LEMMA Invariance == Spec => []Inv
<1>1. Init => Inv
  BY InitInv
<1>2. Inv /\ [Next]_vars => Inv'
  BY NextInv
<1> QED BY <1>1, <1>2, PTL DEF Spec

(***************************************************************************)
(* The theorems.                                                           *)
(***************************************************************************)
\* Every variable of the printer has its type, and a switch lists at most the
\* labels that it has, which the size of the statement bounds.
THEOREM StmtTypes == Spec => []TypeOK
<1>1. Inv => TypeOK
  <2>1. SUFFICES ASSUME Types PROVE TypeOK
    BY DEF Inv
  <2>2. size \in 0 .. MaxNodes /\ decls \in Nat /\ loose \in BOOLEAN
    BY <2>1, PrintStmtAssumption DEF Types
  <2>3. \A i \in DOMAIN out : out[i].head \in DOMAIN Signatures \cup {"list", "Some"}
    <3>1. \A i \in DOMAIN out : out[i] \in Group
      BY <2>1 DEF Types
    <3> QED BY <3>1 DEF Group, Ctors
  <2>4. ASSUME NEW j \in DOMAIN stack
        PROVE  /\ stack[j].kind \in Kinds /\ stack[j].depth \in Nat
               /\ \A d \in stack[j].cpp \cup stack[j].coq : IsVar(d)
               /\ stack[j].nocase \in BOOLEAN /\ stack[j].default \in BOOLEAN
               /\ stack[j].declared \in BOOLEAN /\ stack[j].refused \in BOOLEAN
               /\ stack[j].labels \in 0 .. MaxNodes /\ stack[j].listed \in 0 .. stack[j].labels
    <3>1. stack[j] \in FrameType /\ stack[j].listed <= stack[j].labels /\ stack[j].labels <= size
      BY <2>1 DEF Types, FrameOK
    <3>2. /\ stack[j].kind \in Kinds /\ stack[j].depth \in Nat
          /\ stack[j].nocase \in BOOLEAN /\ stack[j].default \in BOOLEAN
          /\ stack[j].declared \in BOOLEAN /\ stack[j].refused \in BOOLEAN
          /\ stack[j].labels \in Nat /\ stack[j].listed \in Nat
      BY <3>1 DEF FrameType
    <3>3. stack[j].labels \in 0 .. MaxNodes /\ stack[j].listed \in 0 .. stack[j].labels
      BY <2>2, <3>1, <3>2, PrintStmtAssumption
    <3>4. HiddenNames \subseteq {Hidden[i] : i \in DOMAIN Hidden}
      BY DEF HiddenNames, Hidden
    <3>5. ASSUME NEW d \in stack[j].cpp \cup stack[j].coq PROVE IsVar(d)
      <4>1. d \in Variable
        BY <3>1 DEF FrameType
      <4> QED BY <3>4, <4>1 DEF IsVar, Variable
    <3> QED BY <3>2, <3>3, <3>5
  <2> QED BY <2>2, <2>3, <2>4 DEF TypeOK
<1> QED BY <1>1, Invariance, PTL

\* A handler that is done is the one at the top.
LEMMA FinishedTop ==
  ASSUME Types, CallInv, NEW j \in DOMAIN stack, stack[j].code = <<>>
  PROVE  j = Len(stack) /\ stack # <<>>
<1>1. stack \in Seq(FrameType) /\ j \in 1 .. Len(stack) /\ Len(stack) \in Nat
  BY DEF Types
<1>2. ~(j < Len(stack))
  BY DEF CallInv
<1> QED BY <1>1, <1>2

\* The assertion at the end of printStmt: however statements, declarations and
\* labels are nested, and whatever they print, a handler that is done leaves the
\* formatter at the depth at which it started.
THEOREM DepthsRestored == Spec => []DepthRestored
<1>1. Inv => DepthRestored
  <2>1. SUFFICES ASSUME Inv, NEW j \in DOMAIN stack, Finished(stack[j])
                 PROVE  Len(out) = stack[j].depth
    BY DEF DepthRestored, get_depth
  <2>2. Types /\ CallInv /\ DepthInv /\ stack[j].code = <<>>
    BY <2>1 DEF Inv, Finished
  <2>3. j = Len(stack) /\ stack # <<>>
    BY <2>2, FinishedTop
  <2>4. DepthPath(stack[j].code, Len(out), stack[j].depth)
    BY <2>2, <2>3, DepthTop
  <2> QED BY <2>2, <2>4, PathEmpty DEF DepthPath
<1> QED BY <1>1, Invariance, PTL

\* A switch whose block wp_switch_block accepts lists all its cases: one that is
\* nested where wp_switch_block does not look, however deeply and under
\* whatever labels, makes it refuse the block.
THEOREM SwitchesMean == Spec => []SwitchesSound
<1>1. Inv => SwitchesSound
  <2>1. SUFFICES ASSUME Inv, NEW j \in DOMAIN stack, stack[j].kind = "SwitchStmt", Finished(stack[j]),
                        ~stack[j].refused, stack[j].listed # stack[j].labels
                 PROVE  FALSE
    BY DEF SwitchesSound
  <2>2. Types /\ CallInv /\ SwitchInv /\ stack[j].code = <<>>
    BY <2>1 DEF Inv, Finished
  <2>3. j = Len(stack) /\ Len(stack) \in Nat
    BY <2>2, FinishedTop DEF Types
  <2>4. PICK k \in Nat : Unseen(stack, j, k)
    BY <2>1, <2>2 DEF SwitchInv
  <2>5. k \in j + 1 .. Len(stack)
    BY <2>4 DEF Unseen
  <2> QED BY <2>3, <2>5
<1> QED BY <1>1, Invariance, PTL

\* The declarations of a name have a last one.
LEMMA LatestFacts ==
  ASSUME NEW S, NEW m \in Nat, S # {}, \A d \in S : d.id \in 0 .. m
  PROVE  Latest(S) \in S /\ \A e \in S : e.id <= Latest(S).id
<1>1. PICK T : T = {d.id : d \in S}
  OBVIOUS
<1>2. T \subseteq 0 .. m /\ T # {}
  BY <1>1
<1>3. PICK x \in T : \A y \in T : y <= x
  BY <1>2, Greatest
<1>4. \E d \in S : \A e \in S : e.id <= d.id
  BY <1>1, <1>3
<1> QED BY <1>4 DEF Latest

\* Finitely many numbers are in use.
LEMMA IdsBounded ==
  ASSUME Types, HiddenInv, NumberInv
  PROVE  \E m \in Nat : \A j \in DOMAIN stack : \A d \in stack[j].cpp : d.id \in 0 .. m
<1>1. PICK n \in Nat : n = Len(stack) /\ DOMAIN stack = 1 .. n
  BY DEF Types
<1>2. decls \in Nat
  BY DEF Types
<1>3. ASSUME NEW j \in 1 .. n, NEW d \in stack[j].cpp
      PROVE  d.id \in 0 .. decls + n + 1
  <2>1. d \in Variable /\ d.id \in Nat
    BY <1>1, VarIds
  <2>2. d.name \in Names \/ d.name \in HiddenNames
    BY <2>1 DEF Variable
  <2>3. CASE d.name \in Names
    <3>1. d.id <= decls
      BY <1>1, <2>3 DEF NumberInv
    <3> QED BY <1>2, <2>1, <3>1
  <2>4. CASE d.name \in HiddenNames
    <3>1. HiddenPlace(stack, j, d)
      BY <1>1, <2>4 DEF HiddenInv
    <3>2. d.id = j + 1 \/ d.id = j \/ d.id = j - 1
      BY <3>1 DEF HiddenPlace
    <3>3. PICK x : x = d.id
      OBVIOUS
    <3>4. x \in Nat /\ (x = j + 1 \/ x = j \/ x = j - 1)
      BY <2>1, <3>2, <3>3
    <3>5. x \in 0 .. decls + n + 1
      BY <1>1, <1>2, <3>4
    <3> QED BY <3>3, <3>5
  <2> QED BY <2>2, <2>3, <2>4
<1>4. PICK m \in Nat : m = decls + n + 1
  BY <1>2
<1>5. \A j \in DOMAIN stack : \A d \in stack[j].cpp : d.id \in 0 .. m
  BY <1>1, <1>3, <1>4
<1> QED BY <1>5

\* Where an expression is printed, what C++ finds declared is declared in Coq.
LEMMA Declared ==
  ASSUME Inv, Active, Step \in Uses, NEW j \in DOMAIN stack, NEW d \in stack[j].cpp, d.how = "auto",
         ~(Top.kind = "VarDecl" /\ d \in Top.cpp)
  PROVE  d \in stack[j].coq
<1>1. Types /\ CallInv /\ NameInv
  BY DEF Inv
<1>2. PICK n \in Nat : n = Len(stack) /\ DOMAIN stack = 1 .. n /\ Top = stack[n]
  BY <1>1 DEF Types, Top
<1>3. NameOK(stack[j])
  BY <1>1 DEF NameInv
<1>4. stack[j].kind \in Kinds /\ stack[j].code \in Seq(Tokens(stack[j].kind))
  BY <1>1 DEF Types, FrameOK, FrameType
<1>5. stack[j].code # <<>> /\ Head(stack[j].code) \in Calls \cup Uses /\ (j # n => Head(stack[j].code) \in Calls)
  <2>1. CASE j = n
    BY <1>2, <2>1 DEF Active, Step
  <2>2. CASE j # n
    BY <1>1, <1>2, <2>2 DEF CallInv
  <2> QED BY <2>1, <2>2
<1>6. Head(stack[j].code) \in Tokens(stack[j].kind) /\ Head(stack[j].code) \notin Texts /\ (j # n => Head(stack[j].code) \notin Uses)
  <2>1. Head(stack[j].code) \in Tokens(stack[j].kind)
    BY <1>4, <1>5, HeadIn
  <2>2. \A t \in Calls \cup Uses : t \notin Texts
    BY DEF Calls, Pairs, RangeParts, Texts, Uses, W, Words
  <2>3. \A t \in Calls : t \notin Uses
    BY DEF Calls, Pairs, RangeParts, Uses
  <2> QED BY <1>5, <2>1, <2>2, <2>3
<1>7. stack[j].kind # "VarDecl"
  <2>1. CASE j = n
    BY <1>2, <2>1
  <2>2. CASE j # n
    BY <1>4, <1>6, <2>2, TokenKinds
  <2> QED BY <2>1, <2>2
<1>8. stack[j].kind # "LabelStmt"
  <2>1. SUFFICES ASSUME stack[j].kind = "LabelStmt" PROVE FALSE
    OBVIOUS
  <2>2. stack[j].code \in Seq(Texts)
    BY <1>3, <2>1 DEF NameOK
  <2>3. Head(stack[j].code) \in Texts
    BY <1>5, <2>2, HeadIn
  <2> QED BY <1>6, <2>3
<1> QED BY <1>3, <1>7, <1>8 DEF NameOK, InBoth

\* Nothing is declared in Coq that is not in C++.
LEMMA CoqInCpp ==
  ASSUME NameInv, NEW j \in DOMAIN stack
  PROVE  stack[j].coq \subseteq stack[j].cpp /\ \A d \in stack[j].coq : d.how \in {"auto", "extern"}
BY DEF NameInv, NameOK, InBoth

\* A variable is known by its name and number.
LEMMA SameVariable ==
  ASSUME Types, HiddenInv, NumberInv, NEW i \in DOMAIN stack, NEW j \in DOMAIN stack,
         NEW d \in stack[i].cpp, NEW e \in stack[j].cpp, d.name = e.name, d.id = e.id
  PROVE  d = e
<1>1. d \in Variable /\ e \in Variable
  <2>1. i \in 1 .. Len(stack) /\ j \in 1 .. Len(stack)
    BY DEF Types
  <2> QED BY <2>1, VarIds
<1>2. CASE d.name \in Names
  BY <1>2 DEF NumberInv
<1>3. CASE d.name \in HiddenNames
  <2>1. d.how = "auto" /\ d.init = TRUE /\ e.how = "auto" /\ e.init = TRUE
    BY <1>3 DEF HiddenInv
  <2> QED BY <1>1, <2>1 DEF Variable
<1> QED BY <1>1, <1>2, <1>3 DEF Variable

\* Wherever an expression is printed, a name that C++ finds declared stands in
\* the output for the same variable: shadowing, nested range-fors, labels,
\* closed scopes and declarations that are not printed included.
THEOREM ScopesAgreed == Spec => []ScopesAgree
<1>1. Inv => ScopesAgree
  <2>1. SUFFICES ASSUME Inv, Does("expr") \/ Does("cond") \/ Does("inc"),
                        NEW m \in Names \cup {Hidden[i] : i \in DOMAIN Hidden}, NEW d, d = Latest(InCpp(m)),
                        d.how \in {"auto", "static"}, ~(Top.kind = "VarDecl" /\ d \in Top.cpp)
                 PROVE  VarRef(d) = d
    BY DEF ScopesAgree
  <2>2. Types /\ CallInv /\ HiddenInv /\ NameInv /\ NumberInv
    BY <2>1 DEF Inv
  <2>3. Active /\ Step \in Uses
    <3>1. Active /\ Step[1] \in {"expr", "cond", "inc"}
      BY <2>1 DEF Does
    <3> QED BY <2>2, <3>1, ActiveFacts, TokenWords
  <2>4. CASE d.how = "static"
    BY <2>4 DEF VarRef
  <2>5. CASE d.how = "auto"
    <3>1. PICK b \in Nat : \A j \in DOMAIN stack : \A e \in stack[j].cpp : e.id \in 0 .. b
      BY <2>2, IdsBounded
    <3>2. InCpp(m) # {}
      BY <2>1, <2>5 DEF Latest, NoVar
    <3>3. \A e \in InCpp(m) : e.id \in 0 .. b
      BY <3>1 DEF InCpp
    <3>4. d \in InCpp(m) /\ \A e \in InCpp(m) : e.id <= d.id
      BY <2>1, <3>2, <3>3, LatestFacts
    <3>5. PICK j \in DOMAIN stack : d \in stack[j].cpp /\ d.name = m
      BY <3>4 DEF InCpp
    <3>6. d \in stack[j].coq
      BY <2>1, <2>3, <2>5, <3>5, Declared
    <3>7. d \in InCoq(m)
      BY <3>5, <3>6 DEF InCoq
    <3>8. InCoq(m) \subseteq InCpp(m)
      BY <2>2, CoqInCpp DEF InCoq, InCpp
    <3>9. PICK x : x = Latest(InCoq(m))
      OBVIOUS
    <3>10. x \in InCoq(m) /\ \A e \in InCoq(m) : e.id <= x.id
      <4>1. InCoq(m) # {} /\ \A e \in InCoq(m) : e.id \in 0 .. b
        BY <3>3, <3>7, <3>8
      <4> QED BY <3>9, <4>1, LatestFacts
    <3>11. x \in InCpp(m) /\ x.id = d.id
      <4>1. x.id \in 0 .. b /\ d.id \in 0 .. b
        BY <3>3, <3>4, <3>8, <3>10
      <4> QED BY <3>4, <3>7, <3>8, <3>10, <4>1
    <3>12. PICK i \in DOMAIN stack : x \in stack[i].cpp /\ x.name = m
      BY <3>11 DEF InCpp
    <3>13. x = d
      BY <2>2, <3>5, <3>11, <3>12, SameVariable
    <3> QED BY <2>5, <3>5, <3>9, <3>13 DEF VarRef
  <2> QED BY <2>1, <2>4, <2>5
<1> QED BY <1>1, Invariance, PTL

(***************************************************************************)
(* Terms: what is open in the output, and what is known of it.             *)
(***************************************************************************)
ListArgs(u, s, n) ==
  /\ Len(u) % 2 = n
  /\ \A i \in 1 .. Len(u) : u[i] = IF i % 2 = 0 THEN <<"::">> ELSE <<s>>

\* The parenthesis x of the output is as a says.
Matches(x, a) ==
  /\ x \in Group /\ a \in Abstract /\ x.head = a.head /\ a.sort \in Elements
  /\ a.head = "list" => ListArgs(x.args, a.sort, a.n)
  /\ a.head = "Some" => x.args = IF a.n = 0 THEN <<>> ELSE <<<<a.sort>>>>
  /\ a.head \notin {"list", "Some"} => Len(x.args) = a.n /\ \A i \in 1 .. Len(x.args) : x.args[i] # Ill

\* The sorts that a list can have as elements.
LEMMA ElementSeqs ==
  ASSUME NEW s \in Elements
  PROVE  <<s>> \in Seq(Sorts) /\ <<s>> # Ill /\ <<s>> # <<"::">> /\ <<s>> # <<"nil">>
BY DEF Elements, Ill

\* Elements and "::" alternate.
LEMMA ModTwo ==
  ASSUME NEW k \in Nat
  PROVE  (k % 2 = 0 => (k + 1) % 2 = 1) /\ (k % 2 = 1 => (k + 1) % 2 = 0) /\ k % 2 \in {0, 1}
<1>1. k + 1 \in Nat /\ k + 1 > 0 /\ (k + 1) - 1 = k
  OBVIOUS
<1>2. PICK r \in 0 .. 1 : r = k % 2
  BY DivMod
<1>3. (k + 1) % 2 = IF ((k + 1) - 1) % 2 = 2 - 1 THEN 0 ELSE (((k + 1) - 1) % 2) + 1
  BY <1>1, ModStep
<1>4. (k + 1) % 2 = IF r = 1 THEN 0 ELSE r + 1
  BY <1>1, <1>2, <1>3
<1> QED BY <1>2, <1>4

\* Append of any value.
LEMMA AppendAny ==
  ASSUME NEW S, NEW u \in Seq(S), NEW x, NEW v, v = Append(u, x), NEW k \in Nat, k = Len(u)
  PROVE  v \in Seq(S \cup {x}) /\ Len(v) = k + 1 /\ v[k + 1] = x /\ \A i \in 1 .. k : v[i] = u[i]
<1>1. PICK T : T = S \cup {x}
  OBVIOUS
<1>2. u \in Seq(T) /\ x \in T
  BY <1>1, SeqMono
<1>3. v \in Seq(T) /\ Len(v) = Len(u) + 1 /\ v[Len(u) + 1] = x /\ \A i \in 1 .. Len(u) : v[i] = u[i]
  BY <1>2, AppendFacts
<1> QED BY <1>1, <1>3

\* A list goes on with an element or with "::".
LEMMA ListAppend ==
  ASSUME NEW S, NEW u \in Seq(S), NEW s, NEW n \in {0, 1}, ListArgs(u, s, n),
         NEW x, n = 0 => x = <<s>>, n = 1 => x = <<"::">>
  PROVE  ListArgs(Append(u, x), s, 1 - n)
<1>1. PICK k \in Nat : k = Len(u)
  BY SeqFirst
<1>3. PICK v : v = Append(u, x)
  OBVIOUS
<1>4. v \in Seq(S \cup {x}) /\ Len(v) = k + 1 /\ v[k + 1] = x /\ \A i \in 1 .. k : v[i] = u[i]
  BY <1>1, <1>3, AppendAny
<1>5. k % 2 = n
  BY <1>1 DEF ListArgs
<1>6. (k + 1) % 2 = 1 - n
  BY <1>5, ModTwo
<1>7. ASSUME NEW i \in 1 .. k + 1 PROVE v[i] = IF i % 2 = 0 THEN <<"::">> ELSE <<s>>
  <2>1. CASE i = k + 1
    BY <1>4, <1>6, <2>1
  <2>2. CASE i # k + 1
    <3>1. i \in 1 .. k
      BY <2>2
    <3> QED BY <1>1, <1>4, <3>1 DEF ListArgs
  <2> QED BY <2>1, <2>2
<1>8. ListArgs(v, s, 1 - n)
  BY <1>4, <1>6, <1>7 DEF ListArgs
<1> QED BY <1>3, <1>8

\* A term that can follow follows.
LEMMA MatchesTakes ==
  ASSUME NEW x, NEW a, Matches(x, a), NEW s \in Seq(Sorts), NEW b, Takes(a, s, b),
         NEW y, y = [head |-> x.head, args |-> Append(x.args, Argument(x, s))]
  PROVE  Matches(y, b)
<1>1. /\ x \in Group /\ a \in Abstract /\ x.head = a.head /\ a.sort \in Elements
      /\ x.args \in Seq(Seq(Sorts)) /\ x.head \in Ctors \cup {"list"} /\ a.n \in Nat
  BY DEF Matches, Group, Abstract
<1>2. PICK v : v = Argument(x, s)
  OBVIOUS
<1>3. v \in Seq(Sorts)
  BY <1>1, <1>2, ArgumentType
<1>4. y \in Group /\ y.head = a.head /\ y.args = Append(x.args, v)
  BY <1>1, <1>2, <1>3 DEF Group
<1>5. b \in Abstract
  BY <1>1, AbstractTypes
<1>6. b.head = a.head /\ b.sort = a.sort /\ b.n = a.n + 1
  BY DEF Takes
<1>7. CASE a.head = "list"
  <2>1. a.n = 0 /\ s = <<a.sort>> /\ v = s
    BY <1>1, <1>2, <1>7 DEF Takes, Argument
  <2>2. ListArgs(x.args, a.sort, 0)
    BY <1>7, <2>1 DEF Matches
  <2>3. ListArgs(Append(x.args, v), a.sort, 1 - 0)
    BY <1>1, <2>1, <2>2, ListAppend
  <2>4. ListArgs(y.args, b.sort, b.n)
    <3>1. y.args = Append(x.args, v) /\ b.sort = a.sort /\ b.n = 1 - 0
      BY <1>4, <1>6, <2>1
    <3> QED BY <2>3, <3>1
  <2>5. y.head = b.head /\ b.sort \in Elements /\ b.head = "list"
    BY <1>4, <1>6, <1>7 DEF Matches
  <2> QED BY <1>4, <1>5, <2>4, <2>5 DEF Matches
<1>8. CASE a.head = "Some"
  <2>1. a.n = 0 /\ s = <<a.sort>> /\ v = s
    BY <1>1, <1>2, <1>8 DEF Takes, Argument
  <2>2. x.args = <<>>
    BY <1>8, <2>1 DEF Matches
  <2>3. y.args = <<<<b.sort>>>> /\ b.n # 0
    BY <1>4, <1>6, <2>1, <2>2
  <2> QED BY <1>1, <1>4, <1>5, <1>6, <1>8, <2>3 DEF Matches
<1>9. CASE a.head \notin {"list", "Some"}
  <2>1. Len(x.args) = a.n /\ \A i \in 1 .. Len(x.args) : x.args[i] # Ill
    BY <1>9 DEF Matches
  <2>2. a.n < Len(Signatures[a.head][1]) /\ s \in Signatures[a.head][1][a.n + 1]
    BY <1>9 DEF Takes
  <2>3. v = <<"fits">>
    BY <1>1, <1>2, <1>9, <2>1, <2>2 DEF Argument
  <2>4. v # Ill
    BY <2>3 DEF Ill
  <2>5. PICK u : u = y.args
    OBVIOUS
  <2>6. Len(u) = a.n + 1 /\ u[a.n + 1] = v /\ \A i \in 1 .. a.n : u[i] = x.args[i]
    <3>1. u = Append(x.args, v)
      BY <1>4, <2>5
    <3> QED BY <1>1, <1>3, <2>1, <3>1, AppendFacts
  <2>7. ASSUME NEW i \in 1 .. a.n + 1 PROVE u[i] # Ill
    <3>1. CASE i = a.n + 1
      BY <2>4, <2>6, <3>1
    <3>2. CASE i # a.n + 1
      <4>1. i \in 1 .. a.n
        BY <1>1, <3>2
      <4> QED BY <2>1, <2>6, <4>1
    <3> QED BY <3>1, <3>2
  <2>8. Len(y.args) = b.n /\ \A i \in 1 .. Len(y.args) : y.args[i] # Ill
    BY <1>6, <2>5, <2>6, <2>7
  <2> QED BY <1>1, <1>4, <1>5, <1>6, <1>9, <2>8 DEF Matches
<1> QED BY <1>7, <1>8, <1>9

\* "::" follows an element.
LEMMA MatchesCons ==
  ASSUME NEW x, NEW a, Matches(x, a), a.head = "list", a.n = 1, NEW b, b = Opened("list", a.sort),
         NEW y, y = [head |-> x.head, args |-> Append(x.args, Argument(x, <<"::">>))]
  PROVE  Matches(y, b)
<1>1. /\ x \in Group /\ a \in Abstract /\ x.head = a.head /\ a.sort \in Elements
      /\ x.args \in Seq(Seq(Sorts)) /\ x.head \in Ctors \cup {"list"}
  BY DEF Matches, Group
<1>2. Argument(x, <<"::">>) = <<"::">>
  BY <1>1 DEF Argument
<1>3. y \in Group /\ y.head = "list" /\ y.args = Append(x.args, <<"::">>)
  <2>1. PICK v : v = <<"::">>
    OBVIOUS
  <2>2. v \in Seq(Sorts)
    BY <2>1, SortSeqs
  <2>3. y = [head |-> x.head, args |-> Append(x.args, v)]
    BY <1>2, <2>1
  <2>4. Append(x.args, v) \in Seq(Seq(Sorts))
    BY <1>1, <2>2
  <2>5. y \in Group
    BY <1>1, <2>3, <2>4 DEF Group
  <2> QED BY <1>1, <2>1, <2>3, <2>5
<1>4. b \in Abstract /\ b.head = "list" /\ b.sort = a.sort /\ b.n = 0
  BY <1>1, AbstractTypes DEF Opened, Elements
<1>5. ListArgs(x.args, a.sort, 1)
  BY DEF Matches
<1>6. ListArgs(Append(x.args, <<"::">>), a.sort, 1 - 1)
  BY <1>1, <1>5, ListAppend
<1>7. ListArgs(y.args, b.sort, b.n)
  BY <1>3, <1>4, <1>6
<1>8. b.sort \in Elements
  BY <1>1, <1>4
<1> QED BY <1>3, <1>4, <1>7, <1>8 DEF Matches

\* A parenthesis that is just opened.
LEMMA MatchesOpened ==
  ASSUME NEW h \in Ctors \cup {"list"}, NEW s \in Elements
  PROVE  Matches([head |-> h, args |-> <<>>], Opened(h, s))
<1>1. PICK x, a : x = [head |-> h, args |-> <<>>] /\ a = Opened(h, s)
  OBVIOUS
<1>2. x \in Group /\ x.head = h /\ x.args = <<>>
  BY <1>1 DEF Group
<1>3. a \in Abstract /\ a.head = h /\ a.sort = s /\ a.n = 0
  BY <1>1, AbstractTypes DEF Opened, Elements
<1>4. Len(<<>>) = 0 /\ 0 % 2 = 0
  BY ModSmall
<1>5. ListArgs(<<>>, s, 0)
  BY <1>4 DEF ListArgs
<1>6. Matches(x, a)
  BY <1>2, <1>3, <1>4, <1>5 DEF Matches
<1> QED BY <1>1, <1>6

\* A list that ends after "::" is read as a list.
LEMMA ListReads ==
  ASSUME NEW S, NEW u \in Seq(S), NEW s \in Elements, ListArgs(u, s, 0), NEW v, v = Append(u, <<"nil">>)
  PROVE  ListSort(v) \in ListOf(s)
<1>1. PICK k \in Nat : k = Len(u)
  BY SeqFirst
<1>2. PICK z : z = <<"nil">>
  OBVIOUS
<1>3. v \in Seq(S \cup {z}) /\ Len(v) = k + 1 /\ v[k + 1] = z /\ \A i \in 1 .. k : v[i] = u[i]
  BY <1>1, <1>2, AppendAny
<1>4. k % 2 = 0 /\ \A i \in 1 .. k : u[i] = IF i % 2 = 0 THEN <<"::">> ELSE <<s>>
  BY <1>1 DEF ListArgs
<1>5. (k + 1) % 2 = 1
  BY <1>4, ModTwo
<1>6. CASE k = 0
  <2>0. PICK y : y = <<z>>
    OBVIOUS
  <2>a. y \in Seq(S \cup {z}) /\ Len(y) = 1 /\ y[1] = z
    BY <2>0
  <2>b. Len(v) = 1 /\ v[1] = z
    BY <1>3, <1>6
  <2>c. \A i \in 1 .. Len(v) : v[i] = y[i]
    BY <2>a, <2>b
  <2>1. v = <<z>>
    BY <1>3, <2>0, <2>a, <2>b, <2>c, SeqEqual
  <2>2. ListSort(v) = <<"list">>
    BY <1>2, <2>1 DEF ListSort
  <2> QED BY <2>2 DEF ListOf
<1>7. CASE k # 0
  <2>1. 1 \in 1 .. k /\ 1 % 2 = 1 /\ 1 # 0
    BY <1>7, ModSmall
  <2>2. v[1] = <<s>>
    BY <1>3, <1>4, <2>1
  <2>3. v # <<z>>
    BY <1>3, <1>7
  <2>4. \A i \in 1 .. (k + 1) - 1 : v[i] = IF i % 2 = 0 THEN <<"::">> ELSE v[1]
    BY <1>3, <1>4, <2>2
  <2>5. v[1] \notin {Ill, <<"::">>, <<"nil">>}
    BY <2>2, ElementSeqs
  <2>6. ListSort(v) = <<"list">> \o v[1]
    BY <1>2, <1>3, <1>5, <2>3, <2>4, <2>5 DEF ListSort
  <2>7. <<"list">> \o <<s>> = <<"list", s>>
    BY TwoTokens
  <2> QED BY <2>2, <2>6, <2>7 DEF ListOf
<1> QED BY <1>6, <1>7

\* What is closed can be read.
LEMMA MatchesFull ==
  ASSUME NEW x, NEW a, Matches(x, a), Full(a), a.head # "list"
  PROVE  Reading(x) \in Result(a)
<1>1. x \in Group /\ a \in Abstract /\ x.head = a.head
  BY DEF Matches
<1>2. CASE a.head = "Some"
  <2>1. x.args = <<<<a.sort>>>>
    BY <1>2 DEF Matches, Full
  <2>2. PICK z : z = <<a.sort>>
    OBVIOUS
  <2>3. Len(x.args) = 1 /\ x.args[1] = z
    BY <2>1, <2>2
  <2>4. Reading(x) = <<"Some">> \o z
    BY <1>1, <1>2, <2>3 DEF Reading
  <2>5. <<"Some">> \o <<a.sort>> = <<"Some", a.sort>>
    BY TwoTokens
  <2>6. Reading(x) = <<"Some", a.sort>>
    BY <2>2, <2>4, <2>5
  <2> QED BY <1>2, <2>6 DEF Result
<1>3. CASE a.head # "Some"
  <2>1. Len(x.args) = a.n /\ \A i \in 1 .. Len(x.args) : x.args[i] # Ill
    BY <1>3 DEF Matches
  <2>2. a.n = Len(Signatures[a.head][1])
    BY <1>3 DEF Full
  <2>3. DOMAIN x.args = 1 .. Len(x.args)
    BY <1>1 DEF Group
  <2>4. Reading(x) = <<Signatures[a.head][2]>>
    BY <1>1, <1>3, <2>1, <2>2, <2>3 DEF Reading, CtorSort
  <2> QED BY <1>3, <2>4 DEF Result
<1> QED BY <1>2, <1>3

\* Every parenthesis of the output is as A says.
TermsMatch(o, A) ==
  o \in Seq(Group) /\ A \in Terms /\ Len(o) = Len(A) /\ \A i \in 1 .. Len(A) : Matches(o[i], A[i])

\* Append and its last element.
LEMMA LastOf ==
  ASSUME NEW S, NEW q \in Seq(S), NEW g \in S, NEW a, a = Append(q, g), NEW n, n = Len(q)
  PROVE  /\ n \in Nat /\ a \in Seq(S) /\ Len(a) = n + 1 /\ a[n + 1] = g
         /\ \A i \in 1 .. n : a[i] = q[i]
<1>1. a \in Seq(S) /\ Len(a) = Len(q) + 1 /\ a[Len(q) + 1] = g /\ \A i \in 1 .. Len(q) : a[i] = q[i]
  BY AppendFacts
<1>2. Len(q) \in Nat
  BY SeqFirst
<1> QED BY <1>1, <1>2

\* A term that the last parenthesis takes is written into it.
LEMMA WordMatches ==
  ASSUME NEW o, NEW A, TermsMatch(o, A), NEW q \in Terms, NEW g \in Abstract, NEW h \in Abstract,
         A = Append(q, g), NEW s \in Seq(Sorts),
         \/ Takes(g, s, h)
         \/ s = <<"::">> /\ g.head = "list" /\ g.n = 1 /\ h = Opened("list", g.sort)
  PROVE  TermsMatch(word(o, s), Append(q, h))
<1>1. PICK n : n = Len(q)
  OBVIOUS
<1>2. PICK B : B = Append(q, h)
  OBVIOUS
<1>3. n \in Nat /\ A \in Terms /\ Len(A) = n + 1 /\ A[n + 1] = g /\ \A i \in 1 .. n : A[i] = q[i]
  BY <1>1, LastOf DEF Terms
<1>4. B \in Terms /\ Len(B) = n + 1 /\ B[n + 1] = h /\ \A i \in 1 .. n : B[i] = q[i]
  BY <1>1, <1>2, LastOf DEF Terms
<1>5. PICK k \in Nat : k = n + 1 /\ k > 0
  BY <1>3
<1>6. o \in Seq(Group) /\ Len(o) = k /\ \A i \in 1 .. k : Matches(o[i], A[i])
  BY <1>3, <1>5 DEF TermsMatch
<1>7. PICK w : w = word(o, s)
  OBVIOUS
<1>8. /\ w \in Seq(Group) /\ Len(w) = k
      /\ \A i \in 1 .. k - 1 : w[i] = o[i]
      /\ w[k] = [head |-> o[k].head, args |-> Append(o[k].args, Argument(o[k], s))]
  BY <1>5, <1>6, <1>7, WordType
<1>9. Matches(o[k], g)
  BY <1>3, <1>5, <1>6
<1>10. Matches(w[k], h)
  <2>1. PICK x, y : x = o[k] /\ y = w[k]
    OBVIOUS
  <2>2. Matches(x, g) /\ y = [head |-> x.head, args |-> Append(x.args, Argument(x, s))]
    BY <1>8, <1>9, <2>1
  <2>3. CASE Takes(g, s, h)
    <3>1. Matches(y, h)
      BY <2>2, <2>3, MatchesTakes
    <3> QED BY <2>1, <3>1
  <2>4. CASE s = <<"::">> /\ g.head = "list" /\ g.n = 1 /\ h = Opened("list", g.sort)
    <3>0. y = [head |-> x.head, args |-> Append(x.args, Argument(x, <<"::">>))]
      BY <2>2, <2>4
    <3>1. Matches(y, h)
      BY <2>2, <2>4, <3>0, MatchesCons
    <3> QED BY <2>1, <3>1
  <2> QED BY <2>3, <2>4
<1>11. ASSUME NEW i \in 1 .. k PROVE Matches(w[i], B[i])
  <2>1. CASE i = k
    BY <1>4, <1>5, <1>10, <2>1
  <2>2. CASE i # k
    <3>1. i \in 1 .. n /\ i \in 1 .. k - 1
      BY <1>3, <1>5, <2>2
    <3> QED BY <1>3, <1>4, <1>6, <1>8, <3>1
  <2> QED BY <2>1, <2>2
<1>12. TermsMatch(w, B)
  BY <1>4, <1>5, <1>8, <1>11 DEF TermsMatch
<1> QED BY <1>2, <1>7, <1>12

\* A parenthesis that is read as a term that the one around it takes is closed.
LEMMA CloseMatches ==
  ASSUME NEW o \in Seq(Group), NEW a, NEW q \in Terms, NEW f \in Abstract, NEW h \in Abstract, a = Append(q, f),
         NEW n \in Nat, n = Len(a), Len(o) = n + 1, \A i \in 1 .. n : Matches(o[i], a[i]),
         Takes(f, Reading(o[n + 1]), h)
  PROVE  TermsMatch(rparen(o), Append(q, h))
<1>1. a \in Terms
  BY AbstractTypes
<1>2. PICK x : x = SubSeq(o, 1, n)
  OBVIOUS
<1>3. x \in Seq(Group) /\ Len(x) = n /\ \A i \in 1 .. n : x[i] = o[i]
  BY <1>2
<1>4. TermsMatch(x, a)
  BY <1>1, <1>3 DEF TermsMatch
<1>5. o[n + 1] \in Group
  OBVIOUS
<1>6. PICK r : r = Reading(o[n + 1])
  OBVIOUS
<1>7. r \in Seq(Sorts)
  BY <1>5, <1>6, ReadingType
<1>8. rparen(o) = word(x, r)
  BY <1>2, <1>6 DEF rparen
<1>9. TermsMatch(word(x, r), Append(q, h))
  BY <1>4, <1>6, <1>7, WordMatches
<1> QED BY <1>8, <1>9

\* A parenthesis that is full is read as something that the one around it takes.
LEMMA RparenMatches ==
  ASSUME NEW o, NEW A, TermsMatch(o, A), NEW q \in Terms, NEW f \in Abstract, NEW g \in Abstract, NEW h \in Abstract,
         A = Append(Append(q, f), g), g.head # "list", Full(g), \A s \in Result(g) : Takes(f, s, h)
  PROVE  TermsMatch(rparen(o), Append(q, h))
<1>1. PICK a : a = Append(q, f)
  OBVIOUS
<1>2. a \in Terms /\ A = Append(a, g)
  BY <1>1, AbstractTypes
<1>3. PICK n : n = Len(a)
  OBVIOUS
<1>4. n \in Nat /\ Len(A) = n + 1 /\ A[n + 1] = g /\ \A i \in 1 .. n : A[i] = a[i]
  BY <1>2, <1>3, LastOf DEF Terms
<1>5. o \in Seq(Group) /\ Len(o) = n + 1 /\ \A i \in 1 .. n + 1 : Matches(o[i], A[i])
  BY <1>4 DEF TermsMatch
<1>6. \A i \in 1 .. n : Matches(o[i], a[i])
  <2> SUFFICES ASSUME NEW i \in 1 .. n PROVE Matches(o[i], a[i])
    OBVIOUS
  <2>1. i \in 1 .. n + 1
    BY <1>4
  <2> QED BY <1>4, <1>5, <2>1
<1>7. Matches(o[n + 1], g)
  BY <1>4, <1>5
<1>8. Takes(f, Reading(o[n + 1]), h)
  BY <1>7, MatchesFull
<1> QED BY <1>1, <1>3, <1>4, <1>5, <1>6, <1>8, CloseMatches

\* The end of a list.
LEMMA ListMatches ==
  ASSUME NEW o, NEW A, TermsMatch(o, A), NEW q \in Terms, NEW f \in Abstract, NEW g \in Abstract, NEW h \in Abstract,
         A = Append(Append(q, f), g), g.head = "list", Full(g), \A s \in Result(g) : Takes(f, s, h)
  PROVE  TermsMatch(end_list(o), Append(q, h))
<1>1. PICK a : a = Append(q, f)
  OBVIOUS
<1>2. a \in Terms /\ A = Append(a, g)
  BY <1>1, AbstractTypes
<1>3. PICK n : n = Len(a)
  OBVIOUS
<1>4. n \in Nat /\ Len(A) = n + 1 /\ A[n + 1] = g /\ \A i \in 1 .. n : A[i] = a[i]
  BY <1>2, <1>3, LastOf DEF Terms
<1>5. o \in Seq(Group) /\ Len(o) = n + 1 /\ \A i \in 1 .. n + 1 : Matches(o[i], A[i])
  BY <1>4 DEF TermsMatch
<1>6. PICK k \in Nat : k = n + 1 /\ k > 0
  BY <1>4
<1>7. PICK z, w : z = <<"nil">> /\ w = word(o, z)
  OBVIOUS
<1>8. z \in Seq(Sorts)
  BY <1>7, SortSeqs
<1>9. /\ w \in Seq(Group) /\ Len(w) = k
      /\ \A i \in 1 .. k - 1 : w[i] = o[i]
      /\ w[k] = [head |-> o[k].head, args |-> Append(o[k].args, Argument(o[k], z))]
  BY <1>5, <1>6, <1>7, <1>8, WordType
<1>10. \A i \in 1 .. n : Matches(w[i], a[i])
  <2> SUFFICES ASSUME NEW i \in 1 .. n PROVE Matches(w[i], a[i])
    OBVIOUS
  <2>1. i \in 1 .. n + 1 /\ i \in 1 .. k - 1
    BY <1>4, <1>6
  <2> QED BY <1>4, <1>5, <1>9, <2>1
<1>11. Matches(o[k], g)
  BY <1>4, <1>5, <1>6
<1>12. /\ o[k].head = "list" /\ o[k].args \in Seq(Seq(Sorts)) /\ g.sort \in Elements /\ ListArgs(o[k].args, g.sort, g.n)
  BY <1>11 DEF Matches, Group
<1>13. g.n = 0 /\ Result(g) = ListOf(g.sort)
  BY DEF Full, Result
<1>14. w[k].head = "list" /\ w[k].args = Append(o[k].args, z)
  BY <1>9, <1>12 DEF Argument
<1>15. ListSort(w[k].args) \in ListOf(g.sort)
  <2>1. PICK u, v : u = o[k].args /\ v = w[k].args
    OBVIOUS
  <2>2. ListArgs(u, g.sort, 0) /\ u \in Seq(Seq(Sorts))
    BY <1>12, <1>13, <2>1
  <2>3. v = Append(u, <<"nil">>)
    BY <1>7, <1>14, <2>1
  <2>4. ListSort(v) \in ListOf(g.sort)
    BY <1>12, <2>2, <2>3, ListReads
  <2> QED BY <2>1, <2>4
<1>16. Reading(w[k]) \in Result(g)
  BY <1>13, <1>14, <1>15 DEF Reading
<1>17. Takes(f, Reading(w[n + 1]), h) /\ Len(w) = n + 1
  BY <1>6, <1>9, <1>16
<1>18. TermsMatch(rparen(w), Append(q, h))
  BY <1>1, <1>3, <1>4, <1>9, <1>10, <1>17, CloseMatches
<1> QED BY <1>7, <1>18 DEF end_list

\* A parenthesis is opened.
LEMMA LparenMatches ==
  ASSUME NEW o, NEW A, TermsMatch(o, A), NEW h \in Ctors \cup {"list"}, NEW s \in Elements
  PROVE  TermsMatch(lparen(o, h), Append(A, Opened(h, s)))
<1>1. PICK n : n = Len(A)
  OBVIOUS
<1>2. PICK g, B : g = Opened(h, s) /\ B = Append(A, g)
  OBVIOUS
<1>3. g \in Abstract
  BY <1>2, AbstractTypes DEF Elements
<1>4. A \in Terms
  BY DEF TermsMatch
<1>5. n \in Nat /\ B \in Terms /\ Len(B) = n + 1 /\ B[n + 1] = g /\ \A i \in 1 .. n : B[i] = A[i]
  BY <1>1, <1>2, <1>3, <1>4, LastOf DEF Terms
<1>6. o \in Seq(Group) /\ Len(o) = n /\ \A i \in 1 .. n : Matches(o[i], A[i])
  BY <1>1 DEF TermsMatch
<1>7. PICK w : w = lparen(o, h)
  OBVIOUS
<1>8. /\ w \in Seq(Group) /\ Len(w) = n + 1 /\ \A i \in 1 .. n : w[i] = o[i]
      /\ w[n + 1] = [head |-> h, args |-> <<>>]
  BY <1>6, <1>7, LparenType
<1>9. Matches(w[n + 1], B[n + 1])
  BY <1>2, <1>5, <1>8, MatchesOpened
<1>10. ASSUME NEW i \in 1 .. n + 1 PROVE Matches(w[i], B[i])
  <2>1. CASE i = n + 1
    BY <1>9, <2>1
  <2>2. CASE i # n + 1
    <3>1. i \in 1 .. n
      BY <1>5, <2>2
    <3> QED BY <1>5, <1>6, <1>8, <3>1
  <2> QED BY <2>1, <2>2
<1>11. TermsMatch(w, B)
  BY <1>5, <1>8, <1>10 DEF TermsMatch
<1> QED BY <1>2, <1>7, <1>11

\* A token is written as TermStep says.
LEMMA WriteMatches ==
  ASSUME NEW kind, NEW a, NEW t \in Texts, NEW b, <<a, t, b>> \in TermStep(kind), NEW o, TermsMatch(o, a)
  PROVE  TermsMatch(Write(o, t), b)
<1>1. a \in Terms /\ b \in Terms /\ t \in Tokens(kind) /\ TermStepOK(kind, a, t, b)
  BY DEF TermStep
<1>3. CASE t[1] = "(" /\ Len(a) > 0 /\ \E s \in Elements : b = Append(a, Opened(t[2], s))
  <2>1. PICK s \in Elements : b = Append(a, Opened(t[2], s))
    BY <1>3
  <2>2. PICK c \in Ctors : t = <<"(", c>>
    BY <1>3 DEF Texts, W
  <2>3. Write(o, t) = lparen(o, c) /\ b = Append(a, Opened(c, s))
    BY <2>1, <2>2 DEF Write, ctor
  <2> QED BY <2>3, LparenMatches
<1>4. CASE t[1] = "[" /\ Len(a) > 0 /\ \E s \in Elements : b = Append(a, Opened("list", s))
  <2>1. PICK s \in Elements : b = Append(a, Opened("list", s))
    BY <1>4
  <2>2. Write(o, t) = lparen(o, "list")
    BY <1>4 DEF Write, begin_list
  <2> QED BY <2>1, <2>2, LparenMatches
<1>5. CASE \E q \in Terms, f, g, h \in Abstract :
            /\ t[1] = IF g.head = "list" THEN "]" ELSE ")"
            /\ a = Append(Append(q, f), g) /\ b = Append(q, h)
            /\ Full(g) /\ \A s \in Result(g) : Takes(f, s, h)
  <2>1. PICK q \in Terms, f \in Abstract, g \in Abstract, h \in Abstract :
            /\ t[1] = IF g.head = "list" THEN "]" ELSE ")"
            /\ a = Append(Append(q, f), g) /\ b = Append(q, h)
            /\ Full(g) /\ \A s \in Result(g) : Takes(f, s, h)
    BY <1>5
  <2>2. CASE g.head = "list"
    <3>1. Write(o, t) = end_list(o)
      BY <2>1, <2>2 DEF Write
    <3>2. TermsMatch(end_list(o), Append(q, h))
      BY <2>1, <2>2, ListMatches
    <3> QED BY <2>1, <3>1, <3>2
  <2>3. CASE g.head # "list"
    <3>1. Write(o, t) = rparen(o)
      BY <2>1, <2>3 DEF Write, end_ctor
    <3>2. TermsMatch(rparen(o), Append(q, h))
      BY <2>1, <2>3, RparenMatches
    <3> QED BY <2>1, <3>1, <3>2
  <2> QED BY <2>2, <2>3
<1>6. CASE \E q \in Terms, g, h \in Abstract : a = Append(q, g) /\ b = Append(q, h) /\ Reads(kind, t, g, h)
  <2>1. PICK q \in Terms, g \in Abstract, h \in Abstract : a = Append(q, g) /\ b = Append(q, h) /\ Reads(kind, t, g, h)
    BY <1>6
  <2>2. t = <<"::">> \/ \E s \in Words : t = W(s)
    BY <2>1 DEF Texts, Reads
  <2>3. CASE t = <<"::">>
    <3>1. g.head = "list" /\ g.n = 1 /\ h = Opened("list", g.sort)
      BY <2>1, <2>3 DEF Reads
    <3>2. PICK z : z = <<"::">>
      OBVIOUS
    <3>3. z \in Seq(Sorts)
      BY <3>2, SortSeqs
    <3>4. TermsMatch(word(o, z), Append(q, h))
      BY <2>1, <3>1, <3>2, <3>3, WordMatches
    <3>5. Write(o, t) = word(o, z)
      BY <2>3, <3>2 DEF Write, cons
    <3> QED BY <2>1, <3>4, <3>5
  <2>4. CASE \E s \in Words : t = W(s)
    <3>1. PICK s \in Words : t = W(s)
      BY <2>4
    <3>2. PICK z : z = <<s>>
      OBVIOUS
    <3>3. z \in Seq(Sorts)
      BY <3>2, SortSeqs
    <3>4. Takes(g, z, h)
      BY <2>1, <3>1, <3>2 DEF Reads, W
    <3>5. TermsMatch(word(o, z), Append(q, h))
      BY <2>1, <3>3, <3>4, WordMatches
    <3>6. Write(o, t) = word(o, z)
      BY <3>1, <3>2 DEF Write, W
    <3> QED BY <2>1, <3>5, <3>6
  <2> QED BY <2>2, <2>3, <2>4
<1> QED BY <1>1, <1>3, <1>4, <1>5, <1>6 DEF TermStepOK

\* A text is written: by induction on its length.
LEMMA TextMatches ==
  ASSUME NEW kind, NEW n \in Nat, NEW ts \in Seq(Texts), Len(ts) = n, NEW p \in [1 .. n + 1 -> Terms],
         \A i \in 1 .. n : <<p[i], ts[i], p[i + 1]>> \in TermStep(kind), NEW o, TermsMatch(o, p[1])
  PROVE  TermsMatch(WriteAll(o, ts), p[n + 1])
<1> DEFINE G == [i \in 0 .. n |-> {x \in Seq(Group) : TermsMatch(x, p[i + 1])}]
<1>0. \A x, A : TermsMatch(x, A) => x \in Seq(Group)
  BY DEF TermsMatch
<1>1. o \in G[0]
  BY <1>0
<1>2. ASSUME NEW i \in 1 .. n, NEW x \in G[i - 1] PROVE Write(x, ts[i]) \in G[i]
  <2>1. TermsMatch(x, p[i]) /\ ts[i] \in Texts
    OBVIOUS
  <2>3. PICK a, t, b : a = p[i] /\ t = ts[i] /\ b = p[i + 1]
    OBVIOUS
  <2>4. <<a, t, b>> \in TermStep(kind) /\ t \in Texts /\ TermsMatch(x, a)
    BY <2>1, <2>3
  <2>5. TermsMatch(Write(x, t), b)
    BY <2>4, WriteMatches
  <2>2. TermsMatch(Write(x, ts[i]), p[i + 1])
    BY <2>3, <2>5
  <2> QED BY <1>0, <2>2
<1>3. G[n] = {x \in Seq(Group) : TermsMatch(x, p[n + 1])}
  OBVIOUS
<1> HIDE DEF G
<1>4. WriteAll(o, ts) \in G[Len(ts)]
  BY <1>1, <1>2, WriteAllInduction
<1> QED BY <1>3, <1>4

\* What the caller goes on with: a declaration of a list is followed by "::".
Resume(kind, a, b) ==
  IF kind = "DeclStmt"
  THEN \E q \in Terms : a = Append(q, [head |-> "list", sort |-> "VarDecl", n |-> 1]) /\ b = Append(q, VarList)
  ELSE b = a

\* A handler that is left with the code makes c, when its callee has made a.
Links(kind, code, a, c) == \E b \in Terms : Resume(kind, a, b) /\ TermPath(kind, code, b, c)

\* T[j] is what handler j of s makes, the output being A now.
Chained(s, A, T) ==
  /\ T \in [Nat -> Terms]
  /\ TermPath(s[Len(s)].kind, s[Len(s)].code, A, T[Len(s)])
  /\ \A j \in 1 .. Len(s) - 1 : Links(s[j].kind, Tail(s[j].code), T[j + 1], T[j])

\* What the handlers have left to print makes terms of what is open.
TermInv == ~loose => \E A, T : TermsMatch(out, A) /\ (stack # <<>> => Chained(stack, A, T))

\* A handler is called where its text fits.
LEMMA ChainedOpens ==
  ASSUME Inv, NEW s, NEW f, Opens(s, f), NEW A, NEW T, NEW c, NEW m \in Terms, Chained(stack, A, T),
         TermPath(f.kind, f.code, A, m), c = Tail(Top.code), Links(Top.kind, c, m, T[Len(stack)])
  PROVE  \E U : Chained(stack', A, U)
<1>1. PICK n : n = Len(stack)
  OBVIOUS
<1>2. /\ n \in Nat /\ n > 0
      /\ Len(stack') = n + 1 /\ stack'[n + 1] = f
      /\ \A j \in 1 .. n : stack'[j].code = stack[j].code /\ stack'[j].kind = stack[j].kind
  <2>1. Called(s, f, n)
    BY <1>1, OpensFacts DEF Inv
  <2> QED BY <2>1 DEF Called
<1>3. Top = stack[n] /\ T \in [Nat -> Terms]
  BY <1>1 DEF Top, Chained
<1>4. PICK U : U = [T EXCEPT ![n + 1] = m]
  OBVIOUS
<1>5. U \in [Nat -> Terms] /\ U[n + 1] = m /\ \A i \in 1 .. n : U[i] = T[i]
  BY <1>2, <1>3, <1>4
<1>6. TermPath(stack'[n + 1].kind, stack'[n + 1].code, A, U[n + 1])
  BY <1>2, <1>5
<1>7. ASSUME NEW j \in 1 .. n PROVE Links(stack'[j].kind, Tail(stack'[j].code), U[j + 1], U[j])
  <2>1. CASE j = n
    BY <1>1, <1>2, <1>3, <1>5, <2>1
  <2>2. CASE j # n
    <3>1. j \in 1 .. n - 1 /\ j + 1 \in 1 .. n
      BY <1>2, <2>2
    <3>2. Links(stack[j].kind, Tail(stack[j].code), T[j + 1], T[j])
      BY <1>1, <3>1 DEF Chained
    <3>3. U[j] = T[j] /\ U[j + 1] = T[j + 1]
      BY <1>5, <3>1
    <3>4. stack'[j].code = stack[j].code /\ stack'[j].kind = stack[j].kind
      BY <1>2
    <3> QED BY <3>2, <3>3, <3>4
  <2> QED BY <2>1, <2>2
<1>8. Chained(stack', A, U)
  BY <1>2, <1>5, <1>6, <1>7 DEF Chained
<1> QED BY <1>8

\* The handler at the top goes on.
LEMMA ChainedGoes ==
  ASSUME Inv, Active, NEW c \in Seq(Tokens(Top.kind)), Goes(c), NEW A, NEW B, NEW T, Chained(stack, A, T),
         TermPath(Top.kind, c, B, T[Len(stack)])
  PROVE  Chained(stack', B, T)
<1>1. PICK n : n = Len(stack)
  OBVIOUS
<1>2. /\ n \in Nat /\ n > 0 /\ Len(stack') = n /\ stack'[n].code = c
      /\ \A j \in 1 .. n - 1 : stack'[j] = stack[j]
      /\ stack'[n].kind = stack[n].kind
  <2>1. Types
    BY DEF Inv
  <2>2. /\ n \in Nat /\ n > 0 /\ Len(stack') = n /\ stack'[n].code = c
        /\ \A j \in 1 .. n - 1 : stack'[j] = stack[j]
        /\ \A j \in 1 .. n : stack'[j].kind = stack[j].kind
    BY <1>1, <2>1, GoesFacts
  <2> QED BY <2>2
<1>3. Top = stack[n] /\ T \in [Nat -> Terms]
  BY <1>1 DEF Top, Chained
<1>4. TermPath(stack'[n].kind, stack'[n].code, B, T[n])
  BY <1>1, <1>2, <1>3
<1>5. ASSUME NEW j \in 1 .. n - 1 PROVE Links(stack'[j].kind, Tail(stack'[j].code), T[j + 1], T[j])
  BY <1>1, <1>2 DEF Chained
<1> QED BY <1>2, <1>3, <1>4, <1>5 DEF Chained

\* The call at the top, with what it leaves.
Calling(A, T, q, g, h) ==
  /\ q \in Terms /\ g \in Abstract /\ h \in Abstract
  /\ A = Append(q, g) /\ Append(q, h) \in Terms /\ Reads(Top.kind, Step, g, h)
  /\ TermPath(Top.kind, Tail(Top.code), Append(q, h), T[Len(stack)])

\* What is open at a call, before and after it.
LEMMA ChainedCall ==
  ASSUME Inv, Active, Step \in Calls \cup Uses, NEW A, NEW T, Chained(stack, A, T)
  PROVE  \E q, g, h : Calling(A, T, q, g, h)
<1>1. PICK code, n : code = Top.code /\ n = Len(stack)
  OBVIOUS
<1>2. code \in Seq(Tokens(Top.kind)) /\ code # <<>> /\ Head(code) = Step /\ Top = stack[n]
  BY <1>1, ActiveFacts DEF Inv
<1>3. TermPath(Top.kind, code, A, T[n])
  BY <1>1, <1>2 DEF Chained
<1>4. PICK b \in Terms : <<A, Step, b>> \in TermStep(Top.kind) /\ Path(Tail(code), Terms, TermStep(Top.kind), b, T[n])
  <2>1. PICK V, R, c : V = Tokens(Top.kind) /\ R = TermStep(Top.kind) /\ c = T[n]
    OBVIOUS
  <2>2. Path(code, Terms, R, A, c) /\ code \in Seq(V)
    BY <1>2, <1>3, <2>1 DEF TermPath
  <2>3. \E b \in Terms : <<A, Head(code), b>> \in R /\ Path(Tail(code), Terms, R, b, c)
    BY <1>2, <2>2, PathStep
  <2> QED BY <1>2, <2>1, <2>3
<1>5. PICK q \in Terms, g \in Abstract, h \in Abstract : A = Append(q, g) /\ b = Append(q, h) /\ Reads(Top.kind, Step, g, h)
  <2>1. PICK kind, t : kind = Top.kind /\ t = Step
    OBVIOUS
  <2>2. <<A, t, b>> \in TermStep(kind) /\ t \in Calls \cup Uses
    BY <1>4, <2>1
  <2>3. TermStepOK(kind, A, t, b)
    BY <2>2 DEF TermStep
  <2>4. t[1] \notin {"(", ")", "[", "]"}
    BY <2>2 DEF Calls, Uses, Pairs, RangeParts
  <2>5. \E q \in Terms, g, h \in Abstract : A = Append(q, g) /\ b = Append(q, h) /\ Reads(kind, t, g, h)
    BY <2>3, <2>4 DEF TermStepOK
  <2> QED BY <2>1, <2>5
<1> QED BY <1>1, <1>4, <1>5 DEF Calling, TermPath

\* A handler prints what its caller left the place for.
LEMMA OpensChained ==
  ASSUME Inv, NEW s, NEW f, Opens(s, f), NEW A, NEW T, Chained(stack, A, T),
         f.kind \in Labels => Top.kind \in {"CompoundStmt"} \cup Labels
  PROVE  \E U : Chained(stack', A, U)
<1>1. Active /\ Step \in Calls /\ Types
  BY DEF Opens, Inv
<1>2. PICK q, g, h : Calling(A, T, q, g, h)
  BY <1>1, ChainedCall
<1>3. /\ q \in Terms /\ g \in Abstract /\ h \in Abstract
      /\ A = Append(q, g) /\ Append(q, h) \in Terms /\ Reads(Top.kind, Step, g, h)
      /\ TermPath(Top.kind, Tail(Top.code), Append(q, h), T[Len(stack)])
  BY <1>2 DEF Calling
<1>4. PICK kind, t : kind = Top.kind /\ t = Step
  OBVIOUS
<1>5. kind \in Kinds /\ t \in Tokens(kind) /\ t \in Calls /\ Reads(kind, t, g, h)
  BY <1>1, <1>3, <1>4, ActiveFacts
<1>6. /\ f.kind \in Kinds \ {"Function"} /\ (f.kind = "VarDecl" <=> t \in {<<"local">>} \cup Pairs)
      /\ f.kind \in Labels => t = <<"stmt">> /\ Fits(f.kind, f.code, StmtList(0), StmtList(1))
      /\ f.kind = "VarDecl" => Prints(f.kind, f.code, "VarDecl")
      /\ f.kind \in StmtKinds => Prints(f.kind, f.code, "Stmt")
  BY <1>4 DEF Opens
<1>7. CASE kind # "DeclStmt" /\ Fits(f.kind, f.code, g, h)
  <2>1. TermPath(f.kind, f.code, A, Append(q, h))
    BY <1>3, <1>7 DEF Fits
  <2>2. Links(Top.kind, Tail(Top.code), Append(q, h), T[Len(stack)])
    BY <1>3, <1>4, <1>7 DEF Links, Resume
  <2> QED BY <1>3, <2>1, <2>2, ChainedOpens
<1>8. CASE f.kind \in StmtKinds
  <2>1. t \notin {<<"local">>} \cup Pairs
    BY <1>6, <1>8 DEF StmtKinds
  <2>2. t = <<"stmt">> \/ t = <<"init">> \/ \E r \in RangeParts : t = <<r>>
    BY <1>5, <2>1 DEF Calls
  <2>3. kind # "DeclStmt"
    BY <1>5, <2>2, TokenKinds DEF Controls, Loops
  <2>4. Takes(g, <<"Stmt">>, h)
    BY <1>5, <2>2, <2>3 DEF Reads
  <2>5. Fits(f.kind, f.code, g, h)
    BY <1>3, <1>6, <1>8, <2>4 DEF Prints
  <2> QED BY <1>7, <2>3, <2>5
<1>9. CASE f.kind = "VarDecl"
  <2>1. Prints("VarDecl", f.code, "VarDecl") /\ t \in {<<"local">>} \cup Pairs
    BY <1>6, <1>9
  <2>2. CASE kind # "DeclStmt"
    <3>1. t = <<"local">>
      BY <1>5, <2>1, <2>2, TokenKinds
    <3>2. Takes(g, <<"VarDecl">>, h)
      BY <1>5, <2>2, <3>1 DEF Reads
    <3>3. Fits(f.kind, f.code, g, h)
      BY <1>3, <1>9, <2>1, <3>2 DEF Prints
    <3> QED BY <1>7, <2>2, <3>3
  <2>3. CASE kind = "DeclStmt"
    <3>1. t[1] \in {"local"} \cup RangeParts
      BY <2>1 DEF Pairs
    <3>2. g = VarList /\ h = VarList
      BY <1>5, <2>3, <3>1 DEF Reads
    <3>3. PICK e : e = [head |-> "list", sort |-> "VarDecl", n |-> 1]
      OBVIOUS
    <3>4. e \in Abstract /\ Takes(VarList, <<"VarDecl">>, e) /\ VarList \in Abstract
      BY <3>3, StmtPlace
    <3>5. Fits(f.kind, f.code, VarList, e)
      BY <1>9, <2>1, <3>4 DEF Prints
    <3>6. TermPath(f.kind, f.code, A, Append(q, e)) /\ Append(q, e) \in Terms
      BY <1>3, <3>2, <3>4, <3>5, AbstractTypes DEF Fits
    <3>7. Resume(kind, Append(q, e), Append(q, h))
      BY <1>3, <2>3, <3>2, <3>3 DEF Resume
    <3>8. Links(Top.kind, Tail(Top.code), Append(q, e), T[Len(stack)])
      BY <1>3, <1>4, <3>7 DEF Links
    <3> QED BY <3>6, <3>8, ChainedOpens
  <2> QED BY <2>2, <2>3
<1>10. CASE f.kind \in Labels
  <2>1. kind \in {"CompoundStmt"} \cup Labels /\ t = <<"stmt">> /\ Fits(f.kind, f.code, StmtList(0), StmtList(1))
    BY <1>4, <1>6, <1>10
  <2>2. kind # "DeclStmt"
    BY <2>1 DEF Labels
  <2>3. Takes(g, <<"Stmt">>, h) /\ g.head = "list"
    BY <1>5, <2>1 DEF Reads
  <2>4. g.n = 0 /\ <<g.sort>> = <<"Stmt">> /\ h = [head |-> "list", sort |-> g.sort, n |-> 0 + 1]
    BY <2>3 DEF Takes
  <2>5. g.sort = "Stmt"
    BY <2>4
  <2>6. g = StmtList(0)
    BY <1>3, <2>3, <2>4, <2>5 DEF StmtList, Abstract
  <2>7. h = StmtList(1)
    BY <2>4, <2>5 DEF StmtList
  <2> QED BY <1>7, <2>1, <2>2, <2>6, <2>7
<1> QED BY <1>6, <1>8, <1>9, <1>10 DEF StmtKinds

\* A call preserves TermInv.
LEMMA OpensTerms ==
  ASSUME Inv, TermInv, NEW s, NEW f, Opens(s, f), ~loose' => ~loose,
         f.kind \in Labels /\ ~loose' => Top.kind \in {"CompoundStmt"} \cup Labels
  PROVE  TermInv'
<1> SUFFICES ASSUME ~loose' PROVE \E A, T : TermsMatch(out', A) /\ (stack' # <<>> => Chained(stack', A, T))
  BY DEF TermInv
<1>1. PICK A, T : TermsMatch(out, A) /\ (stack # <<>> => Chained(stack, A, T))
  BY DEF TermInv
<1>2. stack # <<>> /\ out' = out
  BY DEF Opens, Active
<1>3. \E U : Chained(stack', A, U)
  BY <1>1, <1>2, OpensChained
<1> QED BY <1>1, <1>2, <1>3

\* A call of a handler preserves TermInv.
LEMMA PlainTerms == ASSUME Inv, TermInv, NEW f, Plain(f) PROVE TermInv'
<1>1. Opens(stack, f) /\ loose' = loose /\ f.kind \notin Labels
  BY DEF Plain
<1> QED BY <1>1, OpensTerms

\* The init-statement of a range-for preserves TermInv.
LEMMA RangeInitTerms == ASSUME Inv, TermInv, NEW d, NEW f, NEW s, RangeInit(d, f, s) PROVE TermInv'
<1>1. Opens(s, f) /\ loose' = loose /\ f.kind \notin Labels
  BY DEF RangeInit, Labels
<1> QED BY <1>1, OpensTerms

\* A case stands in a list of statements, or the output is loose.
LEMMA LabelTerms == ASSUME Inv, TermInv, NEW j, NEW b \in BOOLEAN, NEW f, LabelOpens(j, b, f) PROVE TermInv'
<1>1. PICK s : s = Labelled(j, b)
  OBVIOUS
<1>2. Opens(s, f) /\ loose' = (loose \/ stack[Target(Len(stack))].kind # "CompoundStmt")
  BY <1>1 DEF LabelOpens
<1>3. PICK n : n = Len(stack)
  OBVIOUS
<1>4. Types /\ CallInv /\ Active
  BY <1>2 DEF Inv, Opens
<1>5. n \in Nat /\ n > 0 /\ Top = stack[n] /\ DOMAIN stack = 1 .. n
  BY <1>3, <1>4, ActiveFacts DEF Types
<1>6. stack[1].kind \notin Labels
  BY <1>4, <1>5 DEF CallInv, Labels
<1>7. PICK k : k = TargetOf(stack, n)
  OBVIOUS
<1>8. k \in 1 .. n /\ \A i \in k + 1 .. n : stack[i].kind \in Labels
  BY <1>5, <1>6, <1>7, TargetFacts DEF IsTarget
<1>9. ~loose' => stack[k].kind = "CompoundStmt" /\ ~loose
  BY <1>2, <1>3, <1>7, TargetIs
<1>10. Top.kind = stack[k].kind \/ Top.kind \in Labels
  <2>1. CASE k = n
    BY <1>5, <2>1
  <2>2. CASE k # n
    <3>1. n \in k + 1 .. n
      BY <1>5, <1>8, <2>2
    <3> QED BY <1>5, <1>8, <3>1
  <2> QED BY <2>1, <2>2
<1>11. ~loose' => Top.kind \in {"CompoundStmt"} \cup Labels
  BY <1>9, <1>10
<1> QED BY <1>2, <1>9, <1>11, OpensTerms

\* PrintText preserves TermInv.
LEMMA TextTerms == ASSUME Inv, TermInv, PrintText PROVE TermInv'
<1> SUFFICES ASSUME ~loose' PROVE \E A, T : TermsMatch(out', A) /\ (stack' # <<>> => Chained(stack', A, T))
  BY DEF TermInv
<1>0. Active /\ IsText(Step) /\ out' = WriteAll(out, Text) /\ ~loose
      /\ stack' = [stack EXCEPT ![Len(stack)].code = SubSeq(@, Len(Text) + 1, Len(@))]
  BY DEF PrintText
<1>1. PICK A, T : TermsMatch(out, A) /\ Chained(stack, A, T)
  BY <1>0 DEF TermInv, Active
<1>2. PICK code, kind, n : code = Top.code /\ kind = Top.kind /\ n = Len(stack)
  OBVIOUS
<1>3. code \in Seq(Tokens(kind)) /\ kind \in Kinds /\ Top = stack[n]
  BY <1>0, <1>2, ActiveFacts DEF Inv
<1>4. TermPath(kind, code, A, T[n])
  BY <1>1, <1>2, <1>3 DEF Chained
<1>5. PICK m \in 0 .. Len(code) : /\ Text = SubSeq(code, 1, m) /\ Len(Text) = m
                                 /\ \A k \in 1 .. m : Text[k] = code[k] /\ IsText(code[k])
  BY <1>2, <1>3, TextIs
<1>6. PICK p \in [1 .. m + 1 -> Terms] :
        /\ p[1] = A /\ \A i \in 1 .. m : <<p[i], code[i], p[i + 1]>> \in TermStep(kind)
        /\ Path(SubSeq(code, m + 1, Len(code)), Terms, TermStep(kind), p[m + 1], T[n])
  <2>1. PICK b, R : b = T[n] /\ R = TermStep(kind)
    OBVIOUS
  <2>2. Path(code, Terms, R, A, b)
    BY <1>4, <2>1 DEF TermPath
  <2>3. Splits(code, m, Terms, R, A, b)
    BY <1>3, <2>2, PathSplit
  <2> QED BY <2>1, <2>3 DEF Splits
<1>7. Text \in Seq(Texts)
  <2>1. Tokens(kind) \subseteq All
    BY <1>3, TokensAll
  <2>2. \A k \in 1 .. m : code[k] \in All
    BY <1>3, <2>1
  <2>3. \A k \in 1 .. m : Text[k] \in Texts
    BY <1>5, <2>2, TokenWords
  <2>4. Text \in Seq(Tokens(kind))
    BY <1>3, <1>5
  <2>5. DOMAIN Text = 1 .. m /\ Text = [k \in 1 .. m |-> Text[k]]
    BY <1>5, <2>4
  <2> QED BY <2>3, <2>5
<1>8. \A i \in 1 .. m : <<p[i], Text[i], p[i + 1]>> \in TermStep(kind)
  BY <1>5, <1>6
<1>9. TermsMatch(out', p[m + 1])
  <2>1. m \in Nat /\ TermsMatch(out, p[1])
    BY <1>1, <1>6
  <2>2. PICK ts : ts = Text
    OBVIOUS
  <2>3. ts \in Seq(Texts) /\ Len(ts) = m /\ \A i \in 1 .. m : <<p[i], ts[i], p[i + 1]>> \in TermStep(kind)
    BY <1>5, <1>7, <1>8, <2>2
  <2>4. TermsMatch(WriteAll(out, ts), p[m + 1])
    BY <1>6, <2>1, <2>3, TextMatches
  <2> QED BY <1>0, <2>2, <2>4
<1>10. PICK c : c = SubSeq(code, m + 1, Len(code))
  OBVIOUS
<1>11. c \in Seq(Tokens(kind))
  BY <1>3, <1>10
<1>12. Goes(c)
  BY <1>0, <1>2, <1>5, <1>10 DEF Goes, Top
<1>13. TermPath(kind, c, p[m + 1], T[n])
  BY <1>6, <1>10 DEF TermPath
<1>14. Chained(stack', p[m + 1], T)
  BY <1>0, <1>1, <1>2, <1>11, <1>12, <1>13, ChainedGoes
<1> QED BY <1>9, <1>14

\* Advanced goes on after the call.
LEMMA AdvancedGoes ==
  ASSUME Inv, Active, stack' = Advanced
  PROVE  Goes(Tail(Top.code)) /\ Tail(Top.code) \in Seq(Tokens(Top.kind))
<1>1. PICK code, c : code = Top.code /\ c = Tail(code)
  OBVIOUS
<1>2. code \in Seq(Tokens(Top.kind)) /\ code # <<>>
  BY <1>1, ActiveFacts DEF Inv
<1>3. c \in Seq(Tokens(Top.kind))
  BY <1>1, <1>2, TailFacts
<1>4. Goes(c)
  BY <1>1 DEF Goes, Advanced, Top
<1> QED BY <1>1, <1>3, <1>4

\* PrintExpr preserves TermInv.
LEMMA ExprTerms == ASSUME Inv, TermInv, PrintExpr PROVE TermInv'
<1> SUFFICES ASSUME ~loose' PROVE \E A, T : TermsMatch(out', A) /\ (stack' # <<>> => Chained(stack', A, T))
  BY DEF TermInv
<1>0. Active /\ Step[1] \in {"expr", "cond", "inc"} /\ out' = word(out, <<"Expr">>) /\ stack' = Advanced /\ ~loose
  BY DEF PrintExpr
<1>1. PICK A, T : TermsMatch(out, A) /\ Chained(stack, A, T)
  BY <1>0 DEF TermInv, Active
<1>2. Step \in Uses
  BY <1>0, ActiveFacts, TokenWords DEF Inv
<1>3. PICK q, g, h : Calling(A, T, q, g, h)
  BY <1>0, <1>1, <1>2, ChainedCall
<1>4. /\ q \in Terms /\ g \in Abstract /\ h \in Abstract
      /\ A = Append(q, g) /\ Append(q, h) \in Terms /\ Reads(Top.kind, Step, g, h)
      /\ TermPath(Top.kind, Tail(Top.code), Append(q, h), T[Len(stack)])
  BY <1>3 DEF Calling
<1>5. PICK z : z = <<"Expr">>
  OBVIOUS
<1>6. z \in Seq(Sorts) /\ Takes(g, z, h)
  BY <1>0, <1>4, <1>5, SortSeqs DEF Reads
<1>7. TermsMatch(word(out, z), Append(q, h))
  BY <1>1, <1>4, <1>6, WordMatches
<1>8. Goes(Tail(Top.code)) /\ Tail(Top.code) \in Seq(Tokens(Top.kind))
  BY <1>0, AdvancedGoes
<1>9. Chained(stack', Append(q, h), T)
  BY <1>0, <1>1, <1>4, <1>8, ChainedGoes
<1> QED BY <1>0, <1>5, <1>7, <1>9

\* VisitOtherDecl preserves TermInv.
LEMMA OtherDeclTerms == ASSUME Inv, TermInv, VisitOtherDecl PROVE TermInv'
<1> SUFFICES ASSUME ~loose' PROVE \E A, T : TermsMatch(out', A) /\ (stack' # <<>> => Chained(stack', A, T))
  BY DEF TermInv
<1>0. Does("local") /\ Top.kind = "DeclStmt" /\ out' = out /\ stack' = Advanced /\ ~loose
  BY DEF VisitOtherDecl
<1>a. Active /\ Step = <<"local">> /\ Step \in Calls
  BY <1>0, DoesFacts DEF Inv
<1>1. PICK A, T : TermsMatch(out, A) /\ Chained(stack, A, T)
  BY <1>0, <1>a DEF TermInv, Active
<1>3. PICK q, g, h : Calling(A, T, q, g, h)
  BY <1>a, <1>1, ChainedCall
<1>4. /\ A = Append(q, g) /\ Reads(Top.kind, Step, g, h)
      /\ TermPath(Top.kind, Tail(Top.code), Append(q, h), T[Len(stack)])
  BY <1>3 DEF Calling
<1>5. h = g
  BY <1>0, <1>a, <1>4 DEF Reads
<1>8. Goes(Tail(Top.code)) /\ Tail(Top.code) \in Seq(Tokens(Top.kind))
  BY <1>0, <1>a, AdvancedGoes
<1>9. Chained(stack', A, T)
  BY <1>a, <1>1, <1>4, <1>5, <1>8, ChainedGoes
<1> QED BY <1>0, <1>1, <1>9

\* A call of another visitor is not a text that is written.
LEMMA CallNotText == \A t \in Calls : t \notin Texts
  BY DEF Calls, Pairs, RangeParts, Texts, W, Words

\* The visitor returns to its caller, whose printed text goes on from there.
LEMMA ReturnTerms == ASSUME Inv, TermInv, Return PROVE TermInv'
<1> SUFFICES ASSUME ~loose' PROVE \E A, T : TermsMatch(out', A) /\ (stack' # <<>> => Chained(stack', A, T))
  BY DEF TermInv
<1>0. ~loose /\ stack # <<>> /\ Top.code = <<>>
  BY DEF Return, Finished
<1>1. PICK A, T : TermsMatch(out, A) /\ Chained(stack, A, T)
  BY <1>0 DEF TermInv
<1>2. Types /\ CallInv /\ Len(stack) \in Nat
  BY DEF Inv, Types
<1>3. CASE Len(stack) <= 1
  <2>1. stack' = <<>> /\ out' = out
    BY <1>2, <1>3, LastReturn
  <2> QED BY <1>1, <2>1
<1>4. CASE Len(stack) > 1
  <2>1. PICK n, c : n = Len(stack) /\ c = n - 1
    OBVIOUS
  <2>2. /\ n \in Nat /\ c \in Nat /\ c > 0 /\ n = c + 1 /\ DOMAIN stack = 1 .. n
        /\ Top = stack[n] /\ Len(stack') = c
        /\ stack[c].code # <<>> /\ Head(stack[c].code) \in Calls
        /\ ResumesTo(Top, stack, c, stack')
    BY <1>2, <1>4, <2>1, ReturnFacts
  <2>3. /\ stack'[c].code = Tail(stack[c].code)
        /\ \A i \in 1 .. c - 1 : stack'[i].code = stack[i].code
        /\ \A i \in 1 .. c : stack'[i].kind = stack[i].kind
    BY <2>2 DEF ResumesTo
  <2>4. A = T[n] /\ T \in [Nat -> Terms]
    <3>1. TermPath(Top.kind, <<>>, A, T[n]) /\ T \in [Nat -> Terms]
      BY <1>0, <1>1, <2>1, <2>2 DEF Chained
    <3> QED BY <3>1, PathEmpty DEF TermPath
  <2>5. Links(stack[c].kind, Tail(stack[c].code), T[n], T[c])
    <3>1. c \in 1 .. Len(stack) - 1 /\ n = c + 1
      BY <2>1, <2>2
    <3> QED BY <1>1, <3>1 DEF Chained
  <2>6. PICK b \in Terms : Resume(stack[c].kind, A, b) /\ TermPath(stack[c].kind, Tail(stack[c].code), b, T[c])
    BY <2>4, <2>5 DEF Links
  <2>7. TermsMatch(out', b)
    <3>1. out' = IF Top.kind = "VarDecl" /\ stack[c].kind = "DeclStmt" THEN cons(out) ELSE out
      BY <2>1 DEF Return
    <3>2. CASE stack[c].kind # "DeclStmt"
      BY <1>1, <2>6, <3>1, <3>2 DEF Resume
    <3>3. CASE stack[c].kind = "DeclStmt"
      <4>1. Top.kind = "VarDecl"
        <5>1. Head(stack[c].code) \in Tokens("DeclStmt") /\ "DeclStmt" \in Kinds
          <6>1. c \in DOMAIN stack
            BY <2>2
          <6>2. stack[c].code \in Seq(Tokens("DeclStmt"))
            BY <1>2, <3>3, <6>1 DEF Types, FrameOK
          <6> QED BY <2>2, <6>2, HeadIn DEF Kinds
        <5>2. Head(stack[c].code) \in Texts \cup {<<"local">>} \cup Pairs
          BY <5>1, TokenKinds
        <5>3. Head(stack[c].code) \notin Texts
          BY <2>2, CallNotText
        <5>4. c \in DOMAIN stack /\ c < Len(stack) /\ c + 1 = n
          BY <2>1, <2>2
        <5> QED BY <1>2, <2>2, <5>2, <5>3, <5>4 DEF CallInv
      <4>2. out' = word(out, <<"::">>)
        BY <3>1, <3>3, <4>1 DEF cons
      <4>3. PICK e : e = [head |-> "list", sort |-> "VarDecl", n |-> 1]
        OBVIOUS
      <4>4. PICK q \in Terms : A = Append(q, e) /\ b = Append(q, VarList)
        BY <2>6, <3>3, <4>3 DEF Resume
      <4>5. e \in Abstract /\ VarList \in Abstract
        BY <4>3, StmtPlace
      <4>6. e.head = "list" /\ e.n = 1 /\ VarList = Opened("list", e.sort)
        BY <4>3 DEF VarList
      <4>7. PICK z : z = <<"::">>
        OBVIOUS
      <4>8. z \in Seq(Sorts)
        BY <4>7, SortSeqs
      <4>9. TermsMatch(word(out, z), Append(q, VarList))
        BY <1>1, <4>4, <4>5, <4>6, <4>7, <4>8, WordMatches
      <4> QED BY <4>2, <4>4, <4>7, <4>9
    <3> QED BY <3>2, <3>3
  <2>8. TermPath(stack'[c].kind, stack'[c].code, b, T[c])
    <3>1. c \in 1 .. c
      BY <2>2
    <3> QED BY <2>3, <2>6, <3>1
  <2>9. ASSUME NEW j \in 1 .. c - 1 PROVE Links(stack'[j].kind, Tail(stack'[j].code), T[j + 1], T[j])
    <3>1. j \in 1 .. Len(stack) - 1 /\ j \in 1 .. c
      BY <2>1, <2>2
    <3>2. Links(stack[j].kind, Tail(stack[j].code), T[j + 1], T[j])
      BY <1>1, <3>1 DEF Chained
    <3> QED BY <2>3, <3>1, <3>2
  <2>10. Chained(stack', b, T)
    BY <2>2, <2>4, <2>8, <2>9 DEF Chained
  <2> QED BY <2>7, <2>10
<1> QED BY <1>2, <1>3, <1>4

\* Nothing is written yet.
LEMMA NothingMatches ==
  /\ TermsMatch(NoOutput, <<At("Body", 0)>>) /\ At("Body", 0) \in Abstract /\ At("Body", 1) \in Abstract
  /\ Takes(At("Body", 0), <<"Stmt">>, At("Body", 1))
<1>1. "Body" \in DOMAIN Signatures /\ Signatures["Body"] = <<<<Sort("Stmt")>>, "body">>
  BY DEF Signatures
<1>2. At("Body", 0) \in Abstract /\ At("Body", 1) \in Abstract
  BY <1>1, AtTypes
<1>3. Takes(At("Body", 0), <<"Stmt">>, At("Body", 1))
  BY <1>1 DEF Takes, At, Sort
<1>4. PICK x, a : x = [head |-> "Body", args |-> <<>>] /\ a = At("Body", 0)
  OBVIOUS
<1>5. Matches(x, a)
  <2>1. "Body" \in Ctors \cup {"list"} /\ "Some" \in Elements
    BY <1>1 DEF Ctors, Elements, Sorts
  <2>2. a = Opened("Body", "Some")
    BY <1>4 DEF At, Opened
  <2> QED BY <1>4, <2>1, <2>2, MatchesOpened
<1>6. x \in Group /\ a \in Abstract
  BY <1>5 DEF Matches
<1>7. PICK o, A : o = <<x>> /\ A = <<a>>
  OBVIOUS
<1>8. o \in Seq(Group) /\ A \in Seq(Abstract) /\ Len(o) = 1 /\ Len(A) = 1 /\ o[1] = x /\ A[1] = a
  BY <1>6, <1>7
<1>9. \A i \in 1 .. 1 : Matches(o[i], A[i])
  BY <1>5, <1>8
<1>10. TermsMatch(o, A)
  BY <1>8, <1>9 DEF TermsMatch, Terms
<1> QED BY <1>2, <1>3, <1>4, <1>7, <1>10 DEF NoOutput

\* VisitStmt ends the program.
LEMMA StopTerms == ASSUME Inv, TermInv, VisitStmt PROVE TermInv'
<1>1. stack' = <<>> /\ out' = NoOutput
  BY DEF VisitStmt
<1> QED BY <1>1, NothingMatches DEF TermInv

\* Nothing is printed yet: the body is the one argument of the function.
LEMMA InitTerms == ASSUME Init PROVE TermInv
<1>1. PICK p \in Variable, e \in FrameType, g \in FrameType :
           /\ stack = <<e, g>> /\ e.kind = "Function" /\ e.code = Body
           /\ g.kind = "CompoundStmt" /\ Prints("CompoundStmt", g.code, "Stmt")
  BY InitStack
<1>2. Len(stack) = 2 /\ stack[1] = e /\ stack[2] = g /\ out = NoOutput
  BY <1>1 DEF Init
<1>3. PICK a, b : a = At("Body", 0) /\ b = At("Body", 1)
  OBVIOUS
<1>4. a \in Abstract /\ b \in Abstract /\ Takes(a, <<"Stmt">>, b) /\ TermsMatch(out, <<a>>)
  BY <1>2, <1>3, NothingMatches
<1>5. Fits("CompoundStmt", g.code, a, b)
  BY <1>1, <1>4 DEF Prints
<1>6. PICK q : q = <<>>
  OBVIOUS
<1>7. q \in Terms /\ Append(q, a) = <<a>> /\ Append(q, b) = <<b>>
  BY <1>4, <1>6 DEF Terms
<1>8. PICK B : B = Append(q, b)
  OBVIOUS
<1>9. TermPath("CompoundStmt", g.code, <<a>>, B)
  BY <1>5, <1>7, <1>8 DEF Fits
<1>10. B \in Terms
  BY <1>4, <1>7, <1>8, AbstractTypes
<1>11. Tail(e.code) = <<>>
  BY <1>1 DEF Body
<1>12. TermPath("Function", <<>>, B, B)
  BY <1>10, PathNone DEF TermPath
<1>13. Links(e.kind, Tail(e.code), B, B)
  BY <1>1, <1>10, <1>11, <1>12 DEF Links, Resume
<1>14. PICK T : T = [i \in Nat |-> B]
  OBVIOUS
<1>15. T \in [Nat -> Terms] /\ T[1] = B /\ T[2] = B
  BY <1>10, <1>14
<1>16. TermPath(stack[2].kind, stack[2].code, <<a>>, T[2])
  BY <1>1, <1>2, <1>9, <1>15
<1>17. \A j \in 1 .. 2 - 1 : Links(stack[j].kind, Tail(stack[j].code), T[j + 1], T[j])
  <2>1. Links(stack[1].kind, Tail(stack[1].code), T[1 + 1], T[1])
    BY <1>2, <1>13, <1>15
  <2> QED BY <2>1
<1>18. Chained(stack, <<a>>, T)
  BY <1>2, <1>15, <1>16, <1>17 DEF Chained
<1> QED BY <1>4, <1>18 DEF TermInv

\* TermInv is inductive relative to Inv.
LEMMA NextTerms == Inv /\ TermInv /\ [Next]_vars => TermInv'
<1>1. SUFFICES ASSUME Inv, TermInv, [Next]_vars PROVE TermInv'
  OBVIOUS
<1>2. CASE Next
  <2>1. Types /\ HiddenInv
    BY <1>1 DEF Inv
  <2> QED BY <1>1, <1>2, <2>1, StepCases, PlainTerms, RangeInitTerms, LabelTerms, TextTerms, ExprTerms, OtherDeclTerms,
             ReturnTerms, StopTerms
<1>3. CASE UNCHANGED vars
  BY <1>1, <1>3 DEF vars, TermInv, Chained
<1> QED BY <1>1, <1>2, <1>3

\* Coq accepts the output of any function whose cases all stand in the list of
\* a block: no constructor gets an argument it does not take, no list is
\* broken, however the statements and their declarations are nested.
THEOREM TermsAreRead == Spec => []TermsRead
<1>1. Init => TermInv
  BY InitTerms
<1>2. Inv /\ TermInv /\ [Next]_vars => TermInv'
  BY NextTerms
<1>3. Inv /\ TermInv => TermsRead
  <2> SUFFICES ASSUME TermInv, Inv, NEW i \in DOMAIN out, NEW k \in DOMAIN out[i].args, out[i].args[k] = Ill, ~loose
               PROVE  FALSE
    BY DEF TermsRead
  <2>1. PICK A : TermsMatch(out, A)
    BY DEF TermInv
  <2>2. out \in Seq(Group) /\ i \in 1 .. Len(A) /\ Matches(out[i], A[i])
    BY <2>1 DEF TermsMatch
  <2>3. PICK x, a : x = out[i] /\ a = A[i]
    OBVIOUS
  <2>4. Matches(x, a) /\ k \in DOMAIN x.args /\ x.args[k] = Ill
    BY <2>2, <2>3
  <2>5. a.sort \in Elements /\ x.args \in Seq(Seq(Sorts))
    BY <2>4 DEF Matches, Group
  <2>6. k \in 1 .. Len(x.args)
    BY <2>4, <2>5
  <2>7. CASE a.head = "list"
    <3>1. x.args[k] = <<"::">> \/ x.args[k] = <<a.sort>>
      BY <2>4, <2>6, <2>7 DEF Matches, ListArgs
    <3> QED BY <2>4, <2>5, <3>1, ElementSeqs DEF Ill
  <2>8. CASE a.head = "Some"
    <3>1. x.args = <<>> \/ x.args = <<<<a.sort>>>>
      BY <2>4, <2>8 DEF Matches
    <3>2. PICK z : z = <<a.sort>>
      OBVIOUS
    <3>3. x.args = <<>> \/ x.args = <<z>>
      BY <3>1, <3>2
    <3>4. x.args[k] = z
      BY <2>6, <3>3
    <3> QED BY <2>4, <2>5, <3>2, <3>4, ElementSeqs
  <2>9. CASE a.head \notin {"list", "Some"}
    BY <2>4, <2>6, <2>9 DEF Matches
  <2> QED BY <2>7, <2>8, <2>9
<1> QED BY <1>1, <1>2, <1>3, Invariance, PTL DEF Spec

================================================================================

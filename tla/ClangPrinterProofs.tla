-------------------------- MODULE ClangPrinterProofs --------------------------
(***************************************************************************)
(* Proofs about the names of types and objects (ClangPrinter), for sources *)
(* with any number of declarations, nested in any way.                     *)
(*                                                                         *)
(* The argument: an invariant on the source, Sound, that every action      *)
(* keeps; then, in a sound source, the names, by induction along the tree  *)
(* of contexts.                                                            *)
(***************************************************************************)
EXTENDS ClangPrinter, FiniteSetTheorems, WellFoundedInduction, TLAPS

(***************************************************************************)
(* Declarations form a tree, in which each stands after its context.       *)
(***************************************************************************)

\* Every set of numbers has a least one.
LEMMA NatLeast ==
  ASSUME NEW T, T \subseteq Nat, T # {}
  PROVE  \E x \in T : \A y \in T : x <= y
<1>1. IsWellFoundedOn(OpToRel(<, Nat), Nat)
  BY NatLessThanWellFounded
<1>2. PICK x \in T : \A y \in T : ~ (<<y, x>> \in OpToRel(<, Nat))
  BY <1>1, WFMin
<1>3. \A y \in T : ~(y < x)
  BY <1>2 DEF OpToRel
<1> QED BY <1>3

\* Each of n declarations is in an earlier context.
Tree(n, in) == \A d \in 1 .. n : in[d] \in 0 .. d - 1

\* Induction along the tree.
LEMMA TreeInduction ==
  ASSUME NEW n \in Nat, NEW in, Tree(n, in),
         NEW S, 0 \in S, \A d \in 1 .. n : in[d] \in S => d \in S
  PROVE  \A d \in 0 .. n : d \in S
<1> DEFINE T == {d \in 0 .. n : d \notin S}
<1>1. SUFFICES ASSUME T # {} PROVE FALSE
  OBVIOUS
<1>2. T \subseteq Nat
  OBVIOUS
<1>3. PICK x \in T : \A y \in T : x <= y
  BY <1>1, <1>2, NatLeast
<1>4. x \in 1 .. n /\ x \notin S
  BY <1>3
<1>5. in[x] \in 0 .. x - 1
  BY <1>4 DEF Tree
<1>6. in[x] \in 0 .. n /\ ~(x <= in[x])
  BY <1>4, <1>5
<1>7. in[x] \in S
  BY <1>3, <1>6
<1> QED BY <1>4, <1>7

\* F gives each declaration a value in U from one for its context.
Steps(n, U, F) == \A d \in 1 .. n : \A v \in U : F[d][v] \in U

\* Function f gives z to the root and F of the value of its context to the rest.
Follows(f, n, in, U, z, F) ==
  f \in [0 .. n -> U] /\ f[0] = z /\ \A d \in 1 .. n : f[d] = F[d][f[in[d]]]

\* A function of the tree, defined by the value for the context.
LEMMA TreeRecursion ==
  ASSUME NEW n \in Nat, NEW in, Tree(n, in), NEW U, NEW z \in U, NEW F, Steps(n, U, F)
  PROVE  \E f : Follows(f, n, in, U, z, F)
<1> USE DEF Tree, Steps
<1> DEFINE Upto(m) == {f \in [0 .. m -> U] : f[0] = z /\ \A d \in 1 .. m : f[d] = F[d][f[in[d]]]}
           T == {m \in 0 .. n : Upto(m) = {}}
<1>1. Upto(0) # {}
  <2>1. [d \in 0 .. 0 |-> z] \in Upto(0)
    OBVIOUS
  <2> QED BY <2>1
<1>2. ASSUME NEW m \in 1 .. n, Upto(m - 1) # {} PROVE Upto(m) # {}
  <2>1. PICK f \in Upto(m - 1) : TRUE
    BY <1>2
  <2>2. f \in [0 .. m - 1 -> U] /\ f[0] = z /\ \A d \in 1 .. m - 1 : f[d] = F[d][f[in[d]]]
    BY <2>1
  <2>3. in[m] \in 0 .. m - 1
    OBVIOUS
  <2>4. PICK v : v = F[m][f[in[m]]]
    OBVIOUS
  <2>5. v \in U
    <3>1. f[in[m]] \in U
      BY <2>2, <2>3
    <3> QED BY <2>4, <3>1
  <2>6. PICK g : g = [d \in 0 .. m |-> IF d = m THEN v ELSE f[d]]
    OBVIOUS
  <2>7. g \in [0 .. m -> U]
    <3>1. ASSUME NEW d \in 0 .. m PROVE (IF d = m THEN v ELSE f[d]) \in U
      <4>1. d # m => d \in 0 .. m - 1
        OBVIOUS
      <4> QED BY <2>2, <2>5, <4>1
    <3> QED BY <2>6, <3>1
  <2>8. (\A d \in 0 .. m - 1 : g[d] = f[d]) /\ g[m] = v
    <3>1. \A d \in 0 .. m - 1 : d \in 0 .. m /\ d # m
      OBVIOUS
    <3>2. m \in 0 .. m
      OBVIOUS
    <3> QED BY <2>6, <3>1, <3>2
  <2>9. g[0] = z
    <3>1. 0 \in 0 .. m - 1
      OBVIOUS
    <3> QED BY <2>2, <2>8, <3>1
  <2>10. ASSUME NEW d \in 1 .. m PROVE g[d] = F[d][g[in[d]]]
    <3>1. CASE d = m
      <4>1. g[in[m]] = f[in[m]]
        BY <2>3, <2>8
      <4> QED BY <2>4, <2>8, <3>1, <4>1
    <3>2. CASE d # m
      <4>1. d \in 1 .. m - 1 /\ d \in 0 .. m - 1 /\ in[d] \in 0 .. d - 1
        BY <3>2
      <4>2. in[d] \in 0 .. m - 1
        BY <4>1
      <4> QED BY <2>2, <2>8, <4>1, <4>2
    <3> QED BY <3>1, <3>2
  <2>11. g \in Upto(m)
    BY <2>7, <2>9, <2>10
  <2> QED BY <2>11
<1>3. Upto(n) # {}
  <2> HIDE DEF Upto
  <2>1. SUFFICES ASSUME Upto(n) = {} PROVE FALSE
    OBVIOUS
  <2>2. T \subseteq Nat /\ n \in T
    BY <2>1
  <2>3. PICK x \in T : \A y \in T : x <= y
    BY <2>2, NatLeast
  <2>4. x \in 1 .. n /\ Upto(x) = {}
    BY <1>1, <2>3
  <2>5. x - 1 \in 0 .. n /\ ~(x <= x - 1)
    BY <2>4
  <2>6. Upto(x - 1) # {}
    BY <2>3, <2>5
  <2> QED BY <1>2, <2>4, <2>6
<1> QED BY <1>3 DEF Follows

(***************************************************************************)
(* The types of the declarations.                                          *)
(***************************************************************************)
DeclType ==
  [kind : Types \cup {"namespace", "linkage", "function"}, in : Nat, block : Blocks \cup {""},
   ident : Idents \cup {""}, alias : Idents \cup {""}, first : Idents \cup {"", "none"}, args : Args \cup {""},
   member : BOOLEAN, dtor : BOOLEAN, c : BOOLEAN]

\* Declarations of the right types, each in an earlier context.
Shape(s) == s \in Seq(DeclType) /\ \A d \in DOMAIN s : s[d].in \in 0 .. d - 1

\* Path, Scope and ScopeOf of a source s.
PathIn(s, d) ==
  LET up[e \in 0 .. Len(s)] == IF e = 0 THEN {0} ELSE {e} \cup up[s[e].in]
  IN up[d]

\* As Scope, of source s.
ScopeIn(s, d) ==
  LET up[e \in 0 .. Len(s)] == IF e # 0 /\ s[e].kind = "linkage" THEN up[s[e].in] ELSE e
  IN up[s[d].in]

\* As ScopeOf, of source s.
ScopeOfIn(s, d) == IF d # 0 /\ s[d].kind = "linkage" THEN ScopeIn(s, d) ELSE d

\* They are Path, Scope and ScopeOf of the sources before and after a step.
LEMMA InState ==
  /\ \A d : Path(d) = PathIn(decls, d) /\ Path(d)' = PathIn(decls', d)
  /\ \A d : Scope(d) = ScopeIn(decls, d) /\ Scope(d)' = ScopeIn(decls', d)
  /\ \A d : ScopeOf(d) = ScopeOfIn(decls, d) /\ ScopeOf(d)' = ScopeOfIn(decls', d)
<1>1. \A d : Path(d) = PathIn(decls, d) /\ Path(d)' = PathIn(decls', d)
  BY DEF Path, PathIn, Contexts
<1>2. \A d : Scope(d) = ScopeIn(decls, d) /\ Scope(d)' = ScopeIn(decls', d)
  BY DEF Scope, ScopeIn, Contexts
<1>3. \A d : ScopeOf(d) = ScopeOfIn(decls, d) /\ ScopeOf(d)' = ScopeOfIn(decls', d)
  BY <1>2 DEF ScopeOf, ScopeOfIn
<1> QED BY <1>1, <1>2, <1>3

\* The equations of Path.
LEMMA PathFacts ==
  ASSUME NEW s, Shape(s)
  PROVE  /\ PathIn(s, 0) = {0}
         /\ \A d \in DOMAIN s : PathIn(s, d) = {d} \cup PathIn(s, s[d].in)
<1>1. PICK n \in Nat : n = Len(s) /\ DOMAIN s = 1 .. n
  BY DEF Shape
<1>2. PICK in : in = [d \in 1 .. n |-> s[d].in]
  OBVIOUS
<1>3. \A d \in 1 .. n : in[d] = s[d].in /\ in[d] \in 0 .. d - 1
  BY <1>1, <1>2 DEF Shape
<1>4. PICK U : U = SUBSET (0 .. n)
  OBVIOUS
<1>5. PICK F : F = [d \in 1 .. n |-> [v \in U |-> {d} \cup v]]
  OBVIOUS
<1>6. ASSUME NEW d \in 1 .. n, NEW v \in U PROVE F[d][v] = {d} \cup v /\ F[d][v] \in U
  <2>1. F[d] = [x \in U |-> {d} \cup x]
    BY <1>5
  <2>2. F[d][v] = {d} \cup v
    BY <2>1
  <2>3. v \subseteq 0 .. n /\ d \in 0 .. n
    BY <1>4
  <2>4. {d} \cup v \subseteq 0 .. n
    BY <2>3
  <2> QED BY <1>4, <2>2, <2>4
<1>7. PICK f : f \in [0 .. n -> U] /\ f[0] = {0} /\ \A d \in 1 .. n : f[d] = F[d][f[in[d]]]
  <2>1. PICK z : z = {0} /\ z \in U
    <3>1. {0} \subseteq 0 .. n
      OBVIOUS
    <3> QED BY <1>4, <3>1
  <2>2. Tree(n, in) /\ Steps(n, U, F)
    BY <1>3, <1>6 DEF Tree, Steps
  <2>3. \E f : Follows(f, n, in, U, z, F)
    BY <2>1, <2>2, TreeRecursion
  <2> QED BY <2>1, <2>3 DEF Follows
<1> DEFINE R(g) == [e \in 0 .. n |-> IF e = 0 THEN {0} ELSE {e} \cup g[s[e].in]]
<1>8. f = R(f)
  <2>1. ASSUME NEW e \in 0 .. n PROVE f[e] = IF e = 0 THEN {0} ELSE {e} \cup f[s[e].in]
    <3>1. CASE e = 0
      BY <1>7, <3>1
    <3>2. CASE e # 0
      <4>1. e \in 1 .. n /\ in[e] \in 0 .. e - 1
        BY <1>3, <3>2
      <4>2. f[in[e]] \in U
        BY <1>7, <4>1
      <4>3. f[e] = F[e][f[in[e]]] /\ in[e] = s[e].in
        BY <1>3, <1>7, <4>1
      <4>4. PICK v : v = f[in[e]]
        OBVIOUS
      <4> QED BY <1>6, <3>2, <4>1, <4>2, <4>3, <4>4
    <3> QED BY <3>1, <3>2
  <2> QED BY <1>7, <2>1
<1> DEFINE w == CHOOSE g : g = R(g)
<1>9. w = R(w)
  BY <1>8
<1>10. \A d : PathIn(s, d) = w[d]
  BY <1>1 DEF PathIn
<1> HIDE DEF w
<1>11. w[0] = {0} /\ \A d \in 1 .. n : w[d] = {d} \cup w[s[d].in]
  <2>1. ASSUME NEW d \in 0 .. n PROVE w[d] = IF d = 0 THEN {0} ELSE {d} \cup w[s[d].in]
    BY <1>9
  <2>2. 0 \in 0 .. n /\ \A d \in 1 .. n : d \in 0 .. n /\ d # 0
    OBVIOUS
  <2> HIDE DEF R
  <2> QED BY <2>1, <2>2
<1> QED BY <1>1, <1>10, <1>11

\* The equations of Scope.
LEMMA ScopeFacts ==
  ASSUME NEW s, Shape(s)
  PROVE  /\ ScopeOfIn(s, 0) = 0
         /\ \A d \in DOMAIN s : ScopeIn(s, d) = ScopeOfIn(s, s[d].in)
         /\ \A d \in DOMAIN s : ScopeOfIn(s, d) = IF s[d].kind = "linkage" THEN ScopeOfIn(s, s[d].in) ELSE d
<1>1. PICK n \in Nat : n = Len(s) /\ DOMAIN s = 1 .. n
  BY DEF Shape
<1>2. PICK in : in = [d \in 1 .. n |-> s[d].in]
  OBVIOUS
<1>3. \A d \in 1 .. n : in[d] = s[d].in /\ in[d] \in 0 .. d - 1
  BY <1>1, <1>2 DEF Shape
<1>4. PICK F : F = [d \in 1 .. n |-> [v \in 0 .. n |-> IF s[d].kind = "linkage" THEN v ELSE d]]
  OBVIOUS
<1>6. ASSUME NEW d \in 1 .. n, NEW v \in 0 .. n
      PROVE  F[d][v] = (IF s[d].kind = "linkage" THEN v ELSE d) /\ F[d][v] \in 0 .. n
  <2>1. F[d] = [x \in 0 .. n |-> IF s[d].kind = "linkage" THEN x ELSE d]
    BY <1>4
  <2>2. F[d][v] = (IF s[d].kind = "linkage" THEN v ELSE d)
    BY <2>1
  <2> QED BY <2>2
<1>7. PICK f : f \in [0 .. n -> 0 .. n] /\ f[0] = 0 /\ \A d \in 1 .. n : f[d] = F[d][f[in[d]]]
  <2>1. PICK U : U = 0 .. n
    OBVIOUS
  <2>2. PICK z : z = 0 /\ z \in U
    BY <2>1
  <2>3. Tree(n, in) /\ Steps(n, U, F)
    BY <1>3, <1>6, <2>1 DEF Tree, Steps
  <2>4. \E f : Follows(f, n, in, U, z, F)
    BY <2>2, <2>3, TreeRecursion
  <2> QED BY <2>1, <2>2, <2>4 DEF Follows
<1> DEFINE R(g) == [e \in 0 .. n |-> IF e # 0 /\ s[e].kind = "linkage" THEN g[s[e].in] ELSE e]
<1>8. f = R(f)
  <2>1. ASSUME NEW e \in 0 .. n PROVE f[e] = IF e # 0 /\ s[e].kind = "linkage" THEN f[s[e].in] ELSE e
    <3>1. CASE e = 0
      BY <1>7, <3>1
    <3>2. CASE e # 0
      <4>1. e \in 1 .. n /\ in[e] \in 0 .. e - 1
        BY <1>3, <3>2
      <4>2. f[in[e]] \in 0 .. n
        BY <1>7, <4>1
      <4>3. f[e] = F[e][f[in[e]]] /\ in[e] = s[e].in
        BY <1>3, <1>7, <4>1
      <4>4. PICK v : v = f[in[e]]
        OBVIOUS
      <4> QED BY <1>6, <3>2, <4>1, <4>2, <4>3, <4>4
    <3> QED BY <3>1, <3>2
  <2> QED BY <1>7, <2>1
<1> DEFINE w == CHOOSE g : g = R(g)
<1>9. w = R(w)
  BY <1>8
<1>10. \A d : ScopeIn(s, d) = w[s[d].in]
  BY <1>1 DEF ScopeIn
<1> HIDE DEF w
<1>11. \A d \in 0 .. n : w[d] = IF d # 0 /\ s[d].kind = "linkage" THEN w[s[d].in] ELSE d
  BY <1>9
<1>12. \A d \in 0 .. n : ScopeOfIn(s, d) = w[d]
  BY <1>10, <1>11 DEF ScopeOfIn
<1>13. ASSUME NEW d \in 1 .. n PROVE s[d].in \in 0 .. n /\ d \in 0 .. n /\ d # 0
  <2>1. s[d].in \in 0 .. d - 1
    BY <1>3
  <2> QED BY <2>1
<1>14. ScopeOfIn(s, 0) = 0
  BY DEF ScopeOfIn
<1>15. \A d \in DOMAIN s : ScopeIn(s, d) = ScopeOfIn(s, s[d].in)
  BY <1>1, <1>10, <1>12, <1>13
<1>16. ASSUME NEW d \in DOMAIN s
       PROVE ScopeOfIn(s, d) = IF s[d].kind = "linkage" THEN ScopeOfIn(s, s[d].in) ELSE d
  BY <1>1, <1>13, <1>15, <1>16 DEF ScopeOfIn
<1> QED BY <1>14, <1>15, <1>16

\* The same declarations have the same contexts and scopes in a longer source.
Longer(s, t) ==
  Len(s) <= Len(t) /\ \A d \in DOMAIN s : t[d].in = s[d].in /\ t[d].kind = s[d].kind

\* A longer source keeps the paths and scopes of what it had.
LEMMA LongerKeeps ==
  ASSUME NEW s, NEW t, Shape(s), Shape(t), Longer(s, t)
  PROVE  /\ \A d \in 0 .. Len(s) : PathIn(t, d) = PathIn(s, d) /\ ScopeOfIn(t, d) = ScopeOfIn(s, d)
         /\ \A d \in DOMAIN s : ScopeIn(t, d) = ScopeIn(s, d)
<1>1. PICK n \in Nat : n = Len(s) /\ DOMAIN s = 1 .. n
  BY DEF Shape
<1>2. 1 .. n \subseteq DOMAIN t
  BY <1>1 DEF Shape, Longer
<1>3. PICK in : in = [d \in 1 .. n |-> s[d].in]
  OBVIOUS
<1>4. \A d \in 1 .. n : in[d] = s[d].in /\ in[d] \in 0 .. d - 1 /\ t[d].in = s[d].in /\ t[d].kind = s[d].kind
  BY <1>1, <1>3 DEF Shape, Longer
<1>5. PICK S : S = {d \in 0 .. n : PathIn(t, d) = PathIn(s, d) /\ ScopeOfIn(t, d) = ScopeOfIn(s, d)}
  OBVIOUS
<1>6. 0 \in S
  <2>1. PathIn(s, 0) = {0} /\ PathIn(t, 0) = {0}
    BY PathFacts
  <2>2. ScopeOfIn(s, 0) = 0 /\ ScopeOfIn(t, 0) = 0
    BY ScopeFacts
  <2> QED BY <1>5, <2>1, <2>2
<1>7. ASSUME NEW d \in 1 .. n, in[d] \in S PROVE d \in S
  <2>1. PathIn(t, in[d]) = PathIn(s, in[d]) /\ ScopeOfIn(t, in[d]) = ScopeOfIn(s, in[d])
    BY <1>5, <1>7
  <2>2. PathIn(t, d) = {d} \cup PathIn(t, in[d]) /\ PathIn(s, d) = {d} \cup PathIn(s, in[d])
    BY <1>1, <1>2, <1>4, PathFacts
  <2>3. /\ ScopeOfIn(t, d) = IF s[d].kind = "linkage" THEN ScopeOfIn(t, in[d]) ELSE d
        /\ ScopeOfIn(s, d) = IF s[d].kind = "linkage" THEN ScopeOfIn(s, in[d]) ELSE d
    <3>1. ScopeOfIn(s, d) = IF s[d].kind = "linkage" THEN ScopeOfIn(s, in[d]) ELSE d
      BY <1>1, <1>2, <1>4, ScopeFacts
    <3>2. ScopeOfIn(t, d) = IF s[d].kind = "linkage" THEN ScopeOfIn(t, in[d]) ELSE d
      BY <1>1, <1>2, <1>4, ScopeFacts
    <3> QED BY <3>1, <3>2
  <2>4. d \in 0 .. n
    OBVIOUS
  <2> QED BY <1>5, <2>1, <2>2, <2>3, <2>4
<1>8. \A d \in 0 .. n : d \in S
  <2>1. Tree(n, in)
    BY <1>4 DEF Tree
  <2> QED BY <1>6, <1>7, <2>1, TreeInduction
<1>9. \A d \in 1 .. n : in[d] \in 0 .. n
  BY <1>4
<1>10. \A d \in DOMAIN s : ScopeIn(t, d) = ScopeOfIn(t, in[d]) /\ ScopeIn(s, d) = ScopeOfIn(s, in[d])
  BY <1>1, <1>2, <1>4, ScopeFacts
<1> QED BY <1>1, <1>5, <1>8, <1>9, <1>10

\* Contexts are declarations or the unit.
LEMMA ContextsIn ==
  ASSUME NEW s, Shape(s)
  PROVE  \A d \in 0 .. Len(s) : /\ PathIn(s, d) \subseteq 0 .. Len(s) /\ d \in PathIn(s, d) /\ 0 \in PathIn(s, d)
                               /\ ScopeOfIn(s, d) \in 0 .. Len(s) /\ ScopeOfIn(s, d) \in PathIn(s, d)
<1>1. PICK n \in Nat : n = Len(s) /\ DOMAIN s = 1 .. n
  BY DEF Shape
<1>2. PICK in : in = [d \in 1 .. n |-> s[d].in]
  OBVIOUS
<1>3. \A d \in 1 .. n : in[d] = s[d].in /\ in[d] \in 0 .. d - 1
  BY <1>1, <1>2 DEF Shape
<1>4. PICK S : S = {d \in 0 .. n : /\ PathIn(s, d) \subseteq 0 .. n /\ d \in PathIn(s, d) /\ 0 \in PathIn(s, d)
                                  /\ ScopeOfIn(s, d) \in 0 .. n /\ ScopeOfIn(s, d) \in PathIn(s, d)}
  OBVIOUS
<1>5. 0 \in S
  <2>1. PathIn(s, 0) = {0} /\ ScopeOfIn(s, 0) = 0
    BY PathFacts, ScopeFacts
  <2> QED BY <1>4, <2>1
<1>6. ASSUME NEW d \in 1 .. n, in[d] \in S PROVE d \in S
  <2>1. /\ PathIn(s, in[d]) \subseteq 0 .. n /\ in[d] \in PathIn(s, in[d]) /\ 0 \in PathIn(s, in[d])
        /\ ScopeOfIn(s, in[d]) \in 0 .. n /\ ScopeOfIn(s, in[d]) \in PathIn(s, in[d])
    BY <1>4, <1>6
  <2>2. PathIn(s, d) = {d} \cup PathIn(s, in[d])
    BY <1>1, <1>3, PathFacts
  <2>3. ScopeOfIn(s, d) = IF s[d].kind = "linkage" THEN ScopeOfIn(s, in[d]) ELSE d
    BY <1>1, <1>3, ScopeFacts
  <2>4. d \in 0 .. n
    OBVIOUS
  <2>5. PathIn(s, d) \subseteq 0 .. n /\ d \in PathIn(s, d) /\ 0 \in PathIn(s, d)
    BY <2>1, <2>2, <2>4
  <2>6. ScopeOfIn(s, d) \in 0 .. n /\ ScopeOfIn(s, d) \in PathIn(s, d)
    BY <2>1, <2>2, <2>3, <2>4
  <2> QED BY <1>4, <2>4, <2>5, <2>6
<1>7. \A d \in 0 .. n : d \in S
  <2>1. Tree(n, in)
    BY <1>3 DEF Tree
  <2> QED BY <1>5, <1>6, <2>1, TreeInduction
<1> QED BY <1>1, <1>4, <1>7

(***************************************************************************)
(* The declarations of a source: what C++ accepts where it is written.     *)
(***************************************************************************)
KindIn(s, d) == IF d = 0 THEN "unit" ELSE s[d].kind

\* As InExternC, of source s.
ExternIn(s, d) == \E e \in PathIn(s, d) \ {0} : s[e].kind = "linkage" /\ s[e].c

\* Declaration d is in the scope of context c, in block b if that is a function.
Together(s, d, c, b) ==
  ScopeIn(s, d) = ScopeOfIn(s, c) /\ (KindIn(s, ScopeOfIn(s, c)) = "function" => s[d].block = b)

\* Declarations of a scope share no name, but for functions and instances of a
\* template; one namespace of a scope has no name, and unnamed enums have
\* different enumerators.
Apart(x, y) ==
  /\ \A n \in {x.ident, x.alias} \cap {y.ident, y.alias} :
       \/ n = "" \/ x.kind = "function" \/ y.kind = "function"
       \/ x.kind = "instance" /\ y.kind = "instance" /\ x.args # y.args
  /\ x.kind = "namespace" /\ y.kind = "namespace" => x.ident # "" \/ y.ident # ""
  /\ x.kind = "enum" /\ y.kind = "enum" /\ x.ident = "" /\ y.ident = "" => x.first = "none" \/ x.first # y.first

\* A context holds declarations; an instance once it is complete.
Holds(s, c) ==
  /\ KindIn(s, c) \in Spaces \cup Classes \cup {"function"}
  /\ KindIn(s, c) = "instance" => s[c].dtor

\* An instance is not local to a function, and has a name; an enum has no alias;
\* an anonymous struct or union is a record.
Formed(s, x) ==
  /\ x.kind = "instance" => x.ident # "" /\ \A e \in PathIn(s, x.in) : KindIn(s, e) # "function"
  /\ x.kind = "enum" => x.alias = ""
  /\ x.member => x.kind = "record"

\* One function for the linker: C functions with different names.
OneLinker(x, y) == x.kind = "function" /\ y.kind = "function" => x.ident # y.ident

\* x can be declared after s.
Fits(s, x) ==
  /\ x \in DeclType /\ x.in \in 0 .. Len(s)
  /\ Holds(s, x.in) /\ Formed(s, x)
  /\ \A d \in DOMAIN s : Together(s, d, x.in, x.block) => Apart(s[d], x)
  /\ \A d \in DOMAIN s : ExternIn(s, d) /\ ExternIn(s, x.in) => OneLinker(s[d], x)

\* What later steps keep of a declaration.
Kept(x, y) ==
  /\ y.kind = x.kind /\ y.in = x.in /\ y.block = x.block /\ y.ident = x.ident /\ y.alias = x.alias
  /\ y.args = x.args /\ y.member = x.member /\ y.c = x.c /\ (x.dtor => y.dtor) /\ (x.kind = "enum" => y.first = x.first)

\* Source t is s with declarations changed as later steps may, and at most one more.
Grows(s, t) ==
  /\ t \in Seq(DeclType) /\ Len(s) <= Len(t) /\ Len(t) <= Len(s) + 1
  /\ \A d \in DOMAIN s : Kept(s[d], t[d])
  /\ Len(t) = Len(s) + 1 => Fits(s, t[Len(t)])

\* Every declaration is in a context that holds declarations, and well formed.
Contained(s) == \A d \in DOMAIN s : Holds(s, s[d].in) /\ Formed(s, s[d])

\* The declarations of a scope are apart.
ScopesApart(s) == \A d, e \in DOMAIN s : d < e /\ Together(s, d, s[e].in, s[e].block) => Apart(s[d], s[e])

\* Functions of extern "C" are different functions for the linker.
LinkersApart(s) ==
  \A d, e \in DOMAIN s : d < e /\ ExternIn(s, d) /\ ExternIn(s, e) => OneLinker(s[d], s[e])

\* The inductive invariant.
Sound(s) == Shape(s) /\ Contained(s) /\ ScopesApart(s) /\ LinkersApart(s)

\* What a source that grows keeps.
LEMMA GrowsFacts ==
  ASSUME NEW s, NEW t, Shape(s), Grows(s, t)
  PROVE  /\ Shape(t) /\ Longer(s, t)
         /\ DOMAIN s \subseteq DOMAIN t
         /\ \A d \in DOMAIN t : d \in DOMAIN s \/ (d = Len(s) + 1 /\ Fits(s, t[d]))
<1>1. PICK n \in Nat : n = Len(s) /\ DOMAIN s = 1 .. n
  BY DEF Shape
<1>2. PICK m \in Nat : m = Len(t) /\ DOMAIN t = 1 .. m /\ n <= m /\ m <= n + 1
  BY <1>1 DEF Grows
<1>3. \A d \in DOMAIN t : d \in DOMAIN s \/ (d = n + 1 /\ Fits(s, t[d]))
  <2>1. SUFFICES ASSUME NEW d \in 1 .. m, d \notin 1 .. n PROVE d = n + 1 /\ Fits(s, t[d])
    BY <1>1, <1>2
  <2>2. d = n + 1 /\ m = n + 1
    BY <1>2, <2>1
  <2> QED BY <1>1, <1>2, <2>2 DEF Grows
<1>4. ASSUME NEW d \in DOMAIN t PROVE t[d].in \in 0 .. d - 1
  <2>1. CASE d \in DOMAIN s
    BY <2>1 DEF Grows, Kept, Shape
  <2>2. CASE d = n + 1 /\ Fits(s, t[d])
    BY <1>1, <2>2 DEF Fits
  <2> QED BY <1>3, <2>1, <2>2
<1>5. Shape(t)
  BY <1>4 DEF Shape, Grows
<1>6. Longer(s, t)
  BY DEF Longer, Grows, Kept
<1>7. DOMAIN s \subseteq DOMAIN t
  BY <1>1, <1>2
<1> QED BY <1>1, <1>3, <1>5, <1>6, <1>7

\* Kinds and paths stay, for the contexts of s.
LEMMA GrowsKinds ==
  ASSUME NEW s, NEW t, Shape(s), Grows(s, t), NEW d \in 0 .. Len(s)
  PROVE  /\ KindIn(t, d) = KindIn(s, d)
         /\ PathIn(t, d) = PathIn(s, d) /\ PathIn(s, d) \subseteq 0 .. Len(s)
         /\ ScopeOfIn(t, d) = ScopeOfIn(s, d) /\ ScopeOfIn(s, d) \in 0 .. Len(s)
         /\ ExternIn(t, d) <=> ExternIn(s, d)
         /\ Holds(s, d) => Holds(t, d)
<1>1. Shape(t) /\ Longer(s, t)
  BY GrowsFacts
<1>2. PathIn(t, d) = PathIn(s, d) /\ ScopeOfIn(t, d) = ScopeOfIn(s, d)
  BY <1>1, LongerKeeps
<1>3. PathIn(s, d) \subseteq 0 .. Len(s) /\ ScopeOfIn(s, d) \in 0 .. Len(s)
  BY ContextsIn
<1>4. ASSUME NEW e \in 0 .. Len(s), e # 0 PROVE e \in DOMAIN s /\ Kept(s[e], t[e])
  <2>1. e \in DOMAIN s
    BY <1>4 DEF Shape
  <2> QED BY <2>1 DEF Grows
<1>5. \A e \in PathIn(s, d) \ {0} : t[e].kind = s[e].kind /\ t[e].c = s[e].c
  BY <1>3, <1>4 DEF Kept
<1>6. ExternIn(t, d) <=> ExternIn(s, d)
  BY <1>2, <1>5 DEF ExternIn
<1>7. KindIn(t, d) = KindIn(s, d)
  BY <1>4 DEF KindIn, Kept
<1>8. Holds(s, d) => Holds(t, d)
  BY <1>4, <1>7 DEF Holds, KindIn, Kept
<1> QED BY <1>2, <1>3, <1>6, <1>7, <1>8

\* Growing keeps declarations in contexts that hold them.
LEMMA ContainedGrows ==
  ASSUME NEW s, NEW t, Sound(s), Grows(s, t)
  PROVE  Contained(t)
<1>1. Shape(s) /\ Contained(s)
  BY DEF Sound
<1>2. SUFFICES ASSUME NEW d \in DOMAIN t PROVE Holds(t, t[d].in) /\ Formed(t, t[d])
  BY DEF Contained
<1>3. PICK x : x = t[d] /\ x.in \in 0 .. Len(s) /\ Holds(s, x.in) /\ Formed(s, x)
  <2>1. CASE d \in DOMAIN s
    <3>1. Kept(s[d], t[d])
      BY <2>1 DEF Grows
    <3>2. s[d].in \in 0 .. Len(s)
      BY <1>1, <2>1 DEF Shape
    <3>3. Holds(s, s[d].in) /\ Formed(s, s[d])
      BY <1>1, <2>1 DEF Contained
    <3>4. Formed(s, t[d])
      BY <3>1, <3>3 DEF Formed, Kept
    <3> QED BY <3>1, <3>2, <3>3, <3>4 DEF Kept
  <2>2. CASE d = Len(s) + 1 /\ Fits(s, t[d])
    BY <2>2 DEF Fits
  <2> QED BY <1>1, <2>1, <2>2, GrowsFacts
<1>4. Holds(t, x.in) /\ PathIn(t, x.in) = PathIn(s, x.in) /\ PathIn(s, x.in) \subseteq 0 .. Len(s)
  BY <1>1, <1>3, GrowsKinds
<1>5. \A e \in PathIn(s, x.in) : KindIn(t, e) = KindIn(s, e)
  BY <1>1, <1>4, GrowsKinds
<1>6. Formed(t, x)
  BY <1>3, <1>4, <1>5 DEF Formed
<1> QED BY <1>3, <1>4, <1>6

\* What two declarations have in common stays.
LEMMA TogetherGrows ==
  ASSUME NEW s, NEW t, Shape(s), Grows(s, t), NEW d \in DOMAIN s, NEW c \in 0 .. Len(s), NEW b
  PROVE  Together(t, d, c, b) <=> Together(s, d, c, b)
<1>1. Shape(t) /\ Longer(s, t)
  BY GrowsFacts
<1>2. ScopeIn(t, d) = ScopeIn(s, d)
  BY <1>1, LongerKeeps
<1>3. PICK p : p = ScopeOfIn(s, c) /\ ScopeOfIn(t, c) = p /\ p \in 0 .. Len(s)
  BY GrowsKinds
<1>4. KindIn(t, p) = KindIn(s, p)
  BY <1>3, GrowsKinds
<1>5. t[d].block = s[d].block
  BY DEF Grows, Kept
<1> QED BY <1>2, <1>3, <1>4, <1>5 DEF Together

\* Growing keeps the declarations of a scope apart.
LEMMA ScopesGrow ==
  ASSUME NEW s, NEW t, Sound(s), Grows(s, t)
  PROVE  ScopesApart(t)
<1>1. Shape(s) /\ ScopesApart(s)
  BY DEF Sound
<1>2. PICK n \in Nat : n = Len(s) /\ DOMAIN s = 1 .. n
  BY <1>1 DEF Shape
<1>3. SUFFICES ASSUME NEW d \in DOMAIN t, NEW e \in DOMAIN t, d < e, Together(t, d, t[e].in, t[e].block)
               PROVE  Apart(t[d], t[e])
  BY DEF ScopesApart
<1>4. \A x \in DOMAIN t : x \in DOMAIN s \/ (x = n + 1 /\ Fits(s, t[x]))
  BY <1>1, <1>2, GrowsFacts
<1>5. DOMAIN t \subseteq Nat
  BY DEF Grows
<1>6. d \in DOMAIN s
  BY <1>2, <1>3, <1>4, <1>5
<1>7. Kept(s[d], t[d])
  BY <1>6 DEF Grows
<1>8. CASE e \in DOMAIN s
  <2>1. Kept(s[e], t[e])
    BY <1>8 DEF Grows
  <2>2. s[e].in \in 0 .. Len(s)
    BY <1>1, <1>8 DEF Shape
  <2>3. PICK c, b : c \in 0 .. Len(s) /\ c = t[e].in /\ b = t[e].block /\ c = s[e].in /\ b = s[e].block
    BY <2>1, <2>2 DEF Kept
  <2>4. Together(s, d, c, b)
    BY <1>1, <1>3, <1>6, <2>3, TogetherGrows
  <2>5. Apart(s[d], s[e])
    BY <1>1, <1>3, <1>6, <1>8, <2>3, <2>4 DEF ScopesApart
  <2> QED BY <1>7, <2>1, <2>5 DEF Apart, Kept
<1>9. CASE e = n + 1 /\ Fits(s, t[e])
  <2>1. PICK c, b : c \in 0 .. Len(s) /\ c = t[e].in /\ b = t[e].block
    BY <1>9 DEF Fits
  <2>2. Together(s, d, c, b)
    BY <1>1, <1>3, <1>6, <2>1, TogetherGrows
  <2>3. Apart(s[d], t[e])
    BY <1>6, <1>9, <2>1, <2>2 DEF Fits
  <2> QED BY <1>7, <2>3 DEF Apart, Kept
<1> QED BY <1>4, <1>8, <1>9

\* Growing keeps functions of extern "C" apart.
LEMMA LinkersGrow ==
  ASSUME NEW s, NEW t, Sound(s), Grows(s, t)
  PROVE  LinkersApart(t)
<1>1. Shape(s) /\ LinkersApart(s)
  BY DEF Sound
<1>2. PICK n \in Nat : n = Len(s) /\ DOMAIN s = 1 .. n
  BY <1>1 DEF Shape
<1>3. SUFFICES ASSUME NEW d \in DOMAIN t, NEW e \in DOMAIN t, d < e, ExternIn(t, d), ExternIn(t, e)
               PROVE  OneLinker(t[d], t[e])
  BY DEF LinkersApart
<1>4. \A x \in DOMAIN t : x \in DOMAIN s \/ (x = n + 1 /\ Fits(s, t[x]))
  BY <1>1, <1>2, GrowsFacts
<1>5. DOMAIN t \subseteq Nat
  BY DEF Grows
<1>6. d \in DOMAIN s
  BY <1>2, <1>3, <1>4, <1>5
<1>7. Kept(s[d], t[d]) /\ ExternIn(s, d)
  <2>1. d \in 0 .. Len(s)
    BY <1>2, <1>6
  <2> QED BY <1>1, <1>3, <1>6, <2>1, GrowsKinds DEF Grows
<1>8. CASE e \in DOMAIN s
  <2>1. Kept(s[e], t[e])
    BY <1>8 DEF Grows
  <2>2. e \in 0 .. Len(s)
    BY <1>2, <1>8
  <2>3. ExternIn(s, e)
    BY <1>1, <1>3, <2>2, GrowsKinds
  <2>4. OneLinker(s[d], s[e])
    BY <1>1, <1>3, <1>6, <1>7, <1>8, <2>3 DEF LinkersApart
  <2> QED BY <1>7, <2>1, <2>4 DEF OneLinker, Kept
<1>9. CASE e = n + 1 /\ Fits(s, t[e])
  <2>1. PICK c \in 0 .. Len(s) : c = t[e].in
    BY <1>9 DEF Fits
  <2>2. Shape(t)
    BY <1>1, GrowsFacts
  <2>3. PathIn(t, e) = {e} \cup PathIn(t, c)
    BY <2>1, <2>2, PathFacts
  <2>4. CASE t[e].kind = "function"
    <3>1. ExternIn(t, c)
      BY <1>3, <2>3, <2>4 DEF ExternIn
    <3>2. ExternIn(s, c)
      BY <1>1, <2>1, <3>1, GrowsKinds
    <3>3. OneLinker(s[d], t[e])
      BY <1>6, <1>7, <1>9, <2>1, <3>2 DEF Fits
    <3> QED BY <1>7, <3>3 DEF OneLinker, Kept
  <2>5. CASE t[e].kind # "function"
    BY <2>5 DEF OneLinker
  <2> QED BY <2>4, <2>5
<1> QED BY <1>4, <1>8, <1>9

\* Growing keeps the invariant.
LEMMA SoundGrows ==
  ASSUME NEW s, NEW t, Sound(s), Grows(s, t)
  PROVE  Sound(t)
<1>1. Shape(t)
  BY GrowsFacts DEF Sound
<1> QED BY <1>1, ContainedGrows, ScopesGrow, LinkersGrow DEF Sound

\* The operators of the model, at a source.
LEMMA Operators ==
  /\ \A d : KindOf(d) = KindIn(decls, d) /\ (InExternC(d) <=> ExternIn(decls, d))
  /\ \A c, b : Beside(c, b) = {d \in DOMAIN decls : Together(decls, d, c, b)}
<1>1. \A d : KindOf(d) = KindIn(decls, d)
  BY DEF KindOf, KindIn
<1>2. ASSUME NEW d PROVE InExternC(d) <=> ExternIn(decls, d)
  <2>1. Path(d) = PathIn(decls, d)
    BY InState
  <2> QED BY <2>1 DEF InExternC, ExternIn
<1>3. ASSUME NEW c, NEW b PROVE Beside(c, b) = {d \in DOMAIN decls : Together(decls, d, c, b)}
  <2>1. ScopeOf(c) = ScopeOfIn(decls, c) /\ \A d : Scope(d) = ScopeIn(decls, d)
    BY InState
  <2> QED BY <1>1, <2>1 DEF Beside, Together
<1> QED BY <1>1, <1>2, <1>3

\* The contexts are the translation unit and the declarations.
LEMMA ContextFacts ==
  ASSUME Shape(decls), NEW c \in Contexts
  PROVE  /\ c \in Nat /\ c \in 0 .. Len(decls) /\ decls \in Seq(DeclType)
         /\ c # 0 => c \in DOMAIN decls /\ decls[c] \in DeclType /\ KindOf(c) = decls[c].kind
         /\ c = 0 => KindOf(c) = "unit"
<1>1. decls \in Seq(DeclType) /\ c \in 0 .. Len(decls) /\ Len(decls) \in Nat
  BY DEF Contexts, Shape
<1> QED BY <1>1 DEF KindOf

\* A sequence with one more element.
LEMMA AppendFacts ==
  ASSUME NEW S, NEW q \in Seq(S), NEW x \in S
  PROVE  /\ Append(q, x) \in Seq(S) /\ Len(Append(q, x)) = Len(q) + 1 /\ Append(q, x)[Len(q) + 1] = x
         /\ \A d \in 1 .. Len(q) : Append(q, x)[d] = q[d]
OBVIOUS

\* Declaring what fits makes the source grow.
LEMMA DeclareGrows ==
  ASSUME Shape(decls), NEW x, Declare(x), Fits(decls, x)
  PROVE  Grows(decls, decls')
<1>1. x \in DeclType /\ decls \in Seq(DeclType) /\ decls' = Append(decls, x)
  BY DEF Fits, Declare, Shape
<1>2. /\ decls' \in Seq(DeclType) /\ Len(decls') = Len(decls) + 1 /\ decls'[Len(decls) + 1] = x
      /\ \A d \in DOMAIN decls : decls'[d] = decls[d]
      /\ Len(decls) \in Nat
  BY <1>1
<1>3. Fits(decls, decls'[Len(decls')])
  BY <1>2
<1>4. \A d \in DOMAIN decls : Kept(decls[d], decls'[d])
  BY <1>2 DEF Kept
<1> QED BY <1>2, <1>3, <1>4 DEF Grows

\* Fits, for a declaration x of context c that shares no name with another.
LEMMA FitsAnonymous ==
  ASSUME Shape(decls), NEW c \in Contexts, NEW x \in DeclType, x.in = c, Holds(decls, c),
         x.kind \in {"namespace", "linkage", "record"}, x.kind = "namespace" => x.ident # "", x.member => x.kind = "record",
         \A d \in Beside(c, x.block) : {decls[d].ident, decls[d].alias} \cap {x.ident, x.alias} \subseteq {""}
  PROVE  Fits(decls, x)
<1>1. Formed(decls, x)
  BY DEF Formed
<1>2. \A d \in DOMAIN decls : Together(decls, d, x.in, x.block) => Apart(decls[d], x)
  BY Operators DEF Apart
<1>3. \A d \in DOMAIN decls : OneLinker(decls[d], x)
  BY DEF OneLinker
<1> QED BY <1>1, <1>2, <1>3 DEF Fits, Contexts

\* DeclareNamespace makes the source grow.
LEMMA NamespaceGrows ==
  ASSUME Shape(decls), NEW c \in Contexts, DeclareNamespace(c)
  PROVE  Grows(decls, decls')
<1>1. PICK n \in Idents \cup {""} :
        /\ IF n = "" THEN \A d \in Beside(c, "") : decls[d].kind = "namespace" => decls[d].ident # ""
           ELSE n \notin TypeNames(c, "")
        /\ Declare([New("namespace", c) EXCEPT !.ident = n])
  BY DEF DeclareNamespace
<1>2. PICK x : x = [New("namespace", c) EXCEPT !.ident = n]
  OBVIOUS
<1>3. c \in Nat
  BY ContextFacts
<1>4. x \in DeclType /\ x.kind = "namespace" /\ ~x.member /\ x.in = c /\ x.ident = n /\ x.alias = "" /\ x.block = ""
  BY <1>2, <1>3 DEF New, DeclType
<1>5. Holds(decls, c)
  BY Operators DEF DeclareNamespace, Holds, Spaces
<1>6. Formed(decls, x)
  BY <1>4 DEF Formed
<1>7. ASSUME NEW d \in DOMAIN decls, Together(decls, d, c, "") PROVE Apart(decls[d], x)
  <2>1. d \in Beside(c, "")
    BY <1>7, Operators
  <2>2. CASE n = ""
    BY <1>1, <1>4, <2>1, <2>2 DEF Apart
  <2>3. CASE n # ""
    <3>1. n # decls[d].ident /\ n # decls[d].alias
      BY <1>1, <2>1, <2>3 DEF TypeNames
    <3> QED BY <1>4, <2>3, <3>1 DEF Apart
  <2> QED BY <2>2, <2>3
<1>8. \A d \in DOMAIN decls : OneLinker(decls[d], x)
  BY <1>4 DEF OneLinker
<1>9. Fits(decls, x)
  BY <1>4, <1>5, <1>6, <1>7, <1>8 DEF Fits, Contexts
<1> QED BY <1>1, <1>2, <1>9, DeclareGrows

\* DeclareLinkage makes the source grow.
LEMMA LinkageGrows ==
  ASSUME Shape(decls), NEW c \in Contexts, DeclareLinkage(c)
  PROVE  Grows(decls, decls')
<1>1. PICK b \in BOOLEAN : Declare([New("linkage", c) EXCEPT !.c = b])
  BY DEF DeclareLinkage
<1>2. PICK x : x = [New("linkage", c) EXCEPT !.c = b]
  OBVIOUS
<1>3. c \in Nat
  BY ContextFacts
<1>4. x \in DeclType /\ x.kind = "linkage" /\ ~x.member /\ x.in = c /\ x.ident = "" /\ x.alias = "" /\ x.block = ""
  BY <1>2, <1>3 DEF New, DeclType
<1>5. Holds(decls, c)
  BY Operators DEF DeclareLinkage, Holds, Spaces
<1>6. Fits(decls, x)
  BY <1>4, <1>5, FitsAnonymous
<1> QED BY <1>1, <1>2, <1>6, DeclareGrows

\* A context that holds types holds declarations.
LEMMA HoldsTypesHolds ==
  ASSUME NEW c \in Contexts, HoldsTypes(c) \/ KindOf(c) \in Spaces \/ Open(c)
  PROVE  Holds(decls, c) /\ BlocksOf(c) \subseteq Blocks \cup {""}
<1>1. KindOf(c) = KindIn(decls, c)
  BY Operators
<1>2. KindOf(c) \in Spaces \cup {"function"} \/ Open(c)
  BY DEF HoldsTypes
<1> QED BY <1>1, <1>2 DEF Holds, Open, Spaces, Classes, BlocksOf

\* DeclareRecord makes the source grow.
LEMMA RecordGrows ==
  ASSUME Shape(decls), NEW c \in Contexts, DeclareRecord(c)
  PROVE  Grows(decls, decls')
<1>1. PICK b \in BlocksOf(c) :
         \/ \E n \in Idents \ TypeNames(c, b) : Declare([New("record", c) EXCEPT !.ident = n, !.block = b])
         \/ \E n \in Idents \ TypeNames(c, b) : Declare([New("record", c) EXCEPT !.alias = n, !.block = b])
         \/ Declare([New("record", c) EXCEPT !.block = b])
  BY DEF DeclareRecord
<1>2. c \in Nat /\ b \in Blocks \cup {""} /\ Holds(decls, c)
  <2>1. HoldsTypes(c)
    BY DEF DeclareRecord
  <2> QED BY <2>1, ContextFacts, HoldsTypesHolds
<1> DEFINE Ready(x) ==
      /\ x \in DeclType /\ x.kind = "record" /\ x.in = c /\ x.block = b
      /\ {x.ident, x.alias} \cap TypeNames(c, b) \subseteq {""}
<1>3. ASSUME NEW x, Declare(x), Ready(x) PROVE Grows(decls, decls')
  <2>1. \A d \in Beside(c, b) : {decls[d].ident, decls[d].alias} \cap {x.ident, x.alias} \subseteq {""}
    BY <1>3 DEF TypeNames
  <2>2. Fits(decls, x)
    BY <1>2, <1>3, <2>1, FitsAnonymous
  <2> QED BY <1>3, <2>2, DeclareGrows
<1>4. ASSUME NEW n \in Idents \ TypeNames(c, b), Declare([New("record", c) EXCEPT !.ident = n, !.block = b])
      PROVE  Grows(decls, decls')
  <2>1. PICK x : x = [New("record", c) EXCEPT !.ident = n, !.block = b]
    OBVIOUS
  <2>2. x.ident = n /\ x.alias = "" /\ x \in DeclType /\ x.kind = "record" /\ x.in = c /\ x.block = b
    BY <1>2, <2>1 DEF New, DeclType, Types
  <2> QED BY <1>3, <1>4, <2>1, <2>2
<1>5. ASSUME NEW n \in Idents \ TypeNames(c, b), Declare([New("record", c) EXCEPT !.alias = n, !.block = b])
      PROVE  Grows(decls, decls')
  <2>1. PICK x : x = [New("record", c) EXCEPT !.alias = n, !.block = b]
    OBVIOUS
  <2>2. x.ident = "" /\ x.alias = n /\ x \in DeclType /\ x.kind = "record" /\ x.in = c /\ x.block = b
    BY <1>2, <2>1 DEF New, DeclType, Types
  <2> QED BY <1>3, <1>5, <2>1, <2>2
<1>6. ASSUME Declare([New("record", c) EXCEPT !.block = b])
      PROVE  Grows(decls, decls')
  <2>1. PICK x : x = [New("record", c) EXCEPT !.block = b]
    OBVIOUS
  <2>2. x.ident = "" /\ x.alias = "" /\ x \in DeclType /\ x.kind = "record" /\ x.in = c /\ x.block = b
    BY <1>2, <2>1 DEF New, DeclType, Types
  <2> QED BY <1>3, <1>6, <2>1, <2>2
<1> QED BY <1>1, <1>4, <1>5, <1>6

\* DeclareEnum makes the source grow.
LEMMA EnumGrows ==
  ASSUME Shape(decls), NEW c \in Contexts, DeclareEnum(c)
  PROVE  Grows(decls, decls')
<1>1. PICK b \in BlocksOf(c), f \in Idents \cup {"none"} :
       \/ \E n \in Idents \ TypeNames(c, b) : Declare([New("enum", c) EXCEPT !.ident = n, !.first = f, !.block = b])
       \/ /\ f \notin EnumeratorNames(c, b) \ {"none"}
          /\ Declare([New("enum", c) EXCEPT !.first = f, !.block = b])
  BY DEF DeclareEnum
<1>2. c \in Nat /\ b \in Blocks \cup {""} /\ Holds(decls, c)
  <2>1. HoldsTypes(c)
    BY DEF DeclareEnum
  <2> QED BY <2>1, ContextFacts, HoldsTypesHolds
<1> DEFINE Ready(x) ==
      /\ x \in DeclType /\ x.kind = "enum" /\ ~x.member /\ x.in = c /\ x.block = b /\ x.alias = ""
      /\ IF x.ident = "" THEN x.first \notin EnumeratorNames(c, b) \ {"none"} ELSE x.ident \notin TypeNames(c, b)
<1>3. ASSUME NEW x, Declare(x), Ready(x) PROVE Grows(decls, decls')
  <2>1. Formed(decls, x)
    BY <1>3 DEF Formed
  <2>2. ASSUME NEW d \in DOMAIN decls, Together(decls, d, c, b) PROVE Apart(decls[d], x)
    <3>1. d \in Beside(c, b)
      BY <2>2, Operators
    <3>2. CASE x.ident = ""
      <4>1. decls[d].kind = "enum" => decls[d].first = "none" \/ decls[d].first # x.first
        BY <1>3, <3>1, <3>2 DEF EnumeratorNames
      <4> QED BY <1>3, <3>2, <4>1 DEF Apart
    <3>3. CASE x.ident # ""
      <4>1. x.ident # decls[d].ident /\ x.ident # decls[d].alias
        BY <1>3, <3>1, <3>3 DEF TypeNames
      <4> QED BY <1>3, <3>3, <4>1 DEF Apart
    <3> QED BY <3>2, <3>3
  <2>3. \A d \in DOMAIN decls : OneLinker(decls[d], x)
    BY <1>3 DEF OneLinker
  <2>4. Fits(decls, x)
    BY <1>2, <1>3, <2>1, <2>2, <2>3 DEF Fits, Contexts
  <2> QED BY <1>3, <2>4, DeclareGrows
<1>4. ASSUME NEW n \in Idents \ TypeNames(c, b),
             Declare([New("enum", c) EXCEPT !.ident = n, !.first = f, !.block = b])
      PROVE  Grows(decls, decls')
  <2>1. PICK x : x = [New("enum", c) EXCEPT !.ident = n, !.first = f, !.block = b]
    OBVIOUS
  <2>2. x.ident = n /\ x.alias = "" /\ x \in DeclType /\ x.kind = "enum" /\ ~x.member /\ x.in = c /\ x.block = b
    BY <1>2, <2>1 DEF New, DeclType, Types
  <2>3. n # ""
    BY ClangPrinterAssumption
  <2> QED BY <1>3, <1>4, <2>1, <2>2, <2>3
<1>5. ASSUME f \notin EnumeratorNames(c, b) \ {"none"}, Declare([New("enum", c) EXCEPT !.first = f, !.block = b])
      PROVE  Grows(decls, decls')
  <2>1. PICK x : x = [New("enum", c) EXCEPT !.first = f, !.block = b]
    OBVIOUS
  <2>2. x.ident = "" /\ x.alias = "" /\ x.first = f /\ x \in DeclType /\ x.kind = "enum" /\ ~x.member /\ x.in = c /\ x.block = b
    BY <1>2, <2>1 DEF New, DeclType, Types
  <2> QED BY <1>3, <1>5, <2>1, <2>2
<1> QED BY <1>1, <1>4, <1>5

\* DeclareInstance makes the source grow.
LEMMA InstanceGrows ==
  ASSUME Shape(decls), NEW c \in Contexts, DeclareInstance(c)
  PROVE  Grows(decls, decls')
<1>1. PICK n \in Idents, a \in Args :
        /\ \A d \in Beside(c, "") :
             n \in {decls[d].ident, decls[d].alias} =>
               decls[d].kind = "function" \/ (decls[d].kind = "instance" /\ decls[d].args # a)
        /\ Declare([New("instance", c) EXCEPT !.ident = n, !.args = a])
  BY DEF DeclareInstance
<1>2. PICK x : x = [New("instance", c) EXCEPT !.ident = n, !.args = a]
  OBVIOUS
<1>3. c \in Nat /\ Holds(decls, c) /\ n # ""
  <2>1. KindOf(c) \in Spaces \/ Open(c)
    BY DEF DeclareInstance
  <2> QED BY <2>1, ContextFacts, HoldsTypesHolds, ClangPrinterAssumption
<1>4. x \in DeclType /\ x.kind = "instance" /\ ~x.member /\ x.in = c /\ x.ident = n /\ x.alias = "" /\ x.block = "" /\ x.args = a
  BY <1>1, <1>2, <1>3 DEF New, DeclType, Types
<1>5. \A e \in PathIn(decls, c) : KindIn(decls, e) # "function"
  <2>1. PathIn(decls, c) = Path(c) /\ \A e : KindIn(decls, e) = KindOf(e)
    BY InState, Operators
  <2> QED BY <2>1 DEF DeclareInstance
<1>6. Formed(decls, x)
  BY <1>3, <1>4, <1>5 DEF Formed
<1>7. ASSUME NEW d \in DOMAIN decls, Together(decls, d, c, "") PROVE Apart(decls[d], x)
  <2>1. d \in Beside(c, "")
    BY <1>7, Operators
  <2> QED BY <1>1, <1>3, <1>4, <2>1 DEF Apart
<1>8. \A d \in DOMAIN decls : OneLinker(decls[d], x)
  BY <1>4 DEF OneLinker
<1>9. Fits(decls, x)
  BY <1>3, <1>4, <1>6, <1>7, <1>8 DEF Fits, Contexts
<1> QED BY <1>1, <1>2, <1>9, DeclareGrows

\* DeclareFunction makes the source grow.
LEMMA FunctionGrows ==
  ASSUME Shape(decls), NEW c \in Contexts, DeclareFunction(c)
  PROVE  Grows(decls, decls')
<1>1. PICK n \in Idents, a \in Args :
        /\ InExternC(c) =>
             \A d \in DOMAIN decls : decls[d].kind = "function" /\ InExternC(d) => decls[d].ident # n
        /\ Declare([New("function", c) EXCEPT !.ident = n, !.args = a])
  BY DEF DeclareFunction
<1>2. PICK x : x = [New("function", c) EXCEPT !.ident = n, !.args = a]
  OBVIOUS
<1>3. c \in Nat /\ Holds(decls, c)
  <2>1. KindOf(c) \in Spaces \/ Open(c)
    BY DEF DeclareFunction
  <2> QED BY <2>1, ContextFacts, HoldsTypesHolds
<1>4. x \in DeclType /\ x.kind = "function" /\ ~x.member /\ x.in = c /\ x.ident = n /\ x.alias = "" /\ x.block = ""
  BY <1>1, <1>2, <1>3 DEF New, DeclType, Types
<1>5. Formed(decls, x)
  BY <1>4 DEF Formed
<1>6. \A d \in DOMAIN decls : Apart(decls[d], x)
  BY <1>4 DEF Apart
<1>7. \A d \in DOMAIN decls : ExternIn(decls, d) /\ ExternIn(decls, x.in) => OneLinker(decls[d], x)
  BY <1>1, <1>4, Operators DEF OneLinker
<1>8. Fits(decls, x)
  BY <1>3, <1>4, <1>5, <1>6, <1>7 DEF Fits, Contexts
<1> QED BY <1>1, <1>2, <1>8, DeclareGrows

\* A class is completed or gets its first field.
LEMMA UpdateGrows ==
  ASSUME Shape(decls), NEW c \in DOMAIN decls, decls[c].kind # "enum", NEW y \in DeclType, Kept(decls[c], y),
         NEW t, t = [decls EXCEPT ![c] = y]
  PROVE  /\ Grows(decls, t) /\ t \in Seq(DeclType) /\ Len(t) = Len(decls)
         /\ \A d \in DOMAIN decls : Kept(decls[d], t[d])
<1>1. decls \in Seq(DeclType)
  BY DEF Shape
<1>2. t \in Seq(DeclType) /\ Len(t) = Len(decls) /\ Len(t) \in Nat
  BY <1>1
<1>3. \A d \in DOMAIN decls : t[d] = IF d = c THEN y ELSE decls[d]
  BY <1>1
<1>4. \A d \in DOMAIN decls : Kept(decls[d], t[d])
  <2>1. \A x : Kept(x, x)
    BY Zenon DEF Kept
  <2> QED BY <1>3, <2>1
<1>5. Grows(decls, t)
  <2>1. PICK n \in Nat : n = Len(decls) /\ Len(t) = n
    BY <1>2
  <2>2. n <= n /\ n <= n + 1 /\ n # n + 1
    OBVIOUS
  <2> QED BY <1>2, <1>4, <2>1, <2>2 DEF Grows
<1> QED BY <1>2, <1>4, <1>5

\* CompleteInstance makes the source grow.
LEMMA CompleteGrows ==
  ASSUME Shape(decls), NEW c \in Contexts, CompleteInstance(c)
  PROVE  Grows(decls, decls')
<1>1. c \in DOMAIN decls /\ decls[c].kind = "instance" /\ decls[c] \in DeclType /\ decls \in Seq(DeclType)
  <2>1. KindOf(c) = "instance"
    BY DEF CompleteInstance
  <2> QED BY <2>1, ContextFacts
<1>2. PICK y : y = [decls[c] EXCEPT !.dtor = TRUE]
  OBVIOUS
<1>3. y \in DeclType /\ Kept(decls[c], y)
  BY <1>1, <1>2 DEF DeclType, Kept
<1>4. decls' = [decls EXCEPT ![c] = y]
  BY <1>1, <1>2 DEF CompleteInstance
<1> QED BY <1>1, <1>3, <1>4, UpdateGrows

\* AddField makes the source grow.
LEMMA FieldGrows ==
  ASSUME Shape(decls), NEW c \in Contexts, AddField(c)
  PROVE  Grows(decls, decls')
<1>1. c \in DOMAIN decls /\ decls[c].kind # "enum" /\ decls[c] \in DeclType /\ decls \in Seq(DeclType)
  <2>1. KindOf(c) \in Classes
    BY DEF AddField, Open
  <2> QED BY <2>1, ContextFacts DEF Classes
<1>2. PICK n \in Idents : decls' = [decls EXCEPT ![c].first = n]
  BY DEF AddField
<1>3. PICK y : y = [decls[c] EXCEPT !.first = n]
  OBVIOUS
<1>4. y \in DeclType /\ Kept(decls[c], y)
  BY <1>1, <1>3 DEF DeclType, Kept
<1>5. decls' = [decls EXCEPT ![c] = y]
  BY <1>1, <1>2, <1>3
<1> QED BY <1>1, <1>4, <1>5, UpdateGrows

\* AddAnonymous makes the source grow.
LEMMA AnonymousGrows ==
  ASSUME Shape(decls), NEW c \in Contexts, AddAnonymous(c)
  PROVE  Grows(decls, decls')
<1>1. c \in DOMAIN decls /\ decls[c].kind # "enum" /\ decls[c] \in DeclType /\ decls \in Seq(DeclType)
  <2>1. KindOf(c) \in Classes
    BY DEF AddAnonymous, Open
  <2> QED BY <2>1, ContextFacts DEF Classes
<1>2. PICK f : f = IF decls[c].first = "none" THEN "" ELSE decls[c].first
  OBVIOUS
<1>3. PICK y : y = [decls[c] EXCEPT !.first = f]
  OBVIOUS
<1>4. y \in DeclType /\ Kept(decls[c], y)
  BY <1>1, <1>2, <1>3 DEF DeclType, Kept
<1>5. PICK t : t = [decls EXCEPT ![c] = y]
  OBVIOUS
<1>6. /\ t \in Seq(DeclType) /\ Len(t) = Len(decls)
      /\ \A d \in DOMAIN decls : Kept(decls[d], t[d])
  BY <1>1, <1>4, <1>5, UpdateGrows
<1>7. PICK x : x = [New("record", c) EXCEPT !.member = TRUE]
  OBVIOUS
<1>8. decls' = Append(t, x)
  BY <1>1, <1>2, <1>3, <1>5, <1>7 DEF AddAnonymous
<1>9. c \in Nat /\ Holds(decls, c)
  <2>1. Open(c)
    BY DEF AddAnonymous
  <2> QED BY <2>1, ContextFacts, HoldsTypesHolds
<1>10. x \in DeclType /\ x.kind = "record" /\ x.in = c /\ x.ident = "" /\ x.alias = "" /\ x.block = ""
  BY <1>7, <1>9 DEF New, DeclType, Types
<1>11. Fits(decls, x)
  BY <1>9, <1>10, FitsAnonymous
<1>12. /\ decls' \in Seq(DeclType) /\ Len(decls') = Len(decls) + 1 /\ decls'[Len(decls')] = x
       /\ \A d \in 1 .. Len(decls) : decls'[d] = t[d]
       /\ Len(decls) \in Nat /\ DOMAIN decls = 1 .. Len(decls)
  <2>1. PICK n \in Nat : n = Len(decls) /\ Len(t) = n /\ DOMAIN decls = 1 .. n /\ DOMAIN t = 1 .. n
    BY <1>1, <1>6
  <2>2. /\ Append(t, x) \in Seq(DeclType) /\ Len(Append(t, x)) = n + 1 /\ Append(t, x)[n + 1] = x
        /\ \A d \in 1 .. n : Append(t, x)[d] = t[d]
    <3>1. PICK u : u = Append(t, x)
      OBVIOUS
    <3>2. u \in Seq(DeclType) /\ Len(u) = Len(t) + 1 /\ u[Len(t) + 1] = x /\ \A d \in 1 .. Len(t) : u[d] = t[d]
      <4>1. x \in DeclType /\ t \in Seq(DeclType)
        BY <1>6, <1>10
      <4> HIDE DEF DeclType
      <4> QED BY <3>1, <4>1, AppendFacts
    <3> QED BY <2>1, <3>1, <3>2
  <2> QED BY <1>8, <2>1, <2>2
<1>13. \A d \in DOMAIN decls : Kept(decls[d], decls'[d])
  BY <1>6, <1>12
<1> QED BY <1>11, <1>12, <1>13 DEF Grows

\* Every source that the actions build is one that C++ accepts as far as names
\* matter: contexts hold what is declared in them, the declarations of a scope
\* have different names, and so have the functions of extern "C".
THEOREM Accepted == Spec => []Sound(decls)
<1>1. Init => Sound(decls)
  <2>1. SUFFICES ASSUME Init PROVE Sound(decls)
    OBVIOUS
  <2>2. decls = <<>> /\ DOMAIN decls = {} /\ decls \in Seq(DeclType)
    BY <2>1 DEF Init
  <2> QED BY <2>2 DEF Sound, Shape, Contained, ScopesApart, LinkersApart
<1>2. Sound(decls) /\ [Next]_decls => Sound(decls)'
  <2>1. SUFFICES ASSUME Sound(decls), Next PROVE Grows(decls, decls')
    BY SoundGrows
  <2>2. Shape(decls)
    BY <2>1 DEF Sound
  <2>3. PICK c \in Contexts :
          \/ DeclareNamespace(c) \/ DeclareLinkage(c) \/ DeclareRecord(c) \/ DeclareEnum(c)
          \/ DeclareInstance(c) \/ CompleteInstance(c) \/ DeclareFunction(c) \/ AddField(c) \/ AddAnonymous(c)
    BY <2>1 DEF Next
  <2> QED BY <2>2, <2>3, NamespaceGrows, LinkageGrows, RecordGrows, EnumGrows, InstanceGrows, CompleteGrows,
             FunctionGrows, FieldGrows, AnonymousGrows
<1> QED BY <1>1, <1>2, PTL DEF Spec

(***************************************************************************)
(* The components of a name, and what printSimpleContext prints.           *)
(***************************************************************************)
Marks == {"_Z", "N", "E", "~<TODO>", "~<empty>", "~<empty-enum>"}

\* What a component is made of.
Parts == Idents \cup Args \cup Nat \cup {"", "none", "(anonymous namespace)", "(anonymous struct)"}

\* The components of type names.
Comp == {<<m>> : m \in Marks} \cup {<<m, p>> : m \in {"id", ".", "~", "mangled", "::", "<>"}, p \in Parts}

\* What a call prints, and the number of components it returns.
Text == [text : Seq(Comp), n : Nat]

\* What the calls for one context print, for every number of components to come.
Texts == [Nat -> Text]

\* Marks are components.
LEMMA MarkIn ==
  ASSUME NEW m \in Marks
  PROVE  <<m>> \in Comp
BY DEF Comp

\* A mark with a part is a component.
LEMMA PartIn ==
  ASSUME NEW m \in {"id", ".", "~", "mangled", "::", "<>"}, NEW p \in Parts
  PROVE  <<m, p>> \in Comp
BY DEF Comp

\* The components of namespaces, records and enums.
LEMMA ComponentsIn ==
  ASSUME NEW x \in DeclType
  PROVE  /\ NamespaceComponent(x) \in Comp
         /\ RecordComponent(x) \in Comp
         /\ EnumComponent(x) \in Comp
<1>1. x.ident \in Parts /\ x.alias \in Parts /\ x.first \in Parts
  BY DEF DeclType, Parts
<1>2. <<"~<TODO>">> \in Comp /\ <<"~<empty>">> \in Comp /\ <<"~<empty-enum>">> \in Comp
  BY MarkIn DEF Marks
<1>3. \A p \in Parts : <<"id", p>> \in Comp /\ <<".", p>> \in Comp /\ <<"~", p>> \in Comp
  BY PartIn
<1>4. NamespaceComponent(x) \in Comp
  BY <1>1, <1>2, <1>3 DEF NamespaceComponent, Id
<1>5. RecordComponent(x) \in Comp
  BY <1>1, <1>2, <1>3 DEF RecordComponent, Id
<1>6. EnumComponent(x) \in Comp
  BY <1>1, <1>2, <1>3 DEF EnumComponent, Id
<1> QED BY <1>4, <1>5, <1>6

\* What Component prints.
LEMMA ComponentType ==
  ASSUME NEW p \in Text, NEW c \in Comp, NEW r \in Nat
  PROVE  /\ Component(p, c, r) \in Text
         /\ Component(p, c, r).n = p.n + 1
         /\ Component(p, c, r).text = p.text \o <<c>> \o (IF r = 0 /\ 0 < p.n THEN <<<<"E">>>> ELSE <<>>)
<1>1. PICK e : e = IF r = 0 /\ 0 < p.n THEN <<<<"E">>>> ELSE <<>>
  OBVIOUS
<1>2. <<"E">> \in Comp
  BY MarkIn DEF Marks
<1>3. e \in Seq(Comp)
  BY <1>1, <1>2
<1>4. p.text \in Seq(Comp) /\ p.n \in Nat
  BY DEF Text
<1>5. p.text \o <<c>> \o e \in Seq(Comp)
  BY <1>3, <1>4
<1>6. Component(p, c, r) = [text |-> p.text \o <<c>> \o e, n |-> p.n + 1]
  BY <1>1 DEF Component, Printed
<1> QED BY <1>1, <1>4, <1>5, <1>6 DEF Text

\* What is printed of an instance and of a function.
LEMMA MangledTexts ==
  ASSUME NEW d \in Nat, NEW r \in Nat
  PROVE  /\ InstanceName(d, r) \in Text /\ InstanceName(d, r).n \in 1 .. 2
         /\ FunctionName(d, r) \in Text /\ FunctionName(d, r).n \in 1 .. 2
<1>1. <<"E">> \in Comp /\ <<"N">> \in Comp /\ <<"_Z">> \in Comp
  BY MarkIn DEF Marks
<1>2. PICK m \in Comp : m = Mangled(d)
  BY PartIn DEF Parts, Mangled
<1>3. PICK e : e = IF r = 0 THEN <<<<"E">>>> ELSE <<>>
  OBVIOUS
<1>4. e \in Seq(Comp)
  BY <1>1, <1>3
<1>5. <<<<"_Z">>, <<"N">>, m>> \o e \in Seq(Comp) /\ <<<<"_Z">>, m>> \in Seq(Comp) /\ <<m>> \o e \in Seq(Comp) /\ <<m>> \in Seq(Comp)
  BY <1>1, <1>4
<1>6. InstanceName(d, r) \in Text /\ InstanceName(d, r).n \in 1 .. 2
  BY <1>2, <1>3, <1>5 DEF InstanceName, Printed, Text
<1>7. FunctionName(d, r) \in Text /\ FunctionName(d, r).n \in 1 .. 2
  BY <1>2, <1>3, <1>5 DEF FunctionName, Printed, Text
<1> QED BY <1>6, <1>7

\* printQualifiedName's contexts.
Qualifiers(e) ==
  LET up[f \in Contexts] == IF f = 0 THEN <<>> ELSE up[decls[f].in] \o Qualifier(f)
  IN up[e]

\* The components that printQualifiedName prints.
QualComp == {<<m, p>> : m \in {"::", "<>"}, p \in Parts}

\* Qualifiers are sequences of those components.
LEMMA QualifierIn ==
  ASSUME Shape(decls), NEW e \in DOMAIN decls
  PROVE  Qualifier(e) \in Seq(QualComp)
<1>1. decls[e] \in DeclType
  BY DEF Shape
<1>2. decls[e].ident \in Parts /\ decls[e].args \in Parts /\ "(anonymous namespace)" \in Parts /\ "(anonymous struct)" \in Parts
  BY <1>1 DEF DeclType, Parts
<1>3. \A p \in Parts : <<"::", p>> \in QualComp /\ <<"<>", p>> \in QualComp
  BY DEF QualComp
<1>4. PICK a \in QualComp, b \in QualComp, c \in QualComp, x \in QualComp :
        a = <<"::", decls[e].ident>> /\ b = <<"<>", decls[e].args>> /\ c = <<"::", "(anonymous namespace)">>
        /\ x = <<"::", "(anonymous struct)">>
  BY <1>2, <1>3
<1>5. Qualifier(e) \in {<<>>, <<a, b>>, <<c>>, <<x>>, <<a>>}
  BY <1>4 DEF Qualifier
<1>6. <<>> \in Seq(QualComp) /\ <<a, b>> \in Seq(QualComp) /\ <<c>> \in Seq(QualComp) /\ <<x>> \in Seq(QualComp)
      /\ <<a>> \in Seq(QualComp)
  OBVIOUS
<1> QED BY <1>5, <1>6

\* The equations of the qualifiers, by recursion along the tree.
LEMMA QualifiersFacts ==
  ASSUME Shape(decls)
  PROVE  /\ Qualifiers(0) = <<>>
         /\ \A d \in DOMAIN decls : Qualifiers(d) = Qualifiers(decls[d].in) \o Qualifier(d)
         /\ \A d \in 0 .. Len(decls) : Qualifiers(d) \in Seq(QualComp)
         /\ \A d \in DOMAIN decls : QualifiedName(d) = Qualifiers(decls[d].in) \o <<<<"::", decls[d].ident>>>>
<1>1. PICK n \in Nat : n = Len(decls) /\ DOMAIN decls = 1 .. n /\ Contexts = 0 .. n
  BY DEF Shape, Contexts
<1>2. PICK in : in = [d \in 1 .. n |-> decls[d].in]
  OBVIOUS
<1>3. \A d \in 1 .. n : in[d] = decls[d].in /\ in[d] \in 0 .. d - 1
  BY <1>1, <1>2 DEF Shape
<1>4. PICK U : U = Seq(QualComp)
  OBVIOUS
<1>5. PICK F : F = [d \in 1 .. n |-> [v \in U |-> v \o Qualifier(d)]]
  OBVIOUS
<1>6. ASSUME NEW d \in 1 .. n, NEW v \in U PROVE F[d][v] = v \o Qualifier(d) /\ F[d][v] \in U
  <2>1. F[d] = [x \in U |-> x \o Qualifier(d)]
    BY <1>5
  <2>2. F[d][v] = v \o Qualifier(d)
    BY <2>1
  <2>3. PICK q \in Seq(QualComp) : q = Qualifier(d)
    BY <1>1, QualifierIn
  <2>4. v \o q \in Seq(QualComp)
    BY <1>4
  <2> QED BY <1>4, <2>2, <2>3, <2>4
<1>7. PICK f : f \in [0 .. n -> U] /\ f[0] = <<>> /\ \A d \in 1 .. n : f[d] = F[d][f[in[d]]]
  <2>1. PICK z : z = <<>> /\ z \in U
    <3>1. <<>> \in Seq(QualComp)
      OBVIOUS
    <3> QED BY <1>4, <3>1
  <2>2. Tree(n, in) /\ Steps(n, U, F)
    BY <1>3, <1>6 DEF Tree, Steps
  <2>3. \E f : Follows(f, n, in, U, z, F)
    BY <2>1, <2>2, TreeRecursion
  <2> QED BY <2>1, <2>3 DEF Follows
<1> DEFINE R(g) == [e \in 0 .. n |-> IF e = 0 THEN <<>> ELSE g[decls[e].in] \o Qualifier(e)]
<1>8. f = R(f)
  <2>1. ASSUME NEW e \in 0 .. n PROVE f[e] = IF e = 0 THEN <<>> ELSE f[decls[e].in] \o Qualifier(e)
    <3>1. CASE e = 0
      BY <1>7, <3>1
    <3>2. CASE e # 0
      <4>1. e \in 1 .. n /\ in[e] \in 0 .. n
        BY <1>3, <3>2
      <4>2. PICK v \in U : v = f[in[e]]
        BY <1>7, <4>1
      <4>3. f[e] = F[e][v] /\ in[e] = decls[e].in
        BY <1>3, <1>7, <4>1, <4>2
      <4> QED BY <1>6, <3>2, <4>1, <4>2, <4>3
    <3> QED BY <3>1, <3>2
  <2> QED BY <1>7, <2>1
<1> DEFINE w == CHOOSE g : g = R(g)
<1>9. w = R(w)
  BY <1>8
<1>10. \A d : Qualifiers(d) = w[d]
  BY <1>1 DEF Qualifiers
<1>11. \A d : QualifiedName(d) = w[decls[d].in] \o <<<<"::", decls[d].ident>>>>
  BY <1>1 DEF QualifiedName
<1> HIDE DEF w
<1>12. w[0] = <<>> /\ \A d \in 1 .. n : w[d] = w[decls[d].in] \o Qualifier(d)
  <2>1. ASSUME NEW d \in 0 .. n PROVE w[d] = IF d = 0 THEN <<>> ELSE w[decls[d].in] \o Qualifier(d)
    BY <1>9
  <2>2. 0 \in 0 .. n /\ \A d \in 1 .. n : d \in 0 .. n /\ d # 0
    OBVIOUS
  <2> HIDE DEF R
  <2> QED BY <2>1, <2>2
<1> HIDE DEF R
<1>13. \A d \in 0 .. n : w[d] \in U
  <2>1. PICK S : S = {d \in 0 .. n : w[d] \in U}
    OBVIOUS
  <2>2. 0 \in S
    <3>1. <<>> \in Seq(QualComp)
      OBVIOUS
    <3>2. w[0] \in U /\ 0 \in 0 .. n
      BY <1>4, <1>12, <3>1
    <3> QED BY <2>1, <3>2
  <2>3. ASSUME NEW d \in 1 .. n, in[d] \in S PROVE d \in S
    <3>1. PICK v \in U : v = w[decls[d].in]
      BY <1>3, <2>1, <2>3
    <3>2. v \o Qualifier(d) \in U
      BY <1>6
    <3>3. d \in 0 .. n
      OBVIOUS
    <3> QED BY <1>12, <2>1, <3>1, <3>2, <3>3
  <2>4. Tree(n, in)
    BY <1>3 DEF Tree
  <2>5. \A d \in 0 .. n : d \in S
    BY <2>2, <2>3, <2>4, TreeInduction
  <2> QED BY <2>1, <2>5
<1> QED BY <1>1, <1>4, <1>10, <1>11, <1>12, <1>13

\* A qualified name is a sequence of components.
LEMMA QualifiedNameIn ==
  ASSUME Shape(decls), NEW d \in DOMAIN decls
  PROVE  QualifiedName(d) \in Seq(QualComp) /\ QualifiedName(d) \in Seq(Comp)
<1>1. decls[d].in \in 0 .. Len(decls) /\ decls[d].ident \in Parts
  <2>1. decls[d] \in DeclType /\ decls[d].in \in 0 .. d - 1 /\ d \in 1 .. Len(decls) /\ Len(decls) \in Nat
    BY DEF Shape
  <2>2. decls[d].ident \in Idents \cup {""}
    BY <2>1 DEF DeclType
  <2>3. decls[d].in \in 0 .. Len(decls)
    BY <2>1
  <2>4. decls[d].ident \in Parts
    BY <2>2 DEF Parts
  <2> QED BY <2>3, <2>4
<1>2. PICK q \in Seq(QualComp) : q = Qualifiers(decls[d].in)
  BY <1>1, QualifiersFacts
<1>3. PICK c \in QualComp : c = <<"::", decls[d].ident>>
  <2>1. <<"::", decls[d].ident>> \in QualComp
    BY <1>1 DEF QualComp
  <2> QED BY <2>1
<1>4. q \o <<c>> \in Seq(QualComp)
  OBVIOUS
<1>5. QualifiedName(d) = q \o <<c>>
  <2>1. QualifiedName(d) = Qualifiers(decls[d].in) \o <<<<"::", decls[d].ident>>>>
    BY QualifiersFacts
  <2> QED BY <2>1, <1>2, <1>3
<1>6. QualComp \subseteq Comp
  BY DEF QualComp, Comp
<1>7. q \o <<c>> \in Seq(Comp)
  <2>1. q \in Seq(Comp) /\ c \in Comp
    BY <1>6
  <2> QED BY <2>1
<1> QED BY <1>4, <1>5, <1>7

\* What the call for d prints, by its kind, after the texts g of its context.
Prints(d, g, r) ==
  /\ decls[d].kind \in {"instance", "namespace", "record", "enum", "function", "linkage"}
  /\ decls[d].kind = "instance" /\ decls[d].dtor => InContext(d, g, r) = InstanceName(d, r)
  /\ decls[d].kind = "instance" /\ ~decls[d].dtor => InContext(d, g, r) = Printed(QualifiedName(d), 1)
  /\ decls[d].kind = "namespace" => InContext(d, g, r) = Component(g[r + 1], NamespaceComponent(decls[d]), r)
  /\ decls[d].kind = "record" => InContext(d, g, r) = Component(g[r + 1], RecordComponent(decls[d]), r)
  /\ decls[d].kind = "enum" => InContext(d, g, r) = Component(g[r + 1], EnumComponent(decls[d]), r)
  /\ decls[d].kind = "function" => InContext(d, g, r) = FunctionName(d, r)
  /\ decls[d].kind = "linkage" => InContext(d, g, r) = g[r]

\* What a call prints, one implication per kind of declaration.
LEMMA CallText ==
  ASSUME Shape(decls), NEW d \in DOMAIN decls, NEW g, NEW r
  PROVE  Prints(d, g, r)
<1>1. decls[d].kind \in {"instance", "namespace", "record", "enum", "function", "linkage"}
  <2>1. decls[d] \in DeclType
    BY DEF Shape
  <2> QED BY <2>1 DEF DeclType, Types
<1>2. PICK x, k : x = decls[d] /\ k = x.kind
  OBVIOUS
<1>3. InContext(d, g, r) =
        CASE k = "instance" -> IF x.dtor THEN InstanceName(d, r) ELSE Printed(QualifiedName(d), 1)
          [] k = "namespace" -> Component(g[r + 1], NamespaceComponent(x), r)
          [] k = "record" -> Component(g[r + 1], RecordComponent(x), r)
          [] k = "enum" -> Component(g[r + 1], EnumComponent(x), r)
          [] k = "function" -> FunctionName(d, r)
          [] k = "linkage" -> g[r]
  BY <1>2 DEF InContext, Linkage
<1>4. k = "instance" /\ x.dtor => InContext(d, g, r) = InstanceName(d, r)
  BY <1>3
<1>5. k = "instance" /\ ~x.dtor => InContext(d, g, r) = Printed(QualifiedName(d), 1)
  BY <1>3
<1>6. k = "namespace" => InContext(d, g, r) = Component(g[r + 1], NamespaceComponent(x), r)
  BY <1>3
<1>7. k = "record" => InContext(d, g, r) = Component(g[r + 1], RecordComponent(x), r)
  BY <1>3
<1>8. k = "enum" => InContext(d, g, r) = Component(g[r + 1], EnumComponent(x), r)
  BY <1>3
<1>9. k = "function" => InContext(d, g, r) = FunctionName(d, r)
  BY <1>3
<1>10. k = "linkage" => InContext(d, g, r) = g[r]
  BY <1>3
<1> QED BY <1>1, <1>2, <1>4, <1>5, <1>6, <1>7, <1>8, <1>9, <1>10 DEF Prints

\* Every call prints components and counts them.
LEMMA CallType ==
  ASSUME Shape(decls), NEW d \in DOMAIN decls, NEW g \in Texts, NEW r \in Nat
  PROVE  InContext(d, g, r) \in Text
<1>1. Prints(d, g, r)
  BY CallText
<1>2. decls[d] \in DeclType /\ d \in Nat
  BY DEF Shape
<1>3. PICK p \in Text : p = g[r + 1]
  BY DEF Texts
<1>4. PICK k : k = decls[d].kind
  OBVIOUS
<1>5. CASE k = "instance" /\ decls[d].dtor
  <2>1. InstanceName(d, r) \in Text
    BY <1>2, MangledTexts
  <2> QED BY <1>1, <1>4, <1>5, <2>1 DEF Prints
<1>6. CASE k = "instance" /\ ~decls[d].dtor
  <2>1. PICK q \in Seq(Comp) : q = QualifiedName(d)
    BY QualifiedNameIn
  <2>2. Printed(q, 1) \in Text
    BY DEF Printed, Text
  <2> QED BY <1>1, <1>4, <1>6, <2>1, <2>2 DEF Prints
<1>7. PICK a \in Comp, b \in Comp, c \in Comp :
        a = NamespaceComponent(decls[d]) /\ b = RecordComponent(decls[d]) /\ c = EnumComponent(decls[d])
  BY <1>2, ComponentsIn
<1>8. Component(p, a, r) \in Text /\ Component(p, b, r) \in Text /\ Component(p, c, r) \in Text
  BY ComponentType
<1>9. CASE k \in {"namespace", "record", "enum"}
  BY <1>1, <1>3, <1>4, <1>7, <1>8, <1>9 DEF Prints
<1>10. CASE k = "function"
  <2>1. FunctionName(d, r) \in Text
    BY <1>2, MangledTexts
  <2> QED BY <1>1, <1>4, <1>10, <2>1 DEF Prints
<1>11. CASE k = "linkage"
  <2>1. g[r] \in Text
    BY DEF Texts
  <2> QED BY <1>1, <1>4, <1>11, <2>1 DEF Prints
<1>12. k \in {"instance", "namespace", "record", "enum", "function", "linkage"}
  BY <1>1, <1>4 DEF Prints
<1> QED BY <1>5, <1>6, <1>9, <1>10, <1>11, <1>12

\* So does the call for the translation unit.
LEMMA UnitType == Unit \in Texts
<1>1. ASSUME NEW r \in Nat PROVE Printed(IF 1 < r THEN <<<<"_Z">>, <<"N">>>> ELSE <<<<"_Z">>>>, 0) \in Text
  <2>1. <<"_Z">> \in Comp /\ <<"N">> \in Comp
    BY MarkIn DEF Marks
  <2>2. PICK q : q = IF 1 < r THEN <<<<"_Z">>, <<"N">>>> ELSE <<<<"_Z">>>>
    OBVIOUS
  <2>3. q \in Seq(Comp)
    BY <2>1, <2>2
  <2> QED BY <2>2, <2>3 DEF Printed, Text
<1> QED BY <1>1 DEF Unit, Texts

\* The calls for d.
Calls(d, g) == [remaining \in Nat |-> InContext(d, g, remaining)]

\* The calls, context by context.
LEMMA CtxFacts ==
  ASSUME Shape(decls)
  PROVE  /\ ctx[0] = Unit
         /\ \A d \in DOMAIN decls : ctx[d] = Calls(d, ctx[decls[d].in])
         /\ \A d \in 0 .. Len(decls) : ctx[d] \in Texts
<1>1. PICK n \in Nat : n = Len(decls) /\ DOMAIN decls = 1 .. n /\ Contexts = 0 .. n
  BY DEF Shape, Contexts
<1>2. PICK in : in = [d \in 1 .. n |-> decls[d].in]
  OBVIOUS
<1>3. \A d \in 1 .. n : in[d] = decls[d].in /\ in[d] \in 0 .. d - 1
  BY <1>1, <1>2 DEF Shape
<1>5. PICK F : F = [d \in 1 .. n |-> [v \in Texts |-> Calls(d, v)]]
  OBVIOUS
<1>6. ASSUME NEW d \in 1 .. n, NEW v \in Texts PROVE F[d][v] = Calls(d, v) /\ F[d][v] \in Texts
  <2>1. F[d] = [x \in Texts |-> Calls(d, x)]
    BY <1>5
  <2>2. F[d][v] = Calls(d, v)
    BY <2>1
  <2>3. Calls(d, v) \in Texts
    <3>1. \A r \in Nat : InContext(d, v, r) \in Text
      BY <1>1, CallType
    <3> QED BY <3>1 DEF Calls, Texts
  <2> QED BY <2>2, <2>3
<1>7. PICK f : f \in [0 .. n -> Texts] /\ f[0] = Unit /\ \A d \in 1 .. n : f[d] = F[d][f[in[d]]]
  <2>1. Tree(n, in) /\ Steps(n, Texts, F)
    BY <1>3, <1>6 DEF Tree, Steps
  <2>2. \E f : Follows(f, n, in, Texts, Unit, F)
    BY <2>1, UnitType, TreeRecursion
  <2> QED BY <2>2 DEF Follows
<1> DEFINE R(g) == [d \in 0 .. n |-> IF d = 0 THEN Unit ELSE Calls(d, g[decls[d].in])]
<1>8. f = R(f)
  <2>1. ASSUME NEW e \in 0 .. n PROVE f[e] = IF e = 0 THEN Unit ELSE Calls(e, f[decls[e].in])
    <3>1. CASE e = 0
      BY <1>7, <3>1
    <3>2. CASE e # 0
      <4>1. e \in 1 .. n /\ in[e] \in 0 .. n
        BY <1>3, <3>2
      <4>2. PICK v \in Texts : v = f[in[e]]
        BY <1>7, <4>1
      <4>3. f[e] = F[e][v] /\ in[e] = decls[e].in
        BY <1>3, <1>7, <4>1, <4>2
      <4> QED BY <1>6, <3>2, <4>1, <4>2, <4>3
    <3> QED BY <3>1, <3>2
  <2> QED BY <1>7, <2>1
<1> DEFINE w == CHOOSE g : g = R(g)
<1>9. w = R(w)
  BY <1>8
<1>10. ctx = w
  BY <1>1 DEF ctx, Calls
<1> HIDE DEF w
<1>12. w[0] = Unit /\ \A d \in 1 .. n : w[d] = Calls(d, w[decls[d].in])
  <2>1. ASSUME NEW d \in 0 .. n PROVE w[d] = IF d = 0 THEN Unit ELSE Calls(d, w[decls[d].in])
    BY <1>9
  <2>2. 0 \in 0 .. n /\ \A d \in 1 .. n : d \in 0 .. n /\ d # 0
    OBVIOUS
  <2> HIDE DEF R
  <2> QED BY <2>1, <2>2
<1> HIDE DEF R
<1>13. \A d \in 0 .. n : w[d] \in Texts
  <2>1. PICK S : S = {d \in 0 .. n : w[d] \in Texts}
    OBVIOUS
  <2>2. 0 \in S
    <3>1. w[0] \in Texts /\ 0 \in 0 .. n
      BY <1>12, UnitType
    <3> QED BY <2>1, <3>1
  <2>3. ASSUME NEW d \in 1 .. n, in[d] \in S PROVE d \in S
    <3>1. PICK v \in Texts : v = w[decls[d].in]
      BY <1>3, <2>1, <2>3
    <3>2. Calls(d, v) \in Texts
      BY <1>6
    <3>3. d \in 0 .. n
      OBVIOUS
    <3> QED BY <1>12, <2>1, <3>1, <3>2, <3>3
  <2>4. Tree(n, in)
    BY <1>3 DEF Tree
  <2>5. \A d \in 0 .. n : d \in S
    BY <2>2, <2>3, <2>4, TreeInduction
  <2> QED BY <2>1, <2>5
<1> QED BY <1>1, <1>10, <1>12, <1>13

\* What is printed of a context, from what is printed of its own context.
LEMMA CtxPrints ==
  ASSUME Shape(decls), NEW d \in DOMAIN decls, NEW r \in Nat
  PROVE  \E g \in Texts : /\ g = ctx[decls[d].in] /\ ctx[d][r] = InContext(d, g, r) /\ Prints(d, g, r)
                          /\ ctx[d][r] \in Text
<1>1. decls[d].in \in 0 .. Len(decls) /\ d \in 0 .. Len(decls)
  <2>1. decls[d].in \in 0 .. d - 1 /\ d \in 1 .. Len(decls) /\ Len(decls) \in Nat
    BY DEF Shape
  <2> QED BY <2>1
<1>2. PICK g \in Texts : g = ctx[decls[d].in]
  BY <1>1, CtxFacts
<1>3. ctx[d] = Calls(d, g) /\ ctx[d] \in Texts
  BY <1>1, <1>2, CtxFacts
<1>4. ctx[d][r] = InContext(d, g, r)
  BY <1>3 DEF Calls
<1>5. ctx[d][r] \in Text
  BY <1>3 DEF Texts
<1> QED BY <1>2, <1>4, <1>5, CallText

\* printSimpleContext counts no more components than there are contexts.
LEMMA CountBound ==
  ASSUME Shape(decls)
  PROVE  \A d \in 0 .. Len(decls) : \A r \in Nat : ctx[d][r].n \in 0 .. d + 1
<1>1. PICK n \in Nat : n = Len(decls) /\ DOMAIN decls = 1 .. n
  BY DEF Shape
<1>2. PICK in : in = [d \in 1 .. n |-> decls[d].in]
  OBVIOUS
<1>3. \A d \in 1 .. n : in[d] = decls[d].in /\ in[d] \in 0 .. d - 1
  BY <1>1, <1>2 DEF Shape
<1>4. PICK S : S = {d \in 0 .. n : \A r \in Nat : ctx[d][r].n \in 0 .. d + 1}
  OBVIOUS
<1>5. 0 \in S
  <2>1. \A r \in Nat : ctx[0][r].n = 0
    BY CtxFacts DEF Unit, Printed
  <2>2. 0 \in 0 .. n /\ 0 \in 0 .. 0 + 1
    OBVIOUS
  <2> QED BY <1>4, <2>1, <2>2
<1>6. ASSUME NEW d \in 1 .. n, in[d] \in S PROVE d \in S
  <2>1. SUFFICES ASSUME NEW r \in Nat PROVE ctx[d][r].n \in 0 .. d + 1
    BY <1>4, <2>1
  <2>2. PICK g \in Texts : /\ g = ctx[decls[d].in] /\ ctx[d][r] = InContext(d, g, r) /\ Prints(d, g, r)
                           /\ ctx[d][r] \in Text
    BY <1>1, CtxPrints
  <2>3. \A q \in Nat : g[q] \in Text /\ g[q].n \in 0 .. in[d] + 1
    BY <1>3, <1>4, <1>6, <2>2 DEF Texts
  <2>4. PICK p \in Text : p = g[r + 1] /\ p.n \in 0 .. in[d] + 1
    BY <2>3
  <2>5. decls[d] \in DeclType /\ in[d] \in 0 .. d - 1 /\ d \in Nat
    BY <1>1, <1>3 DEF Shape
  <2>6. PICK a \in Comp, b \in Comp, c \in Comp :
        a = NamespaceComponent(decls[d]) /\ b = RecordComponent(decls[d]) /\ c = EnumComponent(decls[d])
    BY <2>5, ComponentsIn
  <2>7. Component(p, a, r).n = p.n + 1 /\ Component(p, b, r).n = p.n + 1 /\ Component(p, c, r).n = p.n + 1
    BY ComponentType
  <2>8. p.n + 1 \in 0 .. d + 1
    BY <2>4, <2>5
  <2>9. InstanceName(d, r).n \in 1 .. 2 /\ FunctionName(d, r).n \in 1 .. 2
    BY <2>5, MangledTexts
  <2>10. \A k \in 1 .. 2 : k \in 0 .. d + 1
    OBVIOUS
  <2>11. Printed(QualifiedName(d), 1).n = 1
    BY DEF Printed
  <2>12. g[r].n \in 0 .. d + 1
    <3>1. g[r].n \in 0 .. in[d] + 1
      BY <2>3
    <3> QED BY <2>5, <3>1
  <2>13. PICK k : k = decls[d].kind
    OBVIOUS
  <2>14. CASE k \in {"namespace", "record", "enum"}
    BY <2>2, <2>4, <2>6, <2>7, <2>8, <2>13, <2>14 DEF Prints
  <2>15. CASE k \in {"instance", "function"}
    <3>1. ctx[d][r].n \in 1 .. 2
      BY <2>2, <2>9, <2>11, <2>13, <2>15 DEF Prints
    <3> QED BY <2>10, <3>1
  <2>16. CASE k = "linkage"
    BY <2>2, <2>12, <2>13, <2>16 DEF Prints
  <2> QED BY <2>2, <2>13, <2>14, <2>15, <2>16 DEF Prints
<1>7. \A d \in 0 .. n : d \in S
  <2>1. Tree(n, in)
    BY <1>3 DEF Tree
  <2> QED BY <1>5, <1>6, <2>1, TreeInduction
<1> QED BY <1>1, <1>4, <1>7

\* The invariant implies TypeOK.
LEMMA SoundTypes ==
  ASSUME Sound(decls)
  PROVE  TypeOK
<1>1. Shape(decls)
  BY DEF Sound
<1>2. SUFFICES ASSUME NEW d \in DOMAIN decls
      PROVE /\ decls[d].kind \in Types \cup {"namespace", "linkage", "function"}
            /\ decls[d].in \in 0 .. d - 1 /\ decls[d].block \in Blocks \cup {""} /\ decls[d].args \in Args \cup {""}
            /\ decls[d].ident \in Idents \cup {""} /\ decls[d].alias \in Idents \cup {""}
            /\ decls[d].first \in Idents \cup {"", "none"}
            /\ decls[d].kind \in Types => printSimpleContext(d).n \in 1 .. Len(decls) + 1
            /\ decls[d].member \in BOOLEAN /\ decls[d].dtor \in BOOLEAN /\ decls[d].c \in BOOLEAN
  BY DEF TypeOK
<1>3. decls[d] \in DeclType /\ decls[d].in \in 0 .. d - 1 /\ d \in 1 .. Len(decls) /\ Len(decls) \in Nat
  BY <1>1 DEF Shape
<1>4. ASSUME decls[d].kind \in Types PROVE printSimpleContext(d).n \in 1 .. Len(decls) + 1
  <2>1. PICK g \in Texts : /\ g = ctx[decls[d].in] /\ ctx[d][0] = InContext(d, g, 0) /\ Prints(d, g, 0)
                           /\ ctx[d][0] \in Text
    BY <1>1, CtxPrints
  <2>2. d \in 0 .. Len(decls)
    BY <1>3
  <2>3. ctx[d][0].n \in 0 .. d + 1
    BY <1>1, <2>2, CountBound
  <2>4. ctx[d][0].n \in 0 .. Len(decls) + 1
    BY <1>3, <2>3
  <2>5. ctx[d][0].n # 0
    <3>1. PICK p \in Text : p = g[0 + 1] /\ p.n \in Nat
      BY DEF Texts, Text
    <3>2. PICK b \in Comp, c \in Comp : b = RecordComponent(decls[d]) /\ c = EnumComponent(decls[d])
      BY <1>3, ComponentsIn
    <3>3. Component(p, b, 0).n = p.n + 1 /\ Component(p, c, 0).n = p.n + 1
      BY ComponentType
    <3>4. InstanceName(d, 0).n \in 1 .. 2
      BY <1>3, MangledTexts
    <3>5. Printed(QualifiedName(d), 1).n = 1
      BY DEF Printed
    <3>6. CASE decls[d].kind \in {"record", "enum"}
      BY <2>1, <3>1, <3>2, <3>3, <3>6 DEF Prints
    <3>7. CASE decls[d].kind = "instance"
      BY <2>1, <3>4, <3>5, <3>7 DEF Prints
    <3> QED BY <1>4, <3>6, <3>7 DEF Types
  <2> QED BY <2>4, <2>5 DEF printSimpleContext
<1> QED BY <1>3, <1>4 DEF DeclType

\* Declarations have their types, and printSimpleContext returns between one and
\* as many components as the source can have for the name of any type.
THEOREM NamesCounted == Spec => []TypeOK
<1>1. Sound(decls) => TypeOK
  BY SoundTypes
<1> QED BY <1>1, Accepted, PTL

(***************************************************************************)
(* The N and the E of a nested name.                                       *)
(***************************************************************************)
Places(q, t) == {i \in DOMAIN q : q[i] = t}

\* t is b times in q: once, or not at all.
Once(q, t, b) == IF b = 1 THEN \E k : Places(q, t) = {k} ELSE Places(q, t) = {}

\* An element that stands in one place is counted once.
LEMMA OnceCount ==
  ASSUME NEW q, NEW t, NEW b \in {0, 1}, Once(q, t, b)
  PROVE  Count(q, t) = b
<1>1. CASE b = 1
  <2>1. PICK k : Places(q, t) = {k}
    BY <1>1 DEF Once
  <2>2. Cardinality({k}) = 1
    BY FS_Singleton
  <2> QED BY <1>1, <2>1, <2>2 DEF Count, Places
<1>2. CASE b = 0
  <2>1. Places(q, t) = {}
    BY <1>2 DEF Once
  <2>2. Cardinality({}) = 0
    BY FS_EmptySet
  <2> QED BY <1>2, <2>1, <2>2 DEF Count, Places
<1> QED BY <1>1, <1>2

\* Appending another element leaves it in one place.
LEMMA OnceAppend ==
  ASSUME NEW q \in Seq(Comp), NEW c \in Comp, NEW t, NEW b \in {0, 1}, Once(q, t, b), c = t => b = 0
  PROVE  /\ c = t => Once(Append(q, c), t, 1)
         /\ c # t => Once(Append(q, c), t, b)
<1>1. PICK n \in Nat : n = Len(q) /\ DOMAIN q = 1 .. n
  OBVIOUS
<1>2. PICK u : u = Append(q, c)
  OBVIOUS
<1>3. DOMAIN u = 1 .. n + 1 /\ u[n + 1] = c /\ \A i \in 1 .. n : u[i] = q[i]
  BY <1>1, <1>2
<1>4. CASE c = t
  <2>1. Places(q, t) = {}
    BY <1>4 DEF Once
  <2>2. Places(u, t) = {n + 1}
    BY <1>1, <1>3, <1>4, <2>1 DEF Places
  <2> QED BY <1>2, <1>4, <2>2 DEF Once
<1>5. CASE c # t
  <2>1. Places(u, t) = Places(q, t)
    BY <1>1, <1>3, <1>5 DEF Places
  <2> QED BY <1>2, <1>5, <2>1 DEF Once
<1> QED BY <1>4, <1>5

\* None of the components of a context is the N or the E of a nested name.
LEMMA NotEnds ==
  ASSUME NEW x
  PROVE  /\ NamespaceComponent(x) # <<"N">> /\ NamespaceComponent(x) # <<"E">>
         /\ RecordComponent(x) # <<"N">> /\ RecordComponent(x) # <<"E">>
         /\ EnumComponent(x) # <<"N">> /\ EnumComponent(x) # <<"E">>
         /\ Mangled(x) # <<"N">> /\ Mangled(x) # <<"E">>
<1>1. NamespaceComponent(x) # <<"N">> /\ NamespaceComponent(x) # <<"E">>
  BY DEF NamespaceComponent, Id
<1>2. RecordComponent(x) # <<"N">> /\ RecordComponent(x) # <<"E">>
  BY DEF RecordComponent, Id
<1>3. EnumComponent(x) # <<"N">> /\ EnumComponent(x) # <<"E">>
  BY DEF EnumComponent, Id
<1>4. Mangled(x) # <<"N">> /\ Mangled(x) # <<"E">>
  BY DEF Mangled
<1> QED BY <1>1, <1>2, <1>3, <1>4

\* The N is printed when more than one component is, the E by the innermost call.
Ends(p, r) ==
  /\ Once(p.text, <<"N">>, IF r + p.n > 1 THEN 1 ELSE 0)
  /\ Once(p.text, <<"E">>, IF r = 0 /\ p.n > 1 THEN 1 ELSE 0)

\* A component keeps a name balanced: the innermost call prints the E.
LEMMA ComponentEnds ==
  ASSUME NEW p \in Text, NEW c \in Comp, c # <<"N">>, c # <<"E">>, NEW r \in Nat, Ends(p, r + 1)
  PROVE  Ends(Component(p, c, r), r)
<1>1. p.text \in Seq(Comp) /\ p.n \in Nat
  BY DEF Text
<1>2. PICK q \in Seq(Comp), m \in Nat : q = p.text /\ m = p.n
  BY <1>1
<1>3. PICK a \in {0, 1} : a = IF r + 1 + m > 1 THEN 1 ELSE 0
  OBVIOUS
<1>4. Once(q, <<"N">>, a) /\ Once(q, <<"E">>, 0)
  <2>1. ~(r + 1 = 0)
    OBVIOUS
  <2>2. Once(q, <<"N">>, IF r + 1 + m > 1 THEN 1 ELSE 0) /\ Once(q, <<"E">>, IF r + 1 = 0 /\ m > 1 THEN 1 ELSE 0)
    BY <1>2 DEF Ends
  <2> QED BY <1>3, <2>1, <2>2
<1>5. PICK u : u = Append(q, c)
  OBVIOUS
<1>6. u \in Seq(Comp) /\ Once(u, <<"N">>, a) /\ Once(u, <<"E">>, 0)
  <2>1. u \in Seq(Comp)
    BY <1>5
  <2> QED BY <1>4, <1>5, <2>1, OnceAppend
<1>7. Component(p, c, r).n = m + 1 /\ a = IF r + (m + 1) > 1 THEN 1 ELSE 0
  <2>1. Component(p, c, r).n = p.n + 1
    BY ComponentType
  <2>2. r + 1 + m = r + (m + 1)
    OBVIOUS
  <2> QED BY <1>2, <1>3, <2>1, <2>2
<1>8. CASE r = 0 /\ 0 < m
  <2>1. Component(p, c, r).text = q \o <<c>> \o <<<<"E">>>>
    BY <1>2, <1>8, ComponentType
  <2>2. <<"E">> \in Comp
    BY MarkIn DEF Marks
  <2>3. PICK e \in Comp : e = <<"E">> /\ e # <<"N">>
    BY <2>2
  <2>4. q \o <<c>> \o <<e>> = Append(u, e)
    BY <1>5
  <2>5. Once(Append(u, e), <<"N">>, a)
    BY <1>6, <2>3, OnceAppend
  <2>6. Once(Append(u, e), <<"E">>, 1)
    BY <1>6, <2>3, OnceAppend
  <2>7. r = 0 /\ m + 1 > 1
    BY <1>8
  <2>8. Component(p, c, r).text = Append(u, e)
    BY <2>1, <2>3, <2>4
  <2> QED BY <1>7, <2>5, <2>6, <2>7, <2>8 DEF Ends
<1>9. CASE ~(r = 0 /\ 0 < m)
  <2>1. Component(p, c, r).text = q \o <<c>> \o <<>>
    BY <1>2, <1>9, ComponentType
  <2>2. q \o <<c>> \o <<>> = u
    BY <1>5
  <2>3. ~(r = 0 /\ m + 1 > 1)
    BY <1>9
  <2> QED BY <1>6, <1>7, <2>1, <2>2, <2>3 DEF Ends
<1> QED BY <1>8, <1>9

\* The mangled name of an instance is balanced.
LEMMA InstanceEnds ==
  ASSUME Shape(decls), NEW d \in DOMAIN decls, NEW r \in Nat
  PROVE  Ends(InstanceName(d, r), r)
<1>1. PICK m \in Comp : m = Mangled(d) /\ m # <<"N">> /\ m # <<"E">>
  <2>1. d \in Parts
    <3>1. d \in Nat
      BY DEF Shape
    <3> QED BY <3>1 DEF Parts
  <2>2. Mangled(d) \in Comp
    BY <2>1, PartIn DEF Mangled
  <2> QED BY <2>2, NotEnds
<1>2. PICK z, n, e : z = <<"_Z">> /\ n = <<"N">> /\ e = <<"E">> /\ z # n /\ z # e /\ n # e
  <2>1. <<"_Z">> # <<"N">> /\ <<"_Z">> # <<"E">> /\ <<"N">> # <<"E">>
    OBVIOUS
  <2> QED BY <2>1
<1>3. decls[d].in \in Nat
  <2>1. decls[d].in \in 0 .. d - 1
    BY DEF Shape
  <2> QED BY <2>1
<1>4. CASE (decls[d].in # 0 \/ 0 < r) /\ r = 0
  <2>1. InstanceName(d, r).text = <<z, n, m>> \o <<e>> /\ InstanceName(d, r).n = 2
    BY <1>1, <1>2, <1>4 DEF InstanceName, Printed
  <2>2. z \in Comp /\ n \in Comp /\ e \in Comp
    BY <1>2, MarkIn DEF Marks
  <2>3. <<z, n, m>> \in Seq(Comp)
    BY <2>2
  <2>4. PICK q \in Seq(Comp) : q = <<z, n, m>>
    BY <2>3
  <2>5. Places(q, n) = {2} /\ Places(q, e) = {}
    <3>1. DOMAIN q = 1 .. 3 /\ q[1] = z /\ q[2] = n /\ q[3] = m
      BY <2>4
    <3> QED BY <1>1, <1>2, <3>1 DEF Places
  <2>6. Once(q, n, 1) /\ Once(q, e, 0)
    <3>1. Once(q, n, 1)
      BY <2>5 DEF Once
    <3>2. Once(q, e, 0)
      BY <2>5 DEF Once
    <3> QED BY <3>1, <3>2
  <2>7. Once(Append(q, e), n, 1) /\ Once(Append(q, e), e, 1)
    <3>1. PICK t : t = n /\ Once(q, t, 1) /\ e # t
      BY <1>2, <2>6
    <3>2. Once(Append(q, e), t, 1)
      BY <2>2, <3>1, OnceAppend
    <3>3. PICK y : y = e /\ Once(q, y, 0)
      BY <2>6
    <3>4. Once(Append(q, e), y, 1)
      BY <2>2, <3>3, OnceAppend
    <3> QED BY <3>1, <3>2, <3>3, <3>4
  <2>8. q \o <<e>> = Append(q, e)
    BY <2>2
  <2>9. InstanceName(d, r).text = Append(q, e)
    BY <2>1, <2>4, <2>8
  <2>10. r = 0 /\ r + 2 > 1 /\ 2 > 1
    BY <1>4
  <2> QED BY <1>2, <2>1, <2>7, <2>9, <2>10 DEF Ends
<1>5. CASE (decls[d].in # 0 \/ 0 < r) /\ r # 0
  <2>1. InstanceName(d, r).text = <<z, n, m>> \o <<>> /\ InstanceName(d, r).n = 2
    BY <1>1, <1>2, <1>5 DEF InstanceName, Printed
  <2>2. PICK q : q = <<z, n, m>>
    OBVIOUS
  <2>3. Places(q, n) = {2} /\ Places(q, e) = {}
    <3>1. DOMAIN q = 1 .. 3 /\ q[1] = z /\ q[2] = n /\ q[3] = m
      BY <2>2
    <3> QED BY <1>1, <1>2, <3>1 DEF Places
  <2>4. InstanceName(d, r).text = q
    BY <2>1, <2>2
  <2>5. r + 2 > 1
    OBVIOUS
  <2>6. Once(q, n, 1)
    BY <2>3 DEF Once
  <2>7. Once(q, e, 0)
    BY <2>3 DEF Once
  <2> QED BY <1>2, <1>5, <2>1, <2>4, <2>5, <2>6, <2>7 DEF Ends
<1>6. CASE ~(decls[d].in # 0 \/ 0 < r)
  <2>1. InstanceName(d, r).text = <<z, m>> /\ InstanceName(d, r).n = 1 /\ r = 0
    BY <1>1, <1>2, <1>6 DEF InstanceName, Printed
  <2>2. PICK q : q = <<z, m>>
    OBVIOUS
  <2>3. Places(q, n) = {} /\ Places(q, e) = {}
    BY <1>1, <1>2, <2>2 DEF Places
  <2>4. InstanceName(d, r).text = q
    BY <2>1, <2>2
  <2> QED BY <1>2, <2>1, <2>3, <2>4 DEF Ends, Once
<1> QED BY <1>4, <1>5, <1>6

\* Not local to a function, nor in an incomplete instance.
Plain(d) == \A e \in PathIn(decls, d) \ {0} : decls[e].kind # "function" /\ (decls[e].kind = "instance" => decls[e].dtor)

\* So is what is printed of every context outside functions, by induction along
\* the tree.
LEMMA ContextEnds ==
  ASSUME Shape(decls)
  PROVE  \A d \in 0 .. Len(decls) : Plain(d) => \A r \in Nat : Ends(ctx[d][r], r)
<1>1. PICK n \in Nat : n = Len(decls) /\ DOMAIN decls = 1 .. n
  BY DEF Shape
<1>2. PICK in : in = [d \in 1 .. n |-> decls[d].in]
  OBVIOUS
<1>3. \A d \in 1 .. n : in[d] = decls[d].in /\ in[d] \in 0 .. d - 1
  BY <1>1, <1>2 DEF Shape
<1>4. PICK S : S = {d \in 0 .. n : Plain(d) => \A r \in Nat : Ends(ctx[d][r], r)}
  OBVIOUS
<1>5. 0 \in S
  <2>1. ASSUME NEW r \in Nat PROVE Ends(ctx[0][r], r)
    <3>1. PICK z, w, e : z = <<"_Z">> /\ w = <<"N">> /\ e = <<"E">> /\ z # w /\ z # e /\ w # e
      <4>1. <<"_Z">> # <<"N">> /\ <<"_Z">> # <<"E">> /\ <<"N">> # <<"E">>
        OBVIOUS
      <4> QED BY <4>1
    <3>2. ctx[0][r].text = (IF 1 < r THEN <<z, w>> ELSE <<z>>) /\ ctx[0][r].n = 0
      <4>1. ctx[0] = Unit
        BY CtxFacts
      <4>2. Unit[r] = [text |-> IF 1 < r THEN <<<<"_Z">>, <<"N">>>> ELSE <<<<"_Z">>>>, n |-> 0]
        BY DEF Unit, Printed
      <4> QED BY <3>1, <4>1, <4>2
    <3>3. Places(<<z, w>>, w) = {2} /\ Places(<<z>>, w) = {} /\ Places(<<z, w>>, e) = {} /\ Places(<<z>>, e) = {}
      <4>1. PICK p, q : p = <<z, w>> /\ q = <<z>>
        OBVIOUS
      <4>2. DOMAIN p = 1 .. 2 /\ p[1] = z /\ p[2] = w /\ DOMAIN q = 1 .. 1 /\ q[1] = z
        BY <4>1
      <4>3. Places(p, w) = {2} /\ Places(p, e) = {}
        BY <3>1, <4>2 DEF Places
      <4>4. Places(q, w) = {} /\ Places(q, e) = {}
        BY <3>1, <4>2 DEF Places
      <4> QED BY <4>1, <4>3, <4>4
    <3>4. CASE 1 < r
      <4>1. r + 0 > 1 /\ r # 0
        BY <3>4
      <4> QED BY <3>1, <3>2, <3>3, <3>4, <4>1 DEF Ends, Once
    <3>5. CASE ~(1 < r)
      <4>1. ~(r + 0 > 1) /\ ~(0 > 1)
        BY <3>5
      <4> QED BY <3>1, <3>2, <3>3, <3>5, <4>1 DEF Ends, Once
    <3> QED BY <3>4, <3>5
  <2>2. 0 \in 0 .. n
    OBVIOUS
  <2> QED BY <1>4, <2>1, <2>2
<1>6. ASSUME NEW d \in 1 .. n, in[d] \in S PROVE d \in S
  <2>1. SUFFICES ASSUME Plain(d), NEW r \in Nat PROVE Ends(ctx[d][r], r)
    BY <1>4, <2>1
  <2>2. PICK g \in Texts : /\ g = ctx[decls[d].in] /\ ctx[d][r] = InContext(d, g, r) /\ Prints(d, g, r)
                           /\ ctx[d][r] \in Text
    BY <1>1, CtxPrints
  <2>3. PathIn(decls, d) = {d} \cup PathIn(decls, in[d])
    BY <1>1, <1>3, PathFacts
  <2>4. Plain(in[d])
    BY <2>1, <2>3 DEF Plain
  <2>5. \A q \in Nat : Ends(g[q], q)
    BY <1>3, <1>4, <1>6, <2>2, <2>4
  <2>6. decls[d].kind # "function" /\ (decls[d].kind = "instance" => decls[d].dtor)
    BY <2>1, <2>3 DEF Plain
  <2>7. PICK p \in Text : p = g[r + 1] /\ Ends(p, r + 1)
    BY <2>5 DEF Texts
  <2>8. decls[d] \in DeclType
    BY <1>1 DEF Shape
  <2>9. PICK a \in Comp, b \in Comp, c \in Comp :
        /\ a = NamespaceComponent(decls[d]) /\ b = RecordComponent(decls[d]) /\ c = EnumComponent(decls[d])
        /\ a # <<"N">> /\ a # <<"E">> /\ b # <<"N">> /\ b # <<"E">> /\ c # <<"N">> /\ c # <<"E">>
    BY <2>8, ComponentsIn, NotEnds
  <2>10. Ends(Component(p, a, r), r) /\ Ends(Component(p, b, r), r) /\ Ends(Component(p, c, r), r)
    BY <2>7, <2>9, ComponentEnds
  <2>11. Ends(InstanceName(d, r), r)
    BY <1>1, InstanceEnds
  <2>12. Ends(g[r], r)
    BY <2>5
  <2> QED BY <2>2, <2>6, <2>7, <2>9, <2>10, <2>11, <2>12 DEF Prints
<1>7. \A d \in 0 .. n : d \in S
  <2>1. Tree(n, in)
    BY <1>3 DEF Tree
  <2> QED BY <1>5, <1>6, <2>1, TreeInduction
<1> QED BY <1>1, <1>4, <1>7

\* The invariant implies NestedNamesEnd.
LEMMA SoundNested ==
  ASSUME Sound(decls)
  PROVE  NestedNamesEnd
<1>1. Shape(decls)
  BY DEF Sound
<1>2. SUFFICES ASSUME NEW d \in DOMAIN decls, Plain(d)
      PROVE  Count(printTypeName(d), <<"N">>) = Count(printTypeName(d), <<"E">>)
  <2>1. \A d : Path(d) = PathIn(decls, d)
    BY InState
  <2> QED BY <2>1 DEF NestedNamesEnd, Plain
<1>3. d \in 0 .. Len(decls) /\ d \in 1 .. Len(decls)
  BY <1>1 DEF Shape
<1>4. PICK p \in Text : p = ctx[d][0] /\ Ends(p, 0)
  <2>1. ctx[d] \in Texts /\ Ends(ctx[d][0], 0)
    BY <1>1, <1>2, <1>3, CtxFacts, ContextEnds
  <2> QED BY <2>1 DEF Texts
<1>5. PICK b \in {0, 1} : b = IF p.n > 1 THEN 1 ELSE 0
  OBVIOUS
<1>6. Once(p.text, <<"N">>, b) /\ Once(p.text, <<"E">>, b)
  <2>1. p.n \in Nat
    BY DEF Text
  <2>2. 0 + p.n > 1 <=> p.n > 1
    BY <2>1
  <2> QED BY <1>4, <1>5, <2>2 DEF Ends
<1>7. Count(p.text, <<"N">>) = b /\ Count(p.text, <<"E">>) = b
  BY <1>6, OnceCount
<1> QED BY <1>4, <1>7 DEF printTypeName, printSimpleContext

\* The N of a nested name has its E in the name of every type that is not local
\* to a function or in an incomplete instance, however deep its contexts are.
THEOREM NestedNamesEnded == Spec => []NestedNamesEnd
<1>1. Sound(decls) => NestedNamesEnd
  BY SoundNested
<1> QED BY <1>1, Accepted, PTL

(***************************************************************************)
(* Names that are equal.                                                   *)
(***************************************************************************)
\* u is p with one more component, a.
Adds(u, p, a) ==
  /\ u \in Seq(Comp) /\ p \in Seq(Comp) /\ a \in Comp
  /\ Len(u) = Len(p) + 1 /\ u[Len(p) + 1] = a /\ \A i \in 1 .. Len(p) : u[i] = p[i]

\* Append adds a component.
LEMMA AppendAdds ==
  ASSUME NEW p \in Seq(Comp), NEW a \in Comp
  PROVE  Adds(Append(p, a), p, a) /\ Adds(p \o <<a>>, p, a)
<1>1. p \o <<a>> = Append(p, a)
  OBVIOUS
<1>2. /\ Append(p, a) \in Seq(Comp) /\ Len(Append(p, a)) = Len(p) + 1 /\ Append(p, a)[Len(p) + 1] = a
      /\ \A d \in 1 .. Len(p) : Append(p, a)[d] = p[d]
  BY AppendFacts
<1>3. Adds(Append(p, a), p, a)
  BY <1>2 DEF Adds
<1> QED BY <1>1, <1>3

\* What was added, and to what, is determined by the result.
LEMMA AddsEqual ==
  ASSUME NEW u, NEW p, NEW q, NEW a, NEW b, Adds(u, p, a), Adds(u, q, b)
  PROVE  p = q /\ a = b
<1>1. p \in Seq(Comp) /\ q \in Seq(Comp)
  BY DEF Adds
<1>2. PICK n \in Nat, m \in Nat : n = Len(p) /\ m = Len(q)
  BY <1>1
<1>3. Len(u) = n + 1 /\ Len(u) = m + 1 /\ u[n + 1] = a /\ u[m + 1] = b
  BY <1>2 DEF Adds
<1>4. n = m /\ a = b
  BY <1>3
<1>5. (\A i \in 1 .. n : u[i] = p[i]) /\ \A i \in 1 .. n : u[i] = q[i]
  BY <1>2, <1>4 DEF Adds
<1>6. p = q
  <2>1. \A i \in 1 .. n : p[i] = q[i]
    BY <1>5
  <2>2. Len(p) = n /\ Len(q) = n
    BY <1>2, <1>4
  <2> QED BY <1>1, <2>1, <2>2
<1> QED BY <1>4, <1>6

\* The last component of a declaration's name, before the E.
Members == {"namespace", "record", "enum"}

\* The last component of what is printed of d.
Key(d) ==
  IF decls[d].kind = "namespace" THEN NamespaceComponent(decls[d])
  ELSE IF decls[d].kind = "record" THEN RecordComponent(decls[d])
  ELSE IF decls[d].kind = "enum" THEN EnumComponent(decls[d])
  ELSE Mangled(d)

\* u is q with component a, and maybe an E.
Closes(u, q, a) == Adds(u, q, a) \/ \E x : Adds(x, q, a) /\ Adds(u, x, <<"E">>)

\* What is printed of d before its key is q.
Front(d, r, q) ==
  /\ q \in Seq(Comp)
  /\ decls[d].kind # "function" => q # <<>>
  /\ decls[d].kind \in Members => q = ctx[decls[d].in][r + 1].text
  /\ Closes(ctx[d][r].text, q, Key(d))

\* A key is neither a mark of a nested name nor a qualifier, and only what clang
\* mangles has a mangled key.
LEMMA KeyFacts ==
  ASSUME Shape(decls), NEW d \in DOMAIN decls
  PROVE  /\ Key(d) \in Comp
         /\ Key(d) # <<"_Z">> /\ Key(d) # <<"N">> /\ Key(d) # <<"E">> /\ \A x : Key(d) # <<"::", x>>
         /\ decls[d].kind \in Members => \A x : Key(d) # Mangled(x)
         /\ decls[d].kind \notin Members => Key(d) = Mangled(d)
<1>1. decls[d] \in DeclType /\ d \in Nat
  BY DEF Shape
<1>2. PICK x : x = decls[d]
  OBVIOUS
<1>3. Mangled(d) \in Comp
  <2>1. d \in Parts
    BY <1>1 DEF Parts
  <2> QED BY <2>1, PartIn DEF Mangled
<1>4. Key(d) \in Comp
  BY <1>1, <1>3, ComponentsIn DEF Key
<1>5. \A y : /\ Mangled(y) # <<"_Z">> /\ Mangled(y) # <<"N">> /\ Mangled(y) # <<"E">>
             /\ \A z : Mangled(y) # <<"::", z>>
  BY DEF Mangled
<1>6. /\ NamespaceComponent(x) # <<"_Z">> /\ NamespaceComponent(x) # <<"N">> /\ NamespaceComponent(x) # <<"E">>
      /\ \A z : NamespaceComponent(x) # <<"::", z>> /\ NamespaceComponent(x) # <<"mangled", z>>
  BY DEF NamespaceComponent, Id
<1>7. /\ RecordComponent(x) # <<"_Z">> /\ RecordComponent(x) # <<"N">> /\ RecordComponent(x) # <<"E">>
      /\ \A z : RecordComponent(x) # <<"::", z>> /\ RecordComponent(x) # <<"mangled", z>>
  BY DEF RecordComponent, Id
<1>8. /\ EnumComponent(x) # <<"_Z">> /\ EnumComponent(x) # <<"N">> /\ EnumComponent(x) # <<"E">>
      /\ \A z : EnumComponent(x) # <<"::", z>> /\ EnumComponent(x) # <<"mangled", z>>
  BY DEF EnumComponent, Id
<1>9. /\ Key(d) # <<"_Z">> /\ Key(d) # <<"N">> /\ Key(d) # <<"E">> /\ \A z : Key(d) # <<"::", z>>
  BY <1>2, <1>5, <1>6, <1>7, <1>8 DEF Key
<1>10. decls[d].kind \in Members => \A y : Key(d) # Mangled(y)
  BY <1>2, <1>6, <1>7, <1>8 DEF Key, Mangled, Members
<1>11. decls[d].kind \notin Members => Key(d) = Mangled(d)
  BY DEF Key, Members
<1> QED BY <1>4, <1>9, <1>10, <1>11

\* Texts with the same components have the same last key and the same front.
LEMMA FrontEqual ==
  ASSUME NEW u, NEW p, NEW q, NEW a, NEW b, a # <<"E">>, b # <<"E">>, Closes(u, p, a), Closes(u, q, b)
  PROVE  a = b /\ p = q
<1>1. PICK e : e = <<"E">> /\ a # e /\ b # e
  OBVIOUS
<1>2. Adds(u, p, a) \/ \E x : Adds(x, p, a) /\ Adds(u, x, e)
  BY <1>1 DEF Closes
<1>3. Adds(u, q, b) \/ \E x : Adds(x, q, b) /\ Adds(u, x, e)
  BY <1>1 DEF Closes
<1>4. CASE Adds(u, p, a)
  <2>1. Adds(u, q, b)
    BY <1>1, <1>3, <1>4, AddsEqual
  <2> QED BY <1>4, <2>1, AddsEqual
<1>5. CASE \E x : Adds(x, p, a) /\ Adds(u, x, e)
  <2>1. PICK x : Adds(x, p, a) /\ Adds(u, x, e)
    BY <1>5
  <2>2. PICK y : Adds(y, q, b) /\ Adds(u, y, e)
    BY <1>1, <1>3, <2>1, AddsEqual
  <2>3. x = y
    BY <2>1, <2>2, AddsEqual
  <2> QED BY <2>1, <2>2, <2>3, AddsEqual
<1> QED BY <1>2, <1>4, <1>5
\* Nothing is printed of no context.
LEMMA ComponentCloses ==
  ASSUME NEW p \in Text, NEW c \in Comp, NEW r \in Nat
  PROVE  Closes(Component(p, c, r).text, p.text, c)
<1>1. PICK q \in Seq(Comp) : q = p.text
  BY DEF Text
<1>2. PICK u \in Seq(Comp) : u = q \o <<c>> /\ Adds(u, q, c)
  <2>1. q \o <<c>> \in Seq(Comp)
    OBVIOUS
  <2> QED BY <2>1, AppendAdds
<1>3. CASE r = 0 /\ 0 < p.n
  <2>1. Component(p, c, r).text = u \o <<<<"E">>>>
    BY <1>1, <1>2, <1>3, ComponentType
  <2>2. <<"E">> \in Comp
    BY MarkIn DEF Marks
  <2>3. Adds(u \o <<<<"E">>>>, u, <<"E">>)
    BY <2>2, AppendAdds
  <2> QED BY <1>1, <1>2, <2>1, <2>3 DEF Closes
<1>4. CASE ~(r = 0 /\ 0 < p.n)
  <2>1. Component(p, c, r).text = u \o <<>>
    BY <1>1, <1>2, <1>4, ComponentType
  <2>2. u \o <<>> = u
    OBVIOUS
  <2> QED BY <1>1, <1>2, <2>1, <2>2 DEF Closes
<1> QED BY <1>3, <1>4

\* The mangled names close with the mangled key.
LEMMA MangledCloses ==
  ASSUME Shape(decls), NEW d \in DOMAIN decls, NEW r \in Nat
  PROVE  /\ \E q \in Seq(Comp) : q # <<>> /\ Closes(InstanceName(d, r).text, q, Mangled(d))
         /\ \E q \in Seq(Comp) : Closes(FunctionName(d, r).text, q, Mangled(d))
<1>1. PICK m \in Comp : m = Mangled(d)
  <2>1. d \in Parts
    <3>1. d \in Nat
      BY DEF Shape
    <3> QED BY <3>1 DEF Parts
  <2>2. Mangled(d) \in Comp
    BY <2>1, PartIn DEF Mangled
  <2> QED BY <2>2
<1>2. PICK z \in Comp, n \in Comp, e \in Comp : z = <<"_Z">> /\ n = <<"N">> /\ e = <<"E">>
  <2>1. <<"_Z">> \in Comp /\ <<"N">> \in Comp /\ <<"E">> \in Comp
    BY MarkIn DEF Marks
  <2> QED BY <2>1
<1>3. ASSUME NEW q, NEW u, Adds(u, q, m)
      PROVE  Closes(u, q, m) /\ Closes(u \o <<e>>, q, m) /\ Closes(u \o <<>>, q, m)
  <2>1. u \in Seq(Comp)
    BY <1>3 DEF Adds
  <2>2. Adds(u \o <<e>>, u, e) /\ u \o <<>> = u
    BY <2>1, AppendAdds
  <2> QED BY <1>2, <1>3, <2>2 DEF Closes
<1>4. Adds(<<z, n, m>>, <<z, n>>, m) /\ <<z, n>> # <<>>
  <2>1. PICK p, q : p = <<z, n, m>> /\ q = <<z, n>>
    OBVIOUS
  <2>2. p \in Seq(Comp) /\ q \in Seq(Comp) /\ Len(p) = 3 /\ Len(q) = 2 /\ p[1] = z /\ p[2] = n /\ p[3] = m /\ q[1] = z /\ q[2] = n
    BY <2>1
  <2>3. Adds(p, q, m)
    BY <2>2 DEF Adds
  <2> QED BY <2>1, <2>3
<1>5. Adds(<<z, m>>, <<z>>, m) /\ <<z>> # <<>>
  <2>1. PICK p, q : p = <<z, m>> /\ q = <<z>>
    OBVIOUS
  <2>2. p \in Seq(Comp) /\ q \in Seq(Comp) /\ Len(p) = 2 /\ Len(q) = 1 /\ p[1] = z /\ p[2] = m /\ q[1] = z
    BY <2>1
  <2>3. Adds(p, q, m)
    BY <2>2 DEF Adds
  <2> QED BY <2>1, <2>3
<1>6. Adds(<<m>>, <<>>, m)
  <2>1. PICK p, q : p = <<m>> /\ q = <<>>
    OBVIOUS
  <2>2. p \in Seq(Comp) /\ q \in Seq(Comp) /\ Len(p) = 1 /\ Len(q) = 0 /\ p[1] = m
    BY <2>1
  <2>3. Adds(p, q, m)
    BY <2>2 DEF Adds
  <2> QED BY <2>1, <2>3
<1>7. \E q \in Seq(Comp) : q # <<>> /\ Closes(InstanceName(d, r).text, q, m)
  <2>1. \/ InstanceName(d, r).text = <<z, n, m>> \o <<e>>
        \/ InstanceName(d, r).text = <<z, n, m>> \o <<>>
        \/ InstanceName(d, r).text = <<z, m>>
    BY <1>1, <1>2 DEF InstanceName, Printed
  <2>2. <<z, n>> \in Seq(Comp) /\ <<z>> \in Seq(Comp)
    OBVIOUS
  <2>3. Closes(<<z, n, m>> \o <<e>>, <<z, n>>, m) /\ Closes(<<z, n, m>> \o <<>>, <<z, n>>, m) /\ Closes(<<z, m>>, <<z>>, m)
    BY <1>3, <1>4, <1>5
  <2> QED BY <1>4, <1>5, <2>1, <2>2, <2>3
<1>8. \E q \in Seq(Comp) : Closes(FunctionName(d, r).text, q, m)
  <2>1. \/ FunctionName(d, r).text = <<m>> \o <<e>>
        \/ FunctionName(d, r).text = <<m>> \o <<>>
        \/ FunctionName(d, r).text = <<m>>
    BY <1>1, <1>2 DEF FunctionName, Printed
  <2>2. <<>> \in Seq(Comp)
    OBVIOUS
  <2>3. Closes(<<m>> \o <<e>>, <<>>, m) /\ Closes(<<m>> \o <<>>, <<>>, m) /\ Closes(<<m>>, <<>>, m)
    BY <1>3, <1>6
  <2> QED BY <2>1, <2>2, <2>3
<1> QED BY <1>1, <1>7, <1>8

\* A linkage specification prints what its context prints: the scope of a
\* context stands for it.
Stands(e, f) ==
  /\ f \in 0 .. Len(decls) /\ (f # 0 => decls[f].kind # "linkage") /\ f = ScopeOfIn(decls, e)
  /\ ctx[e] = ctx[f] /\ Qualifiers(e) = Qualifiers(f) /\ PathIn(decls, f) \subseteq PathIn(decls, e)
  /\ Holds(decls, e) => Holds(decls, f)
  /\ e # 0 /\ decls[e].kind # "linkage" => f = e

\* The scope of a context stands for it.
LEMMA ScopeStands ==
  ASSUME Sound(decls)
  PROVE  \A e \in 0 .. Len(decls) : Stands(e, ScopeOfIn(decls, e))
<1>1. Shape(decls) /\ Contained(decls)
  BY DEF Sound
<1>2. PICK n \in Nat : n = Len(decls) /\ DOMAIN decls = 1 .. n
  BY <1>1 DEF Shape
<1>3. PICK in : in = [d \in 1 .. n |-> decls[d].in]
  OBVIOUS
<1>4. \A d \in 1 .. n : in[d] = decls[d].in /\ in[d] \in 0 .. d - 1
  BY <1>1, <1>2, <1>3 DEF Shape
<1>5. PICK S : S = {e \in 0 .. n : Stands(e, ScopeOfIn(decls, e))}
  OBVIOUS
<1>6. 0 \in S
  <2>1. ScopeOfIn(decls, 0) = 0 /\ 0 \in 0 .. n
    BY <1>1, ScopeFacts
  <2>2. Stands(0, 0)
    BY <1>2, <2>1 DEF Stands
  <2> QED BY <1>5, <2>1, <2>2
<1>7. ASSUME NEW d \in 1 .. n, in[d] \in S PROVE d \in S
  <2>1. PICK f : f = ScopeOfIn(decls, in[d]) /\ Stands(in[d], f)
    BY <1>5, <1>7
  <2>2. ScopeOfIn(decls, d) = IF decls[d].kind = "linkage" THEN f ELSE d
    BY <1>1, <1>2, <1>4, <2>1, ScopeFacts
  <2>3. d \in 0 .. n /\ d # 0
    OBVIOUS
  <2>4. CASE decls[d].kind = "linkage"
    <3>1. PathIn(decls, f) \subseteq PathIn(decls, d)
      <4>1. PathIn(decls, d) = {d} \cup PathIn(decls, in[d])
        BY <1>1, <1>2, <1>4, PathFacts
      <4> QED BY <2>1, <4>1 DEF Stands
    <3>2. Qualifiers(d) = Qualifiers(f)
      <4>1. Qualifiers(d) = Qualifiers(in[d]) \o Qualifier(d)
        BY <1>1, <1>2, <1>4, QualifiersFacts
      <4>2. Qualifier(d) = <<>>
        BY <2>4 DEF Qualifier
      <4>3. PICK q \in Seq(QualComp) : q = Qualifiers(in[d])
        <5>1. in[d] \in 0 .. n
          BY <1>4
        <5> QED BY <1>1, <1>2, <5>1, QualifiersFacts
      <4>4. q \o <<>> = q
        OBVIOUS
      <4> QED BY <2>1, <4>1, <4>2, <4>3, <4>4 DEF Stands
    <3>3. ctx[d] = ctx[f]
      <4>1. ctx[d] \in Texts /\ ctx[in[d]] \in Texts
        <5>1. in[d] \in 0 .. n
          BY <1>4
        <5> QED BY <1>1, <1>2, <2>3, <5>1, CtxFacts
      <4>2. ASSUME NEW r \in Nat PROVE ctx[d][r] = ctx[in[d]][r]
        <5>1. PICK g \in Texts : /\ g = ctx[decls[d].in] /\ ctx[d][r] = InContext(d, g, r) /\ Prints(d, g, r)
          BY <1>1, <1>2, CtxPrints
        <5> QED BY <1>4, <2>4, <5>1 DEF Prints
      <4>3. ctx[d] = ctx[in[d]]
        BY <4>1, <4>2 DEF Texts
      <4> QED BY <2>1, <4>3 DEF Stands
    <3>4. Holds(decls, f)
      <4>1. Holds(decls, in[d])
        BY <1>1, <1>2, <1>4 DEF Contained
      <4> QED BY <2>1, <4>1 DEF Stands
    <3>5. Stands(d, f)
      BY <1>2, <2>1, <2>2, <2>4, <3>1, <3>2, <3>3, <3>4 DEF Stands
    <3> QED BY <1>5, <2>2, <2>3, <2>4, <3>5
  <2>5. CASE decls[d].kind # "linkage"
    <3>1. Stands(d, d)
      BY <1>2, <2>2, <2>3, <2>5 DEF Stands
    <3> QED BY <1>5, <2>2, <2>3, <2>5, <3>1
  <2> QED BY <2>4, <2>5
<1>8. \A d \in 0 .. n : d \in S
  <2>1. Tree(n, in)
    BY <1>4 DEF Tree
  <2> QED BY <1>6, <1>7, <2>1, TreeInduction
<1> QED BY <1>2, <1>5, <1>8

\* An incomplete instance is named by printQualifiedName.
LEMMA IncompleteText ==
  ASSUME Shape(decls), NEW d \in DOMAIN decls, Incomplete(d), NEW r \in Nat
  PROVE  /\ ctx[d][r].text = QualifiedName(d)
         /\ Adds(QualifiedName(d), Qualifiers(decls[d].in), <<"::", decls[d].ident>>)
<1>1. PICK g \in Texts : /\ g = ctx[decls[d].in] /\ ctx[d][r] = InContext(d, g, r) /\ Prints(d, g, r)
  BY CtxPrints
<1>2. ctx[d][r] = Printed(QualifiedName(d), 1)
  BY <1>1 DEF Prints, Incomplete
<1>3. ctx[d][r].text = QualifiedName(d)
  BY <1>2 DEF Printed
<1>4. decls[d].in \in 0 .. Len(decls) /\ decls[d].ident \in Parts
  <2>1. decls[d] \in DeclType /\ decls[d].in \in 0 .. d - 1 /\ d \in 1 .. Len(decls) /\ Len(decls) \in Nat
    BY DEF Shape
  <2>2. decls[d].ident \in Idents \cup {""}
    BY <2>1 DEF DeclType
  <2>3. decls[d].in \in 0 .. Len(decls)
    BY <2>1
  <2>4. decls[d].ident \in Parts
    BY <2>2 DEF Parts
  <2> QED BY <2>3, <2>4
<1>5. PICK q \in Seq(Comp) : q = Qualifiers(decls[d].in)
  <2>1. QualComp \subseteq Comp
    BY DEF QualComp, Comp
  <2>2. Qualifiers(decls[d].in) \in Seq(QualComp)
    BY <1>4, QualifiersFacts
  <2>3. Qualifiers(decls[d].in) \in Seq(Comp)
    BY <2>1, <2>2
  <2> QED BY <2>3
<1>6. PICK c \in Comp : c = <<"::", decls[d].ident>>
  <2>1. <<"::", decls[d].ident>> \in Comp
    BY <1>4, PartIn
  <2> QED BY <2>1
<1>7. QualifiedName(d) = q \o <<c>>
  <2>1. QualifiedName(d) = Qualifiers(decls[d].in) \o <<<<"::", decls[d].ident>>>>
    BY QualifiersFacts
  <2> QED BY <1>5, <1>6, <2>1
<1>8. Adds(q \o <<c>>, q, c)
  BY AppendAdds
<1> QED BY <1>3, <1>5, <1>6, <1>7, <1>8

\* Every context prints something.
LEMMA TextNotEmpty ==
  ASSUME Shape(decls)
  PROVE  \A d \in 0 .. Len(decls) : \A r \in Nat : ctx[d][r].text # <<>>
<1>1. PICK n \in Nat : n = Len(decls) /\ DOMAIN decls = 1 .. n
  BY DEF Shape
<1>2. PICK in : in = [d \in 1 .. n |-> decls[d].in]
  OBVIOUS
<1>3. \A d \in 1 .. n : in[d] = decls[d].in /\ in[d] \in 0 .. d - 1
  BY <1>1, <1>2 DEF Shape
<1>4. PICK S : S = {d \in 0 .. n : \A r \in Nat : ctx[d][r].text # <<>>}
  OBVIOUS
<1>5. 0 \in S
  <2>1. ASSUME NEW r \in Nat PROVE ctx[0][r].text # <<>>
    <3>1. ctx[0] = Unit
      BY CtxFacts
    <3>2. Unit[r] = [text |-> IF 1 < r THEN <<<<"_Z">>, <<"N">>>> ELSE <<<<"_Z">>>>, n |-> 0]
      BY DEF Unit, Printed
    <3>3. PICK u : u = IF 1 < r THEN <<<<"_Z">>, <<"N">>>> ELSE <<<<"_Z">>>>
      OBVIOUS
    <3>4. u # <<>>
      BY <3>3
    <3> QED BY <3>1, <3>2, <3>3, <3>4
  <2>2. 0 \in 0 .. n
    OBVIOUS
  <2> QED BY <1>4, <2>1, <2>2
<1>6. ASSUME NEW d \in 1 .. n, in[d] \in S PROVE d \in S
  <2>1. SUFFICES ASSUME NEW r \in Nat PROVE ctx[d][r].text # <<>>
    BY <1>4, <2>1
  <2>2. PICK g \in Texts : /\ g = ctx[decls[d].in] /\ ctx[d][r] = InContext(d, g, r) /\ Prints(d, g, r)
    BY <1>1, CtxPrints
  <2>3. PICK p \in Text : p = g[r + 1]
    BY DEF Texts
  <2>4. decls[d] \in DeclType
    BY <1>1 DEF Shape
  <2>5. PICK a \in Comp, b \in Comp, c \in Comp :
        /\ a = NamespaceComponent(decls[d]) /\ b = RecordComponent(decls[d]) /\ c = EnumComponent(decls[d])
    BY <2>4, ComponentsIn
  <2>6. \A u, q, x : Closes(u, q, x) => u # <<>>
    <3>1. \A u, q, x : Adds(u, q, x) => u # <<>>
      <4>1. SUFFICES ASSUME NEW u, NEW q, NEW x, Adds(u, q, x) PROVE u # <<>>
        OBVIOUS
      <4>2. Len(u) = Len(q) + 1 /\ Len(q) \in Nat
        BY <4>1 DEF Adds
      <4>3. Len(u) # 0
        BY <4>2
      <4> QED BY <4>3
    <3> QED BY <3>1 DEF Closes
  <2>7. Closes(Component(p, a, r).text, p.text, a) /\ Closes(Component(p, b, r).text, p.text, b)
        /\ Closes(Component(p, c, r).text, p.text, c)
    BY ComponentCloses
  <2>8. CASE decls[d].kind \in Members
    BY <2>2, <2>3, <2>5, <2>6, <2>7, <2>8 DEF Prints, Members
  <2>9. CASE decls[d].kind = "instance" /\ decls[d].dtor
    BY <1>1, <2>2, <2>6, <2>9, MangledCloses DEF Prints
  <2>10. CASE decls[d].kind = "function"
    BY <1>1, <2>2, <2>6, <2>10, MangledCloses DEF Prints
  <2>11. CASE Incomplete(d)
    <3>1. Closes(ctx[d][r].text, Qualifiers(decls[d].in), <<"::", decls[d].ident>>)
      BY <1>1, <2>11, IncompleteText DEF Closes
    <3> QED BY <2>6, <3>1
  <2>12. CASE decls[d].kind = "linkage"
    BY <1>3, <1>4, <1>6, <2>2, <2>12 DEF Prints
  <2> QED BY <2>2, <2>8, <2>9, <2>10, <2>11, <2>12 DEF Prints, Members, Incomplete
<1>7. \A d \in 0 .. n : d \in S
  <2>1. Tree(n, in)
    BY <1>3 DEF Tree
  <2> QED BY <1>5, <1>6, <2>1, TreeInduction
<1> QED BY <1>1, <1>4, <1>7

\* The key of any other declaration ends its name.
LEMMA FrontExists ==
  ASSUME Shape(decls), NEW d \in DOMAIN decls, decls[d].kind # "linkage", ~Incomplete(d), NEW r \in Nat
  PROVE  \E q : Front(d, r, q)
<1>1. PICK g \in Texts : /\ g = ctx[decls[d].in] /\ ctx[d][r] = InContext(d, g, r) /\ Prints(d, g, r)
  BY CtxPrints
<1>2. PICK p \in Text : p = g[r + 1]
  BY DEF Texts
<1>3. decls[d] \in DeclType
  BY DEF Shape
<1>4. p.text \in Seq(Comp) /\ p.text # <<>>
  <2>1. decls[d].in \in 0 .. Len(decls)
    <3>1. decls[d].in \in 0 .. d - 1 /\ d \in 1 .. Len(decls) /\ Len(decls) \in Nat
      BY DEF Shape
    <3> QED BY <3>1
  <2>2. ctx[decls[d].in][r + 1].text # <<>>
    BY <2>1, TextNotEmpty
  <2> QED BY <1>1, <1>2, <2>2 DEF Text
<1>5. CASE decls[d].kind \in Members
  <2>1. PICK c \in Comp : c = Key(d)
    BY KeyFacts
  <2>2. ctx[d][r] = Component(p, c, r)
    BY <1>1, <1>2, <1>5, <2>1 DEF Prints, Members, Key
  <2>3. Closes(ctx[d][r].text, p.text, c)
    BY <2>2, ComponentCloses
  <2>4. Front(d, r, p.text)
    BY <1>1, <1>2, <1>4, <2>1, <2>3 DEF Front
  <2> QED BY <2>4
<1>6. CASE decls[d].kind = "instance"
  <2>1. ctx[d][r] = InstanceName(d, r) /\ Key(d) = Mangled(d)
    BY <1>1, <1>6, KeyFacts DEF Prints, Incomplete, Members
  <2>2. PICK q \in Seq(Comp) : q # <<>> /\ Closes(InstanceName(d, r).text, q, Mangled(d))
    BY MangledCloses
  <2>3. Front(d, r, q)
    BY <1>6, <2>1, <2>2 DEF Front, Members
  <2> QED BY <2>3
<1>7. CASE decls[d].kind = "function"
  <2>1. ctx[d][r] = FunctionName(d, r) /\ Key(d) = Mangled(d)
    BY <1>1, <1>7, KeyFacts DEF Prints, Members
  <2>2. PICK q \in Seq(Comp) : Closes(FunctionName(d, r).text, q, Mangled(d))
    BY MangledCloses
  <2>3. Front(d, r, q)
    BY <1>7, <2>1, <2>2 DEF Front, Members
  <2> QED BY <2>3
<1> QED BY <1>1, <1>5, <1>6, <1>7 DEF Prints, Members

\* Apart is symmetric.
LEMMA ApartSymmetric ==
  ASSUME NEW x, NEW y, Apart(x, y)
  PROVE  Apart(y, x)
BY DEF Apart

\* Two declarations of a scope, in the same block.
LEMMA SiblingsApart ==
  ASSUME Sound(decls), NEW d \in DOMAIN decls, NEW e \in DOMAIN decls, d # e,
         ScopeIn(decls, d) = ScopeIn(decls, e),
         KindIn(decls, ScopeIn(decls, d)) = "function" => decls[d].block = decls[e].block
  PROVE  Apart(decls[d], decls[e])
<1>1. Shape(decls) /\ ScopesApart(decls)
  BY DEF Sound
<1>2. d \in Nat /\ e \in Nat
  BY <1>1 DEF Shape
<1>3. ScopeIn(decls, d) = ScopeOfIn(decls, decls[d].in) /\ ScopeIn(decls, e) = ScopeOfIn(decls, decls[e].in)
  BY <1>1, ScopeFacts
<1>4. Together(decls, d, decls[e].in, decls[e].block) /\ Together(decls, e, decls[d].in, decls[d].block)
  BY <1>3 DEF Together
<1>5. CASE d < e
  BY <1>1, <1>4, <1>5 DEF ScopesApart
<1>6. CASE e < d
  <2>1. Apart(decls[e], decls[d])
    BY <1>1, <1>4, <1>6 DEF ScopesApart
  <2> QED BY <2>1, ApartSymmetric
<1> QED BY <1>2, <1>5, <1>6

\* The elements of short tuples.
LEMMA TupleFacts ==
  /\ \A c, k, z : c = <<k, z>> => c[1] = k /\ c[2] = z
  /\ \A c, z : c = <<z>> => c[1] = z
<1>1. \A c, k, z : c = <<k, z>> => c[1] = k /\ c[2] = z
  OBVIOUS
<1>2. \A c, z : c = <<z>> => c[1] = z
  OBVIOUS
<1> QED BY <1>1, <1>2

\* Declarations of a scope with the same component.
LEMMA SameComponent ==
  ASSUME NEW x \in DeclType, NEW y \in DeclType, Apart(x, y), x.kind \in Members, y.kind \in Members,
         x.kind = "enum" => x.alias = "", y.kind = "enum" => y.alias = "",
         (IF x.kind = "namespace" THEN NamespaceComponent(x)
          ELSE IF x.kind = "record" THEN RecordComponent(x) ELSE EnumComponent(x))
         = (IF y.kind = "namespace" THEN NamespaceComponent(y)
            ELSE IF y.kind = "record" THEN RecordComponent(y) ELSE EnumComponent(y))
  PROVE  /\ x.kind = y.kind /\ x.ident = "" /\ x.alias = "" /\ y.ident = "" /\ y.alias = "" /\ x.first = y.first
         /\ x.kind = "record" \/ (x.kind = "enum" /\ x.first = "none")
<1>1. PICK k, a, n, f, c : k = x.kind /\ a = x.alias /\ n = x.ident /\ f = x.first
        /\ c = (IF x.kind = "namespace" THEN NamespaceComponent(x)
                ELSE IF x.kind = "record" THEN RecordComponent(x) ELSE EnumComponent(x))
  OBVIOUS
<1>2. PICK l, b, m, g : l = y.kind /\ b = y.alias /\ m = y.ident /\ g = y.first
        /\ c = (IF y.kind = "namespace" THEN NamespaceComponent(y)
                ELSE IF y.kind = "record" THEN RecordComponent(y) ELSE EnumComponent(y))
  BY <1>1
<1>3. \/ c = <<"id", n>> /\ n # ""
      \/ k = "record" /\ n = "" /\ c = <<"id", a>> /\ a # ""
      \/ k = "namespace" /\ n = "" /\ c = <<"~<TODO>">>
      \/ k = "record" /\ n = "" /\ a = "" /\ c = <<".", f>>
      \/ k = "record" /\ n = "" /\ a = "" /\ c = <<"~<empty>">> /\ f = "none"
      \/ k = "enum" /\ n = "" /\ a = "" /\ c = <<"~", f>> /\ f # "none"
      \/ k = "enum" /\ n = "" /\ a = "" /\ c = <<"~<empty-enum>">> /\ f = "none"
  BY <1>1 DEF NamespaceComponent, RecordComponent, EnumComponent, Id, Members
<1>4. \/ c = <<"id", m>> /\ m # ""
      \/ l = "record" /\ m = "" /\ c = <<"id", b>> /\ b # ""
      \/ l = "namespace" /\ m = "" /\ c = <<"~<TODO>">>
      \/ l = "record" /\ m = "" /\ b = "" /\ c = <<".", g>>
      \/ l = "record" /\ m = "" /\ b = "" /\ c = <<"~<empty>">> /\ g = "none"
      \/ l = "enum" /\ m = "" /\ b = "" /\ c = <<"~", g>> /\ g # "none"
      \/ l = "enum" /\ m = "" /\ b = "" /\ c = <<"~<empty-enum>">> /\ g = "none"
  BY <1>2 DEF NamespaceComponent, RecordComponent, EnumComponent, Id, Members
<1>5. /\ \A z \in {n, a} \cap {m, b} : z = ""
      /\ k = "namespace" /\ l = "namespace" => n # "" \/ m # ""
      /\ k = "enum" /\ l = "enum" /\ n = "" /\ m = "" => f = "none" \/ f # g
  BY <1>1, <1>2 DEF Apart, Members
<1>6. PICK t, v : t = c[1] /\ v = c[2]
  OBVIOUS
<1>7. \/ t = "id" /\ v = n /\ n # ""
      \/ t = "id" /\ k = "record" /\ n = "" /\ v = a /\ a # ""
      \/ t = "~<TODO>" /\ k = "namespace" /\ n = ""
      \/ t = "." /\ k = "record" /\ n = "" /\ a = "" /\ v = f
      \/ t = "~<empty>" /\ k = "record" /\ n = "" /\ a = "" /\ f = "none"
      \/ t = "~" /\ k = "enum" /\ n = "" /\ a = "" /\ v = f /\ f # "none"
      \/ t = "~<empty-enum>" /\ k = "enum" /\ n = "" /\ a = "" /\ f = "none"
  <2>1. /\ \A z : c = <<"id", z>> => t = "id" /\ v = z
        /\ \A z : c = <<".", z>> => t = "." /\ v = z
        /\ \A z : c = <<"~", z>> => t = "~" /\ v = z
        /\ \A z : c = <<z>> => t = z
    BY <1>6, TupleFacts
  <2> QED BY <1>3, <2>1
<1>8. \/ t = "id" /\ v = m /\ m # ""
      \/ t = "id" /\ l = "record" /\ m = "" /\ v = b /\ b # ""
      \/ t = "~<TODO>" /\ l = "namespace" /\ m = ""
      \/ t = "." /\ l = "record" /\ m = "" /\ b = "" /\ v = g
      \/ t = "~<empty>" /\ l = "record" /\ m = "" /\ b = "" /\ g = "none"
      \/ t = "~" /\ l = "enum" /\ m = "" /\ b = "" /\ v = g /\ g # "none"
      \/ t = "~<empty-enum>" /\ l = "enum" /\ m = "" /\ b = "" /\ g = "none"
  <2>1. /\ \A z : c = <<"id", z>> => t = "id" /\ v = z
        /\ \A z : c = <<".", z>> => t = "." /\ v = z
        /\ \A z : c = <<"~", z>> => t = "~" /\ v = z
        /\ \A z : c = <<z>> => t = z
    BY <1>6, TupleFacts
  <2> QED BY <1>4, <2>1
<1>9. t # "id"
  BY <1>5, <1>7, <1>8
<1>10. k = l /\ n = "" /\ a = "" /\ m = "" /\ b = "" /\ f = g /\ (k = "record" \/ (k = "enum" /\ f = "none"))
  BY <1>5, <1>7, <1>8, <1>9
<1> QED BY <1>1, <1>2, <1>10

\* Declarations of a scope with the same key are confused.
LEMMA SiblingsConfused ==
  ASSUME Sound(decls), NEW d \in DOMAIN decls, NEW e \in DOMAIN decls, d # e,
         ScopeIn(decls, d) = ScopeIn(decls, e), decls[d].kind \in Members, decls[e].kind \in Members, Key(d) = Key(e)
  PROVE  Confused(d, e)
<1>1. Shape(decls) /\ Contained(decls)
  BY DEF Sound
<1>2. Scope(d) = ScopeIn(decls, d) /\ Scope(e) = ScopeIn(decls, e) /\ KindOf(Scope(d)) = KindIn(decls, ScopeIn(decls, d))
  BY InState, Operators
<1>3. CASE KindIn(decls, ScopeIn(decls, d)) = "function" /\ decls[d].block # decls[e].block
  BY <1>2, <1>3 DEF Confused
<1>4. CASE ~(KindIn(decls, ScopeIn(decls, d)) = "function" /\ decls[d].block # decls[e].block)
  <2>1. Apart(decls[d], decls[e])
    BY <1>4, SiblingsApart
  <2>2. PICK x \in DeclType, y \in DeclType : x = decls[d] /\ y = decls[e]
    BY <1>1 DEF Shape
  <2>3. (x.kind = "enum" => x.alias = "") /\ (y.kind = "enum" => y.alias = "")
    BY <1>1, <2>2 DEF Contained, Formed
  <2>4. (IF x.kind = "namespace" THEN NamespaceComponent(x)
          ELSE IF x.kind = "record" THEN RecordComponent(x) ELSE EnumComponent(x))
        = (IF y.kind = "namespace" THEN NamespaceComponent(y)
            ELSE IF y.kind = "record" THEN RecordComponent(y) ELSE EnumComponent(y))
    BY <2>2 DEF Key, Members
  <2>5. /\ x.kind = y.kind /\ x.ident = "" /\ x.alias = "" /\ y.ident = "" /\ y.alias = "" /\ x.first = y.first
        /\ x.kind = "record" \/ (x.kind = "enum" /\ x.first = "none")
    BY <2>1, <2>2, <2>3, <2>4, SameComponent
  <2> QED BY <1>2, <2>2, <2>5 DEF Confused, Unnamed
<1> QED BY <1>3, <1>4

\* Somewhere among the contexts of d and e, two declarations are confused.
Confusion(d, e) ==
  \E a \in PathIn(decls, d) \ {0}, b \in PathIn(decls, e) \ {0} : a # b /\ Confused(a, b)

\* A confusion among the contexts of contexts is one of their contexts.
LEMMA ConfusionUp ==
  ASSUME NEW d, NEW e, NEW x, NEW y, Confusion(x, y), PathIn(decls, x) \subseteq PathIn(decls, d),
         PathIn(decls, y) \subseteq PathIn(decls, e)
  PROVE  Confusion(d, e)
BY DEF Confusion

\* Contexts that print the same are the same scope, or one is confused.
SameText(d, e) ==
  \A r \in Nat : ctx[d][r].text = ctx[e][r].text =>
    ScopeOfIn(decls, d) = ScopeOfIn(decls, e) \/ Confusion(d, e)

\* A context named by printSimpleContext alone.
Complete(d) == d = 0 \/ ~Incomplete(d)

\* Clang's mangled names are different.
LEMMA MangledEqual ==
  ASSUME NEW d, NEW e, Mangled(d) = Mangled(e)
  PROVE  d = e
<1>1. Mangled(d)[2] = d /\ Mangled(e)[2] = e
  BY DEF Mangled
<1> QED BY <1>1

\* The step of the induction: d and e are no linkage specifications.
LEMMA SameTextStep ==
  ASSUME Sound(decls), NEW d \in DOMAIN decls, NEW e \in DOMAIN decls, ~Incomplete(d), ~Incomplete(e),
         decls[d].kind # "linkage", decls[e].kind # "linkage", SameText(decls[d].in, decls[e].in),
         NEW r \in Nat, ctx[d][r].text = ctx[e][r].text
  PROVE  d = e \/ Confusion(d, e)
<1>1. Shape(decls)
  BY DEF Sound
<1>2. PICK p : Front(d, r, p)
  BY <1>1, FrontExists
<1>3. PICK q : Front(e, r, q)
  BY <1>1, FrontExists
<1>4. Key(d) # <<"E">> /\ Key(e) # <<"E">>
  BY <1>1, KeyFacts
<1>5. Key(d) = Key(e) /\ p = q
  <2>1. PICK u : u = ctx[d][r].text /\ Closes(u, p, Key(d)) /\ Closes(u, q, Key(e))
    BY <1>2, <1>3 DEF Front
  <2> QED BY <1>4, <2>1, FrontEqual
<1>6. CASE decls[d].kind \notin Members
  <2>1. Key(d) = Mangled(d) /\ Key(e) = Mangled(e)
    BY <1>1, <1>5, <1>6, KeyFacts
  <2> QED BY <1>5, <2>1, MangledEqual
<1>7. CASE decls[e].kind \notin Members
  <2>1. Key(d) = Mangled(d) /\ Key(e) = Mangled(e)
    BY <1>1, <1>5, <1>7, KeyFacts
  <2> QED BY <1>5, <2>1, MangledEqual
<1>8. CASE decls[d].kind \in Members /\ decls[e].kind \in Members
  <2>1. ctx[decls[d].in][r + 1].text = ctx[decls[e].in][r + 1].text
    BY <1>2, <1>3, <1>5, <1>8 DEF Front
  <2>2. ScopeOfIn(decls, decls[d].in) = ScopeOfIn(decls, decls[e].in) \/ Confusion(decls[d].in, decls[e].in)
    <3>1. r + 1 \in Nat
      OBVIOUS
    <3> QED BY <2>1, <3>1 DEF SameText
  <2>3. /\ PathIn(decls, d) = {d} \cup PathIn(decls, decls[d].in) /\ PathIn(decls, e) = {e} \cup PathIn(decls, decls[e].in)
        /\ ScopeIn(decls, d) = ScopeOfIn(decls, decls[d].in) /\ ScopeIn(decls, e) = ScopeOfIn(decls, decls[e].in)
    BY <1>1, PathFacts, ScopeFacts
  <2>4. CASE Confusion(decls[d].in, decls[e].in)
    <3>1. PathIn(decls, decls[d].in) \subseteq PathIn(decls, d) /\ PathIn(decls, decls[e].in) \subseteq PathIn(decls, e)
      BY <2>3
    <3> QED BY <2>4, <3>1, ConfusionUp
  <2>5. CASE ScopeOfIn(decls, decls[d].in) = ScopeOfIn(decls, decls[e].in) /\ d # e
    <3>1. Confused(d, e)
      BY <1>5, <1>8, <2>3, <2>5, SiblingsConfused
    <3>2. d \in PathIn(decls, d) \ {0} /\ e \in PathIn(decls, e) \ {0}
      <4>1. d # 0 /\ e # 0
        BY <1>1 DEF Shape
      <4> QED BY <2>3, <4>1
    <3> QED BY <2>5, <3>1, <3>2 DEF Confusion
  <2> QED BY <2>2, <2>4, <2>5
<1> QED BY <1>6, <1>7, <1>8

\* The translation unit prints a mark.
LEMMA UnitCloses ==
  ASSUME Shape(decls), NEW r \in Nat
  PROVE  \E q, a : a \in {<<"_Z">>, <<"N">>} /\ Closes(ctx[0][r].text, q, a)
<1>1. ctx[0] = Unit
  BY CtxFacts
<1>2. Unit[r] = [text |-> IF 1 < r THEN <<<<"_Z">>, <<"N">>>> ELSE <<<<"_Z">>>>, n |-> 0]
  BY DEF Unit, Printed
<1>3. PICK z \in Comp, n \in Comp : z = <<"_Z">> /\ n = <<"N">>
  <2>1. <<"_Z">> \in Comp /\ <<"N">> \in Comp
    BY MarkIn DEF Marks
  <2> QED BY <2>1
<1>4. Adds(<<z, n>>, <<z>>, n)
  <2>1. PICK p, q : p = <<z, n>> /\ q = <<z>>
    OBVIOUS
  <2>2. p \in Seq(Comp) /\ q \in Seq(Comp) /\ Len(p) = 2 /\ Len(q) = 1 /\ p[1] = z /\ p[2] = n /\ q[1] = z
    BY <2>1
  <2>3. Adds(p, q, n)
    BY <2>2 DEF Adds
  <2> QED BY <2>1, <2>3
<1>5. Adds(<<z>>, <<>>, z)
  <2>1. PICK p, q : p = <<z>> /\ q = <<>>
    OBVIOUS
  <2>2. p \in Seq(Comp) /\ q \in Seq(Comp) /\ Len(p) = 1 /\ Len(q) = 0 /\ p[1] = z
    BY <2>1
  <2>3. Adds(p, q, z)
    BY <2>2 DEF Adds
  <2> QED BY <2>1, <2>3
<1>6. ctx[0][r].text = <<z, n>> \/ ctx[0][r].text = <<z>>
  BY <1>1, <1>2, <1>3
<1> QED BY <1>3, <1>4, <1>5, <1>6 DEF Closes

\* So no other context prints what it prints.
LEMMA UnitApart ==
  ASSUME Shape(decls), NEW d \in DOMAIN decls, decls[d].kind # "linkage", ~Incomplete(d), NEW r \in Nat
  PROVE  ctx[d][r].text # ctx[0][r].text
<1>1. SUFFICES ASSUME ctx[d][r].text = ctx[0][r].text PROVE FALSE
  OBVIOUS
<1>2. PICK q, a : a \in {<<"_Z">>, <<"N">>} /\ Closes(ctx[0][r].text, q, a)
  BY UnitCloses
<1>3. PICK p : Front(d, r, p)
  BY FrontExists
<1>4. Key(d) # <<"E">> /\ Key(d) # <<"_Z">> /\ Key(d) # <<"N">>
  BY KeyFacts
<1>5. a # <<"E">>
  BY <1>2
<1>6. PICK u : Closes(u, q, a) /\ Closes(u, p, Key(d))
  BY <1>1, <1>2, <1>3 DEF Front
<1>7. a = Key(d)
  BY <1>4, <1>5, <1>6, FrontEqual
<1> QED BY <1>2, <1>4, <1>7

\* The context of a declaration holds it, and is complete.
LEMMA ContextComplete ==
  ASSUME Sound(decls), NEW d \in DOMAIN decls
  PROVE  Holds(decls, decls[d].in) /\ Complete(decls[d].in)
<1>1. Holds(decls, decls[d].in)
  BY DEF Sound, Contained
<1>2. Complete(decls[d].in)
  BY <1>1 DEF Holds, KindIn, Complete, Incomplete
<1> QED BY <1>1, <1>2

\* By induction along the tree, for all complete contexts.
LEMMA SameTexts ==
  ASSUME Sound(decls)
  PROVE  \A d \in 0 .. Len(decls) : \A e \in 0 .. Len(decls) : Complete(d) /\ Complete(e) => SameText(d, e)
<1>1. Shape(decls)
  BY DEF Sound
<1>2. PICK n \in Nat : n = Len(decls) /\ DOMAIN decls = 1 .. n
  BY <1>1 DEF Shape
<1>3. PICK in : in = [d \in 1 .. n |-> decls[d].in]
  OBVIOUS
<1>4. \A d \in 1 .. n : in[d] = decls[d].in /\ in[d] \in 0 .. d - 1
  BY <1>1, <1>2, <1>3 DEF Shape
<1>5. PICK S : S = {d \in 0 .. n : \A e \in 0 .. n : Complete(d) /\ Complete(e) => SameText(d, e)}
  OBVIOUS
<1>6. ASSUME NEW e \in 0 .. n, Complete(e)
      PROVE  \E f \in 0 .. n : /\ f = ScopeOfIn(decls, e) /\ ScopeOfIn(decls, f) = f /\ ctx[e] = ctx[f] /\ Complete(f)
                               /\ PathIn(decls, f) \subseteq PathIn(decls, e)
                               /\ f # 0 => f \in DOMAIN decls /\ decls[f].kind # "linkage"
  <2>1. PICK f : f = ScopeOfIn(decls, e) /\ Stands(e, f)
    BY <1>2, ScopeStands
  <2>2. f \in 0 .. n /\ (f # 0 => f \in DOMAIN decls /\ decls[f].kind # "linkage")
    BY <1>2, <2>1 DEF Stands
  <2>3. ScopeOfIn(decls, f) = f
    BY <1>1, <2>2, ScopeFacts
  <2>4. Complete(f)
    <3>1. CASE e = 0
      BY <1>1, <2>1, <3>1, ScopeFacts DEF Complete
    <3>2. CASE e # 0 /\ decls[e].kind # "linkage"
      BY <1>6, <2>1, <3>2 DEF Stands
    <3>3. CASE e # 0 /\ decls[e].kind = "linkage"
      <4>1. Holds(decls, e)
        BY <3>3 DEF Holds, KindIn, Spaces
      <4>2. Holds(decls, f)
        BY <2>1, <4>1 DEF Stands
      <4> QED BY <4>2 DEF Holds, KindIn, Complete, Incomplete
    <3> QED BY <3>1, <3>2, <3>3
  <2> QED BY <2>1, <2>2, <2>3, <2>4 DEF Stands
<1>7. 0 \in S
  <2>1. SUFFICES ASSUME NEW e \in 0 .. n, Complete(e), NEW r \in Nat, ctx[0][r].text = ctx[e][r].text
                 PROVE  ScopeOfIn(decls, 0) = ScopeOfIn(decls, e)
    <3>1. 0 \in 0 .. n
      OBVIOUS
    <3> QED BY <1>5, <2>1, <3>1 DEF SameText
  <2>2. PICK f \in 0 .. n : /\ f = ScopeOfIn(decls, e) /\ ctx[e] = ctx[f] /\ Complete(f)
                            /\ f # 0 => f \in DOMAIN decls /\ decls[f].kind # "linkage"
    BY <1>6, <2>1
  <2>3. f = 0
    BY <1>1, <2>1, <2>2, UnitApart DEF Complete
  <2> QED BY <1>1, <2>2, <2>3, ScopeFacts
<1>8. ASSUME NEW d \in 1 .. n, in[d] \in S PROVE d \in S
  <2>1. SUFFICES ASSUME NEW e \in 0 .. n, Complete(d), Complete(e), NEW r \in Nat, ctx[d][r].text = ctx[e][r].text
                 PROVE  ScopeOfIn(decls, d) = ScopeOfIn(decls, e) \/ Confusion(d, e)
    <3>1. d \in 0 .. n
      OBVIOUS
    <3> QED BY <1>5, <2>1, <3>1 DEF SameText
  <2>2. d \in DOMAIN decls /\ d # 0 /\ ~Incomplete(d)
    BY <1>2, <2>1 DEF Complete
  <2>3. Complete(in[d]) /\ \A y \in 0 .. n : Complete(y) => SameText(in[d], y)
    <3>1. Complete(in[d])
      BY <1>4, <2>2, ContextComplete
    <3> QED BY <1>5, <1>8, <3>1
  <2>4. PathIn(decls, d) = {d} \cup PathIn(decls, in[d])
        /\ ScopeOfIn(decls, d) = IF decls[d].kind = "linkage" THEN ScopeOfIn(decls, in[d]) ELSE d
    BY <1>1, <1>4, <2>2, PathFacts, ScopeFacts
  <2>5. CASE decls[d].kind = "linkage"
    <3>1. PICK g \in Texts : /\ g = ctx[decls[d].in] /\ ctx[d][r] = InContext(d, g, r) /\ Prints(d, g, r)
      BY <1>1, <2>2, CtxPrints
    <3>2. ctx[in[d]][r].text = ctx[e][r].text
      BY <1>4, <2>1, <2>5, <3>1 DEF Prints
    <3>3. ScopeOfIn(decls, in[d]) = ScopeOfIn(decls, e) \/ Confusion(in[d], e)
      BY <2>1, <2>3, <3>2 DEF SameText
    <3>4. Confusion(in[d], e) => Confusion(d, e)
      BY <2>4 DEF Confusion
    <3> QED BY <2>4, <2>5, <3>3, <3>4
  <2>6. CASE decls[d].kind # "linkage"
    <3>1. PICK f \in 0 .. n : /\ f = ScopeOfIn(decls, e) /\ ctx[e] = ctx[f] /\ Complete(f)
                              /\ PathIn(decls, f) \subseteq PathIn(decls, e)
                              /\ f # 0 => f \in DOMAIN decls /\ decls[f].kind # "linkage"
      BY <1>6, <2>1
    <3>2. ctx[d][r].text = ctx[f][r].text
      BY <2>1, <3>1
    <3>3. f \in DOMAIN decls /\ decls[f].kind # "linkage" /\ f # 0 /\ ~Incomplete(f)
      <4>1. f # 0
        BY <1>1, <2>2, <2>6, <3>2, UnitApart
      <4> QED BY <3>1, <4>1 DEF Complete
    <3>4. SameText(decls[d].in, decls[f].in)
      <4>1. decls[f].in \in 0 .. n /\ in[d] = decls[d].in
        <5>1. f \in 1 .. n /\ decls[f].in \in 0 .. f - 1
          BY <1>2, <1>4, <3>3
        <5> QED BY <1>4, <5>1
      <4>2. Complete(decls[f].in)
        BY <3>3, ContextComplete
      <4> QED BY <2>3, <4>1, <4>2
    <3>5. d = f \/ Confusion(d, f)
      BY <2>2, <2>6, <3>2, <3>3, <3>4, SameTextStep
    <3>6. Confusion(d, f) => Confusion(d, e)
      BY <3>1 DEF Confusion
    <3> QED BY <2>4, <2>6, <3>1, <3>5, <3>6
  <2> QED BY <2>5, <2>6
<1>9. \A d \in 0 .. n : d \in S
  <2>1. Tree(n, in)
    BY <1>4 DEF Tree
  <2> QED BY <1>7, <1>8, <2>1, TreeInduction
<1> QED BY <1>2, <1>5, <1>9

(***************************************************************************)
(* The contexts that printQualifiedName prints.                            *)
(***************************************************************************)
QualName(x) ==
  IF x.kind = "namespace" /\ x.ident = "" THEN "(anonymous namespace)"
  ELSE IF x.kind = "record" /\ x.ident = "" THEN "(anonymous struct)" ELSE x.ident

\* What printQualifiedName adds for d.
Qualified(d) ==
  /\ decls[d].kind = "instance" =>
       \E m : /\ Adds(m, Qualifiers(decls[d].in), <<"::", decls[d].ident>>)
              /\ Adds(Qualifiers(d), m, <<"<>", decls[d].args>>)
  /\ decls[d].kind \in Members \cup {"function"} =>
       Adds(Qualifiers(d), Qualifiers(decls[d].in), <<"::", QualName(decls[d])>>)

\* It adds that to what it prints of the context.
LEMMA QualifiedFacts ==
  ASSUME Shape(decls), NEW d \in DOMAIN decls
  PROVE  Qualified(d)
<1>1. decls[d].in \in 0 .. Len(decls) /\ decls[d] \in DeclType
  <2>1. decls[d] \in DeclType /\ decls[d].in \in 0 .. d - 1 /\ d \in 1 .. Len(decls) /\ Len(decls) \in Nat
    BY DEF Shape
  <2> QED BY <2>1
<1>2. PICK q \in Seq(Comp) : q = Qualifiers(decls[d].in)
  <2>1. QualComp \subseteq Comp
    BY DEF QualComp, Comp
  <2>2. Qualifiers(decls[d].in) \in Seq(QualComp)
    BY <1>1, QualifiersFacts
  <2>3. Qualifiers(decls[d].in) \in Seq(Comp)
    BY <2>1, <2>2
  <2> QED BY <2>3
<1>3. Qualifiers(d) = q \o Qualifier(d)
  BY <1>2, QualifiersFacts
<1>4. decls[d].ident \in Parts /\ decls[d].args \in Parts /\ QualName(decls[d]) \in Parts
  BY <1>1 DEF DeclType, Parts, QualName
<1>5. CASE decls[d].kind = "instance"
  <2>1. PICK a \in Comp, b \in Comp : a = <<"::", decls[d].ident>> /\ b = <<"<>", decls[d].args>>
    <3>1. <<"::", decls[d].ident>> \in Comp /\ <<"<>", decls[d].args>> \in Comp
      BY <1>4, PartIn
    <3> QED BY <3>1
  <2>2. Qualifier(d) = <<a, b>>
    BY <1>5, <2>1 DEF Qualifier
  <2>3. PICK m \in Seq(Comp) : m = Append(q, a)
    <3>1. Append(q, a) \in Seq(Comp)
      OBVIOUS
    <3> QED BY <3>1
  <2>4. q \o <<a, b>> = Append(m, b)
    BY <2>3
  <2>5. Adds(m, q, a) /\ Adds(Append(m, b), m, b)
    BY <2>3, AppendAdds
  <2> QED BY <1>2, <1>3, <1>5, <2>1, <2>2, <2>4, <2>5 DEF Qualified, Members
<1>6. CASE decls[d].kind \in Members \cup {"function"}
  <2>1. PICK a \in Comp : a = <<"::", QualName(decls[d])>>
    <3>1. <<"::", QualName(decls[d])>> \in Comp
      BY <1>4, PartIn
    <3> QED BY <3>1
  <2>2. Qualifier(d) = <<a>>
    BY <1>6, <2>1 DEF Qualifier, QualName, Members
  <2>3. Adds(q \o <<a>>, q, a)
    BY AppendAdds
  <2> QED BY <1>2, <1>3, <1>6, <2>1, <2>2, <2>3 DEF Qualified, Members
<1> QED BY <1>5, <1>6 DEF Qualified

\* As for printSimpleContext, where records without a tag are confused, too.
QualConfusion(d, e) ==
  \E a \in PathIn(decls, d) \ {0}, b \in PathIn(decls, e) \ {0} : a # b /\ (Confused(a, b) \/ Untagged(a, b))

\* Contexts with the same qualifiers are the same scope, or two are confused.
SameQualifiers(d, e) ==
  Qualifiers(d) = Qualifiers(e) => ScopeOfIn(decls, d) = ScopeOfIn(decls, e) \/ QualConfusion(d, e)

\* A context that is not local to a function.
Global(d) == Holds(decls, d) /\ \A e \in PathIn(decls, d) : KindIn(decls, e) # "function"

\* Siblings with the same qualifier.
LEMMA QualSiblings ==
  ASSUME Sound(decls), NEW d \in DOMAIN decls, NEW e \in DOMAIN decls, d # e,
         ScopeIn(decls, d) = ScopeIn(decls, e), KindIn(decls, ScopeIn(decls, d)) # "function",
         decls[d].kind = "instance" <=> decls[e].kind = "instance",
         decls[d].kind \in {"namespace", "record", "instance"}, decls[e].kind \in {"namespace", "record", "instance"},
         decls[d].kind = "instance" => decls[d].ident = decls[e].ident /\ decls[d].args = decls[e].args,
         QualName(decls[d]) = QualName(decls[e])
  PROVE  Untagged(d, e)
<1>1. Apart(decls[d], decls[e])
  BY SiblingsApart
<1>2. Scope(d) = ScopeIn(decls, d) /\ Scope(e) = ScopeIn(decls, e)
  BY InState
<1>3. Shape(decls) /\ Contained(decls)
  BY DEF Sound
<1>4. PICK x \in DeclType, y \in DeclType : x = decls[d] /\ y = decls[e]
  BY <1>3 DEF Shape
<1>5. x.kind # "instance"
  <2>1. x.kind = "instance" => x.ident # ""
    BY <1>3, <1>4 DEF Contained, Formed
  <2> QED BY <1>1, <1>4, <2>1 DEF Apart
<1>6. x.ident \in Idents \cup {""} /\ y.ident \in Idents \cup {""}
  BY DEF DeclType
<1>7. {"", "(anonymous namespace)", "(anonymous struct)"} \cap Idents = {}
  BY ClangPrinterAssumption
<1>8. x.ident = "" /\ y.ident = "" /\ x.kind = y.kind
  <2>1. QualName(x) = QualName(y)
    BY <1>4
  <2>2. x.kind \in {"namespace", "record"} /\ y.kind \in {"namespace", "record"}
    BY <1>4, <1>5
  <2>3. CASE x.ident # ""
    <3>1. y.ident = x.ident
      BY <1>6, <1>7, <2>1, <2>2, <2>3 DEF QualName
    <3> QED BY <1>1, <1>4, <2>2, <2>3, <3>1 DEF Apart
  <2>4. CASE x.ident = ""
    BY <1>6, <1>7, <2>1, <2>2, <2>4 DEF QualName
  <2> QED BY <2>3, <2>4
<1>9. x.kind = "record"
  BY <1>1, <1>4, <1>5, <1>8 DEF Apart
<1> QED BY <1>2, <1>4, <1>8, <1>9 DEF Untagged

\* The step of the induction.
LEMMA SameQualifiersStep ==
  ASSUME Sound(decls), NEW d \in DOMAIN decls, NEW e \in DOMAIN decls, Global(d), Global(e),
         decls[d].kind # "linkage", decls[e].kind # "linkage", SameQualifiers(decls[d].in, decls[e].in),
         Qualifiers(d) = Qualifiers(e)
  PROVE  d = e \/ QualConfusion(d, e)
<1>1. Shape(decls)
  BY DEF Sound
<1>2. /\ PathIn(decls, d) = {d} \cup PathIn(decls, decls[d].in) /\ PathIn(decls, e) = {e} \cup PathIn(decls, decls[e].in)
      /\ ScopeIn(decls, d) = ScopeOfIn(decls, decls[d].in) /\ ScopeIn(decls, e) = ScopeOfIn(decls, decls[e].in)
  BY <1>1, PathFacts, ScopeFacts
<1>3. d # 0 /\ e # 0 /\ decls[d].in \in 0 .. Len(decls)
  <2>1. decls[d].in \in 0 .. d - 1 /\ d \in 1 .. Len(decls) /\ e \in 1 .. Len(decls) /\ Len(decls) \in Nat
    BY <1>1 DEF Shape
  <2> QED BY <2>1
<1>4. decls[d].kind \in {"namespace", "record", "instance"} /\ decls[e].kind \in {"namespace", "record", "instance"}
  <2>1. d \in PathIn(decls, d) /\ e \in PathIn(decls, e)
    BY <1>2
  <2>2. ASSUME NEW x \in DOMAIN decls, x # 0, x \in PathIn(decls, x), Global(x), decls[x].kind # "linkage"
        PROVE  decls[x].kind \in {"namespace", "record", "instance"}
    <3>1. PICK k : k = decls[x].kind /\ k = KindIn(decls, x)
      BY <2>2 DEF KindIn
    <3>2. k # "function"
      BY <2>2, <3>1 DEF Global
    <3>3. k \in Spaces \cup Classes \cup {"function"}
      BY <2>2, <3>1 DEF Global, Holds
    <3>4. decls[x] \in DeclType
      BY <1>1 DEF Shape
    <3>5. k \in Types \cup {"namespace", "linkage", "function"}
      BY <3>1, <3>4 DEF DeclType
    <3> QED BY <2>2, <3>1, <3>2, <3>3, <3>5 DEF Spaces, Classes, Types
  <2> QED BY <1>3, <2>1, <2>2
<1>5. KindIn(decls, ScopeIn(decls, d)) # "function"
  <2>1. ScopeOfIn(decls, decls[d].in) \in PathIn(decls, decls[d].in)
    BY <1>1, <1>3, ContextsIn
  <2> QED BY <1>2, <2>1 DEF Global
<1>6. PICK u : u = Qualifiers(d) /\ u = Qualifiers(e)
  OBVIOUS
<1>7. Qualified(d) /\ Qualified(e)
  BY <1>1, QualifiedFacts
<1>8. ASSUME NEW x, NEW y PROVE <<"::", x>> # <<"<>", y>>
  OBVIOUS
<1>9. ASSUME NEW x, NEW y, NEW t PROVE <<t, x>> = <<t, y>> => x = y
  <2>1. <<t, x>>[2] = x /\ <<t, y>>[2] = y
    OBVIOUS
  <2> QED BY <2>1
<1>10. /\ decls[d].kind = "instance" <=> decls[e].kind = "instance"
       /\ Qualifiers(decls[d].in) = Qualifiers(decls[e].in)
       /\ decls[d].kind = "instance" => decls[d].ident = decls[e].ident /\ decls[d].args = decls[e].args
       /\ QualName(decls[d]) = QualName(decls[e])
  <2>1. CASE decls[d].kind = "instance"
    <3>1. PICK m : /\ Adds(m, Qualifiers(decls[d].in), <<"::", decls[d].ident>>)
                   /\ Adds(u, m, <<"<>", decls[d].args>>)
      BY <1>6, <1>7, <2>1 DEF Qualified
    <3>2. decls[e].kind = "instance"
      <4>1. SUFFICES ASSUME decls[e].kind # "instance" PROVE FALSE
        OBVIOUS
      <4>2. Adds(u, Qualifiers(decls[e].in), <<"::", QualName(decls[e])>>)
        BY <1>4, <1>6, <1>7, <4>1 DEF Qualified, Members
      <4>3. <<"::", QualName(decls[e])>> = <<"<>", decls[d].args>>
        BY <3>1, <4>2, AddsEqual
      <4> QED BY <1>8, <4>3
    <3>3. PICK l : /\ Adds(l, Qualifiers(decls[e].in), <<"::", decls[e].ident>>)
                   /\ Adds(u, l, <<"<>", decls[e].args>>)
      BY <1>6, <1>7, <3>2 DEF Qualified
    <3>4. l = m /\ <<"<>", decls[e].args>> = <<"<>", decls[d].args>>
      BY <3>1, <3>3, AddsEqual
    <3>5. Qualifiers(decls[d].in) = Qualifiers(decls[e].in) /\ <<"::", decls[e].ident>> = <<"::", decls[d].ident>>
      BY <3>1, <3>3, <3>4, AddsEqual
    <3>6. decls[d].ident = decls[e].ident /\ decls[d].args = decls[e].args
      BY <1>9, <3>4, <3>5
    <3> QED BY <2>1, <3>2, <3>5, <3>6 DEF QualName
  <2>2. CASE decls[d].kind # "instance"
    <3>1. Adds(u, Qualifiers(decls[d].in), <<"::", QualName(decls[d])>>)
      BY <1>4, <1>6, <1>7, <2>2 DEF Qualified, Members
    <3>2. decls[e].kind # "instance"
      <4>1. SUFFICES ASSUME decls[e].kind = "instance" PROVE FALSE
        OBVIOUS
      <4>2. PICK l : Adds(u, l, <<"<>", decls[e].args>>)
        BY <1>6, <1>7, <4>1 DEF Qualified
      <4>3. <<"::", QualName(decls[d])>> = <<"<>", decls[e].args>>
        BY <3>1, <4>2, AddsEqual
      <4> QED BY <1>8, <4>3
    <3>3. Adds(u, Qualifiers(decls[e].in), <<"::", QualName(decls[e])>>)
      BY <1>4, <1>6, <1>7, <3>2 DEF Qualified, Members
    <3>4. Qualifiers(decls[d].in) = Qualifiers(decls[e].in) /\ <<"::", QualName(decls[d])>> = <<"::", QualName(decls[e])>>
      BY <3>1, <3>3, AddsEqual
    <3>5. QualName(decls[d]) = QualName(decls[e])
      BY <1>9, <3>4
    <3> QED BY <2>2, <3>2, <3>4, <3>5
  <2> QED BY <2>1, <2>2
<1>11. CASE QualConfusion(decls[d].in, decls[e].in)
  BY <1>2, <1>11 DEF QualConfusion
<1>12. CASE ScopeIn(decls, d) = ScopeIn(decls, e) /\ d # e
  <2>1. Untagged(d, e)
    BY <1>4, <1>5, <1>10, <1>12, QualSiblings
  <2> QED BY <1>2, <1>3, <1>12, <2>1 DEF QualConfusion
<1> QED BY <1>2, <1>10, <1>11, <1>12 DEF SameQualifiers

\* By induction along the tree, for all contexts outside functions.
LEMMA SameQualifiersAll ==
  ASSUME Sound(decls)
  PROVE  \A d \in 0 .. Len(decls) : \A e \in 0 .. Len(decls) : Global(d) /\ Global(e) => SameQualifiers(d, e)
<1>1. Shape(decls)
  BY DEF Sound
<1>2. PICK n \in Nat : n = Len(decls) /\ DOMAIN decls = 1 .. n
  BY <1>1 DEF Shape
<1>3. PICK in : in = [d \in 1 .. n |-> decls[d].in]
  OBVIOUS
<1>4. \A d \in 1 .. n : in[d] = decls[d].in /\ in[d] \in 0 .. d - 1
  BY <1>1, <1>2, <1>3 DEF Shape
<1>5. PICK S : S = {d \in 0 .. n : \A e \in 0 .. n : Global(d) /\ Global(e) => SameQualifiers(d, e)}
  OBVIOUS
<1>6. ASSUME NEW e \in 0 .. n, Global(e)
      PROVE  \E f \in 0 .. n : /\ f = ScopeOfIn(decls, e) /\ Qualifiers(e) = Qualifiers(f) /\ Global(f)
                               /\ PathIn(decls, f) \subseteq PathIn(decls, e)
                               /\ f # 0 => f \in DOMAIN decls /\ decls[f].kind # "linkage"
  <2>1. PICK f : f = ScopeOfIn(decls, e) /\ Stands(e, f)
    BY <1>2, ScopeStands
  <2>2. f \in 0 .. n /\ (f # 0 => f \in DOMAIN decls /\ decls[f].kind # "linkage")
    BY <1>2, <2>1 DEF Stands
  <2>3. Global(f)
    BY <1>6, <2>1 DEF Stands, Global
  <2> QED BY <2>1, <2>2, <2>3 DEF Stands
<1>7. ASSUME NEW d \in DOMAIN decls, Global(d) PROVE Global(decls[d].in)
  <2>1. PathIn(decls, d) = {d} \cup PathIn(decls, decls[d].in)
    BY <1>1, PathFacts
  <2>2. Holds(decls, decls[d].in)
    BY ContextComplete
  <2> QED BY <1>7, <2>1, <2>2 DEF Global
\* Something is printed of a context that is no linkage specification.
<1>8. ASSUME NEW d \in DOMAIN decls, Global(d), decls[d].kind # "linkage" PROVE Qualifiers(d) # Qualifiers(0)
  <2>1. Qualified(d) /\ Qualifiers(0) = <<>>
    BY <1>1, QualifiedFacts, QualifiersFacts
  <2>2. decls[d].kind \in Members \cup {"function", "instance"}
    <3>1. decls[d] \in DeclType
      BY <1>1 DEF Shape
    <3> QED BY <1>8, <3>1 DEF DeclType, Types, Members
  <2>3. \E q, a : Adds(Qualifiers(d), q, a)
    BY <2>1, <2>2 DEF Qualified
  <2>4. PICK u, q, a : u = Qualifiers(d) /\ Adds(u, q, a)
    BY <2>3
  <2>5. Len(u) = Len(q) + 1 /\ Len(q) \in Nat
    BY <2>4 DEF Adds
  <2>6. Len(u) # 0
    BY <2>5
  <2> QED BY <2>1, <2>4, <2>6
<1>9. 0 \in S
  <2>1. SUFFICES ASSUME NEW e \in 0 .. n, Global(e), Qualifiers(0) = Qualifiers(e)
                 PROVE  ScopeOfIn(decls, 0) = ScopeOfIn(decls, e)
    <3>1. 0 \in 0 .. n
      OBVIOUS
    <3> QED BY <1>5, <2>1, <3>1 DEF SameQualifiers
  <2>2. PICK f \in 0 .. n : /\ f = ScopeOfIn(decls, e) /\ Qualifiers(e) = Qualifiers(f) /\ Global(f)
                            /\ f # 0 => f \in DOMAIN decls /\ decls[f].kind # "linkage"
    BY <1>6, <2>1
  <2>3. f = 0
    BY <1>8, <2>1, <2>2
  <2> QED BY <1>1, <2>2, <2>3, ScopeFacts
<1>10. ASSUME NEW d \in 1 .. n, in[d] \in S PROVE d \in S
  <2>1. SUFFICES ASSUME NEW e \in 0 .. n, Global(d), Global(e), Qualifiers(d) = Qualifiers(e)
                 PROVE  ScopeOfIn(decls, d) = ScopeOfIn(decls, e) \/ QualConfusion(d, e)
    <3>1. d \in 0 .. n
      OBVIOUS
    <3> QED BY <1>5, <2>1, <3>1 DEF SameQualifiers
  <2>2. d \in DOMAIN decls /\ d # 0
    BY <1>2
  <2>3. Global(in[d]) /\ \A y \in 0 .. n : Global(y) => SameQualifiers(in[d], y)
    <3>1. Global(in[d])
      BY <1>4, <1>7, <2>1, <2>2
    <3> QED BY <1>5, <1>10, <3>1
  <2>4. PathIn(decls, d) = {d} \cup PathIn(decls, in[d])
        /\ ScopeOfIn(decls, d) = IF decls[d].kind = "linkage" THEN ScopeOfIn(decls, in[d]) ELSE d
    BY <1>1, <1>4, <2>2, PathFacts, ScopeFacts
  <2>5. CASE decls[d].kind = "linkage"
    <3>1. Qualifiers(in[d]) = Qualifiers(d)
      <4>1. Qualifiers(d) = Qualifiers(in[d]) \o Qualifier(d)
        BY <1>1, <1>4, <2>2, QualifiersFacts
      <4>2. Qualifier(d) = <<>>
        BY <2>5 DEF Qualifier
      <4>3. PICK q \in Seq(QualComp) : q = Qualifiers(in[d])
        <5>1. in[d] \in 0 .. n
          BY <1>4
        <5> QED BY <1>1, <1>2, <5>1, QualifiersFacts
      <4>4. q \o <<>> = q
        OBVIOUS
      <4> QED BY <4>1, <4>2, <4>3, <4>4
    <3>2. ScopeOfIn(decls, in[d]) = ScopeOfIn(decls, e) \/ QualConfusion(in[d], e)
      BY <2>1, <2>3, <3>1 DEF SameQualifiers
    <3>3. QualConfusion(in[d], e) => QualConfusion(d, e)
      BY <2>4 DEF QualConfusion
    <3> QED BY <2>4, <2>5, <3>2, <3>3
  <2>6. CASE decls[d].kind # "linkage"
    <3>1. PICK f \in 0 .. n : /\ f = ScopeOfIn(decls, e) /\ Qualifiers(e) = Qualifiers(f) /\ Global(f)
                              /\ PathIn(decls, f) \subseteq PathIn(decls, e)
                              /\ f # 0 => f \in DOMAIN decls /\ decls[f].kind # "linkage"
      BY <1>6, <2>1
    <3>2. f # 0 /\ f \in DOMAIN decls /\ decls[f].kind # "linkage"
      BY <1>8, <2>1, <2>2, <2>6, <3>1
    <3>3. SameQualifiers(decls[d].in, decls[f].in)
      <4>1. decls[f].in \in 0 .. n /\ in[d] = decls[d].in
        <5>1. f \in 1 .. n /\ decls[f].in \in 0 .. f - 1
          BY <1>2, <1>4, <3>2
        <5> QED BY <1>4, <5>1
      <4>2. Global(decls[f].in)
        BY <1>7, <3>1, <3>2
      <4> QED BY <2>3, <4>1, <4>2
    <3>4. d = f \/ QualConfusion(d, f)
      BY <2>1, <2>2, <2>6, <3>1, <3>2, <3>3, SameQualifiersStep
    <3>5. QualConfusion(d, f) => QualConfusion(d, e)
      BY <3>1 DEF QualConfusion
    <3> QED BY <2>4, <2>6, <3>1, <3>4, <3>5
  <2> QED BY <2>5, <2>6
<1>11. \A d \in 0 .. n : d \in S
  <2>1. Tree(n, in)
    BY <1>4 DEF Tree
  <2> QED BY <1>9, <1>10, <2>1, TreeInduction
<1> QED BY <1>2, <1>5, <1>11

\* Two declarations that NamesApart allows to share a name.
Excused(d, e) ==
  \E a \in PathIn(decls, d) \ {0}, b \in PathIn(decls, e) \ {0} :
    a # b /\ (Confused(a, b) \/ (Incomplete(d) /\ Incomplete(e) /\ Untagged(a, b)))

\* What is printed of a type.
LEMMA TypeText ==
  ASSUME Shape(decls), NEW d \in 0 .. Len(decls)
  PROVE  printTypeName(d) = ctx[d][0].text /\ printTypeName(d) \in Seq(Comp) /\ printTypeName(d) # <<>>
<1>1. printTypeName(d) = ctx[d][0].text
  BY DEF printTypeName, printSimpleContext
<1>2. ctx[d] \in Texts
  BY CtxFacts
<1>3. ctx[d][0] \in Text
  BY <1>2 DEF Texts
<1>4. ctx[d][0].text # <<>>
  BY TextNotEmpty
<1> QED BY <1>1, <1>3, <1>4 DEF Text

\* An incomplete instance is not named like anything else.
LEMMA IncompleteApart ==
  ASSUME Shape(decls), NEW d \in DOMAIN decls, NEW e \in DOMAIN decls, Incomplete(d), ~Incomplete(e),
         decls[e].kind \in Types
  PROVE  printTypeName(d) # printTypeName(e)
<1>1. SUFFICES ASSUME printTypeName(d) = printTypeName(e) PROVE FALSE
  OBVIOUS
<1>2. d \in 0 .. Len(decls) /\ e \in 0 .. Len(decls)
  BY DEF Shape
<1>3. PICK u : u = ctx[d][0].text /\ u = ctx[e][0].text
  BY <1>1, <1>2, TypeText
<1>4. PICK q, k : k = <<"::", decls[d].ident>> /\ Adds(u, q, k)
  BY <1>3, IncompleteText
<1>5. PICK p : Closes(u, p, Key(e))
  <2>1. decls[e].kind # "linkage"
    BY DEF Types
  <2> QED BY <1>3, <2>1, FrontExists DEF Front
<1>6. Key(e) # <<"E">> /\ Key(e) # k
  BY <1>4, KeyFacts
<1>7. k # <<"E">>
  BY <1>4
<1>8. Closes(u, q, k)
  BY <1>4 DEF Closes
<1> QED BY <1>5, <1>6, <1>7, <1>8, FrontEqual

\* Types with the same name.
LEMMA TypesApart ==
  ASSUME Sound(decls), NEW d \in DOMAIN decls, NEW e \in DOMAIN decls, d # e, decls[d].kind \in Types,
         decls[e].kind \in Types, printTypeName(d) = printTypeName(e)
  PROVE  Excused(d, e)
<1>1. Shape(decls)
  BY DEF Sound
<1>2. d \in 0 .. Len(decls) /\ e \in 0 .. Len(decls) /\ d # 0 /\ e # 0
  BY <1>1 DEF Shape
<1>3. decls[d].kind # "linkage" /\ decls[e].kind # "linkage"
  BY DEF Types
<1>4. CASE ~Incomplete(d) /\ ~Incomplete(e)
  <2>1. SameText(d, e)
    BY <1>2, <1>4, SameTexts DEF Complete
  <2>2. ctx[d][0].text = ctx[e][0].text
    BY <1>1, <1>2, TypeText
  <2>3. ScopeOfIn(decls, d) = d /\ ScopeOfIn(decls, e) = e
    BY <1>3 DEF ScopeOfIn
  <2>4. Confusion(d, e)
    BY <2>1, <2>2, <2>3 DEF SameText
  <2> QED BY <2>4 DEF Confusion, Excused
<1>5. CASE Incomplete(d) /\ Incomplete(e)
  <2>1. PICK u, x, y : /\ u = printTypeName(d) /\ x = <<"::", decls[d].ident>> /\ y = <<"::", decls[e].ident>>
                       /\ Adds(u, Qualifiers(decls[d].in), x) /\ Adds(u, Qualifiers(decls[e].in), y)
    <3>1. printTypeName(d) = QualifiedName(d) /\ printTypeName(e) = QualifiedName(e)
      BY <1>1, <1>2, <1>5, TypeText, IncompleteText
    <3>2. /\ Adds(printTypeName(d), Qualifiers(decls[d].in), <<"::", decls[d].ident>>)
          /\ Adds(printTypeName(d), Qualifiers(decls[e].in), <<"::", decls[e].ident>>)
      <4>1. /\ Adds(QualifiedName(d), Qualifiers(decls[d].in), <<"::", decls[d].ident>>)
            /\ Adds(QualifiedName(e), Qualifiers(decls[e].in), <<"::", decls[e].ident>>)
        BY <1>1, <1>5, IncompleteText
      <4> QED BY <3>1, <4>1
    <3> QED BY <3>2
  <2>2. Qualifiers(decls[d].in) = Qualifiers(decls[e].in) /\ x = y
    BY <2>1, AddsEqual
  <2>3. decls[d].ident = decls[e].ident
    <3>1. x[2] = decls[d].ident /\ y[2] = decls[e].ident
      BY <2>1, TupleFacts
    <3> QED BY <2>2, <3>1
  <2>4. ASSUME NEW f \in DOMAIN decls, decls[f].kind = "instance"
        PROVE  Global(decls[f].in) /\ decls[f].in \in 0 .. Len(decls)
    <3>1. \A g \in PathIn(decls, decls[f].in) : KindIn(decls, g) # "function"
      BY <2>4 DEF Sound, Contained, Formed
    <3>2. Holds(decls, decls[f].in)
      BY ContextComplete
    <3>3. decls[f].in \in 0 .. f - 1 /\ f \in 1 .. Len(decls) /\ Len(decls) \in Nat
      BY <1>1 DEF Shape
    <3>4. decls[f].in \in 0 .. Len(decls)
      BY <3>3
    <3> QED BY <3>1, <3>2, <3>4 DEF Global
  <2>5. SameQualifiers(decls[d].in, decls[e].in)
    BY <1>5, <2>4, SameQualifiersAll DEF Incomplete
  <2>6. /\ PathIn(decls, d) = {d} \cup PathIn(decls, decls[d].in) /\ PathIn(decls, e) = {e} \cup PathIn(decls, decls[e].in)
        /\ ScopeIn(decls, d) = ScopeOfIn(decls, decls[d].in) /\ ScopeIn(decls, e) = ScopeOfIn(decls, decls[e].in)
    BY <1>1, PathFacts, ScopeFacts
  <2>7. CASE QualConfusion(decls[d].in, decls[e].in)
    BY <1>5, <2>6, <2>7 DEF QualConfusion, Excused
  <2>8. CASE ScopeIn(decls, d) = ScopeIn(decls, e)
    <3>1. Scope(d) = Scope(e)
      BY <2>8, InState
    <3>2. Confused(d, e)
      BY <1>5, <2>3, <3>1 DEF Confused, Incomplete
    <3> QED BY <1>2, <2>6, <3>2 DEF Excused
  <2> QED BY <2>2, <2>5, <2>6, <2>7, <2>8 DEF SameQualifiers
<1>6. CASE Incomplete(d) /\ ~Incomplete(e)
  BY <1>1, <1>6, IncompleteApart
<1>7. CASE ~Incomplete(d) /\ Incomplete(e)
  BY <1>1, <1>7, IncompleteApart
<1> QED BY <1>4, <1>5, <1>6, <1>7

\* Words of object names that no type name holds.
Heads == {<<"DTOR">>, <<"Cenum_const">>, <<"Build_field">>, <<"Nanon">>}

\* They are no components of type names, and different.
LEMMA HeadsApart ==
  /\ Heads \cap Comp = {}
  /\ <<"DTOR">> # <<"Cenum_const">> /\ <<"DTOR">> # <<"Build_field">> /\ <<"Cenum_const">> # <<"Build_field">>
<1>1. ASSUME NEW c \in Comp PROVE c[1] \in Marks \cup {"id", ".", "~", "mangled", "::", "<>"}
  BY DEF Comp
<1>2. \A h \in Heads : h[1] \in {"DTOR", "Cenum_const", "Build_field", "Nanon"}
  BY DEF Heads
<1>3. {"DTOR", "Cenum_const", "Build_field", "Nanon"} \cap (Marks \cup {"id", ".", "~", "mangled", "::", "<>"}) = {}
  BY DEF Marks
<1>4. Heads \cap Comp = {}
  BY <1>1, <1>2, <1>3
<1> QED BY <1>4

\* Name n is word h and text t.
Headed(n, h, t) ==
  t \in Seq(Comp) /\ Len(n) = Len(t) + 1 /\ n[1] = h /\ \A i \in 1 .. Len(t) : n[i + 1] = t[i]

\* Name n is word h, text t and component z.
Framed(n, h, t, z) ==
  /\ t \in Seq(Comp) /\ z \in Comp /\ Len(n) = Len(t) + 2 /\ n[1] = h /\ n[Len(t) + 2] = z
  /\ \A i \in 1 .. Len(t) : n[i + 1] = t[i]

\* Name n is word h, text s, Nanon and text t.
Joined(n, h, s, t) ==
  /\ s \in Seq(Comp) /\ t \in Seq(Comp) /\ Len(n) = Len(s) + Len(t) + 2 /\ n[1] = h /\ n[Len(s) + 2] = <<"Nanon">>
  /\ \A i \in 1 .. Len(s) : n[i + 1] = s[i]
  /\ \A i \in 1 .. Len(t) : n[i + Len(s) + 2] = t[i]

\* The elements of a concatenation.
LEMMA Concat ==
  ASSUME NEW S, NEW u \in Seq(S), NEW v \in Seq(S)
  PROVE  /\ u \o v \in Seq(S) /\ Len(u \o v) = Len(u) + Len(v)
         /\ \A i \in 1 .. Len(u) : (u \o v)[i] = u[i]
         /\ \A i \in 1 .. Len(v) : (u \o v)[Len(u) + i] = v[i]
OBVIOUS

\* The names of objects are put together that way.
LEMMA Joins ==
  ASSUME NEW h, NEW s \in Seq(Comp), NEW t \in Seq(Comp), NEW z \in Comp
  PROVE  /\ Headed(<<h>> \o t, h, t)
         /\ Framed(<<h>> \o t \o <<z>>, h, t, z)
         /\ Joined(<<h>> \o s \o <<<<"Nanon">>>> \o t, h, s, t)
<1>1. PICK S : S = Comp \cup {h, <<"Nanon">>}
  OBVIOUS
<1>2. h \in S /\ <<"Nanon">> \in S /\ z \in S /\ s \in Seq(S) /\ t \in Seq(S)
  BY <1>1
<1>3. \A x \in S : <<x>> \in Seq(S) /\ Len(<<x>>) = 1 /\ <<x>>[1] = x
  OBVIOUS
<1>4. PICK a \in Seq(S), m \in Seq(S), l \in Seq(S) :
        /\ a = <<h>> /\ m = <<<<"Nanon">>>> /\ l = <<z>>
        /\ Len(a) = 1 /\ Len(m) = 1 /\ Len(l) = 1 /\ a[1] = h /\ m[1] = <<"Nanon">> /\ l[1] = z
  <2>1. /\ <<h>> \in Seq(S) /\ Len(<<h>>) = 1 /\ <<h>>[1] = h
        /\ <<z>> \in Seq(S) /\ Len(<<z>>) = 1 /\ <<z>>[1] = z
    BY <1>2, <1>3
  <2>2. PICK w : w = <<"Nanon">> /\ w \in S
    BY <1>2
  <2>3. <<w>> \in Seq(S) /\ Len(<<w>>) = 1 /\ <<w>>[1] = w
    BY <1>3, <2>2
  <2>4. PICK k : k = <<w>> /\ k \in Seq(S) /\ Len(k) = 1 /\ k[1] = w
    BY <2>3
  <2>5. k = <<<<"Nanon">>>>
    BY <2>2, <2>4
  <2> QED BY <2>1, <2>2, <2>4, <2>5
<1>5. ASSUME NEW r \in Seq(Comp), r \in Seq(S)
      PROVE  /\ a \o r \in Seq(S) /\ Len(a \o r) = Len(r) + 1 /\ (a \o r)[1] = h
             /\ \A i \in 1 .. Len(r) : (a \o r)[i + 1] = r[i]
  <2>1. /\ a \o r \in Seq(S) /\ Len(a \o r) = 1 + Len(r)
        /\ \A i \in 1 .. 1 : (a \o r)[i] = a[i]
        /\ \A i \in 1 .. Len(r) : (a \o r)[1 + i] = r[i]
    BY <1>4, <1>5, Concat
  <2>2. 1 \in 1 .. 1 /\ Len(r) \in Nat /\ 1 + Len(r) = Len(r) + 1 /\ \A i \in 1 .. Len(r) : 1 + i = i + 1
    OBVIOUS
  <2> QED BY <1>4, <2>1, <2>2
<1>6. Headed(a \o t, h, t)
  BY <1>2, <1>5 DEF Headed
<1>7. Framed(a \o t \o l, h, t, z)
  <2>1. PICK u : u = a \o t /\ u \in Seq(S) /\ Len(u) = Len(t) + 1 /\ u[1] = h /\ \A i \in 1 .. Len(t) : u[i + 1] = t[i]
    BY <1>2, <1>5
  <2>2. PICK w : /\ w = u \o l /\ Len(w) = Len(u) + 1 /\ \A i \in 1 .. Len(u) : w[i] = u[i]
                 /\ \A i \in 1 .. 1 : w[Len(u) + i] = l[i]
    <3>1. PICK x : x = u \o l
      OBVIOUS
    <3>2. /\ Len(x) = Len(u) + 1 /\ \A i \in 1 .. Len(u) : x[i] = u[i]
          /\ \A i \in 1 .. 1 : x[Len(u) + i] = l[i]
      BY <1>4, <2>1, <3>1, Concat
    <3> QED BY <3>1, <3>2
  <2>3. PICK b \in Nat : b = Len(t)
    OBVIOUS
  <2>4. Len(w) = b + 2 /\ w[1] = h /\ w[b + 2] = z
    <3>1. 1 \in 1 .. 1 /\ 1 \in 1 .. b + 1 /\ (b + 1) + 1 = b + 2
      OBVIOUS
    <3> QED BY <1>4, <2>1, <2>2, <2>3, <3>1
  <2>5. \A i \in 1 .. b : w[i + 1] = t[i]
    <3>1. \A i \in 1 .. b : i + 1 \in 1 .. b + 1
      OBVIOUS
    <3> QED BY <2>1, <2>2, <2>3, <3>1
  <2> QED BY <2>1, <2>2, <2>3, <2>4, <2>5 DEF Framed
<1>8. Joined(a \o s \o m \o t, h, s, t)
  <2>1. PICK u : u = a \o s /\ u \in Seq(S) /\ Len(u) = Len(s) + 1 /\ u[1] = h /\ \A i \in 1 .. Len(s) : u[i + 1] = s[i]
    BY <1>2, <1>5
  <2>2. PICK v : /\ v = u \o m /\ v \in Seq(S) /\ Len(v) = Len(u) + 1 /\ \A i \in 1 .. Len(u) : v[i] = u[i]
                 /\ \A i \in 1 .. 1 : v[Len(u) + i] = m[i]
    <3>1. PICK x : x = u \o m
      OBVIOUS
    <3>2. /\ x \in Seq(S) /\ Len(x) = Len(u) + 1 /\ \A i \in 1 .. Len(u) : x[i] = u[i]
          /\ \A i \in 1 .. 1 : x[Len(u) + i] = m[i]
      BY <1>4, <2>1, <3>1, Concat
    <3> QED BY <3>1, <3>2
  <2>3. PICK w : /\ w = v \o t /\ Len(w) = Len(v) + Len(t) /\ \A i \in 1 .. Len(v) : w[i] = v[i]
                 /\ \A i \in 1 .. Len(t) : w[Len(v) + i] = t[i]
    <3>1. PICK x : x = v \o t
      OBVIOUS
    <3>2. /\ Len(x) = Len(v) + Len(t) /\ \A i \in 1 .. Len(v) : x[i] = v[i]
          /\ \A i \in 1 .. Len(t) : x[Len(v) + i] = t[i]
      <4>1. v \in Seq(S)
        BY <2>2
      <4>2. /\ Len(v \o t) = Len(v) + Len(t) /\ \A i \in 1 .. Len(v) : (v \o t)[i] = v[i]
            /\ \A i \in 1 .. Len(t) : (v \o t)[Len(v) + i] = t[i]
        BY <1>2, <4>1, Concat
      <4> QED BY <3>1, <4>2
    <3> QED BY <3>1, <3>2
  <2>4. PICK b \in Nat, c \in Nat : b = Len(s) /\ c = Len(t)
    OBVIOUS
  <2>5. Len(u) = b + 1 /\ Len(v) = b + 2
    BY <2>1, <2>2, <2>4
  <2>6. Len(w) = b + c + 2 /\ w[1] = h /\ w[b + 2] = <<"Nanon">>
    <3>1. 1 \in 1 .. 1 /\ 1 \in 1 .. b + 1 /\ 1 \in 1 .. b + 2 /\ b + 2 \in 1 .. b + 2
          /\ (b + 1) + 1 = b + 2 /\ (b + 2) + c = b + c + 2
      OBVIOUS
    <3> QED BY <1>4, <2>1, <2>2, <2>3, <2>4, <2>5, <3>1
  <2>7. \A i \in 1 .. b : w[i + 1] = s[i]
    <3>1. \A i \in 1 .. b : i + 1 \in 1 .. b + 1 /\ i + 1 \in 1 .. b + 2
      OBVIOUS
    <3> QED BY <2>1, <2>2, <2>3, <2>4, <2>5, <3>1
  <2>8. \A i \in 1 .. c : w[i + b + 2] = t[i]
    <3>1. \A i \in 1 .. c : (b + 2) + i = i + b + 2
      OBVIOUS
    <3>2. PICK k : k = Len(v) /\ k = b + 2
      BY <2>5
    <3>3. \A i \in 1 .. c : w[k + i] = t[i]
      BY <2>3, <2>4, <3>2
    <3> QED BY <3>1, <3>2, <3>3
  <2> QED BY <2>1, <2>2, <2>3, <2>4, <2>6, <2>7, <2>8 DEF Joined
<1>9. Headed(<<h>> \o t, h, t)
  BY <1>4, <1>6
<1>10. Framed(<<h>> \o t \o <<z>>, h, t, z)
  BY <1>4, <1>7
<1>11. Joined(<<h>> \o s \o <<<<"Nanon">>>> \o t, h, s, t)
  BY <1>4, <1>8
<1> QED BY <1>9, <1>10, <1>11

\* Sequences with the same elements.
LEMMA SeqEqual ==
  ASSUME NEW p \in Seq(Comp), NEW q \in Seq(Comp), Len(p) = Len(q), \A i \in 1 .. Len(p) : p[i] = q[i]
  PROVE  p = q
OBVIOUS

\* The text of a headed name is determined.
LEMMA HeadedEqual ==
  ASSUME NEW n, NEW h, NEW s, NEW t, Headed(n, h, s), Headed(n, h, t)
  PROVE  s = t
<1>1. s \in Seq(Comp) /\ t \in Seq(Comp) /\ Len(s) = Len(t)
  BY DEF Headed
<1>2. \A i \in 1 .. Len(s) : s[i] = t[i]
  BY <1>1 DEF Headed
<1> QED BY <1>1, <1>2, SeqEqual

\* The text of a framed name is determined.
LEMMA FramedEqual ==
  ASSUME NEW n, NEW h, NEW s, NEW t, NEW y, NEW z, Framed(n, h, s, y), Framed(n, h, t, z)
  PROVE  s = t
<1>1. s \in Seq(Comp) /\ t \in Seq(Comp) /\ Len(s) = Len(t)
  BY DEF Framed
<1>2. \A i \in 1 .. Len(s) : s[i] = t[i]
  BY <1>1 DEF Framed
<1> QED BY <1>1, <1>2, SeqEqual

\* A field with a name is not named like one without: Nanon is no component.
LEMMA NotJoined ==
  ASSUME NEW n, NEW h, NEW g, NEW s, NEW t, NEW r, NEW z, Framed(n, h, r, z)
  PROVE  ~Joined(n, g, s, t)
<1>1. SUFFICES ASSUME Joined(n, g, s, t) PROVE FALSE
  OBVIOUS
<1>2. PICK a \in Nat, b \in Nat, c \in Nat : a = Len(s) /\ b = Len(t) /\ c = Len(r)
  BY <1>1 DEF Joined, Framed
<1>3. a + b + 2 = c + 2
  BY <1>1, <1>2 DEF Joined, Framed
<1>4. n[a + 2] \in Comp
  <2>1. CASE a = c
    BY <1>2, <2>1 DEF Framed
  <2>2. CASE a < c
    <3>1. a + 1 \in 1 .. c /\ (a + 1) + 1 = a + 2
      BY <2>2
    <3>2. n[(a + 1) + 1] = r[a + 1] /\ r[a + 1] \in Comp
      BY <1>2, <3>1 DEF Framed
    <3> QED BY <3>1, <3>2
  <2> QED BY <1>3, <2>1, <2>2
<1>5. n[a + 2] = <<"Nanon">>
  BY <1>1, <1>2 DEF Joined
<1> QED BY <1>4, <1>5, HeadsApart DEF Heads

\* The type of a field without a name is determined.
LEMMA JoinedEqual ==
  ASSUME NEW n, NEW h, NEW s, NEW t, NEW p, NEW q, Joined(n, h, s, t), Joined(n, h, p, q)
  PROVE  t = q
<1>1. ASSUME NEW u, NEW v, NEW x, NEW y, Joined(n, h, u, v), Joined(n, h, x, y), Len(u) < Len(x)
      PROVE  FALSE
  <2>1. PICK a \in Nat, b \in Nat : a = Len(u) /\ b = Len(x) /\ a < b
    BY <1>1 DEF Joined
  <2>2. a + 1 \in 1 .. b /\ (a + 1) + 1 = a + 2
    BY <2>1
  <2>3. n[(a + 1) + 1] = x[a + 1] /\ x[a + 1] \in Comp
    BY <1>1, <2>1, <2>2 DEF Joined
  <2>4. n[a + 2] = <<"Nanon">>
    BY <1>1, <2>1 DEF Joined
  <2> QED BY <2>2, <2>3, <2>4, HeadsApart DEF Heads
<1>2. PICK a \in Nat, b \in Nat, c \in Nat, e \in Nat : a = Len(s) /\ b = Len(t) /\ c = Len(p) /\ e = Len(q)
  BY DEF Joined
<1>3. a = c
  BY <1>1, <1>2
<1>4. b = e
  <2>1. a + b + 2 = c + e + 2
    BY <1>2 DEF Joined
  <2> QED BY <1>3, <2>1
<1>5. t \in Seq(Comp) /\ q \in Seq(Comp)
  BY DEF Joined
<1>6. \A i \in 1 .. b : t[i] = q[i]
  BY <1>2, <1>3, <1>4 DEF Joined
<1> QED BY <1>2, <1>4, <1>5, <1>6, SeqEqual

\* Name n is that of a type with text t, or of its destructor, its first
\* enumerator, its first field, or the field it is the type of.
Form(k, n, t) ==
  \/ k = 1 /\ n = t /\ t \in Seq(Comp) /\ t # <<>>
  \/ k = 2 /\ Headed(n, <<"DTOR">>, t)
  \/ k = 3 /\ \E z : Framed(n, <<"Cenum_const">>, t, z)
  \/ k = 4 /\ \E z : Framed(n, <<"Build_field">>, t, z)
  \/ k = 5 /\ \E s : Joined(n, <<"Build_field">>, s, t)

\* The first component tells the forms apart, but for fields.
LEMMA FormHead ==
  ASSUME NEW k, NEW n, NEW t, Form(k, n, t)
  PROVE  /\ k = 1 => n[1] \in Comp
         /\ k = 2 => n[1] = <<"DTOR">>
         /\ k = 3 => n[1] = <<"Cenum_const">>
         /\ k \in {4, 5} => n[1] = <<"Build_field">>
         /\ k \in 1 .. 5
<1>1. k = 1 => n[1] \in Comp
  BY DEF Form
<1>2. k = 2 => n[1] = <<"DTOR">>
  BY DEF Form, Headed
<1>3. k = 3 => n[1] = <<"Cenum_const">>
  BY DEF Form, Framed
<1>4. k \in {4, 5} => n[1] = <<"Build_field">>
  BY DEF Form, Framed, Joined
<1>5. k \in 1 .. 5
  BY DEF Form
<1> QED BY <1>1, <1>2, <1>3, <1>4, <1>5

\* Objects with the same name belong to types with the same name.
LEMMA FormsEqual ==
  ASSUME NEW j, NEW k, NEW n, NEW s, NEW t, Form(j, n, s), Form(k, n, t)
  PROVE  s = t
<1>1. j \in 1 .. 5 /\ k \in 1 .. 5
  BY FormHead
<1>2. <<"DTOR">> \notin Comp /\ <<"Cenum_const">> \notin Comp /\ <<"Build_field">> \notin Comp
  BY HeadsApart DEF Heads
<1>3. PICK a, b, c : a = <<"DTOR">> /\ b = <<"Cenum_const">> /\ c = <<"Build_field">>
  OBVIOUS
<1>4. a # b /\ a # c /\ b # c /\ a \notin Comp /\ b \notin Comp /\ c \notin Comp
  BY <1>2, <1>3, HeadsApart
<1>5. /\ (j = 1 => n[1] \in Comp) /\ (j = 2 => n[1] = a) /\ (j = 3 => n[1] = b) /\ (j \in {4, 5} => n[1] = c)
      /\ (k = 1 => n[1] \in Comp) /\ (k = 2 => n[1] = a) /\ (k = 3 => n[1] = b) /\ (k \in {4, 5} => n[1] = c)
  BY <1>3, FormHead
<1>6. j = k \/ (j \in {4, 5} /\ k \in {4, 5})
  BY <1>1, <1>4, <1>5
<1>7. CASE j = 1 /\ k = 1
  BY <1>7 DEF Form
<1>8. CASE j = 2 /\ k = 2
  BY <1>8, HeadedEqual DEF Form
<1>9. CASE j = 3 /\ k = 3
  <2>1. PICK y, z : Framed(n, b, s, y) /\ Framed(n, b, t, z)
    BY <1>3, <1>9 DEF Form
  <2> QED BY <2>1, FramedEqual
<1>10. CASE j = 4 /\ k = 4
  <2>1. PICK y, z : Framed(n, c, s, y) /\ Framed(n, c, t, z)
    BY <1>3, <1>10 DEF Form
  <2> QED BY <2>1, FramedEqual
<1>11. CASE j = 5 /\ k = 5
  <2>1. PICK y, z : Joined(n, c, y, s) /\ Joined(n, c, z, t)
    BY <1>3, <1>11 DEF Form
  <2> QED BY <2>1, JoinedEqual
<1>12. CASE j = 4 /\ k = 5
  <2>1. PICK y, z : Framed(n, c, s, y) /\ Joined(n, c, z, t)
    BY <1>3, <1>12 DEF Form
  <2> QED BY <2>1, NotJoined
<1>13. CASE j = 5 /\ k = 4
  <2>1. PICK y, z : Framed(n, c, t, y) /\ Joined(n, c, z, s)
    BY <1>3, <1>13 DEF Form
  <2> QED BY <2>1, NotJoined
<1> QED BY <1>1, <1>6, <1>7, <1>8, <1>9, <1>10, <1>11, <1>12, <1>13

\* The names of a declaration.
LEMMA NameForms ==
  ASSUME Sound(decls), NEW d \in DOMAIN decls, NEW n \in NamesOf(d)
  PROVE  \/ decls[d].kind \in Types /\ \E k : Form(k, n, printTypeName(d))
         \/ decls[d].kind = "function" /\ n = printObjName(d)
<1>1. Shape(decls) /\ Contained(decls)
  BY DEF Sound
<1>2. d \in 0 .. Len(decls) /\ decls[d].in \in 0 .. Len(decls) /\ decls[d] \in DeclType
  <2>1. decls[d] \in DeclType /\ decls[d].in \in 0 .. d - 1 /\ d \in 1 .. Len(decls) /\ Len(decls) \in Nat
    BY <1>1 DEF Shape
  <2> QED BY <2>1
<1>3. PICK t \in Seq(Comp), s \in Seq(Comp) : t = printTypeName(d) /\ s = printTypeName(decls[d].in) /\ t # <<>>
  BY <1>1, <1>2, TypeText
<1>4. PICK z \in Comp : z = Id(decls[d].first)
  <2>1. decls[d].first \in Parts
    BY <1>2 DEF DeclType, Parts
  <2>2. Id(decls[d].first) \in Comp
    BY <2>1, PartIn DEF Id
  <2> QED BY <2>2
<1>5. decls[d].member => decls[d].kind = "record"
  BY <1>1 DEF Contained, Formed
<1>6. Form(1, t, t)
  BY <1>3 DEF Form
<1>7. Form(2, <<<<"DTOR">>>> \o t, t)
  BY Joins DEF Form
<1>8. Form(3, <<<<"Cenum_const">>>> \o t \o <<z>>, t)
  BY Joins DEF Form
<1>9. Form(4, <<<<"Build_field">>>> \o t \o <<z>>, t)
  BY Joins DEF Form
<1>10. Form(5, <<<<"Build_field">>>> \o s \o <<<<"Nanon">>>> \o t, t)
  BY Joins DEF Form
<1>11. \/ decls[d].kind \in Types /\ n = t
       \/ decls[d].kind \in Classes /\ n = Destructor(d)
       \/ decls[d].kind = "enum" /\ n = EnumConstant(d)
       \/ decls[d].kind = "function" /\ n = printObjName(d)
       \/ decls[d].kind \in Classes /\ n = printField(d)
       \/ decls[d].member /\ n = AnonymousField(d)
  BY <1>3 DEF NamesOf
<1>12. Form(2, Destructor(d), t)
  BY <1>3, <1>7 DEF Destructor
<1>13. Form(3, EnumConstant(d), t)
  BY <1>3, <1>4, <1>8 DEF EnumConstant
<1>14. Form(4, printField(d), t)
  BY <1>3, <1>4, <1>9 DEF printField
<1>15. Form(5, AnonymousField(d), t)
  BY <1>3, <1>10 DEF AnonymousField
<1>16. Classes \subseteq Types /\ "enum" \in Types /\ "record" \in Types
  BY DEF Classes, Types
<1> QED BY <1>3, <1>5, <1>6, <1>11, <1>12, <1>13, <1>14, <1>15, <1>16

\* The name of a function is one component, of clang or of extern "C".
Linked(d) == ExternIn(decls, d) /\ printObjName(d) = <<Id(decls[d].ident)>>

\* The name of a function is one component.
LEMMA ObjName ==
  ASSUME Shape(decls), NEW d \in DOMAIN decls
  PROVE  /\ Linked(d) \/ printObjName(d) = <<Mangled(d)>>
         /\ \E x \in Comp : printObjName(d) = <<x>> /\ x[1] \in {"id", "mangled"}
<1>1. Linked(d) \/ printObjName(d) = <<Mangled(d)>>
  BY Operators DEF printObjName, Linked
<1>2. Id(decls[d].ident) \in Comp /\ Mangled(d) \in Comp
  <2>1. decls[d].ident \in Parts /\ d \in Parts
    <3>1. decls[d] \in DeclType /\ d \in Nat
      BY DEF Shape
    <3>2. decls[d].ident \in Idents \cup {""}
      BY <3>1 DEF DeclType
    <3> QED BY <3>1, <3>2 DEF Parts
  <2> QED BY <2>1, PartIn DEF Id, Mangled
<1>3. Id(decls[d].ident)[1] = "id" /\ Mangled(d)[1] = "mangled"
  BY DEF Id, Mangled
<1> QED BY <1>1, <1>2, <1>3 DEF Linked

\* A function is not named like a type.
LEMMA FunctionApart ==
  ASSUME Sound(decls), NEW d \in DOMAIN decls, NEW e \in DOMAIN decls, decls[d].kind \in Types,
         NEW k, NEW n, Form(k, n, printTypeName(d))
  PROVE  n # printObjName(e)
<1>1. SUFFICES ASSUME n = printObjName(e) PROVE FALSE
  OBVIOUS
<1>2. Shape(decls)
  BY DEF Sound
<1>3. PICK x \in Comp : n = <<x>> /\ x[1] \in {"id", "mangled"}
  BY <1>1, <1>2, ObjName
<1>4. Len(n) = 1 /\ n[1] = x
  BY <1>3
<1>5. k = 1
  BY <1>4, FormHead, HeadsApart DEF Heads
<1>6. n = ctx[d][0].text
  <2>1. d \in 0 .. Len(decls)
    BY <1>2 DEF Shape
  <2> QED BY <1>2, <1>5, <2>1, TypeText DEF Form
<1>7. CASE Incomplete(d)
  <2>1. PICK q, c : c = <<"::", decls[d].ident>> /\ Adds(n, q, c)
    BY <1>2, <1>6, <1>7, IncompleteText
  <2>2. PICK m \in Nat : m = Len(q) /\ Len(n) = m + 1 /\ n[m + 1] = c
    BY <2>1 DEF Adds
  <2>3. x = c
    BY <1>4, <2>2
  <2>4. x[1] = "::"
    BY <2>1, <2>3, TupleFacts
  <2> QED BY <1>3, <2>4
<1>8. CASE ~Incomplete(d)
  <2>1. PICK q \in Seq(Comp) : q # <<>> /\ Closes(n, q, Key(d))
    <3>1. decls[d].kind # "linkage" /\ decls[d].kind # "function"
      BY DEF Types
    <3> QED BY <1>2, <1>6, <1>8, <3>1, FrontExists DEF Front
  <2>2. Len(q) \in Nat /\ Len(q) # 0
    BY <2>1
  <2>3. Len(n) = Len(q) + 1 \/ Len(n) = (Len(q) + 1) + 1
    BY <2>1 DEF Closes, Adds
  <2> QED BY <1>4, <2>2, <2>3
<1> QED BY <1>7, <1>8

\* Functions have different names.
LEMMA FunctionsApart ==
  ASSUME Sound(decls), NEW d \in DOMAIN decls, NEW e \in DOMAIN decls, d < e, decls[d].kind = "function",
         decls[e].kind = "function"
  PROVE  printObjName(d) # printObjName(e)
<1>1. SUFFICES ASSUME printObjName(d) = printObjName(e) PROVE FALSE
  OBVIOUS
<1>2. Shape(decls) /\ LinkersApart(decls)
  BY DEF Sound
<1>3. PICK u : u = printObjName(d) /\ u = printObjName(e)
  BY <1>1
<1>4. \/ ExternIn(decls, d) /\ u[1] = Id(decls[d].ident)
      \/ u[1] = Mangled(d)
  <2>1. Linked(d) \/ printObjName(d) = <<Mangled(d)>>
    BY <1>2, ObjName
  <2> QED BY <1>3, <2>1, TupleFacts DEF Linked
<1>5. \/ ExternIn(decls, e) /\ u[1] = Id(decls[e].ident)
      \/ u[1] = Mangled(e)
  <2>1. Linked(e) \/ printObjName(e) = <<Mangled(e)>>
    BY <1>2, ObjName
  <2> QED BY <1>3, <2>1, TupleFacts DEF Linked
<1>6. \A x, y : Id(x) # Mangled(y) /\ (Id(x) = Id(y) => x = y)
  <2>1. \A x : Id(x)[1] = "id" /\ Id(x)[2] = x /\ Mangled(x)[1] = "mangled"
    BY DEF Id, Mangled
  <2> QED BY <2>1
<1>7. d # e
  <2>1. d \in Nat /\ e \in Nat
    BY <1>2 DEF Shape
  <2> QED BY <2>1
<1>8. Mangled(d) # Mangled(e)
  BY <1>7, MangledEqual
<1>9. ExternIn(decls, d) /\ ExternIn(decls, e) => decls[d].ident # decls[e].ident
  BY <1>2 DEF LinkersApart, OneLinker
<1> QED BY <1>4, <1>5, <1>6, <1>8, <1>9

\* The invariant implies NamesApart.
LEMMA SoundNames ==
  ASSUME Sound(decls)
  PROVE  NamesApart
<1>1. ASSUME NEW d \in DOMAIN decls, NEW e \in DOMAIN decls, d < e, NEW n, n \in NamesOf(d), n \in NamesOf(e)
      PROVE  Excused(d, e)
  <2>1. \/ decls[d].kind \in Types /\ \E k : Form(k, n, printTypeName(d))
        \/ decls[d].kind = "function" /\ n = printObjName(d)
    BY <1>1, NameForms
  <2>2. \/ decls[e].kind \in Types /\ \E k : Form(k, n, printTypeName(e))
        \/ decls[e].kind = "function" /\ n = printObjName(e)
    BY <1>1, NameForms
  <2>3. CASE decls[d].kind \in Types /\ decls[e].kind \in Types
    <3>1. "function" \notin Types
      BY DEF Types
    <3>2. PICK j, k : Form(j, n, printTypeName(d)) /\ Form(k, n, printTypeName(e))
      BY <2>1, <2>2, <2>3, <3>1
    <3>3. printTypeName(d) = printTypeName(e)
      BY <3>2, FormsEqual
    <3>4. d # e
      <4>1. d \in Nat /\ e \in Nat
        BY DEF Sound, Shape
      <4> QED BY <1>1, <4>1
    <3> QED BY <2>3, <3>3, <3>4, TypesApart
  <2>4. CASE decls[d].kind = "function" /\ decls[e].kind = "function"
    <3>1. "function" \notin Types
      BY DEF Types
    <3> QED BY <1>1, <2>1, <2>2, <2>4, <3>1, FunctionsApart
  <2>5. CASE decls[d].kind \in Types /\ decls[e].kind = "function"
    <3>1. "function" \notin Types
      BY DEF Types
    <3> QED BY <2>1, <2>2, <2>5, <3>1, FunctionApart
  <2>6. CASE decls[d].kind = "function" /\ decls[e].kind \in Types
    <3>1. "function" \notin Types
      BY DEF Types
    <3> QED BY <2>1, <2>2, <2>6, <3>1, FunctionApart
  <2> QED BY <2>1, <2>2, <2>3, <2>4, <2>5, <2>6
<1>2. PICK names : names = [d \in DOMAIN decls |-> NamesOf(d)]
  OBVIOUS
<1>3. ASSUME NEW d \in DOMAIN decls, NEW e \in DOMAIN decls, d < e, names[d] \cap names[e] # {}
      PROVE  \E a \in Path(d) \ {0}, b \in Path(e) \ {0} :
               a # b /\ (Confused(a, b) \/ (Incomplete(d) /\ Incomplete(e) /\ Untagged(a, b)))
  <2>1. Excused(d, e)
    BY <1>1, <1>2, <1>3
  <2>2. Path(d) = PathIn(decls, d) /\ Path(e) = PathIn(decls, e)
    BY InState
  <2> QED BY <2>1, <2>2 DEF Excused
<1> QED BY <1>2, <1>3 DEF NamesApart

\* Types, enumerators, destructors, functions and fields of any source have
\* different names, unless two declarations that they are in, or are, are among
\* those the scheme confuses.
THEOREM NamesKeptApart == Spec => []NamesApart
<1>1. Sound(decls) => NamesApart
  BY SoundNames
<1> QED BY <1>1, Accepted, PTL
================================================================================

---------------------------- MODULE PrintTypeProofs ----------------------------
(***************************************************************************)
(* Proofs about the type printer (PrintType), for types of any number of   *)
(* layers.                                                                 *)
(*                                                                         *)
(* The argument: an invariant on the layers of a type, Sound, that every   *)
(* action keeps; what a sound type is printed as, by induction from each   *)
(* layer to the part of it that its handler prints; and what Coq reads, by *)
(* induction on the terms.  The relation Means between a type that Coq has *)
(* and one that clang has holds from part to whole.                        *)
(***************************************************************************)
EXTENDS PrintType, SequenceTheorems, WellFoundedInduction, TLAPS

(***************************************************************************)
(* Numbers.                                                                *)
(***************************************************************************)

\* Every set of numbers has a least one.
LEMMA NatLeast ==
  ASSUME NEW T, T \subseteq Nat, T # {}
  PROVE  \E x \in T : \A y \in T : x <= y
<1>1. IsWellFoundedOn(OpToRel(<, Nat), Nat)
  BY NatLessThanWellFounded
<1>2. PICK x \in T : \A y \in T : ~ (<<y, x>> \in OpToRel(<, Nat))
  BY <1>1, WFMin
<1>3. \A y \in T : ~(y < x)
  BY <1>2 DEF OpToRel
<1> QED BY <1>3

\* Each of n layers has a part below it.
Tree(n, in) == \A d \in 1 .. n : in[d] \in 0 .. d - 1

\* Induction from part to whole.
LEMMA TreeInduction ==
  ASSUME NEW n \in Nat, NEW in, Tree(n, in),
         NEW S, 0 \in S, \A d \in 1 .. n : in[d] \in S => d \in S
  PROVE  \A d \in 0 .. n : d \in S
<1> DEFINE T == {d \in 0 .. n : d \notin S}
<1>1. SUFFICES ASSUME T # {} PROVE FALSE
  OBVIOUS
<1>2. T \subseteq Nat
  OBVIOUS
<1>3. PICK x \in T : \A y \in T : x <= y
  BY <1>1, <1>2, NatLeast
<1>4. x \in 1 .. n /\ x \notin S
  BY <1>3
<1>5. in[x] \in 0 .. x - 1
  BY <1>4 DEF Tree
<1>6. in[x] \in 0 .. n /\ ~(x <= in[x])
  BY <1>4, <1>5
<1>7. in[x] \in S
  BY <1>3, <1>6
<1> QED BY <1>4, <1>7

\* F gives each layer a value in U from one for its part.
Steps(n, U, F) == \A d \in 1 .. n : \A v \in U : F[d][v] \in U

\* Function f gives z to 0 and F of the value of its part to the rest.
Follows(f, n, in, U, z, F) ==
  f \in [0 .. n -> U] /\ f[0] = z /\ \A d \in 1 .. n : f[d] = F[d][f[in[d]]]

\* A function of the layers, defined by the value for the part.
LEMMA TreeRecursion ==
  ASSUME NEW n \in Nat, NEW in, Tree(n, in), NEW U, NEW z \in U, NEW F, Steps(n, U, F)
  PROVE  \E f : Follows(f, n, in, U, z, F)
<1> USE DEF Tree, Steps
<1> DEFINE Upto(m) == {f \in [0 .. m -> U] : f[0] = z /\ \A d \in 1 .. m : f[d] = F[d][f[in[d]]]}
           T == {m \in 0 .. n : Upto(m) = {}}
<1>1. Upto(0) # {}
  <2>1. [d \in 0 .. 0 |-> z] \in Upto(0)
    OBVIOUS
  <2> QED BY <2>1
<1>2. ASSUME NEW m \in 1 .. n, Upto(m - 1) # {} PROVE Upto(m) # {}
  <2>1. PICK f \in Upto(m - 1) : TRUE
    BY <1>2
  <2>2. f \in [0 .. m - 1 -> U] /\ f[0] = z /\ \A d \in 1 .. m - 1 : f[d] = F[d][f[in[d]]]
    BY <2>1
  <2>3. in[m] \in 0 .. m - 1
    OBVIOUS
  <2>4. PICK v : v = F[m][f[in[m]]]
    OBVIOUS
  <2>5. v \in U
    <3>1. f[in[m]] \in U
      BY <2>2, <2>3
    <3> QED BY <2>4, <3>1
  <2>6. PICK g : g = [d \in 0 .. m |-> IF d = m THEN v ELSE f[d]]
    OBVIOUS
  <2>7. g \in [0 .. m -> U]
    <3>1. ASSUME NEW d \in 0 .. m PROVE (IF d = m THEN v ELSE f[d]) \in U
      <4>1. d # m => d \in 0 .. m - 1
        OBVIOUS
      <4> QED BY <2>2, <2>5, <4>1
    <3> QED BY <2>6, <3>1
  <2>8. (\A d \in 0 .. m - 1 : g[d] = f[d]) /\ g[m] = v
    <3>1. \A d \in 0 .. m - 1 : d \in 0 .. m /\ d # m
      OBVIOUS
    <3>2. m \in 0 .. m
      OBVIOUS
    <3> QED BY <2>6, <3>1, <3>2
  <2>9. g[0] = z
    <3>1. 0 \in 0 .. m - 1
      OBVIOUS
    <3> QED BY <2>2, <2>8, <3>1
  <2>10. ASSUME NEW d \in 1 .. m PROVE g[d] = F[d][g[in[d]]]
    <3>1. CASE d = m
      <4>1. g[in[m]] = f[in[m]]
        BY <2>3, <2>8
      <4> QED BY <2>4, <2>8, <3>1, <4>1
    <3>2. CASE d # m
      <4>1. d \in 1 .. m - 1 /\ d \in 0 .. m - 1 /\ in[d] \in 0 .. d - 1
        BY <3>2
      <4>2. in[d] \in 0 .. m - 1
        BY <4>1
      <4> QED BY <2>2, <2>8, <4>1, <4>2
    <3> QED BY <3>1, <3>2
  <2>11. g \in Upto(m)
    BY <2>7, <2>9, <2>10
  <2> QED BY <2>11
<1>3. Upto(n) # {}
  <2> HIDE DEF Upto
  <2>1. SUFFICES ASSUME Upto(n) = {} PROVE FALSE
    OBVIOUS
  <2>2. T \subseteq Nat /\ n \in T
    BY <2>1
  <2>3. PICK x \in T : \A y \in T : x <= y
    BY <2>2, NatLeast
  <2>4. x \in 1 .. n /\ Upto(x) = {}
    BY <1>1, <2>3
  <2>5. x - 1 \in 0 .. n /\ ~(x <= x - 1)
    BY <2>4
  <2>6. Upto(x - 1) # {}
    BY <2>3, <2>5
  <2> QED BY <1>2, <2>4, <2>6
<1> QED BY <1>3 DEF Follows

\* Every set of numbers up to n that is not empty has a greatest one.
LEMMA Greatest ==
  ASSUME NEW n \in Nat, NEW T, T \subseteq 1 .. n, T # {}
  PROVE  \E x \in T : \A y \in T : y <= x
<1> DEFINE D == {n - y : y \in T}
<1>1. D \subseteq Nat /\ D # {}
  <2>1. ASSUME NEW y \in T PROVE n - y \in Nat
    <3>1. y \in 1 .. n
      OBVIOUS
    <3> QED BY <3>1
  <2> QED BY <2>1
<1>2. PICK d \in D : \A e \in D : d <= e
  BY <1>1, NatLeast
<1>3. PICK x \in T : d = n - x
  BY <1>2
<1>4. ASSUME NEW y \in T PROVE y <= x
  <2>1. n - y \in D
    OBVIOUS
  <2> QED BY <1>2, <1>3, <2>1
<1> QED BY <1>4

(***************************************************************************)
(* Canonical types.                                                        *)
(***************************************************************************)
Heads == (Bases \ {"UnaryTransformType"}) \cup Derived

HeadType == [head : Heads, quals : SUBSET Quals]

CType == Seq(HeadType)

Unsized == {"IncompleteArrayType", "VariableArrayType"}

\* The heads that take no qualifiers.
Frees == References \cup Functions

\* The rules for a head and the one below it.
Joined(h, g) ==
  /\ h.head \in Arrays => g.head \notin Frees \cup Unsized
  /\ h.head \in Functions => g.head \notin Arrays
  /\ h.head = "FunctionTaking" => g.quals = {}

\* The canonical types of clang.
WF(c) ==
  /\ c \in CType /\ Len(c) >= 1
  /\ \A i \in 1 .. Len(c) : c[i].head \in Derived => i < Len(c)
  /\ \A i \in 1 .. Len(c) : c[i].head \in Arrays \cup Frees => c[i].quals = {}
  /\ \A i \in 1 .. Len(c) - 1 : Joined(c[i], c[i + 1])

\* The parts of a canonical type have their types.
LEMMA HeadFacts ==
  ASSUME NEW c \in CType, NEW i \in 1 .. Len(c)
  PROVE  c[i] \in HeadType /\ c[i].head \in Heads /\ c[i].quals \in SUBSET Quals
         /\ c[i] = [head |-> c[i].head, quals |-> c[i].quals]
<1>1. c[i] \in HeadType
  BY DEF CType
<1> QED BY <1>1 DEF HeadType

\* Element finds the end of the arrays.
LEMMA ElementFacts ==
  ASSUME NEW c, WF(c)
  PROVE  /\ Element(c) \in 1 .. Len(c)
         /\ c[Element(c)].head \notin Arrays
         /\ \A j \in 1 .. Element(c) - 1 : c[j].head \in Arrays
<1> DEFINE T == {i \in 1 .. Len(c) : c[i].head \notin Arrays}
<1>1. Len(c) \in Nat /\ Len(c) \in 1 .. Len(c)
  BY DEF WF, CType
<1>2. c[Len(c)].head \notin Arrays
  <2>1. c[Len(c)].head \notin Derived
    BY <1>1 DEF WF
  <2> QED BY <2>1 DEF Derived
<1>3. T \subseteq Nat /\ T # {}
  BY <1>1, <1>2
<1>4. PICK m \in T : \A y \in T : m <= y
  BY <1>3, NatLeast
<1>5. m \in 1 .. Len(c) /\ c[m].head \notin Arrays /\ \A j \in 1 .. m - 1 : c[j].head \in Arrays
  <2>1. ASSUME NEW j \in 1 .. m - 1 PROVE c[j].head \in Arrays
    <3>1. j \in 1 .. Len(c) /\ ~(m <= j)
      BY <1>1, <1>4
    <3> QED BY <1>4, <3>1
  <2> QED BY <1>4, <2>1
<1> QED BY <1>5, Zenon DEF Element

\* No other place is the end of the arrays.
LEMMA ElementIs ==
  ASSUME NEW c, WF(c), NEW m \in 1 .. Len(c), c[m].head \notin Arrays,
         \A j \in 1 .. m - 1 : c[j].head \in Arrays
  PROVE  Element(c) = m
<1>1. PICK e : e = Element(c) /\ e \in 1 .. Len(c) /\ c[e].head \notin Arrays /\ \A j \in 1 .. e - 1 : c[j].head \in Arrays
  BY ElementFacts
<1>2. Len(c) \in Nat
  BY DEF WF, CType
<1>3. ~(e < m) /\ ~(m < e)
  BY <1>1, <1>2
<1> QED BY <1>1, <1>2, <1>3

\* y has the heads of x, and its qualifiers save at place at.
SameHeads(x, y) == Len(y) = Len(x) /\ \A i \in 1 .. Len(x) : y[i].head = x[i].head

\* What Qualified returns.
Qualifies(c, q, y) ==
  /\ y \in CType /\ SameHeads(c, y)
  /\ \A i \in 1 .. Len(c) : i # Element(c) => y[i] = c[i]
  /\ y[Element(c)].quals = IF c[Element(c)].head \in Frees THEN {} ELSE c[Element(c)].quals \cup q

\* Qualified changes the qualifiers of the elements only.
LEMMA QualifiedFacts ==
  ASSUME NEW c, WF(c), NEW q \in SUBSET Quals
  PROVE  Qualifies(c, q, Qualified(c, q))
<1>1. PICK e : e = Element(c)
  OBVIOUS
<1>2. e \in 1 .. Len(c) /\ c \in CType
  BY <1>1, ElementFacts DEF WF
<1>3. c[e] \in HeadType /\ c[e].head \in Heads /\ c[e].quals \in SUBSET Quals
  BY <1>2, HeadFacts
<1>4. CASE c[e].head \in Frees
  <2>1. Qualified(c, q) = c
    BY <1>1, <1>4 DEF Qualified, Frees
  <2>2. c[e].quals = {}
    BY <1>2, <1>4 DEF WF
  <2> QED BY <1>1, <1>2, <1>4, <2>1, <2>2 DEF Qualifies, SameHeads
<1>5. CASE c[e].head \notin Frees
  <2>1. PICK y : y = [c EXCEPT ![e].quals = @ \cup q]
    OBVIOUS
  <2>2. Qualified(c, q) = y
    BY <1>1, <1>5, <2>1 DEF Qualified, Frees
  <2>3. PICK h : h = [head |-> c[e].head, quals |-> c[e].quals \cup q]
    OBVIOUS
  <2>4. h \in HeadType
    BY <1>3, <2>3 DEF HeadType
  <2>5. y = [c EXCEPT ![e] = h]
    <3>1. [c[e] EXCEPT !.quals = c[e].quals \cup q] = h
      BY <1>3, <2>3 DEF HeadType
    <3>2. y = [c EXCEPT ![e] = [c[e] EXCEPT !.quals = c[e].quals \cup q]]
      BY <2>1, Zenon
    <3> QED BY <3>1, <3>2, Zenon
  <2>6. y \in CType /\ Len(y) = Len(c) /\ y[e] = h /\ \A i \in 1 .. Len(c) : i # e => y[i] = c[i]
    BY <1>2, <2>4, <2>5 DEF CType
  <2>7. SameHeads(c, y)
    BY <2>3, <2>6 DEF SameHeads
  <2> QED BY <1>1, <1>5, <2>2, <2>3, <2>6, <2>7 DEF Qualifies
<1> QED BY <1>4, <1>5

\* Qualified keeps a canonical type one.
LEMMA QualifiedWF ==
  ASSUME NEW c, WF(c), NEW q \in SUBSET Quals
  PROVE  WF(Qualified(c, q))
<1>1. PICK y : y = Qualified(c, q) /\ Qualifies(c, q, y)
  BY QualifiedFacts
<1>2. PICK e : e = Element(c) /\ e \in 1 .. Len(c) /\ c[e].head \notin Arrays /\ \A j \in 1 .. e - 1 : c[j].head \in Arrays
  BY ElementFacts
<1>3. y \in CType /\ Len(y) = Len(c) /\ Len(c) >= 1 /\ Len(c) \in Nat
  BY <1>1 DEF WF, Qualifies, SameHeads, CType
<1>4. \A i \in 1 .. Len(c) : y[i].head = c[i].head /\ (i # e => y[i] = c[i])
  BY <1>1, <1>2 DEF Qualifies, SameHeads
<1>5. \A i \in 1 .. Len(y) : y[i].head \in Derived => i < Len(y)
  BY <1>3, <1>4 DEF WF
<1>6. ASSUME NEW i \in 1 .. Len(y), y[i].head \in Arrays \cup Frees PROVE y[i].quals = {}
  <2>1. CASE i = e
    BY <1>1, <1>2, <1>3, <1>4, <1>6, <2>1 DEF Qualifies
  <2>2. CASE i # e
    BY <1>3, <1>4, <1>6, <2>2 DEF WF
  <2> QED BY <2>1, <2>2
<1>7. ASSUME NEW i \in 1 .. Len(y) - 1 PROVE Joined(y[i], y[i + 1])
  <2>1. i \in 1 .. Len(c) /\ i + 1 \in 1 .. Len(c) /\ Joined(c[i], c[i + 1])
    BY <1>3 DEF WF
  <2>2. y[i].head = c[i].head /\ y[i + 1].head = c[i + 1].head
    BY <1>4, <2>1
  <2>3. ASSUME y[i].head = "FunctionTaking" PROVE y[i + 1].quals = {}
    <3>1. i + 1 # e
      <4>1. c[i].head \notin Arrays
        BY <2>2, <2>3 DEF Arrays
      <4> QED BY <1>2, <1>3, <4>1
    <3> QED BY <1>4, <2>1, <2>2, <2>3, <3>1 DEF Joined
  <2> QED BY <2>1, <2>2, <2>3 DEF Joined
<1> QED BY <1>1, <1>3, <1>5, <1>6, <1>7 DEF WF

\* y is head h with qualifiers q on x.
IsCons(y, h, q, x) ==
  /\ y \in CType /\ Len(y) = Len(x) + 1
  /\ y[1].head = h /\ y[1].quals = q
  /\ \A i \in 1 .. Len(x) : y[i + 1] = x[i]

\* A head on a canonical type.
LEMMA ConsFacts ==
  ASSUME NEW h \in Heads, NEW q \in SUBSET Quals, NEW x \in CType
  PROVE  IsCons(Head1(h, q) \o x, h, q, x)
<1>1. PICK r : r = [head |-> h, quals |-> q]
  OBVIOUS
<1>2. r \in HeadType /\ r.head = h /\ r.quals = q
  BY <1>1 DEF HeadType
<1>3. Head1(h, q) = <<r>>
  BY <1>1 DEF Head1
<1>4. <<r>> \o x \in CType /\ Len(<<r>> \o x) = Len(x) + 1 /\ (<<r>> \o x)[1] = r
      /\ \A i \in 1 .. Len(x) : (<<r>> \o x)[i + 1] = x[i]
  BY <1>2 DEF CType
<1> QED BY <1>2, <1>3, <1>4 DEF IsCons

\* A type with a head on it.
LEMMA ConsWF ==
  ASSUME NEW x, WF(x), NEW h \in Derived, NEW q, NEW y, IsCons(y, h, q, x),
         h \in Arrays \cup Frees => q = {},
         h \in Arrays => x[1].head \notin Frees \cup Unsized,
         h \in Functions => x[1].head \notin Arrays,
         h = "FunctionTaking" => x[1].quals = {}
  PROVE  WF(y)
<1>1. PICK n \in Nat : n = Len(x) /\ n >= 1 /\ Len(y) = n + 1 /\ y \in CType
  BY DEF WF, CType, IsCons
<1>2. ASSUME NEW i \in 1 .. n + 1 PROVE i = 1 \/ (i - 1 \in 1 .. n /\ y[i] = x[i - 1])
  <2>1. i = 1 \/ (i - 1 \in 1 .. n /\ (i - 1) + 1 = i)
    BY <1>1
  <2>2. PICK j : j = i - 1
    OBVIOUS
  <2>3. \A k \in 1 .. n : y[k + 1] = x[k]
    BY <1>1 DEF IsCons
  <2>4. CASE i # 1
    <3>1. j \in 1 .. n /\ j + 1 = i
      BY <2>1, <2>2, <2>4
    <3>2. y[j + 1] = x[j]
      BY <2>3, <3>1
    <3> QED BY <2>2, <3>1, <3>2
  <2> QED BY <2>4
<1>3. ASSUME NEW i \in 1 .. n + 1, y[i].head \in Derived PROVE i < n + 1
  <2>1. CASE i = 1
    BY <1>1, <2>1
  <2>2. CASE i # 1
    <3>1. i - 1 \in 1 .. n /\ x[i - 1].head \in Derived
      BY <1>2, <1>3, <2>2
    <3>2. i - 1 < n
      BY <1>1, <3>1 DEF WF
    <3> QED BY <1>1, <3>2
  <2> QED BY <2>1, <2>2
<1>4. ASSUME NEW i \in 1 .. n + 1, y[i].head \in Arrays \cup Frees PROVE y[i].quals = {}
  <2>1. CASE i = 1
    BY <1>4, <2>1 DEF IsCons
  <2>2. CASE i # 1
    BY <1>1, <1>2, <1>4, <2>2 DEF WF
  <2> QED BY <2>1, <2>2
<1>5. ASSUME NEW i \in 1 .. n PROVE Joined(y[i], y[i + 1])
  <2>1. i + 1 \in 1 .. n + 1 /\ i \in 1 .. n + 1 /\ y[i + 1] = x[i]
    BY <1>1 DEF IsCons
  <2>2. CASE i = 1
    BY <2>1, <2>2 DEF Joined, IsCons
  <2>3. CASE i # 1
    <3>1. i - 1 \in 1 .. n - 1 /\ (i - 1) + 1 = i /\ y[i] = x[i - 1]
      BY <1>1, <1>2, <2>1, <2>3
    <3>2. Joined(x[i - 1], x[i])
      BY <1>1, <3>1 DEF WF
    <3> QED BY <2>1, <3>1, <3>2
  <2> QED BY <2>2, <2>3
<1> QED BY <1>1, <1>3, <1>4, <1>5 DEF WF

\* y is x without the qualifiers of its first head.
Bares(x, y) ==
  /\ y \in CType /\ SameHeads(x, y) /\ y[1].quals = {}
  /\ \A i \in 2 .. Len(x) : y[i] = x[i]

\* Unqualified drops the qualifiers of the first head only.
LEMMA UnqualifiedFacts ==
  ASSUME NEW x \in CType, Len(x) >= 1
  PROVE  Bares(x, Unqualified(x))
<1>1. 1 \in 1 .. Len(x) /\ Len(x) \in Nat
  BY DEF CType
<1>2. x[1] \in HeadType
  BY <1>1, HeadFacts
<1>3. PICK h : h = [head |-> x[1].head, quals |-> {}]
  OBVIOUS
<1>4. h \in HeadType
  BY <1>2, <1>3 DEF HeadType
<1>5. PICK y : y = [x EXCEPT ![1].quals = {}]
  OBVIOUS
<1>6. y = [x EXCEPT ![1] = h]
  <2>1. [x[1] EXCEPT !.quals = {}] = h
    <3>1. PICK r : r = x[1] /\ r \in HeadType
      BY <1>2
    <3>2. r = [head |-> r.head, quals |-> r.quals]
      BY <3>1 DEF HeadType
    <3>3. PICK q : q = {}
      OBVIOUS
    <3>4. [r EXCEPT !.quals = q] = [head |-> r.head, quals |-> q]
      BY <3>1, <3>2 DEF HeadType
    <3> QED BY <1>3, <3>1, <3>3, <3>4
  <2>2. y = [x EXCEPT ![1] = [x[1] EXCEPT !.quals = {}]]
    BY <1>5, Zenon
  <2> QED BY <2>1, <2>2, Zenon
<1>7. y \in CType /\ Len(y) = Len(x) /\ y[1] = h /\ \A i \in 1 .. Len(x) : i # 1 => y[i] = x[i]
  BY <1>1, <1>4, <1>6 DEF CType
<1>8. \A i \in 2 .. Len(x) : i \in 1 .. Len(x) /\ i # 1
  OBVIOUS
<1> QED BY <1>3, <1>5, <1>7, <1>8 DEF Unqualified, Bares, SameHeads

\* It is a canonical type, like x.
LEMMA BaresWF ==
  ASSUME NEW x, WF(x), NEW y, Bares(x, y)
  PROVE  WF(y)
<1>1. PICK n \in Nat : n = Len(x) /\ n >= 1 /\ Len(y) = n /\ y \in CType
  BY DEF WF, CType, Bares, SameHeads
<1>2. \A i \in 1 .. n : y[i].head = x[i].head /\ (y[i].quals = {} \/ y[i] = x[i])
  <2>1. \A i \in 1 .. n : i = 1 \/ i \in 2 .. n
    OBVIOUS
  <2> QED BY <1>1, <2>1 DEF Bares, SameHeads
<1>3. \A i \in 1 .. n : y[i].head \in Derived => i < n
  BY <1>1, <1>2 DEF WF
<1>4. \A i \in 1 .. n : y[i].head \in Arrays \cup Frees => y[i].quals = {}
  BY <1>1, <1>2 DEF WF
<1>5. ASSUME NEW i \in 1 .. n - 1 PROVE Joined(y[i], y[i + 1])
  <2>1. i \in 1 .. n /\ i + 1 \in 1 .. n /\ Joined(x[i], x[i + 1])
    BY <1>1 DEF WF
  <2> QED BY <1>2, <2>1 DEF Joined
<1> QED BY <1>1, <1>3, <1>4, <1>5 DEF WF

\* The elements of an array.
LEMMA TailFacts ==
  ASSUME NEW c, WF(c), Len(c) >= 2
  PROVE  /\ WF(Tail(c)) /\ Len(Tail(c)) = Len(c) - 1
         /\ \A i \in 1 .. Len(c) - 1 : Tail(c)[i] = c[i + 1]
<1>1. PICK n \in Nat : n = Len(c) /\ n >= 2 /\ c \in CType
  BY DEF WF, CType
<1>2. PICK x : x = Tail(c)
  OBVIOUS
<1>3. x \in CType /\ Len(x) = n - 1 /\ \A i \in 1 .. n - 1 : x[i] = c[i + 1]
  <2>1. c # <<>> /\ c \in Seq(HeadType)
    BY <1>1 DEF CType
  <2>2. x \in Seq(HeadType) /\ Len(x) = n - 1
    BY <1>1, <1>2, <2>1
  <2>3. \A i \in 1 .. n - 1 : x[i] = c[i + 1]
    BY <1>1, <1>2, <2>1, <2>2
  <2> QED BY <2>2, <2>3 DEF CType
<1>4. \A i \in 1 .. n - 1 : i + 1 \in 1 .. n /\ (i + 1 < n => i < n - 1)
  BY <1>1
<1>5. \A i \in 1 .. n - 1 : x[i].head \in Derived => i < n - 1
  BY <1>1, <1>3, <1>4 DEF WF
<1>6. \A i \in 1 .. n - 1 : x[i].head \in Arrays \cup Frees => x[i].quals = {}
  BY <1>1, <1>3, <1>4 DEF WF
<1>7. ASSUME NEW i \in 1 .. (n - 1) - 1 PROVE Joined(x[i], x[i + 1])
  <2>1. i \in 1 .. n - 1 /\ i + 1 \in 1 .. n - 1
    BY <1>1
  <2> QED BY <1>1, <1>3, <2>1 DEF WF
<1> QED BY <1>1, <1>2, <1>3, <1>5, <1>6, <1>7 DEF WF

\* The rules for a layer of the kind on one with canonical type c.
Fit(kind, c) ==
  /\ kind \in {"PointerType", "MemberPointerType"} => c[1].head \notin References
  /\ kind \in References /\ c[1].head = "LValueReferenceType" => kind = "LValueReferenceType"
  /\ kind \in Arrays => c[1].head \notin Frees \cup Unsized
  /\ kind \in Functions => c[1].head \notin Arrays \cup Functions
  /\ kind = "DecayedType" => c[1].head \in Arrays \cup Functions

\* The kinds.
LEMMA KindFacts ==
  /\ References \subseteq Derived /\ Functions \subseteq Derived /\ Arrays \subseteq Derived /\ Derived \subseteq Heads
  /\ Derived \subseteq Kinds /\ Bases \subseteq Kinds
  /\ References \cap Arrays = {} /\ Functions \cap Arrays = {} /\ References \cap Functions = {}
  /\ Unsized \subseteq Arrays /\ "ConstantArrayType" \in Arrays \ Unsized
  /\ Arrays = Unsized \cup {"ConstantArrayType"}
  /\ Bases \cap Derived = {} /\ "sugar" \notin Bases \cup Derived /\ "DecayedType" \notin Bases \cup Derived
  /\ "sugar" \in Kinds /\ "DecayedType" \in Kinds
  /\ "PointerType" \in Derived \ (Arrays \cup Frees) /\ "MemberPointerType" \in Derived \ (Arrays \cup Frees)
  /\ "FunctionTaking" \in Functions /\ "FunctionReturning" \in Functions
  /\ Functions = {"FunctionTaking", "FunctionReturning"}
  /\ References = {"LValueReferenceType", "RValueReferenceType"}
BY DEF References, Functions, Arrays, Derived, Heads, Bases, Kinds, Unsized, Frees

\* The head of a type that is built from none.
BaseHead(kind) == IF kind = "UnaryTransformType" THEN "BuiltinType" ELSE kind

\* The kinds of a layer on another.
LEMMA BuiltCases ==
  ASSUME NEW kind \in Kinds, NEW c
  PROVE  /\ kind \in Bases => Built(kind, c) = Head1(BaseHead(kind), {})
         /\ kind = "sugar" => Built(kind, c) = c
         /\ kind = "DecayedType" => Built(kind, c) = Decayed(c)
         /\ kind \in References => Built(kind, c) = Collapsed(kind, c)
         /\ kind = "FunctionTaking" => Built(kind, c) = Head1(kind, {}) \o Unqualified(c)
         /\ kind \in Derived \ (References \cup {"FunctionTaking"}) => Built(kind, c) = Head1(kind, {}) \o c
<1> USE DEF Built
<1>1. kind \in Bases => Built(kind, c) = Head1(BaseHead(kind), {})
  BY DEF BaseHead, Bases, References
<1>2. kind = "sugar" => Built(kind, c) = c
  BY DEF Bases, References
<1>3. kind = "DecayedType" => Built(kind, c) = Decayed(c)
  BY DEF Bases, References
<1>4. kind \in References => Built(kind, c) = Collapsed(kind, c)
  BY DEF Bases, References
<1>5. kind = "FunctionTaking" => Built(kind, c) = Head1(kind, {}) \o Unqualified(c)
  BY DEF Bases, References
<1>6. kind \in Derived \ (References \cup {"FunctionTaking"}) => Built(kind, c) = Head1(kind, {}) \o c
  <2>1. SUFFICES ASSUME kind \in Derived, kind \notin References, kind # "FunctionTaking"
                 PROVE  Built(kind, c) = Head1(kind, {}) \o c
    OBVIOUS
  <2>2. kind \notin Bases /\ kind # "sugar" /\ kind # "DecayedType" /\ kind # "UnaryTransformType"
    BY <2>1 DEF Derived, Bases, References, Arrays, Functions
  <2> QED BY <2>1, <2>2
<1> QED BY <1>1, <1>2, <1>3, <1>4, <1>5, <1>6

\* y is x with another reference for its head.
Recaps(x, kind, y) ==
  /\ y \in CType /\ Len(y) = Len(x) /\ y[1].head = kind /\ y[1].quals = {}
  /\ \A i \in 2 .. Len(x) : y[i] = x[i]

\* A reference to a reference.
LEMMA CollapsedFacts ==
  ASSUME NEW c, WF(c), NEW kind \in References, Fit(kind, c), c[1].head \in References
  PROVE  Recaps(c, kind, Collapsed(kind, c))
<1>1. c \in CType /\ 1 \in 1 .. Len(c) /\ Len(c) \in Nat
  BY DEF WF, CType
<1>2. c[1] \in HeadType /\ c[1].quals = {}
  BY <1>1, HeadFacts DEF WF, Frees
<1>3. PICK h : h = [head |-> kind, quals |-> {}]
  OBVIOUS
<1>4. h \in HeadType
  BY <1>3, KindFacts DEF HeadType
<1>5. PICK y : y = Collapsed(kind, c)
  OBVIOUS
<1>6. y = [c EXCEPT ![1] = h]
  <2>1. PICK k : k = IF "LValueReferenceType" \in {c[1].head, kind} THEN "LValueReferenceType" ELSE c[1].head
    OBVIOUS
  <2>2. k = kind
    BY <2>1, KindFacts DEF Fit
  <2>3. PICK r : r = c[1] /\ r \in HeadType /\ r.quals = {}
    BY <1>2
  <2>4. [r EXCEPT !.head = k] = [head |-> k, quals |-> r.quals]
    BY <2>3 DEF HeadType
  <2>5. [r EXCEPT !.head = k] = h
    BY <1>3, <2>2, <2>3, <2>4
  <2>6. y = [c EXCEPT ![1] = [c[1] EXCEPT !.head = k]]
    <3>1. y = [c EXCEPT ![1].head = IF "LValueReferenceType" \in {@, kind} THEN "LValueReferenceType" ELSE @]
      BY <1>5, Zenon DEF Collapsed
    <3> QED BY <2>1, <3>1, Zenon
  <2> QED BY <2>3, <2>5, <2>6, Zenon
<1>7. y \in CType /\ Len(y) = Len(c) /\ y[1] = h /\ \A i \in 1 .. Len(c) : i # 1 => y[i] = c[i]
  BY <1>1, <1>4, <1>6 DEF CType
<1>8. \A i \in 2 .. Len(c) : i \in 1 .. Len(c) /\ i # 1
  OBVIOUS
<1> QED BY <1>3, <1>5, <1>7, <1>8 DEF Recaps

\* A reference of another kind is as well-formed.
LEMMA RecapsWF ==
  ASSUME NEW x, WF(x), x[1].head \in References, NEW kind \in References, NEW y, Recaps(x, kind, y)
  PROVE  WF(y)
<1>1. PICK n \in Nat : n = Len(x) /\ n >= 1 /\ Len(y) = n /\ y \in CType
  BY DEF WF, CType, Recaps
<1>2. \A i \in 1 .. n : i # 1 => y[i] = x[i]
  <2>1. \A i \in 1 .. n : i # 1 => i \in 2 .. n
    OBVIOUS
  <2> QED BY <1>1, <2>1 DEF Recaps
<1>3. y[1].head \in References /\ y[1].quals = {} /\ 1 \in 1 .. n
  BY <1>1 DEF Recaps
<1>4. 1 < n
  BY <1>1, <1>3, KindFacts DEF WF
<1>5. \A i \in 1 .. n : y[i].head \in Derived => i < n
  BY <1>1, <1>2, <1>4 DEF WF
<1>6. \A i \in 1 .. n : y[i].head \in Arrays \cup Frees => y[i].quals = {}
  BY <1>1, <1>2, <1>3 DEF WF
<1>7. ASSUME NEW i \in 1 .. n - 1 PROVE Joined(y[i], y[i + 1])
  <2>1. i \in 1 .. n /\ i + 1 \in 1 .. n /\ i + 1 # 1 /\ Joined(x[i], x[i + 1]) /\ y[i + 1] = x[i + 1]
    BY <1>1, <1>2 DEF WF
  <2>2. CASE i = 1
    BY <1>3, <2>2, KindFacts DEF Joined
  <2>3. CASE i # 1
    BY <1>2, <2>1, <2>3
  <2> QED BY <2>2, <2>3
<1> QED BY <1>1, <1>5, <1>6, <1>7 DEF WF

\* A type of one head.
LEMMA OneHead ==
  ASSUME NEW h \in Heads \ Derived, NEW q \in SUBSET Quals
  PROVE  WF(Head1(h, q)) /\ Len(Head1(h, q)) = 1 /\ Head1(h, q)[1] = [head |-> h, quals |-> q]
<1>1. PICK r : r = [head |-> h, quals |-> q]
  OBVIOUS
<1>2. r \in HeadType /\ r.head = h
  BY <1>1 DEF HeadType
<1>3. PICK y : y = <<r>>
  OBVIOUS
<1>4. y \in CType /\ Len(y) = 1 /\ y[1] = r
  BY <1>2, <1>3 DEF CType
<1>5. \A i \in 1 .. 1 : i = 1
  OBVIOUS
<1>6. h \notin Arrays \cup Frees
  BY KindFacts DEF Frees
<1>7. WF(y)
  <2>1. \A i \in 1 .. Len(y) : y[i].head \in Derived => i < Len(y)
    BY <1>2, <1>4, <1>5
  <2>2. \A i \in 1 .. Len(y) : y[i].head \in Arrays \cup Frees => y[i].quals = {}
    BY <1>2, <1>4, <1>5, <1>6
  <2>3. \A i \in 1 .. Len(y) - 1 : Joined(y[i], y[i + 1])
    BY <1>4
  <2> QED BY <1>4, <2>1, <2>2, <2>3 DEF WF
<1>8. y = Head1(h, q)
  BY <1>1, <1>3 DEF Head1
<1> QED BY <1>1, <1>4, <1>7, <1>8

\* What is built from a canonical type is one.
LEMMA BuiltWF ==
  ASSUME NEW kind \in Kinds, NEW c, kind \notin Bases => WF(c) /\ Fit(kind, c)
  PROVE  WF(Built(kind, c))
<1>1. CASE kind \in Bases
  <2>1. BaseHead(kind) \in Heads \ Derived
    BY <1>1, KindFacts DEF BaseHead, Heads, Bases
  <2>2. WF(Head1(BaseHead(kind), {}))
    BY <2>1, OneHead
  <2> QED BY <1>1, <2>2, BuiltCases
<1>2. CASE kind = "sugar"
  BY <1>2, BuiltCases, KindFacts
<1>3. CASE kind = "DecayedType"
  <2>1. WF(c) /\ c[1].head \in Arrays \cup Functions /\ c \in CType /\ 1 \in 1 .. Len(c)
    BY <1>3, KindFacts DEF Fit, WF, CType
  <2>2. PICK x : x = IF c[1].head \in Arrays THEN Tail(c) ELSE c
    OBVIOUS
  <2>3. WF(x)
    <3>1. Len(c) >= 2
      <4>1. c[1].head \in Derived /\ Len(c) \in Nat
        <5>1. c[1].head \in Derived
          BY <2>1, KindFacts
        <5>2. Len(c) \in Nat
          BY <2>1 DEF CType
        <5> QED BY <5>1, <5>2
      <4>2. 1 < Len(c)
        BY <2>1, <4>1 DEF WF
      <4> QED BY <4>1, <4>2
    <3> QED BY <2>1, <2>2, <3>1, TailFacts
  <2>4. PICK y : y = Head1("PointerType", {}) \o x /\ IsCons(y, "PointerType", {}, x)
    BY <2>3, ConsFacts, KindFacts DEF WF
  <2>5. Built(kind, c) = y
    BY <1>3, <2>2, <2>4, BuiltCases DEF Decayed
  <2>6. WF(y)
    BY <2>3, <2>4, ConsWF, KindFacts
  <2> QED BY <2>5, <2>6
<1>4. CASE kind \in References
  <2>1. WF(c) /\ Fit(kind, c) /\ kind \in Derived
    BY <1>4, KindFacts
  <2>2. CASE c[1].head \in References
    BY <1>4, <2>1, <2>2, CollapsedFacts, RecapsWF, BuiltCases
  <2>3. CASE c[1].head \notin References
    <3>1. PICK y : y = Head1(kind, {}) \o c /\ IsCons(y, kind, {}, c)
      BY <2>1, ConsFacts, KindFacts DEF WF
    <3>2. WF(y)
      BY <1>4, <2>1, <3>1, ConsWF, KindFacts
    <3> QED BY <1>4, <2>3, <3>1, <3>2, BuiltCases DEF Collapsed
  <2> QED BY <2>2, <2>3
<1>5. CASE kind = "FunctionTaking"
  <2>1. WF(c) /\ Fit(kind, c) /\ kind \in Derived /\ kind \in Functions /\ kind \notin Arrays
    BY <1>5, KindFacts
  <2>2. PICK x : x = Unqualified(c) /\ Bares(c, x) /\ WF(x)
    BY <2>1, UnqualifiedFacts, BaresWF DEF WF
  <2>3. PICK y : y = Head1(kind, {}) \o x /\ IsCons(y, kind, {}, x)
    BY <2>1, <2>2, ConsFacts, KindFacts DEF WF
  <2>4. x[1].head = c[1].head /\ x[1].quals = {}
    BY <2>1, <2>2 DEF Bares, SameHeads, WF, CType
  <2>5. WF(y)
    BY <2>1, <2>2, <2>3, <2>4, ConsWF DEF Fit
  <2> QED BY <1>5, <2>2, <2>3, <2>5, BuiltCases
<1>6. CASE kind \in Derived \ (References \cup {"FunctionTaking"})
  <2>1. WF(c) /\ Fit(kind, c)
    BY <1>6, KindFacts
  <2>2. PICK y : y = Head1(kind, {}) \o c /\ IsCons(y, kind, {}, c)
    BY <1>6, <2>1, ConsFacts, KindFacts DEF WF
  <2>3. WF(y)
    <3>1. kind \in Arrays => c[1].head \notin Frees \cup Unsized
      BY <2>1 DEF Fit
    <3>2. kind \in Functions => c[1].head \notin Arrays
      BY <2>1 DEF Fit
    <3> QED BY <1>6, <2>1, <2>2, <3>1, <3>2, ConsWF
  <2> QED BY <1>6, <2>2, <2>3, BuiltCases
<1> QED BY <1>1, <1>2, <1>3, <1>4, <1>5, <1>6 DEF Kinds

(***************************************************************************)
(* The layers of a type.                                                   *)
(***************************************************************************)
LayerType == [kind : Kinds, quals : SUBSET Quals, canonical : CType]

\* Layer l may stand on one with canonical type c.
FitsOn(l, c) ==
  /\ l.kind \in Kinds \ Bases /\ Fit(l.kind, c)
  /\ l.quals \in MayQualify(l.kind, c)
  /\ l.canonical = Canonical(l.kind, l.quals, c)

\* The inductive invariant.
Sound(s) ==
  /\ s \in Seq(LayerType) /\ Len(s) >= 1 /\ Len(s) <= MaxLayers
  /\ s[1].kind \in Bases /\ s[1].canonical = Canonical(s[1].kind, s[1].quals, <<>>)
  /\ \A i \in 1 .. Len(s) : WF(s[i].canonical)
  /\ \A i \in 2 .. Len(s) : FitsOn(s[i], s[i - 1].canonical)

\* A layer has its type and a canonical one.
LEMMA LayerFacts ==
  ASSUME NEW kind \in Kinds, NEW q \in SUBSET Quals, NEW c, kind \notin Bases => WF(c) /\ Fit(kind, c)
  PROVE  /\ Layer(kind, q, c) \in LayerType /\ WF(Layer(kind, q, c).canonical)
         /\ Layer(kind, q, c).kind = kind /\ Layer(kind, q, c).quals = q
         /\ Layer(kind, q, c).canonical = Canonical(kind, q, c)
<1>1. WF(Canonical(kind, q, c))
  BY BuiltWF, QualifiedWF DEF Canonical
<1> QED BY <1>1 DEF Layer, LayerType, WF

\* Qualifiers are const and volatile.
LEMMA MayQualifyType == ASSUME NEW kind, NEW c PROVE MayQualify(kind, c) \subseteq SUBSET Quals
BY DEF MayQualify

\* One more layer.
LEMMA AppendSound ==
  ASSUME NEW s, Sound(s), Len(s) + 1 <= MaxLayers, NEW kind \in Kinds \ Bases,
         Fit(kind, s[Len(s)].canonical), NEW q \in MayQualify(kind, s[Len(s)].canonical)
  PROVE  Sound(Append(s, Layer(kind, q, s[Len(s)].canonical)))
<1>1. PICK n \in Nat : n = Len(s) /\ n >= 1 /\ n + 1 <= MaxLayers /\ s \in Seq(LayerType)
  BY DEF Sound
<1>2. PICK c : c = s[n].canonical
  OBVIOUS
<1>3. WF(c) /\ q \in SUBSET Quals
  BY <1>1, <1>2, MayQualifyType DEF Sound
<1>4. PICK l : l = Layer(kind, q, c)
  OBVIOUS
<1>5. l \in LayerType /\ WF(l.canonical) /\ l.kind = kind /\ l.quals = q /\ l.canonical = Canonical(kind, q, c)
  BY <1>1, <1>2, <1>3, <1>4, LayerFacts
<1>6. FitsOn(l, c)
  BY <1>1, <1>2, <1>5 DEF FitsOn
<1>7. PICK t : t = Append(s, l)
  OBVIOUS
<1>8. t \in Seq(LayerType) /\ Len(t) = n + 1 /\ (\A i \in 1 .. n : t[i] = s[i]) /\ t[n + 1] = l
  BY <1>1, <1>5, <1>7
<1>9. \A i \in 1 .. n + 1 : i \in 1 .. n \/ i = n + 1
  OBVIOUS
<1>10. \A i \in 1 .. Len(t) : WF(t[i].canonical)
  BY <1>1, <1>5, <1>8, <1>9 DEF Sound
<1>11. ASSUME NEW i \in 2 .. Len(t) PROVE FitsOn(t[i], t[i - 1].canonical)
  <2>1. CASE i = n + 1
    <3>1. i - 1 = n /\ n \in 1 .. n
      BY <1>1, <2>1
    <3>2. t[i] = l /\ t[i - 1] = s[n]
      BY <1>8, <2>1, <3>1
    <3> QED BY <1>2, <1>6, <3>2
  <2>2. CASE i # n + 1
    <3>1. i \in 2 .. n /\ i \in 1 .. n /\ i - 1 \in 1 .. n
      BY <1>1, <1>8, <2>2
    <3>2. t[i] = s[i] /\ t[i - 1] = s[i - 1]
      BY <1>8, <3>1
    <3> QED BY <1>1, <3>1, <3>2 DEF Sound
  <2> QED BY <2>1, <2>2
<1>12. t[1] = s[1]
  BY <1>1, <1>8
<1>13. Sound(t)
  BY <1>1, <1>8, <1>10, <1>11, <1>12, PrintTypeAssumption DEF Sound
<1> QED BY <1>1, <1>2, <1>4, <1>7, <1>13

\* The types that are built from none.
LEMMA SoundInit == Init => Sound(type)
<1>1. SUFFICES ASSUME NEW kind \in Bases, NEW q \in SUBSET Quals, type = <<Layer(kind, q, <<>>)>>
               PROVE  Sound(type)
  BY DEF Init
<1>2. PICK l : l = Layer(kind, q, <<>>)
  OBVIOUS
<1>3. l \in LayerType /\ WF(l.canonical) /\ l.kind = kind /\ l.quals = q /\ l.canonical = Canonical(kind, q, <<>>)
  BY <1>2, LayerFacts, KindFacts
<1>4. type \in Seq(LayerType) /\ Len(type) = 1 /\ type[1] = l
  BY <1>1, <1>2, <1>3
<1>5. \A i \in 1 .. 1 : i = 1
  OBVIOUS
<1>6. 1 <= MaxLayers /\ (2 .. 1) = {}
  BY PrintTypeAssumption
<1> QED BY <1>3, <1>4, <1>5, <1>6 DEF Sound

\* Every action adds layers that fit.
LEMMA SoundStep == Sound(type) /\ [Next]_type => Sound(type')
<1>1. SUFFICES ASSUME Sound(type), Next PROVE Sound(type')
  OBVIOUS
<1>2. PICK n \in Nat : n = Len(type) /\ n >= 1 /\ n \in 1 .. n
  BY <1>1 DEF Sound
<1>3. PICK c : c = type[n].canonical /\ WF(c) /\ Top = c
  BY <1>1, <1>2 DEF Sound, Top
<1>4. ASSUME NEW kind \in Kinds \ Bases, Fit(kind, c), Add(kind) PROVE Sound(type')
  <2>1. PICK q \in MayQualify(kind, c) : type' = Append(type, Layer(kind, q, c))
    BY <1>3, <1>4 DEF Add
  <2>2. n + 1 <= MaxLayers
    BY <1>2, <1>4, PrintTypeAssumption DEF Add
  <2> QED BY <1>1, <1>2, <1>3, <1>4, <2>1, <2>2, AppendSound
<1>5. CASE AddPointer
  <2>1. PICK kind \in {"PointerType", "MemberPointerType"} : Add(kind) /\ c[1].head \notin References
    BY <1>3, <1>5 DEF AddPointer
  <2>2. kind \in Kinds \ Bases /\ kind \notin References \cup Arrays \cup Functions /\ kind # "DecayedType"
    BY <2>1, KindFacts DEF Frees
  <2>3. Fit(kind, c)
    BY <2>1, <2>2 DEF Fit
  <2> QED BY <1>4, <2>1, <2>2, <2>3
<1>6. CASE AddReference
  <2>1. PICK kind \in References :
          Add(kind) /\ (c[1].head \in References => (c[1].head = "LValueReferenceType" => kind = "LValueReferenceType"))
    BY <1>3, <1>6 DEF AddReference
  <2>2. kind \in Kinds \ Bases /\ kind \notin Arrays \cup Functions /\ kind # "DecayedType"
        /\ kind \notin {"PointerType", "MemberPointerType"}
    BY <2>1, KindFacts DEF Frees
  <2>3. Fit(kind, c)
    BY <2>1, <2>2, KindFacts DEF Fit
  <2> QED BY <1>4, <2>1, <2>2, <2>3
<1>7. CASE AddArray
  <2>1. PICK kind \in Arrays : Add(kind) /\ c[1].head \notin Frees \cup Unsized
    BY <1>3, <1>7 DEF AddArray, Frees, Unsized
  <2>2. kind \in Kinds \ Bases /\ kind \notin References \cup Functions /\ kind # "DecayedType"
        /\ kind \notin {"PointerType", "MemberPointerType"}
    BY <2>1, KindFacts DEF Frees
  <2>3. Fit(kind, c)
    BY <2>1, <2>2 DEF Fit
  <2> QED BY <1>4, <2>1, <2>2, <2>3
<1>8. CASE AddFunction
  <2>1. PICK kind \in Functions : Add(kind) /\ c[1].head \notin Arrays \cup Functions
    BY <1>3, <1>8, KindFacts DEF AddFunction
  <2>2. kind \in Kinds \ Bases /\ kind \notin References \cup Arrays /\ kind # "DecayedType"
        /\ kind \notin {"PointerType", "MemberPointerType"}
    BY <2>1, KindFacts DEF Frees
  <2>3. Fit(kind, c)
    BY <2>1, <2>2 DEF Fit
  <2> QED BY <1>4, <2>1, <2>2, <2>3
<1>9. CASE AddSugar
  <2>1. "sugar" \in Kinds \ Bases /\ "sugar" \notin References \cup Arrays \cup Functions
    BY KindFacts
  <2>2. Fit("sugar", c)
    BY <2>1 DEF Fit
  <2> QED BY <1>4, <1>9, <2>1, <2>2 DEF AddSugar
<1>10. CASE AddDecayed
  <2>1. PICK l : l = Layer("DecayedType", {}, c)
    OBVIOUS
  <2>2. c[1].head \in Arrays \cup Functions /\ n + 1 < MaxLayers
        /\ type' = Append(Append(type, l), Layer("FunctionTaking", {}, l.canonical))
    BY <1>2, <1>3, <1>10, <2>1 DEF AddDecayed
  <2>3. "DecayedType" \in Kinds \ Bases /\ "DecayedType" \notin References \cup Arrays \cup Functions
    BY KindFacts
  <2>4. Fit("DecayedType", c)
    BY <2>2, <2>3 DEF Fit
  <2>5. {} \in MayQualify("DecayedType", c)
    BY DEF MayQualify
  <2>6. PICK s : s = Append(type, l)
    OBVIOUS
  <2>7. Sound(s)
    <3>1. n + 1 <= MaxLayers
      BY <2>2, PrintTypeAssumption
    <3> QED BY <1>1, <1>2, <1>3, <2>1, <2>3, <2>4, <2>5, <2>6, <3>1, AppendSound
  <2>8. Len(s) = n + 1 /\ s[n + 1] = l
    BY <1>1, <1>2, <2>6 DEF Sound
  <2>9. l.canonical = Canonical("DecayedType", {}, c)
    BY <1>3, <2>1, <2>3, <2>4, LayerFacts
  <2>10. l.canonical[1].head = "PointerType"
    <3>1. WF(Built("DecayedType", c))
      BY <1>3, <2>3, <2>4, BuiltWF
    <3>2. Qualifies(Built("DecayedType", c), {}, l.canonical)
      BY <2>9, <3>1, QualifiedFacts DEF Canonical
    <3>3. 1 \in 1 .. Len(Built("DecayedType", c))
      BY <3>1 DEF WF, CType
    <3>4. l.canonical[1].head = Built("DecayedType", c)[1].head
      BY <3>2, <3>3 DEF Qualifies, SameHeads
    <3>5. PICK x : x = IF c[1].head \in Arrays THEN Tail(c) ELSE c
      OBVIOUS
    <3>6. Built("DecayedType", c) = Head1("PointerType", {}) \o x
      BY <2>3, <3>5, BuiltCases DEF Decayed
    <3>7. x \in CType
      <4>1. c \in CType /\ c # <<>>
        BY <1>3 DEF WF, CType
      <4>2. Tail(c) \in CType
        BY <4>1 DEF CType
      <4> QED BY <3>5, <4>1, <4>2
    <3> QED BY <3>4, <3>6, <3>7, ConsFacts, KindFacts DEF IsCons
  <2>11. "FunctionTaking" \in Kinds \ Bases /\ "FunctionTaking" \notin References \cup Arrays
         /\ "PointerType" \notin Arrays \cup Functions
    BY KindFacts DEF Frees
  <2>12. Fit("FunctionTaking", l.canonical)
    BY <2>10, <2>11 DEF Fit
  <2>13. {} \in MayQualify("FunctionTaking", l.canonical)
    BY DEF MayQualify
  <2>14. Len(s) + 1 <= MaxLayers
    BY <2>2, <2>8, PrintTypeAssumption
  <2>15. s[Len(s)].canonical = l.canonical
    BY <2>8
  <2>16. Sound(Append(s, Layer("FunctionTaking", {}, s[Len(s)].canonical)))
    BY <2>7, <2>11, <2>12, <2>13, <2>14, <2>15, AppendSound
  <2> QED BY <2>2, <2>6, <2>15, <2>16
<1> QED BY <1>1, <1>5, <1>6, <1>7, <1>8, <1>9, <1>10 DEF Next

(***************************************************************************)
(* The printer.                                                            *)
(***************************************************************************)
TermType == Seq(Tokens)

\* The constructor of a head.
Ctor(kind) ==
  CASE kind \in {"PointerType", "DecayedType"} -> "Tptr"
    [] kind = "LValueReferenceType" -> "Tref"
    [] kind = "RValueReferenceType" -> "Trv_ref"
    [] kind = "FunctionReturning" -> "Tfunction_ret"
    [] kind = "FunctionTaking" -> "Tfunction_arg"
    [] kind = "ConstantArrayType" -> "Tarray"
    [] kind = "IncompleteArrayType" -> "Tincomplete_array"
    [] kind = "VariableArrayType" -> "Tvariable_array"
    [] kind = "MemberPointerType" -> "Tmember_pointer"
    [] kind = "Type" -> "Tunsupported"
    [] kind = "EnumType" -> "Tenum"
    [] kind = "RecordType" -> "Tnamed"
    [] kind \in {"BuiltinType", "UnaryTransformType"} -> "Tint"

\* What the handlers print.
LEMMA VisitCases ==
  ASSUME NEW kind \in Kinds, NEW t
  PROVE  /\ kind \in Derived => Visit(kind, t) = <<Ctor(kind)>> \o t
         /\ kind \in Bases \ {"UnaryTransformType"} => Visit(kind, t) = <<Ctor(kind)>>
         /\ kind = "UnaryTransformType" => Visit(kind, t) = <<"@Tunderlying", "Tint">>
         /\ kind = "DecayedType" => Visit(kind, t) = <<"Tdecay_type">> \o (<<"Tptr">> \o t)
         /\ kind = "sugar" => Visit(kind, t) = t
<1> USE DEF Visit, References, Functions
<1>1. kind \in {"PointerType", "MemberPointerType"} => Visit(kind, t) = <<Ctor(kind)>> \o t
  BY DEF Ctor, VisitPointerType, VisitMemberPointerType
<1>2. kind \in References => Visit(kind, t) = <<Ctor(kind)>> \o t
  BY DEF Ctor, VisitReferenceType
<1>3. kind \in Functions => Visit(kind, t) = <<Ctor(kind)>> \o t
  BY DEF Ctor, VisitFunctionProtoType
<1>4. kind \in Arrays => Visit(kind, t) = <<Ctor(kind)>> \o t
  BY DEF Ctor, Arrays, VisitConstantArrayType, VisitIncompleteArrayType, VisitVariableArrayType
<1>5. kind \in Bases \ {"UnaryTransformType"} => Visit(kind, t) = <<Ctor(kind)>>
  BY DEF Ctor, Bases, VisitType, VisitBuiltinType, VisitEnumType, VisitRecordType
<1>6. kind = "UnaryTransformType" => Visit(kind, t) = <<"@Tunderlying", "Tint">>
  BY DEF VisitUnaryTransformType
<1>7. kind = "DecayedType" => Visit(kind, t) = <<"Tdecay_type">> \o (<<"Tptr">> \o t)
  BY DEF VisitDecayedType, VisitPointerType
<1>8. kind = "sugar" => Visit(kind, t) = t
  BY DEF VisitSugar
<1> QED BY <1>1, <1>2, <1>3, <1>4, <1>5, <1>6, <1>7, <1>8 DEF Derived

\* The constructors Coq knows.
LEMMA TokenFacts ==
  /\ Tokens = DOMAIN QualsOf \cup DOMAIN HeadOf \cup Abbreviations
  /\ DOMAIN QualsOf = {"Qconst", "Qmut_volatile", "Qconst_volatile"}
  /\ DOMAIN HeadOf = {"Tunsupported", "Tint", "Tenum", "Tnamed", "Tptr", "Tref", "Trv_ref", "Tfunction_ret",
                      "Tfunction_arg", "Tarray", "Tmember_pointer"}
<1>1. DOMAIN QualsOf = {"Qconst", "Qmut_volatile", "Qconst_volatile"}
  BY DEF QualsOf
<1>2. DOMAIN HeadOf = {"Tunsupported", "Tint", "Tenum", "Tnamed", "Tptr", "Tref", "Trv_ref", "Tfunction_ret",
                      "Tfunction_arg", "Tarray", "Tmember_pointer"}
  BY DEF HeadOf
<1> QED BY <1>1, <1>2 DEF Tokens

\* Coq knows the constructor of every kind.
LEMMA CtorTokens ==
  ASSUME NEW kind \in Kinds, kind # "sugar"
  PROVE  Ctor(kind) \in Tokens
<1>1. kind \in Bases => Ctor(kind) \in DOMAIN HeadOf
  BY TokenFacts DEF Ctor, Bases
<1>2. kind \in References \cup Functions \cup {"PointerType", "MemberPointerType", "DecayedType", "ConstantArrayType"}
        => Ctor(kind) \in DOMAIN HeadOf
  BY TokenFacts DEF Ctor, References, Functions
<1>3. kind \in {"IncompleteArrayType", "VariableArrayType"} => Ctor(kind) \in Abbreviations
  BY DEF Ctor, Abbreviations
<1> QED BY <1>1, <1>2, <1>3, TokenFacts DEF Kinds, Derived, Arrays

\* A constructor on a term.
LEMMA TokenOn ==
  ASSUME NEW k \in Tokens, NEW t \in TermType
  PROVE  <<k>> \o t \in TermType /\ <<k>> \in TermType
BY DEF TermType

\* The handlers print terms.
LEMMA VisitTerm ==
  ASSUME NEW kind \in Kinds, NEW t \in TermType
  PROVE  Visit(kind, t) \in TermType
<1>0. kind # "sugar" => <<Ctor(kind)>> \o t \in TermType /\ <<Ctor(kind)>> \in TermType
  BY CtorTokens, TokenOn
<1>1. CASE kind \in Derived
  <2>1. kind # "sugar" /\ Visit(kind, t) = <<Ctor(kind)>> \o t
    BY <1>1, VisitCases, KindFacts
  <2> QED BY <1>0, <2>1, Zenon
<1>2. CASE kind \in Bases \ {"UnaryTransformType"}
  <2>1. kind # "sugar" /\ Visit(kind, t) = <<Ctor(kind)>>
    BY <1>2, VisitCases, KindFacts
  <2> QED BY <1>0, <2>1, Zenon
<1>3. CASE kind = "UnaryTransformType"
  <2>1. "@Tunderlying" \in Tokens /\ "Tint" \in Tokens
    BY TokenFacts DEF Abbreviations
  <2>2. <<"@Tunderlying", "Tint">> \in TermType
    BY <2>1 DEF TermType
  <2> QED BY <1>3, <2>2, VisitCases
<1>4. CASE kind = "DecayedType"
  <2>1. "Tdecay_type" \in Tokens /\ "Tptr" \in Tokens
    BY TokenFacts DEF Abbreviations
  <2>2. PICK u \in TermType : u = <<"Tptr">> \o t
    BY <2>1, TokenOn
  <2>3. <<"Tdecay_type">> \o u \in TermType
    BY <2>1, TokenOn
  <2> QED BY <1>4, <2>2, <2>3, VisitCases
<1>5. CASE kind = "sugar"
  BY <1>5, VisitCases
<1> QED BY <1>1, <1>2, <1>3, <1>4, <1>5 DEF Kinds

\* So does printQualType.
LEMMA QualTerm ==
  ASSUME NEW q, NEW v, NEW t \in TermType
  PROVE  printQualType(q, v, t) \in TermType
<1>1. "Qconst" \in Tokens /\ "Qmut_volatile" \in Tokens /\ "Qconst_volatile" \in Tokens
  BY TokenFacts
<1>2. <<"Qconst">> \o t \in TermType /\ <<"Qmut_volatile">> \o t \in TermType /\ <<"Qconst_volatile">> \o t \in TermType
  BY <1>1, TokenOn
<1>3. PICK k : k = IF v THEN "Qconst_volatile" ELSE "Qconst"
  OBVIOUS
<1>4. <<k>> \o t \in TermType
  BY <1>2, <1>3
<1> QED BY <1>2, <1>3, <1>4 DEF printQualType

\* The first layer is no reference.
LEMMA BaseLayer ==
  ASSUME Sound(type)
  PROVE  type[1].kind \in Bases /\ type[1].canonical[1].head \notin Derived /\ Len(type) \in Nat /\ 1 \in 1 .. Len(type)
<1>1. Len(type) \in Nat /\ 1 \in 1 .. Len(type) /\ type[1].kind \in Bases /\ type[1] \in LayerType
  BY DEF Sound
<1>2. PICK k : k = type[1].kind /\ k \in Bases /\ k \in Kinds
  BY <1>1, KindFacts
<1>3. BaseHead(k) \in Heads \ Derived
  BY <1>2, KindFacts DEF BaseHead, Heads, Bases
<1>4. PICK c : c = Built(k, <<>>) /\ WF(c) /\ c[1].head = BaseHead(k)
  <2>1. Built(k, <<>>) = Head1(BaseHead(k), {})
    BY <1>2, BuiltCases
  <2>2. PICK h : h = BaseHead(k) /\ h \in Heads \ Derived
    BY <1>3
  <2>3. PICK c : c = Head1(h, {})
    OBVIOUS
  <2>4. WF(c) /\ c[1] = [head |-> h, quals |-> {}]
    BY <2>2, <2>3, OneHead
  <2> QED BY <2>1, <2>2, <2>3, <2>4
<1>5. PICK q : q = type[1].quals /\ q \in SUBSET Quals
  BY <1>1 DEF LayerType
<1>6. type[1].canonical = Qualified(c, q)
  BY <1>2, <1>4, <1>5 DEF Sound, Canonical
<1>7. Qualifies(c, q, type[1].canonical) /\ 1 \in 1 .. Len(c)
  BY <1>4, <1>5, <1>6, QualifiedFacts DEF WF, CType
<1>8. type[1].canonical[1].head = BaseHead(k)
  BY <1>4, <1>7 DEF Qualifies, SameHeads
<1> QED BY <1>1, <1>3, <1>8

\* Under the sugar there is a type.
LEMMA DesugaredFacts ==
  ASSUME Sound(type), NEW i \in 1 .. Len(type)
  PROVE  /\ Desugared(i) \in 1 .. i /\ type[Desugared(i)].kind # "sugar"
         /\ \A k \in Desugared(i) + 1 .. i : type[k].kind = "sugar"
<1> DEFINE T == {j \in 1 .. i : type[j].kind # "sugar"}
<1>1. i \in Nat /\ 1 \in T
  BY BaseLayer, KindFacts
<1>2. PICK m \in T : \A y \in T : y <= m
  BY <1>1, Greatest
<1>3. m \in 1 .. i /\ type[m].kind # "sugar" /\ \A k \in m + 1 .. i : type[k].kind = "sugar"
  <2>1. ASSUME NEW k \in m + 1 .. i PROVE type[k].kind = "sugar"
    <3>1. k \in 1 .. i /\ ~(k <= m)
      BY <1>1, <1>2
    <3> QED BY <1>2, <3>1
  <2> QED BY <1>2, <2>1
<1> QED BY <1>3, Zenon DEF Desugared

\* Under the references there is a type.
LEMMA PointeeFacts ==
  ASSUME Sound(type), NEW i \in 2 .. Len(type)
  PROVE  /\ getPointeeType(i) \in 1 .. i - 1 /\ ~IsReference(getPointeeType(i))
         /\ \A j \in getPointeeType(i) + 1 .. i - 1 : IsReference(j)
<1> DEFINE T == {j \in 1 .. i - 1 : ~IsReference(j)}
<1>1. i - 1 \in Nat /\ i \in Nat /\ 1 \in 1 .. i - 1
  BY BaseLayer
<1>2. ~IsReference(1)
  BY BaseLayer, KindFacts DEF IsReference
<1>3. PICK m \in T : \A y \in T : y <= m
  BY <1>1, <1>2, Greatest
<1>4. m \in 1 .. i - 1 /\ ~IsReference(m) /\ \A k \in m + 1 .. i - 1 : IsReference(k)
  <2>1. ASSUME NEW k \in m + 1 .. i - 1 PROVE IsReference(k)
    <3>1. k \in 1 .. i - 1 /\ ~(k <= m)
      BY <1>1, <1>3
    <3> QED BY <1>3, <3>1
  <2> QED BY <1>3, <2>1
<1> QED BY <1>4, Zenon DEF getPointeeType

\* The part of a layer is below it.
LEMMA PartFacts ==
  ASSUME Sound(type), NEW i \in 1 .. Len(type)
  PROVE  /\ Part(i) \in 0 .. i - 1
         /\ type[i].kind \in Kinds
         /\ type[i].kind \in References => i \in 2 .. Len(type) /\ Part(i) = getPointeeType(i) /\ PartQuals(i) = {}
         /\ DecaysArray(i) => /\ i \in 2 .. Len(type) /\ Desugared(i - 1) \in 2 .. i - 1
                              /\ Part(i) = Desugared(i - 1) - 1 /\ PartQuals(i) = SugarQuals(i - 1)
         /\ type[i].kind \notin References /\ ~DecaysArray(i) => Part(i) = i - 1 /\ PartQuals(i) = {}
<1>1. i \in Nat /\ Len(type) \in Nat /\ type[i] \in LayerType
  BY DEF Sound
<1>2. type[i].kind \in Kinds
  BY <1>1 DEF LayerType
<1>3. i = 1 => type[i].kind \notin References /\ type[i].kind # "DecayedType"
  BY BaseLayer, KindFacts
<1>4. DecaysArray(i) => type[i].kind \notin References
  BY KindFacts DEF DecaysArray
<1>5. ASSUME type[i].kind \in References
      PROVE  i \in 2 .. Len(type) /\ Part(i) = getPointeeType(i) /\ PartQuals(i) = {} /\ Part(i) \in 0 .. i - 1
  <2>1. i \in 2 .. Len(type)
    BY <1>1, <1>3, <1>5
  <2>2. getPointeeType(i) \in 1 .. i - 1
    BY <2>1, PointeeFacts
  <2>3. Part(i) = getPointeeType(i) /\ PartQuals(i) = {}
    BY <1>4, <1>5 DEF Part, PartQuals
  <2> QED BY <1>1, <2>1, <2>2, <2>3
<1>6. ASSUME DecaysArray(i)
      PROVE  /\ i \in 2 .. Len(type) /\ Desugared(i - 1) \in 2 .. i - 1
             /\ Part(i) = Desugared(i - 1) - 1 /\ PartQuals(i) = SugarQuals(i - 1) /\ Part(i) \in 0 .. i - 1
  <2>1. i \in 2 .. Len(type) /\ i - 1 \in 1 .. Len(type)
    BY <1>1, <1>3, <1>6 DEF DecaysArray
  <2>2. PICK k : k = Desugared(i - 1) /\ k \in 1 .. i - 1 /\ type[k].kind \in Arrays
    BY <1>6, <2>1, DesugaredFacts DEF DecaysArray
  <2>3. k # 1
    BY <2>2, BaseLayer, KindFacts
  <2>4. Part(i) = Desugared(i - 1) - 1 /\ PartQuals(i) = SugarQuals(i - 1)
    BY <1>4, <1>6 DEF Part, PartQuals
  <2>5. k \in 2 .. i - 1 /\ k - 1 \in 0 .. i - 1
    BY <1>1, <2>2, <2>3
  <2> QED BY <2>1, <2>2, <2>4, <2>5
<1>7. ASSUME type[i].kind \notin References, ~DecaysArray(i)
      PROVE  Part(i) = i - 1 /\ PartQuals(i) = {} /\ Part(i) \in 0 .. i - 1
  <2>1. Part(i) = i - 1 /\ PartQuals(i) = {}
    BY <1>7 DEF Part, PartQuals
  <2> QED BY <1>1, <2>1
<1> QED BY <1>2, <1>5, <1>6, <1>7

\* The equations of printType.
LEMMA PrintFacts ==
  ASSUME Sound(type)
  PROVE  \A i \in 1 .. Len(type) :
           /\ printType[i] = Visit(type[i].kind, Printed(Part(i), PartQuals(i), printType[Part(i)]))
           /\ printType[i] \in TermType /\ printType[Part(i)] \in TermType
<1>1. PICK n \in Nat : n = Len(type)
  BY DEF Sound
<1>2. PICK in : in = [i \in 1 .. n |-> Part(i)]
  OBVIOUS
<1>3. \A i \in 1 .. n : in[i] = Part(i) /\ in[i] \in 0 .. i - 1 /\ type[i].kind \in Kinds
  BY <1>1, <1>2, PartFacts
<1>4. PICK F : F = [i \in 1 .. n |-> [v \in TermType |-> Visit(type[i].kind, Printed(Part(i), PartQuals(i), v))]]
  OBVIOUS
<1>5. ASSUME NEW i \in 1 .. n, NEW v \in TermType
      PROVE  F[i][v] = Visit(type[i].kind, Printed(Part(i), PartQuals(i), v)) /\ F[i][v] \in TermType
  <2>1. F[i] = [x \in TermType |-> Visit(type[i].kind, Printed(Part(i), PartQuals(i), x))]
    BY <1>4
  <2>2. F[i][v] = Visit(type[i].kind, Printed(Part(i), PartQuals(i), v))
    BY <2>1
  <2>3. Printed(Part(i), PartQuals(i), v) \in TermType
    BY QualTerm DEF Printed
  <2> QED BY <1>3, <2>2, <2>3, VisitTerm
<1>6. <<>> \in TermType
  BY DEF TermType
<1>7. PICK f : f \in [0 .. n -> TermType] /\ f[0] = <<>> /\ \A d \in 1 .. n : f[d] = F[d][f[in[d]]]
  <2>1. Tree(n, in) /\ Steps(n, TermType, F)
    BY <1>3, <1>5 DEF Tree, Steps
  <2>2. PICK z : z = <<>> /\ z \in TermType
    BY <1>6
  <2>3. \E f : Follows(f, n, in, TermType, z, F)
    BY <2>1, <2>2, TreeRecursion
  <2> QED BY <2>2, <2>3 DEF Follows
<1> DEFINE R(g) == [i \in 0 .. n |-> IF i = 0 THEN <<>> ELSE Visit(type[i].kind, Printed(Part(i), PartQuals(i), g[Part(i)]))]
<1>8. f = R(f)
  <2>1. ASSUME NEW i \in 0 .. n
        PROVE  f[i] = IF i = 0 THEN <<>> ELSE Visit(type[i].kind, Printed(Part(i), PartQuals(i), f[Part(i)]))
    <3>1. CASE i = 0
      BY <1>7, <3>1
    <3>2. CASE i # 0
      <4>1. i \in 1 .. n /\ in[i] \in 0 .. n
        BY <1>3, <3>2
      <4>2. PICK v \in TermType : v = f[in[i]]
        BY <1>7, <4>1
      <4>3. f[i] = F[i][v] /\ in[i] = Part(i)
        BY <1>3, <1>7, <4>1, <4>2
      <4> QED BY <1>5, <3>2, <4>1, <4>2, <4>3
    <3> QED BY <3>1, <3>2
  <2> QED BY <1>7, <2>1
<1> DEFINE w == CHOOSE g : g = R(g)
<1>9. w = R(w)
  BY <1>8
<1>10. printType = w
  BY <1>1 DEF printType
<1> HIDE DEF w
<1>11. w[0] = <<>> /\ \A i \in 1 .. n : w[i] = Visit(type[i].kind, Printed(Part(i), PartQuals(i), w[Part(i)]))
  <2>1. ASSUME NEW i \in 0 .. n
        PROVE  w[i] = IF i = 0 THEN <<>> ELSE Visit(type[i].kind, Printed(Part(i), PartQuals(i), w[Part(i)]))
    BY <1>9
  <2>2. 0 \in 0 .. n /\ \A i \in 1 .. n : i \in 0 .. n /\ i # 0
    OBVIOUS
  <2> HIDE DEF R
  <2> QED BY <2>1, <2>2
<1> HIDE DEF R
<1>12. \A i \in 0 .. n : w[i] \in TermType
  <2>1. PICK S : S = {i \in 0 .. n : w[i] \in TermType}
    OBVIOUS
  <2>2. 0 \in S
    BY <1>6, <1>11, <2>1
  <2>3. ASSUME NEW i \in 1 .. n, in[i] \in S PROVE i \in S
    <3>1. PICK v \in TermType : v = w[Part(i)]
      BY <1>3, <2>1, <2>3
    <3>2. Visit(type[i].kind, Printed(Part(i), PartQuals(i), v)) \in TermType
      BY <1>5
    <3>3. i \in 0 .. n
      OBVIOUS
    <3> QED BY <1>11, <2>1, <3>1, <3>2, <3>3
  <2>4. Tree(n, in)
    BY <1>3 DEF Tree
  <2>5. \A i \in 0 .. n : i \in S
    BY <2>2, <2>3, <2>4, TreeInduction
  <2> QED BY <2>1, <2>5
<1>13. \A i \in 1 .. n : i \in 0 .. n /\ Part(i) \in 0 .. n
  BY <1>3
<1> QED BY <1>1, <1>10, <1>11, <1>12, <1>13

\* Coq knows every constructor of the term.
LEMMA TermTokens == Sound(type) => Term \in TermType
<1>1. SUFFICES ASSUME Sound(type) PROVE Term \in TermType
  OBVIOUS
<1>2. Len(type) \in 1 .. Len(type)
  BY <1>1 DEF Sound
<1>3. printType[Len(type)] \in TermType
  BY <1>1, <1>2, PrintFacts
<1> QED BY <1>3, QualTerm DEF Term, Printed

\* Every layer of a type has its type, and Coq knows every constructor that is
\* printed for it.
THEOREM TermsKnown == Spec => []TypeOK
<1>1. Init => Sound(type)
  BY SoundInit
<1>2. Sound(type) /\ [Next]_type => Sound(type)'
  BY SoundStep
<1>3. Sound(type) => TypeOK
  <2>1. SUFFICES ASSUME Sound(type) PROVE TypeOK
    OBVIOUS
  <2>2. Len(type) \in 1 .. MaxLayers
    BY <2>1, PrintTypeAssumption DEF Sound
  <2>3. ASSUME NEW i \in DOMAIN type PROVE type[i].kind \in Kinds /\ type[i].quals \subseteq Quals
    <3>1. type[i] \in LayerType
      BY <2>1 DEF Sound
    <3> QED BY <3>1 DEF LayerType
  <2>4. ASSUME NEW i \in DOMAIN Term PROVE Term[i] \in Tokens
    BY <2>1, TermTokens DEF TermType
  <2> QED BY <2>2, <2>3, <2>4 DEF TypeOK
<1> QED BY <1>1, <1>2, <1>3, PTL DEF Spec

(***************************************************************************)
(* The reader.                                                             *)
(***************************************************************************)

\* Heads replaced in a type.
LEMMA ReplaceHead ==
  ASSUME NEW c \in CType, NEW h, Len(c) >= 1 => h \in HeadType
  PROVE  [c EXCEPT ![1] = h] \in CType
<1>1. c \in Seq(HeadType) /\ Len(c) \in Nat /\ DOMAIN c = 1 .. Len(c)
  BY DEF CType
<1>2. CASE Len(c) >= 1
  BY <1>1, <1>2 DEF CType
<1>3. CASE ~(Len(c) >= 1)
  <2>1. Len(c) = 0
    BY <1>1, <1>3
  <2>2. 1 \notin DOMAIN c
    BY <1>1, <2>1
  <2>3. PICK d : d = [c EXCEPT ![1] = h]
    OBVIOUS
  <2>4. d = [i \in DOMAIN c |-> IF i = 1 THEN h ELSE c[i]]
    BY <2>3
  <2>5. d = [i \in DOMAIN c |-> c[i]]
    BY <2>2, <2>4
  <2>6. c = [i \in DOMAIN c |-> c[i]]
    BY <1>1
  <2> QED BY <2>3, <2>5, <2>6
<1> QED BY <1>2, <1>3

\* tqualified returns a type.
LEMMA TqualifiedType ==
  ASSUME NEW c \in CType, NEW q \in SUBSET Quals
  PROVE  tqualified(q, c) \in CType
<1>1. PICK h : h = [c[1] EXCEPT !.quals = c[1].quals \cup q]
  OBVIOUS
<1>2. [c EXCEPT ![1].quals = @ \cup q] = [c EXCEPT ![1] = h]
  BY <1>1, Zenon
<1>3. ASSUME Len(c) >= 1 PROVE h \in HeadType
  <2>1. 1 \in 1 .. Len(c)
    BY <1>3 DEF CType
  <2>2. PICK r : r = c[1] /\ r \in HeadType
    BY <2>1, HeadFacts
  <2>3. [r EXCEPT !.quals = r.quals \cup q] \in HeadType
    BY <2>2 DEF HeadType
  <2> QED BY <1>1, <2>2, <2>3
<1>4. [c EXCEPT ![1] = h] \in CType
  BY <1>3, ReplaceHead
<1>5. [c EXCEPT ![1].quals = @ \cup q] \in CType
  BY <1>2, <1>4, Zenon
<1> QED BY <1>5, Zenon DEF tqualified

\* Unqualified returns a type.
LEMMA UnqualifiedType ==
  ASSUME NEW c \in CType
  PROVE  Unqualified(c) \in CType
<1>1. PICK h : h = [c[1] EXCEPT !.quals = {}]
  OBVIOUS
<1>2. [c EXCEPT ![1].quals = {}] = [c EXCEPT ![1] = h]
  BY <1>1, Zenon
<1>3. ASSUME Len(c) >= 1 PROVE h \in HeadType
  <2>1. 1 \in 1 .. Len(c)
    BY <1>3 DEF CType
  <2>2. PICK r : r = c[1] /\ r \in HeadType
    BY <2>1, HeadFacts
  <2>3. [r EXCEPT !.quals = {}] \in HeadType
    BY <2>2 DEF HeadType
  <2> QED BY <1>1, <2>2, <2>3
<1>4. [c EXCEPT ![1] = h] \in CType
  BY <1>3, ReplaceHead
<1> QED BY <1>2, <1>4, Zenon DEF Unqualified

\* The heads of the constructors.
LEMMA HeadOfCtor ==
  /\ \A k \in DOMAIN HeadOf : HeadOf[k] \in Heads
  /\ \A k \in {"Tint", "Tenum", "Tnamed", "Tunsupported"} : HeadOf[k] \in Heads \ Derived
  /\ HeadOf["Tint"] = "BuiltinType" /\ HeadOf["Tptr"] = "PointerType"
  /\ HeadOf["Tfunction_ret"] = "FunctionReturning" /\ HeadOf["Tfunction_arg"] = "FunctionTaking"
  /\ QualsOf["Qconst"] = {"const"} /\ QualsOf["Qmut_volatile"] = {"volatile"} /\ QualsOf["Qconst_volatile"] = Quals
  /\ \A k \in DOMAIN QualsOf : QualsOf[k] \in SUBSET Quals
<1>1. /\ HeadOf["Tint"] = "BuiltinType" /\ HeadOf["Tptr"] = "PointerType"
      /\ HeadOf["Tfunction_ret"] = "FunctionReturning" /\ HeadOf["Tfunction_arg"] = "FunctionTaking"
      /\ HeadOf["Tenum"] = "EnumType" /\ HeadOf["Tnamed"] = "RecordType" /\ HeadOf["Tunsupported"] = "Type"
      /\ HeadOf["Tref"] = "LValueReferenceType" /\ HeadOf["Trv_ref"] = "RValueReferenceType"
      /\ HeadOf["Tarray"] = "ConstantArrayType" /\ HeadOf["Tmember_pointer"] = "MemberPointerType"
  BY DEF HeadOf
<1>2. /\ QualsOf["Qconst"] = {"const"} /\ QualsOf["Qmut_volatile"] = {"volatile"} /\ QualsOf["Qconst_volatile"] = Quals
  BY DEF QualsOf
<1>3. \A k \in {"Tint", "Tenum", "Tnamed", "Tunsupported"} : HeadOf[k] \in Heads \ Derived
  BY <1>1 DEF Heads, Derived, Bases, References, Arrays, Functions
<1>4. \A k \in {"Tptr", "Tref", "Trv_ref", "Tfunction_ret", "Tfunction_arg", "Tarray", "Tmember_pointer"} : HeadOf[k] \in Heads
  BY <1>1, KindFacts DEF References, Functions, Arrays
<1>5. \A k \in DOMAIN HeadOf : HeadOf[k] \in Heads
  BY <1>3, <1>4, TokenFacts
<1>6. {"const"} \subseteq Quals /\ {"volatile"} \subseteq Quals
  BY DEF Quals
<1>7. \A k \in DOMAIN QualsOf : QualsOf[k] \in SUBSET Quals
  BY <1>2, <1>6, TokenFacts
<1> QED BY <1>1, <1>2, <1>3, <1>5, <1>7

\* What Coq has for each constructor.
LEMMA ReadCases ==
  ASSUME NEW k \in Tokens, NEW c
  PROVE  /\ k \in DOMAIN QualsOf => Read(k, c) = tqualified(QualsOf[k], c)
         /\ k \in {"Tincomplete_array", "Tvariable_array"} => Read(k, c) = Head1("PointerType", {"const"}) \o c
         /\ k \in {"@Tunderlying", "Tdecay_type"} => Read(k, c) = c
         /\ k \in {"Tfunction_ret", "Tfunction_arg"} => Read(k, c) = Head1(HeadOf[k], {}) \o Unqualified(c)
         /\ k \in {"Tint", "Tenum", "Tnamed", "Tunsupported"} => Read(k, c) = Head1(HeadOf[k], {})
         /\ k \in {"Tptr", "Tref", "Trv_ref", "Tarray", "Tmember_pointer"} => Read(k, c) = Head1(HeadOf[k], {}) \o c
<1>1. k \in DOMAIN QualsOf <=> k \in {"Qconst", "Qmut_volatile", "Qconst_volatile"}
  BY TokenFacts
<1>2. k \in DOMAIN QualsOf => Read(k, c) = tqualified(QualsOf[k], c)
  BY <1>1 DEF Read
<1>3. k \in {"Tincomplete_array", "Tvariable_array"} => Read(k, c) = Head1("PointerType", {"const"}) \o c
  BY <1>1 DEF Read
<1>4. k \in {"@Tunderlying", "Tdecay_type"} => Read(k, c) = c
  BY <1>1 DEF Read
<1>5. k \in {"Tfunction_ret", "Tfunction_arg"} => Read(k, c) = Head1(HeadOf[k], {}) \o Unqualified(c)
  BY <1>1 DEF Read
<1>6. k \in {"Tint", "Tenum", "Tnamed", "Tunsupported"} => Read(k, c) = Head1(HeadOf[k], {})
  BY <1>1 DEF Read
<1>7. k \in {"Tptr", "Tref", "Trv_ref", "Tarray", "Tmember_pointer"} => Read(k, c) = Head1(HeadOf[k], {}) \o c
  BY <1>1 DEF Read
<1> QED BY <1>2, <1>3, <1>4, <1>5, <1>6, <1>7

\* Coq has a type for it.
LEMMA ReadType ==
  ASSUME NEW k \in Tokens, NEW c \in CType
  PROVE  Read(k, c) \in CType
<1>1. \A h \in Heads, q \in SUBSET Quals, x \in CType : Head1(h, q) \o x \in CType
  BY ConsFacts DEF IsCons
<1>2. CASE k \in DOMAIN QualsOf
  BY <1>2, ReadCases, HeadOfCtor, TqualifiedType
<1>3. CASE k \in {"Tincomplete_array", "Tvariable_array"}
  <2>1. "PointerType" \in Heads /\ {"const"} \in SUBSET Quals
    BY KindFacts DEF Quals
  <2>2. Head1("PointerType", {"const"}) \o c \in CType
    BY <1>1, <2>1
  <2> QED BY <1>3, <2>2, ReadCases
<1>4. CASE k \in {"@Tunderlying", "Tdecay_type"}
  BY <1>4, ReadCases
<1>5. CASE k \in {"Tfunction_ret", "Tfunction_arg"}
  <2>1. HeadOf[k] \in Heads
    BY <1>5, HeadOfCtor, TokenFacts
  <2>2. Head1(HeadOf[k], {}) \o Unqualified(c) \in CType
    BY <1>1, <2>1, UnqualifiedType
  <2> QED BY <1>5, <2>2, ReadCases
<1>6. CASE k \in {"Tint", "Tenum", "Tnamed", "Tunsupported"}
  <2>1. HeadOf[k] \in Heads \ Derived
    BY <1>6, HeadOfCtor
  <2>2. Head1(HeadOf[k], {}) \in CType
    BY <2>1, OneHead DEF WF
  <2> QED BY <1>6, <2>2, ReadCases
<1>7. CASE k \in {"Tptr", "Tref", "Trv_ref", "Tarray", "Tmember_pointer"}
  <2>1. HeadOf[k] \in Heads
    BY <1>7, HeadOfCtor, TokenFacts
  <2>2. Head1(HeadOf[k], {}) \o c \in CType
    BY <1>1, <2>1
  <2> QED BY <1>7, <2>2, ReadCases
<1> QED BY <1>2, <1>3, <1>4, <1>5, <1>6, <1>7, TokenFacts DEF Abbreviations

\* Function r has what is read from the ends of term t.
ReadsBy(r, t) ==
  /\ r[0] = <<>>
  /\ \A k \in 1 .. Len(t) : r[k] = Read(t[Len(t) - k + 1], r[k - 1])
  /\ \A k \in 0 .. Len(t) : r[k] \in CType

\* normalize_type satisfies its equations.
LEMMA NormalizeFacts ==
  ASSUME NEW t \in TermType
  PROVE  \E r : ReadsBy(r, t) /\ normalize_type(t) = r[Len(t)]
<1>1. PICK n \in Nat : n = Len(t)
  BY DEF TermType
<1>2. PICK in : in = [k \in 1 .. n |-> k - 1]
  OBVIOUS
<1>3. \A k \in 1 .. n : in[k] = k - 1 /\ in[k] \in 0 .. k - 1
  BY <1>2
<1>4. PICK at : at = [k \in 1 .. n |-> t[n - k + 1]]
  OBVIOUS
<1>5. \A k \in 1 .. n : at[k] = t[n - k + 1] /\ at[k] \in Tokens
  <2>1. ASSUME NEW k \in 1 .. n PROVE t[n - k + 1] \in Tokens
    <3>1. n - k + 1 \in 1 .. n
      OBVIOUS
    <3> QED BY <1>1, <3>1 DEF TermType
  <2> QED BY <1>4, <2>1
<1>6. PICK F : F = [k \in 1 .. n |-> [c \in CType |-> Read(at[k], c)]]
  OBVIOUS
<1>7. ASSUME NEW k \in 1 .. n, NEW c \in CType PROVE F[k][c] = Read(at[k], c) /\ F[k][c] \in CType
  <2>1. F[k] = [x \in CType |-> Read(at[k], x)]
    BY <1>6
  <2>2. F[k][c] = Read(at[k], c)
    BY <2>1
  <2> QED BY <1>5, <2>2, ReadType
<1>8. <<>> \in CType
  BY DEF CType
<1>9. PICK f : f \in [0 .. n -> CType] /\ f[0] = <<>> /\ \A k \in 1 .. n : f[k] = F[k][f[in[k]]]
  <2>1. Tree(n, in) /\ Steps(n, CType, F)
    BY <1>3, <1>7 DEF Tree, Steps
  <2>2. PICK z : z = <<>> /\ z \in CType
    BY <1>8
  <2>3. \E f : Follows(f, n, in, CType, z, F)
    BY <2>1, <2>2, TreeRecursion
  <2> QED BY <2>2, <2>3 DEF Follows
<1> DEFINE R(g) == [k \in 0 .. n |-> IF k = 0 THEN <<>> ELSE Read(t[n - k + 1], g[k - 1])]
<1>10. f = R(f)
  <2>1. ASSUME NEW k \in 0 .. n PROVE f[k] = IF k = 0 THEN <<>> ELSE Read(t[n - k + 1], f[k - 1])
    <3>1. CASE k = 0
      BY <1>9, <3>1
    <3>2. CASE k # 0
      <4>1. k \in 1 .. n /\ in[k] \in 0 .. n
        BY <1>3, <3>2
      <4>2. PICK v \in CType : v = f[in[k]]
        BY <1>9, <4>1
      <4>3. f[k] = F[k][v] /\ in[k] = k - 1 /\ at[k] = t[n - k + 1]
        BY <1>3, <1>5, <1>9, <4>1, <4>2
      <4> QED BY <1>7, <3>2, <4>1, <4>2, <4>3
    <3> QED BY <3>1, <3>2
  <2> QED BY <1>9, <2>1
<1> DEFINE w == CHOOSE g : g = R(g)
<1>11. w = R(w)
  BY <1>10
<1>12. normalize_type(t) = w[n]
  BY <1>1 DEF normalize_type
<1> HIDE DEF w
<1>13. w[0] = <<>> /\ \A k \in 1 .. n : w[k] = Read(t[n - k + 1], w[k - 1])
  <2>1. ASSUME NEW k \in 0 .. n PROVE w[k] = IF k = 0 THEN <<>> ELSE Read(t[n - k + 1], w[k - 1])
    BY <1>11
  <2>2. 0 \in 0 .. n /\ \A k \in 1 .. n : k \in 0 .. n /\ k # 0
    OBVIOUS
  <2> HIDE DEF R
  <2> QED BY <2>1, <2>2
<1> HIDE DEF R
<1>14. \A k \in 0 .. n : w[k] \in CType
  <2>1. PICK S : S = {k \in 0 .. n : w[k] \in CType}
    OBVIOUS
  <2>2. 0 \in S
    BY <1>8, <1>13, <2>1
  <2>3. ASSUME NEW k \in 1 .. n, in[k] \in S PROVE k \in S
    <3>1. PICK v \in CType : v = w[k - 1]
      BY <1>3, <2>1, <2>3
    <3>2. w[k] = Read(at[k], v)
      BY <1>5, <1>13, <3>1
    <3>3. k \in 0 .. n /\ w[k] \in CType
      BY <1>5, <3>2, ReadType
    <3> QED BY <2>1, <3>3
  <2>4. Tree(n, in)
    BY <1>3 DEF Tree
  <2>5. \A k \in 0 .. n : k \in S
    BY <2>2, <2>3, <2>4, TreeInduction
  <2> QED BY <2>1, <2>5
<1>15. ReadsBy(w, t)
  BY <1>1, <1>13, <1>14 DEF ReadsBy
<1> QED BY <1>1, <1>12, <1>15

\* Coq has a type for every term.
LEMMA NormalizeType ==
  ASSUME NEW t \in TermType
  PROVE  normalize_type(t) \in CType
<1>1. PICK r : ReadsBy(r, t) /\ normalize_type(t) = r[Len(t)]
  BY NormalizeFacts
<1>2. Len(t) \in 0 .. Len(t)
  BY DEF TermType
<1> QED BY <1>1, <1>2 DEF ReadsBy

\* A term is read from its argument.
LEMMA NormalizeCons ==
  ASSUME NEW k \in Tokens, NEW t \in TermType
  PROVE  normalize_type(<<k>> \o t) = Read(k, normalize_type(t))
<1>1. PICK n \in Nat : n = Len(t)
  BY DEF TermType
<1>2. PICK s : s = <<k>> \o t
  OBVIOUS
<1>3. s \in TermType /\ Len(s) = n + 1 /\ s[1] = k /\ \A i \in 1 .. n : s[i + 1] = t[i]
  <2>1. s \in TermType
    BY <1>2, TokenOn
  <2>2. Len(s) = n + 1 /\ s[1] = k /\ \A i \in 1 .. n : s[i + 1] = t[i]
    BY <1>1, <1>2 DEF TermType
  <2> QED BY <2>1, <2>2
<1>4. PICK r : ReadsBy(r, s) /\ normalize_type(s) = r[n + 1]
  BY <1>3, NormalizeFacts
<1>5. PICK q : ReadsBy(q, t) /\ normalize_type(t) = q[n]
  BY <1>1, NormalizeFacts
<1>6. ASSUME NEW i \in 1 .. n, r[i - 1] = q[i - 1] PROVE r[i] = q[i]
  <2>1. i \in 1 .. n + 1 /\ n - i + 1 \in 1 .. n /\ (n + 1) - i + 1 = (n - i + 1) + 1
    OBVIOUS
  <2>2. PICK j \in 1 .. n : j = n - i + 1
    BY <2>1
  <2>3. s[j + 1] = t[j]
    BY <1>3, <2>2
  <2>4. r[i] = Read(s[(n + 1) - i + 1], r[i - 1])
    BY <1>3, <1>4, <2>1 DEF ReadsBy
  <2>5. q[i] = Read(t[j], q[i - 1])
    BY <1>1, <1>5, <2>2 DEF ReadsBy
  <2>6. r[i] = Read(s[j + 1], r[i - 1])
    BY <2>1, <2>2, <2>4
  <2> QED BY <1>6, <2>3, <2>5, <2>6
<1>7. r[n] = q[n]
  <2>1. PICK S : S = {i \in 0 .. n : r[i] = q[i]}
    OBVIOUS
  <2>2. PICK in : in = [i \in 1 .. n |-> i - 1]
    OBVIOUS
  <2>3. Tree(n, in)
    BY <2>2 DEF Tree
  <2>4. 0 \in S
    BY <1>4, <1>5, <2>1 DEF ReadsBy
  <2>5. ASSUME NEW i \in 1 .. n, in[i] \in S PROVE i \in S
    <3>1. r[i - 1] = q[i - 1] /\ i \in 0 .. n
      BY <2>1, <2>2, <2>5
    <3>2. r[i] = q[i]
      BY <1>6, <3>1
    <3> QED BY <2>1, <3>1, <3>2
  <2>6. \A i \in 0 .. n : i \in S
    BY <2>3, <2>4, <2>5, TreeInduction
  <2> QED BY <2>1, <2>6
<1>8. r[n + 1] = Read(s[1], r[n])
  <2>1. n + 1 \in 1 .. n + 1 /\ (n + 1) - (n + 1) + 1 = 1 /\ (n + 1) - 1 = n
    OBVIOUS
  <2>2. \A i \in 1 .. n + 1 : r[i] = Read(s[(n + 1) - i + 1], r[i - 1])
    BY <1>3, <1>4 DEF ReadsBy
  <2> QED BY <2>1, <2>2
<1> QED BY <1>2, <1>3, <1>4, <1>5, <1>7, <1>8

(***************************************************************************)
(* What the types of Coq mean.                                             *)
(***************************************************************************)

\* Arrays, from k to i.
Through(x, k, i) == \A j \in k .. i - 1 : x[j].head = "ConstantArrayType"

\* Qualifier e is that of head i, or of arrays of it.
Reaches(x, i, e) == \E k \in 1 .. i : Through(x, k, i) /\ e \in x[k].quals

MeantHead(h) == IF h \in Unsized THEN "PointerType" ELSE h

MeantQuals(c, i) ==
  IF c[i].head \in Unsized THEN {"const"}
  ELSE IF i > 1 /\ c[i - 1].head = "FunctionReturning" THEN {} ELSE c[i].quals

\* Qualifiers in x reach head i as they are meant in c.
QualsMean(x, c, i) == \A e : Reaches(x, i, e) <=> e \in MeantQuals(c, i)

\* Type x of Coq means type c of clang.
Means(x, c) ==
  /\ x \in CType /\ Len(x) = Len(c)
  /\ \A i \in 1 .. Len(c) : x[i].head = MeantHead(c[i].head)
  /\ \A i \in 1 .. Len(c) : c[i].head # "ConstantArrayType" => QualsMean(x, c, i)

\* MeantHead keeps references and arrays of known size apart.
LEMMA MeantHeads ==
  ASSUME NEW h
  PROVE  /\ MeantHead(h) = "ConstantArrayType" <=> h = "ConstantArrayType"
         /\ MeantHead(h) \in References <=> h \in References
BY KindFacts DEF MeantHead, Frees

\* It is then equal to it, up to where qualifiers of arrays stand.
LEMMA MeansEqual ==
  ASSUME NEW x, NEW c, WF(c), Means(x, c)
  PROVE  Sunk(x) = Meant(c)
<1>1. PICK n \in Nat : n = Len(c) /\ Len(x) = n /\ x \in CType /\ c \in CType
                       /\ DOMAIN x = 1 .. n /\ DOMAIN c = 1 .. n
  BY DEF Means, WF, CType
<1> DEFINE A(i) == UNION {x[k].quals : k \in {k \in 1 .. i : \A j \in k .. i - 1 : x[j].head = "ConstantArrayType"}}
           S(i) == [x[i] EXCEPT !.quals = IF x[i].head = "ConstantArrayType" THEN {} ELSE A(i)]
           M(i) == CASE c[i].head \in {"IncompleteArrayType", "VariableArrayType"} -> [head |-> "PointerType", quals |-> {"const"}]
                     [] i > 1 /\ c[i - 1].head = "FunctionReturning" -> [c[i] EXCEPT !.quals = {}]
                     [] OTHER -> c[i]
<1>2. ASSUME NEW i \in 1 .. n, NEW e PROVE e \in A(i) <=> Reaches(x, i, e)
  BY DEF Reaches, Through
<1>3. ASSUME NEW i \in 1 .. n PROVE S(i) = M(i)
  <2>1. PICK r : r = x[i] /\ r \in HeadType
    BY <1>1, HeadFacts
  <2>2. PICK s : s = c[i] /\ s \in HeadType
    BY <1>1, HeadFacts
  <2>3. r.head = MeantHead(s.head)
    BY <1>1, <2>1, <2>2 DEF Means
  <2>4. PICK p : p = IF r.head = "ConstantArrayType" THEN {} ELSE A(i)
    OBVIOUS
  <2>5. S(i) = [head |-> r.head, quals |-> p]
    <3>1. [r EXCEPT !.quals = p] = [head |-> r.head, quals |-> p]
      BY <2>1 DEF HeadType
    <3> QED BY <2>1, <2>4, <3>1
  <2>6. p = MeantQuals(c, i)
    <3>1. CASE r.head = "ConstantArrayType"
      <4>1. s.head = "ConstantArrayType"
        BY <2>3, <3>1, MeantHeads
      <4>2. c[i].quals = {} /\ c[i].head \notin Unsized
        BY <1>1, <2>2, <4>1, KindFacts DEF WF
      <4>3. MeantQuals(c, i) = {}
        BY <4>2 DEF MeantQuals
      <4> QED BY <2>4, <3>1, <4>3
    <3>2. CASE r.head # "ConstantArrayType"
      <4>1. c[i].head # "ConstantArrayType"
        BY <2>2, <2>3, <3>2, MeantHeads
      <4>2. \A e : Reaches(x, i, e) <=> e \in MeantQuals(c, i)
        BY <1>1, <4>1 DEF Means, QualsMean
      <4>3. \A e : e \in A(i) <=> e \in MeantQuals(c, i)
        BY <1>2, <4>2
      <4>4. p = A(i)
        BY <2>4, <3>2
      <4> HIDE DEF A
      <4> QED BY <4>3, <4>4
    <3> QED BY <3>1, <3>2
  <2>7. M(i) = [head |-> MeantHead(s.head), quals |-> MeantQuals(c, i)]
    <3>1. CASE s.head \in Unsized
      <4>1. ~(i > 1 /\ c[i - 1].head = "FunctionReturning")
        <5>1. SUFFICES ASSUME i > 1, c[i - 1].head = "FunctionReturning" PROVE FALSE
          OBVIOUS
        <5>2. i - 1 \in 1 .. n - 1 /\ (i - 1) + 1 = i
          BY <5>1
        <5>3. Joined(c[i - 1], c[i])
          BY <1>1, <5>2 DEF WF
        <5> QED BY <2>2, <3>1, <5>1, <5>3, KindFacts DEF Joined
      <4>2. M(i) = [head |-> "PointerType", quals |-> {"const"}]
        BY <2>2, <3>1, <4>1 DEF Unsized
      <4> QED BY <2>2, <3>1, <4>2 DEF MeantHead, MeantQuals
    <3>2. CASE s.head \notin Unsized
      <4>1. CASE i > 1 /\ c[i - 1].head = "FunctionReturning"
        <5>1. M(i) = [s EXCEPT !.quals = {}]
          BY <2>2, <3>2, <4>1 DEF Unsized
        <5>2. PICK z : z = {}
          OBVIOUS
        <5>3. [s EXCEPT !.quals = z] = [head |-> s.head, quals |-> z]
          BY <2>2 DEF HeadType
        <5>4. MeantQuals(c, i) = z /\ MeantHead(s.head) = s.head
          BY <2>2, <3>2, <4>1, <5>2 DEF MeantQuals, MeantHead
        <5> HIDE DEF M
        <5> QED BY <5>1, <5>2, <5>3, <5>4
      <4>2. CASE ~(i > 1 /\ c[i - 1].head = "FunctionReturning")
        <5>1. M(i) = s
          BY <2>2, <3>2, <4>2 DEF Unsized
        <5>2. s = [head |-> s.head, quals |-> s.quals]
          BY <2>2 DEF HeadType
        <5>3. MeantQuals(c, i) = s.quals /\ MeantHead(s.head) = s.head
          BY <2>2, <3>2, <4>2 DEF MeantQuals, MeantHead
        <5> HIDE DEF M
        <5> QED BY <5>1, <5>2, <5>3
      <4> QED BY <4>1, <4>2
    <3> QED BY <3>1, <3>2
  <2> HIDE DEF S, M
  <2> QED BY <2>3, <2>5, <2>6, <2>7
<1>4. Sunk(x) = [i \in 1 .. n |-> S(i)]
  BY <1>1 DEF Sunk
<1>5. Meant(c) = [i \in 1 .. n |-> M(i)]
  BY <1>1 DEF Meant
<1> HIDE DEF S, M
<1> QED BY <1>3, <1>4, <1>5

\* A head on types of one meaning.
LEMMA MeansCons ==
  ASSUME NEW x, NEW c, Means(x, c), NEW n \in Nat, n = Len(c), n >= 1,
         NEW g, NEW p, NEW y, IsCons(y, g, p, x), NEW h, NEW q, NEW d, IsCons(d, h, q, c),
         g = MeantHead(h), h \in Unsized => p = {"const"}, h \notin Unsized => p = q,
         h = "ConstantArrayType" => p = {},
         h = "FunctionReturning" => c[1].quals = {} /\ c[1].head \notin Unsized
  PROVE  Means(y, d)
<1>1. /\ y \in CType /\ Len(y) = n + 1 /\ Len(d) = n + 1
      /\ y[1].head = g /\ y[1].quals = p /\ d[1].head = h /\ d[1].quals = q
      /\ \A i \in 1 .. n : y[i + 1] = x[i]
      /\ \A i \in 1 .. n : d[i + 1] = c[i]
  BY DEF IsCons, Means
<1>2. \A i \in 1 .. n + 1 : i = 1 \/ \E j \in 1 .. n : i = j + 1
  <2>1. ASSUME NEW i \in 1 .. n + 1, i # 1 PROVE \E j \in 1 .. n : i = j + 1
    <3>1. i - 1 \in 1 .. n /\ i = (i - 1) + 1
      BY <2>1
    <3> QED BY <3>1
  <2> QED BY <2>1
<1>3. \A i \in 1 .. n : x[i].head = MeantHead(c[i].head)
  BY DEF Means
<1>4. ASSUME NEW i \in 1 .. n + 1 PROVE y[i].head = MeantHead(d[i].head)
  <2>1. CASE i = 1
    BY <1>1, <2>1
  <2>2. CASE i # 1
    <3>1. PICK j \in 1 .. n : i = j + 1
      BY <1>2, <2>2
    <3> QED BY <1>1, <1>3, <3>1
  <2> QED BY <2>1, <2>2
<1>5. ASSUME d[1].head # "ConstantArrayType" PROVE QualsMean(y, d, 1)
  <2>1. MeantQuals(d, 1) = p
    BY <1>1 DEF MeantQuals
  <2>2. ASSUME NEW e PROVE Reaches(y, 1, e) <=> e \in p
    <3>1. \A k \in 1 .. 1 : k = 1
      OBVIOUS
    <3>2. Through(y, 1, 1) /\ 1 \in 1 .. 1
      BY DEF Through
    <3> QED BY <1>1, <3>1, <3>2 DEF Reaches
  <2> QED BY <2>1, <2>2 DEF QualsMean
<1>6. ASSUME NEW j \in 1 .. n, c[j].head # "ConstantArrayType" PROVE QualsMean(y, d, j + 1)
  <2>1. QualsMean(x, c, j)
    BY <1>6 DEF Means
  <2>2. MeantQuals(d, j + 1) = MeantQuals(c, j)
    <3>1. d[j + 1] = c[j] /\ j + 1 > 1 /\ (j + 1) - 1 = j
      BY <1>1
    <3>2. CASE j = 1
      <4>1. d[j].head = h /\ ~(j > 1)
        BY <1>1, <3>2
      <4>2. CASE h = "FunctionReturning"
        <5>1. c[j].quals = {} /\ c[j].head \notin Unsized
          BY <3>2, <4>2
        <5> QED BY <3>1, <4>1, <4>2, <5>1 DEF MeantQuals
      <4>3. CASE h # "FunctionReturning"
        BY <3>1, <4>1, <4>3 DEF MeantQuals
      <4> QED BY <4>2, <4>3
    <3>3. CASE j # 1
      <4>1. j - 1 \in 1 .. n /\ (j - 1) + 1 = j /\ j > 1
        BY <3>3
      <4>2. PICK m \in 1 .. n : m = j - 1 /\ m + 1 = j
        BY <4>1
      <4>3. d[j] = c[j - 1]
        BY <1>1, <4>2
      <4> QED BY <3>1, <4>1, <4>3 DEF MeantQuals
    <3> QED BY <3>2, <3>3
  <2>3. ASSUME NEW k \in 1 .. j PROVE Through(y, k + 1, j + 1) <=> Through(x, k, j)
    <3>1. ASSUME Through(x, k, j), NEW m \in k + 1 .. (j + 1) - 1 PROVE y[m].head = "ConstantArrayType"
      <4>1. PICK l : l = m - 1
        OBVIOUS
      <4>2. l \in k .. j - 1 /\ l \in 1 .. n /\ l + 1 = m
        <5>1. k \in Nat /\ j \in Nat /\ 1 <= k /\ j <= n /\ m \in Int /\ k + 1 <= m /\ m <= j
          BY <3>1
        <5> QED BY <4>1, <5>1
      <4>3. y[l + 1] = x[l]
        BY <1>1, <4>2
      <4> QED BY <3>1, <4>2, <4>3 DEF Through
    <3>2. ASSUME Through(y, k + 1, j + 1), NEW l \in k .. j - 1 PROVE x[l].head = "ConstantArrayType"
      <4>1. l + 1 \in k + 1 .. (j + 1) - 1 /\ l \in 1 .. n
        OBVIOUS
      <4>2. y[l + 1] = x[l] /\ y[l + 1].head = "ConstantArrayType"
        BY <1>1, <3>2, <4>1 DEF Through
      <4> QED BY <4>2
    <3> QED BY <3>1, <3>2 DEF Through
  <2>4. ASSUME NEW e, Reaches(x, j, e) PROVE Reaches(y, j + 1, e)
    <3>1. PICK k \in 1 .. j : Through(x, k, j) /\ e \in x[k].quals
      BY <2>4 DEF Reaches
    <3>2. k + 1 \in 1 .. j + 1 /\ k \in 1 .. n
      OBVIOUS
    <3>3. y[k + 1] = x[k] /\ Through(y, k + 1, j + 1)
      BY <1>1, <2>3, <3>1, <3>2
    <3> QED BY <3>1, <3>2, <3>3 DEF Reaches
  <2>5. ASSUME NEW e, Reaches(y, j + 1, e) PROVE Reaches(x, j, e)
    <3>1. PICK k \in 1 .. j + 1 : Through(y, k, j + 1) /\ e \in y[k].quals
      BY <2>5 DEF Reaches
    <3>2. k # 1
      <4>1. SUFFICES ASSUME k = 1 PROVE FALSE
        OBVIOUS
      <4>2. 1 \in k .. (j + 1) - 1
        BY <4>1
      <4>3. y[1].head = "ConstantArrayType"
        BY <3>1, <4>2 DEF Through
      <4>4. p = {}
        <5>1. MeantHead(h) = "ConstantArrayType"
          BY <1>1, <4>3
        <5>2. h = "ConstantArrayType"
          BY <5>1, MeantHeads
        <5> QED BY <5>2
      <4> QED BY <1>1, <3>1, <4>1, <4>4
    <3>3. PICK l : l = k - 1
      OBVIOUS
    <3>4. l \in 1 .. j /\ l \in 1 .. n /\ l + 1 = k
      BY <3>2, <3>3
    <3>5. y[l + 1] = x[l] /\ Through(x, l, j)
      BY <1>1, <2>3, <3>1, <3>4
    <3> QED BY <3>1, <3>4, <3>5 DEF Reaches
  <2> QED BY <2>1, <2>2, <2>4, <2>5 DEF QualsMean
<1>7. ASSUME NEW i \in 1 .. n + 1, d[i].head # "ConstantArrayType" PROVE QualsMean(y, d, i)
  <2>1. CASE i = 1
    BY <1>5, <1>7, <2>1
  <2>2. CASE i # 1
    <3>1. PICK j \in 1 .. n : i = j + 1
      BY <1>2, <2>2
    <3>2. d[j + 1] = c[j]
      BY <1>1
    <3> QED BY <1>6, <1>7, <3>1, <3>2
  <2> QED BY <2>1, <2>2
<1> QED BY <1>1, <1>4, <1>7 DEF Means

\* Types of one meaning without the qualifiers of their first heads.
LEMMA MeansBare ==
  ASSUME NEW x, NEW c, Means(x, c), NEW n \in Nat, n = Len(c), n >= 1, c[1].head \notin Arrays,
         NEW y, Bares(x, y), NEW d, Bares(c, d)
  PROVE  Means(y, d)
<1>1. Len(x) = n /\ y \in CType /\ Len(y) = n /\ Len(d) = n /\ y[1].quals = {} /\ d[1].quals = {} /\ 1 \in 1 .. n
  BY DEF Means, Bares, SameHeads
<1>2. \A i \in 1 .. n : y[i].head = x[i].head /\ d[i].head = c[i].head /\ x[i].head = MeantHead(c[i].head)
  BY <1>1 DEF Means, Bares, SameHeads
<1>3. \A i \in 1 .. n : i # 1 => y[i] = x[i] /\ d[i] = c[i]
  <2>1. \A i \in 1 .. n : i # 1 => i \in 2 .. n
    OBVIOUS
  <2> QED BY <1>1, <2>1 DEF Bares
<1>4. x[1].head # "ConstantArrayType"
  <2>1. c[1].head # "ConstantArrayType" /\ x[1].head = MeantHead(c[1].head)
    BY <1>1, <1>2, KindFacts
  <2> QED BY <2>1, MeantHeads
<1>5. ASSUME NEW i \in 1 .. n, d[i].head # "ConstantArrayType" PROVE QualsMean(y, d, i)
  <2>1. QualsMean(x, c, i)
    BY <1>2, <1>5 DEF Means
  <2>2. CASE i = 1
    <3>1. c[1].head \notin Unsized /\ d[1].head \notin Unsized /\ ~(1 > 1)
      BY <1>1, <1>2, KindFacts
    <3>2. MeantQuals(d, 1) = {}
      BY <1>1, <3>1 DEF MeantQuals
    <3>3. ASSUME NEW e PROVE ~Reaches(y, 1, e)
      <4>1. \A k \in 1 .. 1 : k = 1
        OBVIOUS
      <4> QED BY <1>1, <4>1 DEF Reaches
    <3> QED BY <2>2, <3>2, <3>3 DEF QualsMean
  <2>3. CASE i # 1
    <3>1. i > 1 /\ i - 1 \in 1 .. n
      BY <2>3
    <3>2. MeantQuals(d, i) = MeantQuals(c, i)
      BY <1>2, <1>3, <2>3, <3>1 DEF MeantQuals
    <3>3. ASSUME NEW k \in 1 .. i PROVE Through(y, k, i) <=> Through(x, k, i)
      <4>1. \A j \in k .. i - 1 : j \in 1 .. n
        OBVIOUS
      <4> QED BY <1>2, <4>1 DEF Through
    <3>4. ~Through(x, 1, i)
      BY <1>4, <3>1 DEF Through
    <3>5. ASSUME NEW e PROVE Reaches(y, i, e) <=> Reaches(x, i, e)
      <4>1. \A k \in 1 .. i : k \in 1 .. n
        OBVIOUS
      <4>2. \A k \in 1 .. i : Through(x, k, i) => y[k] = x[k]
        BY <1>3, <3>4, <4>1
      <4> QED BY <3>3, <4>2 DEF Reaches
    <3> QED BY <2>1, <3>2, <3>5 DEF QualsMean
  <2> QED BY <2>2, <2>3
<1> QED BY <1>1, <1>2, <1>5 DEF Means

\* The qualifiers of a result mean nothing.
LEMMA MeansResult ==
  ASSUME NEW x, NEW c, Means(x, c), NEW n \in Nat, n = Len(c), NEW d, SameHeads(c, d),
         c[1].head = "FunctionReturning", n >= 2, \A i \in 1 .. n : i # 2 => d[i] = c[i]
  PROVE  Means(x, d)
<1>1. x \in CType /\ Len(x) = n /\ Len(d) = n /\ \A i \in 1 .. n : d[i].head = c[i].head
  BY DEF Means, SameHeads
<1>2. \A i \in 1 .. n : x[i].head = MeantHead(d[i].head)
  BY <1>1 DEF Means
<1>3. ASSUME NEW i \in 1 .. n, d[i].head # "ConstantArrayType" PROVE QualsMean(x, d, i)
  <2>1. QualsMean(x, c, i)
    BY <1>1, <1>3 DEF Means
  <2>2. MeantQuals(d, i) = MeantQuals(c, i)
    <3>1. i > 1 => i - 1 \in 1 .. n
      OBVIOUS
    <3>2. CASE i = 2
      <4>1. i > 1 /\ i - 1 = 1 /\ 1 \in 1 .. n
        BY <3>2
      <4>2. c[i - 1].head = "FunctionReturning" /\ d[i - 1].head = "FunctionReturning"
        BY <1>1, <4>1
      <4> QED BY <1>1, <4>1, <4>2 DEF MeantQuals
    <3>3. CASE i # 2
      BY <1>1, <3>1, <3>3 DEF MeantQuals
    <3> QED BY <3>2, <3>3
  <2> QED BY <2>1, <2>2 DEF QualsMean
<1> QED BY <1>1, <1>2, <1>3 DEF Means

\* A type of one head means itself.
LEMMA MeansBase ==
  ASSUME NEW h \in Heads \ Derived
  PROVE  Means(Head1(h, {}), Head1(h, {}))
<1>1. PICK c : c = Head1(h, {}) /\ c \in CType /\ Len(c) = 1 /\ c[1].head = h /\ c[1].quals = {}
  <2>1. PICK c : c = Head1(h, {})
    OBVIOUS
  <2>2. WF(c) /\ Len(c) = 1 /\ c[1] = [head |-> h, quals |-> {}]
    BY <2>1, OneHead
  <2> QED BY <2>1, <2>2 DEF WF
<1>2. \A i \in 1 .. 1 : i = 1
  OBVIOUS
<1>3. h \notin Unsized /\ MeantHead(h) = h
  BY KindFacts DEF MeantHead
<1>4. MeantQuals(c, 1) = {}
  BY <1>1, <1>3 DEF MeantQuals
<1>5. \A e : ~Reaches(c, 1, e)
  BY <1>1, <1>2 DEF Reaches
<1>6. QualsMean(c, c, 1)
  BY <1>4, <1>5 DEF QualsMean
<1>7. Means(c, c)
  BY <1>1, <1>2, <1>3, <1>6 DEF Means
<1> QED BY <1>1, <1>7

\* Types are equal if their heads and qualifiers are.
LEMMA EqualTypes ==
  ASSUME NEW x \in CType, NEW y \in CType, SameHeads(x, y), \A i \in 1 .. Len(x) : x[i].quals = y[i].quals
  PROVE  x = y
<1>1. PICK n \in Nat : n = Len(x) /\ n = Len(y)
  BY DEF SameHeads, CType
<1>2. ASSUME NEW i \in 1 .. n PROVE x[i] = y[i]
  <2>1. x[i] = [head |-> x[i].head, quals |-> x[i].quals] /\ y[i] = [head |-> y[i].head, quals |-> y[i].quals]
    BY <1>1, HeadFacts
  <2> QED BY <1>1, <2>1 DEF SameHeads
<1>3. x \in Seq(HeadType) /\ y \in Seq(HeadType)
  BY DEF CType
<1> QED BY <1>1, <1>2, <1>3, SeqEqual

\* What Qualified returns is determined.
LEMMA QualifiesOne ==
  ASSUME NEW c, WF(c), NEW p, NEW q, NEW x, Qualifies(c, p, x), NEW y, Qualifies(c, q, y),
         c[Element(c)].head \notin Frees => c[Element(c)].quals \cup p = c[Element(c)].quals \cup q
  PROVE  x = y
<1>1. PICK e : e = Element(c) /\ e \in 1 .. Len(c)
  BY ElementFacts
<1>2. x \in CType /\ y \in CType /\ Len(x) = Len(c) /\ SameHeads(x, y)
  BY DEF Qualifies, SameHeads
<1>3. x[e].quals = y[e].quals
  BY <1>1 DEF Qualifies
<1>4. \A i \in 1 .. Len(c) : i # e => x[i] = y[i]
  BY <1>1 DEF Qualifies
<1> QED BY <1>2, <1>3, <1>4, EqualTypes

\* Qualified with nothing, and with more that is there.
LEMMA QualifiedSame ==
  ASSUME NEW c, WF(c), NEW p \in SUBSET Quals, NEW q \in SUBSET Quals,
         c[Element(c)].head \notin Frees => c[Element(c)].quals \cup p = c[Element(c)].quals \cup q
  PROVE  Qualified(c, p) = Qualified(c, q)
BY QualifiedFacts, QualifiesOne

\* No qualifiers change nothing.
LEMMA QualifiedNone ==
  ASSUME NEW c, WF(c)
  PROVE  Qualified(c, {}) = c
<1>1. Qualifies(c, {}, Qualified(c, {}))
  BY QualifiedFacts
<1>2. PICK e : e = Element(c) /\ e \in 1 .. Len(c)
  BY ElementFacts
<1>3. c[e].head \in Frees => c[e].quals = {}
  BY <1>2 DEF WF
<1>4. Qualifies(c, {}, c)
  BY <1>2, <1>3 DEF Qualifies, SameHeads, WF
<1> QED BY <1>1, <1>4, QualifiesOne

\* Qualified twice.
LEMMA QualifiedTwice ==
  ASSUME NEW c, WF(c), NEW p \in SUBSET Quals, NEW q \in SUBSET Quals
  PROVE  /\ Qualified(Qualified(c, p), q) = Qualified(c, p \cup q)
         /\ Element(Qualified(c, p)) = Element(c)
<1>1. PICK d : d = Qualified(c, p) /\ WF(d) /\ Qualifies(c, p, d)
  BY QualifiedFacts, QualifiedWF
<1>2. PICK e : e = Element(c) /\ e \in 1 .. Len(c) /\ c[e].head \notin Arrays /\ \A j \in 1 .. e - 1 : c[j].head \in Arrays
  BY ElementFacts
<1>3. Len(d) = Len(c) /\ (\A i \in 1 .. Len(c) : d[i].head = c[i].head) /\ Len(c) \in Nat
  BY <1>1 DEF Qualifies, SameHeads, WF, CType
<1>4. Element(d) = e
  <2>1. \A j \in 1 .. e - 1 : j \in 1 .. Len(c)
    BY <1>2, <1>3
  <2>2. e \in 1 .. Len(d) /\ d[e].head \notin Arrays /\ \A j \in 1 .. e - 1 : d[j].head \in Arrays
    BY <1>2, <1>3, <2>1
  <2> QED BY <1>1, <2>2, ElementIs
<1>5. PICK x : x = Qualified(d, q) /\ Qualifies(d, q, x)
  BY <1>1, QualifiedFacts
<1>6. Qualifies(c, p \cup q, x)
  <2>1. x \in CType /\ SameHeads(c, x)
    BY <1>1, <1>3, <1>5 DEF Qualifies, SameHeads
  <2>2. \A i \in 1 .. Len(c) : i # e => x[i] = c[i]
    BY <1>1, <1>2, <1>3, <1>4, <1>5 DEF Qualifies
  <2>3. x[e].quals = IF d[e].head \in Frees THEN {} ELSE d[e].quals \cup q
    BY <1>4, <1>5 DEF Qualifies
  <2>4. d[e].quals = IF c[e].head \in Frees THEN {} ELSE c[e].quals \cup p
    BY <1>1, <1>2 DEF Qualifies
  <2>5. d[e].head = c[e].head
    BY <1>2, <1>3
  <2>6. (c[e].quals \cup p) \cup q = c[e].quals \cup (p \cup q)
    OBVIOUS
  <2>7. x[e].quals = IF c[e].head \in Frees THEN {} ELSE c[e].quals \cup (p \cup q)
    BY <2>3, <2>4, <2>5, <2>6
  <2> QED BY <1>2, <2>1, <2>2, <2>7 DEF Qualifies
<1>7. p \cup q \in SUBSET Quals
  OBVIOUS
<1>8. Qualifies(c, p \cup q, Qualified(c, p \cup q))
  BY <1>7, QualifiedFacts
<1>9. x = Qualified(c, p \cup q)
  BY <1>6, <1>8, QualifiesOne
<1> QED BY <1>1, <1>2, <1>4, <1>5, <1>9

\* What tqualified returns.
LEMMA TqualifiedFacts ==
  ASSUME NEW x \in CType, Len(x) >= 1, x[1].head \notin References, NEW q \in SUBSET Quals, NEW y, y = tqualified(q, x)
  PROVE  /\ y \in CType /\ SameHeads(x, y) /\ y[1].quals = x[1].quals \cup q
         /\ \A i \in 1 .. Len(x) : i # 1 => y[i] = x[i]
<1>1. 1 \in 1 .. Len(x) /\ Len(x) \in Nat
  BY DEF CType
<1>2. PICK r : r = x[1] /\ r \in HeadType
  BY <1>1, HeadFacts
<1>3. PICK h : h = [head |-> r.head, quals |-> r.quals \cup q]
  OBVIOUS
<1>4. h \in HeadType /\ h.head = r.head /\ h.quals = r.quals \cup q
  BY <1>2, <1>3 DEF HeadType
<1>5. y = [x EXCEPT ![1] = h]
  <2>1. [r EXCEPT !.quals = r.quals \cup q] = h
    <3>1. PICK s : s = r.quals \cup q
      OBVIOUS
    <3>2. [r EXCEPT !.quals = s] = [head |-> r.head, quals |-> s]
      BY <1>2 DEF HeadType
    <3> QED BY <1>3, <3>1, <3>2
  <2>2. y = [x EXCEPT ![1].quals = @ \cup q]
    BY Zenon DEF tqualified
  <2>3. y = [x EXCEPT ![1] = [x[1] EXCEPT !.quals = x[1].quals \cup q]]
    BY <2>2, Zenon
  <2> QED BY <1>2, <2>1, <2>3, Zenon
<1>6. y \in CType /\ Len(y) = Len(x) /\ y[1] = h /\ \A i \in 1 .. Len(x) : i # 1 => y[i] = x[i]
  BY <1>1, <1>4, <1>5 DEF CType
<1> QED BY <1>2, <1>4, <1>6 DEF SameHeads

\* The arrays before the elements are of known size, and the elements are what
\* qualifiers are for.
LEMMA ElementKnown ==
  ASSUME NEW c, WF(c), c[1].head \notin Unsized, NEW e, e = Element(c)
  PROVE  /\ \A j \in 1 .. e - 1 : c[j].head = "ConstantArrayType"
         /\ c[1].head \notin Frees => c[e].head \notin Frees
         /\ e # 1 => c[e].head \notin Frees /\ c[e - 1].head = "ConstantArrayType"
<1>1. e \in 1 .. Len(c) /\ Len(c) \in Nat /\ \A j \in 1 .. e - 1 : c[j].head \in Arrays
  BY ElementFacts DEF WF, CType
<1>2. ASSUME NEW j \in 1 .. e - 1 PROVE c[j].head = "ConstantArrayType"
  <2>1. c[j].head \in Arrays
    BY <1>1
  <2>2. c[j].head \notin Unsized
    <3>1. CASE j = 1
      BY <3>1
    <3>2. CASE j # 1
      <4>1. j - 1 \in 1 .. Len(c) - 1 /\ j - 1 \in 1 .. e - 1 /\ (j - 1) + 1 = j
        BY <1>1, <3>2
      <4>2. Joined(c[j - 1], c[j]) /\ c[j - 1].head \in Arrays
        BY <1>1, <4>1 DEF WF
      <4> QED BY <4>2 DEF Joined
    <3> QED BY <3>1, <3>2
  <2> QED BY <2>1, <2>2, KindFacts
<1>3. ASSUME e # 1 PROVE c[e].head \notin Frees /\ c[e - 1].head = "ConstantArrayType"
  <2>1. e - 1 \in 1 .. Len(c) - 1 /\ e - 1 \in 1 .. e - 1 /\ (e - 1) + 1 = e
    BY <1>1, <1>3
  <2>2. Joined(c[e - 1], c[e]) /\ c[e - 1].head \in Arrays
    BY <1>1, <2>1 DEF WF
  <2>3. c[e].head \notin Frees
    BY <2>2 DEF Joined
  <2>4. c[e - 1].head = "ConstantArrayType"
    BY <1>2, <2>1
  <2> QED BY <2>3, <2>4
<1> QED BY <1>2, <1>3

\* Qualifiers on types of one meaning.
LEMMA MeansQual ==
  ASSUME NEW x, NEW c, WF(c), Means(x, c), c[1].head \notin Unsized, c[Element(c)].head \notin Functions,
         NEW q \in SUBSET Quals
  PROVE  Means(tqualified(q, x), Qualified(c, q))
<1>1. PICK n \in Nat : n = Len(c) /\ n = Len(x) /\ n >= 1 /\ x \in CType /\ 1 \in 1 .. n
  BY DEF Means, WF, CType
<1>2. PICK e : e = Element(c) /\ e \in 1 .. n /\ c[e].head \notin Arrays
  BY <1>1, ElementFacts
<1>3. /\ \A j \in 1 .. e - 1 : c[j].head = "ConstantArrayType"
      /\ e # 1 => c[e].head \notin Frees /\ c[e - 1].head = "ConstantArrayType"
  BY <1>2, ElementKnown
<1>4. PICK d : d = Qualified(c, q) /\ Qualifies(c, q, d)
  BY QualifiedFacts
<1>5. \A i \in 1 .. n : x[i].head = MeantHead(c[i].head)
  BY <1>1 DEF Means
<1>6. CASE c[e].head \in Frees
  <2>1. e = 1 /\ c[1].head \in References
    BY <1>2, <1>3, <1>6 DEF Frees
  <2>2. x[1].head \in References
    BY <1>1, <1>5, <2>1, MeantHeads
  <2>3. tqualified(q, x) = x
    BY <2>2 DEF tqualified
  <2>4. Qualified(c, q) = c
    BY <1>2, <1>6, QualifiedSame, QualifiedNone
  <2> QED BY <2>3, <2>4
<1>7. CASE c[e].head \notin Frees
  <2>1. c[1].head \notin References
    <3>1. CASE e = 1
      BY <1>7, <3>1 DEF Frees
    <3>2. CASE e # 1
      BY <1>2, <1>3, <3>2, KindFacts
    <3> QED BY <3>1, <3>2
  <2>2. x[1].head \notin References
    BY <1>1, <1>5, <2>1, MeantHeads
  <2>3. PICK y : y = tqualified(q, x) /\ y \in CType /\ SameHeads(x, y) /\ y[1].quals = x[1].quals \cup q
                 /\ \A i \in 1 .. n : i # 1 => y[i] = x[i]
    BY <1>1, <2>2, TqualifiedFacts
  <2>4. Len(y) = n /\ Len(d) = n /\ \A i \in 1 .. n : y[i].head = x[i].head /\ d[i].head = c[i].head
    BY <1>1, <1>4, <2>3 DEF SameHeads, Qualifies
  <2>5. (\A i \in 1 .. n : i # e => d[i] = c[i]) /\ d[e].quals = c[e].quals \cup q
    BY <1>1, <1>2, <1>4, <1>7 DEF Qualifies
  <2>6. ASSUME NEW i \in 1 .. n, NEW k \in 1 .. i PROVE Through(y, k, i) <=> Through(x, k, i)
    <3>1. \A j \in k .. i - 1 : j \in 1 .. n
      OBVIOUS
    <3> QED BY <2>4, <3>1 DEF Through
  <2>7. Through(x, 1, e)
    <3>1. ASSUME NEW j \in 1 .. e - 1 PROVE x[j].head = "ConstantArrayType"
      <4>1. j \in 1 .. n /\ c[j].head = "ConstantArrayType"
        BY <1>2, <1>3
      <4> QED BY <1>5, <4>1, MeantHeads
    <3> QED BY <3>1 DEF Through
  <2>8. ASSUME NEW i \in 1 .. n, d[i].head # "ConstantArrayType" PROVE QualsMean(y, d, i)
    <3>1. QualsMean(x, c, i)
      BY <1>1, <2>4, <2>8 DEF Means
    <3>2. \A k \in 1 .. i : k \in 1 .. n
      OBVIOUS
    <3>3. CASE i = e
      <4>1. ASSUME NEW f PROVE Reaches(y, e, f) <=> Reaches(x, e, f) \/ f \in q
        <5>1. ASSUME f \in q PROVE Reaches(y, e, f)
          <6>1. Through(y, 1, e) /\ f \in y[1].quals /\ 1 \in 1 .. e
            BY <1>2, <2>3, <2>6, <2>7, <5>1
          <6> QED BY <6>1 DEF Reaches
        <5>2. ASSUME Reaches(x, e, f) PROVE Reaches(y, e, f)
          <6>1. PICK k \in 1 .. e : Through(x, k, e) /\ f \in x[k].quals
            BY <5>2 DEF Reaches
          <6>2. Through(y, k, e) /\ f \in y[k].quals
            BY <1>2, <2>3, <2>6, <3>2, <3>3, <6>1
          <6> QED BY <6>2 DEF Reaches
        <5>3. ASSUME Reaches(y, e, f), f \notin q PROVE Reaches(x, e, f)
          <6>1. PICK k \in 1 .. e : Through(y, k, e) /\ f \in y[k].quals
            BY <5>3 DEF Reaches
          <6>2. Through(x, k, e) /\ f \in x[k].quals
            BY <1>2, <2>3, <2>6, <3>2, <3>3, <5>3, <6>1
          <6> QED BY <6>2 DEF Reaches
        <5> QED BY <5>1, <5>2, <5>3
      <4>2. c[e].head \notin Unsized /\ d[e].head \notin Unsized
        BY <1>2, <2>4, KindFacts
      <4>3. e > 1 => c[e - 1].head # "FunctionReturning" /\ d[e - 1].head # "FunctionReturning"
        <5>1. e > 1 => e - 1 \in 1 .. n /\ e # 1
          BY <1>2
        <5>2. "ConstantArrayType" # "FunctionReturning"
          OBVIOUS
        <5> QED BY <1>3, <2>4, <5>1, <5>2
      <4>4. MeantQuals(d, e) = d[e].quals /\ MeantQuals(c, e) = c[e].quals
        BY <4>2, <4>3 DEF MeantQuals
      <4> QED BY <2>5, <3>1, <3>3, <4>1, <4>4 DEF QualsMean
    <3>4. CASE i < e
      <4>1. i \in 1 .. e - 1
        BY <1>2, <3>4
      <4> QED BY <1>3, <2>4, <2>8, <4>1
    <3>5. CASE i > e
      <4>1. ~Through(x, 1, i)
        <5>1. e \in 1 .. i - 1
          BY <1>2, <3>5
        <5>2. x[e].head # "ConstantArrayType"
          <6>1. c[e].head # "ConstantArrayType" /\ x[e].head = MeantHead(c[e].head)
            BY <1>2, <1>5, KindFacts
          <6> QED BY <6>1, MeantHeads
        <5> QED BY <5>1, <5>2 DEF Through
      <4>2. \A k \in 1 .. i : Through(x, k, i) => y[k] = x[k]
        BY <2>3, <3>2, <4>1
      <4>3. ASSUME NEW f PROVE Reaches(y, i, f) <=> Reaches(x, i, f)
        BY <2>6, <4>2 DEF Reaches
      <4>4. i # e /\ i > 1 /\ i - 1 \in 1 .. n
        BY <1>2, <3>5
      <4>5. MeantQuals(d, i) = MeantQuals(c, i)
        BY <2>4, <2>5, <4>4 DEF MeantQuals
      <4> QED BY <3>1, <4>3, <4>5 DEF QualsMean
    <3> QED BY <1>2, <3>3, <3>4, <3>5
  <2>9. Means(y, d)
    BY <1>5, <2>3, <2>4, <2>8 DEF Means
  <2> QED BY <1>4, <2>3, <2>9
<1> QED BY <1>6, <1>7

(***************************************************************************)
(* What is printed for a layer means it.                                   *)
(***************************************************************************)

\* The canonical type of layer i without its qualifiers.
Bare(i) == Built(type[i].kind, IF i = 1 THEN <<>> ELSE type[i - 1].canonical)

\* A layer of a sound type is its bare type with its qualifiers, and fits on the layer below.
LEMMA BareFacts ==
  ASSUME Sound(type), NEW i \in 1 .. Len(type)
  PROVE  /\ WF(Bare(i)) /\ type[i].quals \in SUBSET Quals /\ type[i].kind \in Kinds
         /\ type[i].canonical = Qualified(Bare(i), type[i].quals) /\ WF(type[i].canonical)
         /\ type[i].kind \in Bases <=> i = 1
         /\ i # 1 => /\ i - 1 \in 1 .. Len(type) /\ WF(type[i - 1].canonical)
                     /\ Bare(i) = Built(type[i].kind, type[i - 1].canonical)
                     /\ Fit(type[i].kind, type[i - 1].canonical)
                     /\ type[i].quals \in MayQualify(type[i].kind, type[i - 1].canonical)
<1>1. type[i] \in LayerType /\ Len(type) \in Nat
  BY DEF Sound
<1>2. type[i].quals \in SUBSET Quals /\ type[i].kind \in Kinds /\ WF(type[i].canonical)
  BY <1>1 DEF LayerType, Sound
<1>3. CASE i = 1
  <2>1. type[i].kind \in Bases /\ type[i].canonical = Canonical(type[i].kind, type[i].quals, <<>>)
    BY <1>3 DEF Sound
  <2>2. Bare(i) = Built(type[i].kind, <<>>)
    BY <1>3 DEF Bare
  <2>3. WF(Built(type[i].kind, <<>>))
    BY <1>2, <2>1, BuiltWF
  <2> QED BY <1>2, <1>3, <2>1, <2>2, <2>3 DEF Canonical
<1>4. CASE i # 1
  <2>1. i \in 2 .. Len(type) /\ i - 1 \in 1 .. Len(type)
    BY <1>1, <1>4
  <2>2. PICK c : c = type[i - 1].canonical /\ WF(c) /\ FitsOn(type[i], c)
    BY <2>1 DEF Sound
  <2>3. Bare(i) = Built(type[i].kind, c)
    BY <1>4, <2>2 DEF Bare
  <2>4. WF(Built(type[i].kind, c))
    BY <1>2, <2>2, BuiltWF DEF FitsOn
  <2> QED BY <1>2, <1>4, <2>1, <2>2, <2>3, <2>4 DEF FitsOn, Canonical
<1> QED BY <1>3, <1>4

\* printQualType on a term t for layer k.
LEMMA PrintedMeans ==
  ASSUME Sound(type), NEW k \in 1 .. Len(type), NEW more \in SUBSET Quals, NEW t \in TermType,
         Means(normalize_type(t), Bare(k)),
         \/ type[k].quals \cup more = {}
         \/ type[k].canonical[1].head \notin Unsized
            /\ type[k].canonical[Element(type[k].canonical)].head \notin Functions
  PROVE  Means(normalize_type(Printed(k, more, t)), Qualified(type[k].canonical, more))
<1>1. PICK b : b = Bare(k) /\ WF(b)
  BY BareFacts
<1>2. PICK p \in SUBSET Quals : p = type[k].quals
  BY BareFacts
<1>3. PICK c : c = type[k].canonical /\ c = Qualified(b, p) /\ WF(c)
  BY <1>1, <1>2, BareFacts
<1>4. PICK q \in SUBSET Quals : q = p \cup more
  OBVIOUS
<1>5. Qualified(c, more) = Qualified(b, q) /\ Element(c) = Element(b)
  BY <1>1, <1>3, <1>4, QualifiedTwice
<1>6. PICK e : e = Element(b) /\ e \in 1 .. Len(b) /\ 1 \in 1 .. Len(b)
  BY <1>1, ElementFacts DEF WF, CType
<1>7. PICK x : x = normalize_type(t) /\ Means(x, b)
  BY <1>1
<1>8. Qualifies(b, p, c)
  BY <1>1, <1>3, QualifiedFacts
<1>9. CASE q = {}
  <2>1. "const" \notin type[k].quals \cup more /\ "volatile" \notin type[k].quals \cup more
    BY <1>2, <1>4, <1>9
  <2>2. Printed(k, more, t) = t
    BY <2>1 DEF Printed, printQualType
  <2>3. Qualified(b, q) = b
    BY <1>1, <1>9, QualifiedNone
  <2> QED BY <1>3, <1>5, <1>7, <2>2, <2>3
<1>10. CASE q # {}
  <2>1. b[1].head \notin Unsized /\ b[e].head \notin Functions
    <3>1. c[1].head \notin Unsized /\ c[e].head \notin Functions
      BY <1>2, <1>3, <1>4, <1>5, <1>6, <1>10
    <3> QED BY <1>6, <1>8, <3>1 DEF Qualifies, SameHeads
  <2>2. ASSUME NEW r \in SUBSET Quals, b[e].head \notin Frees => b[e].quals \cup r = b[e].quals \cup q
        PROVE  Means(tqualified(r, x), Qualified(c, more))
    <3>1. Means(tqualified(r, x), Qualified(b, r))
      BY <1>1, <1>6, <1>7, <2>1, MeansQual
    <3>2. Qualified(b, r) = Qualified(b, q)
      BY <1>1, <1>6, <2>2, QualifiedSame
    <3> QED BY <1>5, <3>1, <3>2
  <2>3. ASSUME NEW a \in DOMAIN QualsOf, Printed(k, more, t) = <<a>> \o t,
               b[e].head \notin Frees => b[e].quals \cup QualsOf[a] = b[e].quals \cup q
        PROVE  Means(normalize_type(Printed(k, more, t)), Qualified(c, more))
    <3>1. a \in Tokens /\ QualsOf[a] \in SUBSET Quals
      BY TokenFacts, HeadOfCtor
    <3>2. normalize_type(<<a>> \o t) = tqualified(QualsOf[a], x)
      BY <1>7, <3>1, NormalizeCons, ReadCases
    <3>3. Means(tqualified(QualsOf[a], x), Qualified(c, more))
      BY <2>2, <2>3, <3>1
    <3> QED BY <2>3, <3>2, <3>3
  <2>4. "Qconst" \in DOMAIN QualsOf /\ "Qmut_volatile" \in DOMAIN QualsOf /\ "Qconst_volatile" \in DOMAIN QualsOf
    BY TokenFacts
  <2>5. IsVolatile(k, more) <=> "volatile" \in c[e].quals \cup q
    BY <1>2, <1>3, <1>4, <1>5, <1>6 DEF IsVolatile
  <2>6. c[e].quals = IF b[e].head \in Frees THEN {} ELSE b[e].quals \cup p
    BY <1>6, <1>8 DEF Qualifies
  <2>7. p \cup more = q /\ type[k].quals \cup more = q
    BY <1>2, <1>4
  <2>8. CASE "const" \in q
    <3>1. CASE IsVolatile(k, more)
      <4>1. Printed(k, more, t) = <<"Qconst_volatile">> \o t
        BY <2>7, <2>8, <3>1 DEF Printed, printQualType
      <4>2. QualsOf["Qconst_volatile"] = {"const", "volatile"}
        BY HeadOfCtor DEF Quals
      <4>3. b[e].head \notin Frees => "volatile" \in b[e].quals \cup q
        BY <1>4, <2>5, <2>6, <3>1
      <4>4. q \subseteq {"const", "volatile"}
        BY DEF Quals
      <4>5. b[e].head \notin Frees => b[e].quals \cup QualsOf["Qconst_volatile"] = b[e].quals \cup q
        BY <2>8, <4>2, <4>3, <4>4
      <4> QED BY <1>3, <2>3, <2>4, <4>1, <4>5
    <3>2. CASE ~IsVolatile(k, more)
      <4>1. Printed(k, more, t) = <<"Qconst">> \o t
        BY <2>7, <2>8, <3>2 DEF Printed, printQualType
      <4>2. QualsOf["Qconst"] = {"const"}
        BY HeadOfCtor
      <4>3. q = {"const"}
        BY <2>5, <2>8, <3>2 DEF Quals
      <4> QED BY <1>3, <2>3, <2>4, <4>1, <4>2, <4>3
    <3> QED BY <3>1, <3>2
  <2>9. CASE "const" \notin q
    <3>1. q = {"volatile"}
      BY <1>10, <2>9 DEF Quals
    <3>2. Printed(k, more, t) = <<"Qmut_volatile">> \o t
      BY <2>7, <2>9, <3>1 DEF Printed, printQualType
    <3>3. QualsOf["Qmut_volatile"] = {"volatile"}
      BY HeadOfCtor
    <3> QED BY <1>3, <2>3, <2>4, <3>1, <3>2, <3>3
  <2> QED BY <2>8, <2>9
<1> QED BY <1>3, <1>9, <1>10

\* The first heads of the layers.
LEMMA LayerHead ==
  ASSUME Sound(type), NEW i \in 1 .. Len(type)
  PROVE  /\ type[i].canonical[1].head = Bare(i)[1].head
         /\ type[i].kind \in Derived => type[i].canonical[1].head = type[i].kind
         /\ type[i].kind = "DecayedType" => type[i].canonical[1].head = "PointerType"
         /\ type[i].kind = "sugar" => i # 1 /\ Bare(i) = type[i - 1].canonical
         /\ type[i].kind \in Bases => type[i].canonical[1].head \notin Derived
<1>1. PICK b : b = Bare(i) /\ WF(b)
  BY BareFacts
<1>2. PICK c : c = IF i = 1 THEN <<>> ELSE type[i - 1].canonical
  OBVIOUS
<1>3. PICK kind \in Kinds : kind = type[i].kind
  BY BareFacts
<1>4. b = Built(kind, c) /\ (kind \in Bases <=> i = 1) /\ (i # 1 => WF(c) /\ Fit(kind, c))
  BY <1>1, <1>2, <1>3, BareFacts DEF Bare
<1>5. type[i].canonical[1].head = b[1].head
  <2>1. Qualifies(b, type[i].quals, type[i].canonical)
    BY <1>1, BareFacts, QualifiedFacts
  <2>2. 1 \in 1 .. Len(b)
    BY <1>1 DEF WF, CType
  <2> QED BY <2>1, <2>2 DEF Qualifies, SameHeads
<1>6. ASSUME kind \in Derived PROVE b[1].head = kind
  <2>1. WF(c) /\ Fit(kind, c) /\ kind \in Heads /\ c \in CType
    BY <1>4, <1>6, KindFacts DEF WF
  <2>2. CASE kind \in References
    <3>1. b = Collapsed(kind, c)
      BY <1>4, <2>2, BuiltCases
    <3>2. CASE c[1].head \in References
      BY <2>1, <2>2, <3>1, <3>2, CollapsedFacts DEF Recaps
    <3>3. CASE c[1].head \notin References
      <4>1. b = Head1(kind, {}) \o c
        BY <3>1, <3>3 DEF Collapsed
      <4> QED BY <2>1, <4>1, ConsFacts DEF IsCons
    <3> QED BY <3>2, <3>3
  <2>3. CASE kind = "FunctionTaking"
    <3>1. b = Head1(kind, {}) \o Unqualified(c)
      BY <1>4, <2>3, BuiltCases
    <3>2. Unqualified(c) \in CType
      BY <2>1, UnqualifiedType
    <3> QED BY <2>1, <3>1, <3>2, ConsFacts DEF IsCons
  <2>4. CASE kind \notin References \cup {"FunctionTaking"}
    <3>1. b = Head1(kind, {}) \o c
      BY <1>4, <1>6, <2>4, BuiltCases
    <3> QED BY <2>1, <3>1, ConsFacts DEF IsCons
  <2> QED BY <2>2, <2>3, <2>4
<1>7. ASSUME kind = "DecayedType" PROVE b[1].head = "PointerType"
  <2>1. WF(c) /\ c \in CType /\ c # <<>>
    BY <1>4, <1>7, KindFacts DEF WF, CType
  <2>2. PICK x : x = IF c[1].head \in Arrays THEN Tail(c) ELSE c
    OBVIOUS
  <2>3. x \in CType
    BY <2>1, <2>2 DEF CType
  <2>4. b = Head1("PointerType", {}) \o x
    BY <1>4, <1>7, <2>2, BuiltCases DEF Decayed
  <2> QED BY <2>3, <2>4, ConsFacts, KindFacts DEF IsCons
<1>8. ASSUME kind = "sugar" PROVE i # 1 /\ b = type[i - 1].canonical
  <2>1. i # 1
    BY <1>4, <1>8, KindFacts
  <2> QED BY <1>2, <1>4, <1>8, <2>1, BuiltCases
<1>9. ASSUME kind \in Bases PROVE type[i].canonical[1].head \notin Derived
  BY <1>4, <1>9, BaseLayer
<1> QED BY <1>1, <1>3, <1>5, <1>6, <1>7, <1>8, <1>9

\* Layers that take no qualifiers.
LEMMA Unqualifiable ==
  ASSUME Sound(type), NEW i \in 1 .. Len(type),
         \/ type[i].kind \in Arrays \cup Frees \cup {"DecayedType"}
         \/ type[i].kind = "sugar" /\ type[i - 1].canonical[1].head \in Frees
  PROVE  type[i].quals = {} /\ type[i].canonical = Bare(i) /\ i # 1
<1>1. i # 1
  <2>1. type[i].kind \notin Bases
    BY KindFacts DEF Frees
  <2> QED BY <2>1, BareFacts
<1>2. type[i].quals \in MayQualify(type[i].kind, type[i - 1].canonical)
  BY <1>1, BareFacts
<1>3. type[i].quals = {}
  BY <1>2 DEF MayQualify, IsFree, Frees
<1>4. type[i].canonical = Qualified(Bare(i), {}) /\ WF(Bare(i))
  BY <1>3, BareFacts
<1> QED BY <1>1, <1>3, <1>4, QualifiedNone

\* References are layers of references, and sugar on them.
LEMMA ReferenceLayers ==
  ASSUME Sound(type), NEW i \in 1 .. Len(type), IsReference(i)
  PROVE  /\ i # 1 /\ type[i].canonical = Bare(i)
         /\ type[i].kind \in References \/ (type[i].kind = "sugar" /\ IsReference(i - 1))
<1>1. type[i].kind \in Kinds /\ type[i].canonical[1].head \in References
  BY BareFacts DEF IsReference
<1>2. type[i].kind \in Derived => type[i].kind \in References
  BY <1>1, LayerHead
<1>3. type[i].kind # "DecayedType" /\ type[i].kind \notin Bases
  BY <1>1, LayerHead, KindFacts DEF Frees
<1>4. type[i].kind = "sugar" => IsReference(i - 1)
  BY <1>1, LayerHead DEF IsReference
<1>5. type[i].kind \in References \/ (type[i].kind = "sugar" /\ IsReference(i - 1))
  BY <1>1, <1>2, <1>3, <1>4 DEF Kinds
<1>6. type[i].kind \in Arrays \cup Frees \cup {"DecayedType"} \/ (type[i].kind = "sugar" /\ type[i - 1].canonical[1].head \in Frees)
  BY <1>5 DEF Frees, IsReference
<1> QED BY <1>5, <1>6, Unqualifiable

\* Layers above p, up to j, are references to it.
LEMMA ReferencesTo ==
  ASSUME Sound(type), NEW p \in 1 .. Len(type), ~IsReference(p)
  PROVE  \A j \in p + 1 .. Len(type) :
           (\A k \in p + 1 .. j : IsReference(k))
             => IsCons(type[j].canonical, type[j].canonical[1].head, {}, type[p].canonical)
<1>1. PICK n \in Nat : n = Len(type)
  BY DEF Sound
<1> DEFINE Good(j) == (\A k \in p + 1 .. j : IsReference(k))
                        => IsCons(type[j].canonical, type[j].canonical[1].head, {}, type[p].canonical)
<1>2. ASSUME NEW j \in p + 1 .. n, j - 1 \in p + 1 .. n => Good(j - 1), \A k \in p + 1 .. j : IsReference(k)
      PROVE  IsCons(type[j].canonical, type[j].canonical[1].head, {}, type[p].canonical)
  <2>1. j \in 1 .. n /\ j - 1 \in 1 .. n /\ j # 1 /\ j \in p + 1 .. j
    BY <1>1
  <2>2. IsReference(j)
    BY <1>2, <2>1
  <2>3. /\ type[j].canonical = Bare(j)
        /\ type[j].kind \in References \/ (type[j].kind = "sugar" /\ IsReference(j - 1))
    BY <1>1, <2>1, <2>2, ReferenceLayers
  <2>4. PICK d : d = type[j].canonical
    OBVIOUS
  <2>5. PICK c : c = type[j - 1].canonical /\ WF(c) /\ Fit(type[j].kind, c) /\ d = Built(type[j].kind, c)
    BY <1>1, <2>1, <2>3, <2>4, BareFacts
  <2>6. PICK kind \in Kinds : kind = type[j].kind
    BY <1>1, <2>1, BareFacts
  <2>7. CASE j - 1 = p
    <3>1. kind \in References /\ c[1].head \notin References
      BY <2>3, <2>5, <2>6, <2>7 DEF IsReference
    <3>2. d = Head1(kind, {}) \o c
      BY <2>5, <2>6, <3>1, BuiltCases DEF Collapsed
    <3>3. IsCons(d, kind, {}, c)
      BY <2>5, <3>1, <3>2, ConsFacts, KindFacts DEF WF
    <3>4. d[1].head = kind
      BY <3>3 DEF IsCons
    <3> QED BY <2>4, <2>5, <2>7, <3>3, <3>4
  <2>8. CASE j - 1 # p
    <3>1. j - 1 \in p + 1 .. n /\ j - 1 \in p + 1 .. j /\ \A k \in p + 1 .. j - 1 : k \in p + 1 .. j
      BY <2>1, <2>8
    <3>2. IsCons(c, c[1].head, {}, type[p].canonical) /\ c[1].head \in References
      BY <1>2, <2>5, <3>1 DEF IsReference
    <3>3. CASE kind = "sugar"
      <4>1. d = c
        BY <2>5, <2>6, <3>3, BuiltCases
      <4> QED BY <2>4, <3>2, <4>1
    <3>4. CASE kind \in References
      <4>1. d = Collapsed(kind, c)
        BY <2>5, <2>6, <3>4, BuiltCases
      <4>2. Recaps(c, kind, d)
        BY <2>5, <2>6, <3>2, <3>4, <4>1, CollapsedFacts
      <4>3. PICK x : x = type[p].canonical
        OBVIOUS
      <4>4. Len(c) = Len(x) + 1 /\ (\A i \in 1 .. Len(x) : c[i + 1] = x[i]) /\ Len(x) \in Nat
        <5>1. WF(x)
          BY <4>3 DEF Sound
        <5> QED BY <3>2, <4>3, <5>1 DEF IsCons, WF, CType
      <4>5. \A i \in 1 .. Len(x) : i + 1 \in 2 .. Len(c)
        BY <4>4
      <4>6. \A i \in 1 .. Len(x) : d[i + 1] = x[i]
        BY <4>2, <4>4, <4>5 DEF Recaps
      <4>7. IsCons(d, kind, {}, x) /\ d[1].head = kind
        BY <4>2, <4>4, <4>6 DEF IsCons, Recaps
      <4> QED BY <2>4, <4>3, <4>7
    <3> QED BY <2>3, <2>6, <3>3, <3>4
  <2> QED BY <2>7, <2>8
<1> HIDE DEF Good
<1>3. \A j \in p + 1 .. n : Good(j)
  <2>1. PICK S : S = {j \in 0 .. n : j \in p + 1 .. n => Good(j)}
    OBVIOUS
  <2>2. PICK in : in = [j \in 1 .. n |-> j - 1]
    OBVIOUS
  <2>3. Tree(n, in)
    BY <2>2 DEF Tree
  <2>4. 0 \in S
    BY <2>1
  <2>5. ASSUME NEW j \in 1 .. n, in[j] \in S PROVE j \in S
    <3>1. j - 1 \in p + 1 .. n => Good(j - 1)
      BY <2>1, <2>2, <2>5
    <3>2. j \in p + 1 .. n => Good(j)
      BY <1>2, <3>1 DEF Good
    <3> QED BY <2>1, <3>2
  <2>6. \A j \in 0 .. n : j \in S
    BY <2>3, <2>4, <2>5, TreeInduction
  <2>7. \A j \in p + 1 .. n : j \in 0 .. n
    BY <1>1
  <2> QED BY <2>1, <2>6, <2>7
<1> QED BY <1>1, <1>3 DEF Good

\* The qualifiers of the layers after k, up to j.
Between(k, j) == UNION {type[l].quals : l \in k + 1 .. j}

\* Sugar on layer k has its canonical type, with the qualifiers of the sugar.
LEMMA SugarCanonical ==
  ASSUME Sound(type), NEW k \in 1 .. Len(type), NEW m \in k .. Len(type),
         \A l \in k + 1 .. m : type[l].kind = "sugar"
  PROVE  type[m].canonical = Qualified(type[k].canonical, Between(k, m)) /\ Between(k, m) \in SUBSET Quals
<1>1. PICK n \in Nat : n = Len(type)
  BY DEF Sound
<1>2. PICK c : c = type[k].canonical /\ WF(c)
  BY DEF Sound
<1>3. ASSUME NEW j \in k .. n PROVE Between(k, j) \in SUBSET Quals
  <2>1. \A l \in k + 1 .. j : l \in 1 .. Len(type)
    BY <1>1
  <2>2. \A l \in k + 1 .. j : type[l].quals \in SUBSET Quals
    BY <2>1, BareFacts
  <2> QED BY <2>2 DEF Between
<1> DEFINE Good(j) == type[j].canonical = Qualified(c, Between(k, j))
<1>4. Good(k)
  <2>1. Between(k, k) = {}
    <3>1. k + 1 .. k = {}
      BY <1>1
    <3> QED BY <3>1 DEF Between
  <2> QED BY <1>2, <2>1, QualifiedNone
<1>5. ASSUME NEW j \in k + 1 .. m, Good(j - 1) PROVE Good(j)
  <2>1. j \in 1 .. n /\ j - 1 \in k .. n /\ j \in k .. n
    BY <1>1
  <2>2. type[j].kind = "sugar"
    OBVIOUS
  <2>3. PICK q \in SUBSET Quals : q = type[j].quals
    BY <1>1, <2>1, BareFacts
  <2>4. type[j].canonical = Qualified(type[j - 1].canonical, q)
    BY <1>1, <2>1, <2>2, <2>3, BareFacts, LayerHead
  <2>5. PICK p \in SUBSET Quals : p = Between(k, j - 1)
    BY <1>3, <2>1
  <2>6. type[j].canonical = Qualified(c, p \cup q)
    BY <1>2, <1>5, <2>3, <2>4, <2>5, QualifiedTwice
  <2>7. p \cup q = Between(k, j)
    <3>1. \A l : l \in k + 1 .. j <=> l \in k + 1 .. j - 1 \/ l = j
      BY <1>1
    <3>2. ASSUME NEW e PROVE e \in Between(k, j) <=> e \in p \cup q
      BY <2>3, <2>5, <3>1 DEF Between
    <3> QED BY <3>2
  <2> QED BY <2>6, <2>7
<1> HIDE DEF Good
<1>6. Good(m)
  <2>1. PICK S : S = {j \in 0 .. n : j \in k .. m => Good(j)}
    OBVIOUS
  <2>2. PICK in : in = [j \in 1 .. n |-> j - 1]
    OBVIOUS
  <2>3. Tree(n, in)
    BY <2>2 DEF Tree
  <2>4. 0 \in S
    BY <2>1
  <2>5. ASSUME NEW j \in 1 .. n, in[j] \in S PROVE j \in S
    <3>1. j - 1 \in k .. m => Good(j - 1)
      BY <2>1, <2>2, <2>5
    <3>2. j \in k .. m => j = k \/ (j \in k + 1 .. m /\ j - 1 \in k .. m)
      BY <1>1
    <3>3. j \in k .. m => Good(j)
      BY <1>4, <1>5, <3>1, <3>2
    <3> QED BY <2>1, <3>3
  <2>6. \A j \in 0 .. n : j \in S
    BY <2>3, <2>4, <2>5, TreeInduction
  <2>7. m \in 0 .. n /\ m \in k .. m
    BY <1>1
  <2> QED BY <2>1, <2>6, <2>7
<1>7. m \in k .. n
  BY <1>1
<1> QED BY <1>2, <1>3, <1>6, <1>7 DEF Good

\* The elements of a qualified array are qualified.
LEMMA TailQualified ==
  ASSUME NEW c, WF(c), NEW h \in Arrays, NEW d, WF(d), IsCons(d, h, {}, c), NEW q \in SUBSET Quals
  PROVE  Tail(Qualified(d, q)) = Qualified(c, q)
<1>1. PICK n \in Nat : n = Len(c) /\ n >= 1 /\ Len(d) = n + 1
  BY DEF WF, CType, IsCons
<1>2. d[1].head = h /\ \A i \in 1 .. n : d[i + 1] = c[i]
  BY <1>1 DEF IsCons
<1>3. PICK e : e = Element(c) /\ e \in 1 .. n /\ c[e].head \notin Arrays /\ \A j \in 1 .. e - 1 : c[j].head \in Arrays
  BY <1>1, ElementFacts
<1>4. Element(d) = e + 1
  <2>1. e + 1 \in 1 .. Len(d) /\ d[e + 1].head \notin Arrays
    BY <1>1, <1>2, <1>3
  <2>2. ASSUME NEW j \in 1 .. (e + 1) - 1 PROVE d[j].head \in Arrays
    <3>1. CASE j = 1
      BY <1>2, <3>1
    <3>2. CASE j # 1
      <4>1. PICK l : l = j - 1
        OBVIOUS
      <4>2. l \in 1 .. e - 1 /\ l \in 1 .. n /\ l + 1 = j
        BY <1>1, <1>3, <3>2, <4>1
      <4>3. d[l + 1] = c[l] /\ c[l].head \in Arrays
        BY <1>2, <1>3, <4>2
      <4> QED BY <4>2, <4>3
    <3> QED BY <3>1, <3>2
  <2> QED BY <2>1, <2>2, ElementIs
<1>5. PICK y : y = Qualified(d, q) /\ WF(y) /\ Qualifies(d, q, y)
  BY QualifiedFacts, QualifiedWF
<1>6. PICK x : x = Tail(y) /\ WF(x) /\ Len(x) = n /\ \A i \in 1 .. n : x[i] = y[i + 1]
  <2>1. Len(y) = n + 1 /\ n + 1 >= 2 /\ (n + 1) - 1 = n
    BY <1>1, <1>5 DEF Qualifies, SameHeads
  <2> QED BY <1>5, <2>1, TailFacts
<1>7. Qualifies(c, q, x)
  <2>1. \A i \in 1 .. n : i + 1 \in 1 .. n + 1 /\ (i # e => i + 1 # e + 1)
    BY <1>3
  <2>2. \A i \in 1 .. n : y[i + 1].head = d[i + 1].head /\ (i # e => y[i + 1] = d[i + 1])
    BY <1>1, <1>4, <1>5, <2>1 DEF Qualifies, SameHeads
  <2>3. y[e + 1].quals = IF d[e + 1].head \in Frees THEN {} ELSE d[e + 1].quals \cup q
    BY <1>4, <1>5 DEF Qualifies
  <2>4. x[e].quals = IF c[e].head \in Frees THEN {} ELSE c[e].quals \cup q
    BY <1>2, <1>3, <1>6, <2>3
  <2>5. SameHeads(c, x) /\ \A i \in 1 .. n : i # e => x[i] = c[i]
    BY <1>1, <1>2, <1>6, <2>2 DEF SameHeads
  <2> QED BY <1>1, <1>3, <1>6, <2>4, <2>5 DEF Qualifies, WF
<1>8. Qualifies(c, q, Qualified(c, q))
  BY QualifiedFacts
<1> QED BY <1>5, <1>6, <1>7, <1>8, QualifiesOne

\* The heads that are read from the constructors of a kind.
LEMMA CtorHead ==
  ASSUME NEW kind \in Kinds
  PROVE  /\ kind \in Bases => Ctor(kind) \in {"Tint", "Tenum", "Tnamed", "Tunsupported"} /\ HeadOf[Ctor(kind)] = BaseHead(kind)
         /\ kind \in References \cup {"PointerType", "MemberPointerType", "ConstantArrayType"}
              => Ctor(kind) \in {"Tptr", "Tref", "Trv_ref", "Tarray", "Tmember_pointer"} /\ HeadOf[Ctor(kind)] = kind
         /\ kind \in Functions => Ctor(kind) \in {"Tfunction_ret", "Tfunction_arg"} /\ HeadOf[Ctor(kind)] = kind
         /\ kind \in Unsized => Ctor(kind) \in {"Tincomplete_array", "Tvariable_array"}
<1>1. kind \in Bases => Ctor(kind) \in {"Tint", "Tenum", "Tnamed", "Tunsupported"} /\ HeadOf[Ctor(kind)] = BaseHead(kind)
  BY DEF Ctor, Bases, HeadOf, BaseHead
<1>2. kind \in References \cup {"PointerType", "MemberPointerType", "ConstantArrayType"}
        => Ctor(kind) \in {"Tptr", "Tref", "Trv_ref", "Tarray", "Tmember_pointer"} /\ HeadOf[Ctor(kind)] = kind
  BY DEF Ctor, References, HeadOf
<1>3. kind \in Functions => Ctor(kind) \in {"Tfunction_ret", "Tfunction_arg"} /\ HeadOf[Ctor(kind)] = kind
  BY DEF Ctor, Functions, HeadOf
<1>4. kind \in Unsized => Ctor(kind) \in {"Tincomplete_array", "Tvariable_array"}
  BY DEF Ctor, Unsized
<1> QED BY <1>1, <1>2, <1>3, <1>4

\* A head on types of one meaning, on both sides.
LEMMA MeansHead ==
  ASSUME NEW x, NEW c, WF(c), Means(x, c), NEW h \in Derived \ (Unsized \cup Functions), NEW d, IsCons(d, h, {}, c)
  PROVE  Means(Head1(h, {}) \o x, d)
<1>1. x \in CType /\ Len(c) \in Nat /\ Len(c) >= 1 /\ h \in Heads
  BY KindFacts DEF Means, WF, CType
<1>2. IsCons(Head1(h, {}) \o x, h, {}, x)
  BY <1>1, ConsFacts
<1>3. h = MeantHead(h) /\ h # "FunctionReturning"
  BY KindFacts DEF MeantHead
<1> QED BY <1>1, <1>2, <1>3, MeansCons

\* A term of two constructors.
LEMMA TwoTokens ==
  ASSUME NEW k \in Tokens, NEW l \in Tokens
  PROVE  <<k>> \o <<l>> = <<k, l>>
<1>1. PICK a : a = <<k>> /\ a \in Seq(Tokens) /\ Len(a) = 1 /\ a[1] = k
  <2>1. <<k>> \in Seq(Tokens) /\ Len(<<k>>) = 1 /\ <<k>>[1] = k
    OBVIOUS
  <2> QED BY <2>1
<1>2. PICK u : u = <<l>> /\ u \in Seq(Tokens) /\ Len(u) = 1 /\ u[1] = l
  <2>1. <<l>> \in Seq(Tokens) /\ Len(<<l>>) = 1 /\ <<l>>[1] = l
    OBVIOUS
  <2> QED BY <2>1
<1>3. PICK b : b = <<k, l>> /\ b \in Seq(Tokens) /\ Len(b) = 2 /\ b[1] = k /\ b[2] = l
  <2>1. <<k, l>> \in Seq(Tokens) /\ Len(<<k, l>>) = 2 /\ <<k, l>>[1] = k /\ <<k, l>>[2] = l
    OBVIOUS
  <2> QED BY <2>1
<1>4. a \o u \in Seq(Tokens) /\ Len(a \o u) = 2 /\ (a \o u)[1] = k /\ (a \o u)[2] = l
  BY <1>1, <1>2
<1>5. \A i \in 1 .. 2 : i = 1 \/ i = 2
  OBVIOUS
<1>6. a \o u = b
  BY <1>3, <1>4, <1>5, SeqEqual
<1> QED BY <1>1, <1>2, <1>3, <1>6

\* Types that are built from none.
LEMMA BaseMeans ==
  ASSUME NEW kind \in Bases, NEW t, NEW c
  PROVE  Means(normalize_type(Visit(kind, t)), Built(kind, c))
<1>1. kind \in Kinds
  BY KindFacts
<1>2. PICK h \in Heads \ Derived : h = BaseHead(kind)
  BY KindFacts DEF BaseHead, Heads, Bases
<1>3. Built(kind, c) = Head1(h, {})
  BY <1>1, <1>2, BuiltCases
<1>4. ASSUME NEW k \in {"Tint", "Tenum", "Tnamed", "Tunsupported"}
      PROVE  normalize_type(<<k>>) = Head1(HeadOf[k], {}) /\ <<k>> \in TermType /\ k \in Tokens
  <2>1. PICK z : z = <<>> /\ z \in TermType
    <3>1. <<>> \in TermType
      BY EmptySeq DEF TermType
    <3> QED BY <3>1
  <2>2. k \in Tokens
    BY TokenFacts
  <2>3. <<k>> \o z = <<k>>
    BY <2>1
  <2>4. normalize_type(<<k>> \o z) = Read(k, normalize_type(z))
    BY <2>1, <2>2, NormalizeCons
  <2>5. Read(k, normalize_type(z)) = Head1(HeadOf[k], {})
    BY <2>2, ReadCases
  <2>6. <<k>> \in TermType
    BY <2>1, <2>2, TokenOn
  <2>7. normalize_type(<<k>>) = Head1(HeadOf[k], {})
    BY <2>3, <2>4, <2>5
  <2> QED BY <2>2, <2>6, <2>7
<1>5. normalize_type(Visit(kind, t)) = Head1(h, {})
  <2>1. CASE kind # "UnaryTransformType"
    <3>1. Visit(kind, t) = <<Ctor(kind)>>
      BY <1>1, <2>1, VisitCases
    <3>2. PICK k \in {"Tint", "Tenum", "Tnamed", "Tunsupported"} : k = Ctor(kind) /\ HeadOf[k] = h
      BY <1>1, <1>2, CtorHead
    <3>3. Visit(kind, t) = <<k>>
      BY <3>1, <3>2
    <3> QED BY <1>4, <3>2, <3>3
  <2>2. CASE kind = "UnaryTransformType"
    <3>1. PICK u : u = <<"Tint">> /\ u \in TermType /\ normalize_type(u) = Head1(HeadOf["Tint"], {})
      BY <1>4
    <3>2. Visit(kind, t) = <<"@Tunderlying", "Tint">>
      BY <1>1, <2>2, VisitCases
    <3>3. <<"@Tunderlying">> \o u = <<"@Tunderlying", "Tint">>
      <4>1. "@Tunderlying" \in Tokens /\ "Tint" \in Tokens
        BY TokenFacts DEF Abbreviations
      <4> QED BY <3>1, <4>1, TwoTokens
    <3>4. PICK k : k = "@Tunderlying" /\ k \in Tokens
      BY TokenFacts DEF Abbreviations
    <3>5. normalize_type(<<k>> \o u) = Read(k, normalize_type(u))
      BY <3>1, <3>4, NormalizeCons
    <3>6. Read(k, normalize_type(u)) = normalize_type(u)
      BY <3>4, ReadCases
    <3>7. h = "BuiltinType" /\ HeadOf["Tint"] = "BuiltinType"
      BY <1>2, <2>2, HeadOfCtor DEF BaseHead
    <3>8. <<k>> \o u = Visit(kind, t)
      BY <3>2, <3>3, <3>4
    <3> QED BY <3>1, <3>5, <3>6, <3>7, <3>8
  <2> QED BY <2>1, <2>2
<1> QED BY <1>3, <1>5, MeansBase

\* Derived types, from a term u for the part of them.
LEMMA DerivedMeans ==
  ASSUME NEW kind \in Derived, NEW u \in TermType, NEW c, WF(c), Means(normalize_type(u), c),
         kind \in Functions => c[1].head \notin Arrays,
         NEW b, kind \notin Functions => IsCons(b, kind, {}, c), kind \in Functions => b = Built(kind, c)
  PROVE  Means(normalize_type(Visit(kind, u)), b)
<1>1. kind \in Kinds /\ kind \in Heads /\ kind # "sugar"
  BY KindFacts
<1>2. PICK k \in Tokens : k = Ctor(kind)
  BY <1>1, CtorTokens
<1>3. PICK x : x = normalize_type(u) /\ Means(x, c) /\ x \in CType
  BY NormalizeType
<1>4. PICK y : y = normalize_type(Visit(kind, u)) /\ y = Read(k, x)
  <2>1. Visit(kind, u) = <<Ctor(kind)>> \o u
    BY <1>1, VisitCases
  <2>2. Visit(kind, u) = <<k>> \o u
    BY <1>2, <2>1
  <2> QED BY <1>3, <2>2, NormalizeCons
<1>5. PICK n \in Nat : n = Len(c) /\ n = Len(x) /\ n >= 1 /\ c \in CType
  BY <1>3 DEF Means, WF, CType
<1>6. CASE kind \in References \cup {"PointerType", "MemberPointerType", "ConstantArrayType"}
  <2>1. k \in {"Tptr", "Tref", "Trv_ref", "Tarray", "Tmember_pointer"} /\ HeadOf[k] = kind
    BY <1>1, <1>2, <1>6, CtorHead
  <2>2. y = Head1(kind, {}) \o x
    BY <1>4, <2>1, ReadCases
  <2>3. kind \in Derived \ (Unsized \cup Functions)
    BY <1>6, KindFacts DEF Frees
  <2> QED BY <1>3, <1>4, <2>2, <2>3, MeansHead
<1>7. CASE kind \in Unsized
  <2>1. k \in {"Tincomplete_array", "Tvariable_array"}
    BY <1>1, <1>2, <1>7, CtorHead
  <2>2. y = Head1("PointerType", {"const"}) \o x
    BY <1>4, <2>1, ReadCases
  <2>3. PICK p : p = {"const"} /\ p \in SUBSET Quals
    BY DEF Quals
  <2>4. IsCons(y, "PointerType", p, x)
    BY <1>3, <2>2, <2>3, ConsFacts, KindFacts
  <2>5. MeantHead(kind) = "PointerType" /\ kind # "ConstantArrayType" /\ kind # "FunctionReturning" /\ kind \notin Functions
    BY <1>7, KindFacts DEF MeantHead
  <2>6. IsCons(b, kind, {}, c)
    BY <2>5
  <2>7. Means(y, b)
    BY <1>3, <1>5, <1>7, <2>3, <2>4, <2>5, <2>6, MeansCons
  <2> QED BY <1>4, <2>7
<1>8. CASE kind \in Functions
  <2>1. k \in {"Tfunction_ret", "Tfunction_arg"} /\ HeadOf[k] = kind
    BY <1>1, <1>2, <1>8, CtorHead
  <2>2. PICK z : z = Unqualified(x) /\ Bares(x, z) /\ z \in CType
    BY <1>3, <1>5, UnqualifiedFacts DEF Bares
  <2>3. PICK e : e = Unqualified(c) /\ Bares(c, e) /\ e \in CType
    BY <1>5, UnqualifiedFacts DEF Bares
  <2>4. y = Head1(kind, {}) \o z /\ IsCons(y, kind, {}, z)
    <3>1. y = Head1(HeadOf[k], {}) \o Unqualified(x)
      BY <1>4, <2>1, ReadCases
    <3>2. y = Head1(kind, {}) \o z
      BY <2>1, <2>2, <3>1
    <3>3. IsCons(Head1(kind, {}) \o z, kind, {}, z)
      BY <1>1, <2>2, ConsFacts
    <3> QED BY <3>2, <3>3
  <2>5. Means(z, e)
    BY <1>3, <1>5, <1>8, <2>2, <2>3, MeansBare
  <2>6. Len(e) = n /\ e[1].head = c[1].head /\ e[1].quals = {} /\ (\A i \in 1 .. n : e[i].head = c[i].head)
        /\ \A i \in 2 .. n : e[i] = c[i]
    <3>1. 1 \in 1 .. n
      BY <1>5
    <3>2. SameHeads(c, e) /\ e[1].quals = {} /\ \A i \in 2 .. n : e[i] = c[i]
      BY <1>5, <2>3 DEF Bares
    <3>3. Len(e) = n /\ \A i \in 1 .. n : e[i].head = c[i].head
      BY <1>5, <3>2 DEF SameHeads
    <3> QED BY <3>1, <3>2, <3>3
  <2>7. PICK d : d = Head1(kind, {}) \o e /\ IsCons(d, kind, {}, e)
    BY <1>1, <2>3, ConsFacts
  <2>8. kind = MeantHead(kind) /\ kind \notin Unsized /\ kind # "ConstantArrayType" /\ e[1].head \notin Unsized
    BY <1>8, <2>6, KindFacts DEF MeantHead
  <2>9. Means(y, d)
    BY <1>5, <2>4, <2>5, <2>6, <2>7, <2>8, MeansCons
  <2>10. CASE kind = "FunctionTaking"
    <3>1. b = d
      BY <1>1, <1>8, <2>3, <2>7, <2>10, BuiltCases
    <3> QED BY <1>4, <2>9, <3>1
  <2>11. CASE kind = "FunctionReturning"
    <3>1. b = Head1(kind, {}) \o c
      BY <1>1, <1>8, <2>11, BuiltCases, KindFacts
    <3>2. IsCons(b, kind, {}, c)
      BY <1>1, <1>5, <3>1, ConsFacts
    <3>3. /\ Len(b) = n + 1 /\ Len(d) = n + 1 /\ b[1].head = kind /\ d[1].head = kind /\ b[1].quals = {} /\ d[1].quals = {}
          /\ b \in CType /\ d \in CType
      BY <1>5, <2>6, <2>7, <3>2 DEF IsCons
    <3>4. (\A i \in 1 .. n : b[i + 1] = c[i]) /\ \A i \in 1 .. n : d[i + 1] = e[i]
      BY <1>5, <2>6, <2>7, <3>2 DEF IsCons
    <3>5. b[1] = d[1]
      <4>1. 1 \in 1 .. n + 1
        OBVIOUS
      <4>2. b[1] = [head |-> b[1].head, quals |-> b[1].quals] /\ d[1] = [head |-> d[1].head, quals |-> d[1].quals]
        BY <3>3, <4>1, HeadFacts
      <4> QED BY <3>3, <4>2
    <3>6. ASSUME NEW i \in 1 .. n + 1 PROVE b[i].head = d[i].head /\ (i # 2 => b[i] = d[i])
      <4>1. CASE i = 1
        BY <3>5, <4>1
      <4>2. CASE i # 1
        <5>1. PICK l : l = i - 1
          OBVIOUS
        <5>2. l \in 1 .. n /\ l + 1 = i /\ (i # 2 => l \in 2 .. n)
          BY <4>2, <5>1
        <5>3. b[l + 1] = c[l] /\ d[l + 1] = e[l]
          BY <3>4, <5>2
        <5> QED BY <2>6, <5>2, <5>3
      <4> QED BY <4>1, <4>2
    <3>7. SameHeads(d, b) /\ n + 1 \in Nat /\ n + 1 >= 2
      BY <1>5, <3>3, <3>6 DEF SameHeads
    <3>8. Means(y, b)
      BY <2>9, <2>11, <3>3, <3>6, <3>7, MeansResult
    <3> QED BY <1>4, <3>8
  <2> QED BY <1>8, <2>10, <2>11, KindFacts
<1> QED BY <1>6, <1>7, <1>8, KindFacts DEF Derived


\* Where a type that is not Misread has qualifiers, they are those of its
\* elements and no function or array of no known size takes them.
LEMMA QualsMatter ==
  ASSUME Sound(type), ~Misread, NEW k \in 1 .. Len(type)
  PROVE  \/ type[k].quals \cup {} = {}
         \/ type[k].canonical[1].head \notin Unsized
            /\ type[k].canonical[Element(type[k].canonical)].head \notin Functions
<1>1. SUFFICES ASSUME type[k].quals # {}
               PROVE  type[k].canonical[1].head \notin Unsized
                      /\ type[k].canonical[Element(type[k].canonical)].head \notin Functions
  OBVIOUS
<1>2. type[k].kind \notin Arrays \cup Frees \cup {"DecayedType"}
  BY <1>1, Unqualifiable
<1>3. WF(type[k].canonical) /\ type[k].kind \in Kinds
  BY BareFacts
<1>4. type[k].canonical[1].head \notin Unsized \cup Frees
  <2>1. CASE type[k].kind \in Bases
    <3>1. type[k].canonical[1].head \notin Derived
      BY <2>1, LayerHead
    <3> QED BY <3>1, KindFacts DEF Frees
  <2>2. CASE type[k].kind \in Derived
    <3>1. type[k].canonical[1].head = type[k].kind
      BY <2>2, LayerHead
    <3> QED BY <1>2, <3>1, KindFacts
  <2>3. CASE type[k].kind = "sugar"
    <3>1. k # 1 /\ type[k].canonical[1].head = type[k - 1].canonical[1].head
      BY <2>3, LayerHead
    <3>2. type[k - 1].canonical[1].head \notin Frees
      BY <1>1, <2>3, Unqualifiable
    <3>3. k \in DOMAIN type
      BY DEF Sound
    <3>4. type[k].canonical[1].head \notin Unsized
      BY <1>1, <2>3, <3>3 DEF Misread, Unsized
    <3> QED BY <3>1, <3>2, <3>4
  <2> QED BY <1>2, <1>3, <2>1, <2>2, <2>3 DEF Kinds
<1>5. type[k].canonical[Element(type[k].canonical)].head \notin Frees
  BY <1>3, <1>4, ElementKnown
<1> QED BY <1>4, <1>5 DEF Frees

\* The head of what a layer is sugar for.
LEMMA DesugaredHead ==
  ASSUME Sound(type), NEW i \in 1 .. Len(type)
  PROVE  /\ type[i].canonical = Qualified(type[Desugared(i)].canonical, SugarQuals(i))
         /\ SugarQuals(i) \in SUBSET Quals
         /\ type[i].canonical[1].head = type[Desugared(i)].canonical[1].head
         /\ type[Desugared(i)].kind \notin Arrays => type[i].canonical[1].head \notin Arrays
<1>1. PICK k : k = Desugared(i) /\ k \in 1 .. i /\ type[k].kind # "sugar" /\ \A l \in k + 1 .. i : type[l].kind = "sugar"
  BY DesugaredFacts
<1>2. Len(type) \in Nat
  BY BaseLayer
<1>3. k \in 1 .. Len(type) /\ i \in k .. Len(type)
  BY <1>1, <1>2
<1>4. SugarQuals(i) = Between(k, i)
  BY <1>1 DEF SugarQuals, Between
<1>5. type[i].canonical = Qualified(type[k].canonical, SugarQuals(i)) /\ SugarQuals(i) \in SUBSET Quals
  BY <1>1, <1>3, <1>4, SugarCanonical
<1>6. WF(type[k].canonical) /\ type[k].kind \in Kinds
  BY <1>3, BareFacts
<1>7. type[i].canonical[1].head = type[k].canonical[1].head
  <2>1. SameHeads(type[k].canonical, type[i].canonical)
    <3>1. Qualifies(type[k].canonical, SugarQuals(i), Qualified(type[k].canonical, SugarQuals(i)))
      BY <1>5, <1>6, QualifiedFacts
    <3>2. Qualifies(type[k].canonical, SugarQuals(i), type[i].canonical)
      BY <1>5, <3>1
    <3> QED BY <3>2 DEF Qualifies
  <2>2. 1 \in 1 .. Len(type[k].canonical)
    BY <1>6 DEF WF, CType
  <2> QED BY <2>1, <2>2 DEF SameHeads
<1>8. ASSUME type[k].kind \notin Arrays PROVE type[k].canonical[1].head \notin Arrays
  <2>1. CASE type[k].kind \in Bases
    <3>1. type[k].canonical[1].head \notin Derived
      BY <1>3, <2>1, LayerHead
    <3> QED BY <3>1, KindFacts
  <2>2. CASE type[k].kind \in Derived
    BY <1>3, <1>8, <2>2, LayerHead
  <2>3. CASE type[k].kind = "DecayedType"
    <3>1. type[k].canonical[1].head = "PointerType"
      BY <1>3, <2>3, LayerHead
    <3> QED BY <3>1, KindFacts
  <2> QED BY <1>1, <1>6, <2>1, <2>2, <2>3 DEF Kinds
<1> QED BY <1>1, <1>5, <1>7, <1>8

\* The pointer that a parameter decays to, from a term u for what it points to.
LEMMA DecayedMeans ==
  ASSUME NEW u \in TermType, NEW c, WF(c), Means(normalize_type(u), c)
  PROVE  Means(normalize_type(Visit("DecayedType", u)), Head1("PointerType", {}) \o c)
<1>1. PICK k : k = "Tdecay_type" /\ k \in Tokens
  BY TokenFacts DEF Abbreviations
<1>2. PICK l : l = "Tptr" /\ l \in Tokens
  BY TokenFacts
<1>3. PICK v : v = <<l>> \o u /\ v \in TermType
  BY <1>2, TokenOn
<1>4. Visit("DecayedType", u) = <<k>> \o v
  <2>1. Visit("DecayedType", u) = <<"Tdecay_type">> \o (<<"Tptr">> \o u)
    BY KindFacts, VisitCases
  <2> QED BY <1>1, <1>2, <1>3, <2>1
<1>5. normalize_type(<<k>> \o v) = normalize_type(v)
  <2>1. normalize_type(<<k>> \o v) = Read(k, normalize_type(v))
    BY <1>1, <1>3, NormalizeCons
  <2>2. Read(k, normalize_type(v)) = normalize_type(v)
    BY <1>1, ReadCases
  <2> QED BY <2>1, <2>2
<1>6. normalize_type(v) = Head1("PointerType", {}) \o normalize_type(u)
  <2>1. normalize_type(v) = Read(l, normalize_type(u))
    BY <1>2, <1>3, NormalizeCons
  <2>2. Read(l, normalize_type(u)) = Head1(HeadOf[l], {}) \o normalize_type(u)
    BY <1>2, ReadCases
  <2>3. HeadOf[l] = "PointerType"
    BY <1>2, HeadOfCtor
  <2> QED BY <2>1, <2>2, <2>3
<1>7. PICK h : h = "PointerType" /\ h \in Derived \ (Unsized \cup Functions) /\ h \in Heads
  BY KindFacts DEF Frees
<1>8. PICK d : d = Head1(h, {}) \o c /\ IsCons(d, h, {}, c)
  <2>1. c \in CType
    BY DEF WF
  <2> QED BY <1>7, <2>1, ConsFacts
<1>9. Means(Head1(h, {}) \o normalize_type(u), d)
  BY <1>7, <1>8, MeansHead
<1> QED BY <1>4, <1>5, <1>6, <1>7, <1>8, <1>9

\* What a layer is printed as means its type, when its part's term does.
LEMMA LayerMeans ==
  ASSUME Sound(type), ~Misread, NEW i \in 1 .. Len(type),
         Part(i) # 0 => Means(normalize_type(printType[Part(i)]), Bare(Part(i)))
  PROVE  Means(normalize_type(printType[i]), Bare(i))
<1>1. PICK u : u = Printed(Part(i), PartQuals(i), printType[Part(i)]) /\ printType[i] = Visit(type[i].kind, u)
  BY PrintFacts
<1>2. CASE i = 1
  <2>1. type[i].kind \in Bases /\ Bare(i) = Built(type[i].kind, <<>>)
    BY <1>2, BareFacts DEF Bare
  <2>2. Means(normalize_type(Visit(type[i].kind, u)), Built(type[i].kind, <<>>))
    BY <2>1, BaseMeans
  <2> QED BY <1>1, <2>1, <2>2
<1>3. CASE i # 1
  <2>1. PICK n \in Nat : n = Len(type) /\ i \in 2 .. n /\ i - 1 \in 1 .. n
    BY <1>3, BaseLayer
  <2>2. type[i].kind \in Kinds \ Bases /\ Bare(i) = Built(type[i].kind, type[i - 1].canonical) /\ WF(type[i - 1].canonical)
        /\ Fit(type[i].kind, type[i - 1].canonical)
    BY <1>3, BareFacts
  <2>3. PICK p : p = Part(i) /\ p \in 1 .. i - 1 /\ p \in 1 .. n
    <3>1. CASE type[i].kind \in References
      BY <2>1, <3>1, PartFacts, PointeeFacts
    <3>2. CASE DecaysArray(i)
      BY <2>1, <3>2, PartFacts
    <3>3. CASE type[i].kind \notin References /\ ~DecaysArray(i)
      BY <2>1, <3>3, PartFacts
    <3> QED BY <3>1, <3>2, <3>3
  <2>4. PICK t : t = printType[p] /\ t \in TermType /\ Means(normalize_type(t), Bare(p))
    BY <2>3, PrintFacts
  <2>5. u \in TermType
    BY <1>1, <2>3, <2>4, QualTerm DEF Printed
  <2>6. PICK c : c = type[p].canonical /\ WF(c)
    BY <2>1, <2>3, BareFacts
  <2>7. CASE ~DecaysArray(i)
    <3>1. Means(normalize_type(u), c)
      <4>1. PICK m : m = {} /\ m \in SUBSET Quals
        OBVIOUS
      <4>2. PartQuals(i) = m /\ u = Printed(p, m, t)
        BY <1>1, <2>3, <2>4, <2>7, <4>1, PartFacts
      <4>3. \/ type[p].quals \cup m = {}
            \/ type[p].canonical[1].head \notin Unsized
               /\ type[p].canonical[Element(type[p].canonical)].head \notin Functions
        BY <2>1, <2>3, <4>1, QualsMatter
      <4>4. Means(normalize_type(Printed(p, m, t)), Qualified(type[p].canonical, m))
        BY <2>1, <2>3, <2>4, <4>1, <4>3, PrintedMeans
      <4>5. Qualified(c, m) = c
        BY <2>6, <4>1, QualifiedNone
      <4> QED BY <2>6, <4>2, <4>4, <4>5
    <3>2. CASE type[i].kind \in References
      <4>1. p = getPointeeType(i) /\ ~IsReference(p) /\ \A k \in p + 1 .. i - 1 : IsReference(k)
        BY <2>1, <2>3, <3>2, PartFacts, PointeeFacts
      <4>2. type[i].kind \in Derived /\ type[i].canonical[1].head = type[i].kind /\ type[i].kind \notin Functions
        BY <3>2, LayerHead, KindFacts
      <4>3. IsReference(i)
        BY <3>2, <4>2 DEF IsReference
      <4>4. \A k \in p + 1 .. i : IsReference(k)
        BY <2>1, <2>3, <4>1, <4>3
      <4>5. i \in p + 1 .. Len(type) /\ p \in 1 .. Len(type)
        BY <2>1, <2>3
      <4>6. IsCons(type[i].canonical, type[i].canonical[1].head, {}, type[p].canonical)
        BY <4>1, <4>4, <4>5, ReferencesTo
      <4>7. IsCons(Bare(i), type[i].kind, {}, c)
        BY <2>6, <4>2, <4>3, <4>6, ReferenceLayers
      <4> QED BY <1>1, <2>5, <2>6, <3>1, <4>2, <4>7, DerivedMeans
    <3>3. CASE type[i].kind \notin References
      <4>1. p = i - 1 /\ c = type[i - 1].canonical
        BY <2>3, <2>6, <2>7, <3>3, PartFacts
      <4>2. CASE type[i].kind \in Functions
        <5>1. type[i].kind \in Derived /\ c[1].head \notin Arrays /\ Bare(i) = Built(type[i].kind, c)
          BY <2>2, <4>1, <4>2, KindFacts DEF Fit
        <5> QED BY <1>1, <2>5, <2>6, <3>1, <4>2, <5>1, DerivedMeans
      <4>3. CASE type[i].kind \in Derived \ Functions
        <5>1. type[i].kind \in Derived \ (References \cup {"FunctionTaking"}) /\ type[i].kind \in Heads
          BY <3>3, <4>3, KindFacts
        <5>2. Bare(i) = Head1(type[i].kind, {}) \o c
          BY <2>2, <4>1, <5>1, BuiltCases
        <5>3. c \in CType
          BY <2>6 DEF WF
        <5>4. IsCons(Bare(i), type[i].kind, {}, c)
          BY <5>1, <5>2, <5>3, ConsFacts
        <5> QED BY <1>1, <2>5, <2>6, <3>1, <4>3, <5>4, DerivedMeans
      <4>4. CASE type[i].kind = "sugar"
        <5>1. Visit(type[i].kind, u) = u /\ Bare(i) = c
          BY <2>2, <4>1, <4>4, VisitCases, BuiltCases
        <5> QED BY <1>1, <3>1, <5>1
      <4>5. CASE type[i].kind = "DecayedType"
        <5>1. type[Desugared(i - 1)].kind \notin Arrays
          BY <2>7, <4>5 DEF DecaysArray
        <5>2. c[1].head \notin Arrays
          BY <2>1, <4>1, <5>1, DesugaredHead
        <5>3. Bare(i) = Head1("PointerType", {}) \o c
          <6>1. Bare(i) = Decayed(c)
            BY <2>2, <4>1, <4>5, BuiltCases
          <6> QED BY <5>2, <6>1 DEF Decayed
        <5>4. Means(normalize_type(Visit("DecayedType", u)), Head1("PointerType", {}) \o c)
          BY <2>5, <2>6, <3>1, DecayedMeans
        <5> QED BY <1>1, <4>5, <5>3, <5>4
      <4> QED BY <2>2, <4>2, <4>3, <4>4, <4>5 DEF Kinds
    <3> QED BY <3>2, <3>3
  <2>8. CASE DecaysArray(i)
    <3>1. PICK k : k = Desugared(i - 1) /\ k \in 2 .. i - 1 /\ p = k - 1 /\ PartQuals(i) = SugarQuals(i - 1)
      BY <2>3, <2>8, PartFacts
    <3>2. k \in 1 .. Len(type) /\ k # 1 /\ type[k].kind \in Arrays /\ type[i].kind = "DecayedType"
      BY <2>1, <2>8, <3>1 DEF DecaysArray
    <3>3. PICK q \in SUBSET Quals : q = SugarQuals(i - 1) /\ type[i - 1].canonical = Qualified(type[k].canonical, q)
            /\ type[i - 1].canonical[1].head = type[k].canonical[1].head
      BY <2>1, <3>1, DesugaredHead
    <3>4. type[k].canonical = Built(type[k].kind, c) /\ Fit(type[k].kind, c) /\ type[k].canonical[1].head = type[k].kind
          /\ WF(type[k].canonical) /\ type[k].kind \in Derived \ (References \cup {"FunctionTaking"}) /\ type[k].kind \in Heads
      <4>1. type[k].kind \in Derived \ (References \cup {"FunctionTaking"}) /\ type[k].kind \in Heads
        BY <3>2, KindFacts
      <4>2. type[k].canonical = Bare(k)
        BY <3>2, Unqualifiable
      <4>3. Bare(k) = Built(type[k].kind, c) /\ Fit(type[k].kind, c) /\ WF(type[k].canonical)
        BY <2>6, <3>1, <3>2, BareFacts
      <4>4. type[k].canonical[1].head = type[k].kind
        BY <3>2, <4>1, LayerHead
      <4> QED BY <4>1, <4>2, <4>3, <4>4
    <3>5. IsCons(type[k].canonical, type[k].kind, {}, c)
      <4>1. type[k].canonical = Head1(type[k].kind, {}) \o c
        BY <3>4, BareFacts, <3>2, BuiltCases
      <4>2. c \in CType
        BY <2>6 DEF WF
      <4> QED BY <3>4, <4>1, <4>2, ConsFacts
    <3>6. Tail(type[i - 1].canonical) = Qualified(c, q)
      BY <2>6, <3>2, <3>3, <3>4, <3>5, TailQualified
    <3>7. Bare(i) = Head1("PointerType", {}) \o Qualified(c, q)
      <4>1. Bare(i) = Decayed(type[i - 1].canonical)
        BY <2>2, <3>2, BuiltCases
      <4>2. type[i - 1].canonical[1].head \in Arrays
        BY <3>2, <3>3, <3>4
      <4> QED BY <3>6, <4>1, <4>2 DEF Decayed
    <3>8. Means(normalize_type(u), Qualified(c, q))
      <4>1. c[1].head \notin Frees /\ c[1].head \notin Unsized
        BY <3>2, <3>4 DEF Fit
      <4>2. c[Element(c)].head \notin Frees
        BY <2>6, <4>1, ElementKnown
      <4>3. type[p].canonical[1].head \notin Unsized /\ type[p].canonical[Element(type[p].canonical)].head \notin Functions
        BY <2>6, <4>1, <4>2 DEF Frees
      <4>4. Means(normalize_type(Printed(p, q, t)), Qualified(type[p].canonical, q))
        BY <2>1, <2>3, <2>4, <4>3, PrintedMeans
      <4> QED BY <1>1, <2>3, <2>4, <2>6, <3>1, <3>3, <4>4
    <3>9. WF(Qualified(c, q))
      BY <2>6, QualifiedWF
    <3>10. Means(normalize_type(Visit("DecayedType", u)), Head1("PointerType", {}) \o Qualified(c, q))
      BY <2>5, <3>8, <3>9, DecayedMeans
    <3> QED BY <1>1, <3>2, <3>7, <3>10
  <2> QED BY <2>7, <2>8
<1> QED BY <1>2, <1>3

\* What every layer of a type is printed as means its type.
LEMMA LayersMean ==
  ASSUME Sound(type), ~Misread
  PROVE  \A i \in 1 .. Len(type) : Means(normalize_type(printType[i]), Bare(i))
<1>1. PICK n \in Nat : n = Len(type)
  BY BaseLayer
<1>2. PICK S : S = {0} \cup {d \in 1 .. n : Means(normalize_type(printType[d]), Bare(d))}
  OBVIOUS
<1>3. PICK in : in = [d \in 1 .. n |-> Part(d)]
  OBVIOUS
<1>4. Tree(n, in)
  <2>1. ASSUME NEW d \in 1 .. n PROVE in[d] \in 0 .. d - 1
    BY <1>1, <1>3, PartFacts
  <2> QED BY <2>1 DEF Tree
<1>5. ASSUME NEW d \in 1 .. n, in[d] \in S PROVE d \in S
  <2>1. Part(d) # 0 => Means(normalize_type(printType[Part(d)]), Bare(Part(d)))
    BY <1>2, <1>3, <1>5
  <2>2. Means(normalize_type(printType[d]), Bare(d))
    BY <1>1, <2>1, LayerMeans
  <2> QED BY <1>2, <2>2
<1>6. 0 \in S
  BY <1>2
<1>7. \A d \in 0 .. n : d \in S
  BY <1>4, <1>5, <1>6, TreeInduction
<1>8. ASSUME NEW i \in 1 .. n PROVE Means(normalize_type(printType[i]), Bare(i))
  <2>1. i \in 0 .. n /\ i # 0
    OBVIOUS
  <2> QED BY <1>2, <1>7, <2>1
<1> QED BY <1>1, <1>8

\* What the invariant says about the spellings of a type.
LEMMA SoundAgrees == Sound(type) => TypesAgree
<1>1. SUFFICES ASSUME Sound(type), ~Misread PROVE Sunk(normalize_type(Term)) = Meant(Top)
  BY DEF TypesAgree
<1>2. PICK n \in Nat : n = Len(type) /\ n \in 1 .. Len(type)
  <2>1. Len(type) \in Nat /\ Len(type) >= 1
    BY <1>1, BaseLayer DEF Sound
  <2>2. Len(type) \in 1 .. Len(type)
    BY <2>1
  <2> QED BY <2>1, <2>2
<1>3. PICK t : t = printType[n] /\ t \in TermType /\ Means(normalize_type(t), Bare(n))
  BY <1>1, <1>2, PrintFacts, LayersMean
<1>4. PICK m : m = {} /\ m \in SUBSET Quals
  <2>1. {} \in SUBSET Quals
    OBVIOUS
  <2> QED BY <2>1
<1>5. \/ type[n].quals \cup m = {}
      \/ type[n].canonical[1].head \notin Unsized
         /\ type[n].canonical[Element(type[n].canonical)].head \notin Functions
  BY <1>1, <1>2, <1>4, QualsMatter
<1>6. Means(normalize_type(Printed(n, m, t)), Qualified(type[n].canonical, m))
  BY <1>1, <1>2, <1>3, <1>4, <1>5, PrintedMeans
<1>7. WF(type[n].canonical)
  BY <1>1, <1>2, BareFacts
<1>8. Qualified(type[n].canonical, m) = Top
  BY <1>2, <1>4, <1>7, QualifiedNone DEF Top
<1>9. Term = Printed(n, m, t)
  BY <1>2, <1>3, <1>4 DEF Term
<1>10. WF(Top) /\ Means(normalize_type(Term), Top)
  BY <1>2, <1>6, <1>7, <1>8, <1>9 DEF Top
<1> QED BY <1>10, MeansEqual

\* However a type is spelled, with however many layers, what printQualType and
\* the handlers of PrintType.cpp print for it is read by Coq as the type that
\* clang has, save the aliases of Misread.
THEOREM SpellingsAgree == Spec => []TypesAgree
<1>1. Init => Sound(type)
  BY SoundInit
<1>2. Sound(type) /\ [Next]_type => Sound(type)'
  BY SoundStep
<1>3. Sound(type) => TypesAgree
  BY SoundAgrees
<1> QED BY <1>1, <1>2, <1>3, PTL DEF Spec
================================================================================

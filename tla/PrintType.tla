------------------------------- MODULE PrintType -------------------------------
(***************************************************************************)
(* The type printer (src/src/PrintType.cpp): a type of clang, as it is     *)
(* written with aliases and with qualifiers at every level, becomes a term *)
(* that Coq reads as a type (theories/lang/cpp/syntax/types.v).  Coq       *)
(* compares types by what it reads, clang by their canonical types.        *)
(*                                                                         *)
(* A type is a sequence of layers, each built on the one before it; the    *)
(* last is the type itself.  A layer has its local qualifiers and, as in   *)
(* clang, its canonical type, found when it is built.                      *)
(***************************************************************************)
EXTENDS Integers, Sequences

CONSTANT MaxLayers  \* bound on the layers of a type

ASSUME PrintTypeAssumption == MaxLayers \in Nat \ {0}

VARIABLE type

Quals == {"const", "volatile"}

Bases == {"BuiltinType", "RecordType", "EnumType", "UnaryTransformType", "Type"}
References == {"LValueReferenceType", "RValueReferenceType"}
Arrays == {"ConstantArrayType", "IncompleteArrayType", "VariableArrayType"}
\* A function with the layer below as its result, or as its parameter.
Functions == {"FunctionReturning", "FunctionTaking"}
Derived == {"PointerType", "MemberPointerType"} \cup References \cup Arrays \cup Functions

\* "sugar" is an alias, a deduced or a substituted type, or one that is
\* elaborated, attributed or in parentheses; "DecayedType" is the type of a
\* parameter that is written as an array or a function.
Kinds == Bases \cup Derived \cup {"sugar", "DecayedType"}

(***************************************************************************)
(* Clang's canonical types: sequences of heads with their qualifiers,      *)
(* outermost first.                                                        *)
(***************************************************************************)
Head1(h, q) == <<[head |-> h, quals |-> q]>>

IsFree(c) == c[1].head \in References \cup Functions

\* The place of the innermost elements of c, 1 when c is no array.
Element(c) == CHOOSE i \in 1 .. Len(c) : c[i].head \notin Arrays /\ \A j \in 1 .. i - 1 : c[j].head \in Arrays

\* Qualifiers of an array are those of its elements; references and functions
\* have none.
Qualified(c, q) ==
  LET at == Element(c)
  IN IF c[at].head \in References \cup Functions THEN c ELSE [c EXCEPT ![at].quals = @ \cup q]

\* The pointer that a parameter of array or function type c decays to.
Decayed(c) == Head1("PointerType", {}) \o (IF c[1].head \in Arrays THEN Tail(c) ELSE c)

Unqualified(c) == [c EXCEPT ![1].quals = {}]

\* A reference to a reference is the inner one; & wins over &&.
Collapsed(kind, c) ==
  IF c[1].head \in References
  THEN [c EXCEPT ![1].head = IF "LValueReferenceType" \in {@, kind} THEN "LValueReferenceType" ELSE @]
  ELSE Head1(kind, {}) \o c

\* The canonical type of a layer without qualifiers, on one with canonical type c.
Built(kind, c) ==
  CASE kind = "UnaryTransformType" -> Head1("BuiltinType", {})
    [] kind \in Bases \ {"UnaryTransformType"} -> Head1(kind, {})
    [] kind = "sugar" -> c
    [] kind = "DecayedType" -> Decayed(c)
    [] kind \in References -> Collapsed(kind, c)
    [] kind = "FunctionTaking" -> Head1(kind, {}) \o Unqualified(c)
    [] OTHER -> Head1(kind, {}) \o c

Canonical(kind, q, c) == Qualified(Built(kind, c), q)

Layer(kind, q, c) == [kind |-> kind, quals |-> q, canonical |-> Canonical(kind, q, c)]

(***************************************************************************)
(* The printer.  A term is the sequence of its constructors.               *)
(***************************************************************************)
VisitType == <<"Tunsupported">>

\* The enumeration is printed as well; Coq reads the underlying type only.
VisitUnaryTransformType == <<"@Tunderlying", "Tint">>

VisitBuiltinType == <<"Tint">>

VisitEnumType == <<"Tenum">>

VisitRecordType == <<"Tnamed">>

VisitPointerType(t) == <<"Tptr">> \o t

VisitReferenceType(kind, t) == (IF kind = "LValueReferenceType" THEN <<"Tref">> ELSE <<"Trv_ref">>) \o t

VisitFunctionProtoType(kind, t) == (IF kind = "FunctionReturning" THEN <<"Tfunction_ret">> ELSE <<"Tfunction_arg">>) \o t

VisitConstantArrayType(t) == <<"Tarray">> \o t

VisitIncompleteArrayType(t) == <<"Tincomplete_array">> \o t

VisitVariableArrayType(t) == <<"Tvariable_array">> \o t

VisitMemberPointerType(t) == <<"Tmember_pointer">> \o t

\* The original type is printed as well; Coq reads the adjusted one only.
VisitDecayedType(adjusted) == <<"Tdecay_type">> \o adjusted

\* VisitTypedefType and the handlers of the other sugar, without PRINT_ALIAS.
VisitSugar(t) == t

printQualType_Split(local, isVolatileQualified, t) ==
  (IF "const" \in local THEN <<"Qconst">> ELSE <<>>) \o (IF "volatile" \in local THEN <<"Qvolatile">> ELSE <<>>) \o t

printQualType_ConstFirst(local, isVolatileQualified, t) ==
  IF "const" \in local THEN <<"Qconst">> \o t
  ELSE IF "volatile" \in local THEN <<"Qmut_volatile">> \o t ELSE t

\* isVolatileQualified looks through sugar and arrays, the other two do not.
printQualType(local, isVolatileQualified, t) ==
  IF "const" \in local THEN <<IF isVolatileQualified THEN "Qconst_volatile" ELSE "Qconst">> \o t
  ELSE IF "volatile" \in local THEN <<"Qmut_volatile">> \o t ELSE t

\* The layer that layer i is sugar for.
Desugared(i) ==
  CHOOSE j \in 1 .. i : type[j].kind # "sugar" /\ \A k \in j + 1 .. i : type[k].kind = "sugar"

IsReference(i) == type[i].canonical[1].head \in References

\* ReferenceType::getPointeeType: that of the innermost of several references.
getPointeeType(i) ==
  CHOOSE k \in 1 .. i - 1 : ~IsReference(k) /\ \A j \in k + 1 .. i - 1 : IsReference(j)

\* The qualifiers of the sugar between layer i and what it stands for.
SugarQuals(i) == UNION {type[k].quals : k \in Desugared(i) + 1 .. i}

\* isVolatileQualified of layer k with more qualifiers.
IsVolatile(k, more) ==
  "volatile" \in type[k].canonical[Element(type[k].canonical)].quals \cup type[k].quals \cup more

\* PrintType::Visit, on a type of the kind, with t printed for its parts.
Visit(kind, t) ==
  CASE kind = "Type" -> VisitType
    [] kind = "UnaryTransformType" -> VisitUnaryTransformType
    [] kind = "BuiltinType" -> VisitBuiltinType
    [] kind = "EnumType" -> VisitEnumType
    [] kind = "RecordType" -> VisitRecordType
    [] kind = "PointerType" -> VisitPointerType(t)
    [] kind \in References -> VisitReferenceType(kind, t)
    [] kind \in Functions -> VisitFunctionProtoType(kind, t)
    [] kind = "ConstantArrayType" -> VisitConstantArrayType(t)
    [] kind = "IncompleteArrayType" -> VisitIncompleteArrayType(t)
    [] kind = "VariableArrayType" -> VisitVariableArrayType(t)
    [] kind = "MemberPointerType" -> VisitMemberPointerType(t)
    [] kind = "DecayedType" -> VisitDecayedType(VisitPointerType(t))
    [] kind = "sugar" -> VisitSugar(t)

\* A decayed array points to the elements of the array behind the sugar.
DecaysArray(i) == type[i].kind = "DecayedType" /\ type[Desugared(i - 1)].kind \in Arrays

\* The layer that the handler of layer i prints, and the qualifiers it adds.
Part(i) ==
  CASE type[i].kind \in References -> getPointeeType(i)
    [] DecaysArray(i) -> Desugared(i - 1) - 1
    [] OTHER -> i - 1

PartQuals(i) == IF DecaysArray(i) THEN SugarQuals(i - 1) ELSE {}

Printed(k, more, t) == printQualType(type[k].quals \cup more, IsVolatile(k, more), t)

printType ==
  LET print[i \in 0 .. Len(type)] ==
        IF i = 0 THEN <<>>
        ELSE Visit(type[i].kind, Printed(Part(i), PartQuals(i), print[Part(i)]))
  IN print

Term == Printed(Len(type), {}, printType[Len(type)])

(***************************************************************************)
(* The reader.  Coq has one type for each sequence of heads.               *)
(***************************************************************************)
QualsOf == [Qconst |-> {"const"}, Qmut_volatile |-> {"volatile"}, Qconst_volatile |-> Quals]

HeadOf == [Tunsupported |-> "Type", Tint |-> "BuiltinType", Tenum |-> "EnumType", Tnamed |-> "RecordType",
           Tptr |-> "PointerType", Tref |-> "LValueReferenceType", Trv_ref |-> "RValueReferenceType",
           Tfunction_ret |-> "FunctionReturning", Tfunction_arg |-> "FunctionTaking",
           Tarray |-> "ConstantArrayType", Tmember_pointer |-> "MemberPointerType"]

Abbreviations == {"@Tunderlying", "Tdecay_type", "Tincomplete_array", "Tvariable_array"}

Tokens == DOMAIN QualsOf \cup DOMAIN HeadOf \cup Abbreviations

\* tqualified: qualifiers merge, and a reference takes none.
tqualified(q, c) == IF c[1].head \in References THEN c ELSE [c EXCEPT ![1].quals = @ \cup q]

\* The type that Coq has for a constructor, with c for its argument.
Read(token, c) ==
  CASE token \in DOMAIN QualsOf -> tqualified(QualsOf[token], c)
    [] token \in {"Tincomplete_array", "Tvariable_array"} -> Head1("PointerType", {"const"}) \o c
    [] token \in {"@Tunderlying", "Tdecay_type"} -> c
    [] token \in {"Tfunction_ret", "Tfunction_arg"} -> Head1(HeadOf[token], {}) \o Unqualified(c)
    [] token \in {"Tint", "Tenum", "Tnamed", "Tunsupported"} -> Head1(HeadOf[token], {})
    [] OTHER -> Head1(HeadOf[token], {}) \o c

\* normalize_type, with the definitions of parser.v expanded: the types read
\* from the last k constructors of a term.
normalize_type(t) ==
  LET read[k \in 0 .. Len(t)] ==
        IF k = 0 THEN <<>> ELSE Read(t[Len(t) - k + 1], read[k - 1])
  IN read[Len(t)]

(***************************************************************************)
(* The types clang builds.                                                 *)
(***************************************************************************)
Top == type[Len(type)].canonical

\* Local qualifiers are written before the element of an array, and dropped
\* where they mean nothing.
MayQualify(kind, c) ==
  IF kind \in Arrays \cup References \cup Functions \cup {"DecayedType"} \/ (kind = "sugar" /\ IsFree(c))
  THEN {{}} ELSE SUBSET Quals

Add(kind) ==
  /\ Len(type) < MaxLayers
  /\ \E q \in MayQualify(kind, Top) : type' = Append(type, Layer(kind, q, Top))

AddPointer == Top[1].head \notin References /\ \E kind \in {"PointerType", "MemberPointerType"} : Add(kind)

\* A reference to a reference, through an alias, has the kind of Collapsed.
AddReference ==
  \E kind \in References :
    /\ Top[1].head \in References =>
         type[Len(type)].kind = "sugar" /\ (Top[1].head = "LValueReferenceType" => kind = "LValueReferenceType")
    /\ Add(kind)

AddArray ==
  /\ Top[1].head \notin References \cup Functions \cup {"IncompleteArrayType", "VariableArrayType"}
  /\ \E kind \in Arrays : Add(kind)

AddFunction ==
  \/ Top[1].head \notin Arrays \cup Functions /\ Add("FunctionReturning")
  \/ Top[1].head \notin Arrays \cup Functions /\ Add("FunctionTaking")

AddSugar == Add("sugar")

\* A parameter that is written as an array or a function, and its function.
AddDecayed ==
  /\ Top[1].head \in Arrays \cup Functions
  /\ Len(type) + 1 < MaxLayers
  /\ LET decayed == Layer("DecayedType", {}, Top)
     IN type' = Append(Append(type, decayed), Layer("FunctionTaking", {}, decayed.canonical))

Init == \E kind \in Bases, q \in SUBSET Quals : type = <<Layer(kind, q, <<>>)>>

Next == AddPointer \/ AddReference \/ AddArray \/ AddFunction \/ AddSugar \/ AddDecayed

Spec == Init /\ [][Next]_type

(***************************************************************************)
(* Properties.                                                             *)
(***************************************************************************)
\* Every layer has its type, and Coq knows every constructor that is printed.
TypeOK ==
  /\ Len(type) \in 1 .. MaxLayers
  /\ \A i \in DOMAIN type : type[i].kind \in Kinds /\ type[i].quals \subseteq Quals
  /\ LET t == Term IN \A i \in DOMAIN t : t[i] \in Tokens

\* What Coq is meant to have for a canonical type: arrays of no known size are
\* constant pointers, and the qualifiers of results are dropped.
Meant(c) ==
  [i \in DOMAIN c |->
     CASE c[i].head \in {"IncompleteArrayType", "VariableArrayType"} -> [head |-> "PointerType", quals |-> {"const"}]
       [] i > 1 /\ c[i - 1].head = "FunctionReturning" -> [c[i] EXCEPT !.quals = {}]
       [] OTHER -> c[i]]

\* The rule of C++ for arrays, which Coq does not have: the elements take the
\* qualifiers of the arrays around them.
Sunk(c) ==
  [i \in DOMAIN c |->
     [c[i] EXCEPT !.quals =
        IF c[i].head = "ConstantArrayType" THEN {}
        ELSE UNION {c[k].quals : k \in {k \in 1 .. i : \A j \in k .. i - 1 : c[j].head = "ConstantArrayType"}}]]

\* Qualifiers of an alias of an array of no known size are read as those of
\* a pointer and not of the elements.
Misread ==
  \E i \in DOMAIN type :
    /\ type[i].kind = "sugar" /\ type[i].quals # {}
    /\ type[i].canonical[1].head \in {"IncompleteArrayType", "VariableArrayType"}

\* However a type is spelled - with which aliases, and which qualifiers at which
\* level, also twice - Coq reads the type that clang has, up to where the
\* qualifiers of an array stand, and save the aliases of Misread: two
\* spellings of one type are one type in Coq.  normalize_type collapses no
\* references, so the printer must not print any of a reference (types.v:
\* "We do not see references to references").
TypesAgree == Misread \/ Sunk(normalize_type(Term)) = Meant(Top)
================================================================================

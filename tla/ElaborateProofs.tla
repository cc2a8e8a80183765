---------------------------- MODULE ElaborateProofs ----------------------------
(***************************************************************************)
(* Proofs about Elaborate: no member is defined twice, and the class of a  *)
(* template is left alone, for all sources and all orders of callbacks.    *)
(***************************************************************************)
EXTENDS Elaborate, TLAPS

\* The types that the argument needs.
Types ==
  /\ status \in [Class -> [Special -> Statuses]]
  /\ defs \in [Class -> [Special -> Nat]]
  /\ phase \in [Class -> {"none", "incomplete", "complete"}]
  /\ user \in [Class -> [Special -> UserForms]]

\* A class not opened yet, or an instance that is only named, has no members.
Blank(c) == phase[c] = "none" \/ (c \in Instances /\ phase[c] = "incomplete")

BlankInv == \A c \in Class, m \in Special : Blank(c) => status[c][m] = "undeclared"

\* What has been defined stays defined, so it is not defined again.
OnceInv ==
  \A c \in Class, m \in Special :
    defs[c][m] = 0 \/ (defs[c][m] = 1 /\ status[c][m] = "defined")

Inv == Types /\ BlankInv /\ OnceInv

\* Declaring members touches the undeclared members of complete classes only;
\* it results in members that have no body.
LEMMA DeclaredLemma ==
  ASSUME NEW S, NEW ph, NEW us, NEW st \in [Class -> [Special -> Statuses]],
         NEW c \in Class, NEW m \in Special
  PROVE  LET d == Declared(S, ph, us, st)[c][m]
         IN /\ d \in Statuses
            /\ d = st[c][m] \/ (st[c][m] = "undeclared" /\ ph[c] = "complete")
PROOF
  <1>1. Declared(S, ph, us, st)[c][m] =
          IF <<c, m>> \in Generated(S, ph, us, st)
          THEN ImplicitStatus(UserDeclared(us, c), m) ELSE st[c][m]
    BY DEF Declared
  <1>2. <<c, m>> \in Generated(S, ph, us, st) => ph[c] = "complete" /\ st[c][m] = "undeclared"
    BY DEF Generated, GenerateUndeprecatedImplicitMembers, NeedsImplicit
  <1>3. ImplicitStatus(UserDeclared(us, c), m) \in Statuses
    BY DEF ImplicitStatus, Statuses
  <1>4. st[c][m] \in Statuses
    OBVIOUS
  <1> QED BY <1>1, <1>2, <1>3, <1>4

\* An AST st whose defined members are those that have been defined.
Matches(st) ==
  /\ st \in [Class -> [Special -> Statuses]]
  /\ \A c \in Class, m \in Special :
       defs[c][m] = 0 \/ (defs[c][m] = 1 /\ st[c][m] = "defined")

\* A step whose handler visits the AST st with phases ph, or does nothing.
Visiting(ph, st) ==
  NoVisit(st) \/ \E S, M, rec, us : Visit(S, M, rec, ph, us, st)

\* A visit of an AST st whose defined members are those that have been defined
\* keeps that so, whatever it reaches.
LEMMA ElabLemma ==
  ASSUME NEW ph, NEW st, Matches(st), Visiting(ph, st),
         defs \in [Class -> [Special -> Nat]]
  PROVE  /\ status' \in [Class -> [Special -> Statuses]]
         /\ defs' \in [Class -> [Special -> Nat]]
         /\ OnceInv'
         /\ \A c \in Class, m \in Special :
              ph[c] # "complete" /\ st[c][m] = "undeclared" => status'[c][m] = "undeclared"
PROOF
  <1>0. /\ st \in [Class -> [Special -> Statuses]]
        /\ \A c \in Class, m \in Special : defs[c][m] = 0 \/ (defs[c][m] = 1 /\ st[c][m] = "defined")
    BY DEF Matches
  <1> USE <1>0
  <1>1. ASSUME NEW S, NEW M, NEW rec, NEW us, Visit(S, M, rec, ph, us, st)
        PROVE  /\ status' \in [Class -> [Special -> Statuses]]
               /\ defs' \in [Class -> [Special -> Nat]]
               /\ OnceInv'
               /\ \A c \in Class, m \in Special :
                    ph[c] # "complete" /\ st[c][m] = "undeclared" => status'[c][m] = "undeclared"
    <2> DEFINE D == Declared(S, ph, us, st)
               N == Define(S, M, rec, ph, us, st)
    <2>1. ASSUME NEW c \in Class, NEW m \in Special
          PROVE  /\ D[c][m] \in Statuses
                 /\ D[c][m] = st[c][m] \/ (st[c][m] = "undeclared" /\ ph[c] = "complete")
                 /\ <<c, m>> \in N => D[c][m] = "defaulted"
      <3>1. D[c][m] \in Statuses /\ (D[c][m] = st[c][m] \/ (st[c][m] = "undeclared" /\ ph[c] = "complete"))
        BY DeclaredLemma
      <3>2. <<c, m>> \in N => D[c][m] = "defaulted"
        <4> HIDE DEF D
        <4> QED BY DEF Define, NeedBody, D
      <3> QED BY <3>1, <3>2
    <2>2. /\ status' = [c \in Class |-> [m \in Special |-> IF <<c, m>> \in N THEN "defined" ELSE D[c][m]]]
          /\ defs' = [c \in Class |-> [m \in Special |-> IF <<c, m>> \in N THEN defs[c][m] + 1 ELSE defs[c][m]]]
      BY <1>1 DEF Visit
    <2> HIDE DEF D, N
    <2>3. status' \in [Class -> [Special -> Statuses]]
      BY <2>1, <2>2 DEF Statuses
    <2>4. defs' \in [Class -> [Special -> Nat]]
      BY <2>2
    <2>5. ASSUME NEW c \in Class, NEW m \in Special
          PROVE  defs'[c][m] = 0 \/ (defs'[c][m] = 1 /\ status'[c][m] = "defined")
      <3>1. /\ status'[c][m] = (IF <<c, m>> \in N THEN "defined" ELSE D[c][m])
            /\ defs'[c][m] = (IF <<c, m>> \in N THEN defs[c][m] + 1 ELSE defs[c][m])
        BY <2>2
      <3>2. <<c, m>> \in N => st[c][m] # "defined"
        BY <2>1
      <3>3. st[c][m] = "defined" => D[c][m] = "defined"
        BY <2>1
      <3> QED BY <3>1, <3>2, <3>3
    <2>6. ASSUME NEW c \in Class, NEW m \in Special, ph[c] # "complete", st[c][m] = "undeclared"
          PROVE  status'[c][m] = "undeclared"
      <3>1. status'[c][m] = (IF <<c, m>> \in N THEN "defined" ELSE D[c][m])
        BY <2>2
      <3> QED BY <2>1, <2>6, <3>1
    <2> QED BY <2>3, <2>4, <2>5, <2>6 DEF OnceInv
  <1>2. CASE NoVisit(st)
    BY <1>2 DEF NoVisit, OnceInv
  <1> QED BY <1>1, <1>2 DEF Visiting

LEMMA InitInv == Init => Inv
PROOF
  BY DEF Init, Inv, Types, BlankInv, OnceInv, Statuses, UserForms

\* A handler visits an AST st that differs from the current one at most in
\* members nobody has defined, and in which blank classes have no members.
LEMMA HandlerLemma ==
  ASSUME Inv, NEW st, Matches(st), Visiting(phase', st),
         \A c \in Class, m \in Special : Blank(c)' => st[c][m] = "undeclared",
         phase' \in [Class -> {"none", "incomplete", "complete"}],
         user' \in [Class -> [Special -> UserForms]]
  PROVE  Inv'
PROOF
  <1>1. defs \in [Class -> [Special -> Nat]]
    BY DEF Inv, Types
  <1>2. /\ status' \in [Class -> [Special -> Statuses]]
        /\ defs' \in [Class -> [Special -> Nat]]
        /\ OnceInv'
        /\ \A c \in Class, m \in Special :
             phase'[c] # "complete" /\ st[c][m] = "undeclared" => status'[c][m] = "undeclared"
    BY <1>1, ElabLemma
  <1>3. BlankInv'
    BY <1>2 DEF BlankInv, Blank
  <1>4. Types'
    BY <1>2 DEF Types
  <1> QED BY <1>2, <1>3, <1>4 DEF Inv

\* A handler that only looks at the current AST.
LEMMA HandleDeclLemma ==
  ASSUME Inv, NEW S, NEW M, NEW rec, UNCHANGED <<phase, user>>,
         Visit(S, M, rec, phase, user, status) \/ NoVisit(status)
  PROVE  Inv'
PROOF
  <1>1. Matches(status)
    BY DEF Inv, Types, OnceInv, Matches
  <1>2. \A c \in Class, m \in Special : Blank(c)' => status[c][m] = "undeclared"
    BY DEF Inv, BlankInv, Blank
  <1>3. /\ phase' \in [Class -> {"none", "incomplete", "complete"}]
        /\ user' \in [Class -> [Special -> UserForms]]
    BY DEF Inv, Types
  <1>4. Visiting(phase', status)
    BY DEF Visiting
  <1> QED BY <1>1, <1>2, <1>3, <1>4, HandlerLemma

LEMMA AsDeclaredLemma ==
  ASSUME NEW u \in [Special -> UserForms]
  PROVE  AsDeclared(u) \in [Special -> Statuses]
PROOF
  BY DEF AsDeclared, UserForms, Statuses

LEMMA StepInv == Inv /\ [Next]_vars => Inv'
PROOF
  <1> SUFFICES ASSUME Inv, [Next]_vars PROVE Inv'
    OBVIOUS
  <1> USE ElaborateAssumption
  <1>0. Types /\ BlankInv /\ OnceInv
    BY DEF Inv
  <1>1. CASE OpenNamespace
    BY <1>0, <1>1 DEF OpenNamespace, options, Inv, Types, BlankInv, Blank, OnceInv
  <1>2. CASE CloseNamespace
    BY <1>0, <1>2 DEF CloseNamespace, options, Inv, Types, BlankInv, Blank, OnceInv
  <1>3. ASSUME NEW c \in Plain \cup {Pattern}, OpenClass(c)
        PROVE  Inv'
    <2>1. PICK u \in UserMembers :
            /\ user' = [user EXCEPT ![c] = u]
            /\ status' = [status EXCEPT ![c] = AsDeclared(u)]
      BY <1>3 DEF OpenClass
    <2>2. /\ c \in Class /\ c \notin Instances /\ phase[c] = "none"
          /\ phase' = [phase EXCEPT ![c] = "incomplete"] /\ defs' = defs
          /\ u \in [Special -> UserForms]
      BY <1>3 DEF OpenClass, Class
    <2>3. AsDeclared(u) \in [Special -> Statuses]
      BY <2>2, AsDeclaredLemma
    <2>4. Types'
      BY <1>0, <2>1, <2>2, <2>3 DEF Types
    <2>5. \A m \in Special : defs[c][m] = 0
      BY <1>0, <2>2 DEF BlankInv, Blank, OnceInv
    <2>6. BlankInv'
      BY <1>0, <2>1, <2>2 DEF BlankInv, Blank, Types
    <2>7. OnceInv'
      BY <1>0, <2>1, <2>2, <2>5 DEF OnceInv, Types
    <2> QED BY <2>4, <2>6, <2>7 DEF Inv
  <1>4. CASE HandleTagDeclDefinition
    <2>1. /\ Here \in Class
          /\ phase' = [phase EXCEPT ![Here] = "complete"]
          /\ user' = user
          /\ Visiting(phase', status)
      BY <1>4 DEF HandleTagDeclDefinition, elab, Visiting
    <2> DEFINE h == Here
    <2>2. h \in Class /\ phase' = [phase EXCEPT ![h] = "complete"]
      BY <2>1
    <2> HIDE DEF h
    <2>3. \A c \in Class, m \in Special : Blank(c)' => status[c][m] = "undeclared"
      BY <1>0, <2>2 DEF BlankInv, Blank, Types
    <2>4. phase' \in [Class -> {"none", "incomplete", "complete"}]
      BY <1>0, <2>2 DEF Types
    <2>5. user' \in [Class -> [Special -> UserForms]]
      BY <1>0, <2>1 DEF Types
    <2>6. Matches(status)
      BY <1>0 DEF Types, OnceInv, Matches
    <2> QED BY <2>1, <2>3, <2>4, <2>5, <2>6, HandlerLemma
  <1>5. CASE HandleTopLevelClass
    <2>1. /\ Visit(FromClasses(Inside(top)), {}, TRUE, phase, user, status) \/ NoVisit(status)
          /\ UNCHANGED <<phase, user>>
      BY <1>5 DEF HandleTopLevelClass, elab, parser
    <2> QED BY <2>1, HandleDeclLemma
  <1>6. CASE HandleTopLevelTemplate
    <2>1. /\ Visit(Specializations, {}, TRUE, phase, user, status) \/ NoVisit(status)
          /\ UNCHANGED <<phase, user>>
      BY <1>6 DEF HandleTopLevelTemplate, elab, parser
    <2> QED BY <2>1, HandleDeclLemma
  <1>7. CASE HandleTopLevelNamespace
    <2> DEFINE M == {<<Pattern, m>> : m \in {n \in Special : <<n, top>> \in outside}}
    <2>1. /\ Visit(FromBlock(top), M, TRUE, phase, user, status) \/ NoVisit(status)
          /\ UNCHANGED <<phase, user>>
      BY <1>7 DEF HandleTopLevelNamespace, parser
    <2> HIDE DEF M
    <2> QED BY <2>1, HandleDeclLemma
  <1>8. ASSUME NEW i \in Instances, AddedCXXTemplateSpecialization(i)
        PROVE  Inv'
    <2>1. /\ i \in Class /\ phase[i] = "none"
          /\ phase' = [phase EXCEPT ![i] = "incomplete"]
          /\ user' = user
          /\ Visiting(phase', status)
      BY <1>8 DEF AddedCXXTemplateSpecialization, elab, Class, Visiting
    <2>2. \A c \in Class, m \in Special : Blank(c)' => status[c][m] = "undeclared"
      BY <1>0, <2>1 DEF BlankInv, Blank, Types
    <2>3. phase' \in [Class -> {"none", "incomplete", "complete"}]
      BY <1>0, <2>1 DEF Types
    <2>4. user' \in [Class -> [Special -> UserForms]]
      BY <1>0, <2>1 DEF Types
    <2>5. Matches(status)
      BY <1>0 DEF Types, OnceInv, Matches
    <2> QED BY <2>1, <2>2, <2>3, <2>4, <2>5, HandlerLemma
  <1>9. ASSUME NEW i \in Instances, InstantiateClass(i)
        PROVE  Inv'
    <2> DEFINE st == [status EXCEPT ![i] = AsDeclared(user[Pattern])]
    <2>1. /\ i \in Class /\ Pattern \in Class /\ phase[i] = "incomplete"
          /\ phase' = [phase EXCEPT ![i] = "complete"]
          /\ user' = [user EXCEPT ![i] = user[Pattern]]
          /\ Visiting(phase', st)
      BY <1>9 DEF InstantiateClass, elab, Class, Visiting
    <2>2. user[Pattern] \in [Special -> UserForms]
      BY <1>0, <2>1 DEF Types
    <2>3. AsDeclared(user[Pattern]) \in [Special -> Statuses]
      BY <2>2, AsDeclaredLemma
    <2>4. st \in [Class -> [Special -> Statuses]]
      BY <1>0, <2>1, <2>3 DEF Types
    <2>5. \A m \in Special : defs[i][m] = 0
      BY <1>0, <2>1 DEF BlankInv, Blank, OnceInv
    <2>6. Matches(st)
      BY <1>0, <2>1, <2>4, <2>5 DEF OnceInv, Types, Matches
    <2>7. \A c \in Class, m \in Special : Blank(c)' => st[c][m] = "undeclared"
      BY <1>0, <2>1 DEF BlankInv, Blank, Types
    <2>8. /\ phase' \in [Class -> {"none", "incomplete", "complete"}]
          /\ user' \in [Class -> [Special -> UserForms]]
      BY <1>0, <2>1, <2>2 DEF Types
    <2> HIDE DEF st
    <2> QED BY <2>1, <2>6, <2>7, <2>8, HandlerLemma
  <1>10. ASSUME NEW c \in Plain \cup {Pattern}, NEW m \in Special, DefaultOutOfLine(c, m)
         PROVE  Inv'
    <2>1. /\ c \in Class /\ phase[c] = "complete" /\ status[c][m] = "user"
          /\ phase' = phase /\ user' = user
          /\ \/ status' = [status EXCEPT ![c][m] = "defaulted"] /\ defs' = defs
             \/ /\ status' = [status EXCEPT ![c][m] = "defined"]
                /\ defs' = [defs EXCEPT ![c][m] = @ + 1]
      BY <1>10 DEF DefaultOutOfLine, Class, parser
    <2>2. defs[c][m] = 0
      BY <1>0, <2>1 DEF OnceInv
    <2>3. Types'
      <3>1. CASE status' = [status EXCEPT ![c][m] = "defaulted"] /\ defs' = defs
        BY <1>0, <2>1, <3>1 DEF Types, Statuses
      <3>2. CASE /\ status' = [status EXCEPT ![c][m] = "defined"]
                 /\ defs' = [defs EXCEPT ![c][m] = @ + 1]
        BY <1>0, <2>1, <3>2 DEF Types, Statuses
      <3> QED BY <2>1, <3>1, <3>2
    <2>4. \A d \in Class \ {c} : status'[d] = status[d] /\ defs'[d] = defs[d]
      BY <1>0, <2>1 DEF Types
    <2>5. \A n \in Special \ {m} : status'[c][n] = status[c][n] /\ defs'[c][n] = defs[c][n]
      BY <1>0, <2>1 DEF Types
    <2>6. BlankInv'
      BY <1>0, <2>1, <2>4 DEF BlankInv, Blank
    <2>7. defs'[c][m] = 0 \/ (defs'[c][m] = 1 /\ status'[c][m] = "defined")
      BY <1>0, <2>1, <2>2 DEF Types
    <2>8. OnceInv'
      BY <1>0, <2>4, <2>5, <2>7 DEF OnceInv
    <2> QED BY <2>3, <2>6, <2>8 DEF Inv
  <1>11. ASSUME NEW c \in Class, NEW m \in Special, SemaDeclares(c, m)
         PROVE  Inv'
    <2> DEFINE s == ImplicitStatus(UserDeclared(user, c), m)
    <2>1. /\ phase[c] = "complete" /\ status[c][m] = "undeclared"
          /\ phase' = phase /\ user' = user /\ defs' = defs
          /\ status' = [status EXCEPT ![c][m] = s]
      BY <1>11 DEF SemaDeclares, NeedsImplicit, parser
    <2>2. s \in Statuses
      BY DEF ImplicitStatus, Statuses
    <2> HIDE DEF s
    <2>3. Types'
      BY <1>0, <2>1, <2>2 DEF Types
    <2>4. BlankInv'
      BY <1>0, <2>1 DEF BlankInv, Blank, Types
    <2>5. OnceInv'
      BY <1>0, <2>1 DEF OnceInv, Types
    <2> QED BY <2>3, <2>4, <2>5 DEF Inv
  <1>12. ASSUME NEW c \in Class, NEW m \in Special, SemaDefines(c, m)
         PROVE  Inv'
    <2>1. /\ phase[c] = "complete" /\ status[c][m] = "defaulted"
          /\ phase' = phase /\ user' = user
          /\ status' = [status EXCEPT ![c][m] = "defined"]
          /\ defs' = [defs EXCEPT ![c][m] = @ + 1]
      BY <1>12 DEF SemaDefines, parser
    <2>2. defs[c][m] = 0
      BY <1>0, <2>1 DEF OnceInv
    <2>3. Types'
      BY <1>0, <2>1 DEF Types, Statuses
    <2>4. \A d \in Class \ {c} : status'[d] = status[d] /\ defs'[d] = defs[d]
      BY <1>0, <2>1 DEF Types
    <2>5. \A n \in Special \ {m} : status'[c][n] = status[c][n] /\ defs'[c][n] = defs[c][n]
      BY <1>0, <2>1 DEF Types
    <2>6. BlankInv'
      BY <1>0, <2>1, <2>4 DEF BlankInv, Blank
    <2>7. defs'[c][m] = 0 \/ (defs'[c][m] = 1 /\ status'[c][m] = "defined")
      BY <1>0, <2>1, <2>2 DEF Types
    <2>8. OnceInv'
      BY <1>0, <2>4, <2>5, <2>7 DEF OnceInv
    <2> QED BY <2>3, <2>6, <2>8 DEF Inv
  <1>13. CASE HandleTranslationUnit
    BY <1>0, <1>13 DEF HandleTranslationUnit, parser, Inv, Types, BlankInv, Blank, OnceInv
  <1>14. CASE UNCHANGED vars
    BY <1>0, <1>14 DEF vars, Inv, Types, BlankInv, Blank, OnceInv
  <1> QED
    BY <1>1, <1>2, <1>3, <1>4, <1>5, <1>6, <1>7, <1>8, <1>9, <1>10, <1>11, <1>12, <1>13, <1>14
    DEF Next

\* Whatever the source is, and in whatever order the handlers and Sema come to
\* its members, no member is defined twice.
THEOREM DefinedAtMostOnce == Spec => []DefinedOnce
PROOF
  <1>1. Inv => DefinedOnce
    BY DEF Inv, Types, OnceInv, DefinedOnce
  <1> QED BY <1>1, InitInv, StepInv, PTL DEF Spec

(***************************************************************************)
(* The class of a template.                                                *)
(***************************************************************************)
\* A visit that does not reach the pattern makes nothing of it but the bodies
\* of the members in M.
LEMMA VisitLemma ==
  ASSUME NEW S, NEW M, NEW rec, NEW ph, NEW us, NEW st,
         Pattern \notin S, Visit(S, M, rec, ph, us, st)
  PROVE  \A m \in Special :
           /\ <<Pattern, m>> \in forced' => <<Pattern, m>> \in forced
           /\ <<Pattern, m>> \in bodies' => <<Pattern, m>> \in bodies \cup M
PROOF
  <1> SUFFICES ASSUME NEW m \in Special
               PROVE  /\ <<Pattern, m>> \notin Generated(S, ph, us, st)
                      /\ <<Pattern, m>> \in Define(S, M, rec, ph, us, st) => <<Pattern, m>> \in M
    BY DEF Visit
  <1>1. <<Pattern, m>> \notin S \X Special
    OBVIOUS
  <1>2. <<Pattern, m>> \notin Generated(S, ph, us, st)
    BY <1>1 DEF Generated
  <1>3. Define(S, M, rec, ph, us, st) \subseteq M \cup S \X Special
    BY DEF Define, NeedBody
  <1> QED BY <1>1, <1>2, <1>3

\* elab stops at the pattern.
LEMMA ElabKeeps ==
  ASSUME PatternsKept, outside' = outside, NEW S, NEW rec, NEW ph, NEW us, NEW st,
         elab(S, rec, ph, us, st) \/ NoVisit(st)
  PROVE  PatternsKept'
PROOF
  <1>1. CASE NoVisit(st)
    BY <1>1 DEF NoVisit, PatternsKept
  <1>2. CASE Pattern \notin S /\ Visit(S, {}, rec, ph, us, st)
    <2>1. \A m \in Special :
            /\ <<Pattern, m>> \in forced' => <<Pattern, m>> \in forced
            /\ <<Pattern, m>> \in bodies' => <<Pattern, m>> \in bodies
      BY <1>2, VisitLemma
    <2> QED BY <2>1 DEF PatternsKept
  <1> QED BY <1>1, <1>2 DEF elab

\* The classes a recursive visit reaches.
LEMMA ReachedLemma ==
  ASSUME NEW x
  PROVE  /\ Inside(x) \subseteq Plain /\ FromClasses(Inside(x)) \subseteq Plain \cup Instances
         /\ FromBlock(x) \subseteq Plain \cup Instances /\ Specializations \subseteq Instances
         /\ Inside(x) \subseteq FromClasses(Inside(x)) /\ Inside(x) \subseteq FromBlock(x)
PROOF
  <1>1. Inside(x) \subseteq Plain
    BY DEF Inside
  <1>2. Specializations \subseteq Instances
    BY DEF Specializations
  <1> HIDE DEF Inside
  <1>3. /\ Inside(x) \subseteq FromClasses(Inside(x))
        /\ FromClasses(Inside(x)) \subseteq Plain \cup Instances
    BY <1>1, <1>2 DEF FromClasses
  <1> QED BY <1>1, <1>2, <1>3 DEF FromBlock

\* The recursive visit of a namespace block reaches classes and instances.
LEMMA BlockLemma ==
  ASSUME NEW b
  PROVE  Pattern \notin FromBlock(b)
PROOF
  <1>1. FromBlock(b) \subseteq Plain \cup Instances
    BY ReachedLemma
  <1> QED BY <1>1, ElaborateAssumption

\* The class of a template gets no member and no body from the handlers, but
\* for the members a namespace block defaults outside the class: for any
\* number of classes, instances and blocks.
THEOREM PatternsAlone == Spec => []PatternsKept
PROOF
  <1>1. Init => PatternsKept
    BY DEF Init, PatternsKept
  <1>2. PatternsKept /\ [Next]_vars => PatternsKept'
    <2> SUFFICES ASSUME PatternsKept, [Next]_vars PROVE PatternsKept'
      OBVIOUS
    <2>1. CASE UNCHANGED <<forced, bodies, outside>>
      BY <2>1 DEF PatternsKept
    <2>2. CASE OpenNamespace \/ CloseNamespace \/ HandleTranslationUnit \/ UNCHANGED vars
      BY <2>1, <2>2 DEF OpenNamespace, CloseNamespace, HandleTranslationUnit, vars
    <2>3. ASSUME NEW c \in Plain \cup {Pattern}, OpenClass(c)
          PROVE  PatternsKept'
      BY <2>1, <2>3 DEF OpenClass
    <2>4. CASE HandleTagDeclDefinition
      <3>1. /\ elab({Here}, FALSE, phase', user, status) \/ NoVisit(status)
            /\ outside' = outside
        BY <2>4 DEF HandleTagDeclDefinition
      <3> QED BY <3>1, ElabKeeps
    <2>5. CASE HandleTopLevelClass
      <3>1. /\ elab(FromClasses(Inside(top)), TRUE, phase, user, status) \/ NoVisit(status)
            /\ outside' = outside
        BY <2>5 DEF HandleTopLevelClass
      <3> QED BY <3>1, ElabKeeps
    <2>6. CASE HandleTopLevelTemplate
      <3>1. /\ elab(Specializations, TRUE, phase, user, status) \/ NoVisit(status)
            /\ outside' = outside
        BY <2>6 DEF HandleTopLevelTemplate
      <3> QED BY <3>1, ElabKeeps
    <2>7. CASE HandleTopLevelNamespace
      <3> DEFINE M == {<<Pattern, m>> : m \in {n \in Special : <<n, top>> \in outside}}
      <3>1. /\ top \in Blocks /\ outside' = outside
            /\ Visit(FromBlock(top), M, TRUE, phase, user, status) \/ NoVisit(status)
        BY <2>7 DEF HandleTopLevelNamespace
      <3>2. \A m \in Special : <<Pattern, m>> \in M => <<m, top>> \in outside
        OBVIOUS
      <3> HIDE DEF M
      <3>3. CASE NoVisit(status)
        BY <3>1, <3>3 DEF NoVisit, PatternsKept
      <3>4. CASE Visit(FromBlock(top), M, TRUE, phase, user, status)
        <4>1. Pattern \notin FromBlock(top)
          BY BlockLemma
        <4>2. \A m \in Special :
                /\ <<Pattern, m>> \in forced' => <<Pattern, m>> \in forced
                /\ <<Pattern, m>> \in bodies' => <<Pattern, m>> \in bodies \cup M
          BY <3>4, <4>1, VisitLemma
        <4> QED BY <3>1, <3>2, <4>2 DEF PatternsKept
      <3> QED BY <3>1, <3>3, <3>4
    <2>8. ASSUME NEW i \in Instances, AddedCXXTemplateSpecialization(i)
          PROVE  PatternsKept'
      <3>1. elab({i}, TRUE, phase', user, status) /\ outside' = outside
        BY <2>8 DEF AddedCXXTemplateSpecialization
      <3> QED BY <3>1, ElabKeeps
    <2>9. ASSUME NEW i \in Instances, InstantiateClass(i)
          PROVE  PatternsKept'
      <3> DEFINE st == [status EXCEPT ![i] = AsDeclared(user[Pattern])]
      <3>1. /\ elab({i}, FALSE, phase', user', st) \/ NoVisit(st)
            /\ outside' = outside
        BY <2>9 DEF InstantiateClass
      <3> HIDE DEF st
      <3> QED BY <3>1, ElabKeeps
    <2>10. ASSUME NEW c \in Plain \cup {Pattern}, NEW m \in Special, DefaultOutOfLine(c, m)
           PROVE  PatternsKept'
      <3>1. forced' = forced /\ bodies' = bodies /\ outside \subseteq outside'
        BY <2>10 DEF DefaultOutOfLine
      <3> QED BY <3>1 DEF PatternsKept
    <2>11. ASSUME NEW c \in Class, NEW m \in Special, SemaDeclares(c, m) \/ SemaDefines(c, m)
           PROVE  PatternsKept'
      BY <2>1, <2>11 DEF SemaDeclares, SemaDefines
    <2> QED
      BY <2>2, <2>3, <2>4, <2>5, <2>6, <2>7, <2>8, <2>9, <2>10, <2>11 DEF Next
  <1> QED BY <1>1, <1>2, PTL DEF Spec

(***************************************************************************)
(* Types, and what a visit leaves behind.                                  *)
(***************************************************************************)
\* What a visit of the classes S and the member declarations M does to the
\* members st: it declares those of complete classes, it defines what is
\* defaulted if it is recursive, and it takes nothing back.
Result(S, M, rec, ph, us, st) ==
  \A c \in Class, m \in Special :
    /\ c \notin S /\ <<c, m>> \notin M => status'[c][m] = st[c][m]
    /\ status'[c][m] = "undeclared" => st[c][m] = "undeclared"
    /\ /\ c \in S /\ ph[c] = "complete"
       /\ m \in GenerateUndeprecatedImplicitMembers(UserDeclared(us, c), st, c)
       => status'[c][m] # "undeclared"
    /\ c \in S /\ rec = TRUE /\ c # Pattern => status'[c][m] # "defaulted"

LEMMA VisitEffect ==
  ASSUME NEW S \in SUBSET Class, NEW M \in SUBSET (Class \X Special), NEW rec \in BOOLEAN,
         NEW ph, NEW us, NEW st \in [Class -> [Special -> Statuses]],
         Visit(S, M, rec, ph, us, st)
  PROVE  /\ forced' \subseteq forced \cup (Class \X Special)
         /\ bodies' \subseteq bodies \cup (Class \X Special)
         /\ Result(S, M, rec, ph, us, st)
PROOF
  <1> DEFINE D == Declared(S, ph, us, st)
             G == Generated(S, ph, us, st)
             N == Define(S, M, rec, ph, us, st)
  <1>1. /\ status' = [c \in Class |-> [m \in Special |-> IF <<c, m>> \in N THEN "defined" ELSE D[c][m]]]
        /\ forced' = forced \cup G /\ bodies' = bodies \cup N
    BY DEF Visit
  <1>2. G \subseteq S \X Special
    BY DEF Generated
  <1>3. N \subseteq M \cup (S \X Special)
    BY DEF Define, NeedBody
  <1>4. ASSUME NEW c \in Class, NEW m \in Special
        PROVE  /\ c \notin S /\ <<c, m>> \notin M => status'[c][m] = st[c][m]
               /\ status'[c][m] = "undeclared" => st[c][m] = "undeclared"
               /\ /\ c \in S /\ ph[c] = "complete"
                  /\ m \in GenerateUndeprecatedImplicitMembers(UserDeclared(us, c), st, c)
                  => status'[c][m] # "undeclared"
               /\ c \in S /\ rec = TRUE /\ c # Pattern => status'[c][m] # "defaulted"
    <2>1. status'[c][m] = IF <<c, m>> \in N THEN "defined" ELSE D[c][m]
      BY <1>1
    <2>2. D[c][m] = IF <<c, m>> \in G THEN ImplicitStatus(UserDeclared(us, c), m) ELSE st[c][m]
      BY DEF Declared
    <2>3. <<c, m>> \in G <=>
            /\ c \in S /\ ph[c] = "complete"
            /\ m \in GenerateUndeprecatedImplicitMembers(UserDeclared(us, c), st, c)
      BY DEF Generated
    <2>4. ImplicitStatus(UserDeclared(us, c), m) # "undeclared"
      BY DEF ImplicitStatus
    <2>5. c \in S /\ rec /\ c # Pattern /\ D[c][m] = "defaulted" => <<c, m>> \in N
      <3> HIDE DEF D
      <3> QED BY DEF Define, NeedBody, D
    <2>6. c \notin S /\ <<c, m>> \notin M => <<c, m>> \notin N
      BY <1>3
    <2> HIDE DEF D, G, N
    <2> QED BY <2>1, <2>2, <2>3, <2>4, <2>5, <2>6
  <1>5. S \X Special \subseteq Class \X Special
    OBVIOUS
  <1>6. Result(S, M, rec, ph, us, st)
    BY <1>4 DEF Result
  <1> HIDE DEF D, G, N
  <1> QED BY <1>1, <1>2, <1>3, <1>5, <1>6

\* Every handler visits some classes and members, or none: S and M are what it
\* reaches of the AST st.
Handles(S, M, rec, st) ==
  /\ S \in SUBSET Class /\ M \in SUBSET (Class \X Special) /\ rec \in BOOLEAN
  /\ st \in [Class -> [Special -> Statuses]]
  /\ Visit(S, M, rec, phase', user', st) \/ (NoVisit(st) /\ Pattern \in S)

\* The steps as the invariants see them.
LEMMA TagStep ==
  ASSUME TypeOK, HandleTagDeclDefinition
  PROVE  /\ Here \in Class /\ phase' = [phase EXCEPT ![Here] = "complete"]
         /\ Handles({Here}, {}, FALSE, status)
PROOF
  BY DEF HandleTagDeclDefinition, elaborate_, elab, Handles, TypeOK

LEMMA TopStep ==
  ASSUME TypeOK, HandleTopLevelClass \/ HandleTopLevelTemplate \/ HandleTopLevelNamespace
  PROVE  /\ top # None /\ top' = None /\ context = <<>>
         /\ UNCHANGED <<options, parser, outside, ended>>
         /\ \E S, M : /\ Handles(S, M, TRUE, status) /\ S \subseteq Plain \cup Instances
                      /\ M \subseteq {Pattern} \X Special
                      /\ top # Pattern => Inside(top) \subseteq S
PROOF
  <1> USE ElaborateAssumption
  <1>0. /\ top \in Class \cup Blocks \cup {None} /\ (top # None => context = <<>>)
        /\ status \in [Class -> [Special -> Statuses]]
    BY DEF TypeOK
  <1>1. CASE HandleTopLevelClass
    <2>1. /\ top \in Plain /\ top' = None /\ UNCHANGED <<options, parser, outside, ended>>
          /\ elab(FromClasses(Inside(top)), TRUE, phase, user, status)
      BY <1>1 DEF HandleTopLevelClass, elaborate_
    <2> DEFINE S == FromClasses(Inside(top))
    <2>2. S \subseteq Plain \cup Instances /\ Inside(top) \subseteq S
      BY ReachedLemma
    <2>3. Visit(S, {}, TRUE, phase, user, status)
      BY <2>1, <2>2 DEF elab
    <2>4. UNCHANGED <<phase, user>>
      BY <2>1 DEF parser
    <2> HIDE DEF S
    <2>5. Handles(S, {}, TRUE, status)
      BY <1>0, <2>2, <2>3, <2>4 DEF Handles, Class
    <2>6. top # None
      BY <2>1 DEF Class
    <2> QED BY <1>0, <2>1, <2>2, <2>5, <2>6
  <1>2. CASE HandleTopLevelTemplate
    <2>1. /\ top = Pattern /\ top' = None /\ UNCHANGED <<options, parser, outside, ended>>
          /\ elab(Specializations, TRUE, phase, user, status)
      BY <1>2 DEF HandleTopLevelTemplate, elaborate_
    <2> DEFINE S == Specializations
    <2>2. S \subseteq Instances
      BY ReachedLemma
    <2>3. Visit(S, {}, TRUE, phase, user, status)
      BY <2>1, <2>2 DEF elab
    <2>4. UNCHANGED <<phase, user>>
      BY <2>1 DEF parser
    <2> HIDE DEF S
    <2>5. Handles(S, {}, TRUE, status)
      BY <1>0, <2>2, <2>3, <2>4 DEF Handles, Class
    <2> QED BY <1>0, <2>1, <2>2, <2>5 DEF Class
  <1>3. CASE HandleTopLevelNamespace
    <2> DEFINE S == FromBlock(top)
               M == {<<Pattern, m>> : m \in {n \in Special : <<n, top>> \in outside}}
    <2>1. /\ top \in Blocks /\ top' = None /\ UNCHANGED <<options, parser, outside, ended>>
          /\ Visit(S, M, TRUE, phase, user, status)
      BY <1>3 DEF HandleTopLevelNamespace, elaborate_
    <2>2. S \subseteq Plain \cup Instances /\ Inside(top) \subseteq S
      BY ReachedLemma
    <2>3. M \subseteq {Pattern} \X Special
      <3>1. \A d \in M : \E m \in Special : d = <<Pattern, m>>
        OBVIOUS
      <3> HIDE DEF M
      <3> QED BY <3>1
    <2>4. UNCHANGED <<phase, user>>
      BY <2>1 DEF parser
    <2> HIDE DEF S, M
    <2>5. M \in SUBSET (Class \X Special)
      BY <2>3 DEF Class
    <2>6. Handles(S, M, TRUE, status)
      BY <1>0, <2>1, <2>2, <2>4, <2>5 DEF Handles, Class
    <2> QED BY <1>0, <2>1, <2>2, <2>3, <2>6
  <1> QED BY <1>1, <1>2, <1>3

\* A visit keeps the types.
LEMMA HandlesTypes ==
  ASSUME TypeOK, NEW S, NEW M, NEW rec, NEW st, Handles(S, M, rec, st)
  PROVE  forced' \subseteq Class \X Special /\ bodies' \subseteq Class \X Special
PROOF
  <1>0. forced \subseteq Class \X Special /\ bodies \subseteq Class \X Special
    BY DEF TypeOK
  <1>1. CASE Visit(S, M, rec, phase', user', st)
    <2>1. /\ forced' \subseteq forced \cup (Class \X Special)
          /\ bodies' \subseteq bodies \cup (Class \X Special)
      BY <1>1, VisitEffect DEF Handles
    <2> QED BY <1>0, <2>1
  <1>2. CASE NoVisit(st)
    BY <1>0, <1>2 DEF NoVisit
  <1> QED BY <1>1, <1>2 DEF Handles

LEMMA InitTypes == Init => TypeOK
PROOF
  <1> SUFFICES ASSUME Init PROVE TypeOK
    OBVIOUS
  <1>1. naked \in BOOLEAN /\ templates \in BOOLEAN
    BY ElaborateAssumption DEF Init
  <1>2. Types
    BY InitInv DEF Inv
  <1>3. /\ context = <<>> /\ blocks = {} /\ befriends = {} /\ outside = {} /\ top = None
        /\ forced = {} /\ bodies = {} /\ ended = FALSE /\ home = [c \in Class |-> None]
    BY DEF Init
  <1>4. ended \in BOOLEAN
    BY DEF Init
  <1>6. context \in Seq(Class \cup Blocks)
    BY <1>3
  <1>5. home \in [Class -> Class \cup Blocks \cup {None}]
    BY <1>3
  <1> QED BY <1>1, <1>2, <1>3, <1>4, <1>5, <1>6 DEF Types, TypeOK

\* The rest of the types, which Inv leaves out.
LEMMA StepTypes == Inv /\ TypeOK /\ [Next]_vars => TypeOK'
PROOF
  <1> SUFFICES ASSUME Inv, TypeOK, [Next]_vars PROVE TypeOK'
    OBVIOUS
  <1> USE ElaborateAssumption
  <1>0. Types'
    BY StepInv DEF Inv
  <1> DEFINE Typing ==
               /\ naked \in BOOLEAN /\ templates \in BOOLEAN /\ ended \in BOOLEAN
               /\ context \in Seq(Class \cup Blocks) /\ blocks \subseteq Blocks
               /\ home \in [Class -> Class \cup Blocks \cup {None}]
               /\ befriends \subseteq Plain
               /\ outside \subseteq Special \X (Blocks \cup {None})
               /\ top \in Class \cup Blocks \cup {None}
               /\ top # None => context = <<>>
               /\ forced \subseteq Class \X Special /\ bodies \subseteq Class \X Special
  <1>1. TypeOK <=> Types /\ Typing
    BY DEF TypeOK, Types
  <1>2. Typing' => TypeOK'
    BY <1>0 DEF TypeOK, Types
  <1>3. SUFFICES Typing'
    BY <1>2
  <1>4. Typing
    BY <1>1
  <1>5. context # <<>> => Here \in Class \cup Blocks
    BY <1>4 DEF Here
  <1>6. CASE OpenNamespace
    BY <1>4, <1>6 DEF OpenNamespace, options, Parsing
  <1>7. CASE CloseNamespace
    BY <1>4, <1>7 DEF CloseNamespace, options, Parsing
  <1>8. ASSUME NEW c \in Plain \cup {Pattern}, OpenClass(c) PROVE Typing'
    <2>1. c \in Class /\ Here \in Class \cup Blocks \cup {None}
      BY <1>5 DEF Class, Here
    <2>2. context' \in Seq(Class \cup Blocks) /\ home' \in [Class -> Class \cup Blocks \cup {None}]
      BY <1>4, <1>8, <2>1 DEF OpenClass
    <2>3. befriends' \subseteq Plain
      BY <1>4, <1>8 DEF OpenClass
    <2> QED BY <1>4, <1>8, <2>2, <2>3 DEF OpenClass, options, Parsing
  <1>9. CASE HandleTagDeclDefinition
    <2>1. forced' \subseteq Class \X Special /\ bodies' \subseteq Class \X Special
      BY <1>9, TagStep, HandlesTypes
    <2>2. /\ top = None /\ Here \in Class
          /\ context' = SubSeq(context, 1, Len(context) - 1)
          /\ top' = IF Len(context) = 1 THEN Here ELSE None
          /\ UNCHANGED <<options, blocks, home, befriends, outside, ended>>
      BY <1>9 DEF HandleTagDeclDefinition, Parsing
    <2>3. context # <<>> /\ Len(context) \in Nat \ {0}
      BY <1>4, <2>2 DEF Here
    <2>4. context' \in Seq(Class \cup Blocks) /\ (Len(context) = 1 => context' = <<>>)
      BY <1>4, <2>2, <2>3
    <2> QED BY <1>4, <2>1, <2>2, <2>4 DEF options
  <1>10. CASE HandleTopLevelClass \/ HandleTopLevelTemplate \/ HandleTopLevelNamespace
    <2>1. forced' \subseteq Class \X Special /\ bodies' \subseteq Class \X Special
      BY <1>10, TopStep, HandlesTypes
    <2>2. top' = None /\ UNCHANGED <<options, parser, outside, ended>>
      BY <1>10, TopStep
    <2> QED BY <1>4, <2>1, <2>2 DEF options, parser
  <1>11. ASSUME NEW i \in Instances, AddedCXXTemplateSpecialization(i) PROVE Typing'
    <2>1. Handles({i}, {}, TRUE, status)
      BY <1>11 DEF AddedCXXTemplateSpecialization, elab, Handles, TypeOK, Class
    <2>2. forced' \subseteq Class \X Special /\ bodies' \subseteq Class \X Special
      BY <2>1, HandlesTypes
    <2> QED BY <1>4, <1>11, <2>2 DEF AddedCXXTemplateSpecialization, options
  <1>12. ASSUME NEW i \in Instances, InstantiateClass(i) PROVE Typing'
    <2> DEFINE st == [status EXCEPT ![i] = AsDeclared(user[Pattern])]
    <2>1. user[Pattern] \in [Special -> UserForms] /\ i \in Class
      BY DEF TypeOK, Class
    <2>2. AsDeclared(user[Pattern]) \in [Special -> Statuses]
      BY <2>1, AsDeclaredLemma
    <2>3. st \in [Class -> [Special -> Statuses]]
      BY <2>1, <2>2 DEF TypeOK
    <2>4. Visit({i}, {}, FALSE, phase', user', st)
      BY <1>12 DEF InstantiateClass, elab, elaborate_
    <2> HIDE DEF st
    <2>5. Handles({i}, {}, FALSE, st)
      BY <2>1, <2>3, <2>4 DEF Handles
    <2>6. forced' \subseteq Class \X Special /\ bodies' \subseteq Class \X Special
      BY <2>5, HandlesTypes
    <2> QED BY <1>4, <1>12, <2>6 DEF InstantiateClass, options
  <1>13. ASSUME NEW c \in Plain \cup {Pattern}, NEW m \in Special, DefaultOutOfLine(c, m) PROVE Typing'
    <2>1. outside' \subseteq Special \X (Blocks \cup {None})
      BY <1>4, <1>13 DEF DefaultOutOfLine
    <2> QED BY <1>4, <1>13, <2>1 DEF DefaultOutOfLine, options, parser
  <1>14. ASSUME NEW c \in Class, NEW m \in Special, SemaDeclares(c, m) \/ SemaDefines(c, m) PROVE Typing'
    BY <1>4, <1>14 DEF SemaDeclares, SemaDefines, options, parser
  <1>15. CASE HandleTranslationUnit
    BY <1>4, <1>15 DEF HandleTranslationUnit, options, parser
  <1>16. CASE UNCHANGED vars
    BY <1>4, <1>16 DEF vars
  <1> QED
    BY <1>6, <1>7, <1>8, <1>9, <1>10, <1>11, <1>12, <1>13, <1>14, <1>15, <1>16 DEF Next

\* Type correctness.  HandleTopLevelDecl comes with no class or namespace open.
THEOREM ElaborateTypes == Spec => []TypeOK
PROOF
  BY InitInv, StepInv, InitTypes, StepTypes, PTL DEF Spec

(***************************************************************************)
(* Every class outside templates is elaborated.                            *)
(***************************************************************************)
\* Once it is complete, a class that is not dependent has all the members that
\* the handlers declare.
DeclInv ==
  \A c \in Class \ {Pattern}, m \in Special :
    phase[c] = "complete" /\ ~LeftOut(c, m) /\ (m \in MoveMembers => Cxx11) =>
      ~NeedsImplicit(UserDeclared(user, c), status, c, m)

\* The top-level declaration that is being parsed, or that has been.
Root == IF context = <<>> THEN top ELSE context[1]

\* What is open is inside the top-level declaration; a class template has no
\* classes in it.
NestInv ==
  /\ \A c \in Class : phase[c] = "none" => home[c] = None
  /\ \A d \in Plain : home[d] # Pattern
  /\ \A i \in DOMAIN context : i = 1 \/ context[i] \in Inside(context[1]) \cup {Pattern}
  /\ ended => context = <<>> /\ top = None

\* Bodies are missing only inside a top-level declaration that is still to be
\* handled.
DueInv ==
  \A c \in Plain, m \in Special :
    status[c][m] = "defaulted" /\ ~LeftOut(c, m) => Root # None /\ c \in Inside(Root)

ElabInv == Inv /\ TypeOK /\ DeclInv /\ NestInv /\ DueInv

LEMMA InitElab == Init => ElabInv
PROOF
  <1> SUFFICES ASSUME Init PROVE ElabInv
    OBVIOUS
  <1>1. DeclInv
    BY DEF Init, DeclInv
  <1>2. NestInv
    BY ElaborateAssumption DEF Init, NestInv, Class
  <1>3. DueInv
    BY DEF Init, DueInv, Class
  <1> QED BY <1>1, <1>2, <1>3, InitInv, InitTypes DEF ElabInv

\* A step that leaves the members of c alone, or takes away from them only what
\* is undeclared, keeps what is declared.
LEMMA DeclKept ==
  ASSUME DeclInv, NEW c \in Class \ {Pattern}, NEW m \in Special,
         phase[c] = "complete", user'[c] = user[c],
         status'[c][m] = "undeclared" => status[c][m] = "undeclared",
         ~LeftOut(c, m)', m \in MoveMembers => Cxx11
  PROVE  ~NeedsImplicit(UserDeclared(user, c), status, c, m)'
PROOF
  <1>1. UserDeclared(user', c) = UserDeclared(user, c)
    BY DEF UserDeclared
  <1>2. ~LeftOut(c, m)
    BY <1>1 DEF LeftOut
  <1>3. ~NeedsImplicit(UserDeclared(user, c), status, c, m)
    BY <1>2 DEF DeclInv
  <1> QED BY <1>1, <1>3 DEF NeedsImplicit

\* A class that a handler visits when it is complete has what the handler
\* declares.
LEMMA DeclMade ==
  ASSUME NEW S, NEW M, NEW rec, NEW st, Handles(S, M, rec, st),
         Visit(S, M, rec, phase', user', st),
         NEW c \in Class \cap S, NEW m \in Special, phase'[c] = "complete",
         ~LeftOut(c, m)', m \in MoveMembers => Cxx11
  PROVE  ~NeedsImplicit(UserDeclared(user, c), status, c, m)'
PROOF
  <1>1. /\ status'[c][m] = "undeclared" => st[c][m] = "undeclared"
        /\ m \in GenerateUndeprecatedImplicitMembers(UserDeclared(user', c), st, c)
             => status'[c][m] # "undeclared"
    <2>1. Result(S, M, rec, phase', user', st)
      BY VisitEffect DEF Handles
    <2> QED BY <2>1 DEF Result
  <1>2. SUFFICES ASSUME NeedsImplicit(UserDeclared(user', c), status', c, m) PROVE FALSE
    OBVIOUS
  <1>3. NeedsImplicit(UserDeclared(user', c), st, c, m)
    BY <1>1, <1>2 DEF NeedsImplicit
  <1>4. /\ m = "CopyConstructor" => "CopyAssignment" \notin UserDeclared(user', c)
        /\ m = "CopyAssignment" => "CopyConstructor" \notin UserDeclared(user', c)
    BY DEF LeftOut
  <1>5. m \in GenerateUndeprecatedImplicitMembers(UserDeclared(user', c), st, c)
    BY <1>3, <1>4 DEF GenerateUndeprecatedImplicitMembers
  <1> QED BY <1>1, <1>2, <1>5 DEF NeedsImplicit

\* A class is in itself; what is in a class or block depends on where the
\* classes are declared; and it grows when a class is opened.
LEMMA InsideSelf == \A x \in Plain : x \in Inside(x)
PROOF
  BY DEF Inside

LEMMA InsideSame ==
  ASSUME \A e \in Plain : home'[e] = home[e], NEW x
  PROVE  Inside(x)' = Inside(x)
PROOF
  BY DEF Inside

LEMMA InsideGrows ==
  ASSUME NEW c \in Plain, NEW h, NEW x, home[c] \notin Plain \cup {x},
         home'[c] = h, \A e \in Plain \ {c} : home'[e] = home[e]
  PROVE  /\ Inside(x) \subseteq Inside(x)'
         /\ h \in Inside(x) \cup {x} => c \in Inside(x)'
PROOF
  <1> DEFINE Closed(hm, S) == x \in S /\ \A e \in Plain : hm[e] \in S => e \in S
  <1>1. \A S \in SUBSET (Plain \cup {x}) : Closed(home', S) => Closed(home, S) /\ (h \in S => c \in S)
    OBVIOUS
  <1>2. /\ Inside(x) = {d \in Plain : \A S \in SUBSET (Plain \cup {x}) : Closed(home, S) => d \in S}
        /\ Inside(x)' = {d \in Plain : \A S \in SUBSET (Plain \cup {x}) : Closed(home', S) => d \in S}
    BY DEF Inside
  <1>3. \A S : Closed(home, S) => x \in S
    OBVIOUS
  <1> HIDE DEF Closed
  <1>4. Inside(x) \subseteq Inside(x)'
    BY <1>1, <1>2
  <1>5. ASSUME h \in Inside(x) \cup {x} PROVE c \in Inside(x)'
    <2>1. \A S \in SUBSET (Plain \cup {x}) : Closed(home', S) => h \in S
      BY <1>1, <1>2, <1>3, <1>5
    <2> QED BY <1>1, <1>2, <2>1
  <1> QED BY <1>4, <1>5

\* Opening a class.
LEMMA OpenElab ==
  ASSUME ElabInv, NEW c \in Plain \cup {Pattern}, OpenClass(c)
  PROVE  DeclInv' /\ NestInv' /\ DueInv'
PROOF
  <1> USE ElaborateAssumption
  <1>0. /\ TypeOK /\ BlankInv /\ DeclInv /\ NestInv /\ DueInv
    BY DEF ElabInv, Inv
  <1>1. PICK u : /\ user' = [user EXCEPT ![c] = u]
                 /\ status' = [status EXCEPT ![c] = AsDeclared(u)]
    BY DEF OpenClass
  <1>2. PICK h : h = Here
    OBVIOUS
  <1>3. /\ ~ended /\ top = None /\ top' = None /\ ended' = ended /\ phase[c] = "none"
        /\ context' = Append(context, c) /\ home' = [home EXCEPT ![c] = h]
        /\ phase' = [phase EXCEPT ![c] = "incomplete"] /\ h # Pattern
    BY <1>2 DEF OpenClass, Parsing
  <1>4. /\ c \in Class /\ context \in Seq(Class \cup Blocks) /\ h \in Class \cup Blocks \cup {None}
        /\ phase \in [Class -> {"none", "incomplete", "complete"}]
        /\ home \in [Class -> Class \cup Blocks \cup {None}]
        /\ user \in [Class -> [Special -> UserForms]]
        /\ status \in [Class -> [Special -> Statuses]]
    BY <1>0, <1>2 DEF TypeOK, Class, Here
  <1>5. home[c] = None
    BY <1>0, <1>3, <1>4 DEF NestInv
  <1>6. \A d \in Class \ {c} : user'[d] = user[d] /\ status'[d] = status[d] /\ phase'[d] = phase[d]
    BY <1>1, <1>3, <1>4
  <1>7. DeclInv'
    <2>1. phase'[c] # "complete"
      BY <1>3, <1>4
    <2> SUFFICES ASSUME NEW d \in Class \ {Pattern}, NEW m \in Special, phase'[d] = "complete",
                        ~LeftOut(d, m)', m \in MoveMembers => Cxx11
                 PROVE  ~NeedsImplicit(UserDeclared(user, d), status, d, m)'
      BY DEF DeclInv
    <2> QED BY <1>0, <1>6, <2>1, DeclKept
  <1>8. \A x \in Class \cup Blocks :
          /\ Inside(x) \subseteq Inside(x)'
          /\ c \in Plain /\ h \in Inside(x) \cup {x} => c \in Inside(x)'
    <2>1. CASE c = Pattern
      <3>1. \A e \in Plain : home'[e] = home[e]
        BY <1>3, <1>4, <2>1 DEF Class
      <3> QED BY <2>1, <3>1, InsideSame, ElaborateAssumption
    <2>2. CASE c \in Plain
      <3>1. home'[c] = h /\ \A e \in Plain \ {c} : home'[e] = home[e]
        BY <1>3, <1>4 DEF Class
      <3>2. ASSUME NEW x \in Class \cup Blocks PROVE home[c] \notin Plain \cup {x}
        BY <1>5 DEF Class
      <3> QED BY <2>2, <3>1, <3>2, InsideGrows
    <2> QED BY <2>1, <2>2
  <1>9. PICK r : r = Root'
    OBVIOUS
  <1>10. /\ r \in Class \cup Blocks /\ r = context'[1]
         /\ context # <<>> => r = context[1] /\ r = Root
         /\ context = <<>> => r = c /\ Root = None /\ context' = <<c>>
    <2>1. /\ context' # <<>> /\ context'[1] \in Class \cup Blocks
          /\ context # <<>> => context'[1] = context[1]
          /\ context = <<>> => context'[1] = c /\ context' = <<c>>
      <3>1. CASE context = <<>>
        <4>1. context' = <<c>>
          BY <1>3, <3>1
        <4> QED BY <1>4, <3>1, <4>1
      <3>2. CASE context # <<>>
        <4>1. /\ 1 \in DOMAIN context /\ context[1] \in Class \cup Blocks
              /\ context' # <<>> /\ context'[1] = context[1]
          BY <1>3, <1>4, <3>2
        <4> QED BY <3>2, <4>1
      <3> QED BY <3>1, <3>2
    <2>2. r = context'[1]
      BY <1>9, <2>1 DEF Root
    <2> QED BY <1>3, <2>1, <2>2 DEF Root
  <1>11. context # <<>> => h \in Inside(r) \cup {r}
    <2> SUFFICES ASSUME context # <<>> PROVE h \in Inside(r) \cup {r}
      OBVIOUS
    <2>1. Len(context) \in DOMAIN context /\ h = context[Len(context)]
      BY <1>2, <1>4 DEF Here
    <2> QED BY <1>0, <1>3, <1>10, <2>1 DEF NestInv
  <1>12. c \in Plain => c \in Inside(r)'
    <2>1. CASE context # <<>>
      BY <1>8, <1>10, <1>11, <2>1
    <2>2. CASE context = <<>>
      <3>1. c \in Plain => c \in Inside(c) /\ Inside(c) \subseteq Inside(c)'
        BY <1>4, <1>8, InsideSelf
      <3> QED BY <1>10, <2>2, <3>1
    <2> QED BY <2>1, <2>2
  <1>13. NestInv'
    <2>1. \A d \in Class : phase'[d] = "none" => home'[d] = None
      BY <1>0, <1>3, <1>4 DEF NestInv
    <2>2. \A d \in Plain : home'[d] # Pattern
      BY <1>0, <1>3, <1>4 DEF NestInv, Class
    <2>3. ASSUME NEW i \in DOMAIN context', i # 1 PROVE context'[i] \in Inside(r)' \cup {Pattern}
      <3>1. context # <<>>
        BY <1>10, <2>3
      <3>2. CASE i \in DOMAIN context
        <4>1. context'[i] = context[i] /\ context[i] \in Inside(r) \cup {Pattern}
          BY <1>0, <1>3, <1>4, <1>10, <2>3, <3>1, <3>2 DEF NestInv
        <4> QED BY <1>8, <1>10, <4>1
      <3>3. CASE i \notin DOMAIN context
        <4>1. context'[i] = c
          BY <1>3, <1>4, <3>3
        <4> QED BY <1>12, <4>1
      <3> QED BY <3>2, <3>3
    <2> QED BY <1>3, <1>10, <2>1, <2>2, <2>3 DEF NestInv
  <1>14. DueInv'
    <2> SUFFICES ASSUME NEW d \in Plain, NEW m \in Special, status'[d][m] = "defaulted", ~LeftOut(d, m)'
                 PROVE  r # None /\ d \in Inside(r)'
      BY <1>9 DEF DueInv
    <2>1. r # None
      BY <1>10
    <2>2. CASE d = c
      BY <1>12, <2>1, <2>2
    <2>3. CASE d # c
      <3>1. status[d][m] = "defaulted" /\ ~LeftOut(d, m)
        BY <1>6, <2>3 DEF LeftOut, UserDeclared, Class
      <3>2. Root # None /\ d \in Inside(Root)
        BY <1>0, <3>1 DEF DueInv
      <3> QED BY <1>8, <1>10, <2>1, <3>2
    <2> QED BY <2>2, <2>3
  <1> QED BY <1>7, <1>13, <1>14

\* The end of a class: its members are declared, and their bodies are due.
LEMMA TagElab ==
  ASSUME ElabInv, HandleTagDeclDefinition
  PROVE  DeclInv' /\ NestInv' /\ DueInv'
PROOF
  <1> USE ElaborateAssumption
  <1>0. TypeOK /\ DeclInv /\ NestInv /\ DueInv
    BY DEF ElabInv
  <1>1. PICK h : h = Here
    OBVIOUS
  <1>2. /\ ~ended /\ top = None /\ h \in Class
        /\ context' = SubSeq(context, 1, Len(context) - 1)
        /\ top' = IF Len(context) = 1 THEN h ELSE None
        /\ phase' = [phase EXCEPT ![h] = "complete"]
        /\ UNCHANGED <<home, user, ended>>
        /\ Handles({h}, {}, FALSE, status)
        /\ h # Pattern => Visit({h}, {}, FALSE, phase', user', status)
    BY <1>0, <1>1, TagStep DEF HandleTagDeclDefinition, Parsing, Handles, elaborate_, elab
  <1>3. /\ context \in Seq(Class \cup Blocks) /\ phase \in [Class -> {"none", "incomplete", "complete"}]
        /\ status \in [Class -> [Special -> Statuses]]
    BY <1>0 DEF TypeOK
  <1>4. /\ context # <<>> /\ Len(context) \in Nat \ {0} /\ DOMAIN context = 1 .. Len(context)
        /\ h = context[Len(context)]
    BY <1>1, <1>2, <1>3 DEF Here, Class
  <1>5. ASSUME NEW c \in Class, NEW m \in Special, c # h
        PROVE  status'[c][m] = status[c][m] /\ phase'[c] = phase[c]
    <2>1. CASE Visit({h}, {}, FALSE, phase', user', status)
      <3>1. Result({h}, {}, FALSE, phase', user', status)
        BY <1>2, <2>1, VisitEffect DEF Handles
      <3> QED BY <1>2, <1>3, <1>5, <3>1 DEF Result
    <2>2. CASE NoVisit(status)
      BY <1>2, <1>3, <1>5, <2>2 DEF NoVisit
    <2> QED BY <1>2, <2>1, <2>2 DEF Handles
  <1>6. DeclInv'
    <2> SUFFICES ASSUME NEW c \in Class \ {Pattern}, NEW m \in Special, phase'[c] = "complete",
                        ~LeftOut(c, m)', m \in MoveMembers => Cxx11
                 PROVE  ~NeedsImplicit(UserDeclared(user, c), status, c, m)'
      BY DEF DeclInv
    <2>1. CASE c = h
      <3>1. Visit({h}, {}, FALSE, phase', user', status)
        BY <1>2, <2>1
      <3> QED BY <1>2, <2>1, <3>1, DeclMade
    <2>2. CASE c # h
      <3>1. status'[c][m] = status[c][m] /\ phase[c] = "complete" /\ user'[c] = user[c]
        BY <1>2, <1>5, <2>2
      <3> QED BY <1>0, <3>1, DeclKept
    <2> QED BY <2>1, <2>2
  <1>7. \A x : Inside(x)' = Inside(x)
    BY <1>2, InsideSame
  <1>8. PICK r : r = Root
    OBVIOUS
  <1>9. r = context[1] /\ r # None
    BY <1>3, <1>4, <1>8 DEF Root
  <1>10. CASE Len(context) = 1
    <2>1. context' = <<>> /\ top' = r /\ h = r
      BY <1>2, <1>3, <1>4, <1>9, <1>10
    <2>2. NestInv'
      BY <1>0, <1>2, <1>3, <2>1 DEF NestInv
    <2>3. Root' = r
      BY <2>1 DEF Root
    <2>4. h \in Plain => h \in Inside(r)
      BY <2>1, InsideSelf
    <2>5. ASSUME NEW c \in Plain, NEW m \in Special, status'[c][m] = "defaulted", ~LeftOut(c, m)'
          PROVE  c \in Inside(r)
      <3>1. CASE c = h
        BY <2>4, <3>1
      <3>2. CASE c # h
        <4>1. status[c][m] = "defaulted" /\ ~LeftOut(c, m)
          BY <1>2, <1>5, <2>5, <3>2 DEF LeftOut, Class
        <4> QED BY <1>0, <1>8, <4>1 DEF DueInv
      <3> QED BY <3>1, <3>2
    <2>6. DueInv'
      BY <1>7, <1>9, <2>3, <2>5 DEF DueInv
    <2> QED BY <1>6, <2>2, <2>6
  <1>11. CASE Len(context) # 1
    <2>1. /\ context' # <<>> /\ top' = None /\ context'[1] = r
          /\ DOMAIN context' \subseteq DOMAIN context
          /\ \A i \in DOMAIN context' : context'[i] = context[i]
      <3>1. Len(context) - 1 \in 1 .. Len(context)
        BY <1>4, <1>11
      <3>2. /\ DOMAIN context' = 1 .. Len(context) - 1
            /\ \A i \in 1 .. Len(context) - 1 : context'[i] = context[i]
        BY <1>2, <1>3, <3>1
      <3>3. 1 \in DOMAIN context' /\ context'[1] = context[1]
        BY <3>1, <3>2
      <3>4. context' # <<>>
        BY <3>3
      <3>5. 1 .. Len(context) - 1 \subseteq 1 .. Len(context)
        BY <1>4
      <3>6. top' = None
        BY <1>2, <1>11
      <3> QED BY <1>4, <1>9, <3>2, <3>3, <3>4, <3>5, <3>6
    <2>2. NestInv'
      <3>1. \A i \in DOMAIN context' : i = 1 \/ context'[i] \in Inside(r) \cup {Pattern}
        BY <1>0, <1>9, <2>1 DEF NestInv
      <3>2. \A i \in DOMAIN context' : i = 1 \/ context'[i] \in Inside(r)' \cup {Pattern}
        BY <1>7, <3>1
      <3> QED BY <1>0, <1>2, <1>3, <2>1, <3>2 DEF NestInv
    <2>3. Root' = r
      BY <2>1 DEF Root
    <2>4. h \in Plain => h \in Inside(r)
      BY <1>0, <1>4, <1>9, <1>11 DEF NestInv
    <2>5. ASSUME NEW c \in Plain, NEW m \in Special, status'[c][m] = "defaulted", ~LeftOut(c, m)'
          PROVE  c \in Inside(r)
      <3>1. CASE c = h
        BY <2>4, <3>1
      <3>2. CASE c # h
        <4>1. status[c][m] = "defaulted" /\ ~LeftOut(c, m)
          BY <1>2, <1>5, <2>5, <3>2 DEF LeftOut, Class
        <4> QED BY <1>0, <1>8, <4>1 DEF DueInv
      <3> QED BY <3>1, <3>2
    <2>6. DueInv'
      BY <1>7, <1>9, <2>3, <2>5 DEF DueInv
    <2> QED BY <1>6, <2>2, <2>6
  <1> QED BY <1>10, <1>11

\* The visit of a top-level declaration: no body is due afterwards.
LEMMA TopElab ==
  ASSUME ElabInv, HandleTopLevelClass \/ HandleTopLevelTemplate \/ HandleTopLevelNamespace
  PROVE  DeclInv' /\ NestInv' /\ DueInv'
PROOF
  <1> USE ElaborateAssumption
  <1>0. TypeOK /\ DeclInv /\ NestInv /\ DueInv
    BY DEF ElabInv
  <1>1. PICK S, M : /\ Handles(S, M, TRUE, status) /\ S \subseteq Plain \cup Instances
                    /\ M \subseteq {Pattern} \X Special
                    /\ top # Pattern => Inside(top) \subseteq S
    BY <1>0, TopStep
  <1>2. /\ top # None /\ top' = None /\ context = <<>> /\ context' = <<>>
        /\ UNCHANGED <<home, phase, user, ended>>
    BY <1>0, TopStep DEF parser
  <1>3. Result(S, M, TRUE, phase, user, status)
    <2>1. Visit(S, M, TRUE, phase', user', status)
      BY <1>1 DEF Handles
    <2>2. Result(S, M, TRUE, phase', user', status)
      BY <1>1, <2>1, VisitEffect DEF Handles
    <2> QED BY <1>2, <2>2
  <1>4. DeclInv'
    <2> SUFFICES ASSUME NEW c \in Class \ {Pattern}, NEW m \in Special, phase'[c] = "complete",
                        ~LeftOut(c, m)', m \in MoveMembers => Cxx11
                 PROVE  ~NeedsImplicit(UserDeclared(user, c), status, c, m)'
      BY DEF DeclInv
    <2>1. status'[c][m] = "undeclared" => status[c][m] = "undeclared"
      BY <1>3 DEF Result
    <2> QED BY <1>0, <1>2, <2>1, DeclKept
  <1>5. NestInv'
    BY <1>0, <1>2 DEF NestInv
  <1>6. ASSUME NEW c \in Plain, NEW m \in Special, status'[c][m] = "defaulted", ~LeftOut(c, m)'
        PROVE  FALSE
    <2>1. c \in Class /\ c # Pattern /\ <<c, m>> \notin M
      BY <1>1 DEF Class
    <2>2. c \notin S /\ status[c][m] = "defaulted"
      BY <1>3, <1>6, <2>1 DEF Result
    <2>3. c \in Inside(top)
      BY <1>0, <1>2, <1>6, <2>2 DEF DueInv, Root, LeftOut
    <2>4. top = Pattern
      BY <1>1, <2>2, <2>3
    <2>5. Inside(Pattern) = {}
      <3>1. {Pattern} \in SUBSET (Plain \cup {Pattern})
        OBVIOUS
      <3>2. \A e \in Plain : home[e] \in {Pattern} => e \in {Pattern}
        BY <1>0 DEF NestInv
      <3> QED BY <3>1, <3>2 DEF Inside
    <2> QED BY <2>3, <2>4, <2>5
  <1>7. DueInv'
    BY <1>6 DEF DueInv
  <1> QED BY <1>4, <1>5, <1>7

\* A step that changes the members of one class that is not dependent, and has
\* no more bodies due afterwards.
LEMMA OtherElab ==
  ASSUME ElabInv, UNCHANGED <<home, context, top, ended>>, NEW i \in Class,
         \A c \in Class \ {i} :
           status'[c] = status[c] /\ user'[c] = user[c] /\ phase'[c] = phase[c],
         phase'[i] # "none",
         i # Pattern => \A m \in Special :
           ~LeftOut(i, m)' =>
             /\ i \in Plain /\ status'[i][m] = "defaulted" =>
                  status[i][m] = "defaulted" /\ user'[i] = user[i]
             /\ phase'[i] = "complete" /\ (m \in MoveMembers => Cxx11)
                  => ~NeedsImplicit(UserDeclared(user, i), status, i, m)'
  PROVE  DeclInv' /\ NestInv' /\ DueInv'
PROOF
  <1> USE ElaborateAssumption
  <1>0. TypeOK /\ DeclInv /\ NestInv /\ DueInv
    BY DEF ElabInv
  <1>1. \A x : Inside(x)' = Inside(x)
    BY InsideSame
  <1>2. DeclInv'
    <2> SUFFICES ASSUME NEW c \in Class \ {Pattern}, NEW m \in Special, phase'[c] = "complete",
                        ~LeftOut(c, m)', m \in MoveMembers => Cxx11
                 PROVE  ~NeedsImplicit(UserDeclared(user, c), status, c, m)'
      BY DEF DeclInv
    <2>1. CASE c = i
      BY <2>1
    <2>2. CASE c # i
      <3>1. status'[c][m] = status[c][m] /\ phase[c] = "complete" /\ user'[c] = user[c]
        BY <2>2
      <3> QED BY <1>0, <3>1, DeclKept
    <2> QED BY <2>1, <2>2
  <1>3. NestInv'
    <2>1. PICK r : r = context[1]
      OBVIOUS
    <2>2. \A j \in DOMAIN context : j = 1 \/ context[j] \in Inside(r)' \cup {Pattern}
      BY <1>0, <1>1, <2>1 DEF NestInv
    <2>3. \A c \in Class : phase'[c] = "none" => home'[c] = None
      BY <1>0 DEF NestInv
    <2> QED BY <1>0, <2>1, <2>2, <2>3 DEF NestInv
  <1>4. DueInv'
    <2>1. Root' = Root
      BY DEF Root
    <2> SUFFICES ASSUME NEW c \in Plain, NEW m \in Special, status'[c][m] = "defaulted", ~LeftOut(c, m)'
                 PROVE  Root # None /\ c \in Inside(Root)
      BY <1>1, <2>1 DEF DueInv
    <2>2. status[c][m] = "defaulted" /\ user'[c] = user[c]
      BY DEF Class
    <2>3. ~LeftOut(c, m)
      BY <2>2 DEF LeftOut, UserDeclared
    <2> QED BY <1>0, <2>2, <2>3 DEF DueInv
  <1> QED BY <1>2, <1>3, <1>4

LEMMA StepElab == ElabInv /\ [Next]_vars => ElabInv'
PROOF
  <1> SUFFICES ASSUME ElabInv, [Next]_vars PROVE DeclInv' /\ NestInv' /\ DueInv'
    BY StepInv, StepTypes DEF ElabInv
  <1> USE ElaborateAssumption
  <1>0. TypeOK /\ BlankInv /\ DeclInv /\ NestInv /\ DueInv
    BY DEF ElabInv, Inv
  <1>1. /\ context \in Seq(Class \cup Blocks) /\ status \in [Class -> [Special -> Statuses]]
        /\ phase \in [Class -> {"none", "incomplete", "complete"}]
        /\ user \in [Class -> [Special -> UserForms]]
    BY <1>0 DEF TypeOK
  <1>2. ASSUME UNCHANGED <<home, phase, user, status>>
        PROVE  DeclInv' /\ \A x : Inside(x)' = Inside(x)
    <2>1. DeclInv'
      BY <1>0, <1>2 DEF DeclInv, LeftOut
    <2> QED BY <1>2, <2>1, InsideSame
  <1>3. ASSUME UNCHANGED <<home, phase, user, status>>, Root' = Root \/ Root = None
        PROVE  DueInv'
    <2>1. ASSUME NEW c \in Plain, NEW m \in Special, status'[c][m] = "defaulted", ~LeftOut(c, m)'
          PROVE  Root # None /\ Root' = Root /\ c \in Inside(Root)
      BY <1>0, <1>3, <2>1 DEF DueInv, LeftOut
    <2> QED BY <1>2, <1>3, <2>1 DEF DueInv
  <1>4. CASE OpenNamespace
    <2>1. PICK b \in Blocks : context' = <<b>>
      BY <1>4 DEF OpenNamespace
    <2>2. /\ UNCHANGED <<home, phase, user, status>> /\ context = <<>> /\ top = None
          /\ ~ended /\ ended' = ended
      BY <1>4 DEF OpenNamespace, Parsing
    <2>3. \A i \in DOMAIN context' : i = 1
      BY <2>1
    <2>4. NestInv'
      BY <1>0, <2>2, <2>3 DEF NestInv
    <2>5. Root = None
      BY <2>2 DEF Root
    <2> QED BY <1>2, <1>3, <2>2, <2>4, <2>5
  <1>5. CASE CloseNamespace
    <2>1. /\ UNCHANGED <<home, phase, user, status>> /\ Len(context) = 1 /\ context' = <<>>
          /\ top' = Here /\ ~ended /\ ended' = ended
      BY <1>5 DEF CloseNamespace, Parsing
    <2>2. Root' = Root
      BY <1>1, <2>1 DEF Root, Here
    <2>3. NestInv'
      BY <1>0, <2>1 DEF NestInv
    <2> QED BY <1>2, <1>3, <2>1, <2>2, <2>3
  <1>6. ASSUME NEW c \in Plain \cup {Pattern}, OpenClass(c) PROVE DeclInv' /\ NestInv' /\ DueInv'
    BY <1>6, OpenElab
  <1>7. CASE HandleTagDeclDefinition
    BY <1>7, TagElab
  <1>8. CASE HandleTopLevelClass \/ HandleTopLevelTemplate \/ HandleTopLevelNamespace
    BY <1>8, TopElab
  <1>9. ASSUME NEW i \in Instances, AddedCXXTemplateSpecialization(i)
        PROVE  DeclInv' /\ NestInv' /\ DueInv'
    <2>1. /\ i \in Class /\ i \notin Plain /\ UNCHANGED <<home, context, top, ended, user>>
          /\ phase' = [phase EXCEPT ![i] = "incomplete"]
          /\ Visit({i}, {}, TRUE, phase', user', status)
      BY <1>9 DEF AddedCXXTemplateSpecialization, elab, Class
    <2>2. Result({i}, {}, TRUE, phase', user', status)
      BY <1>1, <2>1, VisitEffect
    <2>3. \A c \in Class \ {i} : status'[c] = status[c] /\ user'[c] = user[c] /\ phase'[c] = phase[c]
      <3>1. status' \in [Class -> [Special -> Statuses]]
        BY StepTypes DEF ElabInv, TypeOK
      <3>2. \A c \in Class \ {i}, m \in Special : status'[c][m] = status[c][m]
        BY <2>2 DEF Result
      <3>3. \A c \in Class \ {i} : status'[c] = status[c]
        BY <1>1, <3>1, <3>2
      <3> QED BY <1>1, <2>1, <3>3
    <2>4. phase'[i] = "incomplete"
      BY <1>1, <2>1
    <2> QED BY <2>1, <2>3, <2>4, OtherElab
  <1>10. ASSUME NEW i \in Instances, InstantiateClass(i)
         PROVE  DeclInv' /\ NestInv' /\ DueInv'
    <2> DEFINE st == [status EXCEPT ![i] = AsDeclared(user[Pattern])]
    <2>1. /\ i \in Class /\ i \notin Plain /\ UNCHANGED <<home, context, top, ended>>
          /\ phase' = [phase EXCEPT ![i] = "complete"]
          /\ user' = [user EXCEPT ![i] = user[Pattern]]
          /\ Visit({i}, {}, FALSE, phase', user', st)
      BY <1>10 DEF InstantiateClass, elab, elaborate_, Class
    <2>2. AsDeclared(user[Pattern]) \in [Special -> Statuses]
      BY <1>1, AsDeclaredLemma DEF Class
    <2>3. st \in [Class -> [Special -> Statuses]] /\ \A c \in Class \ {i} : st[c] = status[c]
      BY <1>1, <2>1, <2>2
    <2> HIDE DEF st
    <2>4. Handles({i}, {}, FALSE, st)
      BY <2>1, <2>3 DEF Handles
    <2>5. Result({i}, {}, FALSE, phase', user', st)
      BY <2>1, <2>3, VisitEffect
    <2>6. \A c \in Class \ {i} : status'[c] = status[c] /\ user'[c] = user[c] /\ phase'[c] = phase[c]
      <3>1. status' \in [Class -> [Special -> Statuses]]
        BY StepTypes DEF ElabInv, TypeOK
      <3>2. \A c \in Class \ {i}, m \in Special : status'[c][m] = status[c][m]
        BY <2>3, <2>5 DEF Result
      <3>3. \A c \in Class \ {i} : status'[c] = status[c]
        BY <1>1, <3>1, <3>2
      <3> QED BY <1>1, <2>1, <3>3
    <2>7. phase'[i] = "complete"
      BY <1>1, <2>1
    <2>8. ASSUME NEW m \in Special, ~LeftOut(i, m)', m \in MoveMembers => Cxx11
          PROVE  ~NeedsImplicit(UserDeclared(user, i), status, i, m)'
      BY <2>1, <2>4, <2>7, <2>8, DeclMade
    <2> QED BY <2>1, <2>6, <2>7, <2>8, OtherElab
  <1>11. ASSUME NEW c \in Plain \cup {Pattern}, NEW m \in Special, DefaultOutOfLine(c, m)
         PROVE  DeclInv' /\ NestInv' /\ DueInv'
    <2>1. /\ c \in Class /\ phase[c] = "complete" /\ status[c][m] = "user"
          /\ UNCHANGED <<home, context, top, ended, phase, user>>
          /\ \/ c = Pattern /\ status' = [status EXCEPT ![c][m] = "defaulted"]
             \/ status' = [status EXCEPT ![c][m] = "defined"]
      BY <1>11 DEF DefaultOutOfLine, Class, parser
    <2>2. /\ \A d \in Class \ {c} : status'[d] = status[d]
          /\ \A n \in Special : status'[c][n] = status[c][n]
                                \/ (n = m /\ c = Pattern) \/ status'[c][n] = "defined"
      BY <1>1, <2>1
    <2>3. ASSUME c # Pattern, NEW n \in Special, ~LeftOut(c, n)', n \in MoveMembers => Cxx11
          PROVE  ~NeedsImplicit(UserDeclared(user, c), status, c, n)'
      <3>1. status'[c][n] = "undeclared" => status[c][n] = "undeclared"
        BY <2>2, <2>3
      <3> QED BY <1>0, <2>1, <2>3, <3>1, DeclKept
    <2> QED BY <2>1, <2>2, <2>3, OtherElab
  <1>12. ASSUME NEW c \in Class, NEW m \in Special, SemaDeclares(c, m)
         PROVE  DeclInv' /\ NestInv' /\ DueInv'
    <2> DEFINE s == ImplicitStatus(UserDeclared(user, c), m)
    <2>1. /\ c # Pattern /\ phase[c] = "complete" /\ status' = [status EXCEPT ![c][m] = s]
          /\ NeedsImplicit(UserDeclared(user, c), status, c, m) /\ (m \in MoveMembers => Cxx11)
          /\ UNCHANGED <<home, context, top, ended, phase, user>>
      BY <1>12 DEF SemaDeclares, parser
    <2>2. s # "undeclared"
      BY DEF ImplicitStatus
    <2> HIDE DEF s
    <2>3. LeftOut(c, m)
      BY <1>0, <2>1 DEF DeclInv
    <2>4. /\ \A d \in Class \ {c} : status'[d] = status[d]
          /\ \A n \in Special \ {m} : status'[c][n] = status[c][n]
          /\ status'[c][m] = s
      BY <1>1, <2>1
    <2>5. LeftOut(c, m)'
      BY <2>1, <2>3 DEF LeftOut
    <2>6. ASSUME NEW n \in Special, ~LeftOut(c, n)', n \in MoveMembers => Cxx11
          PROVE  ~NeedsImplicit(UserDeclared(user, c), status, c, n)'
      <3>1. status'[c][n] = "undeclared" => status[c][n] = "undeclared"
        BY <2>2, <2>4
      <3> QED BY <1>0, <2>1, <2>6, <3>1, DeclKept
    <2>7. \A n \in Special : ~LeftOut(c, n)' => status'[c][n] = status[c][n]
      BY <2>4, <2>5
    <2> QED BY <2>1, <2>4, <2>6, <2>7, OtherElab
  <1>13. ASSUME NEW c \in Class, NEW m \in Special, SemaDefines(c, m)
         PROVE  DeclInv' /\ NestInv' /\ DueInv'
    <2>1. /\ c # Pattern /\ phase[c] = "complete" /\ status' = [status EXCEPT ![c][m] = "defined"]
          /\ UNCHANGED <<home, context, top, ended, phase, user>>
      BY <1>13 DEF SemaDefines, parser
    <2>2. /\ \A d \in Class \ {c} : status'[d] = status[d]
          /\ \A n \in Special : status'[c][n] = status[c][n] \/ status'[c][n] = "defined"
      BY <1>1, <2>1
    <2>3. ASSUME NEW n \in Special, ~LeftOut(c, n)', n \in MoveMembers => Cxx11
          PROVE  ~NeedsImplicit(UserDeclared(user, c), status, c, n)'
      <3>1. status'[c][n] = "undeclared" => status[c][n] = "undeclared"
        BY <2>2
      <3> QED BY <1>0, <2>1, <2>3, <3>1, DeclKept
    <2> QED BY <2>1, <2>2, <2>3, OtherElab
  <1>14. CASE HandleTranslationUnit
    <2>1. /\ UNCHANGED <<home, phase, user, status, context, top>> /\ context = <<>> /\ top = None
      BY <1>14 DEF HandleTranslationUnit, Parsing, parser
    <2>2. NestInv' /\ Root' = Root
      BY <1>0, <2>1 DEF NestInv, Root
    <2> QED BY <1>2, <1>3, <2>1, <2>2
  <1>15. CASE UNCHANGED vars
    <2>1. UNCHANGED <<home, phase, user, status, context, top, ended>>
      BY <1>15 DEF vars
    <2>2. Root' = Root
      BY <2>1 DEF Root
    <2>3. NestInv'
      <3>1. PICK r : r = context[1]
        OBVIOUS
      <3>2. \A j \in DOMAIN context : j = 1 \/ context[j] \in Inside(r)' \cup {Pattern}
        BY <1>0, <1>2, <2>1, <3>1 DEF NestInv
      <3> QED BY <1>0, <2>1, <3>1, <3>2 DEF NestInv
    <2> QED BY <1>2, <1>3, <2>1, <2>2, <2>3
  <1> QED
    BY <1>4, <1>5, <1>6, <1>7, <1>8, <1>9, <1>10, <1>11, <1>12, <1>13, <1>14, <1>15 DEF Next

\* Whatever the source declares, however its classes nest and whenever Sema
\* comes to a member on its own: when the module is built every class outside
\* templates has its implicit members, and its defaulted members have bodies.
THEOREM ClassesElaborated == Spec => []Elaborated
PROOF
  <1>1. ElabInv => Elaborated
    <2> SUFFICES ASSUME ElabInv, ended, NEW c \in Plain, NEW m \in Special,
                        phase[c] = "complete", ~LeftOut(c, m)
                 PROVE  /\ status[c][m] # "defaulted"
                        /\ ~(Cxx11 /\ NeedsImplicit(UserDeclared(user, c), status, c, m))
      BY DEF Elaborated
    <2>1. status[c][m] # "defaulted"
      BY DEF ElabInv, DueInv, NestInv, Root
    <2>2. c \in Class \ {Pattern}
      BY ElaborateAssumption DEF Class
    <2>3. ~(Cxx11 /\ NeedsImplicit(UserDeclared(user, c), status, c, m))
      BY <2>2 DEF ElabInv, DeclInv
    <2> QED BY <2>1, <2>3
  <1> QED BY <1>1, InitElab, StepElab, PTL DEF Spec

\* The same of the implicit members of instances, which are announced while
\* they are incomplete and completed at any later time.
THEOREM InstancesElaborated == Spec => []InstancesDeclared
PROOF
  <1>1. ElabInv => InstancesDeclared
    <2> SUFFICES ASSUME ElabInv, NEW i \in Instances, NEW m \in Special,
                        phase[i] = "complete", ~LeftOut(i, m)
                 PROVE  ~(Cxx11 /\ NeedsImplicit(UserDeclared(user, i), status, i, m))
      BY DEF InstancesDeclared
    <2>1. i \in Class \ {Pattern}
      BY ElaborateAssumption DEF Class
    <2> QED BY <2>1 DEF ElabInv, DeclInv
  <1> QED BY <1>1, InitElab, StepElab, PTL DEF Spec
================================================================================

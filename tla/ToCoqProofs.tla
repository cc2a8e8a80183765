----------------------------- MODULE ToCoqProofs -----------------------------
(***************************************************************************)
(* Proofs about ToCoq: toCoqModule implements Driver for one source, step  *)
(* by step, whatever the source and the command line are.                  *)
(***************************************************************************)
EXTENDS ToCoq, ModuleBuilderProofs, WellFoundedInduction

\* The files toCoqModule is through with in phase p.
Before(p) ==
  CASE p \in {"build", "output"} -> {}
    [] p = "notations" -> {"output"}
    [] p = "templates" -> {"output", "notations"}
    [] p = "end" -> File

\* The files are written one at a time, in order, each to its end.
FilesInv ==
  /\ requested \in SUBSET File /\ blocked \in SUBSET requested /\ errors \in BOOLEAN
  /\ phase \in File \cup {"build", "end"}
  /\ open \subseteq {phase} \cap (requested \ blocked)
  /\ closed = Before(phase) \cap (requested \ blocked)
  /\ exit = "success" => phase = "end"
  /\ phase = "build" => exit = "running"

LEMMA InitFiles == ToCoqInit => FilesInv
PROOF
  BY ToCoqAssumption DEF ToCoqInit, FilesInv, Before, File

LEMMA StepFiles == FilesInv /\ [ToCoqNext]_all => FilesInv'
PROOF
  <1> SUFFICES ASSUME FilesInv, [ToCoqNext]_all PROVE FilesInv'
    OBVIOUS
  <1> USE DEF FilesInv, Before, File, fixed, files
  <1>1. CASE Build
    BY <1>1 DEF Build
  <1>2. CASE Built
    BY <1>2 DEF Built
  <1>3. CASE PassOver
    BY <1>3 DEF PassOver, After
  <1>4. CASE OpenFile
    BY <1>4 DEF OpenFile
  <1>5. CASE PrintEntry
    BY <1>5 DEF PrintEntry
  <1>6. CASE PrintNothing
    BY <1>6 DEF PrintNothing
  <1>7. CASE Die
    BY <1>7 DEF Die
  <1>8. CASE CloseFile
    BY <1>8 DEF CloseFile, After
  <1>9. CASE Return
    BY <1>9 DEF Return
  <1>10. CASE UNCHANGED all
    BY <1>10 DEF all
  <1> QED
    BY <1>1, <1>2, <1>3, <1>4, <1>5, <1>6, <1>7, <1>8, <1>9, <1>10 DEF ToCoqNext

\* A run of toCoqModule that ends with success has written every file that was
\* asked for and could be opened, to the end.
THEOREM SuccessWritesAll == ToCoqSpec => []NoTruncatedSuccess
PROOF
  <1>1. FilesInv => NoTruncatedSuccess
    BY DEF FilesInv, NoTruncatedSuccess, Before, File
  <1> QED BY <1>1, InitFiles, StepFiles, PTL DEF ToCoqSpec

(***************************************************************************)
(* The refinement.                                                         *)
(***************************************************************************)
LEMMA InitRefines == ToCoqInit => D!Init
PROOF
  <1> SUFFICES ASSUME ToCoqInit PROVE D!Init
    OBVIOUS
  <1>1. requested \in SUBSET File /\ blocked \in SUBSET requested
    BY ToCoqAssumption DEF ToCoqInit
  <1>2. phase = "build" /\ open = {} /\ closed = {} /\ exit = "running"
    BY DEF ToCoqInit
  <1> QED BY <1>1, <1>2 DEF D!Init, D!File, File

LEMMA StepRefines == FilesInv /\ [ToCoqNext]_all => [D!Next]_(D!vars)
PROOF
  <1> SUFFICES ASSUME FilesInv, [ToCoqNext]_all PROVE [D!Next]_(D!vars)
    OBVIOUS
  <1>0. /\ requested \in SUBSET File /\ blocked \in SUBSET requested /\ errors \in BOOLEAN
        /\ phase \in File \cup {"build", "end"}
        /\ open \subseteq {phase} /\ open \subseteq File
        /\ phase = "build" => exit = "running"
    BY DEF FilesInv
  <1>1. CASE Build \/ PrintEntry \/ PrintNothing \/ UNCHANGED all
    <2>1. UNCHANGED <<requested, blocked, errors, phase, open, closed, exit>>
      BY <1>1 DEF Build, PrintEntry, PrintNothing, all, fixed, files
    <2> QED BY <2>1 DEF D!vars
  <1>2. CASE Built
    <2>1. /\ phase = "build" /\ phase' = "output" /\ exit = "running"
          /\ UNCHANGED <<requested, blocked, errors, open, closed, exit>>
      BY <1>0, <1>2 DEF Built, fixed, files
    <2>2. D!Parse
      BY <1>0, <2>1 DEF D!Parse, D!paths
    <2> QED BY <2>2 DEF D!Next
  <1>3. CASE PassOver
    <2>1. /\ exit = "running" /\ phase \in File /\ open = {}
          /\ phase \notin requested \/ phase \in blocked
          /\ phase' = After(phase) /\ phase # "build" /\ phase' # "build"
          /\ UNCHANGED <<requested, blocked, errors, open, closed, exit>>
      BY <1>0, <1>3 DEF PassOver, fixed, files, After, File
    <2>2. D!PassOver
      BY <2>1 DEF D!PassOver, D!paths, D!File, D!After, File, After
    <2> QED BY <2>2 DEF D!Next
  <1>4. CASE OpenFile
    <2>1. /\ exit = "running" /\ phase \in File /\ open = {} /\ open' = {phase}
          /\ phase \in requested \ blocked /\ phase # "build"
          /\ UNCHANGED <<requested, blocked, errors, phase, closed, exit>>
      BY <1>0, <1>4 DEF OpenFile, fixed, File
    <2>2. [f \in File |-> IF f \in open' \cup closed' THEN 1 ELSE 0]
            = [[f \in File |-> IF f \in open \cup closed THEN 1 ELSE 0] EXCEPT ![phase] = 1]
      BY <2>1
    <2>3. D!Open
      BY <2>1, <2>2 DEF D!Open, D!paths, D!File, File
    <2> QED BY <2>3 DEF D!Next
  <1>5. CASE Die
    <2>1. /\ exit = "running" /\ exit' = "failure" /\ open # {}
          /\ UNCHANGED <<requested, blocked, errors, phase, open, closed>>
      BY <1>5 DEF Die, fixed, files
    <2>2. D!Die
      BY <2>1 DEF D!Die, D!paths
    <2> QED BY <2>2 DEF D!Next
  <1>6. CASE CloseFile
    <2>1. /\ exit = "running" /\ phase \in File /\ open = {phase} /\ open' = {}
          /\ closed' = closed \cup {phase}
          /\ phase' = After(phase) /\ phase # "build" /\ phase' # "build"
          /\ UNCHANGED <<requested, blocked, errors, exit>>
      BY <1>0, <1>6 DEF CloseFile, fixed, After, File
    <2>2. D!Close
      BY <2>1 DEF D!Close, D!paths, D!File, D!After, File, After
    <2> QED BY <2>2 DEF D!Next
  <1>7. CASE Return
    <2>1. /\ exit = "running" /\ phase = "end"
          /\ exit' = IF errors THEN "failure" ELSE "success"
          /\ UNCHANGED <<requested, blocked, errors, phase, open, closed>>
      BY <1>7 DEF Return, fixed, files
    <2>2. D!Return
      BY <1>0, <2>1 DEF D!Return, D!paths
    <2> QED BY <2>2 DEF D!Next
  <1> QED
    BY <1>1, <1>2, <1>3, <1>4, <1>5, <1>6, <1>7 DEF ToCoqNext

\* Every behaviour of toCoqModule, for any AST, any requested and blocked files
\* and any declarations the printers die on, is one of Driver with one source.
\* Fairness is left to the model checker.
THEOREM ToCoqRefinesDriver == ToCoqSpec => D!Init /\ [][D!Next]_(D!vars)
PROOF
  BY InitFiles, StepFiles, InitRefines, StepRefines, PTL DEF ToCoqSpec

(***************************************************************************)
(* What is printed, and Coq's table.                                       *)
(***************************************************************************)
\* The declarations a file may have in its list.
Printable(f) ==
  IF f = "output" THEN Main \cup Range(asserts_)
  ELSE Listed

\* The queue and the entries come from the lists of the module, which are
\* complete when the first file is opened.
TableInv ==
  /\ ToCoqTypeOK
  /\ phase = "build" => open = {} /\ entries = [f \in File |-> <<>>]
  /\ phase \in open => Range(queue) \subseteq Printable(phase)
  /\ Range(entries["output"]) \subseteq Printable("output")

ToCoqInv == IInv /\ KindsInv /\ TableInv

\* What each file is printed from.
LEMMA ContentLemma ==
  ASSUME IInv, NEW f \in File
  PROVE  Content(f) \in Seq(Decl) /\ Range(Content(f)) \subseteq Printable(f)
<1>1. /\ declarations_ \in Seq(Decl) /\ definitions_ \in Seq(Decl) /\ asserts_ \in Seq(Decl)
      /\ template_declarations_ \in Seq(Decl) /\ template_definitions_ \in Seq(Decl)
  BY DEF IInv, TypeOK
<1>2. ASSUME NEW a \in Seq(Decl), NEW b \in Seq(Decl)
      PROVE  a \o b \in Seq(Decl) /\ Range(a \o b) \subseteq Range(a) \cup Range(b)
  <2>1. /\ Len(a) \in Nat /\ Len(b) \in Nat /\ DOMAIN a = 1 .. Len(a) /\ DOMAIN b = 1 .. Len(b)
        /\ a \o b \in Seq(Decl) /\ DOMAIN (a \o b) = 1 .. Len(a) + Len(b)
        /\ \A i \in 1 .. Len(a) + Len(b) : (a \o b)[i] = IF i <= Len(a) THEN a[i] ELSE b[i - Len(a)]
    BY ConcatProperties
  <2>2. \A i \in DOMAIN (a \o b) : \/ i \in DOMAIN a /\ (a \o b)[i] = a[i]
                                   \/ i - Len(a) \in DOMAIN b /\ (a \o b)[i] = b[i - Len(a)]
    BY <2>1
  <2> QED BY <2>1, <2>2 DEF Range
<1>3. /\ declarations_ \o definitions_ \in Seq(Decl)
      /\ Range(declarations_ \o definitions_) \subseteq Main
  BY <1>1, <1>2 DEF Main
<1>4. CASE f = "output"
  <2>1. /\ (declarations_ \o definitions_) \o asserts_ \in Seq(Decl)
        /\ Range((declarations_ \o definitions_) \o asserts_) \subseteq Main \cup Range(asserts_)
    BY <1>1, <1>2, <1>3
  <2> QED BY <1>4, <2>1 DEF Content, Printable
<1>5. CASE f = "notations"
  BY <1>1, <1>2, <1>5 DEF Content, Printable, Listed, Main
<1>6. CASE f = "templates"
  BY <1>1, <1>2, <1>6 DEF Content, Printable, Listed
<1> QED BY <1>4, <1>5, <1>6 DEF File

LEMMA TableInit == ToCoqInit => ToCoqInv
<1> SUFFICES ASSUME ToCoqInit PROVE ToCoqInv
  OBVIOUS
<1>1. IInv /\ KindsInv
  BY InitEstablishes, KindsInit DEF ToCoqInit
<1>2. ToCoqTypeOK
  BY ToCoqAssumption DEF ToCoqInit, ToCoqTypeOK, File
<1>3. open = {} /\ entries = [f \in File |-> <<>>]
  BY DEF ToCoqInit
<1>4. Range(entries["output"]) = {}
  BY <1>3 DEF File, Range
<1> QED BY <1>1, <1>2, <1>3, <1>4 DEF ToCoqInv, TableInv

\* After the traversal the lists of the module do not change.
LEMMA BuildingKept ==
  ASSUME ToCoqInv, UNCHANGED building
  PROVE  /\ IInv' /\ KindsInv'
         /\ \A f : Printable(f)' = Printable(f)
<1>1. UNCHANGED vars
  BY DEF building, vars
<1>2. IInv' /\ KindsInv'
  BY <1>1, NextPreserves, KindsStep DEF ToCoqInv
<1>3. Main' = Main /\ Listed' = Listed /\ Range(asserts_') = Range(asserts_)
  BY <1>1 DEF vars, Main, Listed, Range
<1> QED BY <1>2, <1>3 DEF Printable

LEMMA TableStep == ToCoqInv /\ FilesInv /\ [ToCoqNext]_all => ToCoqInv'
<1> SUFFICES ASSUME ToCoqInv, FilesInv, [ToCoqNext]_all PROVE ToCoqInv'
  OBVIOUS
<1> USE DEF File
<1>0. /\ requested \in SUBSET File /\ blocked \in SUBSET File /\ unprintable \in SUBSET Decl
      /\ errors \in BOOLEAN /\ phase \in File \cup {"build", "end"} /\ queue \in Seq(Decl)
      /\ open \in SUBSET File /\ closed \in SUBSET File /\ entries \in [File -> Seq(Decl)]
      /\ exit \in {"running", "success", "failure"}
      /\ open \subseteq {phase}
  BY DEF ToCoqInv, TableInv, ToCoqTypeOK, FilesInv
<1>1. CASE Build
  <2>1. IInv' /\ KindsInv'
    BY <1>1, NextPreserves, KindsStep DEF ToCoqInv, Build
  <2>2. /\ UNCHANGED <<requested, blocked, unprintable, errors, phase, queue, open, closed, entries, exit>>
        /\ phase = "build" /\ open = {} /\ entries = [f \in File |-> <<>>]
    BY <1>1 DEF Build, fixed, files, ToCoqInv, TableInv
  <2>3. Range(entries["output"]') = {}
    BY <2>2 DEF Range
  <2> QED BY <1>0, <2>1, <2>2, <2>3 DEF ToCoqInv, TableInv, ToCoqTypeOK
<1>2. CASE Built \/ PassOver \/ CloseFile
  <2>1. UNCHANGED <<building, requested, blocked, unprintable, errors, queue, entries, exit>>
    BY <1>2 DEF Built, PassOver, CloseFile, fixed, files
  <2>2. /\ phase' \in {"output", "notations", "templates", "end"}
        /\ open' \in SUBSET File /\ closed' \in SUBSET File /\ phase' \notin open'
    BY <1>0, <1>2 DEF Built, PassOver, CloseFile, fixed, files, After, ToCoqInv, TableInv
  <2>3. Range(entries["output"]') = Range(entries["output"])
    BY <2>1 DEF Range
  <2> QED
    BY <1>0, <2>1, <2>2, <2>3, BuildingKept DEF ToCoqInv, TableInv, ToCoqTypeOK
<1>3. CASE OpenFile
  <2>1. /\ UNCHANGED <<building, requested, blocked, unprintable, errors, phase, closed, entries, exit>>
        /\ phase \in File /\ open' = open \cup {phase} /\ queue' = Content(phase)
    BY <1>3 DEF OpenFile, fixed
  <2>2. queue' \in Seq(Decl) /\ Range(queue') \subseteq Printable(phase)
    <3>1. Content(phase) \in Seq(Decl) /\ Range(Content(phase)) \subseteq Printable(phase)
      BY <2>1, ContentLemma DEF ToCoqInv
    <3> QED BY <2>1, <3>1
  <2>3. Range(entries["output"]') = Range(entries["output"])
    BY <2>1 DEF Range
  <2> QED
    BY <1>0, <2>1, <2>2, <2>3, BuildingKept DEF ToCoqInv, TableInv, ToCoqTypeOK
<1>4. CASE PrintEntry \/ PrintNothing
  <2>1. /\ UNCHANGED <<building, requested, blocked, unprintable, errors, phase, open, closed, exit>>
        /\ phase \in open /\ queue # <<>> /\ queue' = Tail(queue)
        /\ \/ entries' = entries
           \/ entries' = [entries EXCEPT ![phase] = Append(@, Head(queue))]
    BY <1>4 DEF PrintEntry, PrintNothing, fixed
  <2>2. /\ Head(queue) \in Range(queue) /\ Head(queue) \in Decl
        /\ Tail(queue) \in Seq(Decl) /\ Range(Tail(queue)) \subseteq Range(queue)
    <3>1. /\ Len(queue) \in Nat /\ DOMAIN queue = 1 .. Len(queue) /\ 1 \in DOMAIN queue
          /\ Head(queue) = queue[1]
      BY <1>0, <2>1
    <3>2. /\ Tail(queue) \in Seq(Decl)
          /\ \A i \in DOMAIN Tail(queue) : i + 1 \in DOMAIN queue /\ Tail(queue)[i] = queue[i + 1]
      BY <1>0, <2>1, HeadTailProperties
    <3> QED BY <1>0, <3>1, <3>2 DEF Range
  <2>3. Range(queue) \subseteq Printable(phase)
    BY <2>1 DEF ToCoqInv, TableInv
  <2>4. queue' \in Seq(Decl) /\ Range(queue') \subseteq Printable(phase)
    <3>1. Range(Tail(queue)) \subseteq Printable(phase)
      BY <2>2, <2>3
    <3> QED BY <2>1, <2>2, <3>1
  <2>5. entries' \in [File -> Seq(Decl)]
    <3>1. phase \in File /\ Append(entries[phase], Head(queue)) \in Seq(Decl)
      BY <1>0, <2>1, <2>2
    <3> QED BY <1>0, <2>1, <3>1
  <2>6. Range(entries["output"]') \subseteq Printable("output")
    <3>1. CASE entries["output"]' = entries["output"]
      BY <3>1 DEF Range, ToCoqInv, TableInv
    <3>2. CASE phase = "output" /\ entries["output"]' = Append(entries["output"], Head(queue))
      <4>1. entries["output"] \in Seq(Decl)
        BY <1>0
      <4>2. Range(Append(entries["output"], Head(queue))) = Range(entries["output"]) \cup {Head(queue)}
        BY <2>2, <4>1, AppendRange
      <4>3. Range(Append(entries["output"], Head(queue))) \subseteq Printable("output")
        BY <2>2, <2>3, <3>2, <4>2 DEF ToCoqInv, TableInv
      <4> QED BY <3>2, <4>3
    <3> QED BY <1>0, <2>1, <3>1, <3>2
  <2>7. phase # "build"
    BY <1>0, <2>1
  <2> QED
    BY <1>0, <2>1, <2>4, <2>5, <2>6, <2>7, BuildingKept DEF ToCoqInv, TableInv, ToCoqTypeOK
<1>5. CASE Die \/ Return \/ UNCHANGED all
  <2>1. /\ UNCHANGED <<building, requested, blocked, unprintable, errors, phase, queue, open, closed, entries>>
        /\ exit' \in {"running", "success", "failure"}
    BY <1>0, <1>5 DEF Die, Return, all, fixed, files
  <2>2. Range(entries["output"]') = Range(entries["output"]) /\ Range(queue') = Range(queue)
    BY <2>1 DEF Range
  <2> QED
    BY <1>0, <2>1, <2>2, BuildingKept DEF ToCoqInv, TableInv, ToCoqTypeOK
<1> QED
  BY <1>1, <1>2, <1>3, <1>4, <1>5 DEF ToCoqNext

LEMMA TableInvariance == ToCoqSpec => []ToCoqInv
<1> QED BY InitFiles, StepFiles, TableInit, TableStep, PTL DEF ToCoqSpec

\* Type correctness of toCoqModule, for every AST and every command line.
THEOREM ToCoqTypes == ToCoqSpec => []ToCoqTypeOK
<1>1. ToCoqInv => ToCoqTypeOK
  BY DEF ToCoqInv, TableInv
<1> QED BY <1>1, TableInvariance, PTL

\* Whatever the AST, no listed declaration trips an assertion of PrintDecl:
\* VisitFunctionTemplateDecl and VisitClassTemplateDecl of PrintDecl run in
\* the templates file only, since BuildModule calls go for a template with
\* in_template set, and VisitLinkageSpecDecl and VisitNamespaceDecl never run.
THEOREM NoAssertionFails == ToCoqSpec => []AssertionsHold
<1>1. ToCoqInv => AssertionsHold
  <2> SUFFICES ASSUME ToCoqInv, phase \in open, queue # <<>>
               PROVE  Outcome(phase, Head(queue)) # "assertion"
    BY DEF AssertionsHold
  <2> DEFINE d == Head(queue)
  <2>1. phase \in File /\ queue \in Seq(Decl)
    BY DEF ToCoqInv, TableInv, ToCoqTypeOK
  <2>2. d \in Printable(phase)
    <3>1. 1 \in DOMAIN queue /\ d = queue[1]
      BY <2>1
    <3> QED BY <3>1 DEF Range, ToCoqInv, TableInv
  <2> HIDE DEF d
  <2>3. CASE phase = "notations"
    BY <2>3 DEF Outcome, write_globals
  <2>4. CASE phase = "output"
    <3>1. ast.kind[d] \in GoKinds \cup {"StaticAssert"}
      BY <2>2, <2>4 DEF Printable, ToCoqInv, KindsInv
    <3>2. printDecl(phase, d) # "assertion"
      BY <3>1 DEF printDecl, GoKinds, EntityKinds, RecordKinds, FunctionKinds, Printed, PrintVar,
         PrintRecord, PrintFunction, PrintMember, PrintEnum, PrintStaticAssert, PrintIgnored, PrintUnknown
    <3> QED BY <2>4, <3>2 DEF Outcome, d
  <2>5. CASE phase = "templates"
    <3>1. ast.kind[d] \in GoKinds \cup {"FunctionTemplate", "VarTemplate"}
      BY <2>2, <2>5 DEF Printable, ToCoqInv, KindsInv
    <3>2. printDecl(phase, d) # "assertion"
      BY <2>5, <3>1 DEF printDecl, GoKinds, EntityKinds, RecordKinds, FunctionKinds, Printed, PrintVar,
         PrintRecord, PrintFunction, PrintMember, PrintEnum, PrintStaticAssert, PrintIgnored, PrintUnknown,
         PrintTemplate
    <3> QED BY <2>5, <3>2 DEF Outcome, d
  <2> QED BY <2>1, <2>3, <2>4, <2>5 DEF File
<1> QED BY <1>1, TableInvariance, PTL

\* A bounded nonempty set of natural numbers has a greatest element.
LEMMA Greatest ==
  ASSUME NEW n \in Nat, NEW S \in SUBSET (1 .. n), S # {}
  PROVE  \E i \in S : \A j \in S : j <= i
<1> DEFINE T == {n - i : i \in S}
           R == {ss \in Nat \X Nat : ss[1] < ss[2]}
<1>1. T \subseteq Nat /\ T # {}
  OBVIOUS
<1>2. IsWellFoundedOn(R, Nat)
  BY NatLessThanWellFounded DEF OpToRel
<1>3. PICK x \in T : \A y \in T : ~ (y < x)
  <2>1. \E x \in T : \A y \in T : ~ (<<y, x>> \in R)
    <3> HIDE DEF T, R
    <3> QED BY <1>1, <1>2, WFMin
  <2>2. \A x, y \in T : y < x => <<y, x>> \in R
    BY <1>1
  <2> QED BY <2>1, <2>2
<1>4. PICK i \in S : x = n - i
  OBVIOUS
<1>5. \A j \in S : ~ (n - j < n - i)
  BY <1>3, <1>4
<1> QED BY <1>5

\* The value decls finds for a name is an entry of that name.
LEMMA TableEntry ==
  ASSUME NEW es \in Seq(Decl), NEW n \in DOMAIN decls(es)
  PROVE  \E i \in DOMAIN es : /\ ast.kind[es[i]] # "StaticAssert"
                              /\ Name(es[i]) = n /\ decls(es)[n] = es[i]
<1> DEFINE inserts == {i \in DOMAIN es : ast.kind[es[i]] # "StaticAssert"}
           Last_(i, m) == Name(es[i]) = m /\ \A j \in inserts : Name(es[j]) = m => j <= i
           last(m) == CHOOSE i \in inserts : Last_(i, m)
           S == {i \in inserts : Name(es[i]) = n}
<1>1. decls(es) = [m \in {Name(es[i]) : i \in inserts} |-> es[last(m)]]
  BY DEF decls
<1>2. S # {} /\ S \in SUBSET (1 .. Len(es)) /\ Len(es) \in Nat
  BY <1>1
<1>3. \E i \in inserts : Last_(i, n)
  <2>1. PICK i \in S : \A j \in S : j <= i
    <3> HIDE DEF S
    <3> QED BY <1>2, Greatest
  <2> QED BY <2>1
<1> HIDE DEF Last_, S
<1>4. last(n) \in inserts /\ Last_(last(n), n)
  BY <1>3
<1>5. decls(es)[n] = es[last(n)]
  BY <1>1
<1> HIDE DEF last
<1> QED BY <1>4, <1>5 DEF Last_

\* For every AST, the translation unit that decls of parser.v builds has the
\* definition of each class and function that the source defines: only the
\* declaration that stands for the whole redeclaration chain is ever listed, so
\* an entry printed later under the same name is no less complete.
THEOREM TableKeepsDefinitions == ToCoqSpec => []DefinitionsKept
<1>1. ToCoqInv => DefinitionsKept
  <2> SUFFICES ASSUME ToCoqInv, NEW n \in DOMAIN module,
                      ast.kind[n] \in RecordKinds \cup FunctionKinds, ast.definition[n] # NoDecl
               PROVE  Complete(module[n])
    BY DEF DefinitionsKept
  <2> DEFINE es == entries["output"]
  <2>1. es \in Seq(Decl) /\ Range(es) \subseteq Main \cup Range(asserts_)
    BY DEF ToCoqInv, TableInv, ToCoqTypeOK, File, Printable
  <2>2. PICK i \in DOMAIN es : /\ ast.kind[es[i]] # "StaticAssert"
                               /\ Name(es[i]) = n /\ module[n] = es[i]
    <3> HIDE DEF es
    <3>1. module = decls(es)
      BY DEF module, es
    <3> QED BY <2>1, <3>1, TableEntry
  <2> DEFINE x == es[i]
  <2>3. x \in Decl /\ x \in Main
    BY <2>1, <2>2 DEF Range, ToCoqInv, KindsInv
  <2>4. Represents(ast, x)
    BY <2>3 DEF ToCoqInv, IInv, PendingInv, Listed
  <2>5. AstShape(ast) /\ ChainsAgree(ast)
    BY AstFacts DEF ToCoqInv
  <2>6. n = ast.canonical[x]
    BY <2>2 DEF Name
  <2> HIDE DEF x, es
  <2>7. n \in Decl /\ ast.canonical[n] = ast.canonical[x]
    BY <2>3, <2>5, <2>6 DEF AstShape, ChainsAgree
  <2>8. ast.kind[n] = ast.kind[x] /\ ast.definition[n] = ast.definition[x]
    BY <2>3, <2>5, <2>7 DEF ChainsAgree
  <2>9. ast.kind[x] \in EntityKinds /\ ast.kind[x] # "Enum"
    BY <2>8 DEF EntityKinds, RecordKinds, FunctionKinds
  <2>10. ast.definition[x] = x
    BY <2>4, <2>8, <2>9 DEF Represents
  <2>11. x # NoDecl
    BY <2>3, ConstantAssumption
  <2>12. Complete(x)
    BY <2>10, <2>11 DEF Complete
  <2> QED BY <2>2, <2>12 DEF x
<1> QED BY <1>1, TableInvariance, PTL

(***************************************************************************)
(* Nothing is left out of the output file.                                 *)
(***************************************************************************)
\* The functions of the module still to print, or printed.
CoverInv ==
  /\ phase # "build" => Done
  /\ phase = "build" => closed = {}
  /\ \A x \in Main :
       ast.kind[x] \in FunctionKinds =>
         /\ phase = "output" /\ phase \in open => x \in Range(entries["output"]) \cup Range(queue)
         /\ Loaded => x \in Range(entries["output"])

\* The output file is printed from all of the module.
LEMMA WholeContent ==
  ASSUME IInv
  PROVE  Main \subseteq Range(Content("output"))
<1>1. declarations_ \in Seq(Decl) /\ definitions_ \in Seq(Decl) /\ asserts_ \in Seq(Decl)
  BY DEF IInv, TypeOK
<1>2. \A a, b \in Seq(Decl) : a \o b \in Seq(Decl) /\ Range(a \o b) = Range(a) \cup Range(b)
  BY CallRanges
<1>3. Content("output") = (declarations_ \o definitions_) \o asserts_
  BY DEF Content
<1>4. Range((declarations_ \o definitions_) \o asserts_) = Main \cup Range(asserts_)
  <2>1. /\ declarations_ \o definitions_ \in Seq(Decl)
        /\ Range(declarations_ \o definitions_) = Main
    BY <1>1, <1>2 DEF Main
  <2> QED BY <1>1, <1>2, <2>1
<1> QED BY <1>3, <1>4

\* PrintDecl has an entry for every function.
LEMMA FunctionsPrinted ==
  ASSUME NEW f, NEW x, ast.kind[x] \in FunctionKinds
  PROVE  printDecl(f, x) # "nothing"
<1>1. CASE ast.kind[x] = "Function"
  BY <1>1 DEF printDecl, RecordKinds, PrintFunction, Printed
<1>2. CASE ast.kind[x] \in FunctionKinds \ {"Function"}
  BY <1>2 DEF printDecl, RecordKinds, FunctionKinds, PrintMember, Printed
<1> QED BY <1>1, <1>2

LEMMA CoverInit == ToCoqInit => CoverInv
  BY DEF ToCoqInit, CoverInv, Loaded

LEMMA CoverStep == ToCoqInv /\ FilesInv /\ CoverInv /\ [ToCoqNext]_all => CoverInv'
<1> SUFFICES ASSUME ToCoqInv, FilesInv, CoverInv, [ToCoqNext]_all PROVE CoverInv'
  OBVIOUS
<1> USE DEF File
<1>0. /\ phase \in File \cup {"build", "end"} /\ open \subseteq {phase} /\ open \subseteq File
      /\ queue \in Seq(Decl) /\ entries \in [File -> Seq(Decl)]
      /\ phase = "build" => open = {}
      /\ closed = Before(phase) \cap (requested \ blocked)
  BY DEF ToCoqInv, TableInv, ToCoqTypeOK, FilesInv
<1>1. CASE Build
  BY <1>0, <1>1 DEF Build, files, CoverInv, Loaded
<1>2. ASSUME UNCHANGED building
      PROVE  Main' = Main /\ ast' = ast /\ (Done' <=> Done)
  BY <1>2 DEF building, Main, Range, Done
<1>3. CASE Built
  BY <1>0, <1>2, <1>3 DEF Built, files, CoverInv, Loaded
<1>4. CASE PassOver
  <2>1. phase' # "build" /\ phase' # "output" /\ phase # "build"
    BY <1>4 DEF PassOver, After
  <2> QED BY <1>0, <1>2, <1>4, <2>1 DEF PassOver, files, CoverInv, Loaded, Range
<1>5. CASE OpenFile
  <2>1. /\ UNCHANGED <<building, phase, closed, entries>> /\ phase \in File
        /\ queue' = Content(phase)
    BY <1>5 DEF OpenFile
  <2>2. phase = "output" => Main \subseteq Range(queue')
    <3>1. Main \subseteq Range(Content("output"))
      BY WholeContent DEF ToCoqInv
    <3> QED BY <2>1, <3>1
  <2>3. Range(entries["output"]') = Range(entries["output"])
    BY <2>1 DEF Range
  <2> QED BY <1>0, <1>2, <2>1, <2>2, <2>3 DEF CoverInv, Loaded
<1>6. CASE PrintEntry \/ PrintNothing
  <2>1. /\ UNCHANGED <<building, phase, open, closed>>
        /\ phase \in open /\ queue # <<>> /\ queue' = Tail(queue)
    BY <1>6 DEF PrintEntry, PrintNothing
  <2>2. phase \in File /\ phase # "build" /\ (phase = "output" => ~Loaded)
    BY <1>0, <2>1 DEF Loaded, Before
  <2>3. CASE phase # "output"
    <3>1. entries["output"]' = entries["output"]
      BY <1>0, <1>6, <2>3 DEF PrintEntry, PrintNothing
    <3>2. Range(entries["output"]') = Range(entries["output"])
      BY <3>1 DEF Range
    <3> QED BY <1>2, <2>1, <2>2, <2>3, <3>2 DEF CoverInv, Loaded
  <2>4. CASE phase = "output"
    <3>1. /\ 1 \in DOMAIN queue /\ Head(queue) = queue[1] /\ Head(queue) \in Decl
          /\ \A i \in DOMAIN queue :
               i = 1 \/ (i - 1 \in DOMAIN Tail(queue) /\ Tail(queue)[i - 1] = queue[i])
      <4>1. /\ Len(queue) \in Nat /\ DOMAIN queue = 1 .. Len(queue) /\ 1 \in DOMAIN queue
            /\ Head(queue) = queue[1] /\ Head(queue) \in Decl
        BY <1>0, <2>1
      <4>2. /\ DOMAIN Tail(queue) = 1 .. Len(queue) - 1
            /\ \A i \in DOMAIN Tail(queue) : Tail(queue)[i] = queue[i + 1]
        BY <1>0, <2>1, HeadTailProperties
      <4> QED BY <4>1, <4>2
    <3>2. Range(queue) \subseteq {Head(queue)} \cup Range(queue')
      BY <2>1, <3>1 DEF Range
    <3>3. /\ entries["output"] \in Seq(Decl)
          /\ Range(Append(entries["output"], Head(queue))) = Range(entries["output"]) \cup {Head(queue)}
      BY <1>0, <3>1, AppendRange
    <3>4. ASSUME NEW x \in Main, ast.kind[x] \in FunctionKinds
          PROVE  x \in Range(entries["output"]') \cup Range(queue')
      <4>1. x \in Range(entries["output"]) \cup {Head(queue)} \cup Range(queue')
        BY <2>1, <2>4, <3>2, <3>4 DEF CoverInv
      <4>2. CASE PrintEntry
        <5>1. entries["output"]' = Append(entries["output"], Head(queue))
          BY <1>0, <2>4, <4>2 DEF PrintEntry
        <5>2. x \in Range(Append(entries["output"], Head(queue))) \cup Range(queue')
          BY <3>3, <4>1
        <5> QED BY <5>1, <5>2
      <4>3. CASE PrintNothing
        <5>1. Outcome("output", Head(queue)) = "nothing" /\ entries' = entries
          BY <2>4, <4>3 DEF PrintNothing
        <5>2. Range(entries["output"]') = Range(entries["output"])
          BY <5>1 DEF Range
        <5>3. x # Head(queue)
          BY <3>4, <5>1, FunctionsPrinted DEF Outcome
        <5> QED BY <4>1, <5>2, <5>3
      <4> QED BY <1>6, <4>2, <4>3
    <3> QED BY <1>2, <2>1, <2>2, <2>4, <3>4 DEF CoverInv, Loaded
  <2> QED BY <2>3, <2>4
<1>7. CASE CloseFile
  <2>1. /\ UNCHANGED <<building, entries>> /\ phase \in open /\ queue = <<>>
        /\ closed' = closed \cup {phase} /\ phase' # "build" /\ phase' # "output" /\ phase # "build"
    BY <1>0, <1>7 DEF CloseFile, After
  <2>2. Range(entries["output"]') = Range(entries["output"]) /\ Range(queue) = {}
    BY <2>1 DEF Range
  <2> QED BY <1>2, <2>1, <2>2 DEF CoverInv, Loaded
<1>8. CASE Die \/ Return \/ UNCHANGED all
  <2>1. UNCHANGED <<building, phase, queue, open, closed, entries>>
    BY <1>8 DEF Die, Return, all, files
  <2>2. Range(entries["output"]') = Range(entries["output"]) /\ Range(queue') = Range(queue)
    BY <2>1 DEF Range
  <2> QED BY <1>2, <2>1, <2>2 DEF CoverInv, Loaded
<1> QED
  BY <1>1, <1>3, <1>4, <1>5, <1>6, <1>7, <1>8 DEF ToCoqNext

\* The traversal, as part of toCoqModule.
LEMMA MembersTable ==
  EverythingKept /\ ToCoqInv /\ MembersInv /\ [ToCoqNext]_all => MembersInv'
<1> SUFFICES ASSUME EverythingKept, ToCoqInv, MembersInv, [ToCoqNext]_all PROVE MembersInv'
  OBVIOUS
<1>1. Next \/ UNCHANGED vars
  BY DEF ToCoqNext, Build, Built, PassOver, OpenFile, PrintEntry, PrintNothing, Die, CloseFile,
     Return, all, building, vars
<1> QED BY <1>1, MembersStep DEF ToCoqInv

\* When everything is kept, every member function of a class of the translation
\* unit is a symbol of it once the output file is written, for every AST: the
\* names in a Dstruct refer to entries that were listed, printed and inserted.
THEOREM MethodsAreSymbols == EverythingKept => (ToCoqSpec => []MethodsResolve)
<1> SUFFICES ASSUME EverythingKept PROVE ToCoqSpec => []MethodsResolve
  OBVIOUS
<1>1. ToCoqInv /\ CoverInv /\ MembersInv => MethodsResolve
  <2> SUFFICES ASSUME ToCoqInv, CoverInv, MembersInv, Loaded, NEW c \in Range(module),
                      ast.kind[c] \in RecordKinds, templates_ \/ c \notin ast.dependent,
                      NEW m \in Range(ast.members[c]), ast.kind[m] \in FunctionKinds,
                      m \notin ast.deleted
               PROVE  Name(m) \in DOMAIN module
    BY DEF MethodsResolve
  <2> DEFINE es == entries["output"]
  <2>1. es \in Seq(Decl) /\ Range(es) \subseteq Main \cup Range(asserts_)
    BY DEF ToCoqInv, TableInv, ToCoqTypeOK, File, Printable
  <2>2. module = decls(es)
    BY DEF module
  <2>3. c \in Main
    <3> HIDE DEF es
    <3>1. PICK n \in DOMAIN decls(es) : c = decls(es)[n]
      BY <2>2 DEF Range
    <3>2. PICK i \in DOMAIN es : ast.kind[es[i]] # "StaticAssert" /\ c = es[i]
      BY <2>1, <3>1, TableEntry
    <3> QED BY <2>1, <3>2 DEF Range, ToCoqInv, KindsInv
  <2>4. Done
    BY DEF CoverInv, Loaded
  <2>5. m \in Methods(c)
    BY DEF Methods
  <2>6. /\ m \in Decl /\ ast.canonical[m] = m
        /\ IF ast.definition[m] = NoDecl
           THEN m \in Main
           ELSE /\ ast.definition[m] \in Range(definitions_)
                /\ ast.definition[m] \in Decl /\ ast.canonical[ast.definition[m]] = m
    BY <2>3, <2>4, <2>5, MethodsAtEnd DEF ToCoqInv
  <2>7. PICK x \in Main : x \in Decl /\ ast.canonical[x] = m
    BY <2>6 DEF Main
  <2>8. ast.kind[x] \in FunctionKinds
    BY <2>6, <2>7, AstFacts DEF ToCoqInv, ChainsAgree
  <2>9. x \in Range(es)
    BY <2>8 DEF CoverInv
  <2>10. PICK i \in DOMAIN es : es[i] = x
    BY <2>9 DEF Range
  <2> HIDE DEF es
  <2>11. Name(es[i]) \in DOMAIN decls(es)
    BY <2>8, <2>10 DEF decls, FunctionKinds
  <2> QED BY <2>2, <2>6, <2>7, <2>10, <2>11 DEF Name
<1>2. ToCoqInv /\ MembersInv /\ [ToCoqNext]_all => MembersInv'
  BY MembersTable
<1>3. ToCoqInit => MembersInv
  BY MembersInit DEF ToCoqInit
<1> QED BY <1>1, <1>2, <1>3, InitFiles, StepFiles, TableInit, TableStep, CoverInit, CoverStep,
           PTL DEF ToCoqSpec
==============================================================================

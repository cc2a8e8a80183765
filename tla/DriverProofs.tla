---------------------------- MODULE DriverProofs ----------------------------
(***************************************************************************)
(* Proofs about Driver: what a successful run leaves behind, for any       *)
(* number of sources on the command line.                                  *)
(***************************************************************************)
EXTENDS Driver, TLAPS

\* The files a consumer writes, and those it is through with at a.
Writable == requested \ blocked

Before(a) ==
  CASE a \in {"parse", "output"} -> {}
    [] a = "notations" -> {"output"}
    [] a = "templates" -> {"output", "notations"}
    [] a = "end" -> File

\* As long as no source had errors, the files up to the current one are of
\* this source and the others of the source before.
Generation ==
  /\ \A f \in File \ Writable : writer[f] = 0
  /\ ~errors => \A f \in Writable :
       writer[f] = IF f \in Before(at) \/ (open /\ f = at) THEN source ELSE source - 1

\* Only the open file is incomplete.
OpenInv == complete = IF open THEN File \ {at} ELSE File

\* The errors of the first source are known once it is parsed, and success
\* means that nothing was done or that all sources are done.
SuccessInv ==
  /\ source = 1 /\ at = "parse" => ~errors
  /\ exit = "success" =>
       /\ ~open /\ ~errors
       /\ (source = 1 /\ at = "parse") \/ (source = NumSources /\ at = "end")

Inv == TypeOK /\ Generation /\ OpenInv /\ SuccessInv

LEMMA InitInv == Init => Inv
PROOF
  <1> SUFFICES ASSUME Init PROVE Inv
    OBVIOUS
  <1>1. TypeOK
    <2>1. 1 \in 1 .. NumSources /\ 0 \in 0 .. NumSources
      BY SourcesAssumption
    <2> QED BY <2>1 DEF Init, TypeOK
  <1>2. Generation
    BY DEF Init, Generation, Writable, Before
  <1>3. OpenInv /\ SuccessInv
    BY DEF Init, OpenInv, SuccessInv
  <1> QED BY <1>1, <1>2, <1>3 DEF Inv

LEMMA StepInv == Inv /\ [Next]_vars => Inv'
PROOF
  <1> SUFFICES ASSUME Inv, [Next]_vars PROVE Inv'
    OBVIOUS
  <1> USE SourcesAssumption DEF Inv, TypeOK, Generation, OpenInv, SuccessInv, Writable, Before, File
  <1>1. CASE Usage
    BY <1>1 DEF Usage, paths
  <1>2. CASE Parse
    BY <1>2 DEF Parse, paths
  <1>3. CASE ParseFails
    BY <1>3 DEF ParseFails, paths
  <1>4. CASE PassOver
    BY <1>4 DEF PassOver, paths, After
  <1>5. CASE Open
    BY <1>5 DEF Open, paths
  <1>6. CASE Close
    BY <1>6 DEF Close, paths, After
  <1>7. CASE Die
    BY <1>7 DEF Die, paths
  <1>8. CASE NextSource
    BY <1>8 DEF NextSource, paths
  <1>9. CASE Return
    BY <1>9 DEF Return, paths
  <1>10. CASE UNCHANGED vars
    BY <1>10 DEF vars
  <1> QED
    BY <1>1, <1>2, <1>3, <1>4, <1>5, <1>6, <1>7, <1>8, <1>9, <1>10 DEF Next

\* Every state of the driver is well typed; in particular it never gets past
\* the last source.
THEOREM DriverTypes == Spec => []TypeOK
PROOF
  <1>1. Inv => TypeOK
    BY DEF Inv
  <1> QED BY <1>1, InitInv, StepInv, PTL DEF Spec

\* Whatever dies, is blocked or cannot be read, a run that reports success
\* leaves no truncated file.
THEOREM SuccessIsComplete == Spec => []NoTruncatedSuccess
PROOF
  <1>1. Inv => NoTruncatedSuccess
    BY DEF Inv, OpenInv, SuccessInv, NoTruncatedSuccess
  <1> QED BY <1>1, InitInv, StepInv, PTL DEF Spec

\* The files that a successful run leaves behind are all of its last source,
\* for any number of sources.
THEOREM FilesOfOneSource == Spec => []SameSource
PROOF
  <1>1. Inv => SameSource
    BY SourcesAssumption
    DEF Inv, TypeOK, Generation, SuccessInv, SameSource, Written, Writable, Before, File
  <1> QED BY <1>1, InitInv, StepInv, PTL DEF Spec
=============================================================================

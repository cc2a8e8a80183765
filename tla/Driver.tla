-------------------------------- MODULE Driver --------------------------------
(***************************************************************************)
(* cpp2v's main (src/src/cpp2v.cpp) as seen from outside: which files it   *)
(* writes, for which source, and with which exit code.                     *)
(*                                                                         *)
(* ClangTool runs one ToCoqAction per source of the command line, in       *)
(* order; every ToCoqConsumer has the same three paths, and opens them one *)
(* after the other when its translation unit has been parsed.  How the     *)
(* contents come about is left open here (see ToCoq).                      *)
(***************************************************************************)
EXTENDS Naturals, FiniteSets

CONSTANTS NumSources  \* the sources on the command line

ASSUME SourcesAssumption == NumSources \in Nat \ {0}

\* The three outputs, in the order toCoqModule opens them.
File == {"output", "notations", "templates"}

After(f) ==
  CASE f = "output" -> "notations"
    [] f = "notations" -> "templates"
    [] f = "templates" -> "end"

VARIABLES
  requested,  \* the files with a path: -o, -names, -templates
  blocked,    \* the paths that cannot be opened
  source,     \* the source being processed
  at,         \* the file whose turn it is, "parse" or "end"
  open,       \* that file is open
  writer,     \* for each path the source that wrote it last, 0 for none
  complete,   \* the paths whose last writer closed them
  errors,     \* some source had errors: ClangTool::run returns 1
  exit        \* "running", or the exit code: "success" is 0, "failure" 1

paths == <<requested, blocked>>
vars  == <<requested, blocked, source, at, open, writer, complete, errors, exit>>

Init ==
  /\ requested \in SUBSET File
  /\ blocked \in SUBSET requested
  /\ source = 1
  /\ at = "parse"
  /\ open = FALSE
  /\ writer = [f \in File |-> 0]
  /\ complete = File
  /\ errors = FALSE
  /\ exit = "running"

\* The option parser rejects the command line, or -cpp2v-version is given:
\* nothing is read or written.
Usage ==
  /\ exit = "running" /\ source = 1 /\ at = "parse"
  /\ exit' \in {"success", "failure"}
  /\ UNCHANGED <<paths, source, at, open, writer, complete, errors>>

\* The front end has parsed the source.  Errors are remembered in the exit
\* code; HandleTranslationUnit runs all the same.
Parse ==
  /\ exit = "running" /\ at = "parse"
  /\ at' = "output"
  /\ errors' \in {errors, TRUE}
  /\ UNCHANGED <<paths, source, open, writer, complete, exit>>

\* The source cannot be read: no consumer is created for it.
ParseFails ==
  /\ exit = "running" /\ at = "parse"
  /\ at' = "end"
  /\ errors' = TRUE
  /\ UNCHANGED <<paths, source, open, writer, complete, exit>>

\* with_open_file: no path, or an error that is printed and forgotten.
PassOver ==
  /\ exit = "running" /\ at \in File /\ ~open
  /\ at \notin requested \/ at \in blocked
  /\ at' = After(at)
  /\ UNCHANGED <<paths, source, open, writer, complete, errors, exit>>

\* raw_fd_ostream truncates the file.
Open ==
  /\ exit = "running" /\ at \in File /\ ~open
  /\ at \in requested \ blocked
  /\ open' = TRUE
  /\ writer' = [writer EXCEPT ![at] = source]
  /\ complete' = complete \ {at}
  /\ UNCHANGED <<paths, source, at, errors, exit>>

\* The file is written and its stream destroyed.
Close ==
  /\ exit = "running" /\ open
  /\ open' = FALSE
  /\ complete' = complete \cup {at}
  /\ at' = After(at)
  /\ UNCHANGED <<paths, source, writer, errors, exit>>

\* logging::die: what is buffered is lost, the other sources are not read.
Die_ExitZero ==
  /\ exit = "running" /\ open
  /\ exit' = "success"
  /\ UNCHANGED <<paths, source, at, open, writer, complete, errors>>

Die ==
  /\ exit = "running" /\ open
  /\ exit' = "failure"
  /\ UNCHANGED <<paths, source, at, open, writer, complete, errors>>

\* ClangTool::run goes on with the next source, errors or not.
NextSource_StopOnError ==
  /\ exit = "running" /\ at = "end" /\ source < NumSources /\ ~errors
  /\ source' = source + 1
  /\ at' = "parse"
  /\ UNCHANGED <<paths, open, writer, complete, errors, exit>>

NextSource_PastTheEnd ==
  /\ exit = "running" /\ at = "end" /\ source <= NumSources
  /\ source' = source + 1
  /\ at' = "parse"
  /\ UNCHANGED <<paths, open, writer, complete, errors, exit>>

NextSource ==
  /\ exit = "running" /\ at = "end" /\ source < NumSources
  /\ source' = source + 1
  /\ at' = "parse"
  /\ UNCHANGED <<paths, open, writer, complete, errors, exit>>

Return ==
  /\ exit = "running" /\ at = "end" /\ source = NumSources
  /\ exit' = IF errors THEN "failure" ELSE "success"
  /\ UNCHANGED <<paths, source, at, open, writer, complete, errors>>

Next == Usage \/ Parse \/ ParseFails \/ PassOver \/ Open \/ Close \/ Die \/ NextSource \/ Return

\* A sequential program: it takes its next step.
Spec == Init /\ [][Next]_vars /\ WF_vars(Next)

(***************************************************************************)
(* Properties.                                                             *)
(***************************************************************************)
TypeOK ==
  /\ requested \in SUBSET File /\ blocked \in SUBSET requested
  /\ source \in 1 .. NumSources
  /\ at \in File \cup {"parse", "end"}
  /\ open \in BOOLEAN
  /\ open => at \in File
  /\ writer \in [File -> 0 .. NumSources]
  /\ complete \in SUBSET File
  /\ errors \in BOOLEAN
  /\ exit \in {"running", "success", "failure"}

Written == {f \in File : writer[f] # 0}

\* A truncated file is never left behind by a run that reports success: die
\* is the only way out of the printers and it exits with 1.
NoTruncatedSuccess == exit = "success" => complete = File

\* The files of a successful run belong together: the names and the templates
\* are those of the module, even when earlier sources had their own.
SameSource == exit = "success" => \A f, g \in Written : writer[f] = writer[g]

\* The program ends.
Terminates == <>(exit # "running")
===============================================================================

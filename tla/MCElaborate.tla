------------------------------ MODULE MCElaborate ------------------------------
(***************************************************************************)
(* Elaborate on small sources: what a class declares itself is one of a    *)
(* few shapes.                                                             *)
(***************************************************************************)
EXTENDS Elaborate, TLC

Nothing == [m \in Special |-> "no"]

\* A class without declarations of its own; with a copy assignment, which
\* leaves the implicit copy constructor out; with a move constructor
\* defaulted at once and a copy assignment defaulted outside the class.
Shapes ==
  {Nothing,
   [Nothing EXCEPT !["CopyAssignment"] = "provided"],
   [Nothing EXCEPT !["MoveConstructor"] = "default",
                   !["CopyAssignment"] = "later"]}

Elaborating == {FALSE} \X BOOLEAN

\* Classes outside templates are alike.
Alike == Permutations(Plain)
================================================================================

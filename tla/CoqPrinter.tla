------------------------------ MODULE CoqPrinter ------------------------------
(***************************************************************************)
(* The output of cpp2v as CoqPrinter writes it (src/include/CoqPrinter.hpp *)
(* on src/src/Formatter.cpp): out is the parentheses that are open,        *)
(* outermost first, each with the constructor after it and with the sorts  *)
(* of what has been written in it so far.  Every parenthesis is one        *)
(* indentation, so the depth of the formatter is the length of out.        *)
(*                                                                         *)
(* The text of a term is left out; its sort is kept.  A sort is a sequence *)
(* of names: <<"Stmt">>, <<"Some", "Expr">>, <<"list", "Stmt">>.           *)
(***************************************************************************)
EXTENDS Integers, Sequences

(***************************************************************************)
(* What Coq makes of a parenthesis when it closes.                         *)
(***************************************************************************)
Ill == <<"ill">>

Sort(s) == {<<s>>}

Option(s) == {<<"None">>, <<"Some", s>>}

ListOf(s) == {<<"list">>, <<"list", s>>}

\* The arguments and the result of the constructors
\* (theories/lang/cpp/syntax/stmt.v) and of the definitions of
\* theories/lang/cpp/parser.v that the output uses in their place.
Signatures ==
  [Sseq         |-> <<<<ListOf("Stmt")>>, "Stmt">>,
   Sdecl        |-> <<<<ListOf("VarDecl")>>, "Stmt">>,
   Sif          |-> <<<<Option("VarDecl"), Sort("Expr"), Sort("Stmt"), Sort("Stmt")>>, "Stmt">>,
   Swhile       |-> <<<<Option("VarDecl"), Sort("Expr"), Sort("Stmt")>>, "Stmt">>,
   Sfor         |-> <<<<Option("Stmt"), Option("Expr"), Option("Expr"), Sort("Stmt")>>, "Stmt">>,
   Sforeach     |-> <<<<Sort("Stmt"), Sort("Stmt"), Sort("Stmt"), Option("Stmt"),
                        Option("Expr"), Option("Expr"), Sort("Stmt"), Sort("Stmt")>>, "Stmt">>,
   Sdo          |-> <<<<Sort("Stmt"), Sort("Expr")>>, "Stmt">>,
   Sswitch      |-> <<<<Option("VarDecl"), Sort("Expr"), Sort("Stmt")>>, "Stmt">>,
   Scase        |-> <<<<Sort("SwitchBranch")>>, "Stmt">>,
   Exact        |-> <<<<Sort("Z")>>, "SwitchBranch">>,
   Range        |-> <<<<Sort("Z"), Sort("Z")>>, "SwitchBranch">>,
   Sreturn_val  |-> <<<<Sort("Expr")>>, "Stmt">>,
   Sexpr        |-> <<<<Sort("Expr")>>, "Stmt">>,
   Sattr        |-> <<<<ListOf("ident"), Sort("Stmt")>>, "Stmt">>,
   Sasm         |-> <<<<Sort("ident"), Sort("bool"), ListOf("operand"), ListOf("operand"),
                        ListOf("ident")>>, "Stmt">>,
   Slabeled     |-> <<<<Sort("ident"), Sort("Stmt")>>, "Stmt">>,
   Sgoto        |-> <<<<Sort("ident")>>, "Stmt">>,
   Sunsupported |-> <<<<Sort("ident")>>, "Stmt">>,
   Dvar         |-> <<<<Sort("ident"), Sort("type"), Option("Expr")>>, "VarDecl">>,
   Dinit        |-> <<<<Sort("bool"), Sort("obj_name"), Sort("type"), Option("Expr")>>, "VarDecl">>,
   Ddecompose   |-> <<<<Sort("Expr"), Sort("ident"), ListOf("VarDecl")>>, "VarDecl">>,
   Body         |-> <<<<Sort("Stmt")>>, "body">>]

ListSort(as) ==
  IF as = <<<<"nil">>>> THEN <<"list">>
  ELSE IF /\ Len(as) % 2 = 1 /\ as[Len(as)] = <<"nil">>
          /\ \A i \in 1 .. Len(as) - 1 : as[i] = IF i % 2 = 0 THEN <<"::">> ELSE as[1]
          /\ as[1] \notin {Ill, <<"::">>, <<"nil">>}
       THEN <<"list">> \o as[1]
       ELSE Ill

\* The next argument of a constructor is one it takes there, or not.
Argument(g, s) ==
  IF g.head \in {"list", "Some"} THEN s
  ELSE IF Len(g.args) < Len(Signatures[g.head][1]) /\ s \in Signatures[g.head][1][Len(g.args) + 1]
       THEN <<"fits">> ELSE Ill

CtorSort(h, as) ==
  IF Len(as) = Len(Signatures[h][1]) /\ \A i \in DOMAIN as : as[i] # Ill THEN <<Signatures[h][2]>> ELSE Ill

Reading(g) ==
  CASE g.head = "list" -> ListSort(g.args)
    [] g.head = "Some" -> IF Len(g.args) = 1 THEN <<"Some">> \o g.args[1] ELSE Ill
    [] OTHER           -> CtorSort(g.head, g.args)

(***************************************************************************)
(* The operations.                                                         *)
(***************************************************************************)
NoOutput == <<[head |-> "Body", args |-> <<>>]>>

get_depth(out) == Len(out)

\* Words, strings, numbers, and terms whose printing is not followed.
word(out, s) == [out EXCEPT ![Len(out)].args = Append(@, Argument(out[Len(out)], s))]

lparen(out, h) == Append(out, [head |-> h, args |-> <<>>])

\* outdent asserts that a parenthesis is open.
rparen(out) == word(SubSeq(out, 1, Len(out) - 1), Reading(out[Len(out)]))

ctor(out, c) == lparen(out, c)

end_ctor(out) == rparen(out)

begin_list(out) == lparen(out, "list")

end_list(out) == rparen(word(out, <<"nil">>))

cons(out) == word(out, <<"::">>)
================================================================================

--------------------------- MODULE MCClangPrinter ---------------------------
(***************************************************************************)
(* ClangPrinter for TLC: names, arguments and blocks that only equality    *)
(* tells apart.                                                            *)
(***************************************************************************)
EXTENDS ClangPrinter, TLC

Alike == Permutations(Idents) \cup Permutations(Args) \cup Permutations(Blocks)
=============================================================================

------------------------------- MODULE MCImages -------------------------------
(* Two connections and one row, the user's own, of a public table. Seven ids: two *)
(* uploads and a copy of each, or one with two copies, and a use of one of them   *)
(* while a pruning has picked it.                                                 *)
EXTENDS Images, TLC

Symm == Permutations(Connections)
===============================================================================

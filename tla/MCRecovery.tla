----------------------------- MODULE MCRecovery -----------------------------
(***************************************************************************)
(* A bundle of an imported record and one that is derived from it.  The    *)
(* second manifest drops the imported record and derives the other one     *)
(* from a template without references.                                     *)
(***************************************************************************)
EXTENDS Recovery, TLC

MCNames == <<"a", "d">>
MCSymmetry == Permutations(Value) \cup Permutations(Process)

Deriving(bases, refs) ==
  [bases |-> bases, imports |-> refs, derived |-> <<"d">>,
   templates |-> [n \in {"d"} |-> [text |-> bases, refs |-> refs]]]
MCManifest == <<Deriving(<<"a">>, {"a"}), Deriving(<<>>, {})>>
=============================================================================

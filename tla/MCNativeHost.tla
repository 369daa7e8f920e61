--------------------------- MODULE MCNativeHost ---------------------------
(***************************************************************************)
(* Where plaintext passes: to a page through the fill gate and the browser *)
(* host, and to an agent in the output of its command.  The two share no   *)
(* state, so that a behaviour is one of a single part, the other at rest.  *)
(***************************************************************************)
EXTENDS NativeHost, Redaction, TLC

VARIABLE part

MCNeedles == {<<"a", "b", "a">>, <<"b", "b">>, <<"a", "b", "b", "a">>}

MCInit ==
  /\ part \in {"fill", "output"}
  /\ Init /\ RedactionInit
  /\ part = "output" => processes = {}

MCNext ==
  /\ UNCHANGED part
  /\ \/ part = "fill" /\ UNCHANGED redactionVars /\ Next
     \/ part = "output" /\ UNCHANGED vars /\ RedactionNext

MCSpec == MCInit /\ [][MCNext]_<<part, vars, redactionVars>>

Symmetry == Permutations(Controller) \cup Permutations(Host)
=============================================================================

----------------------------- MODULE MCVaultAuth -----------------------------
(***************************************************************************)
(* Authentication and the access history for TLC: the service, with no     *)
(* client that follows the pages of the history; or the history with one,  *)
(* and the rest of the service at rest.                                    *)
(***************************************************************************)
EXTENDS MCVaultServer, EventPager

VARIABLE part

MCInit ==
  /\ part \in {"service", "pages"}
  /\ Init /\ PagerInit

MCNext ==
  /\ UNCHANGED part
  /\ \/ part = "service" /\ UNCHANGED pagerVars /\ Next
     \/ /\ part = "pages"
        /\ UNCHANGED <<accountVars, dataVars, authVars>>
        /\ PagerNext(MaxSec)

MCSpec == MCInit /\ [][MCNext]_<<part, vars, pagerVars>>

\* With the two history variables, and of an event row what retention looks
\* at: its place behind the newer rows, its stamp and its class.
AuthView ==
  <<part, pagerVars, clockVars, accountVars, dataVars, authVars,
    {<<Cardinality({r \in events : r.seq > row.seq}), row.sec, row.frac,
       row.event.verified>> : row \in events},
    IF part = "pages" THEN eventVars ELSE <<>>>>
=============================================================================

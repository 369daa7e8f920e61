--------------------------- MODULE DeployInOrder ---------------------------
(***************************************************************************)
(* DeployInOrder of internal/lifecycle/deployment.go: every destination is *)
(* staged, then each is activated and verified in the order of the         *)
(* manifest, and a failure rolls destinations back in reverse.             *)
(*                                                                         *)
(* An adapter's call that returns an error may have taken effect.          *)
(***************************************************************************)
EXTENDS Integers, FiniteSets

CONSTANT Targets  \* how many destinations there are

ASSUME TargetsIsNat == Targets \in Nat \ {0}

VARIABLES
  live,      \* what each destination runs: the old secret or the new one
  doing,     \* the loop of the workflow
  index,     \* and its variable
  affected,  \* while rolling back: the destinations to be rolled back
  rolled,    \* DeploymentFailure.RolledBack
  failed     \* history: destinations whose rollback returned an error

deployVars == <<live, doing, index, affected, rolled, failed>>

Destination == 1..Targets

DeployTypeOK ==
  /\ live \in [Destination -> {"old", "new"}]
  /\ doing \in {"staging", "activating", "verifying", "rolling", "failed", "deployed"}
  /\ index \in 0..Targets
  /\ affected \subseteq Destination
  /\ rolled \subseteq Destination
  /\ failed \subseteq Destination

DeployInit ==
  /\ live = [d \in Destination |-> "old"]
  /\ doing = "staging"
  /\ index = 1
  /\ affected = {}
  /\ rolled = {}
  /\ failed = {}

-----------------------------------------------------------------------------
Proceed(what, i) ==
  /\ doing' = what
  /\ index' = i
  /\ UNCHANGED <<affected, rolled, failed>>

\* rollback of the destinations up to the last one that is affected.
RollBackTo(n) ==
  /\ doing' = "rolling"
  /\ index' = n
  /\ affected' = 1..n
  /\ UNCHANGED <<rolled, failed>>

\* Staging changes nothing that is live; a failure rolls back those before.
Stage ==
  /\ doing = "staging"
  /\ \/ IF index < Targets THEN Proceed("staging", index + 1) ELSE Proceed("activating", 1)
     \/ RollBackTo(index - 1)
  /\ UNCHANGED live

\* Mutant: the destination that failed to activate is not rolled back.
RollBackActivated == RollBackTo(index - 1)

\* Every destination is rolled back, those never activated too.
RollBackAll == RollBackTo(Targets)

\* Activate, whose error leaves it open whether the destination is live.
Activate ==
  /\ doing = "activating"
  /\ \/ live' = [live EXCEPT ![index] = "new"] /\ Proceed("verifying", index)
     \/ live' \in {live, [live EXCEPT ![index] = "new"]} /\ RollBackAll

VerifyHealth ==
  /\ doing = "verifying"
  /\ \/ IF index < Targets THEN Proceed("activating", index + 1) ELSE Proceed("deployed", 0)
     \/ RollBackAll
  /\ UNCHANGED live

\* The loop of rollback runs backwards.
LastOf(todo) == CHOOSE d \in todo : \A e \in todo : e <= d

\* Errors are passed over; the destination is then not listed.
RollBackOne ==
  /\ doing = "rolling"
  /\ affected # {}
  /\ LET d == LastOf(affected) IN
       /\ affected' = affected \ {d}
       /\ \/ /\ live' = [live EXCEPT ![d] = "old"]
             /\ rolled' = rolled \cup {d}
             /\ UNCHANGED failed
          \/ /\ live' \in {live, [live EXCEPT ![d] = "old"]}
             /\ failed' = failed \cup {d}
             /\ UNCHANGED rolled
  /\ UNCHANGED <<doing, index>>

ReturnFailure ==
  /\ doing = "rolling"
  /\ affected = {}
  /\ Proceed("failed", 0)
  /\ UNCHANGED live

DeployNext ==
  Stage \/ Activate \/ VerifyHealth \/ RollBackOne \/ ReturnFailure

DeploySpec == DeployInit /\ [][DeployNext]_deployVars

-----------------------------------------------------------------------------
\* When the workflow returns a failure, a destination that still runs the new
\* secret is one whose rollback was tried, and failed: it is not in the list
\* of those rolled back.
NoneIsForgotten ==
  doing = "failed" =>
    \A d \in Destination : live[d] = "new" => d \in failed \ rolled

\* "activates in the manifest-provided order, and rolls affected destinations
\* back in reverse": a destination runs the new secret only while all those
\* before it do, unless its own rollback has failed.
OrderIsKept ==
  \A d, e \in Destination :
    d < e /\ live[e] = "new" /\ live[d] = "old" => e \in failed

\* DeployInOrder, whatever fails and whether or not it took effect: it leaves no
\* destination behind unnoticed, and none ahead of those before it.
DeploymentIsOrderly == NoneIsForgotten /\ OrderIsKept
=============================================================================

---------------------------- MODULE MCLifecycle ----------------------------
(***************************************************************************)
(* The parts of the lifecycle for TLC.  They share no state in the code,   *)
(* so that a behaviour is one of a single part, with the others at rest.   *)
(***************************************************************************)
EXTENDS LifecycleLease, EvidenceChain, DeployInOrder, RotationLab, TLC

VARIABLE part

MCInit ==
  /\ part \in {"lease", "evidence", "deployment", "rotation"}
  /\ Init /\ ChainInit /\ DeployInit /\ RotationInit

MCNext ==
  /\ UNCHANGED part
  /\ \/ part = "lease" /\ Next /\ UNCHANGED <<chainVars, deployVars, labVars>>
     \/ part = "evidence" /\ ChainNext /\ UNCHANGED <<vars, deployVars, labVars>>
     \/ part = "deployment" /\ DeployNext /\ UNCHANGED <<vars, chainVars, labVars>>
     \/ part = "rotation" /\ RotationNext /\ UNCHANGED <<vars, chainVars, deployVars>>

MCSpec == MCInit /\ [][MCNext]_<<part, vars, chainVars, deployVars, labVars>>

Symmetry == Permutations(Owner)
=============================================================================

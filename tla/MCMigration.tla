---------------------------- MODULE MCMigration ----------------------------
(***************************************************************************)
(* How a service starts, and its worker edition.  These share no state, so *)
(* that a behaviour is one of a single part with the others at rest: the   *)
(* migration of a JSON state file, that of a database's schema, and of the *)
(* worker repeated requests, members, or data.                             *)
(***************************************************************************)
EXTENDS LegacyMigration, SchemaMigration, WorkerService

VARIABLE part

startVars == <<vars, schemaVars>>

MCInit ==
  /\ part \in {"legacy", "schema", "replays", "members", "data"}
  /\ Init /\ SchemaInit /\ WorkerInit
  /\ part # "legacy" => file.migrating = None /\ file.backup = None
  /\ part # "schema" => version = Latest

\* Only where repeated requests are the question does a nonce matter.
UniqueUnlessReplays ==
  \A k \in Connection :
    served'[k] # NoRequest => (served'[k].nonce = Unique <=> part # "replays")

\* Bound: an invitation is created and expires before the clock ends.
Worker ==
  /\ \/ part = "replays" /\ UNCHANGED <<enrollments, invitations, storeVars>>
     \/ part = "members" /\ UNCHANGED <<nonces, storeVars>>
     \/ part = "data" /\ UNCHANGED <<time, nonces, invitations>>
  /\ WorkerNext
  /\ UniqueUnlessReplays
  /\ part = "members" => time' < MaxTime - 1

MCNext ==
  /\ UNCHANGED part
  /\ \/ part = "legacy" /\ Next /\ UNCHANGED <<schemaVars, workerVars>>
     \/ part = "schema" /\ SchemaNext /\ UNCHANGED <<vars, workerVars>>
     \/ Worker /\ UNCHANGED startVars

MCSpec == MCInit /\ [][MCNext]_<<part, startVars, workerVars>> /\ SchemaFairness
=============================================================================

-------------------------- MODULE LegacyMigration --------------------------
(***************************************************************************)
(* Open of internal/server/server.go with readLegacyState and              *)
(* migrateLegacyState of migrate.go: a service that finds a version-1 JSON *)
(* state file turns it into a database, in steps that each change one      *)
(* file.  The service may stop at any of them and is started again; any    *)
(* file operation may fail.  One process at a time.                        *)
(***************************************************************************)
EXTENDS Naturals

CONSTANT MaxAcked  \* bound: acknowledged requests

ASSUME MaxAckedIsNat == MaxAcked \in Nat

VARIABLES
  file,   \* what is at path, at path.migrating and at path.json.bak
  pc,     \* where Open is
  acked,  \* history: how many requests were acknowledged
  torn    \* history: the service stopped between the two renames

vars == <<file, pc, acked, torn>>

\* Nothing, the JSON state of version 1, one of an earlier migration.
None == [kind |-> "none"]
Legacy == [kind |-> "legacy"]
Older == [kind |-> "older"]

\* A database file: has migrateSchema run, are the JSON state's vaults in it,
\* and how many requests has it answered?
Database(schema, imported, requests) ==
  [kind |-> "database", schema |-> schema, imported |-> imported,
   requests |-> requests]

\* Nothing is in a database without the schema.
Contents ==
  {None, Legacy, Older, Database(FALSE, FALSE, 0)} \cup
  {Database(TRUE, i, n) : i \in BOOLEAN, n \in 0..MaxAcked}

Steps ==
  {"down", "removing", "opening", "migrating", "importing", "checking",
   "backing", "replacing", "reopening", "preparing", "serving"}

TypeOK ==
  /\ file \in [path : Contents, migrating : Contents, backup : Contents]
  /\ pc \in Steps
  /\ acked \in 0..MaxAcked
  /\ torn \in BOOLEAN

Init ==
  /\ file \in [path : {Legacy},
               migrating : {None, Database(TRUE, FALSE, 0), Database(TRUE, TRUE, 0)},
               backup : {None, Older}]
  /\ pc = "down"
  /\ acked = 0
  /\ torn = FALSE

\* os.Rename
Renamed(from, to) == [file EXCEPT ![to] = file[from], ![from] = None]

\* A step of Open; an error ends the process.
Step(here, next) ==
  /\ pc = here
  /\ pc' = next
  /\ UNCHANGED <<acked, torn>>

Fail(here) == Step(here, "down")

\* os.Remove of the unfinished database, its error ignored.
MayDiscard == file' \in {file, [file EXCEPT !.migrating = None]}

-----------------------------------------------------------------------------
\* readLegacyState: a JSON file is migrated, anything else is opened.
OpenLegacy ==
  /\ file.path = Legacy
  /\ Step("down", "removing")
  /\ UNCHANGED file

\* Opening nothing creates an empty database file.
OpenDatabase ==
  /\ file.path # Legacy
  /\ Step("down", "preparing")
  /\ file' = [file EXCEPT !.path = IF @ = None THEN Database(FALSE, FALSE, 0)
                                               ELSE @]

\* migrateSchema on the database at path, one transaction.
PrepareSchema ==
  \/ Step("preparing", "serving") /\ file' = [file EXCEPT !.path.schema = TRUE]
  \/ Fail("preparing") /\ UNCHANGED file

RemoveStale ==
  \/ Step("removing", "opening") /\ file' = [file EXCEPT !.migrating = None]
  \/ Fail("removing") /\ UNCHANGED file

OpenMigrating ==
  \/ /\ Step("opening", "migrating")
     /\ file' = [file EXCEPT !.migrating = Database(FALSE, FALSE, 0)]
  \/ Fail("opening") /\ UNCHANGED file

\* migrateSchema on the new database.
CreateSchema ==
  \/ Step("migrating", "importing") /\ file' = [file EXCEPT !.migrating.schema = TRUE]
  \/ Fail("migrating") /\ UNCHANGED file

\* Mutant: an import that fails is not noticed.
ImportUnnoticed ==
  /\ Step("importing", "checking")
  /\ file' \in {file, [file EXCEPT !.migrating.imported = TRUE]}

\* importLegacyState is one transaction.
Import ==
  \/ /\ Step("importing", "checking")
     /\ file' = [file EXCEPT !.migrating.imported = TRUE]
  \/ Fail("importing") /\ MayDiscard

\* The database is closed, and an earlier backup stops the migration.
CheckBackup ==
  \/ /\ file.backup = None
     /\ Step("checking", "backing")
     /\ UNCHANGED file
  \/ /\ file.backup # None
     /\ Fail("checking")
     /\ MayDiscard
  \/ Fail("checking") /\ UNCHANGED file

Backup ==
  \/ Step("backing", "replacing") /\ file' = Renamed("path", "backup")
  \/ Fail("backing") /\ MayDiscard

\* The second rename; if it fails, the first is undone unless that fails too.
Replace ==
  \/ Step("replacing", "reopening") /\ file' = Renamed("migrating", "path")
  \/ Fail("replacing") /\ file' = Renamed("backup", "path")
  \/ /\ pc = "replacing"
     /\ pc' = "down"
     /\ torn' = TRUE
     /\ UNCHANGED <<file, acked>>

Reopen ==
  /\ Step("reopening", "preparing") \/ Fail("reopening")
  /\ UNCHANGED file

-----------------------------------------------------------------------------
\* A client's request is stored and acknowledged.
Serve ==
  /\ pc = "serving"
  /\ acked < MaxAcked
  /\ acked' = acked + 1
  /\ file' = [file EXCEPT !.path.requests = @ + 1]
  /\ UNCHANGED <<pc, torn>>

\* The process is stopped or crashes.
Crash ==
  /\ pc # "down"
  /\ pc' = "down"
  /\ torn' = (torn \/ pc = "replacing")
  /\ UNCHANGED <<file, acked>>

Next ==
  \/ OpenLegacy \/ OpenDatabase \/ PrepareSchema
  \/ RemoveStale \/ OpenMigrating \/ CreateSchema \/ Import \/ CheckBackup
  \/ Backup \/ Replace \/ Reopen
  \/ Serve \/ Crash

Spec == Init /\ [][Next]_vars

-----------------------------------------------------------------------------
\* Wherever the service stops, the JSON state is whole at its path or in the
\* backup.
LegacyIsKept == Legacy \in {file.path, file.backup}

\* Requests that were acknowledged are in the database at path, whatever the
\* restarts: none of them migrates over it or starts another one.
AcknowledgedIsKept == acked > 0 => file.path.kind = "database" /\ file.path.requests = acked

\* The comment on Open: an existing JSON state file is migrated.  What is
\* served is a database with its vaults.
ServesMigrated == pc = "serving" => file.path.imported

\* What the code gives: it is, unless the service stopped between the renames.
ServesMigratedUnlessTorn == ~torn => ServesMigrated

\* Open with a JSON state file, whatever fails and wherever it stops: neither the
\* JSON state nor an acknowledged request is lost, and what is served has the old
\* vaults, but for a stop between the renames.
MigrationLosesNothing ==
  LegacyIsKept /\ AcknowledgedIsKept /\ ServesMigratedUnlessTorn
=============================================================================

-------------------------- MODULE SchemaMigration --------------------------
(***************************************************************************)
(* openDatabase and migrateSchema of internal/server/server.go: several    *)
(* service processes open one database of an earlier version.  Each reads  *)
(* the version once and migrates from the version that it read, in one     *)
(* transaction for each later version, without reading it again.           *)
(***************************************************************************)
EXTENDS Naturals

CONSTANTS
  Service,   \* the service processes
  MaxEvents  \* bound: access events that are ever recorded

ASSUME MaxEventsIsNat == MaxEvents \in Nat

VARIABLES
  version,   \* PRAGMA user_version
  schema,    \* what the tables offer
  events,    \* the rows of access_events
  recorded,  \* history: how many rows were ever inserted
  migrator,  \* where each process is
  known,     \* migrateSchema's local variable version
  killed     \* history: a process was killed, or its database failed

schemaVars == <<version, schema, events, recorded, migrator, known, killed>>

Latest == 6

\* What differs between versions.  The CHECK constraints of access_events list
\* the operations that may be recorded; those of earlier versions list fewer.
Parts == {"tables", "revoked_at", "access_events", "all_operations",
          "invitations", "vault_objects"}

Since(part) ==
  CASE part = "tables"        -> 1
    [] part = "revoked_at"    -> 2
    [] part = "access_events" -> 3
    [] part = "invitations"   -> 4
    [] OTHER                  -> 6

Offers(v) == {part \in Parts : Since(part) <= v}

\* The tables have at least what the version promises.
SchemaTypeOK ==
  /\ version \in 0..Latest
  /\ schema \subseteq Parts
  /\ Offers(version) \subseteq schema
  /\ recorded \in 0..MaxEvents
  /\ events \subseteq 1..MaxEvents
  /\ migrator \in [Service -> {"down", "migrating", "serving"}]
  /\ known \in [Service -> 0..Latest]
  /\ killed \in BOOLEAN

\* A database of any version, with events if it has the table.
SchemaInit ==
  /\ version \in 0..Latest
  /\ schema = Offers(version)
  /\ recorded = IF "access_events" \in schema THEN 1 ELSE 0
  /\ events = 1..recorded
  /\ migrator = [s \in Service |-> "down"]
  /\ known = [s \in Service |-> 0]
  /\ killed = FALSE

-----------------------------------------------------------------------------
Go(s, to, v) ==
  /\ migrator' = [migrator EXCEPT ![s] = to]
  /\ known' = [known EXCEPT ![s] = v]

ReadVersion(s) ==
  /\ migrator[s] = "down"
  /\ IF version = Latest THEN Go(s, "serving", 0) ELSE Go(s, "migrating", version)
  /\ UNCHANGED <<version, schema, events, recorded, killed>>

\* Mutant: version 2 drops a table of events that is in its way.
ConflictsReplaced(v) ==
  CASE v = 0 -> schema
    [] v = 1 -> schema \cap {"revoked_at"}
    [] OTHER -> {}

\* The statements of a transaction that fail if their part is there already:
\* CREATE TABLE and ALTER TABLE ADD COLUMN, in versions 0, 1 and 2.
Conflicts(v) ==
  CASE v = 0 -> schema
    [] v = 1 -> schema \cap {"revoked_at"}
    [] v = 2 -> schema \cap {"access_events"}
    [] OTHER -> {}

\* What the transaction from version v leaves.  Every table of events is
\* created or rebuilt as it is in the latest version.
Migrated(v) ==
  CASE v = 0 -> Parts
    [] v = 1 -> schema \cup {"revoked_at"}
    [] v = 2 -> schema \cup {"access_events", "all_operations"}
    [] v = 3 -> schema \cup {"all_operations", "invitations"}
    [] v = 4 -> schema
    [] OTHER -> schema \cup {"all_operations", "vault_objects"}

\* The table of events is created empty; rebuilding it copies the rows.
Copied(v) == IF v = 2 THEN {} ELSE events

\* Mutant: the migration from version 4 does not raise the version.
TargetForgotten(v) == IF v = 0 THEN Latest ELSE IF v = 4 THEN 4 ELSE v + 1

Target(v) == IF v = 0 THEN Latest ELSE v + 1

\* One transaction.  The version that it writes may be less than the one that
\* another process has reached.
Migrate(s) ==
  LET v == known[s] IN
  /\ migrator[s] = "migrating"
  /\ IF Conflicts(v) = {}
     THEN /\ schema' = Migrated(v)
          /\ events' = Copied(v)
          /\ version' = Target(v)
          /\ IF Target(v) = Latest THEN Go(s, "serving", 0)
             ELSE Go(s, "migrating", Target(v))
     ELSE Go(s, "down", 0) /\ UNCHANGED <<schema, events, version>>
  /\ UNCHANGED <<recorded, killed>>

\* A request is served, and its event recorded.
RecordEvent(s) ==
  /\ migrator[s] = "serving"
  /\ recorded < MaxEvents
  /\ recorded' = recorded + 1
  /\ events' = events \cup {recorded + 1}
  /\ UNCHANGED <<version, schema, migrator, known, killed>>

\* The process stops, or a statement or the commit fails and Open returns it.
KillService(s) ==
  /\ migrator[s] # "down"
  /\ Go(s, "down", 0)
  /\ killed' = TRUE
  /\ UNCHANGED <<version, schema, events, recorded>>

SchemaNext ==
  \E s \in Service :
    ReadVersion(s) \/ Migrate(s) \/ RecordEvent(s) \/ KillService(s)

SchemaSpec == SchemaInit /\ [][SchemaNext]_schemaVars

\* A process that has begun to migrate goes on.
SchemaFairness == \A s \in Service : WF_schemaVars(Migrate(s))

-----------------------------------------------------------------------------
(* Properties *)

\* While a process serves, the tables have all that its requests need, also
\* while others, that read an older version, still migrate and set the version
\* back on their way.
ServesComplete ==
  (\E s \in Service : migrator[s] = "serving") => schema = Parts

\* No migration loses an access event, neither one of the old database nor
\* one that another process has recorded meanwhile.
EventsAreKept == events = 1..recorded

\* migrateSchema in several processes at once, from versions that were read too
\* early: a service finds all that it needs, with every event.
MigrationIsComplete == ServesComplete /\ EventsAreKept

\* Processes that migrate at once do not all fail on each other's work: one
\* of them serves in the end.
SomeoneServes ==
  (\E s \in Service : migrator[s] = "migrating")
    ~> (killed \/ \E s \in Service : migrator[s] = "serving")
=============================================================================

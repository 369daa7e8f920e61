-------------------------- MODULE MigrationProofs --------------------------
(***************************************************************************)
(* What a service that starts may rely on, for any number of processes,    *)
(* requests and events: the migration of a JSON state file, the migration  *)
(* of a database's schema, and the worker edition of the service.          *)
(***************************************************************************)
EXTENDS LegacyMigration, SchemaMigration, WorkerService, FiniteSetTheorems, TLAPS

-----------------------------------------------------------------------------
(* LegacyMigration *)

Databases ==
  [kind : {"database"}, schema : BOOLEAN, imported : BOOLEAN, requests : 0..MaxAcked]

\* What may be where.  The database at path has answered every request that was
\* acknowledged, and has the vaults unless the process stopped between the
\* renames; without a database at path nothing was acknowledged.
PlacesInv ==
  /\ file \in [path : {None, Legacy} \cup Databases, migrating : {None} \cup Databases,
               backup : {None, Older, Legacy}]
  /\ file.path # Legacy => file.backup = Legacy
  /\ file.path = None => torn = TRUE \/ pc = "replacing"
  /\ file.path \in Databases =>
       file.path.requests = acked /\ (torn = TRUE \/ file.path.imported = TRUE)
  /\ file.path \notin Databases => acked = 0

\* What each step of Open finds.
StepInv ==
  /\ pc \in {"removing", "opening", "migrating", "importing", "checking", "backing"}
       => file.path = Legacy
  /\ pc \in {"migrating", "importing", "checking", "backing", "replacing"}
       => file.migrating \in Databases /\ file.migrating.requests = 0
  /\ pc \in {"checking", "backing", "replacing"} => file.migrating.imported = TRUE
  /\ pc = "backing" => file.backup = None
  /\ pc = "replacing" => file.path = None
  /\ pc \in {"reopening", "preparing", "serving"} => file.path \in Databases

LegacyInv ==
  /\ pc \in Steps
  /\ acked \in 0..MaxAcked
  /\ torn \in BOOLEAN
  /\ PlacesInv
  /\ StepInv

\* The contents of a file can be told apart.
LEMMA ContentsDiffer ==
  /\ None # Legacy /\ None # Older /\ Legacy # Older
  /\ \A d \in Databases : d # None /\ d # Legacy /\ d # Older
<1>1. None.kind = "none" /\ Legacy.kind = "legacy" /\ Older.kind = "older"
  BY DEF None, Legacy, Older
<1>2. \A d \in Databases : d.kind = "database"
  BY DEF Databases
<1> QED
  BY <1>1, <1>2

LEMMA DatabaseIs ==
  ASSUME NEW s \in BOOLEAN, NEW i \in BOOLEAN
  PROVE  /\ Database(s, i, 0) \in Databases
         /\ Database(s, i, 0).imported = i
         /\ Database(s, i, 0).requests = 0
BY MaxAckedIsNat DEF Database, Databases

\* migrateSchema, importLegacyState and a request, on a database.
LEMMA DatabaseSteps ==
  ASSUME NEW d \in Databases
  PROVE  /\ [d EXCEPT !.schema = TRUE] \in Databases
         /\ [d EXCEPT !.schema = TRUE].requests = d.requests
         /\ [d EXCEPT !.schema = TRUE].imported = d.imported
         /\ [d EXCEPT !.imported = TRUE] \in Databases
         /\ [d EXCEPT !.imported = TRUE].requests = d.requests
         /\ [d EXCEPT !.imported = TRUE].imported = TRUE
         /\ d.requests < MaxAcked =>
              /\ [d EXCEPT !.requests = @ + 1] \in Databases
              /\ [d EXCEPT !.requests = @ + 1].requests = d.requests + 1
              /\ [d EXCEPT !.requests = @ + 1].imported = d.imported
<1>1. /\ [d EXCEPT !.schema = TRUE] \in Databases
      /\ [d EXCEPT !.schema = TRUE].requests = d.requests
      /\ [d EXCEPT !.schema = TRUE].imported = d.imported
  BY DEF Databases
<1>2. /\ [d EXCEPT !.imported = TRUE] \in Databases
      /\ [d EXCEPT !.imported = TRUE].requests = d.requests
      /\ [d EXCEPT !.imported = TRUE].imported = TRUE
  BY DEF Databases
<1>3. ASSUME d.requests < MaxAcked
      PROVE  /\ [d EXCEPT !.requests = @ + 1] \in Databases
             /\ [d EXCEPT !.requests = @ + 1].requests = d.requests + 1
             /\ [d EXCEPT !.requests = @ + 1].imported = d.imported
  <2>1. d.requests + 1 \in 0..MaxAcked
    BY <1>3, MaxAckedIsNat DEF Databases
  <2> QED
    BY <2>1 DEF Databases
<1> QED
  BY <1>1, <1>2, <1>3

LEMMA LegacyInvHolds == Spec => []LegacyInv
<1> USE MaxAckedIsNat, ContentsDiffer DEF Steps
<1>1. Init => LegacyInv
  <2> SUFFICES ASSUME Init PROVE LegacyInv
    OBVIOUS
  <2>1. Database(TRUE, FALSE, 0) \in Databases /\ Database(TRUE, TRUE, 0) \in Databases
    BY DatabaseIs
  <2>2. /\ file \in [path : {None, Legacy} \cup Databases, migrating : {None} \cup Databases,
                     backup : {None, Older, Legacy}]
        /\ file.path = Legacy
    BY <2>1 DEF Init
  <2>3. pc = "down" /\ acked = 0 /\ torn = FALSE
    BY DEF Init
  <2>4. PlacesInv
    BY <2>2, <2>3 DEF PlacesInv
  <2>5. StepInv
    BY <2>3 DEF StepInv
  <2>6. pc \in Steps /\ acked \in 0..MaxAcked
    BY <2>3
  <2>7. torn \in BOOLEAN
    BY Zenon DEF Init
  <2> QED
    BY <2>4, <2>5, <2>6, <2>7 DEF LegacyInv
<1>2. LegacyInv /\ [Next]_vars => LegacyInv'
  <2> SUFFICES ASSUME LegacyInv, [Next]_vars PROVE LegacyInv'
    OBVIOUS
  <2> USE DEF LegacyInv, PlacesInv, StepInv
  <2>1. CASE OpenLegacy
    BY <2>1 DEF OpenLegacy, Step
  <2>2. CASE OpenDatabase
    BY <2>2, DatabaseIs DEF OpenDatabase, Step
  <2>3. CASE PrepareSchema
    BY <2>3, DatabaseSteps DEF PrepareSchema, Step, Fail
  <2>4. CASE RemoveStale
    BY <2>4 DEF RemoveStale, Step, Fail
  <2>5. CASE OpenMigrating
    BY <2>5, DatabaseIs DEF OpenMigrating, Step, Fail
  <2>6. CASE CreateSchema
    BY <2>6, DatabaseSteps DEF CreateSchema, Step, Fail
  <2>7. CASE Import
    BY <2>7, DatabaseSteps DEF Import, Step, Fail, MayDiscard
  <2>8. CASE CheckBackup
    BY <2>8 DEF CheckBackup, Step, Fail, MayDiscard
  <2>9. CASE Backup
    BY <2>9 DEF Backup, Step, Fail, MayDiscard, Renamed
  <2>10. CASE Replace
    BY <2>10 DEF Replace, Step, Fail, Renamed
  <2>11. CASE Reopen
    BY <2>11 DEF Reopen, Step, Fail
  <2>12. CASE Serve
    <3>1. file' = [file EXCEPT !.path = [file.path EXCEPT !.requests = @ + 1]]
      BY <2>12 DEF Serve
    <3>2. file.path \in Databases /\ file.path.requests = acked /\ acked < MaxAcked
      BY <2>12 DEF Serve
    <3>3. /\ file'.path \in Databases
          /\ file'.path.requests = acked + 1
          /\ file'.path.imported = file.path.imported
      BY <3>1, <3>2, DatabaseSteps
    <3> QED
      BY <2>12, <3>1, <3>2, <3>3 DEF Serve
  <2>13. CASE Crash
    BY <2>13 DEF Crash
  <2>14. CASE UNCHANGED vars
    BY <2>14 DEF vars
  <2> QED
    BY <2>1, <2>2, <2>3, <2>4, <2>5, <2>6, <2>7, <2>8, <2>9, <2>10, <2>11,
       <2>12, <2>13, <2>14 DEF Next
<1> QED
  BY <1>1, <1>2, PTL DEF Spec

\* Open with a JSON state file, whatever fails and wherever it stops: the JSON
\* state and every acknowledged request are kept, and what is served has the
\* old vaults unless the process stopped between the two renames.
THEOREM LegacyMigrationCorrect == Spec => []MigrationLosesNothing
<1>1. LegacyInv => MigrationLosesNothing
  <2>1. \A d \in Databases : d.kind = "database"
    BY DEF Databases
  <2> QED
    BY <2>1, MaxAckedIsNat DEF LegacyInv, PlacesInv, StepInv, MigrationLosesNothing,
       LegacyIsKept, AcknowledgedIsKept, ServesMigratedUnlessTorn, ServesMigrated
<1> QED
  BY <1>1, LegacyInvHolds, PTL

-----------------------------------------------------------------------------
(* SchemaMigration *)

\* A version that was read, or written, stays true however far others have come,
\* because no transaction takes anything away.  Before there is a table of
\* events there are none, which is why the transaction that creates it may start
\* it empty.
SchemaInv ==
  /\ version \in 0..Latest
  /\ schema \subseteq Parts
  /\ Offers(version) \subseteq schema
  /\ migrator \in [Service -> {"down", "migrating", "serving"}]
  /\ known \in [Service -> 0..Latest]
  /\ recorded \in Nat
  /\ "access_events" \notin schema => recorded = 0
  /\ \A s \in Service :
       /\ migrator[s] = "migrating" => known[s] < Latest /\ Offers(known[s]) \subseteq schema
       /\ migrator[s] = "serving" => schema = Parts
  /\ EventsAreKept

\* A transaction without conflicts keeps every part and brings those of the
\* version that it writes.
LEMMA MigratedOffers ==
  ASSUME NEW v \in 0..Latest, v < Latest, schema \subseteq Parts, Offers(v) \subseteq schema
  PROVE  /\ Target(v) \in 0..Latest
         /\ schema \subseteq Migrated(v)
         /\ Migrated(v) \subseteq Parts
         /\ Offers(Target(v)) \subseteq Migrated(v)
<1>1. v \in {0, 1, 2, 3, 4, 5}
  BY DEF Latest
<1>2. CASE v = 0
  BY <1>2 DEF Target, Migrated, Offers, Latest
<1>3. CASE v = 1
  BY <1>3 DEF Target, Migrated, Offers, Since, Parts, Latest
<1>4. CASE v = 2
  BY <1>4 DEF Target, Migrated, Offers, Since, Parts, Latest
<1>5. CASE v = 3
  BY <1>5 DEF Target, Migrated, Offers, Since, Parts, Latest
<1>6. CASE v = 4
  BY <1>6 DEF Target, Migrated, Offers, Since, Parts, Latest
<1>7. CASE v = 5
  BY <1>7 DEF Target, Migrated, Offers, Since, Parts, Latest
<1> QED
  BY <1>1, <1>2, <1>3, <1>4, <1>5, <1>6, <1>7

LEMMA LatestOffersAll == Offers(Latest) = Parts
BY DEF Offers, Since, Latest, Parts

LEMMA SchemaInvHolds == SchemaSpec => []SchemaInv
<1>1. SchemaInit => SchemaInv
  <2> SUFFICES ASSUME SchemaInit PROVE SchemaInv
    OBVIOUS
  <2>1. recorded \in Nat /\ ("access_events" \notin schema => recorded = 0)
    BY DEF SchemaInit
  <2>2. schema \subseteq Parts
    BY DEF SchemaInit, Offers
  <2> QED
    BY <2>1, <2>2 DEF SchemaInit, SchemaInv, EventsAreKept, Latest
<1>2. SchemaInv /\ [SchemaNext]_schemaVars => SchemaInv'
  <2> SUFFICES ASSUME SchemaInv, [SchemaNext]_schemaVars PROVE SchemaInv'
    OBVIOUS
  <2> USE DEF SchemaInv, EventsAreKept
  <2>1. ASSUME NEW s \in Service, ReadVersion(s) PROVE SchemaInv'
    <3>1. UNCHANGED <<version, schema, events, recorded>>
      BY <2>1 DEF ReadVersion
    <3>2. CASE version = Latest
      <4>1. schema = Parts
        BY <3>2, LatestOffersAll
      <4>2. /\ migrator' = [migrator EXCEPT ![s] = "serving"]
            /\ known' = [known EXCEPT ![s] = 0]
        BY <2>1, <3>2 DEF ReadVersion, Go
      <4> QED
        BY <3>1, <4>1, <4>2 DEF Latest
    <3>3. CASE version # Latest
      <4>1. /\ migrator' = [migrator EXCEPT ![s] = "migrating"]
            /\ known' = [known EXCEPT ![s] = version]
        BY <2>1, <3>3 DEF ReadVersion, Go
      <4>2. version < Latest
        BY <3>3 DEF Latest
      <4> QED
        BY <3>1, <4>1, <4>2
    <3> QED
      BY <3>2, <3>3
  <2>2. ASSUME NEW s \in Service, Migrate(s), Conflicts(known[s]) = {} PROVE SchemaInv'
    <3> DEFINE v == known[s]
    <3>1. /\ v \in 0..Latest /\ v < Latest /\ Offers(v) \subseteq schema
          /\ schema \subseteq Parts
      BY <2>2 DEF Migrate
    <3>2. /\ Target(v) \in 0..Latest
          /\ schema \subseteq schema' /\ schema' \subseteq Parts
          /\ Offers(Target(v)) \subseteq schema'
      BY <2>2, <3>1, MigratedOffers DEF Migrate
    <3>3. version' = Target(v) /\ recorded' = recorded
      BY <2>2 DEF Migrate
    <3>4. events' = 1..recorded
      <4>1. CASE v = 2
        <5>1. Conflicts(2) = schema \cap {"access_events"}
          BY DEF Conflicts
        <5>2. recorded = 0
          BY <2>2, <4>1, <5>1
        <5>3. events' = {}
          BY <2>2, <4>1 DEF Migrate, Copied
        <5> QED
          BY <5>2, <5>3
      <4>2. CASE v # 2
        BY <2>2, <4>2 DEF Migrate, Copied
      <4> QED
        BY <4>1, <4>2
    <3>5. CASE Target(v) = Latest
      <4>1. schema' = Parts
        BY <3>2, <3>5, LatestOffersAll
      <4> QED
        BY <2>2, <3>2, <3>3, <3>4, <3>5, <4>1 DEF Migrate, Go, Latest
    <3>6. CASE Target(v) # Latest
      <4>1. Target(v) < Latest
        BY <3>2, <3>6 DEF Latest
      <4>2. /\ migrator' = [migrator EXCEPT ![s] = "migrating"]
            /\ known' = [known EXCEPT ![s] = Target(v)]
        BY <2>2, <3>6 DEF Migrate, Go
      <4> QED
        BY <3>2, <3>3, <3>4, <4>1, <4>2
    <3> QED
      BY <3>5, <3>6
  <2>3. ASSUME NEW s \in Service, Migrate(s), Conflicts(known[s]) # {} PROVE SchemaInv'
    BY <2>3 DEF Migrate, Go, Latest
  <2>4. ASSUME NEW s \in Service, RecordEvent(s) PROVE SchemaInv'
    <3>1. schema = Parts /\ "access_events" \in schema
      BY <2>4 DEF RecordEvent, Parts
    <3>2. events' = 1..recorded'
      BY <2>4 DEF RecordEvent
    <3> QED
      BY <2>4, <3>1, <3>2 DEF RecordEvent
  <2>5. ASSUME NEW s \in Service, KillService(s) PROVE SchemaInv'
    BY <2>5 DEF KillService, Go, Latest
  <2>6. CASE UNCHANGED schemaVars
    BY <2>6 DEF schemaVars
  <2> QED
    BY <2>1, <2>2, <2>3, <2>4, <2>5, <2>6 DEF SchemaNext
<1> QED
  BY <1>1, <1>2, PTL DEF SchemaSpec

\* migrateSchema in any number of processes, from versions that they read too
\* early: whoever serves finds every table, and no event is lost.
THEOREM SchemaMigrationCorrect == SchemaSpec => []MigrationIsComplete
<1>1. SchemaInv => MigrationIsComplete
  BY DEF SchemaInv, MigrationIsComplete, ServesComplete
<1> QED
  BY <1>1, SchemaInvHolds, PTL

-----------------------------------------------------------------------------
(* WorkerService *)

Verified == [device : Device, nonce : Nonce \cup {Unique}, ts : Timestamp,
             pending : BOOLEAN, at : Nat]
Invitations == [state : {"none", "pending"} \cup Ends, expires : Int, failed : Nat,
                actor : Device \cup {"none", "server"}]

WorkerTypes ==
  /\ time \in Nat
  /\ devices \in [Device -> {"none", "active", "revoked"}]
  /\ enrollments \in [Device -> {"none", "pending", "approved"}]
  /\ invitations \in [Device -> Invitations]
  /\ served \in [Connection -> Verified \cup {NoRequest}]
  /\ nonces \subseteq [device : Device, nonce : Nonce, created : Int]
  /\ spent \subseteq [device : Device, nonce : Nonce, ts : Timestamp]

\* Whoever was verified as a member is one, though perhaps revoked since.
ServedAreKnown ==
  \A c \in Connection :
    served[c] # NoRequest /\ ~served[c].pending => devices[served[c].device] # "none"

\* The members, with what makes their agreement inductive: invitations are
\* created in a vault that exists, for devices that enroll with them, and one
\* that is pending has attempts left.
MemberInv ==
  /\ KeepsActiveDevice
  /\ InvitationDecides
  /\ \A d \in Device :
       /\ invitations[d].state # "none" => Exists /\ enrollments[d] # "none"
       /\ invitations[d].state = "pending" => invitations[d].failed < MaxAttempts

\* No request is in its await for longer than Lag, and it was in time at first.
ServedInTime ==
  \A c \in Connection :
    LET r == served[c] IN
    r # NoRequest =>
      /\ r.at <= time /\ time <= r.at + Lag
      /\ (r.ts - TimestampWindow) * Ticks <= r.at
      /\ r.at <= (r.ts + TimestampWindow) * Ticks

\* A request that was reserved is kept out by its row, which is young enough, or
\* by its timestamp for good.
KeptOut(k) ==
  \/ \E row \in nonces : /\ row.device = k.device /\ row.nonce = k.nonce
                         /\ row.created >= k.ts - TimestampWindow
  \/ time > (k.ts + TimestampWindow) * Ticks + Lag

WorkerReplayInv == WorkerNoReplay /\ \A k \in spent : KeptOut(k)

\* A row without a revision is no row.
ObjectRows ==
  /\ objects = [x \in Object |-> objects[x]]
  /\ \A x \in Object : objects[x].revision = 0 => objects[x] = NoRow

WorkerInv ==
  WorkerTypes /\ ServedAreKnown /\ MemberInv /\ ServedInTime /\ WorkerReplayInv /\ ObjectRows

LEMMA TimesMonotonic ==
  ASSUME NEW a \in Int, NEW b \in Int, NEW k \in Nat, a <= b
  PROVE  a * k <= b * k
OBVIOUS

\* canonicalSecond rounds down.
LEMMA SecondOf ==
  ASSUME NEW t \in Int, NEW a \in Int
  PROVE  /\ CanonicalSecond(t) \in Int
         /\ CanonicalSecond(t) >= a <=> t >= a * Ticks
<1>1. Ticks \in Nat /\ Ticks > 0
  BY WorkerConstants
<1> DEFINE q == t \div Ticks
<1>2. q \in Int /\ t >= q * Ticks /\ t < (q + 1) * Ticks
  BY <1>1
<1>3. CASE q >= a
  BY <1>1, <1>2, <1>3, TimesMonotonic DEF CanonicalSecond
<1>4. CASE q + 1 <= a
  BY <1>1, <1>2, <1>4, TimesMonotonic DEF CanonicalSecond
<1> QED
  BY <1>2, <1>3, <1>4 DEF CanonicalSecond

\* A row is retained as long as a request that it keeps out can be in an await.
LEMMA RetainedLongEnough ==
  ASSUME NEW created \in Int, NEW ts \in Timestamp, time \in Nat,
         created >= ts - TimestampWindow,
         time <= (ts + TimestampWindow) * Ticks + Lag
  PROVE  created >= CanonicalSecond(time - NonceRetention * Ticks)
<1>1. /\ ts \in Nat /\ TimestampWindow \in Nat /\ NonceRetention \in Nat
      /\ Ticks \in Nat /\ Lag \in Nat /\ Lag < Ticks
      /\ NonceRetention >= 2 * TimestampWindow
  BY WorkerConstants
<1> DEFINE t == time - NonceRetention * Ticks
<1>2. t \in Int /\ CanonicalSecond(t) \in Int
  BY <1>1, SecondOf
<1>3. SUFFICES ASSUME CanonicalSecond(t) >= created + 1 PROVE FALSE
  BY <1>2
<1>4. t >= (created + 1) * Ticks
  BY <1>2, <1>3, SecondOf
<1>5. (ts + TimestampWindow + 1) * Ticks <= (created + 1 + NonceRetention) * Ticks
  <2>1. ts + TimestampWindow + 1 <= created + 1 + NonceRetention
    BY <1>1
  <2> QED
    BY <2>1, <1>1, TimesMonotonic
<1>6. (created + 1 + NonceRetention) * Ticks = (created + 1) * Ticks + NonceRetention * Ticks
  BY <1>1
<1>7. (ts + TimestampWindow + 1) * Ticks = (ts + TimestampWindow) * Ticks + Ticks
  BY <1>1
<1> HIDE <1>3
<1>8. (created + 1) * Ticks \in Int /\ NonceRetention * Ticks \in Int
      /\ (ts + TimestampWindow) * Ticks \in Int
  BY <1>1
<1> QED
  BY <1>1, <1>4, <1>5, <1>6, <1>7, <1>8

\* Of two or more, one remains.
LEMMA AnotherOne ==
  ASSUME NEW S, IsFiniteSet(S), Cardinality(S) > 1, NEW d \in S
  PROVE  \E e \in S : e # d
<1>1. SUFFICES ASSUME S = {d} PROVE FALSE
  OBVIOUS
<1>2. Cardinality({d}) = 1
  BY FS_Singleton
<1> QED
  BY <1>1, <1>2

-----------------------------------------------------------------------------
LEMMA TicksOf ==
  ASSUME NEW a \in Int
  PROVE  a * Ticks \in Int
BY WorkerConstants

\* What reserve does, whatever the handler goes on to do.
LEMMA ReserveTypes ==
  ASSUME WorkerTypes, NEW c \in Connection, Reserve(c)
  PROVE  /\ served[c] \in Verified
         /\ served' = [served EXCEPT ![c] = NoRequest]
         /\ served' \in [Connection -> Verified \cup {NoRequest}]
         /\ time' = time
         /\ nonces' \subseteq [device : Device, nonce : Nonce, created : Int]
         /\ spent' \subseteq [device : Device, nonce : Nonce, ts : Timestamp]
<1>1. served[c] \in Verified /\ time' = time /\ served' = [served EXCEPT ![c] = NoRequest]
  BY DEF Reserve, WorkerTypes
<1>2. served' \in [Connection -> Verified \cup {NoRequest}]
  BY <1>1 DEF WorkerTypes
<1>3. Retained \subseteq [device : Device, nonce : Nonce, created : Int]
  BY DEF Retained, WorkerTypes
<1>4. CASE served[c].nonce = Unique
  BY <1>1, <1>2, <1>3, <1>4 DEF Reserve, WorkerTypes
<1>5. CASE served[c].nonce # Unique
  <2>1. Row(served[c]) \in [device : Device, nonce : Nonce, created : Int]
    BY <1>1, <1>5, SecondOf DEF Row, Verified, WorkerTypes
  <2>2. Key(served[c]) \in [device : Device, nonce : Nonce, ts : Timestamp]
    BY <1>1, <1>5 DEF Key, Verified
  <2>3. nonces' = Retained \cup {Row(served[c])} /\ spent' = spent \cup {Key(served[c])}
    BY <1>5 DEF Reserve
  <2> QED
    BY <1>1, <1>2, <1>3, <2>1, <2>2, <2>3 DEF WorkerTypes
<1> QED
  BY <1>4, <1>5

\* No request is reserved twice: the row of the first time is still there.
LEMMA ReserveOnce ==
  ASSUME WorkerTypes, ServedInTime, WorkerReplayInv, NEW c \in Connection, Reserve(c)
  PROVE  WorkerReplayInv'
<1> DEFINE r == served[c]
<1>1. /\ r \in Verified /\ time' = time /\ time \in Nat
      /\ spent \subseteq [device : Device, nonce : Nonce, ts : Timestamp]
      /\ nonces \subseteq [device : Device, nonce : Nonce, created : Int]
      /\ r # NoRequest
  BY ReserveTypes DEF WorkerTypes, Reserve
<1>2. /\ r.at <= time /\ time <= r.at + Lag
      /\ (r.ts - TimestampWindow) * Ticks <= r.at
      /\ r.at <= (r.ts + TimestampWindow) * Ticks
  BY <1>1 DEF ServedInTime
<1>3. /\ TimestampWindow \in Nat /\ Ticks \in Nat /\ Lag \in Nat /\ Timestamp \subseteq Nat
  BY WorkerConstants
<1>4. Retained \subseteq nonces'
  BY DEF Reserve
<1>5. ASSUME NEW k \in spent, ~(time > (k.ts + TimestampWindow) * Ticks + Lag)
      PROVE  \E row \in Retained : /\ row.device = k.device /\ row.nonce = k.nonce
                                   /\ row.created >= k.ts - TimestampWindow
  <2>1. PICK row \in nonces : /\ row.device = k.device /\ row.nonce = k.nonce
                              /\ row.created >= k.ts - TimestampWindow
    BY <1>5 DEF WorkerReplayInv, KeptOut
  <2>2. k.ts \in Timestamp /\ row.created \in Int
    BY <1>1, <1>5
  <2>3. time <= (k.ts + TimestampWindow) * Ticks + Lag
    <3>1. k.ts \in Nat
      BY <1>3, <2>2
    <3>2. k.ts + TimestampWindow \in Int
      BY <1>3, <3>1
    <3>3. (k.ts + TimestampWindow) * Ticks \in Int
      BY <3>2, TicksOf
    <3> QED
      BY <1>1, <1>3, <1>5, <3>3
  <2>4. row.created >= CanonicalSecond(time - NonceRetention * Ticks)
    BY <1>1, <2>1, <2>2, <2>3, RetainedLongEnough
  <2> QED
    BY <2>1, <2>4 DEF Retained
<1>6. ASSUME NEW k \in spent PROVE KeptOut(k)'
  BY <1>1, <1>4, <1>5 DEF KeptOut
<1>7. CASE r.nonce = Unique
  BY <1>6, <1>7 DEF Reserve, WorkerReplayInv, WorkerNoReplay
<1>8. CASE r.nonce # Unique
  <2>1. /\ Key(r).device = r.device /\ Key(r).nonce = r.nonce /\ Key(r).ts = r.ts
        /\ Row(r).device = r.device /\ Row(r).nonce = r.nonce
        /\ Row(r).created = CanonicalSecond(time)
    BY DEF Key, Row
  <2>2. r.ts \in Nat /\ r.at \in Nat /\ (r.ts + TimestampWindow) * Ticks \in Int
        /\ (r.ts - TimestampWindow) * Ticks \in Int
    <3>1. r.ts \in Nat /\ r.at \in Nat
      BY <1>1, <1>3 DEF Verified
    <3>2. r.ts + TimestampWindow \in Int /\ r.ts - TimestampWindow \in Int
      BY <1>3, <3>1
    <3> QED
      BY <3>1, <3>2, TicksOf
  <2>3. Key(r) \notin spent
    <3>1. SUFFICES ASSUME Key(r) \in spent PROVE FALSE
      OBVIOUS
    <3>2. ~(time > (r.ts + TimestampWindow) * Ticks + Lag)
      BY <1>1, <1>2, <1>3, <2>2
    <3>3. PICK row \in Retained : row.device = r.device /\ row.nonce = r.nonce
      BY <1>5, <2>1, <3>1, <3>2
    <3> QED
      BY <1>8, <3>3 DEF Reserve
  <2>4. Row(r) \in nonces'
    BY <1>8 DEF Reserve
  <2>5. CanonicalSecond(time) >= r.ts - TimestampWindow
    <3>1. time >= (r.ts - TimestampWindow) * Ticks
      BY <1>1, <1>2, <2>2
    <3>2. r.ts - TimestampWindow \in Int
      BY <1>3, <2>2
    <3> QED
      BY <1>1, <3>1, <3>2, SecondOf
  <2>6. PICK k, row : k = Key(r) /\ row = Row(r)
    OBVIOUS
  <2>7. KeptOut(k)'
    BY <2>1, <2>4, <2>5, <2>6 DEF KeptOut
  <2>8. replayed' = (replayed \/ Key(r) \in spent) /\ spent' = spent \cup {Key(r)}
    BY <1>8 DEF Reserve
  <2>9. WorkerNoReplay'
    BY <2>3, <2>8 DEF WorkerReplayInv, WorkerNoReplay
  <2> QED
    BY <1>6, <2>7, <2>8, <2>9, <2>6 DEF WorkerReplayInv
<1> QED
  BY <1>7, <1>8

-----------------------------------------------------------------------------
MemberTypes ==
  /\ devices \in [Device -> {"none", "active", "revoked"}]
  /\ enrollments \in [Device -> {"none", "pending", "approved"}]
  /\ invitations \in [Device -> Invitations]

\* No device is ever forgotten.
DevicesStay == \A d \in Device : devices[d] # "none" => devices'[d] # "none"

\* All that a step must do for the members.
MembersAreFine ==
  MemberTypes' /\ MemberInv' /\ DevicesStay /\ ChangesAreOfActive /\ InvitationsEndOnce

\* Steps that leave the members alone, and the stores or the right to change them.
LEMMA OtherStep ==
  ASSUME WorkerTypes, MemberInv, UNCHANGED memberVars, UNCHANGED storeVars \/ ActsForActive
  PROVE  MembersAreFine
<1>1. devices' = devices /\ enrollments' = enrollments /\ invitations' = invitations
  BY DEF memberVars
<1>2. MemberTypes' /\ MemberInv' /\ DevicesStay
  BY <1>1 DEF WorkerTypes, MemberTypes, MemberInv, KeepsActiveDevice, InvitationDecides,
              Exists, Active, DevicesStay
<1>3. ChangesAreOfActive
  BY <1>1 DEF ChangesAreOfActive
<1>4. InvitationsEndOnce
  BY <1>1 DEF InvitationsEndOnce
<1> QED
  BY <1>2, <1>3, <1>4 DEF MembersAreFine

LEMMA InitializeStep ==
  ASSUME WorkerTypes, MemberInv, Initialize
  PROVE  MembersAreFine
<1>1. /\ devices' = [devices EXCEPT ![Founder] = "active"] /\ Founder \in Device
      /\ UNCHANGED <<enrollments, invitations, storeVars>>
      /\ ~Exists
  BY WorkerConstants DEF Initialize
<1>2. \A d \in Device : devices[d] = "none" /\ invitations[d].state = "none"
  BY <1>1 DEF Exists, MemberInv
<1>3. devices'[Founder] = "active" /\ Exists' /\ Founder \in Active'
  BY <1>1 DEF WorkerTypes, Exists, Active
<1>4. MemberTypes'
  BY <1>1 DEF WorkerTypes, MemberTypes
<1>5. MemberInv'
  BY <1>1, <1>2, <1>3 DEF MemberInv, KeepsActiveDevice, InvitationDecides
<1>6. DevicesStay
  BY <1>2 DEF DevicesStay
<1>7. ChangesAreOfActive
  BY <1>1 DEF ChangesAreOfActive
<1>8. InvitationsEndOnce
  BY <1>1 DEF InvitationsEndOnce
<1> QED
  BY <1>4, <1>5, <1>6, <1>7, <1>8 DEF MembersAreFine

LEMMA RequestStep ==
  ASSUME WorkerTypes, MemberInv, NEW d \in Device, RequestEnrollment(d)
  PROVE  MembersAreFine
<1>1. /\ enrollments' = [enrollments EXCEPT ![d] = "pending"]
      /\ UNCHANGED <<devices, invitations, storeVars>>
  BY DEF RequestEnrollment
<1>2. MemberTypes' /\ MemberInv' /\ DevicesStay
  BY <1>1 DEF WorkerTypes, MemberTypes, MemberInv, KeepsActiveDevice, InvitationDecides,
              Exists, Active, DevicesStay
<1>3. ChangesAreOfActive /\ InvitationsEndOnce
  BY <1>1 DEF ChangesAreOfActive, InvitationsEndOnce
<1> QED
  BY <1>2, <1>3 DEF MembersAreFine

LEMMA CreateStep ==
  ASSUME WorkerTypes, MemberInv, NEW d \in Device, CreateInvitation(d)
  PROVE  MembersAreFine
<1> DEFINE new == [state |-> "pending", failed |-> 0, actor |-> "none",
                   expires |-> CanonicalSecond(time + InvitationLifetime * Ticks)]
<1>1. /\ Exists /\ devices[d] = "none" /\ enrollments[d] = "none"
      /\ enrollments' = [enrollments EXCEPT ![d] = "pending"]
      /\ invitations' = [invitations EXCEPT ![d] = new]
      /\ UNCHANGED <<devices, storeVars>>
  BY DEF CreateInvitation
<1>2. time + InvitationLifetime * Ticks \in Int
  <2>1. InvitationLifetime \in Int
    BY WorkerConstants
  <2>2. InvitationLifetime * Ticks \in Int
    BY <2>1, TicksOf
  <2> QED
    BY <2>2 DEF WorkerTypes
<1>3. new \in Invitations /\ new.state = "pending" /\ new.failed = 0
  BY <1>2, SecondOf DEF Invitations
<1> HIDE DEF new
<1>4. MemberTypes'
  BY <1>1, <1>3 DEF WorkerTypes, MemberTypes
<1>5. invitations[d].state = "none"
  BY <1>1 DEF MemberInv
<1>6. Exists' /\ KeepsActiveDevice' /\ DevicesStay
  BY <1>1 DEF MemberInv, KeepsActiveDevice, Exists, Active, DevicesStay
<1>7. 0 < MaxAttempts
  BY WorkerConstants
<1>8. MemberInv'
  BY <1>1, <1>3, <1>6, <1>7 DEF MemberInv, InvitationDecides, WorkerTypes
<1>9. ChangesAreOfActive
  BY <1>1 DEF ChangesAreOfActive
<1>10. InvitationsEndOnce
  BY <1>1, <1>5 DEF InvitationsEndOnce, WorkerTypes
<1> QED
  BY <1>4, <1>6, <1>8, <1>9, <1>10 DEF MembersAreFine

\* reserve finds a member, if one was verified, to be active still.
LEMMA ReserveActive ==
  ASSUME WorkerTypes, ServedAreKnown, NEW c \in Connection, Reserve(c), ~served[c].pending
  PROVE  served[c].device \in Active /\ ActsForActive
<1>1. /\ served[c] \in Verified /\ served[c] # NoRequest
      /\ served' = [served EXCEPT ![c] = NoRequest]
  BY ReserveTypes DEF Reserve
<1>2. served[c].device \in Device /\ devices[served[c].device] # "none"
  BY <1>1 DEF Verified, ServedAreKnown
<1>3. served[c].device \in Active
  BY <1>2 DEF Reserve, StillKnown, Pending, Active
<1>4. served'[c] = NoRequest
  BY <1>1 DEF WorkerTypes
<1> QED
  BY <1>1, <1>3, <1>4 DEF ActsForActive

\* A device joins, by an enrollment or by an invitation that is approved.
LEMMA JoinStep ==
  ASSUME WorkerTypes, MemberInv, NEW d \in Device, Join(d), ActsForActive,
         enrollments[d] # "none",
         \/ UNCHANGED invitations /\ invitations[d].state = "none"
         \/ /\ invitations[d].state = "pending"
            /\ \E a \in Active :
                 invitations' = [invitations EXCEPT ![d].state = "approved", ![d].actor = a]
            /\ CanonicalSecond(time) < invitations[d].expires
  PROVE  MembersAreFine
<1>1. /\ devices' = [devices EXCEPT ![d] = "active"]
      /\ enrollments' = [enrollments EXCEPT ![d] = "approved"]
  BY DEF Join
<1>2. d \in Active' /\ Exists' /\ KeepsActiveDevice' /\ DevicesStay
  BY <1>1 DEF WorkerTypes, Active, Exists, KeepsActiveDevice, DevicesStay
<1>3. ChangesAreOfActive
  BY DEF ChangesAreOfActive
<1>4. CASE UNCHANGED invitations /\ invitations[d].state = "none"
  <2>1. MemberTypes'
    BY <1>1, <1>4 DEF WorkerTypes, MemberTypes
  <2>2. MemberInv'
    BY <1>1, <1>2, <1>4 DEF WorkerTypes, MemberInv, InvitationDecides
  <2>3. InvitationsEndOnce
    BY <1>4 DEF InvitationsEndOnce
  <2> QED
    BY <1>2, <1>3, <2>1, <2>2, <2>3 DEF MembersAreFine
<1>5. ASSUME invitations[d].state = "pending",
             NEW a \in Active,
             invitations' = [invitations EXCEPT ![d].state = "approved", ![d].actor = a],
             CanonicalSecond(time) < invitations[d].expires
      PROVE  MembersAreFine
  <2>1. a \in Device
    BY DEF Active
  <2>2. /\ invitations' \in [Device -> Invitations]
        /\ \A e \in Device : e # d => invitations'[e] = invitations[e]
        /\ invitations'[d].state = "approved" /\ invitations'[d].actor = a
        /\ invitations'[d].failed = invitations[d].failed
    <3> DEFINE n == [invitations[d] EXCEPT !.state = "approved", !.actor = a]
    <3>1. invitations' = [invitations EXCEPT ![d] = n]
      BY <1>5 DEF WorkerTypes
    <3>2. n \in Invitations /\ n.state = "approved" /\ n.actor = a
          /\ n.failed = invitations[d].failed
      <4>1. invitations[d] \in Invitations /\ "approved" \in {"none", "pending"} \cup Ends
        BY DEF WorkerTypes, Ends
      <4> QED
        BY <2>1, <4>1 DEF Invitations
    <3> HIDE DEF n
    <3> QED
      BY <3>1, <3>2 DEF WorkerTypes
  <2>3. MemberTypes'
    BY <1>1, <2>2 DEF WorkerTypes, MemberTypes
  <2>4. MemberInv'
    BY <1>1, <1>2, <2>2 DEF WorkerTypes, MemberInv, InvitationDecides
  <2>5. invitations[d].failed \in Nat /\ invitations[d].failed < MaxAttempts
    BY <1>5 DEF WorkerTypes, Invitations, MemberInv
  <2>6. InvitationsEndOnce
    <3>1. MaxAttempts \in Nat /\ a \in Active
      BY WorkerConstants
    <3>2. /\ invitations'[d].state \notin {"cancelled", "expired", "attempts_exhausted"}
          /\ invitations'[d].failed # MaxAttempts
          /\ invitations'[d].actor \in Active
      BY <2>2, <2>5, <3>1
    <3> QED
      BY <1>5, <2>2, <3>2 DEF InvitationsEndOnce
  <2> QED
    BY <1>2, <1>3, <2>3, <2>4, <2>6 DEF MembersAreFine
<1> QED
  BY <1>4, <1>5

LEMMA RevokeStep ==
  ASSUME WorkerTypes, ServedAreKnown, MemberInv, NEW c \in Connection, NEW d \in Device,
         RevokeDevice(c, d)
  PROVE  MembersAreFine
<1>1. /\ devices' = [devices EXCEPT ![d] = "revoked"] /\ d \in Active
      /\ UNCHANGED <<enrollments, invitations, storeVars>>
      /\ Cardinality(Active) > 1
  BY DEF RevokeDevice, Revocable
<1>2. IsFiniteSet(Active)
  BY WorkerConstants, FS_Subset DEF Active
<1>3. PICK e \in Active : e # d
  BY <1>1, <1>2, AnotherOne
<1>4. e \in Active' /\ KeepsActiveDevice'
  BY <1>1, <1>3 DEF WorkerTypes, Active, KeepsActiveDevice
<1>5. MemberTypes' /\ DevicesStay /\ Exists'
  BY <1>1 DEF WorkerTypes, MemberTypes, DevicesStay, Exists, Active
<1>6. MemberInv'
  BY <1>1, <1>4, <1>5 DEF WorkerTypes, MemberInv, InvitationDecides, Active
<1>7. ChangesAreOfActive
  BY ReserveActive DEF RevokeDevice, ChangesAreOfActive
<1>8. InvitationsEndOnce
  BY <1>1 DEF InvitationsEndOnce
<1> QED
  BY <1>5, <1>6, <1>7, <1>8 DEF MembersAreFine

\* Some invitations whose time is over expire.
LEMMA ExpireStep ==
  ASSUME WorkerTypes, MemberInv, NEW S, invitations' = Expired(S),
         UNCHANGED <<devices, enrollments, storeVars>>
  PROVE  MembersAreFine
<1>1. ASSUME NEW d \in Device
      PROVE  \/ invitations'[d] = invitations[d]
             \/ /\ invitations[d].state = "pending"
                /\ invitations[d].expires <= CanonicalSecond(time)
                /\ invitations'[d] \in Invitations
                /\ invitations'[d].state = "expired"
                /\ invitations'[d].failed = invitations[d].failed
  BY DEF Expired, Due, WorkerTypes, Invitations, Ends
<1>2. invitations' \in [Device -> Invitations]
  BY <1>1 DEF Expired, WorkerTypes
<1>3. MemberTypes' /\ DevicesStay /\ KeepsActiveDevice' /\ Exists' = Exists
  BY <1>2 DEF WorkerTypes, MemberTypes, DevicesStay, MemberInv, KeepsActiveDevice, Exists, Active
<1>4. MemberInv'
  BY <1>1, <1>3 DEF MemberInv, InvitationDecides
<1>5. ChangesAreOfActive
  BY DEF ChangesAreOfActive
<1>6. InvitationsEndOnce
  <2>1. ASSUME NEW d \in Device
        PROVE  /\ invitations[d].expires \in Int /\ CanonicalSecond(time) \in Int
               /\ invitations[d].failed \in Nat
    BY SecondOf DEF WorkerTypes, Invitations
  <2> QED
    BY <1>1, <2>1, WorkerConstants DEF InvitationsEndOnce, MemberInv
<1> QED
  BY <1>3, <1>4, <1>5, <1>6 DEF MembersAreFine

\* reject, cancel
LEMMA EndStep ==
  ASSUME WorkerTypes, MemberInv, NEW d \in Device, NEW a \in Device,
         NEW action \in {"rejected", "cancelled"},
         invitations' = [invitations EXCEPT ![d].state = action, ![d].actor = a],
         invitations[d].state = "pending",
         CanonicalSecond(time) < invitations[d].expires,
         action = "rejected" => a \in Active, action = "cancelled" => a = d,
         UNCHANGED <<devices, enrollments, storeVars>>
  PROVE  MembersAreFine
<1>1. /\ invitations' \in [Device -> Invitations]
      /\ \A e \in Device : e # d => invitations'[e] = invitations[e]
      /\ invitations'[d].state = action /\ invitations'[d].actor = a
      /\ invitations'[d].failed = invitations[d].failed
  BY DEF WorkerTypes, Invitations, Ends
<1>2. MemberTypes' /\ DevicesStay /\ KeepsActiveDevice' /\ Exists' = Exists
  BY <1>1 DEF WorkerTypes, MemberTypes, DevicesStay, MemberInv, KeepsActiveDevice, Exists, Active
<1>3. MemberInv'
  BY <1>1, <1>2 DEF MemberInv, InvitationDecides
<1>4. ChangesAreOfActive
  BY DEF ChangesAreOfActive
<1>5. invitations[d].failed \in Nat /\ invitations[d].failed < MaxAttempts
  BY DEF WorkerTypes, Invitations, MemberInv
<1>6. InvitationsEndOnce
  BY <1>1, <1>5, WorkerConstants DEF InvitationsEndOnce
<1> QED
  BY <1>2, <1>3, <1>4, <1>6 DEF MembersAreFine

LEMMA FailedStep ==
  ASSUME WorkerTypes, MemberInv, NEW d \in Device, NEW c \in Connection, FailedTransition(c, d)
  PROVE  MembersAreFine
<1> DEFINE failed == invitations[d].failed + 1
<1>1. served[c].device \in Device
  BY ReserveTypes DEF FailedTransition, Verified
<1>2. /\ invitations[d].state = "pending" /\ invitations[d].failed < MaxAttempts
      /\ invitations[d].failed \in Nat /\ MaxAttempts \in Nat
      /\ UNCHANGED <<devices, enrollments, storeVars>>
  BY WorkerConstants DEF FailedTransition, Open, MemberInv, WorkerTypes, Invitations
<1>3. /\ invitations' \in [Device -> Invitations]
      /\ \A e \in Device : e # d => invitations'[e] = invitations[e]
      /\ invitations'[d].failed = failed
      /\ invitations'[d].state = IF failed >= MaxAttempts THEN "attempts_exhausted" ELSE "pending"
  <2> DEFINE over == failed >= MaxAttempts
             n == [invitations[d] EXCEPT
                     !.failed = failed,
                     !.state = IF over THEN "attempts_exhausted" ELSE @,
                     !.actor = IF over THEN served[c].device ELSE @]
  <2>1. invitations' = [invitations EXCEPT ![d] = n]
    BY DEF FailedTransition, Exhausted, WorkerTypes
  <2>2. /\ n \in Invitations /\ n.failed = failed
        /\ n.state = IF over THEN "attempts_exhausted" ELSE "pending"
    <3>1. failed \in Nat /\ invitations[d] \in Invitations
      BY <1>2 DEF WorkerTypes
    <3>2. CASE over
      BY <1>1, <1>2, <3>1, <3>2 DEF Invitations, Ends
    <3>3. CASE ~over
      BY <1>1, <1>2, <3>1, <3>3 DEF Invitations, Ends
    <3> QED
      BY <3>2, <3>3
  <2> HIDE DEF n
  <2> QED
    BY <2>1, <2>2 DEF WorkerTypes
<1>4. MemberTypes' /\ DevicesStay /\ KeepsActiveDevice' /\ Exists' = Exists
  BY <1>2, <1>3 DEF WorkerTypes, MemberTypes, DevicesStay, MemberInv, KeepsActiveDevice, Exists, Active
<1>5. MemberInv'
  BY <1>2, <1>3, <1>4 DEF MemberInv, InvitationDecides
<1>6. ChangesAreOfActive
  BY <1>2 DEF ChangesAreOfActive
<1>7. InvitationsEndOnce
  BY <1>2, <1>3 DEF InvitationsEndOnce
<1> QED
  BY <1>4, <1>5, <1>6, <1>7 DEF MembersAreFine

LEMMA TransitionStep ==
  ASSUME WorkerTypes, ServedAreKnown, MemberInv, NEW c \in Connection, NEW d \in Device,
         NEW action \in {"approved", "rejected", "cancelled"}, Transition(c, d, action)
  PROVE  MembersAreFine
<1> DEFINE a == served[c].device
<1>1. /\ a \in Device /\ served[c] # NoRequest
      /\ served' = [served EXCEPT ![c] = NoRequest]
  BY ReserveTypes DEF Transition, Reserve, Verified
<1>2. /\ invitations[d].state = "pending" /\ CanonicalSecond(time) < invitations[d].expires
      /\ invitations' = [invitations EXCEPT ![d].state = action, ![d].actor = a]
      /\ Entitled(a, d, action)
      /\ UNCHANGED storeVars
  <2>1. invitations[d].expires \in Int /\ CanonicalSecond(time) \in Int
    BY SecondOf DEF WorkerTypes, Invitations
  <2> QED
    BY <2>1 DEF Transition, Open, Due
<1>3. CASE action = "approved"
  <2>1. a \in Active /\ ActsForActive /\ Join(d)
    BY <1>1, <1>2, <1>3 DEF Entitled, ActsForActive, WorkerTypes, Transition
  <2>2. enrollments[d] # "none"
    BY <1>2 DEF MemberInv
  <2> QED
    BY <1>2, <1>3, <2>1, <2>2, JoinStep
<1>4. CASE action # "approved"
  <2>1. UNCHANGED <<devices, enrollments, storeVars>>
    BY <1>2, <1>4 DEF Transition
  <2>2. (action = "rejected" => a \in Active) /\ (action = "cancelled" => a = d)
    BY <1>2 DEF Entitled
  <2> QED
    BY <1>1, <1>2, <1>4, <2>1, <2>2, EndStep
<1> QED
  BY <1>3, <1>4

\* Whatever a handler goes on to do, it is fine for the members.
LEMMA ContinueStep ==
  ASSUME WorkerTypes, ServedAreKnown, MemberInv, NEW c \in Connection, Continue(c)
  PROVE  MembersAreFine
<1>1. CASE Read(c)
  BY <1>1, OtherStep DEF Read
<1>2. CASE Drop(c)
  BY <1>2, OtherStep DEF Drop
<1>3. CASE ListInvitations(c)
  BY <1>3, ExpireStep DEF ListInvitations
<1>4. ASSUME NEW d \in Device, ApproveEnrollment(c, d) PROVE MembersAreFine
  <2>1. ActsForActive
    BY <1>4, ReserveActive DEF ApproveEnrollment
  <2> QED
    BY <1>4, <2>1, JoinStep DEF ApproveEnrollment, Approvable
<1>5. ASSUME NEW d \in Device, RevokeDevice(c, d) PROVE MembersAreFine
  BY <1>5, RevokeStep
<1>6. ASSUME NEW d \in Device, GetInvitation(c, d) PROVE MembersAreFine
  BY <1>6, ExpireStep DEF GetInvitation
<1>7. ASSUME NEW d \in Device, ExpireFirst(c, d) PROVE MembersAreFine
  BY <1>7, ExpireStep DEF ExpireFirst
<1>8. ASSUME NEW d \in Device, FailedTransition(c, d) PROVE MembersAreFine
  BY <1>8, FailedStep
<1>9. ASSUME NEW d \in Device, NEW action \in {"approved", "rejected", "cancelled"},
             Transition(c, d, action)
      PROVE  MembersAreFine
  BY <1>9, TransitionStep
<1>10. ASSUME NEW x, NEW expected, NEW v, PutRecord(c, x, expected, v) PROVE MembersAreFine
  BY <1>10, OtherStep, ReserveActive DEF PutRecord
<1>11. ASSUME NEW x, NEW expected, NEW v, PutObject(c, x, expected, v) PROVE MembersAreFine
  BY <1>11, OtherStep, ReserveActive DEF PutObject
<1>12. ASSUME NEW x, NEW expected, DeleteObject(c, x, expected) PROVE MembersAreFine
  BY <1>12, OtherStep, ReserveActive DEF DeleteObject
<1> QED
  BY <1>1, <1>2, <1>3, <1>4, <1>5, <1>6, <1>7, <1>8, <1>9, <1>10, <1>11, <1>12 DEF Continue

LEMMA WorkerStep ==
  ASSUME WorkerTypes, ServedAreKnown, MemberInv, [WorkerNext]_workerVars
  PROVE  MembersAreFine
<1>1. CASE Initialize
  BY <1>1, InitializeStep
<1>2. ASSUME NEW d \in Device, RequestEnrollment(d) PROVE MembersAreFine
  BY <1>2, RequestStep
<1>3. ASSUME NEW d \in Device, CreateInvitation(d) PROVE MembersAreFine
  BY <1>3, CreateStep
<1>4. ASSUME NEW c \in Connection, NEW r \in Request, Authenticate(c, r) PROVE MembersAreFine
  BY <1>4, OtherStep DEF Authenticate
<1>5. ASSUME NEW c \in Connection, Continue(c) PROVE MembersAreFine
  BY <1>5, ContinueStep
<1>6. CASE Elapse
  BY <1>6, OtherStep DEF Elapse
<1>7. CASE UNCHANGED workerVars
  BY <1>7, OtherStep DEF workerVars, memberVars, storeVars
<1> QED
  BY <1>1, <1>2, <1>3, <1>4, <1>5, <1>6, <1>7 DEF WorkerNext

\* A handler ends its request, with a reservation or without.
LEMMA ContinueEnds ==
  ASSUME NEW c \in Connection, Continue(c)
  PROVE  \/ Reserve(c)
         \/ /\ served' = [served EXCEPT ![c] = NoRequest]
            /\ UNCHANGED <<time, nonceVars>>
BY DEF Continue, Read, Drop, ListInvitations, ApproveEnrollment, RevokeDevice, GetInvitation,
       ExpireFirst, FailedTransition, Transition, PutRecord, PutObject, DeleteObject

\* The requests under way, and the reservations.
LEMMA ServedStep ==
  ASSUME WorkerInv, [WorkerNext]_workerVars
  PROVE  WorkerTypes' /\ ServedAreKnown' /\ ServedInTime' /\ WorkerReplayInv'
<1>1. MemberTypes' /\ DevicesStay
  BY WorkerStep DEF WorkerInv, MembersAreFine
<1>2. WorkerTypes /\ ServedAreKnown /\ ServedInTime /\ WorkerReplayInv
  BY DEF WorkerInv
\* Nothing is served that was not, and time does not pass.
<1>3. ASSUME UNCHANGED <<time, nonceVars>>,
             served' \in [Connection -> Verified \cup {NoRequest}],
             \A c \in Connection : served'[c] \in {served[c], NoRequest}
      PROVE  WorkerTypes' /\ ServedAreKnown' /\ ServedInTime' /\ WorkerReplayInv'
  <2>1. WorkerTypes'
    BY <1>1, <1>2, <1>3 DEF WorkerTypes, MemberTypes, nonceVars
  <2>2. ServedAreKnown'
    BY <1>1, <1>2, <1>3 DEF ServedAreKnown, DevicesStay, WorkerTypes, Verified
  <2>3. ServedInTime'
    BY <1>2, <1>3 DEF ServedInTime
  <2>4. WorkerReplayInv'
    BY <1>2, <1>3 DEF WorkerReplayInv, WorkerNoReplay, KeptOut, nonceVars
  <2> QED
    BY <2>1, <2>2, <2>3, <2>4
<1>4. CASE Initialize
  BY <1>2, <1>3, <1>4 DEF Initialize, WorkerTypes
<1>5. ASSUME NEW d \in Device, RequestEnrollment(d) \/ CreateInvitation(d)
      PROVE  WorkerTypes' /\ ServedAreKnown' /\ ServedInTime' /\ WorkerReplayInv'
  BY <1>2, <1>3, <1>5 DEF RequestEnrollment, CreateInvitation, WorkerTypes
<1>6. ASSUME NEW c \in Connection, NEW r \in Request, Authenticate(c, r)
      PROVE  WorkerTypes' /\ ServedAreKnown' /\ ServedInTime' /\ WorkerReplayInv'
  <2> DEFINE v == [device |-> r.device, nonce |-> r.nonce, ts |-> r.ts,
                   pending |-> r.pending, at |-> time]
  <2>1. /\ served' = [served EXCEPT ![c] = v] /\ UNCHANGED <<time, nonceVars>>
        /\ UNCHANGED memberVars
    BY <1>6 DEF Authenticate
  <2>2. /\ v \in Verified /\ v.device = r.device /\ v.ts = r.ts /\ v.pending = r.pending
        /\ v.at = time /\ r.device \in Device /\ r.ts \in Nat /\ r.pending \in BOOLEAN
    BY <1>2, WorkerConstants DEF Verified, Request, WorkerTypes
  <2>3. /\ (r.ts - TimestampWindow) * Ticks <= time
        /\ time <= (r.ts + TimestampWindow) * Ticks
    <3>1. TimestampWindow \in Nat /\ Ticks \in Nat /\ Lag \in Nat /\ time \in Nat
      BY <1>2, WorkerConstants DEF WorkerTypes
    <3>2. PICK ts \in Nat : ts = r.ts
      BY <2>2
    <3>3. time - ts * Ticks \in (-TimestampWindow * Ticks)..(TimestampWindow * Ticks)
      BY <1>6, <3>2 DEF Authenticate, Timely
    <3>4. /\ (ts - TimestampWindow) * Ticks = ts * Ticks - TimestampWindow * Ticks
          /\ (ts + TimestampWindow) * Ticks = ts * Ticks + TimestampWindow * Ticks
          /\ -TimestampWindow * Ticks = -(TimestampWindow * Ticks)
          /\ ts * Ticks \in Int /\ TimestampWindow * Ticks \in Int
      BY <3>1
    <3> QED
      BY <3>1, <3>2, <3>3, <3>4
  <2>4. ~r.pending => devices[r.device] = "active"
    BY <1>6 DEF Authenticate
  <2> HIDE DEF v
  <2>5. WorkerTypes'
    BY <1>1, <1>2, <2>1, <2>2 DEF WorkerTypes, MemberTypes, nonceVars
  <2>6. ServedAreKnown'
    BY <1>2, <2>1, <2>2, <2>4 DEF ServedAreKnown, WorkerTypes, memberVars
  <2>7. ServedInTime'
    <3>1. Lag \in Nat /\ time \in Nat
      BY <1>2, WorkerConstants DEF WorkerTypes
    <3> QED
      BY <1>2, <2>1, <2>2, <2>3, <3>1 DEF ServedInTime, WorkerTypes
  <2>8. WorkerReplayInv'
    BY <1>2, <2>1 DEF WorkerReplayInv, WorkerNoReplay, KeptOut, nonceVars
  <2> QED
    BY <2>5, <2>6, <2>7, <2>8
<1>7. ASSUME NEW c \in Connection, Reserve(c)
      PROVE  WorkerTypes' /\ ServedAreKnown' /\ ServedInTime' /\ WorkerReplayInv'
  <2>1. /\ served' = [served EXCEPT ![c] = NoRequest] /\ time' = time
        /\ served' \in [Connection -> Verified \cup {NoRequest}]
    BY <1>2, <1>7, ReserveTypes
  <2>2. WorkerTypes'
    BY <1>1, <1>2, <1>7, <2>1, ReserveTypes DEF WorkerTypes, MemberTypes
  <2>3. ServedAreKnown'
    BY <1>1, <1>2, <2>1 DEF ServedAreKnown, DevicesStay, WorkerTypes, Verified
  <2>4. ServedInTime'
    BY <1>2, <2>1 DEF ServedInTime, WorkerTypes
  <2> QED
    BY <1>2, <1>7, <2>2, <2>3, <2>4, ReserveOnce
<1>8. ASSUME NEW c \in Connection, Continue(c)
      PROVE  WorkerTypes' /\ ServedAreKnown' /\ ServedInTime' /\ WorkerReplayInv'
  <2>1. CASE Reserve(c)
    BY <1>7, <2>1
  <2>2. CASE served' = [served EXCEPT ![c] = NoRequest] /\ UNCHANGED <<time, nonceVars>>
    BY <1>2, <1>3, <2>2 DEF WorkerTypes
  <2> QED
    BY <1>8, <2>1, <2>2, ContinueEnds
<1>9. CASE Elapse
  <2>1. /\ time' = time + 1 /\ served' = served /\ UNCHANGED <<memberVars, nonceVars>>
        /\ \A c \in Connection : served[c] # NoRequest => time - served[c].at < Lag
    BY <1>9 DEF Elapse
  <2>2. WorkerTypes'
    BY <1>1, <1>2, <2>1 DEF WorkerTypes, MemberTypes, nonceVars
  <2>3. ServedAreKnown'
    BY <1>2, <2>1 DEF ServedAreKnown, memberVars
  <2>4. ServedInTime'
    <3>1. Lag \in Nat /\ time \in Nat
      BY <1>2, WorkerConstants DEF WorkerTypes
    <3>2. \A c \in Connection : served[c] # NoRequest => served[c].at \in Nat
      BY <1>2 DEF WorkerTypes, Verified
    <3> QED
      BY <1>2, <2>1, <3>1, <3>2 DEF ServedInTime
  <2>5. WorkerReplayInv'
    <3>1. ASSUME NEW k \in spent, time > (k.ts + TimestampWindow) * Ticks + Lag
          PROVE  time + 1 > (k.ts + TimestampWindow) * Ticks + Lag
      <4>1. k.ts \in Nat /\ TimestampWindow \in Nat /\ Lag \in Nat /\ time \in Nat
        BY <1>2, WorkerConstants DEF WorkerTypes
      <4>2. k.ts + TimestampWindow \in Int
        BY <4>1
      <4>3. (k.ts + TimestampWindow) * Ticks \in Int
        BY <4>2, TicksOf
      <4> QED
        BY <3>1, <4>1, <4>3
    <3> QED
      BY <1>2, <2>1, <3>1 DEF WorkerReplayInv, WorkerNoReplay, KeptOut, nonceVars
  <2> QED
    BY <2>2, <2>3, <2>4, <2>5
<1>10. CASE UNCHANGED workerVars
  BY <1>2, <1>3, <1>10 DEF workerVars, nonceVars, WorkerTypes
<1> QED
  BY <1>4, <1>5, <1>6, <1>8, <1>9, <1>10 DEF WorkerNext

\* The stores change only by the three handlers that write them.
StoresChangeBy(c) ==
  \/ UNCHANGED storeVars
  \/ \E expected \in 0..MaxRevision, v \in Blob :
       \/ \E x \in Record : PutRecord(c, x, expected, v)
       \/ \E x \in Object : PutObject(c, x, expected, v) \/ DeleteObject(c, x, expected)

LEMMA StoreSteps ==
  ASSUME [WorkerNext]_workerVars
  PROVE  UNCHANGED storeVars \/ \E c \in Connection : StoresChangeBy(c)
<1>1. ASSUME NEW c \in Connection, Continue(c) PROVE StoresChangeBy(c)
  BY <1>1 DEF Continue, StoresChangeBy, Read, Drop, ListInvitations, ApproveEnrollment,
     RevokeDevice, GetInvitation, ExpireFirst, FailedTransition, Transition, memberVars, storeVars
<1>2. ASSUME NEW c \in Connection, NEW r \in Request, Authenticate(c, r)
      PROVE  UNCHANGED storeVars
  BY <1>2 DEF Authenticate
<1>3. ASSUME NEW d \in Device, RequestEnrollment(d) \/ CreateInvitation(d)
      PROVE  UNCHANGED storeVars
  BY <1>3 DEF RequestEnrollment, CreateInvitation
<1>4. CASE Initialize \/ Elapse \/ UNCHANGED workerVars
  BY <1>4 DEF Initialize, Elapse, workerVars, storeVars
<1> QED
  BY <1>1, <1>2, <1>3, <1>4 DEF WorkerNext

LEMMA ObjectStep ==
  ASSUME ObjectRows, [WorkerNext]_workerVars
  PROVE  ObjectRows'
<1> USE DEF ObjectRows
<1>1. CASE UNCHANGED objects
  BY <1>1
<1>2. ASSUME NEW c, NEW x \in Object, NEW expected \in 0..MaxRevision, NEW v,
             PutObject(c, x, expected, v)
      PROVE  ObjectRows'
  <2>1. expected + 1 # 0 /\ Written(expected, v).revision = expected + 1
    BY WorkerConstants DEF Written
  <2> QED
    BY <1>2, <2>1 DEF PutObject
<1>3. ASSUME NEW c, NEW x \in Object, NEW expected \in 0..MaxRevision,
             DeleteObject(c, x, expected)
      PROVE  ObjectRows'
  BY <1>3 DEF DeleteObject
<1> QED
  BY <1>1, <1>2, <1>3, StoreSteps DEF StoresChangeBy, storeVars, PutRecord

LEMMA WorkerInvHolds == WorkerSpec => []WorkerInv
<1>1. WorkerInit => WorkerInv
  <2> SUFFICES ASSUME WorkerInit PROVE WorkerInv
    OBVIOUS
  <2>1. NoInvitation \in Invitations /\ NoInvitation.state = "none"
    BY DEF NoInvitation, Invitations
  <2>2. WorkerTypes
    BY <2>1 DEF WorkerInit, WorkerTypes
  <2>3. ServedAreKnown /\ ServedInTime
    BY DEF WorkerInit, ServedAreKnown, ServedInTime
  <2>4. MemberInv
    BY <2>1 DEF WorkerInit, MemberInv, KeepsActiveDevice, InvitationDecides, Exists
  <2>5. WorkerReplayInv
    BY DEF WorkerInit, WorkerReplayInv, WorkerNoReplay
  <2>6. ObjectRows
    BY DEF WorkerInit, ObjectRows
  <2> QED
    BY <2>2, <2>3, <2>4, <2>5, <2>6 DEF WorkerInv
<1>2. WorkerInv /\ [WorkerNext]_workerVars => WorkerInv'
  BY ServedStep, WorkerStep, ObjectStep DEF WorkerInv, MembersAreFine
<1> QED
  BY <1>1, <1>2, PTL DEF WorkerSpec

\* authenticate, an await, then reserve: no request of the worker is carried out
\* twice, for any clock resolution, window, retention and number of requests.
THEOREM WorkerReplayProtection == WorkerSpec => []WorkerNoReplay
<1>1. WorkerInv => WorkerNoReplay
  BY DEF WorkerInv, WorkerReplayInv
<1> QED
  BY <1>1, WorkerInvHolds, PTL

\* The worker's members: an active device remains, and invitations decide.
THEOREM WorkerMembership == WorkerSpec => []WorkerMembersAgree
<1>1. WorkerInv => WorkerMembersAgree
  BY DEF WorkerInv, MemberInv, WorkerMembersAgree
<1> QED
  BY <1>1, WorkerInvHolds, PTL

\* What the worker's handlers read before an await decides nothing after it.
THEOREM WorkerStepsOfTheMoment == WorkerSpec => StepsAreOfTheMoment
<1>1. WorkerInv /\ [WorkerNext]_workerVars => ChangesAreOfActive /\ InvitationsEndOnce
  BY WorkerStep DEF WorkerInv, MembersAreFine
<1> QED
  BY <1>1, WorkerInvHolds, PTL DEF WorkerSpec, StepsAreOfTheMoment

\* The worker's records are a compare-and-set store.
LEMMA WorkerRecordsRefine == WorkerSpec => WorkerRecordsAreRevisioned
<1>1. WorkerInit => WorkerRecords!StoreInit
  BY DEF WorkerInit, WorkerRecords!StoreInit, WorkerRecords!Absent, NoRow
<1>2. [WorkerNext]_workerVars => [WorkerRecords!StoreNext]_records
  <2> SUFFICES ASSUME [WorkerNext]_workerVars PROVE [WorkerRecords!StoreNext]_records
    OBVIOUS
  <2>1. ASSUME NEW c, NEW x \in Record, NEW expected \in 0..MaxRevision, NEW v \in Blob,
               PutRecord(c, x, expected, v)
        PROVE  WorkerRecords!StoreNext
    <3>1. WorkerRecords!Put(x, expected, v)
      BY <2>1 DEF PutRecord, WorkerRecords!Put, AtRevision, Written
    <3> QED
      BY <3>1 DEF WorkerRecords!StoreNext
  <2>2. ASSUME NEW c, NEW x, NEW expected, NEW v,
               PutObject(c, x, expected, v) \/ DeleteObject(c, x, expected)
        PROVE  UNCHANGED records
    BY <2>2 DEF PutObject, DeleteObject
  <2> QED
    BY <2>1, <2>2, StoreSteps DEF StoresChangeBy, storeVars
<1> QED
  BY <1>1, <1>2, PTL DEF WorkerSpec, WorkerRecordsAreRevisioned, WorkerRecords!StoreSpec

\* Its objects too, where deleting nothing changes nothing.
LEMMA WorkerObjectsRefine == WorkerSpec => WorkerObjectsAreRevisioned
<1>1. WorkerInit => WorkerObjects!StoreInit
  BY DEF WorkerInit, WorkerObjects!StoreInit, WorkerObjects!Absent, NoRow
<1>2. WorkerInv /\ [WorkerNext]_workerVars => [WorkerObjects!StoreNext]_objects
  <2> SUFFICES ASSUME WorkerInv, [WorkerNext]_workerVars PROVE [WorkerObjects!StoreNext]_objects
    OBVIOUS
  <2>1. ASSUME NEW c, NEW x \in Object, NEW expected \in 0..MaxRevision, NEW v \in Blob,
               PutObject(c, x, expected, v)
        PROVE  WorkerObjects!StoreNext
    <3>1. WorkerObjects!Put(x, expected, v)
      BY <2>1 DEF PutObject, WorkerObjects!Put, AtRevision, Written
    <3> QED
      BY <3>1 DEF WorkerObjects!StoreNext
  <2>2. ASSUME NEW c, NEW x \in Object, NEW expected \in 0..MaxRevision,
               DeleteObject(c, x, expected)
        PROVE  WorkerObjects!StoreNext \/ UNCHANGED objects
    <3>1. objects[x].revision = expected /\ objects' = [objects EXCEPT ![x] = NoRow]
      BY <2>2 DEF DeleteObject, AtRevision
    <3>2. CASE expected = 0
      BY <3>1, <3>2 DEF WorkerInv, ObjectRows
    <3>3. CASE expected >= 1
      <4>1. WorkerObjects!Delete(x, expected)
        BY <3>1, <3>3 DEF WorkerObjects!Delete, WorkerObjects!Absent, NoRow
      <4> QED
        BY <4>1 DEF WorkerObjects!StoreNext
    <3> QED
      BY <3>2, <3>3, WorkerConstants
  <2>3. ASSUME NEW c, NEW x, NEW expected, NEW v, PutRecord(c, x, expected, v)
        PROVE  UNCHANGED objects
    BY <2>3 DEF PutRecord
  <2> QED
    BY <2>1, <2>2, <2>3, StoreSteps DEF StoresChangeBy, storeVars
<1> QED
  BY <1>1, <1>2, WorkerInvHolds, PTL
     DEF WorkerSpec, WorkerObjectsAreRevisioned, WorkerObjects!StoreSpec

\* Clients may rely on both tables of the worker as on those of the service.
THEOREM WorkerStoresRefine == WorkerSpec => WorkerStoresAreRevisioned
BY WorkerRecordsRefine, WorkerObjectsRefine DEF WorkerStoresAreRevisioned
=============================================================================

--------------------------- MODULE BundlePrepare ---------------------------
(***************************************************************************)
(* Preparer of internal/bundle/prepare.go: several processes prepare one   *)
(* bundle, or report its status, while records of the vault are changed.   *)
(* Each process has the manifest that it was given: an edited manifest is  *)
(* another one, which may drop records, add them, add them again, and      *)
(* change templates.                                                       *)
(*                                                                         *)
(* A record has a revision and a value.  The journal and the snapshot are  *)
(* encrypted objects of the vault; the revision of an object is compared   *)
(* only with the one its writer last saw, so it is kept as the set of the  *)
(* holders for whom the object is unchanged.  A call that fails, a process *)
(* that dies, and a response that is lost (the write, then the failure)    *)
(* end a preparation anywhere.                                             *)
(***************************************************************************)
EXTENDS Integers, Sequences, FiniteSets

CONSTANTS
  Process,    \* processes that run bundle prepare or bundle status
  Restorer,   \* the process that uploads a recovery artifact (see Recovery)
  Names,      \* the records of all manifests, in the order of their names
  Manifest,   \* what each manifest says (see BundleConstants)
  Value,      \* values of base records
  None,       \* no value
  MaxRevision,\* bound: the last revision of a record
  Editions    \* bound: how many manifests there are

\* Manifests of the bundle, told apart by their digest; 0 is none.
Document == 1..Editions

Range(s) == {s[i] : i \in DOMAIN s}
Name == Range(Names)

\* The records of a manifest that are imported or generated, those that it
\* derives, and all of them.
Base(d) == Range(Manifest[d].bases)
DerivedOf(d) == Range(Manifest[d].derived)
NamesOf(d) == Base(d) \cup DerivedOf(d)

\* The references of the template of a derived record.
Refs(d, n) == Manifest[d].templates[n].refs

\* bases: imported and generated records, in the order of their names;
\* derived: document.Derived, in topological order; a template is a text with
\* the values of its references.  A record may be in some manifests only, and
\* be imported by one and derived by another.
ASSUME BundleConstants ==
  /\ Restorer \notin Process
  /\ MaxRevision \in Nat
  /\ Editions \in Nat \ {0}
  /\ \A d \in Document :
       /\ Manifest[d].bases \in Seq(Name)
       /\ Manifest[d].imports \subseteq Base(d)
       /\ Manifest[d].derived \in Seq(Name)
       /\ Base(d) \cap DerivedOf(d) = {}
       /\ \A i \in DOMAIN Manifest[d].derived :
            Refs(d, Manifest[d].derived[i])
              \subseteq Base(d) \cup {Manifest[d].derived[j] : j \in 1..(i - 1)}

VARIABLES
  records,     \* the bundle's records in the vault, of whatever manifest
  journal,     \* the object of kind bundle_prepare
  snapshot,    \* the object of kind bundle_snapshot
  fresh,       \* what is as the holder last read or wrote it
  at,          \* where a process is in Prepare or Status
  mine         \* what it works with: its manifest, byPhysical and the journal

bundleVars == <<records, journal, snapshot, fresh, at, mine>>
vaultVars == <<records, journal, snapshot>>

Objects == {"journal", "snapshot"}

\* Records and objects are told apart.
ASSUME NamesAreNoObjects == Name \cap Objects = {}

Holder == Process \cup {Restorer}

NoRecord == [revision |-> 0, value |-> None]
NoEntry == [revision |-> 0, inputs |-> [n \in {} |-> 0]]
NoJournal == [digest |-> 0, entries |-> [n \in Name |-> NoEntry]]
NoSnapshot ==
  [digest |-> 0, revisions |-> [n \in Name |-> 0],
   previous |-> [n \in Name |-> {}]]
Nothing ==
  [document |-> 0, records |-> [n \in Name |-> NoRecord],
   journal |-> NoJournal, next |-> 0]

Phases ==
  {"idle", "objects", "reset", "imports", "storing", "publish", "published",
   "status"}

BundleTypeOK ==
  /\ \A n \in Name : records[n].revision \in 0..MaxRevision
  /\ journal.digest \in Document \cup {0}
  /\ \A n \in Name : journal.entries[n].revision \in 0..MaxRevision
  /\ snapshot.digest \in Document \cup {0}
  /\ snapshot.revisions \in [Name -> 0..MaxRevision]
  /\ snapshot.previous \in [Name -> SUBSET (1..MaxRevision)]
  /\ fresh \in [Holder -> SUBSET (Name \cup Objects)]
  /\ at \in [Process -> Phases]
  /\ \A p \in Process : mine[p].document \in Document \cup {0}

BundleInit ==
  /\ records = [n \in Name |-> NoRecord]
  /\ journal = NoJournal
  /\ snapshot = NoSnapshot
  /\ fresh = [h \in Holder |-> {}]
  /\ at = [p \in Process |-> "idle"]
  /\ mine = [p \in Process |-> Nothing]

-----------------------------------------------------------------------------
\* The value that a manifest derives for a record.
Expand(document, n, recs) ==
  <<Manifest[document].templates[n].text,
    [r \in Refs(document, n) |-> recs[r].value]>>

\* Every derived record is what its inputs make it.
IsDerived(document, recs) ==
  \A n \in DerivedOf(document) : recs[n].value = Expand(document, n, recs)

\* calculateStatus: is the bundle as a whole prepared?
IsPrepared(document, recs, snap) ==
  /\ snap.digest = document
  /\ \A n \in NamesOf(document) :
       /\ recs[n].revision # 0
       /\ recs[n].revision = snap.revisions[n]

\* Prepare or Status returns; its error, if any, changes nothing.
Return(p) ==
  /\ at' = [at EXCEPT ![p] = "idle"]
  /\ mine' = [mine EXCEPT ![p] = Nothing]
  /\ fresh' = [fresh EXCEPT ![p] = {}]

Goto(p, phase) == at' = [at EXCEPT ![p] = phase]

\* An item that is written is fresh for nobody, unless it be for its writer.
Touched(x) == [q \in Holder |-> fresh[q] \ {x}]
Written(h, x) == [Touched(x) EXCEPT ![h] = @ \cup {x}]

-----------------------------------------------------------------------------
\* load, with the manifest that the command names, as the file is now: the
\* records first, then the objects.  The vault keeps the records of every
\* manifest that it was prepared with.
Begin(p, d) ==
  /\ at[p] = "idle"
  /\ mine' = [mine EXCEPT ![p] = [Nothing EXCEPT !.document = d,
                                                 !.records = records]]
  /\ Goto(p, "objects")
  /\ UNCHANGED <<vaultVars, fresh>>

\* The objects arrive.  A prepared bundle is reported as it is; otherwise the
\* journal is taken up, or begun anew when it is of another manifest.
LoadObjects(p) ==
  /\ at[p] = "objects"
  /\ IF IsPrepared(mine[p].document, mine[p].records, snapshot)
     THEN Return(p)
     ELSE /\ mine' = [mine EXCEPT ![p].journal = journal,
                                  ![p].next = 1]
          /\ fresh' = [fresh EXCEPT ![p] = Objects]
          /\ Goto(p, IF journal.digest \in {0, mine[p].document}
                     THEN "imports" ELSE "reset")
  /\ UNCHANGED <<vaultVars>>

\* The service stores an object only at the revision its writer expects.
MayWrite(p, x) == x \in fresh[p]

\* storeJournal, after which preparation goes on in a phase with record i.
StoreJournal(p, j, phase, i) ==
  IF MayWrite(p, "journal")
  THEN /\ journal' = j
       /\ fresh' = Written(p, "journal")
       /\ mine' = [mine EXCEPT ![p].journal = j, ![p].next = i]
       /\ Goto(p, phase)
  ELSE Return(p) /\ UNCHANGED journal

ResetJournal(p) ==
  /\ at[p] = "reset"
  /\ StoreJournal(p, [NoJournal EXCEPT !.digest = mine[p].document], "imports", 1)
  /\ UNCHANGED <<records, snapshot>>

\* readImports: the trusted input names exactly the missing imports, or the
\* preparation ends.
ReadImports(p, given) ==
  /\ at[p] = "imports"
  /\ LET missing == {n \in Manifest[mine[p].document].imports :
                        mine[p].records[n] = NoRecord} IN
       IF given = missing
       THEN Goto(p, "storing") /\ UNCHANGED <<mine, fresh>>
       ELSE missing # {} /\ Return(p)
  /\ UNCHANGED <<vaultVars>>

\* The service stores a record only at the revision its writer expects.
MayPut(p, n) == records[n].revision = mine[p].records[n].revision

\* putRecord: the value as the revision after the one that was read.
PutRecord(p, n, v) ==
  IF MayPut(p, n) /\ mine[p].records[n].revision < MaxRevision
  THEN LET stored == [revision |-> mine[p].records[n].revision + 1, value |-> v]
       IN /\ records' = [records EXCEPT ![n] = stored]
          /\ mine' = [mine EXCEPT ![p].records[n] = stored]
          /\ fresh' = Touched(n)
          /\ UNCHANGED at
  ELSE Return(p) /\ UNCHANGED records

\* The journal with a record's revision, and those of its inputs.
Checkpoint(p, n, inputs) ==
  [mine[p].journal EXCEPT
     !.digest = mine[p].document,
     !.entries[n] = [revision |-> mine[p].records[n].revision,
                     inputs   |-> inputs]]

\* The records are taken in this order: base records, then derived ones.
Order(d) == Manifest[d].bases \o Manifest[d].derived

Turn(p, n) ==
  /\ at[p] = "storing"
  /\ mine[p].next <= Len(Order(mine[p].document))
  /\ n = Order(mine[p].document)[mine[p].next]

\* A base record that does not exist is generated, or taken from the imports.
StoreBase(p, n) ==
  /\ Turn(p, n)
  /\ n \in Base(mine[p].document)
  /\ mine[p].records[n] = NoRecord
  /\ \E v \in Value : PutRecord(p, n, v)
  /\ UNCHANGED <<journal, snapshot>>

CheckpointBase(p, n) ==
  /\ Turn(p, n)
  /\ n \in Base(mine[p].document)
  /\ mine[p].records[n] # NoRecord
  /\ StoreJournal(p, Checkpoint(p, n, NoEntry.inputs), "storing",
                  mine[p].next + 1)
  /\ UNCHANGED <<records, snapshot>>

InputRevisions(p, n) ==
  [r \in Refs(mine[p].document, n) |-> mine[p].records[r].revision]

\* Mutant: the journal is trusted without regard to the inputs.
JournalSaysCurrentAnyway(p, n) ==
  /\ mine[p].records[n] # NoRecord
  /\ mine[p].journal.entries[n].revision = mine[p].records[n].revision

\* The journal knows the record's revision and that of every input.
JournalSaysCurrent(p, n) ==
  /\ mine[p].records[n] # NoRecord
  /\ mine[p].journal.entries[n].revision = mine[p].records[n].revision
  /\ mine[p].journal.entries[n].inputs = InputRevisions(p, n)

\* Nothing has to be stored for a derived record.
Current(p, n) ==
  \/ JournalSaysCurrent(p, n)
  \/ /\ mine[p].records[n] # NoRecord
     /\ mine[p].records[n].value
          = Expand(mine[p].document, n, mine[p].records)

StoreDerived(p, n) ==
  /\ Turn(p, n)
  /\ n \notin Base(mine[p].document)
  /\ ~Current(p, n)
  /\ PutRecord(p, n, Expand(mine[p].document, n, mine[p].records))
  /\ UNCHANGED <<journal, snapshot>>

CheckpointDerived(p, n) ==
  /\ Turn(p, n)
  /\ n \notin Base(mine[p].document)
  /\ Current(p, n)
  /\ StoreJournal(p, Checkpoint(p, n, InputRevisions(p, n)), "storing",
                  mine[p].next + 1)
  /\ UNCHANGED <<records, snapshot>>

UnchangedSince(p) ==
  \A n \in NamesOf(mine[p].document) :
    records[n].revision = mine[p].records[n].revision

\* A source that changed after the first read ends the preparation.  The
\* journal is not used any more.
Refetch(p) ==
  /\ at[p] = "storing"
  /\ mine[p].next > Len(Order(mine[p].document))
  /\ IF UnchangedSince(p)
     THEN /\ Goto(p, "publish")
          /\ mine' = [mine EXCEPT ![p].journal = NoJournal, ![p].next = 0]
          /\ fresh' = [fresh EXCEPT ![p] = @ \ {"journal"}]
     ELSE Return(p)
  /\ UNCHANGED <<vaultVars>>

\* Mutant: only the revision that is replaced is retained.
RetainedLast(p, n) ==
  {snapshot.revisions[n]} \ {0, mine[p].records[n].revision}

\* uniqueSortedRevisions: the revisions published before, without this one.
Retained(p, n) ==
  (snapshot.previous[n] \cup {snapshot.revisions[n]})
    \ {0, mine[p].records[n].revision}

\* The new snapshot has what its manifest has and nothing else: no revision
\* and no history of a record that the manifest does not have.
Published(p) ==
  LET own == NamesOf(mine[p].document) IN
    [digest    |-> mine[p].document,
     revisions |-> [n \in Name |-> IF n \in own
                                   THEN mine[p].records[n].revision ELSE 0],
     previous  |-> [n \in Name |-> IF n \in own THEN Retained(p, n) ELSE {}]]

\* The snapshot that was loaded is the one that is replaced, or the write is
\* refused.
Publish(p) ==
  /\ at[p] = "publish"
  /\ IF MayWrite(p, "snapshot")
     THEN /\ snapshot' = Published(p)
          /\ fresh' = [Touched("snapshot") EXCEPT ![p] = {}]
          /\ Goto(p, "published")
          /\ mine' = [mine EXCEPT ![p] =
                        [Nothing EXCEPT !.document = mine[p].document]]
     ELSE Return(p) /\ UNCHANGED snapshot
  /\ UNCHANGED <<records, journal>>

\* Prepare ends with the status of the bundle: the records, then the objects.
ListAgain(p) ==
  /\ at[p] = "published"
  /\ mine' = [mine EXCEPT ![p].records = records]
  /\ Goto(p, "status")
  /\ UNCHANGED <<vaultVars, fresh>>

\* The objects arrive, and the result of calculateStatus is returned: that is
\* all of Status, and the end of Prepare.
ReportStatus(p) ==
  /\ at[p] \in {"objects", "status"}
  /\ Return(p)
  /\ UNCHANGED <<vaultVars>>

\* A call fails, or the process dies.
Fail(p) ==
  /\ at[p] # "idle"
  /\ Return(p)
  /\ UNCHANGED <<vaultVars>>

\* putSecretValue of the set and rotate commands, and of setup: it reads the
\* records and writes at the revision it read, so it takes effect at once or
\* not at all.  Any record may be changed, a derived one too.
ChangeRecord(n, v) ==
  /\ records[n].revision < MaxRevision
  /\ records' = [records EXCEPT ![n] =
                   [revision |-> @.revision + 1, value |-> v]]
  /\ fresh' = Touched(n)
  /\ UNCHANGED <<journal, snapshot, at, mine>>

Step(p) ==
  \/ LoadObjects(p)
  \/ ResetJournal(p)
  \/ \E given \in SUBSET Name : ReadImports(p, given)
  \/ \E n \in Name :
       \/ StoreBase(p, n)
       \/ CheckpointBase(p, n)
       \/ StoreDerived(p, n)
       \/ CheckpointDerived(p, n)
  \/ Refetch(p)
  \/ Publish(p)
  \/ ListAgain(p)
  \/ ReportStatus(p)

BundleNext ==
  \/ \E p \in Process, d \in Document : Begin(p, d)
  \/ \E p \in Process : Step(p)
  \/ \E p \in Process : Fail(p)
  \/ \E n \in Name, v \in Value : ChangeRecord(n, v)

-----------------------------------------------------------------------------
\* docs/bundles.md: "A matching snapshot and matching record revisions make
\* preparation a no-op. Changing an input makes the snapshot and every affected
\* derivation stale".  It may be a no-op only if every derived record is what
\* its inputs, as they are now, make it.
PreparedIsDerived ==
  \A d \in Document :
    IsPrepared(d, records, snapshot) => IsDerived(d, records)

\* What Prepare and Status are about to report as prepared was derived,
\* although they read the records first and the objects later.
ReportedIsDerived ==
  \A p \in Process :
    /\ at[p] \in {"objects", "status"}
    /\ IsPrepared(mine[p].document, mine[p].records, snapshot)
    => IsDerived(mine[p].document, mine[p].records)

\* A snapshot that replaces another retains, of every record that its manifest
\* has, every revision that the one it replaces was published with or retained
\* (snapshot.go: "retains non-secret revision evidence"), whichever of several
\* processes publishes it and whatever manifest each of them has read.  Of a
\* record that its manifest does not have it retains nothing: a manifest that
\* drops a record drops its evidence, and one that has the record again begins
\* with an empty history.
RetainsEvidence ==
  snapshot' # snapshot =>
    \A n \in Name :
      n \in NamesOf(snapshot'.digest) =>
        (snapshot.previous[n] \cup {snapshot.revisions[n]}) \ {0}
          \subseteq snapshot'.previous[n] \cup {snapshot'.revisions[n]}
=============================================================================

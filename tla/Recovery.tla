------------------------------ MODULE Recovery ------------------------------
(***************************************************************************)
(* recovery-export and recovery-restore of cmd/envbank/recovery.go, on the *)
(* bundle of BundlePrepare: the vault is exported into an artifact, lost,  *)
(* and restored into a new vault, which any device with the new            *)
(* configuration may use before the restoration is complete.               *)
(***************************************************************************)
EXTENDS BundlePrepare

CONSTANT Never

VARIABLES
  artifact,  \* the snapshot in the recovery artifact, once it is written
  exporting, \* the records that an export has listed; Never if the vault is
             \* never exported
  restoring, \* where recovery-restore is
  pending    \* what it still has to upload, while it runs

recoveryVars == <<artifact, exporting, restoring, pending>>
vars == <<bundleVars, recoveryVars>>

NoArtifact == [records |-> None, journal |-> None, snapshot |-> None]

TypeOK ==
  /\ BundleTypeOK
  /\ artifact # NoArtifact => \A n \in Name : artifact.records[n].revision \in Nat
  /\ restoring \in {"no", "stopped", "records", "putting_records",
                    "objects", "putting_objects", "complete"}
  /\ pending \subseteq Name \cup Objects

Init ==
  /\ BundleInit
  /\ artifact = NoArtifact
  /\ exporting \in {None, Never}
  /\ restoring = "no"
  /\ pending = {}

Replaced == restoring # "no"
Running == restoring \notin {"no", "stopped", "complete"}

-----------------------------------------------------------------------------
\* recoveryExport lists the records, then the objects, and writes both.
\* Bound: one vault is replaced.
ExportRecords ==
  /\ ~Replaced
  /\ exporting = None
  /\ exporting' = records
  /\ UNCHANGED <<bundleVars, artifact, restoring, pending>>

\* The objects follow, and the artifact is complete.  What becomes of the
\* vault afterwards changes nothing in the artifact: the next vault in use is
\* the one that beginRecoveryRestore creates, empty, and with its
\* configuration saved.
ExportAndReplace ==
  /\ exporting \notin {None, Never}
  /\ artifact' = [records |-> exporting, journal |-> journal,
                  snapshot |-> snapshot]
  /\ exporting' = None
  /\ records' = [n \in Name |-> NoRecord]
  /\ journal' = NoJournal
  /\ snapshot' = NoSnapshot
  /\ fresh' = [h \in Holder |-> {}]
  /\ at' = [p \in Process |-> "idle"]
  /\ mine' = [p \in Process |-> Nothing]
  /\ restoring' = "records"
  /\ UNCHANGED pending

\* What the artifact holds.
Exported ==
  {n \in Name : artifact.records[n] # NoRecord}
    \cup (IF artifact.journal = NoJournal THEN {} ELSE {"journal"})
    \cup (IF artifact.snapshot = NoSnapshot THEN {} ELSE {"snapshot"})

\* What the vault holds.
Existing ==
  {n \in Name : records[n] # NoRecord}
    \cup (IF journal = NoJournal THEN {} ELSE {"journal"})
    \cup (IF snapshot = NoSnapshot THEN {} ELSE {"snapshot"})

\* A restored record is at revision 1, whatever it was in the lost vault.
RestoredRecord(n) == [artifact.records[n] EXCEPT !.revision = 1]

\* recovery-restore --resume, with the configuration that names the artifact.
ResumeRestore ==
  /\ restoring = "stopped"
  /\ \A p \in Process : at[p] = "idle"
  /\ restoring' = "records"
  /\ UNCHANGED <<bundleVars, artifact, exporting, pending>>

\* Mutant: what the vault holds is not compared with the artifact.
AsExpectedAnyway(items) == Existing \cap items \subseteq Exported

\* The vault holds nothing among these items but what was uploaded, as it was
\* uploaded: every field is compared, the revision and the times too.
AsExpected(items) ==
  Existing \cap items \subseteq Exported \cap fresh[Restorer]

\* The target is validated before anything is uploaded.
Validate(from, items, to) ==
  /\ restoring = from
  /\ IF AsExpected(items)
     THEN /\ restoring' = to
          /\ pending' = (Exported \cap items) \ Existing
     ELSE restoring' = "stopped" /\ UNCHANGED pending
  /\ UNCHANGED <<bundleVars, artifact, exporting>>

ValidateRecords == Validate("records", Name, "putting_records")
ValidateObjects == Validate("objects", Objects, "putting_objects")

\* Records and objects are uploaded in the order of their names.
Place(x) ==
  IF x \in Name THEN CHOOSE i \in DOMAIN Names : Names[i] = x
  ELSE IF x = "journal" THEN 1 ELSE 2

\* An upload, at expected revision 0: what exists by now ends the restoration.
Upload(x) ==
  /\ x \in pending
  /\ \A y \in pending : Place(x) <= Place(y)
  /\ IF x \in Existing
     THEN /\ restoring' = "stopped"
          /\ pending' = {}
          /\ UNCHANGED <<records, journal, snapshot, fresh>>
     ELSE /\ records' = IF x \in Name
                        THEN [records EXCEPT ![x] = RestoredRecord(x)]
                        ELSE records
          /\ journal' = IF x = "journal" THEN artifact.journal ELSE journal
          /\ snapshot' = IF x = "snapshot" THEN artifact.snapshot ELSE snapshot
          /\ fresh' = Written(Restorer, x)
          /\ pending' = pending \ {x}
          /\ UNCHANGED restoring
  /\ UNCHANGED <<at, mine, artifact, exporting>>

UploadRecord(n) == restoring = "putting_records" /\ Upload(n)
UploadObject(o) == restoring = "putting_objects" /\ Upload(o)

\* Everything is there, and as it was uploaded.
Verified(items) == AsExpected(items) /\ Exported \cap items \subseteq Existing

VerifyRecords ==
  /\ restoring = "putting_records"
  /\ pending = {}
  /\ restoring' = IF Verified(Name) THEN "objects" ELSE "stopped"
  /\ UNCHANGED <<bundleVars, artifact, exporting, pending>>

\* The restoration is reported complete.  Nothing is deleted from a vault, so
\* resuming it once more would upload nothing: the artifact is put aside.
VerifyObjects ==
  /\ restoring = "putting_objects"
  /\ pending = {}
  /\ IF Verified(Objects)
     THEN /\ restoring' = "complete"
          /\ artifact' = NoArtifact
          /\ fresh' = [fresh EXCEPT ![Restorer] = {}]
     ELSE restoring' = "stopped" /\ UNCHANGED <<artifact, fresh>>
  /\ UNCHANGED <<records, journal, snapshot, at, mine, exporting, pending>>

\* A request fails or recovery-restore dies; it may be resumed.
StopRestore ==
  /\ Running
  /\ restoring' = "stopped"
  /\ pending' = {}
  /\ UNCHANGED <<bundleVars, artifact, exporting>>

RestoreStep ==
  \/ ResumeRestore
  \/ ValidateRecords
  \/ \E n \in Name : UploadRecord(n)
  \/ VerifyRecords
  \/ ValidateObjects
  \/ \E o \in Objects : UploadObject(o)
  \/ VerifyObjects

\* Bound: a vault that is exported is used by one process at a time, with the
\* first manifest, and prepared only when no restoration runs.
Bounded ==
  \/ exporting = Never
  \/ /\ Cardinality({p \in Process : at'[p] # "idle"}) <= 1
     /\ Running => \A p \in Process : at'[p] = "idle"
     /\ \A p \in Process : mine'[p].document \in {0, 1}

Next ==
  \/ BundleNext /\ Bounded /\ UNCHANGED recoveryVars
  \/ ExportRecords
  \/ ExportAndReplace
  \/ RestoreStep
  \/ StopRestore

Spec == Init /\ [][Next]_vars

-----------------------------------------------------------------------------
\* What is prepared, and what Status and Prepare report as such, is derived from
\* its inputs as they are, in a vault that was never restored.  A restored vault
\* counts its revisions from 1 again while its journal and its snapshot keep
\* the revisions of the lost one.
PreparedIsDerivedUnlessRestored ==
  ~Replaced => PreparedIsDerived /\ ReportedIsDerived

\* When recovery-restore reports success nothing of the artifact is missing,
\* and a record that is still at revision 1 has the exported value, although
\* the restoration may have been stopped and resumed any number of times while
\* other commands used the new vault.
RestoredIsExported ==
  [][restoring' = "complete" /\ restoring # "complete" =>
       \A n \in Name :
         artifact.records[n] # NoRecord =>
           /\ records[n] # NoRecord
           /\ \/ records[n].revision > 1
              \/ records[n].value = artifact.records[n].value]_vars

\* Within one vault a new snapshot drops no published revision of a record that
\* its own manifest has.
EvidenceIsRetained == [][Replaced' = Replaced => RetainsEvidence]_vars
=============================================================================

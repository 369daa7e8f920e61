----------------------------- MODULE VaultStore -----------------------------
(***************************************************************************)
(* The vault service as its clients see its records and objects: each of   *)
(* the two tables implements RevisionedStore, whatever else the service is *)
(* doing.  Records cannot be deleted; objects can.                         *)
(***************************************************************************)
EXTENDS VaultServer

CellsOf(table) ==
  [id \in DOMAIN table |->
     [revision |-> table[id].revision, basis |-> table[id].basis,
      value |-> table[id].blob]]

RecordStore ==
  INSTANCE RevisionedStore
    WITH Cell <- Record, Value <- Blob, NoValue <- NoBlob, Deletable <- {},
         LastRevision <- MaxRevision, cells <- CellsOf(records)

ObjectStore ==
  INSTANCE RevisionedStore
    WITH Cell <- Object, Value <- Blob, NoValue <- NoBlob, Deletable <- Object,
         LastRevision <- MaxRevision, cells <- CellsOf(objects)

\* Whatever interleaving of requests putRecord is part of, a record changes
\* only by one write at the revision its client expected: no update is lost.
RecordsAreRevisioned == RecordStore!StoreSpec

\* The same of putVaultObject and deleteVaultObject; an object that is deleted
\* starts over at revision 1.
ObjectsAreRevisioned == ObjectStore!StoreSpec

\* What clients rely on: both tables are compare-and-set stores, although each
\* request is built on what a client read some time ago.
StoresAreRevisioned == RecordsAreRevisioned /\ ObjectsAreRevisioned
=============================================================================

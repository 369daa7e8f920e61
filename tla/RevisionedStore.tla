-------------------------- MODULE RevisionedStore --------------------------
(***************************************************************************)
(* What the vault service promises of its records and encrypted objects:   *)
(* cells that change only by compare-and-set on their revision.            *)
(*                                                                         *)
(* putRecord, putVaultObject and deleteVaultObject of                      *)
(* internal/server/server.go implement it; the clients that keep leases,   *)
(* operations and plans in encrypted objects are written against it.       *)
(***************************************************************************)
EXTENDS Integers

CONSTANTS
  Cell,        \* record or object identifiers
  Value,       \* ciphertexts
  NoValue,     \* what an absent cell holds
  Deletable,   \* the cells that can be deleted: objects, not records
  LastRevision \* bound: the highest revision of a cell

VARIABLE cells

\* basis is history: the revision that the last writer said it had seen.
Absent == [revision |-> 0, basis |-> 0, value |-> NoValue]

StoreInit == cells = [c \in Cell |-> Absent]

\* A write succeeds exactly at the revision it expects, and advances it by 1.
Put(c, expected, v) ==
  /\ cells[c].revision = expected
  /\ expected < LastRevision
  /\ cells' = [cells EXCEPT ![c] = [revision |-> expected + 1,
                                   basis |-> expected, value |-> v]]

\* A deletion leaves no trace: the next write of the cell expects 0 again.
Delete(c, expected) ==
  /\ c \in Deletable
  /\ expected >= 1
  /\ cells[c].revision = expected
  /\ cells' = [cells EXCEPT ![c] = Absent]

StoreNext ==
  \E c \in Cell, expected \in 0..LastRevision :
    \/ \E v \in Value : Put(c, expected, v)
    \/ Delete(c, expected)

StoreSpec == StoreInit /\ [][StoreNext]_cells
=============================================================================

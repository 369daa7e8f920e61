--------------------------- MODULE RecoveryProofs ---------------------------
(***************************************************************************)
(* What a bundle's journal and snapshot say of its records, and what a     *)
(* restoration leaves, for every set of manifests, and any number of       *)
(* records, revisions and processes that prepare and change the bundle at  *)
(* once.                                                                   *)
(***************************************************************************)
EXTENDS Recovery, TLAPS

\* The text of the template of a derived record.
Text(d, n) == Manifest[d].templates[n].text

LEMMA NamesOfManifest ==
  ASSUME NEW d \in Document
  PROVE  /\ Base(d) \subseteq Name /\ DerivedOf(d) \subseteq Name
         /\ NamesOf(d) = Base(d) \cup DerivedOf(d)
         /\ \A n \in DerivedOf(d) : n \notin Base(d)
         /\ \A n \in DerivedOf(d) : Refs(d, n) \subseteq NamesOf(d)
<1>1. /\ Manifest[d].bases \in Seq(Name) /\ Manifest[d].derived \in Seq(Name)
      /\ Base(d) \cap DerivedOf(d) = {}
  BY BundleConstants
<1>2. Base(d) \subseteq Name /\ DerivedOf(d) \subseteq Name
  BY <1>1 DEF Base, DerivedOf, Range
<1>3. NamesOf(d) = Base(d) \cup DerivedOf(d)
  BY DEF NamesOf
<1>4. ASSUME NEW n \in DerivedOf(d) PROVE Refs(d, n) \subseteq NamesOf(d)
  <2> DEFINE D == Manifest[d].derived
  <2>1. PICK i \in DOMAIN D : D[i] = n
    BY DEF DerivedOf, Range
  <2>2. Refs(d, D[i]) \subseteq Base(d) \cup {D[j] : j \in 1..(i - 1)}
    BY BundleConstants
  <2>3. D \in Seq(Name)
    BY <1>1
  <2>4. \A j \in 1..(i - 1) : D[j] \in DerivedOf(d)
    <3>1. D \in Seq(Name) /\ DerivedOf(d) = {D[j] : j \in DOMAIN D}
      BY <2>3 DEF DerivedOf, Range
    <3> HIDE DEF D
    <3> QED
      BY <2>1, <3>1
  <2> QED
    BY <1>3, <2>1, <2>2, <2>4
<1> QED
  BY <1>1, <1>2, <1>3, <1>4

-----------------------------------------------------------------------------
(* Shapes *)

\* A record that was never written is revision 0 without a value.
RecordsOK(recs) ==
  /\ recs = [n \in Name |-> [revision |-> recs[n].revision, value |-> recs[n].value]]
  /\ \A n \in Name :
       /\ recs[n].revision \in Nat
       /\ recs[n].revision = 0 => recs[n].value = None

\* What a process works with is a record of the four fields.
MineOK ==
  mine = [p \in Process |->
            [document |-> mine[p].document, records |-> mine[p].records,
             journal |-> mine[p].journal, next |-> mine[p].next]]

ShapeInv ==
  /\ RecordsOK(records)
  /\ fresh \in [Holder -> SUBSET (Name \cup Objects)]
  /\ at \in [Process -> Phases]
  /\ MineOK
  /\ \A p \in Process : RecordsOK(mine[p].records)
  /\ exporting \notin {None, Never} => ~Replaced /\ RecordsOK(exporting)
  /\ restoring \notin {"no", "complete"} => RecordsOK(artifact.records)

LEMMA RecordsAre ==
  ASSUME NEW recs, RecordsOK(recs)
  PROVE  \A n \in Name : /\ recs[n] = [revision |-> recs[n].revision, value |-> recs[n].value]
                         /\ recs[n].revision \in Nat
                         /\ recs[n].revision = 0 => recs[n].value = None
<1>1. recs = [n \in Name |-> [revision |-> recs[n].revision, value |-> recs[n].value]]
  BY DEF RecordsOK
<1>2. \A n \in Name : recs[n] = [revision |-> recs[n].revision, value |-> recs[n].value]
  BY <1>1
<1> QED
  BY <1>2 DEF RecordsOK

LEMMA NoRecordIsRevisionZero ==
  ASSUME NEW recs, RecordsOK(recs), NEW n \in Name
  PROVE  recs[n] = NoRecord <=> recs[n].revision = 0
<1>1. recs[n] = [revision |-> recs[n].revision, value |-> recs[n].value]
  BY DEF RecordsOK
<1>2. recs[n].revision = 0 => recs[n].value = None
  BY DEF RecordsOK
<1> QED
  BY <1>1, <1>2 DEF NoRecord

LEMMA EmptyRecords == RecordsOK([n \in Name |-> NoRecord])
BY DEF RecordsOK, NoRecord

\* A record is written as the revision after its last one.
WrittenRecords(recs, n, v) ==
  [recs EXCEPT ![n] = [revision |-> recs[n].revision + 1, value |-> v]]

LEMMA WrittenShape ==
  ASSUME NEW recs, RecordsOK(recs), NEW n \in Name, NEW v
  PROVE  /\ RecordsOK(WrittenRecords(recs, n, v))
         /\ \A m \in Name : WrittenRecords(recs, n, v)[m] =
              IF m = n THEN [revision |-> recs[n].revision + 1, value |-> v] ELSE recs[m]
<1> DEFINE new == WrittenRecords(recs, n, v)
<1>1. \A m \in Name : recs[m] = [revision |-> recs[m].revision, value |-> recs[m].value]
  BY DEF RecordsOK
<1>2. DOMAIN recs = Name
  BY DEF RecordsOK
<1>3. new = [m \in Name |->
               IF m = n THEN [revision |-> recs[n].revision + 1, value |-> v] ELSE recs[m]]
  BY <1>2 DEF WrittenRecords
<1> HIDE DEF new
<1>4. \A m \in Name : new[m] = IF m = n THEN [revision |-> recs[n].revision + 1, value |-> v]
                               ELSE recs[m]
  BY <1>3
<1>5. \A m \in Name : new[m] = [revision |-> new[m].revision, value |-> new[m].value]
  BY <1>1, <1>4
<1>6. new = [m \in Name |-> [revision |-> new[m].revision, value |-> new[m].value]]
  BY <1>3, <1>5
<1>7. ASSUME NEW m \in Name
      PROVE  new[m].revision \in Nat /\ (new[m].revision = 0 => new[m].value = None)
  BY <1>4 DEF RecordsOK
<1> QED
  BY <1>4, <1>6, <1>7 DEF RecordsOK, new

\* Return, and the assignments of Prepare to what the process has in hand.
LEMMA ReturnHand ==
  ASSUME ShapeInv, NEW p \in Process, Return(p)
  PROVE  /\ mine'[p] = Nothing /\ at'[p] = "idle"
         /\ \A q \in Process \ {p} : mine'[q] = mine[q] /\ at'[q] = at[q]
         /\ MineOK' /\ at' \in [Process -> Phases]
         /\ fresh' \in [Holder -> SUBSET (Name \cup Objects)]
         /\ fresh'[Restorer] = fresh[Restorer]
<1>1. mine' = [mine EXCEPT ![p] = Nothing] /\ DOMAIN mine = Process
  BY DEF Return, ShapeInv, MineOK
<1>2. mine'[p] = Nothing /\ \A q \in Process \ {p} : mine'[q] = mine[q]
  BY <1>1
<1>3. mine' = [q \in Process |-> mine'[q]]
  BY <1>1
<1>4. ASSUME NEW q \in Process
      PROVE  mine'[q] = [document |-> mine'[q].document, records |-> mine'[q].records,
                         journal |-> mine'[q].journal, next |-> mine'[q].next]
  <2>1. CASE q = p
    BY <1>2, <2>1 DEF Nothing
  <2>2. CASE q # p
    BY <1>2, <2>2 DEF ShapeInv, MineOK
  <2> QED
    BY <2>1, <2>2
<1>5. MineOK'
  BY <1>3, <1>4 DEF MineOK
<1>6. /\ at'[p] = "idle" /\ \A q \in Process \ {p} : at'[q] = at[q]
      /\ at' \in [Process -> Phases]
  BY DEF Return, ShapeInv, Phases
<1>7. /\ fresh' \in [Holder -> SUBSET (Name \cup Objects)]
      /\ fresh'[Restorer] = fresh[Restorer]
  BY BundleConstants DEF Return, ShapeInv, Holder
<1> QED
  BY <1>2, <1>5, <1>6, <1>7

\* What one process has in hand changes, and it goes on in another phase.
HandAfter(p, m) ==
  /\ mine' = [mine EXCEPT ![p] = m]
  /\ m = [document |-> m.document, records |-> m.records,
          journal |-> m.journal, next |-> m.next]

LEMMA HandOK ==
  ASSUME ShapeInv, NEW p \in Process, NEW m, HandAfter(p, m)
  PROVE  /\ mine'[p] = m /\ \A q \in Process \ {p} : mine'[q] = mine[q]
         /\ MineOK'
<1>1. mine' = [mine EXCEPT ![p] = m] /\ DOMAIN mine = Process
  BY DEF HandAfter, ShapeInv, MineOK
<1>2. mine'[p] = m /\ \A q \in Process \ {p} : mine'[q] = mine[q]
  BY <1>1
<1>3. mine' = [q \in Process |-> mine'[q]]
  BY <1>1
<1>4. ASSUME NEW q \in Process
      PROVE  mine'[q] = [document |-> mine'[q].document, records |-> mine'[q].records,
                         journal |-> mine'[q].journal, next |-> mine'[q].next]
  <2>1. CASE q = p
    BY <1>2, <2>1 DEF HandAfter
  <2>2. CASE q # p
    BY <1>2, <2>2 DEF ShapeInv, MineOK
  <2> QED
    BY <2>1, <2>2
<1> QED
  BY <1>2, <1>3, <1>4 DEF MineOK

-----------------------------------------------------------------------------
(* The steps of Prepare and Status, field by field *)

\* The process goes on in a phase with what it has in hand; the others do not.
Goes(p, phase, document, recs, j, next) ==
  /\ mine'[p] = [document |-> document, records |-> recs, journal |-> j, next |-> next]
  /\ at'[p] = phase
  /\ \A q \in Process \ {p} : mine'[q] = mine[q] /\ at'[q] = at[q]
  /\ MineOK' /\ at' \in [Process -> Phases]
  /\ fresh' \in [Holder -> SUBSET (Name \cup Objects)]
  /\ fresh'[Restorer] \subseteq fresh[Restorer]

Ends(p) ==
  Goes(p, "idle", 0, [n \in Name |-> NoRecord], NoJournal, 0) /\ UNCHANGED vaultVars

Loads(p) ==
  /\ at[p] = "idle" /\ UNCHANGED vaultVars
  /\ \E d \in Document : Goes(p, "objects", d, records, NoJournal, 0)

TakesUp(p) ==
  /\ at[p] = "objects" /\ UNCHANGED vaultVars
  /\ \E phase \in {"imports", "reset"} :
       /\ phase = "imports" => journal.digest \in {0, mine[p].document}
       /\ Goes(p, phase, mine[p].document, mine[p].records, journal, 1)

Resets(p) ==
  /\ at[p] = "reset" /\ UNCHANGED <<records, snapshot>>
  /\ journal' = [NoJournal EXCEPT !.digest = mine[p].document]
  /\ Goes(p, "imports", mine[p].document, mine[p].records, journal', 1)

Imported(p) ==
  /\ at[p] = "imports" /\ UNCHANGED vaultVars
  /\ Goes(p, "storing", mine[p].document, mine[p].records, mine[p].journal, mine[p].next)

Puts(p, n, v) ==
  /\ Turn(p, n) /\ UNCHANGED <<journal, snapshot>>
  /\ \/ n \in Base(mine[p].document) /\ mine[p].records[n] = NoRecord
     \/ /\ n \notin Base(mine[p].document) /\ ~Current(p, n)
        /\ v = Expand(mine[p].document, n, mine[p].records)
  /\ records[n].revision = mine[p].records[n].revision
  /\ records' = WrittenRecords(records, n, v) /\ n \notin fresh'[Restorer]
  /\ Goes(p, "storing", mine[p].document, WrittenRecords(mine[p].records, n, v),
          mine[p].journal, mine[p].next)

Checkpoints(p, n) ==
  /\ Turn(p, n) /\ UNCHANGED <<records, snapshot>>
  /\ \/ /\ n \in Base(mine[p].document) /\ mine[p].records[n] # NoRecord
        /\ journal' = Checkpoint(p, n, NoEntry.inputs)
     \/ /\ n \notin Base(mine[p].document) /\ Current(p, n)
        /\ journal' = Checkpoint(p, n, InputRevisions(p, n))
  /\ Goes(p, "storing", mine[p].document, mine[p].records, journal', mine[p].next + 1)

Refetched(p) ==
  /\ at[p] = "storing" /\ mine[p].next > Len(Order(mine[p].document)) /\ UNCHANGED vaultVars
  /\ Goes(p, "publish", mine[p].document, mine[p].records, NoJournal, 0)

Publishes(p) ==
  /\ at[p] = "publish" /\ UNCHANGED <<records, journal>>
  /\ snapshot' = Published(p)
  /\ Goes(p, "published", mine[p].document, [n \in Name |-> NoRecord], NoJournal, 0)

Lists(p) ==
  /\ at[p] = "published" /\ UNCHANGED vaultVars
  /\ Goes(p, "status", mine[p].document, records, mine[p].journal, mine[p].next)

Prepares(p) ==
  \/ Ends(p) \/ Loads(p) \/ TakesUp(p) \/ Resets(p) \/ Imported(p)
  \/ \E n \in Name : Checkpoints(p, n) \/ \E v : Puts(p, n, v)
  \/ Refetched(p) \/ Publishes(p) \/ Lists(p)

LEMMA ReturnEnds ==
  ASSUME ShapeInv, NEW p \in Process, Return(p), UNCHANGED vaultVars
  PROVE  Ends(p)
<1>1. mine'[p] = Nothing /\ at'[p] = "idle" /\ fresh'[Restorer] = fresh[Restorer]
  BY ReturnHand
<1>2. Nothing = [document |-> 0, records |-> [n \in Name |-> NoRecord],
                 journal |-> NoJournal, next |-> 0]
  BY DEF Nothing
<1> QED
  BY <1>1, <1>2, ReturnHand DEF Ends, Goes

\* A step that is not a return: the phase, and what is in hand.
LEMMA GoesOn ==
  ASSUME ShapeInv, NEW p \in Process, NEW phase \in Phases,
         at' = [at EXCEPT ![p] = phase],
         NEW document, NEW recs, NEW j, NEW next,
         mine' = [mine EXCEPT ![p] = [document |-> document, records |-> recs,
                                      journal |-> j, next |-> next]],
         fresh' \in [Holder -> SUBSET (Name \cup Objects)],
         fresh'[Restorer] \subseteq fresh[Restorer]
  PROVE  Goes(p, phase, document, recs, j, next)
<1> DEFINE m == [document |-> document, records |-> recs, journal |-> j, next |-> next]
<1>1. HandAfter(p, m)
  BY DEF HandAfter
<1>2. /\ at'[p] = phase /\ \A q \in Process \ {p} : at'[q] = at[q]
      /\ at' \in [Process -> Phases]
  BY DEF ShapeInv
<1> HIDE DEF m
<1>3. /\ mine'[p] = m /\ \A q \in Process \ {p} : mine'[q] = mine[q]
      /\ MineOK'
  BY <1>1, HandOK
<1> QED
  BY <1>2, <1>3 DEF Goes, m

\* Who holds an item as it is, once it is written.
LEMMA TouchedFresh ==
  ASSUME ShapeInv, NEW x
  PROVE  /\ Touched(x) \in [Holder -> SUBSET (Name \cup Objects)]
         /\ Touched(x)[Restorer] = fresh[Restorer] \ {x}
BY DEF Touched, ShapeInv, Holder

LEMMA HandIsRecord ==
  ASSUME ShapeInv, NEW p \in Process
  PROVE  mine[p] = [document |-> mine[p].document, records |-> mine[p].records,
                    journal |-> mine[p].journal, next |-> mine[p].next]
BY DEF ShapeInv, MineOK

\* Assignments to some fields of what is in hand.
LEMMA HandFields ==
  ASSUME ShapeInv, NEW p \in Process
  PROVE  /\ \A j, i : [mine EXCEPT ![p].journal = j, ![p].next = i] =
              [mine EXCEPT ![p] = [document |-> mine[p].document,
                                   records |-> mine[p].records, journal |-> j, next |-> i]]
         /\ \A recs : [mine EXCEPT ![p].records = recs] =
              [mine EXCEPT ![p] = [document |-> mine[p].document, records |-> recs,
                                   journal |-> mine[p].journal, next |-> mine[p].next]]
<1>1. DOMAIN mine = Process
  BY DEF ShapeInv, MineOK
<1> DEFINE m == mine[p]
<1>2. m = [document |-> m.document, records |-> m.records,
           journal |-> m.journal, next |-> m.next]
  BY HandIsRecord
<1>3. ASSUME NEW j, NEW i
      PROVE  [mine EXCEPT ![p].journal = j, ![p].next = i] =
               [mine EXCEPT ![p] = [document |-> m.document, records |-> m.records,
                                    journal |-> j, next |-> i]]
  <2>1. [[m EXCEPT !.journal = j] EXCEPT !.next = i] =
           [document |-> m.document, records |-> m.records, journal |-> j, next |-> i]
    <3> HIDE DEF m
    <3> DEFINE k == [m EXCEPT !.journal = j]
    <3>1. k = [document |-> m.document, records |-> m.records, journal |-> j, next |-> m.next]
      BY <1>2
    <3> HIDE DEF k
    <3>2. [k EXCEPT !.next = i] =
            [document |-> m.document, records |-> m.records, journal |-> j, next |-> i]
      BY <3>1
    <3> QED
      BY <3>2 DEF k
  <2> QED
    BY <1>1, <2>1
<1>4. ASSUME NEW recs
      PROVE  [mine EXCEPT ![p].records = recs] =
               [mine EXCEPT ![p] = [document |-> m.document, records |-> recs,
                                    journal |-> m.journal, next |-> m.next]]
  <2>1. [m EXCEPT !.records = recs] =
           [document |-> m.document, records |-> recs, journal |-> m.journal, next |-> m.next]
    <3> HIDE DEF m
    <3> QED
      BY <1>2
  <2> QED
    BY <1>1, <2>1
<1> QED
  BY <1>3, <1>4

LEMMA StoreJournalGoes ==
  ASSUME ShapeInv, NEW p \in Process, NEW j, NEW phase \in Phases, NEW i,
         StoreJournal(p, j, phase, i), UNCHANGED <<records, snapshot>>
  PROVE  \/ Ends(p)
         \/ journal' = j /\ Goes(p, phase, mine[p].document, mine[p].records, j, i)
<1>1. CASE Return(p) /\ UNCHANGED journal
  BY <1>1, ReturnEnds DEF vaultVars
<1>2. CASE /\ journal' = j
           /\ fresh' = Written(p, "journal")
           /\ mine' = [mine EXCEPT ![p].journal = j, ![p].next = i]
           /\ Goto(p, phase)
  <2>1. mine' = [mine EXCEPT ![p] = [document |-> mine[p].document,
                                     records |-> mine[p].records, journal |-> j, next |-> i]]
    BY <1>2, HandFields
  <2>2. /\ fresh' \in [Holder -> SUBSET (Name \cup Objects)]
        /\ fresh'[Restorer] \subseteq fresh[Restorer]
    <3>1. /\ Touched("journal") \in [Holder -> SUBSET (Name \cup Objects)]
          /\ Touched("journal")[Restorer] = fresh[Restorer] \ {"journal"}
      BY TouchedFresh
    <3>2. p # Restorer /\ p \in Holder /\ Restorer \in Holder /\ "journal" \in Objects
      BY BundleConstants DEF Holder, Objects
    <3> QED
      BY <1>2, <3>1, <3>2 DEF Written
  <2>3. at' = [at EXCEPT ![p] = phase]
    BY <1>2 DEF Goto
  <2> QED
    BY <1>2, <2>1, <2>2, <2>3, GoesOn
<1> QED
  BY <1>1, <1>2 DEF StoreJournal

LEMMA PutRecordGoes ==
  ASSUME ShapeInv, NEW p \in Process, at[p] = "storing", NEW n \in Name, NEW v,
         PutRecord(p, n, v), UNCHANGED <<journal, snapshot>>
  PROVE  \/ Ends(p)
         \/ /\ records[n].revision = mine[p].records[n].revision
            /\ records' = WrittenRecords(records, n, v) /\ n \notin fresh'[Restorer]
            /\ Goes(p, "storing", mine[p].document, WrittenRecords(mine[p].records, n, v),
                    mine[p].journal, mine[p].next)
<1>1. CASE Return(p) /\ UNCHANGED records
  BY <1>1, ReturnEnds DEF vaultVars
<1>2. CASE MayPut(p, n) /\ mine[p].records[n].revision < MaxRevision
  <2> DEFINE stored == [revision |-> mine[p].records[n].revision + 1, value |-> v]
             recs == [mine[p].records EXCEPT ![n] = stored]
  <2>1. /\ records' = [records EXCEPT ![n] = stored]
        /\ mine' = [mine EXCEPT ![p].records[n] = stored]
        /\ fresh' = Touched(n)
        /\ UNCHANGED at
    BY <1>2 DEF PutRecord
  <2>2. records[n].revision = mine[p].records[n].revision
    BY <1>2 DEF MayPut
  <2>3. records' = WrittenRecords(records, n, v)
    BY <2>1, <2>2 DEF WrittenRecords
  <2>4. recs = WrittenRecords(mine[p].records, n, v)
    BY DEF WrittenRecords
  <2> HIDE DEF stored
  <2>5. mine' = [mine EXCEPT ![p].records = recs]
    BY <2>1
  <2> HIDE DEF recs
  <2>6. mine' = [mine EXCEPT ![p] = [document |-> mine[p].document, records |-> recs,
                                     journal |-> mine[p].journal, next |-> mine[p].next]]
    BY <2>5, HandFields
  <2>7. /\ fresh' \in [Holder -> SUBSET (Name \cup Objects)]
        /\ fresh'[Restorer] = fresh[Restorer] \ {n}
    BY <2>1, TouchedFresh
  <2>8. at' = [at EXCEPT ![p] = "storing"] /\ "storing" \in Phases
    BY <2>1 DEF ShapeInv, Phases
  <2>9. Goes(p, "storing", mine[p].document, recs, mine[p].journal, mine[p].next)
    BY <2>6, <2>7, <2>8, GoesOn
  <2> QED
    BY <2>2, <2>3, <2>4, <2>7, <2>9
<1> QED
  BY <1>1, <1>2 DEF PutRecord

\* A step that leaves in hand what was there.
LEMMA SameHand ==
  ASSUME ShapeInv, NEW p \in Process, UNCHANGED mine
  PROVE  mine' = [mine EXCEPT ![p] = [document |-> mine[p].document,
                                      records |-> mine[p].records,
                                      journal |-> mine[p].journal, next |-> mine[p].next]]
<1>1. mine[p] = [document |-> mine[p].document, records |-> mine[p].records,
                 journal |-> mine[p].journal, next |-> mine[p].next]
  BY HandIsRecord
<1>2. mine = [mine EXCEPT ![p] = mine[p]]
  <2>1. mine = [q \in Process |-> mine[q]]
    BY DEF ShapeInv, MineOK
  <2> QED
    BY <2>1
<1> QED
  BY <1>1, <1>2

LEMMA PreparesStep ==
  ASSUME ShapeInv, NEW p \in Process, (\E d \in Document : Begin(p, d)) \/ Step(p) \/ Fail(p)
  PROVE  Prepares(p)
<1>0. /\ {"idle", "objects", "reset", "imports", "storing", "publish", "published",
          "status"} \subseteq Phases
      /\ fresh \in [Holder -> SUBSET (Name \cup Objects)]
      /\ p \in Holder /\ Restorer \in Holder /\ p # Restorer
  BY BundleConstants DEF Phases, ShapeInv, Holder
<1>1. ASSUME NEW d \in Document, Begin(p, d) PROVE Prepares(p)
  <2>1. mine' = [mine EXCEPT ![p] = [document |-> d, records |-> records,
                                     journal |-> NoJournal, next |-> 0]]
    <3> DEFINE k == [Nothing EXCEPT !.document = d]
    <3>1. k = [document |-> d, records |-> [n \in Name |-> NoRecord],
               journal |-> NoJournal, next |-> 0]
      BY DEF Nothing
    <3> HIDE DEF k
    <3>2. [k EXCEPT !.records = records] =
            [document |-> d, records |-> records, journal |-> NoJournal, next |-> 0]
      BY <3>1
    <3>3. mine' = [mine EXCEPT ![p] = [k EXCEPT !.records = records]]
      BY <1>1 DEF Begin, k
    <3> QED
      BY <3>2, <3>3
  <2>2. Goes(p, "objects", d, records, NoJournal, 0)
    BY <1>0, <1>1, <2>1, GoesOn DEF Begin, Goto
  <2>3. Loads(p)
    BY <1>1, <2>2 DEF Begin, Loads
  <2> QED
    BY <2>3 DEF Prepares
<1>2. CASE LoadObjects(p)
  <2>1. CASE Return(p)
    BY <1>2, <2>1, ReturnEnds DEF LoadObjects, Prepares
  <2>2. CASE ~Return(p)
    <3> DEFINE phase == IF journal.digest \in {0, mine[p].document} THEN "imports" ELSE "reset"
    <3>1. /\ mine' = [mine EXCEPT ![p].journal = journal, ![p].next = 1]
          /\ fresh' = [fresh EXCEPT ![p] = Objects]
          /\ at' = [at EXCEPT ![p] = phase]
          /\ at[p] = "objects" /\ UNCHANGED vaultVars
      BY <1>2, <2>2 DEF LoadObjects, Goto
    <3>2. mine' = [mine EXCEPT ![p] = [document |-> mine[p].document,
                                       records |-> mine[p].records,
                                       journal |-> journal, next |-> 1]]
      BY <3>1, HandFields
    <3>3. /\ phase \in {"imports", "reset"}
          /\ phase = "imports" => journal.digest \in {0, mine[p].document}
      OBVIOUS
    <3> HIDE DEF phase
    <3>4. Goes(p, phase, mine[p].document, mine[p].records, journal, 1)
      BY <1>0, <3>1, <3>2, <3>3, GoesOn
    <3>5. TakesUp(p)
      BY <3>1, <3>3, <3>4 DEF TakesUp
    <3> QED
      BY <3>5 DEF Prepares
  <2> QED
    BY <2>1, <2>2
<1>3. CASE ResetJournal(p)
  <2> DEFINE j == [NoJournal EXCEPT !.digest = mine[p].document]
  <2>1. \/ Ends(p)
        \/ journal' = j /\ Goes(p, "imports", mine[p].document, mine[p].records, j, 1)
    BY <1>0, <1>3, StoreJournalGoes DEF ResetJournal
  <2> QED
    BY <1>3, <2>1 DEF ResetJournal, Prepares, Resets
<1>4. ASSUME NEW given, ReadImports(p, given) PROVE Prepares(p)
  <2>1. CASE Return(p)
    BY <1>4, <2>1, ReturnEnds DEF ReadImports, Prepares
  <2>2. CASE Goto(p, "storing") /\ UNCHANGED <<mine, fresh>>
    <3>1. Goes(p, "storing", mine[p].document, mine[p].records, mine[p].journal, mine[p].next)
      BY <1>0, <2>2, SameHand, GoesOn DEF Goto
    <3>2. Imported(p)
      BY <1>4, <3>1 DEF ReadImports, Imported
    <3> QED
      BY <3>2 DEF Prepares
  <2> QED
    BY <1>4, <2>1, <2>2 DEF ReadImports
<1>5. ASSUME NEW n \in Name, StoreBase(p, n) PROVE Prepares(p)
  <2>1. PICK v \in Value : PutRecord(p, n, v)
    BY <1>5 DEF StoreBase
  <2>2. Ends(p) \/ Puts(p, n, v)
    BY <1>5, <2>1, PutRecordGoes DEF StoreBase, Turn, Puts
  <2> QED
    BY <2>2 DEF Prepares
<1>6. ASSUME NEW n \in Name, StoreDerived(p, n) PROVE Prepares(p)
  <2> DEFINE v == Expand(mine[p].document, n, mine[p].records)
  <2>1. Ends(p) \/ Puts(p, n, v)
    BY <1>6, PutRecordGoes DEF StoreDerived, Turn, Puts
  <2> QED
    BY <2>1 DEF Prepares
<1>7. ASSUME NEW n \in Name, CheckpointBase(p, n) PROVE Prepares(p)
  <2>1. Ends(p) \/ Checkpoints(p, n)
    BY <1>0, <1>7, StoreJournalGoes DEF CheckpointBase, Checkpoints
  <2> QED
    BY <2>1 DEF Prepares
<1>8. ASSUME NEW n \in Name, CheckpointDerived(p, n) PROVE Prepares(p)
  <2>1. Ends(p) \/ Checkpoints(p, n)
    BY <1>0, <1>8, StoreJournalGoes DEF CheckpointDerived, Checkpoints
  <2> QED
    BY <2>1 DEF Prepares
<1>9. CASE Refetch(p)
  <2>1. CASE Return(p)
    BY <1>9, <2>1, ReturnEnds DEF Refetch, Prepares
  <2>2. CASE /\ at' = [at EXCEPT ![p] = "publish"]
             /\ mine' = [mine EXCEPT ![p].journal = NoJournal, ![p].next = 0]
             /\ fresh' = [fresh EXCEPT ![p] = @ \ {"journal"}]
    <3>1. Goes(p, "publish", mine[p].document, mine[p].records, NoJournal, 0)
      <4>1. mine' = [mine EXCEPT ![p] = [document |-> mine[p].document,
                                         records |-> mine[p].records,
                                         journal |-> NoJournal, next |-> 0]]
        BY <2>2, HandFields
      <4>2. /\ fresh' \in [Holder -> SUBSET (Name \cup Objects)]
            /\ fresh'[Restorer] \subseteq fresh[Restorer]
        BY <1>0, <2>2
      <4> QED
        BY <1>0, <2>2, <4>1, <4>2, GoesOn
    <3>2. Refetched(p)
      BY <1>9, <3>1 DEF Refetch, Refetched
    <3> QED
      BY <3>2 DEF Prepares
  <2> QED
    BY <1>9, <2>1, <2>2 DEF Refetch, Goto
<1>10. CASE Publish(p)
  <2>1. CASE Return(p) /\ UNCHANGED snapshot
    BY <1>10, <2>1, ReturnEnds DEF Publish, Prepares, vaultVars
  <2>2. CASE MayWrite(p, "snapshot")
    <3>1. /\ snapshot' = Published(p)
          /\ fresh' = [Touched("snapshot") EXCEPT ![p] = {}]
          /\ at' = [at EXCEPT ![p] = "published"]
          /\ mine' = [mine EXCEPT ![p] = [Nothing EXCEPT !.document = mine[p].document]]
          /\ UNCHANGED <<records, journal>> /\ at[p] = "publish"
      BY <1>10, <2>2 DEF Publish, Goto
    <3>2. [Nothing EXCEPT !.document = mine[p].document] =
            [document |-> mine[p].document, records |-> [n \in Name |-> NoRecord],
             journal |-> NoJournal, next |-> 0]
      BY DEF Nothing
    <3>3. /\ fresh' \in [Holder -> SUBSET (Name \cup Objects)]
          /\ fresh'[Restorer] \subseteq fresh[Restorer]
      BY <1>0, <3>1, TouchedFresh
    <3>4. Goes(p, "published", mine[p].document, [n \in Name |-> NoRecord], NoJournal, 0)
      BY <1>0, <3>1, <3>2, <3>3, GoesOn
    <3>5. Publishes(p)
      BY <3>1, <3>4 DEF Publishes
    <3> QED
      BY <3>5 DEF Prepares
  <2> QED
    BY <1>10, <2>1, <2>2 DEF Publish
<1>11. CASE ListAgain(p)
  <2>1. mine' = [mine EXCEPT ![p] = [document |-> mine[p].document, records |-> records,
                                     journal |-> mine[p].journal, next |-> mine[p].next]]
    BY <1>11, HandFields DEF ListAgain
  <2>2. Goes(p, "status", mine[p].document, records, mine[p].journal, mine[p].next)
    BY <1>0, <1>11, <2>1, GoesOn DEF ListAgain, Goto
  <2>3. Lists(p)
    BY <1>11, <2>2 DEF ListAgain, Lists
  <2> QED
    BY <2>3 DEF Prepares
<1>12. CASE ReportStatus(p) \/ Fail(p)
  BY <1>12, ReturnEnds DEF ReportStatus, Fail, Prepares
<1> QED
  BY <1>1, <1>2, <1>3, <1>4, <1>5, <1>6, <1>7, <1>8, <1>9, <1>10, <1>11, <1>12 DEF Step

-----------------------------------------------------------------------------
(* Shapes, and the records as a restoration sees them *)

\* Commands leave the records alone or write one of them at its next revision,
\* which is not as it was restored then.
RecordWritten ==
  \E n \in Name : \E v :
    records' = WrittenRecords(records, n, v) /\ n \notin fresh'[Restorer]

LEMMA BundleRecords ==
  ASSUME ShapeInv, BundleNext
  PROVE  /\ UNCHANGED records \/ RecordWritten
         /\ fresh'[Restorer] \subseteq fresh[Restorer]
<1>1. ASSUME NEW p \in Process, (\E d \in Document : Begin(p, d)) \/ Step(p) \/ Fail(p)
      PROVE  /\ UNCHANGED records \/ RecordWritten
             /\ fresh'[Restorer] \subseteq fresh[Restorer]
  <2>1. Prepares(p)
    BY <1>1, PreparesStep
  <2>2. CASE Ends(p) \/ Loads(p) \/ TakesUp(p) \/ Resets(p) \/ Imported(p)
    BY <2>2 DEF Ends, Loads, TakesUp, Resets, Imported, Goes, vaultVars
  <2>3. CASE Refetched(p) \/ Publishes(p) \/ Lists(p)
    BY <2>3 DEF Refetched, Publishes, Lists, Goes, vaultVars
  <2>4. ASSUME NEW n \in Name, Checkpoints(p, n)
        PROVE  UNCHANGED records /\ fresh'[Restorer] \subseteq fresh[Restorer]
    BY <2>4 DEF Checkpoints, Goes
  <2>5. ASSUME NEW n \in Name, NEW v, Puts(p, n, v)
        PROVE  RecordWritten /\ fresh'[Restorer] \subseteq fresh[Restorer]
    BY <2>5 DEF Puts, Goes, RecordWritten
  <2> QED
    BY <2>1, <2>2, <2>3, <2>4, <2>5 DEF Prepares
<1>2. ASSUME NEW n \in Name, NEW v, ChangeRecord(n, v)
      PROVE  RecordWritten /\ fresh'[Restorer] \subseteq fresh[Restorer]
  <2>1. records' = WrittenRecords(records, n, v)
    <3>1. records = [m \in Name |-> records[m]]
      BY DEF ShapeInv, RecordsOK
    <3> QED
      BY <1>2, <3>1 DEF ChangeRecord, WrittenRecords
  <2>2. fresh'[Restorer] = fresh[Restorer] \ {n}
    BY <1>2, TouchedFresh DEF ChangeRecord
  <2> QED
    BY <2>1, <2>2 DEF RecordWritten
<1> QED
  BY <1>1, <1>2 DEF BundleNext

LEMMA PreparesShape ==
  ASSUME ShapeInv, NEW p \in Process, Prepares(p), UNCHANGED recoveryVars
  PROVE  ShapeInv'
<1>0. /\ RecordsOK(records) /\ RecordsOK(mine[p].records)
      /\ \A q \in Process : RecordsOK(mine[q].records)
      /\ \A n \in Name : \A v : /\ RecordsOK(WrittenRecords(records, n, v))
                                /\ RecordsOK(WrittenRecords(mine[p].records, n, v))
  BY WrittenShape DEF ShapeInv
<1>1. ASSUME NEW phase, NEW d, NEW recs, NEW j, NEW i, Goes(p, phase, d, recs, j, i),
             RecordsOK(recs), RecordsOK(records')
      PROVE  ShapeInv'
  <2>1. mine'[p].records = recs
    BY <1>1 DEF Goes
  <2>2. \A q \in Process : RecordsOK(mine'[q].records)
    BY <1>0, <1>1, <2>1 DEF Goes
  <2>3. /\ MineOK' /\ at' \in [Process -> Phases]
        /\ fresh' \in [Holder -> SUBSET (Name \cup Objects)]
    BY <1>1 DEF Goes
  <2>4. UNCHANGED <<artifact, exporting, restoring, pending>>
    BY DEF recoveryVars
  <2> QED
    BY <1>1, <2>2, <2>3, <2>4 DEF ShapeInv, Replaced, RecordsOK
<1>2. CASE Ends(p) \/ Loads(p) \/ TakesUp(p) \/ Lists(p)
  BY <1>0, <1>1, <1>2, EmptyRecords DEF Ends, Loads, TakesUp, Lists, vaultVars
<1>3. CASE Resets(p) \/ Imported(p) \/ Refetched(p) \/ Publishes(p)
  BY <1>0, <1>1, <1>3, EmptyRecords DEF Resets, Imported, Refetched, Publishes, vaultVars
<1>4. ASSUME NEW n \in Name, Checkpoints(p, n) PROVE ShapeInv'
  BY <1>0, <1>1, <1>4 DEF Checkpoints
<1>5. ASSUME NEW n \in Name, NEW v, Puts(p, n, v) PROVE ShapeInv'
  BY <1>0, <1>1, <1>5 DEF Puts
<1> QED
  BY <1>2, <1>3, <1>4, <1>5 DEF Prepares

LEMMA ShapeStep ==
  ASSUME ShapeInv, [Next]_vars
  PROVE  ShapeInv'
<1>1. CASE BundleNext /\ UNCHANGED recoveryVars
  <2>1. ASSUME NEW p \in Process, (\E d \in Document : Begin(p, d)) \/ Step(p) \/ Fail(p)
        PROVE  ShapeInv'
    BY <1>1, <2>1, PreparesStep, PreparesShape
  <2>2. ASSUME NEW n \in Name, NEW v, ChangeRecord(n, v)
        PROVE  ShapeInv'
    <3>1. records' = WrittenRecords(records, n, v)
      <4>1. records = [m \in Name |-> records[m]]
        BY DEF ShapeInv, RecordsOK
      <4> QED
        BY <2>2, <4>1 DEF ChangeRecord, WrittenRecords
    <3>2. RecordsOK(records')
      BY <3>1, WrittenShape DEF ShapeInv
    <3>3. fresh' \in [Holder -> SUBSET (Name \cup Objects)]
      BY <2>2, TouchedFresh DEF ChangeRecord
    <3>4. UNCHANGED <<at, mine, exporting, artifact, restoring>>
      BY <1>1, <2>2 DEF ChangeRecord, recoveryVars
    <3> QED
      BY <3>2, <3>3, <3>4 DEF ShapeInv, MineOK, Replaced
  <2> QED
    BY <1>1, <2>1, <2>2 DEF BundleNext
<1>2. CASE ExportRecords
  BY <1>2 DEF ExportRecords, ShapeInv, MineOK, Replaced, RecordsOK, bundleVars
<1>3. CASE ExportAndReplace
  <2>1. records' = [n \in Name |-> NoRecord] /\ RecordsOK(records')
    BY <1>3, EmptyRecords DEF ExportAndReplace
  <2>2. fresh' \in [Holder -> SUBSET (Name \cup Objects)]
    BY <1>3 DEF ExportAndReplace
  <2>3. at' \in [Process -> Phases]
    BY <1>3 DEF ExportAndReplace, Phases
  <2>4. /\ MineOK'
        /\ \A p \in Process : RecordsOK(mine'[p].records)
    <3>1. mine' = [p \in Process |-> Nothing]
      BY <1>3 DEF ExportAndReplace
    <3>2. Nothing.records = [n \in Name |-> NoRecord]
      BY DEF Nothing
    <3>3. \A p \in Process : mine'[p] = Nothing
      BY <3>1
    <3>4. \A p \in Process : RecordsOK(mine'[p].records)
      BY <3>2, <3>3, EmptyRecords
    <3>5. Nothing = [document |-> Nothing.document, records |-> Nothing.records,
                     journal |-> Nothing.journal, next |-> Nothing.next]
      BY DEF Nothing
    <3> QED
      BY <3>1, <3>3, <3>4, <3>5 DEF MineOK
  <2>5. exporting' = None
    BY <1>3 DEF ExportAndReplace
  <2>6. RecordsOK(artifact'.records)
    <3>1. artifact'.records = exporting
      BY <1>3 DEF ExportAndReplace
    <3>2. RecordsOK(exporting)
      BY <1>3 DEF ShapeInv, ExportAndReplace
    <3> QED
      BY <3>1, <3>2
  <2> QED
    BY <2>1, <2>2, <2>3, <2>4, <2>5, <2>6 DEF ShapeInv
<1>4. ASSUME UNCHANGED <<bundleVars, artifact, exporting>>,
             restoring' = "no" => restoring = "no", restoring' = restoring \/ Running \/ restoring = "stopped"
      PROVE  ShapeInv'
  <2>1. UNCHANGED <<records, fresh, at, mine>>
    BY <1>4 DEF bundleVars
  <2>2. exporting' \notin {None, Never} => ~Replaced' /\ RecordsOK(exporting')
    BY <1>4 DEF ShapeInv, Replaced, Running
  <2>3. restoring' \notin {"no", "complete"} => RecordsOK(artifact'.records)
    BY <1>4 DEF ShapeInv, Running
  <2> QED
    BY <2>1, <2>2, <2>3 DEF ShapeInv, MineOK
<1>5. CASE ResumeRestore \/ StopRestore \/ ValidateRecords \/ ValidateObjects \/ VerifyRecords
  BY <1>4, <1>5 DEF ResumeRestore, StopRestore, ValidateRecords, ValidateObjects, Validate,
    VerifyRecords, Running
<1>6. ASSUME NEW x \in Name \cup Objects, Upload(x), restoring \in {"putting_records", "putting_objects"},
             x \in Name => restoring = "putting_records"
      PROVE  ShapeInv'
  <2>1. /\ RecordsOK(records')
        /\ fresh' \in [Holder -> SUBSET (Name \cup Objects)]
    <3>1. CASE UNCHANGED <<records, fresh>>
      BY <3>1 DEF ShapeInv, RecordsOK
    <3>2. CASE /\ fresh' = Written(Restorer, x)
               /\ records' = IF x \in Name THEN [records EXCEPT ![x] = RestoredRecord(x)]
                             ELSE records
      <4>1. fresh' \in [Holder -> SUBSET (Name \cup Objects)]
        <5>1. Touched(x) \in [Holder -> SUBSET (Name \cup Objects)] /\ Restorer \in Holder
          BY TouchedFresh DEF Holder
        <5> QED
          BY <3>2, <5>1 DEF Written
      <4>2. CASE x \in Name
        <5>1. artifact.records[x] = [revision |-> artifact.records[x].revision,
                                     value |-> artifact.records[x].value]
          BY <1>6, <4>2 DEF ShapeInv, RecordsOK
        <5>2. RestoredRecord(x) = [revision |-> 1, value |-> artifact.records[x].value]
          BY <5>1 DEF RestoredRecord
        <5>3. records' = [records EXCEPT ![x] = [revision |-> 1,
                                                 value |-> artifact.records[x].value]]
          BY <3>2, <4>2, <5>2
        <5>4. DOMAIN records = Name
          BY DEF ShapeInv, RecordsOK
        <5>5. \A n \in Name : records'[n] =
                IF n = x THEN [revision |-> 1, value |-> artifact.records[x].value]
                ELSE records[n]
          BY <5>3, <5>4
        <5>6. records' = [n \in Name |-> records'[n]]
          BY <5>3, <5>4
        <5>7. \A n \in Name : /\ records'[n] = [revision |-> records'[n].revision,
                                                value |-> records'[n].value]
                              /\ records'[n].revision \in Nat
                              /\ records'[n].revision = 0 => records'[n].value = None
          <6>1. \A n \in Name : /\ records[n] = [revision |-> records[n].revision,
                                                 value |-> records[n].value]
                                /\ records[n].revision \in Nat
                                /\ records[n].revision = 0 => records[n].value = None
            BY RecordsAre DEF ShapeInv
          <6> QED
            BY <5>5, <6>1
        <5>8. RecordsOK(records')
          <6>1. records' = [n \in Name |-> [revision |-> records'[n].revision,
                                            value |-> records'[n].value]]
            BY <5>6, <5>7
          <6> QED
            BY <5>7, <6>1 DEF RecordsOK
        <5> QED
          BY <4>1, <5>8
      <4>3. CASE x \notin Name
        BY <3>2, <4>1, <4>3 DEF ShapeInv, RecordsOK
      <4> QED
        BY <4>2, <4>3
    <3> QED
      BY <1>6, <3>1, <3>2 DEF Upload
  <2>2. UNCHANGED <<at, mine, artifact, exporting>>
    BY <1>6 DEF Upload
  <2>3. restoring' \notin {"no", "complete"}
    BY <1>6 DEF Upload
  <2> QED
    BY <1>6, <2>1, <2>2, <2>3 DEF ShapeInv, MineOK, Replaced
<1>7. ASSUME NEW n \in Name, UploadRecord(n) PROVE ShapeInv'
  BY <1>6, <1>7 DEF UploadRecord
<1>8. ASSUME NEW o \in Objects, UploadObject(o) PROVE ShapeInv'
  BY <1>6, <1>8, NamesAreNoObjects DEF UploadObject
<1>9. CASE VerifyObjects
  <2>1. CASE UNCHANGED <<artifact, fresh>> /\ restoring' = "stopped"
    BY <1>4, <1>9, <2>1 DEF VerifyObjects, bundleVars, Running
  <2>2. CASE restoring' = "complete" /\ fresh' = [fresh EXCEPT ![Restorer] = {}]
    BY <1>9, <2>2 DEF VerifyObjects, ShapeInv, MineOK, Replaced, RecordsOK, Holder
  <2> QED
    BY <1>9, <2>1, <2>2 DEF VerifyObjects
<1>10. CASE UNCHANGED vars
  BY <1>10 DEF vars, bundleVars, recoveryVars, ShapeInv, MineOK, Replaced, RecordsOK
<1> QED
  BY <1>1, <1>2, <1>3, <1>5, <1>7, <1>8, <1>9, <1>10 DEF Next, RestoreStep

LEMMA ShapeInitially == Init => ShapeInv
<1> SUFFICES ASSUME Init PROVE ShapeInv
  OBVIOUS
<1>1. /\ RecordsOK(records) /\ records = [n \in Name |-> NoRecord]
      /\ fresh = [h \in Holder |-> {}] /\ at = [p \in Process |-> "idle"]
      /\ mine = [p \in Process |-> Nothing]
  BY EmptyRecords DEF Init, BundleInit
<1>2. fresh \in [Holder -> SUBSET (Name \cup Objects)] /\ at \in [Process -> Phases]
  BY <1>1 DEF Phases
<1>3. MineOK /\ \A p \in Process : RecordsOK(mine[p].records)
  <2>1. \A p \in Process : mine[p] = Nothing
    BY <1>1
  <2>2. Nothing.records = [n \in Name |-> NoRecord]
    BY DEF Nothing
  <2>3. \A p \in Process : RecordsOK(mine[p].records)
    BY <2>1, <2>2, EmptyRecords
  <2>4. Nothing = [document |-> Nothing.document, records |-> Nothing.records,
                   journal |-> Nothing.journal, next |-> Nothing.next]
    BY DEF Nothing
  <2> QED
    BY <1>1, <2>1, <2>3, <2>4 DEF MineOK
<1>4. exporting \in {None, Never} /\ restoring = "no"
  BY DEF Init
<1> QED
  BY <1>1, <1>2, <1>3, <1>4 DEF ShapeInv

LEMMA ShapeAlways == Spec => []ShapeInv
BY ShapeInitially, ShapeStep, PTL DEF Spec

-----------------------------------------------------------------------------
(* What a restoration leaves *)

\* What is as it was uploaded is at revision 1 and has the exported value; and
\* once the records are verified, none of the artifact is missing.
RestoredInv ==
  /\ ShapeInv
  /\ restoring \notin {"no", "complete"} =>
       \A n \in Name \cap fresh[Restorer] :
         records[n].revision = 1 /\ records[n].value = artifact.records[n].value
  /\ restoring \in {"objects", "putting_objects"} =>
       \A n \in Name : artifact.records[n] # NoRecord =>
         /\ records[n].revision # 0
         /\ \/ records[n].revision > 1
            \/ records[n].value = artifact.records[n].value

LEMMA RestoredStep ==
  ASSUME RestoredInv, [Next]_vars
  PROVE  RestoredInv'
<1>0. ShapeInv /\ ShapeInv'
  BY ShapeStep DEF RestoredInv
<1>1. CASE BundleNext /\ UNCHANGED recoveryVars
  <2>0. UNCHANGED <<artifact, restoring>> /\ fresh'[Restorer] \subseteq fresh[Restorer]
    BY <1>0, <1>1, BundleRecords DEF recoveryVars
  <2>1. CASE UNCHANGED records
    BY <1>0, <2>0, <2>1 DEF RestoredInv
  <2>2. CASE RecordWritten
    <3>1. PICK n \in Name : \E v :
            records' = WrittenRecords(records, n, v) /\ n \notin fresh'[Restorer]
      BY <2>2 DEF RecordWritten
    <3>2. /\ \A m \in Name : m # n => records'[m] = records[m]
          /\ records'[n].revision = records[n].revision + 1 /\ records[n].revision \in Nat
      <4>1. PICK v : records' = WrittenRecords(records, n, v)
        BY <3>1
      <4>2. RecordsOK(records)
        BY <1>0 DEF ShapeInv
      <4>3. \A m \in Name : WrittenRecords(records, n, v)[m] =
              IF m = n THEN [revision |-> records[n].revision + 1, value |-> v]
              ELSE records[m]
        BY <4>2, WrittenShape
      <4>4. records'[n] = [revision |-> records[n].revision + 1, value |-> v]
        BY <4>1, <4>3
      <4>5. ASSUME NEW m \in Name, m # n PROVE records'[m] = records[m]
        BY <4>1, <4>3, <4>5
      <4>6. records'[n].revision = records[n].revision + 1
        BY <4>4
      <4> QED
        BY <4>2, <4>5, <4>6, RecordsAre
    <3>3. n \notin fresh'[Restorer]
      BY <3>1
    <3>4. ASSUME restoring \notin {"no", "complete"}, NEW m \in Name \cap fresh'[Restorer]
          PROVE  records'[m].revision = 1 /\ records'[m].value = artifact.records[m].value
      BY <2>0, <3>2, <3>3, <3>4 DEF RestoredInv
    <3>5. ASSUME restoring \in {"objects", "putting_objects"}, NEW m \in Name,
                 artifact.records[m] # NoRecord
          PROVE  /\ records'[m].revision # 0
                 /\ \/ records'[m].revision > 1
                    \/ records'[m].value = artifact.records[m].value
      <4>1. CASE m = n
        <5>1. records[n].revision # 0
          BY <3>5, <4>1 DEF RestoredInv
        <5> QED
          BY <3>2, <4>1, <5>1
      <4>2. CASE m # n
        BY <3>2, <3>5, <4>2 DEF RestoredInv
      <4> QED
        BY <4>1, <4>2
    <3> QED
      BY <1>0, <2>0, <3>4, <3>5 DEF RestoredInv
  <2> QED
    BY <1>0, <1>1, <2>1, <2>2, BundleRecords
<1>2. CASE ExportRecords
  BY <1>0, <1>2 DEF ExportRecords, RestoredInv, bundleVars
<1>3. CASE ExportAndReplace
  <2>1. fresh'[Restorer] = {} /\ restoring' = "records"
    BY <1>3 DEF ExportAndReplace, Holder
  <2> QED
    BY <1>0, <2>1 DEF RestoredInv
<1>4. CASE ResumeRestore \/ StopRestore \/ ValidateRecords
  <2>1. /\ UNCHANGED <<bundleVars, artifact>>
        /\ restoring \notin {"no", "complete"}
        /\ restoring' \in {"stopped", "records", "putting_records"}
    BY <1>4 DEF ResumeRestore, StopRestore, ValidateRecords, Validate, Running
  <2> QED
    BY <1>0, <2>1 DEF RestoredInv, bundleVars
<1>5. CASE ValidateObjects
  <2>1. /\ UNCHANGED <<bundleVars, artifact>>
        /\ restoring = "objects"
        /\ restoring' \in {"stopped", "putting_objects"}
    BY <1>5 DEF ValidateObjects, Validate
  <2> QED
    BY <1>0, <2>1 DEF RestoredInv, bundleVars
<1>6. CASE VerifyRecords
  <2>1. /\ UNCHANGED <<records, fresh, artifact>> /\ restoring = "putting_records"
        /\ restoring' \in {"objects", "stopped"}
        /\ restoring' = "objects" => Verified(Name)
    BY <1>6 DEF VerifyRecords, bundleVars
  <2>2. ASSUME Verified(Name), NEW n \in Name, artifact.records[n] # NoRecord
        PROVE  records[n].revision # 0 /\ records[n].value = artifact.records[n].value
    <3>1. n \in Exported \cap Name
      BY <2>2 DEF Exported
    <3>2. n \in Existing \cap Name
      BY <2>2, <3>1 DEF Verified
    <3>3. n \in fresh[Restorer]
      BY <2>2, <3>2 DEF Verified, AsExpected
    <3> QED
      BY <2>1, <3>3 DEF RestoredInv
  <2>3. restoring' \notin {"no", "complete"} =>
          \A n \in Name \cap fresh'[Restorer] :
            records'[n].revision = 1 /\ records'[n].value = artifact'.records[n].value
    BY <2>1 DEF RestoredInv
  <2>4. restoring' \in {"objects", "putting_objects"} =>
          \A n \in Name : artifact'.records[n] # NoRecord =>
            records'[n].revision # 0 /\ records'[n].value = artifact'.records[n].value
    BY <2>1, <2>2
  <2> QED
    BY <1>0, <2>3, <2>4 DEF RestoredInv
<1>7. ASSUME NEW n \in Name, UploadRecord(n) PROVE RestoredInv'
  <2>1. restoring = "putting_records" /\ restoring' \in {"putting_records", "stopped"}
        /\ UNCHANGED artifact
    BY <1>7 DEF UploadRecord, Upload
  <2>2. CASE UNCHANGED <<records, fresh>>
    BY <1>0, <2>1, <2>2 DEF RestoredInv
  <2>3. CASE records' = [records EXCEPT ![n] = RestoredRecord(n)] /\ fresh' = Written(Restorer, n)
    <3>1. fresh'[Restorer] \subseteq fresh[Restorer] \cup {n}
      <4>1. /\ Touched(n) \in [Holder -> SUBSET (Name \cup Objects)]
            /\ Touched(n)[Restorer] = fresh[Restorer] \ {n} /\ Restorer \in Holder
        BY <1>0, TouchedFresh DEF Holder
      <4> QED
        BY <2>3, <4>1 DEF Written
    <3>2. DOMAIN records = Name
      BY <1>0 DEF ShapeInv, RecordsOK
    <3>3. RestoredRecord(n) = [revision |-> 1, value |-> artifact.records[n].value]
      <4>1. artifact.records[n] = [revision |-> artifact.records[n].revision,
                                   value |-> artifact.records[n].value]
        BY <1>0, <2>1, RecordsAre DEF ShapeInv
      <4> QED
        BY <4>1 DEF RestoredRecord
    <3>4. /\ records'[n] = [revision |-> 1, value |-> artifact.records[n].value]
          /\ \A m \in Name : m # n => records'[m] = records[m]
      BY <2>3, <3>2, <3>3
    <3>5. ASSUME NEW m \in Name \cap fresh'[Restorer]
          PROVE  records'[m].revision = 1 /\ records'[m].value = artifact.records[m].value
      <4>1. CASE m = n
        BY <3>4, <4>1
      <4>2. CASE m # n
        BY <2>1, <3>1, <3>4, <4>2 DEF RestoredInv
      <4> QED
        BY <4>1, <4>2
    <3> QED
      BY <1>0, <2>1, <3>5 DEF RestoredInv
  <2> QED
    BY <1>7, <2>2, <2>3 DEF UploadRecord, Upload
<1>8. ASSUME NEW o \in Objects, UploadObject(o) PROVE RestoredInv'
  <2>1. /\ restoring = "putting_objects" /\ restoring' \in {"putting_objects", "stopped"}
        /\ UNCHANGED <<artifact, records>>
    BY <1>8, NamesAreNoObjects DEF UploadObject, Upload
  <2>2. Name \cap fresh'[Restorer] \subseteq fresh[Restorer]
    <3>1. CASE UNCHANGED fresh
      BY <3>1
    <3>2. CASE fresh' = Written(Restorer, o)
      <4>1. /\ Touched(o) \in [Holder -> SUBSET (Name \cup Objects)]
            /\ Touched(o)[Restorer] = fresh[Restorer] \ {o} /\ Restorer \in Holder
        BY <1>0, TouchedFresh DEF Holder
      <4>2. fresh'[Restorer] \subseteq fresh[Restorer] \cup {o}
        BY <3>2, <4>1 DEF Written
      <4> QED
        BY <1>8, <4>2, NamesAreNoObjects
    <3> QED
      BY <1>8, <3>1, <3>2 DEF UploadObject, Upload
  <2> QED
    BY <1>0, <2>1, <2>2 DEF RestoredInv
<1>9. CASE VerifyObjects
  <2>1. CASE restoring' = "stopped" /\ UNCHANGED <<artifact, fresh, records>>
    BY <1>0, <1>9, <2>1 DEF VerifyObjects, RestoredInv
  <2>2. CASE restoring' = "complete"
    BY <1>0, <2>2 DEF RestoredInv
  <2> QED
    BY <1>9, <2>1, <2>2 DEF VerifyObjects
<1>10. CASE UNCHANGED vars
  BY <1>0, <1>10 DEF vars, bundleVars, recoveryVars, RestoredInv
<1> QED
  BY <1>1, <1>2, <1>3, <1>4, <1>5, <1>6, <1>7, <1>8, <1>9, <1>10 DEF Next, RestoreStep

LEMMA RestoredAlways == Spec => []RestoredInv
<1>1. Init => RestoredInv
  BY ShapeInitially DEF RestoredInv, Init
<1> QED
  BY <1>1, RestoredStep, PTL DEF Spec

\* recovery-restore, however often it was stopped and resumed and whatever other
\* commands did to the new vault meanwhile, reports success only when nothing of
\* the artifact is missing and no record it uploaded has another value.
THEOREM RestorationIsExact == Spec => RestoredIsExported
<1>1. ASSUME RestoredInv, [Next]_vars, restoring' = "complete", restoring # "complete",
             NEW n \in Name, artifact.records[n] # NoRecord
      PROVE  /\ records[n] # NoRecord
             /\ \/ records[n].revision > 1
                \/ records[n].value = artifact.records[n].value
  <2>1. restoring = "putting_objects"
    BY <1>1 DEF Next, RestoreStep, recoveryVars, vars, ExportRecords, ExportAndReplace,
      ResumeRestore, StopRestore, ValidateRecords, ValidateObjects, Validate, VerifyRecords,
      UploadRecord, UploadObject, Upload, VerifyObjects
  <2> QED
    BY <1>1, <2>1, NoRecordIsRevisionZero DEF RestoredInv, ShapeInv
<1>2. RestoredInv /\ [Next]_vars =>
        (restoring' = "complete" /\ restoring # "complete" =>
           \A n \in Name :
             artifact.records[n] # NoRecord =>
               /\ records[n] # NoRecord
               /\ \/ records[n].revision > 1
                  \/ records[n].value = artifact.records[n].value)
  BY <1>1
<1> QED
  BY <1>2, RestoredAlways, PTL DEF RestoredIsExported, Spec

-----------------------------------------------------------------------------
(* Evidence of published revisions *)

LEMMA SameSnapshotRetains == UNCHANGED snapshot => RetainsEvidence
BY DEF RetainsEvidence

\* Whichever process publishes, with whatever manifest, and a snapshot that is
\* restored too: of every record that its own manifest has, a new snapshot of a
\* vault drops no revision that the one it replaces was published with or
\* retained.
THEOREM EvidenceRetained == Spec => EvidenceIsRetained
<1>1. ASSUME ShapeInv, [Next]_vars, Replaced' = Replaced
      PROVE  RetainsEvidence
  <2>1. ASSUME NEW p \in Process, (\E d \in Document : Begin(p, d)) \/ Step(p) \/ Fail(p)
        PROVE  RetainsEvidence
    <3>1. Prepares(p)
      BY <1>1, <2>1, PreparesStep
    <3>2. CASE Publishes(p)
      <4>1. PICK own : own = NamesOf(mine[p].document)
        OBVIOUS
      <4>2. snapshot' = [digest    |-> mine[p].document,
                         revisions |-> [n \in Name |-> IF n \in own
                                                       THEN mine[p].records[n].revision ELSE 0],
                         previous  |-> [n \in Name |-> IF n \in own
                                                       THEN Retained(p, n) ELSE {}]]
        BY <3>2, <4>1 DEF Publishes, Published
      <4>3. ASSUME NEW n \in Name, n \in NamesOf(snapshot'.digest)
            PROVE  (snapshot.previous[n] \cup {snapshot.revisions[n]}) \ {0}
                     \subseteq snapshot'.previous[n] \cup {snapshot'.revisions[n]}
        <5>1. n \in own
          BY <4>1, <4>2, <4>3
        <5>2. /\ snapshot'.previous[n] = Retained(p, n)
              /\ snapshot'.revisions[n] = mine[p].records[n].revision
          BY <4>2, <4>3, <5>1
        <5> QED
          BY <5>2 DEF Retained
      <4> QED
        BY <4>3 DEF RetainsEvidence
    <3>3. CASE Ends(p) \/ Loads(p) \/ TakesUp(p) \/ Resets(p) \/ Imported(p) \/ Refetched(p)
               \/ Lists(p)
      BY <3>3, SameSnapshotRetains DEF Ends, Loads, TakesUp, Resets, Imported, Refetched, Lists,
        vaultVars
    <3>4. CASE \E n \in Name : Checkpoints(p, n) \/ \E v : Puts(p, n, v)
      BY <3>4, SameSnapshotRetains DEF Checkpoints, Puts
    <3> QED
      BY <3>1, <3>2, <3>3, <3>4 DEF Prepares
  <2>2. CASE \E n \in Name, v \in Value : ChangeRecord(n, v)
    BY <2>2, SameSnapshotRetains DEF ChangeRecord
  <2>3. ASSUME NEW x \in Name \cup Objects, Upload(x)
        PROVE  RetainsEvidence
    <3>1. CASE UNCHANGED snapshot
      BY <3>1, SameSnapshotRetains
    <3>2. CASE x = "snapshot" /\ x \notin Existing
      <4>1. snapshot = NoSnapshot
        BY <3>2 DEF Existing
      <4>2. \A n \in Name : snapshot.previous[n] = {} /\ snapshot.revisions[n] = 0
        BY <4>1 DEF NoSnapshot
      <4> QED
        BY <4>2 DEF RetainsEvidence
    <3> QED
      BY <2>3, <3>1, <3>2 DEF Upload
  <2>4. ~ExportAndReplace
    BY <1>1 DEF ExportAndReplace, ShapeInv, Replaced
  <2>5. CASE ExportRecords \/ ResumeRestore \/ StopRestore \/ ValidateRecords \/ ValidateObjects
             \/ VerifyRecords \/ VerifyObjects \/ UNCHANGED vars
    BY <2>5, SameSnapshotRetains DEF ExportRecords, ResumeRestore, StopRestore, ValidateRecords,
      ValidateObjects, Validate, VerifyRecords, VerifyObjects, vars, bundleVars
  <2> QED
    BY <1>1, <2>1, <2>2, <2>3, <2>4, <2>5 DEF Next, BundleNext, RestoreStep, UploadRecord,
      UploadObject
<1> QED
  BY <1>1, ShapeAlways, PTL DEF EvidenceIsRetained, Spec

-----------------------------------------------------------------------------
(* What was ever written: H[n][k] is the value of revision k of record n *)

\* Records as someone read them, no later than they are now.
Held(H, recs, now) ==
  \A n \in Name : /\ recs[n].revision \in 0..now[n].revision
                  /\ recs[n].value = H[n][recs[n].revision]

\* A journal's entry is of a revision that was derived from those of its inputs.
EntryOK(H, now, d, n, e) ==
  e.revision # 0 =>
    /\ e.revision \in 0..now[n].revision
    /\ \A r \in Refs(d, n) : e.inputs[r] \in 0..now[r].revision
    /\ H[n][e.revision] = <<Text(d, n), [r \in Refs(d, n) |-> H[r][e.inputs[r]]]>>

JournalOK(H, now, j) ==
  /\ j = [digest |-> j.digest, entries |-> j.entries]
  /\ DOMAIN j.entries = Name
  /\ j.digest \in Document \cup {0}
  /\ j.digest = 0 => \A n \in Name : j.entries[n].revision = 0
  /\ j.digest # 0 =>
       \A n \in DerivedOf(j.digest) : EntryOK(H, now, j.digest, n, j.entries[n])

\* The revisions of a snapshot were derived from one another.
SnapshotOK(H, now, s) ==
  s.digest # 0 =>
    /\ s.digest \in Document
    /\ \A n \in Name : s.revisions[n] \in 0..now[n].revision
    /\ \A n \in DerivedOf(s.digest) :
         H[n][s.revisions[n]] =
           <<Text(s.digest, n), [r \in Refs(s.digest, n) |-> H[r][s.revisions[r]]]>>

\* The derived records before the next one are there and are derived.
DoneBefore(d, recs, next) ==
  \A k \in 1..Len(Order(d)) :
    k < next /\ Order(d)[k] \in DerivedOf(d) =>
      /\ recs[Order(d)[k]].revision # 0
      /\ recs[Order(d)[k]].value = Expand(d, Order(d)[k], recs)

InHand(H, now, phase, d, recs, j, next) ==
  /\ Held(H, recs, now)
  /\ JournalOK(H, now, j)
  /\ phase # "idle" => d \in Document
  /\ phase \in {"imports", "storing"} => j.digest \in {0, d} /\ next \in Nat
  /\ phase = "imports" => next = 1
  /\ phase = "storing" => DoneBefore(d, recs, next)
  /\ phase = "publish" => IsDerived(d, recs)

HandsOK(H) ==
  \A p \in Process : InHand(H, records, at[p], mine[p].document, mine[p].records,
                            mine[p].journal, mine[p].next)

Past(H) ==
  /\ \A n \in Name : H[n][0] = None
  /\ Held(H, records, records)
  /\ JournalOK(H, records, journal)
  /\ SnapshotOK(H, records, snapshot)
  /\ HandsOK(H)

PastInv == ShapeInv /\ (~Replaced => \E H : Past(H))

\* A later history agrees with an earlier one on what was written by then.
Later(H, now, H2, now2) ==
  \A n \in Name : /\ now[n].revision \in Nat /\ now2[n].revision \in Nat
                  /\ now[n].revision <= now2[n].revision
                  /\ \A i \in 0..now[n].revision : H2[n][i] = H[n][i]

LEMMA DerivedNames ==
  ASSUME NEW d \in Document, NEW n \in DerivedOf(d)
  PROVE  /\ n \in Name /\ n \in NamesOf(d) /\ n \notin Base(d)
         /\ Refs(d, n) \subseteq Name /\ Refs(d, n) \subseteq NamesOf(d)
BY NamesOfManifest

LEMMA LaterHeld ==
  ASSUME NEW H, NEW now, NEW H2, NEW now2, Later(H, now, H2, now2),
         NEW recs, Held(H, recs, now)
  PROVE  Held(H2, recs, now2)
<1> SUFFICES ASSUME NEW n \in Name
             PROVE  /\ recs[n].revision \in 0..now2[n].revision
                    /\ recs[n].value = H2[n][recs[n].revision]
  BY DEF Held
<1>1. /\ recs[n].revision \in 0..now[n].revision
      /\ recs[n].value = H[n][recs[n].revision]
  BY DEF Held
<1>2. /\ now[n].revision \in Nat /\ now2[n].revision \in Nat
      /\ now[n].revision <= now2[n].revision
      /\ \A i \in 0..now[n].revision : H2[n][i] = H[n][i]
  BY DEF Later
<1> QED
  BY <1>1, <1>2

LEMMA LaterDerived ==
  ASSUME NEW H, NEW now, NEW H2, NEW now2, Later(H, now, H2, now2),
         NEW d \in Document, NEW n \in DerivedOf(d), NEW inputs,
         \A r \in Refs(d, n) : inputs[r] \in 0..now[r].revision
  PROVE  /\ [r \in Refs(d, n) |-> H2[r][inputs[r]]] = [r \in Refs(d, n) |-> H[r][inputs[r]]]
         /\ \A r \in Refs(d, n) : inputs[r] \in 0..now2[r].revision
<1>1. ASSUME NEW r \in Refs(d, n)
      PROVE  H2[r][inputs[r]] = H[r][inputs[r]] /\ inputs[r] \in 0..now2[r].revision
  <2>1. r \in Name
    BY DerivedNames
  <2>2. /\ now[r].revision \in Nat /\ now2[r].revision \in Nat
        /\ now[r].revision <= now2[r].revision
        /\ \A i \in 0..now[r].revision : H2[r][i] = H[r][i]
    BY <2>1 DEF Later
  <2>3. inputs[r] \in 0..now[r].revision
    OBVIOUS
  <2> QED
    BY <2>2, <2>3
<1> QED
  BY <1>1

LEMMA LaterEntry ==
  ASSUME NEW H, NEW now, NEW H2, NEW now2, Later(H, now, H2, now2),
         NEW d \in Document, NEW n \in DerivedOf(d), NEW e, EntryOK(H, now, d, n, e)
  PROVE  EntryOK(H2, now2, d, n, e)
<1> SUFFICES ASSUME e.revision # 0 PROVE EntryOK(H2, now2, d, n, e)
  BY DEF EntryOK
<1>1. /\ e.revision \in 0..now[n].revision
      /\ \A r \in Refs(d, n) : e.inputs[r] \in 0..now[r].revision
      /\ H[n][e.revision] = <<Text(d, n), [r \in Refs(d, n) |-> H[r][e.inputs[r]]]>>
  BY DEF EntryOK
<1>2. /\ [r \in Refs(d, n) |-> H2[r][e.inputs[r]]] = [r \in Refs(d, n) |-> H[r][e.inputs[r]]]
      /\ \A r \in Refs(d, n) : e.inputs[r] \in 0..now2[r].revision
  BY <1>1, LaterDerived
<1>3. e.revision \in 0..now2[n].revision /\ H2[n][e.revision] = H[n][e.revision]
  <2>1. /\ now[n].revision \in Nat /\ now2[n].revision \in Nat
        /\ now[n].revision <= now2[n].revision
        /\ \A i \in 0..now[n].revision : H2[n][i] = H[n][i]
    BY DerivedNames DEF Later
  <2> QED
    BY <1>1, <2>1
<1> QED
  BY <1>1, <1>2, <1>3 DEF EntryOK

LEMMA LaterJournal ==
  ASSUME NEW H, NEW now, NEW H2, NEW now2, Later(H, now, H2, now2),
         NEW j, JournalOK(H, now, j)
  PROVE  JournalOK(H2, now2, j)
<1>1. ASSUME j.digest # 0, NEW n \in DerivedOf(j.digest)
      PROVE  EntryOK(H2, now2, j.digest, n, j.entries[n])
  <2>1. j.digest \in Document /\ EntryOK(H, now, j.digest, n, j.entries[n])
    BY <1>1 DEF JournalOK
  <2> QED
    BY <1>1, <2>1, LaterEntry
<1> QED
  BY <1>1 DEF JournalOK

LEMMA LaterSnapshot ==
  ASSUME NEW H, NEW now, NEW H2, NEW now2, Later(H, now, H2, now2),
         NEW s, SnapshotOK(H, now, s)
  PROVE  SnapshotOK(H2, now2, s)
<1> DEFINE d == s.digest
<1> SUFFICES ASSUME d # 0
             PROVE  /\ d \in Document
                    /\ \A n \in Name : s.revisions[n] \in 0..now2[n].revision
                    /\ \A n \in DerivedOf(d) :
                         H2[n][s.revisions[n]]
                           = <<Text(d, n), [r \in Refs(d, n) |-> H2[r][s.revisions[r]]]>>
  BY DEF SnapshotOK
<1>1. d \in Document /\ \A n \in Name : s.revisions[n] \in 0..now[n].revision
  BY DEF SnapshotOK
<1>2. ASSUME NEW n \in Name
      PROVE  s.revisions[n] \in 0..now2[n].revision
             /\ H2[n][s.revisions[n]] = H[n][s.revisions[n]]
  <2>1. /\ now[n].revision \in Nat /\ now2[n].revision \in Nat
        /\ now[n].revision <= now2[n].revision
        /\ \A i \in 0..now[n].revision : H2[n][i] = H[n][i]
    BY DEF Later
  <2>2. s.revisions[n] \in 0..now[n].revision
    BY <1>1
  <2> QED
    BY <2>1, <2>2
<1>3. ASSUME NEW n \in DerivedOf(d)
      PROVE  H2[n][s.revisions[n]] = <<Text(d, n), [r \in Refs(d, n) |-> H2[r][s.revisions[r]]]>>
  <2>1. H[n][s.revisions[n]] = <<Text(d, n), [r \in Refs(d, n) |-> H[r][s.revisions[r]]]>>
    BY DEF SnapshotOK
  <2>2. n \in Name /\ Refs(d, n) \subseteq Name
    BY <1>1, <1>3, DerivedNames
  <2>3. [r \in Refs(d, n) |-> H2[r][s.revisions[r]]] = [r \in Refs(d, n) |-> H[r][s.revisions[r]]]
    BY <1>2, <2>2
  <2>4. H2[n][s.revisions[n]] = H[n][s.revisions[n]]
    BY <1>2, <2>2
  <2> QED
    BY <2>1, <2>3, <2>4
<1> QED
  BY <1>1, <1>2, <1>3

LEMMA LaterHand ==
  ASSUME NEW H, NEW now, NEW H2, NEW now2, Later(H, now, H2, now2),
         NEW phase, NEW d, NEW recs, NEW j, NEW next, InHand(H, now, phase, d, recs, j, next)
  PROVE  InHand(H2, now2, phase, d, recs, j, next)
<1>1. Held(H2, recs, now2)
  BY LaterHeld DEF InHand
<1>2. JournalOK(H2, now2, j)
  BY LaterJournal DEF InHand
<1> QED
  BY <1>1, <1>2 DEF InHand

-----------------------------------------------------------------------------
(* The order in which records are stored *)

LEMMA OrderIs ==
  ASSUME NEW d \in Document
  PROVE  LET B == Manifest[d].bases
             D == Manifest[d].derived
         IN  /\ Len(B) \in Nat /\ Len(D) \in Nat
             /\ Base(d) = {B[k] : k \in 1..Len(B)} /\ DerivedOf(d) = {D[k] : k \in 1..Len(D)}
             /\ Len(Order(d)) = Len(B) + Len(D)
             /\ \A k \in 1..Len(Order(d)) :
                  Order(d)[k] = IF k <= Len(B) THEN B[k] ELSE D[k - Len(B)]
<1> DEFINE B == Manifest[d].bases
           D == Manifest[d].derived
<1>1. B \in Seq(Name) /\ D \in Seq(Name)
  BY BundleConstants
<1>2. /\ Base(d) = {B[k] : k \in DOMAIN B} /\ DerivedOf(d) = {D[k] : k \in DOMAIN D}
      /\ Order(d) = B \o D
  BY DEF Base, DerivedOf, Range, Order
<1> HIDE DEF B, D
<1>3. /\ Len(B) \in Nat /\ DOMAIN B = 1..Len(B)
      /\ Len(D) \in Nat /\ DOMAIN D = 1..Len(D)
  BY <1>1
<1>4. /\ Len(Order(d)) = Len(B) + Len(D)
      /\ \A k \in 1..Len(Order(d)) :
           Order(d)[k] = IF k <= Len(B) THEN B[k] ELSE D[k - Len(B)]
  BY <1>1, <1>2
<1> QED
  BY <1>2, <1>3, <1>4 DEF B, D

\* Base records come first.
LEMMA BasesComeFirst ==
  ASSUME NEW d \in Document, NEW k \in 1..Len(Order(d))
  PROVE  /\ k <= Len(Manifest[d].bases) => Order(d)[k] \in Base(d)
         /\ k > Len(Manifest[d].bases) => Order(d)[k] \in DerivedOf(d)
<1> DEFINE B == Manifest[d].bases
           D == Manifest[d].derived
<1>1. /\ Len(B) \in Nat /\ Len(D) \in Nat
      /\ Base(d) = {B[i] : i \in 1..Len(B)} /\ DerivedOf(d) = {D[i] : i \in 1..Len(D)}
      /\ Len(Order(d)) = Len(B) + Len(D)
      /\ Order(d)[k] = IF k <= Len(B) THEN B[k] ELSE D[k - Len(B)]
  BY OrderIs
<1> HIDE DEF B, D
<1>2. CASE k <= Len(B)
  BY <1>1, <1>2 DEF B
<1>3. CASE k > Len(B)
  <2>1. k - Len(B) \in 1..Len(D)
    BY <1>1, <1>3
  <2>2. Order(d)[k] = D[k - Len(B)]
    BY <1>1, <1>3
  <2>3. Order(d)[k] \in DerivedOf(d)
    BY <1>1, <2>1, <2>2
  <2> QED
    BY <1>1, <1>3, <2>3 DEF B
<1> QED
  BY <1>1, <1>2, <1>3

\* Every derived record has its turn.
LEMMA EachHasItsTurn ==
  ASSUME NEW d \in Document, NEW n \in DerivedOf(d)
  PROVE  \E k \in 1..Len(Order(d)) : Order(d)[k] = n
<1> DEFINE B == Manifest[d].bases
           D == Manifest[d].derived
<1>1. /\ Len(B) \in Nat /\ Len(D) \in Nat
      /\ DerivedOf(d) = {D[i] : i \in 1..Len(D)}
      /\ Len(Order(d)) = Len(B) + Len(D)
      /\ \A k \in 1..Len(Order(d)) :
           Order(d)[k] = IF k <= Len(B) THEN B[k] ELSE D[k - Len(B)]
  BY OrderIs
<1> HIDE DEF B, D
<1>2. PICK i \in 1..Len(D) : D[i] = n
  BY <1>1
<1>3. i + Len(B) \in 1..Len(Order(d)) /\ ~(i + Len(B) <= Len(B))
      /\ (i + Len(B)) - Len(B) = i
  BY <1>1
<1>4. Order(d)[i + Len(B)] = n
  BY <1>1, <1>2, <1>3
<1> QED
  BY <1>3, <1>4

\* A derived record's inputs are base records and derived ones before it.
LEMMA InputsComeBefore ==
  ASSUME NEW d \in Document, NEW k \in 1..Len(Order(d)), Order(d)[k] \in DerivedOf(d),
         NEW r \in Refs(d, Order(d)[k])
  PROVE  \/ r \in Base(d)
         \/ \E l \in 1..Len(Order(d)) : l < k /\ Order(d)[l] = r /\ r \in DerivedOf(d)
<1> DEFINE B == Manifest[d].bases
           D == Manifest[d].derived
           i == k - Len(B)
<1>1. /\ Len(B) \in Nat /\ Len(D) \in Nat
      /\ DerivedOf(d) = {D[x] : x \in 1..Len(D)}
      /\ Len(Order(d)) = Len(B) + Len(D)
      /\ \A l \in 1..Len(Order(d)) :
           Order(d)[l] = IF l <= Len(B) THEN B[l] ELSE D[l - Len(B)]
  BY OrderIs
<1>2. k > Len(B)
  <2>1. Order(d)[k] \notin Base(d)
    BY DerivedNames
  <2>2. k <= Len(B) => Order(d)[k] \in Base(d)
    BY BasesComeFirst
  <2> HIDE DEF B, D
  <2> QED
    BY <1>1, <2>1, <2>2
<1> HIDE DEF B, D
<1>3. Order(d)[k] = D[i] /\ i \in 1..Len(D)
  BY <1>1, <1>2
<1>4. Refs(d, D[i]) \subseteq Base(d) \cup {D[j] : j \in 1..(i - 1)}
  <2>1. DOMAIN D = 1..Len(D)
    BY BundleConstants DEF D
  <2> QED
    BY <1>3, <2>1, BundleConstants DEF D
<1>5. CASE r \notin Base(d)
  <2>1. PICK j \in 1..(i - 1) : r = D[j]
    BY <1>3, <1>4, <1>5
  <2>2. /\ j + Len(B) \in 1..Len(Order(d)) /\ ~(j + Len(B) <= Len(B))
        /\ (j + Len(B)) - Len(B) = j /\ j + Len(B) < k
        /\ j \in 1..Len(D)
    BY <1>1, <1>2, <1>3
  <2>3. Order(d)[j + Len(B)] = r
    BY <1>1, <2>1, <2>2
  <2>4. r \in DerivedOf(d)
    BY <1>1, <2>1, <2>2
  <2> QED
    BY <2>2, <2>3, <2>4
<1> QED
  BY <1>5

\* A record that is not yet done is not an input of one that is.
LEMMA StoringKeepsDone ==
  ASSUME NEW d \in Document, NEW recs, NEW next \in Nat, DoneBefore(d, recs, next), RecordsOK(recs),
         next \in 1..Len(Order(d)), NEW n, n = Order(d)[next], NEW v,
         \/ n \in Base(d)
         \/ recs[n].revision = 0 \/ recs[n].value # Expand(d, n, recs)
  PROVE  DoneBefore(d, WrittenRecords(recs, n, v), next)
<1> DEFINE new == WrittenRecords(recs, n, v)
<1>0. n \in Name
  BY BasesComeFirst, NamesOfManifest, OrderIs
<1>1. \A m \in Name : m # n => new[m] = recs[m]
  <2>1. \A m \in Name : WrittenRecords(recs, n, v)[m] =
          IF m = n THEN [revision |-> recs[n].revision + 1, value |-> v] ELSE recs[m]
    BY <1>0, WrittenShape
  <2> QED
    BY <2>1
<1> HIDE DEF new
<1> SUFFICES ASSUME NEW k \in 1..Len(Order(d)), k < next, Order(d)[k] \in DerivedOf(d)
             PROVE  /\ new[Order(d)[k]].revision # 0
                    /\ new[Order(d)[k]].value = Expand(d, Order(d)[k], new)
  BY DEF DoneBefore, new
<1>2. n \notin Base(d)
  <2>1. k > Len(Manifest[d].bases)
    BY BasesComeFirst, DerivedNames, OrderIs
  <2>2. next > Len(Manifest[d].bases)
    BY <2>1, OrderIs
  <2> QED
    BY <2>2, BasesComeFirst, DerivedNames
<1>3. ASSUME NEW l \in 1..Len(Order(d)), l < next, Order(d)[l] \in DerivedOf(d)
      PROVE  Order(d)[l] # n
  BY <1>2, <1>3 DEF DoneBefore
<1>4. new[Order(d)[k]] = recs[Order(d)[k]]
  BY <1>1, <1>3, DerivedNames
<1>5. ASSUME NEW r \in Refs(d, Order(d)[k])
      PROVE  new[r] = recs[r]
  <2>1. r \in Name
    BY DerivedNames
  <2>2. r # n
    <3>1. CASE r \in Base(d)
      BY <1>2, <3>1
    <3>2. ASSUME NEW l \in 1..Len(Order(d)), l < k, Order(d)[l] = r, r \in DerivedOf(d)
          PROVE  r # n
      <4>1. l < next
        BY <3>2, OrderIs
      <4> QED
        BY <1>3, <3>2, <4>1
    <3> QED
      BY <3>1, <3>2, InputsComeBefore
  <2> QED
    BY <1>1, <2>1, <2>2
<1>6. Expand(d, Order(d)[k], new) = Expand(d, Order(d)[k], recs)
  BY <1>5 DEF Expand
<1> QED
  BY <1>4, <1>6 DEF DoneBefore

-----------------------------------------------------------------------------
(* Every step goes on from what was written *)

\* The vault, and what the process that takes a step has in hand after it.
LEMMA PastGoes ==
  ASSUME NEW H, Past(H), NEW H2, Later(H, records, H2, records'),
         \A n \in Name : H2[n][0] = None,
         Held(H2, records', records'), JournalOK(H2, records', journal'),
         SnapshotOK(H2, records', snapshot'),
         NEW p \in Process, NEW phase, NEW d, NEW recs, NEW j, NEW next,
         Goes(p, phase, d, recs, j, next), InHand(H2, records', phase, d, recs, j, next)
  PROVE  Past(H2)'
<1>1. ASSUME NEW q \in Process
      PROVE  InHand(H2, records', at'[q], mine'[q].document, mine'[q].records,
                    mine'[q].journal, mine'[q].next)
  <2>1. CASE q = p
    <3>1. /\ at'[q] = phase
          /\ mine'[q] = [document |-> d, records |-> recs, journal |-> j, next |-> next]
      BY <2>1 DEF Goes
    <3> QED
      BY <3>1
  <2>2. CASE q # p
    <3>1. at'[q] = at[q] /\ mine'[q] = mine[q]
      BY <2>2 DEF Goes
    <3>2. InHand(H, records, at[q], mine[q].document, mine[q].records, mine[q].journal,
                 mine[q].next)
      BY DEF Past, HandsOK
    <3>3. InHand(H2, records', at[q], mine[q].document, mine[q].records, mine[q].journal,
                 mine[q].next)
      BY <3>2, LaterHand
    <3> QED
      BY <3>1, <3>3
  <2> QED
    BY <2>1, <2>2
<1> QED
  BY <1>1 DEF Past, HandsOK

\* Nothing is written: the history is the same.
LEMMA SameHistory ==
  ASSUME ShapeInv, NEW H, UNCHANGED records
  PROVE  Later(H, records, H, records')
<1>1. \A n \in Name : records[n].revision \in Nat
  BY DEF ShapeInv, RecordsOK
<1> QED
  BY <1>1 DEF Later

\* A record is written: the history says so.
LEMMA NewHistory ==
  ASSUME ShapeInv, NEW H, Past(H), NEW n \in Name, NEW v,
         records' = WrittenRecords(records, n, v)
  PROVE  \E H2 : /\ Later(H, records, H2, records')
                 /\ Held(H2, records', records')
                 /\ \A m \in Name : H2[m][0] = None
                 /\ H2[n][records[n].revision + 1] = v
<1> DEFINE k == records[n].revision + 1
           H2 == [m \in Name |-> [i \in Nat |-> IF m = n /\ i = k THEN v ELSE H[m][i]]]
<1>0. RecordsOK(records)
  BY DEF ShapeInv
<1>1. /\ \A m \in Name : records[m].revision \in Nat
      /\ records'[n] = [revision |-> k, value |-> v] /\ k \in Nat /\ k > 0
      /\ \A m \in Name : m # n => records'[m] = records[m]
  <2>1. \A m \in Name : records[m].revision \in Nat
    BY <1>0, RecordsAre
  <2>2. \A m \in Name : WrittenRecords(records, n, v)[m] =
          IF m = n THEN [revision |-> k, value |-> v] ELSE records[m]
    BY <1>0, WrittenShape
  <2> HIDE DEF k
  <2>3. /\ records'[n] = [revision |-> k, value |-> v]
        /\ \A m \in Name : m # n => records'[m] = records[m]
    BY <2>2
  <2>4. k \in Nat /\ k > 0
    BY <2>1 DEF k
  <2> QED
    BY <2>1, <2>3, <2>4
<1>2. H2[n][k] = v
  BY <1>1
<1>3. \A m \in Name : \A i \in Nat : m # n \/ i # k => H2[m][i] = H[m][i]
  OBVIOUS
<1> HIDE DEF H2
<1>4. Later(H, records, H2, records')
  <2> SUFFICES ASSUME NEW m \in Name
               PROVE  /\ records[m].revision \in Nat /\ records'[m].revision \in Nat
                      /\ records[m].revision <= records'[m].revision
                      /\ \A i \in 0..records[m].revision : H2[m][i] = H[m][i]
    BY DEF Later
  <2>1. CASE m = n
    <3>1. records'[m].revision = records[m].revision + 1 /\ records[m].revision \in Nat
      BY <1>1, <2>1
    <3>2. \A i \in 0..records[m].revision : i \in Nat /\ i # k
      BY <2>1, <3>1
    <3> QED
      BY <1>3, <3>1, <3>2
  <2>2. CASE m # n
    <3>1. records'[m] = records[m] /\ records[m].revision \in Nat
      BY <1>1, <2>2
    <3>2. \A i \in 0..records[m].revision : i \in Nat
      BY <3>1
    <3>3. \A i \in Nat : H2[m][i] = H[m][i]
      BY <1>3, <2>2
    <3> QED
      BY <3>1, <3>2, <3>3
  <2> QED
    BY <2>1, <2>2
<1>5. Held(H2, records', records')
  <2> SUFFICES ASSUME NEW m \in Name
               PROVE  /\ records'[m].revision \in 0..records'[m].revision
                      /\ records'[m].value = H2[m][records'[m].revision]
    BY DEF Held
  <2>1. CASE m = n
    <3>1. records'[m].revision = k /\ records'[m].value = v
      BY <1>1, <2>1
    <3> QED
      BY <1>1, <1>2, <2>1, <3>1
  <2>2. CASE m # n
    <3>1. records'[m] = records[m] /\ records[m].revision \in Nat
      BY <1>1, <2>2
    <3>2. records[m].value = H[m][records[m].revision]
      BY DEF Past, Held
    <3>3. H2[m][records[m].revision] = H[m][records[m].revision]
      BY <1>3, <2>2, <3>1
    <3> QED
      BY <3>1, <3>2, <3>3
  <2> QED
    BY <2>1, <2>2
<1>6. \A m \in Name : H2[m][0] = None
  <2>1. \A m \in Name : H2[m][0] = H[m][0]
    BY <1>1, <1>3
  <2> QED
    BY <2>1 DEF Past
<1> QED
  BY <1>2, <1>4, <1>5, <1>6

\* What follows for the vault when the history goes on.
LEMMA LaterVault ==
  ASSUME NEW H, Past(H), NEW H2, Later(H, records, H2, records')
  PROVE  /\ JournalOK(H2, records', journal)
         /\ SnapshotOK(H2, records', snapshot)
         /\ \A p \in Process : InHand(H2, records', at[p], mine[p].document, mine[p].records,
                                      mine[p].journal, mine[p].next)
<1>1. JournalOK(H, records, journal) /\ SnapshotOK(H, records, snapshot)
  BY DEF Past
<1>2. JournalOK(H2, records', journal)
  BY <1>1, LaterJournal
<1>3. SnapshotOK(H2, records', snapshot)
  BY <1>1, LaterSnapshot
<1>4. ASSUME NEW p \in Process
      PROVE  InHand(H2, records', at[p], mine[p].document, mine[p].records,
                    mine[p].journal, mine[p].next)
  <2>1. InHand(H, records, at[p], mine[p].document, mine[p].records, mine[p].journal,
               mine[p].next)
    BY DEF Past, HandsOK
  <2> QED
    BY <2>1, LaterHand
<1> QED
  BY <1>2, <1>3, <1>4

\* A command writes a record while others prepare.
LEMMA PastChange ==
  ASSUME ShapeInv, NEW H, Past(H), NEW n \in Name, NEW v, ChangeRecord(n, v)
  PROVE  \E H2 : Past(H2)'
<1>1. records' = WrittenRecords(records, n, v)
  <2>1. records = [m \in Name |-> records[m]]
    BY DEF ShapeInv, RecordsOK
  <2> QED
    BY <2>1 DEF ChangeRecord, WrittenRecords
<1>2. PICK H2 : /\ Later(H, records, H2, records')
                /\ Held(H2, records', records')
                /\ \A m \in Name : H2[m][0] = None
  BY <1>1, NewHistory
<1>3. UNCHANGED <<journal, snapshot, at, mine>>
  BY DEF ChangeRecord
<1>4. Past(H2)'
  BY <1>2, <1>3, LaterVault DEF Past, HandsOK
<1> QED
  BY <1>4

\* What a checkpoint says of a derived record: that it is derived.
LEMMA CurrentIsDerived ==
  ASSUME ShapeInv, NEW H, Past(H), NEW p \in Process, at[p] = "storing",
         NEW n \in DerivedOf(mine[p].document), Current(p, n)
  PROVE  /\ mine[p].records[n].revision # 0
         /\ mine[p].records[n].value = Expand(mine[p].document, n, mine[p].records)
<1> DEFINE d == mine[p].document
           recs == mine[p].records
           e == mine[p].journal.entries[n]
<1>1. InHand(H, records, "storing", mine[p].document, recs, mine[p].journal, mine[p].next)
  BY DEF Past, HandsOK
<1>0. d \in Document /\ n \in Name /\ Refs(d, n) \subseteq Name
  <2>1. d \in Document
    BY <1>1 DEF InHand
  <2> QED
    BY <2>1, DerivedNames
<1>2. recs[n].revision # 0
  <2>1. RecordsOK(recs) /\ n \in Name
    BY <1>0 DEF ShapeInv
  <2>2. recs[n] # NoRecord
    BY DEF Current, JournalSaysCurrent
  <2> QED
    BY <2>1, <2>2, NoRecordIsRevisionZero
<1>3. CASE JournalSaysCurrent(p, n)
  <2>1. e.revision = recs[n].revision /\ e.inputs = [r \in Refs(d, n) |-> recs[r].revision]
    BY <1>3 DEF JournalSaysCurrent, InputRevisions
  <2>2. JournalOK(H, records, mine[p].journal)
        /\ mine[p].journal.digest \in {0, mine[p].document}
    BY <1>1 DEF InHand
  <2>3. /\ mine[p].journal.digest = 0 => e.revision = 0
        /\ mine[p].journal.digest # 0 => EntryOK(H, records, d, n, e)
    BY <1>0, <2>2 DEF JournalOK
  <2>4. mine[p].journal.digest = mine[p].document
    BY <1>2, <2>1, <2>2, <2>3
  <2>5. H[n][e.revision] = <<Text(d, n), [r \in Refs(d, n) |-> H[r][e.inputs[r]]]>>
    BY <1>0, <1>2, <2>1, <2>3, <2>4, BundleConstants DEF EntryOK, Document
  <2>6. Held(H, recs, records)
    BY <1>1 DEF InHand
  <2>7. [r \in Refs(d, n) |-> H[r][e.inputs[r]]] = [r \in Refs(d, n) |-> recs[r].value]
    <3>1. ASSUME NEW r \in Refs(d, n) PROVE H[r][e.inputs[r]] = recs[r].value
      <4>1. r \in Name
        BY <1>0
      <4>2. e.inputs[r] = recs[r].revision
        BY <2>1
      <4> QED
        BY <2>6, <4>1, <4>2 DEF Held
    <3> QED
      BY <3>1
  <2>8. recs[n].value = H[n][recs[n].revision]
    BY <1>0, <2>6 DEF Held
  <2> QED
    BY <1>2, <2>1, <2>5, <2>7, <2>8 DEF Expand, Text
<1>4. CASE recs[n].value = Expand(mine[p].document, n, recs)
  BY <1>2, <1>4
<1> QED
  BY <1>3, <1>4 DEF Current

\* The journal after the checkpoint of a record.
LEMMA CheckpointIs ==
  ASSUME NEW H, Past(H), NEW p \in Process, NEW n \in Name, NEW inputs
  PROVE  LET j == Checkpoint(p, n, inputs) IN
           /\ j = [digest |-> j.digest, entries |-> j.entries]
           /\ j.digest = mine[p].document /\ DOMAIN j.entries = Name
           /\ j.entries[n] = [revision |-> mine[p].records[n].revision, inputs |-> inputs]
           /\ \A m \in Name : m # n => j.entries[m] = mine[p].journal.entries[m]
<1> DEFINE i == mine[p].journal
           e == [revision |-> mine[p].records[n].revision, inputs |-> inputs]
           k == [i EXCEPT !.digest = mine[p].document]
           j == [k EXCEPT !.entries[n] = e]
<1>1. Checkpoint(p, n, inputs) = j
  BY DEF Checkpoint
<1>2. i = [digest |-> i.digest, entries |-> i.entries] /\ DOMAIN i.entries = Name
  BY DEF Past, HandsOK, InHand, JournalOK
<1> HIDE DEF i, e
<1>3. k = [digest |-> mine[p].document, entries |-> i.entries]
  BY <1>2
<1> HIDE DEF k
<1>4. j = [digest |-> mine[p].document, entries |-> [i.entries EXCEPT ![n] = e]]
  BY <1>3
<1> HIDE DEF j
<1>5. /\ j = [digest |-> j.digest, entries |-> j.entries]
      /\ j.digest = mine[p].document /\ DOMAIN j.entries = Name
      /\ j.entries[n] = e
      /\ \A m \in Name : m # n => j.entries[m] = i.entries[m]
  BY <1>2, <1>4
<1> QED
  BY <1>1, <1>5 DEF i, e

LEMMA CheckpointOK ==
  ASSUME ShapeInv, NEW H, Past(H), NEW p \in Process, at[p] = "storing",
         NEW n \in Name, NEW inputs,
         n \in DerivedOf(mine[p].document) => Current(p, n) /\ inputs = InputRevisions(p, n)
  PROVE  JournalOK(H, records, Checkpoint(p, n, inputs))
<1> DEFINE d == mine[p].document
           recs == mine[p].records
           i == mine[p].journal
           j == Checkpoint(p, n, inputs)
<1>1. InHand(H, records, "storing", mine[p].document, recs, i, mine[p].next)
  BY DEF Past, HandsOK
<1>2. Held(H, recs, records) /\ JournalOK(H, records, i) /\ i.digest \in {0, mine[p].document}
      /\ mine[p].document \in Document
  BY <1>1 DEF InHand
<1>3. /\ j = [digest |-> j.digest, entries |-> j.entries]
      /\ j.digest = mine[p].document /\ DOMAIN j.entries = Name
      /\ j.entries[n] = [revision |-> recs[n].revision, inputs |-> inputs]
      /\ \A m \in Name : m # n => j.entries[m] = i.entries[m]
  BY CheckpointIs
<1> HIDE DEF j
<1>4. j.digest # 0 /\ j.digest = d /\ d \in Document
  BY <1>2, <1>3, BundleConstants DEF Document
<1>5. ASSUME NEW m \in DerivedOf(d)
      PROVE  EntryOK(H, records, d, m, j.entries[m])
  <2>1. CASE m # n
    <3>1. j.entries[m] = i.entries[m] /\ j.digest = d /\ m \in Name
      BY <1>3, <1>4, <2>1, DerivedNames
    <3>2. /\ i.digest # 0 => EntryOK(H, records, d, m, i.entries[m])
          /\ i.digest = 0 => i.entries[m].revision = 0
      BY <1>2, <3>1 DEF JournalOK
    <3>3. CASE i.digest = 0
      BY <3>1, <3>2, <3>3 DEF EntryOK
    <3>4. CASE i.digest = mine[p].document
      BY <1>4, <3>1, <3>2, <3>4
    <3> QED
      BY <1>2, <3>3, <3>4
  <2>2. CASE m = n
    <3>1. recs[n].value = Expand(mine[p].document, n, recs)
          /\ inputs = [r \in Refs(d, n) |-> recs[r].revision]
      BY <2>2, CurrentIsDerived DEF InputRevisions
    <3>2. \A r \in Refs(d, n) : /\ inputs[r] = recs[r].revision
                             /\ inputs[r] \in 0..records[r].revision
                             /\ H[r][inputs[r]] = recs[r].value
      <4>1. ASSUME NEW r \in Refs(d, n)
            PROVE  /\ inputs[r] = recs[r].revision
                   /\ inputs[r] \in 0..records[r].revision
                   /\ H[r][inputs[r]] = recs[r].value
        <5>1. r \in Name
          BY <1>4, <2>2, DerivedNames
        <5>2. inputs[r] = recs[r].revision
          BY <3>1
        <5> QED
          BY <1>2, <5>1, <5>2 DEF Held
      <4> QED
        BY <4>1
    <3>3. [r \in Refs(d, n) |-> H[r][inputs[r]]] = [r \in Refs(d, n) |-> recs[r].value]
      BY <3>2
    <3>4. /\ recs[n].revision \in 0..records[n].revision
          /\ H[n][recs[n].revision] = recs[n].value
      BY <1>2 DEF Held
    <3>5. H[n][recs[n].revision]
            = <<Text(d, n), [r \in Refs(d, n) |-> H[r][inputs[r]]]>>
      BY <3>1, <3>3, <3>4 DEF Expand, Text
    <3> DEFINE e == j.entries[n]
    <3>6. e.revision = recs[n].revision /\ e.inputs = inputs
      BY <1>3
    <3> HIDE DEF e
    <3>7. EntryOK(H, records, d, n, e)
      BY <1>3, <3>2, <3>4, <3>5, <3>6 DEF EntryOK
    <3> QED
      BY <1>4, <2>2, <3>7 DEF e
  <2> QED
    BY <2>1, <2>2
<1>6. JournalOK(H, records, j)
  BY <1>3, <1>4, <1>5 DEF JournalOK
<1> QED
  BY <1>6 DEF j

LEMMA EmptyHand ==
  ASSUME NEW H, \A n \in Name : H[n][0] = None,
         NEW now, \A n \in Name : now[n].revision \in Nat
  PROVE  /\ Held(H, [n \in Name |-> NoRecord], now)
         /\ JournalOK(H, now, NoJournal)
         /\ \A d \in Document : JournalOK(H, now, [NoJournal EXCEPT !.digest = d])
<1>1. Held(H, [n \in Name |-> NoRecord], now)
  BY DEF Held, NoRecord
<1>2. ASSUME NEW j, NEW d \in Document \cup {0},
             j = [digest |-> d, entries |-> [n \in Name |-> NoEntry]]
      PROVE  JournalOK(H, now, j)
  <2>1. /\ j.digest = d /\ j = [digest |-> j.digest, entries |-> j.entries]
        /\ DOMAIN j.entries = Name /\ \A n \in Name : j.entries[n] = NoEntry
    BY <1>2
  <2>2. \A n \in Name : j.entries[n].revision = 0
    BY <2>1 DEF NoEntry
  <2>3. d # 0 => \A n \in DerivedOf(d) : n \in Name
    BY DerivedNames
  <2> QED
    BY <2>1, <2>2, <2>3 DEF JournalOK, EntryOK
<1>3. NoJournal = [digest |-> 0, entries |-> [n \in Name |-> NoEntry]]
  BY DEF NoJournal
<1>4. ASSUME NEW d \in Document
      PROVE  JournalOK(H, now, [NoJournal EXCEPT !.digest = d])
  <2>1. [NoJournal EXCEPT !.digest = d] = [digest |-> d, entries |-> [n \in Name |-> NoEntry]]
    BY <1>3
  <2> QED
    BY <1>2, <2>1
<1> QED
  BY <1>1, <1>2, <1>3, <1>4

\* Who reads the vault now holds what was written.
LEMMA HeldNow ==
  ASSUME NEW H, NEW now, RecordsOK(now), \A n \in Name : H[n][0] = None,
         Held(H, now, now)
  PROVE  /\ Held(H, [n \in Name |-> NoRecord], now)
         /\ JournalOK(H, now, NoJournal)
         /\ \A d \in Document : JournalOK(H, now, [NoJournal EXCEPT !.digest = d])
<1>1. \A n \in Name : now[n].revision \in Nat
  BY RecordsAre
<1> QED
  BY <1>1, EmptyHand

LEMMA PastPrepares ==
  ASSUME ShapeInv, NEW H, Past(H), NEW p \in Process, Prepares(p)
  PROVE  \E H2 : Past(H2)'
<1> DEFINE d == mine[p].document
           recs == mine[p].records
           j == mine[p].journal
           next == mine[p].next
<1>0. /\ RecordsOK(records) /\ RecordsOK(recs)
      /\ \A n \in Name : H[n][0] = None
      /\ Held(H, records, records) /\ JournalOK(H, records, journal)
      /\ SnapshotOK(H, records, snapshot)
      /\ InHand(H, records, at[p], d, recs, j, next)
  BY DEF ShapeInv, Past, HandsOK
<1>1. /\ Held(H, [n \in Name |-> NoRecord], records)
      /\ JournalOK(H, records, NoJournal)
      /\ \A x \in Document : JournalOK(H, records, [NoJournal EXCEPT !.digest = x])
  BY <1>0, HeldNow
<1>2. Held(H, recs, records) /\ JournalOK(H, records, j)
  BY <1>0 DEF InHand
\* The records stay as they are.
<1>3. ASSUME UNCHANGED records, JournalOK(H, records, journal'),
             SnapshotOK(H, records, snapshot'),
             NEW phase, NEW d2, NEW recs2, NEW j2, NEW next2,
             Goes(p, phase, d2, recs2, j2, next2),
             InHand(H, records, phase, d2, recs2, j2, next2)
      PROVE  \E H2 : Past(H2)'
  <2>1. Later(H, records, H, records')
    BY <1>3, SameHistory
  <2>2. /\ Held(H, records', records') /\ JournalOK(H, records', journal')
        /\ SnapshotOK(H, records', snapshot')
        /\ InHand(H, records', phase, d2, recs2, j2, next2)
    BY <1>0, <1>3
  <2>3. Past(H)'
    BY <1>0, <1>3, <2>1, <2>2, PastGoes
  <2> QED
    BY <2>3
<1>4. CASE Ends(p)
  <2>1. InHand(H, records, "idle", 0, [n \in Name |-> NoRecord], NoJournal, 0)
    BY <1>1 DEF InHand
  <2> QED
    BY <1>0, <1>3, <1>4, <2>1 DEF Ends, vaultVars
<1>5. CASE Loads(p)
  <2>1. PICK x \in Document : Goes(p, "objects", x, records, NoJournal, 0)
    BY <1>5 DEF Loads
  <2>2. InHand(H, records, "objects", x, records, NoJournal, 0)
    BY <1>0, <1>1 DEF InHand
  <2> QED
    BY <1>0, <1>3, <1>5, <2>1, <2>2 DEF Loads, vaultVars
<1>6. CASE TakesUp(p)
  <2>1. PICK phase \in {"imports", "reset"} :
          /\ phase = "imports" => journal.digest \in {0, d}
          /\ Goes(p, phase, d, recs, journal, 1)
    BY <1>6 DEF TakesUp
  <2>2. d \in Document
    BY <1>0, <1>6 DEF TakesUp, InHand
  <2>3. InHand(H, records, phase, d, recs, journal, 1)
    BY <1>0, <1>2, <2>1, <2>2 DEF InHand
  <2> QED
    BY <1>0, <1>3, <1>6, <2>1, <2>3 DEF TakesUp, vaultVars
<1>7. CASE Resets(p)
  <2>1. d \in Document /\ journal' = [NoJournal EXCEPT !.digest = d]
        /\ UNCHANGED <<records, snapshot>>
        /\ Goes(p, "imports", d, recs, journal', 1)
    BY <1>0, <1>7 DEF Resets, InHand
  <2>2. JournalOK(H, records, journal') /\ journal'.digest = d
    BY <1>1, <2>1 DEF NoJournal
  <2>3. InHand(H, records, "imports", d, recs, journal', 1)
    BY <1>2, <2>1, <2>2 DEF InHand
  <2> QED
    BY <1>0, <1>3, <2>1, <2>2, <2>3
<1>8. CASE Imported(p)
  <2>1. /\ at[p] = "imports" /\ UNCHANGED vaultVars
        /\ Goes(p, "storing", d, recs, j, next)
    BY <1>8 DEF Imported
  <2>2. d \in Document /\ j.digest \in {0, d} /\ next = 1
    BY <1>0, <2>1 DEF InHand
  <2>3. DoneBefore(d, recs, next)
    BY <2>2, OrderIs DEF DoneBefore
  <2>4. InHand(H, records, "storing", d, recs, j, next)
    BY <1>2, <2>2, <2>3 DEF InHand
  <2> QED
    BY <1>0, <1>3, <2>1, <2>4 DEF vaultVars
<1>9. ASSUME NEW n \in Name, Checkpoints(p, n) PROVE \E H2 : Past(H2)'
  <2>1. /\ Turn(p, n) /\ UNCHANGED <<records, snapshot>>
        /\ Goes(p, "storing", d, recs, journal', next + 1)
    BY <1>9 DEF Checkpoints
  <2>0. d \in Document
    BY <1>0, <2>1 DEF InHand, Turn
  <2>2. PICK inputs : /\ journal' = Checkpoint(p, n, inputs)
                      /\ n \in DerivedOf(d) => Current(p, n) /\ inputs = InputRevisions(p, n)
    BY <1>9, <2>0, DerivedNames DEF Checkpoints
  <2>3. at[p] = "storing" /\ next <= Len(Order(d)) /\ n = Order(d)[next]
    BY <2>1 DEF Turn
  <2>4. JournalOK(H, records, journal')
    BY <2>2, <2>3, CheckpointOK
  <2>5. journal'.digest = d
    <3> DEFINE k == Checkpoint(p, n, inputs)
    <3>1. /\ k = [digest |-> k.digest, entries |-> k.entries]
          /\ k.digest = mine[p].document /\ DOMAIN k.entries = Name
          /\ k.entries[n] = [revision |-> mine[p].records[n].revision, inputs |-> inputs]
          /\ \A m \in Name : m # n => k.entries[m] = mine[p].journal.entries[m]
      BY CheckpointIs
    <3> QED
      BY <2>2, <3>1
  <2>6. d \in Document /\ next \in Nat /\ DoneBefore(d, recs, next)
    BY <1>0, <2>3 DEF InHand
  <2>7. DoneBefore(d, recs, next + 1)
    <3> SUFFICES ASSUME NEW k \in 1..Len(Order(d)), k < next + 1, Order(d)[k] \in DerivedOf(d)
                 PROVE  /\ recs[Order(d)[k]].revision # 0
                        /\ recs[Order(d)[k]].value = Expand(d, Order(d)[k], recs)
      BY DEF DoneBefore
    <3>1. CASE k < next
      BY <2>6, <3>1 DEF DoneBefore
    <3>2. CASE k = next
      <4>1. n \in DerivedOf(d) /\ Order(d)[k] = n
        BY <2>3, <3>2
      <4> QED
        BY <2>2, <2>3, <4>1, CurrentIsDerived
    <3> QED
      BY <2>6, <3>1, <3>2, OrderIs
  <2>8. InHand(H, records, "storing", d, recs, journal', next + 1)
    BY <1>2, <2>4, <2>5, <2>6, <2>7 DEF InHand
  <2> QED
    BY <1>0, <1>3, <2>1, <2>4, <2>8
<1>10. ASSUME NEW n \in Name, NEW v, Puts(p, n, v) PROVE \E H2 : Past(H2)'
  <2>1. /\ at[p] = "storing" /\ next <= Len(Order(d)) /\ n = Order(d)[next]
        /\ UNCHANGED <<journal, snapshot>>
        /\ records[n].revision = recs[n].revision
        /\ records' = WrittenRecords(records, n, v)
        /\ Goes(p, "storing", d, WrittenRecords(recs, n, v), j, next)
    BY <1>10 DEF Puts, Turn
  <2>2. PICK H2 : /\ Later(H, records, H2, records')
                  /\ Held(H2, records', records')
                  /\ \A m \in Name : H2[m][0] = None
                  /\ H2[n][records[n].revision + 1] = v
    <3>1. records' = WrittenRecords(records, n, v)
      BY <2>1
    <3> QED
      BY <3>1, NewHistory
  <2>3. /\ JournalOK(H2, records', journal) /\ SnapshotOK(H2, records', snapshot)
        /\ InHand(H2, records', "storing", d, recs, j, next)
    BY <2>1, <2>2, LaterVault
  <2>4. /\ Held(H2, recs, records') /\ JournalOK(H2, records', j) /\ d \in Document
        /\ j.digest \in {0, d} /\ next \in Nat /\ DoneBefore(d, recs, next)
    BY <2>3 DEF InHand
  <2>5. DoneBefore(d, WrittenRecords(recs, n, v), next)
    <3>1. \/ n \in Base(d)
          \/ recs[n].revision = 0 \/ recs[n].value # Expand(d, n, recs)
      <4>1. n \in Base(d) \/ ~Current(p, n)
        BY <1>10 DEF Puts
      <4>2. ~Current(p, n) => recs[n] = NoRecord \/ recs[n].value # Expand(d, n, recs)
        BY DEF Current
      <4> QED
        BY <1>0, <4>1, <4>2, NoRecordIsRevisionZero
    <3>2. CASE next = 0
      BY <2>4, <3>2, OrderIs DEF DoneBefore
    <3>3. CASE next # 0
      <4>1. next \in 1..Len(Order(d))
        BY <2>1, <2>4, <3>3, OrderIs
      <4> QED
        BY <1>0, <2>1, <2>4, <3>1, <4>1, StoringKeepsDone
    <3> QED
      BY <3>2, <3>3
  <2>6. Held(H2, WrittenRecords(recs, n, v), records')
    <3>1. \A m \in Name : WrittenRecords(recs, n, v)[m] =
            IF m = n THEN [revision |-> recs[n].revision + 1, value |-> v] ELSE recs[m]
      BY <1>0, WrittenShape
    <3>2. \A m \in Name : records'[m] =
            IF m = n THEN [revision |-> records[n].revision + 1, value |-> v] ELSE records[m]
      BY <1>0, <2>1, WrittenShape
    <3>3. records[n].revision \in Nat
      BY <1>0, RecordsAre
    <3> DEFINE new == WrittenRecords(recs, n, v)
    <3> HIDE DEF new
    <3> SUFFICES ASSUME NEW m \in Name
                 PROVE  /\ new[m].revision \in 0..records'[m].revision
                        /\ new[m].value = H2[m][new[m].revision]
      BY DEF Held, new
    <3>4. CASE m = n
      <4>1. /\ new[m] = [revision |-> recs[n].revision + 1, value |-> v]
            /\ records'[m] = [revision |-> records[n].revision + 1, value |-> v]
        BY <3>1, <3>2, <3>4 DEF new
      <4>2. /\ new[m].revision = records[n].revision + 1 /\ new[m].value = v
            /\ records'[m].revision = records[n].revision + 1
        BY <2>1, <4>1
      <4> QED
        BY <2>2, <3>3, <3>4, <4>2
    <3>5. CASE m # n
      <4>1. new[m] = recs[m]
        BY <3>1, <3>5 DEF new
      <4> QED
        BY <2>4, <4>1 DEF Held
    <3> QED
      BY <3>4, <3>5
  <2>7. InHand(H2, records', "storing", d, WrittenRecords(recs, n, v), j, next)
    BY <2>4, <2>5, <2>6 DEF InHand
  <2>8. Past(H2)'
    BY <1>0, <2>1, <2>2, <2>3, <2>7, PastGoes
  <2> QED
    BY <2>8
<1>11. CASE Refetched(p)
  <2>1. /\ at[p] = "storing" /\ next > Len(Order(d)) /\ UNCHANGED vaultVars
        /\ Goes(p, "publish", d, recs, NoJournal, 0)
    BY <1>11 DEF Refetched
  <2>2. d \in Document /\ DoneBefore(d, recs, next) /\ next \in Nat
    BY <1>0, <2>1 DEF InHand
  <2>3. IsDerived(d, recs)
    <3>1. ASSUME NEW n \in DerivedOf(d)
          PROVE  recs[n].value = Expand(d, n, recs)
      <4>1. PICK k \in 1..Len(Order(d)) : Order(d)[k] = n
        BY <2>2, EachHasItsTurn
      <4>2. k < next
        BY <2>1, <2>2, OrderIs
      <4> QED
        BY <2>2, <4>1, <4>2 DEF DoneBefore
    <3> QED
      BY <3>1 DEF IsDerived, DerivedOf
  <2>4. InHand(H, records, "publish", d, recs, NoJournal, 0)
    BY <1>1, <1>2, <2>2, <2>3 DEF InHand
  <2> QED
    BY <1>0, <1>3, <2>1, <2>4 DEF vaultVars
<1>12. CASE Publishes(p)
  <2>1. /\ at[p] = "publish" /\ UNCHANGED <<records, journal>>
        /\ snapshot' = Published(p)
        /\ Goes(p, "published", d, [n \in Name |-> NoRecord], NoJournal, 0)
    BY <1>12 DEF Publishes
  <2>2. d \in Document /\ IsDerived(d, recs)
    BY <1>0, <2>1 DEF InHand
  <2>3. /\ snapshot'.digest = d
        /\ \A n \in Name : snapshot'.revisions[n] = IF n \in NamesOf(d) THEN recs[n].revision ELSE 0
    BY <2>1 DEF Published
  <2>4. \A n \in Name : /\ recs[n].revision \in 0..records[n].revision
                        /\ recs[n].value = H[n][recs[n].revision]
    BY <1>2 DEF Held
  <2>5. ASSUME NEW n \in Name
        PROVE  snapshot'.revisions[n] \in 0..records[n].revision
    <3>1. records[n].revision \in Nat
      BY <1>0, RecordsAre
    <3> QED
      BY <2>3, <2>4, <3>1
  <2>6. ASSUME NEW n \in DerivedOf(d)
        PROVE  H[n][snapshot'.revisions[n]]
                 = <<Text(d, n), [r \in Refs(d, n) |-> H[r][snapshot'.revisions[r]]]>>
    <3>1. /\ n \in Name /\ n \in NamesOf(d)
          /\ Refs(d, n) \subseteq Name /\ Refs(d, n) \subseteq NamesOf(d)
      BY <2>2, DerivedNames
    <3>2. H[n][snapshot'.revisions[n]] = recs[n].value
      BY <2>3, <2>4, <3>1
    <3>3. recs[n].value = <<Text(d, n), [r \in Refs(d, n) |-> recs[r].value]>>
      BY <2>2 DEF IsDerived, Expand, Text
    <3>4. \A r \in Refs(d, n) : H[r][snapshot'.revisions[r]] = recs[r].value
      BY <2>3, <2>4, <3>1
    <3>5. [r \in Refs(d, n) |-> H[r][snapshot'.revisions[r]]] = [r \in Refs(d, n) |-> recs[r].value]
      BY <3>4
    <3> QED
      BY <3>2, <3>3, <3>5
  <2>7. SnapshotOK(H, records, snapshot')
    BY <2>2, <2>3, <2>5, <2>6 DEF SnapshotOK
  <2>8. InHand(H, records, "published", d, [n \in Name |-> NoRecord], NoJournal, 0)
    BY <1>1, <2>2 DEF InHand
  <2> QED
    BY <1>0, <1>3, <2>1, <2>7, <2>8
<1>13. CASE Lists(p)
  <2>1. at[p] = "published" /\ UNCHANGED vaultVars /\ Goes(p, "status", d, records, j, next)
    BY <1>13 DEF Lists
  <2>2. InHand(H, records, "status", d, records, j, next)
    BY <1>0, <1>2, <2>1 DEF InHand
  <2> QED
    BY <1>0, <1>3, <2>1, <2>2 DEF vaultVars
<1> QED
  BY <1>4, <1>5, <1>6, <1>7, <1>8, <1>9, <1>10, <1>11, <1>12, <1>13 DEF Prepares

LEMMA PastInitially == Init => PastInv
<1> SUFFICES ASSUME Init PROVE PastInv
  OBVIOUS
<1> DEFINE H == [n \in Name |-> [i \in Nat |-> None]]
<1>1. \A n \in Name : \A i \in Nat : H[n][i] = None
  OBVIOUS
<1> HIDE DEF H
<1>2. /\ ShapeInv /\ records = [n \in Name |-> NoRecord]
      /\ journal = NoJournal /\ snapshot = NoSnapshot
      /\ at = [p \in Process |-> "idle"] /\ mine = [p \in Process |-> Nothing]
  BY ShapeInitially DEF Init, BundleInit
<1>3. /\ Held(H, [n \in Name |-> NoRecord], records) /\ JournalOK(H, records, NoJournal)
  <2>1. \A n \in Name : records[n].revision \in Nat
    BY <1>2 DEF NoRecord
  <2> QED
    BY <1>1, <2>1, EmptyHand
<1>4. SnapshotOK(H, records, snapshot)
  BY <1>2 DEF SnapshotOK, NoSnapshot
<1>5. ASSUME NEW p \in Process
      PROVE  InHand(H, records, at[p], mine[p].document, mine[p].records, mine[p].journal,
                    mine[p].next)
  <2>1. at[p] = "idle" /\ mine[p] = Nothing
    BY <1>2
  <2>2. mine[p].records = [n \in Name |-> NoRecord] /\ mine[p].journal = NoJournal
    BY <2>1 DEF Nothing
  <2> QED
    BY <1>3, <2>1, <2>2 DEF InHand
<1>6. Past(H)
  BY <1>1, <1>2, <1>3, <1>4, <1>5, BundleConstants DEF Past, HandsOK, Document
<1> QED
  BY <1>2, <1>6 DEF PastInv

LEMMA PastStep ==
  ASSUME PastInv, [Next]_vars
  PROVE  PastInv'
<1>0. ShapeInv /\ ShapeInv'
  BY ShapeStep DEF PastInv
<1>1. CASE BundleNext /\ UNCHANGED recoveryVars
  <2>1. SUFFICES ASSUME ~Replaced PROVE \E H : Past(H)'
    BY <1>0, <1>1 DEF PastInv, Replaced, recoveryVars
  <2>2. PICK H : Past(H)
    BY <2>1 DEF PastInv
  <2>3. ASSUME NEW p \in Process, (\E d \in Document : Begin(p, d)) \/ Step(p) \/ Fail(p)
        PROVE  \E H2 : Past(H2)'
    BY <1>0, <2>2, <2>3, PreparesStep, PastPrepares
  <2>4. ASSUME NEW n \in Name, NEW v \in Value, ChangeRecord(n, v)
        PROVE  \E H2 : Past(H2)'
    BY <1>0, <2>2, <2>4, PastChange
  <2> QED
    BY <1>1, <2>3, <2>4 DEF BundleNext
<1>2. CASE ExportRecords \/ UNCHANGED vars
  <2>1. UNCHANGED <<bundleVars, restoring>>
    BY <1>2 DEF ExportRecords, vars, recoveryVars
  <2> QED
    BY <1>0, <2>1 DEF PastInv, Replaced, bundleVars, Past, HandsOK
<1>3. ASSUME Replaced' PROVE PastInv'
  BY <1>0, <1>3 DEF PastInv
<1>4. CASE ExportAndReplace
  BY <1>3, <1>4 DEF ExportAndReplace, Replaced
<1>5. CASE RestoreStep \/ StopRestore
  <2>1. Replaced'
    BY <1>5 DEF RestoreStep, StopRestore, Running, Replaced, ResumeRestore, ValidateRecords,
      ValidateObjects, Validate, VerifyRecords, VerifyObjects, UploadRecord, UploadObject, Upload
  <2> QED
    BY <1>3, <2>1
<1> QED
  BY <1>1, <1>2, <1>4, <1>5 DEF Next

LEMMA PastAlways == Spec => []PastInv
BY PastInitially, PastStep, PTL DEF Spec

\* What was read, at revisions that the snapshot published, is derived.
LEMMA PublishedIsDerived ==
  ASSUME NEW H, NEW now, NEW recs, Held(H, recs, now), NEW snap, SnapshotOK(H, now, snap),
         NEW d \in Document, IsPrepared(d, recs, snap)
  PROVE  IsDerived(d, recs)
<1>1. snap.digest = d /\ snap.digest # 0
  BY BundleConstants DEF IsPrepared, Document
<1>2. \A n \in NamesOf(d) : n \in Name => recs[n].value = H[n][snap.revisions[n]]
  BY DEF IsPrepared, Held
<1>3. ASSUME NEW n \in DerivedOf(d)
      PROVE  recs[n].value = Expand(d, n, recs)
  <2>1. /\ n \in Name /\ n \in NamesOf(d)
        /\ Refs(d, n) \subseteq Name /\ Refs(d, n) \subseteq NamesOf(d)
    BY DerivedNames
  <2>2. H[n][snap.revisions[n]] = <<Text(d, n), [r \in Refs(d, n) |-> H[r][snap.revisions[r]]]>>
    BY <1>1 DEF SnapshotOK
  <2>3. \A r \in Refs(d, n) : recs[r].value = H[r][snap.revisions[r]]
    BY <1>2, <2>1
  <2>4. [r \in Refs(d, n) |-> H[r][snap.revisions[r]]] = [r \in Refs(d, n) |-> recs[r].value]
    BY <2>3
  <2> QED
    BY <1>2, <2>1, <2>2, <2>4 DEF Expand, Text
<1> QED
  BY <1>3 DEF IsDerived

\* A bundle that the revisions of its snapshot call prepared, in the vault or as
\* bundle status and bundle prepare have read it, was derived from its inputs as
\* they are, by whichever processes, interrupted anywhere.
THEOREM PreparedIsRight == Spec => []PreparedIsDerivedUnlessRestored
<1>1. ASSUME PastInv, ~Replaced
      PROVE  PreparedIsDerived /\ ReportedIsDerived
  <2>1. PICK H : Past(H)
    BY <1>1 DEF PastInv
  <2>2. Held(H, records, records) /\ SnapshotOK(H, records, snapshot)
    BY <2>1 DEF Past
  <2>3. PreparedIsDerived
    BY <2>2, PublishedIsDerived DEF PreparedIsDerived
  <2>4. ASSUME NEW p \in Process, at[p] \in {"objects", "status"},
               IsPrepared(mine[p].document, mine[p].records, snapshot)
        PROVE  IsDerived(mine[p].document, mine[p].records)
    <3>1. InHand(H, records, at[p], mine[p].document, mine[p].records, mine[p].journal,
                 mine[p].next)
      BY <2>1 DEF Past, HandsOK
    <3>2. Held(H, mine[p].records, records) /\ mine[p].document \in Document
      BY <2>4, <3>1 DEF InHand
    <3> QED
      BY <2>2, <2>4, <3>2, PublishedIsDerived
  <2> QED
    BY <2>3, <2>4 DEF ReportedIsDerived
<1>2. PastInv => PreparedIsDerivedUnlessRestored
  BY <1>1 DEF PreparedIsDerivedUnlessRestored
<1> QED
  BY <1>2, PastAlways, PTL
====

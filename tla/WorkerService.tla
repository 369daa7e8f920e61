--------------------------- MODULE WorkerService ---------------------------
(***************************************************************************)
(* The worker edition of the vault service,                                *)
(* cloudflare/envbank-worker/src/index.ts: one durable object per vault.   *)
(*                                                                         *)
(* The object runs one piece of code at a time, up to the next await.  A   *)
(* request is verified in authenticate, which reads the device and then    *)
(* waits for the cryptography; meanwhile other requests are served.  What  *)
(* follows is not interrupted, so each handler is two steps: Authenticate, *)
(* and the rest.  An error before its transaction leaves nothing behind.   *)
(*                                                                         *)
(* Access events are written with every change and pruned as in            *)
(* AccessEvents; no handler reads them to decide, and they are left out.   *)
(***************************************************************************)
EXTENDS Integers, FiniteSets

CONSTANTS
  Device, Nonce, Record, Object, Blob,
  NoBlob,
  Founder,             \* the device that creates the vault
  Connection,          \* requests that are served at once
  Timestamp,           \* whole seconds
  TimestampWindow,     \* the 5 minutes of authenticate, in seconds
  NonceRetention,      \* the 10 minutes of reserve, in seconds
  InvitationLifetime,  \* 10 minutes, in seconds
  MaxAttempts,         \* 5
  Ticks,               \* readings of the clock in a second
  Lag,                 \* how long the cryptography of a request takes at most
  MaxTime,             \* bound: the last reading of the clock
  MaxRevision          \* bound: the last revision of a record or object

ASSUME WorkerConstants ==
  /\ Founder \in Device /\ IsFiniteSet(Device)
  /\ Timestamp \subseteq Nat
  /\ {TimestampWindow, NonceRetention, InvitationLifetime, MaxTime, MaxRevision} \subseteq Nat
  /\ NonceRetention >= 2 * TimestampWindow
  /\ {Ticks, MaxAttempts} \subseteq Nat \ {0}
  /\ Lag \in Nat /\ Lag < Ticks

VARIABLES
  time,         \* Date.now()
  devices,      \* rows of devices: none, active, revoked
  enrollments,  \* rows of enrollments: none, pending, approved
  invitations,
  records,      \* revision 0 is no row
  objects,
  nonces,
  served,       \* the verified request of each connection, or none
  spent,        \* history: requests whose nonce was reserved
  replayed      \* history: one of them was reserved again

workerVars == <<time, devices, enrollments, invitations, records, objects,
                nonces, served, spent, replayed>>
memberVars == <<devices, enrollments, invitations>>
storeVars == <<records, objects>>
nonceVars == <<nonces, spent, replayed>>

\* A nonce that no other request has: its row refuses nobody, and is left out.
Unique == "unique"

\* What is signed, and the parameter allowPending of its handler.
Request == [device : Device, nonce : Nonce \cup {Unique}, ts : Timestamp,
            pending : BOOLEAN]
NoRequest == [device |-> "none"]

NoRow == [revision |-> 0, basis |-> 0, value |-> NoBlob]
NoInvitation == [state |-> "none", expires |-> 0, failed |-> 0, actor |-> "none"]

Ends == {"approved", "rejected", "cancelled", "expired", "attempts_exhausted"}

WorkerTypeOK ==
  /\ time \in 0..MaxTime
  /\ devices \in [Device -> {"none", "active", "revoked"}]
  /\ enrollments \in [Device -> {"none", "pending", "approved"}]
  /\ \A d \in Device :
       /\ invitations[d].state \in {"none", "pending"} \cup Ends
       /\ invitations[d].failed \in 0..MaxAttempts
       /\ invitations[d].state = "pending" => invitations[d].failed < MaxAttempts
  /\ \A x \in Record : records[x].revision \in 0..MaxRevision
  /\ \A x \in Object : objects[x].revision \in 0..MaxRevision
  /\ nonces \subseteq [device : Device, nonce : Nonce, created : Nat]
  /\ \A c \in Connection :
       served[c] # NoRequest => time - served[c].at \in 0..Lag

WorkerInit ==
  /\ time = 0
  /\ devices = [d \in Device |-> "none"]
  /\ enrollments = [d \in Device |-> "none"]
  /\ invitations = [d \in Device |-> NoInvitation]
  /\ records = [x \in Record |-> NoRow]
  /\ objects = [x \in Object |-> NoRow]
  /\ nonces = {}
  /\ served = [c \in Connection |-> NoRequest]
  /\ spent = {}
  /\ replayed = FALSE

-----------------------------------------------------------------------------
\* canonicalSecond drops the fraction.
CanonicalSecond(t) == t \div Ticks

Exists == \E d \in Device : devices[d] # "none"

\* initialize, for a vault with an identifier of its own.
Initialize ==
  /\ ~Exists
  /\ devices' = [devices EXCEPT ![Founder] = "active"]
  /\ UNCHANGED <<time, enrollments, invitations, storeVars, nonceVars, served>>

\* device, or else pendingDevice, whose revoked_at is never set.
Pending(d) == devices[d] = "none" /\ enrollments[d] # "none"

Timely(ts) ==
  time - ts * Ticks \in (-TimestampWindow * Ticks)..(TimestampWindow * Ticks)

\* A signed request is found to be in time, and its cryptography begins; a
\* request that is refused, or whose signature is not that of the device,
\* changes nothing.
Authenticate(c, r) ==
  /\ served[c] = NoRequest
  /\ devices[r.device] = "active" \/ (r.pending /\ Pending(r.device))
  /\ Timely(r.ts)
  /\ served' = [served EXCEPT ![c] =
       [device |-> r.device, nonce |-> r.nonce, ts |-> r.ts, pending |-> r.pending,
        at |-> time]]
  /\ UNCHANGED <<time, memberVars, storeVars, nonceVars>>

\* Mutant: the identity is not looked at again.
StillKnownAnyway(d) == TRUE

\* reserve looks at the identity again: it may have changed during the await.
StillKnown(d) == devices[d] = "active" \/ Pending(d)

\* Mutant: rows of the second at which retention ends are deleted too.
RetainedShort ==
  {row \in nonces : row.created > CanonicalSecond(time - NonceRetention * Ticks)}

\* The rows that are not deleted for their age.
Retained ==
  {row \in nonces : row.created >= CanonicalSecond(time - NonceRetention * Ticks)}

Row(r) == [device |-> r.device, nonce |-> r.nonce, created |-> CanonicalSecond(time)]
Key(r) == [device |-> r.device, nonce |-> r.nonce, ts |-> r.ts]

\* The transaction of a handler begins with reserve, and is the last that the
\* request does.  When reserve throws, nothing is changed (Drop).
Reserve(c) ==
  LET r == served[c] IN
  /\ r # NoRequest
  /\ StillKnown(r.device)
  /\ served' = [served EXCEPT ![c] = NoRequest]
  /\ UNCHANGED time
  /\ IF r.nonce = Unique
     THEN nonces' = Retained /\ UNCHANGED <<spent, replayed>>
     ELSE /\ \A row \in Retained : row.device # r.device \/ row.nonce # r.nonce
          /\ nonces' = Retained \cup {Row(r)}
          /\ spent' = spent \cup {Key(r)}
          /\ replayed' = (replayed \/ Key(r) \in spent)

\* A handler ends without a change: the request is refused, or reserve throws.
Drop(c) ==
  /\ served[c] # NoRequest
  /\ served' = [served EXCEPT ![c] = NoRequest]
  /\ UNCHANGED <<time, memberVars, storeVars, nonceVars>>

\* Handlers that read devices, enrollments, records, objects or events.
Read(c) ==
  /\ Reserve(c)
  /\ UNCHANGED <<memberVars, storeVars>>

-----------------------------------------------------------------------------
(* enrollments, devices *)

\* Anybody may ask; the identifier is new.
RequestEnrollment(d) ==
  /\ Exists
  /\ devices[d] = "none" /\ enrollments[d] = "none"
  /\ enrollments' = [enrollments EXCEPT ![d] = "pending"]
  /\ UNCHANGED <<time, devices, invitations, storeVars, nonceVars, served>>

\* An enrollment that has an invitation is approved through the invitation.
Approvable(d) == enrollments[d] = "pending" /\ invitations[d].state = "none"

Join(d) ==
  /\ enrollments' = [enrollments EXCEPT ![d] = "approved"]
  /\ devices' = [devices EXCEPT ![d] = "active"]

ApproveEnrollment(c, d) ==
  /\ ~served[c].pending
  /\ Approvable(d)
  /\ Reserve(c)
  /\ Join(d)
  /\ UNCHANGED <<invitations, storeVars>>

Active == {d \in Device : devices[d] = "active"}

\* Mutant: the final device may be revoked.
RevocableAlways(d) == d \in Active

\* The count is taken after the await.
Revocable(d) == d \in Active /\ Cardinality(Active) > 1

RevokeDevice(c, d) ==
  /\ ~served[c].pending
  /\ Revocable(d)
  /\ Reserve(c)
  /\ devices' = [devices EXCEPT ![d] = "revoked"]
  /\ UNCHANGED <<enrollments, invitations, storeVars>>

-----------------------------------------------------------------------------
(* invitations *)

CreateInvitation(d) ==
  /\ Exists
  /\ devices[d] = "none" /\ enrollments[d] = "none"
  /\ enrollments' = [enrollments EXCEPT ![d] = "pending"]
  /\ invitations' = [invitations EXCEPT ![d] =
       [state |-> "pending", failed |-> 0, actor |-> "none",
        expires |-> CanonicalSecond(time + InvitationLifetime * Ticks)]]
  /\ UNCHANGED <<time, devices, storeVars, nonceVars, served>>

Due(d) ==
  /\ invitations[d].state = "pending"
  /\ invitations[d].expires <= CanonicalSecond(time)

\* expireInvitations, of some invitations.
Expired(S) ==
  [d \in Device |-> IF d \in S /\ Due(d)
                    THEN [invitations[d] EXCEPT !.state = "expired", !.actor = "server"]
                    ELSE invitations[d]]

ListInvitations(c) ==
  /\ ~served[c].pending
  /\ Reserve(c)
  /\ invitations' = Expired(Device)
  /\ UNCHANGED <<devices, enrollments, storeVars>>

\* The caller's right to read it is looked at afterwards.
GetInvitation(c, d) ==
  /\ served[c].pending
  /\ Reserve(c)
  /\ invitations' = Expired({d})
  /\ UNCHANGED <<devices, enrollments, storeVars>>

\* approve, reject and cancel first end an invitation whose time is over, in a
\* transaction of its own and without a reservation.
ExpireFirst(c, d) ==
  /\ served[c].pending
  /\ Due(d)
  /\ invitations' = Expired({d})
  /\ served' = [served EXCEPT ![c] = NoRequest]
  /\ UNCHANGED <<time, devices, enrollments, storeVars, nonceVars>>

Open(d) == invitations[d].state = "pending" /\ ~Due(d)

\* roleOK: cancellation is for the invited device, the rest for active ones.
Entitled(actor, d, action) ==
  IF action = "cancelled" THEN actor = d /\ actor \notin Active ELSE actor \in Active

\* The binding and, for an approval, the envelope are valid.
Transition(c, d, action) ==
  /\ served[c].pending
  /\ Open(d)
  /\ Entitled(served[c].device, d, action)
  /\ Reserve(c)
  /\ invitations' = [invitations EXCEPT ![d].state = action,
                                        ![d].actor = served[c].device]
  /\ IF action = "approved" THEN Join(d) ELSE UNCHANGED <<devices, enrollments>>
  /\ UNCHANGED storeVars

Exhausted(n) == n >= MaxAttempts

\* Or one of them is not, or the caller is not entitled to it.
FailedTransition(c, d) ==
  LET failed == invitations[d].failed + 1 IN
  /\ served[c].pending
  /\ Open(d)
  /\ Reserve(c)
  /\ invitations' = [invitations EXCEPT
       ![d].failed = failed,
       ![d].state = IF Exhausted(failed) THEN "attempts_exhausted" ELSE @,
       ![d].actor = IF Exhausted(failed) THEN served[c].device ELSE @]
  /\ UNCHANGED <<devices, enrollments, storeVars>>

-----------------------------------------------------------------------------
(* records, objects *)

\* Mutant: the revision is not compared, neither before the upsert nor in it.
AtAnyRevision(row, expected) == TRUE

\* The revision is compared before the transaction, and again in its upsert.
AtRevision(row, expected) == row.revision = expected

Written(expected, v) == [revision |-> expected + 1, basis |-> expected, value |-> v]

PutRecord(c, x, expected, v) ==
  /\ ~served[c].pending
  /\ expected < MaxRevision
  /\ AtRevision(records[x], expected)
  /\ Reserve(c)
  /\ records' = [records EXCEPT ![x] = Written(expected, v)]
  /\ UNCHANGED <<memberVars, objects>>

PutObject(c, x, expected, v) ==
  /\ ~served[c].pending
  /\ expected < MaxRevision
  /\ AtRevision(objects[x], expected)
  /\ Reserve(c)
  /\ objects' = [objects EXCEPT ![x] = Written(expected, v)]
  /\ UNCHANGED <<memberVars, records>>

\* At revision 0 there is nothing to delete, and the request succeeds.
DeleteObject(c, x, expected) ==
  /\ ~served[c].pending
  /\ AtRevision(objects[x], expected)
  /\ Reserve(c)
  /\ objects' = [objects EXCEPT ![x] = NoRow]
  /\ UNCHANGED <<memberVars, records>>

-----------------------------------------------------------------------------
Elapse ==
  /\ time < MaxTime
  /\ \A c \in Connection : served[c] # NoRequest => time - served[c].at < Lag
  /\ time' = time + 1
  /\ UNCHANGED <<memberVars, storeVars, nonceVars, served>>

Continue(c) ==
  \/ Read(c) \/ Drop(c) \/ ListInvitations(c)
  \/ \E d \in Device :
       \/ ApproveEnrollment(c, d) \/ RevokeDevice(c, d)
       \/ GetInvitation(c, d) \/ ExpireFirst(c, d) \/ FailedTransition(c, d)
       \/ \E action \in {"approved", "rejected", "cancelled"} : Transition(c, d, action)
  \/ \E expected \in 0..MaxRevision, v \in Blob :
       \/ \E x \in Record : PutRecord(c, x, expected, v)
       \/ \E x \in Object : PutObject(c, x, expected, v) \/ DeleteObject(c, x, expected)

WorkerNext ==
  \/ Initialize
  \/ \E d \in Device : RequestEnrollment(d) \/ CreateInvitation(d)
  \/ \E c \in Connection, r \in Request : Authenticate(c, r)
  \/ \E c \in Connection : served[c] # NoRequest /\ Continue(c)
  \/ Elapse

WorkerSpec == WorkerInit /\ [][WorkerNext]_workerVars

-----------------------------------------------------------------------------
(* Properties *)

\* No request is reserved twice, although its timestamp is checked before the
\* await and its nonce after it, and two copies may be in the await at once.
WorkerNoReplay == ~replayed

\* Whoever revokes whom at the same time, an active device remains.
KeepsActiveDevice == Exists => Active # {}

\* A device that is invited joins when, and only when, its invitation is
\* approved, whichever endpoint its approval came through.
InvitationDecides ==
  \A d \in Device :
    invitations[d].state # "none" =>
      (devices[d] # "none" <=> invitations[d].state = "approved")

\* The connection whose handler goes on in this step acts for an active device.
ActsForActive ==
  \E c \in Connection :
    served[c] # NoRequest /\ served'[c] = NoRequest /\ served[c].device \in Active

\* Records, objects and members are changed for devices that are active when
\* the change is made, not just when the request was verified.
ChangesAreOfActive ==
  storeVars' # storeVars \/ (devices' # devices /\ Exists) => ActsForActive

\* An invitation ends once: in time and by an active device, or the invited
\* one if it is cancelled; not before its time if it expires; and exactly at the
\* last attempt if they are exhausted.
InvitationsEndOnce ==
  \A d \in Device :
     LET old == invitations[d]
         new == invitations'[d]
         inTime == CanonicalSecond(time) < old.expires
     IN old.state # "none" /\ new # old =>
          /\ old.state = "pending"
          /\ new.state \in {"approved", "rejected"} => inTime /\ new.actor \in Active
          /\ new.state = "cancelled" => inTime /\ new.actor = d
          /\ new.state = "expired" => ~inTime
          /\ new.state = "attempts_exhausted" <=> new.failed = MaxAttempts

WorkerRecords ==
  INSTANCE RevisionedStore
    WITH Cell <- Record, Value <- Blob, NoValue <- NoBlob, Deletable <- {},
         LastRevision <- MaxRevision, cells <- records

WorkerObjects ==
  INSTANCE RevisionedStore
    WITH Cell <- Object, Value <- Blob, NoValue <- NoBlob, Deletable <- Object,
         LastRevision <- MaxRevision, cells <- objects

\* Clients may rely on the worker as they do on the other edition: records
\* change only by compare-and-set on their revision.
WorkerRecordsAreRevisioned == WorkerRecords!StoreSpec

\* Likewise objects, which may be deleted.
WorkerObjectsAreRevisioned == WorkerObjects!StoreSpec

\* Members, although requests are verified before others are carried out: an
\* active device remains, and invitations decide who joins.
WorkerMembersAgree == KeepsActiveDevice /\ InvitationDecides

\* What was read before an await decides nothing after it: neither who may make
\* a change, nor whether an invitation is still open.
StepsAreOfTheMoment == [][ChangesAreOfActive /\ InvitationsEndOnce]_workerVars

\* Both tables are compare-and-set stores.
WorkerStoresAreRevisioned == WorkerRecordsAreRevisioned /\ WorkerObjectsAreRevisioned
=============================================================================

---------------------------- MODULE VaultServer ----------------------------
(***************************************************************************)
(* The self-hosted vault service: internal/server/server.go and            *)
(* invitations.go.  One vault; its devices, enrollments, invitations,      *)
(* records, encrypted objects, replay nonces and access events.            *)
(*                                                                         *)
(* The database has one connection and opens every transaction with BEGIN  *)
(* IMMEDIATE (databaseDSN, openDatabase), so a handler is one atomic step. *)
(* A handler whose transaction fails, or that finds no vault, changes      *)
(* nothing and is a stuttering step.  A handler reads the clock once here; *)
(* its readings are microseconds apart in the code.                        *)
(*                                                                         *)
(* Any request may arrive at any time, once or many times: a request is    *)
(* what its headers claim, and whether the signature verifies.             *)
(***************************************************************************)
EXTENDS AccessEvents

CONSTANTS
  Nonce,                 \* request nonces
  Timestamp,             \* whole-second timestamps that requests carry
  Record, Object,        \* record and object identifiers
  Blob, NoBlob,          \* ciphertexts
  TimestampWindow,       \* the 5 minutes of ValidateTimestamp, in seconds
  NonceRetention,        \* the 10 minutes of authenticateDevice, in seconds
  InvitationLifetime,    \* invitationLifetime, in seconds
  InvitationMaxAttempts, \* invitationMaxAttempts
  Exercised,             \* the operations that an instance exercises
  MaxSec,                \* bound: the last second of the clock
  MaxRevision            \* bound: the last revision of a record or object

ASSUME VaultConstants ==
  /\ Timestamp \subseteq Nat
  /\ TimestampWindow \in Nat
  /\ NonceRetention \in Nat
  /\ NonceRetention >= 2 * TimestampWindow
  /\ InvitationLifetime \in Nat \ {0}
  /\ InvitationMaxAttempts \in Nat \ {0}
  /\ NoBlob \notin Blob
  /\ "server" \notin Device
  /\ MaxSec \in Nat
  /\ MaxRevision \in Nat
  /\ IsFiniteSet(Device)

VARIABLES
  vault,        \* does the vaults row exist?
  devices,      \* devices rows: none, active, or revoked (revoked_at set)
  enrollments,  \* enrollments rows: none, pending, or approved
  invitations,  \* invitations rows
  records,      \* records rows; revision 0 is no row
  objects,      \* vault_objects rows; revision 0 is no row
  nonces,       \* nonces rows
  spent,        \* history: requests that passed the nonce check
  replayed      \* history: requests that ran although already spent

accountVars == <<vault, devices, enrollments, invitations>>
dataVars == <<records, objects>>
authVars == <<nonces, spent, replayed>>
vars == <<clockVars, eventVars, accountVars, dataVars, authVars>>

InvitationStates ==
  {"none", "pending", "approved", "cancelled", "rejected", "expired",
   "attempts_exhausted"}

Invitation ==
  [state : InvitationStates, expiresAt : Nat,
   failed : 0..InvitationMaxAttempts, terminalAt : Nat \cup {-1},
   actor : Device \cup {NoDevice, "server"}]

NoInvitation ==
  [state |-> "none", expiresAt |-> 0, failed |-> 0, terminalAt |-> -1,
   actor |-> NoDevice]

\* A row of records or vault_objects.  basis is history: the revision that the
\* row's last writer said it had seen.
Row == [revision : Nat, basis : Nat, blob : Blob \cup {NoBlob}]
NoRow == [revision |-> 0, basis |-> 0, blob |-> NoBlob]

Request ==
  [device : Device, nonce : Nonce, ts : Timestamp, signed : BOOLEAN]

\* What a signature makes unique about a request.
Key == [device : Device, nonce : Nonce, ts : Timestamp]
KeyOf(req) == [device |-> req.device, nonce |-> req.nonce, ts |-> req.ts]

TypeOK ==
  /\ EventsTypeOK
  /\ vault \in BOOLEAN
  /\ devices \in [Device -> {"none", "active", "revoked"}]
  /\ enrollments \in [Device -> {"none", "pending", "approved"}]
  /\ invitations \in [Device -> Invitation]
  /\ records \in [Record -> Row]
  /\ objects \in [Object -> Row]
  /\ nonces \subseteq [device : Device, nonce : Nonce, created : Nat]
  /\ spent \subseteq Key
  /\ replayed \subseteq Key

Init ==
  /\ EventsInit
  /\ vault = FALSE
  /\ devices = [d \in Device |-> "none"]
  /\ enrollments = [d \in Device |-> "none"]
  /\ invitations = [d \in Device |-> NoInvitation]
  /\ records = [r \in Record |-> NoRow]
  /\ objects = [o \in Object |-> NoRow]
  /\ nonces = {}
  /\ spent = {}
  /\ replayed = {}

-----------------------------------------------------------------------------
(* authenticateDevice *)

\* The operations whose handlers pass allowPending.
AllowPending ==
  {"enrollment_status", "invitation_status", "invitation_approval",
   "invitation_rejection", "invitation_cancellation"}

\* The operations of handlers that authenticate their caller.
SignedOperations ==
  Operations \ {"enrollment_request", "invitation_creation",
                "invitation_expiry"}

Known(d) == devices[d] # "none" \/ enrollments[d] # "none"

\* ValidateTimestamp: the distance from the clock exceeds the window.
Stale(ts) ==
  \/ sec - ts > TimestampWindow
  \/ sec - ts = TimestampWindow /\ frac > 0
  \/ ts - sec > TimestampWindow

Seen(d, n) == \E row \in nonces : row.device = d /\ row.nonce = n

\* The first check before the nonce is recorded that a request fails.
GateReason(req) ==
  IF ~Known(req.device) THEN "unknown_device"
  ELSE IF ~req.signed THEN "invalid_signature"
  ELSE IF Stale(req.ts) THEN "stale_timestamp"
  ELSE IF Seen(req.device, req.nonce) THEN "replay"
  ELSE "none"

\* Mutant: revoked_at is not consulted.
AuthorizationIgnoresRevocation(d, op) ==
  IF devices[d] = "none" /\ op \notin AllowPending THEN "pending_device"
  ELSE "none"

AuthorizationReason(d, op) ==
  IF devices[d] = "revoked" THEN "revoked_device"
  ELSE IF devices[d] = "none" /\ op \notin AllowPending THEN "pending_device"
  ELSE "none"

\* Mutant: a row is pruned in the second it should last be kept.
UnprunedEarly(rows) == {row \in rows : row.created > sec - NonceRetention}

Unpruned(rows) == {row \in rows : row.created >= sec - NonceRetention}

\* The nonces table once the request's nonce is inserted and old rows deleted.
NoncesAfter(req) ==
  Unpruned(nonces \cup
    {[device |-> req.device, nonce |-> req.nonce, created |-> sec]})

\* A request that authenticateDevice answers itself.  The identity is
\* attributed from a valid signature on, even when authorization fails.
DenyAtGate(req, op) ==
  LET reason == GateReason(req)
  IN  /\ reason # "none"
      /\ InsertAccessEvent(
           Event(IF reason = "unknown_device" THEN NoDevice ELSE req.device,
                 reason \in {"stale_timestamp", "replay"},
                 NoDevice, op, "denied", reason))
      /\ UNCHANGED authVars

DenyAuthorization(req, op) ==
  LET reason == AuthorizationReason(req.device, op)
  IN  /\ GateReason(req) = "none"
      /\ reason # "none"
      /\ InsertAccessEvent(
           Event(req.device, TRUE, NoDevice, op, "denied", reason))
      /\ nonces' = NoncesAfter(req)
      /\ spent' = spent \cup {KeyOf(req)}
      /\ UNCHANGED replayed

Deny(req, op) ==
  /\ vault
  /\ DenyAtGate(req, op) \/ DenyAuthorization(req, op)
  /\ UNCHANGED <<clockVars, accountVars, dataVars>>

\* authenticateDevice returns an authenticated request, and the handler runs.
Authenticated(req, op) ==
  /\ vault
  /\ GateReason(req) = "none"
  /\ AuthorizationReason(req.device, op) = "none"
  /\ spent' = spent \cup {KeyOf(req)}
  /\ replayed' = IF KeyOf(req) \in spent
                   THEN replayed \cup {KeyOf(req)} ELSE replayed
  /\ UNCHANGED clockVars

Succeeded(req, op, target) ==
  Event(req.device, TRUE, target, op, "succeeded", "none")

\* rejectEvent
Rejected(req, op, target, reason) ==
  Event(req.device, TRUE, target, op, "rejected", reason)

\* A handler that only reads: its nonce and its event are what it leaves.
Answer(req, op, details) ==
  /\ Authenticated(req, op)
  /\ InsertAccessEvent(details)
  /\ nonces' = NoncesAfter(req)
  /\ UNCHANGED <<accountVars, dataVars>>

\* A request for another vault prunes every vault's nonces.
ServeOtherVault ==
  /\ nonces' = Unpruned(nonces)
  /\ UNCHANGED <<clockVars, eventVars, accountVars, dataVars, spent, replayed>>

-----------------------------------------------------------------------------
(* Vault, enrollments and devices *)

\* createVault: fresh random identifiers, the founder's device already active.
CreateVault(d) ==
  /\ ~vault
  /\ ~Known(d)
  /\ vault' = TRUE
  /\ devices' = [devices EXCEPT ![d] = "active"]
  /\ UNCHANGED <<clockVars, eventVars, enrollments, invitations, dataVars,
                 authVars>>

\* requestEnrollment, unauthenticated; d is the fresh random identifier.
RequestEnrollment(d) ==
  /\ vault
  /\ ~Known(d)
  /\ enrollments' = [enrollments EXCEPT ![d] = "pending"]
  /\ InsertAccessEvent(
       Event(NoDevice, FALSE, d, "enrollment_request", "succeeded", "none"))
  /\ UNCHANGED <<clockVars, vault, devices, invitations, dataVars, authVars>>

\* bestEffortPublicRejection, and its twin for invitations.
RejectPublicRequest(op, reason) ==
  /\ vault
  /\ InsertAccessEvent(Event(NoDevice, FALSE, NoDevice, op, "rejected", reason))
  /\ UNCHANGED <<clockVars, accountVars, dataVars, authVars>>

ListEnrollments(req) ==
  Answer(req, "enrollment_list", Succeeded(req, "enrollment_list", NoDevice))

ListDevices(req) ==
  Answer(req, "device_list", Succeeded(req, "device_list", NoDevice))

\* getEnrollment: only the enrolling device may read its own status.
GetEnrollment(req, d) ==
  LET op == "enrollment_status"
  IN  Answer(req, op,
        IF enrollments[d] = "none" THEN Rejected(req, op, d, "not_found")
        ELSE IF req.device # d
          THEN Event(req.device, TRUE, d, op, "denied", "invalid_request")
        ELSE Succeeded(req, op, d))

\* Mutant: the invitation that came with the enrollment is not consulted.
EnrollmentApprovalIgnoresInvitation(d, decodes) ==
  IF ~decodes THEN "invalid_request"
  ELSE IF enrollments[d] = "none" THEN "not_found"
  ELSE IF enrollments[d] = "approved" THEN "already_approved"
  ELSE "none"

\* The check of approveEnrollment that fails first.
EnrollmentApprovalReason(d, decodes) ==
  IF ~decodes THEN "invalid_request"
  ELSE IF enrollments[d] = "none" THEN "not_found"
  ELSE IF enrollments[d] = "approved" THEN "already_approved"
  ELSE IF invitations[d].state # "none" THEN "terminal_conflict"
  ELSE "none"

\* Approving an enrollment makes its device active; a devices row that is
\* already there fails the insert and with it the transaction.
AdmitDevice(d) ==
  /\ devices[d] = "none"
  /\ devices' = [devices EXCEPT ![d] = "active"]
  /\ enrollments' = [enrollments EXCEPT ![d] = "approved"]

ApproveEnrollment(req, d) ==
  /\ Authenticated(req, "enrollment_approval")
  /\ EnrollmentApprovalReason(d, TRUE) = "none"
  /\ AdmitDevice(d)
  /\ InsertAccessEvent(Succeeded(req, "enrollment_approval", d))
  /\ nonces' = NoncesAfter(req)
  /\ UNCHANGED <<vault, invitations, dataVars>>

RejectEnrollmentApproval(req, d, decodes) ==
  LET reason == EnrollmentApprovalReason(d, decodes)
  IN  /\ reason # "none"
      /\ Answer(req, "enrollment_approval",
                Rejected(req, "enrollment_approval", d, reason))

Active == {d \in Device : devices[d] = "active"}

\* Mutant: the active devices are not counted first.
RevocationUncounted(d) ==
  IF devices[d] = "none" THEN "not_found"
  ELSE IF devices[d] = "revoked" THEN "already_revoked"
  ELSE "none"

RevocationReason(d) ==
  IF devices[d] = "none" THEN "not_found"
  ELSE IF devices[d] = "revoked" THEN "already_revoked"
  ELSE IF Cardinality(Active) <= 1 THEN "final_active_device"
  ELSE "none"

\* revokeDevice also deletes the device's nonces, the one of this request
\* among them when a device revokes itself.
RevokeDevice(req, d) ==
  /\ Authenticated(req, "device_revocation")
  /\ RevocationReason(d) = "none"
  /\ devices' = [devices EXCEPT ![d] = "revoked"]
  /\ nonces' = {row \in NoncesAfter(req) : row.device # d}
  /\ InsertAccessEvent(Succeeded(req, "device_revocation", d))
  /\ UNCHANGED <<vault, enrollments, invitations, dataVars>>

RejectRevocation(req, d) ==
  /\ RevocationReason(d) # "none"
  /\ Answer(req, "device_revocation",
            Rejected(req, "device_revocation", d, RevocationReason(d)))

-----------------------------------------------------------------------------
(* Records and encrypted objects *)

ListRecords(req) ==
  Answer(req, "record_list", Succeeded(req, "record_list", NoDevice))

\* What putRecord and putVaultObject write over a row.
NextRow(row, expected, b) ==
  [revision |-> row.revision + 1, basis |-> expected, blob |-> b]

\* Mutant: the update is not conditional on the expected revision.
PutRecordBlind(req, r, expected, b) ==
  /\ Authenticated(req, "record_update")
  /\ records[r].revision < MaxRevision
  /\ records' = [records EXCEPT ![r] = NextRow(records[r], expected, b)]
  /\ InsertAccessEvent(Succeeded(req, "record_update", NoDevice))
  /\ nonces' = NoncesAfter(req)
  /\ UNCHANGED <<accountVars, objects>>

PutRecord(req, r, expected, b) ==
  /\ Authenticated(req, "record_update")
  /\ records[r].revision = expected
  /\ expected < MaxRevision
  /\ records' = [records EXCEPT ![r] = NextRow(records[r], expected, b)]
  /\ InsertAccessEvent(Succeeded(req, "record_update", NoDevice))
  /\ nonces' = NoncesAfter(req)
  /\ UNCHANGED <<accountVars, objects>>

RejectRecord(req, r, expected, decodes) ==
  /\ ~decodes \/ records[r].revision # expected
  /\ Answer(req, "record_update",
            Rejected(req, "record_update", NoDevice,
              IF ~decodes THEN "invalid_request" ELSE "revision_conflict"))

ListVaultObjects(req) ==
  Answer(req, "object_list", Succeeded(req, "object_list", NoDevice))

GetVaultObject(req, o) ==
  Answer(req, "object_read",
         IF objects[o].revision = 0
           THEN Rejected(req, "object_read", NoDevice, "not_found")
           ELSE Succeeded(req, "object_read", NoDevice))

PutVaultObject(req, o, expected, b) ==
  /\ Authenticated(req, "object_update")
  /\ objects[o].revision = expected
  /\ expected < MaxRevision
  /\ objects' = [objects EXCEPT ![o] = NextRow(objects[o], expected, b)]
  /\ InsertAccessEvent(Succeeded(req, "object_update", NoDevice))
  /\ nonces' = NoncesAfter(req)
  /\ UNCHANGED <<accountVars, records>>

RejectVaultObject(req, o, expected, valid) ==
  /\ ~valid \/ objects[o].revision # expected
  /\ Answer(req, "object_update",
            Rejected(req, "object_update", NoDevice,
              IF ~valid THEN "invalid_request" ELSE "revision_conflict"))

\* Deleting removes the row, so that its next revision is 1 again.
DeleteVaultObject(req, o, expected) ==
  /\ Authenticated(req, "object_delete")
  /\ expected >= 1
  /\ objects[o].revision = expected
  /\ objects' = [objects EXCEPT ![o] = NoRow]
  /\ InsertAccessEvent(Succeeded(req, "object_delete", NoDevice))
  /\ nonces' = NoncesAfter(req)
  /\ UNCHANGED <<accountVars, records>>

DeletionReason(o, expected, valid) ==
  IF ~valid \/ expected < 1 THEN "invalid_request"
  ELSE IF objects[o].revision = expected THEN "none"
  ELSE IF objects[o].revision = 0 THEN "not_found"
  ELSE "revision_conflict"

RejectDeletion(req, o, expected, valid) ==
  LET reason == DeletionReason(o, expected, valid)
  IN  /\ reason # "none"
      /\ Answer(req, "object_delete",
                Rejected(req, "object_delete", NoDevice, reason))

\* listAccessEvents: the page is read after the request's own event is added.
ListAccessEvents(req, valid) ==
  Answer(req, "event_list",
         IF valid THEN Succeeded(req, "event_list", NoDevice)
                  ELSE Rejected(req, "event_list", NoDevice, "invalid_request"))

-----------------------------------------------------------------------------
(* Invitations *)

\* createInvitation, unauthenticated; expires_at keeps whole seconds.
CreateInvitation(d) ==
  /\ vault
  /\ ~Known(d)
  /\ enrollments' = [enrollments EXCEPT ![d] = "pending"]
  /\ invitations' = [invitations EXCEPT
       ![d] = [state |-> "pending", expiresAt |-> sec + InvitationLifetime,
               failed |-> 0, terminalAt |-> -1, actor |-> NoDevice]]
  /\ InsertAccessEvent(
       Event(NoDevice, FALSE, d, "invitation_creation", "succeeded", "none"))
  /\ UNCHANGED <<clockVars, vault, devices, dataVars, authVars>>

\* Mutant: an invitation can still be used in the second it expires.
LapsedLate(inv) == inv.state = "pending" /\ sec > inv.expiresAt

\* Mutant: an invitation that has ended can still expire.
LapsedInAnyState(inv) == inv.state # "none" /\ sec >= inv.expiresAt

Lapsed(inv) == inv.state = "pending" /\ sec >= inv.expiresAt

Ended(inv, state, actor) ==
  [inv EXCEPT !.state = state, !.terminalAt = sec, !.actor = actor]

\* expireInvitation: the row it leaves, and the event it adds.
AfterExpiry(inv) == IF Lapsed(inv) THEN Ended(inv, "expired", "server") ELSE inv

ExpiryEvent(d) ==
  Event(NoDevice, FALSE, d, "invitation_expiry", "succeeded", "expired")

ExpiryEvents(d) == IF Lapsed(invitations[d]) THEN <<ExpiryEvent(d)>> ELSE <<>>

\* The orders in which a query without ORDER BY may return a set of rows.
Orders(S) ==
  {order \in [1..Cardinality(S) -> S] : \A x \in S : \E i \in DOMAIN order :
                                          order[i] = x}

\* listInvitations expires every lapsed invitation first (expireInvitations).
ListInvitations(req) ==
  LET lapsed == {d \in Device : Lapsed(invitations[d])}
  IN  /\ Authenticated(req, "invitation_list")
      /\ invitations' = [d \in Device |-> AfterExpiry(invitations[d])]
      /\ \E order \in Orders(lapsed) :
           InsertAccessEvents(
             Append([i \in 1..Cardinality(lapsed) |-> ExpiryEvent(order[i])],
                    Succeeded(req, "invitation_list", NoDevice)))
      /\ nonces' = NoncesAfter(req)
      /\ UNCHANGED <<vault, devices, enrollments, dataVars>>

GetInvitationReason(req, d) ==
  IF invitations[d].state = "none" THEN "not_found"
  ELSE IF devices[req.device] # "active" /\ req.device # d
    THEN "incorrect_actor"
  ELSE "none"

GetInvitation(req, d) ==
  /\ Authenticated(req, "invitation_status")
  /\ GetInvitationReason(req, d) = "none"
  /\ invitations' = [invitations EXCEPT ![d] = AfterExpiry(@)]
  /\ InsertAccessEvents(
       Append(ExpiryEvents(d), Succeeded(req, "invitation_status", d)))
  /\ nonces' = NoncesAfter(req)
  /\ UNCHANGED <<vault, devices, enrollments, dataVars>>

RejectGetInvitation(req, d) ==
  LET reason == GetInvitationReason(req, d)
  IN  /\ reason # "none"
      /\ Answer(req, "invitation_status",
                Rejected(req, "invitation_status", d, reason))

TransitionOperation ==
  [approve |-> "invitation_approval", reject |-> "invitation_rejection",
   cancel |-> "invitation_cancellation"]

TransitionState ==
  [approve |-> "approved", reject |-> "rejected", cancel |-> "cancelled"]

\* What a transition's body holds: all that the handler tells apart.
Bodies == {"valid", "undecodable", "other_version", "mismatch", "bad_envelope"}

RoleOK(req, d, action) ==
  IF action = "cancel"
    THEN req.device = d /\ devices[d] # "active"
    ELSE devices[req.device] = "active"

BodyOK(action, body) ==
  body = "valid" \/ (body = "bad_envelope" /\ action # "approve")

FailureReason(req, d, action, body) ==
  IF ~RoleOK(req, d, action) THEN "incorrect_actor"
  ELSE IF body = "undecodable" THEN "invalid_request"
  ELSE IF body = "other_version" THEN "unsupported_version"
  ELSE "binding_mismatch"

TerminalReason(state) ==
  IF state = "expired" THEN "expired"
  ELSE IF state = "attempts_exhausted" THEN "attempt_exhaustion"
  ELSE "terminal_conflict"

\* transitionInvitation on a pending, unexpired invitation, by the right role
\* and with a body bound to it.
TransitionInvitation(req, d, action, body) ==
  LET op == TransitionOperation[action]
  IN  /\ Authenticated(req, op)
      /\ AfterExpiry(invitations[d]).state = "pending"
      /\ RoleOK(req, d, action) /\ BodyOK(action, body)
      /\ invitations' = [invitations EXCEPT
           ![d] = Ended(@, TransitionState[action], req.device)]
      /\ IF action = "approve"
           THEN enrollments[d] = "pending" /\ AdmitDevice(d)
           ELSE UNCHANGED <<devices, enrollments>>
      /\ InsertAccessEvent(Succeeded(req, op, d))
      /\ nonces' = NoncesAfter(req)
      /\ UNCHANGED <<vault, dataVars>>

Exhausted(failed) == failed >= InvitationMaxAttempts

\* failInvitationAttempt: the budget is charged whatever failed, and the last
\* attempt ends the invitation.
FailInvitationAttempt(req, d, action, body) ==
  LET op == TransitionOperation[action]
      failed == invitations[d].failed + 1
      charged == [invitations[d] EXCEPT !.failed = failed]
  IN  /\ Authenticated(req, op)
      /\ AfterExpiry(invitations[d]).state = "pending"
      /\ ~(RoleOK(req, d, action) /\ BodyOK(action, body))
      /\ invitations' = [invitations EXCEPT
           ![d] = IF Exhausted(failed)
                    THEN Ended(charged, "attempts_exhausted", req.device)
                    ELSE charged]
      /\ InsertAccessEvent(
           Rejected(req, op, d,
             IF Exhausted(failed) THEN "attempt_exhaustion"
                                  ELSE FailureReason(req, d, action, body)))
      /\ nonces' = NoncesAfter(req)
      /\ UNCHANGED <<vault, devices, enrollments, dataVars>>

\* transitionInvitation on one that is missing or has ended, perhaps just now.
RejectTransition(req, d, action) ==
  LET op == TransitionOperation[action]
      state == AfterExpiry(invitations[d]).state
  IN  /\ Authenticated(req, op)
      /\ state # "pending"
      /\ invitations' = [invitations EXCEPT ![d] = AfterExpiry(@)]
      /\ InsertAccessEvents(
           Append(ExpiryEvents(d),
             Rejected(req, op, d, IF state = "none" THEN "not_found"
                                  ELSE TerminalReason(state))))
      /\ nonces' = NoncesAfter(req)
      /\ UNCHANGED <<vault, devices, enrollments, dataVars>>

-----------------------------------------------------------------------------
(* ServeHTTP's routes, the clock and the other vaults *)

Tick ==
  /\ AdvanceClock(MaxSec)
  /\ UNCHANGED <<eventVars, accountVars, dataVars, authVars>>

ServePublic ==
  \/ "vault_creation" \in Exercised /\ \E d \in Device : CreateVault(d)
  \/ /\ "enrollment_request" \in Exercised
     /\ \/ \E d \in Device : RequestEnrollment(d)
        \/ RejectPublicRequest("enrollment_request", "invalid_request")
  \/ /\ "invitation_creation" \in Exercised
     /\ \/ \E d \in Device : CreateInvitation(d)
        \/ \E reason \in {"invalid_request", "unsupported_version"} :
             RejectPublicRequest("invitation_creation", reason)

ServeAccount(req) ==
  \/ "enrollment_list" \in Exercised /\ ListEnrollments(req)
  \/ "device_list" \in Exercised /\ ListDevices(req)
  \/ \E d \in Device :
       \/ "enrollment_status" \in Exercised /\ GetEnrollment(req, d)
       \/ /\ "enrollment_approval" \in Exercised
          /\ \/ ApproveEnrollment(req, d)
             \/ \E decodes \in BOOLEAN :
                  RejectEnrollmentApproval(req, d, decodes)
       \/ /\ "device_revocation" \in Exercised
          /\ RevokeDevice(req, d) \/ RejectRevocation(req, d)

ServeInvitations(req) ==
  \/ "invitation_list" \in Exercised /\ ListInvitations(req)
  \/ \E d \in Device :
       \/ /\ "invitation_status" \in Exercised
          /\ GetInvitation(req, d) \/ RejectGetInvitation(req, d)
       \/ \E action \in {"approve", "reject", "cancel"} :
            /\ TransitionOperation[action] \in Exercised
            /\ \/ \E body \in Bodies :
                    \/ TransitionInvitation(req, d, action, body)
                    \/ FailInvitationAttempt(req, d, action, body)
               \/ RejectTransition(req, d, action)

ServeData(req) ==
  \/ "record_list" \in Exercised /\ ListRecords(req)
  \/ "object_list" \in Exercised /\ ListVaultObjects(req)
  \/ /\ "event_list" \in Exercised
     /\ \E valid \in BOOLEAN : ListAccessEvents(req, valid)
  \/ "object_read" \in Exercised /\ \E o \in Object : GetVaultObject(req, o)
  \/ \E expected \in 0..MaxRevision, valid \in BOOLEAN :
       \/ /\ "record_update" \in Exercised
          /\ \E r \in Record :
               \/ RejectRecord(req, r, expected, valid)
               \/ valid /\ \E b \in Blob : PutRecord(req, r, expected, b)
       \/ /\ "object_update" \in Exercised
          /\ \E o \in Object :
               \/ RejectVaultObject(req, o, expected, valid)
               \/ valid /\ \E b \in Blob : PutVaultObject(req, o, expected, b)
       \/ /\ "object_delete" \in Exercised
          /\ \E o \in Object :
               \/ RejectDeletion(req, o, expected, valid)
               \/ valid /\ DeleteVaultObject(req, o, expected)

Next ==
  \/ ServePublic
  \/ \E req \in Request :
       \/ \E op \in SignedOperations \cap Exercised : Deny(req, op)
       \/ ServeAccount(req)
       \/ ServeInvitations(req)
       \/ ServeData(req)
  \/ ServeOtherVault
  \/ Tick

Spec == Init /\ [][Next]_vars

-----------------------------------------------------------------------------
(* Properties *)

\* A request that has passed the nonce check, whether it ran or its device was
\* refused, never runs again: no instant exists at which its nonce row is
\* pruned and its timestamp is still inside authenticateDevice's window, not
\* even after its device is approved or revoked in between.
NoReplay == replayed = {}

\* A vault always keeps a device that can open it: revokeDevice's count and
\* its update cannot leave the vault with none, whoever revokes whom.
AlwaysActiveDevice == vault => Active # {}

\* The three membership tables agree: a device is a member exactly if it
\* founded the vault or its enrollment was approved, and an enrollment that
\* came with an invitation is approved exactly if the invitation was.  So an
\* invitation that was rejected, cancelled, exhausted or expired never made a
\* member, not through the legacy approveEnrollment either.
MembershipAgrees ==
  \A d \in Device :
    /\ enrollments[d] = "pending" => devices[d] = "none"
    /\ enrollments[d] = "approved" => devices[d] # "none"
    /\ invitations[d].state # "none" =>
         /\ enrollments[d] # "none"
         /\ enrollments[d] = "approved" <=> invitations[d].state = "approved"

\* How each invitation ended: within its lifetime unless it expired, through an
\* actor entitled to it, and with the attempt budget of failInvitationAttempt
\* spent exactly when it is exhausted.
InvitationEndsRightly ==
  \A d \in Device :
    LET inv == invitations[d]
    IN  /\ inv.state \in {"approved", "rejected", "cancelled",
                          "attempts_exhausted"}
             => inv.terminalAt \in 0..(inv.expiresAt - 1)
        /\ inv.state = "expired" =>
             inv.terminalAt >= inv.expiresAt /\ inv.actor = "server"
        /\ inv.state = "cancelled" => inv.actor = d
        /\ inv.state \in {"approved", "rejected"} =>
             inv.actor \in Device \ {d} /\ devices[inv.actor] # "none"
        /\ inv.state = "attempts_exhausted"
             <=> inv.failed = InvitationMaxAttempts

\* An invitation that has ended, and a device that is revoked, stay so: no
\* late, concurrent or repeated transition reopens or overwrites them.
EndsAreFinal ==
  [][\A d \in Device :
       /\ invitations[d].state \notin {"none", "pending"}
            => invitations'[d] = invitations[d]
       /\ devices[d] = "revoked" => devices'[d] = "revoked"]_vars

\* What changes the vault's data or its membership is a request of a device
\* that is active at that moment, and the same transaction leaves the verified
\* access event that names it.
ChangesAreActiveAndAudited ==
  [][vault /\ <<devices, records, objects>>' # <<devices, records, objects>> =>
       \E row \in events' :
         /\ row.seq = lastSequence'
         /\ row.event.verified
         /\ row.event.outcome = "succeeded"
         /\ row.event.identity \in Active]_vars

\* Requests that nobody signed cannot push verified history out: while only
\* unverified events are added, a verified row goes by age alone.
FloodKeepsVerified ==
  [][(\A row \in events' \ events : ~row.event.verified) =>
       \A row \in events \ events' : row.event.verified => Aged(row)]_vars
=============================================================================

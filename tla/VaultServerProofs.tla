------------------------- MODULE VaultServerProofs -------------------------
(***************************************************************************)
(* What holds of the vault service for every set of devices, nonces,       *)
(* timestamps, records and objects, every window, cap and bound:           *)
(* membership, the last active device, replay protection, the two tables   *)
(* as compare-and-set stores, and the access history and its pages.        *)
(***************************************************************************)
EXTENDS VaultStore, EventPager, FiniteSetTheorems, WellFoundedInduction, TLAPS

-----------------------------------------------------------------------------
(* Type correctness *)

\* An access event built from known values is a row's details.
LEMMA EventType ==
  ASSUME NEW id \in Device \cup {NoDevice}, NEW verified \in BOOLEAN,
         NEW target \in Device \cup {NoDevice}, NEW op \in Operations,
         NEW outcome \in Outcomes, NEW reason \in Reasons
  PROVE  Event(id, verified, target, op, outcome, reason) \in Details
  BY DEF Event, Details

\* insertAccessEvent keeps the event table well typed.
LEMMA InsertsType ==
  ASSUME EventsTypeOK, NEW list \in Seq(Details), InsertAccessEvents(list),
         UNCHANGED clockVars
  PROVE  EventsTypeOK'
<1>1. Len(list) \in Nat /\ DOMAIN list = 1..Len(list)
  OBVIOUS
<1>2. lastSequence' \in Nat /\ lastSequence' = lastSequence + Len(list)
  BY <1>1 DEF EventsTypeOK, InsertAccessEvents
<1>3. sec' = sec /\ frac' = frac
  BY DEF clockVars
<1>4. ASSUME NEW r \in events'
      PROVE  /\ r.seq \in 1..lastSequence'
             /\ r.sec \in Nat
             /\ r.frac \in 0..(FracPerSec - 1)
             /\ r.event \in Details
  <2>1. r \in events \cup {RowOf(list[i], lastSequence + i) : i \in 1..Len(list)}
    BY <1>4 DEF InsertAccessEvents, Prune
  <2>2. CASE r \in events
    BY <2>2, <1>1, <1>2 DEF EventsTypeOK
  <2>3. CASE r \in {RowOf(list[i], lastSequence + i) : i \in 1..Len(list)}
    <3>1. PICK i \in 1..Len(list) : r = RowOf(list[i], lastSequence + i)
      BY <2>3
    <3>2. list[i] \in Details
      BY <1>1
    <3>3. /\ r.seq = lastSequence + i /\ r.sec = sec /\ r.frac = frac
          /\ r.event = list[i]
      BY <3>1 DEF RowOf
    <3>4. lastSequence \in Nat /\ sec \in Nat /\ frac \in 0..(FracPerSec - 1)
      BY DEF EventsTypeOK
    <3> QED
      BY <1>1, <1>2, <3>2, <3>3, <3>4
  <2> QED
    BY <2>1, <2>2, <2>3
<1> QED
  BY <1>2, <1>3, <1>4 DEF EventsTypeOK

\* Adding one event, as most handlers do, keeps the event table well typed.
LEMMA InsertType ==
  ASSUME EventsTypeOK, NEW details \in Details, InsertAccessEvent(details),
         UNCHANGED clockVars
  PROVE  EventsTypeOK'
<1>1. <<details>> \in Seq(Details)
  OBVIOUS
<1> QED
  BY <1>1, InsertsType DEF InsertAccessEvent

\* A request that passed the nonce check leaves well-typed nonces and history.
LEMMA AuthType ==
  ASSUME TypeOK, NEW req \in Request, UNCHANGED clockVars,
         nonces' \subseteq NoncesAfter(req),
         spent' = spent \cup {KeyOf(req)},
         replayed' \in {replayed, replayed \cup {KeyOf(req)}}
  PROVE  /\ nonces' \subseteq [device : Device, nonce : Nonce, created : Nat]
         /\ spent' \subseteq Key
         /\ replayed' \subseteq Key
<1>1. KeyOf(req) \in Key
  BY DEF KeyOf, Key, Request
<1>2. [device |-> req.device, nonce |-> req.nonce, created |-> sec]
        \in [device : Device, nonce : Nonce, created : Nat]
  BY DEF Request, TypeOK, EventsTypeOK
<1>3. NoncesAfter(req) \subseteq [device : Device, nonce : Nonce, created : Nat]
  BY <1>2 DEF NoncesAfter, Unpruned, TypeOK
<1> QED
  BY <1>1, <1>3 DEF TypeOK

\* The same for a handler that authenticated its caller.
LEMMA AuthenticatedType ==
  ASSUME TypeOK, NEW req \in Request, NEW op, Authenticated(req, op),
         nonces' \subseteq NoncesAfter(req)
  PROVE  /\ nonces' \subseteq [device : Device, nonce : Nonce, created : Nat]
         /\ spent' \subseteq Key
         /\ replayed' \subseteq Key
<1>1. UNCHANGED clockVars /\ spent' = spent \cup {KeyOf(req)}
  BY DEF Authenticated
<1>2. replayed' \in {replayed, replayed \cup {KeyOf(req)}}
  BY DEF Authenticated
<1> QED
  BY <1>1, <1>2, AuthType

\* A handler that only reads (Answer) keeps every variable well typed.
LEMMA AnswerType ==
  ASSUME TypeOK, NEW req \in Request, NEW op, NEW details \in Details,
         Answer(req, op, details)
  PROVE  TypeOK'
<1>1. Authenticated(req, op) /\ nonces' = NoncesAfter(req)
  BY DEF Answer
<1>2. EventsTypeOK'
  BY <1>1, InsertType DEF Answer, Authenticated, TypeOK
<1>3. /\ nonces' \subseteq [device : Device, nonce : Nonce, created : Nat]
      /\ spent' \subseteq Key
      /\ replayed' \subseteq Key
  BY <1>1, AuthenticatedType
<1>4. UNCHANGED <<accountVars, dataVars>>
  BY DEF Answer
<1> QED
  BY <1>2, <1>3, <1>4 DEF TypeOK, accountVars, dataVars

\* The events that authenticated handlers write.
LEMMA HandlerEvents ==
  ASSUME NEW req \in Request, NEW op \in Operations,
         NEW target \in Device \cup {NoDevice}, NEW reason \in Reasons
  PROVE  /\ Succeeded(req, op, target) \in Details
         /\ Rejected(req, op, target, reason) \in Details
         /\ Event(req.device, TRUE, target, op, "denied", reason) \in Details
<1>1. req.device \in Device \cup {NoDevice}
  BY DEF Request
<1>2. {"succeeded", "rejected", "denied"} \subseteq Outcomes /\ "none" \in Reasons
  BY DEF Outcomes, Reasons
<1>3. Succeeded(req, op, target) \in Details
  BY <1>1, <1>2, EventType DEF Succeeded
<1>4. Rejected(req, op, target, reason) \in Details
  BY <1>1, <1>2, EventType DEF Rejected
<1>5. Event(req.device, TRUE, target, op, "denied", reason) \in Details
  BY <1>1, <1>2, EventType
<1> QED
  BY <1>3, <1>4, <1>5

\* createVault, requestEnrollment, createInvitation and the rejections of
\* unsigned requests keep every variable well typed.
LEMMA PublicType == TypeOK /\ ServePublic => TypeOK'
<1> SUFFICES ASSUME TypeOK, ServePublic PROVE TypeOK'
  OBVIOUS
<1> USE DEF TypeOK, accountVars, dataVars, authVars
<1>1. ASSUME NEW d \in Device, CreateVault(d) PROVE TypeOK'
  <2>1. EventsTypeOK'
    BY <1>1 DEF CreateVault, EventsTypeOK, clockVars, eventVars
  <2> QED
    BY <1>1, <2>1 DEF CreateVault
<1>2. ASSUME NEW d \in Device, RequestEnrollment(d) PROVE TypeOK'
  <2>1. Event(NoDevice, FALSE, d, "enrollment_request", "succeeded", "none")
          \in Details
    BY DEF Event, Details, Operations, Outcomes, Reasons
  <2>2. EventsTypeOK'
    BY <1>2, <2>1, InsertType DEF RequestEnrollment
  <2> QED
    BY <1>2, <2>2 DEF RequestEnrollment
<1>3. ASSUME NEW op \in {"enrollment_request", "invitation_creation"},
             NEW reason \in {"invalid_request", "unsupported_version"},
             RejectPublicRequest(op, reason)
      PROVE  TypeOK'
  <2>1. Event(NoDevice, FALSE, NoDevice, op, "rejected", reason) \in Details
    BY DEF Event, Details, Operations, Outcomes, Reasons
  <2>2. EventsTypeOK'
    BY <1>3, <2>1, InsertType DEF RejectPublicRequest
  <2> QED
    BY <1>3, <2>2 DEF RejectPublicRequest
<1>4. ASSUME NEW d \in Device, CreateInvitation(d) PROVE TypeOK'
  <2>1. Event(NoDevice, FALSE, d, "invitation_creation", "succeeded", "none")
          \in Details
    BY DEF Event, Details, Operations, Outcomes, Reasons
  <2>2. EventsTypeOK'
    BY <1>4, <2>1, InsertType DEF CreateInvitation
  <2>3. [state |-> "pending", expiresAt |-> sec + InvitationLifetime,
         failed |-> 0, terminalAt |-> -1, actor |-> NoDevice] \in Invitation
    BY VaultConstants DEF Invitation, InvitationStates, EventsTypeOK
  <2> QED
    BY <1>4, <2>2, <2>3 DEF CreateInvitation
<1> QED
  BY <1>1, <1>2, <1>3, <1>4 DEF ServePublic

\* A request that authenticateDevice refuses keeps every variable well typed.
LEMMA DenyType ==
  ASSUME TypeOK, NEW req \in Request, NEW op \in SignedOperations, Deny(req, op)
  PROVE  TypeOK'
<1> USE DEF TypeOK
<1>0. op \in Operations /\ req.device \in Device
  BY DEF SignedOperations, Request
<1>1. UNCHANGED <<clockVars, accountVars, dataVars>>
  BY DEF Deny
<1>2. CASE DenyAtGate(req, op)
  <2> DEFINE reason == GateReason(req)
             details == Event(IF reason = "unknown_device" THEN NoDevice
                                ELSE req.device,
                              reason \in {"stale_timestamp", "replay"},
                              NoDevice, op, "denied", reason)
  <2>1. reason \in Reasons
    BY DEF GateReason, Reasons
  <2>2. details \in Details
    BY <1>0, <2>1 DEF Event, Details, Outcomes
  <2>3. InsertAccessEvent(details) /\ UNCHANGED authVars
    BY <1>2 DEF DenyAtGate
  <2>4. EventsTypeOK'
    <3> HIDE DEF details
    <3> QED BY <1>1, <2>2, <2>3, InsertType
  <2> QED
    BY <1>1, <2>3, <2>4 DEF accountVars, dataVars, authVars
<1>3. CASE DenyAuthorization(req, op)
  <2> DEFINE reason == AuthorizationReason(req.device, op)
  <2>1. reason \in Reasons
    BY DEF AuthorizationReason, Reasons
  <2>2. Event(req.device, TRUE, NoDevice, op, "denied", reason) \in Details
    BY <1>0, <2>1, HandlerEvents
  <2>3. EventsTypeOK'
    BY <1>1, <1>3, <2>2, InsertType DEF DenyAuthorization
  <2>4. /\ nonces' \subseteq [device : Device, nonce : Nonce, created : Nat]
        /\ spent' \subseteq Key
        /\ replayed' \subseteq Key
    BY <1>1, <1>3, AuthType DEF DenyAuthorization
  <2> QED
    BY <1>1, <2>3, <2>4 DEF accountVars, dataVars
<1> QED
  BY <1>2, <1>3 DEF Deny

\* The enrollment and device handlers keep every variable well typed.
LEMMA AccountType ==
  ASSUME TypeOK, NEW req \in Request, ServeAccount(req)
  PROVE  TypeOK'
<1>0. /\ NoDevice \in Device \cup {NoDevice} /\ Device \subseteq Device \cup {NoDevice}
      /\ {"enrollment_list", "device_list", "enrollment_status",
          "enrollment_approval", "device_revocation"} \subseteq Operations
      /\ {"not_found", "invalid_request"} \subseteq Reasons
  BY DEF Operations, Reasons
<1>1. ASSUME ListEnrollments(req) \/ ListDevices(req) PROVE TypeOK'
  BY <1>0, <1>1, HandlerEvents, AnswerType DEF ListEnrollments, ListDevices
<1>2. ASSUME NEW d \in Device, GetEnrollment(req, d) PROVE TypeOK'
  BY <1>0, <1>2, HandlerEvents, AnswerType DEF GetEnrollment
<1>3. ASSUME NEW d \in Device, ApproveEnrollment(req, d) PROVE TypeOK'
  <2>1. EventsTypeOK'
    BY <1>0, <1>3, HandlerEvents, InsertType
    DEF ApproveEnrollment, Authenticated, TypeOK
  <2>2. /\ nonces' \subseteq [device : Device, nonce : Nonce, created : Nat]
        /\ spent' \subseteq Key
        /\ replayed' \subseteq Key
    BY <1>3, AuthenticatedType DEF ApproveEnrollment
  <2> QED
    BY <1>3, <2>1, <2>2 DEF ApproveEnrollment, AdmitDevice, TypeOK, dataVars
<1>4. ASSUME NEW d \in Device, NEW decodes \in BOOLEAN,
             RejectEnrollmentApproval(req, d, decodes)
      PROVE  TypeOK'
  <2>1. EnrollmentApprovalReason(d, decodes) \in Reasons
    BY DEF EnrollmentApprovalReason, Reasons
  <2> QED
    BY <1>0, <1>4, <2>1, HandlerEvents, AnswerType DEF RejectEnrollmentApproval
<1>5. ASSUME NEW d \in Device, RevokeDevice(req, d) PROVE TypeOK'
  <2>1. EventsTypeOK'
    BY <1>0, <1>5, HandlerEvents, InsertType
    DEF RevokeDevice, Authenticated, TypeOK
  <2>2. /\ nonces' \subseteq [device : Device, nonce : Nonce, created : Nat]
        /\ spent' \subseteq Key
        /\ replayed' \subseteq Key
    BY <1>5, AuthenticatedType DEF RevokeDevice
  <2> QED
    BY <1>5, <2>1, <2>2 DEF RevokeDevice, TypeOK, dataVars
<1>6. ASSUME NEW d \in Device, RejectRevocation(req, d) PROVE TypeOK'
  <2>1. RevocationReason(d) \in Reasons
    BY DEF RevocationReason, Reasons
  <2> QED
    BY <1>0, <1>6, <2>1, HandlerEvents, AnswerType DEF RejectRevocation
<1> QED
  BY <1>1, <1>2, <1>3, <1>4, <1>5, <1>6 DEF ServeAccount

\* A pending invitation has an attempt left: what the type of failed rests on.
PendingHasBudget ==
  \A d \in Device :
    invitations[d].state = "pending" => invitations[d].failed < InvitationMaxAttempts

\* expireInvitation leaves a well-typed row and adds well-typed events.
LEMMA ExpiryType ==
  ASSUME TypeOK, NEW d \in Device
  PROVE  /\ AfterExpiry(invitations[d]) \in Invitation
         /\ ExpiryEvent(d) \in Details
         /\ ExpiryEvents(d) \in Seq(Details)
<1>1. ExpiryEvent(d) \in Details
  BY DEF ExpiryEvent, Event, Details, Operations, Outcomes, Reasons
<1>2. AfterExpiry(invitations[d]) \in Invitation
  BY DEF AfterExpiry, Ended, Invitation, InvitationStates, TypeOK, EventsTypeOK
<1> QED
  BY <1>1, <1>2 DEF ExpiryEvents

\* The invitation handlers keep every variable well typed.  The attempt counter
\* stays within its bound because a pending invitation has budget left.
LEMMA InvitationsType ==
  ASSUME TypeOK, PendingHasBudget, NEW req \in Request, ServeInvitations(req)
  PROVE  TypeOK'
<1>0. /\ NoDevice \in Device \cup {NoDevice} /\ req.device \in Device
      /\ {"invitation_list", "invitation_status"} \subseteq Operations
      /\ \A action \in {"approve", "reject", "cancel"} :
           TransitionOperation[action] \in Operations
      /\ \A action \in {"approve", "reject", "cancel"} :
           TransitionState[action] \in InvitationStates
  BY DEF Operations, TransitionOperation, TransitionState, InvitationStates,
         Request
<1>a. ASSUME NEW op, Authenticated(req, op), nonces' = NoncesAfter(req),
             UNCHANGED <<vault, dataVars>>, EventsTypeOK',
             devices' \in [Device -> {"none", "active", "revoked"}],
             enrollments' \in [Device -> {"none", "pending", "approved"}],
             invitations' \in [Device -> Invitation]
      PROVE  TypeOK'
  <2>1. /\ nonces' \subseteq [device : Device, nonce : Nonce, created : Nat]
        /\ spent' \subseteq Key
        /\ replayed' \subseteq Key
    BY <1>a, AuthenticatedType
  <2> QED
    BY <1>a, <2>1 DEF TypeOK, dataVars
<1>1. ASSUME ListInvitations(req) PROVE TypeOK'
  <2> DEFINE lapsed == {d \in Device : Lapsed(invitations[d])}
             n == Cardinality(lapsed)
  <2>1. PICK order \in Orders(lapsed) :
          InsertAccessEvents(
            Append([i \in 1..n |-> ExpiryEvent(order[i])],
                   Succeeded(req, "invitation_list", NoDevice)))
    BY <1>1 DEF ListInvitations
  <2>2. IsFiniteSet(lapsed) /\ n \in Nat
    BY VaultConstants, FS_Subset, FS_CardinalityType
  <2>3. order \in [1..n -> Device]
    BY DEF Orders
  <2>4. [i \in 1..n |-> ExpiryEvent(order[i])] \in Seq(Details)
    BY <2>2, <2>3, ExpiryType
  <2>5. Succeeded(req, "invitation_list", NoDevice) \in Details
    BY <1>0, HandlerEvents DEF Reasons
  <2>6. Append([i \in 1..n |-> ExpiryEvent(order[i])],
               Succeeded(req, "invitation_list", NoDevice)) \in Seq(Details)
    BY <2>4, <2>5
  <2>7. EventsTypeOK'
    BY <1>1, <2>1, <2>6, InsertsType DEF ListInvitations, Authenticated, TypeOK
  <2>8. invitations' \in [Device -> Invitation]
    BY <1>1, ExpiryType DEF ListInvitations
  <2> QED
    BY <1>1, <1>a, <2>7, <2>8 DEF ListInvitations, TypeOK
<1>2. ASSUME NEW d \in Device, GetInvitation(req, d) PROVE TypeOK'
  <2>1. Succeeded(req, "invitation_status", d) \in Details
    BY <1>0, HandlerEvents DEF Reasons
  <2>2. Append(ExpiryEvents(d), Succeeded(req, "invitation_status", d))
          \in Seq(Details)
    BY <2>1, ExpiryType
  <2>3. EventsTypeOK'
    BY <1>2, <2>2, InsertsType DEF GetInvitation, Authenticated, TypeOK
  <2>4. invitations' \in [Device -> Invitation]
    BY <1>2, ExpiryType DEF GetInvitation, TypeOK
  <2> QED
    BY <1>2, <1>a, <2>3, <2>4 DEF GetInvitation, TypeOK
<1>3. ASSUME NEW d \in Device, RejectGetInvitation(req, d) PROVE TypeOK'
  <2>1. GetInvitationReason(req, d) \in Reasons
    BY DEF GetInvitationReason, Reasons
  <2> QED
    BY <1>0, <1>3, <2>1, HandlerEvents, AnswerType DEF RejectGetInvitation
<1>4. ASSUME NEW d \in Device, NEW action \in {"approve", "reject", "cancel"},
             NEW body \in Bodies, TransitionInvitation(req, d, action, body)
      PROVE  TypeOK'
  <2>1. Succeeded(req, TransitionOperation[action], d) \in Details
    BY <1>0, HandlerEvents DEF Reasons
  <2>2. EventsTypeOK'
    BY <1>4, <2>1, InsertType DEF TransitionInvitation, Authenticated, TypeOK
  <2>3. Ended(invitations[d], TransitionState[action], req.device) \in Invitation
    BY <1>0 DEF Ended, Invitation, TypeOK, EventsTypeOK
  <2>4. invitations' \in [Device -> Invitation]
    BY <1>4, <2>3 DEF TransitionInvitation, TypeOK
  <2>5. /\ devices' \in [Device -> {"none", "active", "revoked"}]
        /\ enrollments' \in [Device -> {"none", "pending", "approved"}]
    BY <1>4 DEF TransitionInvitation, AdmitDevice, TypeOK
  <2> QED
    BY <1>4, <1>a, <2>2, <2>4, <2>5 DEF TransitionInvitation
<1>5. ASSUME NEW d \in Device, NEW action \in {"approve", "reject", "cancel"},
             NEW body \in Bodies, FailInvitationAttempt(req, d, action, body)
      PROVE  TypeOK'
  <2> DEFINE failed == invitations[d].failed + 1
             exhausted == failed >= InvitationMaxAttempts
             charged == [invitations[d] EXCEPT !.failed = failed]
             reason == IF exhausted THEN "attempt_exhaustion"
                                    ELSE FailureReason(req, d, action, body)
  <2>1. reason \in Reasons
    BY DEF FailureReason, Reasons
  <2>2. Rejected(req, TransitionOperation[action], d, reason) \in Details
    BY <1>0, <2>1, HandlerEvents
  <2>3. EventsTypeOK'
    BY <1>5, <2>2, InsertType DEF FailInvitationAttempt, Exhausted, Authenticated, TypeOK
  <2>4. invitations[d].state = "pending"
    BY <1>5 DEF FailInvitationAttempt, Exhausted, AfterExpiry, Ended, TypeOK, Invitation
  <2>5. failed \in 0..InvitationMaxAttempts
    BY <2>4, VaultConstants DEF PendingHasBudget, TypeOK, Invitation
  <2>6. charged \in Invitation
    BY <2>5 DEF TypeOK, Invitation
  <2>7. Ended(charged, "attempts_exhausted", req.device) \in Invitation
    BY <1>0, <2>6 DEF Ended, Invitation, InvitationStates, TypeOK, EventsTypeOK
  <2>8. invitations' \in [Device -> Invitation]
    BY <1>5, <2>6, <2>7 DEF FailInvitationAttempt, Exhausted, TypeOK
  <2> QED
    BY <1>5, <1>a, <2>3, <2>8 DEF FailInvitationAttempt, TypeOK
<1>6. ASSUME NEW d \in Device, NEW action \in {"approve", "reject", "cancel"},
             RejectTransition(req, d, action)
      PROVE  TypeOK'
  <2> DEFINE state == AfterExpiry(invitations[d]).state
             reason == IF state = "none" THEN "not_found"
                                         ELSE TerminalReason(state)
  <2>1. reason \in Reasons
    BY DEF TerminalReason, Reasons
  <2>2. Rejected(req, TransitionOperation[action], d, reason) \in Details
    BY <1>0, <2>1, HandlerEvents
  <2>3. Append(ExpiryEvents(d),
               Rejected(req, TransitionOperation[action], d, reason))
          \in Seq(Details)
    BY <2>2, ExpiryType
  <2>4. EventsTypeOK'
    BY <1>6, <2>3, InsertsType DEF RejectTransition, Authenticated, TypeOK
  <2>5. invitations' \in [Device -> Invitation]
    BY <1>6, ExpiryType DEF RejectTransition, TypeOK
  <2> QED
    BY <1>6, <1>a, <2>4, <2>5 DEF RejectTransition, TypeOK
<1> QED
  BY <1>1, <1>2, <1>3, <1>4, <1>5, <1>6 DEF ServeInvitations

\* The record, object and event handlers keep every variable well typed.
LEMMA DataType ==
  ASSUME TypeOK, NEW req \in Request, ServeData(req)
  PROVE  TypeOK'
<1>0. /\ NoDevice \in Device \cup {NoDevice}
      /\ {"record_list", "record_update", "object_list", "object_read",
          "object_update", "object_delete", "event_list"} \subseteq Operations
      /\ {"none", "not_found", "invalid_request", "revision_conflict"}
           \subseteq Reasons
  BY DEF Operations, Reasons
<1>a. ASSUME NEW op \in Operations, Authenticated(req, op),
             nonces' = NoncesAfter(req), UNCHANGED accountVars,
             InsertAccessEvent(Succeeded(req, op, NoDevice)),
             records' \in [Record -> Row], objects' \in [Object -> Row]
      PROVE  TypeOK'
  <2>1. EventsTypeOK'
    BY <1>0, <1>a, HandlerEvents, InsertType DEF Authenticated, TypeOK
  <2>2. /\ nonces' \subseteq [device : Device, nonce : Nonce, created : Nat]
        /\ spent' \subseteq Key
        /\ replayed' \subseteq Key
    BY <1>a, AuthenticatedType
  <2> QED
    BY <1>a, <2>1, <2>2 DEF TypeOK, accountVars
<1>1. ASSUME ListRecords(req) \/ ListVaultObjects(req) PROVE TypeOK'
  BY <1>0, <1>1, HandlerEvents, AnswerType DEF ListRecords, ListVaultObjects
<1>2. ASSUME NEW valid \in BOOLEAN, ListAccessEvents(req, valid) PROVE TypeOK'
  BY <1>0, <1>2, HandlerEvents, AnswerType DEF ListAccessEvents
<1>3. ASSUME NEW o \in Object, GetVaultObject(req, o) PROVE TypeOK'
  BY <1>0, <1>3, HandlerEvents, AnswerType DEF GetVaultObject
<1>4. ASSUME NEW expected \in 0..MaxRevision, NEW valid \in BOOLEAN,
             NEW r \in Record, RejectRecord(req, r, expected, valid)
      PROVE  TypeOK'
  BY <1>0, <1>4, HandlerEvents, AnswerType DEF RejectRecord
<1>5. ASSUME NEW expected \in 0..MaxRevision, NEW valid \in BOOLEAN,
             NEW o \in Object, RejectVaultObject(req, o, expected, valid)
      PROVE  TypeOK'
  BY <1>0, <1>5, HandlerEvents, AnswerType DEF RejectVaultObject
<1>6. ASSUME NEW expected \in 0..MaxRevision, NEW valid \in BOOLEAN,
             NEW o \in Object, RejectDeletion(req, o, expected, valid)
      PROVE  TypeOK'
  <2>1. DeletionReason(o, expected, valid) \in Reasons
    BY <1>0 DEF DeletionReason
  <2> QED
    BY <1>0, <1>6, <2>1, HandlerEvents, AnswerType DEF RejectDeletion
<1>7. ASSUME NEW expected \in 0..MaxRevision, NEW r \in Record, NEW b \in Blob,
             PutRecord(req, r, expected, b)
      PROVE  TypeOK'
  <2>1. records' \in [Record -> Row]
    BY <1>7 DEF PutRecord, NextRow, Row, TypeOK
  <2> QED
    BY <1>0, <1>7, <1>a, <2>1 DEF PutRecord, TypeOK
<1>8. ASSUME NEW expected \in 0..MaxRevision, NEW o \in Object, NEW b \in Blob,
             PutVaultObject(req, o, expected, b)
      PROVE  TypeOK'
  <2>1. objects' \in [Object -> Row]
    BY <1>8 DEF PutVaultObject, NextRow, Row, TypeOK
  <2> QED
    BY <1>0, <1>8, <1>a, <2>1 DEF PutVaultObject, TypeOK
<1>9. ASSUME NEW expected \in 0..MaxRevision, NEW o \in Object,
             DeleteVaultObject(req, o, expected)
      PROVE  TypeOK'
  <2>1. objects' \in [Object -> Row]
    BY <1>9 DEF DeleteVaultObject, NoRow, Row, TypeOK
  <2> QED
    BY <1>0, <1>9, <1>a, <2>1 DEF DeleteVaultObject, TypeOK
<1> QED
  BY <1>1, <1>2, <1>3, <1>4, <1>5, <1>6, <1>7, <1>8, <1>9 DEF ServeData

\* The clock keeps every variable well typed.
LEMMA TickType == TypeOK /\ Tick => TypeOK'
  BY EventConstants
  DEF TypeOK, Tick, AdvanceClock, EventsTypeOK, clockVars, eventVars,
      accountVars, dataVars, authVars

\* Serving another vault keeps every variable well typed.
LEMMA OtherVaultType == TypeOK /\ ServeOtherVault => TypeOK'
  BY DEF TypeOK, ServeOtherVault, Unpruned, EventsTypeOK, clockVars, eventVars,
         accountVars, dataVars

\* Every step keeps every variable well typed, provided pending invitations
\* have attempts left.
LEMMA StepType == TypeOK /\ PendingHasBudget /\ Next => TypeOK'
<1> SUFFICES ASSUME TypeOK, PendingHasBudget, Next PROVE TypeOK'
  OBVIOUS
<1> QED
  BY PublicType, DenyType, AccountType, InvitationsType, DataType, TickType,
     OtherVaultType DEF Next

\* A step that changes nothing keeps every variable well typed.
LEMMA StutterType == TypeOK /\ UNCHANGED vars => TypeOK'
  BY DEF TypeOK, EventsTypeOK, vars, clockVars, eventVars, accountVars, dataVars,
         authVars

\* The empty database is well typed.
LEMMA InitType == Init => TypeOK
<1> SUFFICES ASSUME Init PROVE TypeOK
  OBVIOUS
<1>1. EventsTypeOK
  BY EventConstants DEF Init, EventsInit, EventsTypeOK
<1>2. NoInvitation \in Invitation
  BY VaultConstants DEF NoInvitation, Invitation, InvitationStates
<1>3. NoRow \in Row
  BY DEF NoRow, Row
<1> QED
  BY <1>1, <1>2, <1>3 DEF Init, TypeOK

-----------------------------------------------------------------------------
(* Membership: devices, enrollments and invitations *)

\* The steps that may change the membership tables; every other step leaves
\* them alone.
LEMMA AccountStep ==
  ASSUME Next
  PROVE  \/ UNCHANGED accountVars
         \/ \E d \in Device : \/ CreateVault(d)
                              \/ RequestEnrollment(d)
                              \/ CreateInvitation(d)
         \/ \E req \in Request, d \in Device :
              \/ ApproveEnrollment(req, d)
              \/ RevokeDevice(req, d)
              \/ GetInvitation(req, d)
              \/ \E action \in {"approve", "reject", "cancel"} :
                   \/ RejectTransition(req, d, action)
                   \/ \E body \in Bodies :
                        \/ TransitionInvitation(req, d, action, body)
                        \/ FailInvitationAttempt(req, d, action, body)
         \/ \E req \in Request : ListInvitations(req)
<1>1. ASSUME ServePublic
      PROVE  \/ UNCHANGED accountVars
             \/ \E d \in Device : \/ CreateVault(d)
                                  \/ RequestEnrollment(d)
                                  \/ CreateInvitation(d)
  BY <1>1 DEF ServePublic, RejectPublicRequest
<1>2. ASSUME NEW req \in Request, NEW op, Deny(req, op)
      PROVE  UNCHANGED accountVars
  BY <1>2 DEF Deny
<1>3. ASSUME NEW req \in Request, ServeAccount(req)
      PROVE  \/ UNCHANGED accountVars
             \/ \E d \in Device : ApproveEnrollment(req, d) \/ RevokeDevice(req, d)
  BY <1>3 DEF ServeAccount, ListEnrollments, ListDevices, GetEnrollment,
              RejectEnrollmentApproval, RejectRevocation, Answer
<1>4. ASSUME NEW req \in Request, ServeInvitations(req)
      PROVE  \/ UNCHANGED accountVars
             \/ ListInvitations(req)
             \/ \E d \in Device :
                  \/ GetInvitation(req, d)
                  \/ \E action \in {"approve", "reject", "cancel"} :
                       \/ RejectTransition(req, d, action)
                       \/ \E body \in Bodies :
                            \/ TransitionInvitation(req, d, action, body)
                            \/ FailInvitationAttempt(req, d, action, body)
  BY <1>4 DEF ServeInvitations, RejectGetInvitation, Answer
<1>5. ASSUME NEW req \in Request, ServeData(req)
      PROVE  UNCHANGED accountVars
  BY <1>5 DEF ServeData, ListRecords, ListVaultObjects, ListAccessEvents,
              GetVaultObject, RejectRecord, RejectVaultObject, RejectDeletion,
              PutRecord, PutVaultObject, DeleteVaultObject, Answer
<1>6. ServeOtherVault \/ Tick => UNCHANGED accountVars
  BY DEF ServeOtherVault, Tick
<1> QED
  BY <1>1, <1>2, <1>3, <1>4, <1>5, <1>6 DEF Next

\* The inductive invariant of the membership tables.
MembershipInv ==
  /\ TypeOK
  /\ PendingHasBudget
  /\ MembershipAgrees
  /\ InvitationEndsRightly

MembershipOf(d) ==
  /\ invitations[d].state = "pending"
       => invitations[d].failed < InvitationMaxAttempts
  /\ enrollments[d] = "pending" => devices[d] = "none"
  /\ enrollments[d] = "approved" => devices[d] # "none"
  /\ invitations[d].state # "none" =>
       /\ enrollments[d] # "none"
       /\ enrollments[d] = "approved" <=> invitations[d].state = "approved"

EndOf(d) ==
  LET inv == invitations[d]
  IN  /\ inv.state \in {"approved", "rejected", "cancelled",
                        "attempts_exhausted"}
           => inv.terminalAt \in 0..(inv.expiresAt - 1)
      /\ inv.state = "expired" =>
           inv.terminalAt >= inv.expiresAt /\ inv.actor = "server"
      /\ inv.state = "cancelled" => inv.actor = d
      /\ inv.state \in {"approved", "rejected"} =>
           inv.actor \in Device \ {d} /\ devices[inv.actor] # "none"
      /\ inv.state = "attempts_exhausted"
           <=> inv.failed = InvitationMaxAttempts

\* The invariant, device by device.
LEMMA MembershipByDevice ==
  MembershipInv <=> TypeOK /\ \A d \in Device : MembershipOf(d) /\ EndOf(d)
  BY DEF MembershipInv, PendingHasBudget, MembershipAgrees,
         InvitationEndsRightly, MembershipOf, EndOf

\* A row that expireInvitation has passed over keeps to the invariant.
LEMMA ExpiryKeeps ==
  ASSUME MembershipInv, NEW d \in Device,
         invitations'[d] \in {invitations[d], AfterExpiry(invitations[d])},
         UNCHANGED <<devices, enrollments>>
  PROVE  MembershipOf(d)' /\ EndOf(d)'
<1>1. MembershipOf(d) /\ EndOf(d) /\ TypeOK
  BY MembershipByDevice
<1>2. invitations[d] \in Invitation /\ sec \in Nat
  BY <1>1 DEF TypeOK, EventsTypeOK
<1>3. CASE invitations'[d] = invitations[d]
  BY <1>1, <1>3 DEF MembershipOf, EndOf
<1>4. CASE invitations'[d] # invitations[d]
  <2>1. Lapsed(invitations[d]) /\ invitations'[d] = Ended(invitations[d], "expired", "server")
    BY <1>4 DEF AfterExpiry
  <2>2. /\ invitations'[d].state = "expired" /\ invitations'[d].actor = "server"
        /\ invitations'[d].terminalAt = sec
        /\ invitations'[d].expiresAt = invitations[d].expiresAt
        /\ invitations'[d].failed = invitations[d].failed
    BY <1>2, <2>1 DEF Ended, Invitation
  <2>3. invitations[d].state = "pending" /\ sec >= invitations[d].expiresAt
    BY <2>1 DEF Lapsed
  <2>4. MembershipOf(d)'
    BY <1>1, <2>2, <2>3 DEF MembershipOf
  <2>5. EndOf(d)'
    BY <1>1, <1>2, <2>2, <2>3, VaultConstants DEF MembershipOf, EndOf, Invitation
  <2> QED
    BY <2>4, <2>5
<1> QED
  BY <1>3, <1>4

\* A device whose own rows a step leaves alone, whoever else joins or leaves.
LEMMA BystanderKeeps ==
  ASSUME MembershipInv, NEW e \in Device,
         invitations'[e] = invitations[e], enrollments'[e] = enrollments[e],
         devices'[e] = "none" <=> devices[e] = "none",
         \A x \in Device : devices[x] # "none" => devices'[x] # "none"
  PROVE  MembershipOf(e)' /\ EndOf(e)'
<1>1. MembershipOf(e) /\ EndOf(e)
  BY MembershipByDevice
<1>2. MembershipOf(e)'
  BY <1>1 DEF MembershipOf
<1> QED
  BY <1>1, <1>2 DEF EndOf

\* Every handler preserves the membership invariant: one case per action that
\* changes devices, enrollments or invitations.
LEMMA MembershipStep == MembershipInv /\ [Next]_vars => MembershipInv'
<1> SUFFICES ASSUME MembershipInv, [Next]_vars PROVE MembershipInv'
  OBVIOUS
<1> USE VaultConstants
<1>0. TypeOK /\ PendingHasBudget /\ TypeOK'
  BY StepType, StutterType DEF MembershipInv
<1>a. SUFFICES ASSUME NEW e \in Device PROVE MembershipOf(e)' /\ EndOf(e)'
  <2>1. (MembershipInv <=> TypeOK /\ \A d \in Device : MembershipOf(d) /\ EndOf(d))'
    BY MembershipByDevice, PTL
  <2> QED
    BY <1>0, <2>1
<1>b. MembershipOf(e) /\ EndOf(e)
  BY MembershipByDevice
<1>c. /\ sec \in Nat /\ invitations[e] \in Invitation
      /\ devices \in [Device -> {"none", "active", "revoked"}]
      /\ enrollments \in [Device -> {"none", "pending", "approved"}]
      /\ invitations \in [Device -> Invitation]
  BY <1>0 DEF TypeOK, EventsTypeOK
<1>1. CASE UNCHANGED accountVars
  BY <1>1, BystanderKeeps DEF accountVars
<1>2. ASSUME NEW d \in Device, CreateVault(d)
      PROVE  MembershipOf(e)' /\ EndOf(e)'
  <2>1. CASE e # d
    BY <1>2, <1>c, <2>1, BystanderKeeps DEF CreateVault
  <2>2. CASE e = d
    BY <1>2, <1>b, <1>c, <2>2
    DEF CreateVault, Known, MembershipOf, EndOf, Invitation
  <2> QED
    BY <2>1, <2>2
<1>3. ASSUME NEW d \in Device, RequestEnrollment(d)
      PROVE  MembershipOf(e)' /\ EndOf(e)'
  <2>1. CASE e # d
    BY <1>3, <1>c, <2>1, BystanderKeeps DEF RequestEnrollment
  <2>2. CASE e = d
    BY <1>3, <1>b, <1>c, <2>2
    DEF RequestEnrollment, Known, MembershipOf, EndOf, Invitation
  <2> QED
    BY <2>1, <2>2
<1>4. ASSUME NEW d \in Device, CreateInvitation(d)
      PROVE  MembershipOf(e)' /\ EndOf(e)'
  <2>1. CASE e # d
    BY <1>4, <1>c, <2>1, BystanderKeeps DEF CreateInvitation
  <2>2. CASE e = d
    BY <1>4, <1>b, <1>c, <2>2
    DEF CreateInvitation, Known, MembershipOf, EndOf, Invitation
  <2> QED
    BY <2>1, <2>2
<1>5. ASSUME NEW req \in Request, NEW d \in Device, ApproveEnrollment(req, d)
      PROVE  MembershipOf(e)' /\ EndOf(e)'
  <2>1. CASE e # d
    BY <1>5, <1>c, <2>1, BystanderKeeps DEF ApproveEnrollment, AdmitDevice
  <2>2. CASE e = d
    <3>1. invitations[d].state = "none" /\ invitations' = invitations
      BY <1>5 DEF ApproveEnrollment, EnrollmentApprovalReason
    <3> QED
      BY <1>5, <1>b, <1>c, <2>2, <3>1
      DEF ApproveEnrollment, AdmitDevice, MembershipOf, EndOf, Invitation
  <2> QED
    BY <2>1, <2>2
<1>6. ASSUME NEW req \in Request, NEW d \in Device, RevokeDevice(req, d)
      PROVE  MembershipOf(e)' /\ EndOf(e)'
  <2>1. devices[d] = "active"
    BY <1>6, <1>c DEF RevokeDevice, RevocationReason
  <2> QED
    BY <1>6, <1>c, <2>1, BystanderKeeps DEF RevokeDevice
<1>7. ASSUME NEW req \in Request, NEW d \in Device,
             \/ GetInvitation(req, d)
             \/ \E action \in {"approve", "reject", "cancel"} :
                  RejectTransition(req, d, action)
      PROVE  MembershipOf(e)' /\ EndOf(e)'
  BY <1>7, <1>c, ExpiryKeeps DEF GetInvitation, RejectTransition
<1>8. ASSUME NEW req \in Request, ListInvitations(req)
      PROVE  MembershipOf(e)' /\ EndOf(e)'
  BY <1>8, <1>c, ExpiryKeeps DEF ListInvitations
<1>9. ASSUME NEW req \in Request, NEW d \in Device,
             NEW action \in {"approve", "reject", "cancel"}, NEW body \in Bodies,
             TransitionInvitation(req, d, action, body)
      PROVE  MembershipOf(e)' /\ EndOf(e)'
  <2>1. CASE e # d
    BY <1>9, <1>c, <2>1, BystanderKeeps DEF TransitionInvitation, AdmitDevice
  <2>2. CASE e = d
    <3> DEFINE inv == invitations[d]
               next == TransitionState[action]
    <3>1. inv.state = "pending" /\ sec < inv.expiresAt
      BY <1>9, <1>c
      DEF TransitionInvitation, AfterExpiry, Lapsed, Ended, Invitation
    <3>2. /\ invitations'[d].state = next
          /\ invitations'[d].actor = req.device
          /\ invitations'[d].terminalAt = sec
          /\ invitations'[d].expiresAt = inv.expiresAt
          /\ invitations'[d].failed = inv.failed
      <4>1. invitations'[d] = Ended(inv, next, req.device)
        BY <1>9, <1>c DEF TransitionInvitation
      <4>2. inv \in Invitation
        BY <1>c
      <4> QED
        BY <4>1, <4>2 DEF Ended, Invitation
    <3>3. /\ sec \in 0..(inv.expiresAt - 1)
          /\ inv.failed < InvitationMaxAttempts /\ inv.failed \in Nat
          /\ enrollments[d] = "pending" /\ devices[d] = "none"
      BY <1>b, <1>c, <2>2, <3>1 DEF MembershipOf, Invitation
    <3>4. CASE action = "approve"
      <4>1. next = "approved"
        BY <3>4 DEF TransitionState
      <4>2. /\ devices[req.device] = "active" /\ req.device \in Device
            /\ req.device # d
        BY <1>9, <3>3, <3>4 DEF TransitionInvitation, RoleOK, Request
      <4>3. devices'[d] = "active" /\ enrollments'[d] = "approved"
            /\ devices'[req.device] = "active"
        BY <1>9, <1>c, <3>4, <4>2 DEF TransitionInvitation, AdmitDevice
      <4> QED
        BY <2>2, <3>2, <3>3, <4>1, <4>2, <4>3 DEF MembershipOf, EndOf
    <3>5. CASE action = "reject"
      <4>1. next = "rejected"
        BY <3>5 DEF TransitionState
      <4>2. /\ devices[req.device] = "active" /\ req.device \in Device
            /\ req.device # d
        BY <1>9, <3>3, <3>5 DEF TransitionInvitation, RoleOK, Request
      <4>3. UNCHANGED <<devices, enrollments>>
        BY <1>9, <3>5 DEF TransitionInvitation
      <4> QED
        BY <2>2, <3>2, <3>3, <4>1, <4>2, <4>3 DEF MembershipOf, EndOf
    <3>6. CASE action = "cancel"
      <4>1. next = "cancelled"
        BY <3>6 DEF TransitionState
      <4>2. req.device = d
        BY <1>9, <3>6 DEF TransitionInvitation, RoleOK
      <4>3. UNCHANGED <<devices, enrollments>>
        BY <1>9, <3>6 DEF TransitionInvitation
      <4> QED
        BY <2>2, <3>2, <3>3, <4>1, <4>2, <4>3 DEF MembershipOf, EndOf
    <3> QED
      BY <3>4, <3>5, <3>6
  <2> QED
    BY <2>1, <2>2
<1>10. ASSUME NEW req \in Request, NEW d \in Device,
              NEW action \in {"approve", "reject", "cancel"}, NEW body \in Bodies,
              FailInvitationAttempt(req, d, action, body)
       PROVE  MembershipOf(e)' /\ EndOf(e)'
  <2>0. UNCHANGED <<devices, enrollments>>
    BY <1>10 DEF FailInvitationAttempt
  <2>1. CASE e # d
    BY <1>10, <1>c, <2>0, <2>1, BystanderKeeps DEF FailInvitationAttempt
  <2>2. CASE e = d
    <3> DEFINE inv == invitations[d]
               charged == [inv EXCEPT !.failed = inv.failed + 1]
    <3>1. inv.state = "pending" /\ sec < inv.expiresAt
      BY <1>10, <1>c
      DEF FailInvitationAttempt, Exhausted, AfterExpiry, Lapsed, Ended, Invitation
    <3>2. /\ sec \in 0..(inv.expiresAt - 1)
          /\ inv.failed < InvitationMaxAttempts /\ inv.failed \in Nat
          /\ enrollments[d] = "pending"
      BY <1>b, <1>c, <2>2, <3>1 DEF MembershipOf, Invitation
    <3>3. inv \in Invitation
      BY <1>c
    <3>4. CASE inv.failed + 1 >= InvitationMaxAttempts
      <4>1. invitations'[d] = Ended(charged, "attempts_exhausted", req.device)
        BY <1>10, <1>c, <3>4 DEF FailInvitationAttempt, Exhausted
      <4>2. /\ invitations'[d].state = "attempts_exhausted"
            /\ invitations'[d].terminalAt = sec
            /\ invitations'[d].expiresAt = inv.expiresAt
            /\ invitations'[d].failed = inv.failed + 1
        BY <3>3, <4>1 DEF Ended, Invitation
      <4> QED
        BY <1>b, <2>0, <2>2, <3>1, <3>2, <3>4, <4>2 DEF MembershipOf, EndOf
    <3>5. CASE ~(inv.failed + 1 >= InvitationMaxAttempts)
      <4>1. invitations'[d] = charged
        BY <1>10, <1>c, <3>5 DEF FailInvitationAttempt, Exhausted
      <4>2. /\ invitations'[d].state = "pending"
            /\ invitations'[d].failed = inv.failed + 1
        BY <3>1, <3>3, <4>1 DEF Invitation
      <4> QED
        BY <1>b, <2>0, <2>2, <3>1, <3>2, <3>5, <4>2 DEF MembershipOf, EndOf
    <3> QED
      BY <3>4, <3>5
  <2> QED
    BY <2>1, <2>2
<1>11. CASE Next
  BY <1>11, <1>1, <1>2, <1>3, <1>4, <1>5, <1>6, <1>7, <1>8, <1>9, <1>10, AccountStep
<1>12. CASE UNCHANGED vars
  BY <1>12, <1>1 DEF vars
<1> QED
  BY <1>11, <1>12

\* The empty database satisfies the membership invariant.
LEMMA MembershipInit == Init => MembershipInv
<1> SUFFICES ASSUME Init PROVE MembershipInv
  OBVIOUS
<1>1. TypeOK
  BY InitType
<1>2. ASSUME NEW d \in Device PROVE MembershipOf(d) /\ EndOf(d)
  BY VaultConstants DEF Init, NoInvitation, MembershipOf, EndOf
<1> QED
  BY <1>1, <1>2, MembershipByDevice

\* The membership invariant, types and attempt budgets included, holds of every
\* database the handlers of server.go and invitations.go can leave behind.
THEOREM MembershipInductive == Spec => []MembershipInv
<1> QED
  BY MembershipInit, MembershipStep, PTL DEF Spec

\* Type correctness of the vault service: every handler of server.go and
\* invitations.go leaves every table well formed, the attempt counter within
\* the CHECK constraint of its column among them.
THEOREM TypeCorrect == Spec => []TypeOK
<1>1. MembershipInv => TypeOK
  BY DEF MembershipInv
<1> QED
  BY <1>1, MembershipInductive, PTL

\* No sequence of requests, retries and expiries makes the membership tables
\* disagree: no invitation that was not approved ever made a member.
THEOREM MembershipCorrect == Spec => []MembershipAgrees
<1>1. MembershipInv => MembershipAgrees
  BY DEF MembershipInv
<1> QED
  BY <1>1, MembershipInductive, PTL

\* transitionInvitation, expireInvitation and failInvitationAttempt: every
\* invitation that has ended did so in time, through an actor entitled to end it,
\* and out of attempts exactly when its budget is spent (InvitationEndsRightly).
THEOREM InvitationsCorrect == Spec => []InvitationEndsRightly
<1>1. MembershipInv => InvitationEndsRightly
  BY DEF MembershipInv
<1> QED
  BY <1>1, MembershipInductive, PTL

-----------------------------------------------------------------------------
(* Ends are final *)

\* What may happen to one device's row in a step: it joins, it is revoked, or
\* it stays as it is.
LEMMA DeviceStep ==
  ASSUME TypeOK, [Next]_vars, NEW d \in Device
  PROVE  \/ devices'[d] = devices[d]
         \/ devices[d] = "none" /\ devices'[d] = "active"
         \/ devices[d] = "active" /\ devices'[d] = "revoked"
<1>0. devices \in [Device -> {"none", "active", "revoked"}]
  BY DEF TypeOK
<1>1. CASE UNCHANGED accountVars
  BY <1>1 DEF accountVars
<1>2. ASSUME NEW e \in Device,
             CreateVault(e) \/ RequestEnrollment(e) \/ CreateInvitation(e)
      PROVE  \/ devices'[d] = devices[d]
             \/ devices[d] = "none" /\ devices'[d] = "active"
  BY <1>0, <1>2 DEF CreateVault, RequestEnrollment, CreateInvitation, Known
<1>3. ASSUME NEW req \in Request, NEW e \in Device, ApproveEnrollment(req, e)
      PROVE  \/ devices'[d] = devices[d]
             \/ devices[d] = "none" /\ devices'[d] = "active"
  BY <1>0, <1>3 DEF ApproveEnrollment, AdmitDevice
<1>4. ASSUME NEW req \in Request, NEW e \in Device, RevokeDevice(req, e)
      PROVE  \/ devices'[d] = devices[d]
             \/ devices[d] = "active" /\ devices'[d] = "revoked"
  BY <1>0, <1>4 DEF RevokeDevice, RevocationReason
<1>5. ASSUME NEW req \in Request, NEW e \in Device,
             NEW action \in {"approve", "reject", "cancel"}, NEW body \in Bodies,
             TransitionInvitation(req, e, action, body)
      PROVE  \/ devices'[d] = devices[d]
             \/ devices[d] = "none" /\ devices'[d] = "active"
  BY <1>0, <1>5 DEF TransitionInvitation, AdmitDevice
<1>6. ASSUME NEW req \in Request,
             \/ ListInvitations(req)
             \/ \E e \in Device :
                  \/ GetInvitation(req, e)
                  \/ \E action \in {"approve", "reject", "cancel"} :
                       \/ RejectTransition(req, e, action)
                       \/ \E body \in Bodies :
                            FailInvitationAttempt(req, e, action, body)
      PROVE  devices'[d] = devices[d]
  BY <1>6 DEF ListInvitations, GetInvitation, RejectTransition,
              FailInvitationAttempt
<1>7. CASE Next
  BY <1>7, <1>1, <1>2, <1>3, <1>4, <1>5, <1>6, AccountStep
<1> QED
  BY <1>1, <1>7 DEF vars

\* No step changes the row of an invitation that has ended.
LEMMA EndedInvitationStep ==
  ASSUME MembershipInv, [Next]_vars, NEW d \in Device,
         invitations[d].state \notin {"none", "pending"}
  PROVE  invitations'[d] = invitations[d]
<1>0. invitations \in [Device -> Invitation] /\ MembershipOf(d)
  BY MembershipByDevice DEF TypeOK
<1>1. CASE UNCHANGED accountVars
  BY <1>1 DEF accountVars
<1>2. ASSUME NEW e \in Device,
             CreateVault(e) \/ RequestEnrollment(e) \/ CreateInvitation(e)
      PROVE  invitations'[d] = invitations[d]
  <2>1. CASE CreateInvitation(e)
    <3>1. e # d
      BY <1>0, <2>1 DEF CreateInvitation, Known, MembershipOf
    <3> QED
      BY <1>0, <2>1, <3>1 DEF CreateInvitation
  <2> QED
    BY <1>2, <2>1 DEF CreateVault, RequestEnrollment
<1>3. ASSUME NEW req \in Request, NEW e \in Device,
             ApproveEnrollment(req, e) \/ RevokeDevice(req, e)
      PROVE  invitations'[d] = invitations[d]
  BY <1>3 DEF ApproveEnrollment, RevokeDevice
<1>4. AfterExpiry(invitations[d]) = invitations[d]
  BY DEF AfterExpiry, Lapsed
<1>5. ASSUME NEW req \in Request, NEW e \in Device,
             NEW action \in {"approve", "reject", "cancel"},
             \/ RejectTransition(req, e, action)
             \/ GetInvitation(req, e)
             \/ ListInvitations(req)
      PROVE  invitations'[d] = invitations[d]
  BY <1>0, <1>4, <1>5 DEF RejectTransition, GetInvitation, ListInvitations
<1>6. ASSUME NEW req \in Request, NEW e \in Device,
             NEW action \in {"approve", "reject", "cancel"}, NEW body \in Bodies,
             \/ TransitionInvitation(req, e, action, body)
             \/ FailInvitationAttempt(req, e, action, body)
      PROVE  invitations'[d] = invitations[d]
  <2>1. e # d
    BY <1>4, <1>6 DEF TransitionInvitation, FailInvitationAttempt
  <2> QED
    BY <1>0, <1>6, <2>1 DEF TransitionInvitation, FailInvitationAttempt
<1>7. CASE Next
  BY <1>7, <1>1, <1>2, <1>3, <1>5, <1>6, AccountStep
<1> QED
  BY <1>1, <1>7 DEF vars

\* An ended invitation and a revoked device stay as they are, whatever is
\* requested, retried or replayed afterwards.
THEOREM EndsFinal == Spec => EndsAreFinal
<1>1. MembershipInv /\ [Next]_vars =>
        [\A d \in Device :
           /\ invitations[d].state \notin {"none", "pending"}
                => invitations'[d] = invitations[d]
           /\ devices[d] = "revoked" => devices'[d] = "revoked"]_vars
  <2> SUFFICES ASSUME MembershipInv, [Next]_vars, NEW d \in Device
               PROVE  /\ invitations[d].state \notin {"none", "pending"}
                           => invitations'[d] = invitations[d]
                      /\ devices[d] = "revoked" => devices'[d] = "revoked"
    OBVIOUS
  <2>1. TypeOK
    BY DEF MembershipInv
  <2> QED
    BY <2>1, DeviceStep, EndedInvitationStep
<1> QED
  BY <1>1, MembershipInductive, PTL DEF Spec, EndsAreFinal

-----------------------------------------------------------------------------
(* The last active device *)

\* revokeDevice, which counts more than one active device first, leaves one.
LEMMA RevocationLeavesOne ==
  ASSUME TypeOK, NEW req \in Request, NEW d \in Device, RevokeDevice(req, d)
  PROVE  Active' # {}
<1>1. devices[d] = "active" /\ ~(Cardinality(Active) <= 1)
  BY DEF RevokeDevice, RevocationReason, TypeOK
<1>2. IsFiniteSet(Active) /\ Cardinality(Active) \in Nat
  BY VaultConstants, FS_Subset, FS_CardinalityType DEF Active
<1>3. IsFiniteSet(Active \ {d}) /\ Cardinality(Active \ {d}) = Cardinality(Active) - 1
  BY <1>1, <1>2, FS_RemoveElement DEF Active
<1>4. Active \ {d} # {}
  BY <1>1, <1>2, <1>3, FS_EmptySet
<1>5. Active \ {d} \subseteq Active'
  BY DEF Active, RevokeDevice, TypeOK
<1> QED
  BY <1>4, <1>5

\* Every step that finds an active device in the vault leaves one.
LEMMA ActiveStep ==
  MembershipInv /\ AlwaysActiveDevice /\ [Next]_vars => AlwaysActiveDevice'
<1> SUFFICES ASSUME TypeOK, AlwaysActiveDevice, [Next]_vars, vault'
             PROVE  Active' # {}
  BY DEF MembershipInv, AlwaysActiveDevice
<1>0. devices \in [Device -> {"none", "active", "revoked"}]
  BY DEF TypeOK
<1>1. ASSUME vault, Active \subseteq Active' PROVE Active' # {}
  BY <1>1 DEF AlwaysActiveDevice
<1>2. CASE UNCHANGED accountVars
  BY <1>1, <1>2 DEF accountVars, Active
<1>3. ASSUME NEW d \in Device, CreateVault(d) PROVE Active' # {}
  BY <1>0, <1>3 DEF CreateVault, Active
<1>4. ASSUME NEW d \in Device, RequestEnrollment(d) \/ CreateInvitation(d)
      PROVE  Active' # {}
  BY <1>1, <1>4 DEF RequestEnrollment, CreateInvitation, Active
<1>5. ASSUME NEW req \in Request, NEW d \in Device, ApproveEnrollment(req, d)
      PROVE  Active' # {}
  BY <1>0, <1>1, <1>5 DEF ApproveEnrollment, AdmitDevice, Active
<1>6. ASSUME NEW req \in Request, NEW d \in Device, RevokeDevice(req, d)
      PROVE  Active' # {}
  BY <1>6, RevocationLeavesOne
<1>7. ASSUME NEW req \in Request, NEW d \in Device,
             NEW action \in {"approve", "reject", "cancel"}, NEW body \in Bodies,
             TransitionInvitation(req, d, action, body)
      PROVE  Active' # {}
  BY <1>0, <1>1, <1>7 DEF TransitionInvitation, AdmitDevice, Active
<1>8. ASSUME NEW req \in Request,
             \/ ListInvitations(req)
             \/ \E e \in Device :
                  \/ GetInvitation(req, e)
                  \/ \E action \in {"approve", "reject", "cancel"} :
                       \/ RejectTransition(req, e, action)
                       \/ \E body \in Bodies :
                            FailInvitationAttempt(req, e, action, body)
      PROVE  Active' # {}
  <2>1. UNCHANGED <<vault, devices>>
    BY <1>8 DEF ListInvitations, GetInvitation, RejectTransition,
                FailInvitationAttempt
  <2> QED
    BY <1>1, <2>1 DEF Active
<1>9. CASE Next
  BY <1>9, <1>2, <1>3, <1>4, <1>5, <1>6, <1>7, <1>8, AccountStep
<1> QED
  BY <1>2, <1>9 DEF vars

\* A vault never loses its last active device, for any number of devices that
\* revoke each other or themselves in any order.
THEOREM LastActiveDevice == Spec => []AlwaysActiveDevice
<1>1. Init => AlwaysActiveDevice
  BY DEF Init, AlwaysActiveDevice
<1> QED
  BY <1>1, ActiveStep, MembershipInductive, PTL DEF Spec

-----------------------------------------------------------------------------
(* Replay *)

\* What keeps a spent request from running again: its device is revoked, its
\* timestamp has left the window for good, or its nonce row is there and is
\* young enough to outlive the timestamp.
Blocked(k) ==
  \/ devices[k.device] = "revoked"
  \/ sec - k.ts > TimestampWindow
  \/ \E row \in nonces : /\ row.device = k.device
                         /\ row.nonce = k.nonce
                         /\ k.ts <= row.created + TimestampWindow

ReplayInv == NoReplay /\ \A k \in spent : Blocked(k)

\* Every step as the replay check sees it: the request that passed the nonce
\* check, whether it ran, and which nonce rows are left.
PassedGate(req) ==
  /\ GateReason(req) = "none"
  /\ UNCHANGED clockVars
  /\ spent' = spent \cup {KeyOf(req)}
  /\ \/ UNCHANGED replayed
     \/ /\ devices[req.device] # "revoked"
        /\ replayed' = IF KeyOf(req) \in spent
                         THEN replayed \cup {KeyOf(req)} ELSE replayed
  /\ \/ nonces' = NoncesAfter(req)
     \/ \E d \in Device : /\ devices'[d] = "revoked"
                          /\ nonces' = {row \in NoncesAfter(req) : row.device # d}

\* What a step may do to the nonces and to the requests that are spent.
LEMMA AuthStep ==
  ASSUME TypeOK, Next
  PROVE  \/ Tick
         \/ UNCHANGED clockVars /\ UNCHANGED authVars
         \/ ServeOtherVault
         \/ \E req \in Request : PassedGate(req)
<1>a. ASSUME NEW req \in Request, NEW op, Authenticated(req, op),
             nonces' = NoncesAfter(req)
      PROVE  PassedGate(req)
  BY <1>a DEF Authenticated, AuthorizationReason, PassedGate
<1>1. ASSUME ServePublic PROVE UNCHANGED clockVars /\ UNCHANGED authVars
  BY <1>1 DEF ServePublic, CreateVault, RequestEnrollment, RejectPublicRequest,
              CreateInvitation
<1>2. ASSUME NEW req \in Request, NEW op, Deny(req, op)
      PROVE  \/ UNCHANGED clockVars /\ UNCHANGED authVars
             \/ PassedGate(req)
  BY <1>2 DEF Deny, DenyAtGate, DenyAuthorization, PassedGate
<1>3. ASSUME NEW req \in Request, ServeAccount(req) PROVE PassedGate(req)
  <2>1. ASSUME NEW d \in Device, RevokeDevice(req, d) PROVE PassedGate(req)
    <3>1. devices'[d] = "revoked"
      BY <2>1 DEF RevokeDevice, TypeOK
    <3> QED
      BY <2>1, <3>1
      DEF RevokeDevice, Authenticated, AuthorizationReason, PassedGate
  <2> QED
    BY <1>3, <1>a, <2>1
    DEF ServeAccount, ListEnrollments, ListDevices, GetEnrollment,
        ApproveEnrollment, RejectEnrollmentApproval, RejectRevocation, Answer
<1>4. ASSUME NEW req \in Request, ServeInvitations(req) PROVE PassedGate(req)
  BY <1>4, <1>a
  DEF ServeInvitations, ListInvitations, GetInvitation, RejectGetInvitation,
      TransitionInvitation, FailInvitationAttempt, RejectTransition, Answer
<1>5. ASSUME NEW req \in Request, ServeData(req) PROVE PassedGate(req)
  BY <1>5, <1>a
  DEF ServeData, ListRecords, ListVaultObjects, ListAccessEvents,
      GetVaultObject, RejectRecord, RejectVaultObject, RejectDeletion,
      PutRecord, PutVaultObject, DeleteVaultObject, Answer
<1> QED
  BY <1>1, <1>2, <1>3, <1>4, <1>5 DEF Next

\* Pruning takes a nonce row only once the timestamps it guards are stale:
\* the retention is at least twice the window.
LEMMA PruneKeepsBlocked ==
  ASSUME TypeOK, NEW k \in Key, Blocked(k), UNCHANGED clockVars,
         devices[k.device] = "revoked" => devices'[k.device] = "revoked",
         \A row \in Unpruned(nonces) :
           row.device = k.device => row \in nonces' \/ devices'[k.device] = "revoked"
  PROVE  Blocked(k)'
<1>0. /\ sec' = sec /\ sec \in Nat /\ k.ts \in Nat
      /\ TimestampWindow \in Nat /\ NonceRetention \in Nat
      /\ NonceRetention >= 2 * TimestampWindow
      /\ nonces \subseteq [device : Device, nonce : Nonce, created : Nat]
  BY VaultConstants DEF TypeOK, EventsTypeOK, clockVars, Key
<1>1. CASE devices[k.device] = "revoked" \/ sec - k.ts > TimestampWindow
  BY <1>0, <1>1 DEF Blocked
<1>2. ASSUME NEW row \in nonces, row.device = k.device, row.nonce = k.nonce,
             k.ts <= row.created + TimestampWindow
      PROVE  Blocked(k)'
  <2>1. row.created \in Nat
    BY <1>0
  <2>2. CASE row.created >= sec - NonceRetention
    <3>1. row \in Unpruned(nonces)
      BY <2>2 DEF Unpruned
    <3> QED
      BY <1>2, <3>1 DEF Blocked
  <2>3. CASE ~(row.created >= sec - NonceRetention)
    <3>1. sec - k.ts > TimestampWindow
      BY <1>0, <1>2, <2>1, <2>3
    <3> QED
      BY <1>0, <3>1 DEF Blocked
  <2> QED
    BY <2>2, <2>3
<1> QED
  BY <1>1, <1>2 DEF Blocked

\* A request that passes the gate is blocked from then on, whether its handler
\* runs, refuses it or revokes its device.
LEMMA GateStep ==
  ASSUME TypeOK, [Next]_vars, ReplayInv, NEW req \in Request, PassedGate(req)
  PROVE  ReplayInv'
<1>0. /\ sec' = sec /\ frac' = frac /\ UNCHANGED clockVars /\ sec \in Nat
      /\ TimestampWindow \in Nat /\ NonceRetention \in Nat
      /\ Timestamp \subseteq Nat
      /\ req.device \in Device /\ req.nonce \in Nonce /\ req.ts \in Timestamp
      /\ spent \subseteq Key
  BY VaultConstants DEF PassedGate, clockVars, TypeOK, EventsTypeOK, Request
<1>1. ~Stale(req.ts) /\ ~Seen(req.device, req.nonce)
  BY DEF PassedGate, GateReason
<1>2. NoReplay'
  <2>1. ASSUME devices[req.device] # "revoked", KeyOf(req) \in spent
        PROVE  FALSE
    <3>1. Blocked(KeyOf(req))
      BY <2>1 DEF ReplayInv
    <3> QED
      BY <1>1, <2>1, <3>1 DEF Blocked, KeyOf, Stale, Seen
  <2> QED
    BY <2>1 DEF PassedGate, ReplayInv, NoReplay
<1>3. \A row \in NoncesAfter(req) :
        row \in nonces' \/ devices'[row.device] = "revoked"
  BY DEF PassedGate
<1>4. ASSUME NEW k \in spent PROVE Blocked(k)'
  <2>1. k \in Key /\ Blocked(k) /\ k.device \in Device
    BY <1>0 DEF ReplayInv, Key
  <2>2. devices[k.device] = "revoked" => devices'[k.device] = "revoked"
    BY <2>1, DeviceStep
  <2>3. Unpruned(nonces) \subseteq NoncesAfter(req)
    BY DEF Unpruned, NoncesAfter
  <2>4. \A row \in Unpruned(nonces) :
          row.device = k.device => row \in nonces' \/ devices'[k.device] = "revoked"
    BY <1>3, <2>3
  <2> QED
    BY <1>0, <2>1, <2>2, <2>4, PruneKeepsBlocked
<1>5. Blocked(KeyOf(req))'
  <2> DEFINE fresh == [device |-> req.device, nonce |-> req.nonce, created |-> sec]
  <2>1. fresh \in NoncesAfter(req)
    BY <1>0 DEF NoncesAfter, Unpruned
  <2>2. req.ts <= sec + TimestampWindow
    <3>1. req.ts \in Nat /\ ~(req.ts - sec > TimestampWindow)
      BY <1>0, <1>1 DEF Stale
    <3> QED
      BY <1>0, <3>1
  <2>3. CASE fresh \in nonces'
    BY <2>2, <2>3 DEF Blocked, KeyOf
  <2>4. CASE devices'[fresh.device] = "revoked"
    BY <2>4 DEF Blocked, KeyOf
  <2> QED
    BY <1>3, <2>1, <2>3, <2>4
<1> QED
  BY <1>2, <1>4, <1>5 DEF PassedGate, ReplayInv

\* Every step preserves the replay invariant.
LEMMA ReplayStep == TypeOK /\ ReplayInv /\ [Next]_vars => ReplayInv'
<1> SUFFICES ASSUME TypeOK, ReplayInv, [Next]_vars PROVE ReplayInv'
  OBVIOUS
<1>0. ASSUME NEW k \in spent
      PROVE  /\ k \in Key /\ Blocked(k)
             /\ devices[k.device] = "revoked" => devices'[k.device] = "revoked"
  <2>1. k \in Key /\ k.device \in Device
    BY DEF TypeOK, Key
  <2> QED
    BY <2>1, DeviceStep DEF ReplayInv
<1>1. CASE UNCHANGED clockVars /\ UNCHANGED authVars
  BY <1>0, <1>1 DEF ReplayInv, NoReplay, Blocked, clockVars, authVars
<1>2. CASE Tick
  <2>1. sec \in Nat /\ sec' \in Nat /\ sec' >= sec
    BY <1>2 DEF Tick, AdvanceClock, TypeOK, EventsTypeOK
  <2>2. UNCHANGED <<nonces, spent, replayed, devices>>
    BY <1>2 DEF Tick, authVars, accountVars
  <2>3. ASSUME NEW k \in spent PROVE Blocked(k)'
    <3>1. k.ts \in Nat /\ TimestampWindow \in Nat /\ Blocked(k)
      BY <1>0, VaultConstants DEF Key
    <3>2. CASE sec - k.ts > TimestampWindow
      BY <2>1, <3>1, <3>2 DEF Blocked
    <3>3. CASE ~(sec - k.ts > TimestampWindow)
      BY <2>2, <3>1, <3>3 DEF Blocked
    <3> QED
      BY <3>2, <3>3
  <2> QED
    BY <2>2, <2>3 DEF ReplayInv, NoReplay
<1>3. CASE ServeOtherVault
  <2>1. ASSUME NEW k \in spent PROVE Blocked(k)'
    BY <1>0, <1>3, PruneKeepsBlocked DEF ServeOtherVault
  <2> QED
    BY <1>3, <2>1 DEF ServeOtherVault, ReplayInv, NoReplay
<1>4. ASSUME NEW req \in Request, PassedGate(req) PROVE ReplayInv'
  BY <1>4, GateStep
<1>5. CASE Next
  BY <1>5, <1>1, <1>2, <1>3, <1>4, AuthStep
<1>6. CASE UNCHANGED vars
  BY <1>1, <1>6 DEF vars
<1> QED
  BY <1>5, <1>6

\* No signed request takes effect twice, at any clock reading, for any window
\* and any retention at least twice as long, however often it is delivered and
\* whatever becomes of its device in between.
THEOREM ReplayProtection == Spec => []NoReplay
<1>1. Init => ReplayInv
  BY DEF Init, ReplayInv, NoReplay
<1>2. ReplayInv => NoReplay
  BY DEF ReplayInv
<1> QED
  BY <1>1, <1>2, ReplayStep, TypeCorrect, PTL DEF Spec

-----------------------------------------------------------------------------
(* Records and objects as revisioned stores *)

\* The steps that may change the two tables.
LEMMA TableStep ==
  ASSUME Next
  PROVE  \/ UNCHANGED dataVars
         \/ \E req \in Request, expected \in 0..MaxRevision :
              \/ \E r \in Record, b \in Blob : PutRecord(req, r, expected, b)
              \/ \E o \in Object, b \in Blob : PutVaultObject(req, o, expected, b)
              \/ \E o \in Object : DeleteVaultObject(req, o, expected)
<1>1. ASSUME ServePublic \/ ServeOtherVault \/ Tick PROVE UNCHANGED dataVars
  BY <1>1 DEF ServePublic, CreateVault, RequestEnrollment, RejectPublicRequest,
              CreateInvitation, ServeOtherVault, Tick
<1>2. ASSUME NEW req \in Request, NEW op, Deny(req, op) PROVE UNCHANGED dataVars
  BY <1>2 DEF Deny
<1>3. ASSUME NEW req \in Request, ServeAccount(req) PROVE UNCHANGED dataVars
  BY <1>3 DEF ServeAccount, ListEnrollments, ListDevices, GetEnrollment,
              ApproveEnrollment, RejectEnrollmentApproval, RevokeDevice,
              RejectRevocation, Answer
<1>4. ASSUME NEW req \in Request, ServeInvitations(req) PROVE UNCHANGED dataVars
  BY <1>4 DEF ServeInvitations, ListInvitations, GetInvitation,
              RejectGetInvitation, TransitionInvitation, FailInvitationAttempt,
              RejectTransition, Answer
<1>5. ASSUME NEW req \in Request, ServeData(req)
      PROVE  \/ UNCHANGED dataVars
             \/ \E expected \in 0..MaxRevision :
                  \/ \E r \in Record, b \in Blob : PutRecord(req, r, expected, b)
                  \/ \E o \in Object, b \in Blob : PutVaultObject(req, o, expected, b)
                  \/ \E o \in Object : DeleteVaultObject(req, o, expected)
  BY <1>5 DEF ServeData, ListRecords, ListVaultObjects, ListAccessEvents,
              GetVaultObject, RejectRecord, RejectVaultObject, RejectDeletion,
              Answer
<1> QED
  BY <1>1, <1>2, <1>3, <1>4, <1>5 DEF Next

\* Writing a table row writes the cell that stands for it.
LEMMA CellWritten ==
  ASSUME NEW S, NEW table \in [S -> Row], NEW c \in S,
         NEW b \in Blob \cup {NoBlob}, NEW n \in Nat, NEW m \in Nat
  PROVE  CellsOf([table EXCEPT ![c] = [revision |-> n, basis |-> m, blob |-> b]])
           = [CellsOf(table) EXCEPT ![c] = [revision |-> n, basis |-> m, value |-> b]]
  BY DEF CellsOf, Row

\* An unchanged table is unchanged cells.
LEMMA CellsInit ==
  ASSUME NEW S
  PROVE  CellsOf([c \in S |-> NoRow]) = [c \in S |-> [revision |-> 0, basis |-> 0, value |-> NoBlob]]
  BY DEF CellsOf, NoRow

\* No record update is lost, whatever the devices do concurrently: the records
\* table refines the compare-and-set store its clients rely on.
THEOREM RecordsRefine == Spec => RecordsAreRevisioned
<1>1. Init => RecordStore!StoreInit
  BY CellsInit DEF Init, RecordStore!StoreInit, RecordStore!Absent
<1>2. TypeOK /\ [Next]_vars => [RecordStore!StoreNext]_(CellsOf(records))
  <2> SUFFICES ASSUME TypeOK, [Next]_vars
               PROVE  RecordStore!StoreNext \/ CellsOf(records)' = CellsOf(records)
    OBVIOUS
  <2>0. records \in [Record -> Row]
    BY DEF TypeOK
  <2>1. CASE UNCHANGED records
    BY <2>1 DEF CellsOf
  <2>2. ASSUME NEW req \in Request, NEW expected \in 0..MaxRevision,
               NEW r \in Record, NEW b \in Blob, PutRecord(req, r, expected, b)
        PROVE  RecordStore!StoreNext
    <3>1. /\ records[r].revision = expected /\ expected < MaxRevision
          /\ records' = [records EXCEPT
                           ![r] = [revision |-> expected + 1, basis |-> expected,
                                   blob |-> b]]
      BY <2>2 DEF PutRecord, NextRow
    <3>2. CellsOf(records)' = [CellsOf(records) EXCEPT
                                 ![r] = [revision |-> expected + 1, basis |-> expected,
                                         value |-> b]]
      BY <2>0, <3>1, CellWritten DEF CellsOf
    <3>3. CellsOf(records)[r].revision = expected
      BY <2>0, <3>1 DEF CellsOf
    <3>4. RecordStore!Put(r, expected, b)
      BY <3>1, <3>2, <3>3 DEF RecordStore!Put
    <3> QED
      BY <3>4 DEF RecordStore!StoreNext
  <2>3. ASSUME NEW req, NEW o, NEW expected, NEW b,
               PutVaultObject(req, o, expected, b) \/ DeleteVaultObject(req, o, expected)
        PROVE  UNCHANGED records
    BY <2>3 DEF PutVaultObject, DeleteVaultObject
  <2>4. CASE UNCHANGED dataVars
    BY <2>1, <2>4 DEF dataVars
  <2> QED
    BY <2>1, <2>2, <2>3, <2>4, TableStep DEF vars
<1> QED
  BY <1>1, <1>2, TypeCorrect, PTL DEF Spec, RecordsAreRevisioned, RecordStore!StoreSpec

\* The same of encrypted objects, deletion included: the objects table refines
\* the store on which leases, plans and rollout operations are built.
THEOREM ObjectsRefine == Spec => ObjectsAreRevisioned
<1>1. Init => ObjectStore!StoreInit
  BY CellsInit DEF Init, ObjectStore!StoreInit, ObjectStore!Absent
<1>2. TypeOK /\ [Next]_vars => [ObjectStore!StoreNext]_(CellsOf(objects))
  <2> SUFFICES ASSUME TypeOK, [Next]_vars
               PROVE  ObjectStore!StoreNext \/ CellsOf(objects)' = CellsOf(objects)
    OBVIOUS
  <2>0. objects \in [Object -> Row]
    BY DEF TypeOK
  <2>1. CASE UNCHANGED objects
    BY <2>1 DEF CellsOf
  <2>2. ASSUME NEW req \in Request, NEW expected \in 0..MaxRevision,
               NEW o \in Object, NEW b \in Blob, PutVaultObject(req, o, expected, b)
        PROVE  ObjectStore!StoreNext
    <3>1. /\ objects[o].revision = expected /\ expected < MaxRevision
          /\ objects' = [objects EXCEPT
                           ![o] = [revision |-> expected + 1, basis |-> expected,
                                   blob |-> b]]
      BY <2>2 DEF PutVaultObject, NextRow
    <3>2. CellsOf(objects)' = [CellsOf(objects) EXCEPT
                                 ![o] = [revision |-> expected + 1, basis |-> expected,
                                         value |-> b]]
      BY <2>0, <3>1, CellWritten DEF CellsOf
    <3>3. CellsOf(objects)[o].revision = expected
      BY <2>0, <3>1 DEF CellsOf
    <3>4. ObjectStore!Put(o, expected, b)
      BY <3>1, <3>2, <3>3 DEF ObjectStore!Put
    <3> QED
      BY <3>4 DEF ObjectStore!StoreNext
  <2>3. ASSUME NEW req \in Request, NEW expected \in 0..MaxRevision,
               NEW o \in Object, DeleteVaultObject(req, o, expected)
        PROVE  ObjectStore!StoreNext
    <3>1. /\ objects[o].revision = expected /\ expected >= 1
          /\ objects' = [objects EXCEPT ![o] = [revision |-> 0, basis |-> 0, blob |-> NoBlob]]
      BY <2>3 DEF DeleteVaultObject, NoRow
    <3>2. CellsOf(objects)' = [CellsOf(objects) EXCEPT ![o] = ObjectStore!Absent]
      BY <2>0, <3>1, CellWritten DEF CellsOf, ObjectStore!Absent
    <3>3. CellsOf(objects)[o].revision = expected
      BY <2>0, <3>1 DEF CellsOf
    <3>4. ObjectStore!Delete(o, expected)
      BY <3>1, <3>2, <3>3 DEF ObjectStore!Delete
    <3> QED
      BY <3>4 DEF ObjectStore!StoreNext
  <2>4. ASSUME NEW req, NEW r, NEW expected, NEW b, PutRecord(req, r, expected, b)
        PROVE  UNCHANGED objects
    BY <2>4 DEF PutRecord
  <2>5. CASE UNCHANGED dataVars
    BY <2>1, <2>5 DEF dataVars
  <2> QED
    BY <2>1, <2>2, <2>3, <2>4, <2>5, TableStep DEF vars
<1> QED
  BY <1>1, <1>2, TypeCorrect, PTL DEF Spec, ObjectsAreRevisioned, ObjectStore!StoreSpec

\* Both tables of the service are compare-and-set stores, whatever requests
\* arrive in whatever order.
THEOREM StoresRefine == Spec => StoresAreRevisioned
BY RecordsRefine, ObjectsRefine, PTL DEF StoresAreRevisioned

-----------------------------------------------------------------------------
(* The access history *)

\* A bounded set of natural numbers that is not empty has a least and a greatest
\* element.
LEMMA LeastNumber ==
  ASSUME NEW S, S \subseteq Nat, S # {}
  PROVE  \E m \in S : \A s \in S : m <= s
<1>1. PICK m \in S : \A s \in S : ~ (<<s, m>> \in OpToRel(<, Nat))
  BY NatLessThanWellFounded, WFMin
<1>2. ASSUME NEW s \in S PROVE m <= s
  <2>1. s \in Nat /\ m \in Nat /\ ~(s < m)
    BY <1>1 DEF OpToRel
  <2> QED
    BY <2>1
<1> QED
  BY <1>2

LEMMA GreatestNumber ==
  ASSUME NEW S, S \subseteq Nat, S # {}, NEW n \in Nat, \A s \in S : s <= n
  PROVE  \E m \in S : \A s \in S : s <= m
<1> DEFINE T == {k \in 0..n : n - k \in S}
<1>1. PICK s \in S : TRUE
  OBVIOUS
<1>2. s \in Nat /\ s <= n
  OBVIOUS
<1>3. n - s \in T
  <2>1. n - s \in 0..n /\ n - (n - s) = s
    BY <1>2
  <2> QED
    BY <2>1
<1>4. T \subseteq Nat /\ T # {}
  BY <1>3
<1>5. PICK k \in T : \A t \in T : k <= t
  BY <1>4, LeastNumber
<1>6. ASSUME NEW t \in S PROVE t <= n - k
  <2>1. t \in Nat /\ t <= n /\ k \in 0..n
    BY <1>5
  <2>2. n - t \in 0..n /\ n - (n - t) = t
    BY <2>1
  <2>3. k <= n - t
    BY <1>5, <2>2
  <2> QED
    BY <2>1, <2>2, <2>3
<1>7. n - k \in S
  BY <1>5
<1> QED
  BY <1>6, <1>7

\* The rows that a transaction's events become.
Added(list) == {RowOf(list[i], lastSequence + i) : i \in 1..Len(list)}

\* No two rows have one sequence number, and each class of events is within its
\* cap: a row has fewer newer ones of its class than the cap.
HistoryInv ==
  /\ IsFiniteSet(events)
  /\ \A r, q \in events : r.seq = q.seq => r = q
  /\ \A r \in events : Cardinality(NewerOf(events, r)) < CapOf(r.event.verified)

LEMMA AddedRows ==
  ASSUME EventsTypeOK, NEW list, Len(list) \in Nat
  PROVE  /\ IsFiniteSet(Added(list))
         /\ \A i \in 1..Len(list) :
              LET r == RowOf(list[i], lastSequence + i)
              IN  r.seq = lastSequence + i /\ r.event = list[i] /\ ~Aged(r)
         /\ \A r \in Added(list), q \in events : r.seq > q.seq
         /\ \A r, q \in Added(list) : r.seq = q.seq => r = q
<1> DEFINE f == [i \in 1..Len(list) |-> RowOf(list[i], lastSequence + i)]
<1>1. f \in Surjection(1..Len(list), Added(list))
  BY DEF Surjection, Added
<1>2. IsFiniteSet(1..Len(list))
  BY FS_Interval
<1>3. IsFiniteSet(Added(list))
  BY <1>1, <1>2, FS_Surjection
<1>4. ASSUME NEW i \in 1..Len(list), NEW r, r = RowOf(list[i], lastSequence + i)
      PROVE  /\ r.seq = lastSequence + i /\ r.event = list[i]
             /\ r.sec = sec /\ r.frac = frac
  BY <1>4 DEF RowOf
<1>5. ASSUME NEW r, r.sec = sec, r.frac = frac PROVE ~Aged(r)
  <2>1. EventMaxAge \in Nat \ {0} /\ sec \in Nat
    BY EventConstants DEF EventsTypeOK
  <2>2. ~(sec < sec - EventMaxAge) /\ sec # sec - EventMaxAge
    BY <2>1
  <2> QED
    BY <1>5, <2>2 DEF Aged, TextBefore
<1>6. lastSequence \in Nat /\ \A q \in events : q.seq \in 1..lastSequence
  BY DEF EventsTypeOK
<1>7. ASSUME NEW r \in Added(list)
      PROVE  \E i \in 1..Len(list) : r = RowOf(list[i], lastSequence + i)
                                     /\ r.seq = lastSequence + i
  BY <1>4, <1>7 DEF Added
<1>8. ASSUME NEW r \in Added(list), NEW q \in events PROVE r.seq > q.seq
  BY <1>6, <1>7
<1>9. ASSUME NEW r \in Added(list), NEW q \in Added(list), r.seq = q.seq PROVE r = q
  <2>1. PICK i \in 1..Len(list) : r = RowOf(list[i], lastSequence + i)
                                  /\ r.seq = lastSequence + i
    BY <1>7
  <2>2. PICK j \in 1..Len(list) : q = RowOf(list[j], lastSequence + j)
                                  /\ q.seq = lastSequence + j
    BY <1>7
  <2>3. i = j
    BY <1>6, <1>9, <2>1, <2>2
  <2> QED
    BY <2>1, <2>2, <2>3
<1>10. \A i \in 1..Len(list) :
         LET r == RowOf(list[i], lastSequence + i)
         IN  r.seq = lastSequence + i /\ r.event = list[i] /\ ~Aged(r)
  BY <1>4, <1>5
<1> QED
  BY <1>3, <1>8, <1>9, <1>10

\* insertAccessEvent and pruneAccessEvents keep the history's invariant.
LEMMA InsertsKeepHistory ==
  ASSUME EventsTypeOK, HistoryInv, NEW list, Len(list) \in Nat,
         InsertAccessEvents(list)
  PROVE  HistoryInv'
<1> DEFINE all == events \cup Added(list)
           young == {r \in all : ~Aged(r)}
<1>1. events' = {r \in young : Cardinality(NewerOf(young, r)) < CapOf(r.event.verified)}
  BY DEF InsertAccessEvents, Prune, Added
<1>2. IsFiniteSet(all)
  BY AddedRows, FS_Union DEF HistoryInv
<1>3. \A r, q \in all : r.seq = q.seq => r = q
  <2>1. \A r, q \in events : r.seq = q.seq => r = q
    BY DEF HistoryInv
  <2>2. \A r \in Added(list), q \in events : r.seq # q.seq /\ q.seq # r.seq
    <3> SUFFICES ASSUME NEW r \in Added(list), NEW q \in events PROVE r.seq # q.seq
      OBVIOUS
    <3>1. r.seq > q.seq /\ q.seq \in Nat
      BY AddedRows DEF EventsTypeOK
    <3>2. r.seq \in Nat
      BY AddedRows DEF Added, EventsTypeOK, RowOf
    <3> QED
      BY <3>1, <3>2
  <2>3. \A r, q \in Added(list) : r.seq = q.seq => r = q
    BY AddedRows
  <2> QED
    BY <2>1, <2>2, <2>3
<1>4. events' \subseteq young /\ young \subseteq all
  BY <1>1
<1>5. IsFiniteSet(young) /\ IsFiniteSet(events')
  BY <1>2, <1>4, FS_Subset
<1>6. ASSUME NEW r \in events'
      PROVE  Cardinality(NewerOf(events', r)) < CapOf(r.event.verified)
  <2>1. Cardinality(NewerOf(young, r)) < CapOf(r.event.verified)
    BY <1>1
  <2>2. NewerOf(events', r) \subseteq NewerOf(young, r) /\ NewerOf(young, r) \subseteq young
    BY <1>4 DEF NewerOf
  <2> HIDE DEF young
  <2>3. IsFiniteSet(NewerOf(young, r))
    BY <1>5, <2>2, FS_Subset
  <2>4. /\ Cardinality(NewerOf(events', r)) <= Cardinality(NewerOf(young, r))
        /\ IsFiniteSet(NewerOf(events', r))
    BY <2>2, <2>3, FS_Subset
  <2>5. /\ Cardinality(NewerOf(events', r)) \in Nat
        /\ Cardinality(NewerOf(young, r)) \in Nat
    BY <2>3, <2>4, FS_CardinalityType
  <2>6. CapOf(r.event.verified) \in Nat
    BY EventConstants DEF CapOf
  <2> QED
    BY <2>1, <2>4, <2>5, <2>6
<1>7. \A r, q \in events' : r.seq = q.seq => r = q
  BY <1>3, <1>4
<1>8. \A r \in events' : NewerOf(events', r) = NewerOf(events, r)'
  BY DEF NewerOf
<1> QED
  BY <1>5, <1>6, <1>7, <1>8 DEF HistoryInv, CapOf

\* Of the rows that a transaction adds, the last of each class is kept: it is
\* young and nothing of its class is newer.
LEMMA NewestStays ==
  ASSUME EventsTypeOK, NEW list, Len(list) \in Nat, InsertAccessEvents(list),
         NEW j \in 1..Len(list),
         \A i \in 1..Len(list) : list[i].verified = list[j].verified => i <= j
  PROVE  /\ RowOf(list[j], lastSequence + j) \in events' \ events
         /\ RowOf(list[j], lastSequence + j).event = list[j]
         /\ RowOf(list[j], lastSequence + j).seq = lastSequence + j
<1> DEFINE all == events \cup Added(list)
           young == {r \in all : ~Aged(r)}
           row == RowOf(list[j], lastSequence + j)
<1>1. row \in young /\ row.seq = lastSequence + j /\ row.event = list[j] /\ row \in Added(list)
  BY AddedRows DEF Added
<1>2. lastSequence \in Nat /\ \A q \in events : q.seq \in 1..lastSequence
  BY DEF EventsTypeOK
<1>3. row \notin events
  BY <1>1, <1>2
<1> HIDE DEF row
<1>4. NewerOf(young, row) = {}
  <2> SUFFICES ASSUME NEW r \in young, r.event.verified = row.event.verified, r.seq > row.seq
               PROVE  FALSE
    BY DEF NewerOf
  <2>1. CASE r \in events
    BY <1>1, <1>2, <2>1
  <2>2. CASE r \in Added(list)
    <3>1. PICK i \in 1..Len(list) : r = RowOf(list[i], lastSequence + i)
      BY <2>2 DEF Added
    <3>2. r.seq = lastSequence + i /\ r.event = list[i]
      BY <3>1, AddedRows
    <3>3. i <= j
      BY <1>1, <3>2
    <3> QED
      BY <1>1, <1>2, <3>2, <3>3
  <2> QED
    BY <2>1, <2>2
<1>5. events' = {r \in young : Cardinality(NewerOf(young, r)) < CapOf(r.event.verified)}
  BY DEF InsertAccessEvents, Prune, Added
<1>6. Cardinality(NewerOf(young, row)) < CapOf(row.event.verified)
  <2>1. CapOf(row.event.verified) \in Nat \ {0}
    BY EventConstants DEF CapOf
  <2>2. Cardinality(NewerOf(young, row)) = 0
    BY <1>4, FS_EmptySet
  <2> QED
    BY <2>1, <2>2
<1>7. row \in events'
  BY <1>1, <1>5, <1>6
<1> QED
  BY <1>1, <1>3, <1>7 DEF row

\* Without a new verified row, a verified row goes by age alone.
LEMMA InsertsKeepVerified ==
  ASSUME EventsTypeOK, HistoryInv, NEW list, Len(list) \in Nat,
         InsertAccessEvents(list),
         \A r \in events' \ events : ~r.event.verified,
         NEW row \in events \ events', row.event.verified
  PROVE  Aged(row)
<1> DEFINE all == events \cup Added(list)
           young == {r \in all : ~Aged(r)}
<1>1. ASSUME NEW i \in 1..Len(list), list[i].verified PROVE FALSE
  <2> DEFINE S == {k \in 1..Len(list) : list[k].verified = list[i].verified}
  <2>1. S \subseteq Nat /\ S # {} /\ \A k \in S : k <= Len(list)
    OBVIOUS
  <2>2. PICK j \in S : \A k \in S : k <= j
    BY <2>1, GreatestNumber
  <2>3. /\ RowOf(list[j], lastSequence + j) \in events' \ events
        /\ RowOf(list[j], lastSequence + j).event = list[j]
    BY <2>2, NewestStays
  <2>4. list[j].verified
    BY <1>1, <2>2
  <2> QED
    BY <2>3, <2>4
<1>2. SUFFICES ASSUME ~Aged(row) PROVE FALSE
  OBVIOUS
<1>3. events' = {r \in young : Cardinality(NewerOf(young, r)) < CapOf(r.event.verified)}
  BY DEF InsertAccessEvents, Prune, Added
<1>4. row \in young
  BY <1>2
<1>5. NewerOf(young, row) \subseteq NewerOf(events, row)
  <2> SUFFICES ASSUME NEW r \in young, r.event.verified = row.event.verified, r \notin events
               PROVE  FALSE
    BY DEF NewerOf
  <2>1. PICK i \in 1..Len(list) : r = RowOf(list[i], lastSequence + i)
    BY DEF Added
  <2>2. r.event = list[i]
    BY <2>1, AddedRows
  <2> QED
    BY <1>1, <2>2
<1> HIDE DEF young
<1>6. NewerOf(events, row) \subseteq events
  BY DEF NewerOf
<1>7. IsFiniteSet(NewerOf(events, row))
  BY <1>6, FS_Subset DEF HistoryInv
<1>8. /\ Cardinality(NewerOf(young, row)) <= Cardinality(NewerOf(events, row))
      /\ IsFiniteSet(NewerOf(young, row))
  BY <1>5, <1>7, FS_Subset
<1>9. Cardinality(NewerOf(events, row)) < CapOf(row.event.verified)
  BY DEF HistoryInv
<1>10. /\ Cardinality(NewerOf(young, row)) \in Nat
       /\ Cardinality(NewerOf(events, row)) \in Nat
       /\ CapOf(row.event.verified) \in Nat
  BY <1>7, <1>8, FS_CardinalityType, EventConstants DEF CapOf
<1>11. Cardinality(NewerOf(young, row)) < CapOf(row.event.verified)
  <2> DEFINE newer == Cardinality(NewerOf(young, row))
             before == Cardinality(NewerOf(events, row))
             cap == CapOf(row.event.verified)
  <2>1. newer <= before /\ before < cap
    BY <1>8, <1>9
  <2>2. newer \in Nat /\ before \in Nat /\ cap \in Nat
    BY <1>10
  <2> HIDE DEF newer, before, cap
  <2>3. newer < cap
    BY <2>1, <2>2
  <2> QED
    BY <2>3 DEF newer, cap
<1>12. row \in events'
  BY <1>3, <1>4, <1>11
<1> QED
  BY <1>12

\* A step's access events: none, or those of one transaction.
StepEvents ==
  \/ UNCHANGED eventVars
  \/ UNCHANGED clockVars /\ \E list : Len(list) \in Nat /\ InsertAccessEvents(list)

LEMMA OneEvent ==
  ASSUME NEW details, InsertAccessEvent(details), UNCHANGED clockVars
  PROVE  StepEvents
<1>1. Len(<<details>>) \in Nat
  OBVIOUS
<1> QED
  BY <1>1 DEF StepEvents, InsertAccessEvent

LEMMA AnswerEvent ==
  ASSUME NEW req, NEW op, NEW details, Answer(req, op, details)
  PROVE  StepEvents
BY OneEvent DEF Answer, Authenticated

\* The events of invitation handlers, which may expire invitations first.
LEMMA ExpiryAndOneEvent ==
  ASSUME NEW d, NEW details, UNCHANGED clockVars,
         InsertAccessEvents(Append(ExpiryEvents(d), details))
  PROVE  StepEvents
<1> DEFINE e == ExpiryEvent(d)
           S == {e, details}
<1>1. ExpiryEvents(d) \in Seq(S) /\ details \in S
  <2>1. <<e>> \in Seq(S) /\ <<>> \in Seq(S) /\ details \in S
    <3> HIDE DEF e
    <3> QED
      OBVIOUS
  <2> QED
    BY <2>1 DEF ExpiryEvents
<1>2. Append(ExpiryEvents(d), details) \in Seq(S)
  BY <1>1
<1>3. Len(Append(ExpiryEvents(d), details)) \in Nat
  BY <1>2
<1> QED
  BY <1>3 DEF StepEvents

LEMMA ListingEvents ==
  ASSUME NEW req, ListInvitations(req)
  PROVE  StepEvents
<1> DEFINE lapsed == {d \in Device : Lapsed(invitations[d])}
           n == Cardinality(lapsed)
           details == Succeeded(req, "invitation_list", NoDevice)
<1>1. PICK order \in Orders(lapsed) :
        InsertAccessEvents(Append([i \in 1..n |-> ExpiryEvent(order[i])], details))
  BY DEF ListInvitations
<1> DEFINE expired == [i \in 1..n |-> ExpiryEvent(order[i])]
           S == {expired[i] : i \in 1..n} \cup {details}
<1>2. n \in Nat
  BY VaultConstants, FS_Subset, FS_CardinalityType
<1> HIDE DEF n
<1>3. expired \in [1..n -> S]
  OBVIOUS
<1>4. expired \in Seq(S) /\ details \in S
  BY <1>2, <1>3
<1> HIDE DEF expired, S, details
<1>5. Append(expired, details) \in Seq(S)
  BY <1>4
<1>6. Len(Append(expired, details)) \in Nat
  BY <1>5
<1>7. InsertAccessEvents(Append(expired, details))
  BY <1>1 DEF expired
<1>8. UNCHANGED clockVars
  BY DEF ListInvitations, Authenticated
<1> QED
  BY <1>6, <1>7, <1>8 DEF StepEvents

LEMMA EventStep == [Next]_vars => StepEvents
<1> SUFFICES ASSUME [Next]_vars PROVE StepEvents
  OBVIOUS
<1>1. CASE UNCHANGED vars \/ Tick \/ ServeOtherVault
  BY <1>1 DEF StepEvents, vars, Tick, ServeOtherVault
<1>2. ASSUME ServePublic PROVE StepEvents
  <2>1. ASSUME NEW d, CreateVault(d) PROVE StepEvents
    BY <2>1 DEF CreateVault, StepEvents
  <2>2. ASSUME NEW d, RequestEnrollment(d) \/ CreateInvitation(d) PROVE StepEvents
    BY <2>2, OneEvent DEF RequestEnrollment, CreateInvitation
  <2>3. ASSUME NEW op, NEW reason, RejectPublicRequest(op, reason) PROVE StepEvents
    BY <2>3, OneEvent DEF RejectPublicRequest
  <2> QED
    BY <1>2, <2>1, <2>2, <2>3 DEF ServePublic
<1>3. ASSUME NEW req, NEW op, Deny(req, op) PROVE StepEvents
  BY <1>3, OneEvent DEF Deny, DenyAtGate, DenyAuthorization
<1>4. ASSUME NEW req, ServeAccount(req) PROVE StepEvents
  <2>1. ASSUME NEW d, ApproveEnrollment(req, d) PROVE StepEvents
    BY <2>1, OneEvent DEF ApproveEnrollment, Authenticated
  <2>2. ASSUME NEW d, RevokeDevice(req, d) PROVE StepEvents
    BY <2>2, OneEvent DEF RevokeDevice, Authenticated
  <2>3. ASSUME ListEnrollments(req) \/ ListDevices(req) PROVE StepEvents
    BY <2>3, AnswerEvent DEF ListEnrollments, ListDevices
  <2>4. ASSUME NEW d, GetEnrollment(req, d) PROVE StepEvents
    BY <2>4, AnswerEvent DEF GetEnrollment
  <2>5. ASSUME NEW d, NEW decodes, RejectEnrollmentApproval(req, d, decodes)
        PROVE  StepEvents
    BY <2>5, AnswerEvent DEF RejectEnrollmentApproval
  <2>6. ASSUME NEW d, RejectRevocation(req, d) PROVE StepEvents
    BY <2>6, AnswerEvent DEF RejectRevocation
  <2> QED
    BY <1>4, <2>1, <2>2, <2>3, <2>4, <2>5, <2>6 DEF ServeAccount
<1>5. ASSUME NEW req, ServeInvitations(req) PROVE StepEvents
  <2>1. ASSUME NEW d, GetInvitation(req, d) PROVE StepEvents
    BY <2>1, ExpiryAndOneEvent DEF GetInvitation, Authenticated
  <2>2. ASSUME NEW d, RejectGetInvitation(req, d) PROVE StepEvents
    BY <2>2, AnswerEvent DEF RejectGetInvitation
  <2>3. ASSUME NEW d, NEW action, NEW body, TransitionInvitation(req, d, action, body)
        PROVE  StepEvents
    BY <2>3, OneEvent DEF TransitionInvitation, Authenticated
  <2>4. ASSUME NEW d, NEW action, NEW body, FailInvitationAttempt(req, d, action, body)
        PROVE  StepEvents
    BY <2>4, OneEvent DEF FailInvitationAttempt, Authenticated
  <2>5. ASSUME NEW d, NEW action, RejectTransition(req, d, action) PROVE StepEvents
    BY <2>5, ExpiryAndOneEvent DEF RejectTransition, Authenticated
  <2> QED
    BY <1>5, ListingEvents, <2>1, <2>2, <2>3, <2>4, <2>5 DEF ServeInvitations
<1>6. ASSUME NEW req, ServeData(req) PROVE StepEvents
  <2>1. ASSUME NEW r, NEW expected, NEW b, PutRecord(req, r, expected, b) PROVE StepEvents
    BY <2>1, OneEvent DEF PutRecord, Authenticated
  <2>2. ASSUME NEW o, NEW expected, NEW b, PutVaultObject(req, o, expected, b)
        PROVE  StepEvents
    BY <2>2, OneEvent DEF PutVaultObject, Authenticated
  <2>3. ASSUME NEW o, NEW expected, DeleteVaultObject(req, o, expected) PROVE StepEvents
    BY <2>3, OneEvent DEF DeleteVaultObject, Authenticated
  <2>4. ASSUME ListRecords(req) \/ ListVaultObjects(req) PROVE StepEvents
    BY <2>4, AnswerEvent DEF ListRecords, ListVaultObjects
  <2>5. ASSUME NEW valid, ListAccessEvents(req, valid) PROVE StepEvents
    BY <2>5, AnswerEvent DEF ListAccessEvents
  <2>6. ASSUME NEW o, GetVaultObject(req, o) PROVE StepEvents
    BY <2>6, AnswerEvent DEF GetVaultObject
  <2>7. ASSUME NEW r, NEW expected, NEW valid, RejectRecord(req, r, expected, valid)
        PROVE  StepEvents
    BY <2>7, AnswerEvent DEF RejectRecord
  <2>8. ASSUME NEW o, NEW expected, NEW valid,
               \/ RejectVaultObject(req, o, expected, valid)
               \/ RejectDeletion(req, o, expected, valid)
        PROVE  StepEvents
    BY <2>8, AnswerEvent DEF RejectVaultObject, RejectDeletion
  <2> QED
    BY <1>6, <2>1, <2>2, <2>3, <2>4, <2>5, <2>6, <2>7, <2>8 DEF ServeData
<1> QED
  BY <1>1, <1>2, <1>3, <1>4, <1>5, <1>6 DEF Next

LEMMA HistoryStep == TypeOK /\ HistoryInv /\ [Next]_vars => HistoryInv'
<1> SUFFICES ASSUME TypeOK, HistoryInv, [Next]_vars PROVE HistoryInv'
  OBVIOUS
<1>1. EventsTypeOK /\ StepEvents
  BY EventStep DEF TypeOK
<1>2. CASE UNCHANGED eventVars
  BY <1>2 DEF eventVars, HistoryInv, NewerOf, CapOf
<1> QED
  BY <1>1, <1>2, InsertsKeepHistory DEF StepEvents

LEMMA HistoryInit == Init => HistoryInv
BY FS_EmptySet DEF Init, EventsInit, HistoryInv

\* pruneAccessEvents: requests that nobody signed push no verified event out,
\* however many there are (FloodKeepsVerified).
THEOREM FloodIsHarmless == Spec => FloodKeepsVerified
<1>1. TypeOK /\ HistoryInv /\ [Next]_vars =>
        [(\A row \in events' \ events : ~row.event.verified) =>
           \A row \in events \ events' : row.event.verified => Aged(row)]_vars
  <2> SUFFICES ASSUME TypeOK, HistoryInv, [Next]_vars,
                      \A row \in events' \ events : ~row.event.verified,
                      NEW row \in events \ events', row.event.verified
               PROVE  Aged(row)
    OBVIOUS
  <2>1. EventsTypeOK /\ StepEvents
    BY EventStep DEF TypeOK
  <2>2. ~UNCHANGED eventVars
    BY DEF eventVars
  <2> QED
    BY <2>1, <2>2, InsertsKeepVerified DEF StepEvents
<1> QED
  BY <1>1, HistoryInit, HistoryStep, TypeCorrect, PTL DEF Spec, FloodKeepsVerified

\* The newest event names, verified, an active device whose request succeeded.
Audited ==
  \E row \in events' :
    /\ row.seq = lastSequence'
    /\ row.event.verified
    /\ row.event.outcome = "succeeded"
    /\ row.event.identity \in Active

LEMMA SuccessIsAudited ==
  ASSUME TypeOK, NEW req \in Request, NEW op, NEW target,
         AuthorizationReason(req.device, op) = "none",
         op \notin AllowPending \/ devices[req.device] = "active",
         InsertAccessEvent(Succeeded(req, op, target))
  PROVE  Audited
<1> DEFINE details == Succeeded(req, op, target)
           list == <<details>>
<1>1. /\ details.verified /\ details.outcome = "succeeded"
      /\ details.identity = req.device
  BY DEF Succeeded, Event
<1>2. req.device \in Active
  BY DEF TypeOK, Request, AuthorizationReason, Active
<1> HIDE DEF details
<1>3. Len(list) = 1 /\ list[1] = details
  OBVIOUS
<1>4. InsertAccessEvents(list) /\ lastSequence' = lastSequence + 1
  BY <1>3 DEF InsertAccessEvent, InsertAccessEvents, details
<1> HIDE DEF list
<1>5. /\ RowOf(list[1], lastSequence + 1) \in events'
      /\ RowOf(list[1], lastSequence + 1).event = list[1]
      /\ RowOf(list[1], lastSequence + 1).seq = lastSequence + 1
  <2>1. /\ EventsTypeOK /\ Len(list) \in Nat /\ 1 \in 1..Len(list)
        /\ \A i \in 1..Len(list) : list[i].verified = list[1].verified => i <= 1
    BY <1>3 DEF TypeOK
  <2> QED
    BY <1>4, <2>1, NewestStays
<1> QED
  BY <1>1, <1>2, <1>3, <1>4, <1>5 DEF Audited

\* putRecord, putVaultObject, deleteVaultObject, approveEnrollment,
\* transitionInvitation and revokeDevice: what changes the data or the members
\* was asked for by a device active at that moment, and the same transaction
\* keeps its verified event (ChangesAreActiveAndAudited).
THEOREM ChangesAudited == Spec => ChangesAreActiveAndAudited
<1>1. TypeOK /\ [Next]_vars =>
        [vault /\ <<devices, records, objects>>' # <<devices, records, objects>> =>
           \E row \in events' :
             /\ row.seq = lastSequence'
             /\ row.event.verified
             /\ row.event.outcome = "succeeded"
             /\ row.event.identity \in Active]_vars
  <2> SUFFICES ASSUME TypeOK, [Next]_vars, vault,
                      ~UNCHANGED <<devices, records, objects>>
               PROVE  Audited
    BY DEF Audited
  <2>1. ASSUME NEW req \in Request, NEW r, NEW expected, NEW b,
               PutRecord(req, r, expected, b)
        PROVE  Audited
    BY <2>1, SuccessIsAudited DEF PutRecord, Authenticated, AllowPending
  <2>2. ASSUME NEW req \in Request, NEW o, NEW expected, NEW b,
               PutVaultObject(req, o, expected, b)
        PROVE  Audited
    BY <2>2, SuccessIsAudited DEF PutVaultObject, Authenticated, AllowPending
  <2>3. ASSUME NEW req \in Request, NEW o, NEW expected,
               DeleteVaultObject(req, o, expected)
        PROVE  Audited
    BY <2>3, SuccessIsAudited DEF DeleteVaultObject, Authenticated, AllowPending
  <2>4. ASSUME NEW req \in Request, NEW d, ApproveEnrollment(req, d)
        PROVE  Audited
    BY <2>4, SuccessIsAudited DEF ApproveEnrollment, Authenticated, AllowPending
  <2>5. ASSUME NEW req \in Request, NEW d, RevokeDevice(req, d)
        PROVE  Audited
    BY <2>5, SuccessIsAudited DEF RevokeDevice, Authenticated, AllowPending
  <2>6. ASSUME NEW req \in Request, NEW d, NEW action \in {"approve", "reject", "cancel"},
               NEW body, TransitionInvitation(req, d, action, body),
               ~UNCHANGED devices
        PROVE  Audited
    <3>1. action = "approve"
      BY <2>6 DEF TransitionInvitation
    <3>2. devices[req.device] = "active"
      BY <2>6, <3>1 DEF TransitionInvitation, RoleOK
    <3> QED
      BY <2>6, <3>2, SuccessIsAudited DEF TransitionInvitation, Authenticated
  <2>7. CASE UNCHANGED <<accountVars, dataVars>>
    BY <2>7 DEF accountVars, dataVars
  <2>8. CASE Next /\ UNCHANGED devices
    <3>1. ~UNCHANGED dataVars
      BY <2>8 DEF dataVars
    <3> QED
      BY <2>1, <2>2, <2>3, <2>8, <3>1, TableStep
  <2>9. CASE Next /\ ~UNCHANGED devices
    <3>1. ~UNCHANGED accountVars
      BY <2>9 DEF accountVars
    <3>2. ASSUME NEW d \in Device,
                 CreateVault(d) \/ RequestEnrollment(d) \/ CreateInvitation(d)
          PROVE  UNCHANGED devices
      BY <3>2 DEF CreateVault, RequestEnrollment, CreateInvitation
    <3>3. ASSUME NEW req \in Request,
                 \/ ListInvitations(req)
                 \/ \E e \in Device :
                      \/ GetInvitation(req, e)
                      \/ \E action \in {"approve", "reject", "cancel"} :
                           \/ RejectTransition(req, e, action)
                           \/ \E body \in Bodies :
                                FailInvitationAttempt(req, e, action, body)
          PROVE  UNCHANGED devices
      BY <3>3 DEF ListInvitations, GetInvitation, RejectTransition,
                  FailInvitationAttempt
    <3> QED
      BY <2>4, <2>5, <2>6, <2>9, <3>1, <3>2, <3>3, AccountStep
  <2> QED
    BY <2>7, <2>8, <2>9 DEF vars
<1> QED
  BY <1>1, TypeCorrect, PTL DEF Spec, ChangesAreActiveAndAudited

-----------------------------------------------------------------------------
(* The pages of the history *)

\* A table of rows with sequence numbers of their own, up to n.
Numbered(rows, n) ==
  /\ IsFiniteSet(rows)
  /\ \A r \in rows : r.seq \in 1..n
  /\ \A r, q \in rows : r.seq = q.seq => r = q

\* A page is the newest of the older rows: what it leaves out is older than all
\* of it, and there is such a row exactly if there is a next page.
LEMMA PageIsNewest ==
  ASSUME NEW rows, NEW n \in Nat, Numbered(rows, n), NEW limit \in Nat \ {0}, NEW before
  PROVE  /\ Page(rows, limit, before) \subseteq Older(rows, before)
         /\ IsFiniteSet(Page(rows, limit, before))
         /\ \A p \in Page(rows, limit, before),
               r \in Older(rows, before) \ Page(rows, limit, before) : r.seq < p.seq
         /\ ~HasMore(rows, limit, before) =>
              Page(rows, limit, before) = Older(rows, before)
         /\ HasMore(rows, limit, before) => Page(rows, limit, before) # {}
<1> DEFINE older == Older(rows, before)
           page == Page(rows, limit, before)
           Above(r) == {q \in older : q.seq > r.seq}
<1>1. older \subseteq rows /\ page \subseteq older
  BY DEF Older, Page
<1>2. IsFiniteSet(older) /\ IsFiniteSet(page) /\ Cardinality(older) \in Nat
  BY <1>1, FS_Subset, FS_CardinalityType DEF Numbered
<1>3. \A r \in older : r \in page <=> Cardinality(Above(r)) < limit
  BY DEF Page
<1>4. \A r \in older : r.seq \in 1..n
  BY <1>1 DEF Numbered
<1>5. ASSUME NEW r \in older
      PROVE  /\ IsFiniteSet(Above(r)) /\ Cardinality(Above(r)) \in Nat
             /\ Cardinality(Above(r)) < Cardinality(older)
  <2>1. Above(r) \subseteq older /\ r \notin Above(r)
    BY <1>4
  <2>2. Above(r) # older
    BY <2>1
  <2> HIDE DEF Above, older
  <2>3. /\ IsFiniteSet(Above(r)) /\ Cardinality(Above(r)) <= Cardinality(older)
        /\ Cardinality(Above(r)) # Cardinality(older)
    BY <1>2, <2>1, <2>2, FS_Subset
  <2>4. Cardinality(Above(r)) \in Nat
    BY <2>3, FS_CardinalityType
  <2> QED
    BY <1>2, <2>3, <2>4
<1>6. ASSUME NEW p \in page, NEW r \in older \ page PROVE r.seq < p.seq
  <2>1. CASE r.seq >= p.seq
    <3>1. Above(r) \subseteq Above(p)
      BY <1>1, <1>4, <2>1
    <3>2. p \in older /\ Cardinality(Above(p)) < limit /\ ~(Cardinality(Above(r)) < limit)
      BY <1>1, <1>3, <1>6
    <3> HIDE DEF Above, older, page
    <3>3. Cardinality(Above(r)) <= Cardinality(Above(p))
      BY <1>5, <3>1, <3>2, FS_Subset
    <3>4. Cardinality(Above(r)) \in Nat /\ Cardinality(Above(p)) \in Nat
      BY <1>5, <1>6, <3>2
    <3>5. FALSE
      BY <3>2, <3>3, <3>4
    <3> QED
      BY <3>5
  <2> QED
    BY <1>1, <1>4, <2>1
<1>7. ASSUME ~HasMore(rows, limit, before) PROVE page = older
  <2>1. Cardinality(older) <= limit
    BY <1>2, <1>7 DEF HasMore
  <2>2. ASSUME NEW r \in older PROVE r \in page
    <3>1. Cardinality(Above(r)) < limit
      <4> HIDE DEF Above, older
      <4> QED
        BY <1>2, <1>5, <2>1
    <3> QED
      BY <1>3, <3>1
  <2> QED
    BY <1>1, <2>2
<1>8. ASSUME HasMore(rows, limit, before) PROVE page # {}
  <2>1. older # {}
    <3>1. Cardinality(older) > limit
      BY <1>8 DEF HasMore
    <3>2. Cardinality({}) = 0
      BY FS_EmptySet
    <3> HIDE DEF older
    <3> QED
      BY <3>1, <3>2
  <2> DEFINE S == {r.seq : r \in older}
  <2>2. S \subseteq Nat /\ S # {} /\ \A s \in S : s <= n
    BY <1>4, <2>1
  <2>3. PICK m \in S : \A s \in S : s <= m
    BY <2>2, GreatestNumber
  <2>4. PICK r \in older : r.seq = m
    BY <2>3
  <2>5. Above(r) = {}
    BY <1>4, <2>3, <2>4
  <2>6. Cardinality(Above(r)) = 0
    BY <2>5, FS_EmptySet
  <2> QED
    BY <1>3, <2>4, <2>6
<1> QED
  BY <1>1, <1>2, <1>6, <1>7, <1>8

\* encodeEventCursor of the last row: the least of the page.
LEMMA CursorIsLeast ==
  ASSUME NEW rows, NEW n \in Nat, Numbered(rows, n), NEW limit \in Nat \ {0}, NEW before,
         HasMore(rows, limit, before)
  PROVE  /\ NextCursor(rows, limit, before) \in Sequences(Page(rows, limit, before))
         /\ \A r \in Page(rows, limit, before) : NextCursor(rows, limit, before) <= r.seq
<1> DEFINE page == Page(rows, limit, before)
           S == Sequences(page)
<1>1. page # {} /\ page \subseteq rows
  BY PageIsNewest DEF Older
<1>2. S \subseteq Nat /\ S # {}
  BY <1>1 DEF Sequences, Numbered
<1>3. \E s \in S : \A t \in S : s <= t
  BY <1>2, LeastNumber
<1>4. \E s \in S : \A r \in page : s <= r.seq
  BY <1>3 DEF Sequences
<1> QED
  BY <1>4 DEF NextCursor

\* A page has as many rows as sequence numbers.
LEMMA PageCount ==
  ASSUME NEW rows, NEW n \in Nat, Numbered(rows, n), NEW page, page \subseteq rows
  PROVE  /\ IsFiniteSet(Sequences(page))
         /\ Cardinality(Sequences(page)) = Cardinality(page)
<1> DEFINE f == [r \in page |-> r.seq]
<1>1. IsFiniteSet(page)
  BY FS_Subset DEF Numbered
<1>2. f \in Bijection(page, Sequences(page))
  <2>1. f \in Surjection(page, Sequences(page))
    BY DEF Surjection, Sequences
  <2>2. f \in Injection(page, Sequences(page))
    <3>1. f \in [page -> Sequences(page)]
      BY DEF Sequences
    <3>2. \A a, b \in page : a.seq = b.seq => a = b
      BY DEF Numbered
    <3>3. \A a, b \in page : f[a] = f[b] => a = b
      BY <3>2
    <3> HIDE DEF f
    <3> QED
      BY <3>1, <3>3 DEF Injection, IsInjective
  <2> QED
    BY <2>1, <2>2 DEF Bijection
<1>3. ExistsBijection(page, Sequences(page))
  BY <1>2 DEF ExistsBijection
<1> QED
  BY <1>1, <1>3, FS_Bijection

\* What has been listed: nothing twice, nothing older than the cursor, and of the
\* rows that remained all but those older than it.
PagerInv ==
  /\ EventsTypeOK /\ HistoryInv
  /\ listing \in {"idle", "open", "done"}
  /\ cursor \in Nat
  /\ listed \subseteq Nat /\ IsFiniteSet(listed)
  /\ remained \subseteq Nat
  /\ count = Cardinality(listed)
  /\ listing = "idle" => cursor = 0 /\ listed = {}
  /\ listing = "open" =>
       /\ cursor > 0
       /\ \A s \in listed : s >= cursor
       /\ \A s \in remained : s >= cursor => s \in listed
  /\ listing = "done" => remained \subseteq listed

LEMMA PagerInsert ==
  ASSUME EventsTypeOK, HistoryInv, NEW details \in Details, InsertAccessEvent(details),
         UNCHANGED clockVars
  PROVE  /\ EventsTypeOK' /\ HistoryInv'
         /\ lastSequence' \in Nat /\ Numbered(events', lastSequence')
<1>1. EventsTypeOK'
  BY InsertType
<1>2. Len(<<details>>) \in Nat
  OBVIOUS
<1>3. HistoryInv'
  BY <1>2, InsertsKeepHistory DEF InsertAccessEvent
<1> QED
  BY <1>1, <1>3 DEF EventsTypeOK, HistoryInv, Numbered

LEMMA ReadPageKeeps ==
  ASSUME PagerInv, NEW d \in Device, NEW limit \in PageLimits, ReadPage(d, limit)
  PROVE  PagerInv'
<1> DEFINE page == Page(events', limit, cursor)
           older == Older(events', cursor)
<1>1. limit \in Nat \ {0}
  BY PagerConstants
<1>2. /\ EventsTypeOK' /\ HistoryInv'
      /\ lastSequence' \in Nat /\ Numbered(events', lastSequence')
  <2>1. Event(d, TRUE, NoDevice, "event_list", "succeeded", "none") \in Details
    BY EventType DEF Operations, Outcomes, Reasons
  <2> QED
    BY <2>1, PagerInsert DEF ReadPage, PagerInv
<1>3. /\ listed' = listed \cup Sequences(page)
      /\ count' = count + Cardinality(page)
      /\ cursor' = NextCursor(events', limit, cursor)
      /\ listing' = IF HasMore(events', limit, cursor) THEN "open" ELSE "done"
      /\ remained' = IF listing = "idle" THEN Sequences(events') ELSE Remaining
      /\ listing # "done"
  BY DEF ReadPage
<1>4. /\ page \subseteq older
      /\ \A p \in page, r \in older \ page : r.seq < p.seq
      /\ ~HasMore(events', limit, cursor) => page = older
      /\ HasMore(events', limit, cursor) => page # {}
  BY <1>1, <1>2, PageIsNewest
<1>5. older = {r \in events' : cursor = 0 \/ r.seq < cursor}
  BY DEF Older
<1>6. \A r \in events' : r.seq \in Nat \ {0}
  BY <1>2 DEF Numbered
<1> HIDE DEF page, older
<1>7. /\ Sequences(page) \subseteq Nat \ {0} /\ IsFiniteSet(Sequences(page))
      /\ Cardinality(Sequences(page)) = Cardinality(page)
  <2>1. page \subseteq events'
    BY <1>4, <1>5
  <2> QED
    BY <1>2, <1>6, <2>1, PageCount DEF Sequences
<1>8. listed \cap Sequences(page) = {}
  <2> SUFFICES ASSUME NEW r \in page, r.seq \in listed PROVE FALSE
    BY DEF Sequences
  <2>1. listing = "open"
    BY <1>3 DEF PagerInv
  <2>2. cursor > 0 /\ cursor \in Nat /\ r.seq >= cursor
    BY <2>1 DEF PagerInv
  <2>3. r \in events' /\ (cursor = 0 \/ r.seq < cursor)
    BY <1>4, <1>5
  <2> QED
    BY <1>6, <2>2, <2>3
<1>9. listed' \subseteq Nat /\ IsFiniteSet(listed') /\ count' = Cardinality(listed')
  <2>1. /\ IsFiniteSet(listed \cup Sequences(page))
        /\ Cardinality(listed \cup Sequences(page)) =
             Cardinality(listed) + Cardinality(Sequences(page)) - Cardinality({})
    BY <1>7, <1>8, FS_Union DEF PagerInv
  <2>2. Cardinality({}) = 0 /\ Cardinality(listed) \in Nat /\ Cardinality(page) \in Nat
    BY <1>7, FS_EmptySet, FS_CardinalityType DEF PagerInv
  <2>3. Cardinality(listed \cup Sequences(page)) = Cardinality(listed) + Cardinality(page)
    BY <1>7, <2>1, <2>2
  <2> QED
    BY <1>3, <1>7, <2>1, <2>3 DEF PagerInv
<1>10. remained' \subseteq Sequences(events') /\ Sequences(events') \subseteq Nat
  BY <1>3, <1>6 DEF Remaining, Sequences
<1>11. ASSUME NEW s \in remained', s \notin listed
       PROVE  \E r \in older : r.seq = s
  <2>1. PICK r \in events' : r.seq = s
    BY <1>10 DEF Sequences
  <2>2. CASE listing = "idle"
    BY <1>5, <2>1, <2>2 DEF PagerInv
  <2>3. CASE listing = "open"
    <3>1. s \in remained
      BY <1>3, <1>11, <2>3 DEF Remaining
    <3>2. s < cursor
      BY <1>11, <2>3, <3>1 DEF PagerInv
    <3> QED
      BY <1>5, <2>1, <3>2
  <2> QED
    BY <1>3, <2>2, <2>3 DEF PagerInv
<1>12. CASE HasMore(events', limit, cursor)
  <2>1. cursor' \in Sequences(page) /\ \A r \in page : cursor' <= r.seq
    BY <1>1, <1>2, <1>3, <1>12, CursorIsLeast DEF page
  <2>2. cursor' \in Nat /\ cursor' > 0
    BY <1>7, <2>1
  <2>3. \A s \in Sequences(page) : s >= cursor'
    BY <1>7, <2>1, <2>2 DEF Sequences
  <2>4. PICK p \in page : p.seq = cursor'
    BY <2>1 DEF Sequences
  <2>5. ASSUME NEW s \in listed PROVE s >= cursor'
    <3>1. listing = "open" /\ s >= cursor /\ s \in Nat /\ cursor \in Nat /\ cursor # 0
      BY <1>3, <2>5 DEF PagerInv
    <3>2. p.seq < cursor
      BY <1>4, <1>5, <3>1
    <3> QED
      BY <2>2, <2>4, <3>1, <3>2
  <2>6. ASSUME NEW s \in remained', s >= cursor' PROVE s \in listed'
    <3>1. CASE s \in listed
      BY <1>3, <3>1
    <3>2. CASE s \notin listed
      <4>1. PICK r \in older : r.seq = s
        BY <1>11, <3>2
      <4>2. r.seq \in Nat
        BY <1>5, <1>6
      <4>3. r \in page
        BY <1>4, <2>2, <2>4, <2>6, <4>1, <4>2
      <4> QED
        BY <1>3, <4>1, <4>3 DEF Sequences
    <3> QED
      BY <3>1, <3>2
  <2>7. listing' = "open" /\ \A s \in listed' : s >= cursor'
    BY <1>3, <1>12, <2>3, <2>5
  <2> QED
    BY <1>2, <1>9, <1>10, <2>2, <2>6, <2>7 DEF PagerInv
<1>13. CASE ~HasMore(events', limit, cursor)
  <2>1. cursor' = 0 /\ listing' = "done" /\ page = older
    BY <1>3, <1>4, <1>13 DEF NextCursor
  <2>2. ASSUME NEW s \in remained' PROVE s \in listed'
    BY <1>3, <1>11, <2>1 DEF Sequences
  <2> QED
    BY <1>2, <1>9, <1>10, <2>1, <2>2 DEF PagerInv
<1> QED
  BY <1>12, <1>13

LEMMA PagerStep ==
  ASSUME NEW maxSec, PagerInv, [PagerNext(maxSec)]_<<clockVars, eventVars, pagerVars>>
  PROVE  PagerInv'
<1>1. ASSUME NEW d \in Device, NEW limit \in PageLimits, ReadPage(d, limit)
      PROVE  PagerInv'
  BY <1>1, ReadPageKeeps
<1>2. ASSUME NEW d \in Device, NEW verified \in BOOLEAN, OtherEvent(d, verified)
      PROVE  PagerInv'
  <2> DEFINE details == Event(d, verified, NoDevice, "record_list",
                              IF verified THEN "succeeded" ELSE "denied",
                              IF verified THEN "none" ELSE "invalid_signature")
  <2>1. details \in Details
    BY EventType DEF Operations, Outcomes, Reasons
  <2>2. InsertAccessEvent(details) /\ UNCHANGED <<clockVars, listing, cursor, listed, count>>
        /\ remained' = Remaining
    BY <1>2 DEF OtherEvent
  <2> HIDE DEF details
  <2>3. EventsTypeOK' /\ HistoryInv'
    BY <2>1, <2>2, PagerInsert DEF PagerInv
  <2> QED
    BY <2>2, <2>3 DEF PagerInv, Remaining
<1>3. ASSUME StartOver PROVE PagerInv'
  <2>1. EventsTypeOK' /\ HistoryInv'
    BY <1>3 DEF StartOver, PagerInv, EventsTypeOK, HistoryInv, NewerOf, CapOf, clockVars, eventVars
  <2> QED
    BY <1>3, <2>1, FS_EmptySet DEF StartOver, PagerInv
<1>4. ASSUME AdvanceClock(maxSec), UNCHANGED <<eventVars, pagerVars>> PROVE PagerInv'
  <2>1. EventsTypeOK'
    BY <1>4, EventConstants DEF AdvanceClock, PagerInv, EventsTypeOK, eventVars
  <2>2. HistoryInv'
    BY <1>4 DEF PagerInv, HistoryInv, NewerOf, CapOf, eventVars
  <2> QED
    BY <1>4, <2>1, <2>2 DEF PagerInv, pagerVars
<1>5. ASSUME UNCHANGED <<clockVars, eventVars, pagerVars>> PROVE PagerInv'
  <2>1. EventsTypeOK' /\ HistoryInv'
    BY <1>5 DEF PagerInv, EventsTypeOK, HistoryInv, NewerOf, CapOf, clockVars, eventVars
  <2> QED
    BY <1>5, <2>1 DEF PagerInv, pagerVars
<1> QED
  BY <1>1, <1>2, <1>3, <1>4, <1>5 DEF PagerNext

\* listAccessEvents and its cursors: whatever is added, ages and is pruned while
\* a client reads, whatever limits it asks for, it is given no event twice and
\* misses none that was there throughout (EventsAreListedOnce).
THEOREM EventsListedOnce ==
  ASSUME NEW CONSTANT maxSec
  PROVE  PagerSpec(maxSec) => []EventsAreListedOnce
<1>1. EventsInit /\ PagerInit => PagerInv
  BY EventConstants, FS_EmptySet
  DEF EventsInit, PagerInit, PagerInv, EventsTypeOK, HistoryInv
<1>2. PagerInv /\ [PagerNext(maxSec)]_<<clockVars, eventVars, pagerVars>> => PagerInv'
  BY PagerStep
<1>3. PagerInv => EventsAreListedOnce
  BY DEF PagerInv, EventsAreListedOnce
<1> QED
  BY <1>1, <1>2, <1>3, PTL DEF PagerSpec

=============================================================================

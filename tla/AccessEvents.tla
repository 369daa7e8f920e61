---------------------------- MODULE AccessEvents ----------------------------
(***************************************************************************)
(* The access_events table of internal/server/events.go: one vault's       *)
(* privacy-preserving access history, and its retention.                   *)
(*                                                                         *)
(* The service clock is read as (sec, frac): a whole second and a fraction *)
(* of it.  RFC3339 text keeps sec alone; RFC3339Nano text keeps both but   *)
(* drops a zero fraction, which decides how two stamps compare.            *)
(***************************************************************************)
EXTENDS Integers, FiniteSets, Sequences

CONSTANTS
  FracPerSec,          \* clock readings told apart in a second: tenths of it
  EventMaxAge,         \* eventMaxAge, in seconds
  MaxVerifiedEvents,   \* maxVerifiedEvents
  MaxUnverifiedEvents, \* maxUnverifiedEvents
  Device,            \* device identifiers
  NoDevice           \* a NULL identity_id or target_identity_id

ASSUME EventConstants ==
  /\ FracPerSec \in 1..10
  /\ EventMaxAge \in Nat \ {0}
  /\ MaxVerifiedEvents \in Nat \ {0}
  /\ MaxUnverifiedEvents \in Nat \ {0}
  /\ NoDevice \notin Device

VARIABLES
  sec, frac,     \* the clock s.now()
  events,        \* rows of access_events
  lastSequence   \* the AUTOINCREMENT counter of access_events

clockVars == <<sec, frac>>
eventVars == <<events, lastSequence>>

Operations ==
  {"enrollment_request", "enrollment_list", "enrollment_status",
   "enrollment_approval", "device_list", "device_revocation",
   "record_list", "record_update", "event_list",
   "invitation_creation", "invitation_list", "invitation_status",
   "invitation_approval", "invitation_rejection",
   "invitation_cancellation", "invitation_expiry",
   "object_list", "object_read", "object_update", "object_delete"}

Outcomes == {"succeeded", "rejected", "denied"}

Reasons ==
  {"none", "invalid_signature", "stale_timestamp", "replay",
   "revoked_device", "pending_device", "invalid_request",
   "unknown_device", "not_found", "revision_conflict", "already_revoked",
   "already_approved", "final_active_device", "binding_mismatch",
   "terminal_conflict", "attempt_exhaustion", "incorrect_actor",
   "unsupported_version", "expired"}

Details ==
  [identity : Device \cup {NoDevice}, verified : BOOLEAN,
   target : Device \cup {NoDevice}, op : Operations,
   outcome : Outcomes, reason : Reasons]

Event(id, verified, target, op, outcome, reason) ==
  [identity |-> id, verified |-> verified, target |-> target,
   op |-> op, outcome |-> outcome, reason |-> reason]

-----------------------------------------------------------------------------
\* Text order of two RFC3339Nano stamps: within one second the stamp with no
\* fraction ("...00Z") sorts after every stamp with one ("...00.5Z").
TextBefore(s1, f1, s2, f2) ==
  \/ s1 < s2
  \/ /\ s1 = s2
     /\ f1 # 0
     /\ f2 = 0 \/ f1 < f2

RowOf(details, sequence) ==
  [seq |-> sequence, sec |-> sec, frac |-> frac, event |-> details]

Aged(row) == TextBefore(row.sec, row.frac, sec - EventMaxAge, frac)

CapOf(verified) == IF verified THEN MaxVerifiedEvents ELSE MaxUnverifiedEvents

\* Mutant: one cap over both classes of events.
NewerOfAnyClass(rows, row) == {r \in rows : r.seq > row.seq}

NewerOf(rows, row) ==
  {r \in rows : r.event.verified = row.event.verified /\ r.seq > row.seq}

\* What pruneAccessEvents leaves: nothing aged, and of the verified and of the
\* unverified rows the newest ones up to that class's own cap.
Prune(rows) ==
  LET young == {r \in rows : ~Aged(r)}
  IN  {r \in young : Cardinality(NewerOf(young, r)) < CapOf(r.event.verified)}

\* insertAccessEvent, called once for each member of a sequence within one
\* transaction.  Pruning after the last insertion leaves what pruning after
\* each one does: the caps keep the newest rows and the clock reading is one.
InsertAccessEvents(list) ==
  /\ events' = Prune(events \cup
                 {RowOf(list[i], lastSequence + i) : i \in 1..Len(list)})
  /\ lastSequence' = lastSequence + Len(list)

InsertAccessEvent(details) == InsertAccessEvents(<<details>>)

-----------------------------------------------------------------------------
EventsTypeOK ==
  /\ sec \in Nat
  /\ frac \in 0..(FracPerSec - 1)
  /\ lastSequence \in Nat
  /\ \A r \in events :
       /\ r.seq \in 1..lastSequence
       /\ r.sec \in Nat
       /\ r.frac \in 0..(FracPerSec - 1)
       /\ r.event \in Details

EventsInit ==
  /\ sec = 0
  /\ frac = 0
  /\ events = {}
  /\ lastSequence = 0

\* Time passes: to the next fraction of a second, or to the next second.
AdvanceClock(maxSec) ==
  /\ IF frac + 1 < FracPerSec
       THEN frac' = frac + 1 /\ sec' = sec
       ELSE frac' = 0 /\ sec' = sec + 1
  /\ sec' <= maxSec
=============================================================================

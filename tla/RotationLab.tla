---------------------------- MODULE RotationLab ----------------------------
(***************************************************************************)
(* The rotation workflow of internal/testlab, the one runtime that the     *)
(* repository has for the lifecycle of a credential: start and resume of   *)
(* an operation, its checkpoints, failures and rollback.                   *)
(*                                                                         *)
(* Calls are serialized by a mutex and work on a state in memory, which is *)
(* written to disk as a whole at each checkpoint.  The process may stop at *)
(* any point, and a write may fail; what faults were configured, and where *)
(* the clock stands, is a choice at each checkpoint.  One provider, hence  *)
(* one record; the two destinations are staged and activated alike, one    *)
(* after the other, and are taken as one.                                  *)
(***************************************************************************)
EXTENDS Integers, Sequences

CONSTANTS MaxOperations, MaxWrites  \* bounds: operations, writes of the record

ASSUME LabBounds == MaxOperations \in Nat /\ MaxWrites \in Nat

VARIABLES
  lab,         \* lab.state, in memory
  disk,        \* the persisted state
  call,        \* the call that holds the mutex
  before,      \* history: the credential that each operation is to replace
  interrupted  \* history: operations that lost the revision they had stored

labVars == <<lab, disk, call, before, interrupted>>

Ids == 1..MaxOperations

\* A credential is known by the operation that created it; 0 is none.
NoRecord == [revision |-> 0, value |-> 0, previous |-> 0]
NewOperation == [state |-> "planned", revision |-> 0, attempts |-> 0]
Idle == [op |-> 0, at |-> "idle", error |-> "none"]

Final == {"complete", "rolled-back", "terminal-failure"}
Resumable == {"retryable", "reconciliation-required", "verifying", "grace-period"}

\* What a fault can be; "other" is every error that is none of the named ones.
Behaviors == {"ambiguous-commit", "retryable", "rollback-failure", "other"}

\* The checkpoints, with the steps of continueLocked between them.
Checkpoints == {"acquire", "store", "stage", "activate", "verify", "revoke"}
After(at) ==
  CASE at = "acquire"  -> "create"
    [] at = "create"   -> "store"
    [] at = "store"    -> "stage"
    [] at = "stage"    -> "deploy"
    [] at = "deploy"   -> "activate"
    [] at = "activate" -> "verify"
    [] OTHER           -> "finish"

RotationTypeOK ==
  /\ \A s \in {lab, disk} :
       /\ s.record.revision \in 0..MaxWrites
       /\ {s.record.value, s.record.previous} \subseteq 0..Len(s.ops)
       /\ s.lease \in 0..Len(s.ops)
       /\ \A o \in DOMAIN s.ops :
            /\ s.ops[o].state \in {"planned"} \cup Final \cup Resumable
            /\ s.ops[o].revision \in 0..s.record.revision
            /\ s.ops[o].attempts \in 0..3
  /\ call.op \in 0..Len(lab.ops)
  /\ call.op # 0 => lab.lease = call.op
  /\ interrupted \subseteq Ids

RotationInit ==
  /\ lab = [ops |-> <<>>, record |-> NoRecord, lease |-> 0]
  /\ disk = lab
  /\ call = Idle
  /\ before = [o \in Ids |-> 0]
  /\ interrupted = {}

-----------------------------------------------------------------------------
\* saveLocked, of a state that the memory has in any case.
Save(state) == lab' = state /\ disk' = state
SaveFails(state) == lab' = state /\ UNCHANGED disk

Goto(at) == call' = [call EXCEPT !.at = at]
Err(error) == call' = [call EXCEPT !.at = "failing", !.error = error]
Done == call' = Idle
At(at) == call.at = at
Mine == lab.ops[call.op]

LeaseIsFree == lab.lease = 0

\* startLocked: with the lease held by another operation it does nothing.
StartLocked ==
  /\ At("idle")
  /\ LeaseIsFree
  /\ Len(lab.ops) < MaxOperations
  /\ LET o == Len(lab.ops) + 1 IN
       /\ lab' = [lab EXCEPT !.ops = Append(@, NewOperation), !.lease = o]
       /\ call' = [Idle EXCEPT !.op = o, !.at = "acquire"]
       /\ before' = [before EXCEPT ![o] = lab.record.value]
       /\ interrupted' = interrupted \ {o}
  /\ UNCHANGED disk

\* checkpointLocked: the state is saved, and the operation goes on; or a fault
\* is configured for it, or the state cannot be saved.
CheckpointLocked ==
  /\ call.at \in Checkpoints \ {"revoke"}
  /\ Save(lab)
  /\ Goto(After(call.at))
  /\ UNCHANGED <<before, interrupted>>

FaultLocked(behavior) ==
  /\ call.at \in Checkpoints
  /\ Save(lab) \/ SaveFails(lab)
  /\ Err(behavior)
  /\ UNCHANGED <<before, interrupted>>

\* Mutant: a credential is created whether or not there is one already.
NeedsAny == TRUE

\* continueLocked creates a credential unless it knows of one.
NeedsCredential == Mine.revision = 0

\* Mutant: a previous value that is there already is kept instead.
StoredOverOldest ==
  [revision |-> lab.record.revision + 1, value |-> call.op,
   previous |-> IF lab.record.previous = 0 THEN lab.record.value ELSE lab.record.previous]

\* StoreSecret: the value that is replaced is kept as the previous one.
Stored == [revision |-> lab.record.revision + 1, value |-> call.op,
           previous |-> lab.record.value]

\* acquireCredentialLocked: the record is saved before the operation knows
\* its revision, which the next checkpoint saves.
AcquireCredentialLocked ==
  LET stored == [lab EXCEPT !.record = Stored]
      known  == [stored EXCEPT !.ops[call.op].revision = stored.record.revision]
  IN
  /\ At("create")
  /\ IF NeedsCredential
     THEN /\ lab.record.revision < MaxWrites
          /\ \/ lab' = known /\ disk' = stored
                /\ (Goto("store") \/ Err("other"))
             \/ SaveFails(stored) /\ Err("other")
             \/ UNCHANGED <<lab, disk>> /\ Err("other")
     ELSE Goto("store") /\ UNCHANGED <<lab, disk>>
  /\ UNCHANGED <<before, interrupted>>

\* stageFromRecordLocked: the record must be at the operation's revision.
StageFromRecordLocked ==
  /\ At("deploy")
  /\ \/ lab.record.revision = Mine.revision /\ Save(lab) /\ Goto("activate")
     \/ UNCHANGED <<lab, disk>> /\ Err("other")
  /\ UNCHANGED <<before, interrupted>>

FinishLocked ==
  /\ At("finish")
  /\ LET state == [lab EXCEPT !.ops[call.op].state = "verifying"]
     IN Save(state) \/ SaveFails(state)
  /\ Done
  /\ UNCHANGED <<before, interrupted>>

-----------------------------------------------------------------------------
\* resumeLocked, by the state that the operation is in.
ContinueLocked(o) ==
  /\ At("idle")
  /\ lab.ops[o].state \in {"retryable", "reconciliation-required"}
  /\ call' = [Idle EXCEPT !.op = o, !.at = "create"]
  /\ UNCHANGED <<lab, disk, before, interrupted>>

\* Three health checks and half a minute after the first.
EnterGracePeriod(o) ==
  /\ At("idle")
  /\ lab.ops[o].state = "verifying"
  /\ LET state == [lab EXCEPT !.ops[o].state = "grace-period"]
     IN Save(state) \/ SaveFails(state)
  /\ UNCHANGED <<call, before, interrupted>>

\* The grace period is over: the last checkpoint.
RevokeLocked(o) ==
  /\ At("idle")
  /\ lab.ops[o].state = "grace-period"
  /\ call' = [Idle EXCEPT !.op = o, !.at = "revoke"]
  /\ UNCHANGED <<lab, disk, before, interrupted>>

CompleteLocked ==
  /\ At("revoke")
  /\ lab' = [lab EXCEPT !.ops[call.op].state = "complete", !.lease = 0]
  /\ disk' \in {lab', lab}
  /\ Done
  /\ UNCHANGED <<before, interrupted>>

-----------------------------------------------------------------------------
\* failureLocked

Attempted(n) == IF n < 3 THEN n + 1 ELSE 3

FailedState(behavior, attempts) ==
  CASE behavior = "ambiguous-commit" -> "reconciliation-required"
    [] behavior = "retryable"        -> IF attempts >= 3 THEN "terminal-failure" ELSE "retryable"
    [] behavior = "rollback-failure" -> "terminal-failure"
    [] OTHER                         -> "rolled-back"

\* A rollback puts the previous value back, if there is one.
RolledBack(record) ==
  IF record.previous = 0 THEN record
  ELSE [revision |-> record.revision + 1, value |-> record.previous, previous |-> 0]

\* The failures that end an operation release its lease.
Releases == {"rolled-back", "terminal-failure"}

FailureLocked ==
  LET attempts == Attempted(Mine.attempts)
      state == FailedState(call.error, attempts)
  IN
  /\ At("failing")
  /\ state = "rolled-back" => lab.record.revision < MaxWrites
  /\ lab' = [lab EXCEPT
               !.ops[call.op].state = state,
               !.ops[call.op].attempts = attempts,
               !.record = IF state = "rolled-back" THEN RolledBack(@) ELSE @,
               !.lease = IF state \in Releases THEN 0 ELSE @]
  /\ disk' \in {lab', disk}
  /\ Done
  /\ UNCHANGED <<before, interrupted>>

-----------------------------------------------------------------------------
\* The laboratory is opened again with what is on disk.
Restart ==
  /\ lab # disk \/ ~At("idle")
  /\ lab' = disk
  /\ Done
  /\ interrupted' = interrupted \cup
       {o \in DOMAIN disk.ops : disk.ops[o].revision = 0 /\ lab.ops[o].revision # 0}
  /\ UNCHANGED <<disk, before>>

RotationNext ==
  \/ StartLocked \/ CheckpointLocked
  \/ \E behavior \in Behaviors : FaultLocked(behavior)
  \/ AcquireCredentialLocked \/ StageFromRecordLocked \/ FinishLocked
  \/ \E o \in DOMAIN lab.ops : ContinueLocked(o) \/ EnterGracePeriod(o) \/ RevokeLocked(o)
  \/ CompleteLocked \/ FailureLocked
  \/ Restart

RotationSpec == RotationInit /\ [][RotationNext]_labVars

-----------------------------------------------------------------------------
(* Properties *)

\* docs/architecture.md: "rollback restores prior revisions".  An operation
\* that had stored a credential and is rolled back leaves the record with the
\* credential that it was to replace, however often it was retried.  Excused:
\* a stop between the write of the record and that of its revision, after
\* which the operation stores a second credential over its first.
RollbackRestores ==
  [][\A o \in DOMAIN lab.ops \cap DOMAIN lab'.ops :
       /\ lab.ops[o].state # "rolled-back" /\ lab'.ops[o].state = "rolled-back"
       /\ lab.ops[o].revision # 0 /\ o \notin interrupted /\ before[o] # 0
       => lab'.record.value = before[o]]_labVars

\* Operations that were rolled back before they stored anything: the previous
\* value that they put back is that of an earlier rotation.
RolledBackEmpty ==
  \E o \in DOMAIN lab.ops : lab.ops[o].state = "rolled-back" /\ lab.ops[o].revision = 0

\* A credential that a completed rotation has replaced, and revoked, is never
\* current again, but for the rollback of an operation that stored nothing.
RevokedStaysRevoked ==
  \/ RolledBackEmpty
  \/ \A o \in DOMAIN lab.ops :
       lab.ops[o].state = "complete" /\ before[o] # 0 => lab.record.value # before[o]

\* Whoever holds the lease is at work, or can be resumed.  The one exception
\* is an operation whose first call was cut short: it is planned on disk,
\* resume ignores it, and its lease is held for good.
LeaseIsLive ==
  lab.lease # 0 =>
    \/ call.op = lab.lease
    \/ lab.ops[lab.lease].state \in Resumable \cup {"planned"}

\* Rotations that complete, fail and are rolled back one after another, with
\* restarts: no revoked credential comes back, and no lease is left to nobody.
RotationIsSound == RevokedStaysRevoked /\ LeaseIsLive
=============================================================================

--------------------------- MODULE RolloutEngine ---------------------------
(***************************************************************************)
(* Apply and Resume of internal/rollout/engine.go on one confirmed plan.   *)
(*                                                                         *)
(* The operation is an encrypted object of the vault: every checkpoint is  *)
(* a write at the revision that the process last read or wrote, and any    *)
(* number of processes may resume the operation at once.  A process may    *)
(* crash at any point.  A request to the provider may fail, or take effect *)
(* while its process waits, after the process has given up on it or after  *)
(* the process has crashed.  A checkpoint may be stored and its response   *)
(* lost.                                                                   *)
(***************************************************************************)
EXTENDS Integers, FiniteSets

CONSTANTS
  Worker,      \* processes that apply or resume the operation
  Sets,        \* the actions that create, update or upsert a variable
  Revokes,     \* the actions that revoke one
  Retriable,   \* retriableWrite(capabilities)
  Masked,      \* does Inspect report the presence of variables?
  Attests,     \* does Inspect report the write key of the last write?
  Validates,   \* capabilities.Validate
  Atomic,      \* is the adapter an AtomicBatchAdapter?
  Classifies,  \* are "safe" and "never" errors reported only of requests that
               \* took no effect?  Railway's adapter does, Cloudflare's calls
               \* a lost connection safe
  MaxRevision, \* bound: the last revision of the operation object
  MaxStale     \* bound: changes to the snapshot and to the plan's records

Action == Sets \cup Revokes

ASSUME RolloutConstants ==
  /\ Sets \cup Revokes \subseteq Nat \ {0}
  /\ Sets \cap Revokes = {}
  /\ IsFiniteSet(Sets \cup Revokes)
  /\ Sets \cup Revokes # {}
  /\ {Retriable, Masked, Attests, Validates, Atomic, Classifies} \subseteq BOOLEAN
  /\ MaxRevision \in Nat
  /\ MaxStale \in Nat

VARIABLES
  stored,    \* the operation object
  stale,     \* what is no longer at the revision in the plan: Snapshot, or the
             \* records of these actions
  variables, \* the provider's variables, one per action
  transit,   \* actions with a request that nobody waits for any more
  pc,        \* where each process is in advance
  mine,      \* its copy of the operation, and the revision it expects
  seen,      \* what its Inspect returned
  at,        \* the action it is writing or verifying
  done,      \* has the request it waits for taken effect?
  applied,   \* history: how often each action took effect; 2 is "or more"
  mistaken   \* history: an action was taken for not written, and was or
             \* is still to be

vars == <<stored, stale, variables, transit, pc, mine, seen, at, done,
          applied, mistaken>>
providerVars == <<variables, transit, applied>>
localVars == <<pc, mine, seen, at, done>>

Snapshot == 0

Statuses ==
  {"none", "confirmed", "writing", "retryable", "reconciliation", "written",
   "verifying", "ready", "limited", "failed"}

ActionStatuses == {"pending", "in_flight", "committed", "verified", "limited"}

\* Evidence of a write is kept in these.
Written == {"committed", "verified", "limited"}

Operation ==
  [revision : Nat, status : Statuses, actions : [Action -> ActionStatuses]]

NoOperation ==
  [revision |-> 0, status |-> "none",
   actions |-> [a \in Action |-> "pending"]]

\* What Inspect says of a variable: absent, present, written by this
\* operation's key, or nothing at all.
Reports == {"unknown", "absent", "present", "ours"}

NoReport == [a \in Action |-> "unknown"]

Phases == {"idle", "inspecting", "advancing", "writing", "written", "verifying"}

TypeOK ==
  /\ stored \in Operation
  /\ stale \subseteq Sets \cup {Snapshot}
  /\ variables \in [Action -> {"absent", "foreign", "ours"}]
  /\ transit \subseteq Action
  /\ pc \in [Worker -> Phases]
  /\ mine \in [Worker -> Operation]
  /\ seen \in [Worker -> [Action -> Reports]]
  /\ at \in [Worker -> Action \cup {-1}]
  /\ done \in [Worker -> BOOLEAN]
  /\ applied \in [Action -> 0..2]
  /\ mistaken \in BOOLEAN

Init ==
  /\ stored = NoOperation
  /\ stale = {}
  /\ variables \in [Action -> {"absent", "foreign"}]
  /\ transit = {}
  /\ pc = [w \in Worker |-> "idle"]
  /\ mine = [w \in Worker |-> NoOperation]
  /\ seen = [w \in Worker |-> NoReport]
  /\ at = [w \in Worker |-> -1]
  /\ done = [w \in Worker |-> FALSE]
  /\ applied = [a \in Action |-> 0]
  /\ mistaken = FALSE

-----------------------------------------------------------------------------
\* The call returns, with whatever result, or its process dies.
Return(w) ==
  /\ pc' = [pc EXCEPT ![w] = "idle"]
  /\ mine' = [mine EXCEPT ![w] = NoOperation]
  /\ seen' = [seen EXCEPT ![w] = NoReport]
  /\ at' = [at EXCEPT ![w] = -1]
  /\ done' = [done EXCEPT ![w] = FALSE]

\* Mutant: a checkpoint is stored whatever revision it expects.
MayStoreBlindly(op) == op.revision < MaxRevision

\* The vault stores an operation only at the revision its writer expects.
MayStore(op) == stored.revision = op.revision /\ op.revision < MaxRevision

Checkpoint(op) == [op EXCEPT !.revision = @ + 1]

\* SaveOperation, after which advance goes on in phase next at action a.  When
\* it fails, or is stored and its response lost, the call returns.
Save(w, op, next, a) ==
  \/ /\ MayStore(op)
     /\ stored' = Checkpoint(op)
     /\ \/ /\ mine' = [mine EXCEPT ![w] = Checkpoint(op)]
           /\ pc' = [pc EXCEPT ![w] = next]
           /\ at' = [at EXCEPT ![w] = a]
           /\ done' = [done EXCEPT ![w] = FALSE]
           /\ UNCHANGED seen
        \/ Return(w)
  \/ UNCHANGED stored /\ Return(w)

\* A last SaveOperation: the call returns whatever comes of it.
SaveAndReturn(w, op) ==
  /\ \/ MayStore(op) /\ stored' = Checkpoint(op)
     \/ UNCHANGED stored
  /\ Return(w)

First(S) == CHOOSE a \in S : \A b \in S : a <= b

\* Mutant: actions in flight are passed over.
UnwrittenIsPending(op) == {a \in Action : op.actions[a] = "pending"}

\* The actions that advance's loop does not pass over.
Unwritten(op) == {a \in Action : op.actions[a] \notin Written}

-----------------------------------------------------------------------------
(* Apply and Resume *)

\* Apply, once the plan is validated and confirmed.
Apply(w) ==
  /\ pc[w] = "idle"
  /\ stale = {}
  /\ stored = NoOperation
  /\ Save(w, [NoOperation EXCEPT !.status = "confirmed"], "inspecting", -1)
  /\ UNCHANGED <<stale, providerVars, mistaken>>

Terminal == {"ready", "limited", "failed"}

\* Resume loads the operation and validates the plan's context again.
Resume(w) ==
  /\ pc[w] = "idle"
  /\ stored.revision > 0
  /\ stored.status \notin Terminal
  /\ stale = {}
  /\ mine' = [mine EXCEPT ![w] = stored]
  /\ pc' = [pc EXCEPT ![w] = "inspecting"]
  /\ UNCHANGED <<stored, stale, providerVars, seen, at, done, mistaken>>

Report(a) ==
  IF Attests /\ variables[a] = "ours" THEN "ours"
  ELSE IF ~Masked THEN "unknown"
  ELSE IF variables[a] = "absent" THEN "absent"
  ELSE "present"

\* One inspection serves the whole of advance.
Inspect(w) ==
  /\ pc[w] = "inspecting"
  /\ \/ /\ seen' = [seen EXCEPT ![w] = [a \in Action |-> Report(a)]]
        /\ pc' = [pc EXCEPT ![w] = "advancing"]
        /\ UNCHANGED <<mine, at, done>>
     \/ Return(w)
  /\ UNCHANGED <<stored, stale, providerVars, mistaken>>

-----------------------------------------------------------------------------
(* Writing, action by action *)

Advancing(w, a) ==
  /\ pc[w] = "advancing"
  /\ ~Atomic
  /\ Unwritten(mine[w]) # {}
  /\ a = First(Unwritten(mine[w]))

Ambiguous(w, a) == mine[w].actions[a] = "in_flight" /\ ~Retriable

\* reconcileAction: what the inspection proves of an ambiguous action.
Reconciled(w, a) ==
  IF seen[w][a] = "ours" THEN "committed"
  ELSE IF seen[w][a] # "absent" THEN "in_flight"
  ELSE IF a \in Revokes THEN "committed"
  ELSE "pending"

\* The action has taken effect, or a request for it may still do so.
Underway(a) ==
  \/ applied[a] > 0
  \/ a \in transit
  \/ \E w \in Worker : pc[w] = "writing" /\ at[w] = a

Reconcile(w) ==
  \E a \in Action :
    LET status == Reconciled(w, a)
    IN  /\ Advancing(w, a)
        /\ Ambiguous(w, a)
        /\ IF status = "in_flight"
             THEN SaveAndReturn(w, [mine[w] EXCEPT !.status = "reconciliation"])
             ELSE Save(w, [mine[w] EXCEPT !.actions[a] = status],
                       "advancing", -1)
        /\ mistaken' = (mistaken \/ (status = "pending" /\ Underway(a)))
        /\ UNCHANGED <<stale, providerVars>>

\* The record is read at its pinned revision, and the action checkpointed as in
\* flight before the provider is called.
BeginWrite(w) ==
  \E a \in Action :
    /\ Advancing(w, a)
    /\ ~Ambiguous(w, a)
    /\ IF a \notin stale
         THEN Save(w, [mine[w] EXCEPT !.status = "writing",
                                      !.actions[a] = "in_flight"],
                   "writing", a)
         ELSE UNCHANGED stored /\ Return(w)
    /\ UNCHANGED <<stale, providerVars, mistaken>>

-----------------------------------------------------------------------------
(* advanceAtomicBatch *)

\* A batch is staged whole, or not at all when part of it is committed.
BeginStage(w) ==
  /\ pc[w] = "advancing"
  /\ Atomic
  /\ Unwritten(mine[w]) # {}
  /\ IF Unwritten(mine[w]) = Action /\ stale \cap Sets = {}
       THEN Save(w, [mine[w] EXCEPT !.status = "writing",
                       !.actions = [a \in Action |-> "in_flight"]],
                 "writing", First(Action))
       ELSE UNCHANGED stored /\ Return(w)
  /\ UNCHANGED <<stale, providerVars, mistaken>>

-----------------------------------------------------------------------------
(* The provider's answers *)

\* The actions of the request that a process waits for.
Requested(w) == IF Atomic THEN Action ELSE {at[w]}

\* A request takes effect for the actions S.
TakesEffect(S) ==
  /\ variables' = [a \in Action |->
       IF a \notin S THEN variables[a]
       ELSE IF a \in Revokes THEN "absent" ELSE "ours"]
  /\ applied' = [a \in Action |->
       IF a \in S /\ applied[a] < 2 THEN applied[a] + 1 ELSE applied[a]]

ProviderApplies(w) ==
  /\ pc[w] = "writing"
  /\ ~done[w]
  /\ TakesEffect(Requested(w))
  /\ done' = [done EXCEPT ![w] = TRUE]
  /\ UNCHANGED <<stored, stale, transit, pc, mine, seen, at, mistaken>>

\* The request of a process that gave up may still take effect, or never.
LateDelivery(a) ==
  /\ a \in transit
  /\ LET S == IF Atomic THEN Action ELSE {a}
     IN  TakesEffect(S) /\ transit' = transit \ S
  /\ UNCHANGED <<stored, stale, localVars, mistaken>>

\* Whatever a process waited for when it stopped waiting is still in transit.
GivesUp(w) ==
  transit' = IF pc[w] = "writing" /\ ~done[w]
               THEN transit \cup Requested(w) ELSE transit

WithAll(op, S, status) ==
  [op EXCEPT !.actions = [a \in Action |->
     IF a \in S THEN status ELSE op.actions[a]]]

\* Valid evidence: the actions are checkpointed as committed at once.
WriteSucceeds(w) ==
  LET op == WithAll(mine[w], Requested(w), "committed")
  IN  /\ pc[w] = "writing"
      /\ done[w]
      /\ Save(w, IF Atomic THEN [op EXCEPT !.status = "written"] ELSE op,
              "advancing", -1)
      /\ UNCHANGED <<stale, providerVars, mistaken>>

\* Mutant: an ambiguous error is handled as one that is safe to retry.
AfterErrorAlwaysPending(w, retry) ==
  [WithAll(mine[w], Requested(w), "pending") EXCEPT
     !.status = IF retry = "never" THEN "failed" ELSE "retryable"]

\* What a failed write leaves, by the retry class of its error.
AfterError(w, retry) ==
  LET op == WithAll(mine[w], Requested(w),
                    IF retry = "ambiguous" THEN "in_flight" ELSE "pending")
  IN  [op EXCEPT !.status =
         IF retry = "never" THEN "failed"
         ELSE IF retry = "ambiguous" /\ (Atomic \/ ~Retriable)
           THEN "reconciliation"
         ELSE "retryable"]

NoEffect(retry) == retry \in {"never", "safe"} /\ Classifies

WriteFails(w, retry) ==
  /\ pc[w] = "writing"
  /\ NoEffect(retry) => ~done[w]
  /\ SaveAndReturn(w, AfterError(w, retry))
  /\ IF NoEffect(retry) THEN UNCHANGED transit ELSE GivesUp(w)
  /\ UNCHANGED <<stale, variables, applied, mistaken>>

-----------------------------------------------------------------------------
(* Verification *)

SaveWritten(w) ==
  /\ pc[w] = "advancing"
  /\ Unwritten(mine[w]) = {}
  /\ Save(w, [mine[w] EXCEPT !.status = "written"], "written", -1)
  /\ UNCHANGED <<stale, providerVars, mistaken>>

SaveVerifying(w) ==
  /\ pc[w] = "written"
  /\ Save(w, [mine[w] EXCEPT !.status = "verifying"], "verifying", First(Action))
  /\ UNCHANGED <<stale, providerVars, mistaken>>

\* The action that the loop visits after a; -1 when there is none.
After(a) ==
  LET later == {b \in Action : b > a}
  IN  IF later = {} THEN -1 ELSE First(later)

SkipVerified(w) ==
  /\ pc[w] = "verifying"
  /\ at[w] # -1
  /\ mine[w].actions[at[w]] = "verified"
  /\ at' = [at EXCEPT ![w] = After(at[w])]
  /\ UNCHANGED <<stored, stale, providerVars, pc, mine, seen, done, mistaken>>

\* The engine takes the adapter's word for what it verified; without
\* capabilities.Validate the action is limited.
Verify(w) ==
  /\ pc[w] = "verifying"
  /\ at[w] # -1
  /\ mine[w].actions[at[w]] # "verified"
  /\ \/ \E result \in {"verified", "limited"} :
          /\ result = "verified" => Validates
          /\ Save(w, [mine[w] EXCEPT !.actions[at[w]] = result],
                  "verifying", After(at[w]))
     \/ /\ Validates
        /\ \E status \in {"failed", "retryable"} :
             SaveAndReturn(w, [mine[w] EXCEPT !.status = status])
  /\ UNCHANGED <<stale, providerVars, mistaken>>

Finish(w) ==
  /\ pc[w] = "verifying"
  /\ at[w] = -1
  /\ SaveAndReturn(w, [mine[w] EXCEPT !.status =
       IF \E a \in Action : mine[w].actions[a] = "limited"
         THEN "limited" ELSE "ready"])
  /\ UNCHANGED <<stale, providerVars, mistaken>>

-----------------------------------------------------------------------------
(* The surroundings *)

Crash(w) ==
  /\ pc[w] # "idle"
  /\ Return(w)
  /\ GivesUp(w)
  /\ UNCHANGED <<stored, stale, variables, applied, mistaken>>

\* A record or the snapshot is changed by someone else.
ChangeRecord ==
  /\ Cardinality(stale) < MaxStale
  /\ \E r \in Sets \cup {Snapshot} : stale' = stale \cup {r}
  /\ UNCHANGED <<stored, providerVars, localVars, mistaken>>

\* Someone else sets or removes a variable at the provider.
ForeignWrite(a) ==
  /\ \E v \in {"absent", "foreign"} : variables' = [variables EXCEPT ![a] = v]
  /\ UNCHANGED <<stored, stale, transit, applied, localVars, mistaken>>

Next ==
  \/ \E w \in Worker :
       \/ Apply(w) \/ Resume(w) \/ Inspect(w)
       \/ Reconcile(w) \/ BeginWrite(w) \/ BeginStage(w)
       \/ ProviderApplies(w) \/ WriteSucceeds(w)
       \/ \E retry \in {"never", "safe", "ambiguous"} : WriteFails(w, retry)
       \/ SaveWritten(w) \/ SaveVerifying(w) \/ SkipVerified(w)
       \/ Verify(w) \/ Finish(w)
       \/ Crash(w)
  \/ \E a \in Action : LateDelivery(a) \/ ForeignWrite(a)
  \/ ChangeRecord

Spec == Init /\ [][Next]_vars

-----------------------------------------------------------------------------
(* Properties *)

\* The journal never claims what did not happen: an action that the operation
\* records as committed, verified or limited took effect at the provider, or is
\* a revocation of a variable that an inspection found absent, and a status
\* from written on covers every action.
JournalIsTrue ==
  /\ \A a \in Sets : stored.actions[a] \in Written => applied[a] > 0
  /\ stored.status \in {"written", "verifying", "ready", "limited"} =>
       Unwritten(stored) = {}
  /\ stored.status = "ready" =>
       \A a \in Action : stored.actions[a] = "verified"

\* What a step may do to the stored operation.
NoStepBack ==
  /\ \A a \in Action :
       stored.actions[a] \in Written => stored'.actions[a] \in Written
  /\ stored.status \in Terminal => UNCHANGED stored

\* No process, however late or outdated, takes a committed action back, so
\* that a later Resume would repeat it; a finished operation stays as it is.
CommittedStays == [][NoStepBack]_vars

\* Whatever crashes, the journal knows of each write that happened or may still
\* happen: without idempotent writes an action that is under way is not one
\* that Resume would take for never attempted.
UnderwayIsJournaled ==
  ~Retriable /\ ~mistaken =>
    \A a \in Action : Underway(a) => stored.actions[a] # "pending"

\* An ambiguous write is retried only when it may be: without idempotent
\* writes no action takes effect twice, unless an inspection found its variable
\* absent while a request for it was under way or had been undone.
NoBlindDuplicate ==
  ~Retriable /\ ~mistaken => \A a \in Action : applied[a] < 2
=============================================================================

------------------------ MODULE RolloutEngineProofs ------------------------
(***************************************************************************)
(* The rollout journal is true and never goes back, for any number of      *)
(* processes and actions, and for every kind of adapter.                   *)
(*                                                                         *)
(* A process that expects the stored revision has the stored operation in  *)
(* hand, so what it stores next differs from it by one checkpoint; a       *)
(* process that is behind stores nothing.                                  *)
(*                                                                         *)
(* With an adapter whose writes are not idempotent, a request under way is *)
(* also journaled, so that no action takes effect twice (OnceInv).         *)
(***************************************************************************)
EXTENDS RolloutEngine, TLAPS, WellFoundedInduction

\* First is the least action of a set, in the order of the loops of advance.
LEMMA FirstIsLeast ==
  ASSUME NEW S, S \subseteq Action, S # {}
  PROVE  First(S) \in S /\ \A b \in S : First(S) <= b
<1>1. S \subseteq Nat
  BY RolloutConstants DEF Action
<1>2. \E a \in S : \A b \in S : ~ (<<b, a>> \in OpToRel(<, Nat))
  BY <1>1, NatLessThanWellFounded, WFMin
<1>3. OpToRel(<, Nat) = {p \in Nat \X Nat : p[1] < p[2]}
  BY Zenon DEF OpToRel
<1>4. PICK a \in S : \A b \in S : ~ (<<b, a>> \in {p \in Nat \X Nat : p[1] < p[2]})
  BY <1>2, <1>3, Zenon
<1>5. \A b \in S : a <= b
  <2> SUFFICES ASSUME NEW b \in S PROVE a <= b
    OBVIOUS
  <2>1. <<b, a>> \in Nat \X Nat /\ ~ (<<b, a>> \in {p \in Nat \X Nat : p[1] < p[2]})
    BY <1>1, <1>4
  <2>2. ~ (b < a)
    BY <2>1
  <2> QED
    BY <1>1, <2>2
<1> QED
  BY <1>4, <1>5 DEF First

\* After visits the actions in that order.
LEMMA AfterIsNext ==
  ASSUME NEW a \in Action
  PROVE  /\ After(a) \in Action \cup {-1}
         /\ \A b \in Action : (After(a) = -1 \/ b < After(a)) => b <= a
<1> DEFINE later == {b \in Action : b > a}
<1>1. Action \subseteq Nat
  BY RolloutConstants DEF Action
<1>2. CASE later = {}
  BY <1>1, <1>2 DEF After
<1>3. CASE later # {}
  <2>1. After(a) = First(later)
    BY <1>3 DEF After
  <2>2. First(later) \in later /\ \A b \in later : First(later) <= b
    BY <1>3, FirstIsLeast
  <2>3. After(a) \in Action /\ After(a) \in Nat /\ a \in Nat
    BY <1>1, <2>1, <2>2
  <2>4. ASSUME NEW b \in Action, After(a) = -1 \/ b < After(a) PROVE b <= a
    <3>1. b \in Nat /\ b < After(a)
      BY <1>1, <2>3, <2>4
    <3>2. ~ (b > a)
      BY <2>1, <2>2, <2>3, <3>1
    <3> QED
      BY <2>3, <3>1, <3>2
  <2> QED
    BY <2>3, <2>4
<1> QED
  BY <1>2, <1>3

-----------------------------------------------------------------------------
(* The inductive invariant *)

\* An operation, stored or in some process's hands, claims only what happened.
TrueClaims(op) ==
  /\ \A a \in Sets : op.actions[a] \in Written => applied[a] > 0
  /\ op.status \in {"written", "verifying", "ready", "limited"} => Unwritten(op) = {}
  /\ op.status = "ready" => \A a \in Action : op.actions[a] = "verified"

\* What a process has in hand is the stored operation or an older one.
Behind(w) ==
  /\ pc[w] = "idle" => mine[w] = NoOperation
  /\ mine[w].revision <= stored.revision
  /\ mine[w].revision = stored.revision => mine[w] = stored

\* An operation that a process may go on with in phase next at action a.
Ready(op, next, a) ==
  /\ op.status \notin Terminal
  /\ next = "writing" =>
       \A b \in Action : Atomic \/ b = a => op.actions[b] = "in_flight"
  /\ next = "writing" => a \in Action
  /\ next \in {"written", "verifying"} => Unwritten(op) = {}
  /\ next = "verifying" =>
       \A b \in Action : a = -1 \/ b < a => op.actions[b] \in {"verified", "limited"}

ProcessOK(w) ==
  /\ Behind(w)
  /\ TrueClaims(mine[w])
  /\ pc[w] # "idle" => Ready(mine[w], pc[w], at[w])
  /\ done[w] => pc[w] = "writing" /\ \A a \in Requested(w) : applied[a] > 0
  /\ \A a \in Action : seen[w][a] = "ours" => applied[a] > 0

EngineInv ==
  /\ TypeOK
  /\ TrueClaims(stored)
  /\ stored.revision = 0 => stored = NoOperation
  /\ \A a \in Action : variables[a] = "ours" => applied[a] > 0
  /\ \A w \in Worker : ProcessOK(w)

-----------------------------------------------------------------------------
(* Checkpoints *)

\* Storing an operation that a process brought to the revision it expects
\* leaves the other processes behind, whatever the storing process does next.
LEMMA OthersFallBehind ==
  ASSUME EngineInv, NEW op \in Operation, NEW w \in Worker, NEW v \in Worker,
         op.revision = mine[w].revision,
         \/ MayStore(op) /\ stored' = Checkpoint(op)
         \/ UNCHANGED stored,
         UNCHANGED applied,
         mine'[v] = mine[v], pc'[v] = pc[v], at'[v] = at[v],
         done'[v] = done[v], seen'[v] = seen[v]
  PROVE  ProcessOK(v)'
<1>1. /\ mine[v] \in Operation
      /\ mine[v].revision \in Nat /\ stored.revision \in Nat /\ op.revision \in Nat
  BY DEF EngineInv, TypeOK, Operation
<1>2. Behind(v)'
  <2>1. stored'.revision = stored.revision + 1 \/ UNCHANGED stored
    BY <1>1 DEF MayStore, Checkpoint, Operation
  <2> QED
    BY <1>1, <2>1 DEF EngineInv, ProcessOK, Behind
<1>3. TrueClaims(mine[v])'
  BY DEF EngineInv, ProcessOK, TrueClaims, Unwritten
<1>4. pc'[v] # "idle" => Ready(mine[v], pc[v], at[v])'
  BY DEF EngineInv, ProcessOK, Ready, Unwritten
<1> QED
  BY <1>2, <1>3, <1>4 DEF EngineInv, ProcessOK, Requested

\* A process that returns holds nothing that could be wrong.
LEMMA ReturnedIsOK ==
  ASSUME EngineInv, NEW w \in Worker, Return(w),
         stored'.revision \in Nat, stored'.revision = 0 => stored' = NoOperation
  PROVE  ProcessOK(w)'
<1>1. /\ pc'[w] = "idle" /\ mine'[w] = NoOperation /\ done'[w] = FALSE
      /\ seen'[w] = NoReport
  BY DEF EngineInv, TypeOK, Return
<1>2. Behind(w)'
  BY <1>1 DEF Behind, NoOperation
<1>3. TrueClaims(mine[w])'
  BY <1>1 DEF TrueClaims, NoOperation, Written, Action
<1> QED
  BY <1>1, <1>2, <1>3 DEF ProcessOK, NoReport

\* A true operation may be stored.
LEMMA StoredIsOK ==
  ASSUME EngineInv, NEW op \in Operation, TrueClaims(op), UNCHANGED applied,
         \/ MayStore(op) /\ stored' = Checkpoint(op)
         \/ UNCHANGED stored
  PROVE  /\ stored' \in Operation
         /\ TrueClaims(stored)'
         /\ stored'.revision \in Nat
         /\ stored'.revision = 0 => stored' = NoOperation
<1>1. CASE UNCHANGED stored
  BY <1>1 DEF EngineInv, TypeOK, TrueClaims, Unwritten, Operation
<1>2. CASE MayStore(op) /\ stored' = Checkpoint(op)
  <2>1. /\ stored' \in Operation
        /\ stored'.revision = op.revision + 1
        /\ stored'.status = op.status /\ stored'.actions = op.actions
    BY <1>2 DEF Checkpoint, Operation
  <2>2. TrueClaims(stored)'
    BY <2>1 DEF TrueClaims, Unwritten
  <2> QED
    BY <2>1, <2>2 DEF Operation
<1> QED
  BY <1>1, <1>2

\* A call that returns, having stored a true operation or not, keeps the
\* invariant.
LEMMA ReturnKeeps ==
  ASSUME EngineInv, NEW w \in Worker, NEW op \in Operation, TrueClaims(op),
         op.revision = mine[w].revision,
         \/ MayStore(op) /\ stored' = Checkpoint(op)
         \/ UNCHANGED stored,
         Return(w),
         UNCHANGED <<stale, variables, applied>>,
         transit' \subseteq Action, mistaken' \in BOOLEAN
  PROVE  EngineInv'
<1>1. /\ stored' \in Operation /\ TrueClaims(stored)'
      /\ stored'.revision \in Nat
      /\ stored'.revision = 0 => stored' = NoOperation
  BY StoredIsOK
<1>2. TypeOK'
  BY <1>1 DEF EngineInv, TypeOK, Return, Phases, NoReport, Reports, NoOperation,
              Operation, Statuses, ActionStatuses
<1>3. ASSUME NEW v \in Worker PROVE ProcessOK(v)'
  <2>1. CASE v = w
    BY <1>1, <2>1, ReturnedIsOK
  <2>2. CASE v # w
    <3>1. /\ mine'[v] = mine[v] /\ pc'[v] = pc[v] /\ at'[v] = at[v]
          /\ done'[v] = done[v] /\ seen'[v] = seen[v]
      BY <2>2 DEF EngineInv, TypeOK, Return
    <3> QED
      BY <3>1, OthersFallBehind
  <2> QED
    BY <2>1, <2>2
<1> QED
  BY <1>1, <1>2, <1>3 DEF EngineInv

\* A checkpoint of a true operation after which the process goes on keeps it,
\* when the operation is as the next phase expects it.
LEMMA SaveKeeps ==
  ASSUME EngineInv, NEW w \in Worker, NEW op \in Operation, TrueClaims(op),
         op.revision = mine[w].revision,
         NEW next \in Phases \ {"idle"}, NEW a \in Action \cup {-1},
         Ready(op, next, a),
         Save(w, op, next, a),
         UNCHANGED <<stale, variables, transit, applied>>, mistaken' \in BOOLEAN
  PROVE  EngineInv'
<1>0. transit' \subseteq Action
  BY DEF EngineInv, TypeOK
<1>1. CASE Return(w) /\ (UNCHANGED stored \/ (MayStore(op) /\ stored' = Checkpoint(op)))
  BY <1>0, <1>1, ReturnKeeps
<1>2. CASE /\ MayStore(op) /\ stored' = Checkpoint(op)
           /\ mine' = [mine EXCEPT ![w] = Checkpoint(op)]
           /\ pc' = [pc EXCEPT ![w] = next]
           /\ at' = [at EXCEPT ![w] = a]
           /\ done' = [done EXCEPT ![w] = FALSE]
           /\ UNCHANGED seen
  <2>1. /\ stored' \in Operation /\ TrueClaims(stored)'
        /\ stored'.revision \in Nat
        /\ stored'.revision = 0 => stored' = NoOperation
    BY <1>2, StoredIsOK
  <2>2. TypeOK'
    BY <1>0, <1>2, <2>1 DEF EngineInv, TypeOK
  <2>3. ASSUME NEW v \in Worker PROVE ProcessOK(v)'
    <3>1. CASE v # w
      <4>1. /\ mine'[v] = mine[v] /\ pc'[v] = pc[v] /\ at'[v] = at[v]
            /\ done'[v] = done[v] /\ seen'[v] = seen[v]
        BY <1>2, <3>1 DEF EngineInv, TypeOK
      <4> QED
        BY <1>2, <4>1, OthersFallBehind
    <3>2. CASE v = w
      <4>1. /\ mine'[w] = stored' /\ pc'[w] = next /\ at'[w] = a
            /\ done'[w] = FALSE /\ seen'[w] = seen[w] /\ next # "idle"
        BY <1>2 DEF EngineInv, TypeOK
      <4>2. stored'.status = op.status /\ stored'.actions = op.actions
        BY <1>2 DEF Checkpoint, Operation
      <4>3. Behind(w)'
        BY <2>1, <4>1 DEF Behind
      <4>4. TrueClaims(mine[w])'
        BY <2>1, <4>1 DEF TrueClaims, Unwritten
      <4>5. Ready(mine[w], pc[w], at[w])'
        BY <4>1, <4>2 DEF Ready, Unwritten
      <4>6. \A b \in Action : seen'[w][b] = "ours" => applied'[b] > 0
        BY <4>1 DEF EngineInv, ProcessOK
      <4> QED
        BY <3>2, <4>1, <4>3, <4>4, <4>5, <4>6 DEF ProcessOK
    <3> QED
      BY <3>1, <3>2
  <2> QED
    BY <1>2, <2>1, <2>2, <2>3 DEF EngineInv
<1> QED
  BY <1>1, <1>2 DEF Save

\* An operation that a process made from the one it has in hand.
Follows(op, w) ==
  /\ op \in Operation
  /\ op.revision = mine[w].revision
  /\ TrueClaims(op)
  /\ \A a \in Action : mine[w].actions[a] \in Written => op.actions[a] \in Written

\* Storing it takes nothing back, because what the process has in hand is then
\* what is stored.
LEMMA FollowedIsNoStepBack ==
  ASSUME EngineInv, NEW w \in Worker, NEW op, Follows(op, w),
         pc[w] # "idle" \/ stored = NoOperation,
         \/ MayStore(op) /\ stored' = Checkpoint(op)
         \/ UNCHANGED stored
  PROVE  NoStepBack
<1>1. CASE UNCHANGED stored
  BY <1>1 DEF NoStepBack
<1>2. CASE MayStore(op) /\ stored' = Checkpoint(op)
  <2>1. mine[w] = stored
    BY <1>2 DEF MayStore, Follows, EngineInv, ProcessOK, Behind
  <2>2. stored'.actions = op.actions
    BY <1>2 DEF Checkpoint, Follows, Operation
  <2>3. stored.status \notin Terminal
    BY <2>1 DEF EngineInv, ProcessOK, Ready, NoOperation, Terminal
  <2> QED
    BY <2>1, <2>2, <2>3 DEF Follows, NoStepBack
<1> QED
  BY <1>1, <1>2

\* A checkpoint after which the process goes on.
LEMMA SaveStep ==
  ASSUME EngineInv, NEW w \in Worker, NEW op, Follows(op, w),
         pc[w] # "idle" \/ stored = NoOperation,
         NEW next \in Phases \ {"idle"}, NEW a \in Action \cup {-1},
         Ready(op, next, a),
         Save(w, op, next, a),
         UNCHANGED <<stale, variables, transit, applied>>, mistaken' \in BOOLEAN
  PROVE  EngineInv' /\ NoStepBack
<1>1. EngineInv'
  BY SaveKeeps DEF Follows
<1>2. \/ MayStore(op) /\ stored' = Checkpoint(op)
      \/ UNCHANGED stored
  BY DEF Save
<1> QED
  BY <1>1, <1>2, FollowedIsNoStepBack

\* A last checkpoint, and a return without one.
LEMMA SaveAndReturnStep ==
  ASSUME EngineInv, NEW w \in Worker, NEW op, Follows(op, w), pc[w] # "idle",
         SaveAndReturn(w, op),
         UNCHANGED <<stale, variables, applied>>,
         transit' \subseteq Action, mistaken' \in BOOLEAN
  PROVE  EngineInv' /\ NoStepBack
<1>1. \/ MayStore(op) /\ stored' = Checkpoint(op)
      \/ UNCHANGED stored
  BY DEF SaveAndReturn
<1>2. EngineInv'
  BY <1>1, ReturnKeeps DEF Follows, SaveAndReturn
<1> QED
  BY <1>1, <1>2, FollowedIsNoStepBack

\* What a process has in hand follows itself.
LEMMA InHand ==
  ASSUME EngineInv, NEW w \in Worker
  PROVE  /\ Follows(mine[w], w)
         /\ mine[w] \in Operation
         /\ TrueClaims(mine[w])
         /\ mine[w].actions \in [Action -> ActionStatuses]
         /\ mine[w].status \in Statuses
         /\ pc[w] # "idle" => Ready(mine[w], pc[w], at[w])
BY DEF EngineInv, TypeOK, ProcessOK, Follows, Operation

\* A return that stores nothing.
LEMMA ReturnStep ==
  ASSUME EngineInv, NEW w \in Worker, Return(w),
         UNCHANGED <<stored, stale, variables, applied, mistaken>>,
         transit' \subseteq Action
  PROVE  EngineInv' /\ NoStepBack
<1>1. mistaken' \in BOOLEAN
  BY DEF EngineInv, TypeOK
<1>2. EngineInv'
  BY <1>1, InHand, ReturnKeeps DEF Follows
<1> QED
  BY <1>2 DEF NoStepBack

-----------------------------------------------------------------------------
(* One lemma per action of a process *)

\* The confirmed operation is stored at revision 0.
LEMMA ApplyStep ==
  ASSUME EngineInv, NEW w \in Worker, Apply(w)
  PROVE  EngineInv' /\ NoStepBack
<1> DEFINE op == [NoOperation EXCEPT !.status = "confirmed"]
<1>1. mine[w] = NoOperation /\ stored = NoOperation
  BY DEF Apply, EngineInv, ProcessOK, Behind
<1>2. /\ op \in Operation
      /\ op.revision = 0 /\ op.status = "confirmed"
      /\ \A a \in Action : op.actions[a] = "pending"
  BY DEF NoOperation, Operation, Statuses, ActionStatuses
<1>3. TrueClaims(op)
  BY <1>2 DEF TrueClaims, Written, Action
<1>4. Follows(op, w)
  BY <1>1, <1>2, <1>3 DEF Follows, NoOperation, Written
<1>5. Ready(op, "inspecting", -1)
  BY <1>2 DEF Ready, Terminal
<1>6. Save(w, op, "inspecting", -1)
  BY DEF Apply
<1>7. UNCHANGED <<stale, variables, transit, applied>> /\ mistaken' \in BOOLEAN
  BY DEF Apply, providerVars, EngineInv, TypeOK
<1>8. "inspecting" \in Phases \ {"idle"}
  BY DEF Phases
<1> QED
  BY <1>1, <1>4, <1>5, <1>6, <1>7, <1>8, SaveStep

\* A loaded operation is the stored one.
LEMMA ResumeStep ==
  ASSUME EngineInv, NEW w \in Worker, Resume(w)
  PROVE  EngineInv' /\ NoStepBack
<1>1. /\ UNCHANGED <<stored, stale, variables, transit, applied, seen, at, done, mistaken>>
      /\ mine' = [mine EXCEPT ![w] = stored]
      /\ pc' = [pc EXCEPT ![w] = "inspecting"]
      /\ pc[w] = "idle"
  BY DEF Resume, providerVars
<1>2. TypeOK'
  BY <1>1 DEF EngineInv, TypeOK, Phases
<1>3. ASSUME NEW v \in Worker PROVE ProcessOK(v)'
  <2>1. CASE v # w
    <3>1. mine'[v] = mine[v] /\ pc'[v] = pc[v]
      BY <1>1, <2>1 DEF EngineInv, TypeOK
    <3> QED
      BY <1>1, <3>1, InHand, OthersFallBehind
  <2>2. CASE v = w
    <3>1. mine'[w] = stored /\ pc'[w] = "inspecting" /\ done[w] = FALSE
      BY <1>1 DEF EngineInv, TypeOK, ProcessOK
    <3>2. Behind(w)'
      BY <1>1, <3>1 DEF EngineInv, TypeOK, Operation, Behind
    <3>3. TrueClaims(mine[w])'
      BY <1>1, <3>1 DEF EngineInv, TrueClaims, Unwritten
    <3>4. Ready(mine[w], pc[w], at[w])'
      BY <1>1, <3>1 DEF Resume, Ready
    <3> QED
      BY <1>1, <2>2, <3>1, <3>2, <3>3, <3>4 DEF EngineInv, ProcessOK
  <2> QED
    BY <2>1, <2>2
<1>4. TrueClaims(stored)'
  BY <1>1 DEF EngineInv, TrueClaims, Unwritten
<1> QED
  BY <1>1, <1>2, <1>3, <1>4 DEF EngineInv, NoStepBack

\* The write key of an action shows only after its write.
LEMMA InspectStep ==
  ASSUME EngineInv, NEW w \in Worker, Inspect(w)
  PROVE  EngineInv' /\ NoStepBack
<1>1. CASE Return(w)
  <2>1. UNCHANGED <<stored, stale, variables, applied, mistaken>> /\ transit' \subseteq Action
    BY DEF Inspect, providerVars, EngineInv, TypeOK
  <2> QED
    BY <1>1, <2>1, ReturnStep
<1>2. CASE /\ seen' = [seen EXCEPT ![w] = [a \in Action |-> Report(a)]]
           /\ pc' = [pc EXCEPT ![w] = "advancing"]
           /\ UNCHANGED <<mine, at, done>>
  <2>1. UNCHANGED <<stored, stale, variables, transit, applied, mine, at, done, mistaken>>
    BY <1>2 DEF Inspect, providerVars
  <2>2. \A a \in Action : /\ Report(a) \in Reports
                          /\ Report(a) = "ours" => applied[a] > 0
    BY DEF Report, Reports, EngineInv
  <2>3. TypeOK'
    BY <1>2, <2>1, <2>2 DEF EngineInv, TypeOK, Phases
  <2>4. ASSUME NEW v \in Worker PROVE ProcessOK(v)'
    <3>1. CASE v # w
      <4>1. seen'[v] = seen[v] /\ pc'[v] = pc[v]
        BY <1>2, <3>1 DEF EngineInv, TypeOK
      <4> QED
        BY <2>1, <4>1, InHand, OthersFallBehind
    <3>2. CASE v = w
      <4>1. /\ pc'[w] = "advancing" /\ done[w] = FALSE /\ pc[w] = "inspecting"
            /\ \A a \in Action : seen'[w][a] = Report(a)
        BY <1>2 DEF Inspect, EngineInv, TypeOK, ProcessOK
      <4>2. Behind(w)' /\ TrueClaims(mine[w])' /\ Ready(mine[w], pc[w], at[w])'
        BY <2>1, <4>1 DEF EngineInv, ProcessOK, Behind, TrueClaims, Unwritten, Ready
      <4> QED
        BY <2>1, <2>2, <3>2, <4>1, <4>2 DEF ProcessOK
    <3> QED
      BY <3>1, <3>2
  <2>5. TrueClaims(stored)'
    BY <2>1 DEF EngineInv, TrueClaims, Unwritten
  <2> QED
    BY <2>1, <2>3, <2>4, <2>5 DEF EngineInv, NoStepBack
<1> QED
  BY <1>1, <1>2 DEF Inspect

\* Only an action's own write key, or the absence of a revoked variable, makes
\* it committed.
LEMMA ReconcileStep ==
  ASSUME EngineInv, NEW w \in Worker, Reconcile(w)
  PROVE  EngineInv' /\ NoStepBack
<1> PICK a \in Action :
      /\ Advancing(w, a) /\ Ambiguous(w, a)
      /\ IF Reconciled(w, a) = "in_flight"
           THEN SaveAndReturn(w, [mine[w] EXCEPT !.status = "reconciliation"])
           ELSE Save(w, [mine[w] EXCEPT !.actions[a] = Reconciled(w, a)], "advancing", -1)
      /\ mistaken' = (mistaken \/ (Reconciled(w, a) = "pending" /\ Underway(a)))
      /\ UNCHANGED <<stale, providerVars>>
  BY DEF Reconcile
<1>1. /\ UNCHANGED <<stale, variables, transit, applied>> /\ mistaken' \in BOOLEAN
      /\ transit' \subseteq Action
  BY DEF providerVars, EngineInv, TypeOK
<1>2. /\ pc[w] = "advancing" /\ mine[w].actions[a] = "in_flight"
      /\ Unwritten(mine[w]) # {}
  BY DEF Advancing, Ambiguous
<1>3. mine[w].status \notin Terminal \cup {"written", "verifying", "ready", "limited"}
  BY <1>2, InHand DEF TrueClaims, Ready
<1>4. CASE Reconciled(w, a) = "in_flight"
  <2> DEFINE op == [mine[w] EXCEPT !.status = "reconciliation"]
  <2>1. /\ op \in Operation /\ op.revision = mine[w].revision
        /\ op.status = "reconciliation" /\ op.actions = mine[w].actions
    BY InHand DEF Operation, Statuses
  <2>2. Follows(op, w)
    BY <2>1, InHand DEF Follows, TrueClaims
  <2> QED
    BY <1>1, <1>2, <1>4, <2>2, SaveAndReturnStep
<1>5. CASE Reconciled(w, a) # "in_flight"
  <2> DEFINE op == [mine[w] EXCEPT !.actions[a] = Reconciled(w, a)]
  <2>1. /\ Reconciled(w, a) \in {"committed", "pending"}
        /\ Reconciled(w, a) = "committed" /\ a \in Sets => applied[a] > 0
    BY <1>5, RolloutConstants DEF Reconciled, EngineInv, ProcessOK
  <2>2. /\ op \in Operation /\ op.revision = mine[w].revision
        /\ op.status = mine[w].status
        /\ \A b \in Action : op.actions[b] = IF b = a THEN Reconciled(w, a)
                                                     ELSE mine[w].actions[b]
    BY <2>1, InHand DEF Operation, ActionStatuses
  <2>3. TrueClaims(op)
    BY <1>3, <2>1, <2>2, InHand DEF TrueClaims, Written, Action
  <2>4. Follows(op, w)
    BY <1>2, <2>2, <2>3 DEF Follows, Written
  <2>5. Ready(op, "advancing", -1) /\ "advancing" \in Phases \ {"idle"}
    BY <1>3, <2>2 DEF Ready, Phases
  <2>6. Save(w, op, "advancing", -1)
    BY <1>5
  <2> QED
    BY <1>1, <1>2, <2>4, <2>5, <2>6, SaveStep
<1> QED
  BY <1>4, <1>5

\* An action is stored as in flight only if it is not written.
LEMMA BeginWriteStep ==
  ASSUME EngineInv, NEW w \in Worker, BeginWrite(w)
  PROVE  EngineInv' /\ NoStepBack
<1> PICK a \in Action :
      /\ Advancing(w, a)
      /\ IF a \notin stale
           THEN Save(w, [mine[w] EXCEPT !.status = "writing",
                                        !.actions[a] = "in_flight"], "writing", a)
           ELSE UNCHANGED stored /\ Return(w)
      /\ UNCHANGED <<stale, providerVars, mistaken>>
  BY DEF BeginWrite
<1> DEFINE op == [mine[w] EXCEPT !.status = "writing", !.actions[a] = "in_flight"]
<1>1. /\ UNCHANGED <<stale, variables, transit, applied, mistaken>>
      /\ mistaken' \in BOOLEAN /\ transit' \subseteq Action
  BY DEF providerVars, EngineInv, TypeOK
<1>2. Unwritten(mine[w]) \subseteq Action
  BY DEF Unwritten
<1>3. pc[w] = "advancing" /\ ~Atomic /\ mine[w].actions[a] \notin Written
  BY <1>2, FirstIsLeast DEF Advancing, Unwritten
<1>4. CASE a \in stale
  BY <1>1, <1>4, ReturnStep
<1>5. CASE a \notin stale
  <2>1. /\ op \in Operation /\ op.revision = mine[w].revision
        /\ op.status = "writing"
        /\ \A b \in Action : op.actions[b] = IF b = a THEN "in_flight"
                                                     ELSE mine[w].actions[b]
    BY InHand DEF Operation, Statuses, ActionStatuses
  <2>2. TrueClaims(op)
    BY <2>1, InHand DEF TrueClaims, Written, Action
  <2>3. Follows(op, w)
    BY <1>3, <2>1, <2>2 DEF Follows
  <2>4. Ready(op, "writing", a) /\ "writing" \in Phases \ {"idle"}
    BY <1>3, <2>1 DEF Ready, Phases, Terminal
  <2>5. Save(w, op, "writing", a)
    BY <1>5
  <2> QED
    BY <1>1, <1>3, <2>3, <2>4, <2>5, SaveStep
<1> QED
  BY <1>4, <1>5

\* A batch is stored as in flight only if no part of it is written.
LEMMA BeginStageStep ==
  ASSUME EngineInv, NEW w \in Worker, BeginStage(w)
  PROVE  EngineInv' /\ NoStepBack
<1> DEFINE op == [mine[w] EXCEPT !.status = "writing",
                    !.actions = [a \in Action |-> "in_flight"]]
<1>1. /\ UNCHANGED <<stale, variables, transit, applied, mistaken>>
      /\ mistaken' \in BOOLEAN /\ transit' \subseteq Action
      /\ pc[w] = "advancing" /\ Atomic
  BY DEF BeginStage, providerVars, EngineInv, TypeOK
<1>2. CASE UNCHANGED stored /\ Return(w)
  BY <1>1, <1>2, ReturnStep
<1>3. CASE Unwritten(mine[w]) = Action /\ Save(w, op, "writing", First(Action))
  <2>1. /\ op \in Operation /\ op.revision = mine[w].revision
        /\ op.status = "writing"
        /\ \A b \in Action : op.actions[b] = "in_flight"
    BY InHand DEF Operation, Statuses, ActionStatuses
  <2>2. Follows(op, w)
    BY <1>3, <2>1 DEF Follows, TrueClaims, Written, Unwritten, Action
  <2>3. First(Action) \in Action
    BY FirstIsLeast, RolloutConstants DEF Action
  <2>4. Ready(op, "writing", First(Action)) /\ "writing" \in Phases \ {"idle"}
    BY <2>1, <2>3 DEF Ready, Phases, Terminal
  <2> QED
    BY <1>1, <1>3, <2>2, <2>3, <2>4, SaveStep
<1> QED
  BY <1>2, <1>3 DEF BeginStage

\* What a process waits for is in flight in the operation it has in hand.
LEMMA WaitsForInFlight ==
  ASSUME EngineInv, NEW w \in Worker, pc[w] = "writing"
  PROVE  /\ Requested(w) \subseteq Action /\ Requested(w) # {}
         /\ \A a \in Requested(w) : mine[w].actions[a] = "in_flight"
         /\ mine[w].status \notin Terminal \cup {"written", "verifying", "ready", "limited"}
<1>1. Ready(mine[w], "writing", at[w])
  BY InHand
<1>2. /\ Requested(w) \subseteq Action /\ Requested(w) # {}
      /\ \A a \in Requested(w) : mine[w].actions[a] = "in_flight"
  BY <1>1 DEF Ready, Requested
<1>3. Unwritten(mine[w]) # {}
  BY <1>2 DEF Unwritten, Written
<1> QED
  BY <1>1, <1>2, <1>3, InHand DEF TrueClaims, Ready

\* WithAll gives the actions of a set a status and leaves the others.
LEMMA WithAllActions ==
  ASSUME NEW op \in Operation, NEW S, NEW status \in ActionStatuses
  PROVE  /\ WithAll(op, S, status) \in Operation
         /\ WithAll(op, S, status).revision = op.revision
         /\ WithAll(op, S, status).status = op.status
         /\ \A b \in Action : WithAll(op, S, status).actions[b] =
                                IF b \in S THEN status ELSE op.actions[b]
BY DEF WithAll, Operation

\* An answer with evidence means that the request took effect.
LEMMA WriteSucceedsStep ==
  ASSUME EngineInv, NEW w \in Worker, WriteSucceeds(w)
  PROVE  EngineInv' /\ NoStepBack
<1> DEFINE committed == WithAll(mine[w], Requested(w), "committed")
           op == IF Atomic THEN [committed EXCEPT !.status = "written"] ELSE committed
<1>1. /\ UNCHANGED <<stale, variables, transit, applied>> /\ mistaken' \in BOOLEAN
      /\ pc[w] = "writing" /\ done[w]
  BY DEF WriteSucceeds, providerVars, EngineInv, TypeOK
<1>2. /\ committed \in Operation /\ committed.revision = mine[w].revision
      /\ committed.status = mine[w].status
      /\ \A b \in Action : committed.actions[b] =
                             IF b \in Requested(w) THEN "committed" ELSE mine[w].actions[b]
  BY InHand, WithAllActions DEF ActionStatuses
<1>3. /\ op \in Operation /\ op.revision = mine[w].revision
      /\ op.status = IF Atomic THEN "written" ELSE mine[w].status
      /\ \A b \in Action : op.actions[b] =
                             IF b \in Requested(w) THEN "committed" ELSE mine[w].actions[b]
  BY <1>2 DEF Operation, Statuses
<1>4. \A a \in Requested(w) : applied[a] > 0
  BY <1>1 DEF EngineInv, ProcessOK
<1>5. TrueClaims(op)
  <2>1. \A a \in Sets : op.actions[a] \in Written => applied[a] > 0
    BY <1>3, <1>4, InHand DEF TrueClaims, Action
  <2>2. CASE Atomic
    <3>1. Unwritten(op) = {}
      BY <1>3, <2>2 DEF Unwritten, Written, Requested
    <3> QED
      BY <1>3, <2>1, <2>2, <3>1 DEF TrueClaims
  <2>3. CASE ~Atomic
    BY <1>1, <1>3, <2>1, <2>3, WaitsForInFlight DEF TrueClaims
  <2> QED
    BY <2>2, <2>3
<1>6. Follows(op, w)
  BY <1>3, <1>5 DEF Follows, Written
<1>7. Ready(op, "advancing", -1) /\ "advancing" \in Phases \ {"idle"}
  BY <1>1, <1>3, WaitsForInFlight DEF Ready, Phases, Terminal
<1>8. Save(w, op, "advancing", -1)
  BY DEF WriteSucceeds
<1> QED
  BY <1>1, <1>6, <1>7, <1>8, SaveStep

\* A failed write changes only actions that are in flight.
LEMMA WriteFailsStep ==
  ASSUME EngineInv, NEW w \in Worker, NEW retry \in {"never", "safe", "ambiguous"},
         WriteFails(w, retry)
  PROVE  EngineInv' /\ NoStepBack
<1> DEFINE op == AfterError(w, retry)
           status == IF retry = "ambiguous" THEN "in_flight" ELSE "pending"
           failed == WithAll(mine[w], Requested(w), status)
<1>1. /\ UNCHANGED <<stale, variables, applied>> /\ mistaken' \in BOOLEAN
      /\ pc[w] = "writing" /\ SaveAndReturn(w, op)
  BY DEF WriteFails, EngineInv, TypeOK
<1>2. Requested(w) \subseteq Action /\ \A a \in Requested(w) : mine[w].actions[a] = "in_flight"
  BY <1>1, WaitsForInFlight
<1>3. transit' \subseteq Action
  BY <1>2 DEF WriteFails, GivesUp, EngineInv, TypeOK
<1>4. /\ failed \in Operation /\ failed.revision = mine[w].revision
      /\ \A b \in Action : failed.actions[b] =
                             IF b \in Requested(w) THEN status ELSE mine[w].actions[b]
  BY InHand, WithAllActions DEF ActionStatuses
<1>5. /\ op \in Operation /\ op.revision = mine[w].revision
      /\ op.actions = failed.actions
      /\ op.status \in {"failed", "reconciliation", "retryable"}
  BY <1>4 DEF AfterError, Operation, Statuses
<1>6. TrueClaims(op)
  BY <1>4, <1>5, InHand DEF TrueClaims, Written, Action
<1>7. Follows(op, w)
  BY <1>2, <1>4, <1>5, <1>6 DEF Follows, Written
<1> QED
  BY <1>1, <1>3, <1>7, SaveAndReturnStep

\* Written is stored when every action is.
LEMMA SaveWrittenStep ==
  ASSUME EngineInv, NEW w \in Worker, SaveWritten(w)
  PROVE  EngineInv' /\ NoStepBack
<1> DEFINE op == [mine[w] EXCEPT !.status = "written"]
<1>1. /\ UNCHANGED <<stale, variables, transit, applied>> /\ mistaken' \in BOOLEAN
      /\ pc[w] = "advancing" /\ Unwritten(mine[w]) = {} /\ Save(w, op, "written", -1)
  BY DEF SaveWritten, providerVars, EngineInv, TypeOK
<1>2. /\ op \in Operation /\ op.revision = mine[w].revision
      /\ op.status = "written" /\ op.actions = mine[w].actions
  BY InHand DEF Operation, Statuses
<1>3. Unwritten(op) = {}
  BY <1>1, <1>2 DEF Unwritten
<1>4. Follows(op, w)
  BY <1>2, <1>3, InHand DEF Follows, TrueClaims
<1>5. Ready(op, "written", -1) /\ "written" \in Phases \ {"idle"}
  BY <1>2, <1>3 DEF Ready, Phases, Terminal
<1> QED
  BY <1>1, <1>4, <1>5, SaveStep

\* Verification starts at the first action, with all of them written.
LEMMA SaveVerifyingStep ==
  ASSUME EngineInv, NEW w \in Worker, SaveVerifying(w)
  PROVE  EngineInv' /\ NoStepBack
<1> DEFINE op == [mine[w] EXCEPT !.status = "verifying"]
<1>1. /\ UNCHANGED <<stale, variables, transit, applied>> /\ mistaken' \in BOOLEAN
      /\ pc[w] = "written" /\ Save(w, op, "verifying", First(Action))
  BY DEF SaveVerifying, providerVars, EngineInv, TypeOK
<1>2. /\ op \in Operation /\ op.revision = mine[w].revision
      /\ op.status = "verifying" /\ op.actions = mine[w].actions
  BY InHand DEF Operation, Statuses
<1>3. Unwritten(op) = {}
  BY <1>1, <1>2, InHand DEF Unwritten, Ready
<1>4. Follows(op, w)
  BY <1>2, <1>3, InHand DEF Follows, TrueClaims
<1>5. Action \subseteq Nat /\ First(Action) \in Action /\ \A b \in Action : First(Action) <= b
  BY FirstIsLeast, RolloutConstants DEF Action
<1>6. ASSUME NEW b \in Action PROVE ~ (First(Action) = -1 \/ b < First(Action))
  <2>1. b \in Nat /\ First(Action) \in Nat /\ First(Action) <= b
    BY <1>5
  <2> QED
    BY <2>1
<1>7. Ready(op, "verifying", First(Action)) /\ "verifying" \in Phases \ {"idle"}
  BY <1>2, <1>3, <1>6 DEF Ready, Phases, Terminal
<1> QED
  BY <1>1, <1>4, <1>5, <1>7, SaveStep

\* When the action at hand is verified or limited, so is each before the next.
LEMMA NextIsReady ==
  ASSUME EngineInv, NEW w \in Worker, pc[w] = "verifying", at[w] # -1,
         NEW op \in Operation, op.status = mine[w].status,
         NEW result \in {"verified", "limited"},
         \A b \in Action : op.actions[b] = IF b = at[w] THEN result ELSE mine[w].actions[b]
  PROVE  /\ Ready(op, "verifying", After(at[w]))
         /\ Unwritten(op) = {}
         /\ After(at[w]) \in Action \cup {-1}
<1>1. at[w] \in Action /\ Action \subseteq Nat
  BY RolloutConstants DEF EngineInv, TypeOK, Action
<1>2. Ready(mine[w], "verifying", at[w])
  BY InHand
<1>3. Unwritten(op) = {}
  BY <1>2 DEF Ready, Unwritten, Written
<1>4. /\ After(at[w]) \in Action \cup {-1}
      /\ \A b \in Action : (After(at[w]) = -1 \/ b < After(at[w])) => b <= at[w]
  BY <1>1, AfterIsNext
<1>5. ASSUME NEW b \in Action, b <= at[w] PROVE op.actions[b] \in {"verified", "limited"}
  <2>1. b \in Nat /\ at[w] \in Nat
    BY <1>1
  <2>2. b = at[w] \/ b < at[w]
    BY <1>5, <2>1
  <2> QED
    BY <1>2, <2>2 DEF Ready
<1> QED
  BY <1>2, <1>3, <1>4, <1>5 DEF Ready

\* A verification result is stored for an action that is written.
LEMMA VerifyStep ==
  ASSUME EngineInv, NEW w \in Worker, Verify(w)
  PROVE  EngineInv' /\ NoStepBack
<1>1. /\ UNCHANGED <<stale, variables, transit, applied>> /\ mistaken' \in BOOLEAN
      /\ transit' \subseteq Action /\ pc[w] = "verifying" /\ at[w] # -1
  BY DEF Verify, providerVars, EngineInv, TypeOK
<1>2. ASSUME NEW result \in {"verified", "limited"},
             Save(w, [mine[w] EXCEPT !.actions[at[w]] = result], "verifying", After(at[w]))
      PROVE  EngineInv' /\ NoStepBack
  <2> DEFINE op == [mine[w] EXCEPT !.actions[at[w]] = result]
  <2>1. at[w] \in Action
    BY <1>1 DEF EngineInv, TypeOK
  <2>2. /\ op \in Operation /\ op.revision = mine[w].revision
        /\ op.status = mine[w].status
        /\ \A b \in Action : op.actions[b] = IF b = at[w] THEN result
                                                         ELSE mine[w].actions[b]
    BY <2>1, InHand DEF Operation, ActionStatuses
  <2>3. /\ Ready(op, "verifying", After(at[w])) /\ Unwritten(op) = {}
        /\ After(at[w]) \in Action \cup {-1}
    BY <1>1, <2>2, NextIsReady
  <2>4. Unwritten(mine[w]) = {} /\ mine[w].status \notin Terminal
    BY <1>1, InHand DEF Ready
  <2>5. \A a \in Sets : applied[a] > 0
    BY <2>4, InHand DEF TrueClaims, Unwritten, Action
  <2>6. Follows(op, w)
    BY <2>2, <2>3, <2>4, <2>5 DEF Follows, TrueClaims, Terminal, Written
  <2>7. "verifying" \in Phases \ {"idle"}
    BY DEF Phases
  <2> QED
    BY <1>1, <1>2, <2>3, <2>6, <2>7, SaveStep
<1>3. ASSUME NEW status \in {"failed", "retryable"},
             SaveAndReturn(w, [mine[w] EXCEPT !.status = status])
      PROVE  EngineInv' /\ NoStepBack
  <2> DEFINE op == [mine[w] EXCEPT !.status = status]
  <2>1. /\ op \in Operation /\ op.revision = mine[w].revision
        /\ op.status = status /\ op.actions = mine[w].actions
    BY InHand DEF Operation, Statuses
  <2>2. Follows(op, w)
    BY <2>1, InHand DEF Follows, TrueClaims
  <2> QED
    BY <1>1, <1>3, <2>2, SaveAndReturnStep
<1> QED
  BY <1>2, <1>3 DEF Verify

\* The loop has then visited every action: ready means verified.
LEMMA FinishStep ==
  ASSUME EngineInv, NEW w \in Worker, Finish(w)
  PROVE  EngineInv' /\ NoStepBack
<1> DEFINE limited == \E a \in Action : mine[w].actions[a] = "limited"
           op == [mine[w] EXCEPT !.status = IF limited THEN "limited" ELSE "ready"]
<1>1. /\ UNCHANGED <<stale, variables, transit, applied>> /\ mistaken' \in BOOLEAN
      /\ transit' \subseteq Action /\ pc[w] = "verifying" /\ at[w] = -1
      /\ SaveAndReturn(w, op)
  BY DEF Finish, providerVars, EngineInv, TypeOK
<1>2. /\ op \in Operation /\ op.revision = mine[w].revision
      /\ op.status = (IF limited THEN "limited" ELSE "ready")
      /\ op.actions = mine[w].actions
  BY InHand DEF Operation, Statuses
<1>3. /\ Unwritten(mine[w]) = {}
      /\ \A b \in Action : mine[w].actions[b] \in {"verified", "limited"}
  BY <1>1, InHand DEF Ready
<1>4. TrueClaims(op)
  <2>1. \A a \in Sets : op.actions[a] \in Written => applied[a] > 0
    BY <1>2, InHand DEF TrueClaims
  <2>2. Unwritten(op) = {}
    BY <1>2, <1>3 DEF Unwritten
  <2>3. op.status = "ready" => \A a \in Action : op.actions[a] = "verified"
    BY <1>2, <1>3
  <2> QED
    BY <2>1, <2>2, <2>3 DEF TrueClaims
<1>5. Follows(op, w)
  BY <1>2, <1>4 DEF Follows
<1> QED
  BY <1>1, <1>5, SaveAndReturnStep

\* A crash stores nothing.
LEMMA CrashStep ==
  ASSUME EngineInv, NEW w \in Worker, Crash(w)
  PROVE  EngineInv' /\ NoStepBack
<1>1. transit' \subseteq Action
  BY WaitsForInFlight DEF Crash, GivesUp, EngineInv, TypeOK
<1> QED
  BY <1>1, ReturnStep DEF Crash

\* An action that is verified is passed over.
LEMMA SkipVerifiedStep ==
  ASSUME EngineInv, NEW w \in Worker, SkipVerified(w)
  PROVE  EngineInv' /\ NoStepBack
<1>1. /\ UNCHANGED <<stored, stale, variables, transit, applied, pc, mine, seen, done, mistaken>>
      /\ pc[w] = "verifying" /\ at[w] # -1 /\ mine[w].actions[at[w]] = "verified"
      /\ at' = [at EXCEPT ![w] = After(at[w])]
  BY DEF SkipVerified, providerVars
<1>2. Ready(mine[w], "verifying", After(at[w])) /\ After(at[w]) \in Action \cup {-1}
  BY <1>1, InHand, NextIsReady
<1>3. TypeOK'
  BY <1>1, <1>2 DEF EngineInv, TypeOK
<1>4. ASSUME NEW v \in Worker PROVE ProcessOK(v)'
  <2>1. CASE v # w
    <3>1. at'[v] = at[v]
      BY <1>1, <2>1 DEF EngineInv, TypeOK
    <3> QED
      BY <1>1, <3>1, InHand, OthersFallBehind
  <2>2. CASE v = w
    <3>1. at'[w] = After(at[w]) /\ done[w] = FALSE
      BY <1>1 DEF EngineInv, TypeOK, ProcessOK
    <3>2. Ready(mine[w], pc[w], at[w])'
      BY <1>1, <1>2, <3>1 DEF Ready, Unwritten
    <3>3. Behind(w)' /\ TrueClaims(mine[w])'
      BY <1>1 DEF EngineInv, ProcessOK, Behind, TrueClaims, Unwritten
    <3> QED
      BY <1>1, <2>2, <3>1, <3>2, <3>3 DEF EngineInv, ProcessOK
  <2> QED
    BY <2>1, <2>2
<1>5. TrueClaims(stored)'
  BY <1>1 DEF EngineInv, TrueClaims, Unwritten
<1> QED
  BY <1>1, <1>3, <1>4, <1>5 DEF EngineInv, NoStepBack

-----------------------------------------------------------------------------
(* The provider and the surroundings *)

\* What took effect once has taken effect for good.
LEMMA EffectsStay ==
  ASSUME EngineInv, NEW S, TakesEffect(S)
  PROVE  /\ applied' \in [Action -> 0..2]
         /\ variables' \in [Action -> {"absent", "foreign", "ours"}]
         /\ \A a \in Action : applied[a] > 0 \/ a \in S => applied'[a] > 0
         /\ \A a \in Action : variables'[a] = "ours" => applied'[a] > 0
<1>1. \A a \in Action : applied[a] \in 0..2 /\ applied'[a] \in 0..2
  BY DEF EngineInv, TypeOK, TakesEffect
<1>2. \A a \in Action : applied[a] > 0 \/ a \in S => applied'[a] > 0
  BY <1>1 DEF TakesEffect
<1>3. \A a \in Action : variables'[a] = "ours" => a \in S \/ variables[a] = "ours"
  BY DEF TakesEffect
<1> QED
  BY <1>1, <1>2, <1>3 DEF TakesEffect, EngineInv, TypeOK

\* So it leaves every claim true.
LEMMA ClaimsStay ==
  ASSUME EngineInv, UNCHANGED <<stored, pc, mine, seen, at>>,
         \A a \in Action : applied[a] > 0 => applied'[a] > 0,
         NEW v \in Worker,
         done'[v] => pc[v] = "writing" /\ \A a \in Requested(v) : applied'[a] > 0
  PROVE  ProcessOK(v)' /\ TrueClaims(stored)'
<1>1. Behind(v)' /\ Ready(mine[v], pc[v], at[v])' = Ready(mine[v], pc[v], at[v])
  BY DEF EngineInv, ProcessOK, Behind, Ready, Unwritten
<1>2. TrueClaims(mine[v])' /\ TrueClaims(stored)'
  BY DEF EngineInv, ProcessOK, TrueClaims, Unwritten, Action
<1> QED
  BY <1>1, <1>2 DEF EngineInv, ProcessOK, Requested

\* A request takes effect while its process waits.
LEMMA ProviderAppliesStep ==
  ASSUME EngineInv, NEW w \in Worker, ProviderApplies(w)
  PROVE  EngineInv' /\ NoStepBack
<1>1. /\ UNCHANGED <<stored, stale, transit, pc, mine, seen, at, mistaken>>
      /\ pc[w] = "writing" /\ TakesEffect(Requested(w))
      /\ done' = [done EXCEPT ![w] = TRUE]
  BY DEF ProviderApplies
<1>2. /\ applied' \in [Action -> 0..2]
      /\ variables' \in [Action -> {"absent", "foreign", "ours"}]
      /\ \A a \in Action : applied[a] > 0 \/ a \in Requested(w) => applied'[a] > 0
      /\ \A a \in Action : variables'[a] = "ours" => applied'[a] > 0
  BY <1>1, EffectsStay
<1>3. TypeOK'
  BY <1>1, <1>2 DEF EngineInv, TypeOK
<1>4. ASSUME NEW v \in Worker PROVE ProcessOK(v)' /\ TrueClaims(stored)'
  <2>1. done'[v] => pc[v] = "writing" /\ \A a \in Requested(v) : applied'[a] > 0
    <3>1. CASE v = w
      BY <1>1, <1>2, <3>1, WaitsForInFlight
    <3>2. CASE v # w
      <4>1. done'[v] = done[v]
        BY <1>1, <3>2 DEF EngineInv, TypeOK
      <4> QED
        BY <1>2, <4>1, WaitsForInFlight DEF EngineInv, ProcessOK
    <3> QED
      BY <3>1, <3>2
  <2> QED
    BY <1>1, <1>2, <2>1, ClaimsStay
<1> QED
  BY <1>1, <1>2, <1>3, <1>4 DEF EngineInv, NoStepBack

\* A request takes effect that nobody waits for.
LEMMA LateDeliveryStep ==
  ASSUME EngineInv, NEW a \in Action, LateDelivery(a)
  PROVE  EngineInv' /\ NoStepBack
<1> DEFINE S == IF Atomic THEN Action ELSE {a}
<1>1. /\ UNCHANGED <<stored, stale, pc, mine, seen, at, done, mistaken>>
      /\ TakesEffect(S) /\ transit' = transit \ S
  BY DEF LateDelivery, localVars
<1>2. /\ applied' \in [Action -> 0..2]
      /\ variables' \in [Action -> {"absent", "foreign", "ours"}]
      /\ \A b \in Action : applied[b] > 0 => applied'[b] > 0
      /\ \A b \in Action : variables'[b] = "ours" => applied'[b] > 0
  BY <1>1, EffectsStay
<1>3. TypeOK'
  BY <1>1, <1>2 DEF EngineInv, TypeOK
<1>4. ASSUME NEW v \in Worker PROVE ProcessOK(v)'
  <2>1. done'[v] => pc[v] = "writing" /\ \A b \in Requested(v) : applied'[b] > 0
    BY <1>1, <1>2, WaitsForInFlight DEF EngineInv, ProcessOK
  <2> QED
    BY <1>1, <1>2, <2>1, ClaimsStay
<1>5. TrueClaims(stored)'
  BY <1>1, <1>2 DEF EngineInv, TrueClaims, Unwritten, Action
<1> QED
  BY <1>1, <1>2, <1>3, <1>4, <1>5 DEF EngineInv, NoStepBack

\* Nobody else touches the operation or the write keys.
LEMMA OutsideStep ==
  ASSUME EngineInv,
         ChangeRecord \/ (\E a \in Action : ForeignWrite(a)) \/ UNCHANGED vars
  PROVE  EngineInv' /\ NoStepBack
<1>1. UNCHANGED <<stored, transit, pc, mine, seen, at, done, applied, mistaken>>
  BY DEF ChangeRecord, ForeignWrite, providerVars, localVars, vars
<1>2. /\ stale' \subseteq Sets \cup {Snapshot}
      /\ variables' \in [Action -> {"absent", "foreign", "ours"}]
      /\ \A a \in Action : variables'[a] = "ours" => applied[a] > 0
  BY DEF ChangeRecord, ForeignWrite, providerVars, vars, EngineInv, TypeOK
<1>3. TypeOK'
  BY <1>1, <1>2 DEF EngineInv, TypeOK
<1>4. ASSUME NEW v \in Worker PROVE ProcessOK(v)'
  BY <1>1, InHand, OthersFallBehind
<1>5. TrueClaims(stored)'
  BY <1>1 DEF EngineInv, TrueClaims, Unwritten
<1> QED
  BY <1>1, <1>2, <1>3, <1>4, <1>5 DEF EngineInv, NoStepBack

-----------------------------------------------------------------------------
\* The invariant holds before the first Apply.
LEMMA EngineInitial == Init => EngineInv
<1> SUFFICES ASSUME Init PROVE EngineInv
  OBVIOUS
<1>1. NoOperation \in Operation
  BY DEF NoOperation, Operation, Statuses, ActionStatuses
<1>2. TypeOK
  <2>1. variables \in [Action -> {"absent", "foreign", "ours"}]
    BY DEF Init
  <2>2. applied \in [Action -> 0..2] /\ at \in [Worker -> Action \cup {-1}]
    BY DEF Init
  <2>3. seen \in [Worker -> [Action -> Reports]] /\ mine \in [Worker -> Operation]
    BY <1>1 DEF Init, NoReport, Reports
  <2> QED
    BY <1>1, <2>1, <2>2, <2>3 DEF Init, TypeOK, Phases
<1>3. TrueClaims(NoOperation)
  BY DEF TrueClaims, NoOperation, Written, Action
<1>4. ASSUME NEW w \in Worker PROVE ProcessOK(w)
  BY <1>3 DEF Init, ProcessOK, Behind, NoOperation, NoReport
<1> QED
  BY <1>2, <1>3, <1>4 DEF Init, EngineInv

\* Every step keeps it.
LEMMA EngineStep == EngineInv /\ [Next]_vars => EngineInv' /\ NoStepBack
BY ApplyStep, ResumeStep, InspectStep, ReconcileStep, BeginWriteStep,
   BeginStageStep, ProviderAppliesStep, WriteSucceedsStep, WriteFailsStep,
   SaveWrittenStep, SaveVerifyingStep, SkipVerifiedStep, VerifyStep, FinishStep,
   CrashStep, LateDeliveryStep, OutsideStep DEF Next

\* Whatever the processes, the provider and the network do, the operation has a
\* status that the engine knows, and so has each of its actions.
THEOREM EngineTypeCorrect == Spec => []TypeOK
<1>1. EngineInv => TypeOK
  BY DEF EngineInv
<1> QED
  BY <1>1, EngineInitial, EngineStep, PTL DEF Spec

\* The journal of a rollout claims only writes that happened, with any number of
\* processes resuming it, crashes anywhere, and requests that are lost or late:
\* advance records evidence only for what it asked of the provider, and only at
\* the revision it read.
THEOREM JournalTrue == Spec => []JournalIsTrue
<1>1. EngineInv => JournalIsTrue
  BY DEF EngineInv, TrueClaims, JournalIsTrue
<1> QED
  BY <1>1, EngineInitial, EngineStep, PTL DEF Spec

\* SaveOperation's expected revision keeps each committed action committed and
\* each finished operation finished, whichever process stores next.
THEOREM CommittedStay == Spec => CommittedStays
BY EngineInitial, EngineStep, PTL DEF Spec, CommittedStays

-----------------------------------------------------------------------------
(* No blind duplicates *)

\* The process waits for the request of the action.
Writes(w, a) == pc[w] = "writing" /\ at[w] = a

\* A request has one process that waits for it, or none and is in transit, or it
\* took effect; and only once it is settled may the action be pending again.
ActionOnce(a) ==
  /\ Underway(a) => stored.actions[a] # "pending"
  /\ a \in transit => applied[a] = 0
  /\ applied[a] < 2
  /\ \A w \in Worker :
       Writes(w, a) =>
         /\ a \notin transit
         /\ done[w] = FALSE => applied[a] = 0
         /\ \A v \in Worker : Writes(v, a) => v = w

OnceInv == mistaken = FALSE => \A a \in Action : ActionOnce(a)

\* Adapters that write action by action, without idempotent writes, and that
\* report as safe to retry, or as final, only what took no effect.
Blind == ~Retriable /\ ~Atomic /\ Classifies

\* The other processes wait as before.
Alone(w) ==
  \A v \in Worker \ {w} : pc'[v] = pc[v] /\ at'[v] = at[v] /\ done'[v] = done[v]

LEMMA ReturnAlone ==
  ASSUME EngineInv, NEW w \in Worker, Return(w)
  PROVE  Alone(w) /\ pc'[w] = "idle"
BY DEF EngineInv, TypeOK, Return, Alone

LEMMA StoredFromHand ==
  ASSUME EngineInv, NEW w \in Worker, NEW op \in Operation, op.revision = mine[w].revision,
         \/ MayStore(op) /\ stored' = Checkpoint(op)
         \/ UNCHANGED stored
  PROVE  \/ stored' = stored
         \/ mine[w] = stored /\ stored'.actions = op.actions
<1>1. CASE MayStore(op) /\ stored' = Checkpoint(op)
  <2>1. mine[w] = stored
    BY <1>1 DEF MayStore, EngineInv, ProcessOK, Behind
  <2>2. stored'.actions = op.actions
    BY <1>1 DEF Checkpoint, Operation
  <2> QED
    BY <2>1, <2>2
<1> QED
  BY <1>1

\* What Save does to the stored operation and to who waits.
LEMMA SaveAlone ==
  ASSUME EngineInv, NEW w \in Worker, NEW op \in Operation, op.revision = mine[w].revision,
         NEW next \in Phases \ {"idle"}, NEW a, Save(w, op, next, a)
  PROVE  /\ Alone(w)
         /\ stored' = stored \/ (mine[w] = stored /\ stored'.actions = op.actions)
         /\ \/ pc'[w] = "idle"
            \/ /\ pc'[w] = next /\ at'[w] = a /\ done'[w] = FALSE
               /\ mine[w] = stored /\ stored'.actions = op.actions
<1>1. CASE Return(w) /\ (UNCHANGED stored \/ (MayStore(op) /\ stored' = Checkpoint(op)))
  BY <1>1, ReturnAlone, StoredFromHand
<1>2. CASE /\ MayStore(op) /\ stored' = Checkpoint(op)
           /\ pc' = [pc EXCEPT ![w] = next]
           /\ at' = [at EXCEPT ![w] = a]
           /\ done' = [done EXCEPT ![w] = FALSE]
  <2>1. Alone(w) /\ pc'[w] = next /\ at'[w] = a /\ done'[w] = FALSE
    BY <1>2 DEF EngineInv, TypeOK, Alone
  <2>2. mine[w] = stored
    BY <1>2 DEF MayStore, EngineInv, ProcessOK, Behind
  <2>3. stored'.actions = op.actions
    BY <1>2 DEF Checkpoint, Operation
  <2> QED
    BY <2>1, <2>2, <2>3
<1> QED
  BY <1>1, <1>2 DEF Save

\* A step after which the process waits for no request: what it waited for is in
\* transit, or settled.
LEMMA StopsWaiting ==
  ASSUME NEW w \in Worker, NEW a \in Action, ActionOnce(a), Alone(w), UNCHANGED applied,
         pc'[w] # "writing",
         a \in transit' => a \in transit \/ (Writes(w, a) /\ done[w] = FALSE),
         stored'.actions[a] = "pending" =>
           \/ stored.actions[a] = "pending"
           \/ /\ applied[a] = 0 /\ a \notin transit'
              /\ \A v \in Worker \ {w} : ~Writes(v, a)
  PROVE  ActionOnce(a)'
<1>1. \A v \in Worker : Writes(v, a)' => v # w /\ Writes(v, a) /\ done'[v] = done[v]
  BY DEF Writes, Alone
<1>2. Underway(a)' => Underway(a)
  BY <1>1 DEF Underway, Writes
<1>3. Underway(a)' => stored'.actions[a] # "pending"
  BY <1>1, <1>2 DEF ActionOnce, Underway, Writes
<1>4. a \in transit' => applied'[a] = 0
  BY DEF ActionOnce
<1>5. ASSUME NEW v \in Worker, Writes(v, a)'
      PROVE  /\ a \notin transit'
             /\ done'[v] = FALSE => applied'[a] = 0
             /\ \A u \in Worker : Writes(u, a)' => u = v
  BY <1>1, <1>5 DEF ActionOnce
<1> QED
  BY <1>3, <1>4, <1>5 DEF ActionOnce

\* Steps of a process that neither waits nor is going to, and that makes no
\* action pending.
LEMMA NotWaiting ==
  ASSUME OnceInv, NEW w \in Worker, Alone(w), UNCHANGED <<applied, transit>>,
         mistaken' = FALSE => mistaken = FALSE, pc'[w] # "writing",
         NEW op, \A a \in Action : op.actions[a] = "pending" => mine[w].actions[a] = "pending",
         stored' = stored \/ (mine[w] = stored /\ stored'.actions = op.actions)
  PROVE  OnceInv'
<1> SUFFICES ASSUME mistaken' = FALSE, NEW a \in Action PROVE ActionOnce(a)'
  BY DEF OnceInv
<1>1. stored'.actions[a] = "pending" => stored.actions[a] = "pending"
  OBVIOUS
<1> QED
  BY <1>1, StopsWaiting DEF OnceInv

LEMMA OnceSteps ==
  ASSUME Blind, EngineInv, OnceInv, NEW w \in Worker,
         \/ Apply(w) \/ Resume(w) \/ Inspect(w) \/ SaveWritten(w) \/ SaveVerifying(w)
         \/ SkipVerified(w) \/ Verify(w) \/ Finish(w)
  PROVE  OnceInv'
<1>1. mine[w] \in Operation /\ UNCHANGED <<applied, transit, mistaken>>
  BY InHand DEF Apply, Resume, Inspect, SaveWritten, SaveVerifying, SkipVerified, Verify,
                Finish, providerVars
<1>2. CASE Apply(w)
  <2> DEFINE op == [NoOperation EXCEPT !.status = "confirmed"]
  <2>1. mine[w] = NoOperation
    BY <1>2 DEF Apply, EngineInv, ProcessOK, Behind
  <2>2. /\ op \in Operation /\ op.revision = mine[w].revision
        /\ op.actions = mine[w].actions
    BY <2>1 DEF NoOperation, Operation, Statuses, ActionStatuses
  <2>3. Save(w, op, "inspecting", -1) /\ "inspecting" \in Phases \ {"idle"}
    BY <1>2 DEF Apply, Phases
  <2> HIDE DEF op
  <2>4. /\ Alone(w) /\ pc'[w] # "writing"
        /\ stored' = stored \/ (mine[w] = stored /\ stored'.actions = op.actions)
    BY <2>2, <2>3, SaveAlone
  <2> QED
    BY <1>1, <2>2, <2>4, NotWaiting
<1>3. CASE Resume(w) \/ SkipVerified(w)
  <2>1. Alone(w) /\ pc'[w] # "writing" /\ stored' = stored
    BY <1>3 DEF Resume, SkipVerified, Alone, EngineInv, TypeOK
  <2> QED
    BY <1>1, <2>1, NotWaiting
<1>4. CASE Inspect(w)
  <2>1. CASE Return(w)
    BY <1>1, <1>4, <2>1, ReturnAlone, NotWaiting DEF Inspect
  <2>2. CASE pc' = [pc EXCEPT ![w] = "advancing"] /\ UNCHANGED <<mine, at, done>>
    <3>1. Alone(w) /\ pc'[w] # "writing" /\ stored' = stored
      BY <1>4, <2>2 DEF Inspect, Alone, EngineInv, TypeOK
    <3> QED
      BY <1>1, <3>1, NotWaiting
  <2> QED
    BY <1>4, <2>1, <2>2 DEF Inspect
<1>5. ASSUME NEW status \in Statuses, NEW next \in Phases \ {"idle", "writing"}, NEW a,
             Save(w, [mine[w] EXCEPT !.status = status], next, a)
      PROVE  OnceInv'
  <2> DEFINE op == [mine[w] EXCEPT !.status = status]
  <2>1. op \in Operation /\ op.revision = mine[w].revision /\ op.actions = mine[w].actions
    BY <1>1 DEF Operation
  <2>2. Save(w, op, next, a) /\ next \in Phases \ {"idle"} /\ next # "writing"
    BY <1>5
  <2> HIDE DEF op
  <2>3. /\ Alone(w) /\ pc'[w] # "writing"
        /\ stored' = stored \/ (mine[w] = stored /\ stored'.actions = op.actions)
    BY <2>1, <2>2, SaveAlone
  <2> QED
    BY <1>1, <2>1, <2>3, NotWaiting
<1>6. ASSUME NEW status \in Statuses,
             SaveAndReturn(w, [mine[w] EXCEPT !.status = status])
      PROVE  OnceInv'
  <2> DEFINE op == [mine[w] EXCEPT !.status = status]
  <2>1. op \in Operation /\ op.revision = mine[w].revision /\ op.actions = mine[w].actions
    BY <1>1 DEF Operation
  <2>2. Return(w) /\ ((MayStore(op) /\ stored' = Checkpoint(op)) \/ UNCHANGED stored)
    BY <1>6 DEF SaveAndReturn
  <2> HIDE DEF op
  <2>3. /\ Alone(w) /\ pc'[w] # "writing"
        /\ stored' = stored \/ (mine[w] = stored /\ stored'.actions = op.actions)
    BY <2>1, <2>2, ReturnAlone, StoredFromHand
  <2> QED
    BY <1>1, <2>1, <2>3, NotWaiting
<1>7. CASE SaveWritten(w)
  BY <1>5, <1>7 DEF SaveWritten, Statuses, Phases
<1>8. CASE SaveVerifying(w)
  BY <1>5, <1>8 DEF SaveVerifying, Statuses, Phases
<1>9. CASE Finish(w)
  BY <1>6, <1>9 DEF Finish, Statuses
<1>10. CASE Verify(w)
  <2>1. ASSUME NEW result \in {"verified", "limited"},
               Save(w, [mine[w] EXCEPT !.actions[at[w]] = result], "verifying", After(at[w]))
        PROVE  OnceInv'
    <3> DEFINE op == [mine[w] EXCEPT !.actions[at[w]] = result]
    <3>1. at[w] \in Action
      BY <1>10 DEF Verify, EngineInv, TypeOK
    <3>2. /\ op \in Operation /\ op.revision = mine[w].revision
          /\ \A a \in Action : op.actions[a] = "pending" => mine[w].actions[a] = "pending"
      BY <1>1, <3>1 DEF Operation, ActionStatuses
    <3>3. Save(w, op, "verifying", After(at[w])) /\ "verifying" \in Phases \ {"idle"}
      BY <2>1 DEF Phases
    <3> HIDE DEF op
    <3>4. /\ Alone(w) /\ pc'[w] # "writing"
          /\ stored' = stored \/ (mine[w] = stored /\ stored'.actions = op.actions)
      BY <3>2, <3>3, SaveAlone
    <3> QED
      BY <1>1, <3>2, <3>4, NotWaiting
  <2>2. ASSUME NEW status \in {"failed", "retryable"},
               SaveAndReturn(w, [mine[w] EXCEPT !.status = status])
        PROVE  OnceInv'
    BY <1>6, <2>2 DEF Statuses
  <2> QED
    BY <1>10, <2>1, <2>2 DEF Verify
<1> QED
  BY <1>2, <1>3, <1>4, <1>7, <1>8, <1>9, <1>10

\* An action is pending again only when an inspection found it not written and no
\* request for it is under way, or the mistake is on record.
LEMMA OnceReconcile ==
  ASSUME Blind, EngineInv, OnceInv, NEW w \in Worker, Reconcile(w)
  PROVE  OnceInv'
<1> PICK a \in Action :
      /\ Advancing(w, a) /\ Ambiguous(w, a)
      /\ IF Reconciled(w, a) = "in_flight"
           THEN SaveAndReturn(w, [mine[w] EXCEPT !.status = "reconciliation"])
           ELSE Save(w, [mine[w] EXCEPT !.actions[a] = Reconciled(w, a)], "advancing", -1)
      /\ mistaken' = (mistaken \/ (Reconciled(w, a) = "pending" /\ Underway(a)))
      /\ UNCHANGED <<stale, providerVars>>
  BY DEF Reconcile
<1>1. UNCHANGED <<transit, applied>> /\ mine[w] \in Operation /\ pc[w] = "advancing"
  BY InHand DEF providerVars, Advancing
<1>2. mistaken' = FALSE => mistaken = FALSE /\ ~(Reconciled(w, a) = "pending" /\ Underway(a))
  <2>1. mistaken \in BOOLEAN
    BY DEF EngineInv, TypeOK
  <2> QED
    BY <2>1, Zenon
<1>3. CASE Reconciled(w, a) = "in_flight"
  <2> DEFINE op == [mine[w] EXCEPT !.status = "reconciliation"]
  <2>1. op \in Operation /\ op.revision = mine[w].revision /\ op.actions = mine[w].actions
    BY <1>1 DEF Operation, Statuses
  <2>2. Return(w) /\ ((MayStore(op) /\ stored' = Checkpoint(op)) \/ UNCHANGED stored)
    BY <1>3 DEF SaveAndReturn
  <2> HIDE DEF op
  <2>3. /\ Alone(w) /\ pc'[w] # "writing"
        /\ stored' = stored \/ (mine[w] = stored /\ stored'.actions = op.actions)
    BY <2>1, <2>2, ReturnAlone, StoredFromHand
  <2> QED
    BY <1>1, <1>2, <2>1, <2>3, NotWaiting
<1>4. CASE Reconciled(w, a) # "in_flight"
  <2> DEFINE op == [mine[w] EXCEPT !.actions[a] = Reconciled(w, a)]
  <2>1. Reconciled(w, a) \in {"committed", "pending"}
    BY <1>4 DEF Reconciled
  <2>2. /\ op \in Operation /\ op.revision = mine[w].revision
        /\ \A b \in Action : op.actions[b] = IF b = a THEN Reconciled(w, a) ELSE mine[w].actions[b]
    BY <1>1, <2>1 DEF Operation, ActionStatuses
  <2>3. Save(w, op, "advancing", -1) /\ "advancing" \in Phases \ {"idle"}
    BY <1>4 DEF Phases
  <2> HIDE DEF op
  <2>4. /\ Alone(w) /\ pc'[w] # "writing"
        /\ stored' = stored \/ (mine[w] = stored /\ stored'.actions = op.actions)
    BY <2>2, <2>3, SaveAlone
  <2> SUFFICES ASSUME mistaken' = FALSE, NEW b \in Action PROVE ActionOnce(b)'
    BY DEF OnceInv
  <2>5. ActionOnce(b) /\ ~(Reconciled(w, a) = "pending" /\ Underway(a))
    BY <1>2 DEF OnceInv
  <2>6. stored'.actions[b] = "pending" => stored.actions[b] = "pending" \/ ~Underway(b)
    BY <2>2, <2>4, <2>5
  <2>7. ~Underway(b) => /\ applied[b] = 0 /\ b \notin transit
                        /\ \A v \in Worker \ {w} : ~Writes(v, b)
    BY DEF Underway, Writes, EngineInv, TypeOK
  <2> QED
    BY <1>1, <2>4, <2>5, <2>6, <2>7, StopsWaiting
<1> QED
  BY <1>3, <1>4

\* A request is sent only of an action that was pending, so of none under way.
LEMMA OnceBeginWrite ==
  ASSUME Blind, EngineInv, OnceInv, NEW w \in Worker, BeginWrite(w)
  PROVE  OnceInv'
<1> PICK a \in Action :
      /\ Advancing(w, a) /\ ~Ambiguous(w, a)
      /\ IF a \notin stale
           THEN Save(w, [mine[w] EXCEPT !.status = "writing",
                                        !.actions[a] = "in_flight"], "writing", a)
           ELSE UNCHANGED stored /\ Return(w)
      /\ UNCHANGED <<stale, providerVars, mistaken>>
  BY DEF BeginWrite
<1>1. UNCHANGED <<transit, applied, mistaken>> /\ mine[w] \in Operation /\ pc[w] = "advancing"
  BY InHand DEF providerVars, Advancing
<1>2. mine[w].actions[a] = "pending"
  <2>1. Unwritten(mine[w]) \subseteq Action
    BY DEF Unwritten
  <2>2. mine[w].actions[a] \notin Written
    BY <2>1, FirstIsLeast DEF Advancing, Unwritten
  <2>3. mine[w].actions[a] # "in_flight"
    BY DEF Ambiguous, Blind
  <2> QED
    BY <1>1, <2>2, <2>3 DEF Operation, ActionStatuses, Written
<1>3. CASE a \in stale
  BY <1>1, <1>3, ReturnAlone, NotWaiting
<1>4. CASE a \notin stale
  <2> DEFINE op == [mine[w] EXCEPT !.status = "writing", !.actions[a] = "in_flight"]
  <2>1. /\ op \in Operation /\ op.revision = mine[w].revision
        /\ \A b \in Action : op.actions[b] = IF b = a THEN "in_flight" ELSE mine[w].actions[b]
    BY <1>1 DEF Operation, Statuses, ActionStatuses
  <2>2. Save(w, op, "writing", a) /\ "writing" \in Phases \ {"idle"}
    BY <1>4 DEF Phases
  <2> HIDE DEF op
  <2>3. /\ Alone(w)
        /\ stored' = stored \/ (mine[w] = stored /\ stored'.actions = op.actions)
        /\ \/ pc'[w] = "idle"
           \/ /\ pc'[w] = "writing" /\ at'[w] = a /\ done'[w] = FALSE
              /\ mine[w] = stored /\ stored'.actions = op.actions
    BY <2>1, <2>2, SaveAlone
  <2>4. CASE pc'[w] = "idle"
    <3>1. \A b \in Action : op.actions[b] = "pending" => mine[w].actions[b] = "pending"
      BY <2>1
    <3>2. /\ UNCHANGED <<applied, transit>> /\ pc'[w] # "writing"
          /\ mistaken' = FALSE => mistaken = FALSE
      BY <1>1, <2>4
    <3> QED
      BY <2>3, <3>1, <3>2, NotWaiting
  <2>5. CASE pc'[w] # "idle"
    <3> SUFFICES ASSUME mistaken' = FALSE, NEW b \in Action PROVE ActionOnce(b)'
      BY DEF OnceInv
    <3>1. ActionOnce(b)
      BY <1>1 DEF OnceInv
    <3>2. /\ pc'[w] = "writing" /\ at'[w] = a /\ done'[w] = FALSE
          /\ stored'.actions[b] = IF b = a THEN "in_flight" ELSE stored.actions[b]
          /\ stored.actions[a] = "pending"
      BY <1>2, <2>1, <2>3, <2>5
    <3>3. \A v \in Worker \ {w} : (Writes(v, b)' <=> Writes(v, b)) /\ done'[v] = done[v]
      BY <2>3 DEF Alone, Writes
    <3>4. CASE b = a
      <4>1. applied[a] = 0 /\ a \notin transit /\ \A v \in Worker : ~Writes(v, a)
        BY <3>1, <3>2, <3>4 DEF ActionOnce, Underway, Writes, EngineInv, TypeOK
      <4>2. \A v \in Worker : Writes(v, a)' => v = w
        BY <3>3, <3>4, <4>1
      <4> QED
        BY <1>1, <3>2, <3>4, <4>1, <4>2 DEF ActionOnce
    <3>5. CASE b # a
      <4>1. ~Writes(w, b) /\ ~Writes(w, b)'
        BY <1>1, <3>2, <3>5 DEF Writes
      <4>2. \A v \in Worker : (Writes(v, b)' <=> Writes(v, b)) /\ (Writes(v, b) => done'[v] = done[v])
        BY <3>3, <4>1
      <4>3. Underway(b)' <=> Underway(b)
        BY <1>1, <4>2 DEF Underway, Writes
      <4> QED
        BY <1>1, <3>1, <3>2, <3>5, <4>2, <4>3 DEF ActionOnce
    <3> QED
      BY <3>4, <3>5
  <2> QED
    BY <2>4, <2>5
<1> QED
  BY <1>3, <1>4

LEMMA OnceWriteSucceeds ==
  ASSUME Blind, EngineInv, OnceInv, NEW w \in Worker, WriteSucceeds(w)
  PROVE  OnceInv'
<1> DEFINE op == WithAll(mine[w], Requested(w), "committed")
<1>1. /\ UNCHANGED <<transit, applied, mistaken>> /\ Save(w, op, "advancing", -1)
  BY DEF WriteSucceeds, Blind, providerVars
<1>2. /\ op \in Operation /\ op.revision = mine[w].revision
      /\ \A b \in Action : op.actions[b] = IF b \in Requested(w) THEN "committed" ELSE mine[w].actions[b]
  BY InHand, WithAllActions DEF ActionStatuses
<1>3. "advancing" \in Phases \ {"idle"}
  BY DEF Phases
<1> HIDE DEF op
<1>4. /\ Alone(w) /\ pc'[w] # "writing"
      /\ stored' = stored \/ (mine[w] = stored /\ stored'.actions = op.actions)
  BY <1>1, <1>2, <1>3, SaveAlone
<1>5. /\ \A b \in Action : op.actions[b] = "pending" => mine[w].actions[b] = "pending"
      /\ UNCHANGED <<applied, transit>> /\ (mistaken' = FALSE => mistaken = FALSE)
  BY <1>1, <1>2
<1> QED
  BY <1>4, <1>5, NotWaiting

\* A write that failed is pending again only if the adapter knows that it took no
\* effect; otherwise its request may be in transit.
LEMMA OnceWriteFails ==
  ASSUME Blind, EngineInv, OnceInv, NEW w \in Worker, NEW retry \in {"never", "safe", "ambiguous"},
         WriteFails(w, retry)
  PROVE  OnceInv'
<1> DEFINE op == AfterError(w, retry)
           status == IF retry = "ambiguous" THEN "in_flight" ELSE "pending"
           failed == WithAll(mine[w], Requested(w), status)
<1>1. /\ UNCHANGED <<applied, mistaken>> /\ pc[w] = "writing" /\ Return(w)
      /\ (MayStore(op) /\ stored' = Checkpoint(op)) \/ UNCHANGED stored
      /\ retry # "ambiguous" => done[w] = FALSE /\ transit' = transit
      /\ retry = "ambiguous" =>
           transit' = IF done[w] = FALSE THEN transit \cup Requested(w) ELSE transit
  <2>1. done[w] \in BOOLEAN
    BY DEF EngineInv, TypeOK
  <2>2. /\ UNCHANGED <<applied, mistaken>> /\ pc[w] = "writing" /\ Return(w)
        /\ (MayStore(op) /\ stored' = Checkpoint(op)) \/ UNCHANGED stored
    BY DEF WriteFails, SaveAndReturn
  <2>3. /\ NoEffect(retry) => ~done[w]
        /\ IF NoEffect(retry) THEN UNCHANGED transit ELSE GivesUp(w)
    BY DEF WriteFails
  <2>4. NoEffect(retry) <=> retry # "ambiguous"
    BY DEF NoEffect, Blind
  <2>5. ASSUME retry # "ambiguous" PROVE done[w] = FALSE /\ transit' = transit
    <3>1. ~done[w] /\ transit' = transit
      BY <2>3, <2>4, <2>5
    <3> QED
      BY <2>1, <3>1, Zenon
  <2>6. ASSUME retry = "ambiguous"
        PROVE  transit' = IF done[w] = FALSE THEN transit \cup Requested(w) ELSE transit
    <3>1. transit' = IF ~done[w] THEN transit \cup Requested(w) ELSE transit
      BY <2>2, <2>3, <2>4, <2>6 DEF GivesUp
    <3>2. CASE done[w]
      BY <3>1, <3>2
    <3>3. CASE ~done[w]
      <4>1. done[w] = FALSE
        BY <2>1, <3>3, Zenon
      <4> QED
        BY <3>1, <3>3, <4>1
    <3> QED
      BY <3>2, <3>3, Zenon
  <2> QED
    BY <2>2, <2>5, <2>6
<1>2. /\ failed \in Operation /\ failed.revision = mine[w].revision
      /\ \A b \in Action : failed.actions[b] =
                             IF b \in Requested(w) THEN status ELSE mine[w].actions[b]
  BY InHand, WithAllActions DEF ActionStatuses
<1>3. /\ op \in Operation /\ op.revision = mine[w].revision
      /\ op.actions = failed.actions
  BY <1>2 DEF AfterError, Operation, Statuses
<1> HIDE DEF op, failed
<1>4. /\ Alone(w) /\ pc'[w] # "writing"
      /\ stored' = stored \/ (mine[w] = stored /\ stored'.actions = op.actions)
  BY <1>1, <1>3, ReturnAlone, StoredFromHand
<1>5. \A b \in Action : b \in Requested(w) <=> Writes(w, b)
  BY <1>1 DEF Requested, Writes, Blind
<1> SUFFICES ASSUME mistaken' = FALSE, NEW a \in Action PROVE ActionOnce(a)'
  BY DEF OnceInv
<1>6. ActionOnce(a)
  BY <1>1 DEF OnceInv
<1>7. a \in transit' => a \in transit \/ (Writes(w, a) /\ done[w] = FALSE)
  BY <1>1, <1>5
<1>8. ASSUME stored'.actions[a] = "pending"
      PROVE  \/ stored.actions[a] = "pending"
             \/ /\ applied[a] = 0 /\ a \notin transit'
                /\ \A v \in Worker \ {w} : ~Writes(v, a)
  <2>1. CASE stored' = stored \/ a \notin Requested(w)
    BY <1>2, <1>3, <1>4, <1>8, <2>1
  <2>2. CASE stored' # stored /\ a \in Requested(w)
    <3>1. Writes(w, a) /\ status = "pending"
      BY <1>2, <1>3, <1>4, <1>5, <1>8, <2>2
    <3>2. done[w] = FALSE /\ transit' = transit
      BY <1>1, <3>1
    <3> QED
      BY <1>6, <3>1, <3>2 DEF ActionOnce
  <2> QED
    BY <2>1, <2>2
<1> QED
  BY <1>1, <1>4, <1>6, <1>7, <1>8, StopsWaiting

LEMMA OnceCrash ==
  ASSUME Blind, EngineInv, OnceInv, NEW w \in Worker, Crash(w)
  PROVE  OnceInv'
<1>1. /\ UNCHANGED <<stored, applied, mistaken>> /\ Alone(w) /\ pc'[w] # "writing"
  BY ReturnAlone DEF Crash
<1>2. \A a \in Action : a \in transit' => a \in transit \/ (Writes(w, a) /\ done[w] = FALSE)
  <2>1. done[w] \in BOOLEAN
    BY DEF EngineInv, TypeOK
  <2> QED
    BY <2>1 DEF Crash, GivesUp, Requested, Writes, Blind
<1> SUFFICES ASSUME mistaken' = FALSE, NEW a \in Action PROVE ActionOnce(a)'
  BY DEF OnceInv
<1>3. ActionOnce(a)
  BY <1>1 DEF OnceInv
<1> QED
  BY <1>1, <1>2, <1>3, StopsWaiting

LEMMA OnceProviderApplies ==
  ASSUME Blind, EngineInv, OnceInv, NEW w \in Worker, ProviderApplies(w)
  PROVE  OnceInv'
<1>1. /\ UNCHANGED <<stored, transit, pc, at, mistaken>>
      /\ pc[w] = "writing" /\ ~done[w] /\ done' = [done EXCEPT ![w] = TRUE]
      /\ applied' = [a \in Action |-> IF a \in Requested(w) /\ applied[a] < 2
                                        THEN applied[a] + 1 ELSE applied[a]]
  BY DEF ProviderApplies, TakesEffect
<1>2. done[w] = FALSE /\ done'[w] = TRUE /\ \A v \in Worker \ {w} : done'[v] = done[v]
  <2>1. done \in [Worker -> BOOLEAN]
    BY DEF EngineInv, TypeOK
  <2>2. done[w] = FALSE
    BY <1>1, <2>1
  <2>3. done'[w] = TRUE
    BY <1>1, <2>1, Zenon
  <2>4. \A v \in Worker \ {w} : done'[v] = done[v]
    BY <1>1, <2>1
  <2> QED
    BY <2>2, <2>3, <2>4
<1> SUFFICES ASSUME mistaken' = FALSE, NEW a \in Action PROVE ActionOnce(a)'
  BY DEF OnceInv
<1>3. ActionOnce(a) /\ applied[a] \in 0..2
  BY <1>1 DEF OnceInv, EngineInv, TypeOK
<1>4. \A v \in Worker : Writes(v, a)' <=> Writes(v, a)
  BY <1>1 DEF Writes
<1>5. CASE Writes(w, a)
  <2>1. a \in Requested(w)
    BY <1>5 DEF Writes, Requested, Blind
  <2>2. applied[a] = 0 /\ a \notin transit /\ stored.actions[a] # "pending"
    BY <1>2, <1>3, <1>5 DEF ActionOnce, Underway, Writes
  <2>3. applied'[a] = 1
    BY <1>1, <2>1, <2>2
  <2>4. \A v \in Worker : Writes(v, a)' => v = w
    BY <1>3, <1>4, <1>5 DEF ActionOnce
  <2>5. ~(done'[w] = FALSE)
    BY <1>2
  <2> QED
    BY <1>1, <1>4, <1>5, <2>2, <2>3, <2>4, <2>5 DEF ActionOnce
<1>6. CASE ~Writes(w, a)
  <2>1. a \notin Requested(w)
    BY <1>1, <1>6 DEF Writes, Requested, Blind
  <2>2. applied'[a] = applied[a]
    BY <1>1, <2>1
  <2>3. Underway(a)' <=> Underway(a)
    BY <1>1, <2>2 DEF Underway
  <2>4. \A v \in Worker : Writes(v, a) => done'[v] = done[v]
    BY <1>2, <1>6
  <2> QED
    BY <1>1, <1>3, <1>4, <2>2, <2>3, <2>4 DEF ActionOnce
<1> QED
  BY <1>5, <1>6

LEMMA OnceLateDelivery ==
  ASSUME Blind, EngineInv, OnceInv, NEW b \in Action, LateDelivery(b)
  PROVE  OnceInv'
<1>1. /\ UNCHANGED <<stored, pc, at, done, mistaken>> /\ b \in transit /\ transit' = transit \ {b}
      /\ applied' = [a \in Action |-> IF a \in {b} /\ applied[a] < 2
                                        THEN applied[a] + 1 ELSE applied[a]]
  BY DEF LateDelivery, TakesEffect, localVars, Blind
<1> SUFFICES ASSUME mistaken' = FALSE, NEW a \in Action PROVE ActionOnce(a)'
  BY DEF OnceInv
<1>2. ActionOnce(a) /\ applied[a] \in 0..2
  BY <1>1 DEF OnceInv, EngineInv, TypeOK
<1>3. \A v \in Worker : Writes(v, a)' <=> Writes(v, a)
  BY <1>1 DEF Writes
<1>4. CASE a = b
  <2>1. applied'[a] = 1 /\ a \notin transit'
    BY <1>1, <1>2, <1>4 DEF ActionOnce
  <2>2. stored.actions[a] # "pending" /\ \A v \in Worker : ~Writes(v, a)
    BY <1>1, <1>2, <1>4 DEF ActionOnce, Underway
  <2> QED
    BY <1>1, <1>3, <2>1, <2>2 DEF ActionOnce
<1>5. CASE a # b
  <2>1. applied'[a] = applied[a] /\ (a \in transit' <=> a \in transit)
    BY <1>1, <1>5
  <2>2. Underway(a)' <=> Underway(a)
    BY <1>1, <2>1 DEF Underway
  <2> QED
    BY <1>1, <1>2, <1>3, <2>1, <2>2 DEF ActionOnce
<1> QED
  BY <1>4, <1>5

LEMMA OnceInitial == Init => OnceInv
<1> SUFFICES ASSUME Init, NEW a \in Action PROVE ActionOnce(a)
  BY DEF OnceInv
<1>1. applied[a] = 0 /\ transit = {} /\ \A w \in Worker : ~Writes(w, a)
  BY DEF Init, Writes
<1> QED
  BY <1>1 DEF ActionOnce, Underway, Writes

LEMMA OnceNext ==
  ASSUME Blind
  PROVE  EngineInv /\ OnceInv /\ [Next]_vars => OnceInv'
<1> SUFFICES ASSUME EngineInv, OnceInv, [Next]_vars PROVE OnceInv'
  OBVIOUS
<1>1. ASSUME UNCHANGED <<stored, transit, pc, at, done, applied, mistaken>> PROVE OnceInv'
  <2> SUFFICES ASSUME mistaken' = FALSE, NEW a \in Action PROVE ActionOnce(a)'
    BY DEF OnceInv
  <2>1. ActionOnce(a)
    BY <1>1 DEF OnceInv
  <2> QED
    BY <1>1, <2>1 DEF ActionOnce, Underway, Writes
<1>2. CASE ChangeRecord \/ (\E a \in Action : ForeignWrite(a)) \/ UNCHANGED vars
  BY <1>1, <1>2 DEF ChangeRecord, ForeignWrite, providerVars, localVars, vars
<1>3. \A w \in Worker : ~BeginStage(w)
  BY DEF BeginStage, Blind
<1> QED
  BY <1>2, <1>3, OnceSteps, OnceReconcile, OnceBeginWrite, OnceWriteSucceeds, OnceWriteFails,
     OnceCrash, OnceProviderApplies, OnceLateDelivery DEF Next

\* advance: the journal knows of each write that happened or may still happen, for
\* any number of processes and actions, when the adapter writes action by action
\* and reports as safe or final only what took no effect (UnderwayIsJournaled).
THEOREM UnderwayJournaled ==
  ASSUME ~Atomic, Classifies
  PROVE  Spec => []UnderwayIsJournaled
<1>1. CASE Retriable
  <2>1. UnderwayIsJournaled
    BY <1>1 DEF UnderwayIsJournaled
  <2> QED
    BY <2>1, PTL
<1>2. CASE ~Retriable
  <2>1. Blind
    BY <1>2 DEF Blind
  <2>2. EngineInv /\ OnceInv => UnderwayIsJournaled
    BY DEF EngineInv, TypeOK, OnceInv, ActionOnce, UnderwayIsJournaled
  <2>3. EngineInv /\ OnceInv /\ [Next]_vars => OnceInv'
    BY <2>1, OnceNext
  <2> QED
    BY <2>2, <2>3, EngineInitial, EngineStep, OnceInitial, PTL DEF Spec
<1> QED
  BY <1>1, <1>2

\* advance and reconcileAction: under the same conditions no action takes effect
\* twice (NoBlindDuplicate).
THEOREM NoDuplicate ==
  ASSUME ~Atomic, Classifies
  PROVE  Spec => []NoBlindDuplicate
<1>1. CASE Retriable
  <2>1. NoBlindDuplicate
    BY <1>1 DEF NoBlindDuplicate
  <2> QED
    BY <2>1, PTL
<1>2. CASE ~Retriable
  <2>1. Blind
    BY <1>2 DEF Blind
  <2>2. EngineInv /\ OnceInv => NoBlindDuplicate
    BY DEF EngineInv, TypeOK, OnceInv, ActionOnce, NoBlindDuplicate
  <2>3. EngineInv /\ OnceInv /\ [Next]_vars => OnceInv'
    BY <2>1, OnceNext
  <2> QED
    BY <2>2, <2>3, EngineInitial, EngineStep, OnceInitial, PTL DEF Spec
<1> QED
  BY <1>1, <1>2

=============================================================================

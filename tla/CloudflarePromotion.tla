------------------------ MODULE CloudflarePromotion ------------------------
(***************************************************************************)
(* The cloudflare commands of cmd/envbank/cloudflare.go on one Worker:     *)
(* plan, apply and resume, promote with its health checks and automatic    *)
(* rollback, and rollback.  Several operations have the Worker as their    *)
(* target, and several processes run commands at once.                     *)
(*                                                                         *)
(* RolloutEngine has the engine's own checkpoints; here an operation is    *)
(* underway until the engine has it ready.  Every call may fail, may take  *)
(* effect and its answer be lost, and every process may stop: in all of    *)
(* these the command ends (Stop).  A request that takes effect long after  *)
(* its process gave up on it is a command that is slow to send it.         *)
(***************************************************************************)
EXTENDS Integers, Sequences, FiniteSets

CONSTANTS
  Process,    \* running commands
  Operation,  \* rollout operations, each with a plan of its own
  Binding,    \* names of the Worker's bindings
  Sets,       \* the bindings that each operation's plan sets
  None,
  Changing,   \* bound: the operations whose plan may become stale
  MaxVersion  \* bound: versions that are ever uploaded

ASSUME PromotionConstants ==
  /\ Sets \in [Operation -> SUBSET Binding]
  /\ None \notin Process \cup Operation \cup Binding
  /\ Changing \subseteq Operation
  /\ MaxVersion \in Nat

VARIABLES
  versions, \* the Worker's versions, in the order of their upload
  deployed, \* the one that is fully deployed
  prior,    \* plan.ProviderRevision of each operation; 0 without a plan
  stale,    \* operations whose plan no longer matches snapshot and records
  stored,   \* the operation objects
  pc,       \* where each command is
  mine,     \* its copy of the operation, and what it found deployed
  rebased,  \* history: another version was deployed between the validation of
            \* the operation's plan and its staging
  raced,    \* history: the operation's version was deployed after its rollback
  forced    \* history: a deployment of the operation replaced a version that
            \* was neither its own nor the one its plan names

histories == <<rebased, raced, forced>>
providerVars == <<versions, deployed>>
vars == <<providerVars, prior, stale, stored, pc, mine, histories>>

Statuses == {"none", "underway", "ready", "promoted", "rolled_back"}

\* A version has, of every binding, the operation that last set it.
Contents == [Binding -> Operation \cup {None}]

NoOperation == [status |-> "none", staged |-> 0]

\* current: the object is still at the revision that the command read.
Nothing == [o |-> None, status |-> "none", staged |-> 0, found |-> 0, current |-> FALSE]

Versions == 1..Len(versions)

TypeOK ==
  /\ versions \in Seq(Contents)
  /\ Len(versions) \in 1..MaxVersion
  /\ deployed \in Versions
  /\ prior \in [Operation -> Versions \cup {0}]
  /\ stale \subseteq Operation
  /\ stored \in [Operation -> [status : Statuses, staged : Versions \cup {0}]]
  /\ \A o \in Operation :
       stored[o].staged # 0 <=> stored[o].status \in {"ready", "promoted", "rolled_back"}
  /\ pc \in [Process -> {"idle", "staging", "uploading", "staged", "to_promote",
                         "promoting", "promoted", "checking", "reverting", "to_undo",
                         "undoing", "undone"}]
  /\ \A p \in Process : (pc[p] = "idle") <=> (mine[p] = Nothing)
  /\ {rebased, raced, forced} \subseteq SUBSET Operation

Init ==
  /\ versions = <<[b \in Binding |-> None]>>
  /\ deployed = 1
  /\ prior = [o \in Operation |-> 0]
  /\ stale = {}
  /\ stored = [o \in Operation |-> NoOperation]
  /\ pc = [p \in Process |-> "idle"]
  /\ mine = [p \in Process |-> Nothing]
  /\ rebased = {}
  /\ raced = {}
  /\ forced = {}

-----------------------------------------------------------------------------
Return(p) ==
  /\ pc' = [pc EXCEPT ![p] = "idle"]
  /\ mine' = [mine EXCEPT ![p] = Nothing]

Goto(p, next) == pc' = [pc EXCEPT ![p] = next]

\* LoadOperation.
Loaded(o) == [o |-> o, status |-> stored[o].status, staged |-> stored[o].staged,
              found |-> 0, current |-> TRUE]

\* The operation is stored, and every other copy of it outdated.
Stored(p, o, op) ==
  /\ stored' = [stored EXCEPT ![o] = op]
  /\ mine' = [q \in Process |->
                IF q = p THEN [mine[p] EXCEPT !.status = op.status, !.staged = op.staged]
                ELSE IF mine[q].o = o THEN [mine[q] EXCEPT !.current = FALSE]
                ELSE mine[q]]

\* SaveOperation: a stored operation is as its last reader saw it, or the
\* command ends with an error.
Save(p, status, staged, next) ==
  IF mine[p].current
  THEN /\ Stored(p, mine[p].o, [status |-> status, staged |-> staged])
       /\ Goto(p, next)
  ELSE Return(p) /\ UNCHANGED stored

\* A last SaveOperation: the command ends in either case.
SaveAndReturn(p, status, staged) ==
  LET o == mine[p].o IN
  /\ stored' = IF mine[p].current
               THEN [stored EXCEPT ![o] = [status |-> status, staged |-> staged]]
               ELSE stored
  /\ mine' = [q \in Process |->
                IF q = p THEN Nothing
                ELSE IF mine[q].o = o /\ mine[p].current THEN [mine[q] EXCEPT !.current = FALSE]
                ELSE mine[q]]
  /\ Goto(p, "idle")

\* API.Deploy: operations whose plan was validated and
\* whose version is not yet begun will be built on this one.
Deploy(v) ==
  /\ deployed' = v
  /\ rebased' = IF v = deployed THEN rebased
                ELSE rebased \cup {mine[q].o : q \in {r \in Process : pc[r] = "staging"}}

-----------------------------------------------------------------------------
(* cloudflare plan, apply and resume *)

\* The plan names the version that is deployed.
Plan(o) ==
  /\ prior[o] = 0
  /\ prior' = [prior EXCEPT ![o] = deployed]
  /\ UNCHANGED <<providerVars, stale, stored, pc, mine, histories>>

\* validateSnapshotBindings fails from now on: the snapshot was published
\* again, or a record of the plan written.
MakeStale(o) ==
  /\ prior[o] # 0
  /\ o \in Changing \ stale
  /\ stale' = stale \cup {o}
  /\ UNCHANGED <<providerVars, prior, stored, pc, mine, histories>>

\* Mutant: the deployed version is not compared with the plan's.
ValidUnlessStale(o) == prior[o] # 0 /\ o \notin stale

\* validatePlanContext: the snapshot, and the version that the plan names.
ValidPlan(o) == prior[o] # 0 /\ o \notin stale /\ deployed = prior[o]

\* Apply validates, asks for confirmation and stores a new operation.
Apply(p, o) ==
  /\ pc[p] = "idle"
  /\ ValidPlan(o)
  /\ stored[o] = NoOperation
  /\ stored' = [stored EXCEPT ![o].status = "underway"]
  /\ mine' = [mine EXCEPT ![p] = [Loaded(o) EXCEPT !.status = "underway"]]
  /\ Goto(p, "staging")
  /\ UNCHANGED <<providerVars, prior, stale, histories>>

Resume(p, o) ==
  /\ pc[p] = "idle"
  /\ stored[o].status = "underway"
  /\ ValidPlan(o)
  /\ mine' = [mine EXCEPT ![p] = Loaded(o)]
  /\ Goto(p, "staging")
  /\ UNCHANGED <<providerVars, prior, stale, stored, histories>>

\* Adapter.Stage inspects once more, and builds on what is deployed now.
Base == deployed

\* advance marks the batch in flight, and Stage inspects.
BeginStage(p) ==
  /\ pc[p] = "staging"
  /\ IF mine[p].current
     THEN /\ mine' = [q \in Process |->
                        IF q = p THEN [mine[p] EXCEPT !.found = Base]
                        ELSE IF mine[q].o = mine[p].o THEN [mine[q] EXCEPT !.current = FALSE]
                        ELSE mine[q]]
          /\ Goto(p, "uploading")
     ELSE Return(p)
  /\ UNCHANGED <<providerVars, prior, stale, stored, histories>>

\* The bindings that the plan does not set are inherited from the base.
Inherit(o, base) ==
  [b \in Binding |-> IF b \in Sets[o] THEN o ELSE versions[base][b]]

UploadVersion(p) ==
  /\ pc[p] = "uploading"
  /\ Len(versions) < MaxVersion
  /\ versions' = Append(versions, Inherit(mine[p].o, mine[p].found))
  /\ mine' = [mine EXCEPT ![p].staged = Len(versions) + 1, ![p].found = 0]
  /\ Goto(p, "staged")
  /\ UNCHANGED <<deployed, prior, stale, stored, histories>>

\* The evidence is stored, the version verified and the operation ready.
FinishStage(p) ==
  /\ pc[p] = "staged"
  /\ SaveAndReturn(p, "ready", mine[p].staged)
  /\ UNCHANGED <<providerVars, prior, stale, histories>>

-----------------------------------------------------------------------------
(* cloudflare promote *)

Promote(p, o) ==
  /\ pc[p] = "idle"
  /\ stored[o].status = "ready"
  /\ mine' = [mine EXCEPT ![p] = Loaded(o)]
  /\ Goto(p, "to_promote")
  /\ UNCHANGED <<providerVars, prior, stale, stored, histories>>

\* Mutant: the deployed version is not compared with the plan's.
MayPromoteOverAny(p) == mine[p].o \notin stale

\* The plan matches snapshot and records, and the version that it names is
\* the one deployed.
MayPromote(p) == ValidPlan(mine[p].o)

\* The validation, that of the staged version included, and the confirmation.
ValidatePromotion(p) ==
  /\ pc[p] = "to_promote"
  /\ MayPromote(p)
  /\ mine' = [mine EXCEPT ![p].found = deployed]
  /\ Goto(p, "promoting")
  /\ UNCHANGED <<providerVars, prior, stale, stored, histories>>

\* The operation's deployment replaces neither of its two versions.
Replace(p) ==
  forced' = IF deployed \in {mine[p].staged, prior[mine[p].o]} THEN forced
            ELSE forced \cup {mine[p].o}

\* A command is at the end of this operation's rollback, or one was.
BeingUndone(o) ==
  \/ stored[o].status = "rolled_back"
  \/ \E q \in Process : mine[q].o = o /\ pc[q] = "undone"

PromoteVersion(p) ==
  LET o == mine[p].o IN
  /\ pc[p] = "promoting"
  /\ Deploy(mine[p].staged)
  /\ raced' = IF BeingUndone(o) THEN raced \cup {o} ELSE raced
  /\ Replace(p)
  /\ mine' = [mine EXCEPT ![p].found = mine[p].staged]
  /\ Goto(p, "promoted")
  /\ UNCHANGED <<versions, prior, stale, stored>>

\* The evidence of the promotion.
SavePromoted(p) ==
  /\ pc[p] = "promoted"
  /\ Save(p, "promoted", mine[p].staged, "checking")
  /\ UNCHANGED <<providerVars, prior, stale, histories>>

CheckHealth(p) ==
  /\ pc[p] = "checking"
  /\ \/ Return(p)
     \/ Goto(p, "reverting") /\ UNCHANGED mine
  /\ UNCHANGED <<providerVars, prior, stale, stored, histories>>

-----------------------------------------------------------------------------
(* Rollback, by command or when health checks fail *)

\* rollback takes an operation in any status.
Rollback(p, o) ==
  /\ pc[p] = "idle"
  /\ stored[o].status # "none"
  /\ mine' = [mine EXCEPT ![p] = Loaded(o)]
  /\ Goto(p, "to_undo")
  /\ UNCHANGED <<providerVars, prior, stale, stored, histories>>

\* Mutant: the version is compared only of operations that are ready.
MayRollBackPromoted(p) ==
  /\ mine[p].o \notin stale
  /\ mine[p].status = "ready" => deployed = mine[p].staged

\* Only of an operation that is recorded as promoted is the deployed version
\* compared with its own.
MayRollBack(p) ==
  /\ mine[p].o \notin stale
  /\ mine[p].status = "promoted" => deployed = mine[p].staged

ValidateRollback(p) ==
  /\ pc[p] = "to_undo"
  /\ MayRollBack(p)
  /\ mine' = [mine EXCEPT ![p].found = deployed]
  /\ Goto(p, "undoing")
  /\ UNCHANGED <<providerVars, prior, stale, stored, histories>>

\* The prior version is deployed by force, and without another look at the
\* deployed one.
DeployPrior(p) ==
  /\ pc[p] \in {"reverting", "undoing"}
  /\ Deploy(prior[mine[p].o])
  /\ Replace(p)
  /\ mine' = [mine EXCEPT ![p].found = 0]
  /\ Goto(p, "undone")
  /\ UNCHANGED <<versions, prior, stale, stored, raced>>

\* Operation.Validate: the actions of a ready, promoted or rolled back operation
\* are all verified.
Complete(op) == op.status \in {"ready", "promoted", "rolled_back"}

\* Of an operation that is still underway, no rollback can be recorded.
SaveRolledBack(p) ==
  /\ pc[p] = "undone"
  /\ IF Complete(mine[p])
     THEN SaveAndReturn(p, "rolled_back", mine[p].staged)
     ELSE Return(p) /\ UNCHANGED stored
  /\ UNCHANGED <<providerVars, prior, stale, histories>>

-----------------------------------------------------------------------------
(* Failures *)

\* A call fails or its answer is lost, the confirmation is declined, or the
\* process is stopped.
Stop(p) ==
  /\ pc[p] # "idle"
  /\ Return(p)
  /\ UNCHANGED <<providerVars, prior, stale, stored, histories>>

Step(p) ==
  \/ \E o \in Operation : Apply(p, o) \/ Resume(p, o) \/ Promote(p, o) \/ Rollback(p, o)
  \/ BeginStage(p) \/ UploadVersion(p) \/ FinishStage(p)
  \/ ValidatePromotion(p) \/ PromoteVersion(p) \/ SavePromoted(p) \/ CheckHealth(p)
  \/ ValidateRollback(p) \/ DeployPrior(p) \/ SaveRolledBack(p)
  \/ Stop(p)

Next ==
  \/ \E p \in Process : Step(p)
  \/ \E o \in Operation : Plan(o) \/ MakeStale(o)

Spec == Init /\ [][Next]_vars

-----------------------------------------------------------------------------
(* Properties *)

\* Another version is deployed than the command last found, or deployed.
Overtaken(p) == deployed # mine[p].found

\* A promotion changes the bindings of its plan and no other: what else the
\* Worker has, other operations' secrets included, is as in the version that
\* it replaces.  Two windows are excused, since no check of the code closes
\* them: another version was deployed after promote's own inspection, or
\* between the validation of the plan and the inspection of Stage, which
\* then builds on that version.
KeepsOtherBindings ==
  [][\A p \in Process :
       pc[p] = "promoting" /\ pc'[p] = "promoted" =>
         \/ Overtaken(p)
         \/ mine[p].o \in rebased
         \/ \A b \in Binding \ Sets[mine[p].o] :
              versions[deployed'][b] = versions[deployed][b]]_vars

\* The secrets of an operation that is recorded as rolled back are not in
\* use.  Excused are the overlaps that no check of the code catches: its own
\* promotion after the rollback, and another operation that was staged on a
\* version its plan does not name, or deployed over one it did not expect.
RolledBackIsNotDeployed ==
  \A o \in Operation :
    stored[o].status = "rolled_back" /\ (\E b \in Binding : versions[deployed][b] = o) =>
      \/ o \in raced
      \/ (forced \cup rebased) \ {o} # {}

\* An operation that is recorded as promoted gives way only to an operation
\* that was planned on top of it, or to its own rollback: nobody else deploys
\* over it, unless by a command that was overtaken between its inspection and
\* its deployment, or by the rollback of an operation that is not recorded as
\* promoted.
GivesWayRightly ==
  [][\A o \in Operation :
       stored[o].status = "promoted" /\ deployed = stored[o].staged /\ deployed' # deployed =>
         \E p \in Process :
           /\ pc'[p] # pc[p]
           /\ \/ pc[p] = "promoting" /\ prior[mine[p].o] = deployed
              \/ mine[p].o = o
              \/ Overtaken(p)
              \/ pc[p] = "undoing" /\ mine[p].status # "promoted"]_vars
=============================================================================

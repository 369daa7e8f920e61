-------------------------- MODULE PromotionProofs --------------------------
(***************************************************************************)
(* Promotion and rollback, for any number of processes, operations,        *)
(* bindings and versions.                                                  *)
(***************************************************************************)
EXTENDS CloudflarePromotion, TLAPS

Steps == {"idle", "staging", "uploading", "staged", "to_promote", "promoting", "promoted",
          "checking", "reverting", "to_undo", "undoing", "undone"}

Copies == [o : Operation \cup {None}, status : Statuses, staged : Nat, found : Nat,
           current : BOOLEAN]

PromotionTypes ==
  /\ versions \in Seq(Contents)
  /\ Len(versions) \in Nat
  /\ deployed \in 1..Len(versions)
  /\ prior \in [Operation -> Nat]
  /\ \A o \in Operation : prior[o] <= Len(versions)
  /\ stored \in [Operation -> [status : Statuses, staged : Nat]]
  /\ pc \in [Process -> Steps]
  /\ mine \in [Process -> Copies]

\* The operation is complete, so it has a version; and it has a plan.
StoredOK(o) ==
  /\ Complete(stored[o]) => stored[o].staged # 0
  /\ stored[o].status # "none" => prior[o] # 0

\* What a command knows of its operation, its version and the deployed one.
CommandOK(p) ==
  LET o == mine[p].o IN
  /\ pc[p] = "idle" => mine[p].staged = 0
  /\ pc[p] # "idle" => o \in Operation /\ prior[o] # 0
  /\ Complete(mine[p]) => mine[p].staged # 0
  /\ pc[p] = "staging" => deployed = prior[o] \/ o \in rebased
  /\ pc[p] = "uploading" => /\ mine[p].found \in 1..Len(versions)
                            /\ mine[p].found = prior[o] \/ o \in rebased
  /\ pc[p] \in {"staged", "to_promote", "promoting", "promoted", "checking", "reverting"} =>
       mine[p].staged # 0
  /\ pc[p] = "promoting" => mine[p].found = prior[o]
  /\ pc[p] \in {"promoted", "checking", "reverting"} => mine[p].found = mine[p].staged
  /\ pc[p] = "undoing" /\ mine[p].status = "promoted" => mine[p].found = mine[p].staged

\* The version is the operation's, as stored or as a command knows it.
OwnedBy(o, v) ==
  \/ stored[o].staged = v
  \/ \E q \in Process : mine[q].o = o /\ mine[q].staged = v

\* It was built on the version that the plan names: what the plan sets is the
\* operation's, everything else as there.
BuiltOn(o, v) ==
  \A b \in Binding : versions[v][b] = IF b \in Sets[o] THEN o ELSE versions[prior[o]][b]

OwnershipInv ==
  \A o \in Operation, v \in Nat \ {0} :
    OwnedBy(o, v) =>
      /\ prior[o] # 0 /\ prior[o] < v /\ v <= Len(versions)
      /\ o \in rebased \/ BuiltOn(o, v)

SingleOwner ==
  \A o, u \in Operation, v \in Nat \ {0} : OwnedBy(o, v) /\ OwnedBy(u, v) => o = u

\* What an operation sets is in no version as old as the one its plan names.
ContentInv ==
  \A o \in Operation, v \in 1..Len(versions), b \in Binding :
    versions[v][b] = o => prior[o] # 0 /\ prior[o] < v

\* The versions a Worker may get to without the operation's secrets: those in a
\* set that has none of them, and with a version the one that its plan names.
FreeOf(o, S) ==
  /\ S \subseteq 1..Len(versions)
  /\ \A v \in S, b \in Binding : versions[v][b] # o
  /\ \A u \in Operation \ {o}, v \in S : OwnedBy(u, v) => prior[u] \in S

Excused(o) == o \in raced \/ (forced \cup rebased) \ {o} # {}

UndoneInv ==
  \A o \in Operation : BeingUndone(o) => Excused(o) \/ \E S : deployed \in S /\ FreeOf(o, S)

PromotionInv ==
  /\ PromotionTypes
  /\ \A o \in Operation : StoredOK(o)
  /\ \A p \in Process : CommandOK(p)
  /\ OwnershipInv
  /\ SingleOwner
  /\ ContentInv
  /\ UndoneInv

-----------------------------------------------------------------------------
\* A step of p leaves the other commands alone: their copies may become outdated.
Others(p) ==
  \A q \in Process \ {p} :
    /\ pc'[q] = pc[q]
    /\ mine'[q].o = mine[q].o /\ mine'[q].status = mine[q].status
    /\ mine'[q].staged = mine[q].staged /\ mine'[q].found = mine[q].found

\* No version gets an owner.
OwnersStay == \A o \in Operation, v \in Nat \ {0} : OwnedBy(o, v)' => OwnedBy(o, v)

LEMMA ReturnEffect ==
  ASSUME PromotionTypes, NEW p \in Process, Return(p)
  PROVE  /\ pc' \in [Process -> Steps] /\ mine' \in [Process -> Copies]
         /\ Others(p) /\ pc'[p] = "idle" /\ mine'[p] = Nothing
<1>1. pc' \in [Process -> Steps] /\ pc'[p] = "idle" /\ mine'[p] = Nothing /\ Others(p)
  BY DEF PromotionTypes, Return, Steps, Others
<1>2. Nothing \in Copies
  BY DEF Nothing, Copies, Statuses
<1> QED
  BY <1>1, <1>2 DEF PromotionTypes, Return

LEMMA LoadEffect ==
  ASSUME PromotionTypes, NEW p \in Process, NEW o \in Operation, NEW next \in Steps,
         mine' = [mine EXCEPT ![p] = Loaded(o)], Goto(p, next)
  PROVE  /\ pc' \in [Process -> Steps] /\ mine' \in [Process -> Copies]
         /\ Others(p) /\ pc'[p] = next
         /\ mine'[p].o = o /\ mine'[p].status = stored[o].status
         /\ mine'[p].staged = stored[o].staged
<1>1. pc' \in [Process -> Steps] /\ pc'[p] = next /\ mine'[p] = Loaded(o) /\ Others(p)
  BY DEF PromotionTypes, Goto, Others
<1>2. Loaded(o) \in Copies
  BY DEF Loaded, Copies, PromotionTypes
<1>3. /\ Loaded(o).o = o /\ Loaded(o).status = stored[o].status
      /\ Loaded(o).staged = stored[o].staged
  BY DEF Loaded
<1> QED
  BY <1>1, <1>2, <1>3 DEF PromotionTypes

LEMMA FoundEffect ==
  ASSUME PromotionTypes, NEW p \in Process, NEW n \in Nat, NEW next \in Steps,
         mine' = [mine EXCEPT ![p].found = n], Goto(p, next)
  PROVE  /\ pc' \in [Process -> Steps] /\ mine' \in [Process -> Copies]
         /\ Others(p) /\ pc'[p] = next
         /\ mine'[p].o = mine[p].o /\ mine'[p].status = mine[p].status
         /\ mine'[p].staged = mine[p].staged /\ mine'[p].found = n
<1> DEFINE r == [mine[p] EXCEPT !.found = n]
<1>1. mine' = [mine EXCEPT ![p] = r]
  BY DEF PromotionTypes
<1>2. r \in Copies
  BY DEF PromotionTypes, Copies
<1>3. r.o = mine[p].o /\ r.status = mine[p].status /\ r.staged = mine[p].staged /\ r.found = n
  BY DEF PromotionTypes, Copies
<1> HIDE DEF r
<1> QED
  BY <1>1, <1>2, <1>3 DEF PromotionTypes, Goto, Others

\* The copies of q, once another process stored its operation.
LEMMA OutdatedEffect ==
  ASSUME PromotionTypes, NEW q \in Process
  PROVE  LET r == [mine[q] EXCEPT !.current = FALSE] IN
         /\ r \in Copies
         /\ r.o = mine[q].o /\ r.status = mine[q].status
         /\ r.staged = mine[q].staged /\ r.found = mine[q].found
BY DEF PromotionTypes, Copies

\* A last SaveOperation stores what the command has, or nothing.
LEMMA SaveAndReturnEffect ==
  ASSUME PromotionTypes, NEW p \in Process, NEW status \in Statuses, mine[p].o \in Operation,
         SaveAndReturn(p, status, mine[p].staged)
  PROVE  /\ pc' \in [Process -> Steps] /\ mine' \in [Process -> Copies]
         /\ Others(p) /\ pc'[p] = "idle" /\ mine'[p] = Nothing
         /\ \/ stored' = stored
            \/ stored' = [stored EXCEPT ![mine[p].o] =
                            [status |-> status, staged |-> mine[p].staged]]
<1> DEFINE c(q) == [mine[q] EXCEPT !.current = FALSE]
<1>1. /\ pc' \in [Process -> Steps] /\ pc'[p] = "idle"
      /\ \A q \in Process \ {p} : pc'[q] = pc[q]
  BY DEF PromotionTypes, SaveAndReturn, Goto, Steps
<1>2. Nothing \in Copies
  BY DEF Nothing, Copies, Statuses
<1>3. \A q \in Process :
        /\ c(q) \in Copies
        /\ c(q).o = mine[q].o /\ c(q).status = mine[q].status
        /\ c(q).staged = mine[q].staged /\ c(q).found = mine[q].found
  BY OutdatedEffect
<1>4. /\ mine'[p] = Nothing
      /\ \A q \in Process \ {p} : mine'[q] = c(q) \/ mine'[q] = mine[q]
      /\ DOMAIN mine' = Process
      /\ mine' = [q \in Process |-> mine'[q]]
  BY DEF SaveAndReturn
<1> HIDE DEF c
<1>5. \A q \in Process : mine'[q] \in Copies
  BY <1>2, <1>3, <1>4 DEF PromotionTypes
<1>6. mine' \in [Process -> Copies]
  BY <1>4, <1>5
<1>7. Others(p)
  BY <1>1, <1>3, <1>4 DEF Others
<1>8. \/ stored' = stored
      \/ stored' = [stored EXCEPT ![mine[p].o] = [status |-> status, staged |-> mine[p].staged]]
  BY DEF SaveAndReturn
<1> QED
  BY <1>1, <1>4, <1>6, <1>7, <1>8

\* Steps that neither deploy nor upload, nor complete a rollback.
LEMMA QuietSteps ==
  ASSUME PromotionInv, NEW p \in Process,
         UNCHANGED <<versions, deployed, prior, rebased, raced, forced>>,
         stored' \in [Operation -> [status : Statuses, staged : Nat]],
         \A o \in Operation : StoredOK(o)',
         pc' \in [Process -> Steps], mine' \in [Process -> Copies],
         Others(p), CommandOK(p)', OwnersStay,
         \A o \in Operation : BeingUndone(o)' => BeingUndone(o)
  PROVE  PromotionInv'
<1>1. PromotionTypes'
  BY DEF PromotionInv, PromotionTypes
<1>2. ASSUME NEW q \in Process PROVE CommandOK(q)'
  <2>1. CASE q = p
    BY <2>1
  <2>2. CASE q # p
    BY <2>2 DEF PromotionInv, CommandOK, Others, Complete
  <2> QED
    BY <2>1, <2>2
<1>3. \A o \in Operation : \A v : BuiltOn(o, v)' <=> BuiltOn(o, v)
  BY DEF BuiltOn
<1>4. OwnershipInv'
  BY <1>3 DEF PromotionInv, OwnershipInv, OwnersStay
<1>5. SingleOwner'
  BY DEF PromotionInv, SingleOwner, OwnersStay
<1>6. ContentInv'
  BY DEF PromotionInv, ContentInv
<1>7. ASSUME NEW o \in Operation, BeingUndone(o)' PROVE Excused(o)' \/ \E S : (deployed \in S /\ FreeOf(o, S))'
  <2>1. CASE Excused(o)
    BY <2>1 DEF Excused
  <2>2. CASE ~Excused(o)
    <3>1. PICK S : deployed \in S /\ FreeOf(o, S)
      BY <1>7, <2>2 DEF PromotionInv, UndoneInv
    <3>2. \A u \in Operation, v \in S : OwnedBy(u, v)' => OwnedBy(u, v)
      <4>1. \A v \in S : v \in Nat \ {0}
        BY <3>1 DEF FreeOf, PromotionInv, PromotionTypes
      <4> QED
        BY <4>1 DEF OwnersStay
    <3>3. FreeOf(o, S)'
      BY <3>1, <3>2 DEF FreeOf
    <3> QED
      BY <3>1, <3>3
  <2> QED
    BY <2>1, <2>2
<1>8. UndoneInv'
  BY <1>7 DEF UndoneInv
<1> QED
  BY <1>1, <1>2, <1>4, <1>5, <1>6, <1>8 DEF PromotionInv

\* A command knows a version from its operation, or uploaded it.
LEMMA OwnersKept ==
  ASSUME NEW p \in Process, Others(p),
         \A o \in Operation :
           \/ stored'[o].staged = stored[o].staged
           \/ o = mine[p].o /\ stored'[o].staged = mine[p].staged,
         \/ mine'[p].staged = 0
         \/ mine'[p].o = mine[p].o /\ mine'[p].staged = mine[p].staged
         \/ mine'[p].staged = stored[mine'[p].o].staged
  PROVE  OwnersStay
<1> SUFFICES ASSUME NEW o \in Operation, NEW v \in Nat \ {0}, OwnedBy(o, v)'
             PROVE  OwnedBy(o, v)
  BY DEF OwnersStay
<1>1. CASE stored'[o].staged = v
  BY <1>1 DEF OwnedBy
<1>2. CASE \E q \in Process : mine'[q].o = o /\ mine'[q].staged = v
  <2>1. PICK q \in Process : mine'[q].o = o /\ mine'[q].staged = v
    BY <1>2
  <2>2. CASE q # p
    BY <2>1, <2>2 DEF Others, OwnedBy
  <2>3. CASE q = p
    BY <2>1, <2>3 DEF OwnedBy
  <2> QED
    BY <2>2, <2>3
<1> QED
  BY <1>1, <1>2 DEF OwnedBy

LEMMA NotUndone ==
  ASSUME NEW p \in Process, Others(p), pc'[p] # "undone",
         \A o \in Operation :
           stored'[o].status = "rolled_back" =>
             stored[o].status = "rolled_back" \/ (o = mine[p].o /\ pc[p] = "undone")
  PROVE  \A o \in Operation : BeingUndone(o)' => BeingUndone(o)
BY DEF BeingUndone, Others

\* The command ends and has changed nothing.
LEMMA ReturnSteps ==
  ASSUME PromotionInv, NEW p \in Process, Return(p),
         UNCHANGED <<versions, deployed, prior, rebased, raced, forced, stored>>
  PROVE  PromotionInv'
<1>1. /\ pc' \in [Process -> Steps] /\ mine' \in [Process -> Copies]
      /\ Others(p) /\ pc'[p] = "idle" /\ mine'[p] = Nothing
  BY ReturnEffect DEF PromotionInv
<1>2. mine'[p].staged = 0 /\ mine'[p].status = "none"
  BY <1>1 DEF Nothing
<1>3. CommandOK(p)'
  BY <1>1, <1>2 DEF CommandOK, Complete
<1>4. OwnersStay
  BY <1>1, <1>2, OwnersKept
<1>5. \A o \in Operation : BeingUndone(o)' => BeingUndone(o)
  BY <1>1, NotUndone
<1>6. \A o \in Operation : StoredOK(o)'
  BY DEF PromotionInv, StoredOK
<1>7. stored' \in [Operation -> [status : Statuses, staged : Nat]]
  BY DEF PromotionInv, PromotionTypes
<1> QED
  BY <1>1, <1>3, <1>4, <1>5, <1>6, <1>7, QuietSteps

\* The command begins, with the operation as it is stored.
LEMMA LoadSteps ==
  ASSUME PromotionInv, NEW p \in Process, NEW o \in Operation,
         NEW next \in {"staging", "to_promote", "to_undo"},
         mine' = [mine EXCEPT ![p] = Loaded(o)], Goto(p, next),
         stored[o].status # "none",
         next = "staging" => deployed = prior[o],
         next = "to_promote" => stored[o].status = "ready",
         UNCHANGED <<versions, deployed, prior, rebased, raced, forced, stored>>
  PROVE  PromotionInv'
<1>1. /\ pc' \in [Process -> Steps] /\ mine' \in [Process -> Copies]
      /\ Others(p) /\ pc'[p] = next
      /\ mine'[p].o = o /\ mine'[p].status = stored[o].status
      /\ mine'[p].staged = stored[o].staged
  <2>1. next \in Steps
    BY DEF Steps
  <2> QED
    BY <2>1, LoadEffect DEF PromotionInv
<1>2. StoredOK(o)
  BY DEF PromotionInv
<1>3. CommandOK(p)'
  BY <1>1, <1>2 DEF CommandOK, Complete, StoredOK
<1>4. OwnersStay
  BY <1>1, OwnersKept
<1>5. \A u \in Operation : BeingUndone(u)' => BeingUndone(u)
  BY <1>1, NotUndone
<1>6. \A u \in Operation : StoredOK(u)'
  BY DEF PromotionInv, StoredOK
<1>7. stored' \in [Operation -> [status : Statuses, staged : Nat]]
  BY DEF PromotionInv, PromotionTypes
<1> QED
  BY <1>1, <1>3, <1>4, <1>5, <1>6, <1>7, QuietSteps

\* The command inspected what is deployed.
LEMMA FoundSteps ==
  ASSUME PromotionInv, NEW p \in Process, NEW next \in {"promoting", "undoing"},
         mine' = [mine EXCEPT ![p].found = deployed], Goto(p, next),
         pc[p] # "idle",
         next = "promoting" => pc[p] = "to_promote" /\ deployed = prior[mine[p].o],
         next = "undoing" => (mine[p].status = "promoted" => deployed = mine[p].staged),
         UNCHANGED <<versions, deployed, prior, rebased, raced, forced, stored>>
  PROVE  PromotionInv'
<1>1. /\ pc' \in [Process -> Steps] /\ mine' \in [Process -> Copies]
      /\ Others(p) /\ pc'[p] = next
      /\ mine'[p].o = mine[p].o /\ mine'[p].status = mine[p].status
      /\ mine'[p].staged = mine[p].staged /\ mine'[p].found = deployed
  <2>1. next \in Steps /\ deployed \in Nat
    BY DEF Steps, PromotionInv, PromotionTypes
  <2> QED
    BY <2>1, FoundEffect DEF PromotionInv
<1>2. CommandOK(p)
  BY DEF PromotionInv
<1>3. CommandOK(p)'
  BY <1>1, <1>2 DEF CommandOK, Complete
<1>4. OwnersStay
  BY <1>1, OwnersKept
<1>5. \A u \in Operation : BeingUndone(u)' => BeingUndone(u)
  BY <1>1, NotUndone
<1>6. \A u \in Operation : StoredOK(u)'
  BY DEF PromotionInv, StoredOK
<1>7. stored' \in [Operation -> [status : Statuses, staged : Nat]]
  BY DEF PromotionInv, PromotionTypes
<1> QED
  BY <1>1, <1>3, <1>4, <1>5, <1>6, <1>7, QuietSteps

\* The command stored what it knows of its operation, and ends.
LEMMA SavedSteps ==
  ASSUME PromotionInv, NEW p \in Process, NEW status \in {"ready", "rolled_back"},
         SaveAndReturn(p, status, mine[p].staged),
         pc[p] # "idle", mine[p].staged # 0,
         status = "rolled_back" => pc[p] = "undone",
         UNCHANGED <<versions, deployed, prior, rebased, raced, forced>>
  PROVE  PromotionInv'
<1> DEFINE u == mine[p].o
<1>1. u \in Operation /\ prior[u] # 0 /\ mine[p].staged \in Nat
  BY DEF PromotionInv, CommandOK, PromotionTypes, Copies
<1>2. /\ pc' \in [Process -> Steps] /\ mine' \in [Process -> Copies]
      /\ Others(p) /\ pc'[p] = "idle" /\ mine'[p] = Nothing
      /\ \/ stored' = stored
         \/ stored' = [stored EXCEPT ![u] = [status |-> status, staged |-> mine[p].staged]]
  BY <1>1, SaveAndReturnEffect DEF PromotionInv, Statuses
<1>3. mine'[p].staged = 0 /\ mine'[p].status = "none"
  BY <1>2 DEF Nothing
<1>4. /\ stored' \in [Operation -> [status : Statuses, staged : Nat]]
      /\ \A o \in Operation :
           \/ stored'[o] = stored[o]
           \/ o = u /\ stored'[o].staged = mine[p].staged /\ stored'[o].status = status
  <2> DEFINE n == [status |-> status, staged |-> mine[p].staged]
  <2>1. /\ n \in [status : Statuses, staged : Nat]
        /\ n.status = status /\ n.staged = mine[p].staged
    BY <1>1 DEF Statuses
  <2>2. stored' = stored \/ stored' = [stored EXCEPT ![u] = n]
    BY <1>2
  <2> HIDE DEF n, u
  <2> QED
    BY <1>1, <2>1, <2>2 DEF PromotionInv, PromotionTypes
<1> HIDE DEF u
<1>5. ASSUME NEW o \in Operation PROVE StoredOK(o)'
  BY <1>1, <1>4 DEF PromotionInv, StoredOK, Complete
<1>6. CommandOK(p)'
  BY <1>2, <1>3 DEF CommandOK, Complete
<1>7. OwnersStay
  BY <1>2, <1>3, <1>4, OwnersKept DEF u
<1>8. \A o \in Operation : BeingUndone(o)' => BeingUndone(o)
  BY <1>2, <1>4, NotUndone DEF u
<1> QED
  BY <1>2, <1>4, <1>5, <1>6, <1>7, <1>8, QuietSteps

-----------------------------------------------------------------------------
(* plan, apply and resume *)

LEMMA PlanStep ==
  ASSUME PromotionInv, NEW o \in Operation, Plan(o)
  PROVE  PromotionInv'
<1>1. /\ UNCHANGED <<versions, deployed, stored, pc, mine, rebased, raced, forced>>
      /\ prior[o] = 0 /\ prior' = [prior EXCEPT ![o] = deployed]
  BY DEF Plan, providerVars, histories
<1>2. /\ prior'[o] = deployed /\ deployed # 0
      /\ \A u \in Operation \ {o} : prior'[u] = prior[u]
  BY <1>1 DEF PromotionInv, PromotionTypes
<1>3. PromotionTypes'
  BY <1>1 DEF PromotionInv, PromotionTypes
<1>4. \A u \in Operation, v \in Nat \ {0} : (OwnedBy(u, v)' <=> OwnedBy(u, v)) /\ (OwnedBy(u, v) => u # o)
  BY <1>1 DEF PromotionInv, OwnedBy, OwnershipInv
<1>5. \A u \in Operation : StoredOK(u)'
  BY <1>1, <1>2 DEF PromotionInv, StoredOK
<1>6. ASSUME NEW p \in Process PROVE CommandOK(p)'
  <2>1. CASE pc[p] = "idle"
    BY <1>1, <2>1 DEF PromotionInv, CommandOK
  <2>2. CASE pc[p] # "idle"
    <3>1. mine[p].o \in Operation \ {o}
      BY <1>1, <2>2 DEF PromotionInv, CommandOK
    <3> QED
      BY <1>1, <1>2, <3>1 DEF PromotionInv, CommandOK
  <2> QED
    BY <2>1, <2>2
<1>7. OwnershipInv'
  <2>1. \A u \in Operation \ {o} : \A v : BuiltOn(u, v)' <=> BuiltOn(u, v)
    BY <1>1, <1>2 DEF BuiltOn
  <2> QED
    BY <1>1, <1>2, <1>4, <2>1 DEF PromotionInv, OwnershipInv
<1>8. SingleOwner'
  BY <1>4 DEF PromotionInv, SingleOwner
<1>9. ContentInv'
  BY <1>1, <1>2 DEF PromotionInv, ContentInv
<1>10. ASSUME NEW u \in Operation, BeingUndone(u)', ~Excused(u)'
       PROVE  \E S : (deployed \in S /\ FreeOf(u, S))'
  <2>1. BeingUndone(u) /\ ~Excused(u)
    BY <1>1, <1>10 DEF BeingUndone, Excused
  <2>2. PICK S : deployed \in S /\ FreeOf(u, S)
    BY <2>1 DEF PromotionInv, UndoneInv
  <2>3. \A w \in Operation, v \in S : (OwnedBy(w, v)' <=> OwnedBy(w, v)) /\ (OwnedBy(w, v) => w # o)
    BY <1>4, <2>2 DEF FreeOf, PromotionInv, PromotionTypes
  <2>4. FreeOf(u, S)'
    BY <1>1, <1>2, <2>2, <2>3 DEF FreeOf
  <2> QED
    BY <1>1, <2>2, <2>4
<1>11. UndoneInv'
  BY <1>10 DEF UndoneInv
<1> QED
  BY <1>3, <1>5, <1>6, <1>7, <1>8, <1>9, <1>11 DEF PromotionInv

LEMMA ApplyStep ==
  ASSUME PromotionInv, NEW p \in Process, NEW o \in Operation, Apply(p, o)
  PROVE  PromotionInv'
<1> DEFINE r == [Loaded(o) EXCEPT !.status = "underway"]
<1>1. /\ UNCHANGED <<versions, deployed, prior, rebased, raced, forced>>
      /\ pc[p] = "idle" /\ prior[o] # 0 /\ deployed = prior[o] /\ stored[o] = NoOperation
      /\ stored' = [stored EXCEPT ![o].status = "underway"]
      /\ mine' = [mine EXCEPT ![p] = r]
      /\ pc' = [pc EXCEPT ![p] = "staging"]
  BY DEF Apply, ValidPlan, Goto, providerVars, histories
<1>2. r \in Copies /\ r.o = o /\ r.status = "underway" /\ r.staged = stored[o].staged
  BY DEF Loaded, Copies, PromotionInv, PromotionTypes, Statuses
<1> HIDE DEF r
<1>3. pc' \in [Process -> Steps] /\ mine' \in [Process -> Copies] /\ pc'[p] = "staging" /\ mine'[p] = r
  BY <1>1, <1>2 DEF PromotionInv, PromotionTypes, Steps
<1>4. Others(p)
  BY <1>1 DEF PromotionInv, PromotionTypes, Others
<1>5. /\ stored' \in [Operation -> [status : Statuses, staged : Nat]]
      /\ \A u \in Operation : stored'[u].staged = stored[u].staged
      /\ \A u \in Operation : stored'[u] = stored[u] \/ (u = o /\ stored'[u].status = "underway")
  BY <1>1 DEF PromotionInv, PromotionTypes, Statuses
<1>6. \A u \in Operation : StoredOK(u)'
  BY <1>1, <1>5 DEF PromotionInv, StoredOK, Complete
<1>7. CommandOK(p)'
  BY <1>1, <1>2, <1>3 DEF CommandOK, Complete
<1>8. OwnersStay
  BY <1>2, <1>3, <1>4, <1>5, OwnersKept
<1>9. \A u \in Operation : BeingUndone(u)' => BeingUndone(u)
  BY <1>3, <1>4, <1>5, NotUndone
<1> QED
  BY <1>1, <1>3, <1>4, <1>5, <1>6, <1>7, <1>8, <1>9, QuietSteps

LEMMA BeginStageStep ==
  ASSUME PromotionInv, NEW p \in Process, BeginStage(p)
  PROVE  PromotionInv'
<1>1. /\ UNCHANGED <<versions, deployed, prior, rebased, raced, forced, stored>>
      /\ pc[p] = "staging"
  BY DEF BeginStage, providerVars, histories
<1>2. CASE mine[p].current
  <2> DEFINE c(q) == [mine[q] EXCEPT !.current = FALSE]
             r == [mine[p] EXCEPT !.found = deployed]
  <2>1. \A q \in Process :
          /\ c(q) \in Copies
          /\ c(q).o = mine[q].o /\ c(q).status = mine[q].status
          /\ c(q).staged = mine[q].staged /\ c(q).found = mine[q].found
    BY OutdatedEffect DEF PromotionInv
  <2>2. /\ r \in Copies /\ r.o = mine[p].o /\ r.status = mine[p].status
        /\ r.staged = mine[p].staged /\ r.found = deployed
    <3>1. mine[p] \in Copies /\ deployed \in Nat
      BY DEF PromotionInv, PromotionTypes
    <3> QED
      BY <3>1 DEF Copies
  <2>3. /\ mine'[p] = r
        /\ \A q \in Process \ {p} : mine'[q] = c(q) \/ mine'[q] = mine[q]
        /\ mine' = [q \in Process |-> mine'[q]]
        /\ pc' = [pc EXCEPT ![p] = "uploading"]
    BY <1>2 DEF BeginStage, Base, Goto
  <2> HIDE DEF c, r
  <2>4. \A q \in Process : mine'[q] \in Copies
    BY <2>1, <2>2, <2>3 DEF PromotionInv, PromotionTypes
  <2>5. mine' \in [Process -> Copies]
    BY <2>3, <2>4
  <2>6. pc' \in [Process -> Steps] /\ pc'[p] = "uploading"
    BY <2>3 DEF PromotionInv, PromotionTypes, Steps
  <2>7. Others(p)
    BY <2>1, <2>3 DEF Others, PromotionInv, PromotionTypes
  <2>8. CommandOK(p)'
    BY <1>1, <2>2, <2>3, <2>6 DEF PromotionInv, PromotionTypes, CommandOK, Complete
  <2>9. OwnersStay
    BY <1>1, <2>2, <2>3, <2>7, OwnersKept
  <2>10. \A u \in Operation : BeingUndone(u)' => BeingUndone(u)
    BY <1>1, <2>6, <2>7, NotUndone
  <2>11. \A u \in Operation : StoredOK(u)'
    BY <1>1 DEF PromotionInv, StoredOK
  <2>12. stored' \in [Operation -> [status : Statuses, staged : Nat]]
    BY <1>1 DEF PromotionInv, PromotionTypes
  <2> QED
    BY <1>1, <2>5, <2>6, <2>7, <2>8, <2>9, <2>10, <2>11, <2>12, QuietSteps
<1>3. CASE ~mine[p].current
  BY <1>1, <1>3, ReturnSteps DEF BeginStage
<1> QED
  BY <1>2, <1>3

LEMMA UploadStep ==
  ASSUME PromotionInv, NEW p \in Process, UploadVersion(p)
  PROVE  PromotionInv'
<1>0. PICK o \in Operation, n \in Nat : o = mine[p].o /\ n = Len(versions) + 1
  BY DEF PromotionInv, PromotionTypes, CommandOK, UploadVersion
<1> DEFINE new == Inherit(o, mine[p].found)
           r == [mine[p] EXCEPT !.staged = n, !.found = 0]
<1>1. /\ UNCHANGED <<deployed, prior, stored, rebased, raced, forced>>
      /\ pc[p] = "uploading" /\ pc' = [pc EXCEPT ![p] = "staged"]
      /\ versions' = Append(versions, new)
      /\ mine' = [mine EXCEPT ![p] = r]
  BY <1>0 DEF UploadVersion, Goto, PromotionInv, PromotionTypes, histories
<1>2. /\ o \in Operation /\ prior[o] # 0 /\ prior[o] \in Nat /\ prior[o] <= Len(versions)
      /\ mine[p].found \in 1..Len(versions) /\ Len(versions) \in Nat
      /\ mine[p].found = prior[o] \/ o \in rebased
      /\ versions \in Seq(Contents) /\ versions[mine[p].found] \in Contents
  BY <1>0, <1>1 DEF PromotionInv, PromotionTypes, CommandOK
<1>3. /\ new \in Contents
      /\ \A b \in Binding : new[b] = IF b \in Sets[o] THEN o ELSE versions[mine[p].found][b]
  BY <1>2 DEF Inherit, Contents
<1>4. r \in Copies /\ r.o = o /\ r.status = mine[p].status /\ r.staged = n
  <2>1. mine[p] \in Copies
    BY DEF PromotionInv, PromotionTypes
  <2> QED
    BY <1>0, <2>1 DEF Copies
<1> HIDE DEF new, r
<1>5. /\ versions' \in Seq(Contents) /\ Len(versions') = n /\ n \in Nat \ {0}
      /\ versions'[n] = new
      /\ \A v \in 1..Len(versions) : versions'[v] = versions[v]
  BY <1>0, <1>1, <1>2, <1>3
<1>6. /\ pc' \in [Process -> Steps] /\ mine' \in [Process -> Copies]
      /\ pc'[p] = "staged" /\ mine'[p] = r
  BY <1>1, <1>4 DEF PromotionInv, PromotionTypes, Steps
<1>7. Others(p)
  BY <1>1 DEF PromotionInv, PromotionTypes, Others
<1>8. PromotionTypes'
  BY <1>0, <1>1, <1>2, <1>5, <1>6 DEF PromotionInv, PromotionTypes
<1>9. \A u \in Operation : StoredOK(u)'
  BY <1>1 DEF PromotionInv, StoredOK
<1>10. ASSUME NEW q \in Process PROVE CommandOK(q)'
  <2>1. CASE q = p
    BY <1>0, <1>1, <1>2, <1>4, <1>5, <1>6, <2>1 DEF CommandOK, Complete
  <2>2. CASE q # p
    <3>1. CommandOK(q)
      BY DEF PromotionInv
    <3> QED
      BY <1>0, <1>1, <1>2, <1>5, <1>7, <2>2, <3>1 DEF CommandOK, Complete, Others
  <2> QED
    BY <2>1, <2>2
<1>11. ASSUME NEW u \in Operation, NEW v \in Nat \ {0}, OwnedBy(u, v)'
       PROVE  (OwnedBy(u, v) /\ v <= Len(versions)) \/ (u = o /\ v = n)
  <2>1. CASE stored'[u].staged = v
    BY <1>1, <2>1 DEF PromotionInv, OwnershipInv, OwnedBy
  <2>2. CASE \E q \in Process : mine'[q].o = u /\ mine'[q].staged = v
    <3>1. PICK q \in Process : mine'[q].o = u /\ mine'[q].staged = v
      BY <2>2
    <3>2. CASE q = p
      BY <1>4, <1>6, <3>1, <3>2
    <3>3. CASE q # p
      <4>1. OwnedBy(u, v)
        BY <1>7, <3>1, <3>3 DEF Others, OwnedBy
      <4> QED
        BY <4>1 DEF PromotionInv, OwnershipInv
    <3> QED
      BY <3>2, <3>3
  <2> QED
    BY <1>11, <2>1, <2>2 DEF OwnedBy
<1>12. ASSUME NEW u \in Operation, NEW v \in 1..Len(versions), prior[u] # 0
       PROVE  BuiltOn(u, v)' <=> BuiltOn(u, v)
  <2>1. prior[u] \in 1..Len(versions)
    BY <1>2, <1>12 DEF PromotionInv, PromotionTypes
  <2> QED
    BY <1>1, <1>5, <2>1 DEF BuiltOn
<1>13. o \in rebased \/ BuiltOn(o, n)'
  <2>1. CASE mine[p].found = prior[o]
    <3>1. prior[o] \in 1..Len(versions)
      BY <1>2
    <3> QED
      BY <1>1, <1>3, <1>5, <2>1, <3>1 DEF BuiltOn
  <2> QED
    BY <1>2, <2>1
<1>14. OwnershipInv'
  <2> SUFFICES ASSUME NEW u \in Operation, NEW v \in Nat \ {0}, OwnedBy(u, v)'
               PROVE  /\ prior[u] # 0 /\ prior[u] < v /\ v <= Len(versions')
                      /\ u \in rebased \/ BuiltOn(u, v)'
    BY <1>1 DEF OwnershipInv
  <2>1. CASE OwnedBy(u, v) /\ v <= Len(versions)
    <3>1. prior[u] # 0 /\ prior[u] < v /\ (u \in rebased \/ BuiltOn(u, v))
      BY <2>1 DEF PromotionInv, OwnershipInv
    <3>2. v \in 1..Len(versions) /\ v <= Len(versions')
      BY <1>0, <1>2, <1>5, <2>1
    <3> QED
      BY <1>12, <3>1, <3>2
  <2>2. CASE u = o /\ v = n
    BY <1>0, <1>2, <1>5, <1>13, <2>2
  <2> QED
    BY <1>11, <2>1, <2>2
<1>15. SingleOwner'
  <2>1. ~(n <= Len(versions))
    BY <1>0, <1>2
  <2> QED
    BY <1>11, <2>1 DEF PromotionInv, SingleOwner
<1>16. ContentInv'
  <2> SUFFICES ASSUME NEW u \in Operation, NEW v \in 1..Len(versions'), NEW b \in Binding,
                      versions'[v][b] = u
               PROVE  prior[u] # 0 /\ prior[u] < v
    BY <1>1 DEF ContentInv
  <2>1. CASE v \in 1..Len(versions)
    BY <1>5, <2>1 DEF PromotionInv, ContentInv
  <2>2. CASE v \notin 1..Len(versions)
    <3>1. v = n /\ new[b] = u
      BY <1>0, <1>2, <1>5, <2>2
    <3>2. CASE u = o
      BY <1>0, <1>2, <3>1, <3>2
    <3>3. CASE u # o
      <4>1. versions[mine[p].found][b] = u
        BY <1>0, <1>3, <3>1, <3>3
      <4>2. prior[u] # 0 /\ prior[u] < mine[p].found
        BY <1>2, <4>1 DEF PromotionInv, ContentInv
      <4>3. prior[u] \in Nat /\ mine[p].found \in Nat
        BY <1>2 DEF PromotionInv, PromotionTypes
      <4> QED
        BY <1>0, <1>2, <3>1, <4>2, <4>3
    <3> QED
      BY <3>2, <3>3
  <2> QED
    BY <2>1, <2>2
<1>17. ASSUME NEW u \in Operation, BeingUndone(u)', ~Excused(u)'
       PROVE  \E S : (deployed \in S /\ FreeOf(u, S))'
  <2>1. BeingUndone(u) /\ ~Excused(u)
    BY <1>1, <1>6, <1>7, <1>17 DEF BeingUndone, Excused, Others
  <2>2. PICK S : deployed \in S /\ FreeOf(u, S)
    BY <2>1 DEF PromotionInv, UndoneInv
  <2>3. S \subseteq 1..Len(versions) /\ S \subseteq 1..Len(versions')
    BY <1>0, <1>2, <1>5, <2>2 DEF FreeOf
  <2>4. \A w \in Operation, v \in S : OwnedBy(w, v)' => OwnedBy(w, v)
    <3>1. \A v \in S : v \in Nat \ {0} /\ v # n
      BY <1>0, <1>2, <2>3
    <3> QED
      BY <1>11, <3>1
  <2>5. \A v \in S, b \in Binding : versions'[v][b] # u
    BY <1>5, <2>2, <2>3 DEF FreeOf
  <2>6. FreeOf(u, S)'
    BY <1>1, <2>2, <2>3, <2>4, <2>5 DEF FreeOf
  <2> QED
    BY <1>1, <2>2, <2>6
<1>18. UndoneInv'
  BY <1>17 DEF UndoneInv
<1> QED
  BY <1>8, <1>9, <1>10, <1>14, <1>15, <1>16, <1>18 DEF PromotionInv

-----------------------------------------------------------------------------
(* promote *)

LEMMA SavePromotedStep ==
  ASSUME PromotionInv, NEW p \in Process, SavePromoted(p)
  PROVE  PromotionInv'
<1> DEFINE u == mine[p].o
<1>1. /\ UNCHANGED <<versions, deployed, prior, rebased, raced, forced>>
      /\ pc[p] = "promoted"
  BY DEF SavePromoted, providerVars, histories
<1>2. /\ u \in Operation /\ prior[u] # 0 /\ mine[p].staged # 0 /\ mine[p].staged \in Nat
      /\ mine[p].found = mine[p].staged
  BY <1>1 DEF PromotionInv, PromotionTypes, CommandOK, Copies
<1>3. CASE mine[p].current
  <2> DEFINE c(q) == [mine[q] EXCEPT !.current = FALSE]
             n == [status |-> "promoted", staged |-> mine[p].staged]
             r == [mine[p] EXCEPT !.status = "promoted", !.staged = mine[p].staged]
  <2>1. \A q \in Process :
          /\ c(q) \in Copies
          /\ c(q).o = mine[q].o /\ c(q).status = mine[q].status
          /\ c(q).staged = mine[q].staged /\ c(q).found = mine[q].found
    BY OutdatedEffect DEF PromotionInv
  <2>2. /\ n \in [status : Statuses, staged : Nat]
        /\ n.status = "promoted" /\ n.staged = mine[p].staged
    BY <1>2 DEF Statuses
  <2>3. /\ r \in Copies /\ r.o = u /\ r.status = "promoted"
        /\ r.staged = mine[p].staged /\ r.found = mine[p].found
    <3>1. mine[p] \in Copies
      BY DEF PromotionInv, PromotionTypes
    <3> QED
      BY <3>1 DEF Copies, Statuses
  <2>4. /\ stored' = [stored EXCEPT ![u] = n]
        /\ mine'[p] = r
        /\ \A q \in Process \ {p} : mine'[q] = c(q) \/ mine'[q] = mine[q]
        /\ mine' = [q \in Process |-> mine'[q]]
        /\ pc' = [pc EXCEPT ![p] = "checking"]
    BY <1>3 DEF SavePromoted, Save, Stored, Goto
  <2> HIDE DEF c, n, r, u
  <2>5. \A q \in Process : mine'[q] \in Copies
    BY <2>1, <2>3, <2>4 DEF PromotionInv, PromotionTypes
  <2>6. mine' \in [Process -> Copies]
    BY <2>4, <2>5
  <2>7. pc' \in [Process -> Steps] /\ pc'[p] = "checking"
    BY <2>4 DEF PromotionInv, PromotionTypes, Steps
  <2>8. Others(p)
    BY <2>1, <2>4 DEF Others, PromotionInv, PromotionTypes
  <2>9. /\ stored' \in [Operation -> [status : Statuses, staged : Nat]]
        /\ \A o \in Operation :
             \/ stored'[o] = stored[o]
             \/ o = u /\ stored'[o].staged = mine[p].staged /\ stored'[o].status = "promoted"
    BY <1>2, <2>2, <2>4 DEF PromotionInv, PromotionTypes
  <2>10. ASSUME NEW o \in Operation PROVE StoredOK(o)'
    BY <1>1, <1>2, <2>9 DEF PromotionInv, StoredOK, Complete
  <2>11. CommandOK(p)'
    BY <1>1, <1>2, <2>3, <2>4, <2>7 DEF CommandOK, Complete
  <2>12. OwnersStay
    BY <2>3, <2>4, <2>8, <2>9, OwnersKept DEF u
  <2>13. \A o \in Operation : BeingUndone(o)' => BeingUndone(o)
    BY <2>7, <2>8, <2>9, NotUndone
  <2> QED
    BY <1>1, <2>6, <2>7, <2>8, <2>9, <2>10, <2>11, <2>12, <2>13, QuietSteps
<1>4. CASE ~mine[p].current
  BY <1>1, <1>4, ReturnSteps DEF SavePromoted, Save
<1> QED
  BY <1>3, <1>4

LEMMA CheckHealthStep ==
  ASSUME PromotionInv, NEW p \in Process, CheckHealth(p)
  PROVE  PromotionInv'
<1>1. /\ UNCHANGED <<versions, deployed, prior, rebased, raced, forced, stored>>
      /\ pc[p] = "checking"
  BY DEF CheckHealth, providerVars, histories
<1>2. CASE Return(p)
  BY <1>1, <1>2, ReturnSteps
<1>3. CASE Goto(p, "reverting") /\ UNCHANGED mine
  <2>1. pc' \in [Process -> Steps] /\ pc'[p] = "reverting" /\ mine' \in [Process -> Copies] /\ Others(p)
    BY <1>3 DEF Goto, PromotionInv, PromotionTypes, Steps, Others
  <2>2. CommandOK(p)'
    BY <1>1, <1>3, <2>1 DEF PromotionInv, CommandOK, Complete
  <2>3. OwnersStay
    BY <1>1, <1>3, <2>1, OwnersKept
  <2>4. \A o \in Operation : BeingUndone(o)' => BeingUndone(o)
    BY <1>1, <2>1, NotUndone
  <2>5. \A o \in Operation : StoredOK(o)'
    BY <1>1 DEF PromotionInv, StoredOK
  <2>6. stored' \in [Operation -> [status : Statuses, staged : Nat]]
    BY <1>1 DEF PromotionInv, PromotionTypes
  <2> QED
    BY <1>1, <2>1, <2>2, <2>3, <2>4, <2>5, <2>6, QuietSteps
<1> QED
  BY <1>2, <1>3 DEF CheckHealth

\* The steps that deploy a version: what they leave of the invariant to be shown.
LEMMA DeploySteps ==
  ASSUME PromotionInv, NEW p \in Process, NEW v \in 1..Len(versions), Deploy(v),
         UNCHANGED <<versions, prior, stored>>,
         pc' \in [Process -> Steps], mine' \in [Process -> Copies],
         Others(p), pc'[p] # "staging", CommandOK(p)', OwnersStay,
         UndoneInv'
  PROVE  PromotionInv'
<1>1. /\ deployed' = v /\ rebased \subseteq rebased'
      /\ v = deployed \/ \A q \in Process : pc[q] = "staging" => mine[q].o \in rebased'
  BY DEF Deploy
<1>2. PromotionTypes'
  BY <1>1 DEF PromotionInv, PromotionTypes
<1>3. \A o \in Operation : StoredOK(o)'
  BY DEF PromotionInv, StoredOK
<1>4. ASSUME NEW q \in Process PROVE CommandOK(q)'
  <2>1. CASE q = p
    BY <2>1
  <2>2. CASE q # p
    <3>1. CommandOK(q)
      BY DEF PromotionInv
    <3>2. pc'[q] = "staging" => deployed' = prior[mine[q].o] \/ mine[q].o \in rebased'
      BY <1>1, <2>2, <3>1 DEF CommandOK, Others
    <3> QED
      BY <1>1, <2>2, <3>1, <3>2 DEF CommandOK, Complete, Others
  <2> QED
    BY <2>1, <2>2
<1>5. \A o \in Operation : \A n : BuiltOn(o, n)' <=> BuiltOn(o, n)
  BY DEF BuiltOn
<1>6. OwnershipInv'
  BY <1>1, <1>5 DEF PromotionInv, OwnershipInv, OwnersStay
<1>7. SingleOwner'
  BY DEF PromotionInv, SingleOwner, OwnersStay
<1>8. ContentInv'
  BY DEF PromotionInv, ContentInv
<1> QED
  BY <1>2, <1>3, <1>4, <1>6, <1>7, <1>8 DEF PromotionInv

LEMMA PromoteVersionStep ==
  ASSUME PromotionInv, NEW p \in Process, PromoteVersion(p)
  PROVE  PromotionInv'
<1>1. PICK o \in Operation, staged \in Nat : o = mine[p].o /\ staged = mine[p].staged
  BY DEF PromotionInv, PromotionTypes, CommandOK, PromoteVersion, Copies
<1>2. /\ pc[p] = "promoting" /\ Deploy(staged) /\ deployed' = staged
      /\ mine' = [mine EXCEPT ![p].found = staged] /\ Goto(p, "promoted")
      /\ UNCHANGED <<versions, prior, stored>>
  BY <1>1 DEF PromoteVersion, Deploy
<1>3. /\ rebased \subseteq rebased' /\ raced \subseteq raced' /\ forced \subseteq forced'
      /\ BeingUndone(o) => o \in raced'
      /\ deployed \in {staged, prior[o]} \/ o \in forced'
  <2>1. rebased \subseteq rebased'
    BY DEF PromoteVersion, Deploy
  <2>2. raced \subseteq raced' /\ (BeingUndone(o) => o \in raced')
    BY <1>1 DEF PromoteVersion
  <2>3. forced \subseteq forced' /\ (deployed \in {staged, prior[o]} \/ o \in forced')
    BY <1>1 DEF PromoteVersion, Replace
  <2> QED
    BY <2>1, <2>2, <2>3
<1>4. /\ pc' \in [Process -> Steps] /\ mine' \in [Process -> Copies]
      /\ Others(p) /\ pc'[p] = "promoted"
      /\ mine'[p].o = mine[p].o /\ mine'[p].status = mine[p].status
      /\ mine'[p].staged = mine[p].staged /\ mine'[p].found = staged
  BY <1>2, FoundEffect DEF PromotionInv, Steps
<1>5. /\ staged # 0 /\ OwnedBy(o, staged)
      /\ staged \in 1..Len(versions) /\ (o \in rebased \/ BuiltOn(o, staged))
  <2>1. staged # 0 /\ OwnedBy(o, staged)
    BY <1>1, <1>2 DEF PromotionInv, CommandOK, OwnedBy
  <2> QED
    BY <2>1 DEF PromotionInv, OwnershipInv, PromotionTypes
<1>6. CommandOK(p)'
  BY <1>1, <1>2, <1>4, <1>5 DEF PromotionInv, CommandOK, Complete
<1>7. OwnersStay
  BY <1>2, <1>4, OwnersKept
<1>8. ASSUME NEW u \in Operation, BeingUndone(u)', ~Excused(u)'
      PROVE  \E S : (deployed \in S /\ FreeOf(u, S))'
  <2>1. BeingUndone(u)
    BY <1>2, <1>4, <1>8 DEF BeingUndone, Others
  <2>2. u # o /\ ~Excused(u) /\ o \notin rebased /\ deployed \in {staged, prior[o]}
    BY <1>3, <1>8, <2>1 DEF Excused
  <2>3. PICK S : deployed \in S /\ FreeOf(u, S)
    BY <2>1, <2>2 DEF PromotionInv, UndoneInv
  <2> DEFINE T == S \cup {staged}
  <2>4. staged \in S \/ prior[o] \in S
    BY <2>2, <2>3
  <2>5. T \subseteq 1..Len(versions)
    BY <1>5, <2>3 DEF FreeOf
  <2>6. ASSUME NEW n \in T, NEW b \in Binding PROVE versions[n][b] # u
    BY <1>5, <2>2, <2>3, <2>4, <2>6 DEF FreeOf, BuiltOn
  <2>7. ASSUME NEW w \in Operation \ {u}, NEW n \in T, OwnedBy(w, n)' PROVE prior[w] \in T
    <3>1. n \in Nat \ {0}
      BY <2>5 DEF PromotionInv, PromotionTypes
    <3>2. OwnedBy(w, n)
      BY <1>7, <2>7, <3>1 DEF OwnersStay
    <3>3. CASE n \in S
      BY <2>3, <3>2, <3>3 DEF FreeOf
    <3>4. CASE n = staged /\ staged \notin S
      <4>1. w = o
        BY <1>5, <3>1, <3>2, <3>4 DEF PromotionInv, SingleOwner
      <4> QED
        BY <2>4, <3>4, <4>1
    <3> QED
      BY <3>3, <3>4
  <2> HIDE DEF T
  <2>8. FreeOf(u, T)'
    BY <1>2, <2>5, <2>6, <2>7 DEF FreeOf
  <2> QED
    BY <1>2, <2>8 DEF T
<1>9. UndoneInv'
  BY <1>8 DEF UndoneInv
<1> QED
  BY <1>2, <1>4, <1>5, <1>6, <1>7, <1>9, DeploySteps

-----------------------------------------------------------------------------
(* rollback *)

LEMMA DeployPriorStep ==
  ASSUME PromotionInv, NEW p \in Process, DeployPrior(p)
  PROVE  PromotionInv'
<1>1. PICK o \in Operation, staged \in Nat : o = mine[p].o /\ staged = mine[p].staged
  BY DEF PromotionInv, PromotionTypes, CommandOK, DeployPrior, Copies
<1>2. /\ pc[p] \in {"reverting", "undoing"} /\ Deploy(prior[o]) /\ deployed' = prior[o]
      /\ mine' = [mine EXCEPT ![p].found = 0] /\ Goto(p, "undone")
      /\ UNCHANGED <<versions, prior, stored, raced>>
  BY <1>1 DEF DeployPrior, Deploy
<1>3. /\ rebased \subseteq rebased' /\ forced \subseteq forced'
      /\ deployed \in {staged, prior[o]} \/ o \in forced'
  <2>1. rebased \subseteq rebased'
    BY DEF DeployPrior, Deploy
  <2>2. forced \subseteq forced' /\ (deployed \in {staged, prior[o]} \/ o \in forced')
    BY <1>1 DEF DeployPrior, Replace
  <2> QED
    BY <2>1, <2>2
<1>4. /\ pc' \in [Process -> Steps] /\ mine' \in [Process -> Copies]
      /\ Others(p) /\ pc'[p] = "undone"
      /\ mine'[p].o = mine[p].o /\ mine'[p].status = mine[p].status
      /\ mine'[p].staged = mine[p].staged /\ mine'[p].found = 0
  BY <1>2, FoundEffect DEF PromotionInv, Steps
<1>5. prior[o] # 0 /\ prior[o] \in 1..Len(versions) /\ prior[o] \in Nat
  BY <1>1, <1>2 DEF PromotionInv, PromotionTypes, CommandOK
<1>6. CommandOK(p)'
  BY <1>1, <1>2, <1>4, <1>5 DEF PromotionInv, CommandOK, Complete
<1>7. OwnersStay
  BY <1>2, <1>4, OwnersKept
<1>8. ASSUME NEW S, S \subseteq 1..Len(versions) PROVE S \subseteq Nat \ {0}
  BY <1>8 DEF PromotionInv, PromotionTypes
<1>9. ASSUME NEW u \in Operation, BeingUndone(u)', ~Excused(u)'
      PROVE  \E S : (deployed \in S /\ FreeOf(u, S))'
  <2>1. CASE u = o
    <3> DEFINE S == 1..prior[o]
    <3>1. S \subseteq 1..Len(versions) /\ prior[o] \in S
      BY <1>5 DEF PromotionInv, PromotionTypes
    <3>2. ASSUME NEW n \in S, NEW b \in Binding PROVE versions[n][b] # u
      <4>1. n \in 1..Len(versions) /\ ~(prior[o] < n)
        BY <1>5, <3>1
      <4> QED
        BY <2>1, <4>1 DEF PromotionInv, ContentInv
    <3>3. ASSUME NEW w \in Operation, NEW n \in S, OwnedBy(w, n)' PROVE prior[w] \in S
      <4>1. n \in Nat \ {0} /\ n <= prior[o]
        BY <1>5
      <4>2. prior[w] # 0 /\ prior[w] < n
        BY <3>3, <4>1, <1>7 DEF OwnersStay, PromotionInv, OwnershipInv
      <4>3. prior[w] \in Nat
        BY DEF PromotionInv, PromotionTypes
      <4> QED
        BY <1>5, <4>1, <4>2, <4>3
    <3>4. PICK T : T = S
      OBVIOUS
    <3> HIDE DEF S
    <3>5. FreeOf(u, T)'
      BY <1>2, <3>1, <3>2, <3>3, <3>4 DEF FreeOf
    <3> QED
      BY <1>2, <3>1, <3>4, <3>5
  <2>2. CASE u # o
    <3>1. BeingUndone(u)
      BY <1>1, <1>2, <1>4, <1>9, <2>2 DEF BeingUndone, Others
    <3>2. ~Excused(u) /\ deployed \in {staged, prior[o]}
      BY <1>2, <1>3, <1>9, <2>2 DEF Excused
    <3>3. PICK S : deployed \in S /\ FreeOf(u, S)
      BY <3>1, <3>2 DEF PromotionInv, UndoneInv
    <3>4. prior[o] \in S
      <4>1. CASE deployed = staged
        <5>1. OwnedBy(o, staged)
          BY <1>1 DEF OwnedBy
        <5> QED
          BY <2>2, <3>3, <4>1, <5>1 DEF FreeOf
      <4>2. CASE deployed = prior[o]
        BY <3>3, <4>2
      <4> QED
        BY <3>2, <4>1, <4>2
    <3>5. \A w \in Operation, n \in S : OwnedBy(w, n)' => OwnedBy(w, n)
      BY <1>7, <1>8, <3>3 DEF OwnersStay, FreeOf
    <3>6. FreeOf(u, S)'
      BY <1>2, <3>3, <3>5 DEF FreeOf
    <3> QED
      BY <1>2, <3>4, <3>6
  <2> QED
    BY <2>1, <2>2
<1>10. UndoneInv'
  BY <1>9 DEF UndoneInv
<1> QED
  BY <1>2, <1>4, <1>5, <1>6, <1>7, <1>10, DeploySteps

-----------------------------------------------------------------------------
LEMMA PromotionInvInit ==
  Init => PromotionInv
<1> SUFFICES ASSUME Init PROVE PromotionInv
  OBVIOUS
<1>1. /\ versions \in Seq(Contents) /\ Len(versions) = 1
      /\ \A b \in Binding : versions[1][b] = None
  BY DEF Init, Contents
<1>2. Nothing \in Copies /\ Nothing.staged = 0 /\ Nothing.status = "none" /\ Nothing.o = None
  BY DEF Nothing, Copies, Statuses
<1>3. /\ NoOperation \in [status : Statuses, staged : Nat]
      /\ NoOperation.staged = 0 /\ NoOperation.status = "none"
  BY DEF NoOperation, Statuses
<1>4. PromotionTypes
  BY <1>1, <1>2, <1>3 DEF Init, PromotionTypes, Steps
<1>5. \A o \in Operation : StoredOK(o)
  BY <1>3 DEF Init, StoredOK, Complete
<1>6. \A p \in Process : CommandOK(p)
  BY <1>2 DEF Init, CommandOK, Complete
<1>7. \A o \in Operation, v \in Nat \ {0} : ~OwnedBy(o, v)
  BY <1>2, <1>3 DEF Init, OwnedBy
<1>8. OwnershipInv /\ SingleOwner
  BY <1>7 DEF OwnershipInv, SingleOwner
<1>9. ContentInv
  BY <1>1, PromotionConstants DEF ContentInv
<1>10. UndoneInv
  BY <1>3 DEF UndoneInv, BeingUndone, Init
<1> QED
  BY <1>4, <1>5, <1>6, <1>8, <1>9, <1>10 DEF PromotionInv

LEMMA PromotionInvNext ==
  PromotionInv /\ [Next]_vars => PromotionInv'
<1> SUFFICES ASSUME PromotionInv, [Next]_vars PROVE PromotionInv'
  OBVIOUS
<1>1. ASSUME NEW o \in Operation, Plan(o) PROVE PromotionInv'
  BY <1>1, PlanStep
<1>2. ASSUME UNCHANGED <<versions, deployed, prior, stored, pc, mine, rebased, raced, forced>>
      PROVE  PromotionInv'
  <2>1. PromotionTypes' /\ SingleOwner' /\ ContentInv'
    BY <1>2 DEF PromotionInv, PromotionTypes, SingleOwner, ContentInv, OwnedBy
  <2>2. (\A o \in Operation : StoredOK(o)') /\ (\A p \in Process : CommandOK(p)')
    BY <1>2 DEF PromotionInv, StoredOK, CommandOK, Complete
  <2>3. OwnershipInv'
    BY <1>2 DEF PromotionInv, OwnershipInv, OwnedBy, BuiltOn
  <2>4. UndoneInv'
    BY <1>2 DEF PromotionInv, UndoneInv, BeingUndone, Excused, FreeOf, OwnedBy
  <2> QED
    BY <2>1, <2>2, <2>3, <2>4 DEF PromotionInv
<1>3. ASSUME NEW o \in Operation, MakeStale(o) PROVE PromotionInv'
  BY <1>2, <1>3 DEF MakeStale, providerVars, histories
<1>4. ASSUME NEW p \in Process, Step(p) PROVE PromotionInv'
  <2>1. ASSUME NEW o \in Operation, Apply(p, o) PROVE PromotionInv'
    BY <2>1, ApplyStep
  <2>2. ASSUME NEW o \in Operation, Resume(p, o) PROVE PromotionInv'
    BY <2>2, LoadSteps DEF Resume, ValidPlan, providerVars, histories
  <2>3. ASSUME NEW o \in Operation, Promote(p, o) PROVE PromotionInv'
    BY <2>3, LoadSteps DEF Promote, providerVars, histories
  <2>4. ASSUME NEW o \in Operation, Rollback(p, o) PROVE PromotionInv'
    BY <2>4, LoadSteps DEF Rollback, providerVars, histories
  <2>5. CASE BeginStage(p)
    BY <2>5, BeginStageStep
  <2>6. CASE UploadVersion(p)
    BY <2>6, UploadStep
  <2>7. CASE FinishStage(p)
    <3>1. mine[p].staged # 0
      BY <2>7 DEF FinishStage, PromotionInv, CommandOK
    <3> QED
      BY <2>7, <3>1, SavedSteps DEF FinishStage, providerVars, histories
  <2>8. CASE ValidatePromotion(p)
    BY <2>8, FoundSteps DEF ValidatePromotion, MayPromote, ValidPlan, providerVars, histories
  <2>9. CASE PromoteVersion(p)
    BY <2>9, PromoteVersionStep
  <2>10. CASE SavePromoted(p)
    BY <2>10, SavePromotedStep
  <2>11. CASE CheckHealth(p)
    BY <2>11, CheckHealthStep
  <2>12. CASE ValidateRollback(p)
    BY <2>12, FoundSteps DEF ValidateRollback, MayRollBack, providerVars, histories
  <2>13. CASE DeployPrior(p)
    BY <2>13, DeployPriorStep
  <2>14. CASE SaveRolledBack(p)
    <3>1. /\ pc[p] = "undone"
          /\ UNCHANGED <<versions, deployed, prior, rebased, raced, forced>>
      BY <2>14 DEF SaveRolledBack, providerVars, histories
    <3>2. CASE Complete(mine[p])
      <4>1. SaveAndReturn(p, "rolled_back", mine[p].staged)
        BY <2>14, <3>2 DEF SaveRolledBack
      <4>2. mine[p].staged # 0
        BY <3>2 DEF PromotionInv, CommandOK
      <4> QED
        BY <3>1, <4>1, <4>2, SavedSteps
    <3>3. CASE ~Complete(mine[p])
      BY <2>14, <3>1, <3>3, ReturnSteps DEF SaveRolledBack
    <3> QED
      BY <3>2, <3>3
  <2>15. CASE Stop(p)
    BY <2>15, ReturnSteps DEF Stop, providerVars, histories
  <2> QED
    BY <1>4, <2>1, <2>2, <2>3, <2>4, <2>5, <2>6, <2>7, <2>8, <2>9, <2>10, <2>11, <2>12,
       <2>13, <2>14, <2>15 DEF Step
<1>5. CASE UNCHANGED vars
  BY <1>2, <1>5 DEF vars, providerVars, histories
<1> QED
  BY <1>1, <1>3, <1>4, <1>5 DEF Next

-----------------------------------------------------------------------------
\* rollback: for any number of operations on a Worker and any overlap of the
\* commands on them, the secrets of an operation that is recorded as rolled back
\* are not in use, but for the overlaps that no check of the code catches
\* (RolledBackIsNotDeployed).
THEOREM RollbackTakesEffect == Spec => []RolledBackIsNotDeployed
<1>1. PromotionInv => RolledBackIsNotDeployed
  <2> SUFFICES ASSUME PromotionInv, NEW o \in Operation, stored[o].status = "rolled_back",
                      NEW b \in Binding, versions[deployed][b] = o
               PROVE  o \in raced \/ (forced \cup rebased) \ {o} # {}
    BY DEF RolledBackIsNotDeployed
  <2>1. BeingUndone(o)
    BY DEF BeingUndone
  <2>2. ~ \E S : deployed \in S /\ FreeOf(o, S)
    BY DEF FreeOf
  <2> QED
    BY <2>1, <2>2 DEF PromotionInv, UndoneInv, Excused
<1> QED
  BY <1>1, PromotionInvInit, PromotionInvNext, PTL DEF Spec

\* Adapter.Stage and promote: what a promotion does not set is as in the version
\* it replaces, other operations' secrets included, but for the two windows that
\* no check of the code closes (KeepsOtherBindings).
THEOREM PromotionKeepsOthers == Spec => KeepsOtherBindings
<1> DEFINE A == \A p \in Process :
                  pc[p] = "promoting" /\ pc'[p] = "promoted" =>
                    \/ Overtaken(p)
                    \/ mine[p].o \in rebased
                    \/ \A b \in Binding \ Sets[mine[p].o] :
                         versions[deployed'][b] = versions[deployed][b]
<1>1. PromotionInv /\ [Next]_vars => A
  <2> SUFFICES ASSUME PromotionInv, [Next]_vars, NEW p \in Process,
                      pc[p] = "promoting", pc'[p] = "promoted", ~Overtaken(p),
                      mine[p].o \notin rebased, NEW b \in Binding \ Sets[mine[p].o]
               PROVE  versions[deployed'][b] = versions[deployed][b]
    OBVIOUS
  <2>1. PromoteVersion(p)
    BY DEF Next, Step, vars, providerVars, PromotionInv, PromotionTypes, Return, Goto, Save,
       SaveAndReturn, Plan, MakeStale, Apply, Resume, Promote, Rollback, BeginStage,
       UploadVersion, FinishStage, ValidatePromotion, PromoteVersion, SavePromoted,
       CheckHealth, ValidateRollback, DeployPrior, SaveRolledBack, Stop
  <2>2. PICK o \in Operation, v \in Nat \ {0} : o = mine[p].o /\ v = mine[p].staged
    BY DEF PromotionInv, PromotionTypes, CommandOK, Copies
  <2>3. OwnedBy(o, v) /\ deployed' = v /\ deployed = prior[o] /\ b \notin Sets[o]
    BY <2>1, <2>2 DEF PromoteVersion, Deploy, OwnedBy, Overtaken, PromotionInv, CommandOK
  <2>4. BuiltOn(o, v)
    BY <2>2, <2>3 DEF PromotionInv, OwnershipInv
  <2> QED
    BY <2>3, <2>4 DEF BuiltOn
<1>2. Spec => [][A]_vars
  BY <1>1, PromotionInvInit, PromotionInvNext, PTL DEF Spec
<1> QED
  BY <1>2 DEF KeepsOtherBindings

\* promote and rollback: an operation that is recorded as promoted gives way only
\* to one that was planned on top of it, or to its own rollback (GivesWayRightly).
THEOREM PromotedGivesWay == Spec => GivesWayRightly
<1> DEFINE A == \A o \in Operation :
                  stored[o].status = "promoted" /\ deployed = stored[o].staged /\ deployed' # deployed =>
                    \E p \in Process :
                      /\ pc'[p] # pc[p]
                      /\ \/ pc[p] = "promoting" /\ prior[mine[p].o] = deployed
                         \/ mine[p].o = o
                         \/ Overtaken(p)
                         \/ pc[p] = "undoing" /\ mine[p].status # "promoted"
<1>1. PromotionInv /\ [Next]_vars => A
  <2> SUFFICES ASSUME PromotionInv, [Next]_vars, NEW o \in Operation,
                      stored[o].status = "promoted", deployed = stored[o].staged,
                      deployed' # deployed
               PROVE  \E p \in Process :
                        /\ pc'[p] # pc[p]
                        /\ \/ pc[p] = "promoting" /\ prior[mine[p].o] = deployed
                           \/ mine[p].o = o
                           \/ Overtaken(p)
                           \/ pc[p] = "undoing" /\ mine[p].status # "promoted"
    OBVIOUS
  <2>1. PICK p \in Process : PromoteVersion(p) \/ DeployPrior(p)
    BY DEF Next, Step, vars, providerVars, Plan, MakeStale, Apply, Resume, Promote, Rollback,
       BeginStage, UploadVersion, FinishStage, ValidatePromotion, SavePromoted, CheckHealth,
       ValidateRollback, SaveRolledBack, Stop
  <2>2. CommandOK(p) /\ pc'[p] # pc[p]
    BY <2>1 DEF PromotionInv, PromotionTypes, PromoteVersion, DeployPrior, Goto
  <2>3. CASE PromoteVersion(p)
    BY <2>2, <2>3 DEF PromoteVersion, CommandOK, Overtaken
  <2>4. CASE DeployPrior(p)
    <3>1. CASE mine[p].found = mine[p].staged /\ ~Overtaken(p)
      <4>1. mine[p].o \in Operation /\ deployed \in Nat \ {0}
        BY <2>2, <2>4 DEF DeployPrior, CommandOK, PromotionInv, PromotionTypes
      <4>2. OwnedBy(o, deployed) /\ OwnedBy(mine[p].o, deployed)
        BY <3>1 DEF OwnedBy, Overtaken
      <4>3. mine[p].o = o
        BY <4>1, <4>2 DEF PromotionInv, SingleOwner
      <4> QED
        BY <2>2, <4>3
    <3>2. CASE ~(mine[p].found = mine[p].staged /\ ~Overtaken(p))
      BY <2>2, <2>4, <3>2 DEF DeployPrior, CommandOK
    <3> QED
      BY <3>1, <3>2
  <2> QED
    BY <2>1, <2>3, <2>4
<1>2. Spec => [][A]_vars
  BY <1>1, PromotionInvInit, PromotionInvNext, PTL DEF Spec
<1> QED
  BY <1>2 DEF GivesWayRightly
=============================================================================

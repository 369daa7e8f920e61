------------------------- MODULE AgentBrokerProofs -------------------------
(***************************************************************************)
(* Theorems about AgentBroker, for any number of requests, secrets,        *)
(* contents of files and places.                                           *)
(***************************************************************************)
EXTENDS AgentBroker, FiniteSetTheorems, TLAPS

-----------------------------------------------------------------------------
(* Counting the requests whose phase lies in a set.                        *)

Among(f, S) == {r \in Request : f[r] \in S}

\* What one goroutine's step does to such a count.
LEMMA CountMoves ==
  ASSUME NEW f \in [Request -> Phases], NEW r \in Request, NEW p \in Phases,
         NEW S
  PROVE  /\ Cardinality(Among(f, S)) \in Nat
         /\ f[r] \in S => Cardinality(Among(f, S)) > 0
         /\ f[r] \in S /\ p \in S =>
              Cardinality(Among([f EXCEPT ![r] = p], S)) = Cardinality(Among(f, S))
         /\ f[r] \notin S /\ p \notin S =>
              Cardinality(Among([f EXCEPT ![r] = p], S)) = Cardinality(Among(f, S))
         /\ f[r] \in S /\ p \notin S =>
              Cardinality(Among([f EXCEPT ![r] = p], S)) = Cardinality(Among(f, S)) - 1
         /\ f[r] \notin S /\ p \in S =>
              Cardinality(Among([f EXCEPT ![r] = p], S)) = Cardinality(Among(f, S)) + 1
<1> DEFINE A == Among(f, S)
           B == Among([f EXCEPT ![r] = p], S)
<1>1. IsFiniteSet(A) /\ IsFiniteSet(B)
  <2>1. A \subseteq Request /\ B \subseteq Request
    BY DEF Among
  <2>2. IsFiniteSet(Request)
    BY BrokerAssumption
  <2> QED
    BY <2>1, <2>2, FS_Subset, Zenon
<1>2. Cardinality(A) \in Nat
  BY <1>1, FS_CardinalityType
<1>3. f[r] \in S => Cardinality(A) > 0
  <2> SUFFICES ASSUME f[r] \in S
               PROVE  Cardinality(A) > 0
    OBVIOUS
  <2>1. A # {}
    BY DEF Among
  <2>2. Cardinality(A) # 0
    BY <2>1, <1>1, FS_EmptySet
  <2> HIDE DEF A
  <2> QED
    BY <2>2, <1>2
<1>4. f[r] \in S /\ p \in S => B = A
  BY DEF Among
<1>5. f[r] \notin S /\ p \notin S => B = A
  BY DEF Among
<1>6. f[r] \in S /\ p \notin S => Cardinality(B) = Cardinality(A) - 1
  <2> SUFFICES ASSUME f[r] \in S, p \notin S
               PROVE  Cardinality(B) = Cardinality(A) - 1
    OBVIOUS
  <2>1. B = A \ {r} /\ r \in A
    BY DEF Among
  <2> HIDE DEF A, B
  <2> QED
    BY <2>1, <1>1, FS_RemoveElement, Zenon
<1>7. f[r] \notin S /\ p \in S => Cardinality(B) = Cardinality(A) + 1
  <2> SUFFICES ASSUME f[r] \notin S, p \in S
               PROVE  Cardinality(B) = Cardinality(A) + 1
    OBVIOUS
  <2>1. B = A \cup {r} /\ r \notin A
    BY DEF Among
  <2> HIDE DEF A, B
  <2> QED
    BY <2>1, <1>1, FS_AddElement, Zenon
<1> HIDE DEF A, B
<1>8. /\ Cardinality(A) \in Nat
      /\ f[r] \in S => Cardinality(A) > 0
      /\ f[r] \in S /\ p \in S => Cardinality(B) = Cardinality(A)
      /\ f[r] \notin S /\ p \notin S => Cardinality(B) = Cardinality(A)
      /\ f[r] \in S /\ p \notin S => Cardinality(B) = Cardinality(A) - 1
      /\ f[r] \notin S /\ p \in S => Cardinality(B) = Cardinality(A) + 1
  BY <1>2, <1>3, <1>4, <1>5, <1>6, <1>7
<1> QED
  BY <1>8 DEF A, B

-----------------------------------------------------------------------------
(* Places in the queue, the prompt and places for runs.                    *)

InQueue == PromptPhases \cup {"queued"}

\* One goroutine goes to phase p, and takes and gives back what that needs.
Moves(r, p) ==
  /\ phase' = [phase EXCEPT ![r] = p]
  /\ (phase[r] \in InQueue <=> p \in InQueue) => queued' = queued
  /\ phase[r] \in InQueue /\ p \notin InQueue => queued' = queued - 1
  /\ phase[r] \notin InQueue /\ p \in InQueue =>
       queued' = queued + 1 /\ queued < QueuedPrompts
  /\ (phase[r] \in PromptPhases <=> p \in PromptPhases) => promptMu' = promptMu
  /\ phase[r] \in PromptPhases /\ p \notin PromptPhases => promptMu' = Nobody
  /\ phase[r] \notin PromptPhases /\ p \in PromptPhases =>
       promptMu = Nobody /\ promptMu' = r
  /\ (phase[r] \in RunPhases <=> p \in RunPhases) => runs' = runs
  /\ phase[r] \in RunPhases /\ p \notin RunPhases => runs' = runs - 1
  /\ phase[r] \notin RunPhases /\ p \in RunPhases =>
       runs' = runs + 1 /\ runs < ConcurrentRuns

\* Such a step keeps the counts and their bounds.
LEMMA MovesKeepSlots ==
  ASSUME TypeOK, SlotsAreReturned, NEW r \in Request, NEW p \in Phases,
         Moves(r, p)
  PROVE  /\ SlotsAreReturned'
         /\ queued' \in 0..QueuedPrompts
         /\ promptMu' \in Request \cup {Nobody}
         /\ runs' \in 0..ConcurrentRuns
<1>1. /\ phase \in [Request -> Phases]
      /\ queued \in 0..QueuedPrompts
      /\ runs \in 0..ConcurrentRuns
      /\ promptMu \in Request \cup {Nobody}
      /\ phase' = [phase EXCEPT ![r] = p]
      /\ queued = Cardinality(Among(phase, InQueue))
      /\ runs = Cardinality(Among(phase, RunPhases))
  BY DEF TypeOK, SlotsAreReturned, Moves, Among, InQueue
<1>2. /\ queued' = Cardinality(Among(phase', InQueue))
      /\ queued' \in 0..QueuedPrompts
  <2> DEFINE n == Cardinality(Among(phase, InQueue))
             m == Cardinality(Among([phase EXCEPT ![r] = p], InQueue))
  <2>1. /\ n \in Nat
        /\ phase[r] \in InQueue => n > 0
        /\ phase[r] \in InQueue /\ p \in InQueue => m = n
        /\ phase[r] \notin InQueue /\ p \notin InQueue => m = n
        /\ phase[r] \in InQueue /\ p \notin InQueue => m = n - 1
        /\ phase[r] \notin InQueue /\ p \in InQueue => m = n + 1
    BY <1>1, CountMoves, Zenon
  <2>2. queued = n
    BY <1>1
  <2> HIDE DEF n, m
  <2>3. /\ queued' = m
        /\ queued' \in 0..QueuedPrompts
    BY <1>1, <2>1, <2>2, BrokerAssumption DEF Moves
  <2> QED
    BY <1>1, <2>3 DEF m
<1>3. /\ runs' = Cardinality(Among(phase', RunPhases))
      /\ runs' \in 0..ConcurrentRuns
  <2> DEFINE n == Cardinality(Among(phase, RunPhases))
             m == Cardinality(Among([phase EXCEPT ![r] = p], RunPhases))
  <2>1. /\ n \in Nat
        /\ phase[r] \in RunPhases => n > 0
        /\ phase[r] \in RunPhases /\ p \in RunPhases => m = n
        /\ phase[r] \notin RunPhases /\ p \notin RunPhases => m = n
        /\ phase[r] \in RunPhases /\ p \notin RunPhases => m = n - 1
        /\ phase[r] \notin RunPhases /\ p \in RunPhases => m = n + 1
    BY <1>1, CountMoves, Zenon
  <2>2. runs = n
    BY <1>1
  <2> HIDE DEF n, m
  <2>3. /\ runs' = m
        /\ runs' \in 0..ConcurrentRuns
    BY <1>1, <2>1, <2>2, BrokerAssumption DEF Moves
  <2> QED
    BY <1>1, <2>3 DEF m
<1>4. \A q \in Request : phase'[q] \in PromptPhases <=> promptMu' = q
  <2> SUFFICES ASSUME NEW q \in Request
               PROVE  phase'[q] \in PromptPhases <=> promptMu' = q
    OBVIOUS
  <2>1. /\ phase[q] \in PromptPhases <=> promptMu = q
        /\ phase[r] \in PromptPhases <=> promptMu = r
        /\ Nobody \notin Request
    BY BrokerAssumption DEF SlotsAreReturned
  <2>2. /\ phase'[r] = p
        /\ q # r => phase'[q] = phase[q]
    BY <1>1
  <2> QED
    BY <2>1, <2>2 DEF Moves
<1>5. promptMu' \in Request \cup {Nobody}
  BY <1>1 DEF Moves
<1> QED
  BY <1>2, <1>3, <1>4, <1>5 DEF SlotsAreReturned, Among, InQueue

\* Every step of a goroutine, of the owner or of a command is such a move.
LEMMA StepsMove ==
  ASSUME TypeOK, SlotsAreReturned, NEW r \in Request,
         \/ Step(r) \/ Owner(r) \/ Exit(r)
         \/ \E op \in Operations, names \in SUBSET Name : Connect(r, op, names)
  PROVE  \E p \in Phases : Moves(r, p)
<1> USE DEF At, Go, Respond, LeavePrompt, LeaveRun, promptVars, runVars, Moves,
            InQueue, Phases, PromptPhases, OwnerPhases, RunPhases
<1>1. ASSUME \E op \in Operations, names \in SUBSET Name : Connect(r, op, names)
      PROVE  \E p \in Phases : Moves(r, p)
  BY <1>1 DEF Connect
<1>2. ASSUME Exit(r)
      PROVE  \E p \in Phases : Moves(r, p)
  BY <1>2 DEF Exit
<1>3. CASE Handle(r)
  BY <1>3 DEF Handle
<1>4. CASE Exists(r)
  BY <1>4 DEF Exists
<1>5. CASE Enqueue(r)
  BY <1>5 DEF Enqueue
<1>6. CASE LockPrompt(r)
  BY <1>6 DEF LockPrompt
<1>7. CASE Store(r)
  BY <1>7 DEF Store
<1>8. CASE Resolve(r)
  BY <1>8 DEF Resolve
<1>9. CASE CheckValues(r)
  BY <1>9 DEF CheckValues
<1>10. CASE LookUp(r)
  <2>1. Moves(r, "slot") \/ Moves(r, "enqueue")
    BY <1>10 DEF LookUp
  <2> QED
    BY <2>1
<1>11. CASE TakeSlot(r)
  BY <1>11 DEF TakeSlot, RoomToRun
<1>12. CASE Verify(r)
  BY <1>12 DEF Verify
<1>13. CASE Fresh(r)
  BY <1>13 DEF Fresh
<1>14. CASE Start(r)
  BY <1>14 DEF Start
<1>15. CASE Interrupt(r)
  BY <1>15 DEF Interrupt
<1>16. CASE Kill(r)
  BY <1>16 DEF Kill
<1>17. CASE Reap(r)
  BY <1>17 DEF Reap
<1>18. CASE Plan(r)
  BY <1>18 DEF Plan
<1>19. CASE Prepare(r)
  BY <1>19 DEF Prepare
<1>20. CASE Create(r)
  BY <1>20 DEF Create
<1>21. CASE Export(r)
  BY <1>21 DEF Export, Serves
<1>22. ASSUME NEW v, EnterSecret(r, v)
       PROVE  \E p \in Phases : Moves(r, p)
  BY <1>22 DEF EnterSecret
<1>23. ASSUME NEW decision, Decide(r, decision)
       PROVE  \E p \in Phases : Moves(r, p)
  BY <1>23 DEF Decide
<1>24. ASSUME NEW yes, Confirm(r, yes)
       PROVE  \E p \in Phases : Moves(r, p)
  BY <1>24 DEF Confirm, Consent
<1>25. ASSUME NEW yes, Reuse(r, yes)
       PROVE  \E p \in Phases : Moves(r, p)
  BY <1>25 DEF Reuse, Consent
<1>26. ASSUME NEW yes, NewPassphrase(r, yes)
       PROVE  \E p \in Phases : Moves(r, p)
  BY <1>26 DEF NewPassphrase, Consent
<1>27. ASSUME NEW yes, RecoveryPassphrase(r, yes)
       PROVE  \E p \in Phases : Moves(r, p)
  BY <1>27 DEF RecoveryPassphrase, Serves
<1> HIDE DEF Moves
<1>28. ASSUME Owner(r)
       PROVE  \E p \in Phases : Moves(r, p)
  BY <1>22, <1>23, <1>24, <1>25, <1>26, <1>27, <1>28, Zenon DEF Owner
<1>29. ASSUME Step(r)
       PROVE  \E p \in Phases : Moves(r, p)
  BY <1>3, <1>4, <1>5, <1>6, <1>7, <1>8, <1>9, <1>10, <1>11, <1>12, <1>13, <1>14,
     <1>15, <1>16, <1>17, <1>18, <1>19, <1>20, <1>21, <1>29, Zenon DEF Step
<1> QED
  BY <1>1, <1>2, <1>28, <1>29

-----------------------------------------------------------------------------
(* Types of everything but the places.                                     *)

OtherTypes ==
  /\ vaultSet \in BOOLEAN
  /\ vault \in [Name -> Value \cup {Short, NoValue}]
  /\ created \in Nat
  /\ file \in Content
  /\ always \subseteq Content \X SUBSET Name
  /\ phase \in [Request -> Phases]
  /\ job \in [Request -> Job]
  /\ gone \subseteq Request
  /\ group \in [Request -> {"none", "alive", "orphans"}]
  /\ {listening, stopping, locked} \subseteq BOOLEAN

\* The operations build jobs of the right type.
LEMMA JobTypes ==
  ASSUME NEW j \in Job
  PROVE  /\ \A op \in Operations, names \in SUBSET Name : NewJob(op, names) \in Job
         /\ NoJob \in Job
         /\ \A b \in BOOLEAN : [j EXCEPT !.exists = b] \in Job
         /\ \A c \in Content : [j EXCEPT !.content = c] \in Job
         /\ [j EXCEPT !.agreed = j.content] \in Job
         /\ \A c \in Content : [j EXCEPT !.verified = c] \in Job
         /\ \A w \in [Name -> Value \cup {Short, NoValue}] :
              [j EXCEPT !.values = w] \in Job
         /\ j.names \subseteq Name
         /\ j.content \in Content \cup {NoContent}
         /\ j.values \in [Name -> Value \cup {Short, NoValue}]
BY DEF Job, NewJob, NoJob, NoValues, Operations

\* By the time the owner sees a command, or it runs, it has been resolved.
Resolved(r) ==
  \/ phase[r] \in {"values", "lookup", "decide", "slot"} \cup RunPhases
  \/ phase[r] \in {"exists", "enqueue", "queued"} /\ job[r].op = "run"
  => job[r].content \in Content

\* A step of one request keeps these types.
LEMMA StepsKeepTypes ==
  ASSUME OtherTypes, NEW r \in Request, Resolved(r),
         \/ Step(r) \/ Owner(r) \/ Exit(r) \/ HangUp(r)
         \/ \E op \in Operations, names \in SUBSET Name : Connect(r, op, names)
  PROVE  OtherTypes'
<1>1. /\ job[r] \in Job
      /\ \A op \in Operations, names \in SUBSET Name : NewJob(op, names) \in Job
      /\ NoJob \in Job
      /\ \A b \in BOOLEAN : [job[r] EXCEPT !.exists = b] \in Job
      /\ \A c \in Content : [job[r] EXCEPT !.content = c] \in Job
      /\ [job[r] EXCEPT !.agreed = job[r].content] \in Job
      /\ \A c \in Content : [job[r] EXCEPT !.verified = c] \in Job
      /\ \A w \in [Name -> Value \cup {Short, NoValue}] :
           [job[r] EXCEPT !.values = w] \in Job
      /\ job[r].names \subseteq Name
      /\ job[r].content \in Content \cup {NoContent}
      /\ job[r].values \in [Name -> Value \cup {Short, NoValue}]
  BY JobTypes, Zenon DEF OtherTypes
<1> USE DEF OtherTypes, At, Go, Respond, LeavePrompt, LeaveRun, promptVars,
            runVars, vaultVars, serveVars, Phases, PromptPhases, OwnerPhases,
            RunPhases, ApprovalKey, Resolved
<1>2. ASSUME \E op \in Operations, names \in SUBSET Name : Connect(r, op, names)
      PROVE  OtherTypes'
  BY <1>1, <1>2 DEF Connect
<1>3. ASSUME Exit(r) \/ HangUp(r)
      PROVE  OtherTypes'
  BY <1>1, <1>3 DEF Exit, HangUp
<1>4. CASE Handle(r)
  BY <1>4, <1>1 DEF Handle
<1>5. CASE Exists(r)
  <2> DEFINE known == \A m \in job[r].names : vault[m] # NoValue
  <2>1. known \in BOOLEAN
    OBVIOUS
  <2>2. [job[r] EXCEPT !.exists = known] \in Job
    BY <1>1, <2>1
  <2>3. \/ job' = [job EXCEPT ![r] = NoJob]
        \/ job' = [job EXCEPT ![r].exists = known]
    BY <1>5 DEF Exists
  <2> HIDE DEF known
  <2>4. job' \in [Request -> Job]
    BY <1>1, <2>2, <2>3
  <2> QED
    BY <1>5, <2>4 DEF Exists
<1>6. CASE Enqueue(r)
  BY <1>6, <1>1 DEF Enqueue
<1>7. CASE LockPrompt(r)
  BY <1>7, <1>1 DEF LockPrompt
<1>8. CASE Store(r)
  BY <1>8, <1>1 DEF Store
<1>9. CASE Resolve(r)
  BY <1>9, <1>1 DEF Resolve
<1>10. CASE CheckValues(r)
  BY <1>10, <1>1 DEF CheckValues
<1>11. CASE LookUp(r)
  BY <1>11, <1>1 DEF LookUp
<1>12. CASE TakeSlot(r)
  BY <1>12, <1>1 DEF TakeSlot
<1>13. CASE Verify(r)
  BY <1>13, <1>1 DEF Verify
<1>14. CASE Fresh(r)
  BY <1>14, <1>1 DEF Fresh
<1>15. CASE Start(r)
  BY <1>15, <1>1 DEF Start
<1>16. CASE Interrupt(r)
  BY <1>16, <1>1 DEF Interrupt
<1>17. CASE Kill(r)
  BY <1>17, <1>1 DEF Kill
<1>18. CASE Reap(r)
  BY <1>18, <1>1 DEF Reap, KillGroup
<1>19. CASE Plan(r)
  BY <1>19, <1>1 DEF Plan
<1>20. CASE Prepare(r)
  BY <1>20, <1>1 DEF Prepare
<1>21. CASE Create(r)
  BY <1>21, <1>1 DEF Create
<1>22. CASE Export(r)
  BY <1>22, <1>1 DEF Export, Serves
<1>23. ASSUME NEW v \in Value \cup {Short, NoValue}, EnterSecret(r, v)
       PROVE  OtherTypes'
  BY <1>23, <1>1 DEF EnterSecret
<1>24. ASSUME NEW decision \in {"deny", "once", "always"}, Decide(r, decision)
       PROVE  OtherTypes'
  BY <1>24, <1>1 DEF Decide
<1>25. ASSUME NEW yes \in BOOLEAN, Confirm(r, yes)
       PROVE  OtherTypes'
  BY <1>25, <1>1 DEF Confirm, Consent
<1>26. ASSUME NEW yes \in BOOLEAN, Reuse(r, yes)
       PROVE  OtherTypes'
  BY <1>26, <1>1 DEF Reuse, Consent
<1>27. ASSUME NEW yes \in BOOLEAN, NewPassphrase(r, yes)
       PROVE  OtherTypes'
  BY <1>27, <1>1 DEF NewPassphrase, Consent
<1>28. ASSUME NEW yes \in BOOLEAN, RecoveryPassphrase(r, yes)
       PROVE  OtherTypes'
  BY <1>28, <1>1 DEF RecoveryPassphrase, Serves
<1> HIDE DEF OtherTypes
<1>29. ASSUME Owner(r)
       PROVE  OtherTypes'
  BY <1>23, <1>24, <1>25, <1>26, <1>27, <1>28, <1>29, Zenon DEF Owner
<1>30. ASSUME Step(r)
       PROVE  OtherTypes'
  BY <1>4, <1>5, <1>6, <1>7, <1>8, <1>9, <1>10, <1>11, <1>12, <1>13, <1>14,
     <1>15, <1>16, <1>17, <1>18, <1>19, <1>20, <1>21, <1>22,
     <1>30, Zenon DEF Step
<1> QED
  BY <1>2, <1>3, <1>29, <1>30

-----------------------------------------------------------------------------
(* What each phase of a run may rely on.                                   *)

Cleared(r) ==
  /\ phase[r] \in RunPhases \cup {"slot"} =>
       job[r].agreed = job[r].content \/ ApprovalKey(r) \in always
  /\ phase[r] \in RunPhases \ {"verify"} => job[r].verified = job[r].content
  /\ phase[r] \in {"start", "running", "terminating", "reap"} =>
       \A n \in job[r].names : job[r].values[n] \in Value
  /\ group[r] # "none" => phase[r] \in {"running", "terminating", "reap"}

FixedOnly == \A k \in always : k[1] \notin Project

\* A step of r leaves other requests alone and keeps what r may rely on.
Keeps(r) ==
  /\ \A q \in Request \ {r} :
       phase'[q] = phase[q] /\ job'[q] = job[q] /\ group'[q] = group[q]
  /\ always \subseteq always'
  /\ Resolved(r)'
  /\ Cleared(r)'
  /\ FixedOnly'

LEMMA StepsKeepCleared ==
  ASSUME OtherTypes, NEW r \in Request, Resolved(r), Cleared(r), FixedOnly,
         \/ Step(r) \/ Owner(r) \/ Exit(r) \/ HangUp(r)
         \/ \E op \in Operations, names \in SUBSET Name : Connect(r, op, names)
  PROVE  Keeps(r)
<1>1. /\ phase \in [Request -> Phases]
      /\ job \in [Request -> Job]
      /\ job[r] \in Job
      /\ group \in [Request -> {"none", "alive", "orphans"}]
      /\ file \in Content
  BY DEF OtherTypes
<1> USE DEF Keeps, At, Go, Respond, LeavePrompt, LeaveRun, promptVars,
            runVars, vaultVars, serveVars, PromptPhases, OwnerPhases,
            RunPhases, ApprovalKey, Resolved, Cleared, FixedOnly, Job, NoJob,
            NewJob
<1>2. ASSUME \E op \in Operations, names \in SUBSET Name : Connect(r, op, names)
      PROVE  Keeps(r)
  BY <1>1, <1>2 DEF Connect
<1>3. ASSUME Exit(r) \/ HangUp(r)
      PROVE  Keeps(r)
  BY <1>1, <1>3 DEF Exit, HangUp
<1>4. CASE Handle(r)
  BY <1>4, <1>1 DEF Handle
<1>5. CASE Exists(r)
  <2>1. CASE Respond(r)
    BY <1>5, <1>1, <2>1 DEF Exists
  <2>2. CASE ~Respond(r)
    <3>1. /\ phase' = [phase EXCEPT ![r] = "enqueue"]
          /\ phase[r] = "exists"
          /\ always' = always
          /\ group' = group
      BY <1>5, <2>2 DEF Exists
    <3>2. /\ \A q \in Request \ {r} : job'[q] = job[q]
          /\ job'[r].op = job[r].op
          /\ job'[r].content = job[r].content
      <4> DEFINE known == \A m \in job[r].names : vault[m] # NoValue
      <4>1. job' = [job EXCEPT ![r].exists = known]
        BY <1>5, <2>2 DEF Exists
      <4> HIDE DEF known
      <4> QED
        BY <1>1, <4>1
    <3> QED
      BY <1>1, <3>1, <3>2
  <2> QED
    BY <2>1, <2>2
<1>6. CASE Enqueue(r)
  BY <1>6, <1>1 DEF Enqueue
<1>7. CASE LockPrompt(r)
  BY <1>7, <1>1 DEF LockPrompt
<1>8. CASE Store(r)
  BY <1>8, <1>1 DEF Store
<1>9. CASE Resolve(r)
  BY <1>9, <1>1 DEF Resolve
<1>10. CASE CheckValues(r)
  BY <1>10, <1>1 DEF CheckValues, Redactable
<1>11. CASE LookUp(r)
  BY <1>11, <1>1 DEF LookUp
<1>12. CASE TakeSlot(r)
  BY <1>12, <1>1 DEF TakeSlot, RoomToRun
<1>13. CASE Verify(r)
  <2>1. CASE Respond(r)
    BY <1>13, <1>1, <2>1 DEF Verify
  <2>2. CASE ~Respond(r)
    <3>1. /\ phase' = [phase EXCEPT ![r] = "fresh"]
          /\ phase[r] = "verify"
          /\ always' = always
          /\ group' = group
          /\ job' = [job EXCEPT ![r].verified = file]
          /\ file = job[r].content
      BY <1>13, <2>2 DEF Verify, Unaltered
    <3>2. /\ \A q \in Request \ {r} : job'[q] = job[q]
          /\ job'[r].agreed = job[r].agreed
          /\ job'[r].content = job[r].content
          /\ job'[r].names = job[r].names
          /\ job'[r].verified = job[r].content
      BY <1>1, <3>1
    <3> QED
      BY <1>1, <3>1, <3>2
  <2> QED
    BY <2>1, <2>2
<1>14. CASE Fresh(r)
  <2>1. CASE Respond(r)
    BY <1>14, <1>1, <2>1 DEF Fresh
  <2>2. CASE ~Respond(r)
    <3>1. /\ phase' = [phase EXCEPT ![r] = "start"]
          /\ phase[r] = "fresh"
          /\ always' = always
          /\ group' = group
          /\ job' = [job EXCEPT ![r].values =
                       [n \in Name |-> IF n \in job[r].names THEN vault[n] ELSE NoValue]]
          /\ \A n \in job[r].names : vault[n] \in Value
      BY <1>14, <2>2 DEF Fresh, Redactable
    <3>2. /\ \A q \in Request \ {r} : job'[q] = job[q]
          /\ job'[r].agreed = job[r].agreed
          /\ job'[r].content = job[r].content
          /\ job'[r].names = job[r].names
          /\ job'[r].verified = job[r].verified
          /\ \A n \in job[r].names : job'[r].values[n] \in Value
      BY <1>1, <3>1
    <3>3. /\ phase' = [phase EXCEPT ![r] = "start"]
          /\ phase[r] = "fresh"
          /\ always' = always
          /\ group' = group
      BY <3>1
    <3> QED
      BY <1>1, <3>2, <3>3
  <2> QED
    BY <2>1, <2>2
<1>15. CASE Start(r)
  BY <1>15, <1>1 DEF Start
<1>16. CASE Interrupt(r)
  BY <1>16, <1>1 DEF Interrupt
<1>17. CASE Kill(r)
  BY <1>17, <1>1 DEF Kill
<1>18. CASE Reap(r)
  BY <1>18, <1>1 DEF Reap, KillGroup
<1>19. CASE Plan(r)
  BY <1>19, <1>1 DEF Plan
<1>20. CASE Prepare(r)
  BY <1>20, <1>1 DEF Prepare
<1>21. CASE Create(r)
  BY <1>21, <1>1 DEF Create
<1>22. CASE Export(r)
  BY <1>22, <1>1 DEF Export, Serves
<1>23. ASSUME NEW v \in Value \cup {Short, NoValue}, EnterSecret(r, v)
       PROVE  Keeps(r)
  BY <1>23, <1>1 DEF EnterSecret
<1>24. ASSUME NEW decision \in {"deny", "once", "always"}, Decide(r, decision)
       PROVE  Keeps(r)
  <2>1. CASE Respond(r)
    BY <1>24, <1>1, <2>1 DEF Decide
  <2>2. CASE ~Respond(r)
    <3>1. /\ phase' = [phase EXCEPT ![r] = "slot"]
          /\ phase[r] = "decide"
          /\ group' = group
          /\ job' = [job EXCEPT ![r].agreed = job[r].content]
      BY <1>24, <2>2 DEF Decide
    <3>2. /\ always \subseteq always'
          /\ \A k \in always' : k[1] \notin Project
      BY <1>24, <2>2 DEF Decide
    <3>3. /\ \A q \in Request \ {r} : job'[q] = job[q]
          /\ job'[r].agreed = job[r].content
          /\ job'[r].content = job[r].content
          /\ job'[r].names = job[r].names
      BY <1>1, <3>1
    <3> QED
      BY <1>1, <3>1, <3>2, <3>3
  <2> QED
    BY <2>1, <2>2
<1>25. ASSUME NEW yes \in BOOLEAN, Confirm(r, yes)
       PROVE  Keeps(r)
  BY <1>25, <1>1 DEF Confirm, Consent
<1>26. ASSUME NEW yes \in BOOLEAN, Reuse(r, yes)
       PROVE  Keeps(r)
  BY <1>26, <1>1 DEF Reuse, Consent
<1>27. ASSUME NEW yes \in BOOLEAN, NewPassphrase(r, yes)
       PROVE  Keeps(r)
  BY <1>27, <1>1 DEF NewPassphrase, Consent
<1>28. ASSUME NEW yes \in BOOLEAN, RecoveryPassphrase(r, yes)
       PROVE  Keeps(r)
  BY <1>28, <1>1 DEF RecoveryPassphrase, Serves
<1> HIDE DEF Keeps
<1>29. ASSUME Owner(r)
       PROVE  Keeps(r)
  BY <1>23, <1>24, <1>25, <1>26, <1>27, <1>28, <1>29, Zenon DEF Owner
<1>30. ASSUME Step(r)
       PROVE  Keeps(r)
  BY <1>4, <1>5, <1>6, <1>7, <1>8, <1>9, <1>10, <1>11, <1>12, <1>13, <1>14,
     <1>15, <1>16, <1>17, <1>18, <1>19, <1>20, <1>21, <1>22,
     <1>30, Zenon DEF Step
<1> QED
  BY <1>2, <1>3, <1>29, <1>30

-----------------------------------------------------------------------------
(* Setup.                                                                  *)

BeforeVault == {"confirm", "prepare", "reuse", "passphrase", "create"}
AfterVault == {"recovery", "export"}

\* Whoever is setting up holds the prompt, so that a vault that was made and is
\* not yet served is the business of one request.
SetupInv ==
  /\ created \in {0, 1}
  /\ \A q \in Request : phase[q] \in BeforeVault => ~vaultSet /\ created = 0
  /\ \A q \in Request : phase[q] \in AfterVault => ~vaultSet /\ created = 1
  /\ created = 1 /\ ~vaultSet => \E q \in Request : phase[q] \in AfterVault

LEMMA StepsKeepSetup ==
  ASSUME OtherTypes, SlotsAreReturned, SetupInv, NEW r \in Request,
         \/ Step(r) \/ Owner(r) \/ Exit(r) \/ HangUp(r)
         \/ \E op \in Operations, names \in SUBSET Name : Connect(r, op, names)
  PROVE  SetupInv'
<1>1. /\ phase \in [Request -> Phases]
      /\ vaultSet \in BOOLEAN
  BY DEF OtherTypes
<1>2. \A q \in Request :
        phase[r] \in PromptPhases /\ phase[q] \in PromptPhases => q = r
  BY DEF SlotsAreReturned
<1> USE DEF SetupInv, BeforeVault, AfterVault, At, Go, Respond, vaultVars,
            PromptPhases, OwnerPhases
<1>3. ASSUME \E op \in Operations, names \in SUBSET Name : Connect(r, op, names)
      PROVE  SetupInv'
  BY <1>1, <1>3 DEF Connect
<1>4. ASSUME Exit(r) \/ HangUp(r)
      PROVE  SetupInv'
  BY <1>1, <1>4 DEF Exit, HangUp
<1>5. CASE Handle(r)
  BY <1>5, <1>1, <1>2 DEF Handle
<1>6. CASE Exists(r)
  BY <1>6, <1>1, <1>2 DEF Exists
<1>7. CASE Enqueue(r)
  BY <1>7, <1>1, <1>2 DEF Enqueue
<1>8. CASE LockPrompt(r)
  BY <1>8, <1>1, <1>2 DEF LockPrompt
<1>9. CASE Store(r)
  BY <1>9, <1>1, <1>2 DEF Store
<1>10. CASE Resolve(r)
  BY <1>10, <1>1, <1>2 DEF Resolve
<1>11. CASE CheckValues(r)
  BY <1>11, <1>1, <1>2 DEF CheckValues
<1>12. CASE LookUp(r)
  BY <1>12, <1>1, <1>2 DEF LookUp
<1>13. CASE TakeSlot(r)
  BY <1>13, <1>1, <1>2 DEF TakeSlot
<1>14. CASE Verify(r)
  BY <1>14, <1>1, <1>2 DEF Verify
<1>15. CASE Fresh(r)
  BY <1>15, <1>1, <1>2 DEF Fresh
<1>16. CASE Start(r)
  BY <1>16, <1>1, <1>2 DEF Start
<1>17. CASE Interrupt(r)
  BY <1>17, <1>1, <1>2 DEF Interrupt
<1>18. CASE Kill(r)
  BY <1>18, <1>1, <1>2 DEF Kill
<1>19. CASE Reap(r)
  BY <1>19, <1>1, <1>2 DEF Reap, KillGroup
<1>20. CASE Plan(r)
  BY <1>20, <1>1, <1>2 DEF Plan, NotSetUp
<1>21. CASE Prepare(r)
  BY <1>21, <1>1, <1>2 DEF Prepare
<1>22. CASE Create(r)
  BY <1>22, <1>1, <1>2 DEF Create
<1>23. CASE Export(r)
  BY <1>23, <1>1, <1>2 DEF Export, Serves
<1>24. ASSUME NEW v \in Value \cup {Short, NoValue}, EnterSecret(r, v)
       PROVE  SetupInv'
  BY <1>24, <1>1, <1>2 DEF EnterSecret
<1>25. ASSUME NEW decision \in {"deny", "once", "always"}, Decide(r, decision)
       PROVE  SetupInv'
  BY <1>25, <1>1, <1>2 DEF Decide
<1>26. ASSUME NEW yes \in BOOLEAN, Confirm(r, yes)
       PROVE  SetupInv'
  BY <1>26, <1>1, <1>2 DEF Confirm, Consent
<1>27. ASSUME NEW yes \in BOOLEAN, Reuse(r, yes)
       PROVE  SetupInv'
  BY <1>27, <1>1, <1>2 DEF Reuse, Consent
<1>28. ASSUME NEW yes \in BOOLEAN, NewPassphrase(r, yes)
       PROVE  SetupInv'
  BY <1>28, <1>1, <1>2 DEF NewPassphrase, Consent
<1>29. ASSUME NEW yes \in BOOLEAN, RecoveryPassphrase(r, yes)
       PROVE  SetupInv'
  BY <1>29, <1>1, <1>2 DEF RecoveryPassphrase, Serves
<1> HIDE DEF SetupInv
<1>30. ASSUME Owner(r)
       PROVE  SetupInv'
  BY <1>24, <1>25, <1>26, <1>27, <1>28, <1>29, <1>30, Zenon DEF Owner
<1>31. ASSUME Step(r)
       PROVE  SetupInv'
  BY <1>5, <1>6, <1>7, <1>8, <1>9, <1>10, <1>11, <1>12, <1>13, <1>14, <1>15,
     <1>16, <1>17, <1>18, <1>19, <1>20, <1>21, <1>22, <1>23,
     <1>31, Zenon DEF Step
<1> QED
  BY <1>3, <1>4, <1>30, <1>31

-----------------------------------------------------------------------------
(* The inductive invariant and the theorems.                               *)

BrokerInv ==
  /\ TypeOK
  /\ SlotsAreReturned
  /\ \A q \in Request : Resolved(q) /\ Cleared(q)
  /\ FixedOnly
  /\ SetupInv

LEMMA InitBroker == Init => BrokerInv
<1> SUFFICES ASSUME Init
             PROVE  BrokerInv
  OBVIOUS
<1>1. TypeOK
  <2>1. NoValues \in [Name -> Value \cup {Short, NoValue}]
    BY DEF NoValues
  <2>2. NoJob \in Job
    BY <2>1 DEF NoJob, NewJob, Job, Operations
  <2>3. /\ phase \in [Request -> Phases]
        /\ group \in [Request -> {"none", "alive", "orphans"}]
    BY DEF Init, Phases
  <2>4. job \in [Request -> Job]
    BY <2>2 DEF Init
  <2>5. queued \in 0..QueuedPrompts /\ runs \in 0..ConcurrentRuns /\ created \in Nat
    BY BrokerAssumption DEF Init
  <2>6. /\ vaultSet \in BOOLEAN
        /\ {listening, stopping, locked} \subseteq BOOLEAN
    BY Zenon DEF Init
  <2>7. /\ vault \in [Name -> Value \cup {Short, NoValue}]
        /\ file \in Content
        /\ always \subseteq Content \X SUBSET Name
        /\ gone \subseteq Request
        /\ promptMu \in Request \cup {Nobody}
    BY <2>1 DEF Init
  <2> QED
    BY <2>3, <2>4, <2>5, <2>6, <2>7, Zenon DEF TypeOK
<1>2. SlotsAreReturned
  <2>1. /\ {r \in Request : phase[r] \in PromptPhases \cup {"queued"}} = {}
        /\ {r \in Request : phase[r] \in RunPhases} = {}
        /\ \A r \in Request : phase[r] \notin PromptPhases
    BY DEF Init, PromptPhases, OwnerPhases, RunPhases
  <2>2. Cardinality({}) = 0
    BY FS_EmptySet
  <2> QED
    BY <2>1, <2>2, BrokerAssumption DEF Init, SlotsAreReturned
<1>3. \A q \in Request : Resolved(q) /\ Cleared(q)
  BY DEF Init, Resolved, Cleared, RunPhases
<1>4. FixedOnly
  BY DEF Init, FixedOnly
<1>5. SetupInv
  BY DEF Init, SetupInv, BeforeVault, AfterVault
<1> QED
  BY <1>1, <1>2, <1>3, <1>4, <1>5 DEF BrokerInv

\* A step of a request.
LEMMA RequestKeepsInv ==
  ASSUME BrokerInv, NEW r \in Request,
         \/ Step(r) \/ Owner(r) \/ Exit(r) \/ HangUp(r)
         \/ \E op \in Operations, names \in SUBSET Name : Connect(r, op, names)
  PROVE  BrokerInv'
<1>1. /\ TypeOK
      /\ OtherTypes
      /\ SlotsAreReturned
      /\ \A q \in Request : Resolved(q) /\ Cleared(q)
      /\ FixedOnly
      /\ SetupInv
  BY DEF BrokerInv, TypeOK, OtherTypes
<1>2. OtherTypes'
  BY <1>1, StepsKeepTypes
<1>3. /\ SlotsAreReturned'
      /\ queued' \in 0..QueuedPrompts
      /\ promptMu' \in Request \cup {Nobody}
      /\ runs' \in 0..ConcurrentRuns
  <2>1. CASE HangUp(r)
    <3>1. UNCHANGED <<phase, queued, promptMu, runs>>
      BY <2>1 DEF HangUp, promptVars, runVars
    <3> QED
      BY <1>1, <3>1 DEF TypeOK, SlotsAreReturned
  <2>2. CASE ~HangUp(r)
    <3>1. PICK p \in Phases : Moves(r, p)
      BY <1>1, <2>2, StepsMove
    <3> QED
      BY <1>1, <3>1, MovesKeepSlots
  <2> QED
    BY <2>1, <2>2
<1>4. Keeps(r)
  BY <1>1, StepsKeepCleared
<1>5. \A q \in Request : Resolved(q)' /\ Cleared(q)'
  <2> SUFFICES ASSUME NEW q \in Request
               PROVE  Resolved(q)' /\ Cleared(q)'
    OBVIOUS
  <2>1. CASE q = r
    BY <1>4, <2>1 DEF Keeps
  <2>2. CASE q # r
    <3>1. /\ phase'[q] = phase[q]
          /\ job'[q] = job[q]
          /\ group'[q] = group[q]
          /\ always \subseteq always'
      BY <1>4, <2>2 DEF Keeps
    <3>2. Resolved(q) /\ Cleared(q)
      BY <1>1
    <3> QED
      BY <3>1, <3>2 DEF Resolved, Cleared, ApprovalKey
  <2> QED
    BY <2>1, <2>2
<1>6. FixedOnly'
  BY <1>4 DEF Keeps
<1>7. SetupInv'
  BY <1>1, StepsKeepSetup
<1> QED
  BY <1>2, <1>3, <1>5, <1>6, <1>7 DEF BrokerInv, TypeOK, OtherTypes

LEMMA NextBroker ==
  ASSUME BrokerInv, [Next]_vars
  PROVE  BrokerInv'
<1>1. CASE UNCHANGED vars
  BY <1>1 DEF BrokerInv, TypeOK, SlotsAreReturned, Resolved, Cleared, ApprovalKey,
     FixedOnly, SetupInv, vars, vaultVars, serveVars
<1>2. ASSUME NEW r \in Request,
             \/ Step(r) \/ Owner(r) \/ Exit(r) \/ HangUp(r)
             \/ \E op \in Operations, names \in SUBSET Name : Connect(r, op, names)
      PROVE  BrokerInv'
  BY <1>2, RequestKeepsInv
<1>3. CASE Stop \/ CloseListener
  <2>1. UNCHANGED <<vaultVars, file, always, phase, job, gone, promptVars, runVars>>
    BY <1>3 DEF Stop, CloseListener
  <2>2. {listening', stopping', locked'} \subseteq BOOLEAN
    BY <1>3 DEF Stop, CloseListener, BrokerInv, TypeOK
  <2> QED
    BY <2>1, <2>2 DEF BrokerInv, TypeOK, SlotsAreReturned, Resolved, Cleared,
       ApprovalKey, FixedOnly, SetupInv, vaultVars, promptVars, runVars
<1>4. CASE Lock
  <2>1. /\ UNCHANGED <<vaultVars, file, phase, job, gone, promptVars, runVars>>
        /\ always' = {}
        /\ \A q \in Request : phase[q] = "idle"
    BY <1>4 DEF Lock, At
  <2>2. {listening', stopping', locked'} \subseteq BOOLEAN
    BY <1>4 DEF Lock, BrokerInv, TypeOK
  <2>3. \A q \in Request : Resolved(q)' /\ Cleared(q)'
    BY <2>1 DEF BrokerInv, Resolved, Cleared, RunPhases, runVars
  <2> QED
    BY <2>1, <2>2, <2>3 DEF BrokerInv, TypeOK, SlotsAreReturned, FixedOnly,
       SetupInv, vaultVars, promptVars, runVars
<1>5. ASSUME NEW content \in Content, Edit(content)
      PROVE  BrokerInv'
  <2>1. /\ UNCHANGED <<vaultVars, always, phase, job, gone, promptVars, runVars,
                       serveVars>>
        /\ file' \in Content
    BY <1>5 DEF Edit
  <2> QED
    BY <2>1 DEF BrokerInv, TypeOK, SlotsAreReturned, Resolved, Cleared,
       ApprovalKey, FixedOnly, SetupInv, vaultVars, promptVars, runVars, serveVars
<1>6. ASSUME NEW n \in Name, NEW v \in Value \cup {Short, NoValue}, Rotate(n, v)
      PROVE  BrokerInv'
  <2>1. /\ UNCHANGED <<vaultSet, created, file, always, phase, job, gone,
                       promptVars, runVars, serveVars>>
        /\ vault' \in [Name -> Value \cup {Short, NoValue}]
    BY <1>6 DEF Rotate, BrokerInv, TypeOK
  <2> QED
    BY <2>1 DEF BrokerInv, TypeOK, SlotsAreReturned, Resolved, Cleared,
       ApprovalKey, FixedOnly, SetupInv, promptVars, runVars, serveVars
<1> QED
  BY <1>1, <1>2, <1>3, <1>4, <1>5, <1>6, Zenon DEF Next

LEMMA BrokerInvariant == Spec => []BrokerInv
BY InitBroker, NextBroker, PTL DEF Spec

\* The broker's variables keep their types; above all, the channels of the queue
\* and of the runs are never filled beyond nor drained below their bounds.
THEOREM BrokerTypeCorrect == Spec => []TypeOK
<1>1. BrokerInv => TypeOK
  BY DEF BrokerInv
<1> QED
  BY <1>1, BrokerInvariant, PTL

\* withPrompt and run give back every place on every path, and the owner is asked
\* one thing at a time.
THEOREM SlotsReturned == Spec => []SlotsAreReturned
<1>1. BrokerInv => SlotsAreReturned
  BY DEF BrokerInv
<1> QED
  BY <1>1, BrokerInvariant, PTL

\* run: what runs has been approved, as Verify found it, with edits at any time.
THEOREM RunsApproved == Spec => []RunsAreApproved
<1>1. BrokerInv => RunsAreApproved
  <2> SUFFICES ASSUME BrokerInv, NEW r \in Request, group[r] # "none"
               PROVE  \/ job[r].verified = job[r].agreed
                      \/ /\ <<job[r].verified, job[r].names>> \in always
                         /\ job[r].verified \notin Project
    BY DEF RunsAreApproved
  <2>1. /\ phase[r] \in {"running", "terminating", "reap"}
        /\ phase[r] \in RunPhases \cup {"slot"} =>
             job[r].agreed = job[r].content \/ <<job[r].content, job[r].names>> \in always
        /\ phase[r] \in RunPhases \ {"verify"} => job[r].verified = job[r].content
    BY DEF BrokerInv, Cleared, ApprovalKey
  <2>2. /\ job[r].verified = job[r].content
        /\ job[r].agreed = job[r].content \/ <<job[r].content, job[r].names>> \in always
    BY <2>1 DEF RunPhases
  <2>3. \A k \in always : k[1] \notin Project
    BY DEF BrokerInv, FixedOnly
  <2> QED
    BY <2>2, <2>3
<1> QED
  BY <1>1, BrokerInvariant, PTL

\* run: what is injected can be redacted, with rotations at any time.
THEOREM InjectedRedactable == Spec => []InjectedIsRedactable
<1>1. BrokerInv => InjectedIsRedactable
  BY DEF BrokerInv, Cleared, InjectedIsRedactable
<1> QED
  BY <1>1, BrokerInvariant, PTL

\* ExecRunner: no process with secrets outlives its run.
THEOREM NothingOutlives == Spec => []NothingOutlivesItsRun
<1>1. BrokerInv => NothingOutlivesItsRun
  BY DEF BrokerInv, Cleared, NothingOutlivesItsRun
<1> QED
  BY <1>1, BrokerInvariant, PTL

\* applySetup makes at most one vault, and none on a device that has one.
THEOREM OneVaultOnly == Spec => []OneVault
<1>1. BrokerInv => OneVault
  BY DEF BrokerInv, SetupInv, OneVault, BeforeVault
<1> QED
  BY <1>1, BrokerInvariant, PTL
=============================================================================

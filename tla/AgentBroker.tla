---------------------------- MODULE AgentBroker ----------------------------
(***************************************************************************)
(* The agent broker: `envbank agent-broker` in the owner's terminal serves *)
(* agents over a socket, one request per connection and one goroutine per  *)
(* connection.  It stores what the owner types, runs commands the owner    *)
(* approves with secrets in their environment, and sets up a new vault.    *)
(*                                                                         *)
(* A step is what happens between two things other goroutines, the owner,  *)
(* the agent or the disk can see: a call of the vault, a look at the       *)
(* command's files, a channel operation, an answer, a signal.              *)
(***************************************************************************)
EXTENDS Naturals, FiniteSets

CONSTANTS
  Request,         \* connections
  Name,            \* names of secrets
  Content,         \* what ApprovalKey hashes of a command, apart from the names
  Project,         \* contents that run project code: not Command.AlwaysAllowed
  NoContent,
  Value,           \* values of MinValueBytes to MaxValueBytes
  Short,           \* a value of fewer bytes
  NoValue,
  Nobody,
  QueuedPrompts,   \* Limits.QueuedPrompts
  ConcurrentRuns   \* Limits.ConcurrentRuns

ASSUME BrokerAssumption ==
  /\ IsFiniteSet(Request)
  /\ Project \subseteq Content
  /\ NoContent \notin Content
  /\ Short \notin Value
  /\ NoValue \notin Value \cup {Short}
  /\ Nobody \notin Request
  /\ QueuedPrompts \in Nat \ {0}
  /\ ConcurrentRuns \in Nat \ {0}

VARIABLES
  vaultSet,   \* is b.vault set?  Not so at first in setup mode
  vault,      \* the values by name, shared with the owner's other devices
  created,    \* vaults whose device identity setup has saved here
  file,       \* what the command's files hold now
  always,     \* b.always
  phase,      \* where each request's goroutine is
  job,        \* its request and local variables
  gone,       \* requests whose agent has hung up
  queued,     \* occupancy of the channel b.queued
  promptMu,   \* holder of b.promptMu
  runs,       \* occupancy of the channel b.runs
  group,      \* the process group of each request's command
  listening,  \* does Serve still accept?
  stopping,   \* is Serve's context done?
  locked      \* has the command closed the broker, wiped the key and returned?

vaultVars == <<vaultSet, vault, created>>
serveVars == <<listening, stopping, locked>>
vars == <<vaultVars, file, always, phase, job, gone, queued, promptMu, runs,
          group, serveVars>>

Operations == {"names", "request", "run", "setup"}

\* Phases in which the prompt is held and it is the owner's turn.
OwnerPhases == {"decide", "enter", "confirm", "reuse", "passphrase", "recovery"}

\* Phases in which the prompt is held; in the others of withPrompt a place in
\* the queue is.
PromptPhases == OwnerPhases \cup {"plan", "store", "prepare", "create", "export"}

RunPhases == {"verify", "fresh", "start", "running", "terminating", "reap"}

Phases ==
  {"idle", "handle", "exists", "resolve", "values", "lookup", "enqueue",
   "queued", "slot"} \cup PromptPhases \cup RunPhases

Job ==
  [op : Operations, names : SUBSET Name, exists : BOOLEAN,
   content : Content \cup {NoContent}, \* ResolveCommand's result: cmd
   agreed : Content \cup {NoContent},  \* what the owner allowed for this request
   verified : Content \cup {NoContent},\* what Verify found
   values : [Name -> Value \cup {Short, NoValue}]]

NoValues == [n \in Name |-> NoValue]

NewJob(op, names) ==
  [op |-> op, names |-> names, exists |-> FALSE, content |-> NoContent,
   agreed |-> NoContent, verified |-> NoContent, values |-> NoValues]

NoJob == NewJob("names", {})

TypeOK ==
  /\ vaultSet \in BOOLEAN
  /\ vault \in [Name -> Value \cup {Short, NoValue}]
  /\ created \in Nat
  /\ file \in Content
  /\ always \subseteq Content \X SUBSET Name
  /\ phase \in [Request -> Phases]
  /\ job \in [Request -> Job]
  /\ gone \subseteq Request
  /\ queued \in 0..QueuedPrompts
  /\ promptMu \in Request \cup {Nobody}
  /\ runs \in 0..ConcurrentRuns
  /\ group \in [Request -> {"none", "alive", "orphans"}]
  /\ {listening, stopping, locked} \subseteq BOOLEAN

\* The broker starts with an unlocked vault, or in setup mode without one.
Init ==
  /\ vaultSet \in BOOLEAN
  /\ vault = NoValues
  /\ created = 0
  /\ file \in Content
  /\ always = {}
  /\ phase = [r \in Request |-> "idle"]
  /\ job = [r \in Request |-> NoJob]
  /\ gone = {}
  /\ queued = 0
  /\ promptMu = Nobody
  /\ runs = 0
  /\ group = [r \in Request |-> "none"]
  /\ listening = TRUE
  /\ stopping = FALSE
  /\ locked = FALSE

-----------------------------------------------------------------------------
\* ctx.Err() != nil, for the context of a connection.
Cancelled(r) == r \in gone \/ stopping

At(r, p) == phase[r] = p

Go(r, p) ==
  /\ phase' = [phase EXCEPT ![r] = p]
  /\ UNCHANGED gone

\* The goroutine writes its response and ends, and the connection is closed.
Respond(r) ==
  /\ phase' = [phase EXCEPT ![r] = "idle"]
  /\ job' = [job EXCEPT ![r] = NoJob]
  /\ gone' = gone \ {r}

\* The deferred receive and unlock of withPrompt.
LeavePrompt ==
  /\ queued' = queued - 1
  /\ promptMu' = Nobody

\* Mutant: the place is not given back.
KeepRun == UNCHANGED runs

\* The deferred receive of run.
LeaveRun == runs' = runs - 1

promptVars == <<queued, promptMu>>
runVars == <<runs, group>>

-----------------------------------------------------------------------------
\* Serve and handleConn: a connection is accepted and its request read.
Connect(r, op, names) ==
  /\ listening
  /\ At(r, "idle")
  /\ CASE op = "run" -> names # {}
       [] op = "request" -> Cardinality(names) = 1
       [] OTHER -> names = {}
  /\ Go(r, "handle")
  /\ job' = [job EXCEPT ![r] = NewJob(op, names)]
  /\ UNCHANGED <<vaultVars, file, always, promptVars, runVars, serveVars>>

\* The agent hangs up, which cancels its request.  Once a command is approved
\* or a value accepted, only the run looks at that, which may time out anyway.
HangUp(r) ==
  /\ phase[r] \notin RunPhases \cup {"idle", "slot", "store", "export"}
  /\ ~Cancelled(r)
  /\ gone' = gone \cup {r}
  /\ UNCHANGED <<vaultVars, file, always, phase, job, promptVars, runVars,
                 serveVars>>

\* Handle: an invalid request is refused, a valid one goes to its operation.
Handle(r) ==
  /\ At(r, "handle")
  /\ \/ Respond(r)
     \/ /\ job[r].op = "setup"
        /\ ~vaultSet
        /\ Go(r, "enqueue")
        /\ UNCHANGED job
     \/ /\ vaultSet
        /\ \/ job[r].op = "request" /\ Go(r, "exists")
           \/ job[r].op = "run" /\ Go(r, "resolve")
        /\ UNCHANGED job
  /\ UNCHANGED <<vaultVars, file, always, promptVars, runVars, serveVars>>

\* ingest: does the secret exist?  The vault may fail.
Exists(r) ==
  /\ At(r, "exists")
  /\ \/ Respond(r)
     \/ /\ Go(r, "enqueue")
        /\ job' = [job EXCEPT ![r].exists =
                     \A n \in job[r].names : vault[n] # NoValue]
  /\ UNCHANGED <<vaultVars, file, always, promptVars, runVars, serveVars>>

-----------------------------------------------------------------------------
\* withPrompt: a place in the queue, or busy.
Enqueue(r) ==
  /\ At(r, "enqueue")
  /\ IF queued < QueuedPrompts
       THEN /\ queued' = queued + 1
            /\ Go(r, "queued")
            /\ UNCHANGED <<job, promptMu>>
       ELSE /\ Respond(r)
            /\ UNCHANGED promptVars
  /\ UNCHANGED <<vaultVars, file, always, runVars, serveVars>>

\* withPrompt: the owner's turn comes, unless the agent has gone meanwhile.
LockPrompt(r) ==
  /\ At(r, "queued")
  /\ promptMu = Nobody
  /\ IF Cancelled(r)
       THEN Respond(r) /\ LeavePrompt
       ELSE /\ promptMu' = r
            /\ \/ job[r].op = "run" /\ Go(r, "decide")
               \/ job[r].op = "request" /\ Go(r, "enter")
               \/ job[r].op = "setup" /\ Go(r, "plan")
            /\ UNCHANGED <<job, queued>>
  /\ UNCHANGED <<vaultVars, file, always, runVars, serveVars>>

\* ReadSecret: the owner declines (NoValue), also the replacement of a secret
\* that is known to exist, or types a value.
EnterSecret(r, v) ==
  /\ At(r, "enter")
  /\ IF v \in Value /\ ~Cancelled(r)
       THEN /\ Go(r, "store")
            /\ job' = [job EXCEPT ![r].values =
                         [n \in Name |-> IF n \in job[r].names THEN v ELSE NoValue]]
            /\ UNCHANGED promptVars
       ELSE Respond(r) /\ LeavePrompt
  /\ UNCHANGED <<vaultVars, file, always, runVars, serveVars>>

\* Vault.Store: it writes whatever revision it finds, or fails.
Store(r) ==
  /\ At(r, "store")
  /\ \/ vault' = [n \in Name |->
                    IF n \in job[r].names THEN job[r].values[n] ELSE vault[n]]
     \/ UNCHANGED vault
  /\ Respond(r)
  /\ LeavePrompt
  /\ UNCHANGED <<vaultSet, created, file, always, runVars, serveVars>>

-----------------------------------------------------------------------------
ApprovalKey(r) == <<job[r].content, job[r].names>>

\* run: ResolveCommand refuses the command (its arguments, its directory, a
\* program that may not be approved, a file it cannot read) or fixes what it is.
Resolve(r) ==
  /\ At(r, "resolve")
  /\ \/ Respond(r)
     \/ /\ Go(r, "values")
        /\ job' = [job EXCEPT ![r].content = file]
  /\ UNCHANGED <<vaultVars, file, always, promptVars, runVars, serveVars>>

\* Every named secret exists and is long enough to be redacted.
Redactable(r) == \A n \in job[r].names : vault[n] \in Value

\* run: a first look at the values, before the owner is asked.
CheckValues(r) ==
  /\ At(r, "values")
  /\ \/ Respond(r)
     \/ /\ Redactable(r)
        /\ Go(r, "lookup")
        /\ UNCHANGED job
  /\ UNCHANGED <<vaultVars, file, always, promptVars, runVars, serveVars>>

\* run: is the command approved already?
LookUp(r) ==
  /\ At(r, "lookup")
  /\ Go(r, IF ApprovalKey(r) \in always THEN "slot" ELSE "enqueue")
  /\ UNCHANGED <<vaultVars, file, always, job, promptVars, runVars, serveVars>>

\* ApproveRun: no, once, or always, which is taken as once for project code.
Decide(r, decision) ==
  /\ At(r, "decide")
  /\ LeavePrompt
  /\ IF decision = "deny" \/ Cancelled(r)
       THEN Respond(r) /\ UNCHANGED always
       ELSE /\ Go(r, "slot")
            /\ job' = [job EXCEPT ![r].agreed = job[r].content]
            /\ always' =
                 IF decision = "always" /\ job[r].content \notin Project
                   THEN always \cup {ApprovalKey(r)}
                   ELSE always
  /\ UNCHANGED <<vaultVars, file, runVars, serveVars>>

RoomToRun == runs < ConcurrentRuns

\* run: one of the places for commands, or busy.
TakeSlot(r) ==
  /\ At(r, "slot")
  /\ IF RoomToRun
       THEN /\ runs' = runs + 1
            /\ Go(r, "verify")
            /\ UNCHANGED job
       ELSE Respond(r) /\ UNCHANGED runs
  /\ UNCHANGED <<vaultVars, file, always, promptVars, group, serveVars>>

\* Mutant: the command is resolved again but not compared.
Resolvable(r) == r \in Request

\* Verify: the files are as they were when the command was resolved.
Unaltered(r) == file = job[r].content

Verify(r) ==
  /\ At(r, "verify")
  /\ \/ Respond(r) /\ LeaveRun
     \/ /\ Unaltered(r)
        /\ Go(r, "fresh")
        /\ job' = [job EXCEPT ![r].verified = file]
        /\ UNCHANGED runs
  /\ UNCHANGED <<vaultVars, file, always, promptVars, group, serveVars>>

\* run: the values to inject, as they are now.  The vault may fail.
Fresh(r) ==
  /\ At(r, "fresh")
  /\ \/ Respond(r) /\ LeaveRun
     \/ /\ Redactable(r)
        /\ Go(r, "start")
        /\ job' = [job EXCEPT ![r].values =
                     [n \in Name |-> IF n \in job[r].names THEN vault[n] ELSE NoValue]]
        /\ UNCHANGED runs
  /\ UNCHANGED <<vaultVars, file, always, promptVars, group, serveVars>>

-----------------------------------------------------------------------------
\* ExecRunner.Run: the command starts, in a process group of its own.
Start(r) ==
  /\ At(r, "start")
  /\ \/ Respond(r) /\ LeaveRun /\ UNCHANGED group
     \/ /\ Go(r, "running")
        /\ group' = [group EXCEPT ![r] = "alive"]
        /\ UNCHANGED <<job, runs>>
  /\ UNCHANGED <<vaultVars, file, always, promptVars, serveVars>>

\* The command ends, and may leave processes of its group behind.
Exit(r) ==
  /\ phase[r] \in {"running", "terminating"}
  /\ Go(r, "reap")
  /\ \E left \in {"none", "orphans"} : group' = [group EXCEPT ![r] = left]
  /\ UNCHANGED <<vaultVars, file, always, job, promptVars, runs, serveVars>>

\* The run's context is done, by timeout or cancelled: SIGTERM, which a
\* command may ignore.
Interrupt(r) ==
  /\ At(r, "running")
  /\ Go(r, "terminating")
  /\ UNCHANGED <<vaultVars, file, always, job, promptVars, runVars, serveVars>>

\* Mutant: a command that ignores SIGTERM is waited for.
KillNever(r) == FALSE /\ UNCHANGED vars

\* Three seconds later: SIGKILL.
Kill(r) ==
  /\ At(r, "terminating")
  /\ Go(r, "reap")
  /\ group' = [group EXCEPT ![r] = "none"]
  /\ UNCHANGED <<vaultVars, file, always, job, promptVars, runs, serveVars>>

\* Mutant: the group is left alone when the command has ended by itself.
LeaveGroup(r) == r \in Request /\ UNCHANGED group

\* Whatever is left in the group is killed.
KillGroup(r) == group' = [group EXCEPT ![r] = "none"]

\* The end of Run and of run: the output is redacted and returned.
Reap(r) ==
  /\ At(r, "reap")
  /\ KillGroup(r)
  /\ Respond(r)
  /\ LeaveRun
  /\ UNCHANGED <<vaultVars, file, always, promptVars, serveVars>>

-----------------------------------------------------------------------------
\* Mutant: the check before queueing is trusted.
SetUpOrNot == vaultSet \in BOOLEAN

\* applySetup, once its turn has come: still without a vault?
NotSetUp == ~vaultSet

\* applySetup and Apply up to the owner's confirmation: the plan may be refused.
Plan(r) ==
  /\ At(r, "plan")
  /\ \/ Respond(r) /\ LeavePrompt
     \/ /\ NotSetUp
        /\ Go(r, "confirm")
        /\ UNCHANGED <<job, promptVars>>
  /\ UNCHANGED <<vaultVars, file, always, runVars, serveVars>>

\* The owner says yes in one phase of Apply and the next one begins, or the
\* setup ends.
Consent(r, p, yes, q) ==
  /\ At(r, p)
  /\ IF yes /\ ~Cancelled(r)
       THEN Go(r, q) /\ UNCHANGED <<job, promptVars>>
       ELSE Respond(r) /\ LeavePrompt
  /\ UNCHANGED <<vaultVars, file, always, runVars, serveVars>>

\* Apply: ConfirmPlan, for the plan and for a server that already answers.
Confirm(r, yes) == Consent(r, "confirm", yes, "prepare")

Reuse(r, yes) == Consent(r, "reuse", yes, "passphrase")

\* Apply: the directories and the service; the owner must confirm the use of a
\* server that already answers; any step may fail.
Prepare(r) ==
  /\ At(r, "prepare")
  /\ \/ Respond(r) /\ LeavePrompt
     \/ \E p \in {"reuse", "passphrase"} :
          Go(r, p) /\ UNCHANGED <<job, promptVars>>
  /\ UNCHANGED <<vaultVars, file, always, runVars, serveVars>>

\* Apply: the passphrase of the new vault.
NewPassphrase(r, given) == Consent(r, "passphrase", given, "create")

\* Apply: createVaultDevice makes the vault and saves the device's identity.  A
\* failure between the two leaves a vault on the server that no device can open.
Create(r) ==
  /\ At(r, "create")
  /\ \/ Respond(r) /\ LeavePrompt /\ UNCHANGED created
     \/ /\ created' = created + 1
        /\ Go(r, "recovery")
        /\ UNCHANGED <<job, promptVars>>
  /\ UNCHANGED <<vaultSet, vault, file, always, runVars, serveVars>>

\* applySetup: Apply returned a vault, complete or not, and it is served.
Serves(r) ==
  /\ vaultSet' = TRUE
  /\ Respond(r)
  /\ LeavePrompt

\* Apply: the recovery passphrase, or the vault is served without an export.
RecoveryPassphrase(r, given) ==
  /\ At(r, "recovery")
  /\ IF given /\ ~Cancelled(r)
       THEN Go(r, "export") /\ UNCHANGED <<vaultSet, job, promptVars>>
       ELSE Serves(r)
  /\ UNCHANGED <<vault, created, file, always, runVars, serveVars>>

\* Apply: recovery_export and write_layout, each of which may fail.
Export(r) ==
  /\ At(r, "export")
  /\ Serves(r)
  /\ UNCHANGED <<vault, created, file, always, runVars, serveVars>>

-----------------------------------------------------------------------------
\* A signal, the idle lock or the maximal lifetime ends Serve's context.
Stop ==
  /\ ~stopping
  /\ ~locked
  /\ stopping' = TRUE
  /\ UNCHANGED <<vaultVars, file, always, phase, job, gone, promptVars, runVars,
                 listening, locked>>

\* The listener is closed some time after that, or Accept fails by itself.
CloseListener ==
  /\ listening
  /\ listening' = FALSE
  /\ UNCHANGED <<vaultVars, file, always, phase, job, gone, promptVars, runVars,
                 stopping, locked>>

\* Serve has waited for every connection; agentBrokerCommand returns.
Lock ==
  /\ ~listening
  /\ ~locked
  /\ \A r \in Request : At(r, "idle")
  /\ locked' = TRUE
  /\ always' = {}
  /\ UNCHANGED <<vaultVars, file, phase, job, gone, promptVars, runVars,
                 listening, stopping>>

\* The agent, or anybody, edits the command's files.
Edit(content) ==
  /\ file' = content
  /\ UNCHANGED <<vaultVars, always, phase, job, gone, promptVars, runVars,
                 serveVars>>

\* Another device of the owner sets, rotates or removes a secret.
Rotate(n, v) ==
  /\ vaultSet
  /\ vault' = [vault EXCEPT ![n] = v]
  /\ UNCHANGED <<vaultSet, created, file, always, phase, job, gone, promptVars,
                 runVars, serveVars>>

-----------------------------------------------------------------------------
\* What the goroutine of a request does by itself.
Step(r) ==
  \/ Handle(r) \/ Exists(r) \/ Enqueue(r) \/ LockPrompt(r) \/ Store(r)
  \/ Resolve(r) \/ CheckValues(r) \/ LookUp(r) \/ TakeSlot(r) \/ Verify(r)
  \/ Fresh(r) \/ Start(r) \/ Interrupt(r) \/ Kill(r) \/ Reap(r)
  \/ Plan(r) \/ Prepare(r) \/ Create(r) \/ Export(r)

\* What the owner answers.
Owner(r) ==
  \/ \E v \in Value \cup {Short, NoValue} : EnterSecret(r, v)
  \/ \E decision \in {"deny", "once", "always"} : Decide(r, decision)
  \/ \E yes \in BOOLEAN :
       \/ Confirm(r, yes)
       \/ Reuse(r, yes)
       \/ NewPassphrase(r, yes)
       \/ RecoveryPassphrase(r, yes)

Next ==
  \/ \E r \in Request :
       \/ \E op \in Operations, names \in SUBSET Name : Connect(r, op, names)
       \/ HangUp(r)
       \/ Step(r)
       \/ Owner(r)
       \/ Exit(r)
  \/ Stop
  \/ CloseListener
  \/ Lock
  \/ \E content \in Content : Edit(content)
  \/ \E n \in Name, v \in Value \cup {Short, NoValue} : Rotate(n, v)

\* Goroutines are scheduled, vault calls and the disk answer or fail, a run's
\* deadline passes, the listener is closed once the context is done.  Nothing
\* makes an owner answer, an agent hang up or a command end by itself.
Fairness ==
  /\ \A r \in Request : WF_vars(Step(r))
  /\ WF_vars(stopping /\ CloseListener)
  /\ WF_vars(Lock)

Spec == Init /\ [][Next]_vars /\ Fairness

-----------------------------------------------------------------------------
\* run: a command that runs was found by Verify to be what the owner allowed for
\* this very request, or it is a fixed program the owner always allows with these
\* secrets.  Edits before, while and after the owner is asked change nothing.
RunsAreApproved ==
  \A r \in Request :
    group[r] # "none" =>
      \/ job[r].verified = job[r].agreed
      \/ /\ <<job[r].verified, job[r].names>> \in always
         /\ job[r].verified \notin Project

\* run: each value in a command's environment is long enough to be redacted from
\* its output, although secrets are rotated while the owner is asked.
InjectedIsRedactable ==
  \A r \in Request :
    group[r] # "none" => \A n \in job[r].names : job[r].values[n] \in Value

\* ExecRunner: no process of a command's group, which was given secrets, is left
\* when its request has been answered, and so none when the broker has locked.
NothingOutlivesItsRun ==
  \A r \in Request : group[r] # "none" => phase[r] \in {"running", "terminating", "reap"}

\* withPrompt and run: the owner is asked one thing at a time, and the places in
\* the queue and among the runs are taken by the requests that use them only.
SlotsAreReturned ==
  /\ \A r \in Request : phase[r] \in PromptPhases <=> promptMu = r
  /\ queued = Cardinality({r \in Request : phase[r] \in PromptPhases \cup {"queued"}})
  /\ runs = Cardinality({r \in Request : phase[r] \in RunPhases})

\* applySetup: however many setups are proposed at once, one device identity is
\* saved at most, and none when the device has a vault.
OneVault ==
  /\ created <= 1
  /\ \A r \in Request : phase[r] \in {"confirm", "prepare", "reuse", "passphrase", "create"}
                          => ~vaultSet /\ created = 0

AskingOwner == \E r \in Request : phase[r] \in OwnerPhases

\* Serve and agentBrokerCommand: after Ctrl-C, the idle lock or the end of its
\* lifetime the broker locks, whatever agents and commands do; only an owner who
\* leaves a question open for ever prevents it.
LocksUnlessUnanswered ==
  <>stopping => (<>locked \/ <>[]AskingOwner)
=============================================================================

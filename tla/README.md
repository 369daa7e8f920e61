# EnvBank: a TLA+ verification project

EnvBank keeps secrets in an end-to-end encrypted vault.  Devices sign every
request; a small service stores ciphertexts; command-line tools prepare
bundles of secrets and roll them out to providers.  This directory models the
parts of it whose correctness depends on order, time, failure and concurrency,
checks them with TLC and proves the central properties with TLAPS.

Paths below are relative to the repository.

## 1. Inventory

| Part | State | Operations | What makes it hard | What makes it correct |
|---|---|---|---|---|
| Authentication (`internal/server/server.go`, `protocol.go`) | nonce table | check of device, timestamp, nonce, signature; pruning | replayed, delayed and reordered requests; two windows that must fit | a request runs at most once |
| Enrollment, devices, revocation (`server.go`) | vaults, enrollments, devices | create, request, approve, revoke | concurrent revocations; two approval endpoints | a vault keeps an active device; only approved devices are members |
| Invitations (`invitations.go`) | invitations | create, approve, reject, cancel, failed attempt, expiry | expiry discovered by whichever request comes next; late transitions | an invitation ends once, in time, through someone entitled to |
| Records and objects (`server.go`) | two tables with revisions | read, write, delete at an expected revision | lost updates between clients | the tables are compare-and-set stores |
| Access events (`events.go`) | event rows, sequence | insert, prune by age and by cap, list by cursor | caps, floods, time compared as text | each change is audited; floods do not erase verified history |
| Legacy migration (`migrate.go`) | three files | remove, create, import, rename, rename | a stop between any two steps | nothing is lost; the old vaults are served |
| Schema migration (`migrateSchema`) | `user_version`, tables | five upgrades | several service processes | every table is there when serving, no event is lost |
| Lifecycle lease (`internal/lifecycle/store.go`) | one vault object | acquire, release | expiry, crashes, revisions that start over | one holder at a time |
| Lifecycle operations (`operation.go`, `deployment.go`, `secret.go`, `state.go`) | operation, evidence chain, one-use sink | move, deploy in order, roll back, append | partial activation, rollback that fails | order of activation, evidence is append-only |
| Rollout engine (`internal/rollout`) | operation object, provider's variables | apply, resume | crashes, ambiguous answers, several processes | a journal that is true, no blind repetition |
| Promotion (`cmd/envbank/cloudflare.go`) | operation object, deployed version | promote, check health, roll back | a stop between deployment and checkpoint | the evidence names what is deployed |
| Agent broker (`internal/agentbroker`, `cmd/envbank/agent.go`, `setup_apply.go`) | prompt queue, approvals, runs, process groups, whether there is a vault | request a secret, run a command, set up, lock | edits and rotations while the owner is asked; agents that hang up; commands that ignore signals | only what was allowed runs; nothing outlives its run; the broker locks in the end |
| Redaction (`redact.go`, `runner.go`) | captured output | capture, redact, clip | values that overlap or are cut by the capture limit | no byte of a value in output, nothing else missing untold |
| Bundle preparation (`internal/bundle`) | records, journal, snapshot | generate, import and derive records, publish the snapshot, report status | a stop in the middle, concurrent edits and preparations | what is called prepared is derived from the inputs as they are |
| Protected fill (`pkg/protectedfill`) | gate, lock and latch on disk, operation | observe, run, recover, close | captures under way, crashes and power loss while a page holds a secret | no capture shows a secret |
| Native host (`internal/nativehost`), `generate` and origin commands | records with origins | list, fill, generate, allow and remove origins | several writers of one record | no writer undoes another; a person replaces only what was shown |
| Owner input, extension | sockets, pages | prompts, fills | peers that vanish | one bounded exchange |
| Pairing relay (`internal/pairingmvp`) | lab sessions in memory | offer, claim, retrieve | retries, expiry | one-time retrieval |
| Worker edition (`cloudflare/envbank-worker`) | the service's tables in a durable object | the service's requests | other requests are served while a signature is verified | as for the service |
| Recovery (`cmd/envbank/recovery.go`) | artifact, new vault | export, restore, resume | failures part of the way, a vault in use before it is complete | a restoration that reports success is complete |
| Rotation (`internal/testlab`) | record, operations, lease, state file | start, resume, checkpoints, rollback | faults and stops at every checkpoint | a rollback restores, a revoked credential stays revoked |
| Manifests, cryptography, MCP server, end-to-end tests, website | none or fixtures | - | - | outside this project |

The parts meet in the vault: the lease, the rollout operation, plans,
snapshots and evidence are all encrypted objects, and each of those modules
relies on the revision check of the object table.  `RevisionedStore` is that
promise, stated once; the service and its worker edition are shown to keep it,
and the lease is built on it.

`PROJECT.json` lists every part with its status, and every hazard with its
line.

## 2. Modules

| Module | Models | Built on |
|---|---|---|
| `AccessEvents` | insertion and retention of event rows, the clock | |
| `VaultServer` | every handler of `server.go` and `invitations.go` | `AccessEvents` |
| `RevisionedStore` | abstract: cells written and deleted at an expected revision | |
| `VaultStore` | the refinement mappings: records and objects are such stores | `VaultServer`, `RevisionedStore` |
| `LifecycleLease` | `AcquireLease`, `ReleaseLease` | `RevisionedStore` |
| `EventPager` | `listAccessEvents` and a client that follows its cursors | `AccessEvents` |
| `WorkerService` | every handler of the worker edition, cut at its await | `RevisionedStore` (refined) |
| `SchemaMigration` | `openDatabase` and `migrateSchema` in several processes | |
| `RolloutEngine` | `Apply`, `Resume`, `advance`, `advanceAtomicBatch` | |
| `LegacyMigration` | `Open` with a version-1 JSON file | |
| `CloudflarePromotion` | plan, apply, promote, roll back on one Worker | |
| `EvidenceChain`, `DeployInOrder` | the evidence of a lifecycle operation; its ordered deployment | |
| `RotationLab` | the rotation workflow of `internal/testlab` | |
| `BundlePrepare` | `Prepare` and `Status` | |
| `Recovery` | export, restore, resume | `BundlePrepare` |
| `AgentBroker` | the broker: requests, prompts, runs, setup, locking | |
| `Redaction` | capture, `Redact`, clip | |
| `ProtectedFill` | the observation gate and the coordinator | |
| `NativeHost` | the native host and other writers of a record | `ProtectedFill` |
| `VaultServerProofs` | theorems on the service | `VaultStore`, `EventPager` |
| `MigrationProofs` | theorems on migrations and the worker | `LegacyMigration`, `SchemaMigration`, `WorkerService` |
| `RolloutEngineProofs`, `PromotionProofs` | theorems on rollouts and promotions | `RolloutEngine`, `CloudflarePromotion` |
| `LifecycleProofs` | theorems on deployment, lease, evidence and rotation | `DeployInOrder`, `LifecycleLease`, `EvidenceChain`, `RotationLab` |
| `RecoveryProofs` | theorems on preparation and recovery | `Recovery` |
| `FillProofs` | theorems on protected fill, the native host and redaction | `NativeHost`, `Redaction` |
| `AgentBrokerProofs` | theorems on the broker | `AgentBroker` |
| `MC*` | instances for TLC | |

`MCVaultAuth`, `MCMigration`, `MCLifecycle` and `MCNativeHost` check several
components in one run.  Where these share no state, a variable `part` chooses the
component of a behaviour and the others stay as they are, so that the states
add up and do not multiply.

Definitions whose comment begins with "Mutant:" are not part of a model.  Each
is a plausible mistake in the definition that follows it, used to see that a
property would notice (`mutants` in `PROJECT.json`).

### VaultServer

A variable is a table (`devices`, `enrollments`, `invitations`, `records`,
`objects`, `nonces`, `events`), reduced to one vault and to the columns that
decisions read.  An action is a handler with all its writes: authentication,
the change, the event, the pruning of events and nonces.  A rejection that
leaves an event is an action too.  The service has one connection and opens
each transaction with `BEGIN IMMEDIATE`, so a handler is one step; a
transaction that fails is rolled back and is a stuttering step.

A request is what its headers claim: device, nonce, timestamp, and whether the
signature verifies.  Any request may arrive at any time and any number of
times, so loss, duplication, delay and reordering are all there.  A malformed
nonce is refused as a stale timestamp is, and is not distinguished from it.
`ServeOtherVault` prunes nonces on behalf of other vaults, because the code's
`DELETE` is not restricted to one.

The clock has seconds and a fraction, since event times are stored as
RFC3339Nano text (which drops trailing zeros) and compared as text:
`TextBefore` is that comparison.  A handler reads the clock once, where the
code reads it two or three times microseconds apart.  The clock does not go
back.

`spent` and `replayed` are history variables for `NoReplay`; the field `basis`
of a row is the revision its writer claimed to have seen, for the refinement.

### LifecycleLease

A call is a load and then a put or a delete, two requests with anything in
between.  A load may fail for any reason, which the code treats as "no lease";
a put may take effect and lose its response.  Processes crash and leave their
lease behind.  All processes read one clock: with clocks that disagree no
lease of this kind excludes anybody.  `deletes`, `seenAt` and `crossed` are
history.

### RolloutEngine

One plan, one operation, any number of processes.  `stored` is the operation
object; each process has its copy `mine`, with the revision it expects, and
`pc` is where it is in `advance`.  Each call of `SaveOperation` is one step
with three outcomes: stored, refused, stored with the response lost.  The
provider's side (`variables`, `transit`) is external: a request takes effect
while the process waits, after it gave up or crashed, or never.  Other parties
write the same variables.  A second `Apply` of one plan creates an independent
operation with its own identifier and is not modelled.

What the engine tells apart of an adapter is a constant:

| Constant | Code | Railway | Cloudflare |
|---|---|---|---|
| `Retriable` | `retriableWrite(capabilities)` | TRUE | FALSE |
| `Masked` | `Inspect` reports presence and absence | FALSE | FALSE |
| `Attests` | `LastWriteKey` is reported | FALSE | FALSE |
| `Atomic` | `AtomicBatchAdapter` | FALSE | TRUE |
| `Validates` | `capabilities.Validate` | TRUE | TRUE |
| `Classifies` | "safe" and "never" imply no effect | TRUE | FALSE |

Cloudflare's `Inspect` lists only names that are present; a name that is not
listed is unknown to `reconcileAction`.  Its `request` calls a lost connection
safe to retry (`api.go:334`).

`stale` holds what has moved since the plan was made: the snapshot, which
`ValidateSnapshot` checks in `Apply` and `Resume`, or a record, which
`LoadRecord` checks again before each write.  Failures of `Identity`,
`Inspect` and the loads end the call without a change.

`applied` counts effects at the provider (0, 1, "2 or more"), `mistaken`
remembers that an inspection showed a variable absent while a request for it
was on its way or its effect had been undone by someone else.  That outcome is
inherent in the documented rule, so the two duplication properties exclude it.

### LegacyMigration

Three files and a program counter; each system call is a step that may fail,
and the process may stop anywhere.  One process at a time.  `torn` is history.

### AgentBroker

Each connection has a goroutine, which is at one `phase` and carries its request
and local variables in `job`.  Its steps end where another goroutine, the
owner, the agent or the disk can see or change something: a call of the vault,
a look at files, a channel operation, a question.  `queued`, `promptMu` and
`runs` are the two channels and the mutex of `Broker`; `always` is the map of
standing approvals; `group` is the process group of a command.

- What `ApprovalKey` hashes of a command (paths, hashes of files, arguments,
  directory) is one value, `file`, which anybody may change at any time.
  `ResolveCommand` fixes it in `content`, `Verify` compares.  `agreed` and
  `verified` record what the owner allowed and what `Verify` found, for
  `RunsAreApproved`.  A file changed between `Verify` and `exec` is beyond what
  the code can notice, and the property does not claim it.
- A value has an admissible length or is `Short`.  Other devices of the owner
  write the vault too (`Rotate`).
- Cancellation (the agent hangs up, or the broker stops) is noticed where the
  code looks at `ctx.Err()`: when the owner's turn comes and after each answer.
  A terminal read itself is not interrupted.  After the decision to run or to
  store, only the run looks at it again, and a run may time out at any moment
  anyway, so later hang-ups are left out.
- `Apply` of `setup_apply.go` is the phases from `plan` to `export`.  A setup that
  created the vault makes the broker serve it even when the recovery export
  failed.  `createVaultDevice` may fail after the server created the vault;
  `created` counts identities that were saved.
- A process that leaves its group (`setsid`) is not in `group`; the code kills
  groups only.

### EventPager

A client reads pages of the history, each with a limit of its own, while other
requests add events and time passes.  A page adds its own event, prunes, and is
read afterwards, as in `listAccessEvents`.  `remained` is history: the rows that
have been there since the first page.

### WorkerService

The durable object runs JavaScript up to the next `await`.  `authenticate` reads
the device, checks the timestamp and awaits the digest and the signature; the
rest of a handler is not interrupted.  So a request is two steps,
`Authenticate` and the handler, with any other requests in between; `served` is
what a connection carries across.  `reserve` reads the device again and takes
the nonce.  Times are counted in `Ticks` of a second, because the worker stores
whole seconds (`canonicalSecond`) and compares them with a clock that has a
fraction.  `Lag < Ticks` is a timing assumption: the cryptography of one request
takes less than a second.  Without it nonces could be pruned while a request
that was checked long ago is still waiting; the truncation to seconds is what
gives the code that much grace.

### SchemaMigration

A version is the set of things the later code needs of it (`Parts`).  Each
process reads `user_version` once and then runs one transaction per later
version, setting the version as it goes, also back to what another has passed.
A statement that cannot run twice makes its process fail.  Services that are
done record events.

### CloudflarePromotion

`versions` is the Worker's list of uploaded versions, each with the operation
that last set every binding; `deployed` is the live one.  A command is a
sequence of steps: load, inspect, stage or deploy, save.  A command may stop
after each, with or without the effect of its last request.  `rebased`,
`raced` and `forced` are history of the three windows that no check of the code
closes, which the properties name as their exceptions.  The engine's own
checkpoints are in `RolloutEngine`; here an operation is underway until it is
ready.

### EvidenceChain, DeployInOrder, RotationLab

A link of the chain contains its predecessor's digest, so a link stands for the
chain that it ends.  `DeployInOrder` is one workflow: an adapter's error leaves
open whether the call took effect.  `RotationLab` has the state in memory
(`lab`) and the file (`disk`); calls hold one mutex, a checkpoint writes the file,
and the process may stop at any point.  Its two destinations are staged and
activated alike and taken as one.  `before` and `interrupted` are history.

### BundlePrepare and Recovery

A process is at one request of `Prepare` or `Status`: it loads records, then
objects, writes a record, writes the journal, and so on, and reads all again before
it publishes.  A value of a derived record is the tuple of its template's text and
the values it was made from, so that "derived from the inputs as they are" is an
equation.  Each command reads the manifest that `--manifest` names, as the file is
then: `Begin` takes any manifest of `Manifest`, so that an edited manifest is
simply another one, which a process may have while others have older ones, and
which may be gone back to.  Manifests have records and templates of their own; the
vault keeps the records of all of them, the journal is begun anew when it is of
another manifest (`ResetJournal`), and a snapshot has the revisions and the
history of the records of its own manifest only (`Published`), as
`prepare.go:250` builds it and `snapshot.go:71` demands.
The revision of an object is compared only with the one its writer
last saw; it is kept as the set of holders for whom nothing changed (`fresh`).

`Recovery` exports records and objects one after the other, replaces the vault,
and uploads what is missing.  Stops and resumptions are possible anywhere, and
other commands may use the new vault meanwhile.  What `validateRecoveryTarget`
accepts as restored is the comparison in `Validate`.

### ProtectedFill and NativeHost

A controller's gate has the lock (`holder`), the latch file (`latch`) and whether
the latch would survive a power loss (`durable`).  `Observe` is three steps:
begin, take the capture, return it; `Run` and `Recover` go through the phases in
`Operations`.  Controllers are killed or closed and new ones opened at any time.
`exposed` is the contexts that hold a secret.

In `NativeHost`, hosts and commands read a record, decide, and put the whole
record back at the revision they read.  `intended` is history: what the
decisions taken together call for.  A fill of a controller reads the same
record, which is where the two modules meet.

### Redaction

One stream of one command.  The command writes pieces of any length; `Write` is
`capture.Write`.  `Search` finds all occurrences of the needles and, if the
capture was cut, the longest beginning of each needle at its end; the loop of
`Redact` is a step per iteration (`StartSpan`, `Merge`, `Emit`), with ties of
the unstable sort left open; `Return` is its end and `clip`.  Positions of bytes
are kept instead of bytes, and a label counts as one byte.  Which encodings of a
value are needles is a constant.  A value that the command did not print in
full (it was killed half-way) is not an occurrence, and the code does not claim
to catch it.

## 3. Runs

Most properties are safety properties and need no fairness: a client may stop at
any time, and nothing in the service promises progress to others.  Two are
liveness properties.

- `LocksUnlessUnanswered` of `AgentBroker`.  Its fairness is weak fairness of what
  each goroutine does by itself (the Go scheduler runs it; vault calls and file
  reads return or fail; a run's context has a deadline and three seconds after it
  comes SIGKILL), of closing the listener once the context is done, and of
  returning from `Serve`.  The owner, the agents and the command are not fair: a
  command may never end by itself, an agent may never hang up, and an owner may
  never answer, which is the one exception the property names.
- `SomeoneServes` of `SchemaMigration`.  Weak fairness of each process's
  migration: `Open` runs it to its end, and the busy timeout makes it wait for
  the others' transactions.  No process need start.

Protected fill has no liveness property: `Recover` is never retried by the code
itself.

Deadlock is checked where some request, call or restart is always possible.  It
is not in `migration`, `prepare`, `promotion` and `lifecycle`, where a workflow
ends for good (a deployment that is done, a vault that is restored) or the
bound on time, versions or writes leaves nothing to do.

| Run | Shows |
|---|---|
| `auth` | a request never runs twice, a vault keeps an active device, and floods do not push out verified events, with two devices, one nonce, four seconds, a window of one second, a retention of two, and event rows at their caps; a client that pages through the history gets every lasting row once |
| `invitations` | three devices, two attempts, a lifetime of one second: tables agree, ends are right and final |
| `data` | three devices, one record, one object, two ciphertexts, two revisions: changes are made by active devices and audited, both tables refine `RevisionedStore` |
| `migration` | the legacy migration with failures and restarts at every step; three services that migrate one schema; and the worker edition with two requests in the air: replays, members and data |
| `prepare` | two processes prepare and report, each with either of two manifests, while records change; export, loss, interrupted restoration |
| `prepare_restored` (violation) | after a restoration, revisions match by coincidence and a stale bundle passes for prepared |
| `rollout_once` | provider without idempotent writes, with inspection: no blind duplicate, every write journaled |
| `rollout_batch` | atomic batches, unreliable error classes: up to the final status |
| `promotion` | two commands, two operations, one of which may become stale, three versions |
| `lifecycle` | three processes and a lease; three writers of a chain; four destinations; three rotations |
| `broker` | two requests at once, one place to run: approvals, redactable values, process groups, places, one setup, and locking in the end |
| `fill` | two of the hosts and controllers in play, four revisions of the record; and eight bytes of output over two letters, a capture of six, three needles of which one contains another and two overlap |

Several properties are conjunctions of parts that belong to one question and are
named and explained in their module:

| Property | Parts |
|---|---|
| `StoresAreRevisioned` | `RecordsAreRevisioned`, `ObjectsAreRevisioned` |
| `MigrationLosesNothing` | `LegacyIsKept`, `AcknowledgedIsKept`, `ServesMigratedUnlessTorn` |
| `MigrationIsComplete` | `ServesComplete`, `EventsAreKept` |
| `WorkerMembersAgree` | `KeepsActiveDevice`, `InvitationDecides` |
| `StepsAreOfTheMoment` | `ChangesAreOfActive`, `InvitationsEndOnce` |
| `WorkerStoresAreRevisioned` | `WorkerRecordsAreRevisioned`, `WorkerObjectsAreRevisioned` |
| `PreparedIsDerivedUnlessRestored` | `PreparedIsDerived`, `ReportedIsDerived` |
| `DeploymentIsOrderly` | `NoneIsForgotten`, `OrderIsKept` |
| `RotationIsSound` | `RevokedStaysRevoked`, `LeaseIsLive` |
| `GateIsSound` | `ExposedIsLatched`, `OnePrivateOperation` |
| `OutputIsRedacted` | `NothingIsLeaked`, `NothingElseIsTaken`, `SlicesAreValid` |

The type invariants of the modules are stated for the proofs; `auth` to `fill` spend
their properties on the hazards.

### Bounds, and why they are enough

- *Two or three devices.*  Two revoke each other; a third is needed for an
  approver that is revoked, an enrollee and a bystander at once.
- *Time.*  The windows keep the ratio of the code (5 and 10 minutes are 1 and
  2), and the clock runs past the retention, so that each boundary is met from
  both sides.  `NonceRetention >= 2 * TimestampWindow` is an assumption, true of
  the code with equality, and the proof needs no more.
- *Revisions.*  Two suffice for a stale writer, a deletion and a rewrite.
- *Caps of two verified events and one unverified.*  Each class loses rows to its
  cap while the other is full.  The run's clock has whole seconds only.
- *`MaxRevision` of the operation.*  Seven lets `rollout_once` write both
  actions with one failed attempt or one reconciliation; ten lets
  `rollout_batch` finish.  A provider with idempotent writes (`Retriable`, as
  Railway's) is left to the theorems, which hold for every value of the
  constant.  Two processes: the checkpoint is all they share, and the theorems
  cover any number.
- *`MaxStale = 1`.*  One change is enough to stop any call that looks at it.
- *`MaxAcked`, `MaxEvents`* only bound counters.
- *Three migrating services*: one that is behind, one that is ahead of it, and
  one that serves already.
- *The worker*: two connections are two requests whose awaits overlap; a third
  device is needed as for the service.  In the part on members nonces are unique,
  and in the part on data time stands still: what the parts leave out does not
  influence what they keep.
- *One imported and one derived record, two manifests, two revisions.*  The second
  manifest drops the imported record and derives the other one from another
  template.  One change of an input, of a derived record or of the template is
  what makes a preparation stale, and a record is dropped and had again as
  processes prepare with one manifest and the other in turn; a vault that is
  exported is used by one process at a time, with the first manifest.
- *Three versions*: the one at first and one of each operation, or one operation
  staged twice.
- *Three rotations*: a revoked credential, its successor, and an operation that
  is rolled back.
- *Six events for the pager*, with caps of two and one: pages of one row are
  needed to have a cursor whose row is pruned before the next page.
- *Redaction*: every output of up to eight bytes over two letters, in every
  division into writes.
- *Two requests at the broker*, of any kind, one after the other without end: a
  queue in which one waits for the other, one place to run for two commands.  A
  full prompt queue needs a third request; the theorems cover any number of
  requests and any limits.
- Symmetry is used where all processes are alike and no property names one.
  The views of `MCVaultServer` leave out history that the run's properties do not
  read, and event rows, which no handler decides by.

## 4. Proofs

The theorems hold for every value of the constants that satisfies the `ASSUME`
of the modules, for any number of devices, processes, controllers, writers,
records and operations.  They are checked by `tlapm` with Z3, Zenon and LS4.  Each
follows from an inductive invariant; what that adds to the property, and why it
is needed, is said here.

### VaultServerProofs

- **`TypeCorrect`.**  `TypeOK` is not inductive: failed attempts stay within
  their range only because an invitation that is pending has attempts left
  (`PendingHasBudget`).  That is part of
- **`MembershipInv`**, which also says when devices, enrollments and
  invitations of one device may be in which combination.  It is inductive, and
  gives `MembershipCorrect`, `InvitationsCorrect` and, with one lemma per kind of
  step, `EndsFinal`.
- **`LastActiveDevice`.**  A revocation needs two active devices, and a count
  of at least two leaves one: the proof is about the cardinality of `Active`, and
  uses that `Device` is finite.
- **`ReplayProtection`.**  `ReplayInv`: each spent request is `Blocked`, which
  means its nonce row exists and is too young to be pruned while its timestamp
  is fresh, or its timestamp is stale for good.  Pruning, the passage of
  time and revocation (which deletes a device's nonces) keep it.
- **`RecordsRefine`, `ObjectsRefine`, `StoresRefine`.**  The tables implement
  `RevisionedStore`: initial states map to initial states and each step to a
  put, a deletion or a stutter.
- **`FloodIsHarmless`, `ChangesAudited`.**  `HistoryInv`: events are finitely
  many, no two have one sequence number, and each class is within its own cap.
  That is why an unverified event never costs a verified row, and why what a
  transaction has just added survives the pruning of that transaction
  (`NewestStays`: the newest row of a class has no newer one, and caps are
  positive).
- **`EventsListedOnce`.**  `PagerInv`: nothing listed is older than the cursor,
  and of the rows that remain all but those older are listed.  It is a theorem of
  `PagerSpec(maxSec)`, the history and its reader by themselves, for every bound
  on the clock: the other handlers only add events and let time pass, as it does.

### MigrationProofs

- **`LegacyMigrationCorrect`.**  `PlacesInv` says what may be at the three paths,
  `StepInv` what each step of `Open` finds there.  Neither is inductive alone: that a
  database replaces nothing that is lost comes from what the steps before it have
  checked, and that those checks still hold from what may be where.
- **`SchemaMigrationCorrect`.**  `SchemaInv`: a version that was read or written
  stays true however far other services have come, because no transaction takes
  anything away; and before the table of events exists there are none.
- **`WorkerReplayProtection`, `WorkerMembership`, `WorkerStepsOfTheMoment`,
  `WorkerStoresRefine`.**  `WorkerInv` joins who may be a member (`MemberInv`), that
  a verified request is in its await for no longer than `Lag` and was in time
  before it (`ServedInTime`), and that a spent request is kept out by its row or
  by its timestamp for good (`KeptOut`): the row's time is read when the nonce is
  reserved, no earlier than the timestamp was checked, and the row lasts for the
  whole window after that.

### LifecycleProofs

- **`DeploymentOrderly`.**  `DeployInv`: what is live is determined by the loop's
  variable until the first failure, and from then on the destinations that remain
  to be rolled back are an initial segment (`RollingInv`).
- **`LeaseExclusion`.**  `LeaseInv`: what a process that puts or deletes knows of
  the stored lease (`PuttingKnows`, `ReleasingKnows`), provided that nobody deleted
  it in between; and that a lease held is the lease stored (`HeldIsStored`) unless
  a write has used a revision from before a deletion (`crossed`).  That exception is
  in the property, and the code allows it (section 5).
- **`EvidenceGrows`.**  `ChainInv`: what a process found is a prefix of the stored
  chain, whatever others have added since.
- **`RotationSound`, `RollbackRestoresPrevious`.**  `RotationInv` says the same of
  memory and of disk (`StateOK`: which operation holds the lease, whose
  credential is current, what a revoked one is not), and relates the two
  (`DiskOK`), since a stop replaces the one by the other.

### FillProofs

- **`GateSound`.**  `GateInv`: the lock's holder is the only one whose gate is
  not released, a private operation has the latch on disk before any page shows a
  secret, and no gate opens unblocked while one does.
- **`NoSecretPublished`.**  `ObservationInv` adds that a capture that shows a
  secret is outdated or its gate is blocked.
- **`UpdatesAreKept`.**  `RecordInv`: a request that expects the stored revision asks
  for a change of that very record.
- **`OutputRedacted`.**  `RedactionInv`: the capture is the beginning of what was
  printed, and the loop has written what it should have up to `pos`, with the
  spans that are left covering the rest.  No induction over data is needed,
  because the model has the loop's iterations as steps.

### PromotionProofs

- **`RollbackTakesEffect`, `PromotionKeepsOthers`, `PromotedGivesWay`.**
  `PromotionInv`: each version has one operation (`SingleOwner`), was built on the one
  its plan names (`OwnershipInv`), and contains nothing of a later operation
  (`ContentInv`).  `UndoneInv` is what makes the first of them inductive: from the
  deployed version no rollback leads to a version with the secrets of the
  operation that was undone, which is said with a set of versions that is closed
  under going back (`FreeOf`) and holds the deployed one.

### RolloutEngineProofs

- **`EngineTypeCorrect`, `JournalTrue`, `CommittedStay`.**  `EngineInv` says that
  a process that expects the stored revision holds the stored operation
  (`Behind`), that every copy claims only what happened (`TrueClaims`), and what
  each phase of `advance` may rely on (`Ready`).  `JournalIsTrue` alone is not
  inductive, because what is stored next comes from a copy.  A checkpoint then
  differs from what is stored by one legal change, or is refused.
- **`UnderwayJournaled`, `NoDuplicate`.**  `OnceInv`: a request is awaited by one
  process, or is in transit, or took effect, and only once that is settled may its
  action be pending again.  Both theorems are for adapters that write action by
  action and report as final, or as safe to retry, only what took no effect
  (`~Atomic`, `Classifies`).  Without that the properties are false, not merely
  unproved, and the code asks as much of an adapter.  For a provider with
  idempotent writes (`Retriable`) both properties hold at once, because they claim
  nothing of it.

### RecoveryProofs

- **`RestorationIsExact`.**  `RestoredInv`, on what a restoration has uploaded and
  validated by its step.
- **`EvidenceRetained`.**  An action property of the snapshot's history, from
  `ShapeInv` and what each step does to the snapshot, for any set of manifests.  It
  speaks of the records that the new snapshot's manifest has; of the others a
  snapshot retains nothing (section 5).
- **`PreparedIsRight`.**  `PastInv`: until a restoration replaces the vault there is a
  history `H`, where `H[n][k]` is the value of revision `k` of record `n`, such that
  journal, snapshot and all that any process has read agree with it.  The history
  is a witness and no variable of the model: a step that writes a record extends it
  (`NewHistory`) and what agreed with the shorter one agrees with the longer
  (`Later`).  It is needed because the journal names revisions that may be
  overwritten by the time it is read.

### AgentBrokerProofs

- **`BrokerTypeCorrect`, `SlotsReturned`, `RunsApproved`, `InjectedRedactable`,
  `NothingOutlives`, `OneVaultOnly`.**  `BrokerInv` adds to `TypeOK` and
  `SlotsAreReturned`, which need each other (a channel is received from only by
  someone who holds a place, so it never goes below zero), what a request has
  established by its phase: a resolved command from `values` on (`Resolved`), and
  in the run an approval, a verification and redactable values (`Cleared`); that
  standing approvals are of fixed programs (`FixedOnly`); and who may be where in
  a setup (`SetupInv`).  The counts are handled once, in `CountMoves` and
  `MovesKeepSlots`: a step moves one request between phases.

### What the proofs assume

All assumptions are on constants, are named, and are evaluated by TLC on the
instances.  Most say that limits are naturals and sets are finite.  The others:

- `VaultConstants`, `WorkerConstants`: the nonce retention is at least twice the
  timestamp window, true of the code with equality.
- `WorkerConstants`: `Lag < Ticks`, the cryptography of one request takes less than
  a second.  It is the one assumption on timing; the code compares whole seconds,
  and a request suspended for longer could outlive its own nonce row.
- `BundleConstants`: in each manifest a record is imported or generated or else
  derived, and a derived record refers to bases and to derived records before it,
  which the manifest's validation enforces.
- `PagerConstants`: a page has at least one row (`parseAccessEventPage`).
- `NobodyIsNoController`, `NamesAreNoObjects`: values that the models write side
  by side are different.

### Not proved

- The two liveness properties, `SomeoneServes` and `LocksUnlessUnanswered`, are only
  model-checked: liveness under fairness is out of the prover's reach.
- The type invariants of the other modules are no theorems of their own.  What the
  proofs need of types is part of their inductive invariants: `LeaseInv`,
  `DeployInv` and `PagerInv` contain those of their modules.
- `PreparedIsDerived`, which is false (section 5); `PreparedIsRight` is what holds
  instead.

## 5. Findings

One disagreement between code and documentation is a run that TLC refutes,
`prepare_restored`, described in `PROJECT.json`: a restored vault counts
revisions from 1 again while its journal and snapshot keep those of the lost one.

The following came up too.  Each is either an exception that a property names, or
behaviour that the model has and no property claims otherwise.

- *Service.*  The age cutoff of access events is compared as RFC3339Nano text
  (`TextBefore`), so that rows may go up to a second early.
- *Legacy migration.*  Between the two renames nothing is at the path; a stop
  there makes the next `Open` serve an empty database, with the state in
  `path.json.bak` (`ServesMigratedUnlessTorn`).
- *Schema migration.*  A process that lags behind sets `user_version` back on its
  way; tables stay complete.
- *Worker.*  `DELETE` of a missing object at expected revision 0 succeeds, and a
  revocation does not delete the device's nonces; neither does harm.
- *Lease.*  Releasing deletes the object and the revision starts over, so that a
  process that loaded the lease before meets its old revision again:
  `ExclusionWithinOneLife` excludes just that.
- *Rollout engine.*  `advanceAtomicBatch` stages a batch in flight again on
  `Resume`, without the inspection that `docs/architecture.md:156` describes;
  `NoBlindDuplicate` is therefore checked for single writes only.
- *Promotion.*  What is deployed is read before it is replaced, and Cloudflare's
  API is not asked to compare.  `Stage` builds on what is deployed then, not on
  what the plan names.  `rollback` compares the deployed version only if the
  operation is promoted.  The automatic rollback does not look.  A lost answer to
  a promotion leaves the operation ready, and its next promotion is refused; a
  stale snapshot blocks a rollback by hand.
- *Bundle preparation.*  A derived record that is derived again keeps its
  creation time only: allowed origins and rotation interval are dropped.  A
  manifest that drops or renames a record publishes a snapshot without the
  revisions of that record (`prepare.go:250`), and a later manifest that has it
  again starts with an empty history, although the record is in the vault all the
  while and `docs/bundles.md:56` says that the new snapshot "retains its prior
  revision numbers" when a record advances: `EvidenceIsRetained` claims it of one
  publication and the next, for records that the later one's manifest has.
- *Recovery.*  If the new vault is written to between a stopped restoration and
  its resumption, the resumption is refused for good: it fails closed.
- *Rotation.*  The rollback of an operation that stored nothing puts back the
  previous value, which may be revoked already; a stop between the write of a
  record and the operation's checkpoint makes it store a second credential; an
  operation whose first call was cut short is never resumed and keeps the lease.
- *Protected fill.*  A latch that could not be created leaves a gate that
  `Recover` cannot open again before a restart.
- *Broker.*  Whether a secret exists is read before the request queues, so one
  that appears meanwhile is replaced without the separate question of
  `docs/agent-broker.md:40`.  And the broker stays unlocked as long as the owner
  leaves a question open, because `Serve` waits for every connection and a
  terminal read has no deadline: the exception in `LocksUnlessUnanswered`.

## 6. Not modelled

Cryptography is ideal.  HTTP decoding, formatting, the parsing of manifests and
the website have no state of interest.  The MCP server and tools translate calls.
Owner input is one sequential exchange.  The pairing laboratory is a
demonstration in memory under one mutex, whose transitions are those of the
invitations.  The extension's scripts live in a browser whose behaviour the
repository does not define.  `Operation.Move`, `RevocationAllowed` and the rotation
policies of `internal/lifecycle` are called by tests only.  Access events of the
worker edition repeat those of the service.  A clock that goes back is not
modelled; nothing in the service would bound the replay window then.  Two
processes that migrate one legacy file at once are not modelled.

## 7. Plan

Every safety and action property of the runs that pass is a theorem.  Left are:

1. The type correctness of the remaining modules as theorems of their own.
2. The lease and the operation's checkpoint as clients of `RevisionedStore`, so
   that their arguments on revisions are made once.
3. The conditions under which a lease excludes across lives, as a theorem: that
   nobody's deletion crosses an acquisition.
4. `ChangeRecord` of the rollout composed with the bundle's preparation, instead of a
   record that changes at any time.

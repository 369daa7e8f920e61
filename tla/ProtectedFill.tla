--------------------------- MODULE ProtectedFill ---------------------------
(***************************************************************************)
(* The observation gate and the coordinator of pkg/protectedfill.  A       *)
(* controller that drives a browser for an agent passes every capture      *)
(* through the gate; a protected fill closes the gate, puts a secret into  *)
(* a page, destroys the page's context and opens the gate again.           *)
(*                                                                         *)
(* Several controllers may be started; at any moment one may be killed, or *)
(* the machine lose its power, and pages with secrets be left behind.      *)
(* Every call of the driver and of the file system may fail.               *)
(***************************************************************************)
EXTENDS Naturals, FiniteSets

CONSTANT Controller \* the processes that may open the gate

VARIABLES
  holder,    \* who holds the flock on authority.lock
  latch,     \* is the file "blocked" there?
  durable,   \* would it be after a power loss?
  gate,      \* the Gate object of each controller
  blocked,   \* Gate.blocked
  operation, \* what runs under Gate.operation: Run, or Recover
  capture,   \* an observation of each controller that is under way
  exposed,   \* contexts that hold a secret, by the controller that made them
  published  \* history: has an observation been returned that shows a secret?

fillVars == <<holder, latch, durable, gate, blocked, operation, capture,
              exposed, published>>
diskVars == <<holder, latch, durable>>

Nobody == "nobody"

ASSUME NobodyIsNoController == Nobody \notin Controller

\* A Gate is closed before its lock is released, and remains so.
Gates == {"none", "open", "closed", "released"}

\* The phases of Run, of its deferred clean-up, and of Recover.
Private == {"validating", "reading", "filling", "destroying"}
Operations == Private \cup {"none", "beginning", "resuming", "recovering"}

NoCapture == [state |-> "none", outdated |-> FALSE, shows |-> FALSE]

FillTypeOK ==
  /\ holder \in Controller \cup {Nobody}
  /\ {latch, durable, published} \subseteq BOOLEAN
  /\ gate \in [Controller -> Gates]
  /\ \A c \in Controller : gate[c] \in {"open", "closed"} <=> holder = c
  /\ blocked \in [Controller -> BOOLEAN]
  /\ operation \in [Controller -> Operations]
  /\ capture \in [Controller -> [state : {"none", "begun", "taken"},
                                 outdated : BOOLEAN, shows : BOOLEAN]]
  /\ exposed \subseteq Controller

FillInit ==
  /\ holder = Nobody
  /\ latch = FALSE
  /\ durable = FALSE
  /\ gate = [c \in Controller |-> "none"]
  /\ blocked = [c \in Controller |-> FALSE]
  /\ operation = [c \in Controller |-> "none"]
  /\ capture = [c \in Controller |-> NoCapture]
  /\ exposed = {}
  /\ published = FALSE

-----------------------------------------------------------------------------
\* Gate.epoch advances: observations begun before are outdated.
Outdated(c) ==
  IF capture[c].state = "none" THEN capture
  ELSE [capture EXCEPT ![c].outdated = TRUE]

Goto(c, next) == operation' = [operation EXCEPT ![c] = next]

\* The lock is taken without waiting, and by one process only.
LockIsFree == holder = Nobody

\* OpenGate: a latch left behind blocks the new gate.
OpenGate(c) ==
  /\ gate[c] \in {"none", "released"}
  /\ operation[c] = "none"
  /\ LockIsFree
  /\ holder' = c
  /\ gate' = [gate EXCEPT ![c] = "open"]
  /\ blocked' = [blocked EXCEPT ![c] = latch]
  /\ UNCHANGED <<latch, durable, operation, capture, exposed, published>>

\* Blocked(), also read under the lock by Observe, begin and Recover.
Shut(c) == blocked[c] \/ gate[c] # "open"

-----------------------------------------------------------------------------
(* Observe *)

BeginCapture(c) ==
  /\ capture[c].state = "none"
  /\ ~Shut(c)
  /\ capture' = [capture EXCEPT ![c].state = "begun"]
  /\ UNCHANGED <<diskVars, gate, blocked, operation, exposed, published>>

\* The screen, at some moment of the call, with every page on it.
Capture(c) ==
  /\ capture[c].state = "begun"
  /\ capture' = [capture EXCEPT ![c].state = "taken", ![c].shows = (exposed # {})]
  /\ UNCHANGED <<diskVars, gate, blocked, operation, exposed, published>>

\* Mutant: the epoch is not compared.
MayReturnLate(c) == ~Shut(c)

\* The capture is returned if the gate is open and has not been shut since.
MayReturn(c) == ~Shut(c) /\ ~capture[c].outdated

EndCapture(c) ==
  /\ capture[c].state # "none"
  /\ published' = (published \/ (MayReturn(c) /\ capture[c].shows))
  /\ capture' = [capture EXCEPT ![c] = NoCapture]
  /\ UNCHANGED <<diskVars, gate, blocked, operation, exposed>>

-----------------------------------------------------------------------------
(* Coordinator.Run *)

Run(c) ==
  /\ gate[c] # "none"
  /\ operation[c] = "none"
  /\ Goto(c, "beginning")
  /\ UNCHANGED <<diskVars, gate, blocked, capture, exposed, published>>

\* Mutant: begin returns before the latch is on disk.
LatchWritten == latch' = TRUE /\ durable' \in BOOLEAN

\* The latch is created, and written through to the disk.
LatchSynced == latch' = TRUE /\ durable' = TRUE

\* begin, on a shut gate: nothing was done, and Run asks for recovery.
BeginRefused(c) ==
  /\ operation[c] = "beginning"
  /\ Shut(c)
  /\ Goto(c, "none")
  /\ UNCHANGED <<diskVars, gate, blocked, capture, exposed, published>>

Begin(c) ==
  /\ operation[c] = "beginning"
  /\ ~Shut(c)
  /\ blocked' = [blocked EXCEPT ![c] = TRUE]
  /\ capture' = Outdated(c)
  /\ LatchSynced
  /\ Goto(c, "validating")
  /\ UNCHANGED <<holder, gate, exposed, published>>

\* The latch could not be created, or not be made durable: the gate is blocked,
\* and nothing is resumed.
BeginFails(c) ==
  /\ operation[c] = "beginning"
  /\ ~Shut(c)
  /\ blocked' = [blocked EXCEPT ![c] = TRUE]
  /\ capture' = Outdated(c)
  /\ latch' \in BOOLEAN
  /\ durable' \in {durable, latch'}
  /\ Goto(c, "none")
  /\ UNCHANGED <<holder, gate, exposed, published>>

\* Validate rejects the target, and no context is destroyed; or it is valid.
\* From then on an error, a panic or the end of the context's time leads to
\* the destruction of the target's context.
Validate(c) ==
  /\ operation[c] = "validating"
  /\ Goto(c, "resuming") \/ Goto(c, "reading")
  /\ UNCHANGED <<diskVars, gate, blocked, capture, exposed, published>>

\* The value is read: Close cancels what runs under the gate.
Read(c, found) ==
  /\ operation[c] = "reading"
  /\ \/ found /\ gate[c] = "open" /\ Goto(c, "filling")
     \/ Goto(c, "destroying")
  /\ UNCHANGED <<diskVars, gate, blocked, capture, exposed, published>>

\* FillAndSubmit has put the value into the page, whatever it returns.
Fill(c) ==
  /\ operation[c] = "filling"
  /\ exposed' = exposed \cup {c}
  /\ Goto(c, "destroying")
  /\ UNCHANGED <<diskVars, gate, blocked, capture, published>>

Destroyed(c) == Goto(c, "resuming") /\ exposed' = exposed \ {c}

\* safeDestroy fails, and the gate remains blocked; or every page is gone.
Destroy(c) ==
  /\ operation[c] = "destroying"
  /\ Destroyed(c) \/ (Goto(c, "none") /\ UNCHANGED exposed)
  /\ UNCHANGED <<diskVars, gate, blocked, capture, published>>

\* resume opens the gate once the latch is removed for good.
Resume(c) ==
  /\ operation[c] = "resuming"
  /\ gate[c] = "open"
  /\ blocked[c]
  /\ latch
  /\ latch' = FALSE
  /\ durable' = FALSE
  /\ blocked' = [blocked EXCEPT ![c] = FALSE]
  /\ capture' = Outdated(c)
  /\ Goto(c, "none")
  /\ UNCHANGED <<holder, gate, exposed, published>>

\* Or the gate is closed, or there is no latch to remove, or it cannot be
\* removed, or not for good, in which case it is written again if possible.
ResumeFails(c) ==
  /\ operation[c] = "resuming"
  /\ Goto(c, "none")
  /\ IF gate[c] = "open" /\ blocked[c]
     THEN latch' \in {latch, FALSE} /\ durable' \in {durable, FALSE}
     ELSE UNCHANGED <<latch, durable>>
  /\ UNCHANGED <<holder, gate, blocked, capture, exposed, published>>

-----------------------------------------------------------------------------
(* Coordinator.Recover *)

\* Nothing is done for a gate that is not shut.
Recover(c) ==
  /\ gate[c] # "none"
  /\ operation[c] = "none"
  /\ Shut(c)
  /\ Goto(c, "recovering")
  /\ UNCHANGED <<diskVars, gate, blocked, capture, exposed, published>>

\* Every context is gone, or the gate remains as it is.
DestroyOrphans(c) ==
  /\ operation[c] = "recovering"
  /\ \/ exposed' = {} /\ Goto(c, "resuming")
     \/ Goto(c, "none") /\ UNCHANGED exposed
  /\ UNCHANGED <<diskVars, gate, blocked, capture, published>>

-----------------------------------------------------------------------------
(* Close, and the end of a controller *)

Close(c) ==
  /\ gate[c] = "open"
  /\ gate' = [gate EXCEPT ![c] = "closed"]
  /\ capture' = Outdated(c)
  /\ UNCHANGED <<diskVars, blocked, operation, exposed, published>>

\* Close, or its repetition, finds no operation running.
MayRelease(c) == operation[c] = "none"

Release(c) ==
  /\ gate[c] = "closed"
  /\ MayRelease(c)
  /\ gate' = [gate EXCEPT ![c] = "released"]
  /\ holder' = Nobody
  /\ UNCHANGED <<latch, durable, blocked, operation, capture, exposed, published>>

\* The process is gone, the pages are not.
Gone(S) ==
  /\ gate' = [c \in Controller |-> IF c \in S THEN "none" ELSE gate[c]]
  /\ blocked' = [c \in Controller |-> IF c \in S THEN FALSE ELSE blocked[c]]
  /\ operation' = [c \in Controller |-> IF c \in S THEN "none" ELSE operation[c]]
  /\ capture' = [c \in Controller |-> IF c \in S THEN NoCapture ELSE capture[c]]
  /\ holder' = IF holder \in S THEN Nobody ELSE holder
  /\ UNCHANGED <<exposed, published>>

Kill(c) ==
  /\ gate[c] # "none"
  /\ Gone({c})
  /\ UNCHANGED <<latch, durable>>

PowerLoss ==
  /\ Gone(Controller)
  /\ latch' \in {latch, durable}
  /\ durable' = latch'

FillStep(c) ==
  \/ OpenGate(c)
  \/ BeginCapture(c) \/ Capture(c) \/ EndCapture(c)
  \/ Run(c) \/ BeginRefused(c) \/ Begin(c) \/ BeginFails(c) \/ Validate(c)
  \/ Fill(c) \/ Destroy(c) \/ Resume(c) \/ ResumeFails(c)
  \/ Recover(c) \/ DestroyOrphans(c)
  \/ Close(c) \/ Release(c) \/ Kill(c)

-----------------------------------------------------------------------------
(* Properties *)

\* No capture that shows a page with a secret is ever returned by Observe,
\* whatever the order in which captures, fills, failures, crashes and new
\* controllers come.
NoSecretIsPublished == ~published

\* While a page holds a secret the latch is on the disk, and would be after a
\* power loss; and the gate of whoever holds the lock is shut.
ExposedIsLatched ==
  exposed # {} =>
    /\ latch /\ durable
    /\ \A c \in Controller : gate[c] = "open" => blocked[c]

\* The comment on Close: a new authority never races the private operation of
\* an old one.
OnePrivateOperation ==
  Cardinality({c \in Controller : operation[c] \in Private}) <= 1

\* The gate: one private operation at a time, and while it may have left a page
\* with a secret, whatever crashed, the latch is set and observation shut.
GateIsSound == ExposedIsLatched /\ OnePrivateOperation
=============================================================================

---------------------------- MODULE FillProofs ----------------------------
(***************************************************************************)
(* Where plaintext passes, for any number of controllers, hosts, origins   *)
(* and revisions: the fill gate, the writers of the record it reads, and   *)
(* what of a command's output reaches an agent.                            *)
(***************************************************************************)
EXTENDS NativeHost, Redaction, FiniteSetTheorems, WellFoundedInduction, TLAPS

-----------------------------------------------------------------------------
(* ProtectedFill *)

FillTypes ==
  /\ holder \in Controller \cup {Nobody}
  /\ latch \in BOOLEAN /\ durable \in BOOLEAN
  /\ gate \in [Controller -> Gates]
  /\ blocked \in [Controller -> BOOLEAN]
  /\ operation \in [Controller -> Operations]
  /\ exposed \subseteq Controller

\* The gate that is not released belongs to the holder of the lock.
LockInv == \A c \in Controller : gate[c] \in {"open", "closed"} => holder = c

\* The latch is on disk, now and after a power loss.
Latched == latch = TRUE /\ durable = TRUE

\* A private operation has the lock, its gate is blocked, and the latch is set;
\* no page holds a secret before it fills one, nor when it is about to resume.
OperationInv(c) ==
  /\ operation[c] \in Private =>
       gate[c] \in {"open", "closed"} /\ blocked[c] = TRUE /\ Latched
  /\ operation[c] \in Private => exposed \subseteq {c}
  /\ operation[c] \in Private \ {"destroying"} => exposed = {}
  /\ operation[c] = "resuming" /\ gate[c] \in {"open", "closed"} => exposed = {}

ExposedInv ==
  exposed # {} => Latched /\ \A c \in Controller : gate[c] = "open" => blocked[c] = TRUE

GateInv ==
  /\ FillTypes
  /\ LockInv
  /\ \A c \in Controller : OperationInv(c)
  /\ ExposedInv

\* Steps that leave the lock, the gates and the latch alone, and expose nothing.
LEMMA OperationMoves ==
  ASSUME GateInv, NEW c \in Controller, NEW next \in Operations, Goto(c, next),
         UNCHANGED <<holder, latch, durable, gate, blocked>>,
         exposed' \subseteq exposed,
         next \in Private => operation[c] \in Private,
         next \in Private \ {"destroying"} => operation[c] \in Private \ {"destroying"},
         next = "resuming" => exposed' = {}
  PROVE  GateInv'
<1>1. FillTypes'
  BY DEF GateInv, FillTypes, Goto
<1>2. LockInv' /\ ExposedInv'
  BY DEF GateInv, LockInv, ExposedInv, Latched
<1>3. ASSUME NEW d \in Controller PROVE OperationInv(d)'
  <2>1. CASE d = c
    <3>1. operation'[d] = next
      BY <2>1 DEF GateInv, FillTypes, Goto
    <3> QED
      BY <2>1, <3>1 DEF GateInv, OperationInv, Latched, Private
  <2>2. CASE d # c
    <3>1. operation'[d] = operation[d]
      BY <2>2 DEF GateInv, FillTypes, Goto
    <3> QED
      BY <3>1 DEF GateInv, OperationInv, Latched
  <2> QED
    BY <2>1, <2>2
<1> QED
  BY <1>1, <1>2, <1>3 DEF GateInv

\* Whoever has a gate that is not released is alone with it.
LEMMA OthersAreIdle ==
  ASSUME GateInv, NEW c \in Controller, gate[c] \in {"open", "closed"}
  PROVE  \A d \in Controller \ {c} : operation[d] \notin Private /\ gate[d] \notin {"open", "closed"}
BY DEF GateInv, LockInv, OperationInv

\* The value is found or not.
Reads(c) ==
  /\ operation[c] = "reading"
  /\ Goto(c, "filling") \/ Goto(c, "destroying")
  /\ UNCHANGED <<diskVars, gate, blocked, capture, exposed, published>>

LEMMA ValueIsRead == \A c \in Controller : ReadValue(c) => Reads(c)
BY DEF ReadValue, Read, Reads

LEMMA GateInvStep ==
  ASSUME GateInv, NEW c \in Controller, FillStep(c) \/ Reads(c)
  PROVE  GateInv'
<1>1. CASE OpenGate(c)
  <2>1. /\ holder = Nobody /\ holder' = c /\ operation[c] = "none"
        /\ gate' = [gate EXCEPT ![c] = "open"] /\ blocked' = [blocked EXCEPT ![c] = latch]
        /\ UNCHANGED <<latch, durable, operation, exposed>>
    BY <1>1 DEF OpenGate, LockIsFree
  <2>2. FillTypes'
    BY <2>1 DEF GateInv, FillTypes, Gates
  <2>3. \A d \in Controller : gate[d] \notin {"open", "closed"}
    BY <2>1, NobodyIsNoController DEF GateInv, LockInv
  <2>4. \A d \in Controller : operation[d] \notin Private
    BY <2>3 DEF GateInv, OperationInv
  <2>5. LockInv'
    BY <2>1, <2>3 DEF GateInv, FillTypes, LockInv
  <2>6. ExposedInv'
    BY <2>1, <2>3 DEF GateInv, FillTypes, ExposedInv, Latched
  <2>7. ASSUME NEW d \in Controller PROVE OperationInv(d)'
    BY <2>1, <2>3, <2>4 DEF GateInv, FillTypes, OperationInv
  <2> QED
    BY <2>2, <2>5, <2>6, <2>7 DEF GateInv
<1>2. CASE BeginCapture(c) \/ Capture(c) \/ EndCapture(c)
  <2>1. UNCHANGED <<holder, latch, durable, gate, blocked, operation, exposed>>
    BY <1>2 DEF BeginCapture, Capture, EndCapture, diskVars
  <2> QED
    BY <2>1 DEF GateInv, FillTypes, LockInv, OperationInv, ExposedInv, Latched
<1>3. CASE Run(c)
  BY <1>3, OperationMoves DEF Run, diskVars, Operations, Private
<1>4. CASE BeginRefused(c)
  BY <1>4, OperationMoves DEF BeginRefused, diskVars, Operations, Private
<1>5. CASE Recover(c)
  BY <1>5, OperationMoves DEF Recover, diskVars, Operations, Private
<1>6. ASSUME ~Shut(c)
      PROVE  exposed = {} /\ gate[c] = "open" /\ operation[c] \notin Private
  BY <1>6 DEF Shut, GateInv, FillTypes, ExposedInv, OperationInv
<1>7. CASE Begin(c)
  <2>1. /\ blocked' = [blocked EXCEPT ![c] = TRUE] /\ Latched' /\ exposed = {}
        /\ gate[c] = "open" /\ operation' = [operation EXCEPT ![c] = "validating"]
        /\ UNCHANGED <<holder, gate, exposed>>
    BY <1>6, <1>7 DEF Begin, LatchSynced, Latched, Goto
  <2>2. FillTypes'
    BY <2>1 DEF GateInv, FillTypes, Latched, Operations, Private
  <2>3. LockInv' /\ ExposedInv'
    BY <2>1 DEF GateInv, LockInv, ExposedInv
  <2>4. OperationInv(c)'
    BY <2>1 DEF GateInv, FillTypes, OperationInv
  <2>5. ASSUME NEW d \in Controller, d # c PROVE OperationInv(d)'
    BY <2>1, <2>5, OthersAreIdle DEF GateInv, FillTypes, OperationInv
  <2> QED
    BY <2>2, <2>3, <2>4, <2>5 DEF GateInv
<1>8. CASE BeginFails(c)
  <2>1. /\ blocked' = [blocked EXCEPT ![c] = TRUE] /\ exposed = {}
        /\ gate[c] = "open" /\ operation' = [operation EXCEPT ![c] = "none"]
        /\ UNCHANGED <<holder, gate, exposed>>
    BY <1>6, <1>8 DEF BeginFails, Goto
  <2>2. latch' \in BOOLEAN /\ durable' \in BOOLEAN
    BY <1>8 DEF BeginFails, GateInv, FillTypes
  <2>3. FillTypes'
    BY <2>1, <2>2 DEF GateInv, FillTypes, Operations
  <2>4. LockInv' /\ ExposedInv'
    BY <2>1 DEF GateInv, LockInv, ExposedInv
  <2>5. OperationInv(c)'
    BY <2>1 DEF GateInv, FillTypes, OperationInv, Private
  <2>6. ASSUME NEW d \in Controller, d # c PROVE OperationInv(d)'
    BY <2>1, <2>6, OthersAreIdle DEF GateInv, FillTypes, OperationInv
  <2> QED
    BY <2>3, <2>4, <2>5, <2>6 DEF GateInv
<1>9. CASE Validate(c)
  BY <1>9, OperationMoves DEF Validate, diskVars, Operations, Private, GateInv, OperationInv
<1>10. CASE Reads(c)
  BY <1>10, OperationMoves DEF Reads, diskVars, Operations, Private, GateInv, OperationInv
<1>11. CASE Fill(c)
  <2>1. /\ operation[c] = "filling" /\ exposed' = {c}
        /\ operation' = [operation EXCEPT ![c] = "destroying"]
        /\ UNCHANGED <<holder, latch, durable, gate, blocked>>
        /\ gate[c] \in {"open", "closed"} /\ blocked[c] = TRUE /\ Latched
    BY <1>11 DEF Fill, Goto, diskVars, GateInv, OperationInv, Private
  <2>2. FillTypes'
    BY <2>1 DEF GateInv, FillTypes, Operations, Private
  <2>3. \A d \in Controller \ {c} : gate[d] \notin {"open", "closed"} /\ operation[d] \notin Private
    BY <2>1, OthersAreIdle
  <2>4. LockInv'
    BY <2>1 DEF GateInv, LockInv
  <2>5. ExposedInv'
    BY <2>1, <2>3 DEF ExposedInv, Latched
  <2>6. OperationInv(c)'
    BY <2>1 DEF GateInv, FillTypes, OperationInv, Latched
  <2>7. ASSUME NEW d \in Controller, d # c PROVE OperationInv(d)'
    BY <2>1, <2>3, <2>7 DEF GateInv, FillTypes, OperationInv
  <2> QED
    BY <2>2, <2>4, <2>5, <2>6, <2>7 DEF GateInv
<1>12. CASE Destroy(c)
  <2>1. operation[c] = "destroying" /\ exposed \subseteq {c}
    BY <1>12 DEF Destroy, GateInv, OperationInv, Private
  <2> QED
    BY <1>12, <2>1, OperationMoves DEF Destroy, Destroyed, diskVars, Operations, Private
<1>13. CASE Resume(c)
  <2>1. /\ blocked' = [blocked EXCEPT ![c] = FALSE] /\ exposed = {} /\ latch' = FALSE /\ durable' = FALSE
        /\ gate[c] = "open" /\ operation' = [operation EXCEPT ![c] = "none"]
        /\ UNCHANGED <<holder, gate, exposed>>
    BY <1>13 DEF Resume, Goto, GateInv, OperationInv
  <2>2. FillTypes'
    BY <2>1 DEF GateInv, FillTypes, Operations
  <2>3. LockInv' /\ ExposedInv'
    BY <2>1 DEF GateInv, LockInv, ExposedInv
  <2>4. OperationInv(c)'
    BY <2>1 DEF GateInv, FillTypes, OperationInv, Private
  <2>5. ASSUME NEW d \in Controller, d # c PROVE OperationInv(d)'
    BY <2>1, <2>5, OthersAreIdle DEF GateInv, FillTypes, OperationInv
  <2> QED
    BY <2>2, <2>3, <2>4, <2>5 DEF GateInv
<1>14. CASE ResumeFails(c)
  <2>1. CASE gate[c] = "open"
    <3>1. /\ exposed = {} /\ operation' = [operation EXCEPT ![c] = "none"]
          /\ UNCHANGED <<holder, gate, blocked, exposed>>
      BY <1>14, <2>1 DEF ResumeFails, Goto, GateInv, OperationInv
    <3>2. latch' \in BOOLEAN /\ durable' \in BOOLEAN
      BY <1>14 DEF ResumeFails, GateInv, FillTypes
    <3>3. FillTypes'
      BY <3>1, <3>2 DEF GateInv, FillTypes, Operations
    <3>4. LockInv' /\ ExposedInv'
      BY <3>1 DEF GateInv, LockInv, ExposedInv
    <3>5. OperationInv(c)'
      BY <3>1 DEF GateInv, FillTypes, OperationInv, Private
    <3>6. ASSUME NEW d \in Controller, d # c PROVE OperationInv(d)'
      BY <2>1, <3>1, <3>6, OthersAreIdle DEF GateInv, FillTypes, OperationInv
    <3> QED
      BY <3>3, <3>4, <3>5, <3>6 DEF GateInv
  <2>2. CASE gate[c] # "open"
    BY <1>14, <2>2, OperationMoves DEF ResumeFails, Operations, Private
  <2> QED
    BY <2>1, <2>2
<1>15. CASE DestroyOrphans(c)
  BY <1>15, OperationMoves DEF DestroyOrphans, diskVars, Operations, Private
<1>16. CASE Close(c) \/ Release(c)
  <2>1. /\ gate[c] \in {"open", "closed"} /\ UNCHANGED <<latch, durable, blocked, operation, exposed>>
        /\ \/ gate' = [gate EXCEPT ![c] = "closed"] /\ holder' = holder
           \/ gate' = [gate EXCEPT ![c] = "released"] /\ holder' = Nobody /\ operation[c] = "none"
    BY <1>16 DEF Close, Release, MayRelease, diskVars
  <2>2. FillTypes'
    BY <2>1 DEF GateInv, FillTypes, Gates
  <2>3. LockInv' /\ ExposedInv'
    BY <2>1, OthersAreIdle DEF GateInv, FillTypes, LockInv, ExposedInv, Latched
  <2>4. ASSUME NEW d \in Controller PROVE OperationInv(d)'
    BY <2>1 DEF GateInv, FillTypes, OperationInv, Latched, Private
  <2> QED
    BY <2>2, <2>3, <2>4 DEF GateInv
<1>17. CASE Kill(c)
  <2>1. /\ UNCHANGED <<latch, durable, exposed>>
        /\ gate' = [d \in Controller |-> IF d \in {c} THEN "none" ELSE gate[d]]
        /\ blocked' = [d \in Controller |-> IF d \in {c} THEN FALSE ELSE blocked[d]]
        /\ operation' = [d \in Controller |-> IF d \in {c} THEN "none" ELSE operation[d]]
        /\ holder' = IF holder \in {c} THEN Nobody ELSE holder
    BY <1>17 DEF Kill, Gone
  <2>2. FillTypes'
    BY <2>1 DEF GateInv, FillTypes, Gates, Operations
  <2>3. LockInv' /\ ExposedInv'
    BY <2>1 DEF GateInv, LockInv, ExposedInv, Latched
  <2>4. ASSUME NEW d \in Controller PROVE OperationInv(d)'
    BY <2>1 DEF GateInv, OperationInv, Latched, Private
  <2> QED
    BY <2>2, <2>3, <2>4 DEF GateInv
<1> QED
  BY <1>1, <1>2, <1>3, <1>4, <1>5, <1>7, <1>8, <1>9, <1>10, <1>11, <1>12, <1>13, <1>14, <1>15, <1>16,
     <1>17 DEF FillStep

LEMMA GateInvPower == GateInv /\ PowerLoss => GateInv'
<1> SUFFICES ASSUME GateInv, PowerLoss PROVE GateInv'
  OBVIOUS
<1>1. /\ gate' = [d \in Controller |-> "none"]
      /\ blocked' = [d \in Controller |-> FALSE]
      /\ operation' = [d \in Controller |-> "none"]
      /\ holder' = Nobody /\ exposed' = exposed
      /\ latch' \in {latch, durable} /\ durable' = latch'
  BY DEF PowerLoss, Gone, GateInv, FillTypes
<1>2. FillTypes'
  BY <1>1 DEF GateInv, FillTypes, Gates, Operations
<1>3. LockInv' /\ ExposedInv'
  BY <1>1 DEF GateInv, LockInv, ExposedInv, Latched
<1>4. ASSUME NEW d \in Controller PROVE OperationInv(d)'
  BY <1>1 DEF OperationInv, Private
<1> QED
  BY <1>2, <1>3, <1>4 DEF GateInv

LEMMA GateInvHolds == Spec => []GateInv
<1>1. Init => GateInv
  BY DEF Init, FillInit, GateInv, FillTypes, LockInv, OperationInv, ExposedInv, Gates, Operations,
         Private
<1>2. GateInv /\ [Next]_vars => GateInv'
  <2> SUFFICES ASSUME GateInv, [Next]_vars PROVE GateInv'
    OBVIOUS
  <2>1. ASSUME NEW c \in Controller, ReadValue(c) PROVE GateInv'
    BY <2>1, ValueIsRead, GateInvStep
  <2>2. CASE UNCHANGED fillVars
    BY <2>2 DEF fillVars, GateInv, FillTypes, LockInv, OperationInv, ExposedInv, Latched
  <2> QED
    BY <2>1, <2>2, GateInvStep, GateInvPower DEF Next, vars
<1> QED
  BY <1>1, <1>2, PTL DEF Spec

\* The gate for any number of controllers, with crashes and power losses: while a
\* page may hold a secret the latch is on disk and observation shut, and there is
\* one private operation at a time.
THEOREM GateSound == Spec => []GateIsSound
<1>1. GateInv => GateIsSound
  <2> SUFFICES ASSUME GateInv PROVE ExposedIsLatched /\ OnePrivateOperation
    BY DEF GateIsSound
  <2>1. ExposedIsLatched
    BY DEF GateInv, ExposedInv, Latched, ExposedIsLatched
  <2>2. {c \in Controller : operation[c] \in Private} \subseteq {holder}
    BY DEF GateInv, OperationInv, LockInv
  <2>3. IsFiniteSet({holder}) /\ Cardinality({holder}) = 1
    BY FS_Singleton
  <2>4. OnePrivateOperation
    BY <2>2, <2>3, FS_Subset DEF OnePrivateOperation
  <2> QED
    BY <2>1, <2>4
<1> QED
  BY <1>1, GateInvHolds, PTL

-----------------------------------------------------------------------------
(* Captures *)

Captures == [state : {"none", "begun", "taken"}, outdated : BOOLEAN, shows : BOOLEAN]

\* A capture that would be returned if the gate were open: none such shows a
\* secret unless the gate is blocked.  A gate that is closed has outdated it.
CaptureInv(c) ==
  /\ capture[c].state # "none" => capture[c].outdated = TRUE \/ gate[c] = "open"
  /\ capture[c].state = "none" => capture[c].shows = FALSE
  /\ capture[c].shows = TRUE => capture[c].outdated = TRUE \/ blocked[c] = TRUE

ObservationInv ==
  /\ capture \in [Controller -> Captures]
  /\ \A c \in Controller : CaptureInv(c)
  /\ published = FALSE

\* The capture of c is as it was, outdated if it is under way, or dropped.
LEMMA CaptureOutdated ==
  ASSUME ObservationInv, NEW c \in Controller, capture' = Outdated(c)
  PROVE  /\ capture' \in [Controller -> Captures]
         /\ \A d \in Controller : d # c => capture'[d] = capture[d]
         /\ capture'[c].state = capture[c].state /\ capture'[c].shows = capture[c].shows
         /\ capture[c].state # "none" => capture'[c].outdated = TRUE
<1>1. CASE capture[c].state = "none"
  BY <1>1 DEF Outdated, ObservationInv
<1>2. CASE capture[c].state # "none"
  <2> DEFINE n == [capture[c] EXCEPT !.outdated = TRUE]
  <2>1. /\ n \in Captures /\ n.state = capture[c].state /\ n.shows = capture[c].shows
        /\ n.outdated = TRUE
    BY DEF ObservationInv, Captures
  <2>2. capture' = [capture EXCEPT ![c] = n]
    BY <1>2 DEF Outdated
  <2> HIDE DEF n
  <2> QED
    BY <2>1, <2>2 DEF ObservationInv
<1> QED
  BY <1>1, <1>2

LEMMA ObservationStep ==
  ASSUME GateInv, ObservationInv, NEW c \in Controller, FillStep(c) \/ Reads(c)
  PROVE  ObservationInv'
<1> USE DEF Captures
<1>1. CASE /\ UNCHANGED <<gate, blocked, capture, published>>
  BY <1>1 DEF ObservationInv, CaptureInv
<1>2. CASE OpenGate(c)
  <2>1. /\ gate[c] # "open" /\ gate' = [gate EXCEPT ![c] = "open"]
        /\ blocked' = [blocked EXCEPT ![c] = latch] /\ UNCHANGED <<capture, published>>
    BY <1>2 DEF OpenGate
  <2>2. CaptureInv(c)'
    BY <2>1 DEF ObservationInv, CaptureInv, GateInv, FillTypes
  <2>3. ASSUME NEW d \in Controller, d # c PROVE CaptureInv(d)'
    BY <2>1, <2>3 DEF ObservationInv, CaptureInv, GateInv, FillTypes
  <2> QED
    BY <2>1, <2>2, <2>3 DEF ObservationInv
<1>3. CASE BeginCapture(c)
  <2> DEFINE n == [capture[c] EXCEPT !.state = "begun"]
  <2>1. /\ n \in Captures /\ n.state = "begun" /\ n.shows = capture[c].shows
        /\ n.outdated = capture[c].outdated
    BY DEF ObservationInv
  <2>2. capture' = [capture EXCEPT ![c] = n] /\ gate[c] = "open" /\ UNCHANGED <<gate, blocked, published>>
    BY <1>3 DEF BeginCapture, Shut
  <2> HIDE DEF n
  <2>3. CaptureInv(c)'
    BY <2>1, <2>2 DEF ObservationInv, CaptureInv
  <2>4. ASSUME NEW d \in Controller, d # c PROVE CaptureInv(d)'
    BY <2>2, <2>4 DEF ObservationInv, CaptureInv
  <2> QED
    BY <2>1, <2>2, <2>3, <2>4 DEF ObservationInv
<1>4. CASE Capture(c)
  <2>1. PICK v \in BOOLEAN : v = (exposed # {})
    BY Zenon
  <2> DEFINE n == [capture[c] EXCEPT !.state = "taken", !.shows = v]
  <2>2. /\ n \in Captures /\ n.state = "taken" /\ n.shows = v
        /\ n.outdated = capture[c].outdated
    BY DEF ObservationInv
  <2>3. capture[c].state = "begun" /\ capture' = [capture EXCEPT ![c] = n]
        /\ UNCHANGED <<gate, blocked, published>>
    BY <1>4, <2>1 DEF Capture
  <2> HIDE DEF n
  <2>4. v = TRUE => exposed # {}
    BY <2>1
  <2>5. CaptureInv(c)'
    BY <2>2, <2>3, <2>4 DEF ObservationInv, CaptureInv, GateInv, ExposedInv
  <2>6. ASSUME NEW d \in Controller, d # c PROVE CaptureInv(d)'
    BY <2>3, <2>6 DEF ObservationInv, CaptureInv
  <2> QED
    BY <2>2, <2>3, <2>5, <2>6 DEF ObservationInv
<1>5. CASE EndCapture(c)
  <2>1. capture[c].shows = TRUE => ~MayReturn(c)
    BY DEF ObservationInv, CaptureInv, MayReturn, Shut, GateInv, FillTypes
  <2>2. published' = FALSE
    <3>1. capture[c].shows \in BOOLEAN
      BY DEF ObservationInv
    <3> QED
      BY <1>5, <2>1, <3>1, Zenon DEF EndCapture, ObservationInv
  <2>3. NoCapture \in Captures /\ NoCapture.state = "none" /\ NoCapture.shows = FALSE
    BY DEF NoCapture
  <2>4. capture' = [capture EXCEPT ![c] = NoCapture] /\ UNCHANGED <<gate, blocked>>
    BY <1>5 DEF EndCapture
  <2>5. CaptureInv(c)'
    BY <2>3, <2>4 DEF ObservationInv, CaptureInv
  <2>6. ASSUME NEW d \in Controller, d # c PROVE CaptureInv(d)'
    BY <2>4, <2>6 DEF ObservationInv, CaptureInv
  <2> QED
    BY <2>2, <2>3, <2>4, <2>5, <2>6 DEF ObservationInv
<1>6. CASE Begin(c) \/ BeginFails(c) \/ Resume(c) \/ Close(c)
  <2>1. /\ capture' = Outdated(c) /\ published' = published
        /\ \A d \in Controller : d # c => gate'[d] = gate[d] /\ blocked'[d] = blocked[d]
    BY <1>6 DEF Begin, BeginFails, Resume, Close, GateInv, FillTypes
  <2>2. CaptureInv(c)'
    BY <2>1, CaptureOutdated DEF ObservationInv, CaptureInv
  <2>3. ASSUME NEW d \in Controller, d # c PROVE CaptureInv(d)'
    <3>1. gate'[d] = gate[d] /\ blocked'[d] = blocked[d] /\ capture'[d] = capture[d]
      BY <2>1, <2>3, CaptureOutdated
    <3> QED
      BY <3>1 DEF ObservationInv, CaptureInv
  <2>4. capture' \in [Controller -> Captures]
    BY <2>1, CaptureOutdated
  <2> QED
    BY <2>1, <2>2, <2>3, <2>4 DEF ObservationInv
<1>7. CASE Release(c)
  <2>1. /\ gate[c] = "closed" /\ gate' = [gate EXCEPT ![c] = "released"]
        /\ UNCHANGED <<blocked, capture, published>>
    BY <1>7 DEF Release
  <2>2. ASSUME NEW d \in Controller PROVE CaptureInv(d)'
    BY <2>1 DEF ObservationInv, CaptureInv, GateInv, FillTypes
  <2> QED
    BY <2>1, <2>2 DEF ObservationInv
<1>8. CASE Kill(c)
  <2>1. NoCapture \in Captures /\ NoCapture.state = "none" /\ NoCapture.shows = FALSE
    BY DEF NoCapture
  <2>2. /\ gate' = [d \in Controller |-> IF d \in {c} THEN "none" ELSE gate[d]]
        /\ blocked' = [d \in Controller |-> IF d \in {c} THEN FALSE ELSE blocked[d]]
        /\ capture' = [d \in Controller |-> IF d \in {c} THEN NoCapture ELSE capture[d]]
        /\ published' = published
    BY <1>8 DEF Kill, Gone
  <2>3. CaptureInv(c)'
    BY <2>1, <2>2 DEF CaptureInv
  <2>4. ASSUME NEW d \in Controller, d # c PROVE CaptureInv(d)'
    <3>1. gate'[d] = gate[d] /\ blocked'[d] = blocked[d] /\ capture'[d] = capture[d]
      BY <2>2, <2>4
    <3> QED
      BY <3>1 DEF ObservationInv, CaptureInv
  <2> QED
    BY <2>1, <2>2, <2>3, <2>4 DEF ObservationInv
<1>9. CASE Run(c) \/ BeginRefused(c) \/ Recover(c) \/ Validate(c) \/ Reads(c) \/ Fill(c) \/ Destroy(c)
           \/ ResumeFails(c) \/ DestroyOrphans(c)
  BY <1>1, <1>9 DEF Run, BeginRefused, Recover, Validate, Reads, Fill, Destroy, ResumeFails, DestroyOrphans
<1> QED
  BY <1>2, <1>3, <1>4, <1>5, <1>6, <1>7, <1>8, <1>9 DEF FillStep

\* No capture that shows a page with a secret is returned, for any number of
\* controllers, whatever crashes and whatever fails.
THEOREM NoSecretPublished == Spec => []NoSecretIsPublished
<1>1. Init => ObservationInv
  <2>1. NoCapture \in Captures /\ NoCapture.state = "none" /\ NoCapture.shows = FALSE
    BY DEF NoCapture, Captures
  <2> QED
    BY <2>1 DEF Init, FillInit, ObservationInv, CaptureInv
<1>2. GateInv /\ ObservationInv /\ [Next]_vars => ObservationInv'
  <2> SUFFICES ASSUME GateInv, ObservationInv, [Next]_vars PROVE ObservationInv'
    OBVIOUS
  <2>1. CASE UNCHANGED fillVars
    BY <2>1 DEF fillVars, ObservationInv, CaptureInv
  <2>2. CASE PowerLoss
    <3>1. NoCapture \in Captures /\ NoCapture.state = "none" /\ NoCapture.shows = FALSE
      BY DEF NoCapture, Captures
    <3>2. capture' = [d \in Controller |-> NoCapture] /\ published' = published
      BY <2>2 DEF PowerLoss, Gone
    <3> QED
      BY <3>1, <3>2 DEF ObservationInv, CaptureInv
  <2> QED
    BY <2>1, <2>2, ObservationStep, ValueIsRead DEF Next, vars
<1>3. ObservationInv => NoSecretIsPublished
  BY DEF ObservationInv, NoSecretIsPublished
<1> QED
  BY <1>1, <1>2, <1>3, GateInvHolds, PTL DEF Spec

-----------------------------------------------------------------------------
(* NativeHost *)

Recs == [revision : Nat, password : Nat, origins : SUBSET Origin]
Reqs == [kind : Kinds, origin : Origin, expected : Nat, new : Recs]

\* What the request makes of a record that is still as it was read.
Asked(request, rec) ==
  /\ request.kind \in {"allow", "deny"} => request.new.password = rec.password
  /\ request.kind \in {"allow", "generate"} =>
       request.new.origins = rec.origins \cup {request.origin}
  /\ request.kind = "deny" => request.new.origins = rec.origins \ {request.origin}
  /\ request.kind \in {"create", "set"} => request.new.origins = rec.origins

PendingInv(h) ==
  pending[h] # NoRequest =>
    /\ pending[h].expected <= record.revision
    /\ pending[h].new.revision = pending[h].expected + 1
    /\ pending[h].expected = record.revision => Asked(pending[h], record)

RecordInv ==
  /\ record \in Recs
  /\ pending \in [Host -> Reqs \cup {NoRequest}]
  /\ \A h \in Host : PendingInv(h)
  /\ NoUpdateIsLost

\* A request is begun with what it asks of the record that was read.
LEMMA WriteBegun ==
  ASSUME RecordInv, NEW h \in Host, NEW kind \in Kinds, NEW origin \in Origin, NEW new \in Recs,
         BeginWrite(h, kind, origin, new),
         kind \in {"allow", "deny"} => new.password = record.password,
         kind \in {"allow", "generate"} => new.origins = record.origins \cup {origin},
         kind = "deny" => new.origins = record.origins \ {origin},
         kind \in {"create", "set"} => new.origins = record.origins
  PROVE  RecordInv'
<1>1. record.revision \in Nat
  BY DEF RecordInv, Recs
<1> DEFINE rec == [new EXCEPT !.revision = record.revision + 1]
           r == [kind |-> kind, origin |-> origin, expected |-> record.revision, new |-> rec]
<1>2. /\ rec \in Recs /\ rec.revision = record.revision + 1 /\ rec.password = new.password
      /\ rec.origins = new.origins
  BY <1>1 DEF Recs
<1> HIDE DEF rec
<1>3. /\ r \in Reqs /\ r.kind = kind /\ r.origin = origin /\ r.expected = record.revision
      /\ r.new = rec
  BY <1>1, <1>2 DEF Reqs
<1>4. pending' = [pending EXCEPT ![h] = r] /\ record' = record /\ intended' = intended
  BY DEF BeginWrite, rec
<1> HIDE DEF r
<1>5. PendingInv(h)'
  BY <1>1, <1>2, <1>3, <1>4 DEF RecordInv, PendingInv, Asked
<1>6. ASSUME NEW g \in Host, g # h PROVE PendingInv(g)'
  BY <1>4, <1>6 DEF RecordInv, PendingInv
<1> QED
  BY <1>3, <1>4, <1>5, <1>6 DEF RecordInv, NoUpdateIsLost

LEMMA HostStepKeeps ==
  ASSUME RecordInv, NEW h \in Host, HostStep(h)
  PROVE  RecordInv'
<1>1. CASE List(h)
  BY <1>1 DEF List, RecordInv, PendingInv, NoUpdateIsLost
<1>2. CASE GiveUp(h)
  <2>1. pending' = [pending EXCEPT ![h] = NoRequest] /\ record' = record /\ intended' = intended
    BY <1>2 DEF GiveUp
  <2> QED
    BY <2>1 DEF RecordInv, PendingInv, NoUpdateIsLost
<1>3. ASSUME NEW origin \in Origin, NEW allow \in BOOLEAN, BeginPolicy(h, origin, allow)
      PROVE  RecordInv'
  <2>1. CASE allow = TRUE
    <3> DEFINE new == [record EXCEPT !.origins = @ \cup {origin}]
    <3>1. new \in Recs /\ new.password = record.password /\ new.origins = record.origins \cup {origin}
      BY DEF RecordInv, Recs
    <3>2. BeginWrite(h, "allow", origin, new)
      BY <1>3, <2>1 DEF BeginPolicy
    <3> HIDE DEF new
    <3> QED
      BY <3>1, <3>2, WriteBegun DEF Kinds
  <2>2. CASE allow = FALSE
    <3> DEFINE new == [record EXCEPT !.origins = @ \ {origin}]
    <3>1. new \in Recs /\ new.password = record.password /\ new.origins = record.origins \ {origin}
      BY DEF RecordInv, Recs
    <3>2. BeginWrite(h, "deny", origin, new)
      BY <1>3, <2>2 DEF BeginPolicy
    <3> HIDE DEF new
    <3> QED
      BY <3>1, <3>2, WriteBegun DEF Kinds
  <2> QED
    BY <2>1, <2>2
<1>4. ASSUME NEW origin \in Origin, GeneratePassword(h, origin) PROVE RecordInv'
  <2> DEFINE new == [record EXCEPT !.origins = @ \cup {origin}, !.password = record.revision + 1]
  <2>1. new \in Recs /\ new.origins = record.origins \cup {origin}
    <3>1. record \in Recs /\ record.revision + 1 \in Nat /\ record.origins \cup {origin} \in SUBSET Origin
      BY DEF RecordInv, Recs
    <3> QED
      BY <3>1 DEF Recs
  <2>2. BeginWrite(h, "generate", origin, new)
    BY <1>4 DEF GeneratePassword
  <2> HIDE DEF new
  <2> QED
    BY <2>1, <2>2, WriteBegun DEF Kinds
<1>5. ASSUME NEW origin \in Origin, NEW kind \in {"set", "create"},
             BeginWrite(h, kind, origin, [record EXCEPT !.password = record.revision + 1])
      PROVE  RecordInv'
  <2> DEFINE new == [record EXCEPT !.password = record.revision + 1]
  <2>1. new \in Recs /\ new.origins = record.origins
    BY DEF RecordInv, Recs
  <2>2. BeginWrite(h, kind, origin, new)
    BY <1>5
  <2> HIDE DEF new
  <2> QED
    BY <2>1, <2>2, WriteBegun DEF Kinds
<1>6. CASE Put(h)
  <2>1. /\ pending[h] \in Reqs /\ pending[h].expected = record.revision
        /\ record' = pending[h].new /\ intended' = Meant(pending[h])
        /\ pending' = [pending EXCEPT ![h] = NoRequest]
        /\ Asked(pending[h], record) /\ pending[h].new.revision = record.revision + 1
    BY <1>6 DEF Put, AtExpected, RecordInv, PendingInv
  <2>2. pending[h].kind \in Kinds /\ pending[h].new \in Recs /\ record.revision \in Nat
    BY <2>1 DEF Reqs, RecordInv, Recs
  <2>3. record'.password = intended'.password
    BY <2>1, <2>2 DEF RecordInv, NoUpdateIsLost, Meant, Asked
  <2>4. record'.origins = intended'.origins
    BY <2>1, <2>2 DEF RecordInv, NoUpdateIsLost, Meant, Asked, Kinds
  <2>5. ASSUME NEW g \in Host PROVE PendingInv(g)'
    <3>1. CASE g = h
      BY <2>1, <3>1 DEF RecordInv, PendingInv
    <3>2. CASE g # h
      <4>1. pending'[g] = pending[g] /\ (pending[g] # NoRequest => pending[g].expected \in Nat)
        BY <2>1, <3>2 DEF RecordInv, Reqs
      <4> QED
        BY <2>1, <2>2, <4>1 DEF RecordInv, PendingInv
    <3> QED
      BY <3>1, <3>2
  <2>6. pending' \in [Host -> Reqs \cup {NoRequest}]
    BY <2>1 DEF RecordInv
  <2> QED
    BY <2>1, <2>2, <2>3, <2>4, <2>5, <2>6 DEF RecordInv, NoUpdateIsLost
<1> QED
  BY <1>1, <1>2, <1>3, <1>4, <1>5, <1>6
  DEF HostStep, ChangePolicy, BrowserOriginCommand, GenerateCommand, SetSecret

\* Any number of writers of one record, each of which reads it whole and puts it
\* back whole: no decision of another is undone.
THEOREM UpdatesAreKept == Spec => []NoUpdateIsLost
<1>1. Init => RecordInv
  <2> SUFFICES ASSUME Init PROVE RecordInv
    OBVIOUS
  <2>1. record \in Recs /\ pending = [h \in Host |-> NoRequest]
    BY DEF Init, NoRecord, Recs
  <2>2. NoUpdateIsLost
    BY DEF Init, NoRecord, NoUpdateIsLost
  <2> QED
    BY <2>1, <2>2 DEF RecordInv, PendingInv
<1>2. RecordInv /\ [Next]_vars => RecordInv'
  <2> SUFFICES ASSUME RecordInv, [Next]_vars PROVE RecordInv'
    OBVIOUS
  <2>1. CASE UNCHANGED hostVars
    BY <2>1 DEF hostVars, RecordInv, PendingInv, NoUpdateIsLost
  <2> QED
    BY <2>1, HostStepKeeps DEF Next, vars
<1>3. RecordInv => NoUpdateIsLost
  BY DEF RecordInv
<1> QED
  BY <1>1, <1>2, <1>3, PTL DEF Spec

-----------------------------------------------------------------------------
(* Redaction *)

\* A set of numbers that is not empty, and bounded, has a largest.
LEMMA LargestExists ==
  ASSUME NEW T, NEW b \in Nat, T \subseteq 0..b, T # {}
  PROVE  \E m \in T : \A l \in T : l <= m
<1> DEFINE U == {b - l : l \in T}
           R == OpToRel(<, Nat)
<1>1. U \subseteq Nat /\ U # {}
  <2>1. \A l \in T : b - l \in Nat
    OBVIOUS
  <2> QED
    BY <2>1
<1>2. IsWellFoundedOn(R, Nat)
  BY NatLessThanWellFounded
<1>3. \E x \in U : \A y \in U : ~(<<y, x>> \in R)
  <2> HIDE DEF U, R
  <2> QED
    BY <1>1, <1>2, WFMin
<1>4. PICK x \in U : \A y \in U : ~(y < x)
  BY <1>1, <1>3 DEF OpToRel
<1>5. PICK m \in T : x = b - m
  BY <1>4
<1>6. \A l \in T : ~(b - l < b - m)
  BY <1>4, <1>5
<1> QED
  BY <1>6

\* What the operations on sequences that these proofs need return.
LEMMA ConcatIs ==
  ASSUME NEW S, NEW q \in Seq(S), NEW r \in Seq(S)
  PROVE  /\ q \o r \in Seq(S) /\ Len(q \o r) = Len(q) + Len(r)
         /\ \A i \in 1..Len(q) : (q \o r)[i] = q[i]
         /\ \A i \in Len(q) + 1..Len(q) + Len(r) : (q \o r)[i] = r[i - Len(q)]
OBVIOUS

LEMMA SubSeqIs ==
  ASSUME NEW S, NEW q \in Seq(S), NEW a \in Nat, NEW b \in Nat, 1 <= a, a <= b + 1, b <= Len(q)
  PROVE  /\ SubSeq(q, a, b) \in Seq(S)
         /\ Len(SubSeq(q, a, b)) = b - a + 1
         /\ \A i \in 1..b - a + 1 : SubSeq(q, a, b)[i] = q[a + i - 1]
OBVIOUS

LEMMA BeginningIs ==
  ASSUME NEW S, NEW q \in Seq(S), NEW m \in Nat, m <= Len(q)
  PROVE  /\ SubSeq(q, 1, m) \in Seq(S)
         /\ Len(SubSeq(q, 1, m)) = m
         /\ \A i \in 1..m : SubSeq(q, 1, m)[i] = q[i]
OBVIOUS

LEMMA SameSequence ==
  ASSUME NEW S, NEW q \in Seq(S), NEW r \in Seq(S), Len(q) = Len(r),
         \A i \in 1..Len(q) : q[i] = r[i]
  PROVE  q = r
OBVIOUS

LEMMA SliceIs ==
  ASSUME NEW from \in Nat, NEW to \in Nat, from <= to
  PROVE  /\ Slice(from, to) \in Seq(Nat) \/ from = 0
         /\ Len(Slice(from, to)) = to - from
         /\ \A i \in 1..to - from : Slice(from, to)[i] = from + i - 1
BY DEF Slice

-----------------------------------------------------------------------------
\* What is written of the positions before p, when those in C are replaced: the
\* others, and in their order.
OutputSoFar(w, p, C) ==
  /\ w \in Seq(Nat)
  /\ \A i \in 1..Len(w) : w[i] = Label \/ (w[i] \in 1..p - 1 /\ w[i] \notin C)
  /\ \A x \in 1..p - 1 : x \notin C => \E i \in 1..Len(w) : w[i] = x
  /\ \A i, j \in 1..Len(w) : w[i] # Label /\ w[j] # Label /\ i < j => w[i] < w[j]

LEMMA WriteSlice ==
  ASSUME NEW w, NEW C, NEW p \in Nat \ {0}, NEW m \in Nat, p <= m, OutputSoFar(w, p, C),
         \A x \in p..m - 1 : x \notin C
  PROVE  OutputSoFar(w \o Slice(p, m), m, C)
<1> DEFINE s == Slice(p, m)
           t == w \o s
<1>1. w \in Seq(Nat) /\ Len(w) \in Nat
  BY DEF OutputSoFar
<1>2. s \in Seq(Nat) /\ Len(s) = m - p /\ \A i \in 1..m - p : s[i] = p + i - 1
  BY SliceIs
<1> HIDE DEF s
<1>3. /\ t \in Seq(Nat) /\ Len(t) = Len(w) + (m - p)
      /\ \A i \in 1..Len(w) : t[i] = w[i]
      /\ \A i \in 1..Len(t) : i > Len(w) => t[i] = p + (i - Len(w)) - 1
  <2>1. /\ t \in Seq(Nat) /\ Len(t) = Len(w) + Len(s)
        /\ \A i \in 1..Len(w) : t[i] = w[i]
        /\ \A i \in Len(w) + 1..Len(w) + Len(s) : t[i] = s[i - Len(w)]
    BY <1>1, <1>2, ConcatIs
  <2>2. ASSUME NEW i \in 1..Len(t), i > Len(w) PROVE t[i] = p + (i - Len(w)) - 1
    <3>1. t[i] = s[i - Len(w)]
      BY <1>1, <1>2, <2>1, <2>2
    <3>2. i - Len(w) \in 1..m - p
      BY <1>1, <1>2, <2>1, <2>2
    <3> QED
      BY <1>2, <3>1, <3>2
  <2> QED
    BY <1>2, <2>1, <2>2
<1> HIDE DEF t
<1>4. ASSUME NEW i \in 1..Len(t) PROVE t[i] = Label \/ (t[i] \in 1..m - 1 /\ t[i] \notin C)
  <2>1. CASE i <= Len(w)
    <3>1. i \in 1..Len(w)
      BY <1>1, <1>3, <2>1
    <3>2. t[i] = w[i]
      BY <1>3, <3>1
    <3>3. w[i] = Label \/ (w[i] \in 1..p - 1 /\ w[i] \notin C)
      BY <3>1 DEF OutputSoFar
    <3> QED
      BY <3>2, <3>3
  <2>2. CASE i > Len(w)
    <3>1. t[i] = p + (i - Len(w)) - 1 /\ t[i] \in p..m - 1
      BY <1>1, <1>3, <2>2
    <3> QED
      BY <3>1
  <2> QED
    BY <1>1, <2>1, <2>2
<1>5. ASSUME NEW x \in 1..m - 1, x \notin C PROVE \E i \in 1..Len(t) : t[i] = x
  <2>1. CASE x < p
    <3>1. PICK i \in 1..Len(w) : w[i] = x
      BY <1>5, <2>1 DEF OutputSoFar
    <3>2. i \in 1..Len(t)
      BY <1>1, <1>3, <3>1
    <3>3. t[i] = x
      BY <1>3, <3>1
    <3> QED
      BY <3>2, <3>3
  <2>2. CASE x >= p
    <3>1. Len(w) + (x - p) + 1 \in 1..Len(t) /\ Len(w) + (x - p) + 1 > Len(w)
      BY <1>1, <1>3, <2>2
    <3>2. t[Len(w) + (x - p) + 1] = p + ((Len(w) + (x - p) + 1) - Len(w)) - 1
      BY <1>3, <3>1
    <3>3. p + ((Len(w) + (x - p) + 1) - Len(w)) - 1 = x
      BY <1>1
    <3> QED
      BY <3>1, <3>2, <3>3
  <2> QED
    BY <2>1, <2>2
<1>6. ASSUME NEW i \in 1..Len(t), NEW j \in 1..Len(t), t[i] # Label, t[j] # Label, i < j
      PROVE  t[i] < t[j]
  <2>1. CASE j <= Len(w)
    <3>1. i \in 1..Len(w) /\ j \in 1..Len(w)
      BY <1>1, <1>3, <1>6, <2>1
    <3>2. t[i] = w[i] /\ t[j] = w[j]
      BY <1>3, <3>1
    <3> QED
      BY <1>6, <3>1, <3>2 DEF OutputSoFar
  <2>2. CASE i > Len(w)
    <3>1. t[i] = p + (i - Len(w)) - 1 /\ t[j] = p + (j - Len(w)) - 1
      BY <1>1, <1>3, <1>6, <2>2
    <3> QED
      BY <1>1, <1>6, <3>1
  <2>3. CASE i <= Len(w) /\ j > Len(w)
    <3>1. i \in 1..Len(w)
      BY <1>1, <1>3, <2>3
    <3>2. t[i] = w[i]
      BY <1>3, <3>1
    <3>3. w[i] \in 1..p - 1
      BY <1>6, <3>1, <3>2 DEF OutputSoFar
    <3>4. t[j] = p + (j - Len(w)) - 1
      BY <1>3, <2>3
    <3> QED
      BY <1>1, <2>3, <3>2, <3>3, <3>4
  <2> QED
    BY <1>1, <2>1, <2>2, <2>3
<1>7. OutputSoFar(t, m, C)
  BY <1>3, <1>4, <1>5, <1>6 DEF OutputSoFar
<1> QED
  BY <1>7 DEF t, s

LEMMA WriteLabel ==
  ASSUME NEW w, NEW C, NEW m \in Nat \ {0}, NEW e \in Nat, m <= e, OutputSoFar(w, m, C),
         \A x \in m..e - 1 : x \in C
  PROVE  OutputSoFar(w \o <<Label>>, e, C)
<1> DEFINE t == w \o <<Label>>
<1>1. w \in Seq(Nat) /\ Len(w) \in Nat
  BY DEF OutputSoFar
<1>2. /\ t \in Seq(Nat) /\ Len(t) = Len(w) + 1
      /\ \A i \in 1..Len(w) : t[i] = w[i]
      /\ t[Len(w) + 1] = Label
  BY <1>1 DEF Label
<1> HIDE DEF t
<1>3. \A i \in 1..Len(t) : t[i] = Label \/ (i \in 1..Len(w) /\ t[i] = w[i])
  BY <1>1, <1>2
<1>4. \A i \in 1..Len(t) : t[i] = Label \/ (t[i] \in 1..e - 1 /\ t[i] \notin C)
  BY <1>3 DEF OutputSoFar
<1>5. ASSUME NEW x \in 1..e - 1, x \notin C PROVE \E i \in 1..Len(t) : t[i] = x
  <2>1. x \in 1..m - 1
    BY <1>5
  <2>2. PICK i \in 1..Len(w) : w[i] = x
    BY <1>5, <2>1 DEF OutputSoFar
  <2> QED
    BY <1>1, <1>2, <2>2
<1>6. \A i, j \in 1..Len(t) : t[i] # Label /\ t[j] # Label /\ i < j => t[i] < t[j]
  BY <1>3 DEF OutputSoFar
<1>7. OutputSoFar(t, e, C)
  BY <1>2, <1>4, <1>5, <1>6 DEF OutputSoFar
<1> QED
  BY <1>7 DEF t

-----------------------------------------------------------------------------
Spans == [start : Nat \ {0}, end : Nat]

Within(s, out) == s \in Spans /\ s.start < s.end /\ s.end <= Len(out) + 1

\* What Redact is to replace.
AllSpans == Occurrences(buf) \cup (IF cut THEN Fragments(buf) ELSE {})
Redacted == Covered(AllSpans)

LEMMA CoveredIs ==
  \A ss, x : x \in Covered(ss) <=> \E s \in ss : x \in s.start..s.end - 1
BY DEF Covered

\* The starts of n at which out ends, and the spans of the longest.
Begins(n, out) ==
  {k \in 1..Lesser(Len(n) - 1, Len(out)) :
     SubSeq(out, Len(out) - k + 1, Len(out)) = SubSeq(n, 1, k)}

Longest(n, out) == {k \in Begins(n, out) : \A l \in Begins(n, out) : l <= k}

LEMMA FragmentsAre ==
  \A out, s : s \in Fragments(out) <=>
    \E n \in Needles : \E k \in Longest(n, out) :
      s = [start |-> Len(out) - k + 1, end |-> Len(out) + 1]
<1> SUFFICES ASSUME NEW out
             PROVE  \A s : s \in Fragments(out) <=>
                      \E n \in Needles : \E k \in Longest(n, out) :
                        s = [start |-> Len(out) - k + 1, end |-> Len(out) + 1]
  OBVIOUS
<1>1. Fragments(out) = {[start |-> Len(out) - k + 1, end |-> Len(out) + 1] :
                          k \in UNION {Longest(n, out) : n \in Needles}}
  BY DEF Fragments, Longest, Begins
<1> QED
  BY <1>1, Zenon

LEMMA SpansAreWithin ==
  ASSUME buf \in Seq(Byte)
  PROVE  \A s \in AllSpans : Within(s, buf)
<1>1. ASSUME NEW s \in Occurrences(buf) PROVE Within(s, buf)
  BY RedactionAssumption DEF Occurrences, Within, Span, Spans
<1>2. ASSUME NEW s \in Fragments(buf) PROVE Within(s, buf)
  <2>1. PICK n \in Needles : \E k \in Longest(n, buf) :
          s = [start |-> Len(buf) - k + 1, end |-> Len(buf) + 1]
    BY <1>2, FragmentsAre
  <2>2. PICK k \in Longest(n, buf) : s = [start |-> Len(buf) - k + 1, end |-> Len(buf) + 1]
    BY <2>1
  <2>3. n \in Seq(Byte)
    BY RedactionAssumption
  <2>4. k \in 1..Len(buf)
    BY <2>3 DEF Longest, Begins, Lesser
  <2> QED
    BY <2>2, <2>4 DEF Within, Spans
<1> QED
  BY <1>1, <1>2 DEF AllSpans

\* A byte of a value that was printed, and captured, is covered: the value was
\* captured whole, or the capture ends within it.
LEMMA PrintedIsCovered ==
  ASSUME buf \in Seq(Byte), printed \in Seq(Byte), Len(buf) <= Len(printed),
         \A i \in 1..Len(buf) : buf[i] = printed[i], cut \/ Len(buf) = Len(printed),
         NEW s \in Occurrences(printed), NEW x \in 1..Len(buf), x \in s.start..s.end - 1
  PROVE  x \in Redacted
<1>1. PICK a \in Nat, e \in Nat : a = s.start /\ e = s.end
  BY RedactionAssumption DEF Occurrences, Span
<1>2. /\ s \in Span /\ 1 <= a /\ a < e /\ e <= Len(printed) + 1
      /\ SubSeq(printed, a, e - 1) \in Needles
      /\ a <= x /\ x < e /\ x \in Nat /\ x <= Len(buf)
      /\ Len(buf) \in Nat /\ Len(printed) \in Nat
  BY <1>1, RedactionAssumption DEF Occurrences, Span
<1>3. CASE e <= Len(buf) + 1
  <2> DEFINE q == SubSeq(buf, a, e - 1)
             r == SubSeq(printed, a, e - 1)
  <2>1. q \in Seq(Byte) /\ Len(q) = e - a /\ \A i \in 1..e - a : q[i] = buf[a + i - 1]
    BY <1>2, <1>3, SubSeqIs
  <2>2. r \in Seq(Byte) /\ Len(r) = e - a /\ \A i \in 1..e - a : r[i] = printed[a + i - 1]
    BY <1>2, SubSeqIs
  <2> HIDE DEF q, r
  <2>3. \A i \in 1..e - a : a + i - 1 \in 1..Len(buf)
    BY <1>2, <1>3
  <2>4. q = r
    BY <2>1, <2>2, <2>3, SameSequence
  <2>5. s \in Occurrences(buf)
    BY <1>1, <1>2, <1>3, <2>4 DEF Occurrences, q, r
  <2> QED
    BY <2>5, CoveredIs DEF Redacted, AllSpans
<1>4. CASE e > Len(buf) + 1
  <2> DEFINE n == SubSeq(printed, a, e - 1)
  <2>1. /\ n \in Needles /\ n \in Seq(Byte) /\ Len(n) = e - a
        /\ \A i \in 1..e - a : n[i] = printed[a + i - 1]
    BY <1>2, SubSeqIs
  <2> HIDE DEF n
  <2>2b. Len(buf) - a + 1 \in Nat
    BY <1>2
  <2>2. PICK k \in Nat : k = Len(buf) - a + 1
    BY <2>2b
  <2>3. k \in 1..Len(buf) /\ k <= Len(n) - 1 /\ Len(buf) - k + 1 = a /\ k <= e - a
    BY <1>2, <1>4, <2>1, <2>2
  <2>4. SubSeq(buf, a, Len(buf)) = SubSeq(n, 1, k)
    <3> DEFINE q == SubSeq(buf, a, Len(buf))
               r == SubSeq(n, 1, k)
    <3>1. q \in Seq(Byte) /\ Len(q) = k /\ \A i \in 1..k : q[i] = buf[a + i - 1]
      BY <1>2, <2>2, SubSeqIs
    <3>2. r \in Seq(Byte) /\ Len(r) = k /\ \A i \in 1..k : r[i] = n[i]
      BY <2>1, <2>3, SubSeqIs
    <3> HIDE DEF q, r
    <3>3. ASSUME NEW i \in 1..k PROVE q[i] = r[i]
      <4>1. a + i - 1 \in 1..Len(buf) /\ i \in 1..e - a
        BY <1>2, <2>2, <2>3
      <4> QED
        BY <2>1, <3>1, <3>2, <4>1
    <3>4. q = r
      BY <3>1, <3>2, <3>3, SameSequence
    <3> QED
      BY <3>4 DEF q, r
  <2>5. k \in Begins(n, buf)
    <3>1. k \in 1..Lesser(Len(n) - 1, Len(buf))
      BY <1>2, <2>1, <2>3 DEF Lesser
    <3> QED
      BY <2>3, <2>4, <3>1 DEF Begins
  <2>6. Begins(n, buf) \subseteq 0..Len(buf)
    BY <2>1 DEF Begins, Lesser
  <2>7. PICK m \in Begins(n, buf) : \A l \in Begins(n, buf) : l <= m
    BY <1>2, <2>5, <2>6, LargestExists
  <2> DEFINE f == [start |-> Len(buf) - m + 1, end |-> Len(buf) + 1]
  <2>8. f \in Fragments(buf)
    BY <2>1, <2>7, FragmentsAre DEF Longest
  <2>9. f.start = Len(buf) - m + 1 /\ f.end = Len(buf) + 1
    OBVIOUS
  <2> HIDE DEF f
  <2>10. x \in f.start..f.end - 1
    <3>1. k <= m /\ m \in 0..Len(buf)
      BY <2>5, <2>6, <2>7
    <3> QED
      BY <1>2, <2>2, <2>9, <3>1
  <2>11. f \in AllSpans
    BY <1>2, <1>4, <2>8 DEF AllSpans
  <2> QED
    BY <2>10, <2>11, CoveredIs DEF Redacted
<1> QED
  BY <1>2, <1>3, <1>4

-----------------------------------------------------------------------------
\* The capture is the beginning of what was printed: all of it, or as much as
\* there is room for.
CaptureOK ==
  /\ printed \in Seq(Byte) /\ buf \in Seq(Byte) /\ cut \in BOOLEAN
  /\ Len(buf) <= Len(printed)
  /\ Len(buf) <= CaptureBytes
  /\ \A i \in 1..Len(buf) : buf[i] = printed[i]
  /\ cut = TRUE \/ Len(buf) = Len(printed)
  /\ cut = TRUE => Len(buf) = CaptureBytes

Idle == spans = {} /\ merged = NoSpan

\* The spans that the loop has still to replace start at pos or later, and they
\* cover all that is left to be replaced.
LoopOK ==
  /\ spans \subseteq AllSpans
  /\ pos \in 1..Len(buf) + 1
  /\ \A s \in spans : pos <= s.start
  /\ merged # NoSpan =>
       /\ Within(merged, buf) /\ pos <= merged.start
       /\ \A s \in spans : merged.start <= s.start
  /\ \A x \in pos..Len(buf) :
       x \in Redacted <=>
         x \in Covered(spans) \/ (merged # NoSpan /\ x \in merged.start..merged.end - 1)
  /\ OutputSoFar(written, pos, Redacted)

\* What is returned is the beginning of the redacted capture.
DoneOK ==
  \E w : /\ OutputSoFar(w, Len(buf) + 1, Redacted)
         /\ written = SubSeq(w, 1, Lesser(Len(w), ReturnBytes))
         /\ truncated \in BOOLEAN
         /\ truncated = FALSE => cut = FALSE /\ Len(w) <= ReturnBytes

RedactionInv ==
  /\ at \in {"printing", "searched", "done"}
  /\ CaptureOK
  /\ at = "printing" => Idle /\ pos = 1 /\ written = <<>>
  /\ at = "searched" => LoopOK
  /\ at = "done" => Idle /\ DoneOK

LEMMA NothingWritten ==
  ASSUME NEW w, w = <<>>, NEW C PROVE OutputSoFar(w, 1, C)
BY DEF OutputSoFar

LEMMA NoSpanIsNotWithin ==
  \A s : Within(s, buf) => s # NoSpan
BY DEF Within, Spans, NoSpan

LEMMA WriteKeepsCapture ==
  ASSUME RedactionInv, NEW k \in Nat, NEW p \in [1..k -> Byte], Write(p)
  PROVE  CaptureOK'
<1>1. /\ printed \in Seq(Byte) /\ buf \in Seq(Byte) /\ cut \in BOOLEAN
      /\ Len(buf) \in Nat /\ Len(printed) \in Nat /\ Len(buf) <= Len(printed)
      /\ Len(buf) <= CaptureBytes /\ CaptureBytes \in Nat
      /\ \A i \in 1..Len(buf) : buf[i] = printed[i]
      /\ cut = TRUE \/ Len(buf) = Len(printed)
      /\ cut = TRUE => Len(buf) = CaptureBytes
  BY RedactionAssumption DEF RedactionInv, CaptureOK
<1>2. p \in Seq(Byte) /\ Len(p) = k
  OBVIOUS
<1>3. CaptureBytes - Len(buf) \in Nat
  BY <1>1
<1>4. PICK room \in Nat : room = CaptureBytes - Len(buf)
  BY <1>3
<1>5. PICK m \in Nat : m = Lesser(room, Len(p)) /\ m <= room /\ m <= k /\ (m = room \/ m = k)
  BY <1>2 DEF Lesser
<1> DEFINE q == SubSeq(p, 1, m)
<1>6. q \in Seq(Byte) /\ Len(q) = m /\ \A i \in 1..m : q[i] = p[i]
  BY <1>2, <1>5, SubSeqIs
<1>7. /\ printed' = printed \o p /\ buf' = buf \o q
      /\ cut' = (cut \/ room <= 0 \/ Len(p) > room)
  BY <1>4, <1>5 DEF Write
<1> HIDE DEF q
<1>8. /\ printed' \in Seq(Byte) /\ Len(printed') = Len(printed) + k
      /\ \A i \in 1..Len(printed) : printed'[i] = printed[i]
      /\ \A i \in Len(printed) + 1..Len(printed) + k : printed'[i] = p[i - Len(printed)]
  BY <1>1, <1>2, <1>7, ConcatIs
<1>9. /\ buf' \in Seq(Byte) /\ Len(buf') = Len(buf) + m
      /\ \A i \in 1..Len(buf) : buf'[i] = buf[i]
      /\ \A i \in Len(buf) + 1..Len(buf) + m : buf'[i] = q[i - Len(buf)]
  <2>1. /\ buf \o q \in Seq(Byte) /\ Len(buf \o q) = Len(buf) + Len(q)
        /\ \A i \in 1..Len(buf) : (buf \o q)[i] = buf[i]
        /\ \A i \in Len(buf) + 1..Len(buf) + Len(q) : (buf \o q)[i] = q[i - Len(buf)]
    BY <1>1, <1>6, ConcatIs
  <2> QED
    BY <1>6, <1>7, <2>1
<1>10. cut' \in BOOLEAN
  BY <1>7, Zenon
<1>11. cut' = TRUE \/ (cut = FALSE /\ k <= room)
  <2>1. cut' = TRUE \/ (cut = FALSE /\ ~(Len(p) > room))
    BY <1>1, <1>7, Zenon
  <2> QED
    BY <1>2, <2>1
<1>12. cut' = TRUE \/ Len(buf') = Len(printed')
  BY <1>1, <1>5, <1>8, <1>9, <1>11
<1>13. Len(buf') <= Len(printed') /\ Len(buf') <= CaptureBytes
  BY <1>1, <1>4, <1>5, <1>8, <1>9
<1>14. cut' = TRUE => Len(buf') = CaptureBytes
  <2>1. cut' = TRUE => cut = TRUE \/ room <= 0 \/ k > room
    BY <1>1, <1>2, <1>7, Zenon
  <2> QED
    BY <1>1, <1>4, <1>5, <1>9, <2>1
<1>15. ASSUME NEW i \in 1..Len(buf') PROVE buf'[i] = printed'[i]
  <2>1. CASE i <= Len(buf)
    <3>1. i \in 1..Len(buf) /\ i \in 1..Len(printed)
      BY <1>1, <1>9, <2>1
    <3> QED
      BY <1>1, <1>8, <1>9, <3>1
  <2>2. CASE i > Len(buf)
    <3>1. i \in Len(buf) + 1..Len(buf) + m /\ i - Len(buf) \in 1..m
      BY <1>1, <1>9, <2>2
    <3>2. m # 0 /\ room # 0
      BY <1>5, <3>1
    <3>3. buf'[i] = p[i - Len(buf)]
      BY <1>6, <1>9, <3>1
    <3>4. Len(buf) = Len(printed)
      BY <1>1, <1>4, <3>2
    <3>5. i \in Len(printed) + 1..Len(printed) + k
      BY <1>1, <1>5, <3>1, <3>4
    <3> QED
      BY <1>8, <3>3, <3>4, <3>5
  <2> QED
    BY <1>1, <1>9, <2>1, <2>2
<1> QED
  BY <1>8, <1>9, <1>10, <1>12, <1>13, <1>14, <1>15 DEF CaptureOK

\* One iteration of the loop that begins or extends a span.
LEMMA TakeSpan ==
  ASSUME RedactionInv, NEW s \in spans, StartSpan(s) \/ Merge(s)
  PROVE  RedactionInv'
<1>1. at = "searched" /\ LoopOK /\ CaptureOK
  <2>1. CASE StartSpan(s)
    BY <2>1 DEF RedactionInv, StartSpan
  <2>2. CASE Merge(s)
    BY <2>2 DEF RedactionInv, Merge, Idle
  <2> QED
    BY <2>1, <2>2
<1>2. /\ spans' = spans \ {s} /\ First(s)
      /\ UNCHANGED <<at, printed, buf, cut, pos, written, truncated>>
  BY DEF StartSpan, Merge
<1>3. AllSpans' = AllSpans /\ Redacted' = Redacted /\ CaptureOK'
  BY <1>1, <1>2 DEF AllSpans, Redacted, CaptureOK
<1>4. \A t \in AllSpans : Within(t, buf)
  BY <1>1, SpansAreWithin DEF CaptureOK
<1>5. s \in AllSpans /\ Within(s, buf) /\ pos <= s.start /\ pos \in Nat
  BY <1>1, <1>4 DEF LoopOK, CaptureOK
<1>6. PICK a \in Nat, e \in Nat : a = s.start /\ e = s.end /\ a < e /\ a # 0 /\ e <= Len(buf) + 1
  BY <1>5 DEF Within, Spans
<1>7. \A x : x \in Covered(spans) <=> x \in Covered(spans \ {s}) \/ x \in s.start..s.end - 1
  BY CoveredIs
<1>8. /\ Within(merged', buf) /\ pos <= merged'.start /\ merged' # NoSpan
      /\ \A t \in spans \ {s} : merged'.start <= t.start
      /\ \A x \in pos..Len(buf) :
           x \in Redacted <=>
             x \in Covered(spans \ {s}) \/ x \in merged'.start..merged'.end - 1
  <2>1. CASE StartSpan(s)
    <3>1. merged = NoSpan /\ merged' = s
      BY <2>1 DEF StartSpan
    <3>2. \A x \in pos..Len(buf) : x \in Redacted <=> x \in Covered(spans)
      BY <1>1, <3>1 DEF LoopOK
    <3> QED
      BY <1>2, <1>5, <1>7, <3>1, <3>2, NoSpanIsNotWithin DEF First
  <2>2. CASE Merge(s)
    <3>1. /\ merged # NoSpan /\ s.start < merged.end
          /\ merged' = [merged EXCEPT !.end = Greater(merged.end, s.end)]
      BY <2>2 DEF Merge
    <3>2. /\ Within(merged, buf) /\ pos <= merged.start /\ merged.start <= s.start
          /\ \A t \in spans : merged.start <= t.start
      BY <1>1, <3>1 DEF LoopOK
    <3>3. PICK b \in Nat, f \in Nat : /\ b = merged.start /\ f = merged.end
                                     /\ b < f /\ b # 0 /\ f <= Len(buf) + 1
      BY <3>2 DEF Within, Spans
    <3>4. PICK g \in Nat : g = Greater(f, e) /\ f <= g /\ e <= g /\ (g = f \/ g = e)
      BY DEF Greater
    <3>5. merged \in Spans
      BY <3>2 DEF Within
    <3>6. merged' \in Spans /\ merged'.start = b /\ merged'.end = g
      BY <1>6, <3>1, <3>3, <3>4, <3>5 DEF Spans
    <3>7. Within(merged', buf)
      BY <1>6, <3>3, <3>4, <3>6 DEF Within
    <3>8. \A x \in pos..Len(buf) :
            x \in Redacted <=> x \in Covered(spans) \/ x \in b..f - 1
      BY <1>1, <3>1, <3>3 DEF LoopOK
    <3>9. \A x \in Nat : x \in b..g - 1 <=> x \in b..f - 1 \/ x \in a..e - 1
      BY <1>6, <3>1, <3>2, <3>3, <3>4
    <3>10. ASSUME NEW x \in pos..Len(buf)
           PROVE  x \in Redacted <=> x \in Covered(spans \ {s}) \/ x \in b..g - 1
      <4>1. x \in Nat
        BY <1>1, <1>5 DEF CaptureOK
      <4>2. x \in Covered(spans) <=> x \in Covered(spans \ {s}) \/ x \in a..e - 1
        BY <1>6, <1>7
      <4> QED
        BY <3>8, <3>9, <4>1, <4>2
    <3> QED
      BY <3>2, <3>3, <3>6, <3>7, <3>10, NoSpanIsNotWithin
  <2> QED
    BY <2>1, <2>2
<1>9. LoopOK'
  <2>1. Within(merged, buf)'
    BY <1>2, <1>8 DEF Within
  <2> QED
    BY <1>1, <1>2, <1>3, <1>8, <2>1 DEF LoopOK
<1> QED
  BY <1>1, <1>2, <1>3, <1>9 DEF RedactionInv

LEMMA EmitSpan ==
  ASSUME RedactionInv, Emit
  PROVE  RedactionInv'
<1>1. at = "searched" /\ LoopOK /\ CaptureOK /\ merged # NoSpan
  BY DEF RedactionInv, Emit, Idle
<1>2. /\ UNCHANGED <<at, printed, buf, cut, spans, truncated>>
      /\ merged' = NoSpan /\ pos' = merged.end
      /\ written' = (written \o Slice(pos, merged.start)) \o <<Label>>
  BY DEF Emit
<1>3. AllSpans' = AllSpans /\ Redacted' = Redacted /\ CaptureOK'
  BY <1>1, <1>2 DEF AllSpans, Redacted, CaptureOK
<1>4. Within(merged, buf) /\ pos <= merged.start /\ pos \in Nat \ {0} /\ Len(buf) \in Nat
  BY <1>1 DEF LoopOK, CaptureOK
<1>5. PICK b \in Nat, f \in Nat : /\ b = merged.start /\ f = merged.end
                                 /\ b < f /\ b # 0 /\ f <= Len(buf) + 1
  BY <1>4 DEF Within, Spans
<1>6. \A s \in spans : s.start >= f /\ s.start >= b /\ s \in Spans
  <2>1. \A s \in spans : s \in Spans
    BY <1>1, SpansAreWithin DEF LoopOK, CaptureOK, Within
  <2> QED
    BY <1>5, <2>1 DEF Emit, Spans
<1>7. \A x \in Nat : x \in Covered(spans) => x >= f
  BY <1>5, <1>6, CoveredIs DEF Spans
<1>8. \A x \in pos..Len(buf) : x \in Redacted <=> x \in Covered(spans) \/ x \in b..f - 1
  BY <1>1, <1>5 DEF LoopOK
<1>9. \A x \in pos..b - 1 : x \notin Redacted
  BY <1>4, <1>5, <1>7, <1>8
<1>10. \A x \in b..f - 1 : x \in Redacted
  BY <1>4, <1>5, <1>8
<1>11. OutputSoFar(written, pos, Redacted)
  BY <1>1 DEF LoopOK
<1>12. OutputSoFar(written \o Slice(pos, b), b, Redacted)
  BY <1>4, <1>5, <1>9, <1>11, WriteSlice
<1>13. OutputSoFar(written', f, Redacted)
  <2> DEFINE w == written \o Slice(pos, b)
  <2>1. written' = w \o <<Label>>
    BY <1>2, <1>5
  <2>2. OutputSoFar(w, b, Redacted)
    BY <1>12
  <2> HIDE DEF w
  <2>3. OutputSoFar(w \o <<Label>>, f, Redacted)
    BY <1>5, <1>10, <2>2, WriteLabel
  <2> QED
    BY <2>1, <2>3
<1>14. \A x \in f..Len(buf) : x \in Redacted <=> x \in Covered(spans)
  BY <1>4, <1>5, <1>8
<1>15. LoopOK'
  BY <1>1, <1>2, <1>3, <1>4, <1>5, <1>6, <1>13, <1>14 DEF LoopOK
<1> QED
  BY <1>1, <1>2, <1>3, <1>15 DEF RedactionInv

LEMMA ReturnOutput ==
  ASSUME RedactionInv, Return
  PROVE  RedactionInv'
<1>1. at = "searched" /\ LoopOK /\ CaptureOK /\ Idle
  BY DEF RedactionInv, Return, Idle
<1> DEFINE all == written \o Slice(pos, Len(buf) + 1)
<1>2. /\ UNCHANGED <<printed, buf, cut, spans, merged, pos>> /\ at' = "done"
      /\ written' = SubSeq(all, 1, Lesser(Len(all), ReturnBytes))
      /\ truncated' = (cut \/ Len(all) > ReturnBytes)
  BY DEF Return
<1>3. AllSpans' = AllSpans /\ Redacted' = Redacted /\ CaptureOK' /\ Idle'
  BY <1>1, <1>2 DEF AllSpans, Redacted, CaptureOK, Idle
<1>4. \A x \in pos..Len(buf) : x \notin Redacted
  <2>1. \A x : x \notin Covered(spans)
    BY <1>1, CoveredIs DEF Idle
  <2> QED
    BY <1>1, <2>1 DEF LoopOK, Idle
<1>5. OutputSoFar(all, Len(buf) + 1, Redacted)
  <2>1. OutputSoFar(written, pos, Redacted)
    BY <1>1 DEF LoopOK
  <2>2. pos \in Nat \ {0} /\ Len(buf) + 1 \in Nat /\ pos <= Len(buf) + 1
    BY <1>1 DEF LoopOK, CaptureOK
  <2>3. \A x \in pos..(Len(buf) + 1) - 1 : x \notin Redacted
    BY <1>4, <2>2
  <2> QED
    BY <2>1, <2>2, <2>3, WriteSlice
<1> HIDE DEF all
<1>6. truncated' \in BOOLEAN
  BY <1>2, Zenon
<1>7. truncated' = FALSE => cut = FALSE /\ Len(all) <= ReturnBytes
  <2>1. cut \in BOOLEAN /\ Len(all) \in Nat /\ ReturnBytes \in Nat
    BY <1>1, <1>5, RedactionAssumption DEF CaptureOK, OutputSoFar
  <2>2. truncated' = FALSE => cut = FALSE /\ ~(Len(all) > ReturnBytes)
    BY <1>2, <2>1, Zenon
  <2> QED
    BY <2>1, <2>2
<1>8. DoneOK'
  BY <1>2, <1>3, <1>5, <1>6, <1>7 DEF DoneOK
<1> QED
  BY <1>2, <1>3, <1>8 DEF RedactionInv

LEMMA RedactionInvInit ==
  RedactionInit => RedactionInv
<1> SUFFICES ASSUME RedactionInit PROVE RedactionInv
  OBVIOUS
<1>1. /\ printed \in Seq(Byte) /\ buf \in Seq(Byte) /\ Len(buf) = 0 /\ Len(printed) = 0
  BY DEF RedactionInit
<1>2. cut = FALSE /\ cut \in BOOLEAN
  BY Zenon DEF RedactionInit
<1>3. CaptureOK
  BY <1>1, <1>2, RedactionAssumption DEF CaptureOK
<1> QED
  BY <1>3 DEF RedactionInit, RedactionInv, Idle

LEMMA RedactionInvNext ==
  RedactionInv /\ [RedactionNext]_redactionVars => RedactionInv'
<1> SUFFICES ASSUME RedactionInv, [RedactionNext]_redactionVars PROVE RedactionInv'
  OBVIOUS
<1>1. ASSUME NEW p \in UNION {[1..k -> Byte] : k \in 1..MaxPrinted}, Write(p) PROVE RedactionInv'
  <2>1. PICK k \in 1..MaxPrinted : p \in [1..k -> Byte]
    OBVIOUS
  <2>2. CaptureOK'
    BY <1>1, <2>1, RedactionAssumption, WriteKeepsCapture
  <2> QED
    BY <1>1, <2>2 DEF Write, RedactionInv, Idle
<1>2. CASE Search
  <2>1. CaptureOK /\ Idle /\ pos = 1 /\ written = <<>>
    BY <1>2 DEF RedactionInv, Search
  <2>2. /\ UNCHANGED <<printed, buf, cut, merged, pos, written, truncated>>
        /\ at' = "searched" /\ spans' = AllSpans
    BY <1>2 DEF Search, AllSpans
  <2>3. AllSpans' = AllSpans /\ Redacted' = Redacted /\ CaptureOK'
    BY <2>1, <2>2 DEF AllSpans, Redacted, CaptureOK
  <2>4. OutputSoFar(written, 1, Redacted)
    BY <2>1, NothingWritten
  <2>5. \A s \in AllSpans : 1 <= s.start
    BY <2>1, SpansAreWithin DEF CaptureOK, Within, Spans
  <2>6. Len(buf) \in Nat
    BY <2>1 DEF CaptureOK
  <2>7. LoopOK'
    BY <2>1, <2>2, <2>3, <2>4, <2>5, <2>6 DEF LoopOK, Idle, Redacted
  <2> QED
    BY <2>2, <2>3, <2>7 DEF RedactionInv
<1>3. ASSUME NEW s \in spans, StartSpan(s) \/ Merge(s) PROVE RedactionInv'
  BY <1>3, TakeSpan
<1>4. CASE Emit
  BY <1>4, EmitSpan
<1>5. CASE Return
  BY <1>5, ReturnOutput
<1>6. CASE NextRun
  <2>1. CaptureOK'
    <3>1. /\ printed' \in Seq(Byte) /\ buf' \in Seq(Byte)
          /\ Len(buf') = 0 /\ Len(printed') = 0
      BY <1>6 DEF NextRun
    <3>2. cut' = FALSE /\ cut' \in BOOLEAN
      BY <1>6, Zenon DEF NextRun
    <3> QED
      BY <3>1, <3>2, RedactionAssumption DEF CaptureOK
  <2> QED
    BY <1>6, <2>1 DEF NextRun, RedactionInv, Idle
<1>7. CASE UNCHANGED redactionVars
  <2>1. AllSpans' = AllSpans /\ Redacted' = Redacted
    BY <1>7 DEF redactionVars, AllSpans, Redacted
  <2> QED
    BY <1>7, <2>1 DEF redactionVars, RedactionInv, CaptureOK, Idle, LoopOK, DoneOK, Within
<1> QED
  BY <1>1, <1>2, <1>3, <1>4, <1>5, <1>6, <1>7 DEF RedactionNext

\* A beginning of the redacted capture holds no redacted byte, and is in order;
\* it is all of it when it is short of the limit.
LEMMA BeginningOfOutput ==
  ASSUME CaptureOK, NEW w, OutputSoFar(w, Len(buf) + 1, Redacted),
         written = SubSeq(w, 1, Lesser(Len(w), ReturnBytes))
  PROVE  /\ Returned \subseteq (1..Len(buf)) \ Redacted
         /\ \A i, j \in DOMAIN written :
              written[i] # Label /\ written[j] # Label /\ i < j => written[i] < written[j]
         /\ Len(w) <= ReturnBytes => Returned = (1..Len(buf)) \ Redacted
         /\ Len(written) < ReturnBytes => Len(w) <= ReturnBytes
<1>1. w \in Seq(Nat) /\ Len(w) \in Nat /\ Len(buf) \in Nat /\ ReturnBytes \in Nat
  BY RedactionAssumption DEF OutputSoFar, CaptureOK
<1>2. PICK m \in Nat : /\ m = Lesser(Len(w), ReturnBytes) /\ m <= Len(w)
                      /\ (Len(w) <= ReturnBytes => m = Len(w))
                      /\ (m < ReturnBytes => m = Len(w))
  BY <1>1 DEF Lesser
<1>3. written \in Seq(Nat) /\ Len(written) = m /\ \A i \in 1..m : written[i] = w[i]
  <2> DEFINE q == SubSeq(w, 1, m)
  <2>1. q \in Seq(Nat) /\ Len(q) = m /\ \A i \in 1..m : q[i] = w[i]
    BY <1>1, <1>2, BeginningIs
  <2>2. written = q
    BY <1>2
  <2> HIDE DEF q
  <2> QED
    BY <2>1, <2>2
<1>4. DOMAIN written = 1..m /\ 1..m \subseteq 1..Len(w)
  BY <1>1, <1>2, <1>3
<1>5. \A i \in 1..m : written[i] = Label \/ (written[i] \in 1..Len(buf) /\ written[i] \notin Redacted)
  BY <1>1, <1>3, <1>4 DEF OutputSoFar
<1>6. \A i, j \in 1..m :
        written[i] # Label /\ written[j] # Label /\ i < j => written[i] < written[j]
  BY <1>3, <1>4 DEF OutputSoFar
<1>7. ASSUME Len(w) <= ReturnBytes, NEW x \in 1..Len(buf), x \notin Redacted
      PROVE  x \in Returned
  <2>1. PICK i \in 1..Len(w) : w[i] = x
    BY <1>1, <1>7 DEF OutputSoFar
  <2>2. i \in DOMAIN written /\ written[i] = x
    BY <1>2, <1>3, <1>4, <1>7, <2>1
  <2>3. x # Label
    BY DEF Label
  <2> QED
    BY <2>2, <2>3, Zenon DEF Returned
<1>8. Returned \subseteq (1..Len(buf)) \ Redacted
  BY <1>4, <1>5 DEF Returned
<1>9. Len(w) <= ReturnBytes => Returned = (1..Len(buf)) \ Redacted
  BY <1>7, <1>8
<1>10. Len(written) < ReturnBytes => Len(w) <= ReturnBytes
  BY <1>1, <1>2, <1>3
<1> QED
  BY <1>4, <1>6, <1>8, <1>9, <1>10

\* Redact, capture and clip: for any values, any sizes of the buffers and any way
\* the command writes, the agent is given no byte of a value, and everything else
\* in order, or is told that it was not (OutputIsRedacted).
THEOREM OutputRedacted == RedactionSpec => []OutputIsRedacted
<1>1. RedactionInv => OutputIsRedacted
  <2> SUFFICES ASSUME RedactionInv PROVE OutputIsRedacted
    OBVIOUS
  <2>1. SlicesAreValid
    BY DEF RedactionInv, SlicesAreValid, LoopOK, Idle
  <2>2. CASE at # "done"
    BY <2>1, <2>2 DEF OutputIsRedacted, NothingIsLeaked, NothingElseIsTaken
  <2>3. CASE at = "done"
    <3>1. CaptureOK
      BY DEF RedactionInv
    <3>2. PICK w : /\ OutputSoFar(w, Len(buf) + 1, Redacted)
                   /\ written = SubSeq(w, 1, Lesser(Len(w), ReturnBytes))
                   /\ truncated \in BOOLEAN
                   /\ truncated = FALSE => cut = FALSE /\ Len(w) <= ReturnBytes
      BY <2>3 DEF RedactionInv, DoneOK
    <3>3. /\ Returned \subseteq (1..Len(buf)) \ Redacted
          /\ \A i, j \in DOMAIN written :
               written[i] # Label /\ written[j] # Label /\ i < j => written[i] < written[j]
          /\ Len(w) <= ReturnBytes => Returned = (1..Len(buf)) \ Redacted
          /\ Len(written) < ReturnBytes => Len(w) <= ReturnBytes
      BY <3>1, <3>2, BeginningOfOutput
    <3>4. NothingIsLeaked
      <4>1. ASSUME NEW x \in Returned, x \in Covered(Occurrences(printed)) PROVE FALSE
        <5>1. PICK s \in Occurrences(printed) : x \in s.start..s.end - 1
          BY <4>1, CoveredIs
        <5>2. x \in 1..Len(buf) /\ x \notin Redacted
          BY <3>3
        <5> QED
          BY <3>1, <5>1, <5>2, PrintedIsCovered DEF CaptureOK
      <4> QED
        BY <4>1 DEF NothingIsLeaked
    <3> DEFINE mayBegin == IF cut THEN Covered(Fragments(buf)) ELSE {}
    <3>5. Redacted = Covered(Occurrences(buf)) \cup mayBegin
      BY DEF Redacted, AllSpans, Covered
    <3>6. ASSUME truncated # TRUE
          PROVE  Returned = (1..Len(printed)) \ Covered(Occurrences(printed))
      <4>1. truncated = FALSE
        BY <3>2, <3>6
      <4>2. cut = FALSE /\ Len(w) <= ReturnBytes
        BY <3>2, <4>1
      <4>3. buf = printed
        BY <3>1, <4>2, SameSequence DEF CaptureOK
      <4>4. Redacted = Covered(Occurrences(printed))
        BY <3>5, <4>2, <4>3
      <4> QED
        BY <3>3, <4>2, <4>3, <4>4
    <3>7. Len(written) < ReturnBytes =>
            Returned = (1..Len(buf)) \ (Covered(Occurrences(buf)) \cup mayBegin)
      BY <3>3, <3>5
    <3>8. NothingElseIsTaken
      <4>1. truncated = TRUE \/ Returned = (1..Len(printed)) \ Covered(Occurrences(printed))
        BY <3>6
      <4> QED
        BY <3>3, <3>7, <4>1 DEF NothingElseIsTaken
    <3> QED
      BY <2>1, <3>4, <3>8 DEF OutputIsRedacted
  <2> QED
    BY <2>2, <2>3
<1> QED
  BY <1>1, RedactionInvInit, RedactionInvNext, PTL DEF RedactionSpec
=============================================================================

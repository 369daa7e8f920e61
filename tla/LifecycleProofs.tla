-------------------------- MODULE LifecycleProofs --------------------------
(***************************************************************************)
(* The parts of the lifecycle, for any number of processes, destinations,  *)
(* links and operations.                                                   *)
(***************************************************************************)
EXTENDS LifecycleLease, EvidenceChain, DeployInOrder, RotationLab, TLAPS
LOCAL INSTANCE SequencesExt

-----------------------------------------------------------------------------
(* DeployInOrder *)

\* The destinations before the loop's variable run the new secret, the others
\* the old one.
NewUpTo(n) == \A d \in Destination : live[d] = IF d <= n THEN "new" ELSE "old"

\* While destinations are rolled back those that remain are an initial segment,
\* in which the new secret runs up to some point; and outside of it, only where
\* the rollback has failed.
RollingInv ==
  /\ \E k \in 0..Targets : affected = 1..k
  /\ \A d, e \in affected : d < e /\ live[e] = "new" => live[d] = "new"
  /\ \A d \in Destination \ affected : live[d] = "new" => d \in failed \ rolled
  /\ (rolled \cup failed) \cap affected = {}

DeployInv ==
  /\ DeployTypeOK
  /\ doing \in {"staging", "activating", "verifying"} =>
       index >= 1 /\ affected = {} /\ rolled = {} /\ failed = {}
  /\ doing = "staging" => NewUpTo(0)
  /\ doing = "activating" => NewUpTo(index - 1)
  /\ doing = "verifying" => NewUpTo(index)
  /\ doing = "deployed" => NewUpTo(Targets)
  /\ doing \in {"rolling", "failed"} => RollingInv
  /\ doing = "failed" => affected = {}

\* The loop of rollback takes the last destination that remains.
LEMMA LastOfSegment ==
  ASSUME NEW k \in Nat, k # 0
  PROVE  LastOf(1..k) = k
<1>1. k \in 1..k /\ \A e \in 1..k : e <= k
  OBVIOUS
<1>2. LastOf(1..k) \in 1..k /\ \A e \in 1..k : e <= LastOf(1..k)
  BY <1>1 DEF LastOf
<1> QED
  BY <1>1, <1>2

\* A rollback begins with the new secret running up to some destination.
LEMMA BeginRolling ==
  ASSUME DeployTypeOK, rolled = {}, failed = {}, NEW n \in 0..Targets, NEW m \in 0..Targets,
         RollBackTo(n), live' \in [Destination -> {"old", "new"}], NewUpTo(m)', m <= n
  PROVE  DeployInv'
<1>1. doing' = "rolling" /\ index' = n /\ affected' = 1..n /\ rolled' = {} /\ failed' = {}
  BY DEF RollBackTo
<1>2. DeployTypeOK'
  <2>1. 1..n \subseteq Destination
    BY TargetsIsNat DEF Destination
  <2> QED
    BY <1>1, <2>1 DEF DeployTypeOK
<1>3. RollingInv'
  BY <1>1, TargetsIsNat DEF RollingInv, NewUpTo, Destination
<1> QED
  BY <1>1, <1>2, <1>3 DEF DeployInv

LEMMA DeployInvHolds == DeploySpec => []DeployInv
<1>1. DeployInit => DeployInv
  BY TargetsIsNat DEF DeployInit, DeployInv, DeployTypeOK, NewUpTo, Destination
<1>2. DeployInv /\ [DeployNext]_deployVars => DeployInv'
  <2> SUFFICES ASSUME DeployInv, [DeployNext]_deployVars PROVE DeployInv'
    OBVIOUS
  <2>1. CASE Stage
    <3>1. CASE RollBackTo(index - 1)
      <4>1. index - 1 \in 0..Targets /\ NewUpTo(0)' /\ live' = live
        BY <2>1, TargetsIsNat DEF Stage, DeployInv, DeployTypeOK, NewUpTo
      <4> QED
        BY <2>1, <3>1, <4>1, BeginRolling, TargetsIsNat DEF Stage, DeployInv, DeployTypeOK
    <3>2. CASE index < Targets /\ Proceed("staging", index + 1)
      BY <2>1, <3>2, TargetsIsNat DEF Stage, Proceed, DeployInv, DeployTypeOK, NewUpTo
    <3>3. CASE ~(index < Targets) /\ Proceed("activating", 1)
      BY <2>1, <3>3, TargetsIsNat DEF Stage, Proceed, DeployInv, DeployTypeOK, NewUpTo
    <3> QED
      BY <2>1, <3>1, <3>2, <3>3 DEF Stage
  <2>2. CASE Activate
    <3>1. /\ index \in 1..Targets /\ NewUpTo(index - 1) /\ rolled = {} /\ failed = {}
          /\ affected = {} /\ live \in [Destination -> {"old", "new"}] /\ DeployTypeOK
      BY <2>2 DEF Activate, DeployInv, DeployTypeOK
    <3>2. ASSUME live' = [live EXCEPT ![index] = "new"]
          PROVE  live' \in [Destination -> {"old", "new"}]
      BY <3>1, <3>2
    <3>3. ASSUME live' = [live EXCEPT ![index] = "new"], NEW i \in Nat, i = index
          PROVE  NewUpTo(i)'
      BY <3>1, <3>3 DEF NewUpTo, Destination
    <3>4. CASE live' = [live EXCEPT ![index] = "new"] /\ Proceed("verifying", index)
      BY <3>1, <3>2, <3>3, <3>4 DEF Proceed, DeployInv, DeployTypeOK
    <3>5. CASE live' \in {live, [live EXCEPT ![index] = "new"]} /\ RollBackAll
      <4>1. CASE live' = live
        BY <3>1, <3>5, <4>1, BeginRolling, TargetsIsNat DEF RollBackAll, NewUpTo
      <4>2. CASE live' = [live EXCEPT ![index] = "new"]
        BY <3>1, <3>2, <3>3, <3>5, <4>2, BeginRolling, TargetsIsNat DEF RollBackAll
      <4> QED
        BY <3>5, <4>1, <4>2
    <3> QED
      BY <2>2, <3>4, <3>5 DEF Activate
  <2>3. CASE VerifyHealth
    <3>1. /\ index \in 1..Targets /\ NewUpTo(index) /\ rolled = {} /\ failed = {}
          /\ affected = {} /\ live \in [Destination -> {"old", "new"}] /\ DeployTypeOK
          /\ live' = live
      BY <2>3 DEF VerifyHealth, DeployInv, DeployTypeOK
    <3>2. CASE RollBackAll
      <4>1. PICK m \in 1..Targets : m = index
        BY <3>1
      <4>2. NewUpTo(m)'
        BY <3>1, <4>1 DEF NewUpTo
      <4> QED
        BY <3>1, <3>2, <4>2, BeginRolling, TargetsIsNat DEF RollBackAll
    <3>3. CASE index < Targets /\ Proceed("activating", index + 1)
      BY <3>1, <3>3, TargetsIsNat DEF Proceed, DeployInv, DeployTypeOK, NewUpTo
    <3>4. CASE ~(index < Targets) /\ Proceed("deployed", 0)
      BY <3>1, <3>4, TargetsIsNat DEF Proceed, DeployInv, DeployTypeOK, NewUpTo
    <3> QED
      BY <2>3, <3>2, <3>3, <3>4 DEF VerifyHealth
  <2>4. CASE RollBackOne
    <3>1. DeployTypeOK /\ RollingInv /\ doing = "rolling" /\ affected # {}
      BY <2>4 DEF RollBackOne, DeployInv
    <3>2. PICK k \in 0..Targets : affected = 1..k
      BY <3>1 DEF RollingInv
    <3>3. k \in 1..Targets /\ LastOf(affected) = k
      BY <3>1, <3>2, LastOfSegment, TargetsIsNat
    <3>4. affected' = 1..(k - 1) /\ k \in Destination /\ doing' = "rolling" /\ index' = index
      BY <2>4, <3>2, <3>3 DEF RollBackOne, Destination
    <3>5. /\ live' \in [Destination -> {"old", "new"}]
          /\ \A d \in Destination : d # k => live'[d] = live[d]
          /\ rolled \subseteq rolled' /\ rolled' \subseteq rolled \cup {k}
          /\ failed \subseteq failed' /\ failed' \subseteq failed \cup {k}
          /\ live'[k] = "new" => k \in failed' \ rolled'
      BY <2>4, <3>1, <3>2, <3>3, <3>4 DEF RollBackOne, RollingInv, DeployTypeOK
    <3>6. DeployTypeOK'
      BY <3>1, <3>4, <3>5, TargetsIsNat DEF DeployTypeOK, Destination
    <3>7. RollingInv'
      <4>1. k - 1 \in 0..Targets
        BY <3>3, TargetsIsNat
      <4>2. affected' \subseteq affected /\ k \notin affected' /\ affected' \subseteq Destination
        BY <3>2, <3>3, <3>4, TargetsIsNat DEF Destination
      <4>3. \A d, e \in affected' : d < e /\ live'[e] = "new" => live'[d] = "new"
        BY <3>1, <3>5, <4>2 DEF RollingInv
      <4>4. \A d \in Destination \ affected' : live'[d] = "new" => d \in failed' \ rolled'
        <5>1. Destination \ affected' \subseteq (Destination \ affected) \cup {k}
          BY <3>2, <3>3, <3>4 DEF Destination
        <5>2. ASSUME NEW d \in Destination \ affected, d # k, live'[d] = "new"
              PROVE  d \in failed' \ rolled'
          BY <3>1, <3>5, <5>2 DEF RollingInv
        <5> QED
          BY <3>5, <5>1, <5>2
      <4>5. (rolled' \cup failed') \cap affected' = {}
        BY <3>1, <3>5, <4>2 DEF RollingInv
      <4> QED
        BY <3>4, <4>1, <4>3, <4>4, <4>5 DEF RollingInv
    <3> QED
      BY <3>4, <3>6, <3>7 DEF DeployInv
  <2>5. CASE ReturnFailure
    BY <2>5, TargetsIsNat DEF ReturnFailure, Proceed, DeployInv, DeployTypeOK, RollingInv
  <2>6. CASE UNCHANGED deployVars
    BY <2>6 DEF deployVars, DeployInv, DeployTypeOK, RollingInv, NewUpTo
  <2> QED
    BY <2>1, <2>2, <2>3, <2>4, <2>5, <2>6 DEF DeployNext
<1> QED
  BY <1>1, <1>2, PTL DEF DeploySpec

\* DeployInOrder for any number of destinations, whatever fails and whether or
\* not it took effect: nothing is left behind unnoticed, and nothing ahead of
\* the destinations before it.
THEOREM DeploymentOrderly == DeploySpec => []DeploymentIsOrderly
<1>1. DeployInv => DeploymentIsOrderly
  <2> SUFFICES ASSUME DeployInv PROVE NoneIsForgotten /\ OrderIsKept
    BY DEF DeploymentIsOrderly
  <2>1. NoneIsForgotten
    BY DEF NoneIsForgotten, DeployInv, RollingInv
  <2>2. ASSUME NEW n \in Int, NewUpTo(n) PROVE OrderIsKept
    BY <2>2 DEF NewUpTo, OrderIsKept, Destination
  <2>3. ASSUME RollingInv PROVE OrderIsKept
    <3> SUFFICES ASSUME NEW d \in Destination, NEW e \in Destination,
                        d < e, live[e] = "new", live[d] = "old"
                 PROVE  e \in failed
      BY DEF OrderIsKept
    <3>1. CASE e \in affected
      <4>1. d \in affected
        BY <2>3, <3>1 DEF RollingInv, Destination
      <4> QED
        BY <2>3, <3>1, <4>1 DEF RollingInv
    <3>2. CASE e \notin affected
      BY <2>3, <3>2 DEF RollingInv
    <3> QED
      BY <3>1, <3>2
  <2>4. index \in Int /\ index - 1 \in Int /\ Targets \in Int
    BY TargetsIsNat DEF DeployInv, DeployTypeOK
  <2> QED
    BY <2>1, <2>2, <2>3, <2>4 DEF DeployInv, DeployTypeOK
<1> QED
  BY <1>1, DeployInvHolds, PTL

-----------------------------------------------------------------------------
(* LifecycleLease *)

cell == cells[Bundle]

Lasting == {"holding", "releasing"}

\* What a process knows of the stored lease, if that has not been deleted since
\* it looked: it is the one that was loaded, or a later one.
PuttingKnows(q) ==
  phase[q] = "putting" /\ loaded[q] > 0 /\ seenAt[q] = deletes =>
    /\ loaded[q] <= cell.revision
    /\ loaded[q] = cell.revision => begun[q] >= cell.value.expires

ReleasingKnows(q) ==
  phase[q] = "releasing" /\ seenAt[q] = deletes =>
    /\ held[q].revision <= cell.revision
    /\ held[q].revision = cell.revision => cell.value.owner = q

\* A lease that is held and has not expired is the one that is stored.
HeldIsStored(p) ==
  Holds(p) => /\ cell.revision = held[p].revision
              /\ cell.value.owner = p
              /\ cell.value.expires = held[p].expires

LeaseLocals(p) ==
  /\ begun[p] <= now
  /\ phase[p] # "putting" => loaded[p] = 0
  /\ seenAt[p] <= deletes
  /\ phase[p] \in Lasting => held[p].revision >= 1

LeaseInv ==
  /\ TypeOK
  /\ cell.revision # 0 => cell.value \in Lease
  /\ \A p \in Owner : LeaseLocals(p) /\ PuttingKnows(p) /\ ReleasingKnows(p)
  /\ crossed \/ \A p \in Owner : HeldIsStored(p)

\* What a step of p that leaves the stored lease alone has to keep: the others
\* know and hold what they did.
LEMMA LeaseUntouched ==
  ASSUME LeaseInv, NEW p \in Owner, TypeOK',
         UNCHANGED <<cells, now, deletes, crossed>>,
         \A q \in Owner : q # p => /\ phase'[q] = phase[q]
                                   /\ begun'[q] = begun[q]
                                   /\ loaded'[q] = loaded[q]
                                   /\ held'[q] = held[q]
                                   /\ seenAt'[q] = seenAt[q],
         LeaseLocals(p)', PuttingKnows(p)', ReleasingKnows(p)', crossed \/ HeldIsStored(p)'
  PROVE  LeaseInv'
<1>1. cell' = cell
  BY DEF cell
<1>2. ASSUME NEW q \in Owner
      PROVE  LeaseLocals(q)' /\ PuttingKnows(q)' /\ ReleasingKnows(q)'
  <2>1. CASE q = p
    BY <2>1
  <2>2. CASE q # p
    BY <1>1, <2>2 DEF LeaseInv, LeaseLocals, PuttingKnows, ReleasingKnows
  <2> QED
    BY <2>1, <2>2
<1>3. ASSUME NEW q \in Owner, ~crossed
      PROVE  HeldIsStored(q)'
  <2>1. CASE q = p
    BY <1>3, <2>1
  <2>2. CASE q # p
    BY <1>1, <1>3, <2>2 DEF LeaseInv, HeldIsStored, Holds
  <2> QED
    BY <2>1, <2>2
<1> QED
  BY <1>1, <1>2, <1>3 DEF LeaseInv

\* The put of a lease, whether or not its response arrives.
LEMMA LeaseOverwritten ==
  ASSUME LeaseInv, NEW p \in Owner, phase[p] = "putting", Overwrite(p),
         NEW next \in {"idle", "holding"}, Return(p, next), UNCHANGED now,
         \/ next = "idle" /\ UNCHANGED held
         \/ /\ next = "holding"
            /\ held' = [held EXCEPT ![p] = [expires |-> begun[p] + TTL,
                                            revision |-> loaded[p] + 1]]
  PROVE  LeaseInv'
<1>1. /\ cell.revision = loaded[p]
      /\ cell' = [revision |-> loaded[p] + 1, basis |-> loaded[p], value |-> NewLease(p)]
      /\ UNCHANGED <<deletes, seenAt, now>>
      /\ crossed' = (crossed \/ (loaded[p] # 0 /\ seenAt[p] # deletes))
  BY LeaseConstants DEF Overwrite, Put, Writes, cell, LeaseInv, TypeOK
<1>2. loaded[p] \in Nat /\ begun[p] \in Nat /\ TTL \in Nat /\ now \in Nat /\ begun[p] <= now
  BY LeaseConstants DEF LeaseInv, TypeOK, LeaseLocals
<1>3. /\ phase' \in [Owner -> Phases] /\ phase'[p] = next
      /\ begun' \in [Owner -> Nat] /\ begun'[p] = 0
      /\ loaded' \in [Owner -> Nat] /\ loaded'[p] = 0
      /\ held' \in [Owner -> [expires : Nat, revision : Nat]]
      /\ \A q \in Owner : q # p => /\ phase'[q] = phase[q]
                                   /\ begun'[q] = begun[q]
                                   /\ loaded'[q] = loaded[q]
                                   /\ held'[q] = held[q]
  BY <1>2 DEF LeaseInv, TypeOK, Return, Phases
<1>4. NewLease(p) \in Lease /\ NewLease(p).owner = p /\ NewLease(p).expires = begun[p] + TTL
  BY <1>2 DEF NewLease, Lease
<1>5. TypeOK'
  <2>1. cells' \in [Cell -> [revision : Nat, basis : Nat, value : Lease \cup {NoValue}]]
    BY <1>2, <1>4, LeaseConstants DEF Overwrite, Put, LeaseInv, TypeOK
  <2>2. crossed' \in BOOLEAN
    BY <1>1, Zenon
  <2> QED
    BY <1>1, <1>3, <2>1, <2>2 DEF TypeOK, LeaseInv
<1>6. ASSUME NEW q \in Owner
      PROVE  LeaseLocals(q)' /\ PuttingKnows(q)' /\ ReleasingKnows(q)'
  <2>1. CASE q = p
    <3>1. held'[p].revision >= 1 \/ next = "idle"
      BY <1>2, <1>3 DEF LeaseInv, TypeOK
    <3> QED
      BY <1>1, <1>2, <1>3, <2>1, <3>1
      DEF LeaseInv, LeaseLocals, PuttingKnows, ReleasingKnows, Lasting
  <2>2. CASE q # p
    <3>1. loaded[q] \in Nat /\ held[q].revision \in Nat /\ cell'.revision = cell.revision + 1
      BY <1>1 DEF LeaseInv, TypeOK
    <3>2. LeaseLocals(q)'
      BY <1>1, <1>3, <2>2 DEF LeaseInv, LeaseLocals
    <3>3. PuttingKnows(q)'
      BY <1>1, <1>2, <1>3, <2>2, <3>1 DEF LeaseInv, PuttingKnows
    <3>4. ReleasingKnows(q)'
      BY <1>1, <1>2, <1>3, <2>2, <3>1 DEF LeaseInv, ReleasingKnows
    <3> QED
      BY <3>2, <3>3, <3>4
  <2> QED
    BY <2>1, <2>2
<1>7. ASSUME ~crossed', NEW q \in Owner
      PROVE  HeldIsStored(q)'
  <2>1. ~crossed /\ (loaded[p] = 0 \/ seenAt[p] = deletes)
    BY <1>1, <1>7
  <2>2. CASE q = p
    BY <1>1, <1>2, <1>3, <1>4, <2>2 DEF HeldIsStored, Holds, LeaseInv, TypeOK
  <2>3. CASE q # p
    <3>1. SUFFICES ASSUME Holds(q) PROVE FALSE
      BY <1>1, <1>3, <2>3 DEF HeldIsStored, Holds
    <3>2. /\ cell.revision = held[q].revision /\ cell.value.expires = held[q].expires
          /\ held[q].revision >= 1 /\ now < held[q].expires
      BY <2>1, <3>1 DEF LeaseInv, HeldIsStored, LeaseLocals, Holds, Lasting
    <3>3. loaded[p] > 0 /\ seenAt[p] = deletes
      BY <1>1, <1>2, <2>1, <3>2
    <3>4. begun[p] >= cell.value.expires
      BY <1>1, <3>3 DEF LeaseInv, PuttingKnows
    <3> QED
      BY <1>2, <3>2, <3>4 DEF LeaseInv, TypeOK
  <2> QED
    BY <2>2, <2>3
<1> QED
  BY <1>1, <1>4, <1>5, <1>6, <1>7 DEF LeaseInv

\* The deletion by a process that releases its lease.
LEMMA LeaseDeleted ==
  ASSUME LeaseInv, NEW p \in Owner, phase[p] = "releasing",
         Delete(Bundle, held[p].revision), deletes' = deletes + 1, Writes(p),
         held' = [held EXCEPT ![p] = NoLease], Return(p, "idle"), UNCHANGED <<now, seenAt>>
  PROVE  LeaseInv'
<1>1. cell' = Absent /\ cell.revision = held[p].revision
  BY LeaseConstants DEF Delete, cell, LeaseInv, TypeOK
<1>2. /\ phase' \in [Owner -> Phases] /\ phase'[p] = "idle"
      /\ begun' \in [Owner -> Nat] /\ begun'[p] = 0
      /\ loaded' \in [Owner -> Nat] /\ loaded'[p] = 0
      /\ held' \in [Owner -> [expires : Nat, revision : Nat]]
      /\ \A q \in Owner : q # p => /\ phase'[q] = phase[q]
                                   /\ begun'[q] = begun[q]
                                   /\ loaded'[q] = loaded[q]
                                   /\ held'[q] = held[q]
  BY DEF LeaseInv, TypeOK, Return, Phases, NoLease
<1>3. TypeOK'
  <2>1. cells' \in [Cell -> [revision : Nat, basis : Nat, value : Lease \cup {NoValue}]]
    BY LeaseConstants DEF Delete, Absent, LeaseInv, TypeOK
  <2>2. crossed' \in BOOLEAN
    BY Zenon DEF Writes
  <2> QED
    BY <1>2, <2>1, <2>2 DEF TypeOK, LeaseInv
<1>4. \A q \in Owner : seenAt'[q] <= deletes' /\ seenAt'[q] # deletes'
  BY DEF LeaseInv, LeaseLocals, TypeOK
<1>5. ASSUME NEW q \in Owner
      PROVE  LeaseLocals(q)' /\ PuttingKnows(q)' /\ ReleasingKnows(q)'
  <2>1. PuttingKnows(q)' /\ ReleasingKnows(q)'
    BY <1>4 DEF PuttingKnows, ReleasingKnows
  <2>2. LeaseLocals(q)'
    BY <1>2, <1>4 DEF LeaseInv, LeaseLocals, Lasting, TypeOK
  <2> QED
    BY <2>1, <2>2
<1>6. ASSUME ~crossed', NEW q \in Owner
      PROVE  HeldIsStored(q)'
  <2>1. ~crossed /\ seenAt[p] = deletes
    BY <1>6 DEF Writes
  <2>2. cell.value.owner = p
    BY <1>1, <2>1 DEF LeaseInv, ReleasingKnows
  <2>3. ~Holds(q)'
    BY <1>2, <2>1, <2>2 DEF LeaseInv, HeldIsStored, Holds
  <2> QED
    BY <2>3 DEF HeldIsStored
<1>7. cell'.revision = 0
  BY <1>1 DEF Absent
<1> QED
  BY <1>3, <1>5, <1>6, <1>7 DEF LeaseInv

LEMMA LeaseInvHolds == Spec => []LeaseInv
<1>1. Init => LeaseInv
  <2> SUFFICES ASSUME Init PROVE LeaseInv
    OBVIOUS
  <2>1. TypeOK
    BY LeaseConstants DEF Init, StoreInit, Absent, TypeOK, Phases, NoLease
  <2>2. cell.revision = 0
    BY LeaseConstants DEF Init, StoreInit, Absent, cell
  <2> QED
    BY <2>1, <2>2 DEF Init, LeaseInv, LeaseLocals, PuttingKnows, ReleasingKnows, HeldIsStored,
                      Holds, Lasting
<1>2. LeaseInv /\ [Next]_vars => LeaseInv'
  <2> SUFFICES ASSUME LeaseInv, [Next]_vars PROVE LeaseInv'
    OBVIOUS
  <2>1. ASSUME NEW p \in Owner, AcquireLease(p) PROVE LeaseInv'
    <3>1. LeaseLocals(p)' /\ PuttingKnows(p)' /\ ReleasingKnows(p)' /\ HeldIsStored(p)' /\ TypeOK'
      BY <2>1 DEF AcquireLease, historyVars, LeaseInv, TypeOK, LeaseLocals, PuttingKnows,
                  ReleasingKnows, HeldIsStored, Holds, Phases, Lasting
    <3> QED
      BY <2>1, <3>1, LeaseUntouched DEF AcquireLease, historyVars, LeaseInv, TypeOK
  <2>2. ASSUME NEW p \in Owner, phase[p] \notin Lasting \/ held' = [held EXCEPT ![p] = NoLease],
               held' \in {held, [held EXCEPT ![p] = NoLease]},
               Return(p, "idle"), UNCHANGED <<cells, now, historyVars>>
        PROVE  LeaseInv'
    <3>1. LeaseLocals(p)' /\ PuttingKnows(p)' /\ ReleasingKnows(p)' /\ HeldIsStored(p)' /\ TypeOK'
      BY <2>2 DEF Return, historyVars, LeaseInv, TypeOK, LeaseLocals, PuttingKnows, NoLease,
                  ReleasingKnows, HeldIsStored, Holds, Phases, Lasting
    <3> QED
      BY <2>2, <3>1, LeaseUntouched DEF Return, historyVars, LeaseInv, TypeOK
  <2>3. ASSUME NEW p \in Owner, LoadExpired(p) PROVE LeaseInv'
    <3>1. TypeOK' /\ UNCHANGED <<cells, now, deletes, crossed>>
      BY <2>3, LeaseConstants DEF LoadExpired, Sees, LeaseInv, TypeOK, Phases
    <3>2. LeaseLocals(p)' /\ ReleasingKnows(p)' /\ HeldIsStored(p)'
      BY <2>3, <3>1 DEF LoadExpired, Sees, LeaseInv, TypeOK, LeaseLocals, ReleasingKnows,
                        HeldIsStored, Holds, Lasting
    <3>3. PuttingKnows(p)'
      <4>1. loaded'[p] = cell.revision /\ begun'[p] = begun[p] /\ cell' = cell
        BY <2>3 DEF LoadExpired, LeaseInv, TypeOK, cell
      <4>2. cell.value.expires \in Nat /\ begun[p] \in Nat /\ cell.revision \in Nat
        BY <2>3, LeaseConstants DEF LoadExpired, LeaseInv, TypeOK, cell, Lease
      <4>3. begun[p] >= cell.value.expires
        BY <2>3, <4>2 DEF LoadExpired, Unexpired, cell
      <4> QED
        BY <4>1, <4>2, <4>3 DEF PuttingKnows
    <3> QED
      BY <2>3, <3>1, <3>2, <3>3, LeaseUntouched DEF LoadExpired, Sees, LeaseInv, TypeOK
  <2>4. ASSUME NEW p \in Owner, LoadFails(p) PROVE LeaseInv'
    <3>1. LeaseLocals(p)' /\ PuttingKnows(p)' /\ ReleasingKnows(p)' /\ HeldIsStored(p)' /\ TypeOK'
      BY <2>4 DEF LoadFails, historyVars, LeaseInv, TypeOK, LeaseLocals, PuttingKnows,
                  ReleasingKnows, HeldIsStored, Holds, Phases, Lasting
    <3> QED
      BY <2>4, <3>1, LeaseUntouched DEF LoadFails, historyVars, LeaseInv, TypeOK
  <2>5. ASSUME NEW p \in Owner, PutLease(p) PROVE LeaseInv'
    BY <2>5, LeaseOverwritten DEF PutLease
  <2>6. ASSUME NEW p \in Owner, PutFails(p) PROVE LeaseInv'
    BY <2>2, <2>6, LeaseOverwritten DEF PutFails, Lasting
  <2>7. ASSUME NEW p \in Owner, ReleaseLoad(p) PROVE LeaseInv'
    <3>1. TypeOK' /\ UNCHANGED <<cells, now, deletes, crossed>> /\ cell' = cell
      BY <2>7 DEF ReleaseLoad, Sees, LeaseInv, TypeOK, Phases, cell
    <3>2. LeaseLocals(p)' /\ PuttingKnows(p)' /\ ReleasingKnows(p)'
      BY <2>7, <3>1 DEF ReleaseLoad, Sees, LeaseInv, TypeOK, LeaseLocals, PuttingKnows,
                        ReleasingKnows, Lasting, cell
    <3>3. crossed \/ HeldIsStored(p)'
      BY <2>7, <3>1 DEF ReleaseLoad, LeaseInv, TypeOK, HeldIsStored, Holds
    <3> QED
      BY <2>7, <3>1, <3>2, <3>3, LeaseUntouched DEF ReleaseLoad, Sees, LeaseInv, TypeOK
  <2>8. ASSUME NEW p \in Owner, ReleaseDelete(p) PROVE LeaseInv'
    BY <2>2, <2>8, LeaseDeleted DEF ReleaseDelete
  <2>9. CASE Tick
    <3>1. TypeOK' /\ cell' = cell /\ now' = now + 1 /\ now \in Nat
      BY <2>9 DEF Tick, historyVars, LeaseInv, TypeOK, cell
    <3>2. \A p \in Owner : LeaseLocals(p)' /\ PuttingKnows(p)' /\ ReleasingKnows(p)'
      BY <2>9, <3>1 DEF Tick, historyVars, LeaseInv, TypeOK, LeaseLocals, PuttingKnows, ReleasingKnows
    <3>3. \A p \in Owner : Holds(p)' => Holds(p)
      BY <2>9, <3>1 DEF Tick, LeaseInv, TypeOK, Holds
    <3>4. crossed' \/ \A p \in Owner : HeldIsStored(p)'
      BY <2>9, <3>1, <3>3 DEF Tick, historyVars, LeaseInv, HeldIsStored
    <3> QED
      BY <3>1, <3>2, <3>4 DEF LeaseInv
  <2>10. CASE UNCHANGED vars
    BY <2>10 DEF vars, historyVars, LeaseInv, TypeOK, LeaseLocals, PuttingKnows, ReleasingKnows,
                 HeldIsStored, Holds, cell
  <2>11. ASSUME NEW p \in Owner, LoadHeld(p) \/ ReleaseRefused(p) \/ Crash(p) PROVE LeaseInv'
    BY <2>2, <2>11 DEF LoadHeld, ReleaseRefused, Crash, Lasting
  <2> QED
    BY <2>1, <2>3, <2>4, <2>5, <2>6, <2>7, <2>8, <2>9, <2>10, <2>11 DEF Next
<1> QED
  BY <1>1, <1>2, PTL DEF Spec

\* The lease for any number of processes, any clock and any number of deletions:
\* no two processes hold it at once, as long as none writes or deletes at a
\* revision that it loaded before the lease was deleted and created anew.
THEOREM LeaseExclusion == Spec => []ExclusionWithinOneLife
<1>1. LeaseInv => ExclusionWithinOneLife
  BY DEF LeaseInv, HeldIsStored, ExclusionWithinOneLife, MutualExclusion
<1> QED
  BY <1>1, LeaseInvHolds, PTL

-----------------------------------------------------------------------------
(* EvidenceChain *)

LEMMA PrefixPoints ==
  \A S : \A s, t \in Seq(S) :
    IsPrefix(s, t) <=> Len(s) <= Len(t) /\ \A i \in 1..Len(s) : s[i] = t[i]
BY DEF IsPrefix

LEMMA PrefixTransitive ==
  \A S : \A s, t, u \in Seq(S) : IsPrefix(s, t) /\ IsPrefix(t, u) => IsPrefix(s, u)
<1> SUFFICES ASSUME NEW S, NEW s \in Seq(S), NEW t \in Seq(S), NEW u \in Seq(S),
                    IsPrefix(s, t), IsPrefix(t, u)
             PROVE  IsPrefix(s, u)
  OBVIOUS
<1>1. Len(s) <= Len(t) /\ \A i \in 1..Len(s) : s[i] = t[i]
  BY PrefixPoints
<1>2. Len(t) <= Len(u) /\ \A i \in 1..Len(t) : t[i] = u[i]
  BY PrefixPoints
<1>3. Len(s) <= Len(u) /\ \A i \in 1..Len(s) : s[i] = u[i]
  BY <1>1, <1>2
<1> QED
  BY <1>3, PrefixPoints

\* A prefix of the same length is the whole.
LEMMA PrefixOfSameLength ==
  \A S : \A s, t, u \in Seq(S) :
    IsPrefix(s, t) /\ Len(s) = Len(t) /\ IsPrefix(s, u) => IsPrefix(t, u)
<1> SUFFICES ASSUME NEW S, NEW s \in Seq(S), NEW t \in Seq(S), NEW u \in Seq(S),
                    IsPrefix(s, t), Len(s) = Len(t), IsPrefix(s, u)
             PROVE  IsPrefix(t, u)
  OBVIOUS
<1>1. Len(s) <= Len(t) /\ \A i \in 1..Len(s) : s[i] = t[i]
  BY PrefixPoints
<1>2. Len(s) <= Len(u) /\ \A i \in 1..Len(s) : s[i] = u[i]
  BY PrefixPoints
<1>3. Len(t) <= Len(u) /\ \A i \in 1..Len(t) : t[i] = u[i]
  BY <1>1, <1>2
<1> QED
  BY <1>3, PrefixPoints

LEMMA EmptyPrefix ==
  \A S : \A e, t \in Seq(S) : Len(e) = 0 \/ e = t => IsPrefix(e, t)
<1> SUFFICES ASSUME NEW S, NEW e \in Seq(S), NEW t \in Seq(S), Len(e) = 0 \/ e = t
             PROVE  IsPrefix(e, t)
  OBVIOUS
<1>1. Len(e) <= Len(t) /\ \A i \in 1..Len(e) : e[i] = t[i]
  OBVIOUS
<1> QED
  BY <1>1, PrefixPoints

Appending == [step : {"loading", "putting"}, link : Seq(Writer), found : Seq(Writer)]

\* What a process puts is the chain that it found with one link more; and what
\* it found is a beginning of the stored chain, however much that has grown.
ChainInv ==
  /\ chain \in Seq(Writer)
  /\ last \in [Writer -> Seq(Writer)]
  /\ append \in [Writer -> Appending \cup {NoAppend}]
  /\ \A p \in Writer : append[p].step = "putting" =>
       /\ append[p] \in Appending
       /\ IsPrefix(append[p].found, append[p].link)
       /\ IsPrefix(append[p].found, chain)

\* The stored chain is replaced by one that it is the beginning of.
LEMMA PutExtends ==
  ASSUME ChainInv, NEW p \in Writer, PutChain(p)
  PROVE  append[p] \in Appending /\ IsPrefix(chain, chain')
<1>1. /\ append[p] \in Appending /\ chain \in Seq(Writer) /\ chain' = append[p].link
      /\ IsPrefix(append[p].found, append[p].link)
      /\ IsPrefix(append[p].found, chain)
      /\ Len(chain) = Len(append[p].found)
  BY DEF ChainInv, PutChain, StillAsFound
<1>2. append[p].link \in Seq(Writer) /\ append[p].found \in Seq(Writer)
  BY <1>1 DEF Appending
<1> QED
  BY <1>1, <1>2, PrefixOfSameLength

LEMMA ChainInvHolds == ChainSpec => []ChainInv
<1>1. ChainInit => ChainInv
  BY DEF ChainInit, ChainInv, NoAppend
<1>2. ChainInv /\ [ChainNext]_chainVars => ChainInv'
  <2> SUFFICES ASSUME ChainInv, [ChainNext]_chainVars PROVE ChainInv'
    OBVIOUS
  <2>1. ASSUME NEW p \in Writer, ReadChain(p) PROVE ChainInv'
    BY <2>1 DEF ReadChain, ChainInv
  <2>2. ASSUME NEW p \in Writer, NewEvidence(p) PROVE ChainInv'
    <3> DEFINE new == [step |-> "loading", link |-> Append(last[p], p), found |-> <<>>]
    <3>1. new \in Appending /\ new.step = "loading"
      BY DEF ChainInv, Appending
    <3>2. append' = [append EXCEPT ![p] = new] /\ chain' = chain /\ last' = last
      BY <2>2 DEF NewEvidence
    <3> HIDE DEF new
    <3> QED
      BY <3>1, <3>2 DEF ChainInv
  <2>3. ASSUME NEW p \in Writer, NEW found \in {chain, <<>>}, LoadChain(p, found) PROVE ChainInv'
    <3>1. found \in Seq(Writer) /\ IsPrefix(found, chain)
      <4>1. found \in Seq(Writer) /\ chain \in Seq(Writer) /\ (Len(found) = 0 \/ found = chain)
        <5>1. CASE found = chain
          BY <5>1 DEF ChainInv
        <5>2. CASE found = <<>>
          BY <5>2 DEF ChainInv
        <5> QED
          BY <5>1, <5>2
      <4> QED
        BY <4>1, EmptyPrefix
    <3>2. append[p] \in Appending
      BY <2>3 DEF LoadChain, ChainInv, NoAppend
    <3> DEFINE new == IF Follows(append[p].link, found)
                      THEN [append[p] EXCEPT !.step = "putting", !.found = found]
                      ELSE NoAppend
    <3>3. /\ new \in Appending \cup {NoAppend}
          /\ new.step = "putting" => /\ new \in Appending
                                     /\ new.found = found
                                     /\ IsPrefix(new.found, new.link)
      BY <3>1, <3>2 DEF Appending, NoAppend, Follows
    <3>4. append' = [append EXCEPT ![p] = new] /\ chain' = chain /\ last' = last
      BY <2>3 DEF LoadChain
    <3> HIDE DEF new
    <3> QED
      BY <3>1, <3>3, <3>4 DEF ChainInv
  <2>4. ASSUME NEW p \in Writer, PutChain(p) PROVE ChainInv'
    <3>1. append[p] \in Appending /\ IsPrefix(chain, chain')
      BY <2>4, PutExtends
    <3>2. chain' \in Seq(Writer)
      BY <2>4, <3>1 DEF PutChain, Appending
    <3>3. last' \in [Writer -> Seq(Writer)]
      BY <2>4, <3>1 DEF PutChain, Appending, ChainInv
    <3>4. append' = [append EXCEPT ![p] = NoAppend]
      BY <2>4 DEF PutChain
    <3>5. ASSUME NEW q \in Writer, append'[q].step = "putting"
          PROVE  /\ append'[q] \in Appending
                 /\ IsPrefix(append'[q].found, append'[q].link)
                 /\ IsPrefix(append'[q].found, chain')
      <4>1. q # p /\ append'[q] = append[q]
        BY <3>4, <3>5 DEF ChainInv, NoAppend
      <4>2. /\ append[q] \in Appending
            /\ IsPrefix(append[q].found, append[q].link)
            /\ IsPrefix(append[q].found, chain)
        BY <3>5, <4>1 DEF ChainInv
      <4>3. append[q].found \in Seq(Writer) /\ chain \in Seq(Writer)
        BY <4>2 DEF Appending, ChainInv
      <4> QED
        BY <3>1, <3>2, <4>1, <4>2, <4>3, PrefixTransitive
    <3> QED
      BY <3>2, <3>3, <3>4, <3>5 DEF ChainInv
  <2>5. ASSUME NEW p \in Writer, FailAppend(p) PROVE ChainInv'
    BY <2>5 DEF FailAppend, ChainInv, NoAppend
  <2>6. CASE UNCHANGED chainVars
    BY <2>6 DEF chainVars, ChainInv
  <2> QED
    BY <2>1, <2>2, <2>3, <2>4, <2>5, <2>6 DEF ChainNext
<1> QED
  BY <1>1, <1>2, PTL DEF ChainSpec

\* Any number of processes, links and failed loads: the stored evidence is only
\* ever extended.
THEOREM EvidenceGrows == ChainSpec => EvidenceOnlyGrows
<1>1. ChainInv /\ [ChainNext]_chainVars => [IsPrefix(chain, chain')]_chainVars
  <2> SUFFICES ASSUME ChainInv, ChainNext PROVE IsPrefix(chain, chain')
    OBVIOUS
  <2>1. ASSUME NEW p \in Writer, PutChain(p) PROVE IsPrefix(chain, chain')
    BY <2>1, PutExtends
  <2>2. CASE chain' = chain
    BY <2>2, EmptyPrefix DEF ChainInv
  <2> QED
    BY <2>1, <2>2 DEF ChainNext, ReadChain, NewEvidence, LoadChain, FailAppend
<1> QED
  BY <1>1, ChainInvHolds, PTL DEF ChainSpec, EvidenceOnlyGrows

-----------------------------------------------------------------------------
(* RotationLab *)

Operations == [state : {"planned"} \cup Final \cup Resumable, revision : Nat, attempts : Nat]
Records == [revision : Nat, value : Nat, previous : Nat]
LabStates == [ops : Seq(Operations), record : Records, lease : Nat]

\* Every operation but the last is over; the last holds the lease until it is.
LeaseOK(s) ==
  /\ s.lease \in {0, Len(s.ops)}
  /\ \A o \in DOMAIN s.ops : s.ops[o].state \notin Final <=> o = s.lease

\* The operation that holds the lease: it is verified only with a credential of
\* its own; that is then the current one, and the previous one is the one to be
\* replaced, unless the operation was interrupted and stored it twice.
HolderOK(s, b, i) ==
  /\ s.record.value <= Len(s.ops) /\ s.record.previous <= Len(s.ops)
  /\ \A o \in DOMAIN s.ops : b[o] < o
  /\ s.lease # 0 =>
       /\ s.ops[s.lease].state \in {"verifying", "grace-period"} => s.ops[s.lease].revision # 0
       /\ s.ops[s.lease].revision # 0 =>
            /\ s.record.value = s.lease
            /\ s.lease \notin i => s.record.previous = b[s.lease]

\* A revoked credential is neither current nor, while a rollback could put it
\* back, the previous one.
RevokedOK(s, b) ==
  \/ \E o \in DOMAIN s.ops : s.ops[o].state = "rolled-back" /\ s.ops[o].revision = 0
  \/ \A o \in DOMAIN s.ops : s.ops[o].state = "complete" /\ b[o] # 0 =>
       /\ s.record.value # b[o]
       /\ s.lease # 0 /\ s.ops[s.lease].revision # 0 => s.record.previous # b[o]

StateOK(s, b, i) == s \in LabStates /\ LeaseOK(s) /\ HolderOK(s, b, i) /\ RevokedOK(s, b)

\* Where the call is.
CallOK ==
  /\ call \in [op : Nat, at : {"idle", "create", "deploy", "finish", "failing"} \cup Checkpoints,
               error : Behaviors \cup {"none"}]
  /\ ~At("idle") => call.op = lab.lease /\ call.op # 0
  /\ call.at \in {"store", "stage", "deploy", "activate", "verify", "finish"} => Mine.revision # 0
  /\ At("revoke") => Mine.state = "grace-period"

\* An operation that has stored nothing finds the record as it was; or the record
\* could not be saved, and the operation is about to be rolled back.
UnstoredOK ==
  lab.lease # 0 /\ lab.lease \notin interrupted /\ lab.ops[lab.lease].revision = 0 =>
    \/ lab.record.value = before[lab.lease]
    \/ At("failing") /\ call.error \notin {"ambiguous-commit", "retryable", "rollback-failure"}

\* What is on disk is behind what is in memory, and agrees with it on the
\* operations that are over.  An operation that has stored a credential there, of
\* which it does not know, knows of it in memory: a stop will interrupt it.
DiskOK ==
  /\ Len(disk.ops) <= Len(lab.ops)
  /\ \A o \in DOMAIN disk.ops : disk.ops[o].state \in Final => lab.ops[o] = disk.ops[o]
  /\ disk.lease # 0 /\ disk.lease \notin interrupted /\ disk.ops[disk.lease].revision = 0 =>
       disk.record.value = before[disk.lease] \/ lab.ops[disk.lease].revision # 0

RotationInv ==
  /\ before \in [Ids -> Nat]
  /\ Len(lab.ops) <= MaxOperations
  /\ StateOK(lab, before, interrupted)
  /\ StateOK(disk, before, interrupted)
  /\ CallOK
  /\ UnstoredOK
  /\ DiskOK

\* Whatever the history says of operations that the state does not have.
LEMMA OtherHistory ==
  ASSUME NEW s, NEW b, NEW i, NEW c, NEW j, StateOK(s, b, i),
         \A o \in DOMAIN s.ops : c[o] = b[o] /\ (o \in i => o \in j)
  PROVE  StateOK(s, c, j)
<1>1. s \in LabStates /\ LeaseOK(s)
  BY DEF StateOK
<1>2. s.ops \in Seq(Operations) /\ (s.lease # 0 => s.lease \in DOMAIN s.ops)
  BY <1>1 DEF LabStates, LeaseOK
<1>3. HolderOK(s, c, j)
  BY <1>2 DEF StateOK, HolderOK
<1>4. RevokedOK(s, c)
  BY <1>2 DEF StateOK, RevokedOK
<1> QED
  BY <1>1, <1>3, <1>4 DEF StateOK

\* A state in which only the operation that holds the lease has changed.
HolderChanged(s, t) ==
  /\ t \in LabStates
  /\ s.lease # 0
  /\ Len(t.ops) = Len(s.ops)
  /\ \A o \in DOMAIN s.ops : o # s.lease => t.ops[o] = s.ops[o]
  /\ t.lease = IF t.ops[s.lease].state \in Final THEN 0 ELSE s.lease

LEMMA HolderFacts ==
  ASSUME NEW s, NEW t, NEW b, NEW i, StateOK(s, b, i), HolderChanged(s, t)
  PROVE  /\ s.lease = Len(s.ops) /\ s.lease \in DOMAIN s.ops /\ s.lease \in Nat
         /\ DOMAIN t.ops = DOMAIN s.ops /\ DOMAIN s.ops = 1..Len(s.ops)
         /\ s.ops[s.lease].state \notin Final
         /\ LeaseOK(t)
         /\ s.lease \in DOMAIN t.ops
<1>1. s \in LabStates /\ LeaseOK(s) /\ t \in LabStates
  BY DEF StateOK, HolderChanged
<1>2. /\ s.ops \in Seq(Operations) /\ t.ops \in Seq(Operations) /\ s.lease = Len(s.ops)
      /\ s.lease \in DOMAIN s.ops /\ s.lease \in Nat
      /\ DOMAIN t.ops = DOMAIN s.ops /\ DOMAIN s.ops = 1..Len(s.ops)
  BY <1>1 DEF LabStates, LeaseOK, HolderChanged
<1>3. s.ops[s.lease].state \notin Final
  BY <1>1, <1>2 DEF LeaseOK
<1>4. LeaseOK(t)
  BY <1>1, <1>2, <1>3 DEF LeaseOK, HolderChanged
<1> QED
  BY <1>2, <1>3, <1>4

\* The state of the operation changes: it is verified, or complete, only with a
\* credential of its own.
LEMMA HolderMoves ==
  ASSUME NEW s, NEW t, NEW b, NEW i, StateOK(s, b, i), HolderChanged(s, t),
         t.record = s.record,
         t.ops[s.lease].revision = s.ops[s.lease].revision,
         t.ops[s.lease].state \in {"verifying", "grace-period", "complete"} =>
           s.ops[s.lease].revision # 0,
         t.ops[s.lease].state # "rolled-back"
  PROVE  StateOK(t, b, i)
<1>1. /\ s.lease = Len(s.ops) /\ s.lease \in DOMAIN s.ops /\ s.lease \in Nat
      /\ DOMAIN t.ops = DOMAIN s.ops /\ DOMAIN s.ops = 1..Len(s.ops)
      /\ s.ops[s.lease].state \notin Final
      /\ LeaseOK(t) /\ Len(t.ops) = Len(s.ops)
      /\ \A o \in DOMAIN s.ops : o # s.lease => t.ops[o] = s.ops[o]
      /\ t.lease = IF t.ops[s.lease].state \in Final THEN 0 ELSE s.lease
  BY HolderFacts DEF HolderChanged
<1>2. HolderOK(s, b, i)
  BY DEF StateOK
<1>3. HolderOK(t, b, i)
  BY <1>1, <1>2 DEF HolderOK
<1>4. RevokedOK(t, b)
  <2>1. ASSUME NEW o \in DOMAIN s.ops, s.ops[o].state = "rolled-back", s.ops[o].revision = 0
        PROVE  RevokedOK(t, b)
    BY <1>1, <2>1 DEF RevokedOK, Final
  <2>2. ASSUME \A o \in DOMAIN s.ops : s.ops[o].state = "complete" /\ b[o] # 0 =>
                 /\ s.record.value # b[o]
                 /\ s.lease # 0 /\ s.ops[s.lease].revision # 0 => s.record.previous # b[o],
               NEW o \in DOMAIN t.ops, t.ops[o].state = "complete", b[o] # 0
        PROVE  /\ t.record.value # b[o]
               /\ t.lease # 0 /\ t.ops[t.lease].revision # 0 => t.record.previous # b[o]
    <3>1. CASE o # s.lease
      BY <1>1, <2>2, <3>1
    <3>2. CASE o = s.lease
      <4>1. s.record.value = s.lease /\ b[o] < o /\ t.lease = 0
        BY <1>1, <1>2, <2>2, <3>2 DEF HolderOK, Final
      <4>2. s.record.value # b[o]
        BY <1>1, <4>1, <3>2
      <4> QED
        BY <4>1, <4>2
    <3> QED
      BY <3>1, <3>2
  <2> QED
    BY <2>1, <2>2 DEF StateOK, RevokedOK
<1> QED
  BY <1>1, <1>3, <1>4 DEF StateOK, HolderChanged

\* The operation is rolled back: what it puts back has not been revoked, if it
\* has stored a credential at all.
LEMMA HolderRolledBack ==
  ASSUME NEW s, NEW t, NEW b, NEW i, StateOK(s, b, i), HolderChanged(s, t),
         t.record = RolledBack(s.record),
         t.ops[s.lease].revision = s.ops[s.lease].revision,
         t.ops[s.lease].state = "rolled-back"
  PROVE  StateOK(t, b, i)
<1>1. /\ s.lease = Len(s.ops) /\ s.lease \in DOMAIN s.ops /\ s.lease \in Nat
      /\ DOMAIN t.ops = DOMAIN s.ops /\ DOMAIN s.ops = 1..Len(s.ops)
      /\ s.ops[s.lease].state \notin Final
      /\ LeaseOK(t) /\ Len(t.ops) = Len(s.ops)
      /\ \A o \in DOMAIN s.ops : o # s.lease => t.ops[o] = s.ops[o]
      /\ t.lease = 0
  BY HolderFacts DEF HolderChanged, Final
<1>2. HolderOK(s, b, i) /\ s.record \in Records
  BY DEF StateOK, LabStates
<1>3. /\ t.record.value \in {s.record.value, s.record.previous}
      /\ t.record.previous \in {s.record.previous, 0}
  BY DEF RolledBack
<1>4. HolderOK(t, b, i)
  BY <1>1, <1>2, <1>3 DEF HolderOK, Records
<1>5. RevokedOK(t, b)
  <2>1. ASSUME NEW o \in DOMAIN s.ops, s.ops[o].state = "rolled-back", s.ops[o].revision = 0
        PROVE  RevokedOK(t, b)
    BY <1>1, <2>1 DEF RevokedOK, Final
  <2>2. CASE s.ops[s.lease].revision = 0
    BY <1>1, <2>2 DEF RevokedOK
  <2>3. CASE /\ s.ops[s.lease].revision # 0
             /\ \A o \in DOMAIN s.ops : s.ops[o].state = "complete" /\ b[o] # 0 =>
                  /\ s.record.value # b[o]
                  /\ s.lease # 0 /\ s.ops[s.lease].revision # 0 => s.record.previous # b[o]
    <3> SUFFICES ASSUME NEW o \in DOMAIN t.ops, t.ops[o].state = "complete", b[o] # 0
                 PROVE  t.record.value # b[o]
      BY <1>1 DEF RevokedOK
    <3>1. o # s.lease /\ s.ops[o].state = "complete" /\ s.lease # 0
      BY <1>1 DEF HolderChanged
    <3> QED
      BY <1>1, <1>3, <2>3, <3>1
  <2> QED
    BY <2>1, <2>2, <2>3 DEF StateOK, RevokedOK
<1> QED
  BY <1>1, <1>4, <1>5 DEF StateOK, HolderChanged

\* The operation stores a credential; it may not know of it yet.
LEMMA HolderStores ==
  ASSUME NEW s, NEW t, NEW b, NEW i, StateOK(s, b, i), HolderChanged(s, t),
         t.record.value = s.lease, t.record.previous = s.record.value,
         s.ops[s.lease].revision = 0,
         t.ops[s.lease].state = s.ops[s.lease].state,
         t.ops[s.lease].revision # 0 /\ s.lease \notin i => s.record.value = b[s.lease]
  PROVE  StateOK(t, b, i)
<1>1. /\ s.lease = Len(s.ops) /\ s.lease \in DOMAIN s.ops /\ s.lease \in Nat
      /\ DOMAIN t.ops = DOMAIN s.ops /\ DOMAIN s.ops = 1..Len(s.ops)
      /\ s.ops[s.lease].state \notin Final
      /\ LeaseOK(t) /\ Len(t.ops) = Len(s.ops)
      /\ \A o \in DOMAIN s.ops : o # s.lease => t.ops[o] = s.ops[o]
      /\ t.lease = s.lease /\ s.lease # 0
  BY HolderFacts DEF HolderChanged
<1>2. HolderOK(s, b, i)
  BY DEF StateOK
<1>3. HolderOK(t, b, i)
  BY <1>1, <1>2 DEF HolderOK
<1>4. RevokedOK(t, b)
  <2>1. ASSUME NEW o \in DOMAIN s.ops, s.ops[o].state = "rolled-back", s.ops[o].revision = 0
        PROVE  RevokedOK(t, b)
    BY <1>1, <2>1 DEF RevokedOK, Final
  <2>2. ASSUME \A o \in DOMAIN s.ops : s.ops[o].state = "complete" /\ b[o] # 0 =>
                 /\ s.record.value # b[o]
                 /\ s.lease # 0 /\ s.ops[s.lease].revision # 0 => s.record.previous # b[o],
               NEW o \in DOMAIN t.ops, t.ops[o].state = "complete", b[o] # 0
        PROVE  t.record.value # b[o] /\ t.record.previous # b[o]
    <3>1. o # s.lease /\ o <= s.lease /\ s.ops[o].state = "complete"
      BY <1>1, <2>2 DEF Final
    <3>2. b[o] < o
      BY <1>1, <1>2 DEF HolderOK
    <3>3. t.record.value # b[o]
      BY <1>1, <3>1, <3>2
    <3> QED
      BY <1>1, <2>2, <3>1, <3>3
  <2> QED
    BY <2>1, <2>2 DEF StateOK, RevokedOK
<1> QED
  BY <1>1, <1>3, <1>4 DEF StateOK, HolderChanged

\* The disk when it is left alone, while the operation that holds the lease
\* goes on in memory.
LEMMA DiskLeft ==
  ASSUME RotationInv, HolderChanged(lab, lab'), UNCHANGED <<disk, before, interrupted>>,
         lab.ops[lab.lease].revision # 0 => lab'.ops[lab.lease].revision # 0
  PROVE  StateOK(disk, before, interrupted)' /\ DiskOK'
<1>1. StateOK(disk, before, interrupted)'
  BY DEF RotationInv
<1>2. /\ Len(disk.ops) <= Len(lab.ops) /\ Len(lab'.ops) = Len(lab.ops)
      /\ disk \in LabStates /\ lab \in LabStates /\ LeaseOK(lab) /\ LeaseOK(disk)
      /\ \A o \in DOMAIN lab.ops : o # lab.lease => lab'.ops[o] = lab.ops[o]
  BY DEF RotationInv, DiskOK, HolderChanged, StateOK
<1>3. \A o \in DOMAIN disk.ops : o \in DOMAIN lab.ops
  BY <1>2 DEF LabStates
<1>4. ASSUME NEW o \in DOMAIN disk.ops, disk.ops[o].state \in Final
      PROVE  lab'.ops[o] = disk.ops[o]
  <2>1. lab.ops[o] = disk.ops[o] /\ o \in DOMAIN lab.ops
    BY <1>3, <1>4 DEF RotationInv, DiskOK
  <2>2. o # lab.lease
    BY <1>2, <1>4, <2>1 DEF LeaseOK
  <2> QED
    BY <1>2, <2>1, <2>2
<1>5. ASSUME disk.lease # 0, disk.lease \notin interrupted, disk.ops[disk.lease].revision = 0
      PROVE  disk.record.value = before[disk.lease] \/ lab'.ops[disk.lease].revision # 0
  <2>1. disk.lease \in DOMAIN disk.ops
    BY <1>2, <1>5 DEF LeaseOK, LabStates
  <2>2. disk.record.value = before[disk.lease] \/ lab.ops[disk.lease].revision # 0
    BY <1>5 DEF RotationInv, DiskOK
  <2> QED
    BY <1>2, <1>3, <2>1, <2>2
<1> QED
  BY <1>1, <1>2, <1>4, <1>5 DEF DiskOK

\* The disk when the state is saved, by an operation that knows what it stored.
LEMMA DiskSaved ==
  ASSUME StateOK(lab, before, interrupted)', disk' = lab',
         lab'.lease # 0 /\ lab'.lease \notin interrupted' /\ lab'.ops[lab'.lease].revision = 0 =>
           lab'.record.value = before'[lab'.lease]
  PROVE  StateOK(disk, before, interrupted)' /\ DiskOK'
<1>1. StateOK(disk, before, interrupted)'
  BY DEF StateOK, HolderOK, LeaseOK, RevokedOK
<1>2. Len(lab'.ops) <= Len(lab'.ops)
  BY DEF StateOK, LabStates
<1> QED
  BY <1>1, <1>2 DEF DiskOK

\* What the call under way has to do with the state.
LEMMA CallFacts ==
  ASSUME RotationInv, ~At("idle")
  PROVE  /\ call.op = lab.lease /\ lab.lease # 0 /\ lab.lease \in DOMAIN lab.ops
         /\ lab \in LabStates /\ lab.ops[lab.lease] \in Operations
         /\ lab.ops[lab.lease].state \notin Final
         /\ Mine = lab.ops[lab.lease]
<1>1. call.op = lab.lease /\ lab.lease # 0 /\ lab \in LabStates /\ LeaseOK(lab)
  BY DEF RotationInv, CallOK, StateOK
<1>2. lab.lease \in DOMAIN lab.ops /\ lab.ops[lab.lease] \in Operations
  BY <1>1 DEF LabStates, LeaseOK
<1> QED
  BY <1>1, <1>2 DEF Mine, LeaseOK

\* One operation of a state is replaced, and nothing else of it but the lease
\* and the record.
LEMMA ReplaceHolder ==
  ASSUME NEW s \in LabStates, NEW c \in DOMAIN s.ops, c = s.lease, c # 0,
         NEW y \in Operations, NEW r \in Records, NEW t,
         t = [ops |-> [s.ops EXCEPT ![c] = y], record |-> r,
              lease |-> IF y.state \in Final THEN 0 ELSE c]
  PROVE  HolderChanged(s, t) /\ t.ops[s.lease] = y /\ t.record = r
<1>1. s.ops \in Seq(Operations) /\ s.lease \in Nat
  BY DEF LabStates
<1> DEFINE w == [s.ops EXCEPT ![c] = y]
<1>2. /\ w \in Seq(Operations) /\ Len(w) = Len(s.ops) /\ w[c] = y
      /\ \A o \in DOMAIN s.ops : o # c => w[o] = s.ops[o]
  BY <1>1
<1> HIDE DEF w
<1>3. t.ops = w /\ t.record = r /\ t.lease = IF y.state \in Final THEN 0 ELSE c
  BY DEF w
<1>4. t \in LabStates
  BY <1>1, <1>2 DEF LabStates, w
<1> QED
  BY <1>1, <1>2, <1>3, <1>4 DEF HolderChanged

\* A step that leaves the state in memory alone.
LEMMA StateKept ==
  ASSUME RotationInv, UNCHANGED <<lab, before, interrupted>>, disk' \in {disk, lab},
         disk' = lab => ~At("failing"), CallOK', UnstoredOK'
  PROVE  RotationInv'
<1>1. StateOK(lab, before, interrupted)'
  BY DEF RotationInv
<1>2. StateOK(disk, before, interrupted)' /\ DiskOK'
  <2>1. CASE disk' = disk
    BY <2>1 DEF RotationInv, DiskOK
  <2>2. CASE disk' = lab
    BY <1>1, <2>2, DiskSaved DEF RotationInv, UnstoredOK
  <2> QED
    BY <2>1, <2>2
<1> QED
  BY <1>1, <1>2 DEF RotationInv

LEMMA StartStep ==
  ASSUME RotationInv, StartLocked
  PROVE  RotationInv'
<1> DEFINE o == Len(lab.ops) + 1
<1>1. /\ lab \in LabStates /\ lab.lease = 0 /\ o \in Ids /\ disk' = disk
      /\ before \in [Ids -> Nat] /\ before' = [before EXCEPT ![o] = lab.record.value]
      /\ interrupted' = interrupted \ {o}
      /\ call' = [Idle EXCEPT !.op = o, !.at = "acquire"]
      /\ lab.record \in Records /\ lab.ops \in Seq(Operations)
  BY LabBounds DEF StartLocked, RotationInv, StateOK, LeaseIsFree, LabStates, Ids
<1>2. /\ lab'.ops = Append(lab.ops, NewOperation) /\ lab'.record = lab.record /\ lab'.lease = o
      /\ lab' \in LabStates
  <2>1. lab' = [lab EXCEPT !.ops = Append(lab.ops, NewOperation), !.lease = o]
    BY DEF StartLocked
  <2>2. Append(lab.ops, NewOperation) \in Seq(Operations) /\ o \in Nat
    BY <1>1 DEF Operations, NewOperation
  <2> QED
    BY <1>1, <2>1, <2>2 DEF LabStates
<1>3. /\ DOMAIN lab'.ops = DOMAIN lab.ops \cup {o} /\ Len(lab'.ops) = o /\ o \notin DOMAIN lab.ops
      /\ lab'.ops[o].state = "planned" /\ lab'.ops[o].revision = 0
      /\ \A n \in DOMAIN lab.ops : lab'.ops[n] = lab.ops[n] /\ n < o /\ n # 0 /\ n \in Nat
      /\ o \in Nat /\ o # 0
  BY <1>1, <1>2 DEF NewOperation
<1>4. before'[o] = lab.record.value /\ \A n \in Ids : n # o => before'[n] = before[n]
  BY <1>1
<1>5. \A n \in DOMAIN lab.ops : n \in Ids
  BY <1>1, LabBounds DEF Ids
<1> HIDE DEF o
<1>6. LeaseOK(lab')
  BY <1>1, <1>2, <1>3 DEF LeaseOK, RotationInv, StateOK, Final
<1>7. HolderOK(lab', before', interrupted')
  <2>1. HolderOK(lab, before, interrupted)
    BY DEF RotationInv, StateOK
  <2>2. lab.record.value <= Len(lab.ops) /\ lab.record.previous <= Len(lab.ops)
    BY <2>1 DEF HolderOK
  <2>3. lab.record.value < o /\ lab.record.previous < o
    BY <1>1, <2>2 DEF o, Records
  <2>4. \A n \in DOMAIN lab'.ops : before'[n] < n
    BY <1>3, <1>4, <1>5, <2>1, <2>3 DEF HolderOK
  <2>5. lab'.record.value <= Len(lab'.ops) /\ lab'.record.previous <= Len(lab'.ops)
    BY <1>1, <1>2, <1>3, <2>3 DEF Records
  <2> QED
    BY <1>2, <1>3, <2>4, <2>5 DEF HolderOK
<1>8. RevokedOK(lab', before')
  BY <1>2, <1>3, <1>4, <1>5 DEF RotationInv, StateOK, RevokedOK
<1>9. StateOK(lab, before, interrupted)'
  BY <1>2, <1>6, <1>7, <1>8 DEF StateOK
<1>10. \A n \in DOMAIN disk.ops : n \in DOMAIN lab.ops
  BY DEF RotationInv, DiskOK, StateOK, LabStates
<1>11. StateOK(disk, before, interrupted)'
  <2>1. \A n \in DOMAIN disk.ops : before'[n] = before[n] /\ (n \in interrupted => n \in interrupted')
    BY <1>1, <1>3, <1>4, <1>5, <1>10
  <2>2. StateOK(disk, before', interrupted')
    BY <2>1, OtherHistory DEF RotationInv
  <2> QED
    BY <1>1, <2>2
<1>12. DiskOK'
  <2>1. disk.lease # 0 => disk.lease \in DOMAIN disk.ops
    BY DEF RotationInv, StateOK, LeaseOK, LabStates
  <2>2. Len(disk.ops) \in Nat /\ Len(lab.ops) \in Nat /\ Len(disk.ops) <= Len(lab.ops) + 1
    BY DEF RotationInv, StateOK, LabStates, DiskOK
  <2> QED
    BY <1>1, <1>3, <1>4, <1>5, <1>10, <2>1, <2>2 DEF RotationInv, DiskOK, o
<1>13. CallOK'
  BY <1>1, <1>2, <1>3 DEF CallOK, Idle, At, Checkpoints, Behaviors
<1>14. UnstoredOK'
  BY <1>2, <1>4 DEF UnstoredOK
<1>15. before' \in [Ids -> Nat] /\ Len(lab'.ops) <= MaxOperations
  BY <1>1, <1>3, LabBounds DEF Ids, Records
<1> QED
  BY <1>9, <1>11, <1>12, <1>13, <1>14, <1>15 DEF RotationInv

LEMMA CheckpointStep ==
  ASSUME RotationInv, CheckpointLocked
  PROVE  RotationInv'
<1>1. /\ call.at \in Checkpoints \ {"revoke"} /\ UNCHANGED <<lab, before, interrupted>>
      /\ disk' = lab /\ call' = [call EXCEPT !.at = After(call.at)]
  BY DEF CheckpointLocked, Save, Goto
<1>2. ~At("idle") /\ ~At("failing")
  BY <1>1 DEF At, Checkpoints
<1>3. CallOK'
  BY <1>1, <1>2 DEF RotationInv, CallOK, Checkpoints, After, At, Mine
<1>4. UnstoredOK'
  BY <1>1, <1>2 DEF RotationInv, UnstoredOK
<1> QED
  BY <1>1, <1>2, <1>3, <1>4, StateKept

LEMMA FaultStep ==
  ASSUME RotationInv, NEW behavior \in Behaviors, FaultLocked(behavior)
  PROVE  RotationInv'
<1>1. /\ call.at \in Checkpoints /\ UNCHANGED <<lab, before, interrupted>>
      /\ disk' \in {disk, lab}
      /\ call' = [call EXCEPT !.at = "failing", !.error = behavior]
  BY DEF FaultLocked, Save, SaveFails, Err
<1>2. ~At("idle") /\ ~At("failing")
  BY <1>1 DEF At, Checkpoints
<1>3. CallOK'
  BY <1>1, <1>2 DEF RotationInv, CallOK, Checkpoints, At, Mine
<1>4. UnstoredOK'
  BY <1>1, <1>2 DEF RotationInv, UnstoredOK
<1> QED
  BY <1>1, <1>2, <1>3, <1>4, StateKept

LEMMA StageStep ==
  ASSUME RotationInv, StageFromRecordLocked
  PROVE  RotationInv'
<1>1. /\ call.at = "deploy" /\ UNCHANGED <<lab, before, interrupted>>
      /\ disk' \in {disk, lab}
      /\ call' \in {[call EXCEPT !.at = "activate"],
                    [call EXCEPT !.at = "failing", !.error = "other"]}
  BY DEF StageFromRecordLocked, Save, At, Goto, Err
<1>2. ~At("idle") /\ ~At("failing")
  BY <1>1 DEF At
<1>3. CallOK'
  BY <1>1, <1>2 DEF RotationInv, CallOK, Checkpoints, Behaviors, At, Mine
<1>4. UnstoredOK'
  BY <1>1, <1>2 DEF RotationInv, UnstoredOK
<1> QED
  BY <1>1, <1>2, <1>3, <1>4, StateKept

LEMMA ResumeStep ==
  ASSUME RotationInv, NEW o \in DOMAIN lab.ops, ContinueLocked(o) \/ RevokeLocked(o)
  PROVE  RotationInv'
<1>1. /\ At("idle") /\ UNCHANGED <<lab, disk, before, interrupted>>
      /\ lab.ops[o].state \notin Final
      /\ \/ call' = [Idle EXCEPT !.op = o, !.at = "create"]
         \/ call' = [Idle EXCEPT !.op = o, !.at = "revoke"] /\ lab.ops[o].state = "grace-period"
  BY DEF ContinueLocked, RevokeLocked, Final
<1>2. o = lab.lease /\ o \in Nat /\ o # 0
  BY <1>1 DEF RotationInv, StateOK, LeaseOK, LabStates
<1>3. CallOK'
  BY <1>1, <1>2 DEF CallOK, Idle, Checkpoints, At, Mine
<1>4. UnstoredOK'
  BY <1>1 DEF RotationInv, UnstoredOK, At
<1>5. disk' = lab => ~At("failing")
  BY <1>1 DEF At
<1> QED
  BY <1>1, <1>3, <1>4, <1>5, StateKept

\* The operation that holds the lease is in another state.
LEMMA MovedStep ==
  ASSUME RotationInv, NEW y \in Operations, lab.lease # 0,
         lab' = [ops |-> [lab.ops EXCEPT ![lab.lease] = y], record |-> lab.record,
                 lease |-> IF y.state \in Final THEN 0 ELSE lab.lease],
         y.revision = lab.ops[lab.lease].revision,
         y.state \in {"verifying", "grace-period", "complete"} =>
           lab.ops[lab.lease].revision # 0,
         y.state # "rolled-back", disk' \in {lab', disk}, UNCHANGED <<before, interrupted>>,
         CallOK',
         y.revision = 0 /\ y.state \notin Final /\ lab.lease \notin interrupted =>
           lab.record.value = before[lab.lease]
  PROVE  RotationInv'
<1>1. lab \in LabStates /\ lab.lease \in DOMAIN lab.ops /\ lab.record \in Records
  BY DEF RotationInv, StateOK, LabStates, LeaseOK
<1>2. HolderChanged(lab, lab') /\ lab'.ops[lab.lease] = y /\ lab'.record = lab.record
  BY <1>1, ReplaceHolder
<1>3. StateOK(lab, before, interrupted)'
  <2>1. StateOK(lab', before, interrupted)
    BY <1>2, HolderMoves DEF RotationInv
  <2> QED
    BY <2>1
<1>4. lab'.lease # 0 => lab'.lease = lab.lease /\ y.state \notin Final
  OBVIOUS
<1>5. StateOK(disk, before, interrupted)' /\ DiskOK'
  <2>1. CASE disk' = disk
    BY <1>2, <2>1, DiskLeft
  <2>2. CASE disk' = lab'
    BY <1>2, <1>3, <1>4, <2>2, DiskSaved
  <2> QED
    BY <2>1, <2>2
<1>6. UnstoredOK'
  BY <1>2, <1>4 DEF UnstoredOK
<1>7. Len(lab'.ops) <= MaxOperations /\ before' \in [Ids -> Nat]
  BY <1>2 DEF HolderChanged, RotationInv
<1> QED
  BY <1>3, <1>5, <1>6, <1>7 DEF RotationInv

LEMMA IdleCall == call' = Idle => CallOK'
BY DEF CallOK, Idle, At

LEMMA FinishStep ==
  ASSUME RotationInv, FinishLocked
  PROVE  RotationInv'
<1>1. ~At("idle") /\ call.at = "finish" /\ call' = Idle
  BY DEF FinishLocked, At, Done
<1>2. /\ call.op = lab.lease /\ lab.lease # 0 /\ lab.lease \in DOMAIN lab.ops
      /\ lab \in LabStates /\ lab.ops[lab.lease] \in Operations
      /\ lab.ops[lab.lease].revision # 0
  BY <1>1, CallFacts DEF RotationInv, CallOK
<1> DEFINE y == [lab.ops[lab.lease] EXCEPT !.state = "verifying"]
<1>3. y \in Operations /\ y.state = "verifying" /\ y.revision = lab.ops[lab.lease].revision
  BY <1>2 DEF Operations, Resumable
<1>4. /\ lab' = [lab EXCEPT !.ops[lab.lease].state = "verifying"]
      /\ disk' \in {lab', disk} /\ UNCHANGED <<before, interrupted>>
  BY <1>2 DEF FinishLocked, Save, SaveFails
<1>5. lab' = [ops |-> [lab.ops EXCEPT ![lab.lease] = y], record |-> lab.record, lease |-> lab.lease]
  BY <1>2, <1>4 DEF LabStates
<1> HIDE DEF y
<1> QED
  BY <1>1, <1>2, <1>3, <1>4, <1>5, IdleCall, MovedStep DEF Final

LEMMA GraceStep ==
  ASSUME RotationInv, NEW o \in DOMAIN lab.ops, EnterGracePeriod(o)
  PROVE  RotationInv'
<1>1. /\ At("idle") /\ lab.ops[o].state = "verifying" /\ call' = call
      /\ lab' = [lab EXCEPT !.ops[o].state = "grace-period"]
      /\ disk' \in {lab', disk} /\ UNCHANGED <<before, interrupted>>
  BY DEF EnterGracePeriod, Save, SaveFails
<1>2. /\ o = lab.lease /\ lab.lease # 0 /\ lab \in LabStates
      /\ lab.ops[lab.lease] \in Operations
      /\ lab.ops[lab.lease].revision # 0
  <2>1. lab \in LabStates /\ LeaseOK(lab) /\ HolderOK(lab, before, interrupted)
    BY DEF RotationInv, StateOK
  <2>2. o = lab.lease /\ lab.lease # 0
    BY <1>1, <2>1 DEF LeaseOK, LabStates, Final
  <2> QED
    BY <1>1, <2>1, <2>2 DEF HolderOK, LabStates
<1> DEFINE y == [lab.ops[lab.lease] EXCEPT !.state = "grace-period"]
<1>3. y \in Operations /\ y.state = "grace-period" /\ y.revision = lab.ops[lab.lease].revision
  BY <1>2 DEF Operations, Resumable
<1>4. lab' = [ops |-> [lab.ops EXCEPT ![lab.lease] = y], record |-> lab.record, lease |-> lab.lease]
  BY <1>1, <1>2 DEF LabStates
<1> HIDE DEF y
<1>5. CallOK'
  BY <1>1 DEF RotationInv, CallOK, At
<1> QED
  BY <1>1, <1>2, <1>3, <1>4, <1>5, MovedStep DEF Final

LEMMA CompleteStep ==
  ASSUME RotationInv, CompleteLocked
  PROVE  RotationInv'
<1>1. ~At("idle") /\ At("revoke") /\ call' = Idle /\ UNCHANGED <<before, interrupted>>
  BY DEF CompleteLocked, At, Done
<1>2. /\ call.op = lab.lease /\ lab.lease # 0 /\ lab.lease \in DOMAIN lab.ops
      /\ lab \in LabStates /\ lab.ops[lab.lease] \in Operations
      /\ lab.ops[lab.lease].state = "grace-period"
  BY <1>1, CallFacts DEF RotationInv, CallOK
<1>3. lab.ops[lab.lease].revision # 0
  BY <1>2 DEF RotationInv, StateOK, HolderOK
<1> DEFINE y == [lab.ops[lab.lease] EXCEPT !.state = "complete"]
<1>4. y \in Operations /\ y.state = "complete" /\ y.revision = lab.ops[lab.lease].revision
  BY <1>2 DEF Operations, Final
<1>5. /\ lab' = [lab EXCEPT !.ops[lab.lease].state = "complete", !.lease = 0]
      /\ disk' \in {lab', lab}
  BY <1>2 DEF CompleteLocked
<1>6. lab' = [ops |-> [lab.ops EXCEPT ![lab.lease] = y], record |-> lab.record, lease |-> 0]
  BY <1>2, <1>5 DEF LabStates
<1> HIDE DEF y
<1>7. CASE disk' = lab'
  BY <1>1, <1>2, <1>3, <1>4, <1>6, <1>7, IdleCall, MovedStep DEF Final
<1>8. CASE disk' = lab
  <2>1. HolderChanged(lab, lab') /\ lab'.ops[lab.lease] = y /\ lab'.record = lab.record
        /\ lab'.lease = 0
    BY <1>2, <1>4, <1>6, ReplaceHolder DEF Final, LabStates
  <2>2. StateOK(lab, before, interrupted)'
    <3>1. StateOK(lab', before, interrupted)
      BY <1>3, <1>4, <2>1, HolderMoves DEF RotationInv
    <3> QED
      BY <1>1, <3>1
  <2>3. StateOK(disk, before, interrupted)'
    BY <1>1, <1>8 DEF RotationInv
  <2>4. DiskOK'
    <3>1. Len(lab'.ops) = Len(lab.ops) /\ Len(lab.ops) \in Nat
          /\ \A o \in DOMAIN lab.ops : o # lab.lease => lab'.ops[o] = lab.ops[o]
      BY <1>2, <2>1 DEF HolderChanged, LabStates
    <3>2. lab.ops[lab.lease].state \notin Final
      BY <1>2 DEF Final
    <3> QED
      BY <1>3, <1>4, <1>8, <2>1, <3>1, <3>2 DEF DiskOK
  <2>5. CallOK'
    BY <1>1, IdleCall
  <2>6. UnstoredOK'
    BY <2>1 DEF UnstoredOK
  <2> QED
    BY <1>1, <2>1, <2>2, <2>3, <2>4, <2>5, <2>6 DEF HolderChanged, RotationInv
<1> QED
  BY <1>5, <1>7, <1>8

\* Nothing is created, and nothing is stored: it is known already, or refused.
LEMMA NothingAcquired ==
  ASSUME RotationInv, At("create"), UNCHANGED <<lab, disk, before, interrupted>>,
         \/ call' = [call EXCEPT !.at = "failing", !.error = "other"]
         \/ call' = [call EXCEPT !.at = "store"] /\ Mine.revision # 0
  PROVE  RotationInv'
<1>1. call.at = "create"
  BY DEF At
<1>2. CallOK'
  BY <1>1 DEF RotationInv, CallOK, Checkpoints, Behaviors, At, Mine
<1>3. UnstoredOK'
  BY <1>1 DEF RotationInv, UnstoredOK, At
<1>4. disk' = lab => ~At("failing")
  BY <1>1 DEF At
<1> QED
  BY <1>2, <1>3, <1>4, StateKept

\* The record with the new credential, and the operation that knows of it.
StoredState == [ops |-> lab.ops, record |-> Stored, lease |-> lab.lease]
KnownState ==
  [ops |-> [lab.ops EXCEPT ![lab.lease] =
             [lab.ops[lab.lease] EXCEPT !.revision = lab.record.revision + 1]],
   record |-> Stored, lease |-> lab.lease]

LEMMA StoredFacts ==
  ASSUME RotationInv, At("create"), NeedsCredential
  PROVE  /\ HolderChanged(lab, StoredState) /\ StateOK(StoredState, before, interrupted)
         /\ HolderChanged(lab, KnownState) /\ StateOK(KnownState, before, interrupted)
         /\ KnownState.ops[lab.lease].revision # 0
         /\ KnownState.ops[lab.lease].state = lab.ops[lab.lease].state
<1>1. ~At("idle") /\ ~At("failing")
  BY DEF At
<1>2. /\ call.op = lab.lease /\ lab.lease # 0 /\ lab.lease \in DOMAIN lab.ops
      /\ lab \in LabStates /\ lab.ops[lab.lease] \in Operations
      /\ lab.ops[lab.lease].state \notin Final
      /\ lab.ops[lab.lease].revision = 0
  BY <1>1, CallFacts DEF NeedsCredential
<1>3. lab.record \in Records /\ lab.lease \in Nat /\ lab.ops \in Seq(Operations)
  BY <1>2 DEF LabStates
<1>4. Stored \in Records /\ Stored.value = lab.lease /\ Stored.previous = lab.record.value
  BY <1>2, <1>3 DEF Stored, Records
<1>5. lab.lease \notin interrupted => lab.record.value = before[lab.lease]
  BY <1>1, <1>2 DEF RotationInv, UnstoredOK
<1>6. HolderChanged(lab, StoredState) /\ StateOK(StoredState, before, interrupted)
  <2>1. StoredState \in LabStates
    BY <1>2, <1>3, <1>4 DEF StoredState, LabStates
  <2>2. HolderChanged(lab, StoredState)
    BY <1>2, <2>1 DEF HolderChanged, StoredState
  <2>3. /\ StoredState.record = Stored /\ StoredState.ops = lab.ops
    BY DEF StoredState
  <2> QED
    BY <1>2, <1>4, <2>2, <2>3, HolderStores DEF RotationInv
<1> DEFINE y == [lab.ops[lab.lease] EXCEPT !.revision = lab.record.revision + 1]
<1>7. y \in Operations /\ y.revision # 0 /\ y.state = lab.ops[lab.lease].state
  <2>1. lab.record.revision + 1 \in Nat /\ lab.record.revision + 1 # 0
    BY <1>3 DEF Records
  <2> QED
    BY <1>2, <2>1 DEF Operations
<1>8. KnownState = [ops |-> [lab.ops EXCEPT ![lab.lease] = y], record |-> Stored,
                    lease |-> lab.lease]
  BY DEF KnownState
<1> HIDE DEF y
<1>9. HolderChanged(lab, KnownState) /\ KnownState.ops[lab.lease] = y /\ KnownState.record = Stored
  BY <1>2, <1>4, <1>7, <1>8, ReplaceHolder
<1>10. StateOK(KnownState, before, interrupted)
  BY <1>2, <1>4, <1>5, <1>7, <1>9, HolderStores DEF RotationInv
<1> QED
  BY <1>6, <1>7, <1>9, <1>10

\* The branches of acquireCredentialLocked.
LEMMA AcquireCases ==
  ASSUME RotationInv, AcquireCredentialLocked
  PROVE  /\ At("create") /\ UNCHANGED <<before, interrupted>>
         /\ \/ /\ UNCHANGED <<lab, disk>>
               /\ \/ call' = [call EXCEPT !.at = "failing", !.error = "other"]
                  \/ call' = [call EXCEPT !.at = "store"] /\ Mine.revision # 0
            \/ /\ NeedsCredential
               /\ lab' = KnownState /\ disk' = StoredState
               /\ call' \in {[call EXCEPT !.at = "store"],
                             [call EXCEPT !.at = "failing", !.error = "other"]}
            \/ /\ NeedsCredential
               /\ lab' = StoredState /\ disk' = disk
               /\ call' = [call EXCEPT !.at = "failing", !.error = "other"]
<1>1. /\ call.op = lab.lease /\ lab.lease \in DOMAIN lab.ops
      /\ lab \in LabStates /\ Mine = lab.ops[lab.lease]
  BY CallFacts DEF AcquireCredentialLocked, At
<1>2. [lab EXCEPT !.record = Stored] = StoredState
  BY <1>1 DEF StoredState, LabStates
<1>3. [StoredState EXCEPT !.ops[call.op].revision = StoredState.record.revision] = KnownState
  <2>1. StoredState.record.revision = lab.record.revision + 1
    BY DEF StoredState, Stored
  <2>2. StoredState.ops = lab.ops /\ StoredState.record = Stored /\ StoredState.lease = lab.lease
    BY DEF StoredState
  <2> QED
    BY <1>1, <2>1, <2>2 DEF StoredState, KnownState
<1> QED
  BY <1>2, <1>3 DEF AcquireCredentialLocked, NeedsCredential, SaveFails, Goto, Err

LEMMA AcquireStep ==
  ASSUME RotationInv, AcquireCredentialLocked
  PROVE  RotationInv'
<1>1. At("create") /\ UNCHANGED <<before, interrupted>> /\ ~At("idle") /\ call.at = "create"
  BY AcquireCases DEF At
<1>2. call.op = lab.lease /\ lab.lease # 0 /\ lab.lease \in DOMAIN lab.ops
      /\ lab \in LabStates /\ lab.ops[lab.lease].state \notin Final
  BY <1>1, CallFacts
<1>3. CASE /\ UNCHANGED <<lab, disk>>
           /\ \/ call' = [call EXCEPT !.at = "failing", !.error = "other"]
              \/ call' = [call EXCEPT !.at = "store"] /\ Mine.revision # 0
  BY <1>1, <1>3, NothingAcquired
<1>4. CASE /\ NeedsCredential
           /\ lab' = KnownState /\ disk' = StoredState
           /\ call' \in {[call EXCEPT !.at = "store"],
                         [call EXCEPT !.at = "failing", !.error = "other"]}
  <2>1. /\ StateOK(lab', before, interrupted) /\ StateOK(disk', before, interrupted)
        /\ HolderChanged(lab, lab') /\ lab'.ops[lab.lease].revision # 0 /\ lab'.lease = lab.lease
    BY <1>1, <1>4, StoredFacts DEF KnownState
  <2>2. DiskOK'
    <3>1. disk'.ops = lab.ops /\ disk'.lease = lab.lease
      BY <1>4 DEF StoredState
    <3>2. /\ Len(lab'.ops) = Len(lab.ops) /\ Len(lab.ops) \in Nat
          /\ \A o \in DOMAIN lab.ops : o # lab.lease => lab'.ops[o] = lab.ops[o]
      BY <1>2, <2>1 DEF HolderChanged, LabStates
    <3> QED
      BY <1>2, <2>1, <3>1, <3>2 DEF DiskOK
  <2>3. CallOK'
    BY <1>1, <1>2, <1>4, <2>1 DEF RotationInv, CallOK, Checkpoints, Behaviors, At, Mine
  <2>4. UnstoredOK'
    BY <2>1 DEF UnstoredOK
  <2> QED
    BY <1>1, <2>1, <2>2, <2>3, <2>4 DEF HolderChanged, RotationInv
<1>5. CASE /\ NeedsCredential
           /\ lab' = StoredState /\ disk' = disk
           /\ call' = [call EXCEPT !.at = "failing", !.error = "other"]
  <2>1. /\ StateOK(lab', before, interrupted) /\ HolderChanged(lab, lab')
        /\ lab'.ops = lab.ops /\ lab'.lease = lab.lease
    BY <1>1, <1>5, StoredFacts DEF StoredState
  <2>2. StateOK(disk, before, interrupted)' /\ DiskOK'
    BY <1>1, <1>5, <2>1, DiskLeft
  <2>3. CallOK'
    BY <1>1, <1>2, <1>5, <2>1 DEF RotationInv, CallOK, Checkpoints, Behaviors, At, Mine
  <2>4. UnstoredOK'
    BY <1>5, <1>1 DEF UnstoredOK, At, RotationInv, CallOK
  <2> QED
    BY <1>1, <2>1, <2>2, <2>3, <2>4 DEF RotationInv
<1> QED
  BY <1>3, <1>4, <1>5, AcquireCases

\* What failureLocked does to the state.
LEMMA FailureCases ==
  ASSUME RotationInv, FailureLocked
  PROVE  /\ ~At("idle") /\ call' = Idle /\ UNCHANGED <<before, interrupted>>
         /\ disk' \in {lab', disk}
         /\ \E y \in Operations :
              /\ y.revision = lab.ops[lab.lease].revision
              /\ \/ y.state \in {"reconciliation-required", "retryable"}
                    /\ call.error \in {"ambiguous-commit", "retryable", "rollback-failure"}
                 \/ y.state \in Releases
              /\ lab' = [ops |-> [lab.ops EXCEPT ![lab.lease] = y],
                         record |-> IF y.state = "rolled-back" THEN RolledBack(lab.record)
                                    ELSE lab.record,
                         lease |-> IF y.state \in Final THEN 0 ELSE lab.lease]
<1>1. ~At("idle") /\ call' = Idle /\ UNCHANGED <<before, interrupted>> /\ disk' \in {lab', disk}
  BY DEF FailureLocked, At, Done
<1>2. /\ call.op = lab.lease /\ lab.lease # 0 /\ lab.lease \in DOMAIN lab.ops
      /\ lab \in LabStates /\ lab.ops[lab.lease] \in Operations
      /\ Mine = lab.ops[lab.lease]
  BY <1>1, CallFacts
<1> DEFINE attempts == Attempted(Mine.attempts)
           state == FailedState(call.error, attempts)
           y == [lab.ops[lab.lease] EXCEPT !.state = state, !.attempts = attempts]
<1>3. attempts \in Nat
  BY <1>2 DEF Attempted, Operations
<1>4. /\ state \in {"reconciliation-required", "retryable"} \cup Releases
      /\ state \notin Releases =>
           call.error \in {"ambiguous-commit", "retryable", "rollback-failure"}
  BY DEF FailedState, Releases
<1>5. lab' = [lab EXCEPT !.ops[lab.lease].state = state,
                         !.ops[lab.lease].attempts = attempts,
                         !.record = IF state = "rolled-back" THEN RolledBack(lab.record)
                                    ELSE lab.record,
                         !.lease = IF state \in Releases THEN 0 ELSE lab.lease]
  BY <1>2 DEF FailureLocked
<1> HIDE DEF attempts, state
<1>6. y \in Operations /\ y.revision = lab.ops[lab.lease].revision /\ y.state = state
  BY <1>2, <1>3, <1>4 DEF Operations, Releases, Final, Resumable
<1>7. lab' = [ops |-> [lab.ops EXCEPT ![lab.lease] = y],
              record |-> IF state = "rolled-back" THEN RolledBack(lab.record) ELSE lab.record,
              lease |-> IF state \in Releases THEN 0 ELSE lab.lease]
  BY <1>2, <1>5 DEF LabStates
<1>8. state \in Releases <=> state \in Final
  BY <1>4 DEF Releases, Final
<1> HIDE DEF y
<1> QED
  BY <1>1, <1>4, <1>6, <1>7, <1>8

LEMMA FailureStep ==
  ASSUME RotationInv, FailureLocked
  PROVE  RotationInv'
<1>1. ~At("idle") /\ call' = Idle /\ UNCHANGED <<before, interrupted>> /\ disk' \in {lab', disk}
  BY FailureCases
<1>2. /\ lab.lease # 0 /\ lab.lease \in DOMAIN lab.ops /\ lab \in LabStates
      /\ lab.record \in Records
  BY <1>1, CallFacts DEF LabStates
<1>3. PICK y \in Operations :
        /\ y.revision = lab.ops[lab.lease].revision
        /\ \/ y.state \in {"reconciliation-required", "retryable"}
              /\ call.error \in {"ambiguous-commit", "retryable", "rollback-failure"}
           \/ y.state \in Releases
        /\ lab' = [ops |-> [lab.ops EXCEPT ![lab.lease] = y],
                   record |-> IF y.state = "rolled-back" THEN RolledBack(lab.record)
                              ELSE lab.record,
                   lease |-> IF y.state \in Final THEN 0 ELSE lab.lease]
  BY FailureCases
<1>4. CASE y.state # "rolled-back"
  <2>1. y.state \notin {"verifying", "grace-period", "complete"}
    BY <1>3 DEF Releases
  <2>2. y.revision = 0 /\ y.state \notin Final /\ lab.lease \notin interrupted =>
          lab.record.value = before[lab.lease]
    BY <1>2, <1>3 DEF RotationInv, UnstoredOK, Releases, Final
  <2> QED
    BY <1>1, <1>2, <1>3, <1>4, <2>1, <2>2, IdleCall, MovedStep
<1>5. CASE y.state = "rolled-back"
  <2>1. RolledBack(lab.record) \in Records
    BY <1>2 DEF RolledBack, Records
  <2>2. /\ HolderChanged(lab, lab') /\ lab'.ops[lab.lease] = y
        /\ lab'.record = RolledBack(lab.record) /\ lab'.lease = 0
    <3>1. HolderChanged(lab, lab') /\ lab'.ops[lab.lease] = y
          /\ lab'.record = RolledBack(lab.record)
      BY <1>2, <1>3, <1>5, <2>1, ReplaceHolder
    <3> QED
      BY <1>3, <1>5, <3>1 DEF Final
  <2>3. StateOK(lab, before, interrupted)'
    <3>1. StateOK(lab', before, interrupted)
      BY <1>3, <1>5, <2>2, HolderRolledBack DEF RotationInv
    <3> QED
      BY <1>1, <3>1
  <2>4. StateOK(disk, before, interrupted)' /\ DiskOK'
    BY <1>1, <1>3, <2>2, <2>3, DiskLeft, DiskSaved
  <2>5. UnstoredOK'
    BY <2>2 DEF UnstoredOK
  <2> QED
    BY <1>1, <2>2, <2>3, <2>4, <2>5, IdleCall DEF HolderChanged, RotationInv
<1> QED
  BY <1>4, <1>5

LEMMA RestartStep ==
  ASSUME RotationInv, Restart
  PROVE  RotationInv'
<1>1. /\ lab' = disk /\ disk' = disk /\ before' = before /\ call' = Idle
      /\ interrupted' = interrupted \cup
           {o \in DOMAIN disk.ops : disk.ops[o].revision = 0 /\ lab.ops[o].revision # 0}
  BY DEF Restart, Done
<1>2. /\ StateOK(lab, before, interrupted)' /\ StateOK(disk, before, interrupted)'
  <2>1. StateOK(disk, before, interrupted')
    BY <1>1, OtherHistory DEF RotationInv
  <2> QED
    BY <1>1, <2>1
<1>3. disk \in LabStates /\ (disk.lease # 0 => disk.lease \in DOMAIN disk.ops)
  BY DEF RotationInv, StateOK, LeaseOK, LabStates
<1>4. disk.lease # 0 /\ disk.lease \notin interrupted' /\ disk.ops[disk.lease].revision = 0 =>
        disk.record.value = before[disk.lease]
  BY <1>1, <1>3 DEF RotationInv, DiskOK
<1>5. UnstoredOK' /\ DiskOK'
  <2>1. UnstoredOK'
    BY <1>1, <1>4 DEF UnstoredOK
  <2>2. Len(disk.ops) <= Len(disk.ops)
    BY <1>3 DEF LabStates
  <2>3. DiskOK'
    BY <1>1, <1>4, <2>2 DEF DiskOK
  <2> QED
    BY <2>1, <2>3
<1>6. Len(lab'.ops) <= MaxOperations
  BY <1>1, <1>3, LabBounds DEF RotationInv, DiskOK, StateOK, LabStates
<1> QED
  BY <1>1, <1>2, <1>5, <1>6, IdleCall DEF RotationInv

LEMMA RotationInvHolds == RotationSpec => []RotationInv
<1>1. RotationInit => RotationInv
  <2> SUFFICES ASSUME RotationInit PROVE RotationInv
    OBVIOUS
  <2>1. /\ lab.ops = <<>> /\ lab.record = NoRecord /\ lab.lease = 0 /\ lab \in LabStates
        /\ disk = lab /\ before \in [Ids -> Nat] /\ call = Idle
    BY DEF RotationInit, LabStates, NoRecord, Records
  <2>2. StateOK(lab, before, interrupted)
    BY <2>1 DEF StateOK, LeaseOK, HolderOK, RevokedOK, NoRecord
  <2>3. CallOK /\ UnstoredOK /\ DiskOK
    BY <2>1 DEF CallOK, UnstoredOK, DiskOK, Idle, At
  <2> QED
    BY <2>1, <2>2, <2>3, LabBounds DEF RotationInv
<1>2. RotationInv /\ [RotationNext]_labVars => RotationInv'
  <2> SUFFICES ASSUME RotationInv, [RotationNext]_labVars PROVE RotationInv'
    OBVIOUS
  <2>1. CASE UNCHANGED labVars
    BY <2>1 DEF labVars, RotationInv, CallOK, UnstoredOK, DiskOK, At, Mine
  <2> QED
    BY <2>1, StartStep, CheckpointStep, FaultStep, AcquireStep, StageStep, FinishStep, ResumeStep,
       GraceStep, CompleteStep, FailureStep, RestartStep
    DEF RotationNext
<1> QED
  BY <1>1, <1>2, PTL DEF RotationSpec

\* Any number of rotations, retries, failures and restarts: no revoked credential
\* comes back but by the rollback of an operation that stored nothing, and no
\* lease is left to nobody.
THEOREM RotationSound == RotationSpec => []RotationIsSound
<1>1. RotationInv => RotationIsSound
  <2> SUFFICES ASSUME RotationInv PROVE RevokedStaysRevoked /\ LeaseIsLive
    BY DEF RotationIsSound
  <2>1. RevokedStaysRevoked
    BY DEF RotationInv, StateOK, RevokedOK, RevokedStaysRevoked, RolledBackEmpty
  <2>2. LeaseIsLive
    <3> SUFFICES ASSUME lab.lease # 0
                 PROVE  lab.ops[lab.lease].state \in Resumable \cup {"planned"}
      BY DEF LeaseIsLive
    <3>1. lab \in LabStates /\ LeaseOK(lab)
      BY DEF RotationInv, StateOK
    <3>2. lab.lease \in DOMAIN lab.ops /\ lab.ops[lab.lease] \in Operations
      BY <3>1 DEF LeaseOK, LabStates
    <3>3. lab.ops[lab.lease].state \notin Final
      BY <3>1, <3>2 DEF LeaseOK
    <3> QED
      BY <3>2, <3>3 DEF Operations
  <2> QED
    BY <2>1, <2>2
<1> QED
  BY <1>1, RotationInvHolds, PTL

\* A rollback of an operation that had stored a credential, and was not stopped
\* before it knew of it, restores the credential that it was to replace.
THEOREM RollbackRestoresPrevious == RotationSpec => RollbackRestores
<1> DEFINE Restores ==
      \A o \in DOMAIN lab.ops \cap DOMAIN lab'.ops :
        /\ lab.ops[o].state # "rolled-back" /\ lab'.ops[o].state = "rolled-back"
        /\ lab.ops[o].revision # 0 /\ o \notin interrupted /\ before[o] # 0
        => lab'.record.value = before[o]
<1>1. RotationInv /\ [RotationNext]_labVars => [Restores]_labVars
  <2> SUFFICES ASSUME RotationInv, RotationNext,
                      NEW o \in DOMAIN lab.ops \cap DOMAIN lab'.ops,
                      lab.ops[o].state # "rolled-back", lab'.ops[o].state = "rolled-back",
                      lab.ops[o].revision # 0, o \notin interrupted, before[o] # 0
               PROVE  lab'.record.value = before[o]
    OBVIOUS
  <2>1. lab \in LabStates /\ LeaseOK(lab) /\ HolderOK(lab, before, interrupted)
    BY DEF RotationInv, StateOK
  <2>2. CASE FailureLocked
    <3>1. PICK y \in Operations :
            /\ y.revision = lab.ops[lab.lease].revision
            /\ lab' = [ops |-> [lab.ops EXCEPT ![lab.lease] = y],
                       record |-> IF y.state = "rolled-back" THEN RolledBack(lab.record)
                                  ELSE lab.record,
                       lease |-> IF y.state \in Final THEN 0 ELSE lab.lease]
      BY <2>2, FailureCases
    <3>2. lab.lease \in DOMAIN lab.ops /\ lab.lease # 0
      BY <2>2, FailureCases, CallFacts
    <3>3. o = lab.lease /\ y.state = "rolled-back"
      BY <2>1, <3>1, <3>2 DEF LabStates
    <3>4. lab.record.previous = before[o]
      BY <2>1, <3>2, <3>3 DEF HolderOK
    <3>5. lab'.record = RolledBack(lab.record)
      BY <3>1, <3>3
    <3> QED
      BY <3>4, <3>5 DEF RolledBack
  <2>3. CASE Restart
    <3>1. disk.ops[o].state \in Final => lab.ops[o] = disk.ops[o]
      BY <2>3 DEF Restart, RotationInv, DiskOK
    <3> QED
      BY <2>3, <3>1 DEF Restart, Final
  <2>4. CASE lab' = lab
    BY <2>4
  <2>5. CASE StartLocked
    BY <2>1, <2>5 DEF StartLocked, LabStates
  <2>6. ASSUME NEW c \in DOMAIN lab.ops, NEW to \in {"verifying", "grace-period"},
               lab' = [lab EXCEPT !.ops[c].state = to]
        PROVE  FALSE
    BY <2>1, <2>6 DEF LabStates
  <2>7. CASE AcquireCredentialLocked
    <3>1. CASE lab' = KnownState \/ lab' = StoredState
      BY <2>1, <2>7, <3>1, AcquireCases, StoredFacts DEF HolderChanged, StoredState
    <3> QED
      BY <2>4, <2>7, <3>1, AcquireCases
  <2>8. CASE FinishLocked
    BY <2>6, <2>8, CallFacts DEF FinishLocked, At, Save, SaveFails
  <2>9. CASE CompleteLocked
    <3>1. lab' = [lab EXCEPT !.ops[call.op].state = "complete", !.lease = 0] /\ call.op \in DOMAIN lab.ops
      BY <2>9, CallFacts DEF CompleteLocked, At
    <3> QED
      BY <2>1, <3>1 DEF LabStates
  <2>10. CASE \E n \in DOMAIN lab.ops : EnterGracePeriod(n)
    BY <2>6, <2>10 DEF EnterGracePeriod, Save, SaveFails
  <2> QED
    BY <2>2, <2>3, <2>4, <2>5, <2>7, <2>8, <2>9, <2>10
    DEF RotationNext, CheckpointLocked, FaultLocked, StageFromRecordLocked, ContinueLocked,
        RevokeLocked, Save, SaveFails
<1> QED
  BY <1>1, RotationInvHolds, PTL DEF RotationSpec, RollbackRestores
=============================================================================

-------------------------- MODULE LifecycleLease --------------------------
(***************************************************************************)
(* AcquireLease and ReleaseLease of internal/lifecycle/store.go: processes *)
(* on several devices use one encrypted object of the vault as the lease   *)
(* on a bundle.                                                            *)
(*                                                                         *)
(* A call is a load and a put (or delete), two requests of the service;    *)
(* anything may happen between them.  A process may crash at any point and *)
(* leaves its lease behind.  A request may fail, or take effect and lose   *)
(* its response.  All processes read one clock.                            *)
(***************************************************************************)
EXTENDS RevisionedStore

CONSTANTS
  Owner,      \* the processes, one lease owner each
  Bundle,     \* the object that is the bundle's lease
  TTL,        \* lease duration in seconds
  MaxNow,     \* bound: the last second of the clock
  MaxDeletes  \* bound: deletions of the lease

ASSUME LeaseConstants ==
  /\ Cell = {Bundle}
  /\ Deletable = {Bundle}
  /\ TTL \in Nat \ {0}
  /\ MaxNow \in Nat
  /\ MaxDeletes \in Nat
  /\ LastRevision \in Nat

VARIABLES
  now,     \* the clock
  phase,   \* where each process is
  begun,   \* the clock reading at the start of AcquireLease
  loaded,  \* the revision its last load returned; 0 after a failed load
  held,    \* the lease and revision that AcquireLease returned
  deletes, \* history: how often the lease was deleted
  seenAt,  \* history: deletes when a process last loaded the lease
  crossed  \* history: a write used a revision from before a deletion

historyVars == <<deletes, seenAt, crossed>>
vars == <<cells, now, phase, begun, loaded, held, historyVars>>

Phases == {"idle", "acquiring", "putting", "holding", "releasing"}

Lease == [owner : Owner, expires : Nat]

NoLease == [expires |-> 0, revision |-> 0]

TypeOK ==
  /\ cells \in [Cell -> [revision : Nat, basis : Nat, value : Lease \cup {NoValue}]]
  /\ now \in Nat
  /\ phase \in [Owner -> Phases]
  /\ begun \in [Owner -> Nat]
  /\ loaded \in [Owner -> Nat]
  /\ held \in [Owner -> [expires : Nat, revision : Nat]]
  /\ deletes \in Nat
  /\ seenAt \in [Owner -> Nat]
  /\ crossed \in BOOLEAN

Init ==
  /\ StoreInit
  /\ now = 0
  /\ phase = [p \in Owner |-> "idle"]
  /\ begun = [p \in Owner |-> 0]
  /\ loaded = [p \in Owner |-> 0]
  /\ held = [p \in Owner |-> NoLease]
  /\ deletes = 0
  /\ seenAt = [p \in Owner |-> 0]
  /\ crossed = FALSE

\* A process loads the lease, and later writes at the revision it saw.
Sees(p) ==
  /\ seenAt' = [seenAt EXCEPT ![p] = deletes]
  /\ UNCHANGED <<deletes, crossed>>

Writes(p) == crossed' = (crossed \/ seenAt[p] # deletes)

\* The locals of a call are dropped when it returns.
Return(p, next) ==
  /\ phase' = [phase EXCEPT ![p] = next]
  /\ begun' = [begun EXCEPT ![p] = 0]
  /\ loaded' = [loaded EXCEPT ![p] = 0]

-----------------------------------------------------------------------------
(* AcquireLease *)

AcquireLease(p) ==
  /\ phase[p] = "idle"
  /\ phase' = [phase EXCEPT ![p] = "acquiring"]
  /\ begun' = [begun EXCEPT ![p] = now]
  /\ UNCHANGED <<cells, now, loaded, held, historyVars>>

\* Mutant: the lease is compared with the end of the one that is to replace it.
UnexpiredByNewEnd(p) == begun[p] + TTL < cells[Bundle].value.expires

\* The lease has not expired by the clock reading taken at the start.
Unexpired(p) == begun[p] < cells[Bundle].value.expires

LoadHeld(p) ==
  /\ phase[p] = "acquiring"
  /\ cells[Bundle].revision # 0
  /\ Unexpired(p)
  /\ Return(p, "idle")
  /\ UNCHANGED <<cells, now, held, historyVars>>

\* An expired lease is overwritten at the revision that was loaded.
LoadExpired(p) ==
  /\ phase[p] = "acquiring"
  /\ cells[Bundle].revision # 0
  /\ ~Unexpired(p)
  /\ phase' = [phase EXCEPT ![p] = "putting"]
  /\ loaded' = [loaded EXCEPT ![p] = cells[Bundle].revision]
  /\ Sees(p)
  /\ UNCHANGED <<cells, now, begun, held>>

\* Any error of the load, a missing lease among them, is taken for no lease.
LoadFails(p) ==
  /\ phase[p] = "acquiring"
  /\ phase' = [phase EXCEPT ![p] = "putting"]
  /\ UNCHANGED <<cells, now, begun, loaded, held, historyVars>>

NewLease(p) == [owner |-> p, expires |-> begun[p] + TTL]

\* Overwriting an absent lease is never a crossing: there is one absence.
Overwrite(p) ==
  /\ Put(Bundle, loaded[p], NewLease(p))
  /\ IF loaded[p] = 0 THEN UNCHANGED crossed ELSE Writes(p)
  /\ UNCHANGED <<deletes, seenAt>>

PutLease(p) ==
  /\ phase[p] = "putting"
  /\ Overwrite(p)
  /\ held' = [held EXCEPT ![p] = [expires |-> begun[p] + TTL,
                                  revision |-> loaded[p] + 1]]
  /\ Return(p, "holding")
  /\ UNCHANGED now

\* A failed put, and one whose response is lost, is reported as ErrLeaseHeld.
PutFails(p) ==
  /\ phase[p] = "putting"
  /\ UNCHANGED <<cells, historyVars>> \/ Overwrite(p)
  /\ Return(p, "idle")
  /\ UNCHANGED <<now, held>>

-----------------------------------------------------------------------------
(* ReleaseLease *)

\* The lease is still this process's: same revision, same owner.
ReleaseLoad(p) ==
  /\ phase[p] = "holding"
  /\ cells[Bundle].revision = held[p].revision
  /\ cells[Bundle].value.owner = p
  /\ phase' = [phase EXCEPT ![p] = "releasing"]
  /\ Sees(p)
  /\ UNCHANGED <<cells, now, begun, loaded, held>>

\* Or it is not, or the load fails: nothing is deleted.
ReleaseRefused(p) ==
  /\ phase[p] = "holding"
  /\ held' = [held EXCEPT ![p] = NoLease]
  /\ Return(p, "idle")
  /\ UNCHANGED <<cells, now, historyVars>>

\* The deletion, which the service refuses at another revision.
ReleaseDelete(p) ==
  /\ phase[p] = "releasing"
  /\ \/ /\ deletes < MaxDeletes
        /\ Delete(Bundle, held[p].revision)
        /\ deletes' = deletes + 1
        /\ Writes(p)
        /\ UNCHANGED seenAt
     \/ UNCHANGED <<cells, historyVars>>
  /\ held' = [held EXCEPT ![p] = NoLease]
  /\ Return(p, "idle")
  /\ UNCHANGED now

-----------------------------------------------------------------------------
Crash(p) ==
  /\ phase[p] # "idle"
  /\ held' = [held EXCEPT ![p] = NoLease]
  /\ Return(p, "idle")
  /\ UNCHANGED <<cells, now, historyVars>>

Tick ==
  /\ now < MaxNow
  /\ now' = now + 1
  /\ UNCHANGED <<cells, phase, begun, loaded, held, historyVars>>

Next ==
  \/ \E p \in Owner :
       \/ AcquireLease(p) \/ LoadHeld(p) \/ LoadExpired(p) \/ LoadFails(p)
       \/ PutLease(p) \/ PutFails(p)
       \/ ReleaseLoad(p) \/ ReleaseRefused(p) \/ ReleaseDelete(p)
       \/ Crash(p)
  \/ Tick

Spec == Init /\ [][Next]_vars

-----------------------------------------------------------------------------
Holds(p) == phase[p] \in {"holding", "releasing"} /\ now < held[p].expires

\* The comment on AcquireLease: the object's revision is a distributed mutex.
\* No two processes hold unexpired leases on the bundle at once.
MutualExclusion == \A p, q \in Owner : Holds(p) /\ Holds(q) => p = q

\* What the protocol does give: exclusion through crashes, expiries, failed
\* loads and lost responses, as long as no process writes or deletes at a
\* revision that it loaded before the lease was deleted and created anew.
ExclusionWithinOneLife == ~crossed => MutualExclusion
=============================================================================

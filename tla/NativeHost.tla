----------------------------- MODULE NativeHost -----------------------------
(***************************************************************************)
(* The browser's native host (internal/nativehost) and the other writers   *)
(* of a record's password and of the origins it may be filled on, together *)
(* with the controllers of ProtectedFill, whose fills read that record.    *)
(*                                                                         *)
(* A host handles one request at a time.  A request that writes reads the  *)
(* whole record, changes its part and puts the whole record back.          *)
(***************************************************************************)
EXTENDS ProtectedFill

CONSTANTS
  Host,         \* processes that serve a person: native hosts, the command line
  Origin,       \* the origins of the pages
  MaxRevision,  \* bound: revisions of the record
  MaxProcesses  \* bound: hosts and controllers that are in play

ASSUME HostConstants ==
  /\ MaxRevision \in Nat \ {0}
  /\ MaxProcesses \in Nat \ {0}
  /\ Host \cap Controller = {}

VARIABLES
  processes, \* the hosts and controllers in play
  record,    \* the record, revision 0 while there is none
  listed,    \* the record as the page last listed it
  pending,   \* the request of each host that has read and has yet to write
  intended   \* history: what the writes that were applied add up to

hostVars == <<processes, record, listed, pending, intended>>
vars == <<fillVars, hostVars>>

\* A password is named by the revision that brought it.
NoRecord == [revision |-> 0, password |-> 0, origins |-> {}]
Records == [revision : 0..MaxRevision, password : 0..MaxRevision,
            origins : SUBSET Origin]

Kinds == {"allow", "deny", "generate", "create", "set"}
NoRequest == [kind |-> "none"]
Requests == [kind : Kinds, origin : Origin, expected : 0..MaxRevision,
             new : Records]

TypeOK ==
  /\ FillTypeOK
  /\ processes \subseteq Host \cup Controller
  /\ record \in Records
  /\ \A h \in Host : listed[h] \in Records /\ listed[h].revision <= record.revision
  /\ \A h \in Host :
       pending[h] # NoRequest =>
         /\ pending[h] \in Requests
         /\ pending[h].new.revision = pending[h].expected + 1
         /\ pending[h].expected <= record.revision

Init ==
  /\ FillInit
  /\ processes \in SUBSET (Host \cup Controller)
  /\ Cardinality(processes) <= MaxProcesses
  /\ record = NoRecord
  /\ listed = [h \in Host |-> NoRecord]
  /\ pending = [h \in Host |-> NoRequest]
  /\ intended = [password |-> 0, origins |-> {}]

-----------------------------------------------------------------------------
\* list_for_origin: the page learns the revision; a person sees what is there.
List(h) ==
  /\ pending[h] = NoRequest
  /\ listed' = [listed EXCEPT ![h] = record]
  /\ UNCHANGED <<processes, record, pending, intended>>

\* generatePassword replaces only the revision that the page named, and
\* creates only where the page saw nothing.
Confirmed(h) == listed[h].revision = record.revision

\* The record that was read is to be put back as `new`, with the next revision.
BeginWrite(h, kind, origin, new) ==
  /\ pending[h] = NoRequest
  /\ record.revision < MaxRevision
  /\ pending' = [pending EXCEPT ![h] =
       [kind |-> kind, origin |-> origin, expected |-> record.revision,
        new |-> [new EXCEPT !.revision = record.revision + 1]]]
  /\ UNCHANGED <<processes, record, listed, intended>>

\* A policy is changed if there is a record and the change makes a difference.
BeginPolicy(h, origin, allow) ==
  /\ record.revision # 0
  /\ (origin \in record.origins) # allow
  /\ BeginWrite(h, IF allow THEN "allow" ELSE "deny", origin,
                [record EXCEPT !.origins = IF allow THEN @ \cup {origin}
                                           ELSE @ \ {origin}])

\* allow_origin and deny_origin of a page; browser-allow and browser-deny.
ChangePolicy(h, origin, allow) == BeginPolicy(h, origin, allow)
BrowserOriginCommand(h, origin, allow) == BeginPolicy(h, origin, allow)

\* generate_password: the page's origin is allowed as well.
GeneratePassword(h, origin) ==
  /\ Confirmed(h)
  /\ BeginWrite(h, "generate", origin,
                [record EXCEPT !.origins = @ \cup {origin},
                               !.password = record.revision + 1])

\* The generate command keeps the origins; without --replace it only creates.
GenerateCommand(h, origin, replace) ==
  /\ replace \/ record.revision = 0
  /\ BeginWrite(h, IF replace THEN "set" ELSE "create", origin,
                [record EXCEPT !.password = record.revision + 1])

\* putSecretValue of set, rotate and the agent's broker.
SetSecret(h, origin) ==
  BeginWrite(h, "set", origin, [record EXCEPT !.password = record.revision + 1])

\* Mutant: the vault accepts any revision.
AtAnyRevision(h) == TRUE

\* PutRecord at the vault: the revision is the one that was read.
AtExpected(h) == record.revision = pending[h].expected

\* What the request asked for, and no more.
Meant(request) ==
  [password |-> IF request.kind \in {"allow", "deny"}
                THEN intended.password ELSE request.new.password,
   origins  |-> CASE request.kind \in {"allow", "generate"}
                       -> intended.origins \cup {request.origin}
                  [] request.kind = "deny" -> intended.origins \ {request.origin}
                  [] OTHER -> intended.origins]

\* The write is applied, whether or not the answer arrives.
Put(h) ==
  /\ pending[h] # NoRequest
  /\ AtExpected(h)
  /\ record' = pending[h].new
  /\ intended' = Meant(pending[h])
  /\ pending' = [pending EXCEPT ![h] = NoRequest]
  /\ UNCHANGED <<processes, listed>>

\* Or it is refused, or lost, or the host ends: lock, idle time, end of input.
GiveUp(h) ==
  /\ pending[h] # NoRequest
  /\ pending' = [pending EXCEPT ![h] = NoRequest]
  /\ UNCHANGED <<processes, record, listed, intended>>

HostStep(h) ==
  \/ List(h)
  \/ \E origin \in Origin :
       \/ \E allow \in BOOLEAN : \/ ChangePolicy(h, origin, allow)
                                \/ BrowserOriginCommand(h, origin, allow)
       \/ GeneratePassword(h, origin)
       \/ \E replace \in BOOLEAN : GenerateCommand(h, origin, replace)
       \/ SetSecret(h, origin)
  \/ Put(h)
  \/ GiveUp(h)

\* protected_execute: the value is found if the record allows the origin.
ReadValue(c) == \E origin \in Origin : Read(c, origin \in record.origins)

Next ==
  \/ /\ \E h \in Host \cap processes : HostStep(h)
     /\ UNCHANGED fillVars
  \/ /\ \/ \E c \in Controller \cap processes : FillStep(c) \/ ReadValue(c)
        \/ PowerLoss
     /\ UNCHANGED hostVars

Spec == Init /\ [][Next]_vars

-----------------------------------------------------------------------------
(* Properties *)

\* Writers put back whole records, and still no decision of another is undone:
\* the password is the one last written, and the origins are those that the
\* last decision about each of them allows.
NoUpdateIsLost ==
  /\ record.password = intended.password
  /\ record.origins = intended.origins

=============================================================================

--------------------------- MODULE EvidenceChain ---------------------------
(***************************************************************************)
(* The evidence of a lifecycle operation: NewEvidence and                  *)
(* VerifyEvidenceChain of internal/lifecycle/policy.go, and AppendEvidence *)
(* of store.go, used by several processes at once.                         *)
(*                                                                         *)
(* A link has the digest of its predecessor, which has that of its own: a  *)
(* link is as good as the chain that it ends.  The chain is one encrypted  *)
(* object, written link by link and never deleted, so that its revision is *)
(* its length.                                                             *)
(***************************************************************************)
EXTENDS Naturals, Sequences
LOCAL INSTANCE SequencesExt

CONSTANTS
  Writer,    \* the processes that append evidence
  MaxLinks   \* bound: links of the chain

ASSUME MaxLinksIsNat == MaxLinks \in Nat

VARIABLES
  chain,   \* the stored chain, as the writers of its links
  last,    \* the chain that the newest link each process knows of ends
  append   \* the AppendEvidence of each process: the link, the chain it found

chainVars == <<chain, last, append>>

NoAppend == [step |-> "none"]

Chains == UNION {[1..n -> Writer] : n \in 0..MaxLinks}

ChainTypeOK ==
  /\ chain \in Chains
  /\ last \in [Writer -> Chains]
  /\ \A p \in Writer :
       \/ append[p] = NoAppend
       \/ /\ append[p].link \in Chains \ {<<>>}
          /\ append[p].found \in Chains
          /\ append[p].step \in {"loading", "putting"}
          /\ append[p].step = "putting" => Len(append[p].link) = Len(append[p].found) + 1

ChainInit ==
  /\ chain = <<>>
  /\ last = [p \in Writer |-> <<>>]
  /\ append = [p \in Writer |-> NoAppend]

-----------------------------------------------------------------------------
\* A process reads the chain, to continue it.
ReadChain(p) ==
  /\ append[p] = NoAppend
  /\ last' = [last EXCEPT ![p] = chain]
  /\ UNCHANGED <<chain, append>>

\* NewEvidence after the newest link it knows of, and AppendEvidence.
NewEvidence(p) ==
  /\ append[p] = NoAppend
  /\ Len(last[p]) < MaxLinks
  /\ append' = [append EXCEPT ![p] = [step |-> "loading", link |-> Append(last[p], p),
                                      found |-> <<>>]]
  /\ UNCHANGED <<chain, last>>

\* VerifyEvidenceChain of the chain that was found with the link at its end.
Follows(link, found) ==
  Len(link) = Len(found) + 1 /\ IsPrefix(found, link)

\* Any error of the load, not just a missing object, stands for no chain.
LoadChain(p, found) ==
  /\ append[p].step = "loading"
  /\ append' = [append EXCEPT ![p] =
                  IF Follows(append[p].link, found)
                  THEN [append[p] EXCEPT !.step = "putting", !.found = found]
                  ELSE NoAppend]
  /\ UNCHANGED <<chain, last>>

\* Mutant: the object is stored at any revision.
UnchangedOrNot(p) == TRUE

\* PutObject at the revision that was loaded; 0 without a chain.
StillAsFound(p) == Len(chain) = Len(append[p].found)

\* The response, if it arrives, tells the process that its link is stored.
PutChain(p) ==
  /\ append[p].step = "putting"
  /\ StillAsFound(p)
  /\ chain' = append[p].link
  /\ last' \in {last, [last EXCEPT ![p] = append[p].link]}
  /\ append' = [append EXCEPT ![p] = NoAppend]

\* The request is refused or lost.
FailAppend(p) ==
  /\ append[p] # NoAppend
  /\ append' = [append EXCEPT ![p] = NoAppend]
  /\ UNCHANGED <<chain, last>>

ChainNext ==
  \E p \in Writer :
    \/ ReadChain(p) \/ NewEvidence(p)
    \/ LoadChain(p, chain) \/ LoadChain(p, <<>>)
    \/ PutChain(p) \/ FailAppend(p)

ChainSpec == ChainInit /\ [][ChainNext]_chainVars

-----------------------------------------------------------------------------
\* Evidence is append-only: no step drops or replaces a link, although a load
\* that fails for any reason is taken for an empty chain.
EvidenceOnlyGrows == [][IsPrefix(chain, chain')]_chainVars
=============================================================================

--------------------- MODULE NaturalDevelopmentInvariant ---------------------
(***************************************************************************)
(* Why what is consumed was applied, why a target that cannot be read is   *)
(* never left behind, and what the reconciliation may be believed: an      *)
(* inductive invariant of NaturalDevelopment.                              *)
(***************************************************************************)
EXTENDS NaturalDevelopment, AuthorizationStoreInvariant

Open == {"STARTED", "UNRESOLVED"}
Swapped == {"project", "write", "answer"}

\* One mutation of the target is open at a time.
OneOpen ==
  \A a, b \in Authorization : outcome[a] \in Open /\ outcome[b] \in Open => a = b

\* Two processes never dispatch under one authorization.
DispatchersAreAlone ==
  \A p, q \in Process :
    pc[p] = "dispatching" /\ pc[q] = "dispatching" /\ job[p] = job[q] => p = q

\* A call that is in its mutation has an open transaction.
StagesAreOpen == \A p \in Process : stage[p] # "none" => outcome[job[p]] = "STARTED"

\* Nothing is replaced before the journal records the commit authority, and a transaction
\* that was called failed never got there.
AuthorityFirst ==
  \A a \in Authorization :
    /\ effect[a] \in {"NONE", "APPLIED"}
    /\ effect[a] # "NONE" => a \in authorized
    /\ outcome[a] \in {"OPEN", "FAILED"} => a \notin authorized

\* How far a call has got with its target.
StageProgress ==
  \A p \in Process :
    /\ stage[p] = "before" => job[p] \notin authorized /\ Observable
    /\ stage[p] = "bootstrap" =>
         /\ job[p] \in authorized /\ effect[job[p]] = "NONE" /\ Observable
         /\ worktree \in {Before[job[p]], content}
    /\ stage[p] = "swap" =>
         /\ job[p] \in authorized /\ effect[job[p]] = "NONE" /\ manifested
         /\ worktree = Before[job[p]] /\ content = Before[job[p]]
    /\ stage[p] \in Swapped =>
         effect[job[p]] = "APPLIED" /\ manifested /\ content = Replacement[job[p]]
    /\ stage[p] = "answer" => projection[content] = "MATCHED"

\* Without a manifest the ordinary file is the authority.
FileIsAuthority == ~manifested => worktree = content

\* While the target cannot be read, recovery sees the ordinary file as it was before.
UnreadableIsOpen ==
  \A a \in Authorization :
    outcome[a] = "STARTED" /\ ~Observable => a \in authorized /\ worktree = Before[a]

\* What the answer of a mutation says when it is a success with its evidence.
Answered(a) ==
  outcome[a] = "SUCCESS" /\ effect[a] = "APPLIED" /\ projection[Replacement[a]] = "MATCHED"

\* The steps after the evidence, the events they prepare and the reports they give.
EvidenceFirst ==
  /\ \A p \in Process : pc[p] \in After \ {"dispatching"} => Answered(job[p])
  /\ \A g \in DOMAIN witness :
       witness[g].envelope.type = "CONSUME" => Answered(witness[g].envelope.authorization)
  /\ \A a \in Authorization : report[a] # "NONE" => Answered(a)

\* The inductive invariant of the proofs, as TLC checks it (the code that is to keep it:
\* composeAndDispatch, patchFileWithGrant and the recovery).
IInv ==
  /\ TypeOK
  /\ StoreInv
  /\ OneOpen
  /\ DispatchersAreAlone
  /\ StagesAreOpen
  /\ AuthorityFirst
  /\ StageProgress
  /\ FileIsAuthority
  /\ UnreadableIsOpen
  /\ UnreadableIsUnresolved
  /\ EvidenceFirst

----------------------------------------------------------------------------
(***************************************************************************)
(* What an outcome says of the effect when recovery gave it.  Recovery     *)
(* knows the ordinary file: it can tell which mutation wrote what is there *)
(* as long as every authorization has a replacement of its own.            *)
(***************************************************************************)

OwnReplacements ==
  \A a, b \in Authorization : Replacement[a] = Replacement[b] => a = b

\* The content is the initial one, or somebody's replacement.
ContentHasAuthor ==
  \/ /\ content = InitialContent /\ worktree = InitialContent
     /\ \A a \in Authorization : effect[a] = "NONE"
  \/ \E a \in Authorization : effect[a] = "APPLIED" /\ content = Replacement[a]

\* A replacement that did not happen is nowhere to be seen.
NoFalseReplacement ==
  \A a \in authorized : effect[a] = "NONE" => worktree # Replacement[a] /\ content # Replacement[a]

SuccessIsApplied == \A a \in Authorization : outcome[a] = "SUCCESS" => effect[a] = "APPLIED"

TruthInv == IInv /\ ContentHasAuthor /\ NoFalseReplacement /\ SuccessIsApplied
=============================================================================

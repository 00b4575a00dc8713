------------------- MODULE PhysicalControlPlaneInvariant -------------------
(***************************************************************************)
(* Why the writer of the physical registry is alone and no operation is    *)
(* dispatched twice: an inductive invariant of PhysicalControlPlane.       *)
(***************************************************************************)
EXTENDS PhysicalControlPlane

ServerOf(q) == job[q].server
Writing == {"acquire", "undo", "check", "rename", "confirm", "release"}
Holding == {"undo", "check", "rename", "confirm", "release"}
Claims(q) == Alive(q) /\ note[q].purpose = "claim"

\* A server is opened once, before anything is sent to it.
SentToOpened == \A q \in Request : pc[q] # "idle" => status[ServerOf(q)] # "closed"

\* Only claim() writes a claim; an observation does not.
PurposeKept ==
  \A q \in Request : pc[q] \in {"observe", "evidence"} => note[q].purpose # "claim"

\* A request that writes has the turn of its server.
TurnTaken == \A q \in Request : Alive(q) /\ pc[q] \in Writing => turn[ServerOf(q)] = q

\* From the link to the release the writer record is the writer's own.
LockHeld == \A q \in Request : Alive(q) /\ pc[q] \in Holding => lock.ticket = TicketOf(q)

\* Only a request that was sent has left a writer record, so its server is known.
OwnerSent ==
  /\ lock # NoLock => pc[lock.ticket[1]] # "idle"
  /\ \A k \in Recoverer :
       rpc[k] # "idle" => pc[seen[k].ticket[1]] # "idle"

\* Before it renames, a writer has compared the file with what it knows.
FileIsKnown ==
  \A q \in Request : Alive(q) /\ pc[q] = "rename" => registry = committed[ServerOf(q)]

\* The process of a record under recovery has ended.
OwnerEnded ==
  \A k \in Recoverer : rpc[k] \notin {"idle", "inspect", "evidence"} => OrphanConfirmed(k)

\* A recoverer past its claim holds the one claim of the record.
ClaimHeld ==
  /\ \A c, d \in claims : c[1] = d[1] => c = d
  /\ \A k \in Recoverer :
       rpc[k] \notin {"idle", "inspect", "evidence", "claim"} => <<seen[k].ticket, k>> \in claims

\* The record about to be unlinked is the one that was inspected.
RecordUnchanged == \A k \in Recoverer : rpc[k] = "unlink" => lock = seen[k]

\* A server knows in memory every operation it knows from the file.
MemoryExtends ==
  \A s \in Server, o \in Operation :
    committed[s].entries[o] # Absent => memory[s][o] # Absent

\* A claim is of an operation the file does not have, until it is renamed into it.
ClaimIsNew ==
  \A q \in Request :
    /\ Claims(q) /\ pc[q] \in {"acquire", "check", "rename"} =>
         /\ committed[ServerOf(q)].entries[OperationOf(q)] = Absent
         /\ memory[ServerOf(q)][OperationOf(q)] # Absent
    /\ Claims(q) /\ (pc[q] = "confirm" \/ (pc[q] = "release" /\ note[q].outcome = "ok")) =>
         /\ registry.entries[OperationOf(q)] # Absent
         /\ \A p \in dispatched : OperationOf(p) # OperationOf(q)

\* What was dispatched is in the file.
DispatchedIsRecorded ==
  \A q \in dispatched : pc[q] # "idle" /\ registry.entries[OperationOf(q)] # Absent

\* The inductive invariant of the proofs, as TLC checks it (the code that is to keep it:
\* persist() and recover()).
IInv ==
  /\ TypeOK
  /\ SentToOpened
  /\ PurposeKept
  /\ TurnTaken
  /\ LockHeld
  /\ OwnerSent
  /\ FileIsKnown
  /\ OwnerEnded
  /\ ClaimHeld
  /\ RecordUnchanged
  /\ MemoryExtends
  /\ ClaimIsNew
  /\ DispatchedIsRecorded
  /\ DispatchedAtMostOnce
=============================================================================

------------------------ MODULE PhysicalControlPlane ------------------------
(***************************************************************************)
(* The physical control plane: core/control-plane-physical-service.js over *)
(* adapters/durable-control-plane-physical-submission-registry.js, and the *)
(* recovery of an orphan writer record in                                  *)
(* adapters/control-plane-registry-writer-recovery.js.                     *)
(*                                                                         *)
(* A server is one process with its own copy of the registry; several may  *)
(* share the storage directory, and one that ended never comes back (a     *)
(* restart is another server).  Within a server, what happens between two  *)
(* awaits is one turn of the event loop: other requests of that server     *)
(* wait, but other processes interleave between any two operations on the  *)
(* shared files.                                                           *)
(***************************************************************************)
EXTENDS SubmissionRecord, FiniteSets

CONSTANTS
  Server,         \* processes that run the service
  Request,        \* calls of submit, reconcile and inspect
  Operation,      \* physical operations
  Recoverer,      \* processes that recover the writer record
  Nobody,         \* no request, no server, no recoverer
  Capacity,       \* maxRegistryBytes, in records
  StorageFaults   \* may a write, flush, link, rename or unlink fail

ASSUME ConstantsAssumption ==
  /\ Nobody \notin Server \union Request \union Recoverer
  /\ Absent \notin Record
  /\ Capacity \in Nat
  /\ StorageFaults \in BOOLEAN

VARIABLES
  registry,    \* the registry file
  lock,        \* the writer record, or NoLock
  claims,      \* the recovery claim files: ticket, and whose it is
  status,      \* server -> "closed", "open" or "dead"
  committed,   \* server -> the registry file it last read or wrote
  memory,      \* server -> its in-memory records
  poisoned,    \* server -> must it be reopened
  turn,        \* server -> the request whose turn it is
  pc,          \* request -> its next operation
  job,         \* request -> the server it was sent to, its operation
  note,        \* request -> what it carries from one operation to the next
  dispatched,  \* requests that handed their operation to the executor
  effects,     \* operations that took physical effect
  rpc,         \* recoverer -> its next operation
  seen         \* recoverer -> the writer record it read

serverVars == <<status, committed, memory, poisoned>>
recoveryVars == <<rpc, seen>>
vars == <<registry, lock, claims, serverVars, turn, pc, job, note, dispatched, effects,
          recoveryVars>>

Records == [Operation -> MaybeRecord]
Registry == [generation : Nat, entries : Records]
EmptyRegistry == [generation |-> 0, entries |-> [o \in Operation |-> Absent]]

\* A request writes at most once for each of these purposes, so the pair names one
\* acquisition of the writer record, as its random owner token does.
Purposes == {"claim", "report", "settle", "observe"}
Ticket == Request \X Purposes
WriterRecord == [ticket : Ticket, observed : Registry]
NoLock == [ticket |-> <<Nobody, "claim">>, observed |-> EmptyRegistry]

Steps == {"idle", "observe", "acquire", "undo", "check", "rename", "confirm",
          "release", "execute", "evidence", "answered"}
RecoverySteps == {"idle", "inspect", "evidence", "claim", "recheck", "authorize", "final", "unlink",
                  "publish", "abandon"}
NoJob == [server |-> Nobody, operation |-> Nobody]
EmptyNote == [purpose |-> "observe", state |-> "unknown", after |-> 0, outcome |-> "ok"]

\* The one type invariant.
TypeOK ==
  /\ registry \in Registry
  /\ lock \in WriterRecord \union {NoLock}
  /\ claims \subseteq (Ticket \X (Recoverer \union {Nobody}))
  /\ status \in [Server -> {"closed", "open", "dead"}]
  /\ committed \in [Server -> Registry]
  /\ memory \in [Server -> Records]
  /\ poisoned \in [Server -> BOOLEAN]
  /\ turn \in [Server -> Request \union {Nobody}]
  /\ pc \in [Request -> Steps]
  /\ job \in [Request -> [server : Server, operation : Operation] \union {NoJob}]
  /\ \A q \in Request : pc[q] # "idle" => job[q].server \in Server
  /\ note \in [Request -> [purpose : Purposes, state : States, after : Nat,
                           outcome : {"ok", "error"}]]
  /\ dispatched \subseteq Request
  /\ effects \subseteq Operation
  /\ rpc \in [Recoverer -> RecoverySteps]
  /\ seen \in [Recoverer -> WriterRecord \union {NoLock}]
  /\ \A k \in Recoverer : rpc[k] # "idle" => seen[k] # NoLock

Init ==
  /\ registry = EmptyRegistry
  /\ lock = NoLock
  /\ claims = {}
  /\ status = [s \in Server |-> "closed"]
  /\ committed = [s \in Server |-> EmptyRegistry]
  /\ memory = [s \in Server |-> EmptyRegistry.entries]
  /\ poisoned = [s \in Server |-> FALSE]
  /\ turn = [s \in Server |-> Nobody]
  /\ pc = [q \in Request |-> "idle"]
  /\ job = [q \in Request |-> NoJob]
  /\ note = [q \in Request |-> EmptyNote]
  /\ dispatched = {}
  /\ effects = {}
  /\ rpc = [k \in Recoverer |-> "idle"]
  /\ seen = [k \in Recoverer |-> NoLock]

Goto(q, step) == pc' = [pc EXCEPT ![q] = step]
Note(q, value) == note' = [note EXCEPT ![q] = value]
OperationOf(q) == job[q].operation
TicketOf(q) == <<q, note[q].purpose>>

\* Request q was sent and its process has not ended.
Alive(q) == pc[q] # "idle" /\ status[job[q].server] = "open"

\* A server runs request q: it lives, and no other request has its turn.
Runs(q) ==
  /\ status[job[q].server] = "open"
  /\ turn[job[q].server] \in {q, Nobody}

Keep(q) == turn' = [turn EXCEPT ![job[q].server] = q]
Yield(q) == turn' = [turn EXCEPT ![job[q].server] = Nobody]
Stay(q) == turn[job[q].server] = q /\ UNCHANGED turn

outside == <<claims, recoveryVars>>
files == <<registry, lock>>
history == <<dispatched, effects>>

----------------------------------------------------------------------------
(***************************************************************************)
(* The server's copy of the registry.                                      *)
(***************************************************************************)

\* read() and hydrate() when the server opens the registry.
Open(s) ==
  /\ status[s] = "closed"
  /\ status' = [status EXCEPT ![s] = "open"]
  /\ committed' = [committed EXCEPT ![s] = registry]
  /\ memory' = [memory EXCEPT ![s] = registry.entries]
  /\ UNCHANGED <<files, poisoned, turn, pc, job, note, history, outside>>

\* A mutation for TLC's runs: refresh() takes the generation, not the records.
RefreshedGeneration(s) == memory[s]

\* What refresh() makes of the in-memory records: they are replaced only when the file
\* is not the one the server last knew.
Refreshed(s) == IF registry = committed[s] THEN memory[s] ELSE registry.entries

Adopt(s, records) ==
  /\ committed' = [committed EXCEPT ![s] = registry]
  /\ memory' = [memory EXCEPT ![s] = records]
  /\ UNCHANGED <<status, poisoned>>

Poison(q) ==
  /\ poisoned' = [poisoned EXCEPT ![job[q].server] = TRUE]
  /\ UNCHANGED <<status, committed, memory>>

Answer(q) ==
  /\ Goto(q, "answered")
  /\ Yield(q)
  /\ Note(q, EmptyNote)

\* An error thrown out of claim() or observe().  The service answers with it, unless it
\* was recording a success: then it settles the operation as failed,
\* in the same turn.
Throw(q) ==
  IF note[q].purpose = "report"
  THEN /\ Note(q, [note[q] EXCEPT !.purpose = "settle", !.state = "failed", !.outcome = "ok"])
       /\ Goto(q, "observe")
       /\ Keep(q)
  ELSE Answer(q)

----------------------------------------------------------------------------
(***************************************************************************)
(* Requests.                                                               *)
(***************************************************************************)

\* A call that reaches the server's registry.  One that is invalid, or that finds the
\* registry unreadable or to be reopened, changes nothing and is no step.
Send(q, s, o) ==
  /\ pc[q] = "idle"
  /\ status[s] = "open"
  /\ turn[s] = Nobody
  /\ ~poisoned[s]
  /\ job' = [job EXCEPT ![q] = [server |-> s, operation |-> o]]

\* claim() of an operation the server's records do not know.
SubmitNew(q, s, o) ==
  /\ Send(q, s, o)
  /\ Refreshed(s)[o] = Absent
  /\ Adopt(s, [Refreshed(s) EXCEPT ![o] = Registered])
  /\ Note(q, [EmptyNote EXCEPT !.purpose = "claim"])
  /\ turn' = [turn EXCEPT ![s] = q]
  /\ Goto(q, "acquire")
  /\ UNCHANGED <<files, history, outside>>

\* A call that ends after refresh(): the operation is a replay, unknown, or bound to
\* another request.
CallEnds(q, s, o) ==
  /\ Send(q, s, o)
  /\ Adopt(s, Refreshed(s))
  /\ Goto(q, "answered")
  /\ UNCHANGED <<files, turn, note, history, outside>>

\* get() of a known operation.  inspect() records what it read; so does reconcile() of a
\* settled operation, any other is given to the executor first.
Look(q, s, o) ==
  /\ Send(q, s, o)
  /\ Refreshed(s)[o] # Absent
  /\ Adopt(s, Refreshed(s))
  /\ Note(q, [EmptyNote EXCEPT !.state = Refreshed(s)[o].state,
                               !.after = Refreshed(s)[o].sequence])
  /\ \/ turn' = [turn EXCEPT ![s] = q] /\ Goto(q, "observe")
     \/ Refreshed(s)[o].state \notin Settled /\ UNCHANGED turn /\ Goto(q, "evidence")
  /\ UNCHANGED <<files, history, outside>>

\* The executor dispatches through the gateway.  The effect and the answer are told
\* apart: what follows the effect may fail.
Execute(q) ==
  /\ pc[q] = "execute"
  /\ Runs(q)
  /\ \E effect \in BOOLEAN, state \in Settled \union {"unknown"} :
       /\ state = "succeeded" => effect
       /\ effects' = IF effect THEN effects \union {OperationOf(q)} ELSE effects
       /\ Note(q, [purpose |-> IF state = "succeeded" THEN "report" ELSE "settle",
                   state |-> state, after |-> Registered.sequence, outcome |-> "ok"])
  /\ Goto(q, "observe")
  /\ UNCHANGED <<files, serverVars, turn, job, dispatched, outside>>

\* The executor asks for physical evidence, which is truthful: it says succeeded of an
\* effect, failed only when there is none and no execution of the operation is under way.
Evidence(q) ==
  /\ pc[q] = "evidence"
  /\ Runs(q)
  /\ \E state \in Settled \union {"unknown"} :
       /\ state = "succeeded" => OperationOf(q) \in effects
       /\ state = "failed" =>
            /\ OperationOf(q) \notin effects
            /\ ~\E p \in Request :
                 Alive(p) /\ pc[p] = "execute" /\ OperationOf(p) = OperationOf(q)
       /\ Note(q, [note[q] EXCEPT !.state = state])
  /\ Goto(q, "observe")
  /\ UNCHANGED <<files, serverVars, turn, job, history, outside>>

\* observe(): refused, or recorded in memory before it is written.
Observe(q) ==
  LET s == job[q].server
      o == OperationOf(q)
  IN
  /\ pc[q] = "observe"
  /\ Runs(q)
  /\ ~poisoned[s]
  /\ MayObserve(Refreshed(s)[o], note[q].after, note[q].state)
  /\ Adopt(s, [Refreshed(s) EXCEPT ![o] = Observed(Refreshed(s)[o], note[q].state)])
  /\ Keep(q)
  /\ Goto(q, "acquire")
  /\ UNCHANGED <<files, job, note, history, outside>>

ObserveRefused(q) ==
  LET s == job[q].server
      o == OperationOf(q)
  IN
  /\ pc[q] = "observe"
  /\ Runs(q)
  /\ \/ /\ poisoned[s] \/ StorageFaults
        /\ Throw(q)
        /\ UNCHANGED serverVars
     \/ /\ ~poisoned[s]
        /\ ~MayObserve(Refreshed(s)[o], note[q].after, note[q].state)
        /\ Throw(q)
        /\ Adopt(s, Refreshed(s))
  /\ UNCHANGED <<files, job, history, outside>>

----------------------------------------------------------------------------
(***************************************************************************)
(* persist(): one durable write under the writer record.                   *)
(***************************************************************************)

\* A record takes space, and the evidence of a success takes more.
Fits(records) ==
  Cardinality({o \in Operation : records[o] # Absent})
    + Cardinality({o \in Operation : records[o] # Absent /\ records[o].state = "succeeded"})
    <= Capacity

\* link() of the flushed writer record, and its directory flush, which may fail after
\* the record became visible.
Acquire(q) ==
  /\ pc[q] = "acquire"
  /\ Stay(q)
  /\ lock = NoLock
  /\ lock' = [ticket |-> TicketOf(q), observed |-> committed[job[q].server]]
  /\ \/ Fits(memory[job[q].server]) /\ Goto(q, "check")
     \/ StorageFaults /\ Goto(q, "undo")
  /\ UNCHANGED <<registry, serverVars, job, note, history, outside>>

\* The size is checked between the acquisition and the try that releases.
AcquireOversized(q) ==
  /\ pc[q] = "acquire"
  /\ turn[job[q].server] = q
  /\ lock = NoLock
  /\ ~Fits(memory[job[q].server])
  /\ lock' = [ticket |-> TicketOf(q), observed |-> committed[job[q].server]]
  /\ Throw(q)
  /\ UNCHANGED <<registry, serverVars, job, history, outside>>

AcquireContended(q) ==
  /\ pc[q] = "acquire"
  /\ turn[job[q].server] = q
  /\ lock # NoLock
  /\ Throw(q)
  /\ UNCHANGED <<files, serverVars, job, history, outside>>

\* Nothing was linked.
AcquireFails(q) ==
  /\ StorageFaults
  /\ pc[q] = "acquire"
  /\ turn[job[q].server] = q
  /\ Throw(q)
  /\ UNCHANGED <<files, serverVars, job, history, outside>>

\* The record is read again and unlinked if it is this one; either may fail.
UndoAcquire(q) ==
  /\ pc[q] = "undo"
  /\ turn[job[q].server] = q
  /\ \/ lock' = IF lock.ticket = TicketOf(q) THEN NoLock ELSE lock
     \/ lock' = lock
  /\ Throw(q)
  /\ UNCHANGED <<registry, serverVars, job, history, outside>>

\* An error after the acquisition: the server must be reopened, the record is released.
Fail(q) ==
  /\ Poison(q)
  /\ Note(q, [note[q] EXCEPT !.outcome = "error"])
  /\ Goto(q, "release")

\* A mutation for TLC's runs: nothing is read before the rename.
CheckNothing(q) ==
  /\ pc[q] = "check"
  /\ Stay(q)
  /\ Goto(q, "rename")
  /\ UNCHANGED <<files, serverVars, job, note, history, outside>>

\* The generation check, before and after the temporary file is written and flushed.
Check(q) ==
  /\ pc[q] = "check"
  /\ Stay(q)
  /\ \/ /\ registry = committed[job[q].server]
        /\ Goto(q, "rename")
        /\ UNCHANGED <<serverVars, note>>
     \/ (registry # committed[job[q].server] \/ StorageFaults) /\ Fail(q)
  /\ UNCHANGED <<files, job, history, outside>>

NextRegistry(q) ==
  [generation |-> committed[job[q].server].generation + 1,
   entries |-> memory[job[q].server]]

Rename(q) ==
  /\ pc[q] = "rename"
  /\ Stay(q)
  /\ \/ /\ registry' = NextRegistry(q)
        /\ Goto(q, "confirm")
        /\ UNCHANGED <<serverVars, note>>
     \/ StorageFaults /\ Fail(q) /\ UNCHANGED registry
  /\ UNCHANGED <<lock, job, history, outside>>

Confirm(q) ==
  /\ pc[q] = "confirm"
  /\ Stay(q)
  /\ \/ /\ committed' = [committed EXCEPT ![job[q].server] = NextRegistry(q)]
        /\ Goto(q, "release")
        /\ UNCHANGED <<status, memory, poisoned, note>>
     \/ StorageFaults /\ Fail(q)
  /\ UNCHANGED <<files, job, history, outside>>

\* A mutation for TLC's runs: the operation is dispatched although its claim failed.
ReturnRegardless(q, outcome) ==
  IF note[q].purpose = "claim"
  THEN /\ Goto(q, "execute")
       /\ dispatched' = dispatched \union {q}
       /\ Yield(q)
       /\ UNCHANGED note
  ELSE Answer(q) /\ UNCHANGED dispatched

\* What the service does when persist() returns, or with the error it throws.
Return(q, outcome) ==
  IF outcome # "ok"
  THEN Throw(q) /\ UNCHANGED dispatched
  ELSE IF note[q].purpose = "claim"
  THEN /\ Goto(q, "execute")
       /\ dispatched' = dispatched \union {q}
       /\ Yield(q)
       /\ UNCHANGED note
  ELSE Answer(q) /\ UNCHANGED dispatched

\* The finally block: the record is read again and unlinked only if it is the server's
\* own.  An error of the release replaces the outcome of the write.
Release(q) ==
  /\ pc[q] = "release"
  /\ turn[job[q].server] = q
  /\ \/ /\ lock.ticket = TicketOf(q)
        /\ lock' = NoLock
        /\ Return(q, note[q].outcome)
     \/ /\ lock.ticket # TicketOf(q)
        /\ UNCHANGED lock
        /\ Return(q, "error")
     \/ /\ StorageFaults
        /\ lock' \in {lock} \union (IF lock.ticket = TicketOf(q) THEN {NoLock} ELSE {})
        /\ Return(q, "error")
  /\ UNCHANGED <<registry, serverVars, job, effects, outside>>

\* The process ends, and with it every request it was running.
Crash(s) ==
  /\ status[s] = "open"
  /\ status' = [status EXCEPT ![s] = "dead"]
  /\ UNCHANGED <<files, committed, memory, poisoned, turn, pc, job, note, history, outside>>

----------------------------------------------------------------------------
(***************************************************************************)
(* Recovery of an orphan writer record.                                    *)
(***************************************************************************)

service == <<registry, serverVars, turn, pc, job, note, history>>
RGoto(k, step) == rpc' = [rpc EXCEPT ![k] = step] /\ UNCHANGED seen
Leaves(k) == rpc' = [rpc EXCEPT ![k] = "idle"] /\ seen' = [seen EXCEPT ![k] = NoLock]

\* The recovery request quotes the record the operator saw.
ReadOwner(k) ==
  /\ rpc[k] = "idle"
  /\ lock # NoLock
  /\ seen' = [seen EXCEPT ![k] = lock]
  /\ rpc' = [rpc EXCEPT ![k] = "inspect"]
  /\ UNCHANGED <<service, lock, claims>>

\* The registry is still the one the writer meant to replace.
Matches(k) == registry = seen[k].observed

Inspect(k) ==
  /\ rpc[k] = "inspect"
  /\ IF Matches(k) THEN RGoto(k, "evidence") ELSE Leaves(k)
  /\ UNCHANGED <<service, lock, claims>>

\* A mutation for TLC's runs: an ACTIVE writer is taken for an orphan.
OrphanPresumed(k) == TRUE

\* External evidence, truthful about whether the process of the writer has ended.
OrphanConfirmed(k) == status[job[seen[k].ticket[1]].server] = "dead"

InspectEvidence(k) ==
  /\ rpc[k] = "evidence"
  /\ IF OrphanConfirmed(k) THEN RGoto(k, "claim") ELSE Leaves(k)
  /\ UNCHANGED <<service, lock, claims>>

\* A mutation for TLC's runs: the claim file is created without O_EXCL.
ClaimOverwriting(k) ==
  /\ rpc[k] = "claim"
  /\ claims' = {c \in claims : c[1] # seen[k].ticket} \union {<<seen[k].ticket, k>>}
  /\ RGoto(k, "recheck")
  /\ UNCHANGED <<service, lock>>

\* Exclusive creation of the claim file of this very writer record.
ClaimRecovery(k) ==
  /\ rpc[k] = "claim"
  /\ IF \E c \in claims : c[1] = seen[k].ticket
     THEN Leaves(k) /\ UNCHANGED claims
     ELSE /\ claims' = claims \union {<<seen[k].ticket, k>>}
          /\ \/ RGoto(k, "recheck")
             \/ StorageFaults /\ Leaves(k)
  /\ UNCHANGED <<service, lock>>

Recheck(k) ==
  /\ rpc[k] = "recheck"
  /\ RGoto(k, IF Matches(k) /\ lock = seen[k] THEN "authorize" ELSE "abandon")
  /\ UNCHANGED <<service, lock, claims>>

\* The evidence is inspected again and the one-shot authorization consumed, by others.
Authorize(k) ==
  /\ rpc[k] = "authorize"
  /\ \/ RGoto(k, "final")
     \/ RGoto(k, "abandon")
  /\ UNCHANGED <<service, lock, claims>>

FinalCheck(k) ==
  /\ rpc[k] = "final"
  /\ RGoto(k, IF lock = seen[k] THEN "unlink" ELSE "abandon")
  /\ UNCHANGED <<service, lock, claims>>

\* unlink() and its directory flush.  When either fails the claim file stays.
RemoveOwner(k) ==
  /\ rpc[k] = "unlink"
  /\ \/ lock # NoLock /\ lock' = NoLock /\ RGoto(k, "publish")
     \/ (lock = NoLock \/ StorageFaults) /\ lock' \in {lock, NoLock} /\ Leaves(k)
  /\ UNCHANGED <<service, claims>>

PublishResult(k) ==
  /\ rpc[k] = "publish"
  /\ \/ claims' = (claims \ {<<seen[k].ticket, k>>}) \union {<<seen[k].ticket, Nobody>>}
     \/ StorageFaults /\ UNCHANGED claims
  /\ Leaves(k)
  /\ UNCHANGED <<service, lock>>

AbandonClaim(k) ==
  /\ rpc[k] = "abandon"
  /\ \/ claims' = claims \ {<<seen[k].ticket, k>>}
     \/ StorageFaults /\ UNCHANGED claims
  /\ Leaves(k)
  /\ UNCHANGED <<service, lock>>

RecovererCrash(k) ==
  /\ rpc[k] # "idle"
  /\ Leaves(k)
  /\ UNCHANGED <<service, lock, claims>>

----------------------------------------------------------------------------
Handle(q) ==
  \/ Execute(q) \/ Evidence(q) \/ Observe(q) \/ ObserveRefused(q)
  \/ Acquire(q) \/ AcquireOversized(q) \/ AcquireContended(q) \/ AcquireFails(q)
  \/ UndoAcquire(q) \/ Check(q) \/ Rename(q) \/ Confirm(q) \/ Release(q)

Call(q, s, o) ==
  SubmitNew(q, s, o) \/ CallEnds(q, s, o) \/ Look(q, s, o)

Recover(k) ==
  \/ ReadOwner(k) \/ Inspect(k) \/ InspectEvidence(k) \/ ClaimRecovery(k) \/ Recheck(k)
  \/ Authorize(k) \/ FinalCheck(k) \/ RemoveOwner(k) \/ PublishResult(k)
  \/ AbandonClaim(k) \/ RecovererCrash(k)

Next ==
  \/ \E s \in Server : Open(s) \/ Crash(s)
  \/ \E q \in Request, s \in Server, o \in Operation : Call(q, s, o)
  \/ \E q \in Request : Alive(q) /\ Handle(q)
  \/ \E k \in Recoverer : Recover(k)

Spec == Init /\ [][Next]_vars

----------------------------------------------------------------------------
(***************************************************************************)
(* Properties.                                                             *)
(***************************************************************************)

\* A server between its generation check and its confirmed rename holds the writer
\* record, and the file it is about to replace is the one it read: no durable write of
\* another process is ever overwritten, whoever crashes and whatever recovery removes.
WriterIsAlone ==
  \A q \in Request :
    /\ Alive(q) /\ pc[q] \in {"check", "rename", "confirm"} => lock.ticket = TicketOf(q)
    /\ Alive(q) /\ pc[q] = "rename" => registry = committed[job[q].server]

\* An operation is handed to the executor by at most one request of one server, however
\* often it is submitted, across replays, restarts and lost registries
\* (control-plane-physical-service.js, submit).
DispatchedAtMostOnce ==
  \A p, q \in dispatched : OperationOf(p) = OperationOf(q) => p = q

\* Whoever is about to unlink a writer record in recovery unlinks the one it inspected,
\* and its process has ended: a replacement of a live writer is never removed.
RecoveryTakesOnlyOrphans ==
  \A k \in Recoverer : rpc[k] = "unlink" => lock = seen[k] /\ OrphanConfirmed(k)

\* "Physical evidence wins over cached or intended state": an operation that took effect
\* is never recorded as one that did not.
PhysicalEvidenceWins ==
  \A o \in effects : registry.entries[o] # Absent =>
    registry.entries[o].state # "failed"

Ledger == INSTANCE SubmissionLedger
  WITH ledger <- registry.entries,
       given <- {OperationOf(q) : q \in dispatched},
       done <- effects

\* The registry file, read by anyone at any time, is a ledger of submissions.
ImplementsLedger == Ledger!LSpec
=============================================================================

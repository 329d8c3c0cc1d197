--------------------------- MODULE ArtifactCleanup ---------------------------
(***************************************************************************)
(* Deleting a saved artifact while it may still be read: the physical      *)
(* removal of the bytes (cleanup_physical.rs) and the terminal transaction *)
(* that marks the record deleted and refunds its charge                    *)
(* (cleanup_terminal.rs), each an invocation of the read gate's one slot   *)
(* with a main task, a blocking worker that holds the store's io mutex,    *)
(* and a waiting caller.  Composed with the readers of ArtifactReads.      *)
(*                                                                         *)
(* A deadline that has passed is membership in `late`; time passes by the  *)
(* action Expire.  A crash loses everything but the database and the file. *)
(***************************************************************************)
EXTENDS ArtifactReads

CONSTANTS MaxRestarts       \* bound on process restarts

RestartsAssumption == MaxRestarts \in Nat /\ Nothing \notin Invocations

VARIABLES
    slot,       \* PhysicalInvocationSlot of the selector
    inv,        \* the invocations: main task, permission, caller and worker
    late,       \* invocations whose deadline has passed
    fact,       \* committed_terminals: whose audit event completed the key
    refunds,    \* charges returned to the workspace quota
    restarts

cleanVars == <<slot, inv, late, fact, refunds, restarts>>
vars == <<readVars, cleanVars>>

Kinds == {"remove", "observe", "terminal"}
MainStages == {"new", "closing", "begin", "lock", "wait", "audit", "reserve", "ready",
               "grant", "started", "join", "unwind", "dispose", "release", "joinworker",
               "publish", "publishing", "published", "refused"}
WorkerStages == {Nothing, "spawned", "mark", "started", "waiting", "proof", "unlink",
                 "probe", "parked", "closing", "ended"}
Ended == {"published", "refused"}

InvType ==
    [kind : Kinds, pc : MainStages, plan : {Nothing, "ok", "fail", "commit", "completed"},
     perm : {"pending", "granted", "started", "stopping", "cancelled"},
     released : BOOLEAN, caller : BOOLEAN, worker : WorkerStages,
     result : {Nothing, "absent", "retained", "error", "panic"}]

SlotType ==
    [owner : Invocations \cup {Nothing}, alive : BOOLEAN, acked : BOOLEAN,
     ack : {Nothing, "commit", "rollback"},
     reserved : BOOLEAN, started : BOOLEAN, ended : BOOLEAN]

TypeOK ==
    /\ ReadsTypeOK
    /\ slot \in SlotType
    /\ inv \in [Invocations -> InvType]
    /\ late \subseteq Invocations
    /\ fact \in Invocations \cup {Nothing}
    /\ refunds \in Nat
    /\ restarts \in 0..MaxRestarts

NewSlot(i) == [owner |-> i, alive |-> i # Nothing, acked |-> FALSE, ack |-> Nothing,
               reserved |-> FALSE, started |-> FALSE, ended |-> FALSE]

NewInv(k) == [kind |-> k, pc |-> "new", plan |-> Nothing, perm |-> "pending", released |-> FALSE,
              caller |-> TRUE, worker |-> Nothing, result |-> Nothing]

Init ==
    /\ ReadsInit
    /\ slot = NewSlot(Nothing)
    /\ inv \in [Invocations -> {NewInv(k) : k \in Kinds}]
    /\ late = {}
    /\ fact = Nothing
    /\ refunds = 0
    /\ restarts = 0

-----------------------------------------------------------------------------
(* The slot and the permission.                                            *)

Mine(i) == slot.owner = i
Terminal(i) == inv[i].kind = "terminal"

is_retired == slot.owner = Nothing \/ (~slot.alive /\ slot.acked /\ (slot.reserved => slot.ended))

terminal_precommit_ready ==
    slot.alive /\ ~slot.acked /\ slot.ack = Nothing /\ slot.reserved /\ slot.started /\ ~slot.ended

\* WorkerPermission::cancel.  A removal that has started is only asked to
\* stop; a COMMIT that has won the boundary is not undone.
cancel(i) ==
    IF inv[i].perm \in {"pending", "granted"} THEN "cancelled"
    ELSE IF inv[i].perm = "started" /\ ~Terminal(i) THEN "stopping"
    ELSE inv[i].perm

\* The worker's start holds the permission mutex across its gate proof.
PermissionFree(i) == inv[i].worker # "proof"

Touch(g) == gate' = g /\ bump
mark_unproven == Touch(keep_unproven(gate, TRUE))

Main(i, value) == inv' = [inv EXCEPT ![i] = value]

-----------------------------------------------------------------------------
(* The main task: register, close the gate, begin, lock, wait for readers. *)

\* PhysicalInvocationClaim::register / TerminalInvocationClaim::register: an
\* armed intent takes the slot unless an earlier invocation is unfinished or
\* anything about the key is unproved.
register(i) ==
    /\ inv[i].pc = "new" /\ fence # Nothing
    /\ ~Unproved(gate) /\ is_retired
    /\ slot' = NewSlot(i)
    /\ Touch([gate EXCEPT !.original = TRUE])
    /\ Main(i, [inv[i] EXCEPT !.pc = "closing"])
    /\ UNCHANGED <<fence, bytes, io, tails, closing, rd, late, fact, refunds, restarts>>

\* The gate is closed in a second critical section; a deadline met by then
\* drops the query owner, which poisons the key.
RegisterCloses(i) ==
    /\ inv[i].pc = "closing"
    /\ closing' = Collected
    /\ IF i \in late
         THEN /\ Touch(keep_unproven(CloseGate(gate), TRUE))
              /\ slot' = [slot EXCEPT !.alive = FALSE]
              /\ Main(i, [inv[i] EXCEPT !.pc = "refused"])
         ELSE /\ Touch(CloseGate(gate))
              /\ Main(i, [inv[i] EXCEPT !.pc = "begin"])
              /\ UNCHANGED slot
    /\ UNCHANGED <<fence, bytes, io, tails, rd, late, fact, refunds, restarts>>

BeginTransaction(i) ==
    /\ inv[i].pc = "begin" /\ i \notin late
    /\ Main(i, [inv[i] EXCEPT !.pc = "lock"])
    /\ UNCHANGED <<readVars, slot, late, fact, refunds, restarts>>

\* lock_before / lock_pair: the rows are locked in order and re-read; only
\* the terminal invocation knows what to do with a completed fence.
LockRows(i) ==
    /\ inv[i].pc = "lock" /\ i \notin late
    /\ fence = "armed" \/ Terminal(i)
    /\ Main(i, [inv[i] EXCEPT !.pc = "wait",
                              !.plan = IF fence = "completed" THEN "completed" ELSE Nothing])
    /\ UNCHANGED <<readVars, slot, late, fact, refunds, restarts>>

wait_original_reads_before(i) ==
    /\ inv[i].pc = "wait" /\ i \notin late
    /\ Drained
    /\ Main(i, [inv[i] EXCEPT !.pc = IF inv[i].plan = "completed" THEN "audit" ELSE "reserve"])
    /\ UNCHANGED <<readVars, slot, late, fact, refunds, restarts>>

\* A completed pair is confirmed only by the association this process
\* committed; without it the key is poisoned.
completed_audit_event_id(i) ==
    /\ inv[i].pc = "audit" /\ i \notin late /\ ~Unproved(gate)
    /\ IF fact # Nothing
         THEN Main(i, [inv[i] EXCEPT !.pc = "dispose"]) /\ UNCHANGED <<gate, fresh>>
         ELSE /\ Main(i, [inv[i] EXCEPT !.pc = "dispose", !.plan = "fail", !.perm = cancel(i)])
              /\ mark_unproven
    /\ UNCHANGED <<fence, bytes, io, tails, closing, rd, slot, late, fact, refunds, restarts>>

reserve_worker(i) ==
    /\ inv[i].pc = "reserve" /\ i \notin late
    /\ ~Unproved(gate)
    /\ Mine(i) /\ slot.alive /\ ~slot.acked /\ ~slot.reserved
    /\ slot' = [slot EXCEPT !.reserved = TRUE]
    /\ bump
    /\ Main(i, [inv[i] EXCEPT !.pc = "ready", !.worker = "spawned"])
    /\ UNCHANGED <<fence, bytes, io, gate, tails, closing, rd, late, fact, refunds, restarts>>

WorkerReady(i) ==
    /\ inv[i].pc = "ready" /\ i \notin late
    /\ inv[i].worker = "waiting"
    /\ Main(i, [inv[i] EXCEPT !.pc = "grant"])
    /\ UNCHANGED <<readVars, slot, late, fact, refunds, restarts>>

\* A fresh statement, for the terminal also the staged deletion, refund and
\* audit row inside the transaction, then the permission is granted.
grant(i) ==
    /\ inv[i].pc = "grant" /\ i \notin late
    /\ Terminal(i) => Drained /\ Mine(i) /\ terminal_precommit_ready
    /\ inv[i].perm = "pending" /\ ~inv[i].released
    /\ Main(i, [inv[i] EXCEPT !.perm = "granted",
                              !.pc = IF Terminal(i) THEN "started" ELSE "join"])
    /\ UNCHANGED <<readVars, slot, late, fact, refunds, restarts>>

\* A removal waits for its worker's observation ...
WorkerJoined(i) ==
    /\ inv[i].pc = "join" /\ i \notin late
    /\ inv[i].worker = "ended" /\ inv[i].result \in {"absent", "retained"}
    /\ Main(i, [inv[i] EXCEPT !.pc = "dispose", !.plan = "ok"])
    /\ UNCHANGED <<readVars, slot, late, fact, refunds, restarts>>

\* ... a terminal only for the worker's permission to commit.
CommitAllowed(i) ==
    /\ inv[i].pc = "started" /\ i \notin late
    /\ inv[i].worker = "parked" /\ inv[i].perm = "started"
    /\ Main(i, [inv[i] EXCEPT !.pc = "dispose", !.plan = "commit"])
    /\ UNCHANGED <<readVars, slot, late, fact, refunds, restarts>>

\* Any step of the work may fail: a statement, the host's authority, the
\* worker.  Losing the connection or the deadline also poisons the key.  A
\* removal first joins a worker it spawned; a late one leaves it running.
WorkFails(i) ==
    /\ inv[i].pc \in {"lock", "wait", "audit", "reserve", "ready", "grant", "started", "join"}
    /\ inv[i].pc = "join" /\ i \notin late => inv[i].worker = "ended"
    /\ PermissionFree(i)
    /\ \/ mark_unproven
       \/ i \notin late /\ UNCHANGED <<gate, fresh>>
    /\ Main(i, [inv[i] EXCEPT !.plan = "fail", !.perm = cancel(i),
                              !.pc = IF ~Terminal(i) /\ @ \in {"ready", "grant"} /\ i \notin late
                                     THEN "unwind" ELSE "dispose"])
    /\ UNCHANGED <<fence, bytes, io, tails, closing, rd, slot, late, fact, refunds, restarts>>

Unwound(i) ==
    /\ inv[i].pc = "unwind"
    /\ \/ inv[i].worker = "ended" /\ i \notin late /\ UNCHANGED <<gate, fresh>>
       \/ i \in late /\ mark_unproven
    /\ Main(i, [inv[i] EXCEPT !.pc = "dispose"])
    /\ UNCHANGED <<fence, bytes, io, tails, closing, rd, slot, late, fact, refunds, restarts>>

-----------------------------------------------------------------------------
(* Disposition of the transaction, publication.                            *)

\* acknowledge_rollback of a removal: only an acknowledgement in time.
PhysicalRollback(i) ==
    /\ inv[i].pc = "dispose" /\ ~Terminal(i) /\ PermissionFree(i)
    /\ i \notin late
    /\ slot' = [slot EXCEPT !.alive = FALSE, !.acked = TRUE]
    /\ bump
    /\ Main(i, [inv[i] EXCEPT !.pc = IF @ = "dispose" /\ inv[i].plan = "ok" THEN "publish"
                                     ELSE "refused",
                              !.perm = IF inv[i].plan = "ok" THEN @ ELSE cancel(i)])
    /\ UNCHANGED <<fence, bytes, io, gate, tails, closing, rd, late, fact, refunds, restarts>>

\* acknowledge_terminal keeps the acknowledgement whatever else fails; a
\* late, unclosed or already uncertain key gets no fact.
acknowledge_terminal(i, ack) ==
    /\ slot' = [slot EXCEPT !.alive = FALSE, !.acked = TRUE, !.ack = ack]
    /\ IF i \in late \/ ~gate.closed \/ Unproved(gate)
            \/ (ack = "commit" /\ (~terminal_precommit_ready \/ fact # Nothing))
         THEN /\ mark_unproven
              /\ Main(i, [inv[i] EXCEPT !.pc = "refused", !.perm = cancel(i), !.released = TRUE])
              /\ UNCHANGED fact
         ELSE /\ bump /\ UNCHANGED gate
              /\ fact' = IF ack = "commit" THEN i ELSE fact
              /\ Main(i, [inv[i] EXCEPT !.pc = "release"])

TerminalRollback(i) ==
    /\ inv[i].pc = "dispose" /\ Terminal(i) /\ PermissionFree(i)
    /\ inv[i].plan # "commit"
    /\ acknowledge_terminal(i, "rollback")
    /\ UNCHANGED <<fence, bytes, io, tails, closing, rd, late, refunds, restarts>>

\* The transaction's staged rows become durable: the record and the save
\* operation are deleted, the fence completed, the charge returned.
Commit(i) == fence' = "completed" /\ refunds' = refunds + 1

TerminalCommit(i) ==
    /\ inv[i].pc = "dispose" /\ inv[i].plan = "commit"
    /\ i \notin late
    /\ Commit(i)
    /\ acknowledge_terminal(i, "commit")
    /\ UNCHANGED <<bytes, io, tails, closing, rd, late, restarts>>

\* The main task ends without its acknowledgement, or is dropped: the
\* permission is cancelled, the query owner abandons the slot, and the key
\* is poisoned.  After the acknowledgement only a terminal that was not
\* handled to its end is.
MainLost(i) ==
    /\ inv[i].pc \notin {"new", "closing"} \cup Ended
    /\ PermissionFree(i)
    /\ \/ inv[i].plan = "commit" /\ inv[i].pc = "dispose" /\ Commit(i)
       \/ UNCHANGED <<fence, refunds>>
    /\ IF Mine(i) /\ slot.alive
         THEN slot' = [slot EXCEPT !.alive = FALSE] /\ mark_unproven
         ELSE /\ UNCHANGED slot
              /\ IF Terminal(i) \/ i \in late THEN mark_unproven ELSE UNCHANGED <<gate, fresh>>
    /\ Main(i, [inv[i] EXCEPT !.pc = "refused", !.perm = cancel(i), !.released = TRUE])
    /\ UNCHANGED <<bytes, io, tails, closing, rd, late, fact, restarts>>

\* Only after its acknowledgement does a terminal let its worker go on.
release_after_disposition(i) ==
    /\ inv[i].pc = "release"
    /\ Main(i, [inv[i] EXCEPT !.pc = "joinworker", !.released = TRUE])
    /\ UNCHANGED <<readVars, slot, late, fact, refunds, restarts>>

TerminalJoined(i) ==
    /\ inv[i].pc = "joinworker"
    /\ \/ /\ i \notin late /\ inv[i].worker \in {Nothing, "ended"}
          /\ Main(i, [inv[i] EXCEPT !.pc = IF inv[i].plan # "fail"
                                              /\ inv[i].result \in {Nothing, "absent"}
                                           THEN "publish" ELSE "refused"])
          /\ IF inv[i].result = "panic" THEN mark_unproven ELSE UNCHANGED <<gate, fresh>>
       \/ /\ i \in late /\ mark_unproven
          /\ Main(i, [inv[i] EXCEPT !.pc = "refused"])
    /\ UNCHANGED <<fence, bytes, io, tails, closing, rd, slot, late, fact, refunds, restarts>>

\* verify_publish / verify_terminal_publish: prove the inventory drained and
\* remember its generation ...
PublishProof(i) ==
    /\ inv[i].pc = "publish" /\ i \notin late
    /\ Drained
    /\ fresh' = fresh \cup {i}
    /\ Main(i, [inv[i] EXCEPT !.pc = "publishing"])
    /\ UNCHANGED <<fence, bytes, io, gate, tails, closing, rd, slot, late, fact, refunds, restarts>>

publish_ready(i) ==
    /\ Mine(i) /\ ~slot.alive /\ slot.acked
    /\ CASE inv[i].plan = "ok"        -> slot.reserved /\ slot.started /\ slot.ended
         [] inv[i].plan = "commit"    -> /\ slot.ack = "commit" /\ fact = i
                                         /\ slot.reserved /\ slot.started /\ slot.ended
         [] inv[i].plan = "completed" -> /\ slot.ack = "rollback" /\ fact # Nothing
                                         /\ ~slot.reserved
         [] OTHER                     -> FALSE

\* ... then publish only under that generation, to a caller still waiting.
Publish(i) ==
    /\ inv[i].pc = "publishing" /\ i \notin late
    /\ i \in fresh /\ gate.closed /\ ~Unproved(gate)
    /\ publish_ready(i)
    /\ Main(i, [inv[i] EXCEPT !.pc = IF inv[i].caller THEN "published" ELSE "refused"])
    /\ UNCHANGED <<readVars, slot, late, fact, refunds, restarts>>

PublishRefused(i) ==
    /\ inv[i].pc \in {"publish", "publishing"}
    /\ Main(i, [inv[i] EXCEPT !.pc = "refused"])
    /\ IF i \in late THEN mark_unproven ELSE UNCHANGED <<gate, fresh>>
    /\ UNCHANGED <<fence, bytes, io, tails, closing, rd, slot, late, fact, refunds, restarts>>

\* CallerWaiter's Drop: the caller leaves, the main task keeps its query.
CallerLeaves(i) ==
    /\ inv[i].pc \notin {"new", "closing"} \cup Ended /\ inv[i].caller
    /\ PermissionFree(i)
    /\ Main(i, [inv[i] EXCEPT !.caller = FALSE, !.perm = cancel(i)])
    /\ IF i \in late THEN mark_unproven ELSE UNCHANGED <<gate, fresh>>
    /\ UNCHANGED <<fence, bytes, io, tails, closing, rd, slot, late, fact, refunds, restarts>>

Expire(i) ==
    /\ inv[i].pc \notin {"new"} \cup Ended \/ inv[i].worker \notin {Nothing, "ended"}
    /\ i \notin late
    /\ late' = late \cup {i}
    /\ UNCHANGED <<readVars, slot, inv, fact, refunds, restarts>>

-----------------------------------------------------------------------------
(* The blocking worker.                                                    *)

Stopping(i) == i \in late \/ inv[i].perm \in {"cancelled", "stopping"}

\* A guarded probe observes the name and syncs the directory.
Synced == IF bytes = "unlinked" THEN "absent" ELSE bytes

\* A removal takes the io mutex without waiting, finds the object and reports ready.
Preflight(i) ==
    /\ inv[i].worker = "spawned" /\ ~Terminal(i)
    /\ io = Nothing /\ ~Stopping(i)
    /\ io' = i
    /\ Main(i, [inv[i] EXCEPT !.worker = "waiting"])
    /\ UNCHANGED <<fence, bytes, gate, fresh, tails, closing, rd, slot, late, fact, refunds, restarts>>

\* A terminal worker first marks itself started, under a proved generation.
MarkProof(i) ==
    /\ inv[i].worker = "spawned" /\ Terminal(i) /\ i \notin late
    /\ Drained
    /\ fresh' = fresh \cup {i}
    /\ Main(i, [inv[i] EXCEPT !.worker = "mark"])
    /\ UNCHANGED <<fence, bytes, io, gate, tails, closing, rd, slot, late, fact, refunds, restarts>>

mark_started(i) ==
    /\ inv[i].worker = "mark" /\ i \notin late
    /\ i \in fresh /\ gate.closed /\ ~Unproved(gate)
    /\ Mine(i) /\ slot.alive /\ slot.reserved /\ ~slot.started /\ ~slot.ended
    /\ slot' = [slot EXCEPT !.started = TRUE]
    /\ bump
    /\ Main(i, [inv[i] EXCEPT !.worker = "started"])
    /\ UNCHANGED <<fence, bytes, io, gate, tails, closing, rd, late, fact, refunds, restarts>>

\* Then it takes the io mutex and requires the bytes to be gone; anything
\* but a clear absence poisons the key, and the worker keeps the mutex until
\* the transaction is disposed of.
GuardAbsence(i) ==
    /\ inv[i].worker = "started"
    /\ io = Nothing /\ i \notin late
    /\ io' = i
    /\ bytes' = Synced
    /\ IF bytes # "present" /\ ~Stopping(i) /\ ~inv[i].released
         THEN /\ Main(i, [inv[i] EXCEPT !.worker = "waiting"])
              /\ UNCHANGED <<gate, fresh>>
         ELSE /\ Main(i, [inv[i] EXCEPT !.worker = "parked", !.result = "error"])
              /\ mark_unproven
    /\ UNCHANGED <<fence, tails, closing, rd, slot, late, fact, refunds, restarts>>

\* wait_granted, then (for a terminal) the last absence check, then the
\* permission mutex is taken and the inventory proved drained.
GrantedProof(i) ==
    /\ inv[i].worker = "waiting" /\ inv[i].perm = "granted"
    /\ i \notin late /\ ~inv[i].released
    /\ Terminal(i) => bytes # "present"
    /\ Drained
    /\ fresh' = fresh \cup {i}
    /\ Main(i, [inv[i] EXCEPT !.worker = "proof"])
    /\ UNCHANGED <<fence, bytes, io, gate, tails, closing, rd, slot, late, fact, refunds, restarts>>

\* try_start_worker: still the proved generation, the slot's own worker.
try_start_worker(i) ==
    /\ inv[i].worker = "proof" /\ ~Terminal(i) /\ i \notin late
    /\ i \in fresh /\ gate.closed /\ ~Unproved(gate)
    /\ Mine(i) /\ slot.alive /\ ~slot.acked
    /\ slot.reserved /\ ~slot.started /\ ~slot.ended
    /\ slot' = [slot EXCEPT !.started = TRUE]
    /\ bump
    /\ Main(i, [inv[i] EXCEPT !.worker = "unlink", !.perm = "started"])
    /\ UNCHANGED <<fence, bytes, io, gate, tails, closing, rd, late, fact, refunds, restarts>>

\* start_commit: permission to attempt the COMMIT, nothing more.
start_commit(i) ==
    /\ inv[i].worker = "proof" /\ Terminal(i) /\ i \notin late
    /\ i \in fresh /\ gate.closed /\ ~Unproved(gate)
    /\ Mine(i) /\ terminal_precommit_ready
    /\ Main(i, [inv[i] EXCEPT !.worker = "parked", !.perm = "started"])
    /\ UNCHANGED <<readVars, slot, late, fact, refunds, restarts>>

Unlink(i) ==
    /\ inv[i].worker = "unlink" /\ i \notin late
    /\ bytes' = IF inv[i].kind = "remove" /\ bytes = "present" THEN "unlinked" ELSE bytes
    /\ Main(i, [inv[i] EXCEPT !.worker = "probe"])
    /\ UNCHANGED <<fence, io, gate, fresh, tails, closing, rd, slot, late, fact, refunds, restarts>>

Probe(i) ==
    /\ inv[i].worker = "probe" /\ ~Stopping(i)
    /\ bytes' = Synced
    /\ io' = Nothing
    /\ Main(i, [inv[i] EXCEPT !.worker = "closing",
                              !.result = IF bytes = "present" THEN "retained" ELSE "absent"])
    /\ UNCHANGED <<fence, gate, fresh, tails, closing, rd, slot, late, fact, refunds, restarts>>

\* The disposition (or the deadline) lets a terminal worker look once more
\* and drop the mutex.
Unpark(i) ==
    /\ inv[i].worker = "parked"
    /\ inv[i].released \/ i \in late
    /\ io' = Nothing
    /\ bytes' = IF i \in late THEN bytes ELSE Synced
    /\ IF i \notin late /\ bytes # "present"
         THEN /\ Main(i, [inv[i] EXCEPT !.worker = "closing", !.result = "absent"])
              /\ UNCHANGED <<gate, fresh>>
         ELSE /\ Main(i, [inv[i] EXCEPT !.worker = "closing", !.result = "error"])
              /\ mark_unproven
    /\ UNCHANGED <<fence, tails, closing, rd, slot, late, fact, refunds, restarts>>

\* A check, a syscall or a signal fails.  Once a terminal worker holds the
\* mutex it keeps it until the disposition; every other failure drops it.
WorkerFails(i) ==
    /\ inv[i].worker \in {"spawned", "mark", "started", "waiting", "proof", "unlink", "probe"}
    /\ LET parks == Terminal(i) /\ io = i
       IN  /\ Main(i, [inv[i] EXCEPT !.worker = IF parks THEN "parked" ELSE "closing",
                                     !.result = "error"])
           /\ io' = IF io = i /\ ~parks THEN Nothing ELSE io
    /\ \/ mark_unproven /\ (Terminal(i) \/ i \in late)
       \/ UNCHANGED <<gate, fresh>>
    /\ UNCHANGED <<fence, bytes, tails, closing, rd, slot, late, fact, refunds, restarts>>

\* Unwinding drops the worker's files and mutex before its lease.
WorkerPanics(i) ==
    /\ inv[i].worker \notin {Nothing, "closing", "ended"}
    /\ Main(i, [inv[i] EXCEPT !.worker = "closing", !.result = "panic"])
    /\ io' = IF io = i THEN Nothing ELSE io
    /\ UNCHANGED <<fence, bytes, gate, fresh, tails, closing, rd, slot, late, fact, refunds, restarts>>

\* record_ended: the lease says so only after the resources are gone; a
\* started terminal worker that was lost leaves no absence proof.
record_ended(i) ==
    /\ inv[i].worker = "closing"
    /\ slot' = IF Mine(i) THEN [slot EXCEPT !.ended = TRUE] ELSE slot
    /\ IF inv[i].result = "panic" /\ Terminal(i) /\ Mine(i) /\ slot.started
         THEN mark_unproven
         ELSE bump /\ UNCHANGED gate
    /\ Main(i, [inv[i] EXCEPT !.worker = "ended"])
    /\ UNCHANGED <<fence, bytes, io, tails, closing, rd, late, fact, refunds, restarts>>

-----------------------------------------------------------------------------
\* A crash: an unsynced unlink may or may not survive, and so may a COMMIT
\* that was sent; the inventory and its facts start empty.
Restart ==
    /\ restarts < MaxRestarts
    /\ restarts' = restarts + 1
    /\ bytes' \in IF bytes = "unlinked" THEN {"present", "absent"} ELSE {bytes}
    /\ \/ /\ \E i \in Invocations : inv[i].pc = "dispose" /\ inv[i].plan = "commit"
          /\ fence' = "completed" /\ refunds' = refunds + 1
       \/ UNCHANGED <<fence, refunds>>
    /\ io' = Nothing /\ gate' = NewGate /\ fresh' = {} /\ tails' = 0 /\ closing' = {}
    /\ rd' = [r \in Readers |-> NewReader]
    /\ slot' = NewSlot(Nothing)
    /\ inv' = [i \in Invocations |->
                 IF inv[i].pc \in {"new"} THEN inv[i]
                 ELSE [inv[i] EXCEPT !.pc = IF @ = "published" THEN @ ELSE "refused",
                                     !.worker = IF @ = Nothing THEN @ ELSE "ended"]]
    /\ late' = {}
    /\ fact' = Nothing

MainStep(i) ==
    \/ register(i)         \/ RegisterCloses(i)   \/ BeginTransaction(i) \/ LockRows(i)
    \/ wait_original_reads_before(i) \/ completed_audit_event_id(i) \/ reserve_worker(i)
    \/ WorkerReady(i)      \/ grant(i)            \/ WorkerJoined(i)     \/ CommitAllowed(i)
    \/ WorkFails(i)        \/ Unwound(i)          \/ PhysicalRollback(i) \/ TerminalRollback(i)
    \/ TerminalCommit(i)   \/ MainLost(i)         \/ release_after_disposition(i)
    \/ TerminalJoined(i)   \/ PublishProof(i)     \/ Publish(i)          \/ PublishRefused(i)

WorkerStep(i) ==
    \/ Preflight(i)        \/ MarkProof(i)        \/ mark_started(i)     \/ GuardAbsence(i)
    \/ GrantedProof(i)     \/ try_start_worker(i) \/ start_commit(i)     \/ Unlink(i)
    \/ Probe(i)            \/ Unpark(i)           \/ WorkerFails(i)      \/ WorkerPanics(i)
    \/ record_ended(i)

Next ==
    \/ ReadsStep /\ UNCHANGED cleanVars
    \/ \E i \in Invocations : MainStep(i) \/ WorkerStep(i) \/ CallerLeaves(i) \/ Expire(i)
    \/ Restart

Spec == Init /\ [][Next]_vars

\* Fairness: the runtime polls the main task and the blocking pool runs the
\* worker, the clock reaches every deadline, and a deadline or a cancelled
\* permission ends the waits (wait_timeout, timeout_at).  Nothing is assumed
\* of readers, callers, statements or syscalls.
MainProgress(i) ==
    /\ MainStep(i)
    /\ inv[i].pc # "new"
    /\ i \in late \/ ~(WorkFails(i) \/ MainLost(i) \/ PublishRefused(i))

WorkerProgress(i) ==
    /\ WorkerStep(i)
    /\ ~WorkerPanics(i)
    /\ Stopping(i) \/ inv[i].released \/ ~WorkerFails(i)

FairSteps == {"main", "worker", "clock"} \X Invocations

FairStep(f) ==
    \/ f[1] = "main" /\ MainProgress(f[2])
    \/ f[1] = "worker" /\ WorkerProgress(f[2])
    \/ f[1] = "clock" /\ Expire(f[2])

-----------------------------------------------------------------------------
(* Properties.                                                             *)

\* An open descriptor or a filled buffer of an admitted reader keeps its
\* file: no unlink takes place before every admitted body has ended.
ReadersKeepTheirBytes ==
    \A r \in Readers : rd[r].fd # Nothing \/ rd[r].alloc => bytes = "present"

\* Work on the file starts only at an instant at which no admitted reader
\* and no joint query is in flight, although the proof of it was taken in
\* earlier critical sections (drained_generation, try_start_worker).
StartIsExclusive ==
    [][ slot'.started /\ ~slot.started =>
          /\ gate.queries = 0 /\ gate.fds = 0
          /\ \A r \in Readers : Enrolled(r) /\ rd[r].admitted => rd[r].jobs = 0 ]_vars

\* The record is marked deleted and its charge returned only once, and only
\* for bytes that are durably gone, across crashes and unknown COMMITs.
CompletedIsEarned ==
    /\ fence = "completed" => bytes = "absent" /\ refunds = 1
    /\ fence # "completed" => refunds = 0

\* What a caller is told is true: a published removal that saw absence left
\* durable absence, a published completion is the committed one.
PublishedIsTrue ==
    \A i \in Invocations : inv[i].pc = "published" =>
        /\ inv[i].result = "absent" => bytes = "absent"
        /\ Terminal(i) => fence = "completed"

\* Lost proof is permanent: within a process nothing clears it, and while it
\* stands no worker starts and no outcome is published.
UncertaintySticks ==
    [][ Unproved(gate) /\ restarts' = restarts =>
          /\ Unproved(gate')
          /\ slot'.started => slot.started
          /\ \A i \in Invocations : inv'[i].pc = "published" => inv[i].pc = "published" ]_vars

\* One worker at a time, also when its main task and caller are gone, and the
\* slot says it ended only after it dropped the io mutex.
OneWorker ==
    /\ \A i \in Invocations : inv[i].worker \notin {Nothing, "ended"} => Mine(i) /\ ~slot.ended
    /\ slot.ended => io # slot.owner

\* Every cleanup that took the slot ends, whatever its readers do, and its
\* worker never outlives the deadline: the io mutex of the store comes back.
CleanupEnds ==
    \A i \in Invocations :
        []<>(inv[i].pc = "new" \/ (inv[i].pc \in Ended /\ inv[i].worker \in {Nothing, "ended"}))
=============================================================================

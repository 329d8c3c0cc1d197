---------------------------- MODULE ArtifactReads ----------------------------
(***************************************************************************)
(* Controlled reads of one stored artifact: the store's read gate          *)
(* (artifact_store/read_barrier.rs), the life of a read operation          *)
(* (artifact_read_lifecycle.rs) and the steps of a read block              *)
(* (artifact_read_authority.rs, read_operation_block).                     *)
(*                                                                         *)
(* The gate is the inventory of one selector with its one cleanup key: a   *)
(* record belongs to one save operation, so "the key is closed" is a       *)
(* Boolean.  The generation counter is abstracted to what its readers      *)
(* compare: `fresh` holds the invocations whose remembered generation is   *)
(* still the selector's, and every inventory change empties it.            *)
(***************************************************************************)
EXTENDS Naturals, FiniteSets

CONSTANTS
    Readers,        \* read operations (ReadOperationState), one use each
    Invocations,    \* cleanup invocations that remember a generation
    MaxTails        \* bound on concurrent cached/control-tail queries

ReadsAssumption == IsFiniteSet(Readers) /\ MaxTails \in Nat

VARIABLES
    fence,      \* the artifact's row in artifact_cleanup_fences
    bytes,      \* the object file: present, unlinked (not synced), absent
    io,         \* who holds the store's io mutex
    gate,       \* the SelectorInventory
    fresh,      \* invocations whose generation is current
    tails,      \* joint queries of callers that hold no read operation
    closing,    \* operations a close() collected under the lock, not stopped yet
    rd          \* the read operations with their inventory entries

readVars == <<fence, bytes, io, gate, fresh, tails, closing, rd>>

Nothing == "none"

ReaderStages == {"new", "idle", "classify", "host", "snapshot", "admit", "open",
                 "joint", "pending", "leased", "terminal", "gone"}

ReaderType ==
    [stage : ReaderStages, admitted : BOOLEAN, bound : BOOLEAN, queries : 0..1,
     jobs : 0..1, stopped : BOOLEAN, lost : BOOLEAN,
     fd : {Nothing, "worker", "kept"}, alloc : BOOLEAN]

GateType ==
    [original : BOOLEAN, closed : BOOLEAN, unproven : BOOLEAN, unbound : BOOLEAN,
     queries : 0..(MaxTails + Cardinality(Readers)), fds : 0..Cardinality(Readers)]

ReadsTypeOK ==
    /\ fence \in {Nothing, "armed", "completed"}
    /\ bytes \in {"present", "unlinked", "absent"}
    /\ io \in {Nothing} \cup Invocations
    /\ gate \in GateType
    /\ fresh \subseteq Invocations
    /\ tails \in 0..MaxTails
    /\ closing \subseteq Readers
    /\ rd \in [Readers -> ReaderType]

NewReader ==
    [stage |-> "new", admitted |-> FALSE, bound |-> FALSE, queries |-> 0, jobs |-> 0,
     stopped |-> FALSE, lost |-> FALSE, fd |-> Nothing, alloc |-> FALSE]

NewGate ==
    [original |-> FALSE, closed |-> FALSE, unproven |-> FALSE, unbound |-> FALSE,
     queries |-> 0, fds |-> 0]

\* The store opens on a saved artifact, or on one a previous process armed
\* and removed without completing it.
ReadsInit ==
    /\ \/ fence = Nothing /\ bytes = "present"
       \/ fence = "armed" /\ bytes = "absent"
    /\ io = Nothing
    /\ gate = NewGate
    /\ fresh = {}
    /\ tails = 0
    /\ closing = {}
    /\ rd = [r \in Readers |-> NewReader]

-----------------------------------------------------------------------------
(* The inventory.                                                          *)

\* An uncertain owner of a bound key poisons and closes the key; one that
\* never learnt its operation poisons the whole selector.
keep_unproven(g, bound) ==
    IF bound THEN [g EXCEPT !.unproven = TRUE, !.closed = TRUE]
             ELSE [g EXCEPT !.unbound = TRUE]

Unproved(g) == g.unproven \/ g.unbound

\* Entries still in selector.states: the enrollment leaves when the operation drops.
Enrolled(r) == rd[r].stage \notin {"new", "gone"}

controlled_counts_empty ==
    /\ gate.queries = 0
    /\ gate.fds = 0
    /\ \A r \in Readers :
          Enrolled(r) /\ rd[r].admitted => rd[r].queries = 0 /\ rd[r].jobs = 0

shared_inventory_drained(r) ==
    /\ rd[r].stopped
    /\ rd[r].jobs = 0
    /\ ~rd[r].alloc
    /\ rd[r].fd = Nothing
    /\ rd[r].stage = "terminal"

\* Mutant: the proof counts the queries only.
MutDrained == gate.closed /\ ~Unproved(gate) /\ gate.queries = 0

\* The proof drained_generation returns a generation for.  A lost operation
\* makes it an error rather than "not yet".
Drained ==
    /\ gate.closed /\ ~Unproved(gate)
    /\ controlled_counts_empty
    /\ \A r \in Readers :
          Enrolled(r) /\ rd[r].admitted => ~rd[r].lost /\ shared_inventory_drained(r)

\* close(): the mark and the collection are one critical section; stopping
\* what was collected happens outside the lock (StateClose).
CloseGate(g) == [g EXCEPT !.original = TRUE, !.closed = TRUE]

Collected == closing \cup {r \in Readers : Enrolled(r) /\ rd[r].admitted}

admission_closed(r) == rd[r].admitted /\ (gate.closed \/ Unproved(gate))

body_is_admitted(r) == rd[r].admitted /\ ~gate.closed /\ ~Unproved(gate)

is_stopped(r) == rd[r].stopped \/ admission_closed(r)

mark_waiter_cancellation(r) ==
    rd[r].queries # 0 /\ ~gate.closed /\ (rd[r].bound \/ ~gate.unbound)

-----------------------------------------------------------------------------
(* Local updates of one operation.                                         *)

\* Releasing the descriptor returns its StoreReadFdLease.
WithoutFd(g, r) == IF rd[r].fd = Nothing THEN g ELSE [g EXCEPT !.fds = @ - 1]

\* finish_failed, then the job permit and the query leases end.
Failed(r) == [rd[r] EXCEPT !.stage = "terminal", !.stopped = TRUE, !.fd = Nothing,
                           !.alloc = FALSE, !.queries = 0, !.jobs = 0]

\* Stages whose query is the host's joint statement: it reserves the
\* selector (begin_read_query) besides the operation (begin_query).
Joint(r) == rd[r].stage \in {"classify", "host", "joint"}

EndQuery(g, r) == IF Joint(r) THEN [g EXCEPT !.queries = @ - 1] ELSE g

BeginJoint(g) == [g EXCEPT !.queries = @ + 1]

Set(r, value) == rd' = [rd EXCEPT ![r] = value]

bump == fresh' = {}

-----------------------------------------------------------------------------
(* The operations of a reader.                                             *)

\* A caller that enrolls on a closed selector is never admitted to a body.
enroll(r) ==
    /\ rd[r].stage = "new"
    /\ Set(r, [rd[r] EXCEPT !.stage = "idle", !.admitted = ~gate.closed /\ ~gate.unbound])
    /\ bump
    /\ UNCHANGED <<fence, bytes, io, gate, tails, closing>>

\* next_block: a job is admitted and the body starts with the host query; a
\* refused body only runs the classification query, with a job when the
\* entry itself was never admitted.
next_block(r) ==
    /\ rd[r].stage = "idle" /\ ~rd[r].stopped
    /\ Set(r, [rd[r] EXCEPT !.stage = IF body_is_admitted(r) THEN "host" ELSE "classify",
                            !.jobs = IF admission_closed(r) THEN 0 ELSE 1,
                            !.queries = 1])
    /\ gate' = BeginJoint(gate)
    /\ bump
    /\ UNCHANGED <<fence, bytes, io, tails, closing>>

\* The classification always ends in an error; with a job it fails the operation.
ClassifyEnds(r) ==
    /\ rd[r].stage = "classify"
    /\ IF rd[r].jobs = 1 \/ rd[r].stopped
         THEN Set(r, Failed(r)) /\ gate' = WithoutFd(EndQuery(gate, r), r)
         ELSE Set(r, [rd[r] EXCEPT !.stage = "idle", !.queries = 0])
              /\ gate' = EndQuery(gate, r)
    /\ bump
    /\ UNCHANGED <<fence, bytes, io, tails, closing>>

\* The host query was acknowledged.  A retained descriptor goes straight to
\* the worker; otherwise the record is observed by a query of its own.
HostAcked(r) ==
    /\ rd[r].stage = "host"
    /\ \/ /\ body_is_admitted(r) /\ rd[r].fd = "kept"
          /\ Set(r, [rd[r] EXCEPT !.stage = "admit", !.queries = 0])
          /\ gate' = EndQuery(gate, r)
       \/ /\ body_is_admitted(r) /\ rd[r].fd = Nothing /\ ~rd[r].stopped
          /\ Set(r, [rd[r] EXCEPT !.stage = "snapshot"])
          /\ gate' = EndQuery(gate, r)
       \/ /\ ~body_is_admitted(r)
          /\ Set(r, [rd[r] EXCEPT !.stage = "classify"])
          /\ UNCHANGED gate
       \/ Set(r, Failed(r)) /\ gate' = WithoutFd(EndQuery(gate, r), r)
    /\ bump
    /\ UNCHANGED <<fence, bytes, io, tails, closing>>

\* observe_state_record: an armed or completed cleanup hides the record;
\* otherwise the row binds the operation to its key.
SnapshotAcked(r) ==
    /\ rd[r].stage = "snapshot"
    /\ \/ /\ fence = Nothing
          /\ Set(r, [rd[r] EXCEPT !.stage = "admit", !.bound = TRUE, !.queries = 0])
          /\ gate' = [gate EXCEPT !.original = TRUE]
       \/ Set(r, Failed(r)) /\ UNCHANGED gate
    /\ bump
    /\ UNCHANGED <<fence, bytes, io, tails, closing>>

\* The blocking worker rechecks admission, then admit_fd counts a descriptor.
admit_fd(r) ==
    /\ rd[r].stage = "admit"
    /\ body_is_admitted(r) /\ ~is_stopped(r)
    /\ Set(r, [rd[r] EXCEPT !.stage = "open", !.fd = "worker"])
    /\ gate' = IF rd[r].fd = Nothing THEN [gate EXCEPT !.fds = @ + 1] ELSE gate
    /\ bump
    /\ UNCHANGED <<fence, bytes, io, tails, closing>>

\* Open and read under the io mutex, re-verify the lease, retain the reader
\* and its buffer, and start the final joint query.
OpenAndRead(r) ==
    /\ rd[r].stage = "open"
    /\ io = Nothing /\ bytes = "present"
    /\ ~gate.closed /\ ~Unproved(gate)
    /\ Set(r, [rd[r] EXCEPT !.stage = "joint", !.fd = "kept", !.alloc = TRUE, !.queries = 1])
    /\ gate' = BeginJoint(gate)
    /\ bump
    /\ UNCHANGED <<fence, bytes, io, tails, closing>>

\* A refused worker (stopped, io busy, unreadable) drops its descriptor and
\* still runs the final statement, which can release no bytes.
WorkerRefused(r) ==
    /\ rd[r].stage \in {"admit", "open"}
    /\ Set(r, [rd[r] EXCEPT !.stage = "joint", !.fd = Nothing, !.queries = 1])
    /\ gate' = BeginJoint(WithoutFd(gate, r))
    /\ bump
    /\ UNCHANGED <<fence, bytes, io, tails, closing>>

\* The final joint query was acknowledged: the block is handed out, or the
\* attempt fails and everything it holds is released.
JointAcked(r) ==
    /\ rd[r].stage = "joint"
    /\ \/ /\ rd[r].alloc /\ ~is_stopped(r)
          /\ Set(r, [rd[r] EXCEPT !.stage = "pending", !.queries = 0, !.jobs = 0])
          /\ gate' = EndQuery(gate, r)
       \/ Set(r, Failed(r)) /\ gate' = WithoutFd(EndQuery(gate, r), r)
    /\ bump
    /\ UNCHANGED <<fence, bytes, io, tails, closing>>

\* A query future that ends without its acknowledgement loses the proof for
\* good: the operation stops and the key (or the selector) is poisoned.  A
\* joint reservation knows the key from the selector's original record.
QueryLost(r) ==
    /\ rd[r].queries = 1
    /\ Set(r, [Failed(r) EXCEPT !.lost = TRUE])
    /\ gate' = LET g == keep_unproven(WithoutFd(EndQuery(gate, r), r), rd[r].bound)
               IN  IF Joint(r) THEN keep_unproven(g, gate.original) ELSE g
    /\ bump
    /\ UNCHANGED <<fence, bytes, io, tails, closing>>

mark_handed_off(r) ==
    /\ rd[r].stage = "pending" /\ ~is_stopped(r)
    /\ Set(r, [rd[r] EXCEPT !.stage = "leased"])
    /\ UNCHANGED <<fence, bytes, io, gate, fresh, tails, closing>>

\* The consumer drops the block: an undelivered block, a stopped operation
\* or the end of the file releases the descriptor too.
DropAllocation(r) ==
    /\ rd[r].stage \in {"pending", "leased"}
    /\ \/ /\ rd[r].stage = "leased" /\ ~is_stopped(r)
          /\ Set(r, [rd[r] EXCEPT !.stage = "idle", !.alloc = FALSE])
          /\ UNCHANGED <<gate, fresh>>
       \/ Set(r, Failed(r)) /\ gate' = WithoutFd(gate, r) /\ bump
    /\ UNCHANGED <<fence, bytes, io, tails, closing>>

\* ReadOperationState::close.  A waiter that cancels before any closure,
\* with its query in flight, gives up that query's proof.
ClosedOperation(r) ==
    LET cancelled == mark_waiter_cancellation(r)
        idle == rd[r].stage = "idle"
    IN  /\ Set(r, [rd[r] EXCEPT !.stopped = TRUE,
                                !.lost = @ \/ cancelled,
                                !.stage = IF idle THEN "terminal" ELSE @,
                                !.fd = IF idle THEN Nothing ELSE @])
        /\ gate' = LET g == IF cancelled THEN keep_unproven(gate, rd[r].bound) ELSE gate
                   IN  IF idle THEN WithoutFd(g, r) ELSE g
        /\ IF cancelled \/ (idle /\ rd[r].fd # Nothing) THEN bump ELSE UNCHANGED fresh

\* The caller cancels, disconnects or drops its operation.
Cancel(r) ==
    /\ Enrolled(r) /\ ~rd[r].stopped
    /\ ClosedOperation(r)
    /\ UNCHANGED <<fence, bytes, io, tails, closing>>

\* The second half of a gate close: each collected operation is stopped.
StateClose(r) ==
    /\ r \in closing
    /\ IF Enrolled(r) THEN ClosedOperation(r) ELSE UNCHANGED <<rd, gate, fresh>>
    /\ closing' = closing \ {r}
    /\ UNCHANGED <<fence, bytes, io, tails>>

\* The last owner of a finished operation drops it and its enrollment.
DropOperation(r) ==
    /\ rd[r].stage = "terminal"
    /\ Set(r, [rd[r] EXCEPT !.stage = "gone"])
    /\ bump
    /\ UNCHANGED <<fence, bytes, io, gate, tails, closing>>

\* begin_read_query of a cached block's tail: allowed on a closed key.
TailBegins ==
    /\ tails < MaxTails
    /\ tails' = tails + 1
    /\ gate' = BeginJoint(gate)
    /\ bump
    /\ UNCHANGED <<fence, bytes, io, closing, rd>>

\* StoreReadQueryReservation: acknowledged, or dropped without its rollback.
TailEnds ==
    /\ tails > 0
    /\ tails' = tails - 1
    /\ LET g == [gate EXCEPT !.queries = @ - 1]
       IN  gate' \in {g, keep_unproven(g, gate.original)}
    /\ bump
    /\ UNCHANGED <<fence, bytes, io, closing, rd>>

\* arm_explicit_saved_delete_before: the committed fence hides the record.
Arm ==
    /\ fence = Nothing
    /\ fence' = "armed"
    /\ UNCHANGED <<bytes, io, gate, fresh, tails, closing, rd>>

\* close_armed_artifact_reads / close_observed_artifact_reads.
CloseReads ==
    /\ ~gate.closed
    /\ gate' = CloseGate(gate)
    /\ closing' = Collected
    /\ bump
    /\ UNCHANGED <<fence, bytes, io, tails, rd>>

ReaderStep(r) ==
    \/ enroll(r)       \/ next_block(r)     \/ ClassifyEnds(r) \/ HostAcked(r)
    \/ SnapshotAcked(r) \/ admit_fd(r)      \/ OpenAndRead(r)  \/ WorkerRefused(r)
    \/ JointAcked(r)   \/ QueryLost(r)      \/ mark_handed_off(r)
    \/ DropAllocation(r) \/ Cancel(r)       \/ StateClose(r)   \/ DropOperation(r)

ReadsStep == (\E r \in Readers : ReaderStep(r)) \/ TailBegins \/ TailEnds \/ Arm \/ CloseReads
=============================================================================

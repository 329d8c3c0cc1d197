----------------------------- MODULE RunRuntime -----------------------------
(***************************************************************************)
(* The durable life of the agent runs of one thread.                       *)
(*                                                                         *)
(* PostgreSQL holds the run row, its append-only event journal, the        *)
(* thread's write lease with its fencing token, and two outbox rows per    *)
(* run: the dispatch written with the run and the cancellation request.    *)
(* Every replica runs one relay (openbot-infra/src/run_runtime.rs), which  *)
(* claims outbox rows and recovers stale runs, and one agent runtime       *)
(* (openbot-agent/src/runtime.rs), which reserves, executes and stops the  *)
(* children.  A database function is one transaction and one action here;  *)
(* two calls of the same handler are two actions, so everything another    *)
(* replica can do in between happens.                                      *)
(*                                                                         *)
(* Time is abstracted to what a timer has decided: lease.live says that    *)
(* expires_at has not been reached, an outbox row's live that its claim    *)
(* has not expired.  A renewal therefore is a step that keeps live TRUE,   *)
(* and a backoff (available_at) is a relay that has not looked yet.        *)
(***************************************************************************)
EXTENDS Integers, FiniteSets

CONSTANTS
    Replicas,     \* process incarnations: an owner id is minted at every start
    Runs,         \* the runs of the thread
    NoReplica,    \* claimed_by or owner_id that is absent
    NoRun,        \* an idle relay works on no run
    Damaged,      \* runs whose dispatch row fails its payload and binding checks
    MaxToken,     \* the largest fencing token, i64::MAX in the code
    MaxChunks,    \* bound: chunks one run writes
    MaxAttempts,  \* bound: attempts after which a full queue is not reported
    MaxFaults     \* bound: lost or unknown commits, delays, stops, crashes

ASSUME RuntimeAssumption ==
    /\ NoReplica \notin Replicas
    /\ NoRun \notin Runs
    /\ Damaged \subseteq Runs
    /\ MaxToken \in Nat \ {0}
    /\ MaxChunks \in Nat
    /\ MaxAttempts \in Nat
    /\ MaxFaults \in Nat

VARIABLES
    lease,      \* thread_leases row: owner, fencing, live
    thread,     \* threads row: next event sequence; the history head: closed
    run,        \* runs rows: status, fencing, next event sequence, error code
    events,     \* run_events rows of each run
    assistant,  \* the assistant message a terminal materialises
    dispatch,   \* the agent_run_dispatch outbox row of each run
    cancel,     \* the agent_run_cancel outbox row of each run
    replica,    \* the life of each process
    relay,      \* where each relay is in its handler, and the claim it holds
    resv,       \* the agent runtime's reservations
    child,      \* the agent runtime's activations
    faults      \* failures that may still happen

database == <<lease, thread, run, events, assistant, dispatch, cancel>>
process  == <<replica, relay, resv, child>>
vars     == <<database, process, faults>>

-----------------------------------------------------------------------------
(* Statuses, rows and records. *)

TerminalStatus == {"completed", "failed", "cancelled", "reconciliation_required"}
RunStatus      == {"absent", "running"} \cup TerminalStatus
ChunkKind      == {"text", "reasoning"}
CheckpointKind == {"tool_exchange", "remote_projection"}
EventKind      == {"started", "scrubbed"} \cup ChunkKind \cup CheckpointKind \cup TerminalStatus
OutboxStatus   == {"absent", "pending", "delivering", "delivered", "dead_letter"}

\* agent_runtime_unavailable also stands for dispatch_payload_corrupt, the other
\* code with which a relay gives a run up.
UnstartedCode  == {"agent_runtime_unavailable", "dispatch_dead_letter"}
ErrorCode      == {"none", "agent", "runtime_lease_expired"} \cup UnstartedCode

MutIsTerminalStatus(r) == run[r].status \in {"completed", "failed", "cancelled"}

is_terminal_status(r) == run[r].status \in TerminalStatus

MutBlocksForegroundSlot(r) == run[r].status = "running"

\* A run in one of these statuses keeps the thread's one foreground slot.
blocks_foreground_slot(r) ==
    run[r].status \in {"running", "reconciliation_required"}

\* RunExecutionLease: what a claim hands to the consumer.
NoLease == [fencing |-> 0, seq |-> 0]

IdleRelay == [step |-> "idle", run |-> NoRun, attempt |-> 0, lease |-> NoLease]

NoReservation == [held |-> FALSE, lease |-> NoLease, active |-> FALSE]

NoChild == [phase |-> "none", lease |-> NoLease, expected |-> 0,
            pending |-> "none", goal |-> "none", cancelled |-> FALSE]

\* The child has ended; its reservation is not yet cleaned up.
Ended(c) == [NoChild EXCEPT !.phase = "ended", !.lease = c.lease]

\* The child is over and left nothing in memory.
GoneChild == [NoChild EXCEPT !.phase = "gone"]

LivePhase == {"queued", "working", "closing"}

NoRow == [status |-> "absent", attempt |-> 0, by |-> NoReplica,
          live |-> FALSE, signalled |-> FALSE]

PendingRow == [NoRow EXCEPT !.status = "pending"]

MutDelivered(row) == [row EXCEPT !.by = NoReplica, !.live = FALSE]

\* deliver_control_outbox, and the same UPDATE of the dispatch settlements.
Delivered(row) ==
    [row EXCEPT !.status = "delivered", !.by = NoReplica, !.live = FALSE,
                !.signalled = FALSE]

\* dead_letter_dispatch and dead_letter_cancellation.
DeadLettered(row) ==
    [row EXCEPT !.status = "dead_letter", !.by = NoReplica, !.live = FALSE,
                !.signalled = FALSE]

Init ==
    /\ lease = [owner |-> NoReplica, fencing |-> 0, live |-> FALSE]
    /\ thread = [next |-> 0, closed |-> FALSE]
    /\ run = [r \in Runs |-> [status |-> "absent", fencing |-> 0, next |-> 0,
                              code |-> "none"]]
    /\ events = [r \in Runs |-> {}]
    /\ assistant = [r \in Runs |-> "none"]
    /\ dispatch = [r \in Runs |-> NoRow]
    /\ cancel = [r \in Runs |-> NoRow]
    /\ replica = [p \in Replicas |-> "up"]
    /\ relay = [p \in Replicas |-> IdleRelay]
    /\ resv = [p \in Replicas |-> [r \in Runs |-> NoReservation]]
    /\ child = [p \in Replicas |-> [r \in Runs |-> NoChild]]
    /\ faults = MaxFaults

-----------------------------------------------------------------------------
(* What the transactions read and write.                                   *)
(*                                                                         *)
(* now() is the start of the transaction, not the moment it holds the row  *)
(* locks: a transaction opened before the lease ran out still sees it      *)
(* alive.  early says that the transaction is one of those.                *)

Fault == faults > 0 /\ faults' = faults - 1

Alive(early) == lease.live \/ early

validate_lease_identity(r, l) == run[r].fencing = l.fencing

validate_active_lease(p, l, early) ==
    /\ lease.owner = p
    /\ lease.fencing = l.fencing
    /\ Alive(early)

MutLeaseReachable(p, early) == TRUE

\* The lease a relay may act under: its own, or one that has run out.
LeaseReachable(p, early) == lease.owner = p \/ ~Alive(early)

MutAdvanceThread == UNCHANGED thread

AdvanceThread == thread' = [thread EXCEPT !.next = @ + 1]

InsertEvent(r, seq, k, token) ==
    events' = [events EXCEPT ![r] =
                 @ \cup {[seq |-> seq, at |-> thread.next, kind |-> k, by |-> token]}]

MutScrub(evs) == evs

\* scrub_reasoning_chunks and scrub_remote_projections, in the same transaction
\* as the terminal.
Scrub(evs) ==
    {[seq |-> e.seq, at |-> e.at, by |-> e.by,
      kind |-> IF e.kind \in {"reasoning", "remote_projection"} THEN "scrubbed" ELSE e.kind] :
        e \in evs}

\* aggregate_text_chunks: text since the last tool exchange, whose own assistant
\* message has the text before it.
FreshText(r) ==
    {e \in events[r] : /\ e.kind = "text"
                       /\ \A f \in events[r] : f.kind = "tool_exchange" => f.seq < e.seq}

\* It is read only while the history is open.
AssistantMessage(r, k) ==
    IF ~thread.closed /\ FreshText(r) # {}
    THEN IF k = "completed" THEN "complete" ELSE "incomplete"
    ELSE "none"

MutCanFinish(p, r, l, expected, early) ==
    /\ validate_lease_identity(r, l)
    /\ run[r].status = "running"
    /\ validate_active_lease(p, l, early)

\* finish_run_in_transaction up to its first write.
CanFinish(p, r, l, expected, early) ==
    /\ validate_lease_identity(r, l)
    /\ run[r].status = "running"
    /\ run[r].next = expected
    /\ validate_active_lease(p, l, early)

\* release_lease: expired at once, owner and token stay.
release_lease == [lease EXCEPT !.live = FALSE]

TerminalRow(k, expected, code, token) ==
    [status |-> k, fencing |-> token, next |-> expected + 1, code |-> code]

\* The writes of finish_run_in_transaction.
WriteTerminal(r, k, expected, code, token) ==
    /\ events' = [events EXCEPT ![r] =
                    Scrub(@) \cup {[seq |-> expected, at |-> thread.next,
                                    kind |-> k, by |-> token]}]
    /\ AdvanceThread
    /\ run' = [run EXCEPT ![r] = TerminalRow(k, expected, code, token)]
    /\ assistant' = [assistant EXCEPT ![r] = AssistantMessage(r, k)]

-----------------------------------------------------------------------------
(* Requests that reach the thread. *)

\* acquire_lease: an expired lease is taken with the next token, a live one of
\* the same owner is extended, any other refuses the begin.
acquire_lease(p, early) ==
    \/ /\ lease.owner = p /\ Alive(early)
       /\ lease' = [lease EXCEPT !.live = TRUE]
    \/ /\ ~Alive(early) /\ lease.fencing < MaxToken
       /\ lease' = [owner |-> p, fencing |-> lease.fencing + 1, live |-> TRUE]

\* apply_begin: run, started event, lease and dispatch outbox in one commit.
BeginRun(p, r) ==
    /\ replica[p] # "down"
    /\ run[r].status = "absent"
    /\ ~thread.closed
    /\ \A q \in Runs : ~blocks_foreground_slot(q)
    /\ \E early \in BOOLEAN : acquire_lease(p, early)
    /\ run' = [run EXCEPT ![r] = [status |-> "running", fencing |-> lease'.fencing,
                                  next |-> 1, code |-> "none"]]
    /\ InsertEvent(r, 0, "started", lease'.fencing)
    /\ AdvanceThread
    /\ dispatch' = [dispatch EXCEPT ![r] = PendingRow]
    /\ UNCHANGED <<assistant, cancel, process, faults>>

\* request_run_cancellation: the run's one acceptance, never a second.
RequestCancellation(r) ==
    /\ run[r].status = "running"
    /\ cancel[r].status = "absent"
    /\ cancel' = [cancel EXCEPT ![r] = PendingRow]
    /\ UNCHANGED <<lease, thread, run, events, assistant, dispatch, process, faults>>

\* The history authority closes the head; it never reopens.
CloseHistory ==
    /\ ~thread.closed
    /\ thread' = [thread EXCEPT !.closed = TRUE]
    /\ UNCHANGED <<lease, run, events, assistant, dispatch, cancel, process, faults>>

\* stop_one_run: the same acceptance row, written by the drain of a closed head.
DrainClosedHistory(r) ==
    /\ thread.closed
    /\ RequestCancellation(r)

-----------------------------------------------------------------------------
(* Claims. *)

\* The rows claim_* may select: its own claim again, a pending one, or one
\* whose claim ran out.
Selectable(p, row) ==
    \/ row.status = "pending"
    \/ row.status = "delivering" /\ (row.by = p \/ ~row.live)

CancelActive(r) == cancel[r].status \in {"pending", "delivering"}

\* A child was signalled by this replica and still holds its lease.
AwaitsStoppedChild(p, r, early) ==
    /\ cancel[r].status = "delivering" /\ cancel[r].by = p /\ cancel[r].signalled
    /\ run[r].status = "running"
    /\ lease.owner = p /\ Alive(early)

CancelClaimable(p, r, early) ==
    /\ Selectable(p, cancel[r])
    /\ LeaseReachable(p, early)
    /\ ~AwaitsStoppedChild(p, r, early)

DispatchClaimable(p, r, early) ==
    /\ Selectable(p, dispatch[r])
    /\ LeaseReachable(p, early)
    /\ ~CancelActive(r)

\* What the claim finds under the row locks.
ClaimVerdict(r, early) ==
    IF is_terminal_status(r) THEN "settled"
    ELSE IF \/ run[r].fencing # lease.fencing
            \/ ~Alive(early) /\ lease.fencing = MaxToken THEN "dead_letter"
    ELSE "claimed"

\* claim_dispatch checks the binding of its row before it looks at the run.
DispatchVerdict(r, early) ==
    IF r \in Damaged THEN "dead_letter" ELSE ClaimVerdict(r, early)

MutClaimToken(early) == lease.fencing

\* A takeover moves the token of the lease and of the run; a lease of one's own
\* is renewed.
ClaimToken(early) == IF Alive(early) THEN lease.fencing ELSE lease.fencing + 1

ClaimLease(p, r, early) ==
    /\ lease' = [owner |-> p, fencing |-> ClaimToken(early), live |-> TRUE]
    /\ run' = [run EXCEPT ![r].fencing = ClaimToken(early)]

\* A replayed claim of one's own keeps its attempt number.
NextAttempt(p, row) ==
    IF row.status = "delivering" /\ row.by = p /\ ~row.signalled
    THEN row.attempt ELSE row.attempt + 1

Claimed(p, row) ==
    [status |-> "delivering", attempt |-> NextAttempt(p, row), by |-> p,
     live |-> TRUE, signalled |-> FALSE]

\* The claim reaches the relay, or only the database (CommitUnknown).
ReceiveClaim(p, r, step, attempt, token) ==
    \/ /\ relay' = [relay EXCEPT ![p] =
                      [step |-> step, run |-> r, attempt |-> attempt,
                       lease |-> [fencing |-> token, seq |-> run[r].next]]]
       /\ UNCHANGED faults
    \/ UNCHANGED relay /\ Fault

RelayIdle(p) == replica[p] # "down" /\ relay[p].step = "idle"

claim_cancellation(p, r) ==
    /\ RelayIdle(p)
    /\ \E early \in BOOLEAN :
        /\ CancelClaimable(p, r, early)
        /\ \/ /\ ClaimVerdict(r, early) = "settled"
              /\ cancel' = [cancel EXCEPT ![r] = Delivered(@)]
              /\ UNCHANGED <<lease, run, relay, faults>>
           \/ /\ ClaimVerdict(r, early) = "dead_letter"
              /\ cancel' = [cancel EXCEPT ![r] = DeadLettered(@)]
              /\ UNCHANGED <<lease, run, relay, faults>>
           \/ /\ ClaimVerdict(r, early) = "claimed"
              /\ ClaimLease(p, r, early)
              /\ cancel' = [cancel EXCEPT ![r] = Claimed(p, @)]
              /\ ReceiveClaim(p, r, "revoke", NextAttempt(p, cancel[r]),
                              ClaimToken(early))
    /\ UNCHANGED <<thread, events, assistant, dispatch, replica, resv, child>>

claim_dispatch(p, r) ==
    /\ RelayIdle(p)
    /\ \E early \in BOOLEAN :
        /\ DispatchClaimable(p, r, early)
        /\ \/ /\ DispatchVerdict(r, early) = "settled"
              /\ dispatch' = [dispatch EXCEPT ![r] = Delivered(@)]
              /\ UNCHANGED <<lease, run, relay, faults>>
           \/ /\ DispatchVerdict(r, early) = "dead_letter"
              /\ dispatch' = [dispatch EXCEPT ![r] = DeadLettered(@)]
              /\ UNCHANGED <<lease, run, relay, faults>>
           \/ /\ DispatchVerdict(r, early) = "claimed"
              /\ ClaimLease(p, r, early)
              /\ dispatch' = [dispatch EXCEPT ![r] = Claimed(p, @)]
              /\ ReceiveClaim(p, r, "offer", NextAttempt(p, dispatch[r]),
                              ClaimToken(early))
    /\ UNCHANGED <<thread, events, assistant, cancel, replica, resv, child>>

\* The claim a relay holds is still the row's claim.
HoldsClaim(p, row) ==
    row.status = "delivering" /\ row.by = p /\ row.attempt = relay[p].attempt

GoIdle(p) == relay' = [relay EXCEPT ![p] = IdleRelay]
GoTo(p, step) == relay' = [relay EXCEPT ![p].step = step]

-----------------------------------------------------------------------------
(* handle_cancellation after the claim. *)

\* BuiltInAgentConsumer::revoke compares whole leases, next_event_sequence
\* included; it drops the reservation and signals the child.
Matches(p, r, l) == resv[p][r].held /\ resv[p][r].lease = l

Signal(p, r) ==
    /\ resv' = [resv EXCEPT ![p][r] = NoReservation]
    /\ child' = [child EXCEPT ![p][r].cancelled = (@ \/ child[p][r].phase \in LivePhase)]

revoke(p) ==
    /\ relay[p].step = "revoke"
    /\ LET r == relay[p].run IN
        \/ /\ Matches(p, r, relay[p].lease)
           /\ Signal(p, r)
           /\ GoTo(p, "signalled")
        \/ /\ ~Matches(p, r, relay[p].lease)
           /\ GoTo(p, "no_local_child")
           /\ UNCHANGED <<resv, child>>
    /\ UNCHANGED <<database, replica, faults>>

MutSignalled(row) == Delivered(row)

\* The child-signalled fact; the row stays undelivered until the terminal.
Signalled(row) == [row EXCEPT !.signalled = TRUE, !.live = TRUE]

mark_cancellation_signalled(p) ==
    /\ relay[p].step = "signalled"
    /\ GoIdle(p)
    /\ LET r == relay[p].run IN
        \E early \in BOOLEAN :
            \/ /\ HoldsClaim(p, cancel[r])
               /\ is_terminal_status(r)
               /\ cancel' = [cancel EXCEPT ![r] = Delivered(@)]
               /\ UNCHANGED faults
            \/ /\ HoldsClaim(p, cancel[r])
               /\ ~is_terminal_status(r)
               /\ validate_active_lease(p, relay[p].lease, early)
               /\ cancel' = [cancel EXCEPT ![r] = Signalled(@)]
               /\ UNCHANGED faults
            \/ /\ \/ ~HoldsClaim(p, cancel[r])
                  \/ /\ ~is_terminal_status(r)
                     /\ ~validate_active_lease(p, relay[p].lease, early)
               /\ UNCHANGED <<cancel, faults>>
            \/ UNCHANGED cancel /\ Fault
    /\ UNCHANGED <<lease, thread, run, events, assistant, dispatch, replica, resv, child>>

\* settle_dispatch_for_cancelled_run refuses a damaged or dead-lettered dispatch,
\* and the whole transaction rolls back.
Settleable(r) ==
    r \notin Damaged /\ dispatch[r].status \in {"pending", "delivering", "delivered"}

\* replay_terminal: this very terminal is already the run's.
ReplaysTerminal(r, l, k) ==
    /\ validate_lease_identity(r, l)
    /\ run[r].status = k
    /\ \E e \in events[r] : e.seq = l.seq /\ e.kind = k

\* The dispatch row and the cancellation row are settled with the terminal, be it
\* written here or found written by the child.
finish_unstarted_cancellation(p) ==
    /\ relay[p].step = "no_local_child"
    /\ GoIdle(p)
    /\ LET r == relay[p].run
           l == relay[p].lease
           admitted == /\ cancel[r].status = "delivered" \/ HoldsClaim(p, cancel[r])
                       /\ Settleable(r)
       IN  \E early \in BOOLEAN :
            \/ /\ admitted
               /\ dispatch' = [dispatch EXCEPT ![r] = Delivered(@)]
               /\ cancel' = [cancel EXCEPT ![r] = Delivered(@)]
               /\ \/ /\ CanFinish(p, r, l, l.seq, early)
                     /\ WriteTerminal(r, "cancelled", l.seq, "none", l.fencing)
                     /\ lease' = release_lease
                  \/ /\ ReplaysTerminal(r, l, "cancelled")
                     /\ UNCHANGED <<lease, thread, run, events, assistant>>
               /\ UNCHANGED faults
            \/ /\ \/ /\ ~(admitted /\ (CanFinish(p, r, l, l.seq, early)
                                       \/ ReplaysTerminal(r, l, "cancelled")))
                     /\ UNCHANGED faults
                  \/ Fault
               /\ UNCHANGED database
    /\ UNCHANGED <<replica, resv, child>>

-----------------------------------------------------------------------------
(* handle_dispatch after the claim. *)

\* BuiltInAgentConsumer::dispatch.  The queue is shared with the runs of other
\* threads, so it may be full at any time.
offer(p) ==
    /\ relay[p].step = "offer"
    /\ LET r == relay[p].run
           l == relay[p].lease
       IN  \/ /\ \/ replica[p] # "up"
                 \/ resv[p][r].held /\ resv[p][r].lease # l
              /\ GoTo(p, "reject")
              /\ UNCHANGED resv
           \/ /\ replica[p] = "up"
              /\ ~resv[p][r].held \/ resv[p][r].lease = l
              /\ resv' = [resv EXCEPT ![p][r] =
                            IF @.held THEN @ ELSE [held |-> TRUE, lease |-> l, active |-> FALSE]]
              /\ GoTo(p, "acknowledge")
           \/ /\ replica[p] = "up"
              /\ ~resv[p][r].held
              /\ relay[p].attempt <= MaxAttempts
              /\ GoTo(p, "busy")
              /\ UNCHANGED resv
    /\ UNCHANGED <<database, replica, child, faults>>

\* lease_from_locked: the acknowledgement returns the lease as it is now.
GoActivate(p, r) ==
    relay' = [relay EXCEPT ![p] =
                [@ EXCEPT !.step = "activate",
                          !.lease = [fencing |-> run[r].fencing, seq |-> run[r].next]]]

\* A refused or unconfirmed acknowledgement revokes the reservation.
acknowledge_dispatch(p) ==
    /\ relay[p].step = "acknowledge"
    /\ LET r == relay[p].run
           l == relay[p].lease
       IN  \E early \in BOOLEAN :
            LET bound  == validate_lease_identity(r, l) /\ run[r].status = "running"
                commits == /\ bound
                           /\ HoldsClaim(p, dispatch[r])
                           /\ validate_active_lease(p, l, early)
            IN  \/ /\ commits
                   /\ dispatch' = [dispatch EXCEPT ![r] = Delivered(@)]
                   /\ \/ GoActivate(p, r) /\ UNCHANGED faults
                      \/ GoTo(p, "withdraw") /\ Fault
                \/ /\ bound /\ dispatch[r].status = "delivered"
                   /\ GoActivate(p, r)
                   /\ UNCHANGED <<dispatch, faults>>
                \/ /\ \/ /\ ~commits /\ ~(bound /\ dispatch[r].status = "delivered")
                         /\ UNCHANGED faults
                      \/ Fault
                   /\ GoTo(p, "withdraw")
                   /\ UNCHANGED dispatch
    /\ UNCHANGED <<lease, thread, run, events, assistant, cancel, replica, resv, child>>

\* The revoke of a reservation that was never acknowledged.
withdraw(p) ==
    /\ relay[p].step = "withdraw"
    /\ LET r == relay[p].run IN
        IF Matches(p, r, relay[p].lease)
        THEN Signal(p, r)
        ELSE UNCHANGED <<resv, child>>
    /\ GoIdle(p)
    /\ UNCHANGED <<database, replica, faults>>

\* BuiltInAgentConsumer::activate.  A supervisor that has left its loop no
\* longer receives the activation; its channel, shared with the runs of other
\* threads, may be full of activations that were revoked.
activate(p) ==
    /\ relay[p].step = "activate"
    /\ LET r == relay[p].run
           l == relay[p].lease
       IN  \/ /\ Matches(p, r, l)
              /\ resv' = [resv EXCEPT ![p][r].active = TRUE]
              /\ child' = IF resv[p][r].active \/ replica[p] # "up" THEN child
                          ELSE [child EXCEPT ![p][r] =
                                  [NoChild EXCEPT !.phase = "queued", !.lease = l,
                                                  !.expected = l.seq]]
              /\ GoIdle(p)
           \/ /\ Matches(p, r, l)
              /\ ~resv[p][r].active
              /\ resv' = [resv EXCEPT ![p][r] = NoReservation]
              /\ GoTo(p, "fail_activation")
              /\ UNCHANGED child
           \/ /\ ~Matches(p, r, l)
              /\ GoTo(p, "fail_activation")
              /\ UNCHANGED <<resv, child>>
    /\ UNCHANGED <<database, replica, faults>>

\* finish_run(Failed) of a relay: the activation failed, or the consumer
\* rejected the dispatch (then the dispatch row is settled with it).
RelayFails(p, r, guard, settled) ==
    LET l == relay[p].lease IN
    /\ \E early \in BOOLEAN :
        \/ /\ guard
           /\ CanFinish(p, r, l, l.seq, early)
           /\ WriteTerminal(r, "failed", l.seq, "agent_runtime_unavailable", l.fencing)
           /\ lease' = release_lease
           /\ dispatch' = [dispatch EXCEPT ![r] = settled]
           /\ UNCHANGED <<cancel, faults>>
        \/ /\ \/ ~(guard /\ CanFinish(p, r, l, l.seq, early)) /\ UNCHANGED faults
              \/ Fault
           /\ UNCHANGED database
    /\ GoIdle(p)
    /\ UNCHANGED <<replica, resv, child>>

fail_activation(p) ==
    /\ relay[p].step = "fail_activation"
    /\ RelayFails(p, relay[p].run, TRUE, dispatch[relay[p].run])

reject_dispatch(p) ==
    /\ relay[p].step = "reject"
    /\ LET r == relay[p].run IN
        RelayFails(p, r, dispatch[r].status = "delivered" \/ HoldsClaim(p, dispatch[r]),
                   Delivered(dispatch[r]))

\* Back to pending; a row that moved on is left alone.
retry_dispatch(p) ==
    /\ relay[p].step = "busy"
    /\ LET r == relay[p].run IN
        \/ /\ HoldsClaim(p, dispatch[r])
           /\ dispatch' = [dispatch EXCEPT ![r] = [PendingRow EXCEPT !.attempt = relay[p].attempt]]
           /\ UNCHANGED faults
        \/ /\ (~HoldsClaim(p, dispatch[r]) /\ UNCHANGED faults) \/ Fault
           /\ UNCHANGED dispatch
    /\ GoIdle(p)
    /\ UNCHANGED <<lease, thread, run, events, assistant, cancel, replica, resv, child>>

-----------------------------------------------------------------------------
(* Recovery. *)

MutRecoverable(r, early) ==
    /\ run[r].status = "running"
    /\ ~Alive(early)
    /\ dispatch[r].status = "dead_letter"
    /\ ~CancelActive(r)

\* The probe of recover_one_in_transaction.
Recoverable(r, early) ==
    /\ run[r].status = "running"
    /\ ~Alive(early)
    /\ dispatch[r].status \in {"delivered", "dead_letter"}
    /\ ~CancelActive(r)

\* At the largest token the recovery finishes without a takeover.
RecoveryToken == IF lease.fencing < MaxToken THEN lease.fencing + 1 ELSE lease.fencing

RecoveryOwner(p) == IF lease.fencing < MaxToken THEN p ELSE lease.owner

MutRecoveryStatus(r) == "reconciliation_required"

\* A delivered dispatch may have had effects; a dead-lettered one had none.
RecoveryStatus(r) ==
    IF dispatch[r].status = "delivered" THEN "reconciliation_required" ELSE "failed"

RecoveryCode(r) ==
    IF dispatch[r].status = "delivered" THEN "runtime_lease_expired"
    ELSE "dispatch_dead_letter"

recover_one_stale_run(p, r) ==
    /\ RelayIdle(p)
    /\ Recoverable(r, FALSE)
    /\ WriteTerminal(r, RecoveryStatus(r), run[r].next, RecoveryCode(r), RecoveryToken)
    /\ lease' = [owner |-> RecoveryOwner(p), fencing |-> RecoveryToken, live |-> FALSE]
    /\ UNCHANGED <<dispatch, cancel, process, faults>>

-----------------------------------------------------------------------------
(* The child: one activation of a run in the agent runtime. *)

Executing(p, r, phase) == replica[p] # "down" /\ child[p][r].phase = phase

SetChild(p, r, c) == child' = [child EXCEPT ![p][r] = c]

MutCanAppend(p, r, l, expected, early) ==
    /\ ~thread.closed
    /\ run[r].next = expected
    /\ run[r].status = "running"

\* append_chunk_in_transaction up to its first write.
CanAppend(p, r, l, expected, early) ==
    /\ validate_lease_identity(r, l)
    /\ ~thread.closed
    /\ run[r].next = expected
    /\ run[r].status = "running"
    /\ validate_active_lease(p, l, early)

\* replay_event: this very chunk was committed by an earlier attempt.
ReplaysChunk(r, l, expected, k) ==
    /\ validate_lease_identity(r, l)
    /\ ~thread.closed
    /\ run[r].next > expected
    /\ \E e \in events[r] : e.seq = expected /\ e.kind = k

\* One append: a receipt, an unknown commit, a replay, or a refusal.
AppendChunk(p, r, k, received, failed) ==
    LET c == child[p][r] IN
    \E early \in BOOLEAN :
        \/ /\ CanAppend(p, r, c.lease, c.expected, early)
           /\ InsertEvent(r, c.expected, k, c.lease.fencing)
           /\ AdvanceThread
           /\ run' = [run EXCEPT ![r].next = c.expected + 1]
           /\ \/ SetChild(p, r, received) /\ UNCHANGED faults
              \/ SetChild(p, r, failed) /\ Fault
        \/ /\ ReplaysChunk(r, c.lease, c.expected, k)
           /\ SetChild(p, r, received)
           /\ UNCHANGED <<run, events, thread, faults>>
        \/ /\ \/ /\ ~CanAppend(p, r, c.lease, c.expected, early)
                 /\ ~ReplaysChunk(r, c.lease, c.expected, k)
                 /\ UNCHANGED faults
              \/ Fault
           /\ SetChild(p, r, failed)
           /\ UNCHANGED <<run, events, thread>>

\* execute_activation: the permit came before a cancellation.
execute_activation(p, r) ==
    /\ Executing(p, r, "queued")
    /\ SetChild(p, r, [child[p][r] EXCEPT !.phase = "working"])
    /\ UNCHANGED <<database, replica, relay, resv, faults>>

\* The agent heads for a terminal: completed, a definite failure, a cancellation
\* (signalled, at the run deadline, or before it ever executed), or an outcome
\* that needs reconciliation.  Text not yet flushed stays pending.
close_run(p, r, goal, pending) ==
    /\ \/ Executing(p, r, "working")
       \/ /\ Executing(p, r, "queued")
          /\ child[p][r].cancelled /\ goal = "cancelled" /\ pending = "none"
    /\ pending = "none" \/ child[p][r].expected <= MaxChunks
    /\ SetChild(p, r, [child[p][r] EXCEPT !.phase = "closing", !.goal = goal,
                                          !.pending = pending])
    /\ UNCHANGED <<database, replica, relay, resv, faults>>

\* DurableTextRun::drain_pending while sampling; a failed append keeps the chunk
\* and turns the run towards reconciliation (journal_failure).
append_semantic_chunk(p, r, k) ==
    /\ Executing(p, r, "working")
    /\ child[p][r].expected <= MaxChunks
    /\ AppendChunk(p, r, k,
                   [child[p][r] EXCEPT !.expected = @ + 1],
                   [child[p][r] EXCEPT !.phase = "closing", !.pending = k,
                                       !.goal = "reconciliation_required"])
    /\ UNCHANGED <<lease, assistant, dispatch, cancel, replica, relay, resv>>

\* A tool exchange or a projection of the remote agent.  It is not kept when its
\* append fails: whether it was committed is left to the reconciliation.
append_checkpoint(p, r, k) ==
    /\ Executing(p, r, "working")
    /\ child[p][r].expected <= MaxChunks
    /\ AppendChunk(p, r, k,
                   [child[p][r] EXCEPT !.expected = @ + 1],
                   [child[p][r] EXCEPT !.phase = "closing",
                                       !.goal = "reconciliation_required"])
    /\ UNCHANGED <<lease, assistant, dispatch, cancel, replica, relay, resv>>

\* renew_lease was refused: LeaseLost.
lease_lost(p, r) ==
    /\ Executing(p, r, "working")
    /\ \E early \in BOOLEAN :
        \/ /\ ~ (/\ validate_active_lease(p, child[p][r].lease, early)
                 /\ validate_lease_identity(r, child[p][r].lease)
                 /\ run[r].status = "running")
           /\ UNCHANGED faults
        \/ Fault
    /\ SetChild(p, r, [child[p][r] EXCEPT !.phase = "closing",
                                          !.goal = "reconciliation_required"])
    /\ UNCHANGED <<database, replica, relay, resv>>

\* DurableTextRun::finish flushes first; a failed flush gives the run up.
flush(p, r) ==
    /\ Executing(p, r, "closing")
    /\ child[p][r].pending # "none"
    /\ AppendChunk(p, r, child[p][r].pending,
                   [child[p][r] EXCEPT !.expected = @ + 1, !.pending = "none"],
                   Ended(child[p][r]))
    /\ UNCHANGED <<lease, assistant, dispatch, cancel, replica, relay, resv>>

\* commit_terminal: one attempt, whose failure is left to the recovery.
finish_run(p, r) ==
    /\ Executing(p, r, "closing")
    /\ child[p][r].pending = "none"
    /\ LET c == child[p][r] IN
        \E early \in BOOLEAN :
            \/ /\ CanFinish(p, r, c.lease, c.expected, early)
               /\ WriteTerminal(r, c.goal, c.expected,
                                IF c.goal \in {"failed", "reconciliation_required"}
                                THEN "agent" ELSE "none", c.lease.fencing)
               /\ lease' = release_lease
               /\ UNCHANGED <<dispatch, cancel, faults>>
            \/ /\ \/ ~CanFinish(p, r, c.lease, c.expected, early) /\ UNCHANGED faults
                  \/ Fault
               /\ UNCHANGED database
    /\ SetChild(p, r, Ended(child[p][r]))
    /\ UNCHANGED <<replica, relay, resv>>

\* A child that returns without a terminal: a panic, or the early returns of
\* execute_run.
abandon(p, r) ==
    /\ Executing(p, r, "working")
    /\ SetChild(p, r, Ended(child[p][r]))
    /\ UNCHANGED <<database, replica, relay, resv, faults>>

cleanup(p, r) ==
    /\ Executing(p, r, "ended")
    /\ resv' = [resv EXCEPT ![p][r] =
                  IF Matches(p, r, child[p][r].lease) THEN NoReservation ELSE @]
    /\ SetChild(p, r, GoneChild)
    /\ UNCHANGED <<database, replica, relay, faults>>

-----------------------------------------------------------------------------
(* Time, stops and crashes. *)

\* The owner is at work under the lease: its relay is inside a handler, or a
\* child of it renews.
Tended ==
    \E p \in Replicas :
        /\ lease.owner = p
        /\ relay[p].step # "idle" \/ \E r \in Runs : child[p][r].phase \in LivePhase

\* claim_duration < lease_duration, and every claim renews the lease it works
\* under: a lease never runs out before the unsignalled claims of its run.  A
\* lease that runs out under an owner at work counts as a fault.
lease_expires ==
    /\ lease.live
    /\ \A r \in Runs : run[r].status = "running" =>
         /\ ~dispatch[r].live
         /\ cancel[r].live => cancel[r].signalled
    /\ IF Tended THEN Fault ELSE UNCHANGED faults
    /\ lease' = [lease EXCEPT !.live = FALSE]
    /\ UNCHANGED <<thread, run, events, assistant, dispatch, cancel, process>>

dispatch_claim_expires(r) ==
    /\ dispatch[r].live
    /\ dispatch' = [dispatch EXCEPT ![r].live = FALSE]
    /\ UNCHANGED <<lease, thread, run, events, assistant, cancel, process, faults>>

cancel_claim_expires(r) ==
    /\ cancel[r].live
    /\ cancel' = [cancel EXCEPT ![r].live = FALSE]
    /\ UNCHANGED <<lease, thread, run, events, assistant, dispatch, process, faults>>

\* BuiltInAgentRuntime::stop: no more dispatches, every reserved child is
\* signalled.
stop(p) ==
    /\ replica[p] = "up"
    /\ Fault
    /\ replica' = [replica EXCEPT ![p] = "stopping"]
    /\ child' = [child EXCEPT ![p] =
                   [r \in Runs |-> IF resv[p][r].held /\ child[p][r].phase \in LivePhase
                                   THEN [child[p][r] EXCEPT !.cancelled = TRUE]
                                   ELSE child[p][r]]]
    /\ UNCHANGED <<database, relay, resv>>

Over(c) == IF c.phase = "none" THEN NoChild ELSE GoneChild

\* The end of supervise: what has not stopped by the deadline is aborted.
stop_deadline(p) ==
    /\ replica[p] = "stopping"
    /\ replica' = [replica EXCEPT ![p] = "stopped"]
    /\ child' = [child EXCEPT ![p] = [r \in Runs |-> Over(child[p][r])]]
    /\ resv' = [resv EXCEPT ![p] = [r \in Runs |-> NoReservation]]
    /\ UNCHANGED <<database, relay, faults>>

\* The process ends at any point; its owner id never comes back.
crash(p) ==
    /\ replica[p] # "down"
    /\ replica[p] = "up" => faults > 0
    /\ faults' = IF replica[p] = "up" THEN faults - 1 ELSE faults
    /\ replica' = [replica EXCEPT ![p] = "down"]
    /\ relay' = [relay EXCEPT ![p] = IdleRelay]
    /\ child' = [child EXCEPT ![p] = [r \in Runs |-> Over(child[p][r])]]
    /\ resv' = [resv EXCEPT ![p] = [r \in Runs |-> NoReservation]]
    /\ UNCHANGED database

-----------------------------------------------------------------------------
Request(r) ==
    \/ \E p \in Replicas : BeginRun(p, r)
    \/ RequestCancellation(r)
    \/ DrainClosedHistory(r)

Relay(p) ==
    \/ \E r \in Runs :
        \/ claim_cancellation(p, r)
        \/ recover_one_stale_run(p, r)
        \/ claim_dispatch(p, r)
    \/ revoke(p)
    \/ mark_cancellation_signalled(p)
    \/ finish_unstarted_cancellation(p)
    \/ offer(p)
    \/ acknowledge_dispatch(p)
    \/ withdraw(p)
    \/ activate(p)
    \/ fail_activation(p)
    \/ reject_dispatch(p)
    \/ retry_dispatch(p)

Child(p, r) ==
    \/ execute_activation(p, r)
    \/ \E goal \in TerminalStatus, pending \in {"none", "text"} :
        close_run(p, r, goal, pending)
    \/ \E k \in ChunkKind : append_semantic_chunk(p, r, k)
    \/ \E k \in CheckpointKind : append_checkpoint(p, r, k)
    \/ lease_lost(p, r)
    \/ flush(p, r)
    \/ finish_run(p, r)
    \/ abandon(p, r)
    \/ cleanup(p, r)

Timer ==
    \/ lease_expires
    \/ \E r \in Runs : dispatch_claim_expires(r) \/ cancel_claim_expires(r)

Life(p) == stop(p) \/ stop_deadline(p) \/ crash(p)

Next ==
    \/ \E r \in Runs : Request(r)
    \/ CloseHistory
    \/ \E p \in Replicas : Relay(p) \/ Life(p)
    \/ \E p \in Replicas, r \in Runs : Child(p, r)
    \/ Timer

Spec == Init /\ [][Next]_vars


\* Scheduling the code provides: every relay polls for ever and finishes the
\* handler it is in, every child reaches a terminal (run_deadline is set by
\* default), claims expire, and a lease nobody renews expires.
ChildEnds(p, r) ==
    \/ execute_activation(p, r)
    \/ \E goal \in TerminalStatus : close_run(p, r, goal, "none")
    \/ flush(p, r)
    \/ finish_run(p, r)
    \/ cleanup(p, r)

FairSteps ==
    ({"relay", "stop"} \X Replicas) \cup ({"child"} \X Replicas \X Runs)
      \cup ({"claim"} \X Runs) \cup {<<"lease">>}

FairStep(f) ==
    \/ f[1] = "relay" /\ Relay(f[2])
    \/ f[1] = "stop" /\ stop_deadline(f[2])
    \/ f[1] = "child" /\ ChildEnds(f[2], f[3])
    \/ f[1] = "claim" /\ (dispatch_claim_expires(f[2]) \/ cancel_claim_expires(f[2]))
    \/ f[1] = "lease" /\ lease_expires /\ ~Tended

FairSpec == Spec /\ \A f \in FairSteps : WF_vars(FairStep(f))

-----------------------------------------------------------------------------
(* Types. *)

Lease == [fencing : Nat, seq : Nat]

Outbox == [status : OutboxStatus, attempt : Nat, by : Replicas \cup {NoReplica},
           live : BOOLEAN, signalled : BOOLEAN]

RelayStep == {"idle", "revoke", "signalled", "no_local_child", "offer",
              "acknowledge", "withdraw", "activate", "fail_activation",
              "reject", "busy"}

Event == [seq : Nat, at : Nat, kind : EventKind, by : Nat]

ChildPhase == {"none", "ended", "gone"} \cup LivePhase

LeaseRow    == [owner : Replicas \cup {NoReplica}, fencing : Nat, live : BOOLEAN]
ThreadRow   == [next : Nat, closed : BOOLEAN]
RunRow      == [status : RunStatus, fencing : Nat, next : Nat, code : ErrorCode]
RelayState  == [step : RelayStep, run : Runs \cup {NoRun}, attempt : Nat, lease : Lease]
Reservation == [held : BOOLEAN, lease : Lease, active : BOOLEAN]
ChildState  == [phase : ChildPhase, lease : Lease, expected : Nat,
                pending : {"none"} \cup ChunkKind,
                goal : {"none"} \cup TerminalStatus, cancelled : BOOLEAN]

DatabaseTyped ==
    /\ lease \in LeaseRow
    /\ thread \in ThreadRow
    /\ run \in [Runs -> RunRow]
    /\ events \in [Runs -> SUBSET Event]
    /\ assistant \in [Runs -> {"none", "complete", "incomplete"}]
    /\ dispatch \in [Runs -> Outbox]
    /\ cancel \in [Runs -> Outbox]

\* A relay inside a handler works on a run.
RelayTyped ==
    /\ relay \in [Replicas -> RelayState]
    /\ \A p \in Replicas : relay[p].step # "idle" => relay[p].run \in Runs

\* A child that closes knows its terminal.
ChildTyped ==
    /\ child \in [Replicas -> [Runs -> ChildState]]
    /\ \A p \in Replicas, r \in Runs :
        child[p][r].phase = "closing" => child[p][r].goal \in TerminalStatus

\* Every variable holds a value of its row, record or map.
TypeOK ==
    /\ DatabaseTyped
    /\ replica \in [Replicas -> {"up", "stopping", "stopped", "down"}]
    /\ RelayTyped
    /\ resv \in [Replicas -> [Runs -> Reservation]]
    /\ ChildTyped
    /\ faults \in Nat

-----------------------------------------------------------------------------
(* Safety. *)

\* The journal of a run has exactly one event at every sequence below
\* next_event_seq and none above, whatever was retried, replayed or refused.
JournalDense ==
    \A r \in Runs :
        /\ \A e \in events[r] : e.seq < run[r].next
        /\ \A n \in 0 .. run[r].next - 1 : \E e \in events[r] : e.seq = n
        /\ \A e, f \in events[r] : e.seq = f.seq => e = f

\* All events of the thread, of whichever run, carry distinct thread sequences
\* below threads.next_event_seq: a reader that pages by thread sequence misses
\* and repeats nothing.
ThreadSequenceUnique ==
    \A r, q \in Runs : \A e \in events[r], f \in events[q] :
        /\ e.at < thread.next
        /\ e.at = f.at => r = q /\ e = f

\* A run is terminal exactly when its last event is its one terminal event, and
\* that event says the status of the run row.
OneTerminalLast ==
    \A r \in Runs :
        /\ \A e \in events[r] :
            e.kind \in TerminalStatus => e.kind = run[r].status /\ e.seq + 1 = run[r].next
        /\ run[r].status \in TerminalStatus => \E e \in events[r] : e.kind = run[r].status

\* Whatever was retried, replayed or refused, a reader finds every event of a run
\* once, without a gap, and the terminal last.
JournalSound == JournalDense /\ OneTerminalLast

\* The token of a running run is the token of the thread's lease, so no claim
\* is ever dead-lettered as dispatch_fencing_binding.
FencingAgreement ==
    \A r \in Runs : run[r].status = "running" => run[r].fencing = lease.fencing

\* No run is executed twice: over all replicas, retries, takeovers and crashes
\* at most one child is ever activated for it.
AtMostOneExecution ==
    \A r \in Runs : \A p, q \in Replicas :
        child[p][r].phase # "none" /\ child[q][r].phase # "none" => p = q

\* A live child whose token is still the run's is the lease owner's, and its
\* expected sequence is the next one, or one behind it, at the event whose
\* commit it could not confirm: the chunk it replays, or a checkpoint.
FencedWriterInSync ==
    \A p \in Replicas, r \in Runs :
        LET c == child[p][r] IN
        (c.phase \in LivePhase /\ run[r].status = "running" /\ c.lease.fencing = run[r].fencing)
        => /\ lease.owner = p
           /\ \/ c.expected = run[r].next
              \/ /\ c.phase = "closing" /\ c.expected + 1 = run[r].next
                 /\ \E e \in events[r] :
                      /\ e.seq = c.expected
                      /\ e.kind = c.pending \/ (c.pending = "none" /\ e.kind \in CheckpointKind)

\* A failure reported as agent_runtime_unavailable by the relay or as
\* dispatch_dead_letter by the recovery is definite: no child ever executed.
\* An unresolved outcome is only reported after the dispatch was delivered.
OutcomeMatchesDelivery ==
    \A r \in Runs :
        /\ run[r].code \in UnstartedCode => \A p \in Replicas : child[p][r].phase = "none"
        /\ run[r].status = "reconciliation_required" => dispatch[r].status = "delivered"

\* An accepted cancellation is settled only by a terminal run.
CancellationNeverDropped ==
    \A r \in Runs : cancel[r].status = "delivered" => run[r].status \in TerminalStatus

\* At most one run of the thread holds its foreground slot.
OneForegroundRun ==
    \A r, q \in Runs :
        /\ run[r].status \in {"running", "reconciliation_required"}
        /\ run[q].status \in {"running", "reconciliation_required"}
        => r = q

\* A terminal run retains no reasoning and no remote projection, and its
\* assistant message says incomplete unless the run completed; text is left
\* without a message only when the history was closed.
TerminalScrubs ==
    \A r \in Runs : run[r].status \in TerminalStatus =>
        /\ \A e \in events[r] : e.kind \notin {"reasoning", "remote_projection"}
        /\ assistant[r] = "complete" => run[r].status = "completed"
        /\ assistant[r] = "incomplete" => run[r].status # "completed"
        /\ (assistant[r] = "none" /\ FreshText(r) # {}) => thread.closed

\* What RunTerminal::Cancelled documents: a cancelled run has no child at work.
CancelledAfterChildrenStopped ==
    \A p \in Replicas, r \in Runs :
        run[r].status = "cancelled" => child[p][r].phase \notin {"queued", "working"}

-----------------------------------------------------------------------------
(* What a step may never do. *)

\* Nothing changes the row, the journal or the message of a terminal run.
TerminalIsFinal ==
    [][\A r \in Runs : run[r].status \in TerminalStatus =>
         /\ run'[r] = run[r]
         /\ events'[r] = events[r]
         /\ assistant'[r] = assistant[r]]_vars

\* Fencing: whatever writes to a journal, a child, a relay or the recovery,
\* writes under the token the lease and the run have after that step.  A child
\* or relay that was overtaken writes nothing, however late it wakes up.
WritesUnderCurrentToken ==
    [][\A r \in Runs : \A e \in events'[r] :
         e.seq >= run[r].next => e.by = lease'.fencing /\ e.by = run'[r].fencing]_vars

\* The lease never changes hands under the same token, and tokens never fall.
TakeoverRaisesToken ==
    [][/\ lease'.fencing >= lease.fencing
       /\ lease'.owner # lease.owner => lease'.fencing > lease.fencing]_vars

-----------------------------------------------------------------------------
(* What the runtime implements. *)

\* The database as a reader sees it.
Ledger ==
    INSTANCE RunLedger WITH
        holder  <- lease.owner,
        token   <- lease.fencing,
        clock   <- thread.next,
        status  <- [r \in Runs |-> run[r].status],
        epoch   <- [r \in Runs |-> run[r].fencing],
        length  <- [r \in Runs |-> run[r].next],
        journal <- events

\* Outboxes, claims, recovery, crashes and retries together implement the ledger:
\* every step of every actor is one of its steps or changes nothing a reader
\* can see.
ImplementsLedger == Ledger!LedgerSpec

-----------------------------------------------------------------------------
(* Liveness, while a replica stays up. *)

\* Every begun run reaches a terminal, whatever crashed or was lost.
EveryRunEnds ==
    \A r \in Runs : []<>(run[r].status # "running")

\* Every accepted cancellation is settled.
EveryCancellationSettles == \A r \in Runs : []<>~CancelActive(r)

=============================================================================

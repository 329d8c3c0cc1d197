-------------------------- MODULE RunRuntimeProofs --------------------------
(* What holds of RunRuntime for any number of runs, replicas and faults: its *)
(* types, and that it implements RunLedger and inherits what the ledger      *)
(* promises.                                                                 *)
EXTENDS RunRuntime, TLAPS

\* The first state is typed.
LEMMA TypedInitially == Init => TypeOK
  BY RuntimeAssumption
  DEF Init, TypeOK, DatabaseTyped, RelayTyped, ChildTyped, LeaseRow, ThreadRow, RunRow, RelayState, Reservation, ChildState,
      Lease, Outbox, RelayStep, ChildPhase, RunStatus, ErrorCode, OutboxStatus,
      NoLease, IdleRelay, NoReservation, NoChild, NoRow

\* The rows and records the actions build.
LEMMA PendingTyped ==
    ASSUME NEW n \in Nat
    PROVE  PendingRow \in Outbox /\ [PendingRow EXCEPT !.attempt = n] \in Outbox
<1>1. PendingRow \in Outbox
  BY DEF PendingRow, NoRow, Outbox, OutboxStatus
<1> QED
  BY <1>1 DEF Outbox

LEMMA OutboxTyped ==
    ASSUME NEW p \in Replicas, NEW row \in Outbox
    PROVE  /\ Delivered(row) \in Outbox
           /\ DeadLettered(row) \in Outbox
           /\ NextAttempt(p, row) \in Nat
           /\ Claimed(p, row) \in Outbox
           /\ Signalled(row) \in Outbox
           /\ [row EXCEPT !.live = FALSE] \in Outbox
<1> USE DEF Outbox, OutboxStatus
<1>2. Delivered(row) \in Outbox
  BY DEF Delivered
<1>3. DeadLettered(row) \in Outbox
  BY DEF DeadLettered
<1>4. NextAttempt(p, row) \in Nat
  BY DEF NextAttempt
<1>5. Claimed(p, row) \in Outbox
  BY <1>4 DEF Claimed
<1>6. Signalled(row) \in Outbox
  BY DEF Signalled
<1>7. [row EXCEPT !.live = FALSE] \in Outbox
  OBVIOUS
<1> QED
  BY <1>2, <1>3, <1>4, <1>5, <1>6, <1>7

LEMMA RelayUpdates ==
    ASSUME NEW state \in RelayState, NEW step \in RelayStep
    PROVE  /\ [state EXCEPT !.step = step] \in RelayState
           /\ [state EXCEPT !.step = step].run = state.run
           /\ [state EXCEPT !.step = step].step = step
  BY DEF RelayState, IdleRelay, NoLease, Lease, RelayStep

LEMMA ChildUpdates ==
    ASSUME NEW c \in ChildState
    PROVE  /\ NoChild \in ChildState /\ NoChild.phase # "closing"
           /\ GoneChild \in ChildState /\ GoneChild.phase # "closing"
           /\ Ended(c) \in ChildState /\ Ended(c).phase # "closing"
           /\ Over(c) \in ChildState /\ Over(c).phase # "closing"
           /\ [c EXCEPT !.cancelled = TRUE] \in ChildState
           /\ [c EXCEPT !.cancelled = TRUE].phase = c.phase
           /\ [c EXCEPT !.cancelled = TRUE].goal = c.goal
           /\ [c EXCEPT !.phase = "working"] \in ChildState
           /\ [c EXCEPT !.phase = "working"].phase # "closing"
  BY DEF ChildState, NoChild, GoneChild, Ended, Over, ChildPhase, LivePhase, NoLease,
         Lease, ChunkKind

LEMMA LeaseTyped ==
    ASSUME TypeOK, NEW p \in Replicas, NEW b \in BOOLEAN
    PROVE  /\ [lease EXCEPT !.live = b] \in LeaseRow
           /\ [lease EXCEPT !.live = b].owner = lease.owner
           /\ [lease EXCEPT !.live = b].fencing = lease.fencing
           /\ [owner |-> p, fencing |-> lease.fencing + 1, live |-> b] \in LeaseRow
           /\ lease.fencing \in Nat
<1>1. lease \in LeaseRow
  BY DEF TypeOK, DatabaseTyped
<1> QED
  BY <1>1 DEF LeaseRow

LEMMA AdvanceTyped ==
    ASSUME thread \in ThreadRow, AdvanceThread
    PROVE  /\ thread' \in ThreadRow
           /\ thread'.next = thread.next + 1
           /\ thread'.closed = thread.closed
  BY DEF AdvanceThread, ThreadRow

LEMMA TerminalTyped ==
    ASSUME TypeOK, NEW r \in Runs, NEW k \in TerminalStatus, NEW expected \in Nat,
           NEW code \in ErrorCode, NEW t \in Nat,
           WriteTerminal(r, k, expected, code, t)
    PROVE  /\ events' \in [Runs -> SUBSET Event]
           /\ thread' \in ThreadRow
           /\ run' \in [Runs -> RunRow]
           /\ assistant' \in [Runs -> {"none", "complete", "incomplete"}]
<1>1. thread' \in ThreadRow
  BY AdvanceTyped DEF TypeOK, DatabaseTyped, WriteTerminal
<1>2. run' \in [Runs -> RunRow]
  BY DEF TypeOK, DatabaseTyped, WriteTerminal, TerminalRow, RunRow, RunStatus
<1>3. assistant' \in [Runs -> {"none", "complete", "incomplete"}]
  BY DEF TypeOK, DatabaseTyped, WriteTerminal, AssistantMessage
<1>4. events' \in [Runs -> SUBSET Event]
  <2>1. Scrub(events[r]) \in SUBSET Event
    BY DEF TypeOK, DatabaseTyped, Scrub, Event, EventKind, ChunkKind, CheckpointKind, TerminalStatus
  <2>2. [seq |-> expected, at |-> thread.next, kind |-> k, by |-> t] \in Event
    BY DEF TypeOK, DatabaseTyped, ThreadRow, Event, EventKind
  <2> QED
    BY <2>1, <2>2 DEF TypeOK, DatabaseTyped, WriteTerminal
<1> QED
  BY <1>1, <1>2, <1>3, <1>4

LEMMA AppendTyped ==
    ASSUME TypeOK, NEW r \in Runs, NEW k \in ChunkKind \cup CheckpointKind \cup {"started"},
           NEW seq \in Nat, NEW t \in Nat, InsertEvent(r, seq, k, t), AdvanceThread
    PROVE  events' \in [Runs -> SUBSET Event] /\ thread' \in ThreadRow
<1>1. thread' \in ThreadRow
  BY AdvanceTyped DEF TypeOK, DatabaseTyped
<1>2. [seq |-> seq, at |-> thread.next, kind |-> k, by |-> t] \in Event
  BY DEF TypeOK, DatabaseTyped, ThreadRow, Event, EventKind
<1> QED
  BY <1>1, <1>2 DEF TypeOK, DatabaseTyped, InsertEvent

\* A fault is taken from those left.
LEMMA FaultTyped ==
    ASSUME faults \in Nat, Fault \/ UNCHANGED faults
    PROVE  faults' \in Nat
  BY DEF Fault

\* A relay leaves its handler, goes on in it, or enters one.
LEMMA RelayMoves ==
    ASSUME TypeOK, NEW p \in Replicas, NEW state \in RelayState,
           state.step # "idle" => state.run \in Runs,
           relay' = [relay EXCEPT ![p] = state]
    PROVE  RelayTyped'
  BY DEF TypeOK, RelayTyped

LEMMA GoIdleTyped ==
    ASSUME TypeOK, NEW p \in Replicas, GoIdle(p)
    PROVE  RelayTyped'
  <1>1. IdleRelay \in RelayState /\ IdleRelay.step = "idle"
  BY DEF IdleRelay, RelayState, RelayStep, NoLease, Lease
<1> QED
  BY <1>1, RelayMoves DEF GoIdle

LEMMA GoToTyped ==
    ASSUME TypeOK, NEW p \in Replicas, relay[p].step # "idle", NEW step \in RelayStep,
           GoTo(p, step)
    PROVE  RelayTyped'
<1> DEFINE state == [relay[p] EXCEPT !.step = step]
<1>1. relay[p] \in RelayState /\ relay[p].run \in Runs
  BY DEF TypeOK, RelayTyped
<1>2. state \in RelayState /\ state.run = relay[p].run
  BY <1>1, RelayUpdates
<1>3. relay' = [relay EXCEPT ![p] = state]
  BY DEF GoTo
<1> HIDE DEF state
<1> QED
  BY <1>1, <1>2, <1>3, RelayMoves

\* A child is replaced by a typed one.
LEMMA SetChildTyped ==
    ASSUME TypeOK, NEW p \in Replicas, NEW r \in Runs, NEW c \in ChildState,
           c.phase = "closing" => c.goal \in TerminalStatus, SetChild(p, r, c)
    PROVE  ChildTyped'
<1>1. child' \in [Replicas -> [Runs -> ChildState]]
  BY DEF TypeOK, ChildTyped, SetChild
<1>2. \A q \in Replicas, s \in Runs :
        child'[q][s] = IF q = p /\ s = r THEN c ELSE child[q][s]
  BY DEF TypeOK, ChildTyped, SetChild
<1> QED
  BY <1>1, <1>2 DEF TypeOK, ChildTyped

LEMMA ReserveTyped ==
    ASSUME TypeOK, NEW p \in Replicas, NEW r \in Runs, NEW v \in Reservation,
           resv' = [resv EXCEPT ![p][r] = v]
    PROVE  resv' \in [Replicas -> [Runs -> Reservation]]
  BY DEF TypeOK

\* The children of one replica are replaced together.
LEMMA SetChildrenTyped ==
    ASSUME TypeOK, NEW p \in Replicas, NEW f \in [Runs -> ChildState],
           \A r \in Runs : f[r].phase = "closing" => f[r].goal \in TerminalStatus,
           child' = [child EXCEPT ![p] = f]
    PROVE  ChildTyped'
<1>1. \A q \in Replicas : child'[q] = IF q = p THEN f ELSE child[q]
  BY DEF TypeOK, ChildTyped
<1> QED
  BY <1>1 DEF TypeOK, ChildTyped

-----------------------------------------------------------------------------
(* Every action keeps the types. *)

\* Steps that touch only processes keep the database typed.
LEMMA DatabaseStays ==
    ASSUME TypeOK, UNCHANGED database
    PROVE  DatabaseTyped'
  BY DEF TypeOK, DatabaseTyped, database

\* The requests.
LEMMA RequestTyped ==
    ASSUME TypeOK, NEW r \in Runs, Request(r)
    PROVE  TypeOK'
<1>1. ASSUME NEW p \in Replicas, BeginRun(p, r)
      PROVE  TypeOK'
  <2>1. lease' \in LeaseRow
    <3>1. PICK early \in BOOLEAN : acquire_lease(p, early)
      BY <1>1 DEF BeginRun
    <3> QED
      BY <3>1, LeaseTyped DEF acquire_lease
  <2>2. lease'.fencing \in Nat
    BY <2>1 DEF LeaseRow
  <2>3. run' \in [Runs -> RunRow]
    BY <1>1, <2>2 DEF BeginRun, TypeOK, DatabaseTyped, RunRow, RunStatus, ErrorCode
  <2>4. events' \in [Runs -> SUBSET Event] /\ thread' \in ThreadRow
    BY <1>1, <2>2, AppendTyped DEF BeginRun
  <2>5. dispatch' \in [Runs -> Outbox]
    BY <1>1, 0 \in Nat, PendingTyped DEF BeginRun, TypeOK, DatabaseTyped
  <2> QED
    BY <1>1, <2>1, <2>3, <2>4, <2>5
    DEF BeginRun, TypeOK, DatabaseTyped, RelayTyped, ChildTyped, process
<1>2. ASSUME RequestCancellation(r)
      PROVE  TypeOK'
  <2>1. cancel' \in [Runs -> Outbox]
    BY <1>2, 0 \in Nat, PendingTyped DEF RequestCancellation, TypeOK, DatabaseTyped
  <2> QED
    BY <1>2, <2>1
    DEF RequestCancellation, TypeOK, DatabaseTyped, RelayTyped, ChildTyped, process
<1> QED
  BY <1>1, <1>2 DEF Request, DrainClosedHistory

\* A claim moves the lease and the run to a token, and the relay may receive it.
LEMMA ClaimTyped ==
    ASSUME TypeOK, NEW p \in Replicas, NEW r \in Runs, NEW early \in BOOLEAN,
           NEW step \in RelayStep, NEW attempt \in Nat,
           ClaimLease(p, r, early),
           ReceiveClaim(p, r, step, attempt, ClaimToken(early))
    PROVE  /\ lease' \in LeaseRow
           /\ run' \in [Runs -> RunRow]
           /\ RelayTyped'
           /\ faults' \in Nat
<1> DEFINE t == ClaimToken(early)
<1>1. t \in Nat
  BY DEF ClaimToken, TypeOK, DatabaseTyped, LeaseRow
<1>2. lease' \in LeaseRow
  BY <1>1 DEF ClaimLease, LeaseRow
<1>3. run[r] \in RunRow /\ [run[r] EXCEPT !.fencing = t] \in RunRow
  BY <1>1 DEF RunRow, TypeOK, DatabaseTyped
<1> HIDE DEF t
<1>4. run' \in [Runs -> RunRow]
  BY <1>3 DEF ClaimLease, TypeOK, DatabaseTyped, t
<1>5. faults' \in Nat
  BY FaultTyped DEF ReceiveClaim, TypeOK
<1>6. RelayTyped'
  <2> DEFINE state == [step |-> step, run |-> r, attempt |-> attempt,
                       lease |-> [fencing |-> t, seq |-> run[r].next]]
  <2>1. state \in RelayState /\ state.run \in Runs
    BY <1>1, <1>3 DEF RelayState, Lease, RunRow
  <2>2. relay' = [relay EXCEPT ![p] = state] \/ UNCHANGED relay
    BY DEF ReceiveClaim, t
  <2> HIDE DEF state
  <2> QED
    BY <2>1, <2>2, RelayMoves DEF TypeOK, RelayTyped
<1> QED
  BY <1>2, <1>4, <1>5, <1>6

LEMMA ClaimCancellationTyped ==
    ASSUME TypeOK, NEW p \in Replicas, NEW r \in Runs, claim_cancellation(p, r)
    PROVE  TypeOK'
<1>1. cancel[r] \in Outbox
  BY DEF TypeOK, DatabaseTyped
<1>2. cancel' \in [Runs -> Outbox]
  <2>1. \/ cancel' = [cancel EXCEPT ![r] = Delivered(cancel[r])]
        \/ cancel' = [cancel EXCEPT ![r] = DeadLettered(cancel[r])]
        \/ cancel' = [cancel EXCEPT ![r] = Claimed(p, cancel[r])]
    BY DEF claim_cancellation
  <2>2. PICK row \in Outbox : cancel' = [cancel EXCEPT ![r] = row]
    BY <1>1, <2>1, OutboxTyped
  <2> QED
    BY <2>2 DEF TypeOK, DatabaseTyped
<1>3. lease' \in LeaseRow /\ run' \in [Runs -> RunRow] /\ RelayTyped' /\ faults' \in Nat
  <2>1. PICK early \in BOOLEAN :
          \/ UNCHANGED <<lease, run, relay, faults>>
          \/ /\ ClaimLease(p, r, early)
             /\ ReceiveClaim(p, r, "revoke", NextAttempt(p, cancel[r]), ClaimToken(early))
    BY DEF claim_cancellation
  <2>2. "revoke" \in RelayStep /\ NextAttempt(p, cancel[r]) \in Nat
    BY <1>1, OutboxTyped DEF RelayStep
  <2>3. CASE UNCHANGED <<lease, run, relay, faults>>
    BY <2>3 DEF TypeOK, DatabaseTyped, RelayTyped
  <2> QED
    BY <2>1, <2>2, <2>3, ClaimTyped
<1> QED
  BY <1>2, <1>3 DEF claim_cancellation, TypeOK, DatabaseTyped, ChildTyped

LEMMA ClaimDispatchTyped ==
    ASSUME TypeOK, NEW p \in Replicas, NEW r \in Runs, claim_dispatch(p, r)
    PROVE  TypeOK'
<1>1. dispatch[r] \in Outbox
  BY DEF TypeOK, DatabaseTyped
<1>2. dispatch' \in [Runs -> Outbox]
  <2>1. \/ dispatch' = [dispatch EXCEPT ![r] = Delivered(dispatch[r])]
        \/ dispatch' = [dispatch EXCEPT ![r] = DeadLettered(dispatch[r])]
        \/ dispatch' = [dispatch EXCEPT ![r] = Claimed(p, dispatch[r])]
    BY DEF claim_dispatch
  <2>2. PICK row \in Outbox : dispatch' = [dispatch EXCEPT ![r] = row]
    BY <1>1, <2>1, OutboxTyped
  <2> QED
    BY <2>2 DEF TypeOK, DatabaseTyped
<1>3. lease' \in LeaseRow /\ run' \in [Runs -> RunRow] /\ RelayTyped' /\ faults' \in Nat
  <2>1. PICK early \in BOOLEAN :
          \/ UNCHANGED <<lease, run, relay, faults>>
          \/ /\ ClaimLease(p, r, early)
             /\ ReceiveClaim(p, r, "offer", NextAttempt(p, dispatch[r]), ClaimToken(early))
    BY DEF claim_dispatch
  <2>2. "offer" \in RelayStep /\ NextAttempt(p, dispatch[r]) \in Nat
    BY <1>1, OutboxTyped DEF RelayStep
  <2>3. CASE UNCHANGED <<lease, run, relay, faults>>
    BY <2>3 DEF TypeOK, DatabaseTyped, RelayTyped
  <2> QED
    BY <2>1, <2>2, <2>3, ClaimTyped
<1> QED
  BY <1>2, <1>3 DEF claim_dispatch, TypeOK, DatabaseTyped, ChildTyped

\* The cancellation handler.
LEMMA SignalTyped ==
    ASSUME TypeOK, NEW p \in Replicas, NEW r \in Runs, Signal(p, r)
    PROVE  ChildTyped' /\ resv' \in [Replicas -> [Runs -> Reservation]]
<1> DEFINE c == [child[p][r] EXCEPT
                   !.cancelled = (@ \/ child[p][r].phase \in LivePhase)]
<1>1. child[p][r] \in ChildState
  BY DEF TypeOK, ChildTyped
<1>2. c \in ChildState /\ c.phase = child[p][r].phase /\ c.goal = child[p][r].goal
  BY <1>1 DEF ChildState
<1>3. SetChild(p, r, c)
  BY DEF Signal, SetChild
<1> HIDE DEF c
<1>4. ChildTyped'
  BY <1>2, <1>3, SetChildTyped DEF TypeOK, ChildTyped
<1>5. NoReservation \in Reservation
  BY DEF NoReservation, Reservation, NoLease, Lease
<1>6. resv' \in [Replicas -> [Runs -> Reservation]]
  BY <1>5 DEF Signal, TypeOK
<1> QED
  BY <1>4, <1>6

LEMMA RevokeTyped ==
    ASSUME TypeOK, NEW p \in Replicas, revoke(p) \/ withdraw(p)
    PROVE  TypeOK'
<1>1. relay[p].step # "idle" /\ relay[p].run \in Runs
  BY DEF revoke, withdraw, TypeOK, RelayTyped
<1>2. "signalled" \in RelayStep /\ "no_local_child" \in RelayStep
  BY DEF RelayStep
<1>3. RelayTyped'
  BY <1>1, <1>2, GoToTyped, GoIdleTyped DEF revoke, withdraw
<1>4. ChildTyped' /\ resv' \in [Replicas -> [Runs -> Reservation]]
  <2>1. Signal(p, relay[p].run) \/ UNCHANGED <<resv, child>>
    BY DEF revoke, withdraw
  <2>2. CASE UNCHANGED <<resv, child>>
    BY <2>2 DEF TypeOK, ChildTyped
  <2> QED
    BY <1>1, <2>1, <2>2, SignalTyped
<1> QED
  BY <1>3, <1>4, DatabaseStays DEF revoke, withdraw, TypeOK

LEMMA MarkSignalledTyped ==
    ASSUME TypeOK, NEW p \in Replicas, mark_cancellation_signalled(p)
    PROVE  TypeOK'
<1> DEFINE r == relay[p].run
<1>1. r \in Runs /\ cancel[r] \in Outbox
  BY DEF mark_cancellation_signalled, TypeOK, RelayTyped, DatabaseTyped
<1>2. RelayTyped'
  BY GoIdleTyped DEF mark_cancellation_signalled
<1>3. faults' \in Nat
  BY FaultTyped DEF mark_cancellation_signalled, TypeOK
<1>4. cancel' \in [Runs -> Outbox]
  <2>1. \/ cancel' = [cancel EXCEPT ![r] = Delivered(cancel[r])]
        \/ cancel' = [cancel EXCEPT ![r] = Signalled(cancel[r])]
        \/ UNCHANGED cancel
    BY DEF mark_cancellation_signalled
  <2>2. Delivered(cancel[r]) \in Outbox /\ Signalled(cancel[r]) \in Outbox
    BY <1>1, OutboxTyped
  <2> QED
    BY <1>1, <2>1, <2>2 DEF TypeOK, DatabaseTyped
<1> QED
  BY <1>2, <1>3, <1>4
  DEF mark_cancellation_signalled, TypeOK, DatabaseTyped, ChildTyped

\* A terminal written by a relay or a child, and the rows settled with it.
LEMMA FinishTyped ==
    ASSUME TypeOK, NEW r \in Runs, NEW k \in TerminalStatus, NEW expected \in Nat,
           NEW code \in ErrorCode, NEW t \in Nat,
           WriteTerminal(r, k, expected, code, t), lease' = release_lease,
           dispatch' \in [Runs -> Outbox], cancel' \in [Runs -> Outbox]
    PROVE  DatabaseTyped'
  BY TerminalTyped DEF release_lease, DatabaseTyped, TypeOK, LeaseRow

LEMMA FinishUnstartedTyped ==
    ASSUME TypeOK, NEW p \in Replicas, finish_unstarted_cancellation(p)
    PROVE  TypeOK'
<1> DEFINE r == relay[p].run
           l == relay[p].lease
<1>1. /\ r \in Runs
      /\ cancel[r] \in Outbox /\ dispatch[r] \in Outbox
      /\ l.seq \in Nat /\ l.fencing \in Nat
  BY DEF finish_unstarted_cancellation, TypeOK, RelayTyped, DatabaseTyped, RelayState, Lease
<1>2. RelayTyped'
  BY GoIdleTyped DEF finish_unstarted_cancellation
<1>3. faults' \in Nat
  BY FaultTyped DEF finish_unstarted_cancellation, TypeOK
<1>4. DatabaseTyped'
  <2>1. \/ UNCHANGED database
        \/ /\ \/ /\ WriteTerminal(r, "cancelled", l.seq, "none", l.fencing)
                 /\ lease' = release_lease
              \/ UNCHANGED <<lease, thread, run, events, assistant>>
           /\ dispatch' = [dispatch EXCEPT ![r] = Delivered(dispatch[r])]
           /\ cancel' = [cancel EXCEPT ![r] = Delivered(cancel[r])]
    BY DEF finish_unstarted_cancellation
  <2>2. CASE UNCHANGED database
    BY <2>2, DatabaseStays
  <2>3. CASE ~UNCHANGED database
    <3>1. Delivered(dispatch[r]) \in Outbox /\ Delivered(cancel[r]) \in Outbox
      BY <1>1, OutboxTyped
    <3>2. dispatch' \in [Runs -> Outbox] /\ cancel' \in [Runs -> Outbox]
      <4>1. /\ dispatch' = [dispatch EXCEPT ![r] = Delivered(dispatch[r])]
            /\ cancel' = [cancel EXCEPT ![r] = Delivered(cancel[r])]
        BY <2>1, <2>3
      <4>2. dispatch \in [Runs -> Outbox] /\ cancel \in [Runs -> Outbox]
        BY DEF TypeOK, DatabaseTyped
      <4> QED
        BY <1>1, <3>1, <4>1, <4>2
    <3>3. "cancelled" \in TerminalStatus /\ "none" \in ErrorCode
      BY DEF TerminalStatus, ErrorCode
    <3>4. CASE UNCHANGED <<lease, thread, run, events, assistant>>
      BY <3>2, <3>4 DEF TypeOK, DatabaseTyped
    <3>5. CASE WriteTerminal(r, "cancelled", l.seq, "none", l.fencing) /\ lease' = release_lease
      BY <1>1, <3>2, <3>3, <3>5, FinishTyped
    <3> QED
      BY <2>1, <2>3, <3>4, <3>5
  <2> QED
    BY <2>2, <2>3
<1> QED
  BY <1>2, <1>3, <1>4 DEF finish_unstarted_cancellation, TypeOK, ChildTyped

\* The dispatch handler.
LEMMA OfferTyped ==
    ASSUME TypeOK, NEW p \in Replicas, offer(p)
    PROVE  TypeOK'
<1> DEFINE r == relay[p].run
           l == relay[p].lease
<1>1. relay[p].step # "idle" /\ r \in Runs /\ l \in Lease
  BY DEF offer, TypeOK, RelayTyped, RelayState
<1>2. "reject" \in RelayStep /\ "acknowledge" \in RelayStep /\ "busy" \in RelayStep
  BY DEF RelayStep
<1>3. RelayTyped'
  BY <1>1, <1>2, GoToTyped DEF offer
<1>4. resv' \in [Replicas -> [Runs -> Reservation]]
  <2> DEFINE new == [held |-> TRUE, lease |-> l, active |-> FALSE]
  <2>1. new \in Reservation /\ resv[p][r] \in Reservation
    BY <1>1 DEF TypeOK, Reservation
  <2>2. \/ UNCHANGED resv
        \/ resv' = [resv EXCEPT ![p][r] = resv[p][r]]
        \/ resv' = [resv EXCEPT ![p][r] = new]
    BY DEF offer
  <2> HIDE DEF new
  <2> QED
    BY <1>1, <2>1, <2>2, ReserveTyped DEF TypeOK
<1> QED
  BY <1>3, <1>4, DatabaseStays DEF offer, TypeOK, ChildTyped

LEMMA AcknowledgeTyped ==
    ASSUME TypeOK, NEW p \in Replicas, acknowledge_dispatch(p)
    PROVE  TypeOK'
<1> DEFINE r == relay[p].run
           state == [relay[p] EXCEPT
                       !.step = "activate",
                       !.lease = [fencing |-> run[r].fencing, seq |-> run[r].next]]
<1>1. /\ relay[p].step # "idle" /\ r \in Runs /\ relay[p] \in RelayState
      /\ run[r].next \in Nat /\ run[r].fencing \in Nat /\ dispatch[r] \in Outbox
  BY DEF acknowledge_dispatch, TypeOK, RelayTyped, RelayState, DatabaseTyped, RunRow
<1>2. "activate" \in RelayStep /\ "withdraw" \in RelayStep
  BY DEF RelayStep
<1>3. faults' \in Nat
  BY FaultTyped DEF acknowledge_dispatch, TypeOK
<1>4. dispatch' \in [Runs -> Outbox]
  <2>1. UNCHANGED dispatch \/ dispatch' = [dispatch EXCEPT ![r] = Delivered(dispatch[r])]
    BY DEF acknowledge_dispatch
  <2>2. Delivered(dispatch[r]) \in Outbox
    BY <1>1, OutboxTyped
  <2> QED
    BY <1>1, <2>1, <2>2 DEF TypeOK, DatabaseTyped
<1>5. RelayTyped'
  <2>1. relay' = [relay EXCEPT ![p] = state] \/ GoTo(p, "withdraw")
    BY DEF acknowledge_dispatch, GoActivate
  <2>2. state \in RelayState
    BY <1>1, <1>2 DEF RelayState, Lease
  <2>3. state.run = r
    BY <1>1 DEF RelayState
  <2> HIDE DEF state
  <2>4. CASE relay' = [relay EXCEPT ![p] = state]
    BY <1>1, <2>2, <2>3, <2>4, RelayMoves
  <2>5. CASE GoTo(p, "withdraw")
    BY <1>1, <1>2, <2>5, GoToTyped
  <2> QED
    BY <2>1, <2>4, <2>5
<1> QED
  BY <1>3, <1>4, <1>5 DEF acknowledge_dispatch, TypeOK, DatabaseTyped, ChildTyped

LEMMA ActivateTyped ==
    ASSUME TypeOK, NEW p \in Replicas, activate(p)
    PROVE  TypeOK'
<1> DEFINE r == relay[p].run
           l == relay[p].lease
           c == [NoChild EXCEPT !.phase = "queued", !.lease = l, !.expected = l.seq]
<1>1. relay[p].step # "idle" /\ r \in Runs /\ l \in Lease /\ resv[p][r] \in Reservation
  BY DEF activate, TypeOK, RelayTyped, RelayState
<1>2. RelayTyped'
  BY <1>1, GoToTyped, GoIdleTyped DEF activate, RelayStep
<1>3. resv' \in [Replicas -> [Runs -> Reservation]]
  <2> DEFINE v == [resv[p][r] EXCEPT !.active = TRUE]
  <2>1. v \in Reservation /\ NoReservation \in Reservation
    BY <1>1 DEF Reservation, NoReservation, NoLease, Lease
  <2>2. \/ resv' = [resv EXCEPT ![p][r] = v]
        \/ resv' = [resv EXCEPT ![p][r] = NoReservation]
        \/ UNCHANGED resv
    BY DEF activate
  <2> HIDE DEF v
  <2> QED
    BY <1>1, <2>1, <2>2 DEF TypeOK
<1>4. ChildTyped'
  <2>1. c = [NoChild EXCEPT !.phase = "queued", !.lease = l, !.expected = l.seq]
    OBVIOUS
  <2>2. c \in ChildState /\ c.phase = "queued"
    BY <1>1 DEF NoChild, ChildState, ChildPhase, LivePhase, Lease, NoLease
  <2>3. SetChild(p, r, c) \/ UNCHANGED child
    BY DEF activate, SetChild
  <2> HIDE DEF c
  <2>4. CASE SetChild(p, r, c)
    BY <1>1, <2>2, <2>4, SetChildTyped
  <2>5. CASE UNCHANGED child
    BY <2>5 DEF TypeOK, ChildTyped
  <2> QED
    BY <2>3, <2>4, <2>5
<1> QED
  BY <1>2, <1>3, <1>4, DatabaseStays DEF activate, TypeOK

LEMMA RelayFailsTyped ==
    ASSUME TypeOK, NEW p \in Replicas, fail_activation(p) \/ reject_dispatch(p)
    PROVE  TypeOK'
<1> DEFINE r == relay[p].run
           l == relay[p].lease
<1>1. r \in Runs /\ dispatch[r] \in Outbox /\ l.seq \in Nat /\ l.fencing \in Nat
  BY DEF fail_activation, reject_dispatch, TypeOK, RelayTyped, DatabaseTyped, RelayState, Lease
<1>2. PICK settled \in {dispatch[r], Delivered(dispatch[r])}, guard \in BOOLEAN :
        RelayFails(p, r, guard, settled)
  BY DEF fail_activation, reject_dispatch
<1>3. settled \in Outbox
  BY <1>1, OutboxTyped
<1>4. RelayTyped'
  BY <1>2, GoIdleTyped DEF RelayFails
<1>5. faults' \in Nat
  BY <1>2, FaultTyped DEF RelayFails, TypeOK
<1>6. DatabaseTyped'
  <2>1. \/ UNCHANGED database
        \/ /\ WriteTerminal(r, "failed", l.seq, "agent_runtime_unavailable", l.fencing)
           /\ lease' = release_lease
           /\ dispatch' = [dispatch EXCEPT ![r] = settled]
           /\ UNCHANGED cancel
    BY <1>2 DEF RelayFails
  <2>2. CASE UNCHANGED database
    BY <2>2, DatabaseStays
  <2>3. CASE ~UNCHANGED database
    <3>1. dispatch' \in [Runs -> Outbox] /\ cancel' \in [Runs -> Outbox]
      BY <1>1, <1>3, <2>1, <2>3 DEF TypeOK, DatabaseTyped
    <3>2. "failed" \in TerminalStatus /\ "agent_runtime_unavailable" \in ErrorCode
      BY DEF TerminalStatus, ErrorCode, UnstartedCode
    <3> QED
      BY <1>1, <2>1, <2>3, <3>1, <3>2, FinishTyped
  <2> QED
    BY <2>2, <2>3
<1> QED
  BY <1>2, <1>4, <1>5, <1>6 DEF RelayFails, TypeOK, ChildTyped

LEMMA RetryTyped ==
    ASSUME TypeOK, NEW p \in Replicas, retry_dispatch(p)
    PROVE  TypeOK'
<1> DEFINE r == relay[p].run
           row == [PendingRow EXCEPT !.attempt = relay[p].attempt]
<1>1. r \in Runs /\ relay[p].attempt \in Nat
  BY DEF retry_dispatch, TypeOK, RelayTyped, RelayState
<1>2. row \in Outbox
  BY <1>1, PendingTyped
<1>3. dispatch' = [dispatch EXCEPT ![r] = row] \/ UNCHANGED dispatch
  BY DEF retry_dispatch
<1> HIDE DEF row
<1>4. dispatch' \in [Runs -> Outbox]
  BY <1>1, <1>2, <1>3 DEF TypeOK, DatabaseTyped
<1>5. RelayTyped'
  BY GoIdleTyped DEF retry_dispatch
<1>6. faults' \in Nat
  BY FaultTyped DEF retry_dispatch, TypeOK
<1> QED
  BY <1>4, <1>5, <1>6 DEF retry_dispatch, TypeOK, DatabaseTyped, ChildTyped

\* The recovery.
LEMMA RecoverTyped ==
    ASSUME TypeOK, NEW p \in Replicas, NEW r \in Runs, recover_one_stale_run(p, r)
    PROVE  TypeOK'
<1>1. lease \in LeaseRow /\ lease.fencing \in Nat /\ run[r].next \in Nat
  BY DEF TypeOK, DatabaseTyped, LeaseRow, RunRow
<1>2. RecoveryToken \in Nat /\ RecoveryOwner(p) \in Replicas \cup {NoReplica}
  BY <1>1 DEF RecoveryToken, RecoveryOwner, LeaseRow
<1>3. RecoveryStatus(r) \in TerminalStatus /\ RecoveryCode(r) \in ErrorCode
  BY DEF RecoveryStatus, RecoveryCode, TerminalStatus, ErrorCode, UnstartedCode
<1>4. lease' \in LeaseRow
  BY <1>2 DEF recover_one_stale_run, LeaseRow
<1>5. /\ events' \in [Runs -> SUBSET Event]
      /\ thread' \in ThreadRow
      /\ run' \in [Runs -> RunRow]
      /\ assistant' \in [Runs -> {"none", "complete", "incomplete"}]
  BY <1>1, <1>2, <1>3, TerminalTyped DEF recover_one_stale_run
<1> QED
  BY <1>4, <1>5
  DEF recover_one_stale_run, TypeOK, DatabaseTyped, RelayTyped, ChildTyped, process

\* The child.
LEMMA AppendChunkTyped ==
    ASSUME TypeOK, NEW p \in Replicas, NEW r \in Runs, NEW k \in ChunkKind \cup CheckpointKind,
           NEW received \in ChildState, NEW failed \in ChildState,
           received.phase = "closing" => received.goal \in TerminalStatus,
           failed.phase = "closing" => failed.goal \in TerminalStatus,
           AppendChunk(p, r, k, received, failed),
           UNCHANGED <<lease, assistant, dispatch, cancel, replica, relay, resv>>
    PROVE  TypeOK'
<1> DEFINE c == child[p][r]
<1>1. c.expected \in Nat /\ c.lease.fencing \in Nat
  BY DEF TypeOK, ChildTyped, ChildState, Lease
<1>2. ChildTyped'
  BY SetChildTyped DEF AppendChunk
<1>3. faults' \in Nat
  BY FaultTyped DEF AppendChunk, TypeOK
<1>4. run' \in [Runs -> RunRow] /\ events' \in [Runs -> SUBSET Event] /\ thread' \in ThreadRow
  <2>1. CASE UNCHANGED <<run, events, thread>>
    BY <2>1 DEF TypeOK, DatabaseTyped
  <2>2. CASE /\ InsertEvent(r, c.expected, k, c.lease.fencing)
             /\ AdvanceThread
             /\ run' = [run EXCEPT ![r].next = c.expected + 1]
    <3> DEFINE row == [run[r] EXCEPT !.next = c.expected + 1]
    <3>1. run[r] \in RunRow /\ c.expected + 1 \in Nat
      BY <1>1 DEF TypeOK, DatabaseTyped
    <3>2. row \in RunRow
      BY <3>1 DEF RunRow
    <3>3. run' = [run EXCEPT ![r] = row]
      BY <2>2
    <3> HIDE DEF row
    <3>4. run' \in [Runs -> RunRow]
      BY <3>2, <3>3 DEF TypeOK, DatabaseTyped
    <3> QED
      BY <1>1, <2>2, <3>4, AppendTyped
  <2> QED
    BY <2>1, <2>2 DEF AppendChunk
<1> QED
  BY <1>2, <1>3, <1>4 DEF TypeOK, DatabaseTyped, RelayTyped

LEMMA ChildWritesTyped ==
    ASSUME TypeOK, NEW p \in Replicas, NEW r \in Runs,
           \/ \E k \in ChunkKind : append_semantic_chunk(p, r, k)
           \/ \E k \in CheckpointKind : append_checkpoint(p, r, k)
           \/ flush(p, r)
    PROVE  TypeOK'
<1> DEFINE c == child[p][r]
<1>1. /\ c \in ChildState /\ c.expected + 1 \in Nat
      /\ c.phase = "closing" => c.goal \in TerminalStatus
  BY DEF TypeOK, ChildTyped, ChildState
<1>2. ASSUME NEW k \in ChunkKind, append_semantic_chunk(p, r, k)
      PROVE  TypeOK'
  <2> DEFINE received == [c EXCEPT !.expected = @ + 1]
             failed == [c EXCEPT !.phase = "closing", !.pending = k,
                                 !.goal = "reconciliation_required"]
  <2>1. received \in ChildState /\ received.phase = c.phase /\ received.goal = c.goal
    BY <1>1 DEF ChildState
  <2>2. failed \in ChildState /\ failed.goal = "reconciliation_required"
    BY <1>1 DEF ChildState, ChildPhase, LivePhase, TerminalStatus
  <2>3. /\ AppendChunk(p, r, k, received, failed)
        /\ UNCHANGED <<lease, assistant, dispatch, cancel, replica, relay, resv>>
    BY <1>2 DEF append_semantic_chunk
  <2> HIDE DEF received, failed
  <2> QED
    BY <1>1, <2>1, <2>2, <2>3, AppendChunkTyped DEF TerminalStatus
<1>3. ASSUME NEW k \in CheckpointKind, append_checkpoint(p, r, k)
      PROVE  TypeOK'
  <2> DEFINE received == [c EXCEPT !.expected = @ + 1]
             failed == [c EXCEPT !.phase = "closing", !.goal = "reconciliation_required"]
  <2>1. received \in ChildState /\ received.phase = c.phase /\ received.goal = c.goal
    BY <1>1 DEF ChildState
  <2>2. failed \in ChildState /\ failed.goal = "reconciliation_required"
    BY <1>1 DEF ChildState, ChildPhase, LivePhase, TerminalStatus
  <2>3. /\ AppendChunk(p, r, k, received, failed)
        /\ UNCHANGED <<lease, assistant, dispatch, cancel, replica, relay, resv>>
    BY <1>3 DEF append_checkpoint
  <2> HIDE DEF received, failed
  <2> QED
    BY <1>1, <2>1, <2>2, <2>3, AppendChunkTyped DEF TerminalStatus
<1>4. ASSUME flush(p, r)
      PROVE  TypeOK'
  <2> DEFINE received == [c EXCEPT !.expected = @ + 1, !.pending = "none"]
  <2>1. received \in ChildState /\ received.phase = c.phase /\ received.goal = c.goal
    BY <1>1 DEF ChildState
  <2>2. Ended(c) \in ChildState /\ Ended(c).phase # "closing"
    BY <1>1, ChildUpdates
  <2>3. c.pending \in ChunkKind
    BY <1>1, <1>4 DEF flush, ChildState
  <2>4. /\ AppendChunk(p, r, c.pending, received, Ended(c))
        /\ UNCHANGED <<lease, assistant, dispatch, cancel, replica, relay, resv>>
    BY <1>4 DEF flush
  <2> HIDE DEF received
  <2> QED
    BY <1>1, <2>1, <2>2, <2>3, <2>4, AppendChunkTyped
<1> QED
  BY <1>2, <1>3, <1>4

LEMMA FinishRunTyped ==
    ASSUME TypeOK, NEW p \in Replicas, NEW r \in Runs, finish_run(p, r)
    PROVE  TypeOK'
<1> DEFINE c == child[p][r]
           code == IF c.goal \in {"failed", "reconciliation_required"} THEN "agent" ELSE "none"
<1>1. c \in ChildState /\ c.goal \in TerminalStatus
  BY DEF finish_run, Executing, TypeOK, ChildTyped
<1>2. c.expected \in Nat /\ c.lease.fencing \in Nat /\ code \in ErrorCode
  BY <1>1 DEF ChildState, Lease, ErrorCode
<1>3. ChildTyped'
  BY <1>1, ChildUpdates, SetChildTyped DEF finish_run
<1>4. faults' \in Nat
  BY FaultTyped DEF finish_run, TypeOK
<1>5. DatabaseTyped'
  <2>1. \/ UNCHANGED database
        \/ /\ WriteTerminal(r, c.goal, c.expected, code, c.lease.fencing)
           /\ lease' = release_lease
           /\ UNCHANGED <<dispatch, cancel>>
    BY DEF finish_run
  <2>2. CASE UNCHANGED database
    BY <2>2, DatabaseStays
  <2>3. CASE ~UNCHANGED database
    <3>1. dispatch' \in [Runs -> Outbox] /\ cancel' \in [Runs -> Outbox]
      BY <2>1, <2>3 DEF TypeOK, DatabaseTyped
    <3> QED
      BY <1>1, <1>2, <2>1, <2>3, <3>1, FinishTyped
  <2> QED
    BY <2>2, <2>3
<1> QED
  BY <1>3, <1>4, <1>5 DEF finish_run, TypeOK, RelayTyped

LEMMA ChildMovesTyped ==
    ASSUME TypeOK, NEW p \in Replicas, NEW r \in Runs,
           \/ execute_activation(p, r)
           \/ \E goal \in TerminalStatus, pending \in {"none", "text"} :
                close_run(p, r, goal, pending)
           \/ lease_lost(p, r)
           \/ abandon(p, r)
           \/ cleanup(p, r)
    PROVE  TypeOK'
<1> DEFINE c == child[p][r]
<1>1. c \in ChildState
  BY DEF TypeOK, ChildTyped
<1>2. faults' \in Nat
  BY FaultTyped DEF execute_activation, close_run, lease_lost, abandon, cleanup, TypeOK
<1>3. resv' \in [Replicas -> [Runs -> Reservation]]
  <2>1. NoReservation \in Reservation /\ resv[p][r] \in Reservation
    BY DEF NoReservation, Reservation, NoLease, Lease, TypeOK
  <2>2. \/ UNCHANGED resv
        \/ resv' = [resv EXCEPT ![p][r] = NoReservation]
        \/ resv' = [resv EXCEPT ![p][r] = resv[p][r]]
    BY DEF execute_activation, close_run, lease_lost, abandon, cleanup
  <2> QED
    BY <2>1, <2>2, ReserveTyped DEF TypeOK
<1>4. ChildTyped'
  <2>1. ASSUME NEW goal \in TerminalStatus, NEW pending \in {"none", "text"},
               close_run(p, r, goal, pending)
        PROVE  ChildTyped'
    <3> DEFINE d == [c EXCEPT !.phase = "closing", !.goal = goal, !.pending = pending]
    <3>1. d \in ChildState /\ d.goal = goal
      BY <1>1 DEF ChildState, ChildPhase, LivePhase, ChunkKind
    <3>2. SetChild(p, r, d)
      BY <2>1 DEF close_run
    <3> HIDE DEF d
    <3> QED
      BY <3>1, <3>2, SetChildTyped
  <2>2. ASSUME lease_lost(p, r)
        PROVE  ChildTyped'
    <3> DEFINE d == [c EXCEPT !.phase = "closing", !.goal = "reconciliation_required"]
    <3>1. d \in ChildState /\ d.goal \in TerminalStatus
      BY <1>1 DEF ChildState, ChildPhase, LivePhase, TerminalStatus
    <3>2. SetChild(p, r, d)
      BY <2>2 DEF lease_lost
    <3> HIDE DEF d
    <3> QED
      BY <3>1, <3>2, SetChildTyped
  <2>3. ASSUME execute_activation(p, r) \/ abandon(p, r) \/ cleanup(p, r)
        PROVE  ChildTyped'
    BY <1>1, <2>3, ChildUpdates, SetChildTyped DEF execute_activation, abandon, cleanup
  <2> QED
    BY <2>1, <2>2, <2>3
<1>5. UNCHANGED <<database, replica, relay>>
  BY DEF execute_activation, close_run, lease_lost, abandon, cleanup
<1> QED
  BY <1>2, <1>3, <1>4, <1>5, DatabaseStays DEF TypeOK, RelayTyped

\* Timers, stops and crashes.
LEMMA TimerTyped ==
    ASSUME TypeOK, Timer
    PROVE  TypeOK'
<1>1. ASSUME lease_expires
      PROVE  TypeOK'
  <2>1. lease' \in LeaseRow
    BY <1>1 DEF lease_expires, TypeOK, DatabaseTyped, LeaseRow
  <2>2. faults' \in Nat
    BY <1>1, FaultTyped DEF lease_expires, TypeOK
  <2> QED
    BY <1>1, <2>1, <2>2
    DEF lease_expires, TypeOK, DatabaseTyped, RelayTyped, ChildTyped, process
<1>2. ASSUME NEW r \in Runs, dispatch_claim_expires(r) \/ cancel_claim_expires(r)
      PROVE  TypeOK'
  <2>1. dispatch[r] \in Outbox /\ cancel[r] \in Outbox
    BY DEF TypeOK, DatabaseTyped
  <2>2. /\ [dispatch[r] EXCEPT !.live = FALSE] \in Outbox
        /\ [cancel[r] EXCEPT !.live = FALSE] \in Outbox
    BY <2>1 DEF Outbox
  <2>3. dispatch' \in [Runs -> Outbox] /\ cancel' \in [Runs -> Outbox]
    BY <1>2, <2>2 DEF dispatch_claim_expires, cancel_claim_expires, TypeOK, DatabaseTyped
  <2> QED
    BY <1>2, <2>3
    DEF dispatch_claim_expires, cancel_claim_expires, TypeOK, DatabaseTyped, RelayTyped,
        ChildTyped, process
<1> QED
  BY <1>1, <1>2 DEF Timer

LEMMA LifeTyped ==
    ASSUME TypeOK, NEW p \in Replicas, Life(p)
    PROVE  TypeOK'
<1>1. UNCHANGED database /\ DatabaseTyped'
  BY DatabaseStays DEF Life, stop, stop_deadline, crash
<1>2. replica' \in [Replicas -> {"up", "stopping", "stopped", "down"}]
  BY DEF Life, stop, stop_deadline, crash, TypeOK
<1>3. faults' \in Nat
  BY DEF Life, stop, stop_deadline, crash, Fault, TypeOK
<1>4. RelayTyped'
  <2>1. GoIdle(p) \/ UNCHANGED relay
    BY DEF Life, stop, stop_deadline, crash, GoIdle
  <2> QED
    BY <2>1, GoIdleTyped DEF TypeOK, RelayTyped
<1>5. resv' \in [Replicas -> [Runs -> Reservation]]
  <2>1. NoReservation \in Reservation
    BY DEF NoReservation, Reservation, NoLease, Lease
  <2> QED
    BY <2>1 DEF Life, stop, stop_deadline, crash, TypeOK
<1>6. ChildTyped'
  <2>1. \A r \in Runs : /\ child[p][r] \in ChildState
                        /\ child[p][r].phase = "closing" => child[p][r].goal \in TerminalStatus
    BY DEF TypeOK, ChildTyped
  <2>2. ASSUME stop_deadline(p) \/ crash(p)
        PROVE  ChildTyped'
    <3> DEFINE f == [r \in Runs |-> Over(child[p][r])]
    <3>1. f \in [Runs -> ChildState] /\ \A r \in Runs : f[r].phase # "closing"
      BY <2>1, ChildUpdates
    <3>2. child' = [child EXCEPT ![p] = f]
      BY <2>2 DEF stop_deadline, crash
    <3> HIDE DEF f
    <3> QED
      BY <3>1, <3>2, SetChildrenTyped
  <2>3. ASSUME stop(p)
        PROVE  ChildTyped'
    <3> DEFINE f == [r \in Runs |-> IF resv[p][r].held /\ child[p][r].phase \in LivePhase
                                    THEN [child[p][r] EXCEPT !.cancelled = TRUE]
                                    ELSE child[p][r]]
    <3>1. ASSUME NEW r \in Runs
          PROVE  /\ f[r] \in ChildState
                 /\ f[r].phase = child[p][r].phase
                 /\ f[r].goal = child[p][r].goal
      <4>1. f[r] = child[p][r] \/ f[r] = [child[p][r] EXCEPT !.cancelled = TRUE]
        OBVIOUS
      <4> HIDE DEF f
      <4> QED
        BY <2>1, <4>1, ChildUpdates
    <3>2. f \in [Runs -> ChildState]
      BY <3>1
    <3>3. child' = [child EXCEPT ![p] = f]
      BY <2>3 DEF stop
    <3> HIDE DEF f
    <3>4. \A r \in Runs : f[r].phase = "closing" => f[r].goal \in TerminalStatus
      BY <2>1, <3>1
    <3> QED
      BY <3>2, <3>3, <3>4, SetChildrenTyped
  <2> QED
    BY <2>2, <2>3 DEF Life
<1> QED
  BY <1>1, <1>2, <1>3, <1>4, <1>5, <1>6 DEF TypeOK

LEMMA TypedStep ==
    ASSUME TypeOK, [Next]_vars
    PROVE  TypeOK'
<1>1. ASSUME NEW r \in Runs, Request(r)
      PROVE  TypeOK'
  BY <1>1, RequestTyped
<1>2. ASSUME CloseHistory
      PROVE  TypeOK'
  <2>1. thread' \in ThreadRow
    BY <1>2 DEF CloseHistory, TypeOK, DatabaseTyped, ThreadRow
  <2> QED
    BY <1>2, <2>1
    DEF CloseHistory, TypeOK, DatabaseTyped, RelayTyped, ChildTyped, process
<1>3. ASSUME NEW p \in Replicas, Relay(p)
      PROVE  TypeOK'
  BY <1>3, ClaimCancellationTyped, RecoverTyped, ClaimDispatchTyped, RevokeTyped,
     MarkSignalledTyped, FinishUnstartedTyped, OfferTyped, AcknowledgeTyped,
     ActivateTyped, RelayFailsTyped, RetryTyped
  DEF Relay
<1>4. ASSUME NEW p \in Replicas, Life(p)
      PROVE  TypeOK'
  BY <1>4, LifeTyped
<1>5. ASSUME NEW p \in Replicas, NEW r \in Runs, Child(p, r)
      PROVE  TypeOK'
  BY <1>5, ChildMovesTyped, ChildWritesTyped, FinishRunTyped DEF Child
<1>6. ASSUME Timer
      PROVE  TypeOK'
  BY <1>6, TimerTyped
<1>7. ASSUME UNCHANGED vars
      PROVE  TypeOK'
  BY <1>7 DEF vars, database, process, TypeOK, DatabaseTyped, RelayTyped, ChildTyped
<1> QED
  BY <1>1, <1>2, <1>3, <1>4, <1>5, <1>6, <1>7 DEF Next

\* Every row, record and map of the runtime keeps its shape: a relay never acts
\* for no run, and a child never closes without a terminal to write.
THEOREM Typing == Spec => []TypeOK
<1>1. TypeOK /\ [Next]_vars => TypeOK'
  BY TypedStep
<1> QED
  BY TypedInitially, <1>1, PTL DEF Spec

-----------------------------------------------------------------------------
(* RunRuntime implements RunLedger. *)

Promise ==
    INSTANCE RunLedgerProofs WITH
        holder  <- lease.owner,
        token   <- lease.fencing,
        clock   <- thread.next,
        status  <- [r \in Runs |-> run[r].status],
        epoch   <- [r \in Runs |-> run[r].fencing],
        length  <- [r \in Runs |-> run[r].next],
        journal <- events

\* The first state of the runtime is the first state of the ledger.
LEMMA ImplementsInit == Init => Ledger!LedgerInit
  BY RuntimeAssumption DEF Init, Ledger!LedgerInit

\* A terminal, written under the token that is current afterwards, is the
\* ledger's Finish.
LEMMA ImplementsFinish ==
    ASSUME TypeOK, NEW r \in Runs, NEW k \in TerminalStatus, NEW code, NEW t \in Nat,
           run[r].status = "running",
           WriteTerminal(r, k, run[r].next, code, t),
           lease'.fencing = t,
           \/ lease'.owner = lease.owner /\ t = lease.fencing
           \/ lease'.owner \in Replicas /\ t = lease.fencing + 1
    PROVE  Ledger!LedgerNext
<1>1. run \in [Runs -> RunRow] /\ thread \in ThreadRow /\ events \in [Runs -> SUBSET Event]
  BY DEF TypeOK, DatabaseTyped
<1>2. run' = [run EXCEPT ![r] = TerminalRow(k, run[r].next, code, t)]
  BY DEF WriteTerminal
<1>3. \A q \in Runs :
        /\ run'[q].status = IF q = r THEN k ELSE run[q].status
        /\ run'[q].fencing = IF q = r THEN t ELSE run[q].fencing
        /\ run'[q].next = IF q = r THEN run[r].next + 1 ELSE run[q].next
  BY <1>1, <1>2 DEF TerminalRow
<1>4. thread'.next = thread.next + 1
  BY <1>1, AdvanceTyped DEF WriteTerminal
<1>5. Scrub(events[r]) = Ledger!Sealed(events[r])
  BY DEF Scrub, Ledger!Sealed, Ledger!SealedEntry
<1>6. events' = [events EXCEPT ![r] = Ledger!Sealed(events[r]) \cup
                   {[seq |-> run[r].next, at |-> thread.next, kind |-> k, by |-> t]}]
  BY <1>5 DEF WriteTerminal
<1>7. Ledger!Finish(r, k)
  BY <1>3, <1>4, <1>6 DEF Ledger!Finish, Ledger!Write, Ledger!Fence
<1> QED
  BY <1>7 DEF Ledger!LedgerNext, Ledger!Final, TerminalStatus

\* A chunk that passed the checks of append_chunk is the ledger's Append.
LEMMA ImplementsAppend ==
    ASSUME TypeOK, NEW p \in Replicas, NEW r \in Runs, NEW k \in ChunkKind \cup CheckpointKind,
           NEW l \in Lease, NEW expected \in Nat, NEW early \in BOOLEAN,
           CanAppend(p, r, l, expected, early),
           InsertEvent(r, expected, k, l.fencing), AdvanceThread,
           run' = [run EXCEPT ![r].next = expected + 1], UNCHANGED lease
    PROVE  Ledger!LedgerNext
<1>1. run \in [Runs -> RunRow] /\ thread \in ThreadRow
  BY DEF TypeOK, DatabaseTyped
<1>2. /\ run[r].status = "running"
      /\ run[r].next = expected
      /\ run[r].fencing = lease.fencing
      /\ l.fencing = lease.fencing
  BY DEF CanAppend, validate_lease_identity, validate_active_lease
<1>3. \A q \in Runs :
        /\ run'[q].status = run[q].status
        /\ run'[q].fencing = run[q].fencing
        /\ run'[q].next = IF q = r THEN run[r].next + 1 ELSE run[q].next
  BY <1>1, <1>2 DEF RunRow
<1>4. thread'.next = thread.next + 1
  BY <1>1, AdvanceTyped
<1>5. events' = [events EXCEPT ![r] = events[r] \cup
                   {[seq |-> run[r].next, at |-> thread.next, kind |-> k,
                     by |-> lease'.fencing]}]
  BY <1>2 DEF InsertEvent
<1>6. Ledger!Append(r, k)
  BY <1>2, <1>3, <1>4, <1>5 DEF Ledger!Append, Ledger!Write
<1> QED
  BY <1>6 DEF Ledger!LedgerNext, Ledger!Content, ChunkKind, CheckpointKind

\* apply_begin is the ledger's Begin: a run without a row has written nothing.
LEMMA ImplementsBegin ==
    ASSUME TypeOK, NEW p \in Replicas, NEW r \in Runs, BeginRun(p, r), run[r].next = 0
    PROVE  Ledger!LedgerNext
<1>1. run \in [Runs -> RunRow] /\ thread \in ThreadRow
  BY DEF TypeOK, DatabaseTyped
<1>2. run' = [run EXCEPT ![r] = [status |-> "running", fencing |-> lease'.fencing,
                                 next |-> 1, code |-> "none"]]
  BY DEF BeginRun
<1>3. \A q \in Runs :
        /\ run'[q].status = IF q = r THEN "running" ELSE run[q].status
        /\ run'[q].fencing = IF q = r THEN lease'.fencing ELSE run[q].fencing
        /\ run'[q].next = IF q = r THEN run[r].next + 1 ELSE run[q].next
  BY <1>1, <1>2
<1>4. thread'.next = thread.next + 1
  BY <1>1, AdvanceTyped DEF BeginRun
<1>5. \/ lease'.owner = lease.owner /\ lease'.fencing = lease.fencing
      \/ lease'.owner = p /\ lease'.fencing = lease.fencing + 1
  <2>1. PICK early \in BOOLEAN : acquire_lease(p, early)
    BY DEF BeginRun
  <2>2. /\ [lease EXCEPT !.live = TRUE].owner = lease.owner
        /\ [lease EXCEPT !.live = TRUE].fencing = lease.fencing
    BY LeaseTyped
  <2>3. CASE lease' = [lease EXCEPT !.live = TRUE]
    BY <2>2, <2>3
  <2>4. CASE lease' = [owner |-> p, fencing |-> lease.fencing + 1, live |-> TRUE]
    BY <2>4
  <2> QED
    BY <2>1, <2>3, <2>4 DEF acquire_lease
<1>6. events' = [events EXCEPT ![r] = events[r] \cup
                   {[seq |-> run[r].next, at |-> thread.next, kind |-> "started",
                     by |-> lease'.fencing]}]
  BY DEF BeginRun, InsertEvent
<1>7. run[r].status = "absent" /\ \A q \in Runs : run[q].status \notin Ledger!Foreground
  BY DEF BeginRun, blocks_foreground_slot, Ledger!Foreground
<1>8. Ledger!Begin(r)
  BY <1>3, <1>4, <1>5, <1>6, <1>7 DEF Ledger!Begin, Ledger!Write, Ledger!Fence
<1> QED
  BY <1>8 DEF Ledger!LedgerNext

\* A claim takes the run over under the next token, or changes nothing that a
\* reader of the ledger sees: the renewed lease keeps its token.
LEMMA ImplementsClaim ==
    ASSUME TypeOK, NEW p \in Replicas, NEW r \in Runs, NEW early \in BOOLEAN,
           run[r].status = "running", run[r].fencing = lease.fencing,
           LeaseReachable(p, early), ClaimLease(p, r, early),
           UNCHANGED <<thread, events>>
    PROVE  Ledger!LedgerNext \/ UNCHANGED Ledger!ledger
<1> DEFINE t == ClaimToken(early)
<1>1. run \in [Runs -> RunRow] /\ lease.fencing \in Nat
  BY DEF TypeOK, DatabaseTyped, LeaseRow
<1>2. \A q \in Runs :
        /\ run'[q].status = run[q].status
        /\ run'[q].next = run[q].next
        /\ run'[q].fencing = IF q = r THEN t ELSE run[q].fencing
  BY <1>1 DEF ClaimLease, RunRow
<1>3. lease'.owner = p /\ lease'.fencing = t
  BY DEF ClaimLease
<1>4. CASE Alive(early)
  <2>1. t = lease.fencing /\ lease.owner = p
    BY <1>4 DEF ClaimToken, LeaseReachable
  <2> QED
    BY <1>2, <1>3, <2>1 DEF Ledger!ledger
<1>5. CASE ~Alive(early)
  <2>1. t = lease.fencing + 1
    BY <1>5 DEF ClaimToken
  <2>2. Ledger!Takeover(p, r)
    BY <1>2, <1>3, <2>1 DEF Ledger!Takeover, Ledger!Fence
  <2> QED
    BY <2>2 DEF Ledger!LedgerNext
<1> QED
  BY <1>4, <1>5

\* The checks that precede a terminal bind the writer to the current token.
LEMMA FinishIsCurrent ==
    ASSUME TypeOK, NEW p \in Replicas, NEW r \in Runs, NEW l \in Lease,
           NEW expected \in Nat, NEW early \in BOOLEAN, NEW k \in TerminalStatus, NEW code,
           CanFinish(p, r, l, expected, early),
           WriteTerminal(r, k, expected, code, l.fencing), lease' = release_lease
    PROVE  Ledger!LedgerNext
<1>1. /\ run[r].status = "running"
      /\ run[r].next = expected
      /\ l.fencing = lease.fencing
  BY DEF CanFinish, validate_lease_identity, validate_active_lease
<1>2. lease'.owner = lease.owner /\ lease'.fencing = lease.fencing /\ lease.fencing \in Nat
  BY LeaseTyped DEF release_lease
<1> QED
  BY <1>1, <1>2, ImplementsFinish

\* Steps of a handler that write no journal leave the ledger alone.
Hidden == UNCHANGED <<lease, thread, run, events>>

LEMMA HiddenStutters == Hidden => UNCHANGED Ledger!ledger
  BY DEF Hidden, Ledger!ledger

\* A run without a row has written nothing and has no outbox rows.
Unbegun ==
    \A r \in Runs : run[r].status = "absent" =>
        /\ run[r].next = 0
        /\ dispatch[r].status = "absent"
        /\ cancel[r].status = "absent"

\* What every step is to a reader of the ledger.
Refines == Ledger!LedgerNext \/ UNCHANGED Ledger!ledger

\* Both claims: only a begun run has a row to select, and a claimed one runs.
LEMMA ClaimRefines ==
    ASSUME TypeOK, Unbegun, NEW p \in Replicas, NEW r \in Runs,
           claim_cancellation(p, r) \/ claim_dispatch(p, r)
    PROVE  Refines
<1>1. UNCHANGED <<thread, events>>
  BY DEF claim_cancellation, claim_dispatch
<1>2. PICK early \in BOOLEAN :
        /\ LeaseReachable(p, early)
        /\ Selectable(p, cancel[r]) \/ Selectable(p, dispatch[r])
        /\ \/ UNCHANGED <<lease, run>>
           \/ ClaimVerdict(r, early) = "claimed" /\ ClaimLease(p, r, early)
  <2>1. CASE claim_cancellation(p, r)
    BY <2>1 DEF claim_cancellation, CancelClaimable
  <2>2. CASE claim_dispatch(p, r)
    BY <2>2 DEF claim_dispatch, DispatchClaimable, DispatchVerdict
  <2> QED
    BY <2>1, <2>2
<1>3. CASE UNCHANGED <<lease, run>>
  BY <1>1, <1>3, HiddenStutters DEF Hidden, Refines
<1>4. CASE ClaimVerdict(r, early) = "claimed" /\ ClaimLease(p, r, early)
  <2>1. run[r].fencing = lease.fencing /\ run[r].status \notin TerminalStatus
    BY <1>4 DEF ClaimVerdict, is_terminal_status
  <2>2. run[r].status # "absent"
    BY <1>2 DEF Selectable, Unbegun
  <2>3. run[r].status \in RunStatus
    BY DEF TypeOK, DatabaseTyped, RunRow
  <2>4. run[r].status = "running"
    BY <2>1, <2>2, <2>3 DEF RunStatus
  <2> QED
    BY <1>1, <1>2, <1>4, <2>1, <2>4, ImplementsClaim DEF Refines
<1> QED
  BY <1>2, <1>3, <1>4

\* The terminals a relay writes.
LEMMA RelayTerminalRefines ==
    ASSUME TypeOK, NEW p \in Replicas,
           finish_unstarted_cancellation(p) \/ fail_activation(p) \/ reject_dispatch(p)
    PROVE  Refines
<1> DEFINE r == relay[p].run
           l == relay[p].lease
<1>1. relay[p].step # "idle"
  BY DEF finish_unstarted_cancellation, fail_activation, reject_dispatch
<1>2. r \in Runs /\ l \in Lease /\ l.seq \in Nat
  BY <1>1 DEF TypeOK, RelayTyped, RelayState, Lease
<1>3. \/ UNCHANGED <<lease, thread, run, events>>
      \/ \E early \in BOOLEAN, k \in TerminalStatus, code \in ErrorCode :
            /\ CanFinish(p, r, l, l.seq, early)
            /\ WriteTerminal(r, k, l.seq, code, l.fencing)
            /\ lease' = release_lease
  <2>1. CASE finish_unstarted_cancellation(p)
    BY <2>1 DEF finish_unstarted_cancellation, TerminalStatus, ErrorCode, database
  <2>2. CASE fail_activation(p)
    BY <2>2 DEF fail_activation, RelayFails, TerminalStatus, ErrorCode, UnstartedCode,
       database
  <2>3. CASE reject_dispatch(p)
    BY <2>3 DEF reject_dispatch, RelayFails, TerminalStatus, ErrorCode, UnstartedCode,
       database
  <2> QED
    BY <2>1, <2>2, <2>3
<1>4. CASE UNCHANGED <<lease, thread, run, events>>
  BY <1>4, HiddenStutters DEF Hidden, Refines
<1>5. ASSUME NEW early \in BOOLEAN, NEW k \in TerminalStatus, NEW code \in ErrorCode,
             CanFinish(p, r, l, l.seq, early),
             WriteTerminal(r, k, l.seq, code, l.fencing),
             lease' = release_lease
      PROVE  Refines
  <2> HIDE DEF r, l
  <2> QED
    BY <1>2, <1>5, FinishIsCurrent DEF Refines
<1> QED
  BY <1>3, <1>4, <1>5

LEMMA RecoveryRefines ==
    ASSUME TypeOK, NEW p \in Replicas, NEW r \in Runs, recover_one_stale_run(p, r)
    PROVE  Refines
<1>1. lease.fencing \in Nat /\ MaxToken \in Nat
  BY RuntimeAssumption DEF TypeOK, DatabaseTyped, LeaseRow
<1>2. RecoveryStatus(r) \in TerminalStatus
  BY DEF RecoveryStatus, TerminalStatus
<1>3. run[r].status = "running"
  BY DEF recover_one_stale_run, Recoverable
<1>4. WriteTerminal(r, RecoveryStatus(r), run[r].next, RecoveryCode(r), RecoveryToken)
  BY DEF recover_one_stale_run
<1>5. lease'.owner = RecoveryOwner(p) /\ lease'.fencing = RecoveryToken
  BY DEF recover_one_stale_run
<1>6. RecoveryToken \in Nat
  BY <1>1 DEF RecoveryToken
<1>7. \/ lease'.owner = lease.owner /\ RecoveryToken = lease.fencing
      \/ lease'.owner \in Replicas /\ RecoveryToken = lease.fencing + 1
  BY <1>5 DEF RecoveryToken, RecoveryOwner
<1> QED
  BY <1>2, <1>3, <1>4, <1>5, <1>6, <1>7, ImplementsFinish DEF Refines

LEMMA RelayRefines ==
    ASSUME TypeOK, Unbegun, NEW p \in Replicas, Relay(p)
    PROVE  Refines
<1>1. ASSUME NEW r \in Runs, claim_cancellation(p, r) \/ claim_dispatch(p, r)
      PROVE  Refines
  BY <1>1, ClaimRefines
<1>2. ASSUME NEW r \in Runs, recover_one_stale_run(p, r)
      PROVE  Refines
  BY <1>2, RecoveryRefines
<1>3. CASE finish_unstarted_cancellation(p) \/ fail_activation(p) \/ reject_dispatch(p)
  BY <1>3, RelayTerminalRefines
<1>4. CASE \/ revoke(p) \/ mark_cancellation_signalled(p) \/ offer(p)
           \/ acknowledge_dispatch(p) \/ withdraw(p) \/ activate(p) \/ retry_dispatch(p)
  <2>1. Hidden
    BY <1>4 DEF Hidden, database, revoke, mark_cancellation_signalled, offer,
       acknowledge_dispatch, withdraw, activate, retry_dispatch
  <2> QED
    BY <2>1, HiddenStutters DEF Refines
<1> QED
  BY <1>1, <1>2, <1>3, <1>4 DEF Relay

LEMMA AppendChunkRefines ==
    ASSUME TypeOK, NEW p \in Replicas, NEW r \in Runs, NEW k \in ChunkKind \cup CheckpointKind,
           NEW received, NEW failed, AppendChunk(p, r, k, received, failed),
           UNCHANGED lease
    PROVE  Refines
<1> DEFINE c == child[p][r]
<1>1. c.lease \in Lease /\ c.expected \in Nat
  BY DEF TypeOK, ChildTyped, ChildState
<1>2. \/ UNCHANGED <<run, events, thread>>
      \/ \E early \in BOOLEAN :
            /\ CanAppend(p, r, c.lease, c.expected, early)
            /\ InsertEvent(r, c.expected, k, c.lease.fencing)
            /\ AdvanceThread
            /\ run' = [run EXCEPT ![r].next = c.expected + 1]
  BY DEF AppendChunk
<1>3. CASE UNCHANGED <<run, events, thread>>
  BY <1>3, HiddenStutters DEF Hidden, Refines
<1>4. ASSUME NEW early \in BOOLEAN,
             CanAppend(p, r, c.lease, c.expected, early),
             InsertEvent(r, c.expected, k, c.lease.fencing),
             AdvanceThread,
             run' = [run EXCEPT ![r].next = c.expected + 1]
      PROVE  Refines
  <2> HIDE DEF c
  <2> QED
    BY <1>1, <1>4, ImplementsAppend DEF Refines
<1> QED
  BY <1>2, <1>3, <1>4

LEMMA ChildRefines ==
    ASSUME TypeOK, NEW p \in Replicas, NEW r \in Runs, Child(p, r)
    PROVE  Refines
<1> DEFINE c == child[p][r]
<1>1. /\ c.lease \in Lease /\ c.expected \in Nat
      /\ c.pending \in {"none"} \cup ChunkKind
      /\ c.phase = "closing" => c.goal \in TerminalStatus
  BY DEF TypeOK, ChildTyped, ChildState
<1>2. ASSUME NEW k \in ChunkKind, append_semantic_chunk(p, r, k)
      PROVE  Refines
  <2> DEFINE received == [child[p][r] EXCEPT !.expected = @ + 1]
             failed == [child[p][r] EXCEPT !.phase = "closing", !.pending = k,
                                           !.goal = "reconciliation_required"]
  <2>1. AppendChunk(p, r, k, received, failed) /\ UNCHANGED lease
    BY <1>2 DEF append_semantic_chunk
  <2> HIDE DEF received, failed
  <2> QED
    BY <2>1, AppendChunkRefines
<1>3. ASSUME NEW k \in CheckpointKind, append_checkpoint(p, r, k)
      PROVE  Refines
  <2> DEFINE received == [child[p][r] EXCEPT !.expected = @ + 1]
             failed == [child[p][r] EXCEPT !.phase = "closing",
                                           !.goal = "reconciliation_required"]
  <2>1. AppendChunk(p, r, k, received, failed) /\ UNCHANGED lease
    BY <1>3 DEF append_checkpoint
  <2> HIDE DEF received, failed
  <2> QED
    BY <2>1, AppendChunkRefines
<1>4. CASE flush(p, r)
  <2> DEFINE k == child[p][r].pending
             received == [child[p][r] EXCEPT !.expected = @ + 1, !.pending = "none"]
             failed == Ended(child[p][r])
  <2>1. AppendChunk(p, r, k, received, failed) /\ UNCHANGED lease /\ k # "none"
    BY <1>4 DEF flush
  <2>2. k \in ChunkKind
    BY <1>1, <2>1
  <2> HIDE DEF k, received, failed
  <2> QED
    BY <2>1, <2>2, AppendChunkRefines
<1>5. CASE finish_run(p, r)
  <2>1. c.goal \in TerminalStatus
    BY <1>1, <1>5 DEF finish_run, Executing
  <2>2. \/ UNCHANGED database
        \/ \E early \in BOOLEAN, code \in ErrorCode :
              /\ CanFinish(p, r, c.lease, c.expected, early)
              /\ WriteTerminal(r, c.goal, c.expected, code, c.lease.fencing)
              /\ lease' = release_lease
    BY <1>5 DEF finish_run, ErrorCode
  <2>3. CASE UNCHANGED database
    BY <2>3, HiddenStutters DEF database, Hidden, Refines
  <2>4. ASSUME NEW early \in BOOLEAN, NEW code \in ErrorCode,
               CanFinish(p, r, c.lease, c.expected, early),
               WriteTerminal(r, c.goal, c.expected, code, c.lease.fencing),
               lease' = release_lease
        PROVE  Refines
    <3> HIDE DEF c
    <3> QED
      BY <1>1, <2>1, <2>4, FinishIsCurrent DEF Refines
  <2> QED
    BY <2>2, <2>3, <2>4
<1>6. CASE \/ execute_activation(p, r) \/ lease_lost(p, r) \/ abandon(p, r) \/ cleanup(p, r)
           \/ \E goal \in TerminalStatus, pending \in {"none", "text"} :
                close_run(p, r, goal, pending)
  <2>1. Hidden
    BY <1>6 DEF Hidden, database, execute_activation, lease_lost, abandon, cleanup, close_run
  <2> QED
    BY <2>1, HiddenStutters DEF Refines
<1> QED
  BY <1>2, <1>3, <1>4, <1>5, <1>6 DEF Child

\* Every step of the runtime is a step of the ledger or invisible in it.
LEMMA StepRefines ==
    ASSUME TypeOK, Unbegun, [Next]_vars
    PROVE  Refines
<1>1. ASSUME NEW r \in Runs, Request(r)
      PROVE  Refines
  <2>1. ASSUME NEW p \in Replicas, BeginRun(p, r)
        PROVE  Refines
    <3>1. run[r].next = 0
      BY <2>1 DEF BeginRun, Unbegun
    <3> QED
      BY <2>1, <3>1, ImplementsBegin DEF Refines
  <2>2. CASE RequestCancellation(r) \/ DrainClosedHistory(r)
    BY <2>2, HiddenStutters DEF RequestCancellation, DrainClosedHistory, Hidden, Refines
  <2> QED
    BY <1>1, <2>1, <2>2 DEF Request
<1>2. CASE CloseHistory \/ Timer
  <2>1. /\ lease'.owner = lease.owner /\ lease'.fencing = lease.fencing
        /\ thread'.next = thread.next
        /\ UNCHANGED <<run, events>>
    <3>1. lease \in LeaseRow /\ thread \in ThreadRow
      BY DEF TypeOK, DatabaseTyped
    <3>2. CASE CloseHistory
      BY <3>1, <3>2 DEF CloseHistory, ThreadRow
    <3>3. CASE Timer
      BY <3>1, <3>3 DEF Timer, lease_expires, dispatch_claim_expires, cancel_claim_expires, LeaseRow
    <3> QED
      BY <1>2, <3>2, <3>3
  <2> QED
    BY <2>1 DEF Refines, Ledger!ledger
<1>3. ASSUME NEW p \in Replicas, Relay(p)
      PROVE  Refines
  BY <1>3, RelayRefines
<1>4. ASSUME NEW p \in Replicas, Life(p)
      PROVE  Refines
  BY <1>4, HiddenStutters DEF Life, stop, stop_deadline, crash, database, Hidden, Refines
<1>5. ASSUME NEW p \in Replicas, NEW r \in Runs, Child(p, r)
      PROVE  Refines
  BY <1>5, ChildRefines
<1>6. CASE UNCHANGED vars
  BY <1>6, HiddenStutters DEF vars, database, Hidden, Refines
<1> QED
  BY <1>1, <1>2, <1>3, <1>4, <1>5, <1>6 DEF Next

\* The runtime's steps keep the ledger's invariant and only move it onward.
LEMMA LedgerKept ==
    ASSUME Promise!LedgerInv, Refines
    PROVE  Promise!LedgerInv' /\ Promise!Onward /\ Promise!Fenced
<1>1. Ledger!LedgerNext => Promise!LedgerNext
  BY DEF Ledger!LedgerNext, Promise!LedgerNext, Ledger!Begin, Promise!Begin,
     Ledger!Append, Promise!Append, Ledger!Finish, Promise!Finish,
     Ledger!Takeover, Promise!Takeover, Ledger!Fence, Promise!Fence,
     Ledger!Write, Promise!Write, Ledger!Sealed, Promise!Sealed,
     Ledger!SealedEntry, Promise!SealedEntry, Ledger!Content, Promise!Content,
     Ledger!Final, Promise!Final, Ledger!Foreground, Promise!Foreground
<1>2. UNCHANGED Ledger!ledger => UNCHANGED Promise!ledger
  BY DEF Ledger!ledger, Promise!ledger
<1>3. [Promise!LedgerNext]_(Promise!ledger)
  BY <1>1, <1>2 DEF Refines
<1> QED
  BY <1>3, Promise!LedgerStep, Promise!LedgerOnward, Promise!LedgerFenced

\* A step writes outbox rows only for a begun run, and settles a cancellation
\* only of a terminal one.
Outboxes ==
    \A r \in Runs :
        /\ dispatch'[r].status # "absent" =>
             dispatch[r].status # "absent" \/ run'[r].status # "absent"
        /\ cancel'[r].status # "absent" =>
             cancel[r].status # "absent" \/ run'[r].status # "absent"
        /\ cancel'[r].status = "delivered" =>
             cancel[r].status = "delivered" \/ run'[r].status \in TerminalStatus

LEMMA OutboxRequest ==
    ASSUME TypeOK, NEW q \in Runs, Request(q)
    PROVE  Outboxes
<1>1. /\ dispatch \in [Runs -> Outbox] /\ cancel \in [Runs -> Outbox]
      /\ run \in [Runs -> RunRow]
  BY DEF TypeOK, DatabaseTyped
<1>2. PendingRow.status = "pending"
  BY DEF PendingRow, NoRow
<1>3. ASSUME NEW p \in Replicas, BeginRun(p, q)
      PROVE  Outboxes
  <2>1. run'[q].status = "running" /\ UNCHANGED cancel /\ dispatch' = [dispatch EXCEPT ![q] = PendingRow]
    BY <1>1, <1>3 DEF BeginRun
  <2> QED
    BY <1>1, <2>1 DEF Outboxes
<1>4. CASE RequestCancellation(q) \/ DrainClosedHistory(q)
  <2>1. /\ run[q].status = "running" /\ UNCHANGED <<run, dispatch>>
        /\ cancel' = [cancel EXCEPT ![q] = PendingRow]
    BY <1>4 DEF RequestCancellation, DrainClosedHistory
  <2> QED
    BY <1>1, <1>2, <2>1 DEF Outboxes
<1> QED
  BY <1>3, <1>4 DEF Request

LEMMA OutboxRelay ==
    ASSUME TypeOK, NEW p \in Replicas, Relay(p)
    PROVE  Outboxes
<1>1. /\ dispatch \in [Runs -> Outbox] /\ cancel \in [Runs -> Outbox]
      /\ run \in [Runs -> RunRow]
  BY DEF TypeOK, DatabaseTyped
<1>2. CASE UNCHANGED <<dispatch, cancel>>
  BY <1>2 DEF Outboxes
<1>3. ASSUME NEW q \in Runs, NEW row,
             UNCHANGED cancel, dispatch' = [dispatch EXCEPT ![q] = row],
             dispatch[q].status # "absent" \/ row.status = "absent"
      PROVE  Outboxes
  BY <1>1, <1>3 DEF Outboxes
<1>4. ASSUME NEW q \in Runs, NEW row,
             UNCHANGED dispatch, cancel' = [cancel EXCEPT ![q] = row],
             cancel[q].status # "absent",
             row.status = "delivered" => run'[q].status \in TerminalStatus
      PROVE  Outboxes
  BY <1>1, <1>4 DEF Outboxes
<1>5. ASSUME NEW q \in Runs, claim_cancellation(p, q)
      PROVE  Outboxes
  <2>1. UNCHANGED dispatch /\ cancel[q].status # "absent"
    BY <1>5 DEF claim_cancellation, CancelClaimable, Selectable
  <2>2. \/ cancel' = [cancel EXCEPT ![q] = Delivered(cancel[q])] /\ is_terminal_status(q) /\ UNCHANGED run
        \/ cancel' = [cancel EXCEPT ![q] = DeadLettered(cancel[q])]
        \/ cancel' = [cancel EXCEPT ![q] = Claimed(p, cancel[q])]
    <3>1. \A early \in BOOLEAN : ClaimVerdict(q, early) = "settled" => is_terminal_status(q)
      BY DEF ClaimVerdict
    <3> QED
      BY <1>5, <3>1 DEF claim_cancellation
  <2>3. DeadLettered(cancel[q]).status # "delivered" /\ Claimed(p, cancel[q]).status # "delivered"
    BY <1>1 DEF DeadLettered, Claimed, Outbox
  <2> QED
    BY <2>1, <2>2, <2>3, <1>4 DEF is_terminal_status
<1>6. ASSUME NEW q \in Runs, claim_dispatch(p, q)
      PROVE  Outboxes
  <2>1. UNCHANGED cancel /\ dispatch[q].status # "absent"
    BY <1>6 DEF claim_dispatch, DispatchClaimable, Selectable
  <2>2. \E row : dispatch' = [dispatch EXCEPT ![q] = row]
    BY <1>6 DEF claim_dispatch
  <2> QED
    BY <2>1, <2>2, <1>3
<1>7. CASE mark_cancellation_signalled(p)
  <2> DEFINE q == relay[p].run
  <2>1. q \in Runs
    BY <1>7 DEF mark_cancellation_signalled, TypeOK, RelayTyped
  <2>2. /\ UNCHANGED <<dispatch, run>>
        /\ \/ UNCHANGED cancel
           \/ /\ cancel[q].status = "delivering"
              /\ \/ cancel' = [cancel EXCEPT ![q] = Delivered(cancel[q])] /\ is_terminal_status(q)
                 \/ cancel' = [cancel EXCEPT ![q] = Signalled(cancel[q])]
    BY <1>7 DEF mark_cancellation_signalled, HoldsClaim
  <2>3. Signalled(cancel[q]).status = cancel[q].status
    BY <1>1, <2>1 DEF Signalled, Outbox
  <2> HIDE DEF q
  <2> QED
    BY <1>2, <1>4, <2>1, <2>2, <2>3 DEF is_terminal_status
<1>8. CASE finish_unstarted_cancellation(p)
  <2> DEFINE q == relay[p].run
             l == relay[p].lease
  <2>1. q \in Runs
    BY <1>8 DEF finish_unstarted_cancellation, TypeOK, RelayTyped
  <2>2. \/ UNCHANGED <<dispatch, cancel>>
        \/ /\ dispatch[q].status # "absent"
           /\ dispatch' = [dispatch EXCEPT ![q] = Delivered(dispatch[q])]
           /\ cancel' = [cancel EXCEPT ![q] = Delivered(cancel[q])]
           /\ \/ run' = [run EXCEPT ![q] = TerminalRow("cancelled", l.seq, "none", l.fencing)]
              \/ run[q].status = "cancelled" /\ UNCHANGED run
    BY <1>8 DEF finish_unstarted_cancellation, Settleable, WriteTerminal, ReplaysTerminal, database
  <2>3. TerminalRow("cancelled", l.seq, "none", l.fencing).status = "cancelled"
    BY DEF TerminalRow
  <2> HIDE DEF q, l
  <2>4. CASE \/ run' = [run EXCEPT ![q] = TerminalRow("cancelled", l.seq, "none", l.fencing)]
             \/ run[q].status = "cancelled" /\ UNCHANGED run
    <3>1. run'[q].status = "cancelled"
      BY <1>1, <2>1, <2>3, <2>4
    <3> QED
      BY <1>1, <1>2, <2>1, <2>2, <3>1 DEF Outboxes, TerminalStatus
  <2> QED
    BY <1>2, <2>2, <2>4
<1>9. CASE fail_activation(p) \/ reject_dispatch(p)
  <2> DEFINE q == relay[p].run
  <2>1. q \in Runs
    BY <1>9 DEF fail_activation, reject_dispatch, TypeOK, RelayTyped
  <2>2. /\ UNCHANGED cancel
        /\ \/ UNCHANGED dispatch
           \/ dispatch' = [dispatch EXCEPT ![q] = dispatch[q]]
           \/ /\ dispatch' = [dispatch EXCEPT ![q] = Delivered(dispatch[q])]
              /\ dispatch[q].status # "absent"
    BY <1>9 DEF fail_activation, reject_dispatch, RelayFails, HoldsClaim, database
  <2> HIDE DEF q
  <2> QED
    BY <1>2, <1>3, <2>1, <2>2
<1>10. CASE acknowledge_dispatch(p) \/ retry_dispatch(p)
  <2> DEFINE q == relay[p].run
  <2>1. q \in Runs
    BY <1>10 DEF acknowledge_dispatch, retry_dispatch, TypeOK, RelayTyped
  <2>2. /\ UNCHANGED cancel
        /\ \/ UNCHANGED dispatch
           \/ /\ \E row : dispatch' = [dispatch EXCEPT ![q] = row]
              /\ dispatch[q].status # "absent"
    BY <1>10 DEF acknowledge_dispatch, retry_dispatch, HoldsClaim
  <2> HIDE DEF q
  <2> QED
    BY <1>2, <1>3, <2>1, <2>2
<1>11. CASE \/ \E r \in Runs : recover_one_stale_run(p, r)
            \/ revoke(p) \/ offer(p) \/ withdraw(p) \/ activate(p)
  BY <1>2, <1>11 DEF recover_one_stale_run, revoke, offer, withdraw, activate, database
<1> QED
  BY <1>5, <1>6, <1>7, <1>8, <1>9, <1>10, <1>11 DEF Relay

LEMMA OutboxStep ==
    ASSUME TypeOK, [Next]_vars
    PROVE  Outboxes
<1>1. /\ dispatch \in [Runs -> Outbox] /\ cancel \in [Runs -> Outbox]
  BY DEF TypeOK, DatabaseTyped
<1>2. CASE UNCHANGED <<dispatch, cancel>>
  BY <1>2 DEF Outboxes
<1>3. ASSUME NEW p \in Replicas, NEW r \in Runs, Child(p, r)
      PROVE  Outboxes
  BY <1>2, <1>3 DEF Child, execute_activation, close_run, append_semantic_chunk, append_checkpoint,
     lease_lost, flush, finish_run, abandon, cleanup, database
<1>4. ASSUME NEW p \in Replicas, Life(p)
      PROVE  Outboxes
  BY <1>2, <1>4 DEF Life, stop, stop_deadline, crash, database
<1>5. CASE Timer
  BY <1>1, <1>2, <1>5 DEF Timer, lease_expires, dispatch_claim_expires, cancel_claim_expires,
     Outboxes, Outbox
<1>6. CASE CloseHistory \/ UNCHANGED vars
  BY <1>2, <1>6 DEF CloseHistory, vars, database
<1> QED
  BY <1>3, <1>4, <1>5, <1>6, OutboxRequest, OutboxRelay DEF Next

-----------------------------------------------------------------------------

\* The inductive invariant of the refinement.  The ledger needs to know that a
\* claimed run has begun, which the outboxes say.
RefinementInv ==
    /\ TypeOK
    /\ Promise!LedgerInv
    /\ Unbegun
    /\ CancellationNeverDropped

LEMMA RefinementInitial == Init => RefinementInv
<1> SUFFICES ASSUME Init PROVE RefinementInv
  OBVIOUS
<1>1. Ledger!LedgerInit => Promise!LedgerInit
  BY DEF Ledger!LedgerInit, Promise!LedgerInit
<1>2. Promise!LedgerInv
  BY <1>1, ImplementsInit, Promise!LedgerInitial
<1>3. Unbegun /\ CancellationNeverDropped
  BY DEF Init, Unbegun, CancellationNeverDropped, NoRow
<1> QED
  BY <1>2, <1>3, TypedInitially DEF RefinementInv

LEMMA RefinementStep ==
    ASSUME RefinementInv, [Next]_vars
    PROVE  RefinementInv' /\ Refines /\ Promise!Onward /\ Promise!Fenced
<1>1. TypeOK /\ Promise!LedgerInv /\ Unbegun /\ CancellationNeverDropped
  BY DEF RefinementInv
<1>2. TypeOK' /\ Refines /\ Outboxes
  BY <1>1, TypedStep, StepRefines, OutboxStep
<1>3. Promise!LedgerInv' /\ Promise!Onward /\ Promise!Fenced
  BY <1>1, <1>2, LedgerKept
<1>4. \A r \in Runs :
        /\ run'[r].status = "absent" => run[r].status = "absent"
        /\ run[r].status \in TerminalStatus => run'[r].status = run[r].status
        /\ run'[r].status = "absent" => run'[r].next = 0
  BY <1>3 DEF Promise!Onward, Promise!Final, TerminalStatus, Promise!LedgerInv, Promise!Unwritten
<1>5. Unbegun'
  BY <1>1, <1>2, <1>4 DEF Unbegun, Outboxes
<1>6. CancellationNeverDropped'
  BY <1>1, <1>2, <1>4 DEF CancellationNeverDropped, Outboxes
<1> QED
  BY <1>2, <1>3, <1>5, <1>6 DEF RefinementInv

\* For any number of runs, replicas, faults and tokens: whatever relays,
\* children, requests, recovery, stops and crashes do to the database is a
\* behaviour of the ledger.
THEOREM Refinement == Spec => ImplementsLedger
<1>1. RefinementInv /\ [Next]_vars => RefinementInv'
  BY RefinementStep
<1>2. RefinementInv /\ [Next]_vars => [Ledger!LedgerNext]_(Ledger!ledger)
  BY RefinementStep DEF Refines
<1> QED
  BY RefinementInitial, ImplementsInit, <1>1, <1>2, PTL
     DEF Spec, ImplementsLedger, Ledger!LedgerSpec

\* The runtime keeps the whole invariant of the refinement.
LEMMA RefinementAlways == Spec => []RefinementInv
<1>1. RefinementInv /\ [Next]_vars => RefinementInv'
  BY RefinementStep
<1> QED
  BY RefinementInitial, <1>1, PTL DEF Spec

\* Journals stay dense and every event is written once, whatever was retried,
\* replayed or refused (append_chunk, append_tool_exchange, replay_event,
\* finish_run).
THEOREM JournalsDense == Spec => []JournalDense
<1>1. RefinementInv => JournalDense
  BY DEF RefinementInv, Promise!LedgerInv, Promise!Dense, JournalDense
<1> QED
  BY RefinementAlways, <1>1, PTL

\* No two events of a thread share a thread sequence (threads.next_event_seq).
THEOREM ThreadSequences == Spec => []ThreadSequenceUnique
<1>1. RefinementInv => ThreadSequenceUnique
  BY DEF RefinementInv, Promise!LedgerInv, Promise!Ordered, ThreadSequenceUnique
<1> QED
  BY RefinementAlways, <1>1, PTL

\* Every journal is closed by at most one terminal event, its last, and the run
\* row says the same (finish_run, recover_one_stale_run, reject_dispatch,
\* finish_unstarted_cancellation).
THEOREM TerminalsLast == Spec => []OneTerminalLast
<1>1. RefinementInv => OneTerminalLast
  BY DEF RefinementInv, Promise!LedgerInv, Promise!Ends, Promise!Final, OneTerminalLast,
     TerminalStatus
<1> QED
  BY RefinementAlways, <1>1, PTL

\* A reader finds every event of a run once, without a gap, and its terminal last.
THEOREM JournalsSound == Spec => []JournalSound
BY JournalsDense, TerminalsLast, PTL DEF JournalSound

\* A thread never has two runs in its foreground slot (apply_begin).
THEOREM OneForeground == Spec => []OneForegroundRun
<1>1. RefinementInv => OneForegroundRun
  BY DEF RefinementInv, Promise!LedgerInv, Promise!Exclusive, Promise!Foreground, OneForegroundRun
<1> QED
  BY RefinementAlways, <1>1, PTL

\* The token of a running run is the token of the lease, so the fencing checks
\* of the claims never dead-letter a healthy dispatch.
THEOREM TokensAgree == Spec => []FencingAgreement
<1>1. RefinementInv => FencingAgreement
  BY DEF RefinementInv, Promise!LedgerInv, Promise!Bound, FencingAgreement
<1> QED
  BY RefinementAlways, <1>1, PTL

\* An accepted cancellation is settled only by a terminal run, through crashes
\* and lost commits (mark_cancellation_signalled, claim_cancellation).
THEOREM CancellationKept == Spec => []CancellationNeverDropped
<1>1. RefinementInv => CancellationNeverDropped
  BY DEF RefinementInv
<1> QED
  BY RefinementAlways, <1>1, PTL

\* The lease changes hands only with a larger token (acquire_lease, ClaimLease,
\* recover_one_stale_run).
THEOREM TakeoversRaise == Spec => TakeoverRaisesToken
<1>1. RefinementInv /\ [Next]_vars =>
        [/\ lease'.fencing >= lease.fencing
         /\ lease'.owner # lease.owner => lease'.fencing > lease.fencing]_vars
  BY RefinementStep DEF Promise!Onward
<1> QED
  BY RefinementAlways, <1>1, PTL DEF Spec, TakeoverRaisesToken

\* Only the current token writes: a child or relay that was overtaken adds
\* nothing to a journal, however late it wakes up (validate_active_lease,
\* validate_lease_identity).
THEOREM WritersCurrent == Spec => WritesUnderCurrentToken
<1>1. RefinementInv /\ [Next]_vars =>
        [\A r \in Runs : \A e \in events'[r] :
           e.seq >= run[r].next => e.by = lease'.fencing /\ e.by = run'[r].fencing]_vars
  <2> SUFFICES ASSUME RefinementInv, [Next]_vars
               PROVE  \A r \in Runs : \A e \in events'[r] :
                        e.seq >= run[r].next => e.by = lease'.fencing /\ e.by = run'[r].fencing
    OBVIOUS
  <2>1. Promise!Fenced
    BY RefinementStep
  <2> QED
    BY <2>1 DEF Promise!Fenced
<1> QED
  BY RefinementAlways, <1>1, PTL DEF Spec, WritesUnderCurrentToken

-----------------------------------------------------------------------------
(* What is terminal stays as it is. *)

\* finish_run_in_transaction: the journal is scrubbed, closed by the terminal, and
\* its text goes into the assistant message.
Closes(r) ==
    /\ run'[r].status \in TerminalStatus
    /\ \E e : e.kind = run'[r].status /\ events'[r] = Scrub(events[r]) \cup {e}
    /\ assistant'[r] = AssistantMessage(r, run'[r].status)

\* A step writes one run that is not terminal yet, and either leaves it so or
\* closes it; a closed history stays closed.
WritesOpenRun ==
    /\ thread.closed => thread'.closed
    /\ \/ UNCHANGED <<run, events, assistant>>
       \/ \E r \in Runs :
            /\ run[r].status \notin TerminalStatus
            /\ \A q \in Runs \ {r} :
                 run'[q] = run[q] /\ events'[q] = events[q] /\ assistant'[q] = assistant[q]
            /\ run'[r].status \notin TerminalStatus \/ Closes(r)

LEMMA TerminalCloses ==
    ASSUME TypeOK, NEW r \in Runs, NEW k \in TerminalStatus, NEW expected, NEW code, NEW t,
           run[r].status = "running", WriteTerminal(r, k, expected, code, t)
    PROVE  WritesOpenRun
<1>1. /\ run \in [Runs -> RunRow] /\ events \in [Runs -> SUBSET Event]
      /\ thread \in ThreadRow
      /\ assistant \in [Runs -> {"none", "complete", "incomplete"}]
  BY DEF TypeOK, DatabaseTyped
<1> DEFINE e == [seq |-> expected, at |-> thread.next, kind |-> k, by |-> t]
<1>2. /\ run' = [run EXCEPT ![r] = TerminalRow(k, expected, code, t)]
      /\ events' = [events EXCEPT ![r] = Scrub(events[r]) \cup {e}]
      /\ assistant' = [assistant EXCEPT ![r] = AssistantMessage(r, k)]
      /\ AdvanceThread
  BY DEF WriteTerminal
<1>3. e.kind = k
  OBVIOUS
<1>4. run'[r].status = k
  BY <1>1, <1>2 DEF TerminalRow
<1> HIDE DEF e
<1>5. Closes(r)
  BY <1>1, <1>2, <1>3, <1>4 DEF Closes
<1>6. \A q \in Runs \ {r} :
        run'[q] = run[q] /\ events'[q] = events[q] /\ assistant'[q] = assistant[q]
  BY <1>1, <1>2
<1> QED
  BY <1>1, <1>2, <1>5, <1>6, AdvanceTyped DEF WritesOpenRun, TerminalStatus

LEMMA RelayWritesOpen ==
    ASSUME TypeOK, NEW p \in Replicas, Relay(p)
    PROVE  WritesOpenRun
<1>0. run \in [Runs -> RunRow]
  BY DEF TypeOK, DatabaseTyped
<1>1. ASSUME NEW r \in Runs, claim_cancellation(p, r) \/ claim_dispatch(p, r)
      PROVE  WritesOpenRun
  <2>1. UNCHANGED <<thread, events, assistant>>
    BY <1>1 DEF claim_cancellation, claim_dispatch
  <2>2. \/ UNCHANGED run
        \/ \E t : run' = [run EXCEPT ![r].fencing = t] /\ ~is_terminal_status(r)
    BY <1>1 DEF claim_cancellation, claim_dispatch, DispatchVerdict, ClaimVerdict, ClaimLease
  <2> QED
    BY <1>0, <2>1, <2>2 DEF WritesOpenRun, is_terminal_status, RunRow
<1>2. ASSUME NEW r \in Runs, recover_one_stale_run(p, r)
      PROVE  WritesOpenRun
  <2>1. RecoveryStatus(r) \in TerminalStatus
    BY DEF RecoveryStatus, TerminalStatus
  <2>2. /\ run[r].status = "running"
        /\ WriteTerminal(r, RecoveryStatus(r), run[r].next, RecoveryCode(r), RecoveryToken)
    BY <1>2 DEF recover_one_stale_run, Recoverable
  <2> QED
    BY <2>1, <2>2, TerminalCloses
<1>3. CASE finish_unstarted_cancellation(p) \/ fail_activation(p) \/ reject_dispatch(p)
  <2> DEFINE r == relay[p].run
             l == relay[p].lease
  <2>1. r \in Runs
    BY <1>3 DEF finish_unstarted_cancellation, fail_activation, reject_dispatch, TypeOK, RelayTyped
  <2>2. \/ UNCHANGED <<thread, run, events, assistant>>
        \/ \E k \in TerminalStatus : \E code :
              run[r].status = "running" /\ WriteTerminal(r, k, l.seq, code, l.fencing)
    <3>1. CASE finish_unstarted_cancellation(p)
      BY <3>1 DEF finish_unstarted_cancellation, CanFinish, TerminalStatus, database
    <3>2. CASE fail_activation(p)
      BY <3>2 DEF fail_activation, RelayFails, CanFinish, TerminalStatus, database
    <3>3. CASE reject_dispatch(p)
      BY <3>3 DEF reject_dispatch, RelayFails, CanFinish, TerminalStatus, database
    <3> QED
      BY <1>3, <3>1, <3>2, <3>3
  <2> HIDE DEF r, l
  <2> QED
    BY <2>1, <2>2, TerminalCloses DEF WritesOpenRun
<1>4. CASE \/ revoke(p) \/ mark_cancellation_signalled(p) \/ offer(p)
           \/ acknowledge_dispatch(p) \/ withdraw(p) \/ activate(p) \/ retry_dispatch(p)
  <2>1. UNCHANGED <<thread, run, events, assistant>>
    BY <1>4 DEF database, revoke, mark_cancellation_signalled, offer,
       acknowledge_dispatch, withdraw, activate, retry_dispatch
  <2> QED
    BY <2>1 DEF WritesOpenRun
<1> QED
  BY <1>1, <1>2, <1>3, <1>4 DEF Relay

LEMMA ChildWritesOpen ==
    ASSUME TypeOK, NEW p \in Replicas, NEW r \in Runs, Child(p, r)
    PROVE  WritesOpenRun
<1>0. /\ run \in [Runs -> RunRow] /\ events \in [Runs -> SUBSET Event]
      /\ thread \in ThreadRow
  BY DEF TypeOK, DatabaseTyped
<1>1. ASSUME NEW k, NEW received, NEW failed, AppendChunk(p, r, k, received, failed),
             UNCHANGED assistant
      PROVE  WritesOpenRun
  <2>1. \/ UNCHANGED <<thread, run, events>>
        \/ \E n, t : /\ run[r].status = "running"
                     /\ run' = [run EXCEPT ![r].next = n]
                     /\ InsertEvent(r, child[p][r].expected, k, t)
                     /\ AdvanceThread
    BY <1>1 DEF AppendChunk, CanAppend
  <2>2. CASE UNCHANGED <<thread, run, events>>
    BY <1>1, <2>2 DEF WritesOpenRun
  <2>3. ASSUME NEW n, NEW t, run[r].status = "running",
               run' = [run EXCEPT ![r].next = n],
               InsertEvent(r, child[p][r].expected, k, t),
               AdvanceThread
        PROVE  WritesOpenRun
    <3>1. run'[r].status = "running" /\ \A q \in Runs \ {r} : run'[q] = run[q]
      BY <1>0, <2>3 DEF RunRow
    <3>2. \A q \in Runs \ {r} : events'[q] = events[q]
      BY <1>0, <2>3 DEF InsertEvent
    <3> QED
      BY <1>0, <1>1, <2>3, <3>1, <3>2, AdvanceTyped DEF WritesOpenRun, TerminalStatus
  <2> QED
    BY <2>1, <2>2, <2>3
<1>2. CASE \E k \in ChunkKind : append_semantic_chunk(p, r, k)
  BY <1>1, <1>2 DEF append_semantic_chunk
<1>3. CASE \E k \in CheckpointKind : append_checkpoint(p, r, k)
  BY <1>1, <1>3 DEF append_checkpoint
<1>4. CASE flush(p, r)
  BY <1>1, <1>4 DEF flush
<1>5. CASE finish_run(p, r)
  <2> DEFINE c == child[p][r]
  <2>1. c.goal \in TerminalStatus
    BY <1>5 DEF finish_run, Executing, TypeOK, ChildTyped
  <2>2. \/ UNCHANGED <<thread, run, events, assistant>>
        \/ \E code : /\ run[r].status = "running"
                     /\ WriteTerminal(r, c.goal, c.expected, code, c.lease.fencing)
    BY <1>5 DEF finish_run, CanFinish, database
  <2> HIDE DEF c
  <2> QED
    BY <2>1, <2>2, TerminalCloses DEF WritesOpenRun
<1>6. CASE \/ execute_activation(p, r) \/ lease_lost(p, r) \/ abandon(p, r) \/ cleanup(p, r)
           \/ \E goal \in TerminalStatus, pending \in {"none", "text"} :
                close_run(p, r, goal, pending)
  <2>1. UNCHANGED <<thread, run, events, assistant>>
    BY <1>6 DEF database, execute_activation, lease_lost, abandon, cleanup, close_run
  <2> QED
    BY <2>1 DEF WritesOpenRun
<1> QED
  BY <1>2, <1>3, <1>4, <1>5, <1>6 DEF Child

LEMMA StepWritesOpen ==
    ASSUME TypeOK, [Next]_vars
    PROVE  WritesOpenRun
<1>0. /\ run \in [Runs -> RunRow] /\ events \in [Runs -> SUBSET Event]
      /\ thread \in ThreadRow
  BY DEF TypeOK, DatabaseTyped
<1>1. ASSUME NEW p \in Replicas, NEW r \in Runs, BeginRun(p, r)
      PROVE  WritesOpenRun
  <2>1. /\ run[r].status = "absent" /\ run'[r].status = "running"
        /\ \A q \in Runs \ {r} : run'[q] = run[q]
    BY <1>0, <1>1 DEF BeginRun
  <2>2. \A q \in Runs \ {r} : events'[q] = events[q]
    BY <1>0, <1>1 DEF BeginRun, InsertEvent
  <2>3. UNCHANGED assistant /\ AdvanceThread
    BY <1>1 DEF BeginRun
  <2> QED
    BY <1>0, <2>1, <2>2, <2>3, AdvanceTyped DEF WritesOpenRun, TerminalStatus
<1>2. ASSUME NEW r \in Runs, RequestCancellation(r) \/ DrainClosedHistory(r)
      PROVE  WritesOpenRun
  BY <1>2 DEF RequestCancellation, DrainClosedHistory, WritesOpenRun
<1>3. CASE CloseHistory
  BY <1>0, <1>3 DEF CloseHistory, WritesOpenRun, ThreadRow
<1>4. CASE Timer
  BY <1>4 DEF Timer, lease_expires, dispatch_claim_expires, cancel_claim_expires, WritesOpenRun
<1>5. ASSUME NEW p \in Replicas, Life(p)
      PROVE  WritesOpenRun
  BY <1>5 DEF Life, stop, stop_deadline, crash, database, WritesOpenRun
<1>6. CASE UNCHANGED vars
  BY <1>6 DEF vars, database, WritesOpenRun
<1> QED
  BY <1>1, <1>2, <1>3, <1>4, <1>5, <1>6, RelayWritesOpen, ChildWritesOpen DEF Next, Request

\* What closes a run scrubs its journal, and leaves text without a message only
\* when the history was closed.
LEMMA ClosedIsScrubbed ==
    ASSUME TypeOK, NEW r \in Runs, Closes(r), thread.closed => thread'.closed
    PROVE  /\ \A e \in events'[r] : e.kind \notin {"reasoning", "remote_projection"}
           /\ assistant'[r] = "complete" => run'[r].status = "completed"
           /\ assistant'[r] = "incomplete" => run'[r].status # "completed"
           /\ (assistant'[r] = "none" /\ FreshText(r)' # {}) => thread'.closed
<1>1. PICK t : t.kind = run'[r].status /\ events'[r] = Scrub(events[r]) \cup {t}
  BY DEF Closes
<1>2. t.kind \in TerminalStatus /\ assistant'[r] = AssistantMessage(r, t.kind)
  BY <1>1 DEF Closes
<1> DEFINE S(e) == [seq |-> e.seq, at |-> e.at, by |-> e.by,
                    kind |-> IF e.kind \in {"reasoning", "remote_projection"}
                             THEN "scrubbed" ELSE e.kind]
<1>3. \A f \in Scrub(events[r]) : \E e \in events[r] : f = S(e)
  BY DEF Scrub
<1>4. \A e \in events[r] : S(e) \in Scrub(events[r])
  BY DEF Scrub
<1>5. \A e : /\ S(e).seq = e.seq
             /\ S(e).kind = IF e.kind \in {"reasoning", "remote_projection"}
                            THEN "scrubbed" ELSE e.kind
  OBVIOUS
<1> HIDE DEF S
<1>6. \A e \in events'[r] : e.kind \notin {"reasoning", "remote_projection"}
  BY <1>1, <1>2, <1>3, <1>5 DEF TerminalStatus
<1>7. FreshText(r)' # {} => FreshText(r) # {}
  <2> SUFFICES ASSUME FreshText(r)' # {} PROVE FreshText(r) # {}
    OBVIOUS
  <2>1. PICK f \in events'[r] :
          /\ f.kind = "text"
          /\ \A g \in events'[r] : g.kind = "tool_exchange" => g.seq < f.seq
    BY DEF FreshText
  <2>2. f \in Scrub(events[r])
    BY <1>1, <1>2, <2>1 DEF TerminalStatus
  <2>3. PICK e \in events[r] : f = S(e)
    BY <1>3, <2>2
  <2>4. e.kind = "text" /\ e.seq = f.seq
    BY <1>5, <2>1, <2>3
  <2>5. \A g \in events[r] : g.kind = "tool_exchange" => g.seq < e.seq
    <3> SUFFICES ASSUME NEW g \in events[r], g.kind = "tool_exchange" PROVE g.seq < e.seq
      OBVIOUS
    <3>1. S(g) \in events'[r] /\ S(g).kind = "tool_exchange" /\ S(g).seq = g.seq
      BY <1>1, <1>4, <1>5
    <3> QED
      BY <2>1, <2>4, <3>1
  <2> QED
    BY <2>4, <2>5 DEF FreshText
<1>8. /\ assistant'[r] = "complete" => t.kind = "completed"
      /\ assistant'[r] = "incomplete" => t.kind # "completed"
      /\ assistant'[r] = "none" => thread.closed \/ FreshText(r) = {}
  BY <1>2 DEF AssistantMessage
<1> QED
  BY <1>1, <1>6, <1>7, <1>8

\* Nothing a relay, child, request or recovery does changes the row, the journal
\* or the message of a terminal run: every writer looks at the status of the run
\* under its lock first.
THEOREM TerminalsStay == Spec => TerminalIsFinal
<1>1. TypeOK /\ [Next]_vars =>
        [\A r \in Runs : run[r].status \in TerminalStatus =>
           /\ run'[r] = run[r]
           /\ events'[r] = events[r]
           /\ assistant'[r] = assistant[r]]_vars
  BY StepWritesOpen DEF WritesOpenRun
<1> QED
  BY Typing, <1>1, PTL DEF Spec, TerminalIsFinal

\* A terminal run has lost its reasoning and its remote projections, and its text
\* is in the assistant message unless the history was closed
\* (scrub_reasoning_chunks, scrub_remote_projections, aggregate_text_chunks).
THEOREM TerminalsScrubbed == Spec => []TerminalScrubs
<1>1. Init => TerminalScrubs
  BY DEF Init, TerminalScrubs, TerminalStatus
<1>2. TypeOK /\ TerminalScrubs /\ [Next]_vars => TerminalScrubs'
  <2> SUFFICES ASSUME TypeOK, TerminalScrubs, [Next]_vars,
                      NEW r \in Runs, run'[r].status \in TerminalStatus
               PROVE  /\ \A e \in events'[r] : e.kind \notin {"reasoning", "remote_projection"}
                      /\ assistant'[r] = "complete" => run'[r].status = "completed"
                      /\ assistant'[r] = "incomplete" => run'[r].status # "completed"
                      /\ (assistant'[r] = "none" /\ FreshText(r)' # {}) => thread'.closed
    BY DEF TerminalScrubs
  <2>1. WritesOpenRun
    BY StepWritesOpen
  <2>2. CASE run[r].status \in TerminalStatus
    <3>1. run'[r] = run[r] /\ events'[r] = events[r] /\ assistant'[r] = assistant[r]
      BY <2>1, <2>2 DEF WritesOpenRun
    <3>2. FreshText(r)' = FreshText(r)
      BY <3>1 DEF FreshText
    <3> QED
      BY <2>1, <2>2, <3>1, <3>2 DEF TerminalScrubs, WritesOpenRun
  <2>3. CASE run[r].status \notin TerminalStatus
    <3>1. Closes(r)
      BY <2>1, <2>3 DEF WritesOpenRun
    <3> QED
      BY <2>1, <3>1, ClosedIsScrubbed DEF WritesOpenRun
  <2> QED
    BY <2>2, <2>3
<1> QED
  BY Typing, <1>1, <1>2, PTL DEF Spec

=============================================================================

----------------------------- MODULE ScreenOwner -----------------------------
(***************************************************************************)
(* The task that owns a live engine session                                *)
(* (openbot-computer/src/screen/engine_owner.rs) over the wheel of         *)
(* ComputerControl.  Callers put commands into a bounded queue and may go  *)
(* away while they wait, also when the answer is on its way: that it was   *)
(* sent does not say that it was received.  Every command carries an       *)
(* activity, the residency lease that keeps the browser from being         *)
(* evicted.  The owner executes one command at a time, keeps the activity  *)
(* of the person that has the wheel until a deadline of the monotonic      *)
(* clock, and retires the engine when it is told to stop, the source       *)
(* closes, or an operation fails or exceeds its deadline.                  *)
(*                                                                         *)
(* Wall and monotonic clock run apart; the wall clock may move back.       *)
(***************************************************************************)
EXTENDS ComputerControl, Sequences, SequencesExt, FiniteSets

CONSTANTS
    Calls,             \* calls of apply_input, take_control and release_control
    COMMAND_CAPACITY

VARIABLES
    call,      \* of a call: what it asks, with what, and what has become of it
    queue,     \* the command channel
    at,        \* where the owner is
    current,   \* the command in execution
    human,     \* human_activity, and what is left of human_deadline
    stop,      \* the stop signal of this session or of the whole runtime
    viewers,   \* the demand for frames: none, some, or the source is closed
    casting,   \* what the engine was last told
    applied,   \* the inputs the engine has carried out
    wall       \* the wall clock

owner == <<call, queue, at, current, human, stop, viewers, casting, applied, wall>>

ownerVars == <<control, tickets, owner>>

-----------------------------------------------------------------------------

Unasked == [kind |-> "none", actor |-> None, ticket |-> None, expires |-> None, status |-> "idle"]

NoHuman == [activity |-> None, left |-> None]

OwnerInit ==
    /\ Init
    /\ call = [c \in Calls |-> Unasked]
    /\ queue = <<>>
    /\ at = "loop"
    /\ current = None
    /\ human = NoHuman
    /\ stop = FALSE
    /\ viewers = "none"
    /\ casting = None
    /\ applied = {}
    /\ wall = 0

Waiting(c) == call[c].status = "waiting"

Answered(c, answer) == [call EXCEPT ![c].status = IF @ = "waiting" THEN answer ELSE @]

\* enqueue: Closed once stopped or retired, Busy when the channel is full.
Admits == IF stop \/ at \in {"retiring", "closed", "failed"} THEN "closed"
          ELSE IF Len(queue) >= COMMAND_CAPACITY THEN "busy" ELSE "waiting"

submit(c, kind, a, k, x) ==
    /\ call[c].status = "idle"
    /\ call' = [call EXCEPT ![c] = [kind |-> kind, actor |-> a, ticket |-> k, expires |-> x,
                                    status |-> Admits]]
    /\ queue' = IF Admits = "waiting" THEN Append(queue, c) ELSE queue
    /\ UNCHANGED <<control, tickets, at, current, human, stop, viewers, casting, applied, wall>>

\* The awaiting caller is dropped: its reply channel closes, its command stays; a
\* ticket that is already in the channel is lost.
abandon(c) ==
    /\ call[c].status \in {"waiting", "sent"}
    /\ call' = [call EXCEPT ![c].status = IF @ = "waiting" THEN "gone" ELSE "lost"]
    /\ UNCHANGED <<control, tickets, queue, at, current, human, stop, viewers, casting, applied, wall>>

\* The caller of a take is polled again and has its ticket.  What becomes of any
\* other answer changes nothing: it counts as received when it is sent.
receive(c) ==
    /\ call[c].status = "sent"
    /\ call' = [call EXCEPT ![c].status = "ok"]
    /\ tickets' = tickets \cup {call[c].ticket}
    /\ UNCHANGED <<control, queue, at, current, human, stop, viewers, casting, applied, wall>>

request_shutdown ==
    /\ ~stop
    /\ stop' = TRUE
    /\ UNCHANGED <<control, tickets, call, queue, at, current, human, viewers, casting, applied, wall>>

demand_changes(v) ==
    /\ viewers # "closed" /\ v # viewers
    /\ viewers' = v
    /\ UNCHANGED <<control, tickets, call, queue, at, current, human, stop, casting, applied, wall>>

\* The monotonic clock, as far as it matters: the deadline comes nearer.
tick ==
    /\ human.left # None /\ human.left > 0
    /\ human' = [human EXCEPT !.left = @ - 1]
    /\ UNCHANGED <<control, tickets, call, queue, at, current, stop, viewers, casting, applied, wall>>

set_wall(n) ==
    /\ n # wall
    /\ wall' = n
    /\ UNCHANGED <<control, tickets, call, queue, at, current, human, stop, viewers, casting, applied>>

-----------------------------------------------------------------------------

Ending == stop \/ viewers = "closed"

\* The loop ends: the channel and the person's activity are dropped, the callers
\* that still wait are told Closed; then the engine is shut down, or killed.
Retires(healthy, answered) ==
    /\ at' = "retiring"
    /\ call' = [c \in Calls |-> IF c \in ToSet(queue) /\ answered[c].status = "waiting"
                                THEN [answered[c] EXCEPT !.status = "closed"] ELSE answered[c]]
    /\ queue' = <<>>
    /\ current' = IF healthy THEN "shutdown" ELSE "kill"
    /\ human' = NoHuman

loop_ends ==
    /\ at = "loop" /\ Ending
    /\ Retires(TRUE, call)
    /\ UNCHANGED <<control, tickets, stop, viewers, casting, applied, wall>>

Casts == viewers = "some"

\* set_screencast follows the demand; an engine that fails or times out is retired.
cast(ok) ==
    /\ at = "loop" /\ ~Ending /\ casting # Casts
    /\ \/ ok /\ casting' = Casts /\ UNCHANGED <<call, queue, at, current, human>>
       \/ ~ok /\ Retires(FALSE, call) /\ UNCHANGED casting
    /\ UNCHANGED <<control, tickets, stop, viewers, applied, wall>>

Selecting == at = "loop" /\ ~Ending /\ casting = Casts

Due == human.left = 0

\* The person's deadline, before any command: the lease is released whatever the
\* wall clock says; in a poisoned generation that fails and retires the engine.
expire ==
    /\ Selecting /\ Due
    /\ IF control.poisoned \/ Exhausted(control)
       THEN Retires(FALSE, call)
       ELSE human' = NoHuman /\ UNCHANGED <<call, queue, at, current>>
    /\ control' = IF control.poisoned THEN control ELSE Released(control)
    /\ UNCHANGED <<tickets, stop, viewers, casting, applied, wall>>

\* recv: a command whose caller has gone is dropped.
recv ==
    /\ Selecting /\ ~Due /\ queue # <<>>
    /\ queue' = Tail(queue)
    /\ \/ Waiting(Head(queue)) /\ at' = "command" /\ current' = Head(queue)
       \/ ~Waiting(Head(queue)) /\ UNCHANGED <<at, current>>
    /\ UNCHANGED <<control, tickets, call, human, stop, viewers, casting, applied, wall>>

Executes(kind) == at = "command" /\ call[current].kind = kind

Next_(c, answer) ==
    /\ call' = Answered(c, answer)
    /\ at' = "loop" /\ current' = None
    /\ UNCHANGED queue

\* The checks under the control mutex: a caller that has gone, a stopped session.
input_refused ==
    LET c == call[current] IN
    /\ Executes("input")
    /\ \/ c.status = "gone" /\ Next_(current, "ok") /\ UNCHANGED <<control, human>>
       \/ c.status = "waiting" /\ Ending
          /\ Retires(FALSE, Answered(current, "unavailable")) /\ UNCHANGED control
       \/ /\ c.status = "waiting" /\ ~Ending /\ ~Authorizes(control, c.actor, c.ticket, wall)
          /\ control' = IF control.poisoned THEN control ELSE WithoutExpired(control, wall)
          /\ Next_(current, "refused") /\ UNCHANGED human
    /\ UNCHANGED <<tickets, stop, viewers, casting, applied, wall>>

\* The receipt is minted and handed to the engine, the mutex held.
input_authorized ==
    LET c == call[current] IN
    /\ Executes("input") /\ c.status = "waiting" /\ ~Ending
    /\ Authorizes(control, c.actor, c.ticket, wall)
    /\ at' = "engine"
    /\ UNCHANGED <<control, tickets, call, queue, current, human, stop, viewers, casting, applied, wall>>

\* An acknowledged input is reported; after any other answer or the deadline the
\* outcome is unknown and the engine is never used again.
InputAnswers(effect, failed) ==
    IF failed THEN Retires(FALSE, Answered(current, "unavailable"))
              ELSE Next_(current, "ok") /\ UNCHANGED human

\* The engine (external) has carried the input out or not, and answers or not.
input_ends(effect, failed) ==
    /\ at = "engine"
    /\ effect \/ failed
    /\ applied' = IF effect THEN applied \cup {current} ELSE applied
    /\ InputAnswers(effect, failed)
    /\ UNCHANGED <<control, tickets, stop, viewers, casting, wall>>

\* The engine handle itself turns the input away, before anything is written: it
\* has no plan, or names another tab.
input_unplanned ==
    /\ at = "engine"
    /\ Next_(current, "refused")
    /\ UNCHANGED <<control, tickets, human, stop, viewers, casting, applied, wall>>

\* Take is refused: stopped, gone, an expiry in the past, a poisoned generation.
take_refused ==
    LET c == call[current] IN
    /\ Executes("take")
    /\ \/ Ending \/ c.status = "gone"
       \/ control.poisoned \/ c.expires <= wall \/ Exhausted(control)
    /\ Next_(current, IF Ending \/ c.status = "gone" THEN "closed" ELSE "refused")
    /\ control' = IF ~Ending /\ c.status = "waiting" /\ ~control.poisoned /\ c.expires > wall
                  THEN Taken(control, c.actor, c.expires) ELSE control
    /\ UNCHANGED <<tickets, human, stop, viewers, casting, applied, wall>>

\* The command's activity replaces that of the person before; the deadline is on
\* the monotonic clock, as far away as the expiry is on the wall clock.
Kept(c) == [activity |-> c, left |-> call[c].expires - wall]

take_granted ==
    LET c == call[current] IN
    /\ Executes("take") /\ ~Ending /\ c.status = "waiting"
    /\ ~control.poisoned /\ c.expires > wall /\ ~Exhausted(control)
    /\ control' = Taken(control, c.actor, c.expires)
    /\ human' = Kept(current)
    /\ at' = "reply"
    /\ UNCHANGED <<tickets, call, queue, current, stop, viewers, casting, applied, wall>>

\* The clock is read again for the deadline: an expiry that has meanwhile passed
\* retires the session, and the caller's reply is dropped.
take_late(n) ==
    LET c == call[current] IN
    /\ Executes("take") /\ ~Ending /\ c.status = "waiting"
    /\ ~control.poisoned /\ c.expires > wall /\ ~Exhausted(control)
    /\ n > c.expires /\ wall' = n
    /\ control' = Taken(control, c.actor, c.expires)
    /\ Retires(FALSE, Answered(current, "closed"))
    /\ UNCHANGED <<tickets, stop, viewers, casting, applied>>

MutUnreceived == human

\* The release of a lease nobody will use also gives the activity up.
Unreceived == NoHuman

\* The ticket is put into the channel of a caller that is there, or the caller has
\* gone and the lease is released.
reply_take ==
    /\ at = "reply"
    /\ \/ /\ Waiting(current)
          /\ call' = [call EXCEPT ![current].status = "sent",
                                 ![current].ticket = TicketOf(control.lease)]
          /\ at' = "loop" /\ current' = None
          /\ UNCHANGED <<control, queue, human>>
       \/ /\ ~Waiting(current)
          /\ control' = Released(control)
          /\ IF Exhausted(control) THEN Retires(FALSE, call)
             ELSE Next_(current, "gone") /\ human' = Unreceived
    /\ UNCHANGED <<tickets, stop, viewers, casting, applied, wall>>

\* Release: only with a ticket that still authorizes the actor.
release_control ==
    LET c == call[current]
        ok == Authorizes(control, c.actor, c.ticket, wall) IN
    /\ Executes("release")
    /\ \/ Ending /\ Next_(current, "closed") /\ UNCHANGED <<control, human>>
       \/ /\ ~Ending /\ ~ok
          /\ control' = IF control.poisoned THEN control ELSE WithoutExpired(control, wall)
          /\ Next_(current, "refused") /\ UNCHANGED human
       \/ /\ ~Ending /\ ok
          /\ control' = Released(control)
          /\ human' = IF Exhausted(control) THEN human ELSE NoHuman
          /\ Next_(current, IF Exhausted(control) THEN "refused" ELSE "ok")
    /\ UNCHANGED <<tickets, stop, viewers, casting, applied, wall>>

\* The control mutex is not to be had before OPERATION_DEADLINE, for a command, for
\* the expiry or for the release of a lease nobody waits for: the session retires
\* and the lease stays as it is.
lock_late ==
    /\ \/ Selecting /\ Due /\ Retires(FALSE, call)
       \/ at = "command" /\ Retires(FALSE, Answered(current, "unavailable"))
       \/ at = "reply" /\ ~Waiting(current) /\ Retires(FALSE, call)
    /\ UNCHANGED <<control, tickets, stop, viewers, casting, applied, wall>>

\* The source is detached and the engine is gone: shut down in time, or killed.
retired(ok) ==
    /\ at = "retiring"
    /\ at' = IF current = "shutdown" /\ ok THEN "closed" ELSE "failed"
    /\ current' = None
    /\ UNCHANGED <<control, tickets, call, queue, human, stop, viewers, casting, applied, wall>>

Callers ==
    \/ \E c \in Calls, a \in Actors :
        \/ \E k \in tickets, kind \in {"input", "release"} : submit(c, kind, a, k, None)
        \/ \E x \in Times : submit(c, "take", a, None, x)
    \/ \E c \in Calls : abandon(c) \/ receive(c)

Owner ==
    \/ loop_ends \/ expire \/ recv
    \/ \E ok \in BOOLEAN : cast(ok) \/ retired(ok)
    \/ input_refused \/ input_authorized \/ input_unplanned
    \/ \E effect, failed \in BOOLEAN : input_ends(effect, failed)
    \/ \E n \in Times : take_late(n)
    \/ take_refused \/ take_granted \/ reply_take \/ release_control \/ lock_late

Environment ==
    \/ request_shutdown \/ tick
    \/ \E v \in {"none", "some", "closed"} : demand_changes(v)
    \/ \E n \in Times : set_wall(n)

OwnerNext == Callers \/ Owner \/ Environment

OwnerSpec == OwnerInit /\ [][OwnerNext]_ownerVars

\* The owner task is polled, its operations are bounded by deadlines, and the
\* monotonic clock goes on.  Nobody has to call, to wait or to stop.  The select is
\* biased towards a change of the demand, but viewers do not come and go at every
\* single turn of the loop: expire and recv have strong fairness.
FairSteps == {"owner", "tick"}
FairStep(f) == (f = "owner" /\ Owner) \/ (f = "tick" /\ tick)

-----------------------------------------------------------------------------
(* Properties. *)

\* The queue within its capacity, without repetition; a command in execution is
\* not in the queue.
OwnerTypeOK ==
    /\ call \in [Calls -> [kind : {"none", "input", "take", "release"}, actor : Actors \cup {None},
                           ticket : Ticket \cup {None}, expires : Times \cup {None},
                           status : {"idle", "waiting", "gone", "sent", "lost", "ok", "busy",
                                     "closed", "refused", "unavailable"}]]
    /\ Len(queue) <= COMMAND_CAPACITY /\ IsInjective(queue)
    /\ at \in {"loop", "command", "engine", "reply", "retiring", "closed", "failed"}
    /\ at \in {"command", "engine", "reply"} <=> current \in Calls
    /\ current \notin ToSet(queue)
    /\ applied \subseteq Calls

\* While a person has the wheel the owner holds an activity for it, so that the
\* browser is not evicted, and a deadline that will end it.
LeaseIsCovered ==
    (control.lease # None /\ at \in {"loop", "command", "engine", "reply"})
        => human.activity \in Calls /\ human.left \in Times

\* An answer tells the truth about the effect: an input that was turned away
\* before its execution, as busy, closed or refused, has not reached the page.
RefusedHadNoEffect ==
    \A c \in applied : call[c].status \in {"waiting", "gone", "ok", "unavailable"}

\* Nobody keeps the wheel who had gone before the answer was sent: between commands
\* the person's activity is that of a take that was answered, and the lease, while
\* it lasts, is the one its ticket names.  The ticket is with the caller, on its
\* way, or lost with a caller dropped on the way; what ends the lease of a lost
\* ticket is LeaseIsCovered's deadline.
LeaseWasAnswered ==
    (at \in {"loop", "command", "engine"} /\ human.activity # None) =>
        LET c == call[human.activity] IN
        /\ c.status \in {"sent", "lost", "ok"}
        /\ control.lease # None => Valid(control, c.ticket) /\ control.lease.owner = c.actor

\* A lease does not pin the browser: the activity of a person is given up, by
\* release, by a later person, by the deadline or by the end of the session.
ActivityEnds == \A c \in Calls : []<>(human.activity # c)

\* Every command is answered, and a session that is told to stop ends without
\* any activity left, whatever is queued or in execution.
StopDrains ==
    /\ \A c \in Calls : []<>~Waiting(c)
    /\ []<>(stop => at \in {"closed", "failed"} /\ queue = <<>> /\ human = NoHuman)

=============================================================================

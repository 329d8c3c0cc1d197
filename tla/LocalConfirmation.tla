-------------------------- MODULE LocalConfirmation --------------------------
(***************************************************************************)
(* The desktop host's local confirmation: a sensitive change is allowed    *)
(* only while the window's binding holds a grant, and a grant is installed *)
(* only after the operating system's own dialog succeeded for this request.*)
(*                                                                         *)
(* Three parties share the coordinator's mutex: the POST requests (an      *)
(* async future plus the jobs it queues on the main thread), the native    *)
(* side (a worker thread that owns the dialog, and the task that polls it) *)
(* and the readers that ask whether a binding is fresh.  Every clock       *)
(* sample is taken before the mutex is locked and used after it.           *)
(*                                                                         *)
(* co       the coordinator (CoordinatorState and the cancellation tokens) *)
(* bind     each binding's shared state (BindingState)                     *)
(* bound    whether the window of a binding is open                        *)
(* req      the POST requests; admission is the service's semaphore        *)
(* owner    MacLocalAuthOwner's state, monitor the session monitor         *)
(* na       the native attempt of a confirmation attempt                   *)
(* task     the polling task of an attempt, disp what it sent back         *)
(* rd       one reader of freshness                                        *)
(* hard, hardAt, soft, softAt, grantOf   ghosts: revoking events counted,  *)
(*          and what the counts were when an attempt began or was installed*)
(***************************************************************************)
EXTENDS Integers, FiniteSets

CONSTANTS Requests, Bindings, None,
          WAIT, FRESH,        \* LOCAL_CONFIRMATION_WAIT_SECONDS, ..FRESHNESS..
          MaxTime,            \* bound on both clocks
          MaxAttempts,        \* bound on attempts
          MaxRollbacks,       \* how often the wall clock is set back
          MaxReads,           \* bound on freshness reads
          MaxEvents           \* bound on the environment's events, see Event

TimesAssumption ==
    WAIT \in Nat \ {0} /\ FRESH \in Nat \ {0} /\ MaxTime \in Nat /\ MaxAttempts \in Nat

VARIABLES clock, rollbacks, events, co, bind, bound, req, admission,
          owner, monitor, na, task, disp, rd, hard, hardAt, soft, softAt, grantOf

vars == <<clock, rollbacks, events, co, bind, bound, req, admission,
          owner, monitor, na, task, disp, rd, hard, hardAt, soft, softAt, grantOf>>

ghosts == <<hard, hardAt, soft, softAt, grantOf>>
native == <<owner, monitor, na, task, disp>>
clocks == <<clock, rollbacks, events>>
windows == <<bind, bound>>

Ids == 1..MaxAttempts
Samples == [mono : 0..MaxTime, wall : 0..MaxTime]
Active == {"Prepared", "Waiting", "Succeeded"}
Awaiting == {"precheck", "prepare", "waiting", "postcheck", "finish"}

(* ClockSample::elapsed_since: an error when either clock went backwards,   *)
(* otherwise the longer of the two durations.                               *)
Regressed(now, earlier) == now.mono < earlier.mono \/ now.wall < earlier.wall

Elapsed(now, earlier) ==
    LET m == now.mono - earlier.mono
        w == now.wall - earlier.wall
    IN  IF m >= w THEN m ELSE w

-----------------------------------------------------------------------------
(* The coordinator's transitions, each run under its mutex.                 *)

MutReleaseTerminal(c) ==
    IF c.pending # None /\ c.pending.phase \notin Active
    THEN [c EXCEPT !.pending = None] ELSE c

release_terminal(c) ==
    IF /\ c.pending # None
       /\ c.pending.phase \notin Active
       /\ ~c.pending.native_started \/ c.pending.native_stopped
    THEN [c EXCEPT !.pending = None] ELSE c

abort(c) ==
    IF c.pending = None THEN c
    ELSE release_terminal(
           [c EXCEPT !.pending.phase = IF @ \in Active THEN "Aborted" ELSE @,
                     !.tokens = @ \cup {c.pending.id}])

abort_id(c, id) == IF c.pending # None /\ c.pending.id = id THEN abort(c) ELSE c

invalidate(c) == abort([c EXCEPT !.epoch = @ + 1])

(* observe: a sample that lost the race for the mutex is refused and changes *)
(* nothing; a wall clock that really went back revokes everything; and the   *)
(* pending attempt expires once WAIT has passed on either clock.             *)
observe(c, now) ==
    LET seen == [c EXCEPT !.last = now]
    IN CASE /\ c.last # None
            /\ \/ now.mono < c.last.mono
               \/ now.mono = c.last.mono /\ now.wall < c.last.wall
              -> [ok |-> FALSE, stale |-> TRUE, c |-> c]
         [] /\ c.last # None
            /\ now.mono > c.last.mono /\ now.wall < c.last.wall
              -> [ok |-> FALSE, stale |-> FALSE, c |-> [invalidate(c) EXCEPT !.last = now]]
         [] OTHER
              -> IF c.pending = None \/ c.pending.phase \notin Active
                 THEN [ok |-> TRUE, stale |-> FALSE, c |-> seen]
                 ELSE IF Regressed(now, c.pending.began_at)
                 THEN [ok |-> FALSE, stale |-> FALSE, c |-> invalidate(seen)]
                 ELSE IF Elapsed(now, c.pending.began_at) < WAIT
                 THEN [ok |-> TRUE, stale |-> FALSE, c |-> seen]
                 ELSE [ok |-> TRUE, stale |-> FALSE, c |-> abort(seen)]

usable(c) == ~c.shutdown /\ c.available

live_attempt(c, id) ==
    /\ usable(c)
    /\ c.pending # None
    /\ c.pending.id = id
    /\ c.pending.epoch = c.epoch
    /\ c.pending.phase \in Active
    /\ id \notin c.tokens
    /\ ~bind[c.pending.binding].revoked

set_available(c, available) ==
    [(IF available THEN c ELSE invalidate(c)) EXCEPT !.available = available]

(* remaining: whether the binding's grant still counts at this sample.  A    *)
(* grant that no longer does is dropped on sight.                            *)
grant_live(c, g, now) ==
    /\ g # None
    /\ g.epoch = c.epoch /\ g.grant_epoch = c.grant_epoch /\ c.available
    /\ ~Regressed(now, g.at)
    /\ Elapsed(now, g.at) < FRESH

remaining(c, b, now) ==
    ~bind[b].revoked /\ ~c.shutdown /\ grant_live(c, bind[b].grant, now)

after_remaining(c, b, now) ==
    IF bind[b].revoked \/ c.shutdown \/ grant_live(c, bind[b].grant, now)
    THEN bind ELSE [bind EXCEPT ![b].grant = None]

(* record_outcome, called once by the polling task with the native reply.    *)
record_outcome(c, id, outcome, at, now) ==
    LET o == observe(c, now)
        p == o.c.pending
        To(phase, d) ==
            [c |-> release_terminal(
                     [o.c EXCEPT !.pending.phase = phase, !.pending.at = at,
                                 !.tokens = IF phase \in Active THEN @ ELSE @ \cup {id}]),
             disp |-> d]
    IN  CASE ~o.ok -> [c |-> abort_id(o.c, id), disp |-> "Rejected"]
          [] o.ok /\ ~live_attempt(o.c, id) -> [c |-> o.c, disp |-> "Rejected"]
          [] o.ok /\ live_attempt(o.c, id) ->
             IF ~p.native_started \/ p.native_stopped \/ p.phase # "Waiting"
             THEN [c |-> o.c, disp |-> "Rejected"]
             ELSE CASE outcome = "Cancelled" -> To("Aborted", "Cancelled")
                    [] outcome = "Unavailable" -> To("Aborted", "Unavailable")
                    [] outcome = "Confirmed" ->
                       IF \/ Regressed(at, p.began_at) \/ Regressed(now, at)
                          \/ Elapsed(at, p.began_at) >= WAIT
                       THEN [c |-> abort(o.c), disp |-> "Rejected"]
                       ELSE To("Succeeded", "NeedsPostcheck")

(* native_stopped: the only thing that releases a started attempt's slot.    *)
native_stopped(c, id) ==
    IF c.pending = None \/ c.pending.id # id THEN release_terminal(c)
    ELSE LET early == c.pending.phase \in {"Prepared", "Waiting"}
         IN  release_terminal(
               [c EXCEPT !.pending.native_stopped = TRUE,
                         !.pending.phase = IF early THEN "Aborted" ELSE @,
                         !.tokens = IF early THEN @ \cup {id} ELSE @])

-----------------------------------------------------------------------------
NoAttempt == [made |-> FALSE, b |-> None, dialog |-> "none", deadline |-> 0,
              terminal |-> FALSE, outcome |-> None, at |-> None,
              cancel_requested |-> FALSE, native_done |-> FALSE,
              native_stopped |-> FALSE, taken |-> FALSE]

NoRequest == [pc |-> "idle", b |-> None, began |-> None, last |-> None,
              now |-> None, id |-> 0, job |-> "none", action |-> None]

NoReader == [pc |-> "idle", b |-> None, now |-> None, n |-> 0]

Init ==
    /\ clock = [mono |-> 0, wall |-> MaxRollbacks]
    /\ rollbacks = 0 /\ events = 0
    /\ co = [available |-> TRUE, shutdown |-> FALSE, epoch |-> 1, grant_epoch |-> 1,
             next |-> 1, last |-> None, pending |-> None, tokens |-> {}]
    /\ bind = [b \in Bindings |-> [revoked |-> FALSE, grant |-> None]]
    /\ bound = [b \in Bindings |-> "open"]
    /\ req = [r \in Requests |-> NoRequest]
    /\ admission = None
    /\ owner = [stopping |-> FALSE, worker_done |-> FALSE, pending |-> None]
    /\ monitor = "live"
    /\ na = [id \in Ids |-> NoAttempt]
    /\ task = [id \in Ids |-> [pc |-> "none", now |-> None]]
    /\ disp = [id \in Ids |-> None]
    /\ rd = NoReader
    /\ hard = 0 /\ hardAt = [id \in Ids |-> 0]
    /\ soft = 0 /\ softAt = [b \in Bindings |-> 0]
    /\ grantOf = [b \in Bindings |-> 0]

is_available == monitor = "live" /\ ~owner.stopping /\ ~owner.worker_done

(* RequestBudget::sample: refused once either clock regressed since the last *)
(* sample of this request, or once WAIT has passed on either.                *)
SampleOk(r) ==
    /\ ~Regressed(clock, req[r].last)
    /\ clock.mono - req[r].began.mono < WAIT
    /\ clock.wall - req[r].began.wall < WAIT

(* What is left of a request that returned: only its queued job's share.     *)
Gone(r) == IF req[r].job = "none" THEN [NoRequest EXCEPT !.pc = "done"]
           ELSE [req[r] EXCEPT !.pc = "done"]

(* Leaving confirm by any return or by dropping its future: the attempt      *)
(* guard cancels the attempt, the permit is released and the request's       *)
(* cancelled flag is set.  A job already queued keeps running.               *)
Return(r, c) ==
    /\ co' = abort_id(c, req[r].id)
    /\ admission' = None
    /\ req' = [req EXCEPT ![r] = Gone(r)]

(* Locks, blurs, closed windows, identity failures, a failed monitor and the *)
(* shutdown share one budget.                                                *)
Event == events < MaxEvents /\ events' = events + 1 /\ UNCHANGED <<clock, rollbacks>>

(* A revoking event is counted when it takes effect.                         *)
Revoking(n) == hard' = hard + n /\ UNCHANGED <<hardAt, soft, softAt, grantOf>>

-----------------------------------------------------------------------------
(* The POST request.                                                        *)

(* confirm up to its first await.                                           *)
ConfirmStart(r, b) ==
    /\ req[r].pc = "idle" /\ bound[b] = "open" /\ admission = None
    /\ clock.mono + WAIT <= MaxTime
    /\ IF is_available
       THEN /\ admission' = r
            /\ req' = [req EXCEPT ![r] = [NoRequest EXCEPT !.pc = "precheck", !.b = b,
                                            !.began = clock, !.last = clock]]
            /\ UNCHANGED <<co, ghosts>>
       ELSE /\ co' = set_available(co, FALSE)
            /\ req' = [req EXCEPT ![r].pc = "done"]
            /\ Revoking(1)
            /\ UNCHANGED admission
    /\ UNCHANGED <<clocks, windows, native, rd>>

(* verify: the database agreed that the caller is still the administrator.   *)
VerifyOk(r) ==
    /\ req[r].pc \in {"precheck", "postcheck"}
    /\ bound[req[r].b] = "open"
    /\ req[r].pc = "postcheck" => req[r].id \notin co.tokens
    /\ IF SampleOk(r)
       THEN /\ req' = [req EXCEPT ![r].last = clock,
                                  ![r].pc = IF @ = "precheck" THEN "prepare" ELSE "finish",
                                  ![r].job = "queued",
                                  ![r].action = IF req[r].pc = "postcheck" THEN "Confirmed" ELSE @]
            /\ UNCHANGED <<co, admission, ghosts>>
       ELSE Return(r, invalidate(co)) /\ Revoking(1)
    /\ UNCHANGED <<clocks, windows, native, rd>>

(* verify: another identity, or an error.                                    *)
VerifyFails(r) ==
    /\ Event
    /\ req[r].pc \in {"precheck", "postcheck"}
    /\ Return(r, invalidate(co)) /\ Revoking(1)
    /\ UNCHANGED <<windows, native, rd>>

(* The window closed, the caller went away, or the native token was          *)
(* cancelled during the second verification.                                 *)
DropRequest(r) ==
    /\ req[r].pc \in Awaiting
    /\ Return(r, co)
    /\ UNCHANGED <<clocks, windows, native, rd, ghosts>>

(* sleep_until(budget.deadline) in every select of confirm.                  *)
Deadline(r) ==
    /\ req[r].pc \in Awaiting
    /\ clock.mono - req[r].began.mono >= WAIT
    /\ Return(r, invalidate(co)) /\ Revoking(1)
    /\ UNCHANGED <<clocks, windows, native, rd>>

(* A queued main-thread job, up to its clock sample.  The window guard is    *)
(* held for the whole job, so unbind waits for it.                           *)
JobCheck(r) ==
    /\ req[r].job = "queued"
    /\ LET c1 == IF is_available THEN co ELSE set_available(co, FALSE)
           refused == req[r].pc = "done" \/ bound[req[r].b] # "open"
           drop(c) == /\ co' = abort_id(c, req[r].id)
                      /\ req' = [req EXCEPT ![r] = [NoRequest EXCEPT !.pc = "done"]]
                      /\ admission' = IF admission = r THEN None ELSE admission
       IN  \/ (* not in the foreground, or no longer this window's request *)
              /\ refused \/ req[r].action # "Cancelled"
              /\ drop(co)
              /\ UNCHANGED <<ghosts>>
           \/ /\ ~refused /\ ~is_available
              /\ drop(c1) /\ Revoking(1)
           \/ /\ ~refused /\ is_available /\ ~SampleOk(r)
              /\ drop(invalidate(co)) /\ Revoking(1)
           \/ /\ ~refused /\ is_available /\ SampleOk(r)
              /\ req' = [req EXCEPT ![r].now = clock, ![r].last = clock, ![r].job = "run"]
              /\ co' = IF req[r].action = None THEN set_available(co, TRUE) ELSE co
              /\ UNCHANGED <<admission, ghosts>>
    /\ UNCHANGED <<clocks, windows, native, rd>>

(* PrepareLocalConfirmation::execute's begin.  An attempt whose receiver is  *)
(* gone is dropped, which cancels it.                                        *)
PrepareBegin(r) ==
    /\ req[r].job = "run" /\ req[r].action = None
    /\ LET o == observe(co, req[r].now)
           ok == o.ok /\ usable(o.c) /\ ~bind[req[r].b].revoked /\ o.c.pending = None
           id == o.c.next
           begun == [o.c EXCEPT !.next = @ + 1,
                       !.pending = [id |-> id, binding |-> req[r].b, epoch |-> o.c.epoch,
                                    began_at |-> req[r].now, native_started |-> FALSE,
                                    native_stopped |-> FALSE, phase |-> "Prepared", at |-> None]]
           failed(c) == /\ co' = c
                        /\ req' = [req EXCEPT ![r] = [NoRequest EXCEPT !.pc = "done"]]
                        /\ admission' = IF admission = r THEN None ELSE admission
       IN  \/ ~ok /\ failed(o.c) /\ UNCHANGED hardAt
           \/ ok /\ req[r].pc = "done" /\ id \in Ids /\ failed(abort(begun)) /\ UNCHANGED hardAt
           \/ /\ ok /\ req[r].pc # "done" /\ id \in Ids
              /\ co' = begun
              /\ req' = [req EXCEPT ![r].job = "none", ![r].pc = "prepared", ![r].id = id]
              /\ hardAt' = [hardAt EXCEPT ![id] = hard]
              /\ UNCHANGED admission
    /\ UNCHANGED <<clocks, windows, native, rd, hard, soft, softAt, grantOf>>

(* From the prepared attempt to the clock sample of start_native; no await.  *)
Prepared(r) ==
    /\ req[r].pc = "prepared"
    /\ \/ /\ bound[req[r].b] # "open"
          /\ Return(r, co) /\ UNCHANGED ghosts
       \/ /\ bound[req[r].b] = "open" /\ ~is_available
          /\ Return(r, set_available(co, FALSE)) /\ Revoking(1)
       \/ /\ bound[req[r].b] = "open" /\ is_available /\ ~SampleOk(r)
          /\ Return(r, invalidate(co)) /\ Revoking(1)
       \/ /\ bound[req[r].b] = "open" /\ is_available /\ SampleOk(r)
          /\ req' = [req EXCEPT ![r].now = clock, ![r].last = clock, ![r].pc = "start"]
          /\ UNCHANGED <<co, admission, ghosts>>
    /\ UNCHANGED <<clocks, windows, native, rd>>

StartNative(r) ==
    /\ req[r].pc = "start"
    /\ LET o == observe(co, req[r].now)
           ok == o.ok /\ live_attempt(o.c, req[r].id) /\ o.c.pending.phase = "Prepared"
       IN  IF ok
           THEN /\ co' = [o.c EXCEPT !.pending.native_started = TRUE, !.pending.phase = "Waiting"]
                /\ req' = [req EXCEPT ![r].pc = "dispatch"]
                /\ UNCHANGED admission
           ELSE Return(r, o.c)
    /\ UNCHANGED <<clocks, windows, native, rd, ghosts>>

(* MacLocalConfirmationNative::start.  When the owner refuses, the token is  *)
(* answered and released at once.                                            *)
Dispatch(r) ==
    /\ req[r].pc = "dispatch"
    /\ LET id == req[r].id
           given == is_available /\ owner.pending = None
       IN  IF given
           THEN /\ owner' = [owner EXCEPT !.pending = id]
                /\ na' = [na EXCEPT ![id] = [NoAttempt EXCEPT !.made = TRUE, !.b = req[r].b,
                                               !.deadline = clock.mono + WAIT]]
                /\ task' = [task EXCEPT ![id].pc = "poll"]
                /\ req' = [req EXCEPT ![r].pc = "waiting"]
                /\ UNCHANGED <<co, admission>>
           ELSE /\ Return(r, native_stopped(
                       record_outcome(co, id, "Unavailable", None, clock).c, id))
                /\ UNCHANGED <<owner, na, task>>
    /\ UNCHANGED <<clocks, windows, monitor, disp, rd, ghosts>>

(* The disposition arrives, or the polling task dropped the sender.          *)
Receive(r) ==
    /\ req[r].pc = "waiting"
    /\ LET d == disp[req[r].id]
       IN  \/ /\ d = "NeedsPostcheck" /\ SampleOk(r)
              /\ req' = [req EXCEPT ![r].pc = "postcheck", ![r].last = clock]
              /\ UNCHANGED <<co, admission, ghosts>>
           \/ /\ d = "NeedsPostcheck" /\ ~SampleOk(r)
              /\ Return(r, invalidate(co)) /\ Revoking(1)
           \/ /\ d = "Cancelled"
              /\ req' = [req EXCEPT ![r].pc = "finish", ![r].job = "queued",
                                    ![r].action = "Cancelled"]
              /\ UNCHANGED <<co, admission, ghosts>>
           \/ /\ d = "Unavailable"
              /\ Return(r, set_available(co, FALSE)) /\ Revoking(1)
           \/ /\ d = "Rejected" \/ (d = None /\ task[req[r].id].pc = "done")
              /\ Return(r, co) /\ UNCHANGED ghosts
    /\ UNCHANGED <<clocks, windows, native, rd>>

(* FinishLocalConfirmation::execute: the grant is written, or a user's        *)
(* cancellation is answered.  The consumed attempt is dropped either way.     *)
FinishJob(r) ==
    /\ req[r].job = "run" /\ req[r].action # None
    /\ LET id == req[r].id
           b == req[r].b
           now == req[r].now
           c0 == IF req[r].action = "Cancelled" THEN abort_id(co, id) ELSE co
           o == observe(c0, now)
           ok == /\ req[r].action = "Confirmed" /\ o.ok
                 /\ live_attempt(o.c, id) /\ o.c.pending.phase = "Succeeded"
                 /\ ~Regressed(now, o.c.pending.at)
                 /\ Elapsed(now, o.c.pending.at) < FRESH
           done == [o.c EXCEPT !.pending.phase = "Completed"]
       IN  /\ co' = abort_id(IF ok THEN release_terminal(done) ELSE o.c, id)
           /\ bind' = IF ok
                      THEN [bind EXCEPT ![b].grant = [epoch |-> o.c.epoch,
                                  grant_epoch |-> o.c.grant_epoch, at |-> o.c.pending.at]]
                      ELSE IF req[r].action = "Cancelled" /\ o.ok
                      THEN after_remaining(o.c, b, now) ELSE bind
           /\ grantOf' = IF ok THEN [grantOf EXCEPT ![b] = id] ELSE grantOf
           /\ softAt' = IF ok THEN [softAt EXCEPT ![b] = soft] ELSE softAt
    /\ req' = [req EXCEPT ![r] = [NoRequest EXCEPT !.pc = "done"]]
    /\ admission' = IF admission = r THEN None ELSE admission
    /\ UNCHANGED <<clocks, bound, native, rd, hard, hardAt, soft>>

-----------------------------------------------------------------------------
(* The native owner's worker thread, and the dialog of the operating system. *)

expire(a) ==
    IF ~a.terminal /\ clock.mono >= a.deadline
    THEN [a EXCEPT !.terminal = TRUE, !.outcome = "Unavailable", !.cancel_requested = TRUE]
    ELSE a

MutNativeCancel(a, outcome) ==
    [a EXCEPT !.cancel_requested = TRUE,
              !.terminal = TRUE,
              !.outcome = IF a.terminal THEN @ ELSE outcome]

(* Attempt::cancel: cancellation dominates a success not yet delivered.      *)
native_cancel(a, outcome) ==
    IF ~a.terminal \/ (a.outcome = "Confirmed" /\ ~a.taken)
    THEN [a EXCEPT !.cancel_requested = TRUE, !.terminal = TRUE, !.outcome = outcome]
    ELSE [a EXCEPT !.cancel_requested = TRUE]

(* Completion::finish                                                        *)
native_finish(a0, result) ==
    LET a == expire([a0 EXCEPT !.native_done = TRUE])
        b == IF result = "Cancelled" THEN [a EXCEPT !.cancel_requested = TRUE] ELSE a
    IN  IF b.terminal THEN [b EXCEPT !.dialog = "gone"]
        ELSE [b EXCEPT !.terminal = TRUE, !.dialog = "gone",
                       !.outcome = IF owner.stopping \/ owner.worker_done
                                   THEN "Unavailable" ELSE result,
                       !.at = clock]

(* The worker picks the pending attempt up and shows the dialog, unless it   *)
(* was cancelled meanwhile or the system refuses.                            *)
WorkerStart(id) ==
    /\ owner.pending = id /\ ~owner.worker_done /\ na[id].dialog = "none"
    /\ LET a == expire(na[id])
           live == ~owner.stopping /\ ~a.terminal /\ ~a.cancel_requested
       IN  \/ live /\ na' = [na EXCEPT ![id] = [a EXCEPT !.dialog = "up"]]
           \/ live /\ na' = [na EXCEPT ![id] = native_finish(a, "Unavailable")]
           \/ ~live /\ na' = [na EXCEPT ![id] = native_finish(a, "Cancelled")]
    /\ UNCHANGED <<clocks, co, windows, req, admission, owner, monitor, task, disp, rd, ghosts>>

(* The worker's own deadline wait: it invalidates the dialog and keeps the   *)
(* slot until the callback.                                                  *)
WorkerExpire(id) ==
    /\ owner.pending = id /\ ~na[id].native_done
    /\ ~na[id].terminal /\ clock.mono >= na[id].deadline
    /\ na' = [na EXCEPT ![id] = expire(@)]
    /\ UNCHANGED <<clocks, co, windows, req, admission, owner, monitor, task, disp, rd, ghosts>>

(* The system's reply callback, with both clocks read on entry.              *)
DialogReply(id, result) ==
    /\ na[id].dialog = "up"
    /\ na' = [na EXCEPT ![id] = native_finish(@, result)]
    /\ UNCHANGED <<clocks, co, windows, req, admission, owner, monitor, task, disp, rd, ghosts>>

(* The worker retires the attempt, and itself when it was told to stop.      *)
WorkerRetire(id) ==
    /\ owner.pending = id /\ na[id].native_done
    /\ na' = [na EXCEPT ![id].native_stopped = TRUE]
    /\ owner' = [owner EXCEPT !.pending = None, !.worker_done = owner.stopping]
    /\ UNCHANGED <<clocks, co, windows, req, admission, monitor, task, disp, rd, ghosts>>

WorkerExit ==
    /\ owner.stopping /\ owner.pending = None /\ ~owner.worker_done
    /\ owner' = [owner EXCEPT !.worker_done = TRUE]
    /\ UNCHANGED <<clocks, co, windows, req, admission, monitor, na, task, disp, rd, ghosts>>

-----------------------------------------------------------------------------
(* The polling task: pass a cancellation on, record the outcome, release the *)
(* slot.                                                                     *)
TaskCancel(id) ==
    /\ task[id].pc = "poll" /\ id \in co.tokens /\ ~na[id].cancel_requested
    /\ na' = [na EXCEPT ![id] = native_cancel(@, "Cancelled")]
    /\ UNCHANGED <<clocks, co, windows, req, admission, owner, monitor, task, disp, rd, ghosts>>

(* try_take_outcome: expiry and a stopping owner override what is there.     *)
TaskTake(id) ==
    /\ task[id].pc = "poll" /\ ~na[id].taken
    /\ LET a == expire(na[id])
           t == IF /\ owner.stopping \/ owner.worker_done
                   /\ ~a.terminal \/ a.outcome = "Confirmed"
                THEN native_cancel(a, "Unavailable") ELSE a
       IN  /\ t.outcome # None
           /\ na' = [na EXCEPT ![id] = [t EXCEPT !.taken = TRUE]]
    /\ task' = [task EXCEPT ![id] = [pc |-> "record", now |-> clock]]
    /\ UNCHANGED <<clocks, co, windows, req, admission, owner, monitor, disp, rd, ghosts>>

TaskRecord(id) ==
    /\ task[id].pc = "record"
    /\ LET s == record_outcome(co, id, na[id].outcome, na[id].at, task[id].now)
       IN  /\ co' = s.c
           /\ disp' = [disp EXCEPT ![id] = s.disp]
    /\ task' = [task EXCEPT ![id] = [pc |-> "poll", now |-> None]]
    /\ UNCHANGED <<clocks, windows, req, admission, owner, monitor, na, rd, ghosts>>

TaskStop(id) ==
    /\ task[id].pc = "poll" /\ na[id].native_stopped
    /\ co' = native_stopped(co, id)
    /\ task' = [task EXCEPT ![id].pc = "done"]
    /\ UNCHANGED <<clocks, windows, req, admission, owner, monitor, na, disp, rd, ghosts>>

-----------------------------------------------------------------------------
(* Readers, the host's events and the clocks.                               *)

(* WindowAuthority::is_fresh and the status reads: health first, then a      *)
(* sample, then the coordinator.                                             *)
ReadSample(b) ==
    /\ rd.pc # "apply" /\ rd.n < MaxReads /\ bound[b] = "open"
    /\ IF is_available
       THEN rd' = [pc |-> "apply", b |-> b, now |-> clock, n |-> rd.n + 1] /\ UNCHANGED <<co, ghosts>>
       ELSE /\ co.available
            /\ co' = set_available(co, FALSE) /\ Revoking(1)
            /\ rd' = [NoReader EXCEPT !.pc = "no", !.n = rd.n + 1]
    /\ UNCHANGED <<clocks, windows, req, admission, native>>

ReadApply ==
    /\ rd.pc = "apply"
    /\ LET o == observe(co, rd.now)
           yes == o.ok /\ remaining(o.c, rd.b, rd.now)
       IN  /\ co' = o.c
           /\ bind' = IF o.ok THEN after_remaining(o.c, rd.b, rd.now) ELSE bind
           /\ rd' = [rd EXCEPT !.pc = IF yes THEN "yes" ELSE "no", !.b = None, !.now = None]
    /\ UNCHANGED <<clocks, bound, req, admission, native, ghosts>>

(* Screen lock, sleep, wake, session switch: delivered while the monitor is  *)
(* live.                                                                     *)
SessionEvent ==
    /\ Event
    /\ monitor = "live"
    /\ co' = invalidate(co) /\ Revoking(1)
    /\ UNCHANGED <<windows, req, admission, native, rd>>

(* AppResignedActive clears existing grants and leaves the attempt alone.    *)
AppResigned ==
    /\ Event
    /\ monitor = "live"
    /\ co' = [co EXCEPT !.grant_epoch = @ + 1]
    /\ soft' = soft + 1
    /\ UNCHANGED <<windows, req, admission, native, rd, hard, hardAt, softAt, grantOf>>

(* clear_window_confirmation                                                 *)
WindowBlur(b) ==
    /\ Event
    /\ bound[b] = "open" /\ bind[b].grant # None
    /\ bind' = [bind EXCEPT ![b].grant = None]
    /\ UNCHANGED <<co, bound, req, admission, native, rd, ghosts>>

revoke(b) ==
    /\ bind' = [bind EXCEPT ![b].revoked = TRUE, ![b].grant = None]
    /\ co' = IF co.pending # None /\ co.pending.binding = b THEN abort(co) ELSE co

(* unbind_window takes the registry's write lock, so no job is running.      *)
Unbind(b) ==
    /\ Event
    /\ bound[b] = "open"
    /\ \A r \in Requests : req[r].job # "run"
    /\ bound' = [bound EXCEPT ![b] = "closed"]
    /\ revoke(b)
    /\ UNCHANGED <<req, admission, native, rd, ghosts>>

(* The session monitor failed (a callback panicked): it delivers nothing     *)
(* more and never reports live again.                                        *)
MonitorFails ==
    /\ Event
    /\ monitor = "live"
    /\ monitor' = "failed"
    /\ UNCHANGED <<co, windows, req, admission, owner, na, task, disp, rd, ghosts>>

(* LocalConfirmationService::shutdown                                        *)
Shutdown ==
    /\ Event
    /\ ~co.shutdown
    /\ co' = invalidate([co EXCEPT !.shutdown = TRUE, !.available = FALSE])
    /\ monitor' = IF monitor = "live" THEN "closed" ELSE monitor
    /\ owner' = [owner EXCEPT !.stopping = TRUE]
    /\ na' = [id \in Ids |-> IF owner.pending = id
                             THEN native_cancel(na[id], "Unavailable") ELSE na[id]]
    /\ Revoking(1)
    /\ UNCHANGED <<windows, req, admission, task, disp, rd>>

Tick ==
    /\ clock.mono < MaxTime
    /\ clock' = [mono |-> clock.mono + 1,
                 wall |-> IF clock.wall < MaxTime THEN clock.wall + 1 ELSE clock.wall]
    /\ UNCHANGED <<rollbacks, events, co, windows, req, admission, native, rd, ghosts>>

(* The wall clock is set back.                                               *)
Rollback ==
    /\ rollbacks < MaxRollbacks /\ clock.wall > 0
    /\ clock' = [clock EXCEPT !.wall = @ - 1]
    /\ rollbacks' = rollbacks + 1
    /\ UNCHANGED <<events, co, windows, req, admission, native, rd, ghosts>>

-----------------------------------------------------------------------------
RequestStep(r) ==
    \/ Deadline(r)
    \/ Prepared(r) \/ StartNative(r) \/ Dispatch(r) \/ Receive(r)

Verify(r) == VerifyOk(r) \/ VerifyFails(r)

JobStep(r) == JobCheck(r) \/ PrepareBegin(r) \/ FinishJob(r)

NativeStep(id) ==
    \/ WorkerStart(id) \/ WorkerExpire(id) \/ WorkerRetire(id)
    \/ TaskCancel(id) \/ TaskTake(id) \/ TaskRecord(id) \/ TaskStop(id)

Next ==
    \/ \E r \in Requests, b \in Bindings : ConfirmStart(r, b)
    \/ \E r \in Requests : RequestStep(r) \/ JobStep(r) \/ Verify(r) \/ DropRequest(r)
    \/ \E id \in Ids : NativeStep(id)
    \/ \E id \in Ids, o \in {"Confirmed", "Cancelled", "Unavailable"} : DialogReply(id, o)
    \/ WorkerExit
    \/ \E b \in Bindings : ReadSample(b) \/ WindowBlur(b) \/ Unbind(b)
    \/ ReadApply
    \/ SessionEvent \/ AppResigned \/ MonitorFails \/ Shutdown
    \/ Tick \/ Rollback

Spec == Init /\ [][Next]_vars

(* The runtime polls its futures, the main thread runs its queue, the worker *)
(* and the task keep looping, time passes, and a dialog that was invalidated *)
(* or timed out is answered by the system.  The database is not assumed to   *)
(* answer.                                                                   *)
FairSteps == {<<"tick">>} \cup ({"request", "job"} \X Requests) \cup ({"native", "reply"} \X Ids)

FairStep(f) ==
    \/ f[1] = "tick" /\ Tick
    \/ f[1] = "request" /\ RequestStep(f[2])
    \/ f[1] = "job" /\ JobStep(f[2])
    \/ f[1] = "native" /\ NativeStep(f[2])
    \/ f[1] = "reply" /\ na[f[2]].cancel_requested /\ DialogReply(f[2], "Cancelled")

-----------------------------------------------------------------------------
(* The type invariant: phases, attempts and clocks stay in their domains, a   *)
(* pending attempt has an id below next, and only an admitted request holds   *)
(* the permit.                                                                *)
TypeOK ==
    /\ clock \in Samples /\ rollbacks \in 0..MaxRollbacks
    /\ co.epoch \in Nat /\ co.grant_epoch \in Nat /\ co.next \in 1..(MaxAttempts + 1)
    /\ co.last \in Samples \cup {None} /\ co.tokens \subseteq Ids
    /\ co.pending # None =>
         /\ co.pending.id \in 1..(co.next - 1) /\ co.pending.binding \in Bindings
         /\ co.pending.phase \in Active \cup {"Aborted", "Completed"}
         /\ co.pending.phase = "Succeeded" => co.pending.at \in Samples
    /\ bound \in [Bindings -> {"open", "closed"}]
    /\ \A b \in Bindings : bind[b].grant # None => bind[b].grant.at \in Samples
    /\ admission # None => req[admission].pc \notin {"idle", "done"}
    /\ owner.pending \in Ids \cup {None}
    /\ \A id \in Ids : na[id].outcome \in {None, "Confirmed", "Cancelled", "Unavailable"}
    /\ rd.pc \in {"idle", "apply", "yes", "no"}

(* The host's slot is held for as long as a dialog may be on the screen: a    *)
(* request that was dropped or timed out does not free it, so there are never *)
(* two dialogs (release_terminal, native_stopped).                            *)
SlotCoversDialog ==
    \A id \in Ids : na[id].dialog = "up" =>
        /\ co.pending # None /\ co.pending.id = id
        /\ co.pending.native_started /\ ~co.pending.native_stopped

(* What a grant that counts has behind it: the dialog of its own attempt, for *)
(* this binding, succeeded less than FRESH ago on both clocks, and nothing    *)
(* has revoked it: no lock, sleep, health loss, identity failure or timeout   *)
(* since the attempt began, no blur since it was installed.                   *)
Earned(b, now) ==
    /\ grantOf[b] \in Ids /\ na[grantOf[b]].b = b
    /\ na[grantOf[b]].outcome = "Confirmed"
    /\ now.mono - na[grantOf[b]].at.mono \in 0..(FRESH - 1)
    /\ now.wall - na[grantOf[b]].at.wall \in 0..(FRESH - 1)
    /\ hardAt[grantOf[b]] = hard
    /\ softAt[b] = soft
    /\ bound[b] = "open"

(* Whenever a read answers fresh, the grant was earned and not revoked, by    *)
(* the sample the read used, however late it got the mutex.                   *)
FreshIsEarned ==
    [][rd.pc = "apply" /\ rd'.pc = "yes" => Earned(rd.b, rd.now)]_vars

(* A grant is written only for a request that is still there, in a window     *)
(* that is still open, within WAIT of the attempt's beginning; and a write    *)
(* never brings an older confirmation back (install, RequestGuard).           *)
InstallIsOwned ==
    [][\A b \in Bindings :
          bind'[b].grant # None /\ bind'[b].grant # bind[b].grant =>
            /\ \E r \in Requests :
                 /\ req[r].b = b /\ req[r].pc = "finish" /\ req[r].job = "run"
                 /\ na[req[r].id].outcome = "Confirmed"
                 /\ Elapsed(req[r].now, req[r].began) < WAIT
            /\ bound[b] = "open"
            /\ grantOf'[b] > grantOf[b]]_vars

(* Losing a race for the mutex is not a clock rollback: as long as nothing    *)
(* revoking happened and the wall clock never moved back, the epoch stands    *)
(* and no grant is lost (observe).                                            *)
NoSpuriousRevocation == hard = 0 /\ rollbacks = 0 => co.epoch = 1

(* A cancelled attempt never yields a confirmation to the host after the      *)
(* cancellation was passed on: an undelivered success is overwritten.         *)
CancelDominates ==
    [][\A id \in Ids :
          na[id].cancel_requested /\ ~na[id].taken /\ na'[id].taken =>
            na'[id].outcome # "Confirmed"]_vars

(* Every request ends, also one whose dialog the person ignores (WAIT, and    *)
(* the system answers the dialogs it was asked to dismiss).                   *)
RequestsEnd == \A r \in Requests : []<>(req[r].pc \in {"idle", "done"})

(* The host's only slot is given back, whoever began and gave up.             *)
SlotIsFreed == []<>(co.pending = None)
=============================================================================

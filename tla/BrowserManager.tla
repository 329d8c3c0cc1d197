--------------------------- MODULE BrowserManager ---------------------------
(***************************************************************************)
(* The owner of the live browsers (openbot-computer/src/manager.rs).  A    *)
(* caller gets a browser with a lease: an existing one at once, a new one  *)
(* under the lifecycle mutex, in whose name also every browser is retired. *)
(* The launch and the retirement of a browser suspend the caller; leases   *)
(* come and go meanwhile, and a suspended caller may be dropped.           *)
(*                                                                         *)
(* A browser is a process with one handle, shared by reference counting:   *)
(* it is closed by the driver (external) through an unshared handle, and   *)
(* ended by force when the last reference to its handle is dropped.        *)
(***************************************************************************)
EXTENDS Naturals, FiniteSets, Sequences, SequencesExt

CONSTANTS
    Tasks,       \* callers of the manager
    Scopes,      \* security scopes
    Instances,   \* what callers ask for: records of scope, computer, generation
    Browsers,    \* identities of handles
    maximum_live,
    Absent

ManagerAssumption ==
    /\ Instances \subseteq [scope : Scopes, computer : Nat, generation : Nat]
    /\ maximum_live \in Nat \ {0}
    /\ IsFiniteSet(Tasks) /\ IsFiniteSet(Scopes)
    /\ Absent \notin Tasks /\ Absent \notin Instances /\ Absent \notin Browsers
    /\ Absent \notin [instance : Instances, browser : Browsers, idle : BOOLEAN, leases : Nat]

VARIABLES
    live,       \* the resident browser of a scope: instance, handle, idle, leases
    touched,    \* the scopes, the least recently touched first (touch_order)
    closed,     \* the manager takes no new work
    lifecycle,  \* who holds the lifecycle mutex
    task,       \* what a caller is doing and what it owns
    running,    \* browser processes
    shut        \* a close_all has returned successfully

browserVars == <<live, touched, closed, lifecycle, task, running, shut>>

-----------------------------------------------------------------------------

Resting == [pc |-> "idle", op |-> Absent, instance |-> Absent, keys |-> {}, victims |-> {},
            browser |-> Absent, notified |-> FALSE, failed |-> FALSE]

Owned(t) == {v.browser : v \in task[t].victims} \cup ({task[t].browser} \ {Absent})

Resident == {s \in Scopes : live[s] # Absent}

Referenced == {live[s].browser : s \in Resident} \cup UNION {Owned(t) : t \in Tasks}

\* Arc::try_unwrap succeeds: no lease, also none that is being dropped, has
\* another reference to the handle.
Unshared(b, t) == \A u \in Tasks \ {t} : b \notin Owned(u)

Unleased(s) == live[s].leases = 0

Inst(s) == live[s].instance

\* validate_identity.
Foreign(i) == live[i.scope] # Absent /\ Inst(i.scope).computer # i.computer

Stale(i) == live[i.scope] # Absent /\ i.generation < Inst(i.scope).generation

Same(i) == live[i.scope] # Absent /\ Inst(i.scope) = i

BrowserInit ==
    /\ live = [s \in Scopes |-> Absent]
    /\ touched = SetToSeq(Scopes)
    /\ closed = FALSE
    /\ lifecycle = Absent
    /\ task = [t \in Tasks |-> Resting]
    /\ running = {}
    /\ shut = FALSE

Become(t, r) == task' = [task EXCEPT ![t] = r]

At(t, pc) == task[t].pc = pc

Goes(t, pc) == Become(t, [task[t] EXCEPT !.pc = pc])

Free == lifecycle = Absent

\* The call returns and, if it had it, gives up the lifecycle mutex.
Returns(t) ==
    /\ Become(t, Resting)
    /\ lifecycle' = IF lifecycle = t THEN Absent ELSE lifecycle

Touch(s) == touched' = Append(RemoveFirst(touched, s), s)

\* The caller has the lease and nothing else.
Leased(t, i, b) ==
    /\ Become(t, [Resting EXCEPT !.pc = "leased", !.instance = i, !.browser = b])
    /\ lifecycle' = IF lifecycle = t THEN Absent ELSE lifecycle

\* try_existing finds the exact instance.
LendExisting(t, i) ==
    /\ ~closed /\ Same(i)
    /\ Touch(i.scope)
    /\ live' = [live EXCEPT ![i.scope].idle = FALSE, ![i.scope].leases = @ + 1]
    /\ Leased(t, i, live[i.scope].browser)

\* try_existing answers Closed, ScopeIdentityConflict or StaleGeneration.
Refuses(i) == closed \/ Foreign(i) \/ Stale(i)

\* try_existing answers None: no browser, or one of an older generation.
Misses(i) == ~Refuses(i) /\ ~Same(i)

acquire_existing(t, i) ==
    /\ At(t, "idle")
    /\ LendExisting(t, i)
    /\ UNCHANGED <<closed, running, shut>>

ensure(t, i) ==
    /\ At(t, "idle")
    /\ \/ LendExisting(t, i)
       \/ Misses(i)
          /\ Become(t, [Resting EXCEPT !.pc = "queued", !.op = "ensure", !.instance = i])
          /\ UNCHANGED <<live, touched, lifecycle>>
    /\ UNCHANGED <<closed, running, shut>>

\* ensure has the lifecycle mutex and looks again.
recheck(t) ==
    LET i == task[t].instance IN
    /\ At(t, "queued") /\ task[t].op = "ensure" /\ Free
    /\ \/ LendExisting(t, i)
       \/ Refuses(i) /\ Returns(t) /\ UNCHANGED <<live, touched>>
       \/ Misses(i) /\ Goes(t, "choose") /\ lifecycle' = t /\ UNCHANGED <<live, touched>>
    /\ UNCHANGED <<closed, running, shut>>

\* The least recently touched browser without a lease.
Lru(s) ==
    LET at(r) == CHOOSE n \in 1..Len(touched) : touched[n] = r IN
    /\ s \in Resident /\ Unleased(s)
    /\ \A r \in Resident : Unleased(r) => at(s) <= at(r)

Take(t, set, pc) ==
    /\ Become(t, [task[t] EXCEPT !.pc = pc, !.keys = {}, !.victims = {live[s] : s \in set}])
    /\ live' = [s \in Scopes |-> IF s \in set THEN Absent ELSE live[s]]

MayReplace(i) ==
    /\ ~Foreign(i)
    /\ i.generation > Inst(i.scope).generation
    /\ Unleased(i.scope)

Full == Cardinality(Resident) >= maximum_live

\* ensure selects who must go before the launch and takes it out of the table,
\* or refuses: closed, a wrong identity or generation, or everybody is leased.
choose(t) ==
    LET i == task[t].instance
        new == live[i.scope] = Absent IN
    /\ At(t, "choose")
    /\ \/ ~closed /\ ~new /\ MayReplace(i) /\ Take(t, {i.scope}, "launch") /\ UNCHANGED lifecycle
       \/ ~closed /\ new /\ ~Full /\ Take(t, {}, "launch") /\ UNCHANGED lifecycle
       \/ ~closed /\ new /\ Full
          /\ \E s \in Scopes : Lru(s) /\ Take(t, {s}, "launch")
          /\ UNCHANGED lifecycle
       \/ /\ \/ closed
             \/ ~new /\ ~MayReplace(i)
             \/ new /\ Full /\ \A s \in Resident : ~Unleased(s)
          /\ Returns(t)
          /\ UNCHANGED live
    /\ UNCHANGED <<touched, closed, running, shut>>

\* A launch has a new handle; Browsers bounds how many are known at a time.
Fresh == Browsers \ (running \cup Referenced)

launch_ok(t) ==
    /\ At(t, "launch")
    /\ Fresh # {}
    /\ LET b == CHOOSE b \in Fresh : TRUE IN
       /\ running' = running \cup {b}
       /\ Become(t, [task[t] EXCEPT !.browser = b,
                       !.pc = IF task[t].victims = {} THEN "insert" ELSE "retire"])
    /\ UNCHANGED <<live, touched, closed, lifecycle, shut>>

Restored(t) ==
    [s \in Scopes |-> IF \E v \in task[t].victims : v.instance.scope = s
                      THEN CHOOSE v \in task[t].victims : v.instance.scope = s
                      ELSE live[s]]

\* The launch failed: the selected browser goes back to its place.
launch_failed(t) ==
    /\ At(t, "launch")
    /\ live' = Restored(t)
    /\ Returns(t)
    /\ UNCHANGED <<touched, closed, running, shut>>

\* What follows the last retirement of an operation.
AfterRetirement(t, rest, failed) ==
    IF rest # {}
    THEN /\ Become(t, [task[t] EXCEPT !.victims = rest, !.failed = failed])
         /\ UNCHANGED <<lifecycle, shut>>
    ELSE IF task[t].op = "ensure"
    THEN /\ Become(t, [task[t] EXCEPT !.victims = {}, !.pc = IF failed THEN "rollback" ELSE "insert"])
         /\ UNCHANGED <<lifecycle, shut>>
    ELSE /\ Returns(t)
         /\ shut' = (shut \/ (task[t].op = "close_all" /\ ~failed))

\* retire, for the next of the selected browsers: through its unshared handle the
\* driver closes it, perhaps with an error; a shared one answers Invariant and
\* only loses this reference.
retire(t) ==
    /\ At(t, "retire")
    /\ \E v \in task[t].victims :
         \/ /\ Unshared(v.browser, t)
            /\ running' = running \ {v.browser}
            /\ \E error \in BOOLEAN :
                 AfterRetirement(t, task[t].victims \ {v}, task[t].failed \/ error)
         \/ /\ ~Unshared(v.browser, t)
            /\ UNCHANGED running
            /\ AfterRetirement(t, task[t].victims \ {v}, TRUE)
    /\ UNCHANGED <<live, touched, closed>>

MayInsert(t) == ~closed /\ live[task[t].instance.scope] = Absent

\* The new browser becomes visible, with the caller's lease.
insert(t) ==
    LET i == task[t].instance IN
    /\ At(t, "insert")
    /\ IF MayInsert(t)
       THEN /\ Touch(i.scope)
            /\ live' = [live EXCEPT ![i.scope] = [instance |-> i, browser |-> task[t].browser,
                                                  idle |-> FALSE, leases |-> 1]]
            /\ Leased(t, i, task[t].browser)
       ELSE Goes(t, "rollback") /\ UNCHANGED <<live, touched, lifecycle>>
    /\ UNCHANGED <<closed, running, shut>>

\* The new browser is closed again (LaunchRollback) and the call fails.
launch_rollback(t) ==
    /\ At(t, "rollback")
    /\ running' = running \ {task[t].browser}
    /\ Returns(t)
    /\ UNCHANGED <<live, touched, closed, shut>>

\* Time: the last use of the browser is at or before the idle cutoff.
age(s) ==
    /\ s \in Resident /\ ~live[s].idle
    /\ live' = [live EXCEPT ![s].idle = TRUE]
    /\ UNCHANGED <<touched, closed, lifecycle, task, running, shut>>

sweep_idle(t) ==
    /\ At(t, "idle")
    /\ Become(t, [Resting EXCEPT !.pc = "queued", !.op = "sweep"])
    /\ UNCHANGED <<live, touched, closed, lifecycle, running, shut>>

\* choose_idle, over the browsers without a lease.
sweep_choose(t) ==
    /\ At(t, "queued") /\ task[t].op = "sweep" /\ Free
    /\ lifecycle' = t
    /\ Become(t, [task[t] EXCEPT !.pc = "sweep",
                    !.keys = {s \in Resident : Unleased(s) /\ live[s].idle}])
    /\ UNCHANGED <<live, touched, closed, running, shut>>

MutStillUnleased(s) == s \in Resident

StillUnleased(s) == s \in Resident /\ Unleased(s)

\* The table was unlocked since: only those still without a lease are taken.
sweep_take(t) ==
    LET keys == {s \in task[t].keys : StillUnleased(s)} IN
    /\ At(t, "sweep")
    /\ \/ keys # {} /\ Take(t, keys, "retire") /\ UNCHANGED lifecycle
       \/ keys = {} /\ Returns(t) /\ UNCHANGED live
    /\ UNCHANGED <<touched, closed, running, shut>>

\* stop, or stop_after_drain, whose Notified is enabled before each attempt.
stop_browser(t, i, op) ==
    /\ At(t, "idle")
    /\ op \in {"stop", "stop_after_drain"}
    /\ Become(t, [Resting EXCEPT !.pc = "queued", !.op = op, !.instance = i])
    /\ UNCHANGED <<live, touched, closed, lifecycle, running, shut>>

\* Busy ends a stop; a stop_after_drain awaits the release of a lease.
Busy(t) ==
    IF task[t].op = "stop_after_drain"
    THEN Goes(t, "busy") /\ UNCHANGED lifecycle
    ELSE Returns(t)

stop_take(t) ==
    LET i == task[t].instance
        known == live[i.scope] # Absent /\ ~Foreign(i) /\ ~Stale(i) IN
    /\ At(t, "queued") /\ task[t].op \in {"stop", "stop_after_drain"} /\ Free
    /\ \/ ~known /\ Returns(t) /\ UNCHANGED live
       \/ known /\ ~Unleased(i.scope) /\ Busy(t) /\ UNCHANGED live
       \/ known /\ Unleased(i.scope) /\ Take(t, {i.scope}, "retire") /\ lifecycle' = t
    /\ UNCHANGED <<touched, closed, running, shut>>

\* The stop has returned Busy; its caller goes on to await the notification.
await_release(t) ==
    /\ At(t, "busy")
    /\ Goes(t, "waiting")
    /\ UNCHANGED <<live, touched, closed, lifecycle, running, shut>>

\* The notification has arrived: the next attempt, with a new Notified.
wake(t) ==
    /\ At(t, "waiting") /\ task[t].notified
    /\ Become(t, [task[t] EXCEPT !.pc = "queued", !.notified = FALSE])
    /\ UNCHANGED <<live, touched, closed, lifecycle, running, shut>>

close_all(t) ==
    /\ At(t, "idle")
    /\ closed' = TRUE
    /\ Become(t, [Resting EXCEPT !.pc = "queued", !.op = "close_all"])
    /\ UNCHANGED <<live, touched, lifecycle, running, shut>>

\* close_all has the mutex: Busy if anybody holds a lease, else all must go.
close_take(t) ==
    /\ At(t, "queued") /\ task[t].op = "close_all" /\ Free
    /\ \/ /\ \E s \in Resident : ~Unleased(s)
          /\ Returns(t) /\ UNCHANGED <<live, shut>>
       \/ Resident = {} /\ Returns(t) /\ shut' = TRUE /\ UNCHANGED live
       \/ /\ Resident # {} /\ \A s \in Resident : Unleased(s)
          /\ Take(t, Resident, "retire") /\ lifecycle' = t /\ UNCHANGED shut
    /\ UNCHANGED <<touched, closed, running>>

MutNotified(t) == task[t].pc = "waiting"

\* notify_waiters reaches the Notified that are enabled.
Notified(t) == task[t].op = "stop_after_drain"

\* BrowserLease::drop, before the fields of the lease are dropped: the count goes
\* down and the waiters are woken while the lease still has its reference.
drop_lease(t) ==
    LET i == task[t].instance IN
    /\ At(t, "leased")
    /\ live' = [live EXCEPT ![i.scope].leases = @ - 1]
    /\ task' = [u \in Tasks |->
                  IF u = t THEN [task[t] EXCEPT !.pc = "dropping"]
                  ELSE [task[u] EXCEPT !.notified = @ \/ Notified(u)]]
    /\ UNCHANGED <<touched, closed, lifecycle, running, shut>>

\* The reference itself; the last one ends the process by force.
drop_inner(t) ==
    /\ At(t, "dropping")
    /\ running' = running \ {b \in Owned(t) : Unshared(b, t) /\ \A s \in Resident : live[s].browser # b}
    /\ Returns(t)
    /\ UNCHANGED <<live, touched, closed, shut>>

\* The handles a dropped future was the last to refer to.
Dropped(t) == {b \in Owned(t) : Unshared(b, t)}

\* The caller is dropped at an await, or the bound of stop_after_drain has passed.
cancel(t) ==
    /\ task[t].pc \in {"queued", "launch", "retire", "rollback", "waiting"}
    /\ running' = running \ Dropped(t)
    /\ Returns(t)
    /\ UNCHANGED <<live, touched, closed, shut>>

BrowserNext ==
    \/ \E s \in Scopes : age(s)
    \/ \E t \in Tasks :
        \/ \E i \in Instances : acquire_existing(t, i) \/ ensure(t, i)
        \/ \E i \in Instances, op \in {"stop", "stop_after_drain"} : stop_browser(t, i, op)
        \/ recheck(t) \/ choose(t) \/ launch_ok(t) \/ launch_failed(t)
        \/ retire(t) \/ insert(t) \/ launch_rollback(t)
        \/ sweep_idle(t) \/ sweep_choose(t) \/ sweep_take(t)
        \/ stop_take(t) \/ await_release(t) \/ wake(t)
        \/ close_all(t) \/ close_take(t)
        \/ drop_lease(t) \/ drop_inner(t) \/ cancel(t)

BrowserSpec == BrowserInit /\ [][BrowserNext]_browserVars

\* A woken or runnable future is polled and the driver answers; nobody has to
\* call, to give a lease back or to be cancelled, and browsers need not age.
BrowserSteps == {"driver", "future", "wait", "drop"} \X Tasks

BrowserStep(f) ==
    \/ f[1] = "driver" /\ (launch_ok(f[2]) \/ launch_failed(f[2]))
    \/ f[1] = "future" /\ (choose(f[2]) \/ retire(f[2]) \/ insert(f[2]) \/ launch_rollback(f[2]) \/ sweep_take(f[2]))
    \/ f[1] = "wait" /\ (await_release(f[2]) \/ wake(f[2]))
    \/ f[1] = "drop" /\ drop_inner(f[2])

\* The lifecycle mutex is handed on in the order it was asked for: strong fairness.
lifecycle_acquired(t) == recheck(t) \/ sweep_choose(t) \/ stop_take(t) \/ close_take(t)

-----------------------------------------------------------------------------
(* Properties. *)

Entry == [instance : Instances, browser : Browsers, idle : BOOLEAN, leases : 0..Cardinality(Tasks)]

\* The table, the callers and the mutex; the lifecycle mutex is held exactly by
\* the operation that is between its selection and its end.
BrowserTypeOK ==
    /\ live \in [Scopes -> Entry \cup {Absent}]
    /\ Len(touched) = Cardinality(Scopes) /\ ToSet(touched) = Scopes
    /\ closed \in BOOLEAN /\ shut \in BOOLEAN
    /\ running \subseteq Browsers
    /\ \A s \in Resident : Inst(s).scope = s
    /\ \A t \in Tasks :
         (lifecycle = t) <=>
            task[t].pc \in {"choose", "launch", "retire", "insert", "rollback", "sweep"}

Holders(s) == {t \in Tasks : task[t].pc = "leased" /\ task[t].instance.scope = s}

\* A lease keeps its browser: as long as it is held, its browser is the resident
\* one of its scope and its process runs, and the count of a browser is the number
\* of its leases, whatever evicts, sweeps, replaces, stops and closes meanwhile
\* (BrowserLease: "prevents the selected browser from being evicted").
LeaseKeepsItsBrowser ==
    \A s \in Scopes :
        /\ live[s] # Absent => live[s].leases = Cardinality(Holders(s))
        /\ \A t \in Holders(s) :
             /\ Same(task[t].instance)
             /\ live[s].browser = task[t].browser
             /\ task[t].browser \in running

\* No process is left behind: each one that runs is resident or in the hands of a
\* caller that will retire, insert or drop it, after any failure of a launch or of
\* a retirement and any cancellation; and a resident browser runs.
NoOrphanProcess ==
    /\ running \subseteq Referenced
    /\ \A s \in Resident : live[s].browser \in running

\* The budget: never more than maximum_live browsers are resident, and a launch,
\* which comes before the retirement it makes necessary, adds one process at most.
BudgetHolds ==
    LET handled == UNION {Owned(t) : t \in {u \in Tasks : lifecycle = u}} IN
    /\ Cardinality(Resident) <= maximum_live
    /\ Cardinality({live[s].browser : s \in Resident} \cup handled) <= maximum_live + 1

\* After a close_all that succeeded nothing is resident and no process runs, ever
\* again, but one whose last reference is just being dropped: an ensure that was
\* launching or waiting meanwhile does not revive the manager.
ShutdownIsFinal ==
    shut => /\ Resident = {}
            /\ running \subseteq UNION {Owned(t) : t \in {u \in Tasks : At(u, "dropping")}}

\* BrowserTypeOK: The table, the callers, and who holds the lifecycle mutex.
\* LeaseKeepsItsBrowser: As long as a lease is held its browser is the resident one
\*   of its scope and runs, and the count of a browser is the number of its leases,
\*   whatever evicts, sweeps, stops and closes.
\* NoOrphanProcess: Every browser process is resident or in the hands of a caller
\*   that will retire, insert or drop it, after any failure and any cancellation.
\* BudgetHolds: Never more than maximum_live browsers are resident, and a launch
\*   adds one process at most.
\* ShutdownIsFinal: After a close_all that succeeded nothing is resident and
\*   nothing runs, although an ensure was launching or waiting meanwhile.
BrowserSafety ==
    BrowserTypeOK /\ LeaseKeepsItsBrowser /\ NoOrphanProcess /\ BudgetHolds /\ ShutdownIsFinal

\* No lost wake-up: a stop_after_drain does not sleep for ever beside a browser
\* that has no lease any more.
NoLostWakeup ==
    \A t \in Tasks :
        []<>~(task[t].pc = "waiting" /\ live[task[t].instance.scope] # Absent
                /\ Unleased(task[t].instance.scope))

=============================================================================

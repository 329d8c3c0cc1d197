----------------------------- MODULE ToolBudget -----------------------------
(***************************************************************************)
(* The tool budget the runs of one process share                           *)
(* (openbot-agent/src/runtime.rs, ToolResourceLocks and                    *)
(* acquire_tool_budget): an invocation first takes the resource locks of   *)
(* its tool, in the order of their keys, and then a permit of the          *)
(* concurrency semaphore.  Locks are semaphores with one permit that are   *)
(* made on demand; the table keeps only weak references to them, so an     *)
(* entry may outlive its semaphore and a semaphore must never outlive its  *)
(* entry.                                                                  *)
(*                                                                         *)
(* A semaphore (external: tokio) is the queue of those that asked for it;  *)
(* its first permits-many members hold it.  An invocation that is          *)
(* cancelled before it starts leaves every queue it is in.                 *)
(***************************************************************************)
EXTENDS Naturals, FiniteSets, Sequences, SequencesExt

CONSTANTS
    Tasks,        \* invocations at work, of any run of the process
    Keys,         \* resource lock keys, in their order
    Needs,        \* the keys of each task's tool
    Permits,      \* max_tool_concurrency
    Absent        \* no semaphore

BudgetAssumption ==
    /\ IsFiniteSet(Tasks)
    /\ Keys \subseteq Nat
    /\ Needs \in [Tasks -> SUBSET Keys]
    /\ Permits \in Nat \ {0}
    /\ Absent \notin Nat

VARIABLES
    at,       \* what the task of an invocation is doing
    entries,  \* the table: the semaphore last made for a key
    handles,  \* the semaphores a task has a strong reference to, by key
    queue,    \* of each semaphore, by key and identity: who asked, in order
    pool      \* of the concurrency semaphore: who asked, in order

budget == <<at, entries, handles, queue, pool>>

-----------------------------------------------------------------------------

\* Identities of semaphores; one is used again when no reference is left.
Ids == 0..Cardinality(Tasks)

NoHandles == [k \in Keys |-> Absent]

Referenced(k) == {handles[t][k] : t \in Tasks} \ {Absent}

Fresh(k) == CHOOSE g \in Ids : g \notin Referenced(k)

\* Weak::upgrade succeeds as long as somebody has a strong reference.
Live(k) == entries[k] \in Referenced(k)

MutRetained == [k \in Keys |-> IF \E t \in Tasks : at[t] = "running" /\ handles[t][k] = entries[k]
                               THEN entries[k] ELSE Absent]

\* entries.retain: strong_count() > 0.
Retained == [k \in Keys |-> IF Live(k) THEN entries[k] ELSE Absent]

Joined(t) == {k \in Needs[t] : handles[t][k] # Absent /\ t \in Range(queue[k][handles[t][k]])}

HoldsKey(t, k) ==
    /\ k \in Joined(t)
    /\ Head(queue[k][handles[t][k]]) = t

Among(s, n, t) == \E i \in 1..Len(s) : i <= n /\ s[i] = t

HoldsPermit(t) == Among(pool, Permits, t)

BudgetInit ==
    /\ at = [t \in Tasks |-> "idle"]
    /\ entries = [k \in Keys |-> Absent]
    /\ handles = [t \in Tasks |-> NoHandles]
    /\ queue = [k \in Keys |-> [g \in Ids |-> <<>>]]
    /\ pool = <<>>

\* ToolResourceLocks::acquire, up to the unlock of the table: retain what is
\* alive, then upgrade or make the semaphore of every key.
acquire(t) ==
    /\ at[t] = "idle"
    /\ LET kept == Retained
           found == [k \in Needs[t] |-> IF kept[k] = Absent THEN Fresh(k) ELSE kept[k]]
       IN  /\ entries' = [k \in Keys |-> IF k \in Needs[t] THEN found[k] ELSE kept[k]]
           /\ handles' = [handles EXCEPT ![t] =
                            [k \in Keys |-> IF k \in Needs[t] THEN found[k] ELSE Absent]]
    /\ at' = [at EXCEPT ![t] = "locking"]
    /\ UNCHANGED <<queue, pool>>

MutTurn(t, k) == TRUE

\* resource_locks() is sorted: the smaller keys are held before k is asked for.
Turn(t, k) == \A j \in Needs[t] : j < k => HoldsKey(t, j)

\* acquire_owned of the next lock: at once, or a place in the queue.
lock(t, k) ==
    /\ at[t] = "locking"
    /\ k \in Needs[t] \ Joined(t)
    /\ Turn(t, k)
    /\ \A j \in Joined(t) : HoldsKey(t, j)
    /\ queue' = [queue EXCEPT ![k][handles[t][k]] = Append(@, t)]
    /\ UNCHANGED <<at, entries, handles, pool>>

Locked(t) == \A k \in Needs[t] : HoldsKey(t, k)

\* acquire_tool_budget: all locks are held, now the permit.
ask_permit(t) ==
    /\ at[t] = "locking"
    /\ Locked(t)
    /\ at' = [at EXCEPT ![t] = "permit"]
    /\ pool' = Append(pool, t)
    /\ UNCHANGED <<entries, handles, queue>>

MayStart(t) == HoldsPermit(t)

\* The budget is complete: the invocation begins.
start(t) ==
    /\ at[t] = "permit"
    /\ MayStart(t)
    /\ at' = [at EXCEPT ![t] = "running"]
    /\ UNCHANGED <<entries, handles, queue, pool>>

\* The future or the ToolBudgetPermit is dropped: every permit and every place
\* in a queue is given up, the references with them.
Drop(t) ==
    /\ at' = [at EXCEPT ![t] = "idle"]
    /\ handles' = [handles EXCEPT ![t] = NoHandles]
    /\ queue' = [k \in Keys |-> [g \in Ids |-> RemoveFirst(queue[k][g], t)]]
    /\ pool' = RemoveFirst(pool, t)
    /\ UNCHANGED entries

\* The invocation ended, was aborted, or a detached human decision was retired.
finish(t) == at[t] = "running" /\ Drop(t)

\* The run was cancelled, timed out or lost its lease before the budget.
abandon(t) == at[t] \in {"locking", "permit"} /\ Drop(t)

BudgetNext ==
    \E t \in Tasks :
        \/ acquire(t)
        \/ \E k \in Keys : lock(t, k)
        \/ ask_permit(t) \/ start(t) \/ finish(t) \/ abandon(t)

BudgetSpec == BudgetInit /\ [][BudgetNext]_budget

\* Tasks that can go on are polled; an invocation ends: tools by themselves or
\* by the cancellation grace, a detached human decision when the database
\* reports the end of its run.  Nobody has to ask for a budget or give one up.
BudgetSteps == {"lock", "ask_permit", "start", "finish"} \X Tasks

BudgetStep(f) ==
    \/ f[1] = "lock" /\ \E k \in Keys : lock(f[2], k)
    \/ f[1] = "ask_permit" /\ ask_permit(f[2])
    \/ f[1] = "start" /\ start(f[2])
    \/ f[1] = "finish" /\ finish(f[2])

-----------------------------------------------------------------------------
(* Properties. *)

Places == {"idle", "locking", "permit", "running"}

\* What acquire_tool_budget and the semaphores keep; nobody is in a queue twice.
BudgetTypeOK ==
    /\ at \in [Tasks -> Places]
    /\ entries \in [Keys -> Ids \cup {Absent}]
    /\ handles \in [Tasks -> [Keys -> Ids \cup {Absent}]]
    /\ queue \in [Keys -> [Ids -> Seq(Tasks)]]
    /\ pool \in Seq(Tasks)
    /\ IsInjective(pool)
    /\ \A k \in Keys, g \in Ids : IsInjective(queue[k][g])

\* The table never loses or replaces a semaphore that somebody still waits on or
\* holds: two invocations of one key always meet at one semaphore
\* (ToolResourceLocks::acquire, retain and upgrade under one mutex).
OneSemaphorePerKey ==
    \A t \in Tasks, k \in Keys : handles[t][k] # Absent => handles[t][k] = entries[k]

\* Two invocations that run at the same time, of one run or of two, share no
\* resource lock, and no more run than max_tool_concurrency allows.
BudgetRespected ==
    /\ \A t, u \in Tasks :
         (t # u /\ at[t] = "running" /\ at[u] = "running") => Needs[t] \cap Needs[u] = {}
    /\ Cardinality({t \in Tasks : at[t] = "running"}) <= Permits

\* No permit leaks: a task that is idle is in no queue, and nobody waits at a
\* semaphore behind a task that has gone.
NothingLeaks ==
    \A t \in Tasks : at[t] = "idle" =>
        /\ t \notin Range(pool)
        /\ \A k \in Keys, g \in Ids : t \notin Range(queue[k][g])

\* What holds of the budget at any time.
BudgetSafety == BudgetTypeOK /\ OneSemaphorePerKey /\ BudgetRespected /\ NothingLeaks

\* A task that waits for its budget gets it or gives up: locks taken in key order
\* and a permit taken last never wait for each other in a circle.
EveryBudgetGranted == \A t \in Tasks : []<>(at[t] \in {"running", "idle"})

=============================================================================

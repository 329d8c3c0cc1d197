-------------------------- MODULE RemoteInterrupts --------------------------
(***************************************************************************)
(* A remote agent ends its protocol run with a batch of interrupts.  The   *)
(* executor of the run stores one row per interrupt, polls until every row *)
(* is answered or has expired, and resumes the agent once with the answers. *)
(* People answer from other processes; the lease of the run is renewed by  *)
(* the task that polls; recovery or a terminal retires the rows.           *)
(*                                                                         *)
(* Every transaction here is SERIALIZABLE and takes row locks: the run and  *)
(* thread rows (runLock) and the lease and user rows (leaseLock).  A        *)
(* transaction whose snapshot is older than a committed update of a row it  *)
(* locks is refused (fresh).                                               *)
(***************************************************************************)
EXTENDS Naturals, FiniteSets

CONSTANTS
    Interrupts,     \* the interrupts of a batch
    People,         \* sessions of the actor that may answer
    MaxRounds,      \* bound: protocol runs that end with an interrupt
    MaxRenewals,    \* bound: lease renewals
    MaxFaults,      \* bound: lost connections, lost leases, revocations
    MidRenewal,     \* may a renewal fall due while a poll's transaction is open
    Unset

Answers == {"resolved", "cancelled"}
Executor == "executor"
Free == "free"
Answered == {"resolved", "cancelled", "expired"}

\* A session is neither the executor nor nobody.
InterruptAssumption ==
    /\ MaxRounds \in Nat /\ MaxRenewals \in Nat /\ MaxFaults \in Nat
    /\ MidRenewal \in BOOLEAN
    /\ People \cap {Free, Executor} = {}

VARIABLES
    run,        \* [status, lease, actor]: running, its lease, the actor's authority
    row,        \* interrupt -> [state, resume, due] of the current batch
    runLock,    \* who holds the run's row
    leaseLock,  \* who holds the lease's and the user's row
    exec,       \* [pc, round, renewing, fresh, carried, end]
    person,     \* person -> [pc, on, answer, fresh]
    receipt,    \* interrupt -> the answer a person was told is stored
    renewals,
    faults

interruptVars == <<run, row, runLock, leaseLock, exec, person, receipt, renewals, faults>>

NoRow == [state |-> "none", resume |-> Unset, due |-> FALSE]
AtRest == [pc |-> "idle", on |-> Unset, answer |-> Unset, fresh |-> TRUE]

InterruptInit ==
    /\ run = [status |-> "running", lease |-> TRUE, actor |-> TRUE]
    /\ row = [i \in Interrupts |-> NoRow]
    /\ runLock = Free /\ leaseLock = Free
    /\ exec = [pc |-> "sampling", round |-> 0, renewing |-> FALSE, fresh |-> TRUE,
               carried |-> Unset, end |-> Unset]
    /\ person = [p \in People |-> AtRest]
    /\ receipt = [i \in Interrupts |-> Unset]
    /\ renewals = 0
    /\ faults = 0

-----------------------------------------------------------------------------
Rest(p) == person' = [person EXCEPT ![p] = AtRest]

\* Commits that update a row others lock: their open snapshots are too old.
Outdated(self) ==
    /\ person' = [p \in People |->
          IF p = self THEN AtRest ELSE [person[p] EXCEPT !.fresh = FALSE]]
    /\ exec' = [exec EXCEPT !.fresh = FALSE]

Authorized == run.status = "running" /\ run.lease /\ run.actor

EndsWith(why) == exec' = [exec EXCEPT !.pc = "over", !.end = why]
Unlocked == runLock' = Free /\ leaseLock' = Free

\* The child future is polled only while the task is not inside a renewal.
Polled == ~exec.renewing

(* The executor: persist_and_wait. *)

\* The agent's protocol run ends with interrupts; the remote loop is bounded.
interrupted ==
    /\ exec.pc = "sampling"
    /\ exec.round < MaxRounds
    /\ exec' = [exec EXCEPT !.pc = "persist", !.round = @ + 1]
    /\ row' = [i \in Interrupts |-> NoRow]
    /\ receipt' = [i \in Interrupts |-> Unset]
    /\ UNCHANGED <<run, runLock, leaseLock, person, renewals, faults>>

finished ==
    /\ exec.pc = "sampling"
    /\ EndsWith("done")
    /\ UNCHANGED <<run, row, runLock, leaseLock, person, receipt, renewals, faults>>

\* The scope of a transaction: the run's row NOWAIT, then (after the history
\* admission) the run, thread, lease and user rows together.
scope_run(pc, next) ==
    /\ Polled
    /\ exec.pc = pc
    /\ IF runLock # Free
       THEN EndsWith("unavailable") /\ UNCHANGED runLock
       ELSE runLock' = Executor /\ exec' = [exec EXCEPT !.pc = next, !.fresh = TRUE]
    /\ UNCHANGED <<run, row, leaseLock, person, receipt, renewals, faults>>

scope_authority(pc, next) ==
    /\ Polled
    /\ exec.pc = pc
    /\ leaseLock = Free
    /\ IF exec.fresh /\ Authorized
       THEN leaseLock' = Executor /\ exec' = [exec EXCEPT !.pc = next] /\ UNCHANGED runLock
       ELSE /\ EndsWith(IF exec.fresh THEN "stale" ELSE "unavailable")
            /\ runLock' = Free /\ UNCHANGED leaseLock
    /\ UNCHANGED <<run, row, person, receipt, renewals, faults>>

\* One row per interrupt and the request's audit, or nothing.
persist_batch ==
    /\ Polled
    /\ exec.pc = "store"
    /\ row' = [i \in Interrupts |-> [NoRow EXCEPT !.state = "pending"]]
    /\ exec' = [exec EXCEPT !.pc = "sleep"]
    /\ Unlocked
    /\ UNCHANGED <<run, person, receipt, renewals, faults>>

wake ==
    /\ Polled
    /\ exec.pc = "sleep"
    /\ exec' = [exec EXCEPT !.pc = "poll"]
    /\ UNCHANGED <<run, row, runLock, leaseLock, person, receipt, renewals, faults>>

Overdue == {i \in Interrupts : row[i].state = "pending" /\ row[i].due}

\* Mutant: a poll resumes as soon as one interrupt is answered.
SomeAnswered == \E i \in Interrupts : row[i].state \in Answered

AllAnswered == \A i \in Interrupts : row[i].state \in Answered

ResumeId == <<"resume", exec.round>>

\* poll_resume, from its locked rows to its commit.
poll_resume ==
    /\ Polled
    /\ exec.pc = "read"
    /\ Unlocked
    /\ IF \E i \in Interrupts : row[i].state = "retired"
       THEN EndsWith("stale") /\ UNCHANGED <<row, person>>
       ELSE IF Overdue # {}
       THEN /\ row' = [i \in Interrupts |->
                  IF i \in Overdue THEN [row[i] EXCEPT !.state = "expired"] ELSE row[i]]
            /\ exec' = [exec EXCEPT !.pc = "sleep"]
            /\ person' = [p \in People |-> [person[p] EXCEPT !.fresh = FALSE]]
       ELSE IF ~AllAnswered
       THEN exec' = [exec EXCEPT !.pc = "sleep"] /\ UNCHANGED <<row, person>>
       ELSE /\ row' = [i \in Interrupts |-> [row[i] EXCEPT !.resume = ResumeId]]
            /\ exec' = [exec EXCEPT !.pc = "resume",
                                    !.carried = [i \in Interrupts |-> row[i].state]]
            /\ person' = [p \in People |-> [person[p] EXCEPT !.fresh = FALSE]]
    /\ UNCHANGED <<run, receipt, renewals, faults>>

\* The answers go to the agent with the next request.
resumed ==
    /\ exec.pc = "resume"
    /\ exec' = [exec EXCEPT !.pc = "sampling", !.carried = Unset]
    /\ UNCHANGED <<run, row, runLock, leaseLock, person, receipt, renewals, faults>>

Waiting == {"persist", "admit", "store", "sleep", "poll", "lock", "read"}
InTransaction == {"admit", "store", "lock", "read"}

\* await_run_child: a cancellation or the deadline drops the child, and with it
\* the transaction it may have open.
cancelled ==
    /\ Polled
    /\ exec.pc \in Waiting
    /\ faults < MaxFaults
    /\ faults' = faults + 1
    /\ EndsWith("cancelled")
    /\ runLock' = IF runLock = Executor THEN Free ELSE runLock
    /\ leaseLock' = IF leaseLock = Executor THEN Free ELSE leaseLock
    /\ UNCHANGED <<run, row, person, receipt, renewals>>

\* The renewal falls due: its branch of the select awaits the update.
renew_tick ==
    /\ Polled
    /\ exec.pc \in Waiting
    /\ renewals < MaxRenewals
    /\ MidRenewal \/ exec.pc \notin InTransaction
    /\ exec' = [exec EXCEPT !.renewing = TRUE]
    /\ renewals' = renewals + 1
    /\ UNCHANGED <<run, row, runLock, leaseLock, person, receipt, faults>>

\* One UPDATE of the lease row.  It waits for whoever has that row locked.
renew_lease ==
    /\ exec.renewing
    /\ leaseLock = Free
    /\ IF run.status = "running" /\ run.lease
       THEN /\ exec' = [exec EXCEPT !.renewing = FALSE, !.fresh = FALSE]
            /\ person' = [p \in People |-> [person[p] EXCEPT !.fresh = FALSE]]
            /\ UNCHANGED runLock
       ELSE /\ exec' = [exec EXCEPT !.renewing = FALSE, !.pc = "over", !.end = "lease_lost"]
            /\ runLock' = IF runLock = Executor THEN Free ELSE runLock
            /\ UNCHANGED person
    /\ UNCHANGED <<run, row, leaseLock, receipt, renewals, faults>>

-----------------------------------------------------------------------------
(* A person answers: resolve. *)

answer(p, i, a) ==
    /\ person[p].pc = "idle"
    /\ row[i].state # "none"
    /\ person' = [person EXCEPT ![p] = [pc |-> "lock", on |-> i, answer |-> a, fresh |-> TRUE]]
    /\ UNCHANGED <<run, row, runLock, leaseLock, exec, receipt, renewals, faults>>

\* Mutant: the authority read before the wait for the locks is not read again.
LockUnchecked(p) ==
    /\ person[p].pc = "lock"
    /\ runLock = Free /\ leaseLock = Free
    /\ runLock' = p /\ leaseLock' = p
    /\ person' = [person EXCEPT ![p].pc = "write"]
    /\ UNCHANGED <<run, row, exec, receipt, renewals, faults>>

resolve_lock(p) ==
    /\ person[p].pc = "lock"
    /\ runLock = Free /\ leaseLock = Free
    /\ IF person[p].fresh /\ Authorized
       THEN /\ runLock' = p /\ leaseLock' = p
            /\ person' = [person EXCEPT ![p].pc = "write"]
       ELSE Rest(p) /\ UNCHANGED <<runLock, leaseLock>>
    /\ UNCHANGED <<run, row, exec, receipt, renewals, faults>>

\* An exact repetition is confirmed, another answer is a conflict, an overdue
\* row expires instead; otherwise the answer and its audit are stored.
resolve_commit(p) ==
    LET i == person[p].on
        a == person[p].answer
    IN  /\ person[p].pc = "write"
        /\ Unlocked
        /\ \/ /\ row[i].state \in Answers
              /\ receipt' = [receipt EXCEPT ![i] = IF row[i].state = a THEN a ELSE @]
              /\ Rest(p)
              /\ UNCHANGED <<row, exec>>
           \/ /\ row[i].state \notin Answers \cup {"pending"}
              /\ Rest(p)
              /\ UNCHANGED <<row, exec, receipt>>
           \/ /\ row[i].state = "pending"
              /\ IF row[i].due
                 THEN row' = [row EXCEPT ![i].state = "expired"] /\ UNCHANGED receipt
                 ELSE /\ row' = [row EXCEPT ![i].state = a]
                      /\ receipt' = [receipt EXCEPT ![i] = a]
              /\ Outdated(p)
        /\ UNCHANGED <<run, renewals, faults>>

-----------------------------------------------------------------------------
(* The rest of the system. *)

retire_remote_interrupts == [i \in Interrupts |->
    IF row[i].state = "none" THEN row[i]
    ELSE [state |-> "retired", resume |-> Unset, due |-> row[i].due]]

\* The executor's own terminal, while its lease still holds.
finish_run ==
    /\ exec.pc = "over"
    /\ run.status = "running" /\ run.lease
    /\ runLock = Free /\ leaseLock = Free
    /\ run' = [run EXCEPT !.status = "ended"]
    /\ row' = retire_remote_interrupts
    /\ person' = [p \in People |-> [person[p] EXCEPT !.fresh = FALSE]]
    /\ exec' = [exec EXCEPT !.fresh = FALSE]
    /\ UNCHANGED <<runLock, leaseLock, receipt, renewals, faults>>

\* Recovery takes a run whose lease ran out, skipping rows that are locked.
recover ==
    /\ run.status = "running" /\ ~run.lease
    /\ runLock = Free /\ leaseLock = Free
    /\ run' = [run EXCEPT !.status = "ended"]
    /\ row' = retire_remote_interrupts
    /\ person' = [p \in People |-> [person[p] EXCEPT !.fresh = FALSE]]
    /\ exec' = [exec EXCEPT !.fresh = FALSE]
    /\ UNCHANGED <<runLock, leaseLock, receipt, renewals, faults>>

\* The half hour of one interrupt is over.
ripen(i) ==
    /\ row[i].state # "none" /\ ~row[i].due
    /\ row' = [row EXCEPT ![i].due = TRUE]
    /\ UNCHANGED <<run, runLock, leaseLock, exec, person, receipt, renewals, faults>>

lease_runs_out ==
    /\ faults < MaxFaults
    /\ faults' = faults + 1
    /\ run.status = "running" /\ run.lease
    /\ run' = [run EXCEPT !.lease = FALSE]
    /\ UNCHANGED <<row, runLock, leaseLock, exec, person, receipt, renewals>>

\* The actor's role, membership or generation is withdrawn: an update of rows
\* that an open transaction has locked waits for it.
revoke_actor ==
    /\ faults < MaxFaults
    /\ leaseLock = Free
    /\ run.actor
    /\ faults' = faults + 1
    /\ run' = [run EXCEPT !.actor = FALSE]
    /\ person' = [p \in People |-> [person[p] EXCEPT !.fresh = FALSE]]
    /\ exec' = [exec EXCEPT !.fresh = FALSE]
    /\ UNCHANGED <<row, runLock, leaseLock, receipt, renewals>>

\* A connection is lost: the server ends the transaction, the caller gets an error.
connection_lost ==
    /\ faults < MaxFaults
    /\ faults' = faults + 1
    /\ \/ /\ Polled /\ exec.pc \in InTransaction
          /\ EndsWith("unavailable")
          /\ runLock' = Free
          /\ leaseLock' = IF leaseLock = Executor THEN Free ELSE leaseLock
          /\ UNCHANGED person
       \/ \E p \in People :
          /\ person[p].pc = "write"
          /\ Unlocked /\ Rest(p)
          /\ UNCHANGED exec
    /\ UNCHANGED <<run, row, receipt, renewals>>

-----------------------------------------------------------------------------
Wait ==
    \/ scope_run("persist", "admit") \/ scope_authority("admit", "store") \/ persist_batch
    \/ wake \/ scope_run("poll", "lock") \/ scope_authority("lock", "read") \/ poll_resume

Resolve(p) == resolve_lock(p) \/ resolve_commit(p)

Environment ==
    \/ finish_run \/ recover \/ lease_runs_out \/ revoke_actor \/ connection_lost
    \/ \E i \in Interrupts : ripen(i)

InterruptNext ==
    \/ interrupted \/ finished \/ Wait \/ resumed \/ cancelled
    \/ renew_tick \/ renew_lease
    \/ \E p \in People, i \in Interrupts, a \in Answers : answer(p, i, a)
    \/ \E p \in People : Resolve(p)
    \/ Environment

InterruptSpec == InterruptInit /\ [][InterruptNext]_interruptVars

\* Tasks are polled, transactions whose locks are free go on, time passes and
\* recovery comes round; a renewal that waits for its lock gets it (strong fairness of
\* renew_lease).  Nobody has to answer.
InterruptSteps ==
    {<<"wait">>, <<"resumed">>, <<"finished">>, <<"end">>, <<"recover">>}
      \cup ({"resolve"} \X People) \cup ({"ripen"} \X Interrupts)

InterruptStep(f) ==
    \/ f[1] = "wait" /\ Wait
    \/ f[1] = "resumed" /\ resumed
    \/ f[1] = "finished" /\ finished
    \/ f[1] = "end" /\ finish_run
    \/ f[1] = "recover" /\ recover
    \/ f[1] = "resolve" /\ resolve_commit(f[2])
    \/ f[1] = "ripen" /\ ripen(f[2])

-----------------------------------------------------------------------------
\* Every variable keeps its shape, and a lock is held by a transaction that is open.
InterruptTypeOK ==
    /\ run \in [status : {"running", "ended"}, lease : BOOLEAN, actor : BOOLEAN]
    /\ \A i \in Interrupts :
          row[i].state \in {"none", "pending", "retired"} \cup Answered
    /\ runLock \in {Free, Executor} \cup People
    /\ leaseLock \in {Free, runLock}
    /\ runLock = Executor => exec.pc \in InTransaction
    /\ \A p \in People : runLock = p <=> person[p].pc = "write"
    /\ exec.pc \in Waiting \cup {"sampling", "resume", "over"}
    /\ receipt \in [Interrupts -> Answers \cup {Unset}]

\* What a person was told is stored is what the agent is resumed with, whoever
\* else answered, whatever expired and however the polls fell (resolve, poll_resume).
ResumeCarriesAnswers ==
    exec.pc = "resume" =>
        \A i \in Interrupts :
            /\ exec.carried[i] \in Answered
            /\ receipt[i] # Unset => exec.carried[i] = receipt[i]

\* A stored answer is final: until the row is retired it is neither replaced by
\* another answer nor turned into an expiry.
AnswerIsFinal ==
    [][\A i \in Interrupts : row[i].state \in Answers =>
          row'[i].state \in {row[i].state, "retired", "none"}]_interruptVars

\* An answer is stored only for a run that is running and an actor whose authority
\* holds when it is stored, not merely when the person began to answer.
AnswerIsAuthorized ==
    [][\A i \in Interrupts : row[i].state = "pending" /\ row'[i].state \in Answers =>
          run.status = "running" /\ run.actor]_interruptVars

\* A run that ended holds no interrupt anyone can answer, and none it asked for.
EndedIsRetired ==
    run.status = "ended" => \A i \in Interrupts : row[i].state \in {"none", "retired"}

\* InterruptTypeOK: Shapes, and a lock is held by an open transaction only.
\* ResumeCarriesAnswers: The remote agent is resumed only with the answer a person
\*   gave to each interrupt of the round.
\* EndedIsRetired: When a run has ended none of its interrupts can be answered any
\*   more.
InterruptSafety == InterruptTypeOK /\ ResumeCarriesAnswers /\ EndedIsRetired

\* The wait for an answer ends: the agent is resumed or the run is over.
WaitEnds == []<>(exec.pc \notin Waiting)
=============================================================================

--------------------------- MODULE MCRunLiveness ----------------------------
(* What must eventually happen to a run: its lease and its terminal, its     *)
(* execution, its tool calls, the answers it waits for, its history and its  *)
(* artifacts. The components share no variable (see MCTools): a behaviour    *)
(* exercises the component that part names, on an instance small enough for  *)
(* liveness, under the fairness stated in that component's module.           *)
EXTENDS Naturals, TLC

CONSTANT Nil

VARIABLES
    part,       \* the component that moves
    lease, thread, runtimeRun, events, assistant, dispatch, runtimeCancel, replica,
    relay, resv, child, runtimeFaults,
    state, agentAt, sampling, calls, wave, exchanges, usage, answered, starts, sent,
    agentCancel, expired,
    budgetAt, entries, handles, queue, pool,
    class, world, now, changes, approval, audit, call, attempt, pipelineInv, decider,
    effects,
    interruptRun, interruptRow, runLock, leaseLock, exec, person, receipt, renewals,
    interruptFaults,
    head, intent, deleted, historyRow, historyRun, acceptance, batches, completion,
    audits, tx, snapshot, nextXid, acks, conflicts,
    fence, bytes, io, gate, fresh, tails, closing, rd, slot, artifactInv, late, fact,
    refunds, restarts

runtimeVars == <<lease, thread, runtimeRun, events, assistant, dispatch, runtimeCancel,
                 replica, relay, resv, child, runtimeFaults>>
agentVars == <<state, agentAt, sampling, calls, wave, exchanges, usage, answered,
               starts, sent, agentCancel, expired>>
budgetVars == <<budgetAt, entries, handles, queue, pool>>
pipelineVars == <<class, world, now, changes, approval, audit, call, attempt,
                  pipelineInv, decider, effects>>
interruptVars == <<interruptRun, interruptRow, runLock, leaseLock, exec, person,
                   receipt, renewals, interruptFaults>>
historyVars == <<head, intent, deleted, historyRow, historyRun, acceptance, batches,
                 completion, audits, tx, snapshot, nextXid, acks, conflicts>>
artifactVars == <<fence, bytes, io, gate, fresh, tails, closing, rd, slot, artifactInv,
                  late, fact, refunds, restarts>>
vars == <<part, runtimeVars, agentVars, budgetVars, pipelineVars, interruptVars,
          historyVars, artifactVars>>

-----------------------------------------------------------------------------
(* Two replicas, one run, one fault.                                         *)

Runtime == INSTANCE RunRuntime WITH
    run <- runtimeRun, cancel <- runtimeCancel, faults <- runtimeFaults,
    Replicas <- {"a", "b"}, Runs <- {"r"}, NoReplica <- "none", NoRun <- "none", Damaged <- {},
    MaxToken <- 5, MaxChunks <- 0, MaxAttempts <- 0, MaxFaults <- 1

(* A human decision, one call per sampling.                                  *)

Agent == INSTANCE AgentRun WITH
    at <- agentAt, cancel <- agentCancel,
    Tools <- {"ask"}, NoTool <- "none", HumanTools <- {"ask"}, SafeTools <- {},
    Locks <- ("ask" :> {}), ToolStepCap <- 1, MaxBatch <- 1

(* The circle of three invocations of MCTools.                               *)

Locking == INSTANCE ToolBudget WITH
    at <- budgetAt, Absent <- Nil,
    Tasks <- 1..5, Keys <- 1..3, Permits <- 2,
    Needs <- <<{1, 2}, {2, 3}, {1, 3}, {}, {}>>

(* One call, two invocations.                                                *)

Pipeline == INSTANCE ToolCall WITH
    inv <- pipelineInv, None <- Nil,
    Calls <- {"c"}, Invocations <- {"i1", "i2"}, Deciders <- {"d"},
    Classes <- {"every_call"}, Ttl <- 1, MaxTime <- 1, MaxChanges <- 1

(* One interrupt in two rounds; the lease is renewed between polls.          *)

Interrupt == INSTANCE RemoteInterrupts WITH
    run <- interruptRun, row <- interruptRow, faults <- interruptFaults, Unset <- Nil,
    Interrupts <- {"n"}, People <- {"p"},
    MaxRounds <- 2, MaxRenewals <- 2, MaxFaults <- 1, MidRenewal <- FALSE

(* One row of one thread.                                                    *)

History == INSTANCE ThreadHistory WITH
    row <- historyRow, run <- historyRun, Nothing <- Nil,
    Threads <- {"h"}, Rows <- {"b"}, Runs <- {"r"}, Procs <- {"k1", "k2"}, Readers <- {"x"},
    Askers <- {"a1"}, Requests <- {"q"}, BatchLimit <- 1, MaxXid <- 7

(* One cleanup, a query of the gate, a restart.                              *)

Artifact == INSTANCE ArtifactCleanup WITH
    inv <- artifactInv,
    Readers <- {}, Invocations <- {"i"}, MaxTails <- 1, MaxRestarts <- 1

ASSUME
    /\ Locking!BudgetAssumption
    /\ Pipeline!ToolCallAssumption
    /\ Interrupt!InterruptAssumption
    /\ History!HistoryAssumption
    /\ Artifact!ReadsAssumption
    /\ Artifact!RestartsAssumption

-----------------------------------------------------------------------------

Parts == {"runtime", "agent", "budget", "pipeline", "interrupt", "history", "artifact"}

Init ==
    /\ part \in Parts
    /\ Runtime!Init
    /\ Agent!Init
    /\ Locking!BudgetInit
    /\ Pipeline!Init
    /\ Interrupt!InterruptInit
    /\ History!HistoryInit
    /\ Artifact!Init
    /\ part # "artifact" => bytes = "present" /\ artifactInv["i"].kind = "remove"
    /\ part # "agent" => ~sampling.capped

\* The components that do not move.
Frame(p) ==
    /\ UNCHANGED part
    /\ IF p = "runtime" THEN TRUE ELSE UNCHANGED runtimeVars
    /\ IF p = "agent" THEN TRUE ELSE UNCHANGED agentVars
    /\ IF p = "budget" THEN TRUE ELSE UNCHANGED budgetVars
    /\ IF p = "pipeline" THEN TRUE ELSE UNCHANGED pipelineVars
    /\ IF p = "interrupt" THEN TRUE ELSE UNCHANGED interruptVars
    /\ IF p = "history" THEN TRUE ELSE UNCHANGED historyVars
    /\ IF p = "artifact" THEN TRUE ELSE UNCHANGED artifactVars

Next ==
    \/ part = "runtime" /\ Runtime!Next /\ Frame("runtime")
    \/ part = "agent" /\ Agent!Next /\ Frame("agent")
    \/ part = "budget" /\ Locking!BudgetNext /\ Frame("budget")
    \/ part = "pipeline" /\ Pipeline!Next /\ Frame("pipeline")
    \/ part = "interrupt" /\ Interrupt!InterruptNext /\ Frame("interrupt")
    \/ part = "history" /\ History!HistoryNext /\ Frame("history")
    \/ part = "artifact" /\ Artifact!Next /\ Frame("artifact")

\* The runtime polls what is ready, in each component as its module says.
WeakFairness ==
    /\ \A f \in Runtime!FairSteps :
         WF_vars(part = "runtime" /\ Runtime!FairStep(f) /\ Frame("runtime"))
    /\ \A f \in Agent!FairSteps :
         WF_vars(part = "agent" /\ Agent!FairStep(f) /\ Frame("agent"))
    /\ \A f \in Locking!BudgetSteps :
         WF_vars(part = "budget" /\ Locking!BudgetStep(f) /\ Frame("budget"))
    /\ \A f \in Pipeline!FairSteps :
         WF_vars(part = "pipeline" /\ Pipeline!FairStep(f) /\ Frame("pipeline"))
    /\ \A f \in Interrupt!InterruptSteps :
         WF_vars(part = "interrupt" /\ Interrupt!InterruptStep(f) /\ Frame("interrupt"))
    /\ \A f \in History!HistorySteps :
         WF_vars(part = "history" /\ History!HistoryStep(f) /\ Frame("history"))
    /\ \A f \in Artifact!FairSteps :
         WF_vars(part = "artifact" /\ Artifact!FairStep(f) /\ Frame("artifact"))

\* The renewal's row lock is granted in the order of its queue.
StrongFairness ==
    SF_vars(part = "interrupt" /\ Interrupt!renew_lease /\ Frame("interrupt"))

Spec == Init /\ [][Next]_vars /\ WeakFairness /\ StrongFairness

-----------------------------------------------------------------------------
\* EveryRunEnds: Every begun run reaches a terminal, whatever crashed or was lost.
\* EveryCancellationSettles: Every accepted cancellation is settled.
\* CancelEnds: A cancelled execution ends, although the provider or a person never
\*   answers.
RunsEnd ==
    /\ Runtime!EveryRunEnds
    /\ Runtime!EveryCancellationSettles
    /\ Agent!CancelEnds

\* EveryBudgetGranted: A task that waits for its tool budget gets it or gives up:
\*   locks in key order and the permit last never wait for each other in a circle.
\* EveryInvocationEnds: Every invocation of a tool call ends, also when nobody
\*   decides its approval.
\* WaitEnds: The wait for an answer ends: the remote agent is resumed or the run is
\*   over.
\* ClosedIsCompleted: A closed history is cleared, whatever its runs and readers
\*   were doing.
\* CleanupEnds: A cleanup that took its slot ends, and its worker gives the store's
\*   io mutex back.
WaitsEnd ==
    /\ Locking!EveryBudgetGranted
    /\ Pipeline!EveryInvocationEnds
    /\ Interrupt!WaitEnds
    /\ History!ClosedIsCompleted
    /\ Artifact!CleanupEnds
=============================================================================

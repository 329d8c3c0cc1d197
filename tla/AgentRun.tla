------------------------------ MODULE AgentRun ------------------------------
(***************************************************************************)
(* The execution of one activated run by the built-in agent                *)
(* (openbot-agent/src/runtime.rs, execute_activation and what it calls):   *)
(* load the context, sample the provider, invoke the tools it asks for in  *)
(* waves, journal their results, sample again, and commit one terminal.    *)
(*                                                                         *)
(* This is what happens inside a child of RunRuntime that is working or    *)
(* closing.  Every await is a step boundary: there the user's cancellation *)
(* (a watch channel), the run deadline and a failed renewal of the lease   *)
(* compete with the result that is awaited.                                *)
(*                                                                         *)
(* Texts, arguments and results are abstracted.  Routes, model bindings,   *)
(* rates and ceilings are bound by the first context; any later difference *)
(* is one of the failures of a context load.                               *)
(***************************************************************************)
EXTENDS AgentReducer, Sequences

CONSTANTS
    Tools,       \* tool names
    NoTool,      \* an output index without a call
    HumanTools,  \* is_component_human_decision_name
    SafeTools,   \* AgentToolScheduling::is_parallel_safe
    Locks,       \* resource lock keys of each tool
    MaxBatch     \* bound: output indexes of one sampling

ASSUME ToolsAssumption ==
    /\ NoTool \notin Tools
    /\ HumanTools \subseteq Tools
    /\ SafeTools \subseteq Tools
    /\ DOMAIN Locks = Tools
    /\ MaxBatch \in 1..255   \* reduce counts a batch in a u8

VARIABLES
    state,      \* the reducer's AgentState
    at,         \* the await the host is at
    sampling,   \* index, capped, and what the current sampling has delivered
    calls,      \* the tool calls of the run in provider order, and how each went
    wave,       \* the wave at work: the calls lo..hi
    exchanges,  \* tool exchanges in the journal, by call
    usage,      \* samplings with a provider usage row
    answered,   \* history: samplings in which a visible text was streamed
    starts,     \* history: provider invocations
    sent,       \* the terminal handed to finish_run
    cancel,     \* the user's cancellation has been signalled
    expired     \* the run deadline has passed

vars == <<state, at, sampling, calls, wave, exchanges, usage, answered, starts,
          sent, cancel, expired>>

-----------------------------------------------------------------------------
(* Calls and waves. *)

Index == 1..MaxBatch

Finished == {"replied", "unavailable", "unknown", "panicked"}

CallStatus == {"queued", "running", "stopped", "journaled"} \cup Finished

ParallelSafe(t) == t \in SafeTools \ HumanTools

MutConflict(t, u) == FALSE

Conflict(t, u) == Locks[t] \cap Locks[u] # {}

\* Calls i..j may be one wave: one call, or safe ones without a common lock.
IsWave(i, j) ==
    \/ i = j
    \/ /\ \A k \in i..j : ParallelSafe(calls[k].tool)
       /\ \A k, m \in i..j : k # m => ~Conflict(calls[k].tool, calls[m].tool)

\* schedule_tool_waves: from call i a wave is the longest run of compatible calls.
WaveEnd(i, j) ==
    /\ IsWave(i, j)
    /\ j < Len(calls) => ~IsWave(i, j + 1)

InWave == wave.lo..wave.hi
WaveOpen == wave.lo <= wave.hi
Serial == wave.lo = wave.hi
Human == Serial /\ calls[wave.lo].tool \in HumanTools

Joined == \A i \in InWave : calls[i].st \in Finished

\* ever_started, and the same for a serial call whose budget was granted.
Started == \E i \in InWave : calls[i].st # "queued"

SetCall(i, st) == calls' = [calls EXCEPT ![i].st = st]

\* The tasks of the wave are cancelled or aborted.  A human decision is only
\* detached: it goes on until the database reports the end of the run.
StopTasks ==
    calls' = [i \in DOMAIN calls |->
                IF i \in InWave /\ ~Human /\ calls[i].st = "running"
                THEN [calls[i] EXCEPT !.st = "stopped"] ELSE calls[i]]

NoCalls == [i \in Index |-> NoTool]

MutFreshSampling == [sampling EXCEPT !.usage_seen = FALSE]

\* What the loop keeps of one sampling begins anew with each session.
FreshSampling == [sampling EXCEPT !.usage_seen = FALSE, !.text_seen = FALSE]

NextSampling == [sampling EXCEPT !.index = @ + 1]

Init ==
    /\ state = queued
    /\ at = "queued"
    /\ \E capped \in BOOLEAN :
         sampling = [index |-> 0, usage_seen |-> FALSE, text_seen |-> FALSE,
                     capped |-> capped, pending |-> NoCalls]
    /\ calls = <<>>
    /\ wave = [lo |-> 1, hi |-> 0]
    /\ exchanges = <<>>
    /\ usage = {}
    /\ answered = {}
    /\ starts = 0
    /\ sent = NoTerminal
    /\ cancel = FALSE
    /\ expired = FALSE

-----------------------------------------------------------------------------
(* How an execution ends.  Each of these sets state and at. *)

journal == <<exchanges, usage, answered, starts>>
signals == <<cancel, expired>>

\* drive_terminal_event from state s: a refused fact ends the execution silently.
DriveFrom(s, e) ==
    LET r == reduce(s, e) IN
    /\ state' = r.state
    /\ at' = IF r.effect = "CommitTerminal" THEN "committing" ELSE "returned"

Drive(e) == DriveFrom(state, e)

\* The step of the reducer that leads to the next await.
Proceed(e, next) ==
    LET r == reduce(state, e) IN
    /\ state' = r.state
    /\ at' = IF r.ok THEN next ELSE "returned"

JournalFailure == {Fact("LeaseLost"), Fact("JournalCommitUnknown")}

\* The deadline is audited first; a failed audit is an unknown commit.
cancel_and_commit(audited) ==
    LET r == reduce(state, Fact("CancelRequested")) IN
    IF ~audited THEN Drive(Fact("JournalCommitUnknown"))
    ELSE IF r.ok THEN DriveFrom(r.state, Fact("ChildrenStopped"))
    ELSE UNCHANGED state /\ at' = "returned"

MutToolInterrupted == cancel_and_commit(TRUE)

\* Dropping an invocation cannot prove whether its effect happened.
tool_interrupted == Drive(Fact("JournalCommitUnknown"))

\* commit_terminal: the journal accepts the terminal, or it does not, or the
\* host does not learn whether it did.
commit_terminal ==
    /\ at = "committing"
    /\ at' = "returned"
    /\ sent' = state.pending
    /\ \/ state' = reduce(state, Fact("TerminalCommitted")).state
       \/ UNCHANGED state
    /\ UNCHANGED <<sampling, calls, wave, journal, signals>>

-----------------------------------------------------------------------------
(* Activation, context and provider. *)

cancel_before_execution ==
    /\ at = "queued"
    /\ cancel
    /\ cancel_and_commit(TRUE)
    /\ UNCHANGED <<sampling, calls, wave, journal, sent, signals>>

\* A permit was granted and the invocation is audited, or the audit failed.
execute_run ==
    /\ at = "queued"
    /\ \/ Proceed(Fact("DispatchActivated"), "context")
       \/ DriveFrom(reduce(state, Fact("DispatchActivated")).state,
                    Fact("JournalCommitUnknown"))
    /\ UNCHANGED <<sampling, calls, wave, journal, sent, signals>>

\* The provider has been invoked for the first answer and once per continuation.
OverCap == sampling.index > ToolStepCap

over_cap ==
    /\ at = "context"
    /\ OverCap
    /\ Drive(Failure("ContextFailed", "provider_failed"))
    /\ UNCHANGED <<sampling, calls, wave, journal, sent, signals>>

\* The context is loaded, agrees with what the run is bound to and is within its
\* cost cap, or one of these fails; a rejected cost cap is audited.
load_context ==
    /\ at = "context"
    /\ ~OverCap
    /\ \/ /\ Proceed(Fact("ContextPrepared"), "provider")
          /\ starts' = starts + 1
       \/ /\ \E f \in {"provider_failed", "tool_loop_unavailable", "runtime_lease_lost"} :
               Drive(Failure("ContextFailed", f))
          /\ UNCHANGED starts
       \/ /\ Drive(Fact("JournalCommitUnknown"))
          /\ UNCHANGED starts
    /\ UNCHANGED <<sampling, calls, wave, exchanges, usage, answered, sent, signals>>

\* provider.start: a session, or a failure; the request may have been sent.
start_provider ==
    /\ at = "provider"
    /\ \/ at' = "sampling" /\ sampling' = FreshSampling /\ UNCHANGED state
       \/ /\ \E f \in {"provider_failed", "provider_commit_unknown"} :
               Drive(Failure("ProviderFailed", f))
          /\ UNCHANGED sampling
    /\ UNCHANGED <<calls, wave, journal, sent, signals>>

-----------------------------------------------------------------------------
(* One sampling: the events of the provider's stream. *)

\* A delta or a remote projection, and the journal that takes it or fails.
stream_delta ==
    /\ at = "sampling"
    /\ \/ /\ Proceed(Fact("ProviderTextDelta"), "sampling")
          /\ sampling' = [sampling EXCEPT !.text_seen = TRUE]
          /\ answered' = answered \cup {sampling.index}
       \/ /\ \E e \in JournalFailure : Drive(e)
          /\ UNCHANGED <<sampling, answered>>
    /\ UNCHANGED <<calls, wave, exchanges, usage, starts, sent, signals>>

\* record_provider_usage: recorded, recorded beyond a ceiling, or not known.
stream_usage ==
    /\ at = "sampling"
    /\ \/ /\ ~sampling.usage_seen
          /\ usage' = usage \cup {sampling.index}
          /\ sampling' = [sampling EXCEPT !.usage_seen = TRUE]
          /\ \/ UNCHANGED <<state, at>>
             \/ Drive(Failure("ProviderFailed", "provider_failed"))
             \/ Drive(Fact("JournalCommitUnknown"))
       \/ /\ Drive(Failure("ProviderFailed", "provider_failed"))
          /\ UNCHANGED <<usage, sampling>>
       \/ /\ ~sampling.usage_seen
          /\ \E e \in JournalFailure : Drive(e)
          /\ UNCHANGED <<usage, sampling>>
    /\ UNCHANGED <<calls, wave, exchanges, answered, starts, sent, signals>>

\* A complete call at an output index; a repeated index or call id is invalid.
stream_tool_call ==
    /\ at = "sampling"
    /\ \/ \E i \in Index, t \in Tools :
            /\ sampling.pending[i] = NoTool
            /\ sampling' = [sampling EXCEPT !.pending[i] = t]
            /\ UNCHANGED <<state, at>>
       \/ /\ \E i \in Index : sampling.pending[i] # NoTool
          /\ Drive(Failure("ProviderFailed", "provider_failed"))
          /\ UNCHANGED sampling
    /\ UNCHANGED <<calls, wave, journal, sent, signals>>

Pending == {i \in Index : sampling.pending[i] # NoTool}

MutMetered == TRUE

Metered == sampling.capped => sampling.usage_seen

\* b lists the pending output indexes in their order.
Ordered(b, n) ==
    /\ \A k \in 1..n : b[k] \in Pending
    /\ \A k, m \in 1..n : k < m => b[k] < b[m]
    /\ \A i \in Pending : \E k \in 1..n : b[k] = i

\* At the step limit the reducer answers CommitTerminal, which is not the
\* InvokeTools the host waits for: it returns and commits nothing.
InvokeTools(n) ==
    LET r == reduce(state, ToolCalls(n)) IN
    /\ state' = r.state
    /\ at' = IF r.effect = "InvokeTools" THEN "tools" ELSE "returned"

\* Completed with pending calls ends the sampling and begins the tool waves.
sampled_tools ==
    /\ at = "sampling"
    /\ Pending # {}
    /\ \/ /\ Metered
          /\ \E n \in Index : \E b \in [1..n -> Index] :
               /\ Ordered(b, n)
               /\ InvokeTools(n)
               /\ calls' = IF at' = "tools"
                           THEN calls \o [k \in 1..n |-> [tool |-> sampling.pending[b[k]],
                                                          st |-> "queued"]]
                           ELSE calls
          /\ sampling' = [sampling EXCEPT !.pending = NoCalls]
       \/ /\ ~Metered
          /\ Drive(Failure("ProviderFailed", "provider_failed"))
          /\ UNCHANGED <<calls, sampling>>
    /\ UNCHANGED <<wave, journal, sent, signals>>

\* Completed without calls: only a visible text of this sampling is an answer.
sampled_answer ==
    /\ at = "sampling"
    /\ Pending = {}
    /\ IF sampling.text_seen /\ Metered
       THEN Drive(Fact("ProviderCompleted"))
       ELSE Drive(Failure("ProviderFailed", "provider_failed"))
    /\ UNCHANGED <<sampling, calls, wave, journal, sent, signals>>

\* A remote agent interrupts; a batch of another protocol run is invalid.
sampled_interrupt ==
    /\ at = "sampling"
    /\ \/ Pending = {} /\ Metered /\ Proceed(Fact("HumanRequired"), "interrupt")
       \/ Drive(Failure("ProviderFailed", "provider_failed"))
    /\ UNCHANGED <<sampling, calls, wave, journal, sent, signals>>

\* The stream ends early, fails, or stalls; a stall is audited first.
sampling_fails ==
    /\ at = "sampling"
    /\ \/ \E f \in {"provider_failed", "provider_commit_unknown"} :
            Drive(Failure("ProviderFailed", f))
       \/ Drive(Fact("JournalCommitUnknown"))
    /\ UNCHANGED <<sampling, calls, wave, journal, sent, signals>>

\* persist_and_wait: the human has answered, or the coordinator failed.
resume ==
    /\ at = "interrupt"
    /\ \/ /\ Proceed(Fact("RemoteResumeReady"), "context")
          /\ sampling' = NextSampling
       \/ /\ \E e \in JournalFailure \cup {Failure("RemoteResumeFailed", "provider_failed")} :
               Drive(e)
          /\ UNCHANGED sampling
    /\ UNCHANGED <<calls, wave, journal, sent, signals>>

-----------------------------------------------------------------------------
(* The tool waves. *)

\* The next wave begins; a human decision is announced to the reducer.
next_wave ==
    /\ at = "tools"
    /\ ~WaveOpen
    /\ \E j \in DOMAIN calls :
         /\ j > wave.hi
         /\ WaveEnd(wave.hi + 1, j)
         /\ wave' = [lo |-> wave.hi + 1, hi |-> j]
         /\ IF j = wave.hi + 1 /\ calls[j].tool \in HumanTools
            THEN Proceed(Fact("HumanRequired"), "tools")
            ELSE UNCHANGED <<state, at>>
    /\ UNCHANGED <<sampling, calls, journal, sent, signals>>

\* acquire_tool_budget grants the locks and the permit, and the task invokes.
invoke(i) ==
    /\ at = "tools"
    /\ i \in InWave
    /\ calls[i].st = "queued"
    /\ SetCall(i, "running")
    /\ UNCHANGED <<state, at, sampling, wave, journal, sent, signals>>

\* The task of a call ends by itself, detached or not.
tool_ends(i) ==
    /\ calls[i].st = "running"
    /\ \E st \in Finished : SetCall(i, st)
    /\ UNCHANGED <<state, at, sampling, wave, journal, sent, signals>>

\* Every task of the wave has been joined.  A parallel wave looks once more at
\* the cancellation and the deadline before it keeps the results.
join_wave ==
    /\ at = "tools"
    /\ WaveOpen
    /\ Joined
    /\ \/ Human /\ Proceed(Fact("HumanReleased"), "outputs")
       \/ Serial /\ ~Human /\ at' = "outputs" /\ UNCHANGED state
       \/ ~Serial /\ ~cancel /\ ~expired /\ at' = "outputs" /\ UNCHANGED state
       \/ ~Serial /\ (cancel \/ expired) /\ tool_interrupted
    /\ UNCHANGED <<sampling, calls, wave, journal, sent, signals>>

\* A task of a parallel wave panicked: the others are aborted.
join_fails ==
    /\ at = "tools"
    /\ ~Serial
    /\ \E i \in InWave : calls[i].st = "panicked"
    /\ StopTasks
    /\ Drive(Fact("JournalCommitUnknown"))
    /\ UNCHANGED <<sampling, wave, journal, sent, signals>>

MutNextOutput == wave.hi

\* Results are journaled in the order of the provider's calls.
NextOutput == wave.lo

append_tool_reply ==
    /\ at = "outputs"
    /\ calls[wave.lo].st = "replied"
    /\ \/ /\ exchanges' = Append(exchanges, NextOutput)
          /\ SetCall(wave.lo, "journaled")
          /\ wave' = [wave EXCEPT !.lo = @ + 1]
          /\ at' = IF Serial THEN "tools" ELSE "outputs"
          /\ UNCHANGED state
       \/ /\ \E e \in JournalFailure : Drive(e)
          /\ exchanges' \in {exchanges, Append(exchanges, NextOutput)}
          /\ UNCHANGED <<calls, wave>>
    /\ UNCHANGED <<sampling, usage, answered, starts, sent, signals>>

\* The result of a call that has none: a serial task that panicked counts as
\* unavailable.
tool_failed ==
    /\ at = "outputs"
    /\ \/ calls[wave.lo].st \in {"unavailable", "panicked"}
            /\ Drive(Fact("ToolRuntimeUnavailable"))
       \/ calls[wave.lo].st = "unknown" /\ Drive(Fact("JournalCommitUnknown"))
    /\ UNCHANGED <<sampling, calls, wave, journal, sent, signals>>

\* Every call of the batch is journaled: the next sampling begins.
tools_done ==
    /\ at = "tools"
    /\ ~WaveOpen
    /\ wave.hi = Len(calls)
    /\ Proceed(Fact("ToolResultCommitted"), "context")
    /\ sampling' = NextSampling
    /\ UNCHANGED <<calls, wave, journal, sent, signals>>

-----------------------------------------------------------------------------
(* What competes with every await. *)

Awaiting ==
    \/ at \in {"provider", "sampling", "interrupt"}
    \/ at = "context" /\ ~OverCap

\* A serial task that has ended is looked at before the cancellation.
Biased == Serial /\ ~Human /\ Joined

AwaitingTools == at = "tools" /\ WaveOpen /\ ~Biased

\* The user or the deadline stops the execution, audited for the deadline.
CancelledBy(audited) ==
    \/ /\ Awaiting
       /\ cancel_and_commit(audited)
       /\ UNCHANGED calls
    \/ /\ AwaitingTools
       /\ StopTasks
       /\ IF Started /\ ~Human THEN tool_interrupted ELSE cancel_and_commit(audited)

user_cancels ==
    /\ cancel
    /\ CancelledBy(TRUE)
    /\ UNCHANGED <<sampling, wave, journal, sent, signals>>

deadline_ends ==
    /\ expired
    /\ \E audited \in BOOLEAN : CancelledBy(audited)
    /\ UNCHANGED <<sampling, wave, journal, sent, signals>>

\* renew_lease failed.
lease_lost ==
    /\ \/ Awaiting /\ UNCHANGED calls
       \/ AwaitingTools /\ StopTasks
    /\ Drive(Fact("LeaseLost"))
    /\ UNCHANGED <<sampling, wave, journal, sent, signals>>

Running == at \notin {"returned", "aborted"}

\* revoke or a stop of the runtime signals the watch channel.
revoke ==
    /\ Running
    /\ ~cancel
    /\ cancel' = TRUE
    /\ UNCHANGED <<state, at, sampling, calls, wave, journal, sent, expired>>

deadline_passes ==
    /\ Running
    /\ at # "queued"
    /\ ~expired
    /\ expired' = TRUE
    /\ UNCHANGED <<state, at, sampling, calls, wave, journal, sent, cancel>>

\* The supervisor's deadline aborts the task, or it panics; a parallel wave is
\* aborted with it, a serial task is detached.
abort ==
    /\ Running
    /\ at' = "aborted"
    /\ IF at = "tools" /\ ~Serial THEN StopTasks ELSE UNCHANGED calls
    /\ UNCHANGED <<state, sampling, wave, journal, sent, signals>>

-----------------------------------------------------------------------------

Provider ==
    \/ load_context \/ start_provider \/ resume
    \/ stream_delta \/ stream_usage \/ stream_tool_call
    \/ sampled_tools \/ sampled_answer \/ sampled_interrupt \/ sampling_fails

\* Steps the host takes without waiting for anybody.
Host ==
    \/ cancel_before_execution \/ over_cap \/ commit_terminal
    \/ next_wave \/ join_wave \/ join_fails \/ append_tool_reply \/ tool_failed \/ tools_done

Control == user_cancels \/ deadline_ends \/ lease_lost

Next ==
    \/ execute_run \/ Provider \/ Host \/ Control
    \/ \E i \in DOMAIN calls : invoke(i) \/ tool_ends(i)
    \/ revoke \/ deadline_passes \/ abort

Spec == Init /\ [][Next]_vars

\* The host's task is scheduled, and a signalled cancellation stays ready in
\* every select.  Nothing is assumed of the provider, the tools or the human.
FairSteps == {"host", "signal"}
FairStep(f) == (f = "host" /\ Host) \/ (f = "signal" /\ user_cancels)

-----------------------------------------------------------------------------
(* Properties. *)

At == {"queued", "context", "provider", "sampling", "interrupt", "tools", "outputs",
       "committing", "returned", "aborted"}

\* Every variable has its type, and the wave lies within the calls: what
\* execute_run, the reducer and the journal keep between two awaits.
TypeOK ==
    /\ state \in AgentState
    /\ at \in At
    /\ sampling \in [index : Nat, usage_seen : BOOLEAN, text_seen : BOOLEAN,
                     capped : BOOLEAN, pending : [Index -> Tools \cup {NoTool}]]
    /\ calls \in Seq([tool : Tools, st : CallStatus])
    /\ wave \in [lo : Nat \ {0}, hi : Nat]
    /\ wave.lo <= wave.hi + 1
    /\ wave.hi <= Len(calls)
    /\ exchanges \in Seq(Nat)
    /\ usage \subseteq Nat
    /\ answered \subseteq Nat
    /\ starts \in Nat
    /\ sent \in AgentTerminal \cup {NoTerminal}
    /\ cancel \in BOOLEAN
    /\ expired \in BOOLEAN

\* A tool that acts: neither declared parallel-safe nor a human decision.
Acting(t) == t \notin SafeTools \cup HumanTools

\* A terminal that claims to know the outcome is only sent when every acting call
\* that was invoked is in the journal or never had an effect: an interrupted,
\* unknown or unjournaled effect is left to reconciliation (tool_interrupted,
\* journal_failure).  Tasks that panicked are left out: a serial one ends as Failed.
EffectsReconciled ==
    sent.kind \in {"Succeeded", "Failed", "Cancelled"} =>
        \A i \in DOMAIN calls :
            Acting(calls[i].tool) =>
                calls[i].st \in {"queued", "unavailable", "journaled", "panicked"}

\* A call of any kind whose outcome has an "unknown commit state"
\* (AgentToolInvokeError::ReconciliationRequired) leaves the run to reconciliation,
\* whatever the other calls of its wave reported (execute_tool_wave).
UnknownOutcomesReconciled ==
    sent.kind \in {"Succeeded", "Failed", "Cancelled"} =>
        \A i \in DOMAIN calls : calls[i].st # "unknown"

\* The journal holds the exchanges in the order of the provider's calls, each once,
\* whatever order the tasks of a wave ended in, and the provider is only sampled
\* again when it holds all of them (execute_tool_wave, append_tool_reply).
ExchangesInOrder ==
    /\ \A i \in DOMAIN exchanges : exchanges[i] = i
    /\ at \in {"context", "provider", "sampling", "interrupt"} =>
           Len(exchanges) = Len(calls)

\* A run succeeds on a text of its last sampling, never on one of an earlier
\* sampling (current_text_seen).
AnswerIsCurrent == sent = Succeeded => sampling.index \in answered

\* Under an output cap a run goes on to its next sampling, and to success, only
\* with a usage row of every sampling so far: tool batches and interrupts do not
\* escape the run's token ceiling (record_provider_usage).
EverySamplingMetered ==
    sampling.capped =>
        /\ 0..(sampling.index - 1) \subseteq usage
        /\ sent = Succeeded => sampling.index \in usage

\* One run invokes the provider at most once more than the step cap, and no more
\* tools than the cap, however tool batches and remote interrupts alternate: the
\* run-wide output ceiling is computed from that number.
BoundedInvocations ==
    /\ starts <= ToolStepCap + 1
    /\ Len(calls) <= ToolStepCap

\* What a run may cost is bounded, and what it did cost is on record, whichever way
\* it goes on from a sampling.
SamplingsBounded == BoundedInvocations /\ EverySamplingMetered

\* No two invocations that share a resource lock are in flight together, and one
\* that is not declared safe runs alone (schedule_tool_waves).
ConflictsNeverOverlap ==
    \A i, j \in DOMAIN calls :
        (i # j /\ calls[i].st = "running" /\ calls[j].st = "running") =>
            /\ ParallelSafe(calls[i].tool) /\ ParallelSafe(calls[j].tool)
            /\ Locks[calls[i].tool] \cap Locks[calls[j].tool] = {}

\* An execution that returns has handed a terminal to the journal, except at the
\* tool step limit: no fact the host drives is refused by the reducer.
SilentOnlyAtStepLimit ==
    (at = "returned" /\ sent = NoTerminal) =>
        state.pending = Failed("tool_step_limit")

\* "Commit exactly one terminal event" (AgentEffect::CommitTerminal): an execution
\* that returns has tried to.
ReturnsCommitTerminal == at = "returned" => sent # NoTerminal

\* After a cancellation has been signalled the execution ends, although the
\* provider, a tool or a human never answers.
CancelEnds == []<>~(cancel /\ Running)

=============================================================================

# wrok-bot: models, checks and proofs

This directory holds TLA+ models of the parts of the repository that keep state
under concurrency and failure: the durable run runtime and the agent loop that
executes a run, and around them what a run's tools, samplings and answers go through,
what the desktop host does with browsers, screens, dialogs, its database and its
event streams, and what the services do with credentials, connections and people.
TLC checks every model on small instances; TLAPS proves the properties of the run
runtime, the agent loop, the tool budget, the tool call, the meter, remote interrupts,
the thread history, the browser manager, computer control, the gateway's journal and
credential, and sign-in for every size.

Names of source files are relative to `src/crates/`.

## 1. The system

| component | state | operations | hard parts |
|---|---|---|---|
| Durable run runtime, `openbot-infra/src/run_runtime.rs` | `runs`, `run_events`, `thread_leases`, `outbox` rows | claim, acknowledge, retry, reject a dispatch; claim, mark, finish a cancellation; append; finish; recover; renew | two replicas on one row, expiry against commit, unknown commits, fencing |
| Run relay, same file (`supervise_run_relay`) | the claim in its hands | poll: cancellations, stale runs, dispatches | state read in one transaction, used in the next |
| Run runtime port, `openbot-application/src/run_runtime.rs` | `DurableTextRun`: expected sequence, pending chunk | push, flush, finish | replay of a chunk whose commit is unknown |
| Built-in agent runtime, `openbot-agent/src/runtime.rs` | reservations, activations, tasks, tool semaphores | dispatch, activate, revoke, stop, supervise, execute, acquire a tool budget | cancellation against execution, shutdown, panics, lock order |
| Agent state machine, `openbot-domain/src/agent.rs` | phase, tool steps, pending terminal | `reduce` | effects the host forgets |
| Run entity, `openbot-domain/src/run.rs` | status | start, finish | which statuses keep the foreground slot |
| Thread directory, `openbot-infra/src/thread_directory.rs` | `threads`, `messages` | begin a run, request a cancellation | a begin against a terminal or a recovery |
| Thread history authority, `openbot-infra/src/thread_history_authority/` | head, intents, acceptances, batches | close, drain, clear, complete | readers with old snapshots, writers under way, two processes |
| Tool pipeline and approvals, `openbot-application/src/tool.rs`, `openbot-infra/src/tool_approval.rs`, `repo/tools.rs` | approvals, calls, attempts | resolve, request, decide, poll, record, execute, record the outcome | a grant that is stale when used, a repeated call id, an effect whose outcome is lost |
| Remote agents, `openbot-infra/src/remote_interrupt.rs` | open interrupts, answers | open, answer, resume, retire | an answer against the terminal, two polls |
| Provider usage and cost, `run_cost_budget.rs`, `openbot-agent/src/retry.rs` | usage per sampling, cap, tariff | snapshot, check, record, retry | rounding, ceilings, a stream that breaks after it was billed |
| Gateway authorization journal, `openbot-infra/src/gateway_authorization/` | attempt row, adopted connection | register, callback, exchange, profile, adopt | a crash or cancellation between request and record, a fence that must outlive the request |
| Gateway credential authority, `openbot-infra/src/gateway_authority/` | connection, rotation rows, secrets, sessions | enroll, lock, load, rotate, clear, fence, revoke | a refresh token that is spent once, two operations |
| MCP connections, `openbot-infra/src/mcp_connections.rs`, `mcp_oauth.rs` | clients, connections, tokens, operations | consent, connect, refresh, disconnect, retire, sweep | refresh against revocation, two workers |
| Artifacts, `openbot-infra/src/artifact_store.rs`, `artifact_read_lifecycle.rs` | records, charges, read gate, cleanup slot | read, clean up, probe | a reader against deletion, cancelled callers, restarts |
| Sign-in and people, `openbot-infra/src/auth/`, `repo/people_admin.rs` | attempts, sessions, accounts, members | begin, callback, issue, change role and access, register a provider, synchronise | two administrators, callbacks that race, groups spelt in two ways |
| Browser manager, `openbot-computer/src/manager.rs` | resident browsers, leases, lifecycle | ensure, lease, evict, sweep, stop, drain, shut down | eviction against a new lease, cancelled launches |
| Computer control, `openbot-computer/src/control.rs`, `screen/engine_owner.rs` | who has the wheel, epoch, command queue | take, renew, return, input, expire, stop | input in flight at a hand-over, biased select, full queues |
| Local confirmation, `openbot-desktop/src/local_confirmation*.rs` | coordinator, slot, grant, native dialog | request, install, cancel, expire, read | a dialog that outlives its request, clocks set back |
| PostgreSQL sidecar, `openbot-desktop/src/postgres_sidecar.rs` | start lock, journals, secrets, epochs | start, initialise, recover, serve, stop | a crash between any two files, an orphan server |
| Event broker, `openbot-desktop/src/broker.rs`, `transport.rs` | routes, queues, aggregates, permits | open, deliver, read, close, shut down | gaps, full queues, a reader beside the lock |
| Server, contracts, interfaces | - | transport and presentation | - |

A run is begun by `apply_begin`: one transaction writes the run, its `started`
event, the thread's lease and a dispatch outbox row. The relay of some replica
claims the row (taking the lease over with a larger fencing token when it ran
out), offers the run to the local agent runtime, acknowledges the row and activates
the child. The child appends events and writes one terminal under the token it was
given. A cancellation is a second outbox row; a relay that claims it signals the
local child, or writes the terminal itself when there is none. A run whose lease
ran out after the acknowledgement is ended by the recovery of any replica.

Inside a child, each sampling is metered (`ProviderMeter`), each tool call takes its
budget (`ToolBudget`) and goes through approval and journal (`ToolCall`), a remote
agent's question waits for a person (`RemoteInterrupts`). The history of the thread
can be closed under all of them (`ThreadHistory`). The desktop host runs the same
application on its own PostgreSQL (`PostgresSidecar`), shows streams (`EventBroker`)
and asks for a local confirmation (`LocalConfirmation`); browsers and screens are
lent to runs and to people (`BrowserManager`, `ComputerControl`, `ScreenOwner`).

Correctness, per component: journals without gaps or duplicates and one terminal,
the last event (runtime); at most one execution of a run and definite failures only
where nothing was executed (relay and agent runtime); a writer that was overtaken
writes nothing (leases); no accepted cancellation is lost and every run ends
(relay, recovery); one foreground run per thread (directory); a cleared history that
nobody can see any more (history authority); no definite outcome while the effect of
a tool is unknown, exchanges in order, a loop within its limits (execution); no effect
without authority and none twice (tool call); exact cost (meter); one holder of the
wheel (control); a grant that was earned (confirmation); one server on a finished
cluster (sidecar); a sequence without silent loss (broker); a refresh token that is
spent once (gateway, MCP); nobody in who was removed (sign-in).

## 2. Modules

| module | models | checked by | proved by |
|---|---|---|---|
| `RunRuntime` | runtime, relay, port, agent runtime, begin, cancellation request, history close | `MCRunRuntime`, `MCRunLiveness` | `RunRuntimeProofs`, `RunExecutionProofs` |
| `RunLedger` | what a reader of the database may rely on (abstract) | `MCRunRuntime` | `RunLedgerProofs` |
| `AgentReducer` | the pure reducer of the agent | `MCAgentRun` | `AgentRunProofs` |
| `AgentRun` | the execution of one activated run around that reducer | `MCAgentRun`, `MCRunLiveness` | `AgentRunProofs` |
| `ToolBudget` | resource locks and the shared semaphore | `MCTools`, `MCRunLiveness` | `ToolProofs` |
| `ToolCall` | pipeline, approvals, tool journal, vendor | `MCTools`, `MCRunLiveness` | `ToolProofs` |
| `ProviderMeter` | cap, tariff, usage record, retry wrapper | `MCTools` | `ToolProofs` |
| `RemoteInterrupts` | the durable wait for a person's answer | `MCTools`, `MCRunLiveness` | `ToolProofs` |
| `ArtifactReads`, `ArtifactCleanup` | the read gate; the cleanup workers on top of it | `MCTools`, `MCRunLiveness` | |
| `ThreadHistory` | close, drain, clear, complete | `MCHost`, `MCRunLiveness` | `ThreadHistoryProofs` |
| `BrowserManager` | the residency manager | `MCHost`, `MCHostLiveness` | `ComputerProofs` |
| `ComputerControl` | the wheel: leases, epoch, tickets | `MCHost` | `ComputerProofs` |
| `ScreenOwner` | the owner task of a session around that control | `MCHost`, `MCHostLiveness` | |
| `LocalConfirmation` | coordinator, service, native owner | `MCHost`, `MCHostLiveness` | |
| `PostgresSidecar` | start, journals, recovery, invalidation | `MCHost` | |
| `EventBroker` | aggregates, pump, routes, reader | `MCHost`, `MCHostLiveness` | |
| `GatewayJournal` | the authorization attempt and the fenced transport | `MCServices`, `MCHostLiveness` | `ServiceProofs` |
| `GatewayRotation` | enrollment, lock, rotation, fence, revocation | `MCServices`, `MCHostLiveness` | `ServiceProofs` |
| `McpConnections` | consent, refresh, ends, revocation sweep | `MCServices`, `MCHostLiveness` | |
| `SignIn` | attempts, sessions, people, channels, packages | `MCServices` | `ServiceProofs` |

`AgentRun` is what happens inside a child that `RunRuntime` shows as working or
closing: there an execution appends events, reaches some terminal or is abandoned;
here it is shown which terminal, and when it is abandoned. `ArtifactCleanup` extends
`ArtifactReads`, `ScreenOwner` extends `ComputerControl`, `AgentRun` extends
`AgentReducer`.

*Composites.* `MCTools`, `MCHost`, `MCServices`, `MCRunLiveness` and `MCHostLiveness`
put several components side by side. `MCTools` extends `ToolCall`, `ToolBudget`,
`ProviderMeter` and `RemoteInterrupts`, `MCHost` extends `ComputerControl`,
`BrowserManager` and `ThreadHistory`, and `MCServices` extends `GatewayRotation`,
`GatewayJournal` and `SignIn`, so that what TLC checks there are the very definitions the
proofs are about; all other components are instances. A module that is extended beside
others has names of its own for what every module has (`JournalSpec`, `meterVars`,
`SignInTypeOK`). These components share no variable in
the code, so their interleavings would only multiply states: the variable `part`,
chosen at the start and never changed, names the component that moves, and the
others keep their first state. A property
such as `HistorySafety` says of each part what its module states; its comment lists
the parts of the conjunction one by one. Where actors differ only in name, the
composite lets them begin in one order (`InOrder`, `InterruptsInOrder`, `CallsInOrder`,
`RequestsInOrder`, `StreamsInOrder`), and where two misfortunes are independent it
takes one at a time (`OneDisturbance`, `OneEnding`, `OneMisfortune`). Sign-in moves in two
parts: `people` (`OnlyPeople`) at fixed channels and providers, `channels` (`OnlyChannels`)
with one subject; the two meet in the proofs, which have neither bound. None of these
restricts what a component may do once it has begun.

### How RunRuntime corresponds to the code

*Actors.* A replica is one incarnation of the process: `application_assembly.rs`
mints the owner id at every start, so a restarted process is another replica. Each
has a relay (`relay[p]`: the handler it is in, the run, the attempt and the lease
it was handed), reservations (`resv[p]`) and children (`child[p]`). There is one
thread: leases, journals and outboxes of different threads share no row.

*Steps.* A database function is one transaction and one action: it locks its rows
before it decides. Each `await` between two calls of a handler is a point where
every other actor may act, so `handle_dispatch` is `offer`, `acknowledge_dispatch`,
`activate` (or `withdraw`, `retry_dispatch`, `reject_dispatch`, `fail_activation`)
and `handle_cancellation` is `revoke` and then `mark_cancellation_signalled` or
`finish_unstarted_cancellation`. The relay's loop polls cancellations, stale runs
and dispatches in turn and goes to the next phase on an error or when there is
nothing; since what is available to it changes between any two polls, a relay that
takes any of the three when it is idle has the same behaviours.

*Time.* `lease.live` and the `live` of an outbox row say that the expiry has not
been reached. `now()` of a transaction is its start: `early` is the transaction that
was opened before an expiry and reads the row after it. `lease_expires` respects
`claim_duration < lease_duration`, which the constructor checks, and costs a fault
while its owner is at work (renewals every few seconds then failed or came late).
Backoff (`available_at`) is a relay that has not looked yet.

*Failures.* A commit whose result is unknown happened or did not, and the caller
takes its error path in both cases. A process crashes or is stopped at any point,
also between the acknowledgement and the activation. A child may panic or return
early (`abandon`). The agent's queue, shared with other threads, may be full.
`Damaged` runs have a dispatch row that fails the payload and binding checks.

*Data.* An event is its run sequence, its thread sequence, its kind and the token it
was written under. Texts, tool results and payloads are their kinds; a replay is the
same kind at the same sequence, where the code compares payloads. Error codes are
grouped into the ones that claim that nothing was executed (`UnstartedCode`), the
recovery's, and the agent's.

`RunLedger` has no outbox, claim, timer, process or failure: runs begin, append,
finish and change hands under a growing token. `ImplementsLedger` maps the database
rows to it; outboxes, relays and children are invisible.

### How AgentReducer and AgentRun correspond to the code

*Reducer.* `reduce` has one alternative per arm of the code's `match` and answers the
next state and the effect, or a refusal that changes nothing. A batch of tool calls
is its length. A failure keeps what a terminal distinguishes: `provider_failed` is
any definite failure of the provider, the context or a budget.

*Host.* `at` is the await the execution is at: waiting for a permit (`queued`), for
the context, for the provider's session, in the sampling loop, for a remote
interrupt, for the tasks of a tool wave (`tools`), appending their results
(`outputs`), in `finish_run` (`committing`). Each action is the code from one await to
the next, with the reducer's step in it: `Proceed` and `Drive` return silently where
the code does, when the reducer refuses or answers another effect. The three rivals
of every await, cancellation, deadline and a failed renewal, are `user_cancels`,
`deadline_ends` and `lease_lost`; they are not enabled while the host is in
`finish_run`, in a journal append or in the bounded stop of a task, as in the code.
`commit_terminal` ignores the result of `finish_run`, so a terminal counts as handed
over (`sent`) whether or not it was accepted.

*Tools.* `calls` keeps every call of the run with what became of it. A wave is the
longest run of parallel-safe calls without a common lock, or one call. A serial task
is looked at before the cancellation (`biased`); a parallel wave looks at
cancellation and deadline once more after its last task. Stopping a wave makes its
running calls `stopped`: their effect is not known. A human decision is detached
instead. A budget that is never granted is a call that stays `queued`: the locks and
the semaphore, shared by all runs, are never closed by the code.

*Abstractions.* Text, reasoning and remote projections are one delta, visible or
failing; deltas without visible text change nothing here. Routes, model bindings,
rates and cost caps are bound by the first context, and a difference later is a
failed context. The decoders of the providers drop empty deltas and reject calls that
are not complete, which `reduce` would refuse. A batch has at most 255 calls: `reduce`
counts in a `u8` and refuses a larger one, which ends the execution silently as in
finding 3.

### How the other modules correspond to the code

*ToolBudget.* `acquire_tool_budget` sorts the keys, takes one semaphore after the other
from a table of weak references and the shared permit last. The table's entry, the
semaphores alive, their FIFO queues and the pool are the state; a task can be
cancelled at every await.

*ToolCall.* Each transaction is one action, and everything that is read outside of the
transaction that uses it is an action of its own: poll and retirement, the two halves
of a decision, the grant and the observation that settles it. Two invocations may carry
the same call id; a process may die everywhere; a COMMIT may succeed without its
acknowledgement. The world (run, history, membership, generations) changes at any step.
An approval is named by its call; all calls use one tool and target. Not here: the
remember tool's own transaction, retry rows, the activity stream.

*ProviderMeter.* Amounts are small integers with their own million and ceiling, so that
rounding and overflow happen. `max_output_tokens` is always set for built-in runs;
remote and custom routes have no price, so a cap refuses them. The exact-replay branch of
the usage record has no caller. `spent` is a history: the exact sum of what the recorded
usages cost at their tariffs, which the row's micro-units and remainder are compared with.

*RemoteInterrupts.* A poll has two statements; an answer in flight or a renewal between
them makes it fail and ends the run as unavailable, by design. `MidRenewal` says whether
a renewal may fall due inside a poll (it is `FALSE` in the liveness run, see section 4).

*ArtifactReads, ArtifactCleanup.* Gate, leases of readers, the worker of a cleanup with
its main task and its caller, either of which may be cancelled. A caller that is
cancelled while the terminal worker probes poisons the key; after a restart the completed
path always fails and poisons it: both are in the model.

*ThreadHistory.* Rows of the nine body tables are one set; a transaction has a snapshot,
so a reader may still see what is deleted (`MayStillSee`). All of the authority's
transactions are actions.

*BrowserManager.* Every await of ensure, evict, stop and shutdown is a step; dropping a
lease is two (the counter, then the handle). An ensure cancelled during its launch loses
its victim too, as in the code.

*ComputerControl, ScreenOwner.* The control service is the pure state behind one mutex,
the owner the task around it with its bounded queue and its `biased` select. A granted
take is sent (`reply_take`) and received (`receive`) in two steps, and the caller may be
dropped before either: before the send the lease is released, after it the ticket is lost.
What becomes of any other answer changes nothing. `lock_late` is `OPERATION_DEADLINE` spent
waiting for the control mutex, which the owner shares with whoever attached it. Epochs are
bounded by `MaxEpoch`; at the bound the generation is poisoned, as at `u64::MAX`.

*LocalConfirmation.* Coordinator, main-thread jobs, native owner and polling task, with
the monotonic and the wall clock. A blur between the native success and the install does
not end the new grant, by design; an outcome published between `try_take_outcome` and
`is_stopped` is lost, which only costs a retry.

*PostgresSidecar.* Each file that is written and synced is a step; a crash may follow
each. `SlowOpen = FALSE` says that a child spawned by a dead owner has opened its
directory or exited before the next start. States in which the application asks for an
operator are final by design, so there is no liveness property.

*EventBroker.* Scopes are per window, as the pump mints them. A heartbeat is the only
latest-value class, all others are critical. `flush_pending` has no production caller.
`LateOpen` is a subscribe that answers after the shutdown.

*GatewayJournal.* One attempt: attempts touch only their own rows. The fence is a
transaction whose locks outlive the request; a broken database connection can void it,
and then the reply is rejected. *GatewayRotation.* The order of the SDK's calls is
external (lock, load, begin, discovery, token, metadata, profile, stage, readback,
finalize, confirm, drop). A rotation of a dead operation is never resumed.

*McpConnections.* One person and one server; a batch of claims is single claims by several
workers. Transactions are one action; `mark_vendor_revoked` is two, because of what it
reads under READ COMMITTED. The vendor is external.

*SignIn.* Each transaction is one action. A subject may report different addresses over
time (`Vouched`). Conflicts between a package synchronisation and a sign-in end in a
database abort. Lifetimes by the clock are left out. `Databases` are the tables the server
may find: any that the unique indexes of the address and of the anchor admit
(`openbot-infra/sql/baseline_0012.sql:461`, `:469`).

## 3. Runs

All configurations say `CHECK_DEADLOCK FALSE`: once the runs are terminal and the
replicas are down, or every request has been answered, the system does stop.

| run | instance | states | shows |
|---|---|---|---|
| `run_runtime` | 2 replicas, 1 run, 1 event of every kind, 2 faults, tokens to 3 | 867 281 | executions and writers are fenced, outcomes are definite, journals are sound, terminals last, final and scrubbed; the runtime implements the ledger |
| `thread` | 2 replicas, 2 runs, no fault | 318 616 | one foreground run, unique thread sequences |
| `agent_run` | step cap 2, batches of 2, an acting, a human and two parallel-safe tools with one lock | 6 193 432 | unknown effects are reconciled, exchanges in order, the answer is the current one, samplings metered and bounded, no conflict in a wave, no silent end but one |
| `tools` | see below | 1 058 087 | budget, tool call, meter, remote interrupts, artifacts |
| `host` | see below | 869 817 | browsers, wheel, screen, confirmation, sidecar, broker, history |
| `services` | see below | 784 451 | gateway journal and rotation, MCP, sign-in |
| `liveness_runs` | one small instance of seven components | 172 377 | runs, cancellations, waits and cleanups end |
| `liveness_services` | one small instance of seven components | 92 378 | browsers, screens, dialogs, streams, sessions and revocations come to an end |
| `cancel_damaged_dispatch` | a damaged dispatch, fair, no fault | - | finding 1 |
| `cancel_working_child` | 1 replica, 1 event, no fault | - | finding 2 |
| `tool_step_limit` | one acting tool | - | finding 3 |
| `masked_reconciliation` | two parallel-safe tools | - | finding 4 |

The composite properties are conjunctions; the comments in the MC modules state every
conjunct in words.

| property | conjuncts besides the type invariant |
|---|---|
| `BudgetSafety` | one live semaphore per key, no more in flight than permits, no overlap on a key, nothing leaks |
| `CallSafety` | an effect has a fenced link and an authority that was used once; a call has at most one effect and its record says what became of it |
| `MeterSafety` | `CostIsExact`, `EverySamplingIsRecorded`, `RetriesAreBounded` |
| `InterruptSafety` | `ResumeCarriesAnswers`, `EndedIsRetired` |
| `ArtifactSafety` | `ReadersKeepTheirBytes`, `CompletedIsEarned`, `PublishedIsTrue`, `OneWorker` |
| `ToolSteps` | `SpendStops`, `OneTariff`, `AnswerIsFinal`, `AnswerIsAuthorized`, `StartIsExclusive`, `UncertaintySticks` |
| `BrowserSafety` | `LeaseKeepsItsBrowser`, `NoOrphanProcess`, `BudgetHolds`, `ShutdownIsFinal` |
| `ScreenSafety` | `LeaseIsCovered`, `RefusedHadNoEffect`, `LeaseWasAnswered` |
| `ControlSafety`, `ControlSteps` | `OneHolder`, `NeverBoth`; `StaleNeverRevives`, `HandoverFences` |
| `ConfirmSafety` | `SlotCoversDialog`, `NoSpuriousRevocation` |
| `SidecarSafety` | `OneServer`, `ServedIsComplete`, `ClusterKeyIsStored`, `MidPhaseKeepsTheLock`, `OrphansAreRemembered`, `OpenedAfterInvalidation`, `ConsumedIsOwed` |
| `BrokerSafety` | `GapHasCarrier`, `TerminalIsLast`, `AggregateIsExact`, `NoOrphanStream`, `StreamIsSound`, `ShedIsReported` |
| `HistorySafety` | `CompletedMeansErased`, `CompletionExact`, `AcknowledgedIntentHolds`, `RequestClosesOneThread` |
| `HostSteps` | `InstallIsOwned`, `CancelDominates`, `FreshIsEarned`, `ClosedNeverGrows` |
| `JournalSafety` | `SentIsJournalled`, `PhasesAreEarned`, `ReceiptIsDurable` |
| `RotationSafety` | `RefreshSpentOnce`, `CurrentIsLive`, `LockCoversRotation`, `FencedFlight` |
| `McpSafety` | `ConsentRedeemedOnce`, `SweepConfirmsStored`, `ConnectionIsCurrent`, `RefreshSentOnce`, `UnblockedIsLive`, `RetiredKeepsItsClient` |
| `SignInSafety` | `StateIsBurntOnce`, `RemovedStaysOut`, `RetirementIsOwed`, `MembersAreEntitled` |
| `ServiceSteps` | `SendIsFenced`, `WritesAreAuthorized`, `LocalDenyIsFinal`, `SettledIsFinal`, `DeadNeverRevives`, `SignInYieldsUsable`, `AdminRemains`, `SignInFollowsAnchor` |
| `RunsEnd` | `EveryRunEnds`, `EveryCancellationSettles`, `CancelEnds` |
| `WaitsEnd` | `EveryBudgetGranted`, `EveryInvocationEnds`, `WaitEnds`, `ClosedIsCompleted`, `CleanupEnds` |
| `ServicesSettle` | `NoLostWakeup`, `ActivityEnds`, `StopDrains`, `RequestsEnd`, `SlotIsFreed`, `ShutdownEndsStreams`, `ClosedEnds`, `ActorIsReleased`, `CallsEnd`, `SessionsReturn`, `OwedIsSettled` |

*Bounds of the run runtime.* Two replicas are the claimant and the one that takes over;
a third meets the same rows in the same states as one of the two (for the safety
properties the theorems say so for any number). Two faults allow an unknown commit
followed by a crash or by a lease that runs out under its owner, the combinations the
recovery code is written for. `MaxToken` is small so that the exhaustion of the token,
which is `i64::MAX` in the code, happens; in the liveness run it is above what the
faults can use up, since at exhaustion the code gives up by design. One event per child
already gives replays, refused appends and pending chunks. `thread` has no fault because
its properties are about two runs; the sequences of one run under faults are in
`run_runtime`.

*Bounds of the agent run.* The step cap is 8 in the code; with 2 a run has an answer after
no, one or two batches, a batch can fill the cap or overrun it, and three samplings
suffice to mix up an earlier one with the current one. Two calls are the smallest wave
whose tasks end in another order, conflict, or fail one after the other; the four tools
are one of each kind of scheduling, two of them with a common lock so that the same batch
can be one wave or two.

*Bounds of `tools`.* Three invocations whose keys form a circle and two without keys, on
two permits: the smallest system in which a bad lock order would deadlock and the pool
runs dry. Two invocations of two calls or of one, one decider, one change of the world,
one tick: a grant can become stale between every two steps. Four usages, two tariffs, two
caps, one edit, a million of 4 and a ceiling of 6: each rounding, ceiling and refusal
occurs. Two interrupts in two rounds, one renewal, one fault. One cleanup and one
disturbance.

*Bounds of `host`.* Two callers, two scopes, two generations and one place for a browser;
two people on one wheel with an epoch of two bits, two restarts and a help request that
expires; two calls and one place in the owner's queue, the first call by the first person; two
requests for one dialog and one event, or one request and a wall clock that is set back;
three starts on one data directory; two subscriptions with one place; two rows, two
processes and a reader of one history, and two people who close two histories under one
request id. `Screen`'s bounds are those of computer control, whose definitions it shares.

*Bounds of `services`.* One revocation and one lost connection; two operations, two
sessions, one fault; one person, two workers, two clients, one crash, or (part `reconnect`)
two consents, two rows and three tokens at an unchanged server, where one worker connects
and the other refreshes, disconnects and sweeps, so that a reconnect meets a refreshed token
and work on the old row; two administrators, three attempts, two callbacks, two requests; a package channel spelt in two ways, a private
channel and a registered provider.

*Fairness.* Each module with a liveness property names its fair steps (`FairSteps`); they
are weakly fair, since they are what a runtime does with a ready future, or what passes by
itself. Strong fairness is used only where the code has a queue that is served in order or
asks again: the row lock of a lease renewal, the browser manager's lifecycle mutex, the two
branches of the screen owner's `select!` that a `biased` poll can put off, and the claim,
the read and the vendor's answer of a revocation sweep, which repeats for ever.

- `RunRuntime`: relays poll for ever (`supervise_run_relay`); a child ends, because the run
  deadline is set by default (`BuiltInAgentConfig`); claims expire, and so does a lease that
  nobody renews; a stop reaches its deadline. Nothing is assumed of a lease whose owner is at
  work, nor of requests, crashes or stops.
- `AgentRun`: the host's task is scheduled and a signalled cancellation stays readable in
  every `select!` (`watch` channel). Nothing is assumed of the provider, the tools, the human,
  the deadline or the lease.
- `ToolBudget`: a waiter at the head of a semaphore's FIFO queue is woken, and a task that
  runs ends. `ToolCall`: polls repeat and the approval's time to live passes.
  `RemoteInterrupts`: polls repeat; a run's deadline comes. `ThreadHistory`: maintenance comes
  back and a transaction that is open ends. `ArtifactCleanup`: blocking tasks return.
- `BrowserManager`: leases are dropped. `ScreenOwner`: time passes. `LocalConfirmation`: the
  main thread runs its queue, time passes, and the operating system answers a dialog that was
  cancelled. `EventBroker`: pumps are polled and readers read.
- `GatewayJournal`, `GatewayRotation`: closed gates fail their futures, deadlines come, and the
  database server ends a session nobody holds. `McpConnections`: the supervisor ticks, and
  vendor and database answer when they are asked again.

The liveness instances leave out what is known not to end: a renewal inside a poll
(`MidRenewal = FALSE`, section 4), a subscribe that answers after the shutdown
(`LateOpen = FALSE`), a second session permit, and a server left without a usable client,
which `OwedIsSettled` excepts.

## 4. Findings

1. `cancel_damaged_dispatch`. `settle_dispatch_for_cancelled_run` answers `Corrupt`
   for a dispatch row that is dead-lettered or fails its checks, and the cancellation
   is rolled back at every attempt. Each attempt renews the lease, and neither the
   recovery nor `claim_dispatch` touches a run with an active cancellation. The run
   stays `running` and keeps the thread's slot. The port promises "No local child
   existed: write Cancelled terminal and deliver control in one transaction."
2. `cancel_working_child`. `revoke` compares whole leases, and a lease contains
   `next_event_sequence`. As soon as the child has appended an event, the lease of a
   claimed cancellation is a different one, `revoke` answers `NoLocalChild` ("This
   process never owned a child for the fenced lease"), and the run is committed as
   `Cancelled` ("after all children are confirmed stopped") while the child goes on:
   its tools may still have effects until its next append is refused.
3. `tool_step_limit`. A batch that would exceed the step cap makes `reduce` answer
   `CommitTerminal(Failed(ToolStepLimit))`. `execute_run` takes only `InvokeTools` at
   that point and returns, so the terminal is not committed; the run stays `running`
   until its lease runs out and the recovery marks it for reconciliation, and the code
   `ToolStepLimit` never reaches the journal. `SilentOnlyAtStepLimit` shows, and
   `AgentSilence` proves, that this is the only such place.
4. `masked_reconciliation`. `execute_tool_wave` takes the first error of a wave in order:
   an earlier `Unavailable` commits the run as definitely failed although a later call
   reported that its commit is unknown. `EffectsReconciled` leaves both this and the panic
   below out.

Met while modelling, kept in the models, and the reason why some properties make an
exception:

- A serial tool task that panics counts as `Unavailable`, so the run is committed as
  definitely failed although the tool may have acted (`openbot-agent/src/runtime.rs:1242`);
  in a parallel wave the same panic is an unknown commit.
- A renewal that falls due while the child holds the lease row in a poll's transaction waits
  for a lock that only the child, unpolled meanwhile, can release
  (`openbot-agent/src/runtime.rs:1489`).
- A lease's `drop` lowers the count before its handle is dropped, so a retire in between
  answers an invariant error (`openbot-computer/src/manager.rs:725`).
- A caller of a takeover that is dropped after its ticket was sent and before it reads it leaves
  a lease nobody can use, which with its activity stays until the deadline or a later takeover:
  a successful `send` is not receipt (`openbot-computer/src/screen/engine_owner.rs:409`).
- A crash between `spawn_postgres` and `record_child` forgets a server that opens its directory
  late; `postmaster.pid` is then removed under it (`openbot-desktop/src/postgres_sidecar.rs:1474`).
- An epoch advance that commits after its timeout is repeated by the next run
  (`openbot-desktop/src/desktop_local_bootstrap.rs:323`).
- A reader that frees a place between the flush and the push of `deliver` lets a newer frame
  overtake the waiting one (`openbot-desktop/src/broker.rs:393`); a subscribe that answers after
  the shutdown leaves a route nobody closes (`transport.rs:265`).
- A catalogue request shares the session of the operation that rotates, whose COMMIT ends the
  request's fence (`openbot-infra/src/gateway_authority/fence.rs:134`).
- `mcp_connections.rs`: a disconnect may revoke the token a refresh has just replaced (:1984);
  a sweep uses whatever client the server has now (:1648); two settlements under READ COMMITTED
  each leave a retired client to the other (:1238); a consent exchanged while its client was
  retired becomes a connection (:975).
- Sign-in: a provider removed during an exchange still gets an anchor
  (`auth/oidc/session_issuer.rs:298`); an administrator demoted after the request was resolved
  still changes people (`repo/people_admin.rs:144`); a private channel without groups makes every
  later sign-in fail (`auth/oidc/session_issuer.rs:654`).

## 5. Proofs

A theorem holds for every value of the constants that satisfies the assumption its module
names; the assumptions say no more than that constants have their kind.

| assumption | says |
|---|---|
| `RuntimeAssumption` | the absent values are not replicas or runs, damaged runs are runs, bounds are natural numbers, the largest token is positive |
| `ToolsAssumption`, `StepCapAssumption` | human and parallel-safe tools are tools, every tool has a set of locks, the cap is positive |
| `BudgetAssumption` | keys are numbers, needs are sets of keys, tasks are finitely many, permits are a positive number |
| `ToolCallAssumption` | absent values are not identities, bounds are natural numbers |
| `ControlAssumption` | the absent value is not a person or a field, bounds are natural numbers |
| `RotationAssumption` | the largest generation is positive, the bound on faults is a natural number, overlapping operations are operations, the absent value is not an operation or a session |
| `MeterAssumption` | prices, usages, ceilings and bounds are natural numbers, the million and the largest output are positive, caps are positive, the absent value is none of these records |
| `InterruptAssumption` | bounds are natural numbers, people are neither the executor nor nobody |
| `HistoryAssumption` | the batch limit and the bound on transactions are positive, rows are finitely many, the absent value is not an identity |
| `ManagerAssumption` | instances are of the scopes, the budget is positive, callers and scopes are finitely many, the absent value is none of these |
| `BoundsAssumption` | the bounds of the journal are natural numbers |
| `SignInAssumption` | people and attempts are finitely many, channels of the package are not private ones, the absent value is not a record, the first tables satisfy their indexes, a normalized group normalizes to itself, bounds are natural numbers |

| theorem | statement |
|---|---|
| `LedgerSafe` | the ledger's journals are dense and ordered, end with their terminal, one run is in the foreground, running runs are bound to the token |
| `Typing` | `TypeOK` of `RunRuntime` |
| `Refinement` | `Spec => ImplementsLedger` |
| `JournalsSound`, `ThreadSequences`, `OneForeground`, `TokensAgree` | the ledger's invariant, read back in the runtime's variables |
| `TakeoversRaise`, `WritersCurrent` | the two action properties on fencing |
| `TerminalsStay`, `TerminalsScrubbed` | `TerminalIsFinal`, `TerminalScrubs` |
| `CancellationKept` | `CancellationNeverDropped` |
| `ExecutedOnce`, `DefiniteFailures` | `AtMostOneExecution`, `OutcomeMatchesDelivery` |
| `WriterInSync` | `FencedWriterInSync` |
| `AgentTyping` | `TypeOK` of `AgentRun` |
| `AgentEffects`, `AgentExchanges`, `AgentSilence` | `EffectsReconciled`, `ExchangesInOrder`, `SilentOnlyAtStepLimit` |
| `AgentAnswers`, `AgentSamplings`, `AgentOverlap` | `AnswerIsCurrent`, `SamplingsBounded`, `ConflictsNeverOverlap` |
| `BudgetIsSafe` | `BudgetSafety` |
| `CallsAreSafe` | `CallSafety` |
| `WheelIsSafe`, `TicketsAreFenced` | `ControlSafety`, `ControlSteps` |
| `SpendIsAccountedFor` | `MeterSafety` |
| `SpentRunsAskNoMore`, `OneTariffPerRun` | `SpendStops`, `OneTariff` |
| `AnswersReachTheAgent` | `InterruptSafety` |
| `CommittedIsFinal`, `CommittedIsAuthorized` | `AnswerIsFinal`, `AnswerIsAuthorized` |
| `CompletedClearIsTrue`, `ClosedHistoryNeverGrows` | `HistorySafety`, `ClosedNeverGrows` |
| `LeasedBrowsersStay` | `BrowserSafety` |
| `RotationIsSafe` | `RotationSafety` |
| `SentAfterItsAdmission` | `JournalSafety` |
| `SendsHoldTheActor`, `RevokedActorWritesNothing` | `SendIsFenced`, `WritesAreAuthorized` |
| `RemovedPeopleStayOut` | `SignInSafety` |
| `RefusedSessionsStayRefused`, `NewSessionsResolve` | `DeadNeverRevives`, `SignInYieldsUsable` |
| `AnAdminRemains`, `SignInsFollowTheAnchor` | `AdminRemains`, `SignInFollowsAnchor` |

*The run runtime.* `Refinement` does the journal, token and slot properties at once: each
action of the runtime is shown to be one ledger step or none, and the ledger's
invariant is proved once, where there are four actions. The mapping needs an
invariant of its own (`RefinementInv`): the ledger's invariant itself, because a
terminal with the sequence its caller expects is only the next event if run and lease
agree on the token; and `Unbegun`, that a run that has not begun has no rows, because
a claim of an absent run would be no ledger step. `TerminalsStay` and `TerminalsScrubbed`
rest on one lemma per action: what a step writes to a run it writes to an open one
(`WritesOpenRun`), or it closes it and scrubs it in the same step (`ClosedIsScrubbed`).

`ExecutedOnce` follows the right to execute. `ClaimHeld`: a relay between its claim
and its acknowledgement whose token is still the run's owns the lease, and the row's
claim is its own unless the row was dead-lettered; a takeover ends that right by
raising the token (`Overtaken` says that no relay is ahead of its run). So only one
relay can deliver the row, which gives it the permit, and `OnePermit` says that permit
and child together exist at most once per run and only for a delivered dispatch.
`Definite` carries the unstarted failures: the relay that writes one gives its
permit up in the same step, or holds a claim on a row that was never delivered.

`WriterInSync` adds what a child expects to what the row has. `WriterInv` says that no
writer is ahead of its run (`WriterBehind`), that a permit under the current token carries
the row's next sequence (`PermitInSync`), and the property itself; a child can be behind
only by a write whose commit it does not know, and that write is its pending one.

*The agent run.* The theorems share one inductive invariant. `ControlInv` ties the
reducer's phase to the await of the host; without it nothing says that a fact is
accepted, and a refused fact is a silent end. `CallsInv` says that the calls before
the wave are journaled and the ones behind it untouched, that a wave of several calls
is parallel-safe, and that the journal is as long as the calls before the wave.
`KnownInv` is `EffectsReconciled` extended to the terminal that has been chosen and
not yet sent: between the two a detached task can still end. On top of it `BoundInv`
counts (`MeterInv`: what is metered is what was sampled; `CountInv`: samplings follow the
steps of the reducer), and `OverlapInv` adds `WaveClear`, that no two members of the wave
that is cut out have a lock in common, to the property.

*The tool budget.* `BudgetInv`: one live semaphore per key (`OneSemaphorePerKey`), because
whoever waits or holds keeps the entry's weak reference alive (`HandlesAreNeeds`,
`QueuedHasHandle`); whoever is in the pool has all its locks (`PoolIsAsked`,
`PoolIsLocked`); who runs is among the first of the pool (`RunningHasPermit`). Two running
tasks with a common key would both be first in the same queue; the running tasks are the
image of an initial segment of the pool, which bounds their number.

*The tool call.* `CallInv` has a part per invocation (`Good`: where it is and what it
therefore holds, knows and owns), a part per call (`Recorded`: attempt, link and effect
follow each other) and one per approval (`Decided`, `Deciding`). A grant that is held leads
to a link in the attempt, the link to the only effect; an attempt belongs to one invocation,
so a second one with the same call id finds it and has no effect.

*Computer control.* `ControlInv` is the type, `OneHolder` and `TicketsInStep`: no ticket is
ahead of the generation and epoch of the wheel. A hand-over raises the epoch, so all earlier
tickets are behind it for ever; at the largest epoch the generation is poisoned instead of
wrapping, and only a restart, with a larger generation, ends that.

*The meter.* `MeterInv` makes `CostIsExact` local: `Accounts` says that micro-units times a
million plus the remainder are `spent`, and a record adds the same product of usage and tariff
to both, so that no sum over the records is needed. `Progress` gives the next record its index
and its terms: tariff and cap that the sampler carries are the ones of the row as soon as
there is a record, although settings and route change in between. `Within` says that a run
that goes on is below its ceilings, which is `SpendStops` before the request is made; `Tries`
counts requests and answers of the samplings that were, are and are to come.

*Remote interrupts.* The authority is checked twice by an answer, and only the second check
counts: `LockedIsAuthorized` says that whoever has the lease's row locked acts for a running
run and an actor who may, because everything that ends a run or takes the authority away
waits for that row. `LocksHeld` gives the two row locks to one place in the code each. What a
person was told is in the row until it is retired (`ReceiptsHold`), and between the poll and
the resumption the rows stay what the poll read (`CarriedHolds`).

*The thread history.* `TransactionsHold` and `LocksExclude` say what an open transaction may
rely on and which two may be open at once; an exclusive lock on the head is what turns a check
at its beginning into a fact at its commit. `SnapshotsBounded` is the argument for
`CompletedMeansErased`: a reader whose snapshot still shows a body is older than the batch
that cleared it, and the completion waits until no snapshot is that old. `ClearedCounted`
sums the batches; the sum is a recursive function over a sequence, so its unfolding
(`CountRows`) is proved by induction. The library's induction theorems take an operator and
cannot be used; the proof has its own principle (`InductiveSet`), from the well-foundedness of
inclusion between finite sets.

*The browser manager.* `BrowserInv` gives every browser process one owner: the table
(`InPlace`), the caller who took it out (`VictimsKept`), or the caller who launched it
(`NewKept`); `Accounted` says that there is no process without one, which holds although
a launch or a retirement may fail and a caller may be cancelled at every await. The lifecycle
mutex (`MutexHeld`) is held from the selection of victims to the insertion; nevertheless the
budget is not just a count of residents, since a retirement that fails puts its victim back:
`Budgeted` counts the places that are taken or may have to be given back (`Held`). The order in
which scopes were used is a permutation (`BrowserShapes`), so a victim is found whenever the
table is full of unleased browsers.

*The gateway's credential.* None of the four properties is inductive: they say what the
tables hold, and the tables change when the server runs a transaction whose operation may
long be gone. `RotationInv` therefore follows the sessions. A session has one user (`Owned`),
a dead one has nothing left at the server (`DeadIsEmpty`), and only the session of the
advisory lock can have a transaction of an operation (`Covered`); so when a transaction
commits, every other operation past the lock has lost its session, and what an operation with
a live session has loaded is still true (`Current`), up to the revocation. The row a rotation
works on belongs to one operation (`Claimed`), each generation is rotated from once
(`FromOnce`), a row that is not admitted has not been paid for (`Unspent`), and the one
admission is in the hands of one operation, which spends it and then stages (`Admitted`,
`Paid`, `CallsNameRows`): that is why a second token request is impossible although the answer
of every transaction may be lost. A fenced request keeps the row lock, for which both the
server's other transactions and the revocation wait (`Fences`). TLC checked `RotationInv` on
two operations, one of them overlapping, two sessions, three generations and one fault
(1 747 288 states) before it was proved.

*The gateway's journal.* An attempt's owner believes what the database has, but for the one
commit it is waiting for (`OwnerOk`, `RowOk`). That commit was earned when it was sent: its row
is the next one of the protocol for the phase the owner had reached, and the transaction holds
the actor, so a revocation waits for it (`CommitOk`, `LocksOk`); `RevokedActorWritesNothing`
follows even for a commit that arrives after its owner gave up. `PermitOk` separates the two
lives of a fence, the one that still holds its locks and the one whose database connection
broke, where only a call whose gate is closed is left. `SendsOk` and `RepliesOk` say for each of
the three requests what may have been sent and answered at each place of the owner: a request is
behind its admission and in front of its reply. TLC checked `JournalInv` on the instance of
`services` before it was proved.

*Sign-in.* `Listed` keeps the unique indexes through every operation, which makes the person a
sign-in can be for unique: the holder of the anchor, else of the address (`TheOnePerson`); and
it keeps the deny list apart from the sessions, also of those whose address changed. `Burnt`
gives a state to the one callback that deleted its row, so a session is recognised by its
attempt. `Owed` is the debt of a revocation whose second transaction is still to come. For the
action properties one lemma (`StepsSignIn`) splits the steps: a step signs one person in
(`SignedIn`), with everybody else untouched, or it signs nobody in (`SignsNobodyIn`), generations
do not shrink, and an administrator is left. A refused session is behind its person's
generation, because the deny list does not explain it, and so it stays behind
(`RefusedSessionsStayRefused`); `AnAdminRemains` uses that `OtherAdmins` was counted in the same
transaction, whenever the role of the administrator who asks was read. The invariant was
checked by TLC on the instance of `services`.

*Only model-checked.* Liveness (`RunsEnd`, `WaitsEnd`, `ServicesSettle`), because reasoning
from fairness is out of the prover's reach. Of the safety properties: `ArtifactSafety` with
`StartIsExclusive` and `UncertaintySticks` of `ToolSteps`; `ScreenSafety`, `ConfirmSafety`,
`SidecarSafety` and `BrokerSafety`, with `InstallIsOwned`, `CancelDominates` and `FreshIsEarned` of
`HostSteps`; `McpSafety` with `LocalDenyIsFinal` and `SettledIsFinal` of `ServiceSteps`. Nothing in
their statement is out of reach; their inductive invariants have not been written.

## 6. What is not modelled

The thread event listener and the LISTEN connections (they shorten polls), the idempotency
table of a repeated begin, the chunking by time and size, the credential vault
(cryptography; its key rotation has no production caller), the HTTP server and the wire
contracts (transport and serialisation), the user interfaces (presentation), the protocol
verification of OIDC and SAML, the adapters that parse each provider's stream, the engine's
wire protocol and native input, the offline maintenance commands, and what the notes in
`PROJECT.json` name for each component. These, the tests and the fixtures are by far the
larger part of the repository's lines; they keep no state that two actors share.

## 7. Plan

1. `McpConnections`: `RefreshSentOnce` and `UnblockedIsLive` for any number of workers, with the
   invariant on who owns a claim, as in the rotation of the gateway's credential.
2. `ScreenOwner` on top of the proofs about `ComputerControl`, whose operations it shares.
3. `EventBroker` and `LocalConfirmation`, then `PostgresSidecar`, whose invariant has to speak of
   every prefix of the files it writes.
4. Instances with two threads, if a component ever shares a row between threads.

--------------------------- MODULE AgentRunProofs ---------------------------
(***************************************************************************)
(* The execution of a run, proved for every set of tools, locks and every  *)
(* step cap: it is well typed, it returns silently only at the step limit, *)
(* it journals its exchanges in order, it leaves every effect it does not  *)
(* know to reconciliation, what it may cost is bounded and on record, and  *)
(* conflicting calls are never in flight together.                         *)
(*                                                                         *)
(* ControlInv couples the reducer's phase to the host's await, so that the *)
(* host never drives a fact the reducer refuses.  CallsInv says which calls*)
(* have been journaled, are at work or have not been touched.  KnownInv is *)
(* the safety property with the terminal that is still to be sent.  On top *)
(* of these, BoundInv counts samplings and calls, and OverlapInv says that *)
(* the wave at work is free of conflicts.                                  *)
(***************************************************************************)
EXTENDS AgentRun, TLAPS

Sampled == {"context", "provider", "sampling", "interrupt"}
Ending  == {"committing", "returned", "aborted"}
Clean   == {"Succeeded", "Failed", "Cancelled"}

\* The phase at each await, and when a terminal exists.
ControlInv ==
    /\ at = "queued" => state.phase = "Queued"
    /\ at = "context" => state.phase = "Preparing"
    /\ at \in {"provider", "sampling"} => state.phase = "Sampling"
    /\ at = "interrupt" => state.phase = "AwaitingHuman"
    /\ at = "tools" =>
          state.phase = IF WaveOpen /\ Human THEN "AwaitingHuman" ELSE "ExecutingTools"
    /\ at = "outputs" => state.phase = "ExecutingTools"
    /\ at = "committing" =>
          state.phase = "CommittingResults" /\ state.pending \in AgentTerminal
    /\ at \notin Ending => state.pending = NoTerminal
    /\ at \notin {"returned", "aborted"} => sent = NoTerminal
    /\ at = "returned" => sent # NoTerminal \/ state.pending = Failed("tool_step_limit")

\* What has become of the calls before, in and after the wave.
CallsInv ==
    /\ at = "queued" => calls = <<>> /\ exchanges = <<>> /\ wave.hi = 0 /\ wave.lo = 1
    /\ at \in Sampled =>
          /\ \A i \in DOMAIN calls : calls[i].st = "journaled"
          /\ wave.hi = Len(calls) /\ wave.lo = wave.hi + 1
          /\ Len(exchanges) = Len(calls)
    /\ at \in {"tools", "outputs"} =>
          /\ \A i \in DOMAIN calls : i < wave.lo => calls[i].st = "journaled"
          /\ \A i \in DOMAIN calls : i > wave.hi => calls[i].st = "queued"
          /\ wave.lo < wave.hi => \A i \in InWave : ParallelSafe(calls[i].tool)
          /\ Len(exchanges) = wave.lo - 1
    /\ at = "outputs" => WaveOpen /\ Joined
    /\ \A i \in DOMAIN exchanges : exchanges[i] = i

\* The outcome of every acting call is known.
Known ==
    \A i \in DOMAIN calls :
        Acting(calls[i].tool) => calls[i].st \in {"queued", "unavailable", "journaled", "panicked"}

KnownInv ==
    (state.pending.kind \in Clean \/ sent.kind \in Clean) => Known

-----------------------------------------------------------------------------
(* What the reducer answers to the facts the host drives. *)

\* The execution ends with terminal t still to be committed.
ClosesWith(t) ==
    /\ at' = "committing"
    /\ state' = [state EXCEPT !.phase = "CommittingResults", !.pending = t]

\* The execution goes on in a phase and at an await.
GoesOn(phase, next) ==
    /\ at' = next
    /\ state' = [state EXCEPT !.phase = phase]

Unresolved == {ReconciliationRequired(f) : f \in UnknownFailure}

\* A terminal is not the absent one, and an unresolved one claims nothing.
LEMMA Terminals ==
    /\ NoTerminal \notin AgentTerminal
    /\ Unresolved \subseteq AgentTerminal
    /\ \A t \in Unresolved : t.kind \notin Clean
    /\ NoTerminal.kind \notin Clean
    /\ Cancelled \in AgentTerminal /\ Succeeded \in AgentTerminal
    /\ \A f \in AgentFailure : failure_terminal(f) \in AgentTerminal
    /\ \A f \in AgentFailure : Failed(f) \in AgentTerminal
    /\ \A t \in AgentTerminal : t.kind \in TerminalPhase
  BY DEF NoTerminal, AgentTerminal, Unresolved, ReconciliationRequired, Failed, Succeeded,
         Cancelled, Clean, AgentFailure, UnknownFailure, failure_terminal, TerminalPhase

\* A lost lease and an unknown commit close every working execution unresolved
\* (drive_terminal_event with LeaseLost or JournalCommitUnknown).
LEMMA DriveUnknown ==
    ASSUME state.phase \in Working, NEW e \in JournalFailure, Drive(e)
    PROVE  \E t \in Unresolved : ClosesWith(t)
  <1>1. CASE e = Fact("LeaseLost")
    <2>1. reduce(state, e) = begin_terminal(state, ReconciliationRequired("runtime_lease_lost"))
      BY <1>1 DEF reduce, Fact, Working
    <2>2. ClosesWith(ReconciliationRequired("runtime_lease_lost"))
      BY <2>1 DEF Drive, DriveFrom, begin_terminal, ClosesWith
    <2> QED BY <2>2 DEF Unresolved, UnknownFailure
  <1>2. CASE e = Fact("JournalCommitUnknown")
    <2>1. reduce(state, e) = begin_terminal(state, ReconciliationRequired("journal_commit_unknown"))
      BY <1>2 DEF reduce, Fact, Working
    <2>2. ClosesWith(ReconciliationRequired("journal_commit_unknown"))
      BY <2>1 DEF Drive, DriveFrom, begin_terminal, ClosesWith
    <2> QED BY <2>2 DEF Unresolved, UnknownFailure
  <1> QED BY <1>1, <1>2 DEF JournalFailure

\* A failed context, provider or resumption closes with the failure's terminal.
LEMMA DriveFailure ==
    ASSUME NEW f \in AgentFailure,
           \/ state.phase = "Preparing" /\ Drive(Failure("ContextFailed", f))
           \/ state.phase = "Sampling" /\ Drive(Failure("ProviderFailed", f))
           \/ state.phase = "AwaitingHuman" /\ Drive(Failure("RemoteResumeFailed", f))
    PROVE  ClosesWith(failure_terminal(f))
  <1>1. CASE state.phase = "Preparing" /\ Drive(Failure("ContextFailed", f))
    <2>1. reduce(state, Failure("ContextFailed", f)) = begin_terminal(state, failure_terminal(f))
      BY <1>1 DEF reduce, Failure, Working
    <2> QED BY <1>1, <2>1 DEF Drive, DriveFrom, begin_terminal, ClosesWith
  <1>2. CASE state.phase = "Sampling" /\ Drive(Failure("ProviderFailed", f))
    <2>1. reduce(state, Failure("ProviderFailed", f)) = begin_terminal(state, failure_terminal(f))
      BY <1>2 DEF reduce, Failure, Working
    <2> QED BY <1>2, <2>1 DEF Drive, DriveFrom, begin_terminal, ClosesWith
  <1>3. CASE state.phase = "AwaitingHuman" /\ Drive(Failure("RemoteResumeFailed", f))
    <2>1. reduce(state, Failure("RemoteResumeFailed", f)) = begin_terminal(state, failure_terminal(f))
      BY <1>3 DEF reduce, Failure, Working
    <2> QED BY <1>3, <2>1 DEF Drive, DriveFrom, begin_terminal, ClosesWith
  <1> QED BY <1>1, <1>2, <1>3

\* A cancellation closes as cancelled, or unresolved when its audit failed.
LEMMA CancelCloses ==
    ASSUME NEW audited \in BOOLEAN, cancel_and_commit(audited), state \in AgentState,
           state.phase \in Working \cup {"Queued"},
           state.phase = "Queued" => audited
    PROVE  \E t \in Unresolved \cup {Cancelled} : ClosesWith(t)
  <1> DEFINE r == reduce(state, Fact("CancelRequested"))
  <1>1. r = Step(state, "Cancelling", "CancelChildren")
    BY DEF reduce, Fact, Working
  <1>2. CASE ~audited
    <2>1. state.phase \in Working /\ Drive(Fact("JournalCommitUnknown"))
      BY <1>2 DEF cancel_and_commit
    <2> QED BY <2>1, DriveUnknown DEF JournalFailure
  <1>3. CASE audited
    <2> DEFINE s == [state EXCEPT !.phase = "Cancelling"]
    <2>1. r.ok /\ r.state = s
      BY <1>1 DEF Step
    <2>2. DriveFrom(s, Fact("ChildrenStopped"))
      BY <1>3, <2>1 DEF cancel_and_commit
    <2>3. s.phase = "Cancelling"
      BY DEF AgentState
    <2>4. reduce(s, Fact("ChildrenStopped")) = begin_terminal(s, Cancelled)
      BY <2>3 DEF reduce, Fact, Working
    <2>5. at' = "committing"
          /\ state' = [s EXCEPT !.phase = "CommittingResults", !.pending = Cancelled]
      BY <2>2, <2>4 DEF DriveFrom, begin_terminal
    <2>6. [s EXCEPT !.phase = "CommittingResults", !.pending = Cancelled]
            = [state EXCEPT !.phase = "CommittingResults", !.pending = Cancelled]
      BY DEF AgentState
    <2>7. ClosesWith(Cancelled)
      BY <2>5, <2>6 DEF ClosesWith
    <2> QED BY <2>7
  <1> QED BY <1>2, <1>3

\* The facts that lead from one await to the next are accepted in their phase.
LEMMA Accepted ==
    /\ state.phase = "Queued" =>
          reduce(state, Fact("DispatchActivated")) = Step(state, "Preparing", "LoadContext")
    /\ state.phase = "Preparing" =>
          reduce(state, Fact("ContextPrepared")) = Step(state, "Sampling", "StartProvider")
    /\ state.phase = "Sampling" =>
          reduce(state, Fact("ProviderTextDelta")) = Step(state, "Sampling", "Persist")
    /\ state.phase \in {"Sampling", "ExecutingTools"} =>
          reduce(state, Fact("HumanRequired")) = Step(state, "AwaitingHuman", "AwaitHuman")
    /\ state.phase = "AwaitingHuman" =>
          reduce(state, Fact("RemoteResumeReady")) = Step(state, "Preparing", "LoadContext")
    /\ state.phase = "AwaitingHuman" =>
          reduce(state, Fact("HumanReleased")) = Step(state, "ExecutingTools", "none")
    /\ state.phase = "ExecutingTools" =>
          reduce(state, Fact("ToolResultCommitted")) = Step(state, "Preparing", "LoadContext")
  <1>1. ASSUME state.phase = "Queued"
       PROVE  reduce(state, Fact("DispatchActivated")) = Step(state, "Preparing", "LoadContext")
    BY <1>1 DEF reduce, Fact, Working
  <1>2. ASSUME state.phase = "Preparing"
       PROVE  reduce(state, Fact("ContextPrepared")) = Step(state, "Sampling", "StartProvider")
    BY <1>2 DEF reduce, Fact, Working
  <1>3. ASSUME state.phase = "Sampling"
       PROVE  reduce(state, Fact("ProviderTextDelta")) = Step(state, "Sampling", "Persist")
    BY <1>3 DEF reduce, Fact, Working
  <1>4. ASSUME state.phase \in {"Sampling", "ExecutingTools"}
       PROVE  reduce(state, Fact("HumanRequired")) = Step(state, "AwaitingHuman", "AwaitHuman")
    BY <1>4 DEF reduce, Fact, Working
  <1>5. ASSUME state.phase = "AwaitingHuman"
       PROVE  reduce(state, Fact("RemoteResumeReady")) = Step(state, "Preparing", "LoadContext")
    BY <1>5 DEF reduce, Fact, Working
  <1>6. ASSUME state.phase = "AwaitingHuman"
       PROVE  reduce(state, Fact("HumanReleased")) = Step(state, "ExecutingTools", "none")
    BY <1>6 DEF reduce, Fact, Working
  <1>7. ASSUME state.phase = "ExecutingTools"
       PROVE  reduce(state, Fact("ToolResultCommitted")) = Step(state, "Preparing", "LoadContext")
    BY <1>7 DEF reduce, Fact, Working
  <1> QED BY <1>1, <1>2, <1>3, <1>4, <1>5, <1>6, <1>7

\* An accepted fact moves the host and the phase and nothing else.
LEMMA ProceedAccepted ==
    ASSUME NEW e, NEW next, NEW phase, NEW effect, Proceed(e, next),
           reduce(state, e) = Step(state, phase, effect)
    PROVE  GoesOn(phase, next)
  BY DEF Proceed, GoesOn, Step

\* Tool calls are invoked, or the execution returns at the step limit.
LEMMA InvokedOrLimit ==
    ASSUME NEW n \in Nat \ {0}, InvokeTools(n), state \in AgentState,
           state.phase = "Sampling"
    PROVE  \/ /\ at' = "tools"
              /\ state.tool_steps + n <= ToolStepCap
              /\ state' = [state EXCEPT !.phase = "ExecutingTools", !.tool_steps = @ + n]
           \/ /\ at' = "returned"
              /\ state' = [state EXCEPT !.phase = "CommittingResults",
                                        !.pending = Failed("tool_step_limit")]
  <1>1. reduce(state, ToolCalls(n)) = ReduceToolCalls(state, n)
    <2>1. ToolCalls(n).type = "ProviderToolCalls" /\ ToolCalls(n).count = n
      BY DEF ToolCalls
    <2> QED BY <2>1 DEF reduce, Working
  <1>2. CASE state.tool_steps + n > ToolStepCap
    BY <1>1, <1>2 DEF InvokeTools, ReduceToolCalls, begin_terminal
  <1>3. CASE ~(state.tool_steps + n > ToolStepCap)
    <2>1. state.tool_steps + n <= ToolStepCap
      BY <1>3, StepCapAssumption DEF AgentState
    <2> QED BY <1>1, <1>3, <2>1 DEF InvokeTools, ReduceToolCalls
  <1> QED BY <1>2, <1>3

\* The remaining facts of an execution's end.
LEMMA DriveDefinite ==
    /\ state.phase = "Sampling" /\ Drive(Fact("ProviderCompleted")) => ClosesWith(Succeeded)
    /\ state.phase = "ExecutingTools" /\ Drive(Fact("ToolRuntimeUnavailable"))
         => ClosesWith(Failed("tool_loop_unavailable"))
  <1>1. ASSUME state.phase = "Sampling", Drive(Fact("ProviderCompleted"))
        PROVE  ClosesWith(Succeeded)
    <2>1. reduce(state, Fact("ProviderCompleted")) = begin_terminal(state, Succeeded)
      BY <1>1 DEF reduce, Fact, Working
    <2> QED BY <1>1, <2>1 DEF Drive, DriveFrom, begin_terminal, ClosesWith
  <1>2. ASSUME state.phase = "ExecutingTools", Drive(Fact("ToolRuntimeUnavailable"))
        PROVE  ClosesWith(Failed("tool_loop_unavailable"))
    <2>1. reduce(state, Fact("ToolRuntimeUnavailable"))
            = begin_terminal(state, Failed("tool_loop_unavailable"))
      BY <1>2 DEF reduce, Fact, Working
    <2> QED BY <1>2, <2>1 DEF Drive, DriveFrom, begin_terminal, ClosesWith
  <1> QED BY <1>1, <1>2

\* The journal has accepted the terminal.
LEMMA CommittedState ==
    ASSUME state \in AgentState, state.phase = "CommittingResults",
           state.pending \in AgentTerminal
    PROVE  reduce(state, Fact("TerminalCommitted")).state
             = [state EXCEPT !.phase = state.pending.kind, !.pending = NoTerminal]
  <1>1. state.pending # NoTerminal
    BY Terminals
  <1> QED BY <1>1 DEF reduce, Fact, Working

-----------------------------------------------------------------------------
(* The inductive invariant, and the steps that leave the calls alone. *)

Inv == TypeOK /\ ControlInv /\ CallsInv /\ KnownInv

\* The types of everything but the state and the await.
RestTyped ==
    /\ sampling \in [index : Nat, usage_seen : BOOLEAN, text_seen : BOOLEAN,
                     capped : BOOLEAN, pending : [Index -> Tools \cup {NoTool}]]
    /\ calls \in Seq([tool : Tools, st : CallStatus])
    /\ wave \in [lo : Nat \ {0}, hi : Nat]
    /\ wave.lo <= wave.hi + 1
    /\ wave.hi <= Len(calls)
    /\ exchanges \in Seq(Nat)
    /\ usage \subseteq Nat
    /\ answered \subseteq Nat
    /\ starts \in Nat
    /\ sent \in AgentTerminal \cup {NoTerminal}
    /\ cancel \in BOOLEAN
    /\ expired \in BOOLEAN

LEMMA TypeSplit == TypeOK <=> state \in AgentState /\ at \in At /\ RestTyped
  BY DEF TypeOK, RestTyped

\* A closing step keeps the invariant if its terminal is justified.
LEMMA CloseKeeps ==
    ASSUME Inv, at \notin Ending, NEW t \in AgentTerminal, ClosesWith(t),
           RestTyped', UNCHANGED sent,
           \A i \in DOMAIN exchanges' : exchanges'[i] = i,
           t.kind \in Clean => Known'
    PROVE  Inv'
  <1>1. /\ state'.phase = "CommittingResults" /\ state'.pending = t
        /\ state' \in AgentState /\ at' = "committing" /\ sent' = NoTerminal
    BY DEF Inv, TypeOK, ControlInv, Ending, At, AgentState, ClosesWith, AgentPhase
  <1>2. TypeOK'
    BY <1>1 DEF TypeOK, RestTyped, At
  <1>3. ControlInv'
    BY <1>1 DEF ControlInv, Ending
  <1>4. CallsInv'
    BY <1>1 DEF CallsInv, Sampled
  <1>5. KnownInv'
    BY <1>1, Terminals DEF KnownInv
  <1> QED BY <1>2, <1>3, <1>4, <1>5 DEF Inv

\* Before any call of the batch is at work every call is journaled.
LEMMA AllJournaled ==
    ASSUME Inv, at \in Sampled \cup {"queued"}
    PROVE  Known
  BY DEF Inv, CallsInv, Known, TypeOK

\* What a step before the tools does to the state and the await.
Outcome ==
    \/ \E t \in AgentTerminal : ClosesWith(t)
    \/ GoesOn("Preparing", "context")
    \/ GoesOn("Sampling", "provider")
    \/ GoesOn("Sampling", "sampling")
    \/ GoesOn("AwaitingHuman", "interrupt")

LEMMA QuietKeeps ==
    ASSUME Inv, at \in Sampled \cup {"queued"}, RestTyped', Outcome,
           UNCHANGED <<calls, wave, exchanges, sent>>
    PROVE  Inv'
  <1>1. CASE \E t \in AgentTerminal : ClosesWith(t)
    <2>1. PICK t \in AgentTerminal : ClosesWith(t)
      BY <1>1
    <2>2. Known'
      BY AllJournaled DEF Known
    <2>3. \A i \in DOMAIN exchanges' : exchanges'[i] = i
      BY DEF Inv, CallsInv
    <2>4. at \notin Ending
      BY DEF Sampled, Ending
    <2> QED BY <2>1, <2>2, <2>3, <2>4, CloseKeeps
  <1>2. ASSUME NEW phase, NEW next, GoesOn(phase, next), next \in Sampled,
               \/ phase = "Preparing" /\ next = "context"
               \/ phase = "Sampling" /\ next \in {"provider", "sampling"}
               \/ phase = "AwaitingHuman" /\ next = "interrupt"
        PROVE  Inv'
    <2>1. /\ state'.phase = phase /\ state'.pending = state.pending
          /\ state' \in AgentState /\ at' = next
      BY <1>2 DEF Inv, TypeOK, AgentState, GoesOn, AgentPhase
    <2>2. state.pending = NoTerminal /\ sent = NoTerminal
      BY DEF Inv, ControlInv, Ending, Sampled
    <2>3. TypeOK'
      BY <1>2, <2>1 DEF TypeOK, RestTyped, At
    <2>4. ControlInv'
      BY <1>2, <2>1, <2>2 DEF ControlInv, Ending, Sampled
    <2>5. CallsInv'
      <3>1. CASE at = "queued"
        BY <1>2, <2>1, <3>1 DEF Inv, CallsInv, Sampled
      <3>2. CASE at \in Sampled
        BY <1>2, <2>1, <3>2 DEF Inv, CallsInv, Sampled
      <3> QED BY <3>1, <3>2
    <2>6. KnownInv'
      BY <2>1, <2>2, Terminals DEF KnownInv
    <2> QED BY <2>3, <2>4, <2>5, <2>6 DEF Inv
  <1>3. CASE GoesOn("Preparing", "context")
    BY <1>2, <1>3 DEF Sampled
  <1>4. CASE GoesOn("Sampling", "provider")
    BY <1>2, <1>4 DEF Sampled
  <1>5. CASE GoesOn("Sampling", "sampling")
    BY <1>2, <1>5 DEF Sampled
  <1>6. CASE GoesOn("AwaitingHuman", "interrupt")
    BY <1>2, <1>6 DEF Sampled
  <1> QED BY <1>1, <1>3, <1>4, <1>5, <1>6 DEF Outcome

\* Each way in which an execution closes before its tools is an outcome.
LEMMA Closings ==
    ASSUME Inv
    PROVE  /\ \A e \in JournalFailure : state.phase \in Working /\ Drive(e) => Outcome
           /\ \A f \in AgentFailure :
                /\ state.phase = "Preparing" /\ Drive(Failure("ContextFailed", f)) => Outcome
                /\ state.phase = "Sampling" /\ Drive(Failure("ProviderFailed", f)) => Outcome
                /\ state.phase = "AwaitingHuman" /\ Drive(Failure("RemoteResumeFailed", f))
                     => Outcome
           /\ \A b \in BOOLEAN :
                /\ state.phase \in Working /\ cancel_and_commit(b) => Outcome
           /\ state.phase = "Queued" /\ cancel_and_commit(TRUE) => Outcome
  <1>1. ASSUME NEW e \in JournalFailure, state.phase \in Working, Drive(e)
        PROVE  Outcome
    BY <1>1, DriveUnknown, Terminals DEF Outcome
  <1>2. ASSUME NEW f \in AgentFailure,
               \/ state.phase = "Preparing" /\ Drive(Failure("ContextFailed", f))
               \/ state.phase = "Sampling" /\ Drive(Failure("ProviderFailed", f))
               \/ state.phase = "AwaitingHuman" /\ Drive(Failure("RemoteResumeFailed", f))
        PROVE  Outcome
    <2>1. ClosesWith(failure_terminal(f))
      BY <1>2, DriveFailure
    <2> QED BY <2>1, Terminals DEF Outcome
  <1>3. ASSUME NEW b \in BOOLEAN, cancel_and_commit(b),
               state.phase \in Working \cup {"Queued"}, state.phase = "Queued" => b
        PROVE  Outcome
    <2>1. state \in AgentState
      BY DEF Inv, TypeOK
    <2>2. PICK t \in Unresolved \cup {Cancelled} : ClosesWith(t)
      BY <1>3, <2>1, CancelCloses
    <2> QED BY <2>2, Terminals DEF Outcome
  <1>4. "Queued" \notin Working
    BY DEF Working
  <1> QED BY <1>1, <1>2, <1>3, <1>4

\* The activation, the context and the provider's start.
LEMMA BeginSteps ==
    ASSUME Inv,
           cancel_before_execution \/ execute_run \/ over_cap \/ load_context
             \/ start_provider \/ resume
    PROVE  Inv'
  <1> USE DEF Inv
  <1>f. {"provider_failed", "tool_loop_unavailable", "runtime_lease_lost",
         "provider_commit_unknown"} \subseteq AgentFailure
    BY DEF AgentFailure, UnknownFailure
  <1>j. JournalFailure = {Fact("LeaseLost"), Fact("JournalCommitUnknown")}
    BY DEF JournalFailure
  <1>1. CASE cancel_before_execution
    <2>1. state.phase = "Queued" /\ cancel_and_commit(TRUE)
      BY <1>1 DEF cancel_before_execution, ControlInv
    <2>2. RestTyped' /\ UNCHANGED <<calls, wave, exchanges, sent>>
      BY <1>1, TypeSplit DEF cancel_before_execution, RestTyped, journal, signals
    <2> QED BY <1>1, <2>1, <2>2, Closings, QuietKeeps DEF cancel_before_execution, Sampled
  <1>2. CASE execute_run
    <2>1. state.phase = "Queued" /\ at = "queued"
      BY <1>2 DEF execute_run, ControlInv
    <2>2. RestTyped' /\ UNCHANGED <<calls, wave, exchanges, sent>>
      BY <1>2, TypeSplit DEF execute_run, RestTyped, journal, signals
    <2>3. reduce(state, Fact("DispatchActivated")) = Step(state, "Preparing", "LoadContext")
      BY <2>1, Accepted
    <2>4. CASE Proceed(Fact("DispatchActivated"), "context")
      <3>1. GoesOn("Preparing", "context")
        BY <2>3, <2>4, ProceedAccepted
      <3> QED BY <2>1, <2>2, <3>1, QuietKeeps DEF Outcome
    <2>5. CASE DriveFrom(reduce(state, Fact("DispatchActivated")).state,
                         Fact("JournalCommitUnknown"))
      <3> DEFINE s == [state EXCEPT !.phase = "Preparing"]
                 u == ReconciliationRequired("journal_commit_unknown")
      <3>1. DriveFrom(s, Fact("JournalCommitUnknown"))
        BY <2>3, <2>5 DEF Step
      <3>2. s.phase = "Preparing"
        BY DEF TypeOK, AgentState
      <3>3. reduce(s, Fact("JournalCommitUnknown")) = begin_terminal(s, u)
        BY <3>2 DEF reduce, Fact, Working
      <3>4. at' = "committing"
            /\ state' = [s EXCEPT !.phase = "CommittingResults", !.pending = u]
        BY <3>1, <3>3 DEF DriveFrom, begin_terminal
      <3>5. [s EXCEPT !.phase = "CommittingResults", !.pending = u]
              = [state EXCEPT !.phase = "CommittingResults", !.pending = u]
        BY DEF TypeOK, AgentState
      <3>6. ClosesWith(u)
        BY <3>4, <3>5 DEF ClosesWith
      <3>7. u \in AgentTerminal
        BY DEF AgentTerminal, AgentFailure, UnknownFailure
      <3> QED BY <2>1, <2>2, <3>6, <3>7, QuietKeeps DEF Outcome
    <2> QED BY <1>2, <2>4, <2>5 DEF execute_run
  <1>3. CASE over_cap
    <2>1. state.phase = "Preparing" /\ Drive(Failure("ContextFailed", "provider_failed"))
      BY <1>3 DEF over_cap, ControlInv
    <2>2. RestTyped' /\ UNCHANGED <<calls, wave, exchanges, sent>>
      BY <1>3, TypeSplit DEF over_cap, RestTyped, journal, signals
    <2> QED BY <1>f, <1>3, <2>1, <2>2, Closings, QuietKeeps DEF over_cap, Sampled
  <1>4. CASE load_context
    <2>1. state.phase = "Preparing" /\ state.phase \in Working /\ at \in Sampled
      BY <1>4 DEF load_context, ControlInv, Working, Sampled
    <2>2. RestTyped' /\ UNCHANGED <<calls, wave, exchanges, sent>>
      BY <1>4, TypeSplit DEF load_context, RestTyped, signals
    <2>3. CASE Proceed(Fact("ContextPrepared"), "provider")
      <3>1. GoesOn("Sampling", "provider")
        BY <2>1, <2>3, Accepted, ProceedAccepted
      <3> QED BY <2>1, <2>2, <3>1, QuietKeeps DEF Outcome
    <2>4. CASE \E f \in {"provider_failed", "tool_loop_unavailable", "runtime_lease_lost"} :
                 Drive(Failure("ContextFailed", f))
      BY <1>f, <2>1, <2>2, <2>4, Closings, QuietKeeps
    <2>5. CASE Drive(Fact("JournalCommitUnknown"))
      BY <1>j, <2>1, <2>2, <2>5, Closings, QuietKeeps
    <2> QED BY <1>4, <2>3, <2>4, <2>5 DEF load_context
  <1>5. CASE start_provider
    <2>1. state.phase = "Sampling" /\ at \in Sampled
      BY <1>5 DEF start_provider, ControlInv, Sampled
    <2>2. RestTyped' /\ UNCHANGED <<calls, wave, exchanges, sent>>
      BY <1>5, TypeSplit DEF start_provider, RestTyped, journal, signals, FreshSampling
    <2>3. CASE at' = "sampling" /\ UNCHANGED state
      <3>1. GoesOn("Sampling", "sampling")
        BY <2>1, <2>3 DEF GoesOn, TypeOK, AgentState
      <3> QED BY <2>1, <2>2, <3>1, QuietKeeps DEF Outcome
    <2>4. CASE \E f \in {"provider_failed", "provider_commit_unknown"} :
                 Drive(Failure("ProviderFailed", f))
      BY <1>f, <2>1, <2>2, <2>4, Closings, QuietKeeps
    <2> QED BY <1>5, <2>3, <2>4 DEF start_provider
  <1>6. CASE resume
    <2>1. state.phase = "AwaitingHuman" /\ state.phase \in Working /\ at \in Sampled
      BY <1>6 DEF resume, ControlInv, Working, Sampled
    <2>2. RestTyped' /\ UNCHANGED <<calls, wave, exchanges, sent>>
      BY <1>6, TypeSplit DEF resume, RestTyped, journal, signals, NextSampling
    <2>3. CASE Proceed(Fact("RemoteResumeReady"), "context")
      <3>1. GoesOn("Preparing", "context")
        BY <2>1, <2>3, Accepted, ProceedAccepted
      <3> QED BY <2>1, <2>2, <3>1, QuietKeeps DEF Outcome
    <2>4. CASE \E e \in JournalFailure : Drive(e)
      BY <2>1, <2>2, <2>4, Closings, QuietKeeps
    <2>5. CASE Drive(Failure("RemoteResumeFailed", "provider_failed"))
      BY <1>f, <2>1, <2>2, <2>5, Closings, QuietKeeps
    <2> QED BY <1>6, <2>3, <2>4, <2>5 DEF resume
  <1> QED BY <1>1, <1>2, <1>3, <1>4, <1>5, <1>6

\* What the provider streams, and the ends of a sampling without tools.
LEMMA SamplingSteps ==
    ASSUME Inv,
           stream_delta \/ stream_usage \/ stream_tool_call \/ sampled_answer
             \/ sampled_interrupt \/ sampling_fails
    PROVE  Inv'
  <1> USE DEF Inv
  <1>f. {"provider_failed", "provider_commit_unknown"} \subseteq AgentFailure
    BY DEF AgentFailure, UnknownFailure
  <1>j. Fact("JournalCommitUnknown") \in JournalFailure
    BY DEF JournalFailure
  <1>a. at = "sampling" /\ at \in Sampled
    BY DEF stream_delta, stream_usage, stream_tool_call, sampled_answer, sampled_interrupt,
           sampling_fails, Sampled
  <1>p. state.phase = "Sampling" /\ state.phase \in Working
    BY <1>a DEF ControlInv, Working
  <1>s. ASSUME UNCHANGED <<state, at>>
        PROVE  Outcome
    BY <1>a, <1>p, <1>s DEF Outcome, GoesOn, TypeOK, AgentState
  <1>u. ASSUME Drive(Failure("ProviderFailed", "provider_failed"))
        PROVE  Outcome
    BY <1>f, <1>p, <1>u, Closings
  <1>1. CASE stream_delta
    <2>1. RestTyped' /\ UNCHANGED <<calls, wave, exchanges, sent>>
      BY <1>1, TypeSplit DEF stream_delta, RestTyped, signals
    <2>2. CASE Proceed(Fact("ProviderTextDelta"), "sampling")
      <3>1. GoesOn("Sampling", "sampling")
        BY <1>p, <2>2, Accepted, ProceedAccepted
      <3> QED BY <1>a, <2>1, <3>1, QuietKeeps DEF Outcome
    <2>3. CASE \E e \in JournalFailure : Drive(e)
      BY <1>a, <1>p, <2>1, <2>3, Closings, QuietKeeps
    <2> QED BY <1>1, <2>2, <2>3 DEF stream_delta
  <1>2. CASE stream_usage
    <2>1. RestTyped' /\ UNCHANGED <<calls, wave, exchanges, sent>>
      BY <1>2, TypeSplit DEF stream_usage, RestTyped, signals
    <2>2. Outcome
      <3>1. \/ UNCHANGED <<state, at>>
            \/ Drive(Failure("ProviderFailed", "provider_failed"))
            \/ \E e \in JournalFailure : Drive(e)
        BY <1>2, <1>j DEF stream_usage
      <3> QED BY <1>p, <1>s, <1>u, <3>1, Closings
    <2> QED BY <1>a, <2>1, <2>2, QuietKeeps
  <1>3. CASE stream_tool_call
    <2>1. RestTyped' /\ UNCHANGED <<calls, wave, exchanges, sent>>
      <3>1. RestTyped
        BY TypeSplit
      <3>2. UNCHANGED <<calls, wave, exchanges, usage, answered, starts, sent, cancel, expired>>
        BY <1>3 DEF stream_tool_call, signals, journal
      <3>3. sampling' \in [index : Nat, usage_seen : BOOLEAN, text_seen : BOOLEAN,
                           capped : BOOLEAN, pending : [Index -> Tools \cup {NoTool}]]
        <4>1. CASE UNCHANGED sampling
          BY <3>1, <4>1 DEF RestTyped
        <4>2. ASSUME NEW i \in Index, NEW t \in Tools,
                     sampling' = [sampling EXCEPT !.pending[i] = t]
              PROVE  sampling' \in [index : Nat, usage_seen : BOOLEAN, text_seen : BOOLEAN,
                                    capped : BOOLEAN, pending : [Index -> Tools \cup {NoTool}]]
          BY <3>1, <4>2 DEF RestTyped
        <4> QED BY <1>3, <4>1, <4>2 DEF stream_tool_call
      <3> QED BY <3>1, <3>2, <3>3 DEF RestTyped
    <2>2. Outcome
      BY <1>3, <1>s, <1>u DEF stream_tool_call
    <2> QED BY <1>a, <2>1, <2>2, QuietKeeps
  <1>4. CASE sampled_answer
    <2>1. RestTyped' /\ UNCHANGED <<calls, wave, exchanges, sent>>
      BY <1>4, TypeSplit DEF sampled_answer, RestTyped, signals, journal
    <2>2. Outcome
      <3>1. CASE Drive(Fact("ProviderCompleted"))
        BY <1>p, <3>1, DriveDefinite, Terminals DEF Outcome
      <3> QED BY <1>4, <1>u, <3>1 DEF sampled_answer
    <2> QED BY <1>a, <2>1, <2>2, QuietKeeps
  <1>5. CASE sampled_interrupt
    <2>1. RestTyped' /\ UNCHANGED <<calls, wave, exchanges, sent>>
      BY <1>5, TypeSplit DEF sampled_interrupt, RestTyped, signals, journal
    <2>2. Outcome
      <3>1. CASE Proceed(Fact("HumanRequired"), "interrupt")
        <4>1. GoesOn("AwaitingHuman", "interrupt")
          BY <1>p, <3>1, Accepted, ProceedAccepted
        <4> QED BY <4>1 DEF Outcome
      <3> QED BY <1>5, <1>u, <3>1 DEF sampled_interrupt
    <2> QED BY <1>a, <2>1, <2>2, QuietKeeps
  <1>6. CASE sampling_fails
    <2>1. RestTyped' /\ UNCHANGED <<calls, wave, exchanges, sent>>
      BY <1>6, TypeSplit DEF sampling_fails, RestTyped, signals, journal
    <2>2. Outcome
      BY <1>6, <1>f, <1>j, <1>p, Closings DEF sampling_fails
    <2> QED BY <1>a, <2>1, <2>2, QuietKeeps
  <1> QED BY <1>1, <1>2, <1>3, <1>4, <1>5, <1>6

\* A function on 1..n is a sequence, and what a concatenation holds.
LEMMA Sequence ==
    ASSUME NEW S, NEW n \in Nat, NEW f \in [1..n -> S]
    PROVE  f \in Seq(S) /\ Len(f) = n
  OBVIOUS

LEMMA Concatenation ==
    ASSUME NEW S, NEW p \in Seq(S), NEW q \in Seq(S)
    PROVE  /\ p \o q \in Seq(S)
           /\ Len(p \o q) = Len(p) + Len(q)
           /\ \A i \in 1..Len(p) : (p \o q)[i] = p[i]
           /\ \A i \in Len(p)+1..Len(p)+Len(q) : (p \o q)[i] = q[i - Len(p)]
  OBVIOUS

\* A completed sampling with tool calls: they are queued behind the journaled
\* ones, or the execution returns at the step limit.
LEMMA SampledTools ==
    ASSUME Inv, sampled_tools
    PROVE  Inv'
  <1> USE DEF Inv
  <1>a. at = "sampling" /\ at \in Sampled
    BY DEF sampled_tools, Sampled
  <1>p. state.phase = "Sampling" /\ state \in AgentState /\ state.pending = NoTerminal
        /\ sent = NoTerminal
    BY <1>a DEF ControlInv, TypeOK, Ending
  <1>r. RestTyped
    BY TypeSplit
  <1>u. UNCHANGED <<wave, exchanges, usage, answered, starts, sent, cancel, expired>>
    BY DEF sampled_tools, journal, signals
  <1>c. /\ \A i \in DOMAIN calls : calls[i].st = "journaled"
        /\ wave.hi = Len(calls) /\ wave.lo = wave.hi + 1
        /\ Len(exchanges) = Len(calls)
        /\ \A i \in DOMAIN exchanges : exchanges[i] = i
    BY <1>a DEF CallsInv
  <1>1. CASE Drive(Failure("ProviderFailed", "provider_failed")) /\ UNCHANGED <<calls, sampling>>
    <2>1. RestTyped'
      BY <1>r, <1>u, <1>1 DEF RestTyped
    <2>2. Outcome
      BY <1>1, <1>p, Closings DEF AgentFailure
    <2> QED BY <1>a, <1>u, <1>1, <2>1, <2>2, QuietKeeps
  <1>2. ASSUME NEW n \in Index, NEW b \in [1..n -> Index], Ordered(b, n), InvokeTools(n),
               calls' = IF at' = "tools"
                        THEN calls \o [k \in 1..n |-> [tool |-> sampling.pending[b[k]],
                                                       st |-> "queued"]]
                        ELSE calls,
               sampling' = [sampling EXCEPT !.pending = NoCalls]
        PROVE  Inv'
    <2>n. n \in Nat \ {0}
      BY <1>2, ToolsAssumption DEF Index
    <2>s. sampling' \in [index : Nat, usage_seen : BOOLEAN, text_seen : BOOLEAN,
                         capped : BOOLEAN, pending : [Index -> Tools \cup {NoTool}]]
      BY <1>2, <1>r DEF RestTyped, NoCalls
    <2>1. CASE /\ at' = "tools"
               /\ state.tool_steps + n <= ToolStepCap
               /\ state' = [state EXCEPT !.phase = "ExecutingTools", !.tool_steps = @ + n]
      <3> DEFINE q == [k \in 1..n |-> [tool |-> sampling.pending[b[k]], st |-> "queued"]]
      <3>1. \A k \in 1..n : sampling.pending[b[k]] \in Tools
        <4>1. ASSUME NEW k \in 1..n PROVE sampling.pending[b[k]] \in Tools
          <5>1. b[k] \in Index /\ sampling.pending[b[k]] # NoTool
            BY <1>2, <4>1 DEF Ordered, Pending
          <5>2. sampling.pending \in [Index -> Tools \cup {NoTool}]
            BY <1>r DEF RestTyped
          <5> QED BY <5>1, <5>2
        <4> QED BY <4>1
      <3>2. q \in Seq([tool : Tools, st : CallStatus]) /\ Len(q) = n
            /\ \A k \in 1..n : q[k].st = "queued"
        <4>1. q \in [1..n -> [tool : Tools, st : CallStatus]]
          BY <2>n, <3>1 DEF CallStatus
        <4>2. n \in Nat
          BY <2>n
        <4> HIDE DEF q
        <4> DEFINE S == [tool : Tools, st : CallStatus]
        <4>3. q \in [1..n -> S]
          BY <4>1
        <4> HIDE DEF S
        <4>4. q \in Seq(S) /\ Len(q) = n
          BY <4>2, <4>3, Sequence
        <4> QED BY <4>4 DEF q, S
      <3>3. calls' = calls \o q
        BY <1>2, <2>1
      <3> HIDE DEF q
      <3>4. /\ calls' \in Seq([tool : Tools, st : CallStatus])
            /\ Len(calls') = Len(calls) + n
            /\ \A i \in 1..Len(calls) : calls'[i] = calls[i]
            /\ \A i \in Len(calls)+1..Len(calls)+n : calls'[i] = q[i - Len(calls)]
        <4>1. calls \in Seq([tool : Tools, st : CallStatus])
          BY <1>r DEF RestTyped
        <4> QED BY <3>2, <3>3, <4>1, Concatenation
      <3>5. \A i \in DOMAIN calls' : i < wave.lo => calls'[i].st = "journaled"
        BY <1>c, <1>r, <3>4 DEF RestTyped
      <3>6. \A i \in DOMAIN calls' : i > wave.hi => calls'[i].st = "queued"
        <4>1. ASSUME NEW i \in DOMAIN calls', i > wave.hi PROVE calls'[i].st = "queued"
          <5>1. i \in Len(calls)+1..Len(calls)+n /\ i - Len(calls) \in 1..n
            BY <1>c, <1>r, <2>n, <3>4, <4>1 DEF RestTyped
          <5> QED BY <3>2, <3>4, <5>1
        <4> QED BY <4>1
      <3>7. state' \in AgentState /\ state'.phase = "ExecutingTools"
            /\ state'.pending = NoTerminal
        <4>1. state.tool_steps + n \in 0..ToolStepCap
          BY <1>p, <2>n, <2>1, StepCapAssumption DEF AgentState
        <4>2. state' = [state EXCEPT !.phase = "ExecutingTools",
                                     !.tool_steps = state.tool_steps + n]
          BY <2>1
        <4> QED BY <1>p, <4>1, <4>2 DEF AgentState, AgentPhase
      <3>8. RestTyped'
        BY <1>r, <1>u, <2>n, <2>s, <3>4 DEF RestTyped
      <3>9. TypeOK'
        BY <2>1, <3>7, <3>8 DEF TypeOK, RestTyped, At
      <3>10. ControlInv'
        <4>1. ~WaveOpen'
          BY <1>c, <1>u, <1>r DEF WaveOpen, RestTyped
        <4> QED BY <1>p, <1>u, <2>1, <3>7, <4>1 DEF ControlInv, Ending
      <3>11. CallsInv'
        <4>1. ~(wave'.lo < wave'.hi) /\ Len(exchanges') = wave'.lo - 1
          BY <1>c, <1>u, <1>r DEF RestTyped
        <4> QED BY <1>c, <1>u, <2>1, <3>5, <3>6, <4>1 DEF CallsInv, Sampled
      <3>12. KnownInv'
        BY <1>p, <1>u, <3>7, Terminals DEF KnownInv
      <3> QED BY <3>9, <3>10, <3>11, <3>12
    <2>2. CASE /\ at' = "returned"
               /\ state' = [state EXCEPT !.phase = "CommittingResults",
                                         !.pending = Failed("tool_step_limit")]
      <3>1. UNCHANGED calls
        BY <1>2, <2>2
      <3>2. Failed("tool_step_limit") \in AgentTerminal
        BY Terminals DEF AgentFailure
      <3>3. state' \in AgentState /\ state'.pending = Failed("tool_step_limit")
        BY <1>p, <2>2, <3>2 DEF AgentState, AgentPhase
      <3>4. TypeOK'
        BY <1>r, <1>u, <2>2, <2>s, <3>1, <3>3 DEF TypeOK, RestTyped, At
      <3>5. ControlInv'
        BY <2>2, <3>3 DEF ControlInv, Ending
      <3>6. CallsInv'
        BY <1>c, <1>u, <2>2 DEF CallsInv, Sampled
      <3>7. KnownInv'
        BY <1>a, <3>1, AllJournaled DEF KnownInv, Known
      <3> QED BY <3>4, <3>5, <3>6, <3>7
    <2> QED BY <1>2, <1>p, <2>n, <2>1, <2>2, InvokedOrLimit
  <1> QED BY <1>1, <1>2 DEF sampled_tools

-----------------------------------------------------------------------------
(* The tool waves. *)

CallSet == [tool : Tools, st : CallStatus]

\* A change of statuses alone keeps the calls typed and their tools.
LEMMA SetCallTyped ==
    ASSUME calls \in Seq(CallSet), NEW i \in DOMAIN calls, NEW st \in CallStatus, SetCall(i, st)
    PROVE  /\ calls' \in Seq(CallSet) /\ Len(calls') = Len(calls) /\ DOMAIN calls' = DOMAIN calls
           /\ \A k \in DOMAIN calls : calls'[k].tool = calls[k].tool
           /\ \A k \in DOMAIN calls : k # i => calls'[k] = calls[k]
           /\ calls'[i].st = st
  <1> DEFINE c == [calls[i] EXCEPT !.st = st]
  <1>1. calls' = [calls EXCEPT ![i] = c]
    BY DEF SetCall
  <1>2. calls[i] \in CallSet
    OBVIOUS
  <1>3. c \in CallSet /\ c.tool = calls[i].tool /\ c.st = st
    BY <1>2 DEF CallSet
  <1> HIDE DEF c
  <1> QED BY <1>1, <1>3

LEMMA StopTyped ==
    ASSUME calls \in Seq(CallSet), StopTasks
    PROVE  /\ calls' \in Seq(CallSet) /\ Len(calls') = Len(calls) /\ DOMAIN calls' = DOMAIN calls
           /\ \A k \in DOMAIN calls : calls'[k].tool = calls[k].tool
           /\ \A k \in DOMAIN calls :
                 calls'[k] # calls[k] => k \in InWave /\ ~Human /\ calls[k].st = "running"
  <1> DEFINE F(k) == IF k \in InWave /\ ~Human /\ calls[k].st = "running"
                     THEN [calls[k] EXCEPT !.st = "stopped"] ELSE calls[k]
             n == Len(calls)
  <1>1. n \in Nat /\ DOMAIN calls = 1..n
    OBVIOUS
  <1>2. calls' = [k \in 1..n |-> F(k)]
    BY <1>1 DEF StopTasks
  <1>3. ASSUME NEW k \in 1..n
        PROVE  F(k) \in CallSet /\ F(k).tool = calls[k].tool
    <2>1. calls[k] \in CallSet
      OBVIOUS
    <2>2. [calls[k] EXCEPT !.st = "stopped"] \in CallSet
          /\ [calls[k] EXCEPT !.st = "stopped"].tool = calls[k].tool
      BY <2>1 DEF CallSet, CallStatus
    <2> QED BY <2>1, <2>2
  <1>4. \A k \in 1..n : F(k) # calls[k] => k \in InWave /\ ~Human /\ calls[k].st = "running"
    OBVIOUS
  <1> HIDE DEF F, n
  <1>5. calls' \in [1..n -> CallSet] /\ DOMAIN calls' = 1..n
        /\ \A k \in 1..n : calls'[k] = F(k)
    BY <1>2, <1>3
  <1>6. calls' \in Seq(CallSet) /\ Len(calls') = n
    BY <1>1, <1>5, Sequence
  <1> QED BY <1>1, <1>3, <1>4, <1>5, <1>6 DEF n

\* What holds while a batch is at work.
LEMMA AtWork ==
    ASSUME Inv, at \in {"tools", "outputs"}
    PROVE  /\ state.pending = NoTerminal /\ sent = NoTerminal /\ at \notin Ending
           /\ state \in AgentState /\ RestTyped /\ calls \in Seq(CallSet)
           /\ state.phase \in {"ExecutingTools", "AwaitingHuman"} /\ state.phase \in Working
           /\ \A i \in DOMAIN calls : i < wave.lo => calls[i].st = "journaled"
           /\ \A i \in DOMAIN calls : i > wave.hi => calls[i].st = "queued"
           /\ wave.lo < wave.hi => \A i \in InWave : ParallelSafe(calls[i].tool)
           /\ Len(exchanges) = wave.lo - 1
           /\ \A i \in DOMAIN exchanges : exchanges[i] = i
           /\ wave.lo \in Nat \ {0} /\ wave.hi \in Nat /\ wave.lo <= wave.hi + 1
           /\ wave.hi <= Len(calls) /\ Len(calls) \in Nat /\ DOMAIN calls = 1..Len(calls)
  <1>1. state.pending = NoTerminal /\ sent = NoTerminal /\ at \notin Ending
    BY DEF Inv, ControlInv, Ending
  <1>2. state.phase \in {"ExecutingTools", "AwaitingHuman"} /\ state.phase \in Working
    BY DEF Inv, ControlInv, Working
  <1>3. state \in AgentState /\ RestTyped /\ calls \in Seq(CallSet)
    BY TypeSplit DEF Inv, RestTyped, CallSet
  <1>4. /\ \A i \in DOMAIN calls : i < wave.lo => calls[i].st = "journaled"
        /\ \A i \in DOMAIN calls : i > wave.hi => calls[i].st = "queued"
        /\ wave.lo < wave.hi => \A i \in InWave : ParallelSafe(calls[i].tool)
        /\ Len(exchanges) = wave.lo - 1
        /\ \A i \in DOMAIN exchanges : exchanges[i] = i
    BY DEF Inv, CallsInv
  <1>5. /\ wave.lo \in Nat \ {0} /\ wave.hi \in Nat /\ wave.lo <= wave.hi + 1
        /\ wave.hi <= Len(calls)
    BY <1>3 DEF RestTyped
  <1>6. Len(calls) \in Nat /\ DOMAIN calls = 1..Len(calls)
    BY <1>3
  <1> QED BY <1>1, <1>2, <1>3, <1>4, <1>5, <1>6

\* An unresolved end of a batch keeps the invariant whatever became of its calls.
LEMMA UnresolvedKeeps ==
    ASSUME Inv, at \in {"tools", "outputs"}, NEW e \in JournalFailure, Drive(e),
           RestTyped', UNCHANGED sent,
           \A i \in DOMAIN exchanges' : exchanges'[i] = i
    PROVE  Inv'
  <1>1. PICK t \in Unresolved : ClosesWith(t)
    BY AtWork, DriveUnknown
  <1>2. t \in AgentTerminal /\ t.kind \notin Clean
    BY Terminals
  <1> QED BY <1>1, <1>2, AtWork, CloseKeeps

\* What has to be shown of a step that stays within the batch.
LEMMA WorkKeeps ==
    ASSUME Inv, at \in {"tools", "outputs"}, at' \in {"tools", "outputs"},
           state' \in AgentState, state'.pending = NoTerminal, UNCHANGED sent, RestTyped',
           state'.phase = IF at' = "tools" /\ WaveOpen' /\ Human'
                          THEN "AwaitingHuman" ELSE "ExecutingTools",
           \A i \in DOMAIN calls' : i < wave'.lo => calls'[i].st = "journaled",
           \A i \in DOMAIN calls' : i > wave'.hi => calls'[i].st = "queued",
           wave'.lo < wave'.hi => \A i \in wave'.lo..wave'.hi : ParallelSafe(calls'[i].tool),
           Len(exchanges') = wave'.lo - 1,
           at' = "outputs" => WaveOpen' /\ Joined',
           \A i \in DOMAIN exchanges' : exchanges'[i] = i
    PROVE  Inv'
  <1>1. TypeOK'
    BY DEF TypeOK, RestTyped, At
  <1>2. ControlInv'
    BY AtWork DEF ControlInv, Ending
  <1>3. CallsInv'
    BY DEF CallsInv, Sampled, InWave
  <1>4. KnownInv'
    BY AtWork, Terminals DEF KnownInv
  <1> QED BY <1>1, <1>2, <1>3, <1>4 DEF Inv

LEMMA NextWave ==
    ASSUME Inv, next_wave
    PROVE  Inv'
  <1>a. at = "tools" /\ at \in {"tools", "outputs"} /\ ~WaveOpen
    BY DEF next_wave
  <1>w. wave.lo = wave.hi + 1
    BY <1>a, AtWork DEF WaveOpen
  <1>p. state.phase = "ExecutingTools"
    BY <1>a DEF Inv, ControlInv
  <1>1. PICK j \in DOMAIN calls :
          /\ j > wave.hi
          /\ WaveEnd(wave.hi + 1, j)
          /\ wave' = [lo |-> wave.hi + 1, hi |-> j]
          /\ IF j = wave.hi + 1 /\ calls[j].tool \in HumanTools
             THEN Proceed(Fact("HumanRequired"), "tools")
             ELSE UNCHANGED <<state, at>>
    BY DEF next_wave
  <1>u. UNCHANGED <<sampling, calls, exchanges, usage, answered, starts, sent, cancel, expired>>
    BY DEF next_wave, journal, signals
  <1>j. j \in Nat /\ j <= Len(calls) /\ wave'.lo = wave.lo /\ wave'.hi = j
    BY <1>a, <1>w, <1>1, AtWork
  <1>2. RestTyped'
    BY <1>a, <1>w, <1>u, <1>j, <1>1, AtWork DEF RestTyped
  <1>3. wave'.lo < wave'.hi => \A i \in wave'.lo..wave'.hi : ParallelSafe(calls'[i].tool)
    BY <1>w, <1>u, <1>j, <1>1 DEF WaveEnd, IsWave
  <1>4. /\ \A i \in DOMAIN calls' : i < wave'.lo => calls'[i].st = "journaled"
        /\ \A i \in DOMAIN calls' : i > wave'.hi => calls'[i].st = "queued"
        /\ Len(exchanges') = wave'.lo - 1
        /\ \A i \in DOMAIN exchanges' : exchanges'[i] = i
    BY <1>a, <1>u, <1>j, <1>1, AtWork
  <1>5. WaveOpen' /\ (Human' <=> j = wave.hi + 1 /\ calls[j].tool \in HumanTools)
    BY <1>a, <1>w, <1>j, <1>u, <1>1, AtWork DEF WaveOpen, Human, Serial
  <1>6. CASE j = wave.hi + 1 /\ calls[j].tool \in HumanTools
    <2>1. GoesOn("AwaitingHuman", "tools")
      BY <1>p, <1>1, <1>6, Accepted, ProceedAccepted
    <2>2. state' \in AgentState /\ state'.phase = "AwaitingHuman"
          /\ state'.pending = NoTerminal /\ at' = "tools"
      BY <1>a, <2>1, AtWork DEF GoesOn, AgentState, AgentPhase
    <2> QED BY <1>a, <1>u, <1>2, <1>3, <1>4, <1>5, <1>6, <2>2, WorkKeeps
  <1>7. CASE ~(j = wave.hi + 1 /\ calls[j].tool \in HumanTools)
    <2>1. UNCHANGED <<state, at>>
      BY <1>1, <1>7
    <2>2. state' \in AgentState /\ state'.phase = "ExecutingTools"
          /\ state'.pending = NoTerminal /\ at' = "tools"
      BY <1>a, <1>p, <2>1, AtWork
    <2> QED BY <1>a, <1>u, <1>2, <1>3, <1>4, <1>5, <1>7, <2>2, WorkKeeps
  <1> QED BY <1>6, <1>7

\* A task of the wave begins or ends.
LEMMA TaskSteps ==
    ASSUME Inv, NEW i \in DOMAIN calls, invoke(i) \/ tool_ends(i)
    PROVE  Inv'
  <1>1. PICK st \in CallStatus : SetCall(i, st) /\ st # "journaled"
    BY DEF invoke, tool_ends, CallStatus, Finished
  <1>2. UNCHANGED <<state, at, sampling, wave, exchanges, usage, answered, starts, sent,
                    cancel, expired>>
    BY DEF invoke, tool_ends, journal, signals
  <1>c. RestTyped /\ calls \in Seq(CallSet) /\ state \in AgentState /\ at \in At
    BY TypeSplit DEF Inv, RestTyped, CallSet
  <1>3. /\ calls' \in Seq(CallSet) /\ Len(calls') = Len(calls) /\ DOMAIN calls' = DOMAIN calls
        /\ \A k \in DOMAIN calls : calls'[k].tool = calls[k].tool
        /\ \A k \in DOMAIN calls : k # i => calls'[k] = calls[k]
        /\ calls'[i].st = st
    BY <1>1, <1>c, SetCallTyped
  <1>4. RestTyped'
    BY <1>c, <1>2, <1>3 DEF RestTyped, CallSet
  <1>5. CASE at = "tools" /\ i \in InWave
    <2>1. at \in {"tools", "outputs"}
      BY <1>5
    <2>2. \A k \in InWave : k \in DOMAIN calls
      BY <2>1, AtWork DEF InWave
    <2>3. WaveOpen' = WaveOpen
      BY <1>2 DEF WaveOpen
    <2>4. WaveOpen => (Human' <=> Human)
      <3>1. WaveOpen => wave.lo \in InWave
        BY <2>1, AtWork DEF WaveOpen, InWave
      <3> QED BY <1>2, <1>3, <2>2, <3>1 DEF Human, Serial
    <2>5. state'.phase = IF at' = "tools" /\ WaveOpen' /\ Human'
                         THEN "AwaitingHuman" ELSE "ExecutingTools"
      BY <1>2, <1>5, <2>3, <2>4 DEF Inv, ControlInv
    <2>6. /\ \A k \in DOMAIN calls' : k < wave'.lo => calls'[k].st = "journaled"
          /\ \A k \in DOMAIN calls' : k > wave'.hi => calls'[k].st = "queued"
      BY <1>2, <1>3, <1>5, <2>1, AtWork DEF InWave
    <2>7. wave'.lo < wave'.hi => \A k \in wave'.lo..wave'.hi : ParallelSafe(calls'[k].tool)
      BY <1>2, <1>3, <2>1, <2>2, AtWork DEF InWave
    <2>8. /\ Len(exchanges') = wave'.lo - 1
          /\ \A k \in DOMAIN exchanges' : exchanges'[k] = k
          /\ state' \in AgentState /\ state'.pending = NoTerminal /\ at' = "tools"
      BY <1>2, <1>5, <2>1, AtWork
    <2> QED BY <1>2, <1>4, <2>1, <2>5, <2>6, <2>7, <2>8, WorkKeeps
  <1>6. CASE at \in Ending /\ calls[i].st = "running"
    <2>1. TypeOK'
      BY <1>c, <1>2, <1>4 DEF TypeOK, RestTyped
    <2>2. ControlInv'
      BY <1>2, <1>6 DEF Inv, ControlInv, Ending
    <2>3. CallsInv'
      BY <1>2, <1>6 DEF Inv, CallsInv, Ending, Sampled
    <2>4. KnownInv'
      BY <1>2, <1>3, <1>6 DEF Inv, KnownInv, Known
    <2> QED BY <2>1, <2>2, <2>3, <2>4 DEF Inv
  <1>7. CASE tool_ends(i)
    <2>1. calls[i].st = "running"
      BY <1>7 DEF tool_ends
    <2>2. at # "queued"
      BY <1>c DEF Inv, CallsInv
    <2>3. at \notin Sampled
      BY <2>1 DEF Inv, CallsInv
    <2>4. ASSUME at \in {"tools", "outputs"} PROVE i \in InWave
      <3>1. ~(i < wave.lo) /\ ~(i > wave.hi)
        BY <2>1, <2>4, AtWork
      <3>2. i \in 1..Len(calls) /\ Len(calls) \in Nat /\ wave.lo \in Nat /\ wave.hi \in Nat
        BY <2>4, AtWork
      <3> QED BY <3>1, <3>2 DEF InWave
    <2>5. at # "outputs"
      BY <2>1, <2>4 DEF Inv, CallsInv, Joined, Finished
    <2>6. at = "tools" \/ at \in Ending
      BY <1>c, <2>2, <2>3, <2>5 DEF At, Sampled, Ending
    <2> QED BY <1>5, <1>6, <2>1, <2>4, <2>6
  <1>8. CASE invoke(i)
    BY <1>5, <1>8 DEF invoke
  <1> QED BY <1>7, <1>8

\* Every task of the wave has ended, or one of a parallel wave has panicked.
LEMMA JoinSteps ==
    ASSUME Inv, join_wave \/ join_fails
    PROVE  Inv'
  <1>a. at = "tools" /\ at \in {"tools", "outputs"}
    BY DEF join_wave, join_fails
  <1>u. UNCHANGED <<sampling, wave, exchanges, usage, answered, starts, sent, cancel, expired>>
    BY DEF join_wave, join_fails, journal, signals
  <1>j. Fact("JournalCommitUnknown") \in JournalFailure
    BY DEF JournalFailure
  <1>e. \A i \in DOMAIN exchanges' : exchanges'[i] = i
    BY <1>a, <1>u, AtWork
  <1>1. CASE join_wave
    <2>c. UNCHANGED calls /\ WaveOpen /\ Joined
      BY <1>1 DEF join_wave
    <2>r. RestTyped'
      BY <1>a, <1>u, <2>c, AtWork DEF RestTyped
    <2>1. ASSUME at' = "outputs", state' \in AgentState, state'.phase = "ExecutingTools",
                 state'.pending = NoTerminal
          PROVE  Inv'
      <3>1. WaveOpen' /\ Joined'
        BY <1>u, <2>c DEF WaveOpen, Joined, InWave
      <3>2. /\ \A i \in DOMAIN calls' : i < wave'.lo => calls'[i].st = "journaled"
            /\ \A i \in DOMAIN calls' : i > wave'.hi => calls'[i].st = "queued"
            /\ wave'.lo < wave'.hi => \A i \in wave'.lo..wave'.hi : ParallelSafe(calls'[i].tool)
            /\ Len(exchanges') = wave'.lo - 1
        BY <1>a, <1>u, <2>c, AtWork DEF InWave
      <3> QED BY <1>a, <1>u, <1>e, <2>r, <2>1, <3>1, <3>2, WorkKeeps
    <2>2. CASE Human /\ Proceed(Fact("HumanReleased"), "outputs")
      <3>1. state.phase = "AwaitingHuman"
        BY <1>a, <2>c, <2>2 DEF Inv, ControlInv
      <3>2. GoesOn("ExecutingTools", "outputs")
        BY <2>2, <3>1, Accepted, ProceedAccepted
      <3>3. state' \in AgentState /\ state'.phase = "ExecutingTools"
            /\ state'.pending = NoTerminal /\ at' = "outputs"
        BY <1>a, <3>2, AtWork DEF GoesOn, AgentState, AgentPhase
      <3> QED BY <2>1, <3>3
    <2>3. CASE ~Human /\ at' = "outputs" /\ UNCHANGED state
      <3>1. state.phase = "ExecutingTools"
        BY <1>a, <2>3 DEF Inv, ControlInv
      <3>2. state' \in AgentState /\ state'.phase = "ExecutingTools"
            /\ state'.pending = NoTerminal /\ at' = "outputs"
        BY <1>a, <2>3, <3>1, AtWork
      <3> QED BY <2>1, <3>2
    <2>4. CASE tool_interrupted
      BY <1>a, <1>u, <1>j, <1>e, <2>r, <2>4, UnresolvedKeeps DEF tool_interrupted
    <2> QED BY <1>1, <2>2, <2>3, <2>4 DEF join_wave, Human
  <1>2. CASE join_fails
    <2>1. StopTasks /\ Drive(Fact("JournalCommitUnknown"))
      BY <1>2 DEF join_fails
    <2>2. calls' \in Seq(CallSet) /\ Len(calls') = Len(calls)
      BY <1>a, <2>1, AtWork, StopTyped
    <2>3. RestTyped'
      BY <1>a, <1>u, <2>2, AtWork DEF RestTyped, CallSet
    <2> QED BY <1>a, <1>u, <1>j, <1>e, <2>1, <2>3, UnresolvedKeeps
  <1> QED BY <1>1, <1>2

\* A result is journaled as the next exchange.
LEMMA ReplySteps ==
    ASSUME Inv, append_tool_reply
    PROVE  Inv'
  <1>a. at = "outputs" /\ at \in {"tools", "outputs"} /\ WaveOpen /\ Joined
    BY DEF append_tool_reply, Inv, CallsInv
  <1>u. UNCHANGED <<sampling, usage, answered, starts, sent, cancel, expired>>
    BY DEF append_tool_reply, signals
  <1>p. state.phase = "ExecutingTools"
    BY <1>a DEF Inv, ControlInv
  <1>l. wave.lo <= wave.hi /\ wave.lo \in DOMAIN calls
    BY <1>a, AtWork DEF WaveOpen
  <1> DEFINE x == Append(exchanges, wave.lo)
  <1>x. x \in Seq(Nat) /\ Len(x) = wave.lo /\ \A i \in DOMAIN x : x[i] = i
    <2>1. exchanges \in Seq(Nat) /\ wave.lo \in Nat \ {0} /\ Len(exchanges) = wave.lo - 1
          /\ \A i \in DOMAIN exchanges : exchanges[i] = i
      BY <1>a, AtWork DEF RestTyped
    <2> QED BY <2>1
  <1> HIDE DEF x
  <1>1. CASE /\ exchanges' = x
             /\ SetCall(wave.lo, "journaled")
             /\ wave' = [wave EXCEPT !.lo = @ + 1]
             /\ at' = IF Serial THEN "tools" ELSE "outputs"
             /\ UNCHANGED state
    <2>1. /\ calls' \in Seq(CallSet) /\ Len(calls') = Len(calls) /\ DOMAIN calls' = DOMAIN calls
          /\ \A k \in DOMAIN calls : calls'[k].tool = calls[k].tool
          /\ \A k \in DOMAIN calls : k # wave.lo => calls'[k] = calls[k]
          /\ calls'[wave.lo].st = "journaled"
      BY <1>a, <1>l, <1>1, AtWork, SetCallTyped DEF CallStatus
    <2>2. wave'.lo = wave.lo + 1 /\ wave'.hi = wave.hi /\ wave' \in [lo : Nat \ {0}, hi : Nat]
      BY <1>a, <1>1, AtWork DEF RestTyped
    <2>3. RestTyped'
      BY <1>a, <1>u, <1>l, <1>x, <1>1, <2>1, <2>2, AtWork DEF RestTyped, CallSet
    <2>4. \A i \in DOMAIN calls' : i < wave'.lo => calls'[i].st = "journaled"
      <3>1. ASSUME NEW i \in DOMAIN calls', i < wave'.lo PROVE calls'[i].st = "journaled"
        <4>1. i = wave.lo \/ i < wave.lo
          BY <1>a, <2>1, <2>2, <3>1, AtWork
        <4>2. i < wave.lo => calls[i].st = "journaled" /\ i # wave.lo
          BY <1>a, <2>1, <3>1, AtWork
        <4> QED BY <2>1, <3>1, <4>1, <4>2
      <3> QED BY <3>1
    <2>5. \A i \in DOMAIN calls' : i > wave'.hi => calls'[i].st = "queued"
      BY <1>a, <1>l, <2>1, <2>2, AtWork
    <2>6. ASSUME NEW i \in wave'.lo..wave'.hi
          PROVE  i \in InWave /\ i \in DOMAIN calls /\ calls'[i] = calls[i] /\ wave.lo < wave.hi
      <3>1. /\ wave.lo \in Nat /\ wave.hi \in Nat /\ wave.hi <= Len(calls) /\ wave.lo > 0
            /\ Len(calls) \in Nat /\ DOMAIN calls = 1..Len(calls)
        BY <1>a, AtWork
      <3>2. i \in wave.lo + 1..wave.hi
        BY <2>2, <2>6
      <3>3. i \in InWave /\ i \in DOMAIN calls /\ i # wave.lo /\ wave.lo < wave.hi
        BY <3>1, <3>2 DEF InWave
      <3> QED BY <2>1, <3>3
    <2>7. wave'.lo < wave'.hi => \A i \in wave'.lo..wave'.hi : ParallelSafe(calls'[i].tool)
      BY <1>a, <2>6, AtWork
    <2>8. at' = "outputs" => WaveOpen' /\ Joined'
      <3>1. ~Serial => WaveOpen'
        BY <1>a, <1>l, <2>2, AtWork DEF Serial, WaveOpen
      <3>2. Joined'
        BY <1>a, <2>6 DEF Joined, InWave
      <3> QED BY <1>1, <3>1, <3>2
    <2>9. state'.phase = IF at' = "tools" /\ WaveOpen' /\ Human'
                         THEN "AwaitingHuman" ELSE "ExecutingTools"
      <3>1. at' = "tools" => ~WaveOpen'
        BY <1>a, <1>1, <2>2, AtWork DEF Serial, WaveOpen
      <3> QED BY <1>p, <1>1, <3>1
    <2>10. Len(exchanges') = wave'.lo - 1 /\ \A i \in DOMAIN exchanges' : exchanges'[i] = i
      BY <1>a, <1>x, <1>1, <2>2, AtWork
    <2>11. state' \in AgentState /\ state'.pending = NoTerminal /\ at' \in {"tools", "outputs"}
      BY <1>a, <1>1, AtWork
    <2> QED BY <1>a, <1>u, <2>3, <2>4, <2>5, <2>7, <2>8, <2>9, <2>10, <2>11, WorkKeeps
  <1>2. CASE /\ \E e \in JournalFailure : Drive(e)
             /\ exchanges' \in {exchanges, x}
             /\ UNCHANGED <<calls, wave>>
    <2>1. RestTyped'
      BY <1>a, <1>u, <1>x, <1>2, AtWork DEF RestTyped
    <2>2. \A i \in DOMAIN exchanges' : exchanges'[i] = i
      BY <1>a, <1>x, <1>2, AtWork
    <2> QED BY <1>a, <1>u, <1>2, <2>1, <2>2, UnresolvedKeeps
  <1> QED BY <1>1, <1>2 DEF append_tool_reply, NextOutput, x

\* A batch that ends: by a failed call, or because every call is journaled.
LEMMA BatchEnds ==
    ASSUME Inv, tool_failed \/ tools_done
    PROVE  Inv'
  <1>a. at \in {"tools", "outputs"}
    BY DEF tool_failed, tools_done
  <1>u. UNCHANGED <<calls, wave, exchanges, usage, answered, starts, sent, cancel, expired>>
    BY DEF tool_failed, tools_done, journal, signals
  <1>1. CASE tool_failed
    <2>a. at = "outputs" /\ WaveOpen /\ UNCHANGED sampling
      BY <1>1 DEF tool_failed, Inv, CallsInv
    <2>r. RestTyped'
      BY <1>a, <1>u, <2>a, AtWork DEF RestTyped
    <2>e. \A i \in DOMAIN exchanges' : exchanges'[i] = i
      BY <1>a, <1>u, AtWork
    <2>1. CASE calls[wave.lo].st \in {"unavailable", "panicked"}
               /\ Drive(Fact("ToolRuntimeUnavailable"))
      <3> DEFINE t == Failed("tool_loop_unavailable")
      <3>1. ClosesWith(t)
        BY <2>a, <2>1, DriveDefinite DEF Inv, ControlInv
      <3>2. t \in AgentTerminal
        BY Terminals DEF AgentFailure
      <3>3. ASSUME NEW i \in DOMAIN calls, Acting(calls[i].tool)
            PROVE  calls[i].st \in {"queued", "unavailable", "journaled", "panicked"}
        <4>1. CASE i < wave.lo
          BY <1>a, <4>1, AtWork
        <4>2. CASE i > wave.hi
          BY <1>a, <4>2, AtWork
        <4>3. CASE i \in InWave /\ wave.lo < wave.hi
          BY <1>a, <3>3, <4>3, AtWork DEF Acting, ParallelSafe
        <4>4. CASE i = wave.lo
          BY <2>1, <4>4
        <4>5. wave.lo \in Nat /\ wave.hi \in Nat /\ i \in Nat
          BY <1>a, AtWork
        <4> QED BY <4>1, <4>2, <4>3, <4>4, <4>5 DEF InWave
      <3>4. Known'
        BY <1>u, <3>3 DEF Known
      <3> HIDE DEF t
      <3> QED BY <1>a, <1>u, <2>r, <2>e, <3>1, <3>2, <3>4, AtWork, CloseKeeps
    <2>2. CASE Drive(Fact("JournalCommitUnknown"))
      BY <1>a, <1>u, <2>r, <2>e, <2>2, UnresolvedKeeps DEF JournalFailure
    <2> QED BY <1>1, <2>1, <2>2 DEF tool_failed
  <1>2. CASE tools_done
    <2>1. /\ at = "tools" /\ ~WaveOpen /\ wave.hi = Len(calls)
          /\ Proceed(Fact("ToolResultCommitted"), "context") /\ sampling' = NextSampling
      BY <1>2 DEF tools_done
    <2>2. state.phase = "ExecutingTools"
      BY <2>1 DEF Inv, ControlInv
    <2>3. GoesOn("Preparing", "context")
      BY <2>1, <2>2, Accepted, ProceedAccepted
    <2>4. state' \in AgentState /\ state'.phase = "Preparing"
          /\ state'.pending = NoTerminal /\ at' = "context" /\ sent' = NoTerminal
      BY <1>a, <1>u, <2>3, AtWork DEF GoesOn, AgentState, AgentPhase
    <2>5. TypeOK'
      BY <1>a, <1>u, <2>1, <2>4, AtWork DEF TypeOK, RestTyped, NextSampling, At
    <2>6. ControlInv'
      BY <2>4 DEF ControlInv, Ending
    <2>7. wave.lo = wave.hi + 1 /\ \A i \in DOMAIN calls : calls[i].st = "journaled"
      BY <1>a, <2>1, AtWork DEF WaveOpen
    <2>8. CallsInv'
      BY <1>a, <1>u, <2>1, <2>4, <2>7, AtWork DEF CallsInv, Sampled
    <2>9. KnownInv'
      BY <2>4, Terminals DEF KnownInv
    <2> QED BY <2>5, <2>6, <2>8, <2>9 DEF Inv
  <1> QED BY <1>1, <1>2

-----------------------------------------------------------------------------
(* Cancellation, deadline, lease, abortion and the terminal. *)

\* The user or the deadline stops the execution.  It only claims to be cancelled
\* when no call has been invoked or the call is a human decision.
LEMMA CancelledKeeps ==
    ASSUME Inv, NEW audited \in BOOLEAN, CancelledBy(audited),
           UNCHANGED <<sampling, wave, journal, sent, signals>>
    PROVE  Inv'
  <1>u. UNCHANGED <<sampling, wave, exchanges, usage, answered, starts, sent, cancel, expired>>
    BY DEF journal, signals
  <1>1. CASE Awaiting /\ cancel_and_commit(audited) /\ UNCHANGED calls
    <2>1. at \in Sampled /\ state.phase \in Working
      BY <1>1 DEF Awaiting, Sampled, Inv, ControlInv, Working
    <2>2. Outcome
      BY <1>1, <2>1, Closings
    <2>3. RestTyped'
      BY <1>u, <1>1, TypeSplit DEF Inv, RestTyped
    <2> QED BY <1>u, <1>1, <2>1, <2>2, <2>3, QuietKeeps
  <1>2. CASE /\ AwaitingTools
             /\ StopTasks
             /\ IF Started /\ ~Human THEN tool_interrupted ELSE cancel_and_commit(audited)
    <2>a. at = "tools" /\ at \in {"tools", "outputs"} /\ WaveOpen
      BY <1>2 DEF AwaitingTools
    <2>c. /\ calls' \in Seq(CallSet) /\ Len(calls') = Len(calls) /\ DOMAIN calls' = DOMAIN calls
          /\ \A k \in DOMAIN calls : calls'[k].tool = calls[k].tool
          /\ \A k \in DOMAIN calls :
                calls'[k] # calls[k] => k \in InWave /\ ~Human /\ calls[k].st = "running"
      BY <1>2, <2>a, AtWork, StopTyped
    <2>r. RestTyped'
      BY <1>u, <2>a, <2>c, AtWork DEF RestTyped, CallSet
    <2>e. \A i \in DOMAIN exchanges' : exchanges'[i] = i
      BY <1>u, <2>a, AtWork
    <2>1. CASE Started /\ ~Human
      BY <1>u, <1>2, <2>a, <2>r, <2>e, <2>1, UnresolvedKeeps DEF tool_interrupted, JournalFailure
    <2>2. CASE ~(Started /\ ~Human)
      <3>1. \E t \in Unresolved \cup {Cancelled} : ClosesWith(t)
        <4>1. cancel_and_commit(audited) /\ state \in AgentState /\ state.phase \in Working
              /\ state.phase # "Queued"
          BY <1>2, <2>a, <2>2, AtWork
        <4> QED BY <4>1, CancelCloses
      <3>2. ASSUME NEW i \in DOMAIN calls, Acting(calls[i].tool)
            PROVE  calls'[i] = calls[i] /\ calls[i].st \in {"queued", "journaled"}
        <4>1. CASE i < wave.lo
          BY <2>a, <2>c, <4>1, AtWork
        <4>2. CASE i > wave.hi
          BY <2>a, <2>c, <4>2, AtWork
        <4>3. CASE i \in InWave /\ ~Started
          BY <2>c, <4>3 DEF Started
        <4>4. CASE i \in InWave /\ Human
          <5>1. i = wave.lo
            BY <2>a, <4>4, AtWork DEF InWave, Human, Serial
          <5> QED BY <3>2, <4>4, <5>1 DEF Human, Acting
        <4>5. wave.lo \in Nat /\ wave.hi \in Nat /\ i \in Nat
          BY <2>a, AtWork
        <4> QED BY <2>2, <4>1, <4>2, <4>3, <4>4, <4>5 DEF InWave
      <3>3. Known'
        BY <2>c, <3>2 DEF Known
      <3> QED BY <1>u, <2>a, <2>r, <2>e, <3>1, <3>3, AtWork, CloseKeeps, Terminals
    <2> QED BY <2>1, <2>2
  <1> QED BY <1>1, <1>2 DEF CancelledBy

LEMMA LeaseLost ==
    ASSUME Inv, lease_lost
    PROVE  Inv'
  <1>u. UNCHANGED <<sampling, wave, exchanges, usage, answered, starts, sent, cancel, expired>>
    BY DEF lease_lost, journal, signals
  <1>d. Drive(Fact("LeaseLost")) /\ Fact("LeaseLost") \in JournalFailure
    BY DEF lease_lost, JournalFailure
  <1>1. CASE Awaiting /\ UNCHANGED calls
    <2>1. at \in Sampled /\ state.phase \in Working
      BY <1>1 DEF Awaiting, Sampled, Inv, ControlInv, Working
    <2>2. Outcome
      BY <1>d, <2>1, Closings
    <2>3. RestTyped'
      BY <1>u, <1>1, TypeSplit DEF Inv, RestTyped
    <2> QED BY <1>u, <1>1, <2>1, <2>2, <2>3, QuietKeeps
  <1>2. CASE AwaitingTools /\ StopTasks
    <2>a. at \in {"tools", "outputs"}
      BY <1>2 DEF AwaitingTools
    <2>c. calls' \in Seq(CallSet) /\ Len(calls') = Len(calls)
      BY <1>2, <2>a, AtWork, StopTyped
    <2>r. RestTyped'
      BY <1>u, <2>a, <2>c, AtWork DEF RestTyped, CallSet
    <2>e. \A i \in DOMAIN exchanges' : exchanges'[i] = i
      BY <1>u, <2>a, AtWork
    <2> QED BY <1>d, <1>u, <2>a, <2>r, <2>e, UnresolvedKeeps
  <1> QED BY <1>1, <1>2 DEF lease_lost

\* The terminal is handed over; what it claims held when it was chosen.
LEMMA CommitKeeps ==
    ASSUME Inv, commit_terminal
    PROVE  Inv'
  <1>a. at = "committing" /\ at' = "returned" /\ sent' = state.pending
    BY DEF commit_terminal
  <1>u. UNCHANGED <<sampling, calls, wave, exchanges, usage, answered, starts, cancel, expired>>
    BY DEF commit_terminal, journal, signals
  <1>p. state.phase = "CommittingResults" /\ state.pending \in AgentTerminal
        /\ state \in AgentState /\ RestTyped
    BY <1>a, TypeSplit DEF Inv, ControlInv
  <1>s. state' \in AgentState /\ state'.pending \in {NoTerminal, state.pending}
    <2>1. CASE state' = reduce(state, Fact("TerminalCommitted")).state
      <3>1. state' = [state EXCEPT !.phase = state.pending.kind, !.pending = NoTerminal]
        BY <1>p, <2>1, CommittedState
      <3>2. state.pending.kind \in AgentPhase
        BY <1>p, Terminals DEF AgentPhase
      <3> QED BY <1>p, <3>1, <3>2 DEF AgentState
    <2>2. CASE UNCHANGED state
      BY <1>p, <2>2
    <2> QED BY <2>1, <2>2 DEF commit_terminal
  <1>1. TypeOK'
    BY <1>a, <1>u, <1>p, <1>s DEF TypeOK, RestTyped, At
  <1>2. ControlInv'
    BY <1>a, <1>p, Terminals DEF ControlInv, Ending
  <1>3. CallsInv'
    BY <1>a, <1>u DEF Inv, CallsInv, Sampled
  <1>4. KnownInv'
    BY <1>a, <1>u, <1>s, Terminals DEF Inv, KnownInv, Known
  <1> QED BY <1>1, <1>2, <1>3, <1>4 DEF Inv

\* An aborted execution sends nothing more.
LEMMA AbortKeeps ==
    ASSUME Inv, abort
    PROVE  Inv'
  <1>a. at' = "aborted"
    BY DEF abort
  <1>u. UNCHANGED <<state, sampling, wave, exchanges, usage, answered, starts, sent, cancel, expired>>
    BY DEF abort, journal, signals
  <1>r. RestTyped /\ calls \in Seq(CallSet) /\ state \in AgentState
    BY TypeSplit DEF Inv, RestTyped, CallSet
  <1>c. calls' \in Seq(CallSet) /\ Len(calls') = Len(calls)
    BY <1>r, StopTyped DEF abort
  <1>1. TypeOK'
    BY <1>a, <1>u, <1>r, <1>c DEF TypeOK, RestTyped, CallSet, At
  <1>2. ControlInv'
    BY <1>a DEF ControlInv, Ending
  <1>3. CallsInv'
    BY <1>a, <1>u DEF Inv, CallsInv, Sampled
  <1>4. KnownInv'
    <2>1. CASE at = "tools"
      BY <1>u, <2>1, AtWork, Terminals DEF KnownInv
    <2>2. CASE at # "tools"
      BY <1>u, <2>2 DEF abort, Inv, KnownInv, Known
    <2> QED BY <2>1, <2>2
  <1> QED BY <1>1, <1>2, <1>3, <1>4 DEF Inv

\* Signals and stuttering leave everything the invariant reads alone.
LEMMA SignalsKeep ==
    ASSUME Inv, revoke \/ deadline_passes \/ UNCHANGED vars
    PROVE  Inv'
  <1>u. UNCHANGED <<state, at, sampling, calls, wave, exchanges, usage, answered, starts, sent>>
        /\ cancel' \in BOOLEAN /\ expired' \in BOOLEAN
    BY DEF revoke, deadline_passes, vars, journal, Inv, TypeOK
  <1>1. TypeOK'
    BY <1>u DEF Inv, TypeOK
  <1>2. ControlInv'
    BY <1>u DEF Inv, ControlInv, WaveOpen, Human, Serial
  <1>3. CallsInv'
    BY <1>u DEF Inv, CallsInv, WaveOpen, Joined, InWave
  <1>4. KnownInv'
    BY <1>u DEF Inv, KnownInv, Known
  <1> QED BY <1>1, <1>2, <1>3, <1>4 DEF Inv

LEMMA InitInv == Init => Inv
  <1> SUFFICES ASSUME Init PROVE Inv
    OBVIOUS
  <1>1. TypeOK
    <2>1. state \in AgentState
      BY StepCapAssumption DEF Init, queued, AgentState, AgentPhase
    <2>2. sampling \in [index : Nat, usage_seen : BOOLEAN, text_seen : BOOLEAN,
                        capped : BOOLEAN, pending : [Index -> Tools \cup {NoTool}]]
      BY DEF Init, NoCalls
    <2>3. calls \in Seq([tool : Tools, st : CallStatus]) /\ exchanges \in Seq(Nat) /\ Len(calls) = 0
      BY DEF Init
    <2>4. wave \in [lo : Nat \ {0}, hi : Nat] /\ wave.lo = 1 /\ wave.hi = 0
      BY DEF Init
    <2>5. /\ usage \subseteq Nat /\ answered \subseteq Nat /\ starts \in Nat
          /\ sent \in AgentTerminal \cup {NoTerminal}
          /\ cancel \in BOOLEAN /\ expired \in BOOLEAN /\ at \in At
      BY DEF Init, At
    <2> QED BY <2>1, <2>2, <2>3, <2>4, <2>5 DEF TypeOK
  <1>2. ControlInv
    BY DEF Init, ControlInv, Ending, queued
  <1>3. CallsInv
    BY DEF Init, CallsInv, Sampled
  <1>4. KnownInv
    BY Terminals DEF Init, KnownInv, queued
  <1> QED BY <1>1, <1>2, <1>3, <1>4 DEF Inv

LEMMA NextInv == Inv /\ [Next]_vars => Inv'
  <1> SUFFICES ASSUME Inv, [Next]_vars PROVE Inv'
    OBVIOUS
  <1>1. CASE execute_run \/ cancel_before_execution \/ over_cap \/ load_context
               \/ start_provider \/ resume
    BY <1>1, BeginSteps
  <1>2. CASE stream_delta \/ stream_usage \/ stream_tool_call \/ sampled_answer
               \/ sampled_interrupt \/ sampling_fails
    BY <1>2, SamplingSteps
  <1>3. CASE sampled_tools
    BY <1>3, SampledTools
  <1>4. CASE next_wave
    BY <1>4, NextWave
  <1>5. CASE join_wave \/ join_fails
    BY <1>5, JoinSteps
  <1>6. CASE append_tool_reply
    BY <1>6, ReplySteps
  <1>7. CASE tool_failed \/ tools_done
    BY <1>7, BatchEnds
  <1>8. CASE commit_terminal
    BY <1>8, CommitKeeps
  <1>9. CASE user_cancels \/ deadline_ends
    BY <1>9, CancelledKeeps DEF user_cancels, deadline_ends
  <1>10. CASE lease_lost
    BY <1>10, LeaseLost
  <1>11. CASE \E i \in DOMAIN calls : invoke(i) \/ tool_ends(i)
    BY <1>11, TaskSteps
  <1>12. CASE revoke \/ deadline_passes \/ UNCHANGED vars
    BY <1>12, SignalsKeep
  <1>13. CASE abort
    BY <1>13, AbortKeeps
  <1> QED
    BY <1>1, <1>2, <1>3, <1>4, <1>5, <1>6, <1>7, <1>8, <1>9, <1>10, <1>11, <1>12, <1>13
    DEF Next, Provider, Host, Control

-----------------------------------------------------------------------------
(* The theorems. *)

\* Inv holds throughout: the phase fits the await, the calls are journaled in
\* order, and a definite terminal is only chosen when the outcome is known.
THEOREM AgentInvariant == Spec => []Inv
  BY InitInv, NextInv, PTL DEF Spec

\* Every variable of the execution keeps its type and the wave stays within the
\* calls, for every set of tools and every step cap.
THEOREM AgentTyping == Spec => []TypeOK
  <1>1. Inv => TypeOK
    BY DEF Inv
  <1> QED BY <1>1, AgentInvariant, PTL

\* A terminal that claims to know the outcome is only handed to finish_run when
\* every acting call that was invoked is journaled, was never available or has
\* panicked: an interrupted, unknown or unjournaled effect is left to reconciliation.
THEOREM AgentEffects == Spec => []EffectsReconciled
  <1>1. Inv => EffectsReconciled
    BY DEF Inv, KnownInv, Known, EffectsReconciled, Clean
  <1> QED BY <1>1, AgentInvariant, PTL

\* The journal holds the tool exchanges once each and in the provider's order, and
\* all of them whenever the provider is sampled again.
THEOREM AgentExchanges == Spec => []ExchangesInOrder
  <1>1. Inv => ExchangesInOrder
    BY DEF Inv, CallsInv, ExchangesInOrder, Sampled
  <1> QED BY <1>1, AgentInvariant, PTL

\* No fact the host drives is refused by the reducer: an execution that returns has
\* handed a terminal over, except at the tool step limit.
THEOREM AgentSilence == Spec => []SilentOnlyAtStepLimit
  <1>1. Inv => SilentOnlyAtStepLimit
    BY DEF Inv, ControlInv, SilentOnlyAtStepLimit
  <1> QED BY <1>1, AgentInvariant, PTL

-----------------------------------------------------------------------------
(* What a run costs, and which calls are in flight together. *)

\* A sampling that has shown a text or a usage has it on record; a success rests on
\* both; under an output cap every sampling the run has gone on from is metered.
MeterInv ==
    /\ at = "sampling" =>
          /\ sampling.text_seen => sampling.index \in answered
          /\ sampling.usage_seen => sampling.index \in usage
    /\ state.pending = Succeeded \/ sent = Succeeded =>
          /\ sampling.index \in answered
          /\ sampling.capped => sampling.index \in usage
    /\ sampling.capped =>
          /\ 0..(sampling.index - 1) \subseteq usage
          /\ at \in {"interrupt", "tools", "outputs"} => sampling.index \in usage

\* The provider was started once per sampling, and a context is only loaded within
\* the cap; a call was counted by the reducer before it was queued.
CountInv ==
    /\ starts <= ToolStepCap + 1
    /\ at \in {"queued", "context"} => starts <= sampling.index
    /\ at \notin Ending => starts <= sampling.index + 1
    /\ Len(calls) <= state.tool_steps

BoundInv == MeterInv /\ CountInv

\* No two calls of the wave at work share a lock.
WaveClear ==
    at \in {"tools", "outputs"} =>
        \A k, m \in InWave : k # m => ~Conflict(calls[k].tool, calls[m].tool)

OverlapInv == WaveClear /\ ConflictsNeverOverlap

\* The execution leaves its last await; success is not decided by this step.
Ends ==
    /\ at' \in Ending
    /\ state'.tool_steps = state.tool_steps
    /\ state'.pending = Succeeded => state.pending = Succeeded

\* Only a completed answer succeeds, and only a batch of calls is counted.
LEMMA ReduceKeeps ==
    ASSUME NEW s \in AgentState, NEW e, e.type \notin {"ProviderCompleted", "ProviderToolCalls"}
    PROVE  /\ reduce(s, e).state.tool_steps = s.tool_steps
           /\ reduce(s, e).state.pending = Succeeded => s.pending = Succeeded
  <1>1. /\ \A f : failure_terminal(f) # Succeeded /\ Failed(f) # Succeeded
                    /\ ReconciliationRequired(f) # Succeeded
        /\ Cancelled # Succeeded /\ NoTerminal # Succeeded
    BY DEF failure_terminal, Failed, ReconciliationRequired, Succeeded, Cancelled, NoTerminal
  <1> DEFINE Kept(r) == r.state.tool_steps = s.tool_steps
                        /\ (r.state.pending = Succeeded => s.pending = Succeeded)
  <1>2. \A phase, effect : Kept(Step(s, phase, effect))
    BY DEF AgentState, Step
  <1>3. \A t : t # Succeeded => Kept(begin_terminal(s, t))
    BY DEF AgentState, begin_terminal
  <1>4. Kept(Refused(s))
    BY DEF Refused
  <1>5. Kept([ok |-> TRUE, effect |-> "none",
              state |-> [s EXCEPT !.phase = s.pending.kind, !.pending = NoTerminal]])
    BY <1>1 DEF AgentState
  <1> HIDE DEF Kept
  <1>6. Kept(reduce(s, e))
    BY <1>1, <1>2, <1>3, <1>4, <1>5 DEF reduce
  <1> QED BY <1>6 DEF Kept

\* However an execution is driven to its end, success was decided before.
LEMMA DriveEnds ==
    ASSUME state \in AgentState, NEW e, e.type \notin {"ProviderCompleted", "ProviderToolCalls"},
           Drive(e)
    PROVE  Ends
  BY ReduceKeeps DEF Drive, DriveFrom, Ends, Ending

LEMMA FailureEnds ==
    ASSUME Inv
    PROVE  /\ \A e \in JournalFailure : Drive(e) => Ends
           /\ \A type \in {"ContextFailed", "ProviderFailed", "RemoteResumeFailed"} : \A f :
                Drive(Failure(type, f)) => Ends
           /\ Drive(Fact("JournalCommitUnknown")) => Ends
           /\ Drive(Fact("ToolRuntimeUnavailable")) => Ends
           /\ Drive(Fact("LeaseLost")) => Ends
           /\ \A b : cancel_and_commit(b) => Ends
  <1>s. state \in AgentState
    BY DEF Inv, TypeOK
  <1>1. ASSUME NEW type \in {"JournalCommitUnknown", "ToolRuntimeUnavailable", "LeaseLost"},
               Drive(Fact(type))
        PROVE  Ends
    BY <1>s, <1>1, DriveEnds DEF Fact
  <1>2. ASSUME NEW type \in {"ContextFailed", "ProviderFailed", "RemoteResumeFailed"}, NEW f,
               Drive(Failure(type, f))
        PROVE  Ends
    BY <1>s, <1>2, DriveEnds DEF Failure
  <1>3. ASSUME NEW b, cancel_and_commit(b)
        PROVE  Ends
    <2> DEFINE r == reduce(state, Fact("CancelRequested"))
    <2>1. CASE ~b
      BY <1>1, <1>3, <2>1 DEF cancel_and_commit
    <2>2. CASE b /\ ~r.ok
      BY <1>3, <2>2 DEF cancel_and_commit, Ends, Ending
    <2>3. CASE b /\ r.ok
      <3>1. DriveFrom(r.state, Fact("ChildrenStopped"))
        BY <1>3, <2>3 DEF cancel_and_commit
      <3>2. r.state = [state EXCEPT !.phase = "Cancelling"] \/ r.state = state
        BY DEF reduce, Fact, Step, Refused
      <3>3. r.state \in AgentState /\ r.state.tool_steps = state.tool_steps
            /\ r.state.pending = state.pending
        BY <1>s, <3>2 DEF AgentState, AgentPhase
      <3>4. Fact("ChildrenStopped").type = "ChildrenStopped"
        BY DEF Fact
      <3> HIDE DEF r
      <3>5. /\ reduce(r.state, Fact("ChildrenStopped")).state.tool_steps = r.state.tool_steps
            /\ reduce(r.state, Fact("ChildrenStopped")).state.pending = Succeeded
                 => r.state.pending = Succeeded
        BY <3>3, <3>4, ReduceKeeps
      <3> QED BY <3>1, <3>3, <3>5 DEF DriveFrom, Ends, Ending
    <2> QED BY <2>1, <2>2, <2>3
  <1> QED BY <1>1, <1>2, <1>3 DEF JournalFailure

\* A fact that leads on leads to the next await or returns.
LEMMA ProceedEnds ==
    ASSUME Inv, NEW type, type \notin {"ProviderCompleted", "ProviderToolCalls"}, NEW next,
           Proceed(Fact(type), next)
    PROVE  /\ state'.tool_steps = state.tool_steps
           /\ state'.pending = Succeeded => state.pending = Succeeded
           /\ Ends \/ at' = next
  <1>1. state \in AgentState /\ Fact(type).type = type
    BY DEF Inv, TypeOK, Fact
  <1> QED BY <1>1, ReduceKeeps DEF Proceed, Ends, Ending

-----------------------------------------------------------------------------
(* The cost of a run. *)

\* The sampling the run is in, and the cap it is under.
SameSampling ==
    /\ sampling'.index = sampling.index
    /\ sampling'.capped = sampling.capped

\* Records are kept, and nothing is counted.
RecordsKept ==
    /\ usage \subseteq usage'
    /\ answered \subseteq answered'
    /\ starts' = starts
    /\ Len(calls') = Len(calls)

LEMMA EndsKeep ==
    ASSUME Inv, BoundInv, Ends, SameSampling, RecordsKept,
           sent' = Succeeded => sent = Succeeded \/ state.pending = Succeeded
    PROVE  BoundInv'
  <1>1. MeterInv'
    BY DEF BoundInv, MeterInv, Ends, Ending, SameSampling, RecordsKept
  <1>2. CountInv'
    BY DEF BoundInv, CountInv, Ends, Ending, RecordsKept
  <1> QED BY <1>1, <1>2 DEF BoundInv

\* A step within an await, or between the tools and their results.
LEMMA StayKeeps ==
    ASSUME Inv, BoundInv, SameSampling, RecordsKept, UNCHANGED sent,
           at' = at \/ (at \in {"tools", "outputs"} /\ at' \in {"tools", "outputs"}),
           state'.tool_steps = state.tool_steps,
           state'.pending = Succeeded => state.pending = Succeeded,
           at' = "sampling" =>
              /\ sampling'.text_seen => sampling.index \in answered'
              /\ sampling'.usage_seen => sampling.index \in usage'
    PROVE  BoundInv'
  <1>1. MeterInv'
    BY DEF BoundInv, MeterInv, SameSampling, RecordsKept
  <1>2. CountInv'
    BY DEF BoundInv, CountInv, SameSampling, RecordsKept, Ending
  <1> QED BY <1>1, <1>2 DEF BoundInv

\* The values the arithmetic is about.
LEMMA Numbers ==
    ASSUME Inv
    PROVE  /\ sampling.index \in Nat /\ starts \in Nat /\ ToolStepCap \in Nat
           /\ Len(calls) \in Nat /\ state.tool_steps \in 0..ToolStepCap
           /\ sampling \in [index : Nat, usage_seen : BOOLEAN, text_seen : BOOLEAN,
                            capped : BOOLEAN, pending : [Index -> Tools \cup {NoTool}]]
  BY StepCapAssumption DEF Inv, TypeOK, AgentState

\* The run goes on to its next sampling: the one it leaves is metered.
LEMMA NextBounds ==
    ASSUME Inv, BoundInv, at \in {"interrupt", "tools"}, GoesOn("Preparing", "context"),
           sampling' = NextSampling,
           UNCHANGED <<usage, answered, starts, calls, sent>>
    PROVE  BoundInv'
  <1>1. /\ state'.tool_steps = state.tool_steps /\ at' = "context"
        /\ state'.pending = state.pending
    BY DEF GoesOn, Inv, TypeOK, AgentState
  <1>2. state.pending = NoTerminal /\ sent = NoTerminal /\ NoTerminal # Succeeded
    BY DEF Inv, ControlInv, Ending, NoTerminal, Succeeded
  <1>3. sampling'.index = sampling.index + 1 /\ sampling'.capped = sampling.capped
    BY Numbers DEF NextSampling
  <1>4. sampling.capped => 0..(sampling'.index - 1) \subseteq usage
    <2>1. ASSUME sampling.capped, NEW k \in 0..(sampling'.index - 1) PROVE k \in usage
      <3>1. k \in 0..(sampling.index - 1) \/ k = sampling.index
        BY <1>3, <2>1, Numbers
      <3> QED BY <2>1, <3>1 DEF BoundInv, MeterInv
    <2> QED BY <2>1
  <1>5. MeterInv'
    BY <1>1, <1>2, <1>3, <1>4 DEF MeterInv
  <1>6. CountInv'
    BY <1>1, <1>3, Numbers DEF BoundInv, CountInv, Ending
  <1> QED BY <1>5, <1>6 DEF BoundInv

LEMMA BeginBounds ==
    ASSUME Inv, BoundInv,
           cancel_before_execution \/ execute_run \/ over_cap \/ load_context
             \/ start_provider \/ resume
    PROVE  BoundInv'
  <1>f. /\ SameSampling <=> sampling'.index = sampling.index /\ sampling'.capped = sampling.capped
        /\ UNCHANGED sampling => SameSampling
    BY DEF SameSampling
  <1>k. UNCHANGED <<usage, answered, starts, calls>> => RecordsKept
    BY DEF RecordsKept
  <1>1. CASE cancel_before_execution
    <2>1. Ends /\ UNCHANGED <<sampling, usage, answered, starts, calls, sent>>
      BY <1>1, FailureEnds DEF cancel_before_execution, journal
    <2> QED BY <1>f, <1>k, <2>1, EndsKeep
  <1>2. CASE execute_run
    <2>u. UNCHANGED <<sampling, usage, answered, starts, calls, sent>> /\ at = "queued"
      BY <1>2 DEF execute_run, journal
    <2>1. CASE Proceed(Fact("DispatchActivated"), "context")
      <3>1. /\ state'.tool_steps = state.tool_steps
            /\ state'.pending = Succeeded => state.pending = Succeeded
            /\ Ends \/ at' = "context"
        BY <2>1, ProceedEnds
      <3>2. CASE at' = "context"
        <4>1. MeterInv'
          BY <2>u, <3>1, <3>2 DEF BoundInv, MeterInv
        <4>2. CountInv'
          BY <2>u, <3>1, <3>2 DEF BoundInv, CountInv, Ending
        <4> QED BY <4>1, <4>2 DEF BoundInv
      <3> QED BY <1>f, <1>k, <2>u, <3>1, <3>2, EndsKeep
    <2>2. CASE DriveFrom(reduce(state, Fact("DispatchActivated")).state,
                         Fact("JournalCommitUnknown"))
      <3> DEFINE s == reduce(state, Fact("DispatchActivated")).state
                 r == reduce(s, Fact("JournalCommitUnknown")).state
      <3>1. state.phase = "Queued" /\ state \in AgentState
        BY <2>u DEF Inv, ControlInv, TypeOK
      <3>2. s = [state EXCEPT !.phase = "Preparing"]
        BY <3>1, Accepted DEF Step
      <3>3. s \in AgentState /\ s.tool_steps = state.tool_steps /\ s.pending = state.pending
        BY <3>1, <3>2 DEF AgentState, AgentPhase
      <3>4. Fact("JournalCommitUnknown").type = "JournalCommitUnknown"
        BY DEF Fact
      <3> HIDE DEF s
      <3>5. r.tool_steps = s.tool_steps /\ (r.pending = Succeeded => s.pending = Succeeded)
        BY <3>3, <3>4, ReduceKeeps
      <3>6. state' = r /\ at' \in Ending
        BY <2>2 DEF DriveFrom, Ending, s
      <3>7. Ends
        BY <3>3, <3>5, <3>6 DEF Ends
      <3> QED BY <1>f, <1>k, <2>u, <3>7, EndsKeep
    <2> QED BY <1>2, <2>1, <2>2 DEF execute_run
  <1>3. CASE over_cap
    <2>1. Ends /\ UNCHANGED <<sampling, usage, answered, starts, calls, sent>>
      BY <1>3, FailureEnds DEF over_cap, journal
    <2> QED BY <1>f, <1>k, <2>1, EndsKeep
  <1>4. CASE load_context
    <2>u. UNCHANGED <<sampling, usage, answered, calls, sent>> /\ at = "context" /\ ~OverCap
      BY <1>4 DEF load_context
    <2>1. CASE Proceed(Fact("ContextPrepared"), "provider") /\ starts' = starts + 1
      <3>1. GoesOn("Sampling", "provider")
        BY <2>u, <2>1, Accepted, ProceedAccepted DEF Inv, ControlInv
      <3>2. /\ state'.tool_steps = state.tool_steps /\ at' = "provider"
            /\ state'.pending = state.pending
        BY <3>1 DEF GoesOn, Inv, TypeOK, AgentState
      <3>3. MeterInv'
        BY <2>u, <3>2 DEF BoundInv, MeterInv
      <3>4. sampling.index <= ToolStepCap /\ starts <= sampling.index
        BY <2>u, Numbers DEF OverCap, BoundInv, CountInv
      <3>5. CountInv'
        BY <2>u, <2>1, <3>2, <3>4, Numbers DEF BoundInv, CountInv
      <3> QED BY <3>3, <3>5 DEF BoundInv
    <2>2. CASE UNCHANGED starts /\ Ends
      BY <1>f, <1>k, <2>u, <2>2, EndsKeep
    <2> QED BY <1>4, <2>1, <2>2, FailureEnds DEF load_context
  <1>5. CASE start_provider
    <2>u. UNCHANGED <<usage, answered, starts, calls, sent>> /\ at = "provider"
      BY <1>5 DEF start_provider, journal
    <2>1. CASE at' = "sampling" /\ sampling' = FreshSampling /\ UNCHANGED state
      <3>1. SameSampling /\ ~sampling'.text_seen /\ ~sampling'.usage_seen
        BY <2>1, Numbers DEF FreshSampling, SameSampling
      <3>2. MeterInv'
        BY <2>u, <2>1, <3>1 DEF BoundInv, MeterInv, SameSampling
      <3>3. CountInv'
        BY <2>u, <2>1, <3>1 DEF BoundInv, CountInv, SameSampling, Ending
      <3> QED BY <3>2, <3>3 DEF BoundInv
    <2>2. CASE UNCHANGED sampling /\ Ends
      BY <1>f, <1>k, <2>u, <2>2, EndsKeep
    <2> QED BY <1>5, <2>1, <2>2, FailureEnds DEF start_provider
  <1>6. CASE resume
    <2>u. UNCHANGED <<usage, answered, starts, calls, sent>> /\ at = "interrupt"
      BY <1>6 DEF resume, journal
    <2>1. CASE Proceed(Fact("RemoteResumeReady"), "context") /\ sampling' = NextSampling
      <3>1. GoesOn("Preparing", "context")
        BY <2>u, <2>1, Accepted, ProceedAccepted DEF Inv, ControlInv
      <3> QED BY <2>u, <2>1, <3>1, NextBounds
    <2>2. CASE UNCHANGED sampling /\ Ends
      BY <1>f, <1>k, <2>u, <2>2, EndsKeep
    <2> QED BY <1>6, <2>1, <2>2, FailureEnds DEF resume
  <1> QED BY <1>1, <1>2, <1>3, <1>4, <1>5, <1>6

\* What the provider streams, and how a sampling ends.
LEMMA SamplingBounds ==
    ASSUME Inv, BoundInv,
           stream_delta \/ stream_usage \/ stream_tool_call \/ sampled_answer
             \/ sampled_interrupt \/ sampling_fails
    PROVE  BoundInv'
  <1>k. UNCHANGED <<usage, answered, starts, calls>> => RecordsKept
    BY DEF RecordsKept
  <1>f. UNCHANGED sampling => SameSampling
    BY DEF SameSampling
  <1>n. state.pending = NoTerminal /\ sent = NoTerminal /\ NoTerminal # Succeeded
        /\ at = "sampling" /\ state.phase = "Sampling"
    BY DEF Inv, ControlInv, Ending, NoTerminal, Succeeded, stream_delta, stream_usage,
           stream_tool_call, sampled_answer, sampled_interrupt, sampling_fails
  <1>m. /\ sampling.text_seen => sampling.index \in answered
        /\ sampling.usage_seen => sampling.index \in usage
    BY <1>n DEF BoundInv, MeterInv
  <1>1. CASE stream_delta
    <2>u. UNCHANGED <<calls, usage, starts, sent>>
      BY <1>1 DEF stream_delta
    <2>1. CASE /\ Proceed(Fact("ProviderTextDelta"), "sampling")
               /\ sampling' = [sampling EXCEPT !.text_seen = TRUE]
               /\ answered' = answered \cup {sampling.index}
      <3>1. SameSampling /\ sampling'.usage_seen = sampling.usage_seen
        BY <2>1, Numbers DEF SameSampling
      <3>2. RecordsKept
        BY <2>u, <2>1 DEF RecordsKept
      <3>3. /\ state'.tool_steps = state.tool_steps
            /\ state'.pending = Succeeded => state.pending = Succeeded
            /\ Ends \/ at' = "sampling"
        BY <2>1, ProceedEnds
      <3>4. CASE Ends
        BY <2>u, <3>1, <3>2, <3>4, EndsKeep
      <3>5. CASE at' = "sampling"
        BY <1>n, <1>m, <2>u, <2>1, <3>1, <3>2, <3>3, <3>5, StayKeeps
      <3> QED BY <3>3, <3>4, <3>5
    <2>2. CASE Ends /\ UNCHANGED <<sampling, answered>>
      BY <1>k, <1>f, <2>u, <2>2, EndsKeep
    <2> QED BY <1>1, <2>1, <2>2, FailureEnds DEF stream_delta
  <1>2. CASE stream_usage
    <2>u. UNCHANGED <<calls, answered, starts, sent>>
      BY <1>2 DEF stream_usage
    <2>1. CASE /\ usage' = usage \cup {sampling.index}
               /\ sampling' = [sampling EXCEPT !.usage_seen = TRUE]
               /\ UNCHANGED <<state, at>> \/ Ends
      <3>1. SameSampling /\ sampling'.text_seen = sampling.text_seen
        BY <2>1, Numbers DEF SameSampling
      <3>2. RecordsKept
        BY <2>u, <2>1 DEF RecordsKept
      <3>3. CASE Ends
        BY <2>u, <3>1, <3>2, <3>3, EndsKeep
      <3>4. CASE UNCHANGED <<state, at>>
        BY <1>m, <2>u, <2>1, <3>1, <3>2, <3>4, StayKeeps
      <3> QED BY <2>1, <3>3, <3>4
    <2>2. CASE Ends /\ UNCHANGED <<sampling, usage>>
      BY <1>k, <1>f, <2>u, <2>2, EndsKeep
    <2> QED BY <1>2, <2>1, <2>2, FailureEnds DEF stream_usage
  <1>3. CASE stream_tool_call
    <2>u. UNCHANGED <<calls, answered, usage, starts, sent>>
      BY <1>3 DEF stream_tool_call, journal
    <2>1. ASSUME NEW i \in Index, NEW t \in Tools,
                 sampling' = [sampling EXCEPT !.pending[i] = t], UNCHANGED <<state, at>>
          PROVE  BoundInv'
      <3>1. SameSampling /\ sampling'.text_seen = sampling.text_seen
            /\ sampling'.usage_seen = sampling.usage_seen
        BY <2>1, Numbers DEF SameSampling
      <3> QED BY <1>k, <1>m, <2>u, <2>1, <3>1, StayKeeps
    <2>2. CASE Ends /\ UNCHANGED sampling
      BY <1>k, <1>f, <2>u, <2>2, EndsKeep
    <2> QED BY <1>3, <2>1, <2>2, FailureEnds DEF stream_tool_call
  <1>4. CASE sampled_answer
    <2>u. UNCHANGED <<sampling, calls, answered, usage, starts, sent>>
      BY <1>4 DEF sampled_answer, journal
    <2>1. CASE sampling.text_seen /\ Metered /\ Drive(Fact("ProviderCompleted"))
      <3>1. ClosesWith(Succeeded)
        BY <1>n, <2>1, DriveDefinite
      <3>2. state'.tool_steps = state.tool_steps /\ at' = "committing"
        BY <3>1 DEF ClosesWith, Inv, TypeOK, AgentState
      <3>3. MeterInv'
        BY <1>m, <2>u, <2>1, <3>2 DEF BoundInv, MeterInv, Metered
      <3>4. CountInv'
        BY <2>u, <3>2 DEF BoundInv, CountInv, Ending
      <3> QED BY <3>3, <3>4 DEF BoundInv
    <2>2. CASE Ends
      BY <1>k, <1>f, <2>u, <2>2, EndsKeep
    <2> QED BY <1>4, <2>1, <2>2, FailureEnds DEF sampled_answer
  <1>5. CASE sampled_interrupt
    <2>u. UNCHANGED <<sampling, calls, answered, usage, starts, sent>>
      BY <1>5 DEF sampled_interrupt, journal
    <2>1. CASE Metered /\ Proceed(Fact("HumanRequired"), "interrupt")
      <3>1. /\ state'.tool_steps = state.tool_steps
            /\ state'.pending = Succeeded => state.pending = Succeeded
            /\ Ends \/ at' = "interrupt"
        BY <2>1, ProceedEnds
      <3>2. CASE Ends
        BY <1>k, <1>f, <2>u, <3>2, EndsKeep
      <3>3. CASE at' = "interrupt"
        <4>1. MeterInv'
          BY <1>n, <1>m, <2>u, <2>1, <3>1, <3>3 DEF BoundInv, MeterInv, Metered
        <4>2. CountInv'
          BY <1>n, <2>u, <3>1, <3>3 DEF BoundInv, CountInv, Ending
        <4> QED BY <4>1, <4>2 DEF BoundInv
      <3> QED BY <3>1, <3>2, <3>3
    <2>2. CASE Ends
      BY <1>k, <1>f, <2>u, <2>2, EndsKeep
    <2> QED BY <1>5, <2>1, <2>2, FailureEnds DEF sampled_interrupt
  <1>6. CASE sampling_fails
    <2>1. Ends /\ UNCHANGED <<sampling, calls, answered, usage, starts, sent>>
      BY <1>6, FailureEnds DEF sampling_fails, journal
    <2> QED BY <1>k, <1>f, <2>1, EndsKeep
  <1> QED BY <1>1, <1>2, <1>3, <1>4, <1>5, <1>6

\* The calls of a completed sampling are queued behind the others.
LEMMA QueuedCalls ==
    ASSUME Inv, sampled_tools, at' = "tools"
    PROVE  \E n \in Nat \ {0} :
             /\ Len(calls') = Len(calls) + n
             /\ state' = [state EXCEPT !.phase = "ExecutingTools", !.tool_steps = @ + n]
             /\ \A i \in DOMAIN calls : calls'[i] = calls[i]
             /\ \A i \in DOMAIN calls' : i \in DOMAIN calls \/ calls'[i].st = "queued"
  <1>a. at = "sampling" /\ state.phase = "Sampling" /\ state \in AgentState /\ RestTyped
    BY TypeSplit DEF sampled_tools, Inv, ControlInv
  <1>1. PICK n \in Index : \E b \in [1..n -> Index] :
          /\ Ordered(b, n)
          /\ InvokeTools(n)
          /\ calls' = calls \o [k \in 1..n |-> [tool |-> sampling.pending[b[k]],
                                                st |-> "queued"]]
    <2>1. ~Ends
      BY DEF Ends, Ending
    <2> QED BY <2>1, FailureEnds DEF sampled_tools
  <1>2. PICK b \in [1..n -> Index] :
          /\ Ordered(b, n)
          /\ InvokeTools(n)
          /\ calls' = calls \o [k \in 1..n |-> [tool |-> sampling.pending[b[k]],
                                                st |-> "queued"]]
    BY <1>1
  <1>3. n \in Nat \ {0}
    BY ToolsAssumption DEF Index
  <1>4. state' = [state EXCEPT !.phase = "ExecutingTools", !.tool_steps = @ + n]
    BY <1>a, <1>2, <1>3, InvokedOrLimit
  <1> DEFINE T == Tools \cup {NoTool}
             S == [tool : T, st : CallStatus]
             q == [k \in 1..n |-> [tool |-> sampling.pending[b[k]], st |-> "queued"]]
  <1>5. q \in [1..n -> S] /\ \A k \in 1..n : q[k].st = "queued"
    <2>1. sampling.pending \in [Index -> T]
      BY <1>a DEF RestTyped
    <2>2. ASSUME NEW k \in 1..n PROVE sampling.pending[b[k]] \in T
      BY <2>1, <2>2
    <2> QED BY <2>2 DEF CallStatus
  <1>6. calls' = calls \o q
    BY <1>2
  <1>7. calls \in Seq(S)
    <2>1. calls \in Seq([tool : Tools, st : CallStatus])
      BY <1>a DEF RestTyped
    <2> DEFINE C == [tool : Tools, st : CallStatus]
    <2>c. C \subseteq S
      OBVIOUS
    <2>d. calls \in Seq(C)
      BY <2>1
    <2> HIDE DEF C, S
    <2>2. Len(calls) \in Nat /\ calls \in [1..Len(calls) -> C]
      BY <2>d
    <2>3. calls \in [1..Len(calls) -> S]
      BY <2>c, <2>2
    <2> QED BY <2>2, <2>3, Sequence
  <1> HIDE DEF q, S
  <1>8. q \in Seq(S) /\ Len(q) = n
    BY <1>3, <1>5, Sequence
  <1>9. /\ calls' \in Seq(S)
        /\ Len(calls') = Len(calls) + n
        /\ \A i \in 1..Len(calls) : calls'[i] = calls[i]
        /\ \A i \in Len(calls)+1..Len(calls)+n : calls'[i] = q[i - Len(calls)]
    BY <1>6, <1>7, <1>8, Concatenation
  <1>10. ASSUME NEW i \in DOMAIN calls', i \notin DOMAIN calls
         PROVE  calls'[i].st = "queued"
    <2>1. i \in Len(calls)+1..Len(calls)+n /\ i - Len(calls) \in 1..n
      BY <1>3, <1>7, <1>9, <1>10
    <2> QED BY <1>5, <1>9, <2>1
  <1>11. \A i \in DOMAIN calls : calls'[i] = calls[i]
    BY <1>7, <1>9
  <1> QED BY <1>3, <1>4, <1>9, <1>10, <1>11

LEMMA ToolBounds ==
    ASSUME Inv, BoundInv, sampled_tools
    PROVE  BoundInv'
  <1>u. UNCHANGED <<usage, answered, starts, sent>> /\ at = "sampling"
    BY DEF sampled_tools, journal
  <1>n. state.pending = NoTerminal /\ sent = NoTerminal /\ NoTerminal # Succeeded
        /\ state.phase = "Sampling" /\ state \in AgentState
    BY <1>u DEF Inv, ControlInv, Ending, NoTerminal, Succeeded, TypeOK
  <1>1. CASE at' = "tools"
    <2>1. PICK n \in Nat \ {0} :
             /\ Len(calls') = Len(calls) + n
             /\ state' = [state EXCEPT !.phase = "ExecutingTools", !.tool_steps = @ + n]
      BY <1>1, QueuedCalls
    <2>2. Metered /\ sampling' = [sampling EXCEPT !.pending = NoCalls]
      <3>1. ~Ends
        BY <1>1 DEF Ends, Ending
      <3> QED BY <3>1, FailureEnds DEF sampled_tools
    <2>3. SameSampling
      BY <2>2, Numbers DEF SameSampling
    <2>4. state'.pending = NoTerminal /\ state'.tool_steps = state.tool_steps + n
      BY <1>n, <2>1 DEF AgentState
    <2>5. MeterInv'
      BY <1>u, <1>n, <1>1, <2>2, <2>3, <2>4 DEF BoundInv, MeterInv, Metered, SameSampling
    <2>6. CountInv'
      BY <1>u, <1>1, <2>1, <2>3, <2>4, Numbers DEF BoundInv, CountInv, SameSampling, Ending
    <2> QED BY <2>5, <2>6 DEF BoundInv
  <1>2. CASE at' # "tools"
    <2>1. CASE Ends /\ UNCHANGED <<calls, sampling>>
      BY <1>u, <2>1, EndsKeep DEF SameSampling, RecordsKept
    <2>2. ASSUME NEW n \in Index, InvokeTools(n), UNCHANGED calls,
                 sampling' = [sampling EXCEPT !.pending = NoCalls]
          PROVE  BoundInv'
      <3>1. n \in Nat \ {0}
        BY ToolsAssumption DEF Index
      <3>2. /\ at' = "returned"
            /\ state' = [state EXCEPT !.phase = "CommittingResults",
                                      !.pending = Failed("tool_step_limit")]
        BY <1>n, <1>2, <2>2, <3>1, InvokedOrLimit
      <3>3. Ends
        BY <1>n, <3>2 DEF Ends, Ending, AgentState, Failed, Succeeded
      <3>4. SameSampling /\ RecordsKept
        BY <1>u, <2>2, Numbers DEF SameSampling, RecordsKept
      <3> QED BY <1>u, <3>3, <3>4, EndsKeep
    <2> QED BY <1>2, <2>1, <2>2, FailureEnds DEF sampled_tools
  <1> QED BY <1>1, <1>2

LEMMA WaveBounds ==
    ASSUME Inv, BoundInv,
           next_wave \/ join_wave \/ join_fails \/ append_tool_reply \/ tool_failed \/ tools_done
    PROVE  BoundInv'
  <1>a. at \in {"tools", "outputs"} /\ calls \in Seq(CallSet)
    <2>1. at \in {"tools", "outputs"}
      BY DEF next_wave, join_wave, join_fails, append_tool_reply, tool_failed, tools_done
    <2> QED BY <2>1, AtWork
  <1>u. UNCHANGED <<usage, answered, starts, sent>>
    BY DEF next_wave, join_wave, join_fails, append_tool_reply, tool_failed, tools_done, journal
  <1>k. Len(calls') = Len(calls) => RecordsKept
    BY <1>u DEF RecordsKept
  <1>f. UNCHANGED sampling => SameSampling
    BY DEF SameSampling
  <1>e. ASSUME Ends, Len(calls') = Len(calls), UNCHANGED sampling PROVE BoundInv'
    BY <1>u, <1>k, <1>f, <1>e, EndsKeep
  <1>s. ASSUME at' \in {"tools", "outputs"}, Len(calls') = Len(calls), UNCHANGED sampling,
               state'.tool_steps = state.tool_steps,
               state'.pending = Succeeded => state.pending = Succeeded
        PROVE  BoundInv'
    BY <1>a, <1>u, <1>k, <1>f, <1>s, StayKeeps
  <1>1. CASE next_wave
    <2>1. \/ Proceed(Fact("HumanRequired"), "tools")
          \/ UNCHANGED <<state, at>>
      BY <1>1 DEF next_wave
    <2>2. UNCHANGED <<calls, sampling>>
      BY <1>1 DEF next_wave
    <2> QED BY <1>a, <1>e, <1>s, <2>1, <2>2, ProceedEnds
  <1>2. CASE join_wave
    <2>1. \/ Proceed(Fact("HumanReleased"), "outputs")
          \/ at' = "outputs" /\ UNCHANGED state
          \/ Drive(Fact("JournalCommitUnknown"))
      BY <1>2 DEF join_wave, tool_interrupted
    <2>2. UNCHANGED <<calls, sampling>>
      BY <1>2 DEF join_wave
    <2> QED BY <1>e, <1>s, <2>1, <2>2, ProceedEnds, FailureEnds
  <1>3. CASE join_fails
    <2>1. Ends /\ StopTasks /\ UNCHANGED sampling
      BY <1>3, FailureEnds DEF join_fails
    <2> QED BY <1>a, <1>e, <2>1, StopTyped
  <1>4. CASE append_tool_reply
    <2>1. UNCHANGED sampling /\ wave.lo \in DOMAIN calls
      BY <1>4, <1>a, AtWork DEF append_tool_reply, Inv, CallsInv, WaveOpen
    <2>2. CASE SetCall(wave.lo, "journaled") /\ UNCHANGED state /\ at' \in {"tools", "outputs"}
      <3>1. Len(calls') = Len(calls)
        BY <1>a, <2>1, <2>2, SetCallTyped DEF CallStatus
      <3> QED BY <1>s, <2>1, <2>2, <3>1
    <2>3. CASE Ends /\ UNCHANGED calls
      BY <1>e, <2>1, <2>3
    <2> QED BY <1>4, <2>2, <2>3, FailureEnds DEF append_tool_reply
  <1>5. CASE tool_failed
    <2>1. Ends /\ UNCHANGED <<calls, sampling>>
      BY <1>5, FailureEnds DEF tool_failed
    <2> QED BY <1>e, <2>1
  <1>6. CASE tools_done
    <2>1. /\ at = "tools" /\ state.phase = "ExecutingTools" /\ sampling' = NextSampling
          /\ Proceed(Fact("ToolResultCommitted"), "context") /\ UNCHANGED calls
      BY <1>6 DEF tools_done, Inv, ControlInv
    <2>2. GoesOn("Preparing", "context")
      BY <2>1, Accepted, ProceedAccepted
    <2> QED BY <1>u, <2>1, <2>2, NextBounds
  <1> QED BY <1>1, <1>2, <1>3, <1>4, <1>5, <1>6

\* The terminal, the signals, the tasks of the wave and what ends the execution
\* from outside.
LEMMA OtherBounds ==
    ASSUME Inv, BoundInv,
           \/ commit_terminal \/ Control \/ revoke \/ deadline_passes \/ abort \/ UNCHANGED vars
           \/ \E i \in DOMAIN calls : invoke(i) \/ tool_ends(i)
    PROVE  BoundInv'
  <1>c. calls \in Seq(CallSet) /\ state \in AgentState
    BY TypeSplit DEF Inv, RestTyped, CallSet
  <1>u. UNCHANGED <<sampling, usage, answered, starts>>
    BY DEF commit_terminal, Control, user_cancels, deadline_ends, lease_lost, revoke,
           deadline_passes, abort, vars, invoke, tool_ends, journal
  <1>k. Len(calls') = Len(calls) => SameSampling /\ RecordsKept
    BY <1>u DEF SameSampling, RecordsKept
  <1>p. UNCHANGED calls \/ StopTasks => Len(calls') = Len(calls)
    BY <1>c, StopTyped
  <1>1. CASE commit_terminal
    <2>1. /\ at = "committing" /\ at' = "returned" /\ sent' = state.pending /\ UNCHANGED calls
      BY <1>1 DEF commit_terminal
    <2>2. CASE UNCHANGED state
      BY <1>k, <2>1, <2>2, EndsKeep DEF Ends, Ending
    <2>3. CASE state' = reduce(state, Fact("TerminalCommitted")).state
      <3>1. Fact("TerminalCommitted").type = "TerminalCommitted"
        BY DEF Fact
      <3>2. Ends
        BY <1>c, <2>1, <2>3, <3>1, ReduceKeeps DEF Ends, Ending
      <3> QED BY <1>k, <2>1, <3>2, EndsKeep
    <2> QED BY <1>1, <2>2, <2>3 DEF commit_terminal
  <1>2. CASE Control
    <2>1. Ends /\ UNCHANGED sent
      BY <1>2, FailureEnds DEF Control, user_cancels, deadline_ends, lease_lost, CancelledBy,
                              tool_interrupted
    <2>2. UNCHANGED calls \/ StopTasks
      BY <1>2 DEF Control, user_cancels, deadline_ends, lease_lost, CancelledBy
    <2> QED BY <1>k, <1>p, <2>1, <2>2, EndsKeep
  <1>3. CASE abort
    <2>1. Ends /\ UNCHANGED sent
      BY <1>3 DEF abort, Ends, Ending
    <2>2. UNCHANGED calls \/ StopTasks
      BY <1>3 DEF abort
    <2> QED BY <1>k, <1>p, <2>1, <2>2, EndsKeep
  <1>m. /\ at = "sampling" /\ sampling.text_seen => sampling.index \in answered
        /\ at = "sampling" /\ sampling.usage_seen => sampling.index \in usage
    BY DEF BoundInv, MeterInv
  <1>4. CASE revoke \/ deadline_passes \/ UNCHANGED vars
    <2>1. UNCHANGED <<state, at, sent, calls>>
      BY <1>4 DEF revoke, deadline_passes, vars
    <2> QED BY <1>k, <1>m, <1>u, <2>1, StayKeeps
  <1>5. ASSUME NEW i \in DOMAIN calls, invoke(i) \/ tool_ends(i)
        PROVE  BoundInv'
    <2>1. UNCHANGED <<state, at, sent>>
      BY <1>5 DEF invoke, tool_ends
    <2>2. \E st \in CallStatus : SetCall(i, st)
      BY <1>5 DEF invoke, tool_ends, CallStatus
    <2>3. Len(calls') = Len(calls)
      BY <1>c, <2>2, SetCallTyped
    <2> QED BY <1>k, <1>m, <1>u, <2>1, <2>3, StayKeeps
  <1> QED BY <1>1, <1>2, <1>3, <1>4, <1>5

LEMMA InitBounds == Init => BoundInv
  <1> SUFFICES ASSUME Init PROVE BoundInv
    OBVIOUS
  <1>1. MeterInv
    BY DEF Init, MeterInv, queued, NoTerminal, Succeeded
  <1>2. CountInv
    BY StepCapAssumption DEF Init, CountInv, queued
  <1> QED BY <1>1, <1>2 DEF BoundInv

LEMMA NextBound == Inv /\ BoundInv /\ [Next]_vars => BoundInv'
  BY BeginBounds, SamplingBounds, ToolBounds, WaveBounds, OtherBounds
  DEF Next, Provider, Host, Control

-----------------------------------------------------------------------------
(* Which calls are in flight together. *)

\* No task begins in the step, and no call becomes one of another tool.
TasksOnlyEnd ==
    /\ DOMAIN calls' = DOMAIN calls
    /\ \A k \in DOMAIN calls :
          /\ calls'[k].tool = calls[k].tool
          /\ calls'[k].st = "running" => calls[k].st = "running"

LEMMA TasksEnd ==
    ASSUME Inv,
           \/ UNCHANGED calls
           \/ StopTasks
           \/ \E i \in DOMAIN calls : \E st \in CallStatus \ {"running"} : SetCall(i, st)
    PROVE  TasksOnlyEnd
  <1>c. calls \in Seq(CallSet)
    BY TypeSplit DEF Inv, RestTyped, CallSet
  <1>1. CASE UNCHANGED calls
    BY <1>1 DEF TasksOnlyEnd
  <1>2. CASE StopTasks
    BY <1>c, <1>2, StopTyped DEF TasksOnlyEnd
  <1>3. ASSUME NEW i \in DOMAIN calls, NEW st \in CallStatus \ {"running"}, SetCall(i, st)
        PROVE  TasksOnlyEnd
    <2>1. /\ DOMAIN calls' = DOMAIN calls
          /\ \A k \in DOMAIN calls : calls'[k].tool = calls[k].tool
          /\ \A k \in DOMAIN calls : k # i => calls'[k] = calls[k]
          /\ calls'[i].st = st
      BY <1>c, <1>3, SetCallTyped
    <2> QED BY <2>1 DEF TasksOnlyEnd
  <1> QED BY <1>1, <1>2, <1>3

\* Tasks that end leave the others as compatible as they were.
LEMMA EndOverlap ==
    ASSUME ConflictsNeverOverlap, TasksOnlyEnd
    PROVE  ConflictsNeverOverlap'
  BY DEF ConflictsNeverOverlap, TasksOnlyEnd

\* A wave that only loses calls stays without conflicts.
LEMMA ClearKept ==
    ASSUME Inv, WaveClear, TasksOnlyEnd, at \in {"tools", "outputs"},
           \A k \in wave'.lo..wave'.hi : k \in InWave
    PROVE  WaveClear'
  <1>1. \A k \in InWave : k \in DOMAIN calls
    BY AtWork DEF InWave
  <1> QED BY <1>1 DEF WaveClear, TasksOnlyEnd, InWave, Conflict

LEMMA WaveOverlap ==
    ASSUME Inv, OverlapInv,
           next_wave \/ join_wave \/ join_fails \/ append_tool_reply \/ tool_failed \/ tools_done
    PROVE  OverlapInv'
  <1>a. at \in {"tools", "outputs"}
    BY DEF next_wave, join_wave, join_fails, append_tool_reply, tool_failed, tools_done
  <1>w. wave.lo \in Nat \ {0} /\ wave.hi \in Nat /\ wave.lo <= wave.hi + 1
        /\ wave \in [lo : Nat \ {0}, hi : Nat]
    BY <1>a, AtWork DEF RestTyped
  <1>t. TasksOnlyEnd
    <2>1. CASE append_tool_reply
      <3>1. wave.lo \in DOMAIN calls
        BY <2>1, <1>a, AtWork DEF append_tool_reply, Inv, CallsInv, WaveOpen
      <3>2. "journaled" \in CallStatus \ {"running"}
        BY DEF CallStatus
      <3> QED BY <2>1, <3>1, <3>2, TasksEnd DEF append_tool_reply
    <2> QED BY <2>1, TasksEnd DEF next_wave, join_wave, join_fails, tool_failed, tools_done
  <1>o. ConflictsNeverOverlap'
    BY <1>t, EndOverlap DEF OverlapInv
  <1>1. CASE next_wave
    <2>1. PICK j \in DOMAIN calls :
            WaveEnd(wave.hi + 1, j) /\ wave' = [lo |-> wave.hi + 1, hi |-> j]
      BY <1>1 DEF next_wave
    <2>2. UNCHANGED calls
      BY <1>1 DEF next_wave
    <2>3. wave'.lo = wave.hi + 1 /\ wave'.hi = j /\ j \in Nat
      BY <1>a, <2>1, AtWork
    <2>4. ASSUME NEW k \in wave'.lo..wave'.hi, NEW m \in wave'.lo..wave'.hi, k # m
          PROVE  ~Conflict(calls[k].tool, calls[m].tool)
      <3>1. wave.hi + 1 # j
        BY <1>w, <2>3, <2>4
      <3> QED BY <2>1, <2>3, <2>4, <3>1 DEF WaveEnd, IsWave
    <2>5. WaveClear'
      BY <2>2, <2>4 DEF WaveClear, InWave, Conflict
    <2> QED BY <1>o, <2>5 DEF OverlapInv
  <1>2. CASE append_tool_reply
    <2>1. UNCHANGED wave \/ wave' = [wave EXCEPT !.lo = @ + 1]
      BY <1>2 DEF append_tool_reply
    <2>2. \A k \in wave'.lo..wave'.hi : k \in InWave
      BY <1>w, <2>1 DEF InWave
    <2> QED BY <1>a, <1>o, <1>t, <2>2, ClearKept DEF OverlapInv
  <1>3. CASE join_wave \/ join_fails \/ tool_failed \/ tools_done
    <2>1. UNCHANGED wave
      BY <1>3 DEF join_wave, join_fails, tool_failed, tools_done
    <2>2. \A k \in wave'.lo..wave'.hi : k \in InWave
      BY <2>1 DEF InWave
    <2> QED BY <1>a, <1>o, <1>t, <2>2, ClearKept DEF OverlapInv
  <1> QED BY <1>1, <1>2, <1>3

\* An invocation joins only those of its own wave.
LEMMA InvokeOverlap ==
    ASSUME Inv, OverlapInv, NEW i \in DOMAIN calls, invoke(i)
    PROVE  OverlapInv'
  <1>a. at = "tools" /\ at \in {"tools", "outputs"} /\ i \in InWave /\ UNCHANGED <<at, wave>>
    BY DEF invoke
  <1>c. /\ DOMAIN calls' = DOMAIN calls
        /\ \A k \in DOMAIN calls : calls'[k].tool = calls[k].tool
        /\ \A k \in DOMAIN calls : k # i => calls'[k] = calls[k]
        /\ calls'[i].st = "running"
    BY <1>a, AtWork, SetCallTyped DEF invoke, CallStatus
  <1>w. /\ wave.lo \in Nat /\ wave.hi \in Nat /\ Len(calls) \in Nat
        /\ DOMAIN calls = 1..Len(calls)
        /\ \A k \in InWave : k \in DOMAIN calls
    BY <1>a, AtWork DEF InWave
  <1>1. ASSUME NEW k \in DOMAIN calls, calls'[k].st = "running"
        PROVE  k \in InWave
    <2>1. CASE k = i
      BY <1>a, <2>1
    <2>2. CASE k # i
      <3>1. calls[k].st = "running"
        BY <1>1, <1>c, <2>2
      <3>2. ~(k < wave.lo) /\ ~(k > wave.hi)
        BY <1>a, <3>1, AtWork
      <3> QED BY <1>w, <3>2 DEF InWave
    <2> QED BY <2>1, <2>2
  <1>2. ASSUME NEW k \in InWave, NEW m \in InWave, k # m
        PROVE  /\ ParallelSafe(calls[k].tool) /\ ParallelSafe(calls[m].tool)
               /\ ~Conflict(calls[k].tool, calls[m].tool)
    <2>1. wave.lo < wave.hi
      BY <1>w, <1>2 DEF InWave
    <2> QED BY <1>a, <1>2, <2>1, AtWork DEF OverlapInv, WaveClear
  <1>3. ConflictsNeverOverlap'
    BY <1>c, <1>1, <1>2 DEF ConflictsNeverOverlap, Conflict
  <1>4. WaveClear'
    BY <1>a, <1>c, <1>w, <1>2 DEF WaveClear, InWave, Conflict
  <1> QED BY <1>3, <1>4 DEF OverlapInv

\* Steps outside the waves: no task begins, and a wave at work is left alone.
LEMMA QuietOverlap ==
    ASSUME Inv, OverlapInv, TasksOnlyEnd, UNCHANGED wave,
           at' \in {"tools", "outputs"} => at \in {"tools", "outputs"}
    PROVE  OverlapInv'
  <1>1. ConflictsNeverOverlap'
    BY EndOverlap DEF OverlapInv
  <1>2. WaveClear'
    <2>1. CASE at \in {"tools", "outputs"}
      BY <2>1, ClearKept DEF OverlapInv, InWave
    <2>2. CASE at' \notin {"tools", "outputs"}
      BY <2>2 DEF WaveClear
    <2> QED BY <2>1, <2>2
  <1> QED BY <1>1, <1>2 DEF OverlapInv

LEMMA ToolOverlap ==
    ASSUME Inv, OverlapInv, sampled_tools
    PROVE  OverlapInv'
  <1>a. at = "sampling" /\ UNCHANGED wave
    BY DEF sampled_tools
  <1>1. CASE at' = "tools"
    <2>1. /\ \A i \in DOMAIN calls : calls'[i] = calls[i]
          /\ \A i \in DOMAIN calls' : i \in DOMAIN calls \/ calls'[i].st = "queued"
      BY <1>1, QueuedCalls
    <2>2. ConflictsNeverOverlap'
      BY <2>1 DEF OverlapInv, ConflictsNeverOverlap
    <2>3. wave.lo = wave.hi + 1 /\ wave.hi \in Nat
      BY <1>a DEF Inv, TypeOK, CallsInv, Sampled
    <2>4. WaveClear'
      BY <1>a, <2>3 DEF WaveClear, InWave
    <2> QED BY <2>2, <2>4 DEF OverlapInv
  <1>2. CASE at' # "tools"
    <2>1. UNCHANGED calls
      BY <1>2 DEF sampled_tools
    <2>2. at' # "outputs"
      <3>1. Ends => at' # "outputs"
        BY DEF Ends, Ending
      <3>2. \A n : InvokeTools(n) => at' # "outputs"
        BY DEF InvokeTools
      <3> QED BY <3>1, <3>2, FailureEnds DEF sampled_tools
    <2> QED BY <1>a, <1>2, <2>1, <2>2, TasksEnd, QuietOverlap
  <1> QED BY <1>1, <1>2

LEMMA BeginOverlap ==
    ASSUME Inv, OverlapInv,
           \/ cancel_before_execution \/ execute_run \/ over_cap \/ load_context
           \/ start_provider \/ resume
           \/ stream_delta \/ stream_usage \/ stream_tool_call \/ sampled_answer
           \/ sampled_interrupt \/ sampling_fails
    PROVE  OverlapInv'
  <1>u. UNCHANGED <<calls, wave>>
    BY DEF cancel_before_execution, execute_run, over_cap, load_context, start_provider, resume,
           stream_delta, stream_usage, stream_tool_call, sampled_answer, sampled_interrupt,
           sampling_fails
  <1>e. Ends => at' \notin {"tools", "outputs"}
    BY DEF Ends, Ending
  <1>p. \A e : \A next \in {"context", "provider", "sampling", "interrupt"} :
           Proceed(e, next) => at' \notin {"tools", "outputs"}
    BY DEF Proceed
  <1>c. Drive(Fact("ProviderCompleted")) => at' \notin {"tools", "outputs"}
    BY DEF Drive, DriveFrom
  <1>d. \A s, e : DriveFrom(s, e) => at' \notin {"tools", "outputs"}
    BY DEF DriveFrom
  <1>1. at' \notin {"tools", "outputs"}
    <2>1. CASE cancel_before_execution \/ over_cap
      BY <1>e, <2>1, FailureEnds DEF cancel_before_execution, over_cap
    <2>2. CASE execute_run
      BY <1>p, <1>d, <2>2 DEF execute_run
    <2>3. CASE load_context \/ start_provider \/ resume
      BY <1>p, <1>e, <2>3, FailureEnds DEF load_context, start_provider, resume
    <2>4. CASE stream_delta \/ stream_usage \/ stream_tool_call
      BY <1>p, <1>e, <2>4, FailureEnds DEF stream_delta, stream_usage, stream_tool_call
    <2>5. CASE sampled_answer \/ sampled_interrupt \/ sampling_fails
      BY <1>p, <1>e, <1>c, <2>5, FailureEnds DEF sampled_answer, sampled_interrupt, sampling_fails
    <2> QED BY <2>1, <2>2, <2>3, <2>4, <2>5
  <1> QED BY <1>u, <1>1, TasksEnd, QuietOverlap

LEMMA OtherOverlap ==
    ASSUME Inv, OverlapInv,
           \/ commit_terminal \/ Control \/ revoke \/ deadline_passes \/ abort \/ UNCHANGED vars
           \/ \E i \in DOMAIN calls : tool_ends(i)
    PROVE  OverlapInv'
  <1>1. UNCHANGED wave
    BY DEF commit_terminal, Control, user_cancels, deadline_ends, lease_lost, revoke,
           deadline_passes, abort, vars, tool_ends
  <1>2. TasksOnlyEnd
    <2>1. CASE \E i \in DOMAIN calls : tool_ends(i)
      <3>1. \A st \in Finished : st \in CallStatus \ {"running"}
        BY DEF Finished, CallStatus
      <3> QED BY <2>1, <3>1, TasksEnd DEF tool_ends
    <2>2. CASE commit_terminal \/ Control \/ revoke \/ deadline_passes \/ abort \/ UNCHANGED vars
      BY <2>2, TasksEnd DEF commit_terminal, Control, user_cancels, deadline_ends, lease_lost,
         CancelledBy, revoke, deadline_passes, abort, vars
    <2> QED BY <2>1, <2>2
  <1>3. Ends => at' \notin {"tools", "outputs"}
    BY DEF Ends, Ending
  <1>4. at' = at \/ at' \notin {"tools", "outputs"}
    BY <1>3, FailureEnds DEF commit_terminal, Control, user_cancels, deadline_ends, lease_lost,
       CancelledBy, tool_interrupted, revoke, deadline_passes, abort, vars, tool_ends
  <1> QED BY <1>1, <1>2, <1>4, QuietOverlap

LEMMA InitOverlap == Init => OverlapInv
  BY DEF Init, OverlapInv, WaveClear, ConflictsNeverOverlap

LEMMA NextOverlap == Inv /\ OverlapInv /\ [Next]_vars => OverlapInv'
  BY BeginOverlap, ToolOverlap, WaveOverlap, InvokeOverlap, OtherOverlap
  DEF Next, Provider, Host, Control

-----------------------------------------------------------------------------
(* The theorems about cost and overlap. *)

LEMMA AgentBounds == Spec => []BoundInv
  BY InitBounds, NextBound, AgentInvariant, PTL DEF Spec

\* A run succeeds on a text that was streamed in its last sampling, however many
\* samplings, tool batches and interrupts came before it (current_text_seen).
THEOREM AgentAnswers == Spec => []AnswerIsCurrent
  <1>1. BoundInv => AnswerIsCurrent
    BY DEF BoundInv, MeterInv, AnswerIsCurrent
  <1> QED BY <1>1, AgentBounds, PTL

\* For every step cap the provider is invoked at most once more than the cap allows
\* tool calls, no more tools than the cap are called, and under an output cap every
\* sampling the run has gone on from, or succeeded with, has a usage row.
THEOREM AgentSamplings == Spec => []SamplingsBounded
  <1>1. Inv /\ BoundInv => SamplingsBounded
    <2> SUFFICES ASSUME Inv, BoundInv PROVE SamplingsBounded
      OBVIOUS
    <2>1. BoundedInvocations
      BY Numbers DEF BoundInv, CountInv, BoundedInvocations
    <2>2. EverySamplingMetered
      BY DEF BoundInv, MeterInv, EverySamplingMetered
    <2> QED BY <2>1, <2>2 DEF SamplingsBounded
  <1> QED BY <1>1, AgentInvariant, AgentBounds, PTL

\* For every set of tools, locks and scheduling declarations, no two invocations in
\* flight share a resource lock, and one not declared safe runs alone
\* (schedule_tool_waves, execute_tool_wave).
THEOREM AgentOverlap == Spec => []ConflictsNeverOverlap
  <1>1. OverlapInv => ConflictsNeverOverlap
    BY DEF OverlapInv
  <1> QED BY <1>1, InitOverlap, NextOverlap, AgentInvariant, PTL DEF Spec

=============================================================================

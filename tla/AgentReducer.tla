---------------------------- MODULE AgentReducer ----------------------------
(***************************************************************************)
(* The pure reducer of the built-in agent (openbot-domain/src/agent.rs):   *)
(* given the state of a run and a fact, the next state and the effect the  *)
(* host owes, or a refusal that changes nothing.                           *)
(*                                                                         *)
(* A failure is kept as far as a terminal tells it apart: provider_failed  *)
(* stands for every definite failure of the provider, the context or a     *)
(* budget.  A batch of tool calls is its length: the host only hands over  *)
(* complete calls with distinct ids.                                       *)
(***************************************************************************)
EXTENDS Integers

CONSTANT ToolStepCap   \* tool calls one run may make, TOOL_STEP_CAP = 8 in the code

ASSUME StepCapAssumption == ToolStepCap \in Nat \ {0}

TerminalPhase == {"Succeeded", "Failed", "Cancelled", "ReconciliationRequired"}

MutWorking == {"Preparing", "Sampling", "AwaitingApproval", "ExecutingTools"}

\* The phases in which a lost lease or an unknown commit is accepted.
Working == {"Preparing", "Sampling", "AwaitingApproval", "AwaitingHuman", "ExecutingTools"}

AgentPhase ==
    {"Queued", "Preparing", "Sampling", "AwaitingApproval", "AwaitingHuman",
     "ExecutingTools", "CommittingResults", "Cancelling"} \cup TerminalPhase

UnknownFailure == {"provider_commit_unknown", "runtime_lease_lost", "journal_commit_unknown"}

AgentFailure ==
    {"provider_failed", "tool_step_limit", "tool_loop_unavailable", "tool_denied"}
        \cup UnknownFailure

NoTerminal == [kind |-> "none", failure |-> "none"]
Succeeded  == [kind |-> "Succeeded", failure |-> "none"]
Cancelled  == [kind |-> "Cancelled", failure |-> "none"]
Failed(f)  == [kind |-> "Failed", failure |-> f]
ReconciliationRequired(f) == [kind |-> "ReconciliationRequired", failure |-> f]

AgentTerminal ==
    {Succeeded, Cancelled} \cup {Failed(f) : f \in AgentFailure}
        \cup {ReconciliationRequired(f) : f \in AgentFailure}

AgentState ==
    [phase : AgentPhase, tool_steps : 0..ToolStepCap,
     pending : AgentTerminal \cup {NoTerminal}]

queued == [phase |-> "Queued", tool_steps |-> 0, pending |-> NoTerminal]

\* A fact without a payload, one that carries a failure, and a batch of n calls.
Fact(type)        == [type |-> type, failure |-> "none", count |-> 0]
Failure(type, f)  == [type |-> type, failure |-> f, count |-> 0]
ToolCalls(n)      == [type |-> "ProviderToolCalls", failure |-> "none", count |-> n]

-----------------------------------------------------------------------------

failure_terminal(f) ==
    IF f \in UnknownFailure THEN ReconciliationRequired(f) ELSE Failed(f)

\* AgentInvariantViolation: the fact does not belong to the phase.
Refused(s) == [ok |-> FALSE, state |-> s, effect |-> "none"]

Step(s, phase, effect) ==
    [ok |-> TRUE, state |-> [s EXCEPT !.phase = phase], effect |-> effect]

begin_terminal(s, terminal) ==
    [ok |-> TRUE, effect |-> "CommitTerminal",
     state |-> [s EXCEPT !.phase = "CommittingResults", !.pending = terminal]]

\* The ninth call is refused before another tool is invoked.
ReduceToolCalls(s, n) ==
    IF s.tool_steps + n > ToolStepCap
    THEN begin_terminal(s, Failed("tool_step_limit"))
    ELSE [ok |-> TRUE, effect |-> "InvokeTools",
          state |-> [s EXCEPT !.phase = "ExecutingTools", !.tool_steps = @ + n]]

reduce(s, e) ==
    CASE s.phase = "Queued" /\ e.type = "DispatchActivated"
            -> Step(s, "Preparing", "LoadContext")
      [] s.phase = "Preparing" /\ e.type = "ContextPrepared"
            -> Step(s, "Sampling", "StartProvider")
      [] s.phase = "Preparing" /\ e.type = "ContextFailed"
            -> begin_terminal(s, failure_terminal(e.failure))
      [] s.phase = "Sampling" /\ e.type \in {"ProviderTextDelta", "ProviderReasoningDelta"}
            -> Step(s, "Sampling", "Persist")
      [] s.phase = "Sampling" /\ e.type = "ProviderToolCalls" /\ e.count > 0
            -> ReduceToolCalls(s, e.count)
      [] s.phase = "Sampling" /\ e.type = "ProviderCompleted"
            -> begin_terminal(s, Succeeded)
      [] s.phase = "Sampling" /\ e.type = "ProviderFailed"
            -> begin_terminal(s, failure_terminal(e.failure))
      [] s.phase = "ExecutingTools" /\ e.type = "ToolResultCommitted"
            -> Step(s, "Preparing", "LoadContext")
      [] s.phase = "ExecutingTools" /\ e.type = "ToolRuntimeUnavailable"
            -> begin_terminal(s, Failed("tool_loop_unavailable"))
      [] s.phase = "ExecutingTools" /\ e.type = "ApprovalRequired"
            -> Step(s, "AwaitingApproval", "AwaitApproval")
      [] s.phase = "AwaitingApproval" /\ e.type = "ApprovalGranted"
            -> Step(s, "ExecutingTools", "none")
      [] s.phase = "AwaitingApproval" /\ e.type = "ApprovalDenied"
            -> begin_terminal(s, Failed("tool_denied"))
      [] s.phase \in {"Sampling", "ExecutingTools"} /\ e.type = "HumanRequired"
            -> Step(s, "AwaitingHuman", "AwaitHuman")
      [] s.phase = "AwaitingHuman" /\ e.type = "HumanReleased"
            -> Step(s, "ExecutingTools", "none")
      [] s.phase = "AwaitingHuman" /\ e.type = "RemoteResumeReady"
            -> Step(s, "Preparing", "LoadContext")
      [] s.phase = "AwaitingHuman" /\ e.type = "RemoteResumeFailed"
            -> begin_terminal(s, failure_terminal(e.failure))
      [] s.phase \in Working \cup {"Queued"} /\ e.type = "CancelRequested"
            -> Step(s, "Cancelling", "CancelChildren")
      [] s.phase = "Cancelling" /\ e.type = "ChildrenStopped"
            -> begin_terminal(s, Cancelled)
      [] s.phase \in Working \cup {"Cancelling"} /\ e.type = "LeaseLost"
            -> begin_terminal(s, ReconciliationRequired("runtime_lease_lost"))
      [] s.phase \in Working \cup {"Cancelling"} /\ e.type = "JournalCommitUnknown"
            -> begin_terminal(s, ReconciliationRequired("journal_commit_unknown"))
      [] s.phase = "CommittingResults" /\ e.type = "TerminalCommitted"
            /\ s.pending # NoTerminal
            -> [ok |-> TRUE, effect |-> "none",
                state |-> [s EXCEPT !.phase = s.pending.kind, !.pending = NoTerminal]]
      [] OTHER -> Refused(s)

=============================================================================

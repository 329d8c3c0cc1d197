------------------------------ MODULE ToolCall ------------------------------
(***************************************************************************)
(* One tool call from invoke_tool to its durable outcome: the pipeline     *)
(* (openbot-application/src/tool.rs over openbot-domain/src/tool), human   *)
(* approval (openbot-infra/src/tool_approval.rs), the fenced tool journal  *)
(* (repo/tools.rs, repo/tools/fence.rs) and the vendor call of             *)
(* agent_tools.rs and mcp.rs, all for the calls of one run.                *)
(*                                                                         *)
(* Two invocations may carry the same call id (a repeated request); people *)
(* decide approvals while the invocation polls; the run ends, its history  *)
(* is closed, memberships and generations change at any step; processes    *)
(* die; a COMMIT may succeed without its acknowledgement.  Each transaction *)
(* is one step, and everything that is read outside of the one that uses   *)
(* it is a step of its own.                                                *)
(*                                                                         *)
(* An approval is named by the call it was requested for (tool_call_id is  *)
(* unique).  All calls use the same tool, arguments and target.            *)
(***************************************************************************)
EXTENDS Naturals, FiniteSets

CONSTANTS
    Calls,
    Invocations,
    Deciders,    \* requests of a person that decide an approval
    Classes,     \* approval classes a call may have
    Ttl,         \* APPROVAL_TTL
    MaxTime,     \* bound: the last instant stands for all later ones
    MaxChanges,  \* bound: changes of the world
    None

Generations == [auth : Nat, catalog : Nat, policy : Nat]

ToolCallAssumption ==
    /\ Classes \subseteq {"not_required", "every_call", "once_per_run"}
    /\ Ttl \in Nat \ {0} /\ MaxTime \in Nat /\ MaxChanges \in Nat
    /\ None \notin Calls /\ None \notin Generations

VARIABLES
    class,      \* approval class of each call
    world,      \* what the run and its actor are allowed, read by every check
    now,
    changes,
    approval,   \* public.tool_approvals
    audit,      \* terminal audit events of each approval
    call,       \* public.tool_calls
    attempt,    \* public.tool_attempts, first attempt
    inv,        \* the invocations in progress
    decider,    \* the decisions in progress
    effects     \* what happened at the vendor, per call

vars == <<class, world, now, changes, approval, audit, call, attempt, inv, decider,
          effects>>

-----------------------------------------------------------------------------

NoApproval == [state |-> "none", gens |-> None, expires |-> 0]
NoCall == [approval |-> None, gens |-> None, at |-> 0]
NoAttempt == [status |-> "none", outcome |-> "none", owner |-> None]
NoDecision == [on |-> None, verdict |-> "none"]
NoInvocation == [pc |-> "idle", call |-> None, gens |-> None, approval |-> None, why |-> "none",
                 report |-> "none", effect |-> FALSE, retried |-> FALSE, result |-> "none"]

Terminal == {"granted", "denied", "expired", "cancelled"}
Acting(c) == class[c] # "not_required"

\* The joins on runs, leases, memberships, roles and revocations.
ScopeCurrent == world.running /\ world.member

\* The same with the actor's auth generation.
AuthorizedAs(g) == ScopeCurrent /\ world.gens.auth = g.auth

Init ==
    /\ class \in [Calls -> Classes]
    /\ world = [running |-> TRUE, member |-> TRUE, open |-> TRUE,
                gens |-> [auth |-> 0, catalog |-> 0, policy |-> 0]]
    /\ now = 0
    /\ changes = 0
    /\ approval = [c \in Calls |-> NoApproval]
    /\ audit = [c \in Calls |-> {}]
    /\ call = [c \in Calls |-> NoCall]
    /\ attempt = [c \in Calls |-> NoAttempt]
    /\ inv = [i \in Invocations |-> NoInvocation]
    /\ decider = [d \in Deciders |-> NoDecision]
    /\ effects = [c \in Calls |-> 0]

At(i, pc) == inv[i].pc = pc
Goto(i, pc) == inv' = [inv EXCEPT ![i].pc = pc]
Finish(i, result) == inv' = [inv EXCEPT ![i].pc = "done", ![i].result = result]

tables == <<approval, audit, call, attempt>>
outside == <<class, world, now, changes, decider, effects>>

-----------------------------------------------------------------------------
(* invoke_tool up to the approval. *)

\* resolve_scope.
Visible(c) == ScopeCurrent /\ call[c] = NoCall

\* metadata, resolve_scope and evaluate_policy; a refusal by the policy or the
\* content preflight is audited and ends the call.
resolve(i, c) ==
    /\ At(i, "idle")
    /\ \/ /\ ~Visible(c)
          /\ inv' = [inv EXCEPT ![i].pc = "done", ![i].call = c, ![i].result = "not_visible"]
       \/ /\ Visible(c)
          /\ \/ inv' = [inv EXCEPT ![i].pc = "done", ![i].call = c, ![i].result = "refused"]
             \/ inv' = [inv EXCEPT ![i].pc = IF Acting(c) THEN "asking" ELSE "settled",
                                   ![i].call = c, ![i].gens = world.gens]
    /\ UNCHANGED <<tables, outside>>

MutReusable(a, i) ==
    /\ approval[a].state = "granted"
    /\ class[a] = "once_per_run" /\ class[inv[i].call] = "once_per_run"
    /\ approval[a].gens.catalog = inv[i].gens.catalog
    /\ approval[a].gens.policy = inv[i].gens.policy
    /\ approval[a].expires > now

\* An earlier grant of this run covers a once_per_run call with the same binding.
Reusable(a, i) ==
    /\ approval[a].state = "granted"
    /\ class[a] = "once_per_run" /\ class[inv[i].call] = "once_per_run"
    /\ approval[a].gens = inv[i].gens
    /\ approval[a].expires > now

Instant(t) == IF t > MaxTime THEN MaxTime ELSE t

\* ensure_request: reuse, or the row of the same call, or a new pending row.
ensure_request(i) ==
    LET c == inv[i].call
        a == approval[c]
        g == inv[i].gens
        reuse == {r \in Calls : Reusable(r, i)}
    IN  /\ At(i, "asking")
        /\ \/ /\ ~(AuthorizedAs(g) /\ call[c] = NoCall)
              /\ Finish(i, "not_visible")
              /\ UNCHANGED tables
           \/ /\ AuthorizedAs(g) /\ call[c] = NoCall
              /\ \E r \in reuse :
                   inv' = [inv EXCEPT ![i].pc = "granted", ![i].approval = r]
              /\ UNCHANGED tables
           \/ /\ AuthorizedAs(g) /\ call[c] = NoCall /\ reuse = {}
              /\ a # NoApproval
              /\ CASE a.gens # g -> Finish(i, "unavailable")
                   [] a.gens = g /\ a.state = "granted" ->
                        inv' = [inv EXCEPT ![i].pc = "granted", ![i].approval = c]
                   [] a.gens = g /\ a.state = "pending" -> Goto(i, "waiting")
                   [] OTHER -> Finish(i, "refused")
              /\ UNCHANGED tables
           \/ /\ AuthorizedAs(g) /\ call[c] = NoCall /\ reuse = {}
              /\ a = NoApproval
              /\ ~world.open
              /\ Finish(i, "not_visible")
              /\ UNCHANGED tables
           \/ /\ AuthorizedAs(g) /\ call[c] = NoCall /\ reuse = {}
              /\ a = NoApproval
              /\ world.open
              /\ approval' = [approval EXCEPT ![c] =
                                [state |-> "pending", gens |-> g, expires |-> Instant(now + Ttl)]]
              /\ Goto(i, "waiting") \/ Finish(i, "unknown")
              /\ UNCHANGED <<audit, call, attempt>>
        /\ UNCHANGED outside

Expired(a) == now >= approval[a].expires

\* poll, and the refusal of the call when the stored state is not a grant.
poll(i) ==
    LET c == inv[i].call
    IN  /\ At(i, "waiting")
        /\ \/ /\ approval[c].state = "granted"
              /\ inv' = [inv EXCEPT ![i].pc = "granted", ![i].approval = c]
           \/ /\ approval[c].state \in Terminal \ {"granted"}
              /\ Finish(i, "refused")
           \/ /\ approval[c].state = "pending" /\ Expired(c)
              /\ inv' = [inv EXCEPT ![i].pc = "retiring", ![i].why = "expired"]
           \/ /\ approval[c].state = "pending" /\ ~Expired(c)
              /\ ~AuthorizedAs(approval[c].gens)
              /\ inv' = [inv EXCEPT ![i].pc = "retiring", ![i].why = "cancelled"]
        /\ UNCHANGED <<tables, outside>>

\* WHERE ... AND state='pending'.
StillPending(a) == approval[a].state = "pending"

Settle(a, state) ==
    /\ approval' = [approval EXCEPT ![a].state = state]
    /\ audit' = [audit EXCEPT ![a] = @ \cup {state}]

\* retire_pending: the row may have been decided since poll read it; the call is
\* refused all the same.
retire_pending(i) ==
    LET c == inv[i].call
    IN  /\ At(i, "retiring")
        /\ IF StillPending(c) THEN Settle(c, inv[i].why) ELSE UNCHANGED <<approval, audit>>
        /\ Finish(i, "refused") \/ Finish(i, "unknown")
        /\ UNCHANGED <<call, attempt, outside>>

\* decide: visible, pending and in time ...
decide(d, a, verdict) ==
    /\ decider[d] = NoDecision
    /\ approval[a].state = "pending" /\ ~Expired(a)
    /\ AuthorizedAs(approval[a].gens)
    /\ decider' = [decider EXCEPT ![d] = [on |-> a, verdict |-> verdict]]
    /\ UNCHANGED <<class, world, now, changes, tables, inv, effects>>

\* ... and then the conditional update, which reports a conflict when it is late.
decide_commit(d) ==
    LET a == decider[d].on
    IN  /\ decider[d] # NoDecision
        /\ IF StillPending(a) THEN Settle(a, decider[d].verdict) ELSE UNCHANGED <<approval, audit>>
        /\ decider' = [decider EXCEPT ![d] = NoDecision]
        /\ UNCHANGED <<class, world, now, changes, call, attempt, inv, effects>>

\* is_still_valid of what the request was bound to.
StillValid(i) == ScopeCurrent /\ ~Expired(inv[i].approval) /\ world.gens = inv[i].gens

\* The observation is read after the grant, and the evidence settled by it.
settle_approval(i) ==
    /\ At(i, "granted")
    /\ IF StillValid(i) THEN Goto(i, "settled") ELSE Finish(i, "refused")
    /\ UNCHANGED <<tables, outside>>

-----------------------------------------------------------------------------
(* execute_after_approval: the journal, fenced by the row of the run. *)

\* tool_calls_pkey.
NewCall(c) == call[c] = NoCall

\* fence::decision and call_for_new_work.
Fence == world.running /\ world.open

\* The link requires a grant of the same binding that has not expired.
Linkable(i) ==
    LET a == inv[i].approval
    IN  Acting(inv[i].call) =>
          /\ approval[a].state = "granted"
          /\ ~Expired(a)
          /\ class[a] = class[inv[i].call]
          /\ approval[a].gens.catalog = inv[i].gens.catalog
          /\ approval[a].gens.policy = inv[i].gens.policy

record_decision(i) ==
    LET c == inv[i].call
    IN  /\ At(i, "settled")
        /\ \/ /\ Fence /\ NewCall(c) /\ Linkable(i)
              /\ call' = [call EXCEPT ![c] =
                            [approval |-> inv[i].approval, gens |-> inv[i].gens, at |-> now]]
              /\ attempt' = [attempt EXCEPT ![c] =
                               [status |-> "decision_recorded", outcome |-> "none", owner |-> i]]
              /\ Goto(i, "recorded") \/ Finish(i, "unavailable")
           \/ /\ ~(Fence /\ NewCall(c) /\ Linkable(i))
              /\ Finish(i, "unavailable")
              /\ UNCHANGED <<call, attempt>>
        /\ UNCHANGED <<approval, audit, outside>>

\* mint_capability, start and attach_capability.
attach_capability(i) ==
    LET c == inv[i].call
        ok == Fence /\ attempt[c].status = "decision_recorded" /\ attempt[c].owner = i
    IN  /\ At(i, "recorded")
        /\ \/ /\ ok
              /\ attempt' = [attempt EXCEPT ![c].status = "executing"]
              /\ Goto(i, "attached") \/ Finish(i, "unavailable")
           \/ /\ ~ok
              /\ Finish(i, "unavailable")
              /\ UNCHANGED attempt
        /\ UNCHANGED <<approval, audit, call, outside>>

Report(i, outcome) == inv' = [inv EXCEPT ![i].pc = "reported", ![i].report = outcome]

\* execute before the vendor is contacted: the catalogue and the scope once more;
\* a cancellation, the arguments or the credential may stop the call here.
execute(i) ==
    LET current == AuthorizedAs(inv[i].gens) /\ world.gens.catalog = inv[i].gens.catalog
    IN  /\ At(i, "attached")
        /\ \/ Report(i, "not_committed")
           \/ current /\ Goto(i, "calling")
        /\ UNCHANGED <<tables, outside>>

\* A 401 proves that the vendor did nothing; the bearer is refreshed once.
auth_required(i) ==
    /\ At(i, "calling")
    /\ \/ ~inv[i].retried /\ inv' = [inv EXCEPT ![i].retried = TRUE]
       \/ Report(i, "not_committed")
    /\ UNCHANGED <<tables, outside>>

\* tools/call reaches the vendor, who performs it.
vendor_acts(i) ==
    /\ At(i, "calling")
    /\ inv' = [inv EXCEPT ![i].pc = "acted", ![i].effect = Acting(inv[i].call)]
    /\ effects' = [effects EXCEPT ![inv[i].call] = IF Acting(inv[i].call) THEN @ + 1 ELSE @]
    /\ UNCHANGED <<class, world, now, changes, tables, decider>>

\* What map_call_response and execute make of the vendor's answer, of a lost one
\* and of a cancellation: an error of an acting tool proves nothing.
Outcomes(i) ==
    IF At(i, "acted")
    THEN {"committed", "unknown"} \cup (IF Acting(inv[i].call) THEN {} ELSE {"not_committed"})
    ELSE {"not_committed", "unknown"}

vendor_answers(i) ==
    /\ At(i, "calling") \/ At(i, "acted")
    /\ \E o \in Outcomes(i) : Report(i, o)
    /\ UNCHANGED <<tables, outside>>

\* Executing::record_outcome when the outcome could not be written.
Unwritten(i) == "reconciliation"

\* Executing::record_outcome after the outcome was written.
Written(o) == IF o = "unknown" THEN "reconciliation" ELSE o

Status(o) == IF o = "unknown" THEN "reconciliation_required" ELSE "completed"

\* fence::outcome: the receipt's attempt, still executing under its capability.
OwnAttempt(i) ==
    LET t == attempt[inv[i].call]
    IN  world.running /\ t.status = "executing" /\ t.owner = i

\* record_outcome: an effect that ran must still be able to record its result in a
\* closed history, but not after the run has ended.
record_outcome(i) ==
    LET c == inv[i].call
        o == inv[i].report
    IN  /\ At(i, "reported")
        /\ \/ /\ OwnAttempt(i)
              /\ attempt' = [attempt EXCEPT ![c].status = Status(o), ![c].outcome = o]
              /\ Finish(i, Written(o)) \/ Finish(i, Unwritten(i))
           \/ /\ Finish(i, Unwritten(i))
              /\ UNCHANGED attempt
        /\ UNCHANGED <<approval, audit, call, outside>>

\* A dependency fails before the journal is reached: the call ends as unavailable.
fail(i) ==
    /\ inv[i].pc \in {"asking", "waiting", "retiring", "granted", "settled", "recorded"}
    /\ Finish(i, "unavailable")
    /\ UNCHANGED <<tables, outside>>

\* The process ends.
crash(i) ==
    /\ inv[i].pc \notin {"idle", "done", "dead"}
    /\ Goto(i, "dead")
    /\ UNCHANGED <<tables, outside>>

-----------------------------------------------------------------------------
(* The world. *)

tick ==
    /\ now < MaxTime
    /\ now' = now + 1
    /\ UNCHANGED <<class, world, changes, tables, inv, decider, effects>>

\* The run ends, its history is closed, the actor loses or regains access, a
\* session is revoked, the catalogue is synchronised, the policy is replaced.
change ==
    /\ changes < MaxChanges
    /\ changes' = changes + 1
    /\ \/ world' = [world EXCEPT !.running = FALSE]
       \/ world' = [world EXCEPT !.open = FALSE]
       \/ world' = [world EXCEPT !.member = ~@]
       \/ \E k \in {"auth", "catalog", "policy"} : world' = [world EXCEPT !.gens[k] = @ + 1]
    /\ UNCHANGED <<class, now, tables, inv, decider, effects>>

Step(i) ==
    \/ \E c \in Calls : resolve(i, c)
    \/ ensure_request(i) \/ poll(i) \/ retire_pending(i) \/ settle_approval(i)
    \/ record_decision(i) \/ attach_capability(i) \/ execute(i)
    \/ auth_required(i) \/ vendor_acts(i) \/ vendor_answers(i) \/ record_outcome(i)

Next ==
    \/ \E i \in Invocations : Step(i) \/ fail(i) \/ crash(i)
    \/ \E d \in Deciders :
         \/ \E a \in Calls, v \in {"granted", "denied"} : decide(d, a, v)
         \/ decide_commit(d)
    \/ tick \/ change

Spec == Init /\ [][Next]_vars

\* The invocation is polled by the runtime (CROSS_REPLICA_POLL) and time passes.
FairSteps == {<<"tick">>} \cup ({"step"} \X Invocations)
FairStep(f) == (f[1] = "tick" /\ tick) \/ (f[1] = "step" /\ Step(f[2]))

-----------------------------------------------------------------------------
(* Properties. *)

\* The tables and the invocations; an attempt and its call are written together,
\* and an attempt awaits reconciliation exactly when its outcome is unknown.
TypeOK ==
    /\ world.gens \in Generations
    /\ \A c \in Calls :
         /\ approval[c].state \in {"none", "pending"} \cup Terminal
         /\ (attempt[c] = NoAttempt) <=> (call[c] = NoCall)
         /\ attempt[c].status \in
              {"none", "decision_recorded", "executing", "completed", "reconciliation_required"}
         /\ (attempt[c].status = "reconciliation_required") <=> (attempt[c].outcome = "unknown")
    /\ \A i \in Invocations :
         inv[i].result \in {"none", "not_visible", "refused", "unavailable", "unknown",
                            "committed", "not_committed", "reconciliation"}

\* Nothing acts at the vendor without a durable decision and capability, and an
\* acting call only under a person's grant: of exactly the generations the call
\* was resolved with, not expired when it was linked, granted for that call or
\* reusable in this run.
EffectAuthorized ==
    \A c \in Calls : effects[c] > 0 =>
        LET a == call[c].approval
        IN  /\ attempt[c].status \notin {"none", "decision_recorded"}
            /\ a # None
            /\ approval[a].state = "granted" /\ audit[a] = {"granted"}
            /\ approval[a].gens = call[c].gens
            /\ call[c].at < approval[a].expires

\* An every_call grant serves the call it was asked for and no other.
GrantServesItsCall ==
    \A c \in Calls : class[c] = "every_call" => call[c].approval \in {c, None}

\* However often a call id is submitted and wherever a process dies, the vendor
\* performs it once.
AtMostOneEffect == \A c \in Calls : effects[c] <= 1

\* The invoker is never told that nothing happened when something did, and what
\* is reported as committed is so in the journal.
OutcomeHonest ==
    \A i \in Invocations :
        /\ (inv[i].effect /\ At(i, "done")) => inv[i].result \in {"committed", "reconciliation"}
        /\ inv[i].result = "committed" => attempt[inv[i].call].outcome = "committed"

\* An approval is decided once: a person's decision, the expiry and the
\* cancellation race for the row, and the audit has the one that won.
DecidedOnce ==
    \A a \in Calls : audit[a] = IF approval[a].state \in Terminal THEN {approval[a].state} ELSE {}

\* What one tool call promises, all of the above: no effect without authority, one
\* effect per call, an honest answer and one decision.
CallSafety ==
    TypeOK /\ EffectAuthorized /\ GrantServesItsCall /\ AtMostOneEffect /\ OutcomeHonest
    /\ DecidedOnce

\* Every invocation comes to an end, also when nobody ever decides.
EveryInvocationEnds ==
    \A i \in Invocations : []<>(inv[i].pc \in {"idle", "done", "dead"})

=============================================================================

----------------------------- MODULE ToolProofs -----------------------------
(***************************************************************************)
(* Proofs about what a run uses besides its journal, for every value of    *)
(* the constants.                                                          *)
(*                                                                         *)
(* The tool call: any calls, invocations and people, any approval classes, *)
(* any lifetime of an approval and any number of changes of the world.     *)
(* The tool budget: any invocations, locks and permits.                    *)
(* Remote interrupts: what a person was told is stored is what the agent   *)
(* is resumed with, an answer is final and authorized when it is stored,   *)
(* and a run that ended holds nothing to answer, for every batch, every    *)
(* number of sessions and every order of polls, renewals, expiries, losses *)
(* and recoveries.                                                         *)
(* The meter of a run: what its row says it cost is what its usages cost,  *)
(* and a run that spent its cap asks for nothing more, for every tariff,   *)
(* cap, usage and change of the settings.                                  *)
(***************************************************************************)
EXTENDS ToolCall, ToolBudget, ProviderMeter, RemoteInterrupts, FiniteSetTheorems, TLAPS

-----------------------------------------------------------------------------
(***************************************************************************)
(* The pipeline of a tool call.                                            *)
(***************************************************************************)
(* The inductive invariant. *)

Approvals == [state : {"none", "pending"} \cup Terminal, gens : Generations \cup {None},
              expires : Nat]
CallRows == [approval : Calls \cup {None}, gens : Generations \cup {None}, at : Nat]
Attempts == [status : {"none", "decision_recorded", "executing", "completed",
                       "reconciliation_required"},
             outcome : {"none", "committed", "not_committed", "unknown"},
             owner : Invocations \cup {None}]
Decisions == [on : Calls \cup {None}, verdict : {"none", "granted", "denied"}]
Owning == {"attached", "calling", "acted", "reported"}
InFlight == {"asking", "waiting", "retiring", "granted", "settled", "recorded"} \cup Owning
Records == [pc : {"idle", "done", "dead"} \cup InFlight, call : Calls \cup {None},
            gens : Generations \cup {None}, approval : Calls \cup {None},
            why : {"none", "expired", "cancelled"},
            report : {"none", "committed", "not_committed", "unknown"},
            effect : BOOLEAN, retried : BOOLEAN,
            result : {"none", "not_visible", "refused", "unavailable", "unknown",
                      "committed", "not_committed", "reconciliation"}]

\* What the tables, the world and the invocations hold.
Typed ==
    /\ class \in [Calls -> Classes]
    /\ world \in [running : BOOLEAN, member : BOOLEAN, open : BOOLEAN, gens : Generations]
    /\ now \in Nat
    /\ approval \in [Calls -> Approvals]
    /\ audit \in [Calls -> SUBSET Terminal]
    /\ call \in [Calls -> CallRows]
    /\ attempt \in [Calls -> Attempts]
    /\ inv \in [Invocations -> Records]
    /\ decider \in [Deciders -> Decisions]
    /\ effects \in [Calls -> Nat]

\* What an invocation knows at each place.
Shape(i) ==
    /\ At(i, "idle") \/ inv[i].call \in Calls
    /\ inv[i].pc \in InFlight => inv[i].gens \in Generations
    /\ inv[i].pc \in {"asking", "waiting", "retiring", "granted"} => Acting(inv[i].call)
    /\ At(i, "retiring") => inv[i].why \in {"expired", "cancelled"}
    /\ At(i, "reported") => inv[i].report # "none"
    /\ inv[i].result # "none" => At(i, "done")

\* An effect is known to its invocation until the end.
Known(i) ==
    inv[i].effect =>
        /\ inv[i].pc \in {"acted", "reported", "done", "dead"}
        /\ Acting(inv[i].call)
        /\ At(i, "reported") => inv[i].report # "not_committed"
        /\ At(i, "done") => inv[i].result \in {"committed", "reconciliation"}

\* Whoever waits has asked for its call as it was resolved.
Asked(i) ==
    inv[i].pc \in {"waiting", "retiring"} =>
        /\ approval[inv[i].call].state # "none"
        /\ approval[inv[i].call].gens = inv[i].gens

\* The grant a call goes on with.
Holds(i) ==
    At(i, "granted") \/ (At(i, "settled") /\ Acting(inv[i].call)) =>
        /\ inv[i].approval \in Calls
        /\ approval[inv[i].approval].state = "granted"
        /\ approval[inv[i].approval].gens = inv[i].gens
        /\ class[inv[i].call] = "every_call" => inv[i].approval = inv[i].call

\* The attempt belongs to the invocation that recorded it, and nothing has
\* happened before the vendor is called.
Owns(i) ==
    /\ At(i, "recorded") =>
         attempt[inv[i].call].owner = i /\ attempt[inv[i].call].status = "decision_recorded"
    /\ inv[i].pc \in Owning =>
         attempt[inv[i].call].owner = i /\ attempt[inv[i].call].status = "executing"
    /\ inv[i].pc \in {"attached", "calling"} => effects[inv[i].call] = 0
    /\ inv[i].result = "committed" => attempt[inv[i].call].outcome = "committed"

Good(i) == Shape(i) /\ Known(i) /\ Asked(i) /\ Holds(i) /\ Owns(i)

\* A call, its attempt and its outcome are written together.
InStep(c) ==
    /\ (attempt[c].status = "none") <=> (call[c] = NoCall)
    /\ (attempt[c].status = "none") <=> (attempt[c] = NoAttempt)
    /\ attempt[c].status \in {"none", "decision_recorded", "executing"} <=>
         attempt[c].outcome = "none"
    /\ attempt[c].status = "reconciliation_required" <=> attempt[c].outcome = "unknown"

\* The link of a call that acts.
Linked(c) ==
    (attempt[c].status # "none" /\ Acting(c)) =>
        /\ call[c].approval \in Calls
        /\ approval[call[c].approval].state = "granted"
        /\ approval[call[c].approval].gens = call[c].gens
        /\ call[c].at < approval[call[c].approval].expires
        /\ class[c] = "every_call" => call[c].approval = c

\* What happened at the vendor.
Effected(c) ==
    /\ effects[c] > 0 => attempt[c].status \notin {"none", "decision_recorded"} /\ Acting(c)
    /\ effects[c] <= 1

\* An approval row, and its audit.
Decided(c) ==
    /\ approval[c].state = "none" => approval[c] = NoApproval
    /\ audit[c] = IF approval[c].state \in Terminal THEN {approval[c].state} ELSE {}

Recorded(c) == InStep(c) /\ Linked(c) /\ Effected(c)

Deciding ==
    \A d \in Deciders : decider[d] # NoDecision =>
        decider[d].on \in Calls /\ decider[d].verdict \in {"granted", "denied"}

CallInv ==
    /\ Typed
    /\ \A i \in Invocations : Good(i)
    /\ \A c \in Calls : Recorded(c) /\ Decided(c)
    /\ Deciding

-----------------------------------------------------------------------------
(* The first state and what the invariant implies. *)

LEMMA CallStart ==
    ASSUME ToolCallAssumption, Init
    PROVE  CallInv
<1>1. /\ NoApproval \in Approvals /\ NoCall \in CallRows /\ NoAttempt \in Attempts
      /\ NoDecision \in Decisions
  BY DEF NoApproval, NoCall, NoAttempt, NoDecision, Approvals, CallRows, Attempts, Decisions
<1>2. NoInvocation \in Records
  BY DEF NoInvocation, Records
<1>3. Typed
  BY <1>1, <1>2 DEF Init, Typed, Generations
<1>4. \A i \in Invocations : Good(i)
  BY DEF Init, Good, Shape, Known, Asked, Holds, Owns, At, NoInvocation, InFlight, Owning
<1>5. \A c \in Calls : Recorded(c) /\ Decided(c)
  BY DEF Init, Recorded, Decided, InStep, Linked, Effected, NoAttempt, NoCall, NoApproval, Terminal
<1>6. Deciding
  BY DEF Init, Deciding
<1> QED
  BY <1>3, <1>4, <1>5, <1>6 DEF CallInv

LEMMA CallImplies ==
    ASSUME ToolCallAssumption, CallInv
    PROVE  CallSafety
<1>1. TypeOK
  BY DEF TypeOK, CallInv, Typed, Approvals, Attempts, Records, Recorded, InStep
<1>2. EffectAuthorized
  BY DEF EffectAuthorized, CallInv, Typed, Recorded, Effected, Linked, Decided, InStep, Attempts,
         Terminal, ToolCallAssumption
<1>3. GrantServesItsCall
  BY DEF GrantServesItsCall, CallInv, Recorded, InStep, Linked, Acting, NoCall
<1>4. AtMostOneEffect
  BY DEF AtMostOneEffect, CallInv, Recorded, Effected
<1>5. OutcomeHonest
  BY DEF OutcomeHonest, CallInv, Good, Known, Owns
<1>6. DecidedOnce
  BY DEF DecidedOnce, CallInv, Decided
<1> QED
  BY <1>1, <1>2, <1>3, <1>4, <1>5, <1>6 DEF CallSafety

-----------------------------------------------------------------------------
(* What a step leaves alone. *)

\* A row that exists keeps its binding, and a grant stays one.
Grows ==
    \A a \in Calls : approval[a].state # "none" =>
        /\ approval'[a].state # "none"
        /\ approval'[a].gens = approval[a].gens
        /\ approval'[a].expires = approval[a].expires
        /\ approval[a].state = "granted" => approval'[a].state = "granted"

\* An invocation that does not move keeps what it knows.
LEMMA OthersKeep ==
    ASSUME NEW j \in Invocations, inv'[j] = inv[j], class' = class, Good(j), Grows, Owns(j)'
    PROVE  Good(j)'
<1>1. Shape(j)' /\ Known(j)'
  BY DEF Good, Shape, Known, At, Acting
<1>2. Asked(j)'
  BY DEF Good, Shape, Asked, Grows, At
<1>3. Holds(j)'
  BY DEF Good, Holds, Grows, At, Acting
<1> QED
  BY <1>1, <1>2, <1>3 DEF Good

\* A step that moves one invocation and writes nothing else.
LEMMA MoveKeeps ==
    ASSUME CallInv, NEW i \in Invocations, UNCHANGED <<tables, outside>>,
           inv' \in [Invocations -> Records],
           \A j \in Invocations \ {i} : inv'[j] = inv[j],
           Good(i)'
    PROVE  CallInv'
<1>1. /\ class' = class /\ world' = world /\ now' = now /\ approval' = approval
      /\ audit' = audit /\ call' = call /\ attempt' = attempt /\ decider' = decider
      /\ effects' = effects
  BY DEF tables, outside
<1>2. Typed'
  BY <1>1 DEF CallInv, Typed
<1>3. \A j \in Invocations : Good(j)'
  <2> SUFFICES ASSUME NEW j \in Invocations, j # i PROVE Good(j)'
    OBVIOUS
  <2>1. Owns(j)'
    BY <1>1 DEF CallInv, Good, Owns, At
  <2> QED
    BY <1>1, <2>1, OthersKeep DEF CallInv, Grows
<1>4. \A c \in Calls : (Recorded(c) /\ Decided(c))'
  BY <1>1 DEF CallInv, Recorded, Decided, InStep, Linked, Effected, Acting
<1>5. Deciding'
  BY <1>1 DEF CallInv, Deciding
<1> QED
  BY <1>2, <1>3, <1>4, <1>5 DEF CallInv

\* A step that writes approvals, by an invocation or by a decider.
LEMMA ApprovalKeeps ==
    ASSUME CallInv, UNCHANGED <<class, world, now, call, attempt, effects>>,
           approval' \in [Calls -> Approvals], audit' \in [Calls -> SUBSET Terminal],
           Grows, \A c \in Calls : Decided(c)'
    PROVE  /\ \A c \in Calls : (Recorded(c) /\ Decided(c))'
           /\ \A j \in Invocations : inv'[j] = inv[j] => Good(j)'
<1>1. \A c \in Calls : Recorded(c)'
  BY DEF CallInv, Recorded, InStep, Linked, Effected, Acting, Grows
<1>2. ASSUME NEW j \in Invocations, inv'[j] = inv[j] PROVE Good(j)'
  <2>1. Owns(j)'
    BY <1>2 DEF CallInv, Good, Owns, At
  <2> QED
    BY <1>2, <2>1, OthersKeep DEF CallInv
<1> QED
  BY <1>1, <1>2

\* What is not decided is not audited.
LEMMA NoAudit ==
    ASSUME CallInv, NEW a \in Calls, approval[a].state \notin Terminal
    PROVE  audit[a] = {}
BY DEF CallInv, Decided

\* A pending row is settled, once.
LEMMA SettleKeeps ==
    ASSUME CallInv, NEW a \in Calls, NEW s \in Terminal, StillPending(a), Settle(a, s)
    PROVE  /\ approval' \in [Calls -> Approvals] /\ audit' \in [Calls -> SUBSET Terminal]
           /\ Grows /\ \A c \in Calls : Decided(c)'
<1>1. approval' \in [Calls -> Approvals] /\ audit' \in [Calls -> SUBSET Terminal]
  BY DEF CallInv, Typed, Settle, Approvals, Terminal
<1>2. Grows
  BY DEF CallInv, Typed, Settle, StillPending, Grows, Approvals, Terminal
<1>3. ASSUME NEW c \in Calls PROVE Decided(c)'
  <2>1. CASE c = a
    <3>1. audit[a] = {}
      BY NoAudit DEF StillPending, Terminal
    <3>2. audit'[a] = {s} /\ approval'[a].state = s /\ s # "none"
      BY <3>1 DEF CallInv, Typed, Settle, Terminal, Approvals
    <3> QED
      BY <2>1, <3>2 DEF Decided
  <2>2. CASE c # a
    BY <2>2 DEF CallInv, Typed, Settle, Decided
  <2> QED
    BY <2>1, <2>2
<1> QED
  BY <1>1, <1>2, <1>3

-----------------------------------------------------------------------------
(* The steps that only move an invocation. *)

\* The assignments an action makes to its invocation.
Results == {"none", "not_visible", "refused", "unavailable", "unknown", "committed",
            "not_committed", "reconciliation"}
Updates(r) ==
    /\ \A p \in {"idle", "done", "dead"} \cup InFlight : [r EXCEPT !.pc = p] \in Records
    /\ \A s \in Results : [r EXCEPT !.pc = "done", !.result = s] \in Records
    /\ \A a \in Calls : [r EXCEPT !.pc = "granted", !.approval = a] \in Records
    /\ \A w \in {"expired", "cancelled"} : [r EXCEPT !.pc = "retiring", !.why = w] \in Records
    /\ \A o \in {"committed", "not_committed", "unknown"} :
         [r EXCEPT !.pc = "reported", !.report = o] \in Records
    /\ \A b \in BOOLEAN : [r EXCEPT !.pc = "acted", !.effect = b] \in Records
    /\ [r EXCEPT !.retried = TRUE] \in Records

\* One invocation moves.
Moved(i) ==
    inv' \in [Invocations -> Records] /\ \A j \in Invocations \ {i} : inv'[j] = inv[j]

LEMMA Updated ==
    ASSUME NEW r \in Records
    PROVE  Updates(r)
<1>1. \A p \in {"idle", "done", "dead"} \cup InFlight : [r EXCEPT !.pc = p] \in Records
  BY DEF Records
<1>2. \A s \in Results : [r EXCEPT !.pc = "done", !.result = s] \in Records
  BY DEF Records, Results
<1>3. \A a \in Calls : [r EXCEPT !.pc = "granted", !.approval = a] \in Records
  BY DEF Records, InFlight
<1>4. \A w \in {"expired", "cancelled"} : [r EXCEPT !.pc = "retiring", !.why = w] \in Records
  BY DEF Records, InFlight
<1>5. \A o \in {"committed", "not_committed", "unknown"} :
        [r EXCEPT !.pc = "reported", !.report = o] \in Records
  BY DEF Records, InFlight, Owning
<1>6. \A b \in BOOLEAN : [r EXCEPT !.pc = "acted", !.effect = b] \in Records
  BY DEF Records, InFlight, Owning
<1>7. [r EXCEPT !.retried = TRUE] \in Records
  BY DEF Records
<1> QED
  BY <1>1, <1>2, <1>3, <1>4, <1>5, <1>6, <1>7 DEF Updates

\* An invocation that ends without an effect.
LEMMA Finishes ==
    ASSUME CallInv, NEW i \in Invocations, NEW s, Finish(i, s),
           s \in {"not_visible", "refused", "unavailable", "unknown"},
           inv[i].pc \in InFlight \ {"acted", "reported"}
    PROVE  Moved(i) /\ Good(i)'
<1>0. Moved(i)
  BY Updated DEF CallInv, Typed, Updates, Results, Finish, Moved
<1>1. /\ inv'[i].pc = "done" /\ inv'[i].result = s
      /\ inv'[i].call = inv[i].call /\ inv'[i].effect = inv[i].effect
  BY DEF CallInv, Typed, Records, Finish
<1>2. inv[i].effect = FALSE /\ inv[i].call \in Calls
  <2>1. inv[i].effect \in BOOLEAN /\ ~inv[i].effect
    BY DEF CallInv, Typed, Records, Good, Known, InFlight, Owning
  <2> QED
    BY <2>1 DEF CallInv, Good, Shape, At, InFlight, Owning
<1> QED
  BY <1>0, <1>1, <1>2 DEF Good, Shape, Known, Asked, Holds, Owns, At, InFlight, Owning

\* resolve binds the call to the generations of this moment.
LEMMA ResolveKeeps ==
    ASSUME CallInv, NEW i \in Invocations, NEW c \in Calls, resolve(i, c)
    PROVE  CallInv'
<1>0. Moved(i)
  <2>1. inv' \in [Invocations -> Records]
    BY DEF CallInv, Typed, Records, resolve, InFlight
  <2> QED
    BY <2>1 DEF CallInv, Typed, Moved, resolve
<1>1. /\ inv'[i].call = c /\ inv'[i].effect = inv[i].effect
      /\ \/ inv'[i].pc = "done" /\ inv'[i].result \in {"not_visible", "refused"}
         \/ /\ inv'[i].pc = IF Acting(c) THEN "asking" ELSE "settled"
            /\ inv'[i].gens = world.gens /\ inv'[i].result = inv[i].result
  BY DEF CallInv, Typed, Records, resolve
<1>2. ~inv[i].effect /\ inv[i].result = "none" /\ class' = class
  BY DEF CallInv, Good, Shape, Known, At, resolve, outside
<1>3. Good(i)'
  BY <1>1, <1>2 DEF CallInv, Typed, Good, Shape, Known, Asked, Holds, Owns, At, InFlight, Owning, Acting
<1> QED
  BY <1>0, <1>3, MoveKeeps DEF Moved, resolve

\* poll goes on with the grant of its own call.
LEMMA PollKeeps ==
    ASSUME CallInv, NEW i \in Invocations, poll(i)
    PROVE  CallInv'
<1> DEFINE c == inv[i].call
<1>1. /\ c \in Calls /\ inv[i].gens \in Generations /\ Acting(c) /\ ~inv[i].effect
      /\ inv[i].result = "none" /\ approval[c].gens = inv[i].gens
  BY DEF CallInv, Good, Shape, Known, Asked, At, poll, InFlight
<1>2. UNCHANGED <<tables, outside>> /\ class' = class /\ approval' = approval
  BY DEF poll, tables, outside
<1>3. CASE Finish(i, "refused")
  BY <1>2, <1>3, Finishes, MoveKeeps DEF Moved, poll, At, InFlight
<1>4. CASE approval[c].state = "granted"
           /\ inv' = [inv EXCEPT ![i].pc = "granted", ![i].approval = c]
  <2>0. Moved(i)
    BY <1>1, <1>4, Updated DEF CallInv, Typed, InFlight, Updates, Moved
  <2>1. /\ inv'[i].call = c /\ inv'[i].gens = inv[i].gens
        /\ inv'[i].effect = inv[i].effect /\ inv'[i].result = inv[i].result
        /\ inv'[i].pc = "granted" /\ inv'[i].approval = c
    BY <1>1, <1>4 DEF CallInv, Typed, Records, InFlight
  <2>2. Good(i)'
    BY <1>1, <1>2, <1>4, <2>1 DEF Good, Shape, Known, Asked, Holds, Owns, At, InFlight, Owning, Acting
  <2> QED
    BY <1>2, <2>0, <2>2, MoveKeeps DEF Moved
<1>5. ASSUME NEW w \in {"expired", "cancelled"},
             inv' = [inv EXCEPT ![i].pc = "retiring", ![i].why = w]
      PROVE  CallInv'
  <2>0. Moved(i)
    BY <1>1, <1>5, Updated DEF CallInv, Typed, InFlight, Updates, Moved
  <2>1. /\ inv'[i].call = c /\ inv'[i].gens = inv[i].gens
        /\ inv'[i].effect = inv[i].effect /\ inv'[i].result = inv[i].result
        /\ inv'[i].pc = "retiring" /\ inv'[i].why = w
    BY <1>1, <1>5 DEF CallInv, Typed, Records, InFlight
  <2>2. approval[c].state # "none"
    BY DEF CallInv, Good, Asked, At, poll
  <2>3. Good(i)'
    BY <1>1, <1>2, <2>1, <2>2
    DEF Good, Shape, Known, Asked, Holds, Owns, At, InFlight, Owning, Acting
  <2> QED
    BY <1>2, <2>0, <2>3, MoveKeeps DEF Moved
<1> QED
  BY <1>3, <1>4, <1>5 DEF poll

LEMMA SettleApprovalKeeps ==
    ASSUME CallInv, NEW i \in Invocations, settle_approval(i)
    PROVE  CallInv'
<1>1. UNCHANGED <<tables, outside>> /\ class' = class /\ approval' = approval
  BY DEF settle_approval, tables, outside
<1>2. CASE Finish(i, "refused")
  BY <1>1, <1>2, Finishes, MoveKeeps DEF Moved, settle_approval, At, InFlight
<1>3. CASE Goto(i, "settled")
  <2>0. Moved(i)
    BY <1>3, Updated DEF CallInv, Typed, InFlight, Goto, Updates, Moved
  <2>1. /\ inv'[i].call = inv[i].call
        /\ inv'[i].gens = inv[i].gens /\ inv'[i].approval = inv[i].approval
        /\ inv'[i].effect = inv[i].effect /\ inv'[i].result = inv[i].result
        /\ inv'[i].pc = "settled"
    BY <1>3 DEF CallInv, Typed, Records, InFlight, Goto
  <2>2. Good(i)'
    BY <1>1, <2>1
    DEF CallInv, Good, Shape, Known, Asked, Holds, Owns, At, InFlight, Owning, Acting, settle_approval
  <2> QED
    BY <1>1, <2>0, <2>2, MoveKeeps DEF Moved
<1> QED
  BY <1>2, <1>3 DEF settle_approval

\* The vendor is called, or the call is reported before it is.
LEMMA ExecuteKeeps ==
    ASSUME CallInv, NEW i \in Invocations, execute(i) \/ auth_required(i) \/ vendor_answers(i)
    PROVE  CallInv'
<1>1. UNCHANGED <<tables, outside>> /\ class' = class /\ attempt' = attempt /\ effects' = effects
  BY DEF execute, auth_required, vendor_answers, tables, outside
<1>2. /\ inv[i].call \in Calls /\ inv[i].gens \in Generations /\ inv[i].result = "none"
      /\ attempt[inv[i].call].owner = i /\ attempt[inv[i].call].status = "executing"
      /\ inv[i].pc \in {"attached", "calling"} => effects[inv[i].call] = 0 /\ ~inv[i].effect
      /\ inv[i].effect => Acting(inv[i].call)
  BY DEF CallInv, Good, Shape, Known, Owns, At, InFlight, Owning, execute, auth_required, vendor_answers
<1>3. ASSUME NEW o \in {"committed", "not_committed", "unknown"}, Report(i, o),
             inv[i].effect => o # "not_committed"
      PROVE  CallInv'
  <2>0. Moved(i)
    BY <1>3, Updated DEF CallInv, Typed, InFlight, Owning, Report, Updates, Moved
  <2>1. /\ inv'[i].call = inv[i].call
        /\ inv'[i].gens = inv[i].gens /\ inv'[i].pc = "reported" /\ inv'[i].report = o
        /\ inv'[i].effect = inv[i].effect /\ inv'[i].result = inv[i].result
    BY <1>3 DEF CallInv, Typed, Records, InFlight, Owning, Report
  <2>2. Good(i)'
    BY <1>1, <1>2, <1>3, <2>1
    DEF Good, Shape, Known, Asked, Holds, Owns, At, InFlight, Owning, Acting
  <2> QED
    BY <1>1, <2>0, <2>2, MoveKeeps DEF Moved
<1>4. ASSUME inv[i].pc \in {"attached", "calling"}, Moved(i),
             inv'[i].call = inv[i].call, inv'[i].gens = inv[i].gens, inv'[i].pc = "calling",
             inv'[i].effect = inv[i].effect, inv'[i].result = inv[i].result
      PROVE  CallInv'
  <2>1. Good(i)'
    BY <1>1, <1>2, <1>4
    DEF Good, Shape, Known, Asked, Holds, Owns, At, InFlight, Owning, Acting
  <2> QED
    BY <1>1, <1>4, <2>1, MoveKeeps DEF Moved
<1>5. CASE execute(i)
  <2>1. inv[i].pc = "attached"
    BY <1>5 DEF execute, At
  <2>2. CASE Report(i, "not_committed")
    BY <1>2, <1>3, <2>1, <2>2
  <2>3. CASE Goto(i, "calling")
    <3>1. Moved(i)
      BY <2>3, Updated DEF CallInv, Typed, InFlight, Owning, Goto, Updates, Moved
    <3>2. /\ inv'[i].call = inv[i].call /\ inv'[i].gens = inv[i].gens
          /\ inv'[i].pc = "calling" /\ inv'[i].effect = inv[i].effect
          /\ inv'[i].result = inv[i].result
      BY <2>3 DEF CallInv, Typed, Records, Goto
    <3> QED
      BY <1>4, <2>1, <3>1, <3>2
  <2> QED
    BY <1>5, <2>2, <2>3 DEF execute
<1>6. CASE auth_required(i)
  <2>1. inv[i].pc = "calling"
    BY <1>6 DEF auth_required, At
  <2>2. CASE Report(i, "not_committed")
    BY <1>2, <1>3, <2>1, <2>2
  <2>3. CASE inv' = [inv EXCEPT ![i].retried = TRUE]
    <3>1. Moved(i)
      BY <2>3, Updated DEF CallInv, Typed, Updates, Moved
    <3>2. /\ inv'[i].call = inv[i].call /\ inv'[i].gens = inv[i].gens
          /\ inv'[i].pc = "calling" /\ inv'[i].effect = inv[i].effect
          /\ inv'[i].result = inv[i].result
      BY <2>1, <2>3 DEF CallInv, Typed, Records
    <3> QED
      BY <1>4, <2>1, <3>1, <3>2
  <2> QED
    BY <1>6, <2>2, <2>3 DEF auth_required
<1>7. CASE vendor_answers(i)
  <2> PICK o \in Outcomes(i) : Report(i, o)
    BY <1>7 DEF vendor_answers
  <2>1. o \in {"committed", "not_committed", "unknown"}
    BY DEF Outcomes
  <2>2. inv[i].effect => o # "not_committed"
    BY <1>2, <1>7 DEF Outcomes, vendor_answers, At, CallInv, Good, Known
  <2> QED
    BY <1>3, <2>1, <2>2
<1> QED
  BY <1>5, <1>6, <1>7

LEMMA FailKeeps ==
    ASSUME CallInv, NEW i \in Invocations, fail(i)
    PROVE  CallInv'
BY Finishes, MoveKeeps DEF Moved, fail, InFlight, Owning

LEMMA CrashKeeps ==
    ASSUME CallInv, NEW i \in Invocations, crash(i)
    PROVE  CallInv'
<1>0. Moved(i)
  BY Updated DEF CallInv, Typed, InFlight, Owning, Goto, crash, Updates, Moved
<1>1. /\ inv'[i].call = inv[i].call
      /\ inv'[i].pc = "dead" /\ inv'[i].result = inv[i].result
      /\ inv'[i].effect = inv[i].effect
  BY DEF CallInv, Typed, Records, InFlight, Owning, Goto, crash
<1>2. /\ inv[i].result = "none" /\ inv[i].call \in Calls /\ class' = class
      /\ inv[i].effect => Acting(inv[i].call)
  BY DEF CallInv, Good, Shape, Known, At, crash, outside
<1>3. Good(i)'
  BY <1>1, <1>2 DEF Good, Shape, Known, Asked, Holds, Owns, At, InFlight, Owning, Acting
<1> QED
  BY <1>0, <1>1, <1>3, MoveKeeps DEF Moved, crash

-----------------------------------------------------------------------------
(* The steps that write approvals. *)

\* Reuse, the row of the same call, or a new pending row.
LEMMA RequestKeeps ==
    ASSUME ToolCallAssumption, CallInv, NEW i \in Invocations, ensure_request(i)
    PROVE  CallInv'
<1> DEFINE c == inv[i].call
           g == inv[i].gens
<1>1. /\ c \in Calls /\ g \in Generations /\ Acting(c) /\ ~inv[i].effect
      /\ inv[i].result = "none" /\ inv[i].pc \in InFlight \ {"acted", "reported"}
  BY DEF CallInv, Good, Shape, Known, At, ensure_request, InFlight, Owning
<1>2. /\ class' = class /\ world' = world /\ now' = now /\ decider' = decider
      /\ effects' = effects /\ UNCHANGED outside
  BY DEF ensure_request, outside
<1>3. ASSUME NEW s \in {"not_visible", "refused", "unavailable", "unknown"}, Finish(i, s),
             UNCHANGED tables
      PROVE  CallInv'
  BY <1>1, <1>2, <1>3, Finishes, MoveKeeps DEF Moved
<1>4. ASSUME NEW r \in Calls, inv' = [inv EXCEPT ![i].pc = "granted", ![i].approval = r],
             approval[r].state = "granted", approval[r].gens = g,
             class[c] = "every_call" => r = c, UNCHANGED tables
      PROVE  CallInv'
  <2>1. Moved(i)
    BY <1>4, Updated DEF CallInv, Typed, Updates, Moved
  <2>2. /\ inv'[i].call = c /\ inv'[i].gens = g /\ inv'[i].effect = inv[i].effect
        /\ inv'[i].result = inv[i].result /\ inv'[i].pc = "granted" /\ inv'[i].approval = r
    BY <1>4 DEF CallInv, Typed, Records
  <2>3. approval' = approval
    BY <1>4 DEF tables
  <2>4. Good(i)'
    BY <1>1, <1>2, <1>4, <2>2, <2>3
    DEF Good, Shape, Known, Asked, Holds, Owns, At, InFlight, Owning, Acting
  <2> QED
    BY <1>2, <1>4, <2>1, <2>4, MoveKeeps DEF Moved
<1>5. ASSUME Goto(i, "waiting"), approval'[c].state # "none", approval'[c].gens = g
      PROVE  Moved(i) /\ Good(i)'
  <2>1. Moved(i)
    BY <1>5, Updated DEF CallInv, Typed, Updates, Moved, Goto, InFlight
  <2>2. /\ inv'[i].call = c /\ inv'[i].gens = g /\ inv'[i].effect = inv[i].effect
        /\ inv'[i].result = inv[i].result /\ inv'[i].pc = "waiting"
    BY <1>5 DEF CallInv, Typed, Records, Goto
  <2>3. Good(i)'
    BY <1>1, <1>2, <1>5, <2>2 DEF Good, Shape, Known, Asked, Holds, Owns, At, InFlight, Owning, Acting
  <2> QED
    BY <2>1, <2>3
<1>6. CASE \E r \in Calls : /\ Reusable(r, i) /\ UNCHANGED tables
                            /\ inv' = [inv EXCEPT ![i].pc = "granted", ![i].approval = r]
  BY <1>1, <1>4, <1>6 DEF Reusable
<1>7. ASSUME approval[c] # NoApproval, UNCHANGED tables,
             CASE approval[c].gens # g -> Finish(i, "unavailable")
               [] approval[c].gens = g /\ approval[c].state = "granted" ->
                    inv' = [inv EXCEPT ![i].pc = "granted", ![i].approval = c]
               [] approval[c].gens = g /\ approval[c].state = "pending" -> Goto(i, "waiting")
               [] OTHER -> Finish(i, "refused")
      PROVE  CallInv'
  <2>1. CASE Finish(i, "unavailable") \/ Finish(i, "refused")
    BY <1>3, <1>7, <2>1
  <2>2. CASE approval[c].gens = g /\ approval[c].state = "granted"
    BY <1>1, <1>4, <1>7, <2>2
  <2>3. CASE approval[c].gens = g /\ approval[c].state = "pending" /\ Goto(i, "waiting")
    <3>1. approval' = approval
      BY <1>7 DEF tables
    <3> QED
      BY <1>2, <1>5, <1>7, <2>3, <3>1, MoveKeeps DEF Moved
  <2> QED
    BY <1>7, <2>1, <2>2, <2>3
<1>8. ASSUME approval[c] = NoApproval, UNCHANGED <<audit, call, attempt>>,
             approval' = [approval EXCEPT ![c] =
                            [state |-> "pending", gens |-> g, expires |-> Instant(now + Ttl)]],
             Goto(i, "waiting") \/ Finish(i, "unknown")
      PROVE  CallInv'
  <2>1. Instant(now + Ttl) \in Nat
    BY DEF CallInv, Typed, Instant, ToolCallAssumption
  <2>2. approval' \in [Calls -> Approvals]
    BY <1>1, <1>8, <2>1 DEF CallInv, Typed, Approvals
  <2>3. Grows
    BY <1>1, <1>8 DEF CallInv, Typed, Grows, NoApproval
  <2>4. ASSUME NEW x \in Calls PROVE Decided(x)'
    <3>1. audit' = audit
      BY <1>8
    <3>2. CASE x = c
      <4>1. audit[x] = {}
        BY <1>8, <3>2, NoAudit DEF NoApproval, Terminal
      <4>2. approval'[x].state = "pending"
        BY <1>1, <1>8, <3>2 DEF CallInv, Typed
      <4> QED
        BY <3>1, <4>1, <4>2 DEF Decided, Terminal
    <3>3. CASE x # c
      <4>1. approval'[x] = approval[x]
        BY <1>1, <1>8, <3>3 DEF CallInv, Typed
      <4> QED
        BY <3>1, <4>1 DEF CallInv, Decided
    <3> QED
      BY <3>2, <3>3
  <2>5. /\ \A x \in Calls : (Recorded(x) /\ Decided(x))'
        /\ \A j \in Invocations : inv'[j] = inv[j] => Good(j)'
    <3>1. audit' \in [Calls -> SUBSET Terminal]
      BY <1>8 DEF CallInv, Typed
    <3> QED
      BY <1>2, <1>8, <2>2, <2>3, <2>4, <3>1, ApprovalKeeps
  <2>6. Moved(i) /\ Good(i)'
    <3>1. approval'[c].state # "none" /\ approval'[c].gens = g
      BY <1>1, <1>8 DEF CallInv, Typed
    <3> QED
      BY <1>1, <1>5, <1>8, <3>1, Finishes
  <2>7. Typed'
    BY <1>2, <1>8, <2>2, <2>6 DEF CallInv, Typed, Moved
  <2>8. \A j \in Invocations : Good(j)'
    BY <2>5, <2>6 DEF Moved
  <2>9. Deciding'
    BY <1>2 DEF CallInv, Deciding
  <2> QED
    BY <2>5, <2>7, <2>8, <2>9 DEF CallInv
<1> QED
  BY <1>3, <1>6, <1>7, <1>8 DEF ensure_request

\* A row that is decided is written by whoever found it pending.
LEMMA RetireKeeps ==
    ASSUME CallInv, NEW i \in Invocations, retire_pending(i)
    PROVE  CallInv'
<1> DEFINE c == inv[i].call
<1>1. /\ c \in Calls /\ inv[i].why \in Terminal /\ inv[i].pc \in InFlight \ {"acted", "reported"}
  BY DEF CallInv, Good, Shape, At, retire_pending, InFlight, Owning, Terminal
<1>2. /\ class' = class /\ world' = world /\ now' = now /\ decider' = decider
      /\ effects' = effects /\ call' = call /\ attempt' = attempt
  BY DEF retire_pending, outside
<1>3. Moved(i) /\ Good(i)'
  BY <1>1, Finishes DEF retire_pending
<1>4. /\ approval' \in [Calls -> Approvals] /\ audit' \in [Calls -> SUBSET Terminal]
      /\ Grows /\ \A x \in Calls : Decided(x)'
  <2>1. CASE StillPending(c)
    BY <1>1, <2>1, SettleKeeps DEF retire_pending
  <2>2. CASE ~StillPending(c)
    BY <2>2 DEF CallInv, Typed, retire_pending, Grows, Decided
  <2> QED
    BY <2>1, <2>2
<1>5. /\ \A x \in Calls : (Recorded(x) /\ Decided(x))'
      /\ \A j \in Invocations : inv'[j] = inv[j] => Good(j)'
  BY <1>2, <1>4, ApprovalKeeps
<1>6. Typed'
  BY <1>2, <1>3, <1>4 DEF CallInv, Typed, Moved
<1>7. Deciding'
  BY <1>2 DEF CallInv, Deciding
<1> QED
  BY <1>3, <1>5, <1>6, <1>7 DEF CallInv, Moved

LEMMA DecideKeeps ==
    ASSUME CallInv, NEW d \in Deciders, NEW a \in Calls, NEW v \in {"granted", "denied"},
           decide(d, a, v)
    PROVE  CallInv'
<1>1. /\ class' = class /\ world' = world /\ now' = now /\ approval' = approval
      /\ audit' = audit /\ call' = call /\ attempt' = attempt /\ inv' = inv
      /\ effects' = effects
  BY DEF decide, tables
<1>2. Typed'
  BY <1>1 DEF CallInv, Typed, decide, Decisions
<1>3. \A j \in Invocations : Good(j)'
  BY <1>1 DEF CallInv, Good, Shape, Known, Asked, Holds, Owns, At, Acting
<1>4. \A c \in Calls : (Recorded(c) /\ Decided(c))'
  BY <1>1 DEF CallInv, Recorded, Decided, InStep, Linked, Effected, Acting
<1>5. Deciding'
  BY DEF CallInv, Typed, Deciding, decide
<1> QED
  BY <1>2, <1>3, <1>4, <1>5 DEF CallInv

LEMMA DecideCommitKeeps ==
    ASSUME CallInv, NEW d \in Deciders, decide_commit(d)
    PROVE  CallInv'
<1> DEFINE a == decider[d].on
<1>1. a \in Calls /\ decider[d].verdict \in Terminal
  BY DEF CallInv, Deciding, decide_commit, Terminal
<1>2. /\ class' = class /\ world' = world /\ now' = now /\ inv' = inv
      /\ effects' = effects /\ call' = call /\ attempt' = attempt
  BY DEF decide_commit
<1>3. /\ approval' \in [Calls -> Approvals] /\ audit' \in [Calls -> SUBSET Terminal]
      /\ Grows /\ \A x \in Calls : Decided(x)'
  <2>1. CASE StillPending(a)
    BY <1>1, <2>1, SettleKeeps DEF decide_commit
  <2>2. CASE ~StillPending(a)
    BY <2>2 DEF CallInv, Typed, decide_commit, Grows, Decided
  <2> QED
    BY <2>1, <2>2
<1>4. /\ \A x \in Calls : (Recorded(x) /\ Decided(x))'
      /\ \A j \in Invocations : Good(j)'
  BY <1>2, <1>3, ApprovalKeeps
<1>5. decider' \in [Deciders -> Decisions] /\ Deciding'
  BY DEF CallInv, Typed, Deciding, decide_commit, NoDecision, Decisions
<1>6. Typed'
  BY <1>2, <1>3, <1>5 DEF CallInv, Typed
<1> QED
  BY <1>4, <1>5, <1>6 DEF CallInv

-----------------------------------------------------------------------------
(* The steps that write the journal or reach the vendor. *)

\* A step of one invocation that writes the rows of its call: everybody else keeps
\* what it knows, because nobody else owns the attempt or has seen its outcome.
LEMMA JournalKeeps ==
    ASSUME CallInv, NEW i \in Invocations, Moved(i), Good(i)', NEW c \in Calls,
           UNCHANGED <<class, world, now, approval, audit, decider>>,
           call' \in [Calls -> CallRows], attempt' \in [Calls -> Attempts],
           effects' \in [Calls -> Nat],
           \A x \in Calls \ {c} :
               call'[x] = call[x] /\ attempt'[x] = attempt[x] /\ effects'[x] = effects[x],
           attempt[c].status = "none" \/ attempt[c].owner = i,
           attempt[c].outcome = "none",
           \A x \in Calls : x = c => Recorded(x)'
    PROVE  CallInv'
<1>1. Typed'
  BY DEF CallInv, Typed, Moved
<1>2. ASSUME NEW j \in Invocations, j # i PROVE Good(j)'
  <2>1. inv'[j] = inv[j]
    BY <1>2 DEF Moved
  <2>2. Owns(j) /\ Shape(j) /\ Good(j)
    BY DEF CallInv, Good
  <2>3. CASE inv[j].call = c
    <3>1. Owns(j)'
      BY <1>2, <2>1, <2>2, <2>3 DEF Owns, At, Owning
    <3> QED
      BY <2>1, <2>2, <3>1, OthersKeep DEF Grows
  <2>4. CASE inv[j].call # c
    <3>1. Owns(j)'
      BY <2>1, <2>2, <2>4 DEF Owns, Shape, At, InFlight, Owning
    <3> QED
      BY <2>1, <2>2, <3>1, OthersKeep DEF Grows
  <2> QED
    BY <2>3, <2>4
<1>3. ASSUME NEW x \in Calls PROVE (Recorded(x) /\ Decided(x))'
  <2>1. Recorded(x) /\ Decided(x)
    BY DEF CallInv
  <2>2. Decided(x)'
    BY <2>1 DEF Decided
  <2>3. CASE x # c
    BY <2>1, <2>2, <2>3 DEF Recorded, InStep, Linked, Effected, Acting
  <2> QED
    BY <2>2, <2>3
<1>4. Deciding'
  BY DEF CallInv, Deciding
<1> QED
  BY <1>1, <1>2, <1>3, <1>4 DEF CallInv

\* The decision is recorded under the grant that the invocation holds.
LEMMA RecordDecisionKeeps ==
    ASSUME ToolCallAssumption, CallInv, NEW i \in Invocations, record_decision(i)
    PROVE  CallInv'
<1> DEFINE c == inv[i].call
<1>1. /\ c \in Calls /\ inv[i].gens \in Generations /\ ~inv[i].effect
      /\ inv[i].result = "none" /\ inv[i].pc \in InFlight \ {"acted", "reported"}
      /\ inv[i].approval \in Calls \cup {None} /\ now \in Nat
  BY DEF CallInv, Typed, Records, Good, Shape, Known, At, record_decision, InFlight, Owning
<1>2. /\ class' = class /\ world' = world /\ now' = now /\ decider' = decider
      /\ effects' = effects /\ approval' = approval /\ audit' = audit /\ UNCHANGED outside
  BY DEF record_decision, outside
<1>3. CASE UNCHANGED <<call, attempt>> /\ Finish(i, "unavailable")
  BY <1>1, <1>2, <1>3, Finishes, MoveKeeps DEF Moved, tables
<1>4. ASSUME NewCall(c), Linkable(i),
             call' = [call EXCEPT ![c] =
                        [approval |-> inv[i].approval, gens |-> inv[i].gens, at |-> now]],
             attempt' = [attempt EXCEPT ![c] =
                           [status |-> "decision_recorded", outcome |-> "none", owner |-> i]],
             Goto(i, "recorded") \/ Finish(i, "unavailable")
      PROVE  CallInv'
  <2>1. call' \in [Calls -> CallRows] /\ attempt' \in [Calls -> Attempts]
    BY <1>1, <1>4 DEF CallInv, Typed, CallRows, Attempts
  <2>2. /\ call'[c] = [approval |-> inv[i].approval, gens |-> inv[i].gens, at |-> now]
        /\ attempt'[c] = [status |-> "decision_recorded", outcome |-> "none", owner |-> i]
        /\ \A x \in Calls \ {c} : call'[x] = call[x] /\ attempt'[x] = attempt[x]
    BY <1>1, <1>4 DEF CallInv, Typed
  <2>3. attempt[c].status = "none" /\ attempt[c].outcome = "none" /\ effects[c] = 0
    BY <1>1, <1>4 DEF CallInv, Typed, Recorded, InStep, Effected, NewCall
  <2>4. Moved(i) /\ Good(i)'
    <3>1. CASE Goto(i, "recorded")
      <4>1. Moved(i)
        BY <3>1, Updated DEF CallInv, Typed, Updates, Moved, Goto, InFlight
      <4>2. /\ inv'[i].call = c /\ inv'[i].gens = inv[i].gens /\ inv'[i].effect = inv[i].effect
            /\ inv'[i].result = inv[i].result /\ inv'[i].pc = "recorded"
        BY <3>1 DEF CallInv, Typed, Records, Goto
      <4>3. Good(i)'
        BY <1>1, <1>2, <2>2, <4>2
        DEF Good, Shape, Known, Asked, Holds, Owns, At, InFlight, Owning, Acting
      <4> QED
        BY <4>1, <4>3
    <3>2. CASE Finish(i, "unavailable")
      BY <1>1, <3>2, Finishes
    <3> QED
      BY <1>4, <3>1, <3>2
  <2>5. ASSUME NEW x \in Calls, x = c PROVE Recorded(x)'
    <3>1. InStep(x)'
      BY <1>1, <2>2, <2>5 DEF InStep, NoCall, NoAttempt, ToolCallAssumption
    <3>2. Effected(x)'
      BY <1>2, <2>2, <2>3, <2>5 DEF Effected
    <3>3. Linked(x)'
      <4>1. SUFFICES ASSUME Acting(c) PROVE Linked(x)'
        BY <1>2, <2>5 DEF Linked, Acting
      <4>2. /\ inv[i].approval \in Calls /\ approval[inv[i].approval].state = "granted"
            /\ approval[inv[i].approval].gens = inv[i].gens
            /\ class[c] = "every_call" => inv[i].approval = c
        BY <4>1 DEF CallInv, Good, Holds, At, record_decision
      <4>3. now < approval[inv[i].approval].expires
        BY <1>1, <1>4, <4>1, <4>2 DEF Linkable, Expired, CallInv, Typed, Approvals
      <4> QED
        BY <1>2, <2>2, <2>5, <4>2, <4>3 DEF Linked
    <3> QED
      BY <3>1, <3>2, <3>3 DEF Recorded
  <2>6. effects' \in [Calls -> Nat]
    BY <1>2 DEF CallInv, Typed
  <2> QED
    BY <1>1, <1>2, <2>1, <2>2, <2>3, <2>4, <2>5, <2>6, JournalKeeps
<1> QED
  BY <1>3, <1>4 DEF record_decision

\* Only the owner of the attempt starts it.
LEMMA AttachKeeps ==
    ASSUME CallInv, NEW i \in Invocations, attach_capability(i)
    PROVE  CallInv'
<1> DEFINE c == inv[i].call
<1>1. /\ c \in Calls /\ inv[i].gens \in Generations /\ ~inv[i].effect
      /\ inv[i].result = "none" /\ inv[i].pc \in InFlight \ {"acted", "reported"}
      /\ attempt[c].owner = i /\ attempt[c].status = "decision_recorded"
  BY DEF CallInv, Good, Shape, Known, Owns, At, attach_capability, InFlight, Owning
<1>2. /\ class' = class /\ world' = world /\ now' = now /\ decider' = decider
      /\ effects' = effects /\ approval' = approval /\ audit' = audit /\ call' = call
      /\ UNCHANGED outside
  BY DEF attach_capability, outside
<1>3. CASE UNCHANGED attempt /\ Finish(i, "unavailable")
  BY <1>1, <1>2, <1>3, Finishes, MoveKeeps DEF Moved, tables
<1>4. ASSUME attempt' = [attempt EXCEPT ![c].status = "executing"],
             Goto(i, "attached") \/ Finish(i, "unavailable")
      PROVE  CallInv'
  <2>1. attempt' \in [Calls -> Attempts]
    BY <1>1, <1>4 DEF CallInv, Typed, Attempts
  <2>2. /\ attempt'[c].status = "executing" /\ attempt'[c].owner = i
        /\ attempt'[c].outcome = attempt[c].outcome
        /\ \A x \in Calls \ {c} : attempt'[x] = attempt[x]
    BY <1>1, <1>4 DEF CallInv, Typed, Attempts
  <2>3. /\ attempt[c].outcome = "none" /\ effects[c] = 0 /\ call[c] # NoCall
        /\ Linked(c)
    BY <1>1 DEF CallInv, Typed, Recorded, InStep, Effected
  <2>4. Moved(i) /\ Good(i)'
    <3>1. CASE Goto(i, "attached")
      <4>1. Moved(i)
        BY <3>1, Updated DEF CallInv, Typed, Updates, Moved, Goto, InFlight, Owning
      <4>2. /\ inv'[i].call = c /\ inv'[i].gens = inv[i].gens /\ inv'[i].effect = inv[i].effect
            /\ inv'[i].result = inv[i].result /\ inv'[i].pc = "attached"
        BY <3>1 DEF CallInv, Typed, Records, Goto
      <4>3. Good(i)'
        BY <1>1, <1>2, <2>2, <2>3, <4>2
        DEF Good, Shape, Known, Asked, Holds, Owns, At, InFlight, Owning, Acting
      <4> QED
        BY <4>1, <4>3
    <3>2. CASE Finish(i, "unavailable")
      BY <1>1, <3>2, Finishes
    <3> QED
      BY <1>4, <3>1, <3>2
  <2>5. ASSUME NEW x \in Calls, x = c PROVE Recorded(x)'
    <3>1. InStep(x)'
      BY <1>2, <2>2, <2>3, <2>5 DEF InStep, NoAttempt
    <3>2. Effected(x)'
      BY <1>2, <2>3, <2>5 DEF Effected
    <3>3. Linked(x)'
      BY <1>1, <1>2, <2>3, <2>5 DEF Linked, Acting
    <3> QED
      BY <3>1, <3>2, <3>3 DEF Recorded
  <2>6. effects' \in [Calls -> Nat] /\ call' \in [Calls -> CallRows]
    BY <1>2 DEF CallInv, Typed
  <2> QED
    BY <1>1, <1>2, <2>1, <2>2, <2>3, <2>4, <2>5, <2>6, JournalKeeps
<1> QED
  BY <1>3, <1>4 DEF attach_capability

\* The vendor performs the call of the one invocation that owns its attempt.
LEMMA VendorKeeps ==
    ASSUME CallInv, NEW i \in Invocations, vendor_acts(i)
    PROVE  CallInv'
<1> DEFINE c == inv[i].call
<1>1. /\ c \in Calls /\ inv[i].gens \in Generations /\ inv[i].result = "none"
      /\ attempt[c].owner = i /\ attempt[c].status = "executing" /\ effects[c] = 0
  BY DEF CallInv, Good, Shape, Known, Owns, At, vendor_acts, InFlight, Owning
<1>2. /\ class' = class /\ world' = world /\ now' = now /\ decider' = decider
      /\ approval' = approval /\ audit' = audit /\ call' = call /\ attempt' = attempt
  BY DEF vendor_acts, tables
<1>3. /\ effects' \in [Calls -> Nat] /\ effects'[c] = IF Acting(c) THEN 1 ELSE 0
      /\ \A x \in Calls \ {c} : effects'[x] = effects[x]
  BY <1>1 DEF CallInv, Typed, vendor_acts
<1>4. Moved(i)
  <2>1. Acting(c) \in BOOLEAN
    BY DEF Acting
  <2> QED
    BY <2>1, Updated DEF CallInv, Typed, Updates, Moved, vendor_acts
<1>5. /\ inv'[i].call = c /\ inv'[i].gens = inv[i].gens /\ inv'[i].pc = "acted"
      /\ inv'[i].result = inv[i].result
  BY DEF CallInv, Typed, Records, vendor_acts
<1>6. inv'[i].effect = Acting(c)
  BY DEF CallInv, Typed, Records, vendor_acts
<1>7. Good(i)'
  BY <1>1, <1>2, <1>5, <1>6 DEF Good, Shape, Known, Asked, Holds, Owns, At, InFlight, Owning, Acting
<1>8. attempt[c].outcome = "none"
  BY <1>1 DEF CallInv, Recorded, InStep
<1>9. ASSUME NEW x \in Calls, x = c PROVE Recorded(x)'
  BY <1>1, <1>2, <1>3, <1>9 DEF CallInv, Recorded, InStep, Linked, Effected, Acting
<1>10. call' \in [Calls -> CallRows] /\ attempt' \in [Calls -> Attempts]
  BY <1>2 DEF CallInv, Typed
<1> QED
  BY <1>1, <1>2, <1>3, <1>4, <1>7, <1>8, <1>9, <1>10, JournalKeeps

\* The outcome is written once, by the owner, and what it is told is what is written.
LEMMA OutcomeKeeps ==
    ASSUME CallInv, NEW i \in Invocations, record_outcome(i)
    PROVE  CallInv'
<1> DEFINE c == inv[i].call
           o == inv[i].report
<1>1. /\ c \in Calls /\ inv[i].result = "none" /\ o \in {"committed", "not_committed", "unknown"}
      /\ attempt[c].owner = i /\ attempt[c].status = "executing"
      /\ inv[i].effect => Acting(c) /\ o # "not_committed"
  BY DEF CallInv, Typed, Records, Good, Shape, Known, Owns, At, record_outcome, InFlight, Owning
<1>2. /\ class' = class /\ world' = world /\ now' = now /\ decider' = decider
      /\ effects' = effects /\ approval' = approval /\ audit' = audit /\ call' = call
      /\ UNCHANGED outside
  BY DEF record_outcome, outside
<1>3. ASSUME NEW s \in {"committed", "not_committed", "reconciliation"}, Finish(i, s),
             inv[i].effect => s \in {"committed", "reconciliation"},
             s = "committed" => attempt'[c].outcome = "committed"
      PROVE  Moved(i) /\ Good(i)'
  <2>1. Moved(i)
    BY <1>3, Updated DEF CallInv, Typed, Updates, Results, Moved, Finish
  <2>2. /\ inv'[i].call = c /\ inv'[i].pc = "done" /\ inv'[i].result = s
        /\ inv'[i].effect = inv[i].effect
    BY <1>3 DEF CallInv, Typed, Records, Finish
  <2>3. Good(i)'
    BY <1>1, <1>2, <1>3, <2>2
    DEF Good, Shape, Known, Asked, Holds, Owns, At, InFlight, Owning, Acting
  <2> QED
    BY <2>1, <2>3
<1>4. CASE UNCHANGED attempt /\ Finish(i, Unwritten(i))
  BY <1>2, <1>3, <1>4, MoveKeeps DEF Moved, tables, Unwritten
<1>5. ASSUME attempt' = [attempt EXCEPT ![c].status = Status(o), ![c].outcome = o],
             Finish(i, Written(o)) \/ Finish(i, Unwritten(i))
      PROVE  CallInv'
  <2>1. attempt' \in [Calls -> Attempts]
    BY <1>1, <1>5 DEF CallInv, Typed, Attempts, Status
  <2>2. /\ attempt'[c].status = Status(o) /\ attempt'[c].owner = i /\ attempt'[c].outcome = o
        /\ \A x \in Calls \ {c} : attempt'[x] = attempt[x]
    BY <1>1, <1>5 DEF CallInv, Typed, Attempts
  <2>3. Moved(i) /\ Good(i)'
    BY <1>1, <1>3, <1>5, <2>2 DEF Written, Unwritten
  <2>4. attempt[c].outcome = "none" /\ call[c] # NoCall /\ Linked(c) /\ Effected(c)
    BY <1>1 DEF CallInv, Recorded, InStep
  <2>5. ASSUME NEW x \in Calls, x = c PROVE Recorded(x)'
    <3>1. Status(o) \in {"completed", "reconciliation_required"}
      BY DEF Status
    <3>2. InStep(x)'
      BY <1>1, <1>2, <2>2, <2>4, <2>5 DEF InStep, NoAttempt, Status
    <3>3. Effected(x)'
      BY <1>2, <2>2, <2>4, <2>5, <3>1 DEF Effected, Acting
    <3>4. Linked(x)'
      BY <1>1, <1>2, <2>4, <2>5 DEF Linked, Acting
    <3> QED
      BY <3>2, <3>3, <3>4 DEF Recorded
  <2>6. effects' \in [Calls -> Nat] /\ call' \in [Calls -> CallRows]
    BY <1>2 DEF CallInv, Typed
  <2> QED
    BY <1>1, <1>2, <2>1, <2>2, <2>3, <2>4, <2>5, <2>6, JournalKeeps
<1> QED
  BY <1>4, <1>5 DEF record_outcome

-----------------------------------------------------------------------------
(* The world and the whole. *)

LEMMA WorldKeeps ==
    ASSUME CallInv, tick \/ change \/ UNCHANGED vars
    PROVE  CallInv'
<1>1. /\ class' = class /\ approval' = approval /\ audit' = audit /\ call' = call
      /\ attempt' = attempt /\ inv' = inv /\ decider' = decider /\ effects' = effects
  BY DEF tick, change, tables, vars
<1>2. now' \in Nat
  BY DEF CallInv, Typed, tick, change, vars
<1>3. world' \in [running : BOOLEAN, member : BOOLEAN, open : BOOLEAN, gens : Generations]
  <2> DEFINE Worlds == [running : BOOLEAN, member : BOOLEAN, open : BOOLEAN, gens : Generations]
  <2>1. world \in Worlds
    BY DEF CallInv, Typed
  <2>2. CASE world' = [world EXCEPT !.running = FALSE]
    BY <2>1, <2>2
  <2>3. CASE world' = [world EXCEPT !.open = FALSE]
    BY <2>1, <2>3
  <2>4. CASE world' = [world EXCEPT !.member = ~@]
    BY <2>1, <2>4
  <2>5. ASSUME NEW k \in {"auth", "catalog", "policy"}, world' = [world EXCEPT !.gens[k] = @ + 1]
        PROVE  world' \in Worlds
    <3>1. [world.gens EXCEPT ![k] = @ + 1] \in Generations
      BY <2>1 DEF Generations
    <3> QED
      BY <2>1, <2>5, <3>1
  <2> QED
    BY <2>1, <2>2, <2>3, <2>4, <2>5 DEF tick, change, vars
<1>4. Typed'
  BY <1>1, <1>2, <1>3 DEF CallInv, Typed
<1>5. \A j \in Invocations : Good(j)'
  BY <1>1 DEF CallInv, Good, Shape, Known, Asked, Holds, Owns, At, Acting
<1>6. \A c \in Calls : (Recorded(c) /\ Decided(c))'
  BY <1>1 DEF CallInv, Recorded, Decided, InStep, Linked, Effected, Acting
<1>7. Deciding'
  BY <1>1 DEF CallInv, Deciding
<1> QED
  BY <1>4, <1>5, <1>6, <1>7 DEF CallInv

\* However invocations, people, the vendor, crashes and changes of the world
\* interleave, the tables and what every invocation knows stay in step.
THEOREM CallInvariant ==
    ASSUME ToolCallAssumption
    PROVE  Spec => []CallInv
<1>1. Init => CallInv
  BY CallStart
<1>2. CallInv /\ [Next]_vars => CallInv'
  <2> SUFFICES ASSUME CallInv, [Next]_vars PROVE CallInv'
    OBVIOUS
  <2>1. ASSUME NEW i \in Invocations, Step(i) \/ fail(i) \/ crash(i) PROVE CallInv'
    BY <2>1, ResolveKeeps, RequestKeeps, PollKeeps, RetireKeeps, SettleApprovalKeeps,
       RecordDecisionKeeps, AttachKeeps, ExecuteKeeps, VendorKeeps, OutcomeKeeps, FailKeeps,
       CrashKeeps DEF Step
  <2>2. ASSUME NEW d \in Deciders,
               \/ \E a \in Calls, v \in {"granted", "denied"} : decide(d, a, v)
               \/ decide_commit(d)
        PROVE  CallInv'
    BY <2>2, DecideKeeps, DecideCommitKeeps
  <2> QED
    BY <2>1, <2>2, WorldKeeps DEF Next
<1> QED
  BY <1>1, <1>2, PTL DEF Spec

\* A tool call is safe (CallSafety): nothing acts at the vendor without a current
\* grant and a recorded decision, at most once per call, the invoker is told the
\* truth and every approval is decided once; for any calls, invocations and people.
THEOREM CallsAreSafe ==
    ASSUME ToolCallAssumption
    PROVE  Spec => []CallSafety
<1>1. CallInv => CallSafety
  BY CallImplies
<1> QED
  BY <1>1, CallInvariant, PTL

-----------------------------------------------------------------------------
(***************************************************************************)
(* The tool budget.                                                        *)
(***************************************************************************)
(* Leaving a queue. *)

\* Where somebody stands who is in a queue once.
LEMMA Place ==
    ASSUME NEW S, NEW s \in Seq(S), IsInjective(s), NEW i \in 1..Len(s)
    PROVE  RemoveFirst(s, s[i]) = RemoveAt(s, i)
<1> DEFINE I == {j \in 1..Len(s) : s[j] = s[i]}
<1>1. I = {i}
  BY DEF IsInjective
<1>2. Min({i}) = i
  BY DEF Min
<1>3. SelectInSeq(s, LAMBDA v : v = s[i]) = i
  BY <1>1, <1>2 DEF SelectInSeq
<1> QED
  BY <1>3 DEF RemoveFirst

LEMMA Joins ==
    ASSUME NEW S, NEW a \in Seq(S), NEW b \in Seq(S)
    PROVE  /\ a \o b \in Seq(S) /\ Len(a \o b) = Len(a) + Len(b)
           /\ \A j \in 1..(Len(a) + Len(b)) :
                (a \o b)[j] = IF j <= Len(a) THEN a[j] ELSE b[j - Len(a)]
OBVIOUS

LEMMA RemovedAt ==
    ASSUME NEW S, NEW s \in Seq(S), NEW i \in 1..Len(s)
    PROVE  /\ RemoveAt(s, i) \in Seq(S)
           /\ Len(RemoveAt(s, i)) = Len(s) - 1
           /\ \A j \in 1..(Len(s) - 1) :
                RemoveAt(s, i)[j] = IF j < i THEN s[j] ELSE s[j + 1]
<1> DEFINE a == SubSeq(s, 1, i - 1)
           b == SubSeq(s, i + 1, Len(s))
<1>1. /\ a \in Seq(S) /\ Len(a) = i - 1
      /\ \A j \in 1..(i - 1) : a[j] = s[j]
  OBVIOUS
<1>2. /\ b \in Seq(S) /\ Len(b) = Len(s) - i
      /\ \A j \in 1..(Len(s) - i) : b[j] = s[i + j]
  OBVIOUS
<1>3. RemoveAt(s, i) = a \o b
  BY DEF RemoveAt
<1> HIDE DEF a, b
<1>4. a \o b \in Seq(S) /\ Len(a \o b) = Len(a) + Len(b)
  BY <1>1, <1>2, Joins
<1>5. Len(a \o b) = Len(s) - 1
  BY <1>1, <1>2, <1>4
<1>6. \A j \in 1..(Len(s) - 1) : (a \o b)[j] = IF j < i THEN s[j] ELSE s[j + 1]
  <2> TAKE j \in 1..(Len(s) - 1)
  <2>1. (a \o b)[j] = IF j <= Len(a) THEN a[j] ELSE b[j - Len(a)]
    <3>1. j \in 1..(Len(a) + Len(b))
      BY <1>1, <1>2
    <3> QED
      BY <1>1, <1>2, <3>1, Joins
  <2>2. CASE j < i
    BY <2>1, <2>2, <1>1
  <2>3. CASE ~(j < i)
    <3>1. j - Len(a) \in 1..(Len(s) - i) /\ i + (j - Len(a)) = j + 1 /\ ~(j <= Len(a))
      BY <2>3, <1>1
    <3>2. b[j - Len(a)] = s[i + (j - Len(a))]
      BY <3>1, <1>2
    <3> QED
      BY <2>1, <2>3, <3>1, <3>2
  <2> QED
    BY <2>2, <2>3
<1> QED
  BY <1>3, <1>4, <1>5, <1>6

\* Whoever leaves a queue leaves nothing behind, and nobody else loses a place.
LEMMA Departs ==
    ASSUME NEW S, NEW s \in Seq(S), IsInjective(s), NEW t
    PROVE  /\ RemoveFirst(s, t) \in Seq(S)
           /\ IsInjective(RemoveFirst(s, t))
           /\ Range(RemoveFirst(s, t)) = Range(s) \ {t}
           /\ \A u, n : u # t /\ n \in Nat /\ Among(s, n, u) => Among(RemoveFirst(s, t), n, u)
<1> DEFINE r == RemoveFirst(s, t)
<1>1. CASE ~\E i \in 1..Len(s) : s[i] = t
  <2>1. r = s
    BY <1>1 DEF RemoveFirst
  <2>2. t \notin Range(s)
    BY <1>1 DEF Range
  <2> QED
    BY <2>1, <2>2
<1>2. CASE \E i \in 1..Len(s) : s[i] = t
  <2>1. PICK i \in 1..Len(s) : s[i] = t
    BY <1>2
  <2>2. /\ r \in Seq(S) /\ Len(r) = Len(s) - 1
        /\ \A j \in 1..(Len(s) - 1) : r[j] = IF j < i THEN s[j] ELSE s[j + 1]
    BY <2>1, Place, RemovedAt
  <2>d. DOMAIN r = 1..(Len(s) - 1) /\ DOMAIN s = 1..Len(s) /\ Len(s) \in Nat
    BY <2>2
  <2> HIDE DEF r
  <2>3. IsInjective(r)
    <3> SUFFICES ASSUME NEW j \in 1..(Len(s) - 1), NEW k \in 1..(Len(s) - 1), r[j] = r[k]
                 PROVE  j = k
      BY <2>d DEF IsInjective
    <3> DEFINE m(x) == IF x < i THEN x ELSE x + 1
    <3>1. s[m(j)] = s[m(k)] /\ m(j) \in 1..Len(s) /\ m(k) \in 1..Len(s)
      BY <2>2, <2>d
    <3>2. m(j) = m(k)
      BY <3>1, <2>d DEF IsInjective
    <3> QED
      BY <3>2
  <2>4. \A u, n : u # t /\ n \in Nat /\ Among(s, n, u) => Among(r, n, u)
    <3> SUFFICES ASSUME NEW u, NEW n \in Nat, u # t, NEW j \in 1..Len(s), j <= n, s[j] = u
                 PROVE  \E l \in 1..Len(r) : l <= n /\ r[l] = u
      BY DEF Among
    <3>1. CASE j < i
      BY <3>1, <2>2, <2>d
    <3>2. CASE j > i
      <4>1. j - 1 \in 1..(Len(s) - 1) /\ ~(j - 1 < i) /\ (j - 1) + 1 = j /\ j - 1 <= n
        BY <3>2, <2>d
      <4>2. r[j - 1] = s[j]
        BY <4>1, <2>2
      <4> QED
        BY <4>1, <4>2, <2>2
    <3>3. j # i
      BY <2>1
    <3> QED
      BY <3>1, <3>2, <3>3, <2>d
  <2>5. Range(r) \subseteq Range(s) \ {t}
    <3> SUFFICES ASSUME NEW j \in 1..(Len(s) - 1)
                 PROVE  r[j] \in Range(s) /\ r[j] # t
      BY <2>d DEF Range
    <3> DEFINE m == IF j < i THEN j ELSE j + 1
    <3>1. r[j] = s[m] /\ m \in 1..Len(s) /\ m # i
      BY <2>2, <2>d
    <3>2. s[m] # s[i]
      BY <3>1, <2>d DEF IsInjective
    <3> QED
      BY <3>1, <3>2, <2>1, <2>d DEF Range
  <2>6. Range(s) \ {t} \subseteq Range(r)
    <3> SUFFICES ASSUME NEW j \in 1..Len(s), s[j] # t
                 PROVE  s[j] \in Range(r)
      BY <2>d DEF Range
    <3>1. Among(s, j, s[j])
      BY <2>d DEF Among
    <3>2. Among(r, j, s[j])
      BY <2>4, <3>1
    <3> QED
      BY <3>2, <2>2, <2>d DEF Among, Range
  <2> QED
    BY <2>2, <2>3, <2>4, <2>5, <2>6 DEF r
<1> QED
  BY <1>1, <1>2

\* Whoever enters a queue stands last in it, and nobody else loses a place.
LEMMA Enters ==
    ASSUME NEW S, NEW s \in Seq(S), IsInjective(s), NEW t \in S, t \notin Range(s)
    PROVE  /\ Append(s, t) \in Seq(S)
           /\ IsInjective(Append(s, t))
           /\ Range(Append(s, t)) = Range(s) \cup {t}
           /\ \A u, n : n \in Nat /\ Among(s, n, u) => Among(Append(s, t), n, u)
<1> DEFINE r == Append(s, t)
<1>1. /\ r \in Seq(S) /\ Len(r) = Len(s) + 1 /\ r[Len(s) + 1] = t
      /\ \A j \in 1..Len(s) : r[j] = s[j]
  OBVIOUS
<1>2. DOMAIN r = 1..(Len(s) + 1) /\ DOMAIN s = 1..Len(s) /\ Len(s) \in Nat
  BY <1>1
<1> HIDE DEF r
<1>3. \A j \in 1..Len(s) : s[j] # t
  BY <1>2 DEF Range
<1>4. IsInjective(r)
  <2> SUFFICES ASSUME NEW j \in 1..(Len(s) + 1), NEW k \in 1..(Len(s) + 1), r[j] = r[k]
               PROVE  j = k
    BY <1>2 DEF IsInjective
  <2>1. CASE j \in 1..Len(s) /\ k \in 1..Len(s)
    BY <2>1, <1>1, <1>2 DEF IsInjective
  <2>2. CASE j = Len(s) + 1 \/ k = Len(s) + 1
    BY <2>2, <1>1, <1>2, <1>3
  <2> QED
    BY <2>1, <2>2, <1>2
<1>5. Range(r) = Range(s) \cup {t}
  <2>1. Range(r) \subseteq Range(s) \cup {t}
    <3> SUFFICES ASSUME NEW j \in 1..(Len(s) + 1), r[j] # t
                 PROVE  r[j] \in Range(s)
      BY <1>2 DEF Range
    <3>1. j \in 1..Len(s)
      BY <1>1, <1>2
    <3> QED
      BY <3>1, <1>1, <1>2 DEF Range
  <2>2. Range(s) \subseteq Range(r)
    BY <1>1, <1>2 DEF Range
  <2>3. t \in Range(r)
    BY <1>1, <1>2 DEF Range
  <2> QED
    BY <2>1, <2>2, <2>3
<1>6. \A u, n : n \in Nat /\ Among(s, n, u) => Among(r, n, u)
  BY <1>1, <1>2 DEF Among
<1> QED
  BY <1>1, <1>4, <1>5, <1>6 DEF r

\* The holder of a lock is the first of its queue.
LEMMA First ==
    ASSUME NEW S, NEW s \in Seq(S), NEW t
    PROVE  (t \in Range(s) /\ Head(s) = t) <=> Among(s, 1, t)
<1>1. DOMAIN s = 1..Len(s) /\ Len(s) \in Nat
  OBVIOUS
<1>2. 1 \in 1..Len(s) => Head(s) = s[1]
  OBVIOUS
<1> QED
  BY <1>1, <1>2 DEF Among, Range

-----------------------------------------------------------------------------
(* What makes the budget inductive.  A task has a reference to the semaphore *)
(* of each of its keys from its acquire to its end, it stands in a queue     *)
(* only with a reference to that semaphore, and it is in the pool only while *)
(* it holds all its locks.                                                   *)

HandlesAreNeeds ==
    \A t \in Tasks, k \in Keys :
        handles[t][k] # Absent <=> at[t] # "idle" /\ k \in Needs[t]

QueuedHasHandle ==
    \A t \in Tasks, k \in Keys, g \in Ids :
        t \in Range(queue[k][g]) => handles[t][k] = g

PoolIsAsked ==
    \A t \in Tasks : t \in Range(pool) <=> at[t] \in {"permit", "running"}

PoolIsLocked ==
    \A t \in Tasks : at[t] \in {"permit", "running"} =>
        \A k \in Needs[t] : Among(queue[k][handles[t][k]], 1, t)

RunningHasPermit ==
    \A t \in Tasks : at[t] = "running" => HoldsPermit(t)

BudgetInv ==
    /\ BudgetTypeOK /\ OneSemaphorePerKey
    /\ HandlesAreNeeds /\ QueuedHasHandle
    /\ PoolIsAsked /\ PoolIsLocked /\ RunningHasPermit

\* There are more identities than references: a semaphore that is made is new.
LEMMA FreshIsFree ==
    ASSUME BudgetAssumption, BudgetTypeOK, NEW k \in Keys
    PROVE  Fresh(k) \in Ids /\ \A t \in Tasks : handles[t][k] # Fresh(k)
<1> DEFINE f == [t \in Tasks |-> handles[t][k]]
           T == {f[t] : t \in Tasks}
<1>1. IsFiniteSet(Tasks) /\ Cardinality(Tasks) \in Nat
  BY FS_CardinalityType DEF BudgetAssumption
<1>2. f \in Surjection(Tasks, T)
  BY DEF Surjection
<1>3. IsFiniteSet(T) /\ Cardinality(T) <= Cardinality(Tasks) /\ Cardinality(T) \in Nat
  BY <1>1, <1>2, FS_Surjection, FS_CardinalityType
<1>4. Cardinality(Ids) = Cardinality(Tasks) + 1
  BY <1>1, FS_Interval DEF Ids
<1>5. \E g \in Ids : g \notin T
  <2> SUFFICES ASSUME Ids \subseteq T PROVE FALSE
    OBVIOUS
  <2>1. Cardinality(Ids) <= Cardinality(T)
    BY <1>3, FS_Subset
  <2> QED
    BY <2>1, <1>1, <1>3, <1>4
<1>6. Referenced(k) \subseteq T
  BY DEF Referenced
<1>7. \E g \in Ids : g \notin Referenced(k)
  BY <1>5, <1>6
<1>8. Fresh(k) \in Ids /\ Fresh(k) \notin Referenced(k)
  BY <1>7 DEF Fresh
<1>9. Absent \notin Ids
  BY <1>1 DEF Ids, BudgetAssumption
<1> QED
  BY <1>8, <1>9 DEF Referenced

LEMMA AbsentIsNoId ==
    ASSUME BudgetAssumption
    PROVE  Absent \notin Ids
<1>1. Cardinality(Tasks) \in Nat
  BY FS_CardinalityType DEF BudgetAssumption
<1> QED
  BY <1>1 DEF Ids, BudgetAssumption

LEMMA InitBudget ==
    ASSUME BudgetAssumption
    PROVE  BudgetInit => BudgetInv
<1> SUFFICES ASSUME BudgetInit PROVE BudgetInv
  OBVIOUS
<1>1. <<>> \in Seq(Tasks) /\ Range(<<>>) = {} /\ IsInjective(<<>>)
  BY DEF Range, IsInjective
<1>2. BudgetTypeOK
  BY <1>1 DEF BudgetInit, BudgetTypeOK, Places, NoHandles
<1>3. \A t \in Tasks, k \in Keys : handles[t][k] = Absent
  BY DEF BudgetInit, NoHandles
<1>4. \A k \in Keys, g \in Ids : queue[k][g] = <<>>
  BY DEF BudgetInit
<1>5. OneSemaphorePerKey /\ HandlesAreNeeds
  BY <1>3 DEF BudgetInit, OneSemaphorePerKey, HandlesAreNeeds
<1>6. QueuedHasHandle
  BY <1>1, <1>4 DEF QueuedHasHandle
<1>7. PoolIsAsked /\ PoolIsLocked /\ RunningHasPermit
  BY <1>1 DEF BudgetInit, PoolIsAsked, PoolIsLocked, RunningHasPermit
<1> QED
  BY <1>2, <1>5, <1>6, <1>7 DEF BudgetInv

LEMMA AcquireKeeps ==
    ASSUME BudgetAssumption, BudgetInv, NEW t \in Tasks, acquire(t)
    PROVE  BudgetInv'
<1> DEFINE kept == Retained
           found == [k \in Needs[t] |-> IF kept[k] = Absent THEN Fresh(k) ELSE kept[k]]
<1>1. /\ at[t] = "idle" /\ at' = [at EXCEPT ![t] = "locking"]
      /\ entries' = [k \in Keys |-> IF k \in Needs[t] THEN found[k] ELSE kept[k]]
      /\ handles' = [handles EXCEPT ![t] = [k \in Keys |-> IF k \in Needs[t] THEN found[k] ELSE Absent]]
      /\ queue' = queue /\ pool' = pool
  BY DEF acquire
<1>2. /\ at \in [Tasks -> Places] /\ entries \in [Keys -> Ids \cup {Absent}]
      /\ handles \in [Tasks -> [Keys -> Ids \cup {Absent}]]
      /\ Needs[t] \subseteq Keys /\ Absent \notin Ids
  BY AbsentIsNoId DEF BudgetInv, BudgetTypeOK, BudgetAssumption
<1>3. \A k \in Keys : kept[k] \in {entries[k], Absent}
  BY DEF Retained
<1>4. \A k \in Needs[t] : found[k] \in Ids
  <2> TAKE k \in Needs[t]
  <2>1. Fresh(k) \in Ids
    BY <1>2, FreshIsFree DEF BudgetInv
  <2> QED
    BY <1>2, <1>3, <2>1
<1>5. \A u \in Tasks, k \in Keys : handles[u][k] # Absent => kept[k] = entries[k] /\ entries[k] = handles[u][k]
  BY DEF BudgetInv, OneSemaphorePerKey, Retained, Live, Referenced
<1>6. \A k \in Keys : entries'[k] = IF k \in Needs[t] THEN found[k] ELSE kept[k]
  BY <1>1
<1>7. \A u \in Tasks, k \in Keys :
        handles'[u][k] = IF u = t THEN IF k \in Needs[t] THEN found[k] ELSE Absent ELSE handles[u][k]
  BY <1>1, <1>2
<1>8. \A k \in Needs[t] : kept[k] # Absent => found[k] = kept[k]
  OBVIOUS
<1>9. entries' \in [Keys -> Ids \cup {Absent}]
  <2> SUFFICES ASSUME NEW k \in Keys
               PROVE  (IF k \in Needs[t] THEN found[k] ELSE kept[k]) \in Ids \cup {Absent}
    BY <1>1
  <2> QED
    BY <1>2, <1>3, <1>4
<1>10. handles' \in [Tasks -> [Keys -> Ids \cup {Absent}]]
  <2>1. [k \in Keys |-> IF k \in Needs[t] THEN found[k] ELSE Absent] \in [Keys -> Ids \cup {Absent}]
    BY <1>4
  <2> QED
    BY <1>1, <1>2, <2>1
<1>11. at' \in [Tasks -> Places] /\ at'[t] = "locking" /\ \A u \in Tasks \ {t} : at'[u] = at[u]
  BY <1>1, <1>2 DEF Places
<1> HIDE DEF found, kept
<1>12. BudgetTypeOK'
  BY <1>1, <1>9, <1>10, <1>11 DEF BudgetInv, BudgetTypeOK
<1>13. OneSemaphorePerKey'
  <2> SUFFICES ASSUME NEW u \in Tasks, NEW k \in Keys, handles'[u][k] # Absent
               PROVE  handles'[u][k] = entries'[k]
    BY DEF OneSemaphorePerKey
  <2>1. CASE u = t
    BY <2>1, <1>6, <1>7
  <2>2. CASE u # t
    BY <2>2, <1>2, <1>5, <1>6, <1>7, <1>8
  <2> QED
    BY <2>1, <2>2
<1>14. HandlesAreNeeds'
  <2> SUFFICES ASSUME NEW u \in Tasks, NEW k \in Keys
               PROVE  handles'[u][k] # Absent <=> at'[u] # "idle" /\ k \in Needs[u]
    BY DEF HandlesAreNeeds
  <2>1. CASE u = t
    BY <2>1, <1>2, <1>4, <1>7, <1>11
  <2>2. CASE u # t
    BY <2>2, <1>7, <1>11 DEF BudgetInv, HandlesAreNeeds
  <2> QED
    BY <2>1, <2>2
<1>15. QueuedHasHandle'
  <2> SUFFICES ASSUME NEW u \in Tasks, NEW k \in Keys, NEW g \in Ids, u \in Range(queue[k][g])
               PROVE  handles'[u][k] = g
    BY <1>1 DEF QueuedHasHandle
  <2>1. handles[u][k] = g
    BY DEF BudgetInv, QueuedHasHandle
  <2>2. u # t
    BY <2>1, <1>1, <1>2 DEF BudgetInv, HandlesAreNeeds
  <2> QED
    BY <2>1, <2>2, <1>7
<1>16. PoolIsAsked' /\ RunningHasPermit'
  BY <1>1, <1>11 DEF BudgetInv, PoolIsAsked, RunningHasPermit, HoldsPermit
<1>17. PoolIsLocked'
  <2> SUFFICES ASSUME NEW u \in Tasks, at'[u] \in {"permit", "running"}, NEW k \in Needs[u]
               PROVE  Among(queue[k][handles'[u][k]], 1, u)
    BY <1>1 DEF PoolIsLocked
  <2>1. u # t /\ at[u] \in {"permit", "running"} /\ k \in Keys
    BY <1>11 DEF BudgetAssumption
  <2> QED
    BY <2>1, <1>7 DEF BudgetInv, PoolIsLocked
<1> QED
  BY <1>12, <1>13, <1>14, <1>15, <1>16, <1>17 DEF BudgetInv

LEMMA LockKeeps ==
    ASSUME BudgetAssumption, BudgetInv, NEW t \in Tasks, NEW k \in Keys, lock(t, k)
    PROVE  BudgetInv'
<1> DEFINE g == handles[t][k]
           q == queue[k][g]
<1>1. /\ at[t] = "locking" /\ k \in Needs[t] /\ k \notin Joined(t)
      /\ queue' = [queue EXCEPT ![k][g] = Append(queue[k][g], t)]
      /\ at' = at /\ entries' = entries /\ handles' = handles /\ pool' = pool
  BY DEF lock
<1>2. queue \in [Keys -> [Ids -> Seq(Tasks)]] /\ handles \in [Tasks -> [Keys -> Ids \cup {Absent}]]
  BY DEF BudgetInv, BudgetTypeOK
<1>3. g # Absent
  BY <1>1 DEF BudgetInv, HandlesAreNeeds
<1>4. g \in Ids /\ t \notin Range(q)
  BY <1>1, <1>2, <1>3 DEF Joined
<1>5. q \in Seq(Tasks) /\ IsInjective(q)
  BY <1>2, <1>4 DEF BudgetInv, BudgetTypeOK
<1>6. /\ queue' \in [Keys -> [Ids -> Seq(Tasks)]]
      /\ \A j \in Keys, h \in Ids :
           queue'[j][h] = IF j = k /\ h = g THEN Append(q, t) ELSE queue[j][h]
  <2>1. Append(q, t) \in Seq(Tasks)
    BY <1>5
  <2> HIDE DEF g, q
  <2>2. queue' = [queue EXCEPT ![k][g] = Append(q, t)]
    BY <1>1 DEF q
  <2> QED
    BY <1>2, <1>4, <2>1, <2>2
<1> HIDE DEF g, q
<1>7. /\ IsInjective(Append(q, t)) /\ Range(Append(q, t)) = Range(q) \cup {t}
      /\ \A u : Among(q, 1, u) => Among(Append(q, t), 1, u)
  BY <1>4, <1>5, Enters
<1>8. BudgetTypeOK'
  BY <1>1, <1>6, <1>7 DEF BudgetInv, BudgetTypeOK
<1>9. QueuedHasHandle'
  <2> SUFFICES ASSUME NEW u \in Tasks, NEW j \in Keys, NEW h \in Ids, u \in Range(queue'[j][h])
               PROVE  handles[u][j] = h
    BY <1>1 DEF QueuedHasHandle
  <2>1. u \in Range(queue[j][h]) => handles[u][j] = h
    BY DEF BudgetInv, QueuedHasHandle
  <2>2. CASE j = k /\ h = g
    BY <2>1, <2>2, <1>6, <1>7 DEF g, q
  <2>3. CASE ~(j = k /\ h = g)
    BY <2>1, <2>3, <1>6
  <2> QED
    BY <2>2, <2>3
<1>10. PoolIsLocked'
  <2> SUFFICES ASSUME NEW u \in Tasks, at[u] \in {"permit", "running"}, NEW j \in Needs[u]
               PROVE  Among(queue'[j][handles[u][j]], 1, u)
    BY <1>1 DEF PoolIsLocked
  <2>1. Among(queue[j][handles[u][j]], 1, u)
    BY DEF BudgetInv, PoolIsLocked
  <2>2. j \in Keys /\ handles[u][j] # Absent
    BY DEF BudgetInv, HandlesAreNeeds, BudgetAssumption
  <2>3. handles[u][j] \in Ids
    BY <2>2, <1>2
  <2> QED
    BY <2>1, <2>2, <2>3, <1>6, <1>7 DEF q
<1>11. /\ OneSemaphorePerKey' /\ HandlesAreNeeds' /\ PoolIsAsked' /\ RunningHasPermit'
  BY <1>1 DEF BudgetInv, OneSemaphorePerKey, HandlesAreNeeds, PoolIsAsked, RunningHasPermit, HoldsPermit
<1> QED
  BY <1>8, <1>9, <1>10, <1>11 DEF BudgetInv

LEMMA AskKeeps ==
    ASSUME BudgetAssumption, BudgetInv, NEW t \in Tasks, ask_permit(t)
    PROVE  BudgetInv'
<1>1. /\ at[t] = "locking" /\ at' = [at EXCEPT ![t] = "permit"] /\ pool' = Append(pool, t)
      /\ entries' = entries /\ handles' = handles /\ queue' = queue /\ Locked(t)
  BY DEF ask_permit
<1>2. at \in [Tasks -> Places] /\ pool \in Seq(Tasks) /\ IsInjective(pool)
  BY DEF BudgetInv, BudgetTypeOK
<1>3. at' \in [Tasks -> Places] /\ at'[t] = "permit" /\ \A u \in Tasks \ {t} : at'[u] = at[u]
  BY <1>1, <1>2 DEF Places
<1>4. t \notin Range(pool)
  BY <1>1 DEF BudgetInv, PoolIsAsked
<1>5. /\ pool' \in Seq(Tasks) /\ IsInjective(pool') /\ Range(pool') = Range(pool) \cup {t}
      /\ \A u, n : n \in Nat /\ Among(pool, n, u) => Among(pool', n, u)
  BY <1>1, <1>2, <1>4, Enters
<1>6. BudgetTypeOK'
  BY <1>1, <1>3, <1>5 DEF BudgetInv, BudgetTypeOK
<1>7. PoolIsAsked'
  BY <1>3, <1>5 DEF BudgetInv, PoolIsAsked
<1>8. RunningHasPermit'
  BY <1>3, <1>5 DEF BudgetInv, RunningHasPermit, HoldsPermit, BudgetAssumption
<1>9. PoolIsLocked'
  <2> SUFFICES ASSUME NEW u \in Tasks, at'[u] \in {"permit", "running"}, NEW k \in Needs[u]
               PROVE  Among(queue[k][handles[u][k]], 1, u)
    BY <1>1 DEF PoolIsLocked
  <2>1. CASE u = t
    <3>1. HoldsKey(t, k)
      BY <2>1, <1>1 DEF Locked
    <3>2. /\ k \in Keys /\ handles[t][k] # Absent /\ t \in Range(queue[k][handles[t][k]])
          /\ Head(queue[k][handles[t][k]]) = t
      BY <3>1, <2>1 DEF HoldsKey, Joined, BudgetAssumption
    <3>3. queue[k][handles[t][k]] \in Seq(Tasks)
      BY <3>2 DEF BudgetInv, BudgetTypeOK
    <3> QED
      BY <2>1, <3>2, <3>3, First
  <2>2. CASE u # t
    BY <2>2, <1>3 DEF BudgetInv, PoolIsLocked
  <2> QED
    BY <2>1, <2>2
<1>10. OneSemaphorePerKey' /\ QueuedHasHandle'
  BY <1>1 DEF BudgetInv, OneSemaphorePerKey, QueuedHasHandle
<1>11. HandlesAreNeeds'
  BY <1>1, <1>3 DEF BudgetInv, HandlesAreNeeds
<1> QED
  BY <1>6, <1>7, <1>8, <1>9, <1>10, <1>11 DEF BudgetInv

LEMMA StartKeeps ==
    ASSUME BudgetAssumption, BudgetInv, NEW t \in Tasks, start(t)
    PROVE  BudgetInv'
<1>1. /\ at[t] = "permit" /\ at' = [at EXCEPT ![t] = "running"] /\ HoldsPermit(t)
      /\ entries' = entries /\ handles' = handles /\ queue' = queue /\ pool' = pool
  BY DEF start, MayStart
<1>2. at' \in [Tasks -> Places] /\ at'[t] = "running" /\ \A u \in Tasks \ {t} : at'[u] = at[u]
  BY <1>1 DEF Places, BudgetInv, BudgetTypeOK
<1>3. BudgetTypeOK' /\ OneSemaphorePerKey' /\ QueuedHasHandle'
  BY <1>1, <1>2 DEF BudgetInv, BudgetTypeOK, OneSemaphorePerKey, QueuedHasHandle
<1>4. HandlesAreNeeds' /\ PoolIsAsked'
  BY <1>1, <1>2 DEF BudgetInv, HandlesAreNeeds, PoolIsAsked
<1>5. PoolIsLocked' /\ RunningHasPermit'
  BY <1>1, <1>2 DEF BudgetInv, PoolIsLocked, RunningHasPermit, HoldsPermit
<1> QED
  BY <1>3, <1>4, <1>5 DEF BudgetInv

LEMMA DropKeeps ==
    ASSUME BudgetAssumption, BudgetInv, NEW t \in Tasks, Drop(t)
    PROVE  BudgetInv'
<1>1. /\ at' = [at EXCEPT ![t] = "idle"] /\ handles' = [handles EXCEPT ![t] = NoHandles]
      /\ queue' = [k \in Keys |-> [g \in Ids |-> RemoveFirst(queue[k][g], t)]]
      /\ pool' = RemoveFirst(pool, t) /\ entries' = entries
  BY DEF Drop
<1>2. /\ at' \in [Tasks -> Places] /\ at'[t] = "idle" /\ \A u \in Tasks \ {t} : at'[u] = at[u]
  BY <1>1 DEF Places, BudgetInv, BudgetTypeOK
<1>3. /\ handles' \in [Tasks -> [Keys -> Ids \cup {Absent}]]
      /\ \A k \in Keys : handles'[t][k] = Absent
      /\ \A u \in Tasks \ {t} : handles'[u] = handles[u]
  BY <1>1 DEF NoHandles, BudgetInv, BudgetTypeOK
<1>4. /\ pool' \in Seq(Tasks) /\ IsInjective(pool') /\ Range(pool') = Range(pool) \ {t}
      /\ \A u, n : u # t /\ n \in Nat /\ Among(pool, n, u) => Among(pool', n, u)
  <2>1. pool \in Seq(Tasks) /\ IsInjective(pool)
    BY DEF BudgetInv, BudgetTypeOK
  <2> QED
    BY <1>1, <2>1, Departs
<1>5. \A k \in Keys, g \in Ids :
        /\ queue'[k][g] \in Seq(Tasks) /\ IsInjective(queue'[k][g])
        /\ Range(queue'[k][g]) = Range(queue[k][g]) \ {t}
        /\ \A u : u # t /\ Among(queue[k][g], 1, u) => Among(queue'[k][g], 1, u)
  <2> TAKE k \in Keys, g \in Ids
  <2>1. queue[k][g] \in Seq(Tasks) /\ IsInjective(queue[k][g])
    BY DEF BudgetInv, BudgetTypeOK
  <2>2. queue'[k][g] = RemoveFirst(queue[k][g], t)
    BY <1>1
  <2> QED
    BY <2>1, <2>2, Departs
<1>6. queue' \in [Keys -> [Ids -> Seq(Tasks)]]
  <2> SUFFICES ASSUME NEW k \in Keys, NEW g \in Ids
               PROVE  RemoveFirst(queue[k][g], t) \in Seq(Tasks)
    BY <1>1
  <2> QED
    BY <1>1, <1>5
<1>7. BudgetTypeOK'
  BY <1>1, <1>2, <1>3, <1>4, <1>5, <1>6 DEF BudgetInv, BudgetTypeOK
<1>8. OneSemaphorePerKey'
  BY <1>1, <1>3 DEF BudgetInv, OneSemaphorePerKey
<1>9. HandlesAreNeeds'
  BY <1>2, <1>3 DEF BudgetInv, HandlesAreNeeds
<1>10. QueuedHasHandle'
  <2> SUFFICES ASSUME NEW u \in Tasks, NEW k \in Keys, NEW g \in Ids, u \in Range(queue'[k][g])
               PROVE  handles'[u][k] = g
    BY DEF QueuedHasHandle
  <2>1. u \in Range(queue[k][g]) /\ u # t
    BY <1>5
  <2>2. handles[u][k] = g
    BY <2>1 DEF BudgetInv, QueuedHasHandle
  <2> QED
    BY <2>1, <2>2, <1>3
<1>11. PoolIsAsked'
  BY <1>2, <1>4 DEF BudgetInv, PoolIsAsked
<1>12. RunningHasPermit'
  BY <1>2, <1>4 DEF BudgetInv, RunningHasPermit, HoldsPermit, BudgetAssumption
<1>13. PoolIsLocked'
  <2> SUFFICES ASSUME NEW u \in Tasks, at'[u] \in {"permit", "running"}, NEW k \in Needs[u]
               PROVE  Among(queue'[k][handles'[u][k]], 1, u)
    BY DEF PoolIsLocked
  <2>1. u # t /\ at[u] \in {"permit", "running"} /\ k \in Keys /\ handles'[u] = handles[u]
    BY <1>2, <1>3 DEF BudgetAssumption
  <2>2. Among(queue[k][handles[u][k]], 1, u) /\ handles[u][k] # Absent
    BY <2>1 DEF BudgetInv, PoolIsLocked, HandlesAreNeeds
  <2>3. handles[u][k] \in Ids
    BY <2>1, <2>2 DEF BudgetInv, BudgetTypeOK
  <2> QED
    BY <2>1, <2>2, <2>3, <1>5
<1> QED
  BY <1>7, <1>8, <1>9, <1>10, <1>11, <1>12, <1>13 DEF BudgetInv

LEMMA BudgetNextKeeps ==
    ASSUME BudgetAssumption, BudgetInv, [BudgetNext]_budget
    PROVE  BudgetInv'
<1>1. CASE UNCHANGED budget
  BY <1>1 DEF budget, BudgetInv, BudgetTypeOK, OneSemaphorePerKey, HandlesAreNeeds, QueuedHasHandle,
     PoolIsAsked, PoolIsLocked, RunningHasPermit, HoldsPermit
<1>2. CASE BudgetNext
  <2>1. PICK t \in Tasks :
          \/ acquire(t)
          \/ \E k \in Keys : lock(t, k)
          \/ ask_permit(t) \/ start(t) \/ finish(t) \/ abandon(t)
    BY <1>2 DEF BudgetNext
  <2> QED
    BY <2>1, AcquireKeeps, LockKeeps, AskKeeps, StartKeeps, DropKeeps DEF finish, abandon
<1> QED
  BY <1>1, <1>2

-----------------------------------------------------------------------------
(* What the invariant says of those that run. *)

LEMMA RunningShareNothing ==
    ASSUME BudgetAssumption, BudgetInv, NEW t \in Tasks, NEW u \in Tasks,
           at[t] = "running", at[u] = "running", NEW k \in Needs[t], k \in Needs[u]
    PROVE  t = u
<1>1. k \in Keys /\ handles[t][k] # Absent /\ handles[u][k] # Absent
  BY DEF BudgetInv, HandlesAreNeeds, BudgetAssumption
<1>2. handles[t][k] = handles[u][k]
  BY <1>1 DEF BudgetInv, OneSemaphorePerKey
<1>3. Among(queue[k][handles[t][k]], 1, t) /\ Among(queue[k][handles[t][k]], 1, u)
  BY <1>2 DEF BudgetInv, PoolIsLocked
<1> QED
  BY <1>3 DEF Among

LEMMA RunningHavePermits ==
    ASSUME BudgetAssumption, BudgetInv
    PROVE  Cardinality({t \in Tasks : at[t] = "running"}) <= Permits
<1> DEFINE R == {t \in Tasks : at[t] = "running"}
           D == {i \in 1..Len(pool) : i <= Permits}
           f == [i \in D |-> pool[i]]
           T == {f[i] : i \in D}
<1>1. pool \in Seq(Tasks) /\ Permits \in Nat /\ Len(pool) \in Nat
  BY DEF BudgetInv, BudgetTypeOK, BudgetAssumption
<1>2. IsFiniteSet(1..Permits) /\ Cardinality(1..Permits) = Permits
  BY <1>1, FS_Interval DEF BudgetAssumption
<1>3. D \in SUBSET (1..Permits)
  BY <1>1
<1>4. IsFiniteSet(D) /\ Cardinality(D) <= Permits /\ Cardinality(D) \in Nat
  BY <1>2, <1>3, FS_Subset, FS_CardinalityType
<1>5. f \in Surjection(D, T)
  BY DEF Surjection
<1>6. IsFiniteSet(T) /\ Cardinality(T) <= Cardinality(D) /\ Cardinality(T) \in Nat
  BY <1>4, <1>5, FS_Surjection, FS_CardinalityType
<1>7. R \in SUBSET T
  BY DEF BudgetInv, RunningHasPermit, HoldsPermit, Among
<1>8. Cardinality(R) <= Cardinality(T) /\ Cardinality(R) \in Nat
  BY <1>6, <1>7, FS_Subset, FS_CardinalityType
<1> QED
  BY <1>1, <1>4, <1>6, <1>8

THEOREM BudgetInvariant ==
    ASSUME BudgetAssumption
    PROVE  BudgetSpec => []BudgetInv
<1>1. BudgetInit => BudgetInv
  BY InitBudget
<1>2. BudgetInv /\ [BudgetNext]_budget => BudgetInv'
  BY BudgetNextKeeps
<1> QED
  BY <1>1, <1>2, PTL DEF BudgetSpec

\* However acquisitions, drops and cancellations of any number of invocations
\* interleave, two that meet at a key meet at one semaphore, those that run share
\* no resource and are no more than max_tool_concurrency, and one that gave up or
\* ended holds nothing (ToolResourceLocks::acquire, acquire_tool_budget,
\* ToolBudgetPermit).
THEOREM BudgetIsSafe ==
    ASSUME BudgetAssumption
    PROVE  BudgetSpec => []BudgetSafety
<1>1. BudgetInv => BudgetRespected
  <2> SUFFICES ASSUME BudgetInv PROVE BudgetRespected
    OBVIOUS
  <2>1. \A t, u \in Tasks : (t # u /\ at[t] = "running" /\ at[u] = "running")
                              => Needs[t] \cap Needs[u] = {}
    BY RunningShareNothing
  <2> QED
    BY <2>1, RunningHavePermits DEF BudgetRespected
<1>2. BudgetInv => NothingLeaks
  <2> SUFFICES ASSUME BudgetInv, NEW t \in Tasks, at[t] = "idle"
               PROVE  /\ t \notin Range(pool)
                      /\ \A k \in Keys, g \in Ids : t \notin Range(queue[k][g])
    BY DEF NothingLeaks
  <2>1. t \notin Range(pool)
    BY DEF BudgetInv, PoolIsAsked
  <2>2. ASSUME NEW k \in Keys, NEW g \in Ids, t \in Range(queue[k][g]) PROVE FALSE
    <3>1. handles[t][k] = g
      BY <2>2 DEF BudgetInv, QueuedHasHandle
    <3> QED
      BY <3>1, AbsentIsNoId DEF BudgetInv, HandlesAreNeeds
  <2> QED
    BY <2>1, <2>2
<1>3. BudgetInv => BudgetSafety
  BY <1>1, <1>2 DEF BudgetInv, BudgetSafety
<1> QED
  BY BudgetInvariant, <1>3, PTL

-----------------------------------------------------------------------------
(***************************************************************************)
(* Remote interrupts.                                                      *)
(***************************************************************************)
(* The inductive invariant. *)

RunRecords == [status : {"running", "ended"}, lease : BOOLEAN, actor : BOOLEAN]

RowStates == {"none", "pending", "retired", "resolved", "cancelled", "expired"}

ExecPlaces == {"sampling", "persist", "admit", "store", "sleep", "poll", "lock", "read",
               "resume", "over"}

Ends == {Unset, "done", "unavailable", "stale", "cancelled", "lease_lost"}

ExecRecords ==
    [pc : ExecPlaces, round : Nat, renewing : BOOLEAN, fresh : BOOLEAN,
     carried : [Interrupts -> Answered] \cup {Unset}, end : Ends]

RowRecords == [state : RowStates, resume : {Unset} \cup ({"resume"} \X Nat), due : BOOLEAN]

PersonRecords ==
    [pc : {"idle", "lock", "write"}, on : Interrupts \cup {Unset},
     answer : Answers \cup {Unset}, fresh : BOOLEAN]

\* Every variable has its shape, and a person who answers knows what and how.
Shapes ==
    /\ run \in RunRecords
    /\ row \in [Interrupts -> RowRecords]
    /\ exec \in ExecRecords
    /\ person \in [People -> PersonRecords]
    /\ receipt \in [Interrupts -> Answers \cup {Unset}]
    /\ \A p \in People :
          person[p].pc # "idle" => person[p].on \in Interrupts /\ person[p].answer \in Answers

\* The run's row is locked by the executor exactly while its transaction is open and
\* by a person exactly while theirs is; the lease's row from the check of the
\* authority on.
LocksHeld ==
    /\ runLock \in {Free, Executor} \cup People
    /\ leaseLock \in {Free, Executor} \cup People
    /\ runLock = Executor <=> exec.pc \in {"admit", "store", "lock", "read"}
    /\ leaseLock = Executor <=> exec.pc \in {"store", "read"}
    /\ \A p \in People : runLock = p <=> person[p].pc = "write"
    /\ \A p \in People : leaseLock = p <=> person[p].pc = "write"

\* Whoever has the lease's row locked acts for a run that runs and an actor who may.
LockedIsAuthorized == leaseLock # Free => run.status = "running" /\ run.actor

\* Until the batch is stored there is no row and nobody was told anything.
NothingBeforeStored ==
    exec.pc \in {"persist", "admit", "store"} =>
        \A i \in Interrupts : row[i].state = "none" /\ receipt[i] = Unset

\* What a person was told is what the row says, until the row is retired.
ReceiptsHold ==
    \A i \in Interrupts : receipt[i] # Unset => row[i].state \in {receipt[i], "retired"}

\* While the agent is resumed the rows say what it is resumed with, or are retired.
CarriedHolds ==
    exec.pc = "resume" =>
        /\ exec.carried \in [Interrupts -> Answered]
        /\ \A i \in Interrupts :
              /\ row[i].state \in {exec.carried[i], "retired"}
              /\ receipt[i] # Unset => exec.carried[i] = receipt[i]

InterruptInv ==
    /\ Shapes
    /\ LocksHeld
    /\ LockedIsAuthorized
    /\ NothingBeforeStored
    /\ ReceiptsHold
    /\ CarriedHolds
    /\ EndedIsRetired

-----------------------------------------------------------------------------
(* Updates of the executor's record. *)

\* The executor moves.
LEMMA ExecMoves ==
    ASSUME exec \in ExecRecords, NEW x, x \in ExecPlaces, exec' = [exec EXCEPT !.pc = x]
    PROVE  exec' \in ExecRecords /\ exec'.pc = x
  BY DEF ExecRecords

\* It moves to the next round.
LEMMA ExecNextRound ==
    ASSUME exec \in ExecRecords, exec' = [exec EXCEPT !.pc = "persist", !.round = @ + 1]
    PROVE  exec' \in ExecRecords /\ exec'.pc = "persist"
  <1>1. exec.round + 1 \in Nat
    BY DEF ExecRecords
  <1>2. exec'.pc = "persist"
    BY DEF ExecRecords
  <1> QED BY <1>1, <1>2 DEF ExecRecords, ExecPlaces

\* It moves with a new snapshot.
LEMMA ExecOpens ==
    ASSUME exec \in ExecRecords, NEW x, x \in ExecPlaces,
           exec' = [exec EXCEPT !.pc = x, !.fresh = TRUE]
    PROVE  exec' \in ExecRecords /\ exec'.pc = x
  <1>1. exec'.pc = x
    BY DEF ExecRecords
  <1> QED BY <1>1 DEF ExecRecords

\* It ends.
LEMMA ExecEnds ==
    ASSUME exec \in ExecRecords, NEW why, why \in Ends, EndsWith(why)
    PROVE  exec' \in ExecRecords /\ exec'.pc = "over"
  <1>1. exec' = [exec EXCEPT !.pc = "over", !.end = why]
    BY DEF EndsWith
  <1>2. exec'.pc = "over"
    BY <1>1 DEF ExecRecords
  <1> QED BY <1>1, <1>2 DEF ExecRecords, ExecPlaces

\* It takes the answers with it, or drops them.
LEMMA ExecCarries ==
    ASSUME exec \in ExecRecords, NEW x, x \in ExecPlaces,
           NEW c, c \in [Interrupts -> Answered] \cup {Unset},
           exec' = [exec EXCEPT !.pc = x, !.carried = c]
    PROVE  exec' \in ExecRecords /\ exec'.pc = x /\ exec'.carried = c
  <1>1. exec'.pc = x /\ exec'.carried = c
    BY DEF ExecRecords
  <1> QED BY <1>1 DEF ExecRecords

\* It stays where it is: its snapshot is too old, or a renewal begins or ends.
LEMMA ExecStays ==
    ASSUME exec \in ExecRecords,
           \/ exec' = [exec EXCEPT !.fresh = FALSE]
           \/ exec' = [exec EXCEPT !.renewing = TRUE]
           \/ exec' = [exec EXCEPT !.renewing = FALSE, !.fresh = FALSE]
    PROVE  exec' \in ExecRecords /\ exec'.pc = exec.pc /\ exec'.carried = exec.carried
  <1>1. exec'.pc = exec.pc /\ exec'.carried = exec.carried
    BY DEF ExecRecords
  <1> QED BY <1>1 DEF ExecRecords

\* It loses its lease in a renewal.
LEMMA ExecLosesLease ==
    ASSUME exec \in ExecRecords,
           exec' = [exec EXCEPT !.renewing = FALSE, !.pc = "over", !.end = "lease_lost"]
    PROVE  exec' \in ExecRecords /\ exec'.pc = "over"
  <1>1. exec'.pc = "over"
    BY DEF ExecRecords
  <1> QED BY <1>1 DEF ExecRecords, ExecPlaces, Ends

-----------------------------------------------------------------------------
(* Updates of the people and of the rows. *)

\* What the other conjuncts ask of the people does not depend on their snapshots.
SamePeople ==
    /\ person' \in [People -> PersonRecords]
    /\ \A p \in People : /\ person'[p].pc = person[p].pc
                         /\ person'[p].on = person[p].on
                         /\ person'[p].answer = person[p].answer

\* Snapshots that became too old.
LEMMA PeopleOutdated ==
    ASSUME Shapes, person' = [p \in People |-> [person[p] EXCEPT !.fresh = FALSE]]
    PROVE  SamePeople
  <1>1. \A p \in People : person[p] \in PersonRecords
    BY DEF Shapes
  <1>2. ASSUME NEW p \in People
        PROVE  /\ person'[p] \in PersonRecords
               /\ person'[p].pc = person[p].pc
               /\ person'[p].on = person[p].on
               /\ person'[p].answer = person[p].answer
    BY <1>1 DEF PersonRecords
  <1> QED BY <1>2 DEF SamePeople

\* One person is at rest, the others stay where they are.
RestsAlone(p) ==
    /\ person' \in [People -> PersonRecords]
    /\ person'[p].pc = "idle"
    /\ \A q \in People \ {p} : /\ person'[q].pc = person[q].pc
                               /\ person'[q].on = person[q].on
                               /\ person'[q].answer = person[q].answer

LEMMA RestRests ==
    ASSUME Shapes, NEW p, p \in People, Rest(p)
    PROVE  RestsAlone(p)
  <1>1. AtRest \in PersonRecords /\ AtRest.pc = "idle"
    BY DEF AtRest, PersonRecords
  <1> QED BY <1>1 DEF Rest, RestsAlone, Shapes

LEMMA OutdatedRests ==
    ASSUME Shapes, NEW p, p \in People, Outdated(p)
    PROVE  RestsAlone(p)
  <1>1. AtRest \in PersonRecords /\ AtRest.pc = "idle"
    BY DEF AtRest, PersonRecords
  <1>2. \A q \in People : person[q] \in PersonRecords
    BY DEF Shapes
  <1>3. ASSUME NEW q \in People, q # p
        PROVE  /\ person'[q] \in PersonRecords
               /\ person'[q].pc = person[q].pc
               /\ person'[q].on = person[q].on
               /\ person'[q].answer = person[q].answer
    BY <1>2, <1>3 DEF Outdated, PersonRecords
  <1>4. person'[p] = AtRest
    BY DEF Outdated
  <1>5. person' \in [People -> PersonRecords]
    BY <1>1, <1>3, <1>4 DEF Outdated
  <1> QED BY <1>1, <1>3, <1>4, <1>5 DEF RestsAlone

\* Retired rows: whatever was there can no longer be answered.
LEMMA RowsRetire ==
    ASSUME Shapes, row' = retire_remote_interrupts
    PROVE  /\ row' \in [Interrupts -> RowRecords]
           /\ \A i \in Interrupts :
                \/ row[i].state = "none" /\ row'[i] = row[i]
                \/ row[i].state # "none" /\ row'[i].state = "retired"
  <1>1. \A i \in Interrupts : row[i] \in RowRecords
    BY DEF Shapes
  <1>2. ASSUME NEW i \in Interrupts, row[i].state # "none"
        PROVE  row'[i] \in RowRecords /\ row'[i].state = "retired"
    BY <1>1, <1>2 DEF retire_remote_interrupts, RowRecords, RowStates
  <1>3. ASSUME NEW i \in Interrupts, row[i].state = "none"
        PROVE  row'[i] = row[i]
    BY <1>3 DEF retire_remote_interrupts
  <1>4. row' \in [Interrupts -> RowRecords]
    BY <1>1, <1>2, <1>3 DEF retire_remote_interrupts
  <1> QED BY <1>2, <1>3, <1>4

-----------------------------------------------------------------------------
(* Every action keeps the invariant. *)

\* A new batch: no rows, nothing told.
LEMMA InterruptedKeeps ==
    ASSUME InterruptAssumption, InterruptInv, interrupted
    PROVE  InterruptInv'
  <1> USE DEF InterruptInv, InterruptAssumption
  <1>1. exec' \in ExecRecords /\ exec'.pc = "persist" /\ exec.pc = "sampling"
    BY ExecNextRound DEF interrupted, Shapes
  <1>2. row' = [i \in Interrupts |-> NoRow] /\ receipt' = [i \in Interrupts |-> Unset]
    BY DEF interrupted
  <1>3. UNCHANGED <<run, runLock, leaseLock, person>>
    BY DEF interrupted
  <1>4. NoRow \in RowRecords /\ NoRow.state = "none"
    BY DEF NoRow, RowRecords, RowStates
  <1>5. Shapes'
    BY <1>1, <1>2, <1>3, <1>4 DEF Shapes
  <1>6. LocksHeld'
    BY <1>1, <1>2, <1>3, <1>4 DEF LocksHeld, Free, Executor
  <1>7. LockedIsAuthorized'
    BY <1>1, <1>2, <1>3, <1>4 DEF LockedIsAuthorized, LocksHeld, Free, Executor
  <1>8. NothingBeforeStored'
    BY <1>1, <1>2, <1>3, <1>4 DEF NothingBeforeStored
  <1>9. ReceiptsHold'
    BY <1>1, <1>2, <1>3, <1>4 DEF ReceiptsHold
  <1>10. CarriedHolds'
    BY <1>1, <1>2, <1>3, <1>4 DEF CarriedHolds
  <1>11. EndedIsRetired'
    BY <1>1, <1>2, <1>3, <1>4 DEF EndedIsRetired
  <1> QED BY <1>5, <1>6, <1>7, <1>8, <1>9, <1>10, <1>11

\* The agent is done.
LEMMA FinishedKeeps ==
    ASSUME InterruptAssumption, InterruptInv, finished
    PROVE  InterruptInv'
  <1> USE DEF InterruptInv, InterruptAssumption
  <1>1. exec' \in ExecRecords /\ exec'.pc = "over" /\ exec.pc = "sampling"
    BY ExecEnds DEF finished, Shapes, Ends
  <1>2. UNCHANGED <<run, row, runLock, leaseLock, person, receipt>>
    BY DEF finished
  <1>3. Shapes'
    BY <1>1, <1>2 DEF Shapes
  <1>4. LocksHeld'
    BY <1>1, <1>2 DEF LocksHeld, Free, Executor
  <1>5. LockedIsAuthorized'
    BY <1>1, <1>2 DEF LockedIsAuthorized, LocksHeld, Free, Executor
  <1>6. NothingBeforeStored'
    BY <1>1, <1>2 DEF NothingBeforeStored
  <1>7. ReceiptsHold'
    BY <1>1, <1>2 DEF ReceiptsHold
  <1>8. CarriedHolds'
    BY <1>1, <1>2 DEF CarriedHolds
  <1>9. EndedIsRetired'
    BY <1>1, <1>2 DEF EndedIsRetired
  <1> QED BY <1>3, <1>4, <1>5, <1>6, <1>7, <1>8, <1>9

\* The run's row is locked, or the executor gives up.
LEMMA ScopeRunKeeps ==
    ASSUME InterruptAssumption, InterruptInv, NEW pc, NEW next,
           <<pc, next>> \in {<<"persist", "admit">>, <<"poll", "lock">>}, scope_run(pc, next)
    PROVE  InterruptInv'
  <1> USE DEF InterruptInv, InterruptAssumption
  <1>1. \/ pc = "persist" /\ next = "admit"
        \/ pc = "poll" /\ next = "lock"
    OBVIOUS
  <1>2. exec' \in ExecRecords /\ exec.pc = pc
    BY <1>1, ExecOpens, ExecEnds DEF scope_run, Shapes, ExecPlaces, Ends
  <1>3. \/ runLock = Free /\ runLock' = Executor /\ exec'.pc = next
        \/ UNCHANGED runLock /\ runLock # Free /\ exec'.pc = "over"
    BY <1>1, ExecOpens, ExecEnds DEF scope_run, Shapes, ExecPlaces, Ends
  <1>4. UNCHANGED <<run, row, leaseLock, person, receipt>>
    BY DEF scope_run
  <1>5. Shapes'
    BY <1>1, <1>2, <1>3, <1>4 DEF Shapes
  <1>6. LocksHeld'
    BY <1>1, <1>2, <1>3, <1>4 DEF LocksHeld, Free, Executor
  <1>7. LockedIsAuthorized'
    BY <1>1, <1>2, <1>3, <1>4 DEF LockedIsAuthorized, LocksHeld, Free, Executor
  <1>8. NothingBeforeStored'
    BY <1>1, <1>2, <1>3, <1>4 DEF NothingBeforeStored
  <1>9. ReceiptsHold'
    BY <1>1, <1>2, <1>3, <1>4 DEF ReceiptsHold
  <1>10. CarriedHolds'
    BY <1>1, <1>2, <1>3, <1>4 DEF CarriedHolds
  <1>11. EndedIsRetired'
    BY <1>1, <1>2, <1>3, <1>4 DEF EndedIsRetired
  <1> QED BY <1>5, <1>6, <1>7, <1>8, <1>9, <1>10, <1>11

\* The lease's row is locked for a run and an actor that hold, or not at all.
LEMMA ScopeAuthorityKeeps ==
    ASSUME InterruptAssumption, InterruptInv, NEW pc, NEW next,
           <<pc, next>> \in {<<"admit", "store">>, <<"lock", "read">>},
           scope_authority(pc, next)
    PROVE  InterruptInv'
  <1> USE DEF InterruptInv, InterruptAssumption
  <1>1. \/ pc = "admit" /\ next = "store"
        \/ pc = "lock" /\ next = "read"
    OBVIOUS
  <1>2. exec' \in ExecRecords /\ exec.pc = pc
    BY <1>1, ExecMoves, ExecEnds DEF scope_authority, Shapes, ExecPlaces, Ends
  <1>3. leaseLock = Free
    BY DEF scope_authority
  <1>4. \/ /\ UNCHANGED runLock
           /\ leaseLock' = Executor
           /\ exec'.pc = next
           /\ run.status = "running"
           /\ run.actor
        \/ runLock' = Free /\ UNCHANGED leaseLock /\ exec'.pc = "over"
    BY <1>1, ExecMoves, ExecEnds DEF scope_authority, Shapes, ExecPlaces, Ends, Authorized
  <1>5. UNCHANGED <<run, row, person, receipt>>
    BY DEF scope_authority
  <1>6. Shapes'
    BY <1>1, <1>2, <1>3, <1>4, <1>5 DEF Shapes
  <1>7. LocksHeld'
    BY <1>1, <1>2, <1>3, <1>4, <1>5 DEF LocksHeld, Free, Executor
  <1>8. LockedIsAuthorized'
    BY <1>1, <1>2, <1>3, <1>4, <1>5 DEF LockedIsAuthorized, LocksHeld, Free, Executor
  <1>9. NothingBeforeStored'
    BY <1>1, <1>2, <1>3, <1>4, <1>5 DEF NothingBeforeStored
  <1>10. ReceiptsHold'
    BY <1>1, <1>2, <1>3, <1>4, <1>5 DEF ReceiptsHold
  <1>11. CarriedHolds'
    BY <1>1, <1>2, <1>3, <1>4, <1>5 DEF CarriedHolds
  <1>12. EndedIsRetired'
    BY <1>1, <1>2, <1>3, <1>4, <1>5 DEF EndedIsRetired
  <1> QED BY <1>6, <1>7, <1>8, <1>9, <1>10, <1>11, <1>12

\* The batch is stored.
LEMMA PersistKeeps ==
    ASSUME InterruptAssumption, InterruptInv, persist_batch
    PROVE  InterruptInv'
  <1> USE DEF InterruptInv, InterruptAssumption
  <1>1. exec' \in ExecRecords /\ exec'.pc = "sleep" /\ exec.pc = "store"
    BY ExecMoves DEF persist_batch, Shapes, ExecPlaces
  <1>2. row' = [i \in Interrupts |-> [NoRow EXCEPT !.state = "pending"]]
    BY DEF persist_batch
  <1>3. [NoRow EXCEPT !.state = "pending"] \in RowRecords
    BY DEF NoRow, RowRecords, RowStates
  <1>4. runLock' = Free /\ leaseLock' = Free /\ UNCHANGED <<run, person, receipt>>
    BY DEF persist_batch, Unlocked
  <1>5. \A i \in Interrupts : receipt[i] = Unset
    BY <1>1 DEF NothingBeforeStored
  <1>6. leaseLock = Executor /\ run.status = "running"
    BY <1>1 DEF LocksHeld, LockedIsAuthorized, Free, Executor
  <1>7. Shapes'
    BY <1>1, <1>2, <1>3, <1>4, <1>5, <1>6 DEF Shapes
  <1>8. LocksHeld'
    BY <1>1, <1>2, <1>3, <1>4, <1>5, <1>6 DEF LocksHeld, Free, Executor
  <1>9. LockedIsAuthorized'
    BY <1>1, <1>2, <1>3, <1>4, <1>5, <1>6 DEF LockedIsAuthorized, LocksHeld, Free, Executor
  <1>10. NothingBeforeStored'
    BY <1>1, <1>2, <1>3, <1>4, <1>5, <1>6 DEF NothingBeforeStored
  <1>11. ReceiptsHold'
    BY <1>1, <1>2, <1>3, <1>4, <1>5, <1>6 DEF ReceiptsHold
  <1>12. CarriedHolds'
    BY <1>1, <1>2, <1>3, <1>4, <1>5, <1>6 DEF CarriedHolds
  <1>13. EndedIsRetired'
    BY <1>1, <1>2, <1>3, <1>4, <1>5, <1>6 DEF EndedIsRetired
  <1> QED BY <1>7, <1>8, <1>9, <1>10, <1>11, <1>12, <1>13

\* The next poll begins.
LEMMA WakeKeeps ==
    ASSUME InterruptAssumption, InterruptInv, wake
    PROVE  InterruptInv'
  <1> USE DEF InterruptInv, InterruptAssumption
  <1>1. exec' \in ExecRecords /\ exec'.pc = "poll" /\ exec.pc = "sleep"
    BY ExecMoves DEF wake, Shapes, ExecPlaces
  <1>2. UNCHANGED <<run, row, runLock, leaseLock, person, receipt>>
    BY DEF wake
  <1>3. Shapes'
    BY <1>1, <1>2 DEF Shapes
  <1>4. LocksHeld'
    BY <1>1, <1>2 DEF LocksHeld, Free, Executor
  <1>5. LockedIsAuthorized'
    BY <1>1, <1>2 DEF LockedIsAuthorized, LocksHeld, Free, Executor
  <1>6. NothingBeforeStored'
    BY <1>1, <1>2 DEF NothingBeforeStored
  <1>7. ReceiptsHold'
    BY <1>1, <1>2 DEF ReceiptsHold
  <1>8. CarriedHolds'
    BY <1>1, <1>2 DEF CarriedHolds
  <1>9. EndedIsRetired'
    BY <1>1, <1>2 DEF EndedIsRetired
  <1> QED BY <1>3, <1>4, <1>5, <1>6, <1>7, <1>8, <1>9

\* The answers are sent.
LEMMA ResumedKeeps ==
    ASSUME InterruptAssumption, InterruptInv, resumed
    PROVE  InterruptInv'
  <1> USE DEF InterruptInv, InterruptAssumption
  <1>1. exec' \in ExecRecords /\ exec'.pc = "sampling" /\ exec.pc = "resume"
    BY ExecCarries DEF resumed, Shapes, ExecPlaces
  <1>2. UNCHANGED <<run, row, runLock, leaseLock, person, receipt>>
    BY DEF resumed
  <1>3. Shapes'
    BY <1>1, <1>2 DEF Shapes
  <1>4. LocksHeld'
    BY <1>1, <1>2 DEF LocksHeld, Free, Executor
  <1>5. LockedIsAuthorized'
    BY <1>1, <1>2 DEF LockedIsAuthorized, LocksHeld, Free, Executor
  <1>6. NothingBeforeStored'
    BY <1>1, <1>2 DEF NothingBeforeStored
  <1>7. ReceiptsHold'
    BY <1>1, <1>2 DEF ReceiptsHold
  <1>8. CarriedHolds'
    BY <1>1, <1>2 DEF CarriedHolds
  <1>9. EndedIsRetired'
    BY <1>1, <1>2 DEF EndedIsRetired
  <1> QED BY <1>3, <1>4, <1>5, <1>6, <1>7, <1>8, <1>9

\* The wait is dropped with its transaction.
LEMMA CancelledKeeps ==
    ASSUME InterruptAssumption, InterruptInv, cancelled
    PROVE  InterruptInv'
  <1> USE DEF InterruptInv, InterruptAssumption
  <1>1. exec' \in ExecRecords /\ exec'.pc = "over"
    BY ExecEnds DEF cancelled, Shapes, Ends
  <1>2. /\ runLock' = IF runLock = Executor THEN Free ELSE runLock
        /\ leaseLock' = IF leaseLock = Executor THEN Free ELSE leaseLock
    BY DEF cancelled
  <1>3. UNCHANGED <<run, row, person, receipt>>
    BY DEF cancelled
  <1>4. Shapes'
    BY <1>1, <1>2, <1>3 DEF Shapes
  <1>5. LocksHeld'
    BY <1>1, <1>2, <1>3 DEF LocksHeld, Free, Executor
  <1>6. LockedIsAuthorized'
    BY <1>1, <1>2, <1>3 DEF LockedIsAuthorized, LocksHeld, Free, Executor
  <1>7. NothingBeforeStored'
    BY <1>1, <1>2, <1>3 DEF NothingBeforeStored
  <1>8. ReceiptsHold'
    BY <1>1, <1>2, <1>3 DEF ReceiptsHold
  <1>9. CarriedHolds'
    BY <1>1, <1>2, <1>3 DEF CarriedHolds
  <1>10. EndedIsRetired'
    BY <1>1, <1>2, <1>3 DEF EndedIsRetired
  <1> QED BY <1>4, <1>5, <1>6, <1>7, <1>8, <1>9, <1>10

\* A renewal falls due.
LEMMA TickKeeps ==
    ASSUME InterruptAssumption, InterruptInv, renew_tick
    PROVE  InterruptInv'
  <1> USE DEF InterruptInv, InterruptAssumption
  <1>1. exec' \in ExecRecords /\ exec'.pc = exec.pc /\ exec'.carried = exec.carried
    BY ExecStays DEF renew_tick, Shapes
  <1>2. UNCHANGED <<run, row, runLock, leaseLock, person, receipt>>
    BY DEF renew_tick
  <1>3. Shapes'
    BY <1>1, <1>2 DEF Shapes
  <1>4. LocksHeld'
    BY <1>1, <1>2 DEF LocksHeld, Free, Executor
  <1>5. LockedIsAuthorized'
    BY <1>1, <1>2 DEF LockedIsAuthorized, LocksHeld, Free, Executor
  <1>6. NothingBeforeStored'
    BY <1>1, <1>2 DEF NothingBeforeStored
  <1>7. ReceiptsHold'
    BY <1>1, <1>2 DEF ReceiptsHold
  <1>8. CarriedHolds'
    BY <1>1, <1>2 DEF CarriedHolds
  <1>9. EndedIsRetired'
    BY <1>1, <1>2 DEF EndedIsRetired
  <1> QED BY <1>3, <1>4, <1>5, <1>6, <1>7, <1>8, <1>9

\* The lease is renewed, or found lost.
LEMMA RenewalKeeps ==
    ASSUME InterruptAssumption, InterruptInv, renew_lease
    PROVE  InterruptInv'
  <1> USE DEF InterruptInv, InterruptAssumption
  <1>1. leaseLock = Free /\ UNCHANGED <<run, row, leaseLock, receipt>>
    BY DEF renew_lease
  <1>2. \/ /\ exec' \in ExecRecords
           /\ exec'.pc = exec.pc
           /\ exec'.carried = exec.carried
           /\ SamePeople
           /\ UNCHANGED runLock
        \/ /\ exec' \in ExecRecords /\ exec'.pc = "over" /\ UNCHANGED person
           /\ runLock' = IF runLock = Executor THEN Free ELSE runLock
    BY ExecStays, ExecLosesLease, PeopleOutdated DEF renew_lease, Shapes
  <1>3. Shapes'
    BY <1>1, <1>2 DEF Shapes, SamePeople
  <1>4. LocksHeld'
    BY <1>1, <1>2 DEF LocksHeld, SamePeople, Free, Executor
  <1>5. LockedIsAuthorized'
    BY <1>1, <1>2 DEF LockedIsAuthorized, LocksHeld, Free, Executor
  <1>6. NothingBeforeStored'
    BY <1>1, <1>2 DEF NothingBeforeStored
  <1>7. ReceiptsHold'
    BY <1>1, <1>2 DEF ReceiptsHold
  <1>8. CarriedHolds'
    BY <1>1, <1>2 DEF CarriedHolds
  <1>9. EndedIsRetired'
    BY <1>1, <1>2 DEF EndedIsRetired
  <1> QED BY <1>3, <1>4, <1>5, <1>6, <1>7, <1>8, <1>9

\* A person begins to answer.
LEMMA AnswerKeeps ==
    ASSUME InterruptAssumption, InterruptInv, NEW p, p \in People, NEW i, i \in Interrupts,
           NEW a, a \in Answers, answer(p, i, a)
    PROVE  InterruptInv'
  <1> USE DEF InterruptInv, InterruptAssumption
  <1>1. UNCHANGED <<run, row, runLock, leaseLock, exec, receipt>>
    BY DEF answer
  <1>2. /\ person' = [person EXCEPT ![p] = [pc |-> "lock", on |-> i, answer |-> a, fresh |-> TRUE]]
        /\ person[p].pc = "idle"
    BY DEF answer
  <1>3. [pc |-> "lock", on |-> i, answer |-> a, fresh |-> TRUE] \in PersonRecords
    BY DEF PersonRecords
  <1>4. Shapes'
    BY <1>1, <1>2, <1>3 DEF Shapes
  <1>5. LocksHeld'
    BY <1>1, <1>2, <1>3 DEF LocksHeld, Shapes
  <1>6. LockedIsAuthorized'
    BY <1>1, <1>2, <1>3 DEF LockedIsAuthorized, LocksHeld, Free, Executor
  <1>7. NothingBeforeStored'
    BY <1>1, <1>2, <1>3 DEF NothingBeforeStored
  <1>8. ReceiptsHold'
    BY <1>1, <1>2, <1>3 DEF ReceiptsHold
  <1>9. CarriedHolds'
    BY <1>1, <1>2, <1>3 DEF CarriedHolds
  <1>10. EndedIsRetired'
    BY <1>1, <1>2, <1>3 DEF EndedIsRetired
  <1> QED BY <1>4, <1>5, <1>6, <1>7, <1>8, <1>9, <1>10

\* A person locks the rows for a run and an actor that hold, or gives up.
LEMMA AnswerLockKeeps ==
    ASSUME InterruptAssumption, InterruptInv, NEW p, p \in People, resolve_lock(p)
    PROVE  InterruptInv'
  <1> USE DEF InterruptInv, InterruptAssumption
  <1>1. /\ UNCHANGED <<run, row, exec, receipt>>
        /\ person[p].pc = "lock"
        /\ runLock = Free
        /\ leaseLock = Free
    BY DEF resolve_lock
  <1>2. person[p] \in PersonRecords
    BY DEF Shapes
  <1>3. \/ RestsAlone(p) /\ UNCHANGED <<runLock, leaseLock>>
        \/ /\ runLock' = p /\ leaseLock' = p /\ run.status = "running" /\ run.actor
           /\ person' = [person EXCEPT ![p].pc = "write"]
    BY RestRests DEF resolve_lock, Authorized
  <1>4. Shapes'
    <2>1. CASE RestsAlone(p)
      BY <2>1, <1>1, <1>2, <1>3 DEF Shapes, RestsAlone
    <2>2. CASE person' = [person EXCEPT ![p].pc = "write"]
      BY <2>2, <1>1, <1>2, <1>3 DEF Shapes, PersonRecords
    <2> QED BY <1>3, <2>1, <2>2
  <1>5. LocksHeld'
    <2>1. CASE RestsAlone(p) /\ UNCHANGED <<runLock, leaseLock>>
      BY <2>1, <1>1, <1>2, <1>3 DEF LocksHeld, RestsAlone, Free, Executor
    <2>2. CASE runLock' = p /\ leaseLock' = p /\ person' = [person EXCEPT ![p].pc = "write"]
      BY <2>2, <1>1, <1>2, <1>3 DEF LocksHeld, Shapes, PersonRecords, Free, Executor
    <2> QED BY <1>3, <2>1, <2>2
  <1>6. LockedIsAuthorized'
    BY <1>1, <1>2, <1>3 DEF LockedIsAuthorized, LocksHeld, Free, Executor
  <1>7. NothingBeforeStored'
    BY <1>1, <1>2, <1>3 DEF NothingBeforeStored
  <1>8. ReceiptsHold'
    BY <1>1, <1>2, <1>3 DEF ReceiptsHold
  <1>9. CarriedHolds'
    BY <1>1, <1>2, <1>3 DEF CarriedHolds
  <1>10. EndedIsRetired'
    BY <1>1, <1>2, <1>3 DEF EndedIsRetired
  <1> QED BY <1>4, <1>5, <1>6, <1>7, <1>8, <1>9, <1>10

\* The executor's terminal retires the rows.
LEMMA FinishKeeps ==
    ASSUME InterruptAssumption, InterruptInv, finish_run
    PROVE  InterruptInv'
  <1> USE DEF InterruptInv, InterruptAssumption
  <1>1. runLock = Free /\ leaseLock = Free /\ UNCHANGED <<runLock, leaseLock, receipt>>
    BY DEF finish_run
  <1>2. exec' \in ExecRecords /\ exec'.pc = exec.pc /\ exec'.carried = exec.carried
    BY ExecStays DEF finish_run, Shapes
  <1>3. SamePeople
    BY PeopleOutdated DEF finish_run
  <1>4. run' \in RunRecords
    BY DEF finish_run, Shapes, RunRecords
  <1>5. /\ row' \in [Interrupts -> RowRecords]
        /\ \A i \in Interrupts :
             \/ row[i].state = "none" /\ row'[i] = row[i]
             \/ row[i].state # "none" /\ row'[i].state = "retired"
    BY RowsRetire DEF finish_run
  <1>6. Shapes'
    BY <1>1, <1>2, <1>3, <1>4, <1>5 DEF Shapes, SamePeople
  <1>7. LocksHeld'
    BY <1>1, <1>2, <1>3, <1>4, <1>5 DEF LocksHeld, SamePeople, Free, Executor
  <1>8. LockedIsAuthorized'
    BY <1>1, <1>2, <1>3, <1>4, <1>5 DEF LockedIsAuthorized, LocksHeld, Free, Executor
  <1>9. NothingBeforeStored'
    BY <1>1, <1>2, <1>3, <1>4, <1>5 DEF NothingBeforeStored
  <1>10. ReceiptsHold'
    BY <1>1, <1>2, <1>3, <1>4, <1>5 DEF ReceiptsHold
  <1>11. CarriedHolds'
    BY <1>1, <1>2, <1>3, <1>4, <1>5 DEF CarriedHolds
  <1>12. EndedIsRetired'
    BY <1>1, <1>2, <1>3, <1>4, <1>5 DEF EndedIsRetired
  <1> QED BY <1>6, <1>7, <1>8, <1>9, <1>10, <1>11, <1>12

\* Recovery's terminal retires the rows.
LEMMA RecoverKeeps ==
    ASSUME InterruptAssumption, InterruptInv, recover
    PROVE  InterruptInv'
  <1> USE DEF InterruptInv, InterruptAssumption
  <1>1. runLock = Free /\ leaseLock = Free /\ UNCHANGED <<runLock, leaseLock, receipt>>
    BY DEF recover
  <1>2. exec' \in ExecRecords /\ exec'.pc = exec.pc /\ exec'.carried = exec.carried
    BY ExecStays DEF recover, Shapes
  <1>3. SamePeople
    BY PeopleOutdated DEF recover
  <1>4. run' \in RunRecords
    BY DEF recover, Shapes, RunRecords
  <1>5. /\ row' \in [Interrupts -> RowRecords]
        /\ \A i \in Interrupts :
             \/ row[i].state = "none" /\ row'[i] = row[i]
             \/ row[i].state # "none" /\ row'[i].state = "retired"
    BY RowsRetire DEF recover
  <1>6. Shapes'
    BY <1>1, <1>2, <1>3, <1>4, <1>5 DEF Shapes, SamePeople
  <1>7. LocksHeld'
    BY <1>1, <1>2, <1>3, <1>4, <1>5 DEF LocksHeld, SamePeople, Free, Executor
  <1>8. LockedIsAuthorized'
    BY <1>1, <1>2, <1>3, <1>4, <1>5 DEF LockedIsAuthorized, LocksHeld, Free, Executor
  <1>9. NothingBeforeStored'
    BY <1>1, <1>2, <1>3, <1>4, <1>5 DEF NothingBeforeStored
  <1>10. ReceiptsHold'
    BY <1>1, <1>2, <1>3, <1>4, <1>5 DEF ReceiptsHold
  <1>11. CarriedHolds'
    BY <1>1, <1>2, <1>3, <1>4, <1>5 DEF CarriedHolds
  <1>12. EndedIsRetired'
    BY <1>1, <1>2, <1>3, <1>4, <1>5 DEF EndedIsRetired
  <1> QED BY <1>6, <1>7, <1>8, <1>9, <1>10, <1>11, <1>12

\* An answer is overdue.
LEMMA RipenKeeps ==
    ASSUME InterruptAssumption, InterruptInv, NEW j, j \in Interrupts, ripen(j)
    PROVE  InterruptInv'
  <1> USE DEF InterruptInv, InterruptAssumption
  <1>1. UNCHANGED <<run, runLock, leaseLock, exec, person, receipt>>
    BY DEF ripen
  <1>2. row[j] \in RowRecords
    BY DEF Shapes
  <1>3. row' \in [Interrupts -> RowRecords]
    BY <1>2 DEF ripen, Shapes, RowRecords
  <1>4. \A i \in Interrupts : row'[i].state = row[i].state
    BY <1>2 DEF ripen, Shapes, RowRecords
  <1>5. Shapes'
    BY <1>1, <1>2, <1>3, <1>4 DEF Shapes
  <1>6. LocksHeld'
    BY <1>1, <1>2, <1>3, <1>4 DEF LocksHeld, Free, Executor
  <1>7. LockedIsAuthorized'
    BY <1>1, <1>2, <1>3, <1>4 DEF LockedIsAuthorized, LocksHeld, Free, Executor
  <1>8. NothingBeforeStored'
    BY <1>1, <1>2, <1>3, <1>4 DEF NothingBeforeStored
  <1>9. ReceiptsHold'
    BY <1>1, <1>2, <1>3, <1>4 DEF ReceiptsHold
  <1>10. CarriedHolds'
    BY <1>1, <1>2, <1>3, <1>4 DEF CarriedHolds
  <1>11. EndedIsRetired'
    BY <1>1, <1>2, <1>3, <1>4 DEF EndedIsRetired
  <1> QED BY <1>5, <1>6, <1>7, <1>8, <1>9, <1>10, <1>11

\* The lease runs out.
LEMMA LeaseOutKeeps ==
    ASSUME InterruptAssumption, InterruptInv, lease_runs_out
    PROVE  InterruptInv'
  <1> USE DEF InterruptInv, InterruptAssumption
  <1>1. UNCHANGED <<row, runLock, leaseLock, exec, person, receipt>>
    BY DEF lease_runs_out
  <1>2. run' \in RunRecords /\ run'.status = run.status /\ run'.actor = run.actor
    BY DEF lease_runs_out, Shapes, RunRecords
  <1>3. Shapes'
    BY <1>1, <1>2 DEF Shapes
  <1>4. LocksHeld'
    BY <1>1, <1>2 DEF LocksHeld, Free, Executor
  <1>5. LockedIsAuthorized'
    BY <1>1, <1>2 DEF LockedIsAuthorized, LocksHeld, Free, Executor
  <1>6. NothingBeforeStored'
    BY <1>1, <1>2 DEF NothingBeforeStored
  <1>7. ReceiptsHold'
    BY <1>1, <1>2 DEF ReceiptsHold
  <1>8. CarriedHolds'
    BY <1>1, <1>2 DEF CarriedHolds
  <1>9. EndedIsRetired'
    BY <1>1, <1>2 DEF EndedIsRetired
  <1> QED BY <1>3, <1>4, <1>5, <1>6, <1>7, <1>8, <1>9

\* The actor's authority is withdrawn.
LEMMA RevokeKeeps ==
    ASSUME InterruptAssumption, InterruptInv, revoke_actor
    PROVE  InterruptInv'
  <1> USE DEF InterruptInv, InterruptAssumption
  <1>1. leaseLock = Free /\ UNCHANGED <<row, runLock, leaseLock, receipt>>
    BY DEF revoke_actor
  <1>2. exec' \in ExecRecords /\ exec'.pc = exec.pc /\ exec'.carried = exec.carried
    BY ExecStays DEF revoke_actor, Shapes
  <1>3. SamePeople
    BY PeopleOutdated DEF revoke_actor
  <1>4. run' \in RunRecords /\ run'.status = run.status
    BY DEF revoke_actor, Shapes, RunRecords
  <1>5. Shapes'
    BY <1>1, <1>2, <1>3, <1>4 DEF Shapes, SamePeople
  <1>6. LocksHeld'
    BY <1>1, <1>2, <1>3, <1>4 DEF LocksHeld, SamePeople, Free, Executor
  <1>7. LockedIsAuthorized'
    BY <1>1, <1>2, <1>3, <1>4 DEF LockedIsAuthorized, LocksHeld, Free, Executor
  <1>8. NothingBeforeStored'
    BY <1>1, <1>2, <1>3, <1>4 DEF NothingBeforeStored
  <1>9. ReceiptsHold'
    BY <1>1, <1>2, <1>3, <1>4 DEF ReceiptsHold
  <1>10. CarriedHolds'
    BY <1>1, <1>2, <1>3, <1>4 DEF CarriedHolds
  <1>11. EndedIsRetired'
    BY <1>1, <1>2, <1>3, <1>4 DEF EndedIsRetired
  <1> QED BY <1>5, <1>6, <1>7, <1>8, <1>9, <1>10, <1>11

\* A connection is lost.
LEMMA LossKeeps ==
    ASSUME InterruptAssumption, InterruptInv, connection_lost
    PROVE  InterruptInv'
  <1> USE DEF InterruptInv, InterruptAssumption
  <1>1. UNCHANGED <<run, row, receipt>>
    BY DEF connection_lost
  <1>2. \/ /\ exec.pc \in InTransaction /\ exec' \in ExecRecords /\ exec'.pc = "over"
           /\ runLock' = Free
           /\ leaseLock' = IF leaseLock = Executor THEN Free ELSE leaseLock
           /\ UNCHANGED person
        \/ /\ runLock' = Free /\ leaseLock' = Free /\ UNCHANGED exec
           /\ \E p \in People : person[p].pc = "write" /\ RestsAlone(p)
    BY ExecEnds, RestRests DEF connection_lost, Shapes, Ends, Unlocked
  <1>3. Shapes'
    BY <1>1, <1>2 DEF Shapes, RestsAlone
  <1>4. LocksHeld'
    BY <1>1, <1>2 DEF LocksHeld, RestsAlone, Free, Executor, InTransaction
  <1>5. LockedIsAuthorized'
    BY <1>1, <1>2 DEF LockedIsAuthorized, LocksHeld, Free, Executor
  <1>6. NothingBeforeStored'
    BY <1>1, <1>2 DEF NothingBeforeStored
  <1>7. ReceiptsHold'
    BY <1>1, <1>2 DEF ReceiptsHold
  <1>8. CarriedHolds'
    BY <1>1, <1>2 DEF CarriedHolds
  <1>9. EndedIsRetired'
    BY <1>1, <1>2 DEF EndedIsRetired
  <1> QED BY <1>3, <1>4, <1>5, <1>6, <1>7, <1>8, <1>9

\* An answer is committed, confirmed or refused: the row moves from pending only.
LEMMA CommitKeeps ==
    ASSUME InterruptAssumption, InterruptInv, NEW p, p \in People, resolve_commit(p)
    PROVE  InterruptInv'
  <1> DEFINE i == person[p].on
             a == person[p].answer
  <1> USE DEF InterruptInv, InterruptAssumption
  <1>1. /\ person[p].pc = "write" /\ runLock' = Free /\ leaseLock' = Free /\ UNCHANGED run
        /\ i \in Interrupts /\ a \in Answers /\ leaseLock = p /\ runLock = p
    BY DEF resolve_commit, Unlocked, Shapes, LocksHeld
  <1>2. run.status = "running" /\ exec.pc \notin {"admit", "store", "lock", "read"}
    BY <1>1 DEF LocksHeld, LockedIsAuthorized, Free, Executor
  <1>3. row[i] \in RowRecords
    BY <1>1 DEF Shapes
  <1>4. RestsAlone(p)
    BY RestRests, OutdatedRests DEF resolve_commit
  <1>5. exec' \in ExecRecords /\ exec'.pc = exec.pc /\ exec'.carried = exec.carried
    BY ExecStays DEF resolve_commit, Outdated, Shapes
  <1>6. \/ row[i].state \in Answers /\ row' = row
           /\ receipt' = [receipt EXCEPT ![i] = IF row[i].state = a THEN a ELSE @]
        \/ row' = row /\ receipt' = receipt
        \/ /\ row[i].state = "pending"
           /\ row' = [row EXCEPT ![i].state = "expired"]
           /\ receipt' = receipt
        \/ /\ row[i].state = "pending" /\ row' = [row EXCEPT ![i].state = a]
           /\ receipt' = [receipt EXCEPT ![i] = a]
    BY DEF resolve_commit
  <1> HIDE DEF i, a
  <1>7. /\ row' \in [Interrupts -> RowRecords]
        /\ receipt' \in [Interrupts -> Answers \cup {Unset}]
        /\ \A j \in Interrupts \ {i} : row'[j] = row[j] /\ receipt'[j] = receipt[j]
        /\ \/ row[i].state \in Answers /\ row'[i] = row[i]
              /\ receipt'[i] = IF row[i].state = a THEN a ELSE receipt[i]
           \/ row'[i] = row[i] /\ receipt'[i] = receipt[i]
           \/ row[i].state = "pending" /\ row'[i].state = "expired" /\ receipt'[i] = receipt[i]
           \/ row[i].state = "pending" /\ row'[i].state = a /\ receipt'[i] = a
    <2>1. [row[i] EXCEPT !.state = "expired"] \in RowRecords
      BY <1>3 DEF RowRecords, RowStates
    <2>2. [row[i] EXCEPT !.state = a] \in RowRecords
      BY <1>1, <1>3 DEF RowRecords, RowStates, Answers
    <2>3. /\ [row[i] EXCEPT !.state = "expired"].state = "expired"
          /\ [row[i] EXCEPT !.state = a].state = a
      BY <1>3 DEF RowRecords
    <2> QED BY <1>1, <1>3, <1>6, <2>1, <2>2, <2>3 DEF Shapes
  <1>8. Shapes'
    BY <1>1, <1>4, <1>5, <1>7 DEF Shapes, RestsAlone
  <1>9. LocksHeld'
    BY <1>1, <1>2, <1>4, <1>5 DEF LocksHeld, RestsAlone, Free, Executor
  <1>10. LockedIsAuthorized'
    BY <1>1 DEF LockedIsAuthorized
  <1>11. NothingBeforeStored'
    BY <1>1, <1>5, <1>7 DEF NothingBeforeStored, Answers
  <1>12. ReceiptsHold'
    BY <1>1, <1>7 DEF ReceiptsHold, Answers, Shapes
  <1>13. CarriedHolds'
    BY <1>1, <1>5, <1>7 DEF CarriedHolds, Answers, Answered
  <1>14. EndedIsRetired'
    BY <1>1, <1>2 DEF EndedIsRetired
  <1> QED BY <1>8, <1>9, <1>10, <1>11, <1>12, <1>13, <1>14

\* A poll: nothing, an expiry of pending rows only, or the resumption with what every
\* row says.
LEMMA ParkedPollKeeps ==
    ASSUME InterruptAssumption, InterruptInv, poll_resume
    PROVE  InterruptInv'
  <1> USE DEF InterruptInv, InterruptAssumption
  <1>1. /\ exec.pc = "read" /\ runLock' = Free /\ leaseLock' = Free /\ UNCHANGED <<run, receipt>>
        /\ runLock = Executor /\ leaseLock = Executor /\ run.status = "running"
    BY DEF poll_resume, Unlocked, LocksHeld, LockedIsAuthorized, Free, Executor
  <1>2. \A j \in Interrupts : row[j] \in RowRecords
    BY DEF Shapes
  <1>3. SamePeople
    BY PeopleOutdated DEF poll_resume, SamePeople, Shapes
  <1>4. /\ LocksHeld' <=> exec'.pc \notin {"admit", "store", "lock", "read"}
        /\ LockedIsAuthorized'
        /\ EndedIsRetired'
    BY <1>1, <1>3 DEF LocksHeld, LockedIsAuthorized, EndedIsRetired, SamePeople, Free, Executor
  <1>5. CASE row' = row /\ exec' \in ExecRecords /\ exec'.pc \in {"over", "sleep"}
    BY <1>1, <1>3, <1>4, <1>5
       DEF Shapes, SamePeople, NothingBeforeStored, ReceiptsHold, CarriedHolds
  <1>6. CASE /\ row' = [j \in Interrupts |->
                  IF j \in Overdue THEN [row[j] EXCEPT !.state = "expired"] ELSE row[j]]
             /\ exec' = [exec EXCEPT !.pc = "sleep"]
    <2>1. exec' \in ExecRecords /\ exec'.pc = "sleep"
      BY <1>6, ExecMoves DEF Shapes, ExecPlaces
    <2>2. ASSUME NEW j \in Interrupts
          PROVE  /\ row'[j] \in RowRecords
                 /\ row[j].state # "pending" => row'[j] = row[j]
      BY <1>2, <1>6 DEF Overdue, RowRecords, RowStates
    <2>3. row' \in [Interrupts -> RowRecords]
      BY <1>6, <2>2
    <2>4. ReceiptsHold'
      BY <1>1, <2>2 DEF ReceiptsHold, Shapes, Answers
    <2> QED BY <1>1, <1>3, <1>4, <2>1, <2>3, <2>4
            DEF Shapes, SamePeople, NothingBeforeStored, CarriedHolds
  <1>7. CASE /\ AllAnswered
             /\ row' = [j \in Interrupts |-> [row[j] EXCEPT !.resume = ResumeId]]
             /\ exec' = [exec EXCEPT !.pc = "resume",
                                     !.carried = [j \in Interrupts |-> row[j].state]]
    <2> DEFINE c == [j \in Interrupts |-> row[j].state]
    <2>1. c \in [Interrupts -> Answered]
      BY <1>7 DEF AllAnswered
    <2>2. exec' = [exec EXCEPT !.pc = "resume", !.carried = c]
      BY <1>7
    <2>3. \A j \in Interrupts : c[j] = row[j].state
      OBVIOUS
    <2> HIDE DEF c
    <2>4. exec' \in ExecRecords /\ exec'.pc = "resume" /\ exec'.carried = c
      BY <2>1, <2>2, ExecCarries DEF Shapes, ExecPlaces
    <2>5. ResumeId \in {"resume"} \X Nat
      BY DEF ResumeId, Shapes, ExecRecords
    <2>6. ASSUME NEW j \in Interrupts
          PROVE  row'[j] \in RowRecords /\ row'[j].state = row[j].state
      BY <1>2, <1>7, <2>5 DEF RowRecords
    <2>7. row' \in [Interrupts -> RowRecords]
      BY <1>7, <2>6
    <2>8. ReceiptsHold'
      BY <1>1, <2>6 DEF ReceiptsHold
    <2>9. CarriedHolds'
      BY <1>1, <1>7, <2>1, <2>3, <2>4, <2>6
         DEF CarriedHolds, ReceiptsHold, AllAnswered, Answered
    <2> QED BY <1>1, <1>3, <1>4, <2>4, <2>7, <2>8, <2>9
            DEF Shapes, SamePeople, NothingBeforeStored
  <1>8. \/ EndsWith("stale") /\ row' = row
        \/ exec' = [exec EXCEPT !.pc = "sleep"] /\ row' = row
        \/ /\ row' = [j \in Interrupts |->
                  IF j \in Overdue THEN [row[j] EXCEPT !.state = "expired"] ELSE row[j]]
           /\ exec' = [exec EXCEPT !.pc = "sleep"]
        \/ /\ AllAnswered
           /\ row' = [j \in Interrupts |-> [row[j] EXCEPT !.resume = ResumeId]]
           /\ exec' = [exec EXCEPT !.pc = "resume",
                                   !.carried = [j \in Interrupts |-> row[j].state]]
    BY DEF poll_resume
  <1>9. CASE EndsWith("stale") /\ row' = row
    BY <1>5, <1>9, ExecEnds DEF Shapes, Ends
  <1>10. CASE exec' = [exec EXCEPT !.pc = "sleep"] /\ row' = row
    BY <1>5, <1>10, ExecMoves DEF Shapes, ExecPlaces
  <1> QED BY <1>6, <1>7, <1>8, <1>9, <1>10

-----------------------------------------------------------------------------
(* The theorems. *)

\* The first state: nothing is stored and nothing is locked.
LEMMA InterruptsBegin ==
    ASSUME InterruptAssumption, InterruptInit
    PROVE  InterruptInv
  <1> USE DEF InterruptInit, InterruptAssumption
  <1>1. exec \in ExecRecords /\ exec.pc = "sampling"
    BY DEF ExecRecords, ExecPlaces, Ends
  <1>2. NoRow \in RowRecords /\ NoRow.state = "none"
    BY DEF NoRow, RowRecords, RowStates
  <1>3. AtRest \in PersonRecords /\ AtRest.pc = "idle"
    BY DEF AtRest, PersonRecords
  <1>4. run \in RunRecords /\ run.status = "running"
    BY DEF RunRecords
  <1>5. Shapes
    BY <1>1, <1>2, <1>3, <1>4 DEF Shapes
  <1>6. LocksHeld
    BY <1>1, <1>3 DEF LocksHeld, Free, Executor
  <1> QED BY <1>1, <1>2, <1>4, <1>5, <1>6
          DEF InterruptInv, LockedIsAuthorized, NothingBeforeStored, ReceiptsHold, CarriedHolds,
              EndedIsRetired

\* Every step keeps the invariant.
LEMMA InterruptsKeep ==
    ASSUME InterruptAssumption, InterruptInv, [InterruptNext]_interruptVars
    PROVE  InterruptInv'
  <1>1. CASE UNCHANGED interruptVars
    BY <1>1 DEF interruptVars, InterruptInv, Shapes, LocksHeld, LockedIsAuthorized,
                NothingBeforeStored, ReceiptsHold, CarriedHolds, EndedIsRetired
  <1>2. CASE interrupted \/ finished \/ resumed \/ cancelled \/ renew_tick \/ renew_lease
    BY <1>2, InterruptedKeeps, FinishedKeeps, ResumedKeeps, CancelledKeeps, TickKeeps,
       RenewalKeeps
  <1>3. CASE Wait
    <2>1. CASE scope_run("persist", "admit") \/ scope_run("poll", "lock")
      BY <2>1, ScopeRunKeeps
    <2>2. CASE scope_authority("admit", "store") \/ scope_authority("lock", "read")
      BY <2>2, ScopeAuthorityKeeps
    <2>3. CASE persist_batch \/ wake \/ poll_resume
      BY <2>3, PersistKeeps, WakeKeeps, ParkedPollKeeps
    <2> QED BY <1>3, <2>1, <2>2, <2>3 DEF Wait
  <1>4. CASE \E p \in People, i \in Interrupts, a \in Answers : answer(p, i, a)
    BY <1>4, AnswerKeeps
  <1>5. CASE \E p \in People : Resolve(p)
    BY <1>5, AnswerLockKeeps, CommitKeeps DEF Resolve
  <1>6. CASE Environment
    BY <1>6, FinishKeeps, RecoverKeeps, LeaseOutKeeps, RevokeKeeps, LossKeeps, RipenKeeps
       DEF Environment
  <1> QED BY <1>1, <1>2, <1>3, <1>4, <1>5, <1>6 DEF InterruptNext

\* The invariant says what the safety properties ask.
LEMMA InterruptsImply ==
    ASSUME InterruptAssumption, InterruptInv
    PROVE  InterruptSafety
  <1> USE DEF InterruptInv, InterruptAssumption
  <1>1. InterruptTypeOK
    <2>1. run \in [status : {"running", "ended"}, lease : BOOLEAN, actor : BOOLEAN]
      BY DEF Shapes, RunRecords
    <2>2. \A i \in Interrupts : row[i].state \in {"none", "pending", "retired"} \cup Answered
      BY DEF Shapes, RowRecords, RowStates, Answered
    <2>3. leaseLock \in {Free, runLock}
      BY DEF LocksHeld, Free, Executor
    <2>4. exec.pc \in Waiting \cup {"sampling", "resume", "over"}
      BY DEF Shapes, ExecRecords, ExecPlaces, Waiting
    <2> QED BY <2>1, <2>2, <2>3, <2>4 DEF InterruptTypeOK, LocksHeld, InTransaction, Shapes
  <1>2. ResumeCarriesAnswers
    BY DEF CarriedHolds, ResumeCarriesAnswers
  <1> QED BY <1>1, <1>2 DEF InterruptSafety

\* The agent is resumed only with answers, and with every answer a person was told is
\* stored; a run that ended holds nothing to answer; locks belong to open
\* transactions (persist_and_wait, poll_resume, resolve, retire_remote_interrupts).
THEOREM AnswersReachTheAgent ==
    ASSUME InterruptAssumption
    PROVE  InterruptSpec => []InterruptSafety
  <1>1. InterruptInit => InterruptInv
    BY InterruptsBegin
  <1>2. InterruptInv /\ [InterruptNext]_interruptVars => InterruptInv'
    BY InterruptsKeep
  <1>3. InterruptInv => InterruptSafety
    BY InterruptsImply
  <1> QED BY <1>1, <1>2, <1>3, PTL DEF InterruptSpec

\* What one step does to a row: it stays in its state, is reset for a new batch, is
\* stored when there was none, expires or is answered when pending, or is retired; and
\* only a person who holds the locks answers.
LEMMA RowSteps ==
    ASSUME InterruptAssumption, InterruptInv, [InterruptNext]_interruptVars,
           NEW i, i \in Interrupts
    PROVE  \/ row'[i].state \in {row[i].state, "none", "retired"}
           \/ row[i].state = "none" /\ row'[i].state = "pending"
           \/ row[i].state = "pending" /\ row'[i].state = "expired"
           \/ /\ row[i].state = "pending" /\ row'[i].state \in Answers
              /\ run.status = "running" /\ run.actor
  <1> USE DEF InterruptInv, InterruptAssumption
  <1>1. \A j \in Interrupts : row[j] \in RowRecords
    BY DEF Shapes
  <1>2. CASE UNCHANGED row
    BY <1>2
  <1>3. CASE interrupted
    BY <1>3 DEF interrupted, NoRow
  <1>4. CASE persist_batch
    <2>1. row[i].state = "none"
      BY <1>4 DEF persist_batch, NothingBeforeStored
    <2>2. row'[i].state = "pending"
      BY <1>4 DEF persist_batch, NoRow
    <2> QED BY <2>1, <2>2
  <1>5. CASE poll_resume
    BY <1>1, <1>5 DEF poll_resume, Overdue, RowRecords
  <1>6. CASE \E p \in People : resolve_commit(p)
    <2>1. PICK p \in People : resolve_commit(p)
      BY <1>6
    <2>2. /\ person[p].on \in Interrupts /\ person[p].answer \in Answers
          /\ run.status = "running" /\ run.actor
      BY <2>1 DEF resolve_commit, Shapes, LocksHeld, LockedIsAuthorized, Free
    <2> DEFINE j == person[p].on
               a == person[p].answer
    <2>3. \/ UNCHANGED row
          \/ row[j].state = "pending" /\ row' = [row EXCEPT ![j].state = "expired"]
          \/ row[j].state = "pending" /\ row' = [row EXCEPT ![j].state = a]
      BY <2>1 DEF resolve_commit
    <2> HIDE DEF j, a
    <2> QED BY <1>1, <2>2, <2>3 DEF j, a, RowRecords, Shapes
  <1>7. CASE finish_run \/ recover
    BY <1>7, RowsRetire DEF finish_run, recover
  <1>8. CASE \E j \in Interrupts : ripen(j)
    BY <1>1, <1>8 DEF ripen, RowRecords, Shapes
  <1>9. CASE \/ finished \/ resumed \/ cancelled \/ renew_tick \/ renew_lease
             \/ wake \/ lease_runs_out \/ revoke_actor \/ connection_lost
             \/ UNCHANGED interruptVars
    BY <1>2, <1>9 DEF finished, resumed, cancelled, renew_tick, renew_lease, wake,
                      lease_runs_out, revoke_actor, connection_lost, interruptVars
  <1>10. CASE \/ scope_run("persist", "admit") \/ scope_authority("admit", "store")
              \/ scope_run("poll", "lock") \/ scope_authority("lock", "read")
    BY <1>2, <1>10 DEF scope_run, scope_authority
  <1>11. CASE \/ \E p \in People, n \in Interrupts, a \in Answers : answer(p, n, a)
              \/ \E p \in People : resolve_lock(p)
    BY <1>2, <1>11 DEF answer, resolve_lock
  <1> QED BY <1>3, <1>4, <1>5, <1>6, <1>7, <1>8, <1>9, <1>10, <1>11
          DEF InterruptNext, Wait, Resolve, Environment

\* A committed answer is final: no later answer, poll or expiry replaces it.
THEOREM CommittedIsFinal ==
    ASSUME InterruptAssumption
    PROVE  InterruptSpec => AnswerIsFinal
  <1>1. InterruptInit => InterruptInv
    BY InterruptsBegin
  <1>2. InterruptInv /\ [InterruptNext]_interruptVars => InterruptInv'
    BY InterruptsKeep
  <1>3. InterruptInv /\ [InterruptNext]_interruptVars =>
          [\A i \in Interrupts : row[i].state \in Answers =>
              row'[i].state \in {row[i].state, "retired", "none"}]_interruptVars
    BY RowSteps DEF Answers
  <1> QED BY <1>1, <1>2, <1>3, PTL DEF InterruptSpec, AnswerIsFinal

\* An answer is stored only while the run runs and the actor's authority holds: the
\* authority checked before the wait for the locks is checked again under them.
THEOREM CommittedIsAuthorized ==
    ASSUME InterruptAssumption
    PROVE  InterruptSpec => AnswerIsAuthorized
  <1>1. InterruptInit => InterruptInv
    BY InterruptsBegin
  <1>2. InterruptInv /\ [InterruptNext]_interruptVars => InterruptInv'
    BY InterruptsKeep
  <1>3. InterruptInv /\ [InterruptNext]_interruptVars =>
          [\A i \in Interrupts : row[i].state = "pending" /\ row'[i].state \in Answers =>
              run.status = "running" /\ run.actor]_interruptVars
    BY RowSteps DEF Answers
  <1> QED BY <1>1, <1>2, <1>3, PTL DEF InterruptSpec, AnswerIsAuthorized

-----------------------------------------------------------------------------
(***************************************************************************)
(* The meter of a run.                                                     *)
(***************************************************************************)
(* The inductive invariant. *)

Ways == {Blank, "step_cap", "cost_refused", "rebound", "abandoned", "provider_failed",
         "invalid_response", "answered", "commit_unknown", "lease_lost",
         "run_tokens_exceeded", "run_cost_exceeded", "sampling_tokens_exceeded"}
Samplers == [pc : {"begin", "load", "start", "first", "stream", "record", "over"},
             sampling : 0..StepCap + 1, retries : 0..MaxRetries, seen : BOOLEAN,
             bound : BOOLEAN, rate : Rates \cup {Blank}, cap : Caps \cup {Blank},
             usage : Usages \cup {Blank}, end : Ways]
Costs == [micro : 0..IntMax, rem : 0..Million - 1]
Bills == [status : {"none", "running", "ended"}, cap : Caps \cup {Blank},
          ceiling : {Blank, Ceiling}, in : 0..IntMax, out : 0..IntMax, total : 0..IntMax,
          next : 0..StepCap + 1, last : Usages \cup {Blank}, rate : Rates \cup {Blank},
          cost : Costs \cup {Blank}]

MeterTyped ==
    /\ setting \in Caps \cup {Blank} /\ route \in Rates \cup {Blank}
    /\ bill \in Bills /\ sampler \in Samplers
    /\ requests \in [0..StepCap -> Nat] /\ heard \in [0..StepCap -> Nat]
    /\ billed \in Seq([u : Usages, rate : Rates \cup {Blank}]) /\ spent \in Nat

\* The row is the history: every record is at the one tariff, and its cost is
\* what the records cost.
Accounts ==
    /\ Len(billed) = bill.next
    /\ bill.next = 0 => bill.cost = Blank /\ spent = 0
    /\ bill.next > 0 => /\ bill.rate = Blank => bill.cost = Blank /\ spent = 0
                        /\ bill.rate # Blank => bill.cost # Blank
    /\ bill.cost # Blank => bill.cost.micro * Million + bill.cost.rem = spent
    /\ \A i \in DOMAIN billed : billed[i].rate = bill.rate

\* Which record comes next, and under which terms.
Progress ==
    /\ sampler.pc = "begin" => bill.next = 0 /\ sampler.sampling = 0 /\ ~sampler.bound
    /\ sampler.pc \in {"load", "start", "first", "record"} => sampler.sampling = bill.next
    /\ sampler.pc = "stream" => IF sampler.seen THEN bill.next = sampler.sampling + 1
                                ELSE bill.next = sampler.sampling
    /\ sampler.pc = "record" => sampler.usage \in Usages
    /\ sampler.pc \in {"start", "first", "stream", "record"} =>
         sampler.bound /\ sampler.sampling <= StepCap /\ Priced(sampler.cap, sampler.rate)
    /\ sampler.pc # "over" /\ sampler.bound =>
         sampler.cap = bill.cap /\ (bill.next > 0 => bill.rate = sampler.rate)
    /\ sampler.pc # "over" /\ ~sampler.bound => bill.next = 0

\* A run that goes on is within its ceilings.
Within == sampler.pc # "over" => Receipt(bill) = "recorded"

\* The requests of the samplings that were, that are, and that are to come.
Tries ==
    /\ \A s \in 0..StepCap :
         requests[s] <= MaxRetries + 1 /\ heard[s] <= 1 /\ (requests[s] > 0 => s <= bill.next)
    /\ sampler.pc # "over" =>
         \A s \in 0..StepCap : s > sampler.sampling => requests[s] = 0 /\ heard[s] = 0
    /\ sampler.pc \in {"begin", "load", "start", "first"} /\ sampler.sampling <= StepCap =>
         heard[sampler.sampling] = 0
    /\ sampler.pc \in {"begin", "load"} /\ sampler.sampling <= StepCap =>
         requests[sampler.sampling] = 0
    /\ sampler.pc = "start" => requests[sampler.sampling] = sampler.retries
    /\ sampler.pc = "first" => requests[sampler.sampling] = sampler.retries + 1

MeterInv == MeterTyped /\ Accounts /\ Progress /\ Within /\ Tries

-----------------------------------------------------------------------------
(* Arithmetic. *)

LEMMA Division ==
    ASSUME NEW n \in Nat, NEW d \in Nat \ {0}
    PROVE  n \div d \in Nat /\ n % d \in 0..d - 1 /\ ((n \div d) * d) + (n % d) = n
  <1>1. n \div d \in Nat
    OBVIOUS
  <1>2. n % d \in 0..d - 1
    OBVIOUS
  <1>3. ((n \div d) * d) + (n % d) = n
    OBVIOUS
  <1> QED BY <1>1, <1>2, <1>3

LEMMA Product ==
    ASSUME NEW a \in Nat, NEW b \in Nat
    PROVE  a * b \in Nat
  OBVIOUS

LEMMA Distributes ==
    ASSUME NEW a \in Nat, NEW b \in Nat, NEW d \in Nat
    PROVE  (a + b) * d = a * d + b * d
  OBVIOUS

LEMMA Monotone ==
    ASSUME NEW a \in Nat, NEW b \in Nat, NEW d \in Nat, a <= b
    PROVE  a * d <= b * d
  <1>1. PICK c \in Nat : b = a + c
    <2>1. b - a \in Nat /\ b = a + (b - a)
      OBVIOUS
    <2> QED BY <2>1
  <1>2. b * d = a * d + c * d
    BY <1>1, Distributes
  <1>3. c * d \in Nat /\ a * d \in Nat
    BY Product
  <1> QED BY <1>2, <1>3

\* A usage adds its exact price.
LEMMA AccrueIsExact ==
    ASSUME MeterAssumption, NEW cost, cost.micro \in Nat, cost.rem \in Nat,
           NEW u \in Usages, NEW rate \in Rates, NEW sum \in Nat,
           cost.micro * Million + cost.rem = sum
    PROVE  /\ accrue(cost, u, rate) \in [micro : Nat, rem : 0..Million - 1]
           /\ accrue(cost, u, rate).micro * Million + accrue(cost, u, rate).rem
                = sum + Price(u, rate)
           /\ accrue(cost, u, rate) # Blank
           /\ Price(u, rate) \in Nat
  <1>1. u.in \in Nat /\ u.out \in Nat /\ rate.inRate \in Nat /\ rate.outRate \in Nat
        /\ Million \in Nat \ {0} /\ rate # Blank
    BY DEF MeterAssumption
  <1>2. PICK p : p = u.in * rate.inRate + u.out * rate.outRate
    OBVIOUS
  <1>3. p \in Nat /\ p = Price(u, rate)
    <2>1. u.in * rate.inRate \in Nat /\ u.out * rate.outRate \in Nat
      BY <1>1, Product
    <2> QED BY <1>1, <1>2, <2>1 DEF Price
  <1>4. PICK n : n = p + cost.rem
    OBVIOUS
  <1>5. n \in Nat
    BY <1>3, <1>4
  <1>6. accrue(cost, u, rate) = [micro |-> cost.micro + n \div Million, rem |-> n % Million]
    BY <1>2, <1>4 DEF accrue
  <1>7. PICK q, r : q = n \div Million /\ r = n % Million
    OBVIOUS
  <1>8. q \in Nat /\ r \in 0..Million - 1 /\ q * Million + r = n
    BY <1>1, <1>5, <1>7, Division
  <1>9. (cost.micro + q) * Million = cost.micro * Million + q * Million
    BY <1>1, <1>8, Distributes
  <1>10. cost.micro * Million \in Nat /\ q * Million \in Nat
    BY <1>1, <1>8, Product
  <1>11. (cost.micro + q) * Million + r = sum + p
    <2>1. PICK x, y, z : x = cost.micro * Million /\ y = q * Million /\ z = (cost.micro + q) * Million
      OBVIOUS
    <2>2. x \in Nat /\ y \in Nat /\ z = x + y /\ y + r = p + cost.rem /\ x + cost.rem = sum
      BY <1>4, <1>8, <1>9, <1>10, <2>1
    <2> QED BY <1>3, <1>8, <2>1, <2>2
  <1>12. PICK a : a = [micro |-> cost.micro + q, rem |-> r]
    OBVIOUS
  <1>13. a.micro = cost.micro + q /\ a.rem = r /\ a \in [micro : Nat, rem : 0..Million - 1]
    BY <1>8, <1>12
  <1>14. a \in [micro : Nat, rem : Nat]
    BY <1>8, <1>12
  <1> QED BY <1>3, <1>6, <1>7, <1>11, <1>12, <1>13, <1>14 DEF MeterAssumption

\* A bill that may go on has not passed its cap, remainder included.
LEMMA WithinTheCap ==
    ASSUME MeterAssumption, bill \in Bills, Receipt(bill) = "recorded"
    PROVE  /\ bill.out <= Ceiling
           /\ bill.cap # Blank /\ bill.cost # Blank =>
                bill.cost.micro * Million + bill.cost.rem <= bill.cap.max * Million
  <1>1. bill.out <= Ceiling
    <2>1. bill.out \in Nat /\ Ceiling \in Nat
      BY Product DEF MeterAssumption, Bills, Ceiling
    <2> QED BY <2>1 DEF Receipt
  <1>2. ASSUME bill.cap # Blank, bill.cost # Blank
        PROVE  bill.cost.micro * Million + bill.cost.rem <= bill.cap.max * Million
    <2>1. /\ bill.cost.micro \in Nat /\ bill.cost.rem \in 0..Million - 1
          /\ bill.cap.max \in Nat /\ Million \in Nat
      BY <1>2 DEF MeterAssumption, Bills, Costs
    <2>2. BilledUpperBound(bill.cost) <= bill.cap.max
      <3>1. ~(BilledUpperBound(bill.cost) > bill.cap.max)
        BY <1>1, <1>2 DEF Receipt
      <3>2. BilledUpperBound(bill.cost) \in Nat
        BY <2>1 DEF BilledUpperBound
      <3> QED BY <2>1, <3>1, <3>2
    <2>3. PICK m, r, c : m = bill.cost.micro /\ r = bill.cost.rem /\ c = bill.cap.max
      OBVIOUS
    <2>4. CASE r = 0
      <3>1. m * Million <= c * Million
        BY <2>1, <2>2, <2>3, <2>4, Monotone DEF BilledUpperBound
      <3>2. m * Million \in Nat
        BY <2>1, <2>3, Product
      <3> QED BY <2>3, <2>4, <3>1, <3>2
    <2>5. CASE r # 0
      <3>1. m + 1 <= c
        BY <2>1, <2>2, <2>3, <2>5 DEF BilledUpperBound
      <3>2. (m + 1) * Million <= c * Million
        BY <2>1, <2>3, <3>1, Monotone
      <3>3. (m + 1) * Million = m * Million + 1 * Million
        BY <2>1, <2>3, Distributes
      <3>4. m * Million \in Nat /\ c * Million \in Nat /\ 1 * Million = Million
        BY <2>1, <2>3, Product
      <3>5. PICK x, y : x = m * Million /\ y = c * Million
        OBVIOUS
      <3>6. x \in Nat /\ y \in Nat /\ x + Million <= y
        BY <2>1, <3>2, <3>3, <3>4, <3>5
      <3>7. x + r <= y
        BY <2>1, <2>3, <3>6
      <3> QED BY <2>3, <3>5, <3>7
    <2> QED BY <2>4, <2>5
  <1> QED BY <1>1, <1>2

-----------------------------------------------------------------------------
(* The steps. *)

\* The settings of the user and of the agent touch nothing of the run.
LEMMA SettingsStay ==
    ASSUME MeterInv, setting' \in Caps \cup {Blank}, route' \in Rates \cup {Blank},
           UNCHANGED <<bill, sampler, requests, heard, billed, spent>>
    PROVE  MeterInv'
  <1>1. MeterTyped'
    BY DEF MeterInv, MeterTyped
  <1>2. Accounts' /\ Progress' /\ Tries'
    BY DEF MeterInv, Accounts, Progress, Tries, Priced
  <1>3. Within'
    BY DEF MeterInv, Within, Receipt
  <1> QED BY <1>1, <1>2, <1>3 DEF MeterInv

\* The receipt of a row looks at its output, its cap and its cost only.
LEMMA SameReceipt ==
    ASSUME NEW r, NEW q, r.out = q.out, r.cap = q.cap, r.cost = q.cost
    PROVE  Receipt(r) = Receipt(q)
  BY DEF Receipt

LEMMA StatusKeeps ==
    ASSUME MeterInv, NEW v \in {"none", "running", "ended"}, bill' = [bill EXCEPT !.status = v],
           UNCHANGED <<setting, route, sampler, requests, heard, billed, spent>>
    PROVE  MeterInv'
  <1>1. /\ bill' \in Bills /\ bill'.cap = bill.cap /\ bill'.out = bill.out /\ bill'.cost = bill.cost
        /\ bill'.next = bill.next /\ bill'.rate = bill.rate
    BY DEF MeterInv, MeterTyped, Bills
  <1>2. MeterTyped'
    BY <1>1 DEF MeterInv, MeterTyped
  <1>3. Accounts'
    BY <1>1 DEF MeterInv, Accounts
  <1>4. Progress'
    BY <1>1 DEF MeterInv, Progress, Priced
  <1>5. Within'
    BY <1>1, SameReceipt DEF MeterInv, Within
  <1>6. Tries'
    BY <1>1 DEF MeterInv, Tries
  <1> QED BY <1>2, <1>3, <1>4, <1>5, <1>6 DEF MeterInv

\* The run begins under the cap of this moment.
LEMMA BeginKeeps ==
    ASSUME MeterAssumption, MeterInv, begin_run
    PROVE  MeterInv'
  <1>1. PICK b : b = [bill EXCEPT !.status = "running", !.cap = setting]
    OBVIOUS
  <1>2. PICK x : x = [sampler EXCEPT !.pc = "load"]
    OBVIOUS
  <1>3. /\ sampler.pc = "begin" /\ bill' = b /\ sampler' = x
        /\ UNCHANGED <<setting, route, requests, heard, billed, spent>>
    BY <1>1, <1>2 DEF begin_run
  <1>4. /\ b \in Bills /\ b.out = bill.out /\ b.cost = bill.cost
        /\ b.next = bill.next /\ b.rate = bill.rate
    BY <1>1 DEF MeterInv, MeterTyped, Bills
  <1>5. /\ x \in Samplers /\ x.pc = "load" /\ x.sampling = sampler.sampling /\ x.bound = sampler.bound
        /\ x.rate = sampler.rate /\ x.cap = sampler.cap
    BY <1>2 DEF MeterInv, MeterTyped, Samplers
  <1>6. bill.next = 0 /\ sampler.sampling = 0 /\ ~sampler.bound /\ bill.cost = Blank
    BY <1>3 DEF MeterInv, Progress, Accounts
  <1>7. MeterTyped'
    BY <1>3, <1>4, <1>5 DEF MeterInv, MeterTyped
  <1>8. Accounts'
    BY <1>3, <1>4 DEF MeterInv, Accounts
  <1>9. Progress'
    BY <1>3, <1>4, <1>5, <1>6 DEF Progress
  <1>10. Within'
    <2>1. Receipt(bill) = "recorded"
      BY <1>3 DEF MeterInv, Within
    <2>2. Receipt(b) = "recorded"
      BY <1>4, <1>6, <2>1 DEF Receipt
    <2> QED BY <1>3, <2>2 DEF Within
  <1>11. Tries'
    BY <1>3, <1>4, <1>5 DEF MeterInv, Tries
  <1> QED BY <1>7, <1>8, <1>9, <1>10, <1>11 DEF MeterInv

\* The executor stops, for whatever reason.
LEMMA OverKeeps ==
    ASSUME MeterInv, NEW why \in Ways, Halts(why),
           UNCHANGED <<setting, route, bill, requests, heard, billed, spent>>
    PROVE  MeterInv'
  <1>1. sampler' \in Samplers /\ sampler'.pc = "over"
    BY DEF Halts, MeterInv, MeterTyped, Samplers
  <1>2. MeterTyped'
    BY <1>1 DEF MeterInv, MeterTyped
  <1>3. Accounts' /\ Progress' /\ Within' /\ Tries'
    BY <1>1 DEF MeterInv, Accounts, Progress, Within, Tries
  <1> QED BY <1>2, <1>3 DEF MeterInv

\* A sampling begins: its terms are those the run was bound to.
LEMMA LoadKeeps ==
    ASSUME MeterAssumption, MeterInv, load
    PROVE  MeterInv'
  <1>1. CASE \E why \in {"step_cap", "cost_refused", "rebound"} : Halts(why)
    BY <1>1, OverKeeps DEF load, Ways
  <1>2. CASE ~\E why \in {"step_cap", "cost_refused", "rebound"} : Halts(why)
    <2>1. PICK x : x = [sampler EXCEPT !.pc = "start", !.bound = TRUE, !.retries = 0,
                                       !.rate = route, !.cap = bill.cap]
      OBVIOUS
    <2>2. /\ sampler.pc = "load" /\ sampler' = x
          /\ ~(sampler.sampling > StepCap) /\ Priced(bill.cap, route)
          /\ sampler.bound => sampler.rate = route /\ sampler.cap = bill.cap
          /\ UNCHANGED <<setting, route, bill, requests, heard, billed, spent>>
      BY <1>2, <2>1 DEF load
    <2>3. /\ x.pc = "start" /\ x.sampling = sampler.sampling /\ x.retries = 0 /\ x.bound = TRUE
          /\ x.rate = route /\ x.cap = bill.cap /\ x \in Samplers
      <3>1. bill.cap \in Caps \cup {Blank} /\ route \in Rates \cup {Blank} /\ 0 \in 0..MaxRetries
        BY DEF MeterInv, MeterTyped, Bills, MeterAssumption
      <3>2. sampler \in Samplers
        BY DEF MeterInv, MeterTyped
      <3> QED BY <2>1, <3>1, <3>2 DEF Samplers
    <2>4. /\ sampler.sampling \in 0..StepCap /\ sampler.sampling = bill.next
          /\ bill.next > 0 => sampler.bound /\ bill.rate = sampler.rate
      <3>1. sampler.sampling \in 0..StepCap + 1 /\ StepCap \in Nat
        BY DEF MeterInv, MeterTyped, Samplers, MeterAssumption
      <3>2. sampler.sampling \in 0..StepCap
        BY <2>2, <3>1
      <3>3. bill.next = sampler.sampling /\ (bill.next > 0 => sampler.bound)
        BY <2>2, <3>1 DEF MeterInv, Progress
      <3> QED BY <2>2, <3>2, <3>3 DEF MeterInv, Progress
    <2>5. MeterTyped'
      BY <2>2, <2>3 DEF MeterInv, MeterTyped
    <2>6. Accounts'
      BY <2>2 DEF MeterInv, Accounts
    <2>7. Progress'
      BY <2>2, <2>3, <2>4 DEF Progress, MeterAssumption
    <2>8. Within'
      BY <2>2 DEF MeterInv, Within
    <2>9. Tries'
      BY <2>2, <2>3, <2>4 DEF MeterInv, Tries
    <2> QED BY <2>5, <2>6, <2>7, <2>8, <2>9 DEF MeterInv
  <1> QED BY <1>1, <1>2

\* The wrapper sends a request.
LEMMA SessionKeeps ==
    ASSUME MeterAssumption, MeterInv, start_session
    PROVE  MeterInv'
  <1>1. PICK x : x = [sampler EXCEPT !.pc = "first"]
    OBVIOUS
  <1>2. PICK k : k = sampler.sampling
    OBVIOUS
  <1>3. /\ sampler.pc = "start" /\ sampler' = x /\ requests' = [requests EXCEPT ![k] = @ + 1]
        /\ UNCHANGED <<setting, route, bill, heard, billed, spent>>
    BY <1>1, <1>2 DEF start_session
  <1>4. /\ x.pc = "first" /\ x.sampling = k /\ x.retries = sampler.retries /\ x.bound = sampler.bound
        /\ x.rate = sampler.rate /\ x.cap = sampler.cap /\ x \in Samplers
    BY <1>1, <1>2 DEF MeterInv, MeterTyped, Samplers
  <1>5. /\ k \in 0..StepCap /\ k = bill.next /\ requests[k] = sampler.retries
        /\ sampler.retries \in 0..MaxRetries
    BY <1>2, <1>3 DEF MeterInv, MeterTyped, Samplers, Progress, Tries, MeterAssumption
  <1>6. /\ requests' \in [0..StepCap -> Nat] /\ requests'[k] = sampler.retries + 1
        /\ \A s \in 0..StepCap : s # k => requests'[s] = requests[s]
    BY <1>3, <1>5 DEF MeterInv, MeterTyped
  <1>7. MeterTyped'
    BY <1>3, <1>4, <1>6 DEF MeterInv, MeterTyped
  <1>8. Accounts'
    BY <1>3 DEF MeterInv, Accounts
  <1>9. Progress'
    BY <1>2, <1>3, <1>4 DEF MeterInv, Progress
  <1>10. Within'
    BY <1>3 DEF MeterInv, Within
  <1>11. Tries'
    <2>1. \A s \in 0..StepCap :
            /\ requests[s] <= MaxRetries + 1 /\ heard[s] <= 1 /\ (requests[s] > 0 => s <= bill.next)
            /\ s > k => requests[s] = 0 /\ heard[s] = 0
      BY <1>2, <1>3 DEF MeterInv, Tries
    <2>2. heard[k] = 0
      BY <1>2, <1>3, <1>5 DEF MeterInv, Tries, MeterAssumption
    <2>3. requests'[k] <= MaxRetries + 1
      BY <1>5, <1>6 DEF MeterAssumption
    <2>4. \A s \in 0..StepCap :
            /\ requests'[s] <= MaxRetries + 1 /\ heard'[s] <= 1 /\ (requests'[s] > 0 => s <= bill'.next)
            /\ s > k => requests'[s] = 0 /\ heard'[s] = 0
      BY <1>3, <1>5, <1>6, <2>1, <2>3 DEF MeterAssumption
    <2> QED BY <1>3, <1>4, <1>6, <2>2, <2>4 DEF Tries
  <1> QED BY <1>7, <1>8, <1>9, <1>10, <1>11 DEF MeterInv

\* Nothing came of the request: it may be sent again.
LEMMA RetryKeeps ==
    ASSUME MeterAssumption, MeterInv, first_unavailable
    PROVE  MeterInv'
  <1>1. CASE ~CanRetry
    BY <1>1, OverKeeps DEF first_unavailable, Ways
  <1>2. CASE CanRetry
    <2>1. PICK x : x = [sampler EXCEPT !.pc = "start", !.retries = @ + 1]
      OBVIOUS
    <2>2. /\ sampler.pc = "first" /\ sampler' = x /\ sampler.retries < MaxRetries
          /\ UNCHANGED <<setting, route, bill, requests, heard, billed, spent>>
      BY <1>2, <2>1 DEF first_unavailable, CanRetry
    <2>3. /\ x.pc = "start" /\ x.sampling = sampler.sampling /\ x.retries = sampler.retries + 1
          /\ x.bound = sampler.bound
          /\ x.rate = sampler.rate /\ x.cap = sampler.cap /\ x \in Samplers
      <3>1. sampler \in Samplers
        BY DEF MeterInv, MeterTyped
      <3>2. sampler.retries + 1 \in 0..MaxRetries
        BY <2>2, <3>1 DEF Samplers, MeterAssumption
      <3> QED BY <2>1, <3>1, <3>2 DEF Samplers
    <2>4. MeterTyped'
      BY <2>2, <2>3 DEF MeterInv, MeterTyped
    <2>5. Accounts'
      BY <2>2 DEF MeterInv, Accounts
    <2>6. Progress'
      BY <2>2, <2>3 DEF MeterInv, Progress
    <2>7. Within'
      BY <2>2 DEF MeterInv, Within
    <2>8. Tries'
      BY <2>2, <2>3 DEF MeterInv, Tries
    <2> QED BY <2>4, <2>5, <2>6, <2>7, <2>8 DEF MeterInv
  <1> QED BY <1>1, <1>2

\* The first event opens the one session of the sampling that is read.
LEMMA FirstKeeps ==
    ASSUME MeterAssumption, MeterInv, first_event
    PROVE  MeterInv'
  <1>1. PICK x : x = [sampler EXCEPT !.pc = "stream", !.seen = FALSE]
    OBVIOUS
  <1>2. PICK k : k = sampler.sampling
    OBVIOUS
  <1>3. /\ sampler.pc = "first" /\ sampler' = x /\ heard' = [heard EXCEPT ![k] = @ + 1]
        /\ UNCHANGED <<setting, route, bill, requests, billed, spent>>
    BY <1>1, <1>2 DEF first_event
  <1>4. /\ x.pc = "stream" /\ x.sampling = k /\ x.seen = FALSE /\ x.bound = sampler.bound
        /\ x.rate = sampler.rate /\ x.cap = sampler.cap /\ x \in Samplers
    BY <1>1, <1>2 DEF MeterInv, MeterTyped, Samplers
  <1>5. k \in 0..StepCap /\ heard[k] = 0
    <2>1. k \in 0..StepCap
      BY <1>2, <1>3 DEF MeterInv, MeterTyped, Samplers, Progress, MeterAssumption
    <2> QED BY <1>2, <1>3, <2>1 DEF MeterInv, Tries, MeterAssumption
  <1>6. /\ heard' \in [0..StepCap -> Nat] /\ heard'[k] = 1
        /\ \A s \in 0..StepCap : s # k => heard'[s] = heard[s]
    BY <1>3, <1>5 DEF MeterInv, MeterTyped
  <1>7. MeterTyped'
    BY <1>3, <1>4, <1>6 DEF MeterInv, MeterTyped
  <1>8. Accounts'
    BY <1>3 DEF MeterInv, Accounts
  <1>9. Progress'
    BY <1>2, <1>3, <1>4 DEF MeterInv, Progress
  <1>10. Within'
    BY <1>3 DEF MeterInv, Within
  <1>11. Tries'
    <2>1. \A s \in 0..StepCap :
            /\ requests[s] <= MaxRetries + 1 /\ heard[s] <= 1 /\ (requests[s] > 0 => s <= bill.next)
            /\ s > k => requests[s] = 0 /\ heard[s] = 0
      BY <1>2, <1>3 DEF MeterInv, Tries
    <2>2. \A s \in 0..StepCap :
            /\ requests'[s] <= MaxRetries + 1 /\ heard'[s] <= 1 /\ (requests'[s] > 0 => s <= bill'.next)
            /\ s > k => requests'[s] = 0 /\ heard'[s] = 0
      BY <1>3, <1>5, <1>6, <2>1
    <2> QED BY <1>3, <1>4, <2>2 DEF Tries
  <1> QED BY <1>7, <1>8, <1>9, <1>10, <1>11 DEF MeterInv

\* A usage is taken up to be recorded.
LEMMA UsageKeeps ==
    ASSUME MeterInv, NEW u \in Usages, stream_usage(u)
    PROVE  MeterInv'
  <1>1. CASE sampler.seen \/ u.total < u.in + u.out
    BY <1>1, OverKeeps DEF stream_usage, Ways
  <1>2. CASE ~(sampler.seen \/ u.total < u.in + u.out)
    <2>1. PICK x : x = [sampler EXCEPT !.pc = "record", !.usage = u]
      OBVIOUS
    <2>2. /\ sampler.pc = "stream" /\ sampler' = x /\ ~sampler.seen
          /\ UNCHANGED <<setting, route, bill, requests, heard, billed, spent>>
      BY <1>2, <2>1 DEF stream_usage
    <2>3. /\ x.pc = "record" /\ x.sampling = sampler.sampling /\ x.bound = sampler.bound
          /\ x.rate = sampler.rate /\ x.cap = sampler.cap /\ x.usage = u /\ x \in Samplers
      BY <2>1 DEF MeterInv, MeterTyped, Samplers
    <2>4. MeterTyped'
      BY <2>2, <2>3 DEF MeterInv, MeterTyped
    <2>5. Accounts'
      BY <2>2 DEF MeterInv, Accounts
    <2>6. Progress'
      BY <2>2, <2>3 DEF MeterInv, Progress
    <2>7. Within'
      BY <2>2 DEF MeterInv, Within
    <2>8. Tries'
      BY <2>2, <2>3 DEF MeterInv, Tries
    <2> QED BY <2>4, <2>5, <2>6, <2>7, <2>8 DEF MeterInv
  <1> QED BY <1>1, <1>2

\* A metered sampling with tool calls: the loop starts again.
LEMMA ToolsKeep ==
    ASSUME MeterAssumption, MeterInv, sampled_tools
    PROVE  MeterInv'
  <1>1. CASE ~Metered
    BY <1>1, OverKeeps DEF sampled_tools, Ways
  <1>2. CASE Metered
    <2>1. PICK x : x = [sampler EXCEPT !.pc = "load", !.sampling = @ + 1]
      OBVIOUS
    <2>2. /\ sampler.pc = "stream" /\ sampler' = x /\ sampler.seen
          /\ UNCHANGED <<setting, route, bill, requests, heard, billed, spent>>
      BY <1>2, <2>1 DEF sampled_tools, Metered
    <2>3. /\ sampler.sampling \in 0..StepCap /\ StepCap \in Nat /\ sampler.bound
          /\ bill.next = sampler.sampling + 1
      BY <2>2 DEF MeterInv, MeterTyped, Samplers, Progress, MeterAssumption
    <2>4. /\ x.pc = "load" /\ x.sampling = sampler.sampling + 1 /\ x.bound = sampler.bound
          /\ x.rate = sampler.rate /\ x.cap = sampler.cap /\ x \in Samplers
      BY <2>1, <2>3 DEF MeterInv, MeterTyped, Samplers
    <2>5. MeterTyped'
      BY <2>2, <2>4 DEF MeterInv, MeterTyped
    <2>6. Accounts'
      BY <2>2 DEF MeterInv, Accounts
    <2>7. Progress'
      BY <2>2, <2>3, <2>4 DEF MeterInv, Progress
    <2>8. Within'
      BY <2>2 DEF MeterInv, Within
    <2>9. Tries'
      BY <2>2, <2>3, <2>4 DEF MeterInv, Tries
    <2> QED BY <2>5, <2>6, <2>7, <2>8, <2>9 DEF MeterInv
  <1> QED BY <1>1, <1>2

\* What the rows before this record cost, whether or not the row has a cost yet.
LEMMA CostSoFar ==
    ASSUME MeterAssumption, MeterInv, NEW base,
           base = (IF bill.cost = Blank THEN NoCost ELSE bill.cost)
    PROVE  /\ base.micro \in Nat /\ base.rem \in Nat /\ spent \in Nat
           /\ base.micro * Million + base.rem = spent
  <1>1. bill \in Bills /\ spent \in Nat /\ Million \in Nat
    BY DEF MeterInv, MeterTyped, MeterAssumption
  <1>2. CASE bill.cost = Blank
    <2>1. spent = 0
      BY <1>1, <1>2 DEF MeterInv, Accounts, Bills
    <2>2. base.micro = 0 /\ base.rem = 0
      BY <1>2 DEF NoCost
    <2>3. 0 * Million = 0
      BY <1>1
    <2> QED BY <1>1, <2>1, <2>2, <2>3
  <1>3. CASE bill.cost # Blank
    <2>1. bill.cost \in Costs
      BY <1>1, <1>3 DEF Bills
    <2>2. base.micro \in Nat /\ base.rem \in Nat
      BY <1>3, <2>1 DEF Costs, MeterAssumption
    <2>3. base.micro * Million + base.rem = spent
      BY <1>3 DEF MeterInv, Accounts
    <2> QED BY <1>1, <2>2, <2>3
  <1> QED BY <1>2, <1>3

\* The cost a record leaves in the row.
LEMMA CostAfter ==
    ASSUME MeterAssumption, MeterInv, sampler.pc = "record", NEW c,
           c = (IF sampler.rate = Blank THEN Blank
                ELSE accrue(IF bill.cost = Blank THEN NoCost ELSE bill.cost,
                            sampler.usage, sampler.rate)),
           c # Blank => c.micro <= IntMax
    PROVE  /\ c \in Costs \cup {Blank}
           /\ (sampler.rate = Blank) <=> (c = Blank)
           /\ c # Blank => c.micro * Million + c.rem
                             = spent + Price(sampler.usage, sampler.rate)
           /\ Price(sampler.usage, sampler.rate) \in Nat
           /\ sampler.rate = Blank => spent + Price(sampler.usage, sampler.rate) = 0
  <1>1. /\ sampler.usage \in Usages /\ sampler.rate \in Rates \cup {Blank}
        /\ bill.next > 0 => bill.rate = sampler.rate
        /\ spent \in Nat /\ bill.next \in Nat
    BY DEF MeterInv, MeterTyped, Samplers, Progress, Bills, MeterAssumption
  <1>2. CASE sampler.rate = Blank
    <2>1. Price(sampler.usage, sampler.rate) = 0
      BY <1>2 DEF Price
    <2>2. spent = 0
      BY <1>1, <1>2 DEF MeterInv, Accounts
    <2> QED BY <1>2, <2>1, <2>2
  <1>3. CASE sampler.rate # Blank
    <2>1. sampler.rate \in Rates
      BY <1>1, <1>3
    <2>2. PICK base : base = (IF bill.cost = Blank THEN NoCost ELSE bill.cost)
      OBVIOUS
    <2>3. c = accrue(base, sampler.usage, sampler.rate)
      BY <1>3, <2>2
    <2>4. /\ base.micro \in Nat /\ base.rem \in Nat /\ spent \in Nat
          /\ base.micro * Million + base.rem = spent
      BY <2>2, CostSoFar
    <2>5. /\ c \in [micro : Nat, rem : 0..Million - 1] /\ c # Blank
          /\ c.micro * Million + c.rem = spent + Price(sampler.usage, sampler.rate)
          /\ Price(sampler.usage, sampler.rate) \in Nat
      BY <1>1, <2>1, <2>3, <2>4, AccrueIsExact
    <2>6. c \in Costs
      BY <2>5 DEF Costs, MeterAssumption
    <2> QED BY <1>3, <2>5, <2>6
  <1> QED BY <1>2, <1>3

\* The row a record leaves.
LEMMA RowAfter ==
    ASSUME MeterAssumption, MeterInv, sampler.pc = "record", sampler.sampling = bill.next,
           NEW r, r = WithUsage(sampler.usage), Fits(r)
    PROVE  /\ r \in Bills /\ r.next = bill.next + 1 /\ r.rate = sampler.rate /\ r.cap = bill.cap
           /\ (sampler.rate = Blank) <=> (r.cost = Blank)
           /\ r.cost # Blank => r.cost.micro * Million + r.cost.rem
                                  = spent + Price(sampler.usage, sampler.rate)
           /\ Price(sampler.usage, sampler.rate) \in Nat
           /\ sampler.rate = Blank => spent + Price(sampler.usage, sampler.rate) = 0
  <1>1. PICK u, rt : u = sampler.usage /\ rt = sampler.rate
    OBVIOUS
  <1>2. PICK c : c = (IF rt = Blank THEN Blank
                      ELSE accrue(IF bill.cost = Blank THEN NoCost ELSE bill.cost, u, rt))
    OBVIOUS
  <1>3. bill \in Bills /\ u \in Usages /\ rt \in Rates \cup {Blank} /\ bill.next \in 0..StepCap
    BY <1>1 DEF MeterInv, MeterTyped, Samplers, Progress, MeterAssumption
  <1>4. r = [bill EXCEPT !.ceiling = Ceiling, !.in = @ + u.in, !.out = @ + u.out,
                         !.total = @ + u.total, !.next = @ + 1, !.last = u,
                         !.rate = rt, !.cost = c]
    BY <1>1, <1>2 DEF WithUsage
  <1>5. /\ r.ceiling = Ceiling /\ r.in = bill.in + u.in /\ r.out = bill.out + u.out
        /\ r.total = bill.total + u.total /\ r.next = bill.next + 1 /\ r.last = u
        /\ r.rate = rt /\ r.cost = c /\ r.cap = bill.cap
    BY <1>3, <1>4 DEF Bills
  <1>6. /\ c \in Costs \cup {Blank}
        /\ (sampler.rate = Blank) <=> (c = Blank)
        /\ c # Blank => c.micro * Million + c.rem
                          = spent + Price(sampler.usage, sampler.rate)
        /\ Price(sampler.usage, sampler.rate) \in Nat
        /\ sampler.rate = Blank => spent + Price(sampler.usage, sampler.rate) = 0
    <2>1. c # Blank => c.micro <= IntMax
      BY <1>5 DEF Fits
    <2> HIDE DEF Price
    <2> QED BY <1>1, <1>2, <2>1, CostAfter
  <1>7. r.in \in 0..IntMax /\ r.out \in 0..IntMax /\ r.total \in 0..IntMax
    <2>1. /\ bill.in \in Nat /\ bill.out \in Nat /\ bill.total \in Nat
          /\ u.in \in Nat /\ u.out \in Nat /\ u.total \in Nat /\ IntMax \in Nat
      BY <1>3 DEF Bills, MeterAssumption
    <2>2. r.total <= IntMax /\ r.in + r.out <= IntMax
      BY DEF Fits
    <2> QED BY <1>5, <2>1, <2>2
  <1>8. r.next \in 0..StepCap + 1
    BY <1>3, <1>5 DEF MeterAssumption
  <1>9. r \in Bills
    BY <1>3, <1>4, <1>6, <1>7, <1>8, <1>5 DEF Bills
  <1> QED BY <1>1, <1>5, <1>6, <1>9

\* The history grows with the row.
LEMMA AccountsAfter ==
    ASSUME MeterAssumption, MeterInv, NEW arrives \in BOOLEAN, record_commits(arrives)
    PROVE  /\ Accounts' /\ bill' \in Bills /\ spent' \in Nat
           /\ billed' \in Seq([u : Usages, rate : Rates \cup {Blank}])
           /\ bill'.next = bill.next + 1 /\ bill'.rate = sampler.rate /\ bill'.cap = bill.cap
  <1>1. PICK r : r = WithUsage(sampler.usage)
    OBVIOUS
  <1>2. PICK n, p : n = [u |-> sampler.usage, rate |-> sampler.rate]
                    /\ p = Price(sampler.usage, sampler.rate)
    OBVIOUS
  <1>3. /\ sampler.pc = "record" /\ sampler.sampling = bill.next /\ Fits(r)
        /\ bill' = r /\ billed' = Append(billed, n) /\ spent' = spent + p
    BY <1>1, <1>2 DEF record_commits
  <1>4. /\ r \in Bills /\ r.next = bill.next + 1 /\ r.rate = sampler.rate /\ r.cap = bill.cap
        /\ (sampler.rate = Blank) <=> (r.cost = Blank)
        /\ r.cost # Blank => r.cost.micro * Million + r.cost.rem = spent + p
        /\ p \in Nat
        /\ sampler.rate = Blank => spent + p = 0
    BY <1>1, <1>2, <1>3, RowAfter
  <1>5. /\ spent \in Nat /\ billed \in Seq([u : Usages, rate : Rates \cup {Blank}])
        /\ bill.next \in Nat /\ Len(billed) = bill.next
        /\ bill.next > 0 => bill.rate = sampler.rate
        /\ \A i \in DOMAIN billed : billed[i].rate = bill.rate
        /\ sampler.usage \in Usages /\ sampler.rate \in Rates \cup {Blank}
    BY <1>3 DEF MeterInv, MeterTyped, Samplers, Progress, Accounts, Bills, MeterAssumption
  <1>6. n \in [u : Usages, rate : Rates \cup {Blank}] /\ n.rate = sampler.rate
    BY <1>2, <1>5
  <1>7. /\ billed' \in Seq([u : Usages, rate : Rates \cup {Blank}])
        /\ Len(billed') = bill.next + 1 /\ DOMAIN billed' = 1..bill.next + 1
        /\ \A i \in 1..bill.next : billed'[i] = billed[i]
        /\ billed'[bill.next + 1] = n
    BY <1>3, <1>5, <1>6
  <1>8. \A i \in DOMAIN billed' : billed'[i].rate = r.rate
    <2> TAKE i \in DOMAIN billed'
    <2>1. CASE i = bill.next + 1
      BY <1>4, <1>6, <1>7, <2>1
    <2>2. CASE i # bill.next + 1
      <3>1. i \in 1..bill.next /\ DOMAIN billed = 1..bill.next
        BY <1>5, <1>7, <2>2
      <3>2. bill.next > 0 /\ billed'[i] = billed[i] /\ billed[i].rate = bill.rate
        BY <1>5, <1>7, <3>1
      <3> QED BY <1>4, <1>5, <3>2
    <2> QED BY <2>1, <2>2
  <1>9. r.next > 0
    BY <1>4, <1>5
  <1>10. Accounts'
    <2>1. Len(billed') = bill'.next /\ bill'.next > 0 /\ ~(bill'.next = 0)
      BY <1>3, <1>4, <1>5, <1>7, <1>9
    <2>2. /\ bill'.rate = Blank => bill'.cost = Blank /\ spent' = 0
          /\ bill'.rate # Blank => bill'.cost # Blank
          /\ bill'.cost # Blank => bill'.cost.micro * Million + bill'.cost.rem = spent'
      BY <1>3, <1>4
    <2>3. \A i \in DOMAIN billed' : billed'[i].rate = bill'.rate
      BY <1>3, <1>8
    <2> QED BY <2>1, <2>2, <2>3 DEF Accounts
  <1> QED BY <1>3, <1>4, <1>5, <1>7, <1>10

\* A record is written and heard of.
LEMMA RecordKeeps ==
    ASSUME MeterAssumption, MeterInv, NEW arrives \in BOOLEAN, record_commits(arrives)
    PROVE  MeterInv'
  <1>1. /\ Accounts' /\ bill' \in Bills /\ spent' \in Nat
        /\ billed' \in Seq([u : Usages, rate : Rates \cup {Blank}])
        /\ bill'.next = bill.next + 1 /\ bill'.rate = sampler.rate /\ bill'.cap = bill.cap
    BY AccountsAfter
  <1>2. /\ UNCHANGED <<setting, route, requests, heard>> /\ sampler.pc = "record"
        /\ sampler.sampling = bill.next /\ bill.next \in Nat
    BY DEF record_commits, MeterInv, MeterTyped, Bills, MeterAssumption
  <1>3. \A s \in 0..StepCap :
          requests'[s] <= MaxRetries + 1 /\ heard'[s] <= 1 /\ (requests'[s] > 0 => s <= bill'.next)
    <2>1. \A s \in 0..StepCap :
            requests[s] <= MaxRetries + 1 /\ heard[s] <= 1 /\ (requests[s] > 0 => s <= bill.next)
      BY DEF MeterInv, Tries
    <2> QED BY <1>1, <1>2, <2>1
  <1>4. CASE \E why \in Ways : Halts(why)
    <2>1. sampler' \in Samplers /\ sampler'.pc = "over"
      BY <1>4 DEF Halts, MeterInv, MeterTyped, Samplers
    <2>2. MeterTyped'
      BY <1>1, <1>2, <2>1 DEF MeterInv, MeterTyped
    <2>3. Progress' /\ Within'
      BY <2>1 DEF Progress, Within
    <2>4. Tries'
      BY <1>3, <2>1 DEF Tries
    <2> QED BY <1>1, <2>2, <2>3, <2>4 DEF MeterInv
  <1>5. CASE ~\E why \in Ways : Halts(why)
    <2>1. PICK x : x = [sampler EXCEPT !.pc = "stream", !.seen = TRUE, !.usage = Blank]
      OBVIOUS
    <2>2. sampler' = x /\ Receipt(bill') = "recorded"
      <3>1. PICK r, verdict : r = WithUsage(sampler.usage) /\ verdict = Receipt(r)
        OBVIOUS
      <3>2. /\ bill' = r
            /\ IF ~arrives THEN Halts("commit_unknown")
               ELSE IF verdict # "recorded" THEN Halts(verdict)
               ELSE IF sampler.usage.out > MaxOutput THEN Halts("sampling_tokens_exceeded")
               ELSE sampler' = x
        BY <2>1, <3>1 DEF record_commits
      <3>3. verdict # "recorded" => verdict \in Ways
        BY <3>1 DEF Receipt, Ways
      <3>4. "commit_unknown" \in Ways /\ "sampling_tokens_exceeded" \in Ways
        BY DEF Ways
      <3> QED BY <1>5, <3>1, <3>2, <3>3, <3>4
    <2>3. /\ x.pc = "stream" /\ x.sampling = sampler.sampling /\ x.seen = TRUE
          /\ x.bound = sampler.bound /\ x.rate = sampler.rate /\ x.cap = sampler.cap
          /\ x \in Samplers
      BY <2>1 DEF MeterInv, MeterTyped, Samplers
    <2>4. MeterTyped'
      BY <1>1, <1>2, <2>2, <2>3 DEF MeterInv, MeterTyped
    <2>5. /\ sampler.bound /\ sampler.sampling <= StepCap /\ Priced(sampler.cap, sampler.rate)
          /\ sampler.cap = bill.cap
      BY <1>2 DEF MeterInv, Progress
    <2>6. Progress'
      BY <1>1, <1>2, <2>2, <2>3, <2>5 DEF Progress
    <2>7. Within'
      BY <2>2 DEF Within
    <2>8. Tries'
      <3>1. \A s \in 0..StepCap : s > sampler.sampling => requests[s] = 0 /\ heard[s] = 0
        BY <1>2 DEF MeterInv, Tries
      <3> QED BY <1>2, <1>3, <2>2, <2>3, <3>1 DEF Tries
    <2> QED BY <1>1, <2>4, <2>6, <2>7, <2>8 DEF MeterInv
  <1> QED BY <1>4, <1>5

\* Nothing happens.
LEMMA MeterStutters ==
    ASSUME MeterInv, UNCHANGED meterVars
    PROVE  MeterInv'
  BY SettingsStay DEF meterVars, MeterInv, MeterTyped

LEMMA MeterSteps ==
    ASSUME MeterAssumption, MeterInv, MeterNext
    PROVE  MeterInv'
  <1>1. ASSUME NEW cap \in Caps \cup {Blank}, replace(cap)
        PROVE  MeterInv'
    BY <1>1, SettingsStay DEF replace, MeterInv, MeterTyped
  <1>2. ASSUME NEW rate \in Rates \cup {Blank}, reroute(rate)
        PROVE  MeterInv'
    BY <1>2, SettingsStay DEF reroute, MeterInv, MeterTyped
  <1>3. CASE begin_run
    BY <1>3, BeginKeeps
  <1>4. CASE lose_run
    BY <1>4, StatusKeeps DEF lose_run
  <1>5. CASE settle
    BY <1>5, StatusKeeps DEF settle
  <1>6. CASE abandon_run
    BY <1>6, OverKeeps DEF abandon_run, Ways
  <1>7. CASE Sampling
    <2>1. CASE load
      BY <2>1, LoadKeeps
    <2>2. CASE start_session
      BY <2>2, SessionKeeps
    <2>3. CASE first_unavailable
      BY <2>3, RetryKeeps
    <2>4. CASE first_unknown
      BY <2>4, OverKeeps DEF first_unknown, Ways
    <2>5. CASE first_event
      BY <2>5, FirstKeeps
    <2>6. ASSUME NEW u \in Usages, stream_usage(u)
          PROVE  MeterInv'
      BY <2>6, UsageKeeps
    <2>7. CASE sampled_tools
      BY <2>7, ToolsKeep
    <2>8. CASE sampled_answer
      <3>1. PICK why \in Ways : Halts(why)
        BY <2>8 DEF sampled_answer, Ways
      <3> QED BY <2>8, <3>1, OverKeeps DEF sampled_answer
    <2>9. CASE stream_fails
      BY <2>9, OverKeeps DEF stream_fails, Ways
    <2>10. ASSUME NEW arrives \in BOOLEAN, record_commits(arrives)
           PROVE  MeterInv'
      BY <2>10, RecordKeeps
    <2>11. CASE record_refused
      <3>1. PICK why \in Ways : Halts(why)
        BY <2>11 DEF record_refused, Ways
      <3> QED BY <2>11, <3>1, OverKeeps DEF record_refused
    <2> QED BY <1>7, <2>1, <2>2, <2>3, <2>4, <2>5, <2>6, <2>7, <2>8, <2>9, <2>10, <2>11 DEF Sampling
  <1> QED BY <1>1, <1>2, <1>3, <1>4, <1>5, <1>6, <1>7 DEF MeterNext, Settings

LEMMA MeterStarts ==
    ASSUME MeterAssumption, MeterInit
    PROVE  MeterInv
  <1>1. /\ 0 \in 0..IntMax /\ 0 \in 0..StepCap + 1 /\ 0 \in 0..MaxRetries
        /\ StepCap \in Nat /\ MaxRetries \in Nat /\ Ceiling \in Nat
    BY Product DEF MeterAssumption, Ceiling
  <1>2. bill \in Bills /\ bill.next = 0 /\ bill.out = 0 /\ bill.cap = Blank /\ bill.cost = Blank
    BY <1>1 DEF MeterInit, Unmetered, Bills
  <1>3. /\ sampler \in Samplers /\ sampler.pc = "begin" /\ sampler.sampling = 0
        /\ sampler.bound = FALSE
    BY <1>1 DEF MeterInit, NewSampler, Samplers, Ways
  <1>4. MeterTyped
    BY <1>2, <1>3 DEF MeterInit, MeterTyped
  <1>5. Accounts
    BY <1>2 DEF MeterInit, Accounts
  <1>6. Progress
    BY <1>2, <1>3 DEF Progress
  <1>7. Within
    BY <1>1, <1>2 DEF Within, Receipt
  <1>8. Tries
    BY <1>1, <1>2, <1>3 DEF MeterInit, Tries
  <1> QED BY <1>4, <1>5, <1>6, <1>7, <1>8 DEF MeterInv

LEMMA MeterInvImpliesSafety ==
    ASSUME MeterAssumption, MeterInv
    PROVE  MeterSafety
  <1>1. MeterTypeOK
    BY DEF MeterInv, MeterTyped, Bills, Samplers, Costs, MeterTypeOK
  <1>2. CostIsExact
    BY DEF MeterInv, Accounts, CostIsExact
  <1>3. EverySamplingIsRecorded /\ RetriesAreBounded
    BY DEF MeterInv, MeterTyped, Accounts, Tries, EverySamplingIsRecorded, RetriesAreBounded
  <1> QED BY <1>1, <1>2, <1>3 DEF MeterSafety

LEMMA MeterIsInvariant ==
    ASSUME MeterAssumption
    PROVE  MeterSpec => []MeterInv
  <1>1. MeterInit => MeterInv
    BY MeterStarts
  <1>2. MeterInv /\ [MeterNext]_meterVars => MeterInv'
    BY MeterSteps, MeterStutters
  <1> QED BY <1>1, <1>2, PTL DEF MeterSpec

\* Whatever the tariffs, the caps, the usages reported, the retries allowed and
\* the changes of the settings: the cost in a run's row is exactly what its
\* recorded usages cost, every sampling is recorded before the next one is
\* requested, and no sampling is requested or read more often than allowed
\* (record_provider_usage, ProviderCostUpperBound::accrue, RetryingProvider).
THEOREM SpendIsAccountedFor ==
    ASSUME MeterAssumption
    PROVE  MeterSpec => []MeterSafety
  <1>1. MeterInv => MeterSafety
    BY MeterInvImpliesSafety
  <1> QED BY <1>1, MeterIsInvariant, PTL

\* A step that sends a request to a provider.
LEMMA OnlyTheWrapperSends ==
    ASSUME MeterNext, requests' # requests
    PROVE  start_session
  BY DEF MeterNext, Settings, Sampling, replace, reroute, begin_run, lose_run, settle,
         abandon_run, load, first_unavailable, first_unknown, first_event, stream_usage,
         sampled_tools, sampled_answer, stream_fails, record_commits, record_refused

\* No request leaves for a run that has spent its cap or its output ceiling
\* (Receipt, execute's handling of the usage receipt).
THEOREM SpentRunsAskNoMore ==
    ASSUME MeterAssumption
    PROVE  MeterSpec => SpendStops
  <1>1. MeterInv /\ [MeterNext]_meterVars =>
          [requests' # requests =>
             /\ bill.out <= Ceiling
             /\ bill.cap # Blank /\ bill.cost # Blank =>
                  bill.cost.micro * Million + bill.cost.rem <= bill.cap.max * Million]_meterVars
    <2> SUFFICES ASSUME MeterInv, MeterNext, requests' # requests
                 PROVE  /\ bill.out <= Ceiling
                        /\ bill.cap # Blank /\ bill.cost # Blank =>
                             bill.cost.micro * Million + bill.cost.rem <= bill.cap.max * Million
      BY DEF meterVars
    <2>1. sampler.pc = "start"
      BY OnlyTheWrapperSends DEF start_session
    <2>2. bill \in Bills /\ Receipt(bill) = "recorded"
      BY <2>1 DEF MeterInv, MeterTyped, Within
    <2> QED BY <2>2, WithinTheCap
  <1> QED BY <1>1, MeterIsInvariant, PTL DEF MeterSpec, SpendStops

\* Every request of a run is made at one tariff, in its cap's currency, however
\* the agent's route changes meanwhile (load, bound_context).
THEOREM OneTariffPerRun ==
    ASSUME MeterAssumption
    PROVE  MeterSpec => OneTariff
  <1>1. MeterInv /\ [MeterNext]_meterVars =>
          [requests' # requests =>
             /\ bill.cap # Blank => sampler.rate # Blank /\ sampler.rate.cur = bill.cap.cur
             /\ \A i \in DOMAIN billed : billed[i].rate = sampler.rate]_meterVars
    <2> SUFFICES ASSUME MeterInv, MeterNext, requests' # requests
                 PROVE  /\ bill.cap # Blank =>
                             sampler.rate # Blank /\ sampler.rate.cur = bill.cap.cur
                        /\ \A i \in DOMAIN billed : billed[i].rate = sampler.rate
      BY DEF meterVars
    <2>1. sampler.pc = "start"
      BY OnlyTheWrapperSends DEF start_session
    <2>2. /\ Priced(sampler.cap, sampler.rate) /\ sampler.cap = bill.cap
          /\ bill.next > 0 => bill.rate = sampler.rate
      BY <2>1 DEF MeterInv, Progress
    <2>3. /\ \A i \in DOMAIN billed : billed[i].rate = bill.rate
          /\ Len(billed) = bill.next /\ DOMAIN billed = 1..bill.next /\ bill.next \in Nat
      BY DEF MeterInv, MeterTyped, Accounts, Bills, MeterAssumption
    <2>4. \A i \in DOMAIN billed : billed[i].rate = sampler.rate
      <3>1. ASSUME NEW i \in DOMAIN billed
            PROVE  billed[i].rate = sampler.rate
        <4>1. bill.next > 0
          BY <2>3, <3>1
        <4> QED BY <2>2, <2>3, <3>1, <4>1
      <3> QED BY <3>1
    <2> QED BY <2>2, <2>4 DEF Priced
  <1> QED BY <1>1, MeterIsInvariant, PTL DEF MeterSpec, OneTariff

=============================================================================

------------------------------ MODULE MCTools -------------------------------
(* What a run uses besides its journal: the tool budget, the pipeline of a   *)
(* tool call, the meter of the provider's usage, remote interrupts and the   *)
(* cleanup of its artifacts. The components share no variable, so a          *)
(* behaviour of all of them interleaves behaviours of each, and a property   *)
(* of one fails in it only if it fails where that one moves alone: a         *)
(* behaviour here exercises the component that part names. The four whose    *)
(* properties are also proved are extended, the cleanup is instantiated.     *)
EXTENDS ToolCall, ToolBudget, ProviderMeter, RemoteInterrupts, TLC

VARIABLES
    part,       \* the component that moves
    fence, bytes, io, gate, fresh, tails, closing, rd, slot, artifactInv, late, fact,
    refunds, restarts

artifactVars == <<fence, bytes, io, gate, fresh, tails, closing, rd, slot, artifactInv,
                  late, fact, refunds, restarts>>
toolVars == <<part, budget, vars, meterVars, interruptVars, artifactVars>>

-----------------------------------------------------------------------------
(* Three invocations in a circle, each sharing one lock with each of the     *)
(* others, and two without locks that compete for the permits only. The      *)
(* pipeline has two invocations, of two calls or of one, and one decider.    *)
(* Two interrupts come in two rounds, and one person answers them.           *)

ToolNeeds == <<{1, 2}, {2, 3}, {1, 3}, {}, {}>>

(* A small response, one over its own limit and one whose total is too       *)
(* small, at two tariffs and caps that one or two responses reach.           *)

Tariffs == {[cur |-> "usd", inRate |-> 1, outRate |-> 2], [cur |-> "eur", inRate |-> 2, outRate |-> 2]}
CostCaps == {[cur |-> "usd", max |-> 1], [cur |-> "usd", max |-> 2]}
Reports == {[in |-> 1, out |-> 1, total |-> 2], [in |-> 0, out |-> 2, total |-> 3],
            [in |-> 1, out |-> 3, total |-> 4], [in |-> 1, out |-> 1, total |-> 1]}

(* A cleanup with a reader, a query, a second cleanup or a restart of the    *)
(* process.                                                                  *)

Artifact == INSTANCE ArtifactCleanup WITH
    inv <- artifactInv,
    Readers <- {"x"}, Invocations <- {"i1", "i2"}, MaxTails <- 1, MaxRestarts <- 1

ASSUME
    /\ BudgetAssumption
    /\ ToolCallAssumption
    /\ MeterAssumption
    /\ InterruptAssumption
    /\ Artifact!ReadsAssumption
    /\ Artifact!RestartsAssumption

\* The invocations differ only in name: the first one begins first.  So do the calls;
\* two invocations of one call are the business of every_call only.
InOrder ==
    /\ inv'["i2"].pc = "idle" \/ inv["i1"].pc # "idle"
    /\ inv'["i1"].call # "c2"
    /\ class["c1"] = "once_per_run" => inv'["i2"].call # "c1"

\* The interrupts differ only in name, too.
InterruptsInOrder == row'["n2"].state = "none" \/ row'["n1"].state # "none"

\* One cleanup meets a reader, a query, a second cleanup or a restart, not several,
\* and the second cleanup begins after the first.
OneDisturbance ==
    LET reader == rd'["x"].stage # "new"
        second == artifactInv'["i2"] # artifactInv["i2"] \/ artifactInv["i2"].pc # "new"
        again == restarts' > 0
        query == tails' > 0
    IN  /\ Cardinality({k \in 1..4 : <<reader, query, second, again>>[k]}) <= 1
        /\ second \/ "i2" \notin late'
        /\ second => artifactInv["i1"].pc # "new"

-----------------------------------------------------------------------------

Parts == {"budget", "pipeline", "meter", "interrupt", "artifact"}

ToolsInit ==
    /\ part \in Parts
    /\ BudgetInit
    /\ Init
    /\ MeterInit
    /\ InterruptInit
    /\ Artifact!Init
    /\ IF part = "pipeline" THEN class["c1"] = class["c2"]
       ELSE \A c \in DOMAIN class : class[c] = "every_call"
    /\ part # "meter" => setting = Blank /\ route = Blank
    /\ artifactInv["i2"].kind = "terminal"
    /\ part # "artifact" => bytes = "present" /\ artifactInv["i1"].kind = "terminal"

\* The components that do not move.
Frame(p) ==
    /\ UNCHANGED part
    /\ IF p = "budget" THEN TRUE ELSE UNCHANGED budget
    /\ IF p = "pipeline" THEN TRUE ELSE UNCHANGED vars
    /\ IF p = "meter" THEN TRUE ELSE UNCHANGED meterVars
    /\ IF p = "interrupt" THEN TRUE ELSE UNCHANGED interruptVars
    /\ IF p = "artifact" THEN TRUE ELSE UNCHANGED artifactVars

ToolsNext ==
    \/ part = "budget" /\ BudgetNext /\ Frame("budget")
    \/ part = "pipeline" /\ Next /\ Frame("pipeline")
       /\ InOrder
    \/ part = "meter" /\ MeterNext /\ Frame("meter")
    \/ part = "interrupt" /\ InterruptNext /\ Frame("interrupt")
       /\ InterruptsInOrder
    \/ part = "artifact" /\ Artifact!Next /\ Frame("artifact")
       /\ OneDisturbance

ToolsSpec == ToolsInit /\ [][ToolsNext]_toolVars

-----------------------------------------------------------------------------
\* ReadersKeepTheirBytes: An open descriptor or a filled buffer of an admitted
\*   reader keeps its file.
\* CompletedIsEarned: A record is marked deleted and its charge returned once, and
\*   only for bytes that are durably gone.
\* PublishedIsTrue: What the caller of a cleanup is told is true of the file and of
\*   the record.
\* OneWorker: One worker at a time, also when its main task and its caller are
\*   gone.
ArtifactSafety ==
    /\ part = "artifact" =>
         /\ Artifact!TypeOK
         /\ Artifact!ReadersKeepTheirBytes
         /\ Artifact!CompletedIsEarned
         /\ Artifact!PublishedIsTrue
         /\ Artifact!OneWorker

\* SpendStops: Once the recorded cost reaches the cap no request is sent, although
\*   settings change while the run goes on.
\* OneTariff: A run is billed at the tariff it began with, whatever an
\*   administrator edits meanwhile.
\* AnswerIsFinal: An answer that was committed is never replaced, by the same
\*   person or by another one.
\* AnswerIsAuthorized: An answer is committed only by a person who may give it at
\*   that moment, although the right was checked in an earlier statement.
\* StartIsExclusive: Work on the file starts only when no admitted reader and no
\*   query is in flight, although the proof was taken in earlier critical sections.
\* UncertaintySticks: Lost proof is permanent: while it stands no worker starts and
\*   no outcome is published.
ToolSteps ==
    /\ SpendStops
    /\ OneTariff
    /\ AnswerIsFinal
    /\ AnswerIsAuthorized
    /\ Artifact!StartIsExclusive
    /\ Artifact!UncertaintySticks
=============================================================================

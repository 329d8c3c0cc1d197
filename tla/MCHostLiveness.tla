--------------------------- MODULE MCHostLiveness ---------------------------
(* What must eventually happen in the desktop host and in the services:      *)
(* browsers, the screen, confirmations, event streams, the gateway and the   *)
(* MCP connections. The components share no variable (see MCTools): a        *)
(* behaviour exercises the component that part names, on an instance small   *)
(* enough for liveness, under the fairness stated in that component's        *)
(* module.                                                                   *)
EXTENDS Naturals, TLC

CONSTANT Nil

VARIABLES
    part,       \* the component that moves
    live, touched, closed, lifecycle, browserTask, running, shut,
    control, tickets, call, screenQueue, at, current, human, stop, viewers, casting,
    applied, wall,
    clock, rollbacks, events, co, bind, bound, req, admission, owner, monitor, na,
    confirmTask, disp, rd, hard, hardAt, soft, softAt, grantOf,
    agg, tokens, sub, route, brokerQueue, rx, pump, lock, tracker, shed, closing,
    shutdown, closes, raced,
    gen, session, host, cancelled, expired, row, adopted, audited, losses, stage, step,
    expected, tx, http, fence, permit, headersEnd, sends, replied, result,
    actor, rotationConn, rows, secrets, adv, sess, op, cat, en, spends, faults,
    server, client, tok, mcpConn, ops, attempt, actorGen, vendor, w, crashes

browserVars == <<live, touched, closed, lifecycle, browserTask, running, shut>>
screenVars == <<control, tickets, call, screenQueue, at, current, human, stop, viewers,
                casting, applied, wall>>
confirmVars == <<clock, rollbacks, events, co, bind, bound, req, admission, owner,
                 monitor, na, confirmTask, disp, rd, hard, hardAt, soft, softAt,
                 grantOf>>
brokerVars == <<agg, tokens, sub, route, brokerQueue, rx, pump, lock, tracker, shed,
                closing, shutdown, closes, raced>>
journalVars == <<gen, session, host, cancelled, expired, row, adopted, audited, losses,
                 stage, step, expected, tx, http, fence, permit, headersEnd, sends,
                 replied, result>>
rotationVars == <<actor, rotationConn, rows, secrets, adv, sess, op, cat, en, spends,
                  faults>>
mcpVars == <<server, client, tok, mcpConn, ops, attempt, actorGen, vendor, w, crashes>>
vars == <<part, browserVars, screenVars, confirmVars, brokerVars, journalVars,
          rotationVars, mcpVars>>

-----------------------------------------------------------------------------
(* Two callers of one scope.                                                 *)

Browser == INSTANCE BrowserManager WITH
    task <- browserTask, Absent <- Nil,
    Tasks <- {"t1", "t2"}, Scopes <- {"s1"}, Browsers <- 1..6, maximum_live <- 1,
    Instances <- {[scope |-> "s1", computer |-> 1, generation |-> 1],
                  [scope |-> "s1", computer |-> 1, generation |-> 2]}

(* Two calls of one person.                                                  *)

Screen == INSTANCE ScreenOwner WITH
    queue <- screenQueue, None <- Nil,
    Actors <- {"alice"}, Calls <- {"c1", "c2"}, COMMAND_CAPACITY <- 1, Fields <- {},
    MaxEpoch <- 2, HELP_REQUEST_TTL <- 1, MaxTime <- 1, MaxGeneration <- 0

(* One request, one event of the environment.                                *)

Confirm == INSTANCE LocalConfirmation WITH
    task <- confirmTask, None <- Nil,
    Requests <- {"r"}, Bindings <- {"b"}, WAIT <- 1, FRESH <- 1, MaxTime <- 1,
    MaxAttempts <- 1, MaxRollbacks <- 0, MaxReads <- 0, MaxEvents <- 1

(* One subscription, two events.                                             *)

Broker == INSTANCE EventBroker WITH
    queue <- brokerQueue, None <- Nil,
    Subs <- {"s"}, Windows <- {"w"}, QueueCap <- 1, Budget <- 1, MaxOpen <- 1,
    MaxEvents <- ("s" :> 2), MaxCloses <- 1, LateOpen <- FALSE

(* One broken connection.                                                    *)

Journal == INSTANCE GatewayJournal WITH
    MaxRevocations <- 1, MaxLosses <- 1

(* One operation, one session permit, one fault.                             *)

Rotation == INSTANCE GatewayRotation WITH
    conn <- rotationConn,
    Ops <- {"o"}, Sessions <- {"s"}, MaxGen <- 2, MaxFaults <- 1, Overlap <- {}

(* One person, one worker, a request that dies.                              *)

Mcp == INSTANCE McpConnections WITH
    conn <- mcpConn, None <- Nil,
    Creds <- {"c"}, Clients <- {"k"}, Attempts <- {"a"}, Workers <- {"w"},
    Capacity <- 1, MaxToken <- 1, MaxStamp <- 1, MaxGen <- 0, MaxCrash <- 1,
    FirstClient <- "k", Rotates <- FALSE

ASSUME
    /\ Browser!ManagerAssumption
    /\ Screen!ControlAssumption
    /\ Confirm!TimesAssumption
    /\ Broker!BrokerAssumption
    /\ Journal!BoundsAssumption
    /\ Rotation!RotationAssumption
    /\ Mcp!BoundsAreNaturals

-----------------------------------------------------------------------------

Parts == {"browser", "screen", "confirm", "broker", "journal", "rotation", "mcp"}

Init ==
    /\ part \in Parts
    /\ Browser!BrowserInit
    /\ Screen!OwnerInit
    /\ Confirm!Init
    /\ Broker!Init
    /\ Journal!JournalInit
    /\ Rotation!Init
    /\ Mcp!Init

\* The components that do not move.
Frame(p) ==
    /\ UNCHANGED part
    /\ IF p = "browser" THEN TRUE ELSE UNCHANGED browserVars
    /\ IF p = "screen" THEN TRUE ELSE UNCHANGED screenVars
    /\ IF p = "confirm" THEN TRUE ELSE UNCHANGED confirmVars
    /\ IF p = "broker" THEN TRUE ELSE UNCHANGED brokerVars
    /\ IF p = "journal" THEN TRUE ELSE UNCHANGED journalVars
    /\ IF p = "rotation" THEN TRUE ELSE UNCHANGED rotationVars
    /\ IF p = "mcp" THEN TRUE ELSE UNCHANGED mcpVars

Next ==
    \/ part = "browser" /\ Browser!BrowserNext /\ Frame("browser")
    \/ part = "screen" /\ Screen!OwnerNext /\ Frame("screen")
    \/ part = "confirm" /\ Confirm!Next /\ Frame("confirm")
    \/ part = "broker" /\ Broker!Next /\ Frame("broker")
    \/ part = "journal" /\ Journal!JournalNext /\ Frame("journal")
    \/ part = "rotation" /\ Rotation!Next /\ Frame("rotation")
    \/ part = "mcp" /\ Mcp!Next /\ Frame("mcp")

\* The runtime polls what is ready, in each component as its module says.
WeakFairness ==
    /\ \A f \in Browser!BrowserSteps :
         WF_vars(part = "browser" /\ Browser!BrowserStep(f) /\ Frame("browser"))
    /\ \A f \in Screen!FairSteps :
         WF_vars(part = "screen" /\ Screen!FairStep(f) /\ Frame("screen"))
    /\ \A f \in Confirm!FairSteps :
         WF_vars(part = "confirm" /\ Confirm!FairStep(f) /\ Frame("confirm"))
    /\ \A f \in Broker!FairSteps :
         WF_vars(part = "broker" /\ Broker!FairStep(f) /\ Frame("broker"))
    /\ \A f \in Journal!JournalFairSteps :
         WF_vars(part = "journal" /\ Journal!JournalFairStep(f) /\ Frame("journal"))
    /\ \A f \in Rotation!FairSteps :
         WF_vars(part = "rotation" /\ Rotation!FairStep(f) /\ Frame("rotation"))
    /\ \A f \in Mcp!FairSteps :
         WF_vars(part = "mcp" /\ Mcp!FairStep(f) /\ Frame("mcp"))

\* Queues that are served in order, a biased select and answers that come when they are
\* asked for again need strong fairness.  Only one component moves, so one formula can
\* speak for several.
FirstTurn ==
    \/ part = "browser" /\ Browser!lifecycle_acquired("t1") /\ Frame("browser")
    \/ part = "screen" /\ Screen!expire /\ Frame("screen")
    \/ part = "mcp" /\ Mcp!ClaimRevocation("w", "c") /\ Frame("mcp")
SecondTurn ==
    \/ part = "browser" /\ Browser!lifecycle_acquired("t2") /\ Frame("browser")
    \/ part = "screen" /\ Screen!recv /\ Frame("screen")
    \/ part = "mcp" /\ Mcp!SweepMaterial("w") /\ Frame("mcp")
ThirdTurn == part = "mcp" /\ Mcp!RevokeAnswered("w") /\ Frame("mcp")

StrongFairness ==
    SF_vars(FirstTurn) /\ SF_vars(SecondTurn) /\ SF_vars(ThirdTurn)

Spec == Init /\ [][Next]_vars /\ WeakFairness /\ StrongFairness

-----------------------------------------------------------------------------
\* NoLostWakeup: Nobody sleeps for ever waiting for a browser that has no lease any
\*   more.
\* ActivityEnds: A person's lease does not pin the browser: it ends by release,
\*   deadline, successor or the end of the session.
\* StopDrains: Every command is answered, and a session told to stop ends without
\*   any activity left.
\* RequestsEnd: Every confirmation request ends, also one whose dialog is ignored.
\* SlotIsFreed: The only slot of the host comes back, whoever began and gave up.
\* ShutdownEndsStreams: After a shutdown every reader comes to its end and every
\*   pump stops.
\* ClosedEnds: A subscription the host has to close is closed, with its reader and
\*   its pump.
\* ActorIsReleased: A waiting revocation of the actor is always let through by the
\*   fence and the writes.
\* CallsEnd: A call of the gateway journal ends by its deadline.
\* SessionsReturn: Every database session comes back with its permit and its
\*   advisory lock.
\* OwedIsSettled: A revocation that is owed is settled, unless the server is left
\*   without a usable client.
ServicesSettle ==
    /\ Browser!NoLostWakeup
    /\ Screen!ActivityEnds
    /\ Screen!StopDrains
    /\ Confirm!RequestsEnd
    /\ Confirm!SlotIsFreed
    /\ Broker!ShutdownEndsStreams
    /\ Broker!ClosedEnds
    /\ Journal!ActorIsReleased
    /\ []<>(part = "journal" => Journal!CallEnded)
    /\ Rotation!SessionsReturn
    /\ Mcp!OwedIsSettled
=============================================================================

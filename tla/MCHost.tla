------------------------------- MODULE MCHost -------------------------------
(* The desktop application, the computers it lends and the histories it      *)
(* shows: the browser pool, the owner of a screen, the control service,      *)
(* local confirmation, the PostgreSQL sidecar, the event broker; and the     *)
(* clearing of a thread's history. They share no variable: a behaviour       *)
(* exercises the component that part names (see MCTools). Computer control   *)
(* (two people, an epoch of two bits, two restarts), the browsers and the    *)
(* histories, whose properties are also proved, are extended.                *)
EXTENDS ComputerControl, BrowserManager, ThreadHistory, TLC

VARIABLES
    part,       \* the component that moves
    screenControl, screenTickets, call, screenQueue, at, current, human, stop, viewers,
    casting, applied, wall,
    clock, rollbacks, events, co, bind, bound, req, admission, owner, monitor, na,
    confirmTask, disp, rd, hard, hardAt, soft, softAt, grantOf,
    sidecarLock, startup, helper, witness, scram, store, data, pidFile, bumps, server,
    kid, app,
    agg, tokens, sub, route, brokerQueue, rx, pump, brokerLock, tracker, shed, closing,
    shutdown, closes, raced

screenVars == <<screenControl, screenTickets, call, screenQueue, at, current, human,
                stop, viewers, casting, applied, wall>>
confirmVars == <<clock, rollbacks, events, co, bind, bound, req, admission, owner,
                 monitor, na, confirmTask, disp, rd, hard, hardAt, soft, softAt,
                 grantOf>>
sidecarVars == <<sidecarLock, startup, helper, witness, scram, store, data, pidFile,
                 bumps, server, kid, app>>
brokerVars == <<agg, tokens, sub, route, brokerQueue, rx, pump, brokerLock, tracker,
                shed, closing, shutdown, closes, raced>>
hostVars == <<part, browserVars, screenVars, vars, confirmVars, sidecarVars,
              brokerVars, historyVars>>

-----------------------------------------------------------------------------
(* Browsers: two scopes, a second generation and a second identity, one      *)
(* place.                                                                    *)

HostInstances ==
    {[scope |-> "s1", computer |-> 1, generation |-> 1],
     [scope |-> "s1", computer |-> 1, generation |-> 2],
     [scope |-> "s2", computer |-> 2, generation |-> 1],
     [scope |-> "s2", computer |-> 1, generation |-> 2]}

(* Two calls of two people at one session.                                   *)

Screen == INSTANCE ScreenOwner WITH
    control <- screenControl, tickets <- screenTickets, queue <- screenQueue,
    Actors <- {"alice", "bob"}, Calls <- {"c1", "c2"}, COMMAND_CAPACITY <- 1,
    Fields <- {"field"}, MaxEpoch <- 2, HELP_REQUEST_TTL <- 1, MaxTime <- 2, MaxGeneration <- 2

(* Two requests for the one dialog, or one and a clock that is set back; one *)
(* event of the environment.                                                 *)

Confirm == INSTANCE LocalConfirmation WITH
    task <- confirmTask,
    Requests <- {"r1", "r2"}, Bindings <- {"b"}, WAIT <- 1, FRESH <- 1, MaxTime <- 1,
    MaxAttempts <- 1, MaxRollbacks <- 1, MaxReads <- 1, MaxEvents <- 1

(* Three runs of the application on one data directory.                      *)

Sidecar == INSTANCE PostgresSidecar WITH
    lock <- sidecarLock,
    MaxStarts <- 3, SlowOpen <- FALSE

(* Two subscriptions of one window that share one place.                     *)

Broker == INSTANCE EventBroker WITH
    queue <- brokerQueue, lock <- brokerLock,
    Subs <- {"s1", "s2"}, Windows <- {"w"}, QueueCap <- 1, Budget <- 1, MaxOpen <- 2,
    MaxEvents <- ("s1" :> 2 @@ "s2" :> 1), MaxCloses <- 1, LateOpen <- TRUE

ASSUME
    /\ ManagerAssumption
    /\ Screen!ControlAssumption
    /\ ControlAssumption
    /\ Confirm!TimesAssumption
    /\ Sidecar!SidecarAssumption
    /\ Broker!BrokerAssumption
    /\ HistoryAssumption

\* The host closes a stream or shuts down, not both.
OneEnding == closes' = 0 \/ shutdown' = "no"

\* Identities of one kind differ only in name: the first one is used first.
CallsInOrder ==
    /\ call'["c2"] # Screen!Unasked => call'["c1"] # Screen!Unasked
    /\ call'["c1"].actor # "bob"
RequestsInOrder == req'["r2"].pc # "idle" => req'["r1"].pc # "idle"

\* The wall clock is set back in behaviours with one request, and no other event.
OneRequestOnRollback == rollbacks' > 0 => req'["r2"].pc = "idle" /\ events' = 0

\* Histories: two rows of one thread, written, read and cleared by two processes.
OneThread ==
    /\ deleted' \subseteq {"h1"}
    /\ \A p \in Procs : tx'[p].thread # "h2" /\ tx'[p].actor # "a2"
    /\ \A c \in conflicts' : c.thread = "h1" /\ c.actor = "a1"

\* Histories, too: two people close two empty threads with the same request id.
OnlyClosing ==
    /\ UNCHANGED <<run, acceptance, snapshot>>
    /\ \A p \in Procs : tx'[p].kind \notin {"write", "begin"}
    /\ nextXid' <= 5

\* The longer stream opens first.
StreamsInOrder == sub'["s2"].pc # "idle" => sub'["s1"].pc # "idle"

-----------------------------------------------------------------------------

Parts == {"browser", "screen", "control", "confirm", "sidecar", "broker", "history", "closing"}

HostInit ==
    /\ part \in Parts
    /\ BrowserInit
    /\ Screen!OwnerInit
    /\ Init
    /\ Confirm!Init
    /\ Sidecar!Init
    /\ Broker!Init
    /\ HistoryInit

\* The components that do not move.
Frame(p) ==
    /\ UNCHANGED part
    /\ IF p = "browser" THEN TRUE ELSE UNCHANGED browserVars
    /\ IF p = "screen" THEN TRUE ELSE UNCHANGED screenVars
    /\ IF p = "control" THEN TRUE ELSE UNCHANGED vars
    /\ IF p = "confirm" THEN TRUE ELSE UNCHANGED confirmVars
    /\ IF p = "sidecar" THEN TRUE ELSE UNCHANGED sidecarVars
    /\ IF p = "broker" THEN TRUE ELSE UNCHANGED brokerVars
    /\ IF p \in {"history", "closing"} THEN TRUE ELSE UNCHANGED historyVars

HostNext ==
    \/ part = "browser" /\ BrowserNext /\ Frame("browser")
    \/ part = "screen" /\ Screen!OwnerNext /\ Frame("screen")
       /\ CallsInOrder
    \/ part = "control" /\ Next /\ Frame("control")
    \/ part = "confirm" /\ Confirm!Next /\ Frame("confirm")
       /\ RequestsInOrder /\ OneRequestOnRollback
    \/ part = "sidecar" /\ Sidecar!Next /\ Frame("sidecar")
    \/ part = "broker" /\ Broker!Next /\ Frame("broker")
       /\ StreamsInOrder /\ OneEnding
    \/ part = "history" /\ HistoryNext /\ Frame("history")
       /\ OneThread
    \/ part = "closing" /\ HistoryNext /\ Frame("closing")
       /\ OnlyClosing

HostSpec == HostInit /\ [][HostNext]_hostVars

-----------------------------------------------------------------------------
\* LeaseIsCovered: While a person has the wheel the owner holds an activity for it,
\*   and a deadline that will end it.
\* RefusedHadNoEffect: An input that was answered as busy, closed or refused has
\*   not reached the page.
\* LeaseWasAnswered: Between commands the activity of a person is that of a take
\*   whose caller was there when the answer was sent, and the lease is the one its
\*   ticket names.
ScreenSafety ==
    /\ part = "screen" =>
         /\ Screen!OwnerTypeOK
         /\ Screen!LeaseIsCovered
         /\ Screen!RefusedHadNoEffect
         /\ Screen!LeaseWasAnswered

\* SlotCoversDialog: The slot of the host is held for as long as a dialog may be on
\*   the screen, also by a request that was dropped or timed out.
\* NoSpuriousRevocation: Losing a race for the mutex is not taken for a clock set
\*   back: without one, and without a revoking event, no grant is lost.
ConfirmSafety ==
    /\ part = "confirm" =>
         /\ Confirm!TypeOK
         /\ Confirm!SlotCoversDialog
         /\ Confirm!NoSpuriousRevocation

\* OneServer: The application never has a second server process for its data
\*   directory, whatever runs died and left one behind.
\* ServedIsComplete: A server is only ever started on a cluster that initdb
\*   finished.
\* ClusterKeyIsStored: A finished cluster accepts the secret the key store holds,
\*   whatever attempts to create the secret were cut short.
\* MidPhaseKeepsTheLock: A journal left between its phases is always found together
\*   with the start lock.
\* OrphansAreRemembered: While a server outlives its run the start lock and the
\*   journal make a later run prove it gone.
\* OpenedAfterInvalidation: The window never opens on an existing cluster before
\*   the credentials issued before the last recovery were invalidated.
\* ConsumedIsOwed: Consuming a recovery epoch never loses its obligation: it is
\*   still required, or done.
SidecarSafety ==
    /\ part = "sidecar" =>
         /\ Sidecar!TypeOK
         /\ Sidecar!OneServer
         /\ Sidecar!ServedIsComplete
         /\ Sidecar!ClusterKeyIsStored
         /\ Sidecar!MidPhaseKeepsTheLock
         /\ Sidecar!OrphansAreRemembered
         /\ Sidecar!OpenedAfterInvalidation
         /\ Sidecar!ConsumedIsOwed

\* GapHasCarrier: While a route owes its reader a gap, a frame that will carry it
\*   waits in its slot.
\* TerminalIsLast: When the sender is gone the reader still finds the terminal
\*   frame, and nothing after it, however full the queue was.
\* AggregateIsExact: A window's aggregate counts exactly the opens that hold its
\*   token, and registers subscriptions of no earlier window.
\* NoOrphanStream: A subscription that can still be read is known to somebody who
\*   will close it.
\* StreamIsSound: No reader finds its sequence broken, unless a reader freed a
\*   place while one of its frames was delivered.
\* ShedIsReported: What the broker counted as shed is what the reader of an ended
\*   stream knows is missing.
BrokerSafety ==
    /\ part = "broker" =>
         /\ Broker!TypeOK
         /\ Broker!GapHasCarrier
         /\ Broker!TerminalIsLast
         /\ Broker!AggregateIsExact
         /\ Broker!NoOrphanStream
         /\ Broker!StreamIsSound
         /\ Broker!ShedIsReported

\* InstallIsOwned: A grant is written only for a request that is still there, in an
\*   open window, in time, and never brings an older confirmation back.
\* CancelDominates: A cancelled attempt never yields a confirmation after the
\*   cancellation was passed on.
\* FreshIsEarned: Whenever a read answers fresh, the grant was earned and not
\*   revoked by the sample the read used.
\* ClosedNeverGrows: From the moment a history is closed no body appears in it and
\*   no run begins, although writers admitted before may still commit.
HostSteps ==
    /\ Confirm!InstallIsOwned
    /\ Confirm!CancelDominates
    /\ Confirm!FreshIsEarned
    /\ ClosedNeverGrows
=============================================================================

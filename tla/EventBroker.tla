---------------------------- MODULE EventBroker ----------------------------
(***************************************************************************)
(* The desktop event path: structured subscriptions of a webview, the pump *)
(* that drains an application stream into the broker, the broker's bounded *)
(* route per subscription, and the reader that checks every frame's        *)
(* sequence number before the webview sees it.                             *)
(*                                                                         *)
(* A route's queue has QueueCap places for events and one more that only a *)
(* terminal frame may take.  All routes of a webview share Budget permits. *)
(* The broker works under one lock; a reader takes frames without it.      *)
(***************************************************************************)
EXTENDS Naturals, Sequences, FiniteSets, FiniteSetsExt

CONSTANTS
    Subs,           \* subscription identities, each used once
    Windows,        \* webviews
    QueueCap,       \* events one route's queue holds
    Budget,         \* events all queues of a webview hold together
    MaxOpen,        \* live and opening subscriptions of a webview
    MaxEvents,      \* bound: events of each stream
    MaxCloses,      \* bound: windows or subscriptions closed by the host
    LateOpen,       \* may a stream open after the shutdown it did not see
    None

BrokerAssumption ==
    /\ QueueCap \in Nat \ {0} /\ Budget \in Nat \ {0} /\ MaxOpen \in Nat \ {0}
    /\ MaxEvents \in [Subs -> Nat] /\ MaxCloses \in Nat
    /\ LateOpen \in BOOLEAN

VARIABLES
    agg,        \* window -> its aggregate [token, pending, regs], or None
    tokens,     \* aggregates created so far
    sub,        \* subscription -> [pc, window, token, class]
    route,      \* subscription -> [live, next, slot, gap]: its route in the broker
    queue,      \* subscription -> frames sent and not yet read
    rx,         \* subscription -> "none", "open" or "gone": its receiving half
    pump,       \* subscription -> [pc, left, cancel]: the task that drains its stream
    lock,       \* the pump or the host that works in the broker, or None
    tracker,    \* subscription -> [expected, missing, error]
    shed,       \* subscription -> frames the broker counted as not delivered
    closing,    \* subscriptions the host still has to close
    shutdown,   \* "no", "cancelled", "closed", "over"
    closes,
    raced       \* subscriptions a reader freed a place beside while a frame was delivered

eventVars == <<agg, tokens, sub, route, queue, rx, pump, lock, tracker, shed, closing,
               shutdown, closes>>
vars == <<eventVars, raced>>
brokerVars == <<route, queue, rx, lock, shed>>

Host == "host"
NoRoute == [live |-> FALSE, next |-> 0, slot |-> None, gap |-> None]

Init ==
    /\ agg = [w \in Windows |-> None]
    /\ tokens = 0
    /\ sub = [s \in Subs |-> [pc |-> "idle", window |-> None, token |-> 0, class |-> None]]
    /\ route = [s \in Subs |-> NoRoute]
    /\ queue = [s \in Subs |-> <<>>]
    /\ rx = [s \in Subs |-> "none"]
    /\ pump = [s \in Subs |-> [pc |-> "none", left |-> MaxEvents[s], cancel |-> FALSE]]
    /\ lock = None
    /\ tracker = [s \in Subs |-> [expected |-> 0, missing |-> 0, error |-> None]]
    /\ shed = [s \in Subs |-> 0]
    /\ closing = {}
    /\ shutdown = "no"
    /\ closes = 0
    /\ raced = {}

-----------------------------------------------------------------------------
(* Frames and gaps. *)

Frame(n, gap, kind) == [seq |-> n, gap |-> gap, kind |-> kind]

absorb(gap, n) ==
    IF gap = None THEN [from |-> n, through |-> n]
    ELSE [from |-> Min({gap.from, n}), through |-> Max({gap.through, n})]

Queued(s) == Len(SelectSeq(queue[s], LAMBDA f : f.kind = "event"))

\* Permits are released when a frame is read or its queue is dropped.
InUse(token) == MapThenSumSet(Queued, {s \in Subs : sub[s].token = token})

\* try_push of an event: a place of the route's own queue and a shared permit.
room_for_event(s) == Len(queue[s]) < QueueCap /\ InUse(sub[s].token) < Budget

\* A route after its slot was flushed if there is room, and what was sent.
Flushed(s) == route[s].slot # None /\ room_for_event(s)

FlushedRoute(s) ==
    IF Flushed(s) THEN [route[s] EXCEPT !.slot = None, !.gap = None] ELSE route[s]

FlushedQueue(s) ==
    IF Flushed(s) THEN Append(queue[s], Frame(route[s].slot, route[s].gap, "event"))
    ELSE queue[s]

\* terminate records the frame in the slot as one that will never arrive.
FinalGap(gap, slot) == IF slot = None THEN gap ELSE absorb(gap, slot)

\* Mutant: the terminal frame needs a place like any other.
TerminalNeedsRoom(q, r) ==
    IF Len(q) < QueueCap
    THEN Append(q, Frame(r.next, FinalGap(r.gap, r.slot), "terminal")) ELSE q

\* terminate: the terminal frame takes the reserved place with whatever gap is left.
TerminalQueue(q, r) ==
    IF Len(q) < QueueCap + 1
    THEN Append(q, Frame(r.next, FinalGap(r.gap, r.slot), "terminal")) ELSE q

Shed(n) == IF n = None THEN 0 ELSE 1

\* The broker flushes and terminates the route of s and drops its sender.
CloseRoute(s) ==
    IF ~route[s].live THEN UNCHANGED <<route, queue, shed>>
    ELSE /\ route' = [route EXCEPT ![s] = NoRoute]
         /\ queue' = IF rx[s] = "gone" THEN queue
                     ELSE [queue EXCEPT ![s] = TerminalQueue(FlushedQueue(s), FlushedRoute(s))]
         /\ shed' = [shed EXCEPT ![s] = @ + Shed(FlushedRoute(s).slot)]

-----------------------------------------------------------------------------
(* Opening a subscription: DesktopStructuredEventBridge::open. *)

Total(a) == a.pending + Cardinality(a.regs)

reserve_window_open(s, w, class) ==
    LET fresh == [token |-> tokens + 1, pending |-> 0, regs |-> {}]
        a == IF agg[w] = None THEN fresh ELSE agg[w]
    IN  /\ sub[s].pc = "idle"
        /\ Total(a) < MaxOpen
        /\ tokens' = Max({tokens, a.token})
        /\ agg' = [agg EXCEPT ![w] = [a EXCEPT !.pending = @ + 1]]
        /\ sub' = [sub EXCEPT ![s] = [pc |-> "reserved", window |-> w, token |-> a.token,
                                      class |-> class]]
        /\ UNCHANGED <<brokerVars, pump, tracker, closing, shutdown, closes>>

Current(s) == agg[sub[s].window] # None /\ agg[sub[s].window].token = sub[s].token

\* An aggregate nobody uses is dropped.
Kept(a) == IF a.pending = 0 /\ a.regs = {} THEN None ELSE a

release_pending_open(s) ==
    agg' = IF Current(s)
           THEN [agg EXCEPT ![sub[s].window] = Kept([@ EXCEPT !.pending = @ - 1])]
           ELSE agg

Refused(s) == sub' = [sub EXCEPT ![s].pc = "over"]

\* open_session_inner looks at the shutdown once, before it subscribes.
open_session(s) ==
    /\ sub[s].pc = "reserved"
    /\ IF shutdown # "no"
       THEN Refused(s) /\ release_pending_open(s)
       ELSE sub' = [sub EXCEPT ![s].pc = "subscribing"] /\ UNCHANGED agg
    /\ UNCHANGED <<tokens, brokerVars, pump, tracker, closing, shutdown, closes>>

\* The application refuses the stream, or the window closes first.
open_failed(s) ==
    /\ sub[s].pc = "subscribing"
    /\ Refused(s) /\ release_pending_open(s)
    /\ UNCHANGED <<tokens, brokerVars, pump, tracker, closing, shutdown, closes>>

\* The stream is there: a route and a pump, whatever has happened since.
subscribed(s) ==
    /\ sub[s].pc = "subscribing"
    /\ lock = None
    /\ LateOpen \/ shutdown = "no"
    /\ route' = [route EXCEPT ![s] = [NoRoute EXCEPT !.live = TRUE]]
    /\ rx' = [rx EXCEPT ![s] = "open"]
    /\ pump' = [pump EXCEPT ![s].pc = "running"]
    /\ sub' = [sub EXCEPT ![s].pc = "opened"]
    /\ UNCHANGED <<agg, tokens, queue, lock, tracker, shed, closing, shutdown, closes>>

commit(s) ==
    /\ sub[s].pc = "opened"
    /\ IF Current(s)
       THEN /\ agg' = [agg EXCEPT ![sub[s].window] =
                   [@ EXCEPT !.pending = @ - 1, !.regs = @ \cup {s}]]
            /\ sub' = [sub EXCEPT ![s].pc = "live"]
       ELSE sub' = [sub EXCEPT ![s].pc = "dropping"] /\ UNCHANGED agg
    /\ UNCHANGED <<tokens, brokerVars, pump, tracker, closing, shutdown, closes>>

-----------------------------------------------------------------------------
(* The pump of a stream, and EventBroker::publish. *)

PumpEnds(s) == pump' = [pump EXCEPT ![s].pc = "done"]

\* Shutdown ends a pump without touching its route.
pump_shutdown(s) ==
    /\ pump[s].pc = "running" /\ shutdown # "no"
    /\ PumpEnds(s)
    /\ UNCHANGED <<agg, tokens, sub, brokerVars, tracker, closing, shutdown, closes>>

\* The subscription was closed or its stream is at its end.
pump_ends(s) ==
    /\ pump[s].pc = "running"
    /\ lock = None
    /\ PumpEnds(s)
    /\ CloseRoute(s)
    /\ UNCHANGED <<agg, tokens, sub, rx, lock, tracker, closing, shutdown, closes>>

\* publish: refused after the shutdown; otherwise the broker's lock, and first the
\* frame in the slot.  A route whose reader is gone is dropped.
publish(s) ==
    /\ pump[s].pc = "running"
    /\ pump[s].left > 0
    /\ lock = None
    /\ shutdown = "no"
    /\ IF route[s].live /\ rx[s] = "open"
       THEN /\ lock' = s
            /\ pump' = [pump EXCEPT ![s].pc = "publishing", ![s].left = @ - 1]
            /\ route' = [route EXCEPT ![s] = FlushedRoute(s)]
            /\ queue' = [queue EXCEPT ![s] = FlushedQueue(s)]
       ELSE /\ PumpEnds(s)
            /\ route' = [t \in Subs |-> IF rx[t] = "gone" THEN NoRoute ELSE route[t]]
            /\ UNCHANGED <<queue, lock>>
    /\ UNCHANGED <<agg, tokens, sub, rx, tracker, shed, closing, shutdown, closes>>

\* The second half of deliver: the new frame itself.
deliver(s) ==
    LET r == route[s]
        n == r.next
        older == [r EXCEPT !.gap = absorb(r.gap, n), !.next = n + 1]
    IN  /\ lock = s
        /\ lock' = None
        /\ \/ /\ rx[s] = "gone"
              /\ route' = [route EXCEPT ![s] = NoRoute]
              /\ PumpEnds(s)
              /\ UNCHANGED <<queue, shed>>
           \/ /\ rx[s] = "open" /\ room_for_event(s)
              /\ queue' = [queue EXCEPT ![s] = Append(@, Frame(n, r.gap, "event"))]
              /\ route' = [route EXCEPT ![s].gap = None, ![s].next = n + 1]
              /\ pump' = [pump EXCEPT ![s].pc = "running"]
              /\ UNCHANGED shed
           \/ /\ rx[s] = "open" /\ ~room_for_event(s) /\ sub[s].class = "latest"
              /\ route' = [route EXCEPT ![s].slot = n, ![s].next = n + 1,
                              ![s].gap = IF r.slot = None THEN @ ELSE absorb(@, r.slot)]
              /\ shed' = [shed EXCEPT ![s] = @ + Shed(r.slot)]
              /\ pump' = [pump EXCEPT ![s].pc = "running"]
              /\ UNCHANGED queue
           \/ /\ rx[s] = "open" /\ ~room_for_event(s) /\ sub[s].class = "critical"
              /\ queue' = [queue EXCEPT ![s] = TerminalQueue(@, older)]
              /\ route' = [route EXCEPT ![s] = NoRoute]
              /\ shed' = [shed EXCEPT ![s] = @ + 1 + Shed(r.slot)]
              /\ PumpEnds(s)
        /\ UNCHANGED <<agg, tokens, sub, rx, tracker, closing, shutdown, closes>>

-----------------------------------------------------------------------------
(* The reader: pump_tauri_structured_events. *)

observe(t, f) ==
    IF f.gap # None /\ (f.gap.from # t.expected \/ f.gap.through + 1 # f.seq)
    THEN [t EXCEPT !.error = "inconsistent_gap"]
    ELSE LET m == IF f.gap = None THEN t
                  ELSE [t EXCEPT !.missing = @ + f.gap.through - f.gap.from + 1,
                                 !.expected = f.seq]
         IN  IF f.seq > m.expected THEN [m EXCEPT !.error = "silent_loss"]
             ELSE IF f.seq < m.expected THEN [m EXCEPT !.error = "not_monotonic"]
             ELSE [m EXCEPT !.expected = @ + 1]

\* Frames are read, checked and sent on, until the terminal, a broken sequence or a
\* webview that no longer listens.
next_frame(s) ==
    LET f == Head(queue[s])
        t == observe(tracker[s], f)
    IN  /\ sub[s].pc = "live" /\ queue[s] # <<>>
        /\ queue' = [queue EXCEPT ![s] = Tail(@)]
        /\ tracker' = [tracker EXCEPT ![s] = t]
        /\ \/ /\ t.error # None \/ f.kind = "terminal"
              /\ sub' = [sub EXCEPT ![s].pc = IF f.kind = "terminal" /\ t.error = None
                                              THEN "ended" ELSE "dropping"]
           \/ /\ t.error = None /\ f.kind # "terminal"
              /\ UNCHANGED sub
        /\ UNCHANGED <<agg, tokens, route, rx, pump, lock, shed, closing, shutdown, closes>>

\* The webview is gone, or the sender went without a terminal frame.
reader_stops(s) ==
    /\ sub[s].pc = "live"
    /\ \/ closes < MaxCloses /\ closes' = closes + 1
       \/ queue[s] = <<>> /\ ~route[s].live /\ UNCHANGED closes
    /\ sub' = [sub EXCEPT ![s].pc = "dropping"]
    /\ UNCHANGED <<agg, tokens, brokerVars, pump, tracker, closing, shutdown>>

\* remove_registration, for a reader that stops or a subscription the host closes.
Unregistered(s) ==
    IF Current(s) /\ s \in agg[sub[s].window].regs
    THEN [agg EXCEPT ![sub[s].window] = Kept([@ EXCEPT !.regs = @ \ {s}])] ELSE agg

drop_unregister(s) ==
    /\ sub[s].pc \in {"dropping", "ended"}
    /\ agg' = Unregistered(s)
    /\ sub' = [sub EXCEPT ![s].pc = IF @ = "ended" THEN "ended_closing" ELSE "drop_closing"]
    /\ UNCHANGED <<tokens, brokerVars, pump, tracker, closing, shutdown, closes>>

\* The broker route first, then the pump's cancellation.
close_session(s) ==
    /\ lock = None
    /\ CloseRoute(s)
    /\ pump' = [pump EXCEPT ![s].cancel = TRUE]

drop_close(s) ==
    /\ sub[s].pc \in {"ended_closing", "drop_closing"}
    /\ close_session(s)
    /\ rx' = [rx EXCEPT ![s] = "gone"]
    /\ sub' = [sub EXCEPT ![s].pc = IF @ = "ended_closing" THEN "finished" ELSE "over"]
    /\ UNCHANGED <<agg, tokens, lock, tracker, closing, shutdown, closes>>

\* The receiver's queue goes with it.
drop_queue(s) ==
    /\ rx[s] = "gone" /\ queue[s] # <<>>
    /\ queue' = [queue EXCEPT ![s] = <<>>]
    /\ UNCHANGED <<agg, tokens, sub, route, rx, pump, lock, tracker, shed, closing,
                   shutdown, closes>>

-----------------------------------------------------------------------------
(* The host. *)

\* The window's aggregate goes first: nothing can register with it any more.
close_window(w) ==
    /\ closes < MaxCloses /\ agg[w] # None
    /\ closes' = closes + 1
    /\ agg' = [agg EXCEPT ![w] = None]
    /\ closing' = closing \cup agg[w].regs
    /\ UNCHANGED <<tokens, sub, brokerVars, pump, tracker, shutdown>>

close_subscription(s) ==
    /\ closes < MaxCloses /\ sub[s].pc # "idle"
    /\ Current(s) /\ s \in agg[sub[s].window].regs
    /\ closes' = closes + 1
    /\ agg' = Unregistered(s)
    /\ closing' = closing \cup {s}
    /\ UNCHANGED <<tokens, sub, brokerVars, pump, tracker, shutdown>>

host_closes(s) ==
    /\ s \in closing
    /\ close_session(s)
    /\ closing' = closing \ {s}
    /\ UNCHANGED <<agg, tokens, sub, rx, lock, tracker, shutdown, closes>>

begin_shutdown ==
    /\ shutdown = "no"
    /\ shutdown' = "cancelled"
    /\ UNCHANGED <<agg, tokens, sub, brokerVars, pump, tracker, closing, closes>>

\* Every route in its turn, under the broker's lock.
close_all ==
    /\ shutdown = "cancelled"
    /\ \/ lock = None /\ lock' = Host
          /\ UNCHANGED <<route, queue, shed, shutdown>>
       \/ \E s \in Subs : lock = Host /\ route[s].live /\ CloseRoute(s)
          /\ UNCHANGED <<lock, shutdown>>
       \/ /\ lock = Host /\ \A s \in Subs : ~route[s].live
          /\ lock' = None /\ shutdown' = "closed"
          /\ UNCHANGED <<route, queue, shed>>
    /\ UNCHANGED <<agg, tokens, sub, rx, pump, tracker, closing, closes>>

\* Pumps are joined, or aborted when the deadline passes.
join_pumps ==
    /\ shutdown = "closed" /\ lock = None
    /\ shutdown' = "over"
    /\ pump' = [s \in Subs |-> IF pump[s].pc = "running" THEN [pump[s] EXCEPT !.pc = "done"]
                               ELSE pump[s]]
    /\ UNCHANGED <<agg, tokens, sub, brokerVars, tracker, closing, closes>>

-----------------------------------------------------------------------------
Open(s) == open_session(s) \/ subscribed(s) \/ commit(s)
Pump(s) == pump_shutdown(s) \/ pump_ends(s) \/ publish(s) \/ deliver(s)
Reader(s) == next_frame(s) \/ drop_unregister(s) \/ drop_close(s) \/ drop_queue(s)

Step ==
    \/ \E s \in Subs, w \in Windows, c \in {"latest", "critical"} : reserve_window_open(s, w, c)
    \/ \E s \in Subs : \/ Open(s) \/ open_failed(s) \/ Pump(s) \/ Reader(s) \/ reader_stops(s)
                       \/ close_subscription(s) \/ host_closes(s)
    \/ \E w \in Windows : close_window(w)
    \/ begin_shutdown \/ close_all \/ join_pumps

\* A reader takes frames without the broker's lock, also between the two looks at the
\* free places that deliver takes for one frame.
Races == raced' = raced \cup
             {s \in Subs : lock = s /\ \E q \in Subs : Len(queue'[q]) < Len(queue[q])}

Next == Step /\ Races

Spec == Init /\ [][Next]_vars

\* Tasks are polled and the shutdown that began goes on.  No stream has to produce or
\* to end, and no webview has to close.
FairSteps ==
    ({"read", "deliver", "unregister", "drop", "close", "commit", "stop", "pump"} \X Subs)
      \cup {<<"close_all">>, <<"join">>}

FairStep(f) ==
    /\ \/ f[1] = "read" /\ next_frame(f[2])
       \/ f[1] = "deliver" /\ deliver(f[2])
       \/ f[1] = "unregister" /\ drop_unregister(f[2])
       \/ f[1] = "drop" /\ drop_close(f[2])
       \/ f[1] = "close" /\ host_closes(f[2])
       \/ f[1] = "commit" /\ commit(f[2])
       \/ f[1] = "stop" /\ pump_shutdown(f[2])
       \/ f[1] = "pump" /\ pump[f[2]].cancel /\ pump_ends(f[2])
       \/ f[1] = "close_all" /\ close_all
       \/ f[1] = "join" /\ join_pumps
    /\ Races

-----------------------------------------------------------------------------
\* Every variable keeps its shape, queues stay within their places and a webview's
\* queued events within its permits.
TypeOK ==
    /\ \A w \in Windows : agg[w] # None =>
          agg[w].token \in 1..tokens /\ agg[w].pending \in 0..MaxOpen /\ agg[w].regs \subseteq Subs
    /\ \A s \in Subs :
          /\ Len(queue[s]) <= QueueCap + 1
          /\ rx[s] \in {"none", "open", "gone"}
          /\ pump[s].pc \in {"none", "running", "publishing", "done"}
          /\ lock = s <=> pump[s].pc = "publishing"
    /\ \A k \in 1..tokens : InUse(k) <= Budget
    /\ closing \subseteq Subs
    /\ shutdown \in {"no", "cancelled", "closed", "over"}

\* No reader finds its sequence broken unless some reader freed a place while one of
\* its frames was delivered: a frame that did not arrive is always announced by the
\* next one that does (SequenceTracker::observe, deliver).
StreamIsSound == \A s \in Subs : tracker[s].error = None \/ s \in raced

\* A gap is never left without a frame to carry it: while a route owes its reader a
\* gap, a frame waits in its slot.
GapHasCarrier == \A s \in Subs : route[s].gap # None => route[s].slot # None

\* A stream ends with a terminal frame and nothing after it: when the sender is gone
\* the reader still finds the terminal, however full the queue was.
TerminalIsLast ==
    \A s \in Subs :
        /\ \A k \in DOMAIN queue[s] : queue[s][k].kind = "terminal" =>
              k = Len(queue[s]) /\ ~route[s].live
        /\ rx[s] = "open" /\ ~route[s].live /\ sub[s].pc \in {"opened", "live"} =>
              queue[s] # <<>> /\ queue[s][Len(queue[s])].kind = "terminal"

\* What the broker counted as shed is what the reader of an ended stream knows is missing.
ShedIsReported ==
    \A s \in Subs : sub[s].pc = "finished" /\ s \notin raced => tracker[s].missing = shed[s]

\* A window's aggregate counts exactly the opens that still hold its token, and its
\* registrations are subscriptions of that aggregate and of no earlier window.
AggregateIsExact ==
    \A w \in Windows : agg[w] # None =>
        /\ agg[w].pending = Cardinality({s \in Subs :
              /\ sub[s].pc \in {"reserved", "subscribing", "opened"}
              /\ sub[s].window = w /\ sub[s].token = agg[w].token})
        /\ \A s \in agg[w].regs : sub[s].window = w /\ sub[s].token = agg[w].token

\* A subscription that can still be read is known to somebody who will close it: its
\* window, the host that closes it, or its own reader.
NoOrphanStream ==
    \A s \in Subs : sub[s].pc = "live" /\ route[s].live =>
        s \in closing \/ (Current(s) /\ s \in agg[sub[s].window].regs)

\* After a shutdown every reader comes to its end and every pump stops.
ShutdownEndsStreams ==
    []<>(shutdown # "no" =>
            \A s \in Subs : sub[s].pc \notin {"live", "dropping", "ended"} /\ pump[s].pc # "running")

\* What the host has to close is closed, and a subscription that lost its route ends,
\* with its reader and its pump.
ClosedEnds ==
    \A s \in Subs :
        /\ []<>(s \notin closing)
        /\ []<>(\/ sub[s].pc \in {"idle", "reserved", "subscribing", "opened"} \/ route[s].live
                \/ sub[s].pc \in {"over", "finished"} /\ pump[s].pc \in {"none", "done"})
=============================================================================

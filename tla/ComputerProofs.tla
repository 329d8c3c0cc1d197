--------------------------- MODULE ComputerProofs ---------------------------
(***************************************************************************)
(* Proofs about a computer.  Its wheel, for any actors, times, restarts    *)
(* and any width of the epoch.  Its browsers, for any number of callers,   *)
(* scopes, instances and processes and any budget.                         *)
(***************************************************************************)
EXTENDS ComputerControl, BrowserManager, FiniteSetTheorems, TLAPS

-----------------------------------------------------------------------------
(* What makes the fence inductive: no ticket is ahead of the service, and   *)
(* one that names the present generation and epoch is the ticket of the     *)
(* present lease, or its generation is poisoned and lends nothing any more. *)

InStep(k, c) ==
    \/ k.generation < c.generation
    \/ k.generation = c.generation /\ k.epoch < c.epoch
    \/ /\ k.generation = c.generation /\ k.epoch = c.epoch
       /\ c.poisoned \/ Valid(c, k)

TicketsInStep == \A k \in tickets : InStep(k, control)

ControlInv == TypeOK /\ OneHolder /\ TicketsInStep

-----------------------------------------------------------------------------
(* The operations as functions of the service. *)

Service ==
    [generation : 0..MaxGeneration, epoch : 0..MaxEpoch, poisoned : BOOLEAN,
     holder : {"bot", "human"}, requested_at : Times \cup {None},
     secret : Fields \cup {None}, lease : Lease \cup {None}]

\* TypeOK and OneHolder, said of any state of the service.
Sound(c) ==
    /\ c \in Service
    /\ (c.holder = "human") <=> (c.lease # None)
    /\ c.lease # None => c.lease.generation = c.generation /\ c.lease.epoch = c.epoch
    /\ c.poisoned => c.lease = None

\* The ways in which an operation may treat the tickets that are out: it moves
\* nothing they name, it begins an epoch or a generation, or it poisons this one.
Onward(c, d) ==
    \/ /\ d.generation = c.generation /\ d.epoch = c.epoch
       /\ d.lease = c.lease /\ d.poisoned = c.poisoned
    \/ d.generation = c.generation /\ d.epoch = c.epoch + 1
    \/ d.generation = c.generation /\ d.epoch = c.epoch /\ d.poisoned
    \/ d.generation > c.generation /\ d.lease = None

LEMMA SoundIsInv == TypeOK /\ OneHolder <=> Sound(control) /\ tickets \subseteq Ticket
BY DEF TypeOK, OneHolder, Sound, Service

\* release_without_bump and enter_poisoned.
LEMMA Releases ==
    ASSUME NEW c, Sound(c)
    PROVE  /\ Sound(ReleasedWithoutBump(c))
           /\ Sound(Poisoned(c)) /\ Onward(c, Poisoned(c))
<1> DEFINE d == ReleasedWithoutBump(c)
<1>1. /\ d \in Service /\ d.holder = "bot" /\ d.lease = None /\ d.poisoned = c.poisoned
      /\ d.generation = c.generation /\ d.epoch = c.epoch
  BY DEF Sound, Service, ReleasedWithoutBump
<1>2. Sound(d)
  BY <1>1 DEF Sound
<1> DEFINE e == Poisoned(c)
<1>3. /\ e \in Service /\ e.holder = "bot" /\ e.lease = None /\ e.poisoned = TRUE
      /\ e.generation = c.generation /\ e.epoch = c.epoch
  BY <1>1 DEF Service, Poisoned
<1>4. Sound(e) /\ Onward(c, e)
  BY <1>3 DEF Sound, Onward
<1> QED
  BY <1>2, <1>4

\* bump_epoch: whatever change it is made for, as long as that change agrees with
\* the epoch to come.
LEMMA Bumps ==
    ASSUME ControlAssumption, NEW c, Sound(c), NEW d \in Service,
           d.generation = c.generation, d.poisoned = c.poisoned,
           (d.holder = "human") <=> (d.lease # None),
           d.lease # None => d.lease.generation = c.generation /\ d.lease.epoch = c.epoch + 1,
           d.poisoned => d.lease = None
    PROVE  Sound(Bumped(c, d)) /\ Onward(c, Bumped(c, d))
<1>1. CASE Exhausted(c)
  BY <1>1, Releases DEF Bumped
<1>2. CASE ~Exhausted(c)
  <2> DEFINE e == [d EXCEPT !.epoch = c.epoch + 1]
  <2>1. c.epoch + 1 \in 0..MaxEpoch
    BY <1>2 DEF Sound, Service, Exhausted, ControlAssumption
  <2>2. /\ e \in Service /\ e.epoch = c.epoch + 1 /\ e.generation = c.generation
        /\ e.poisoned = d.poisoned /\ e.holder = d.holder /\ e.lease = d.lease
    BY <2>1 DEF Service
  <2>3. Sound(e) /\ Onward(c, e)
    BY <2>2 DEF Sound, Onward
  <2> QED
    BY <1>2, <2>3 DEF Bumped
<1> QED
  BY <1>1, <1>2

LEMMA ReleaseMoves ==
    ASSUME ControlAssumption, NEW c, Sound(c)
    PROVE  Sound(Released(c)) /\ Onward(c, Released(c))
<1> DEFINE d == ReleasedWithoutBump(c)
<1>1. /\ d \in Service /\ d.holder = "bot" /\ d.lease = None /\ d.poisoned = c.poisoned
      /\ d.generation = c.generation
  BY DEF Sound, Service, ReleasedWithoutBump
<1> HIDE DEF d
<1>2. Sound(Bumped(c, d)) /\ Onward(c, Bumped(c, d))
  BY <1>1, Bumps
<1> QED
  BY <1>2 DEF Released, d

LEMMA ExpiryMoves ==
    ASSUME ControlAssumption, NEW c, Sound(c), NEW n \in Times
    PROVE  Sound(WithoutExpired(c, n)) /\ Onward(c, WithoutExpired(c, n))
<1>1. Onward(c, c)
  BY DEF Onward
<1> QED
  BY <1>1, ReleaseMoves DEF WithoutExpired

LEMMA TakeMoves ==
    ASSUME ControlAssumption, NEW c, Sound(c), ~c.poisoned, NEW a \in Actors, NEW x \in Times
    PROVE  Sound(Taken(c, a, x)) /\ Onward(c, Taken(c, a, x))
<1> DEFINE l == [owner |-> a, generation |-> c.generation, epoch |-> c.epoch + 1, expires_at |-> x]
           d == [c EXCEPT !.holder = "human", !.requested_at = None, !.secret = None, !.lease = l]
<1>1. l \in Lease /\ l.generation = c.generation /\ l.epoch = c.epoch + 1
  BY DEF Sound, Service, Lease, ControlAssumption
<1>2. l # None
  BY <1>1 DEF ControlAssumption
<1>3. /\ d \in Service /\ d.holder = "human" /\ d.lease = l /\ d.poisoned = c.poisoned
      /\ d.generation = c.generation
  BY <1>1 DEF Sound, Service
<1>4. Sound(Bumped(c, d)) /\ Onward(c, Bumped(c, d))
  <2> HIDE DEF d, l
  <2> QED
    BY <1>1, <1>2, <1>3, Bumps
<1> QED
  BY <1>4 DEF Taken

LEMMA NavigationMoves ==
    ASSUME ControlAssumption, NEW c, Sound(c), ~c.poisoned
    PROVE  Sound(Navigated(c)) /\ Onward(c, Navigated(c))
<1>1. CASE c.lease = None
  <2>1. Sound(Bumped(c, c)) /\ Onward(c, Bumped(c, c))
    BY <1>1, Bumps DEF Sound
  <2> QED
    BY <1>1, <2>1 DEF Navigated
<1>2. CASE c.lease # None
  <2> DEFINE d == [c EXCEPT !.lease.epoch = c.epoch + 1]
  <2>1. c.lease \in Lease /\ c.epoch \in Nat
    BY <1>2 DEF Sound, Service, ControlAssumption
  <2>2. [c.lease EXCEPT !.epoch = c.epoch + 1] \in Lease
    BY <2>1 DEF Lease
  <2>3. /\ d \in Service /\ d.holder = c.holder /\ d.poisoned = c.poisoned
        /\ d.generation = c.generation /\ d.lease = [c.lease EXCEPT !.epoch = c.epoch + 1]
    BY <2>2 DEF Sound, Service
  <2>4. d.lease.generation = c.generation /\ d.lease.epoch = c.epoch + 1 /\ d.lease # None
    BY <1>2, <2>1, <2>2, <2>3 DEF Lease, Sound, ControlAssumption
  <2>5. Sound(Bumped(c, d)) /\ Onward(c, Bumped(c, d))
    <3>1. c.holder = "human"
      BY <1>2 DEF Sound
    <3> HIDE DEF d
    <3> QED
      BY <2>3, <2>4, <3>1, Bumps
  <2> QED
    BY <1>2, <2>5 DEF Navigated
<1> QED
  BY <1>1, <1>2

LEMMA RestartMoves ==
    ASSUME ControlAssumption, NEW c, Sound(c), NEW g \in 1..MaxGeneration, g > c.generation
    PROVE  Sound(Restarted(c, g)) /\ Onward(c, Restarted(c, g))
<1> DEFINE d == ReleasedWithoutBump(c)
           n == IF Exhausted(c) THEN 0 ELSE c.epoch + 1
           e == [d EXCEPT !.generation = g, !.poisoned = FALSE, !.epoch = n]
<1>1. d \in Service /\ d.holder = "bot" /\ d.lease = None
  BY DEF Sound, Service, ReleasedWithoutBump
<1>2. n \in 0..MaxEpoch
  BY DEF Sound, Service, Exhausted, ControlAssumption
<1>3. /\ e \in Service /\ e.holder = "bot" /\ e.lease = None /\ e.poisoned = FALSE
      /\ e.generation = g
  <2>1. g \in 0..MaxGeneration
    BY DEF ControlAssumption
  <2> HIDE DEF d, n
  <2> QED
    BY <1>1, <1>2, <2>1 DEF Service
<1>4. Sound(e) /\ Onward(c, e)
  <2> HIDE DEF e
  <2> QED
    BY <1>3 DEF Sound, Onward
<1> QED
  BY <1>4 DEF Restarted

LEMMA HelpMoves ==
    ASSUME ControlAssumption, NEW c, Sound(c), NEW r \in Times \cup {None}
    PROVE  LET d == [c EXCEPT !.requested_at = r] IN Sound(d) /\ Onward(c, d)
<1> DEFINE d == [c EXCEPT !.requested_at = r]
<1>1. /\ d \in Service /\ d.holder = c.holder /\ d.lease = c.lease /\ d.poisoned = c.poisoned
      /\ d.generation = c.generation /\ d.epoch = c.epoch
  BY DEF Sound, Service
<1> QED
  BY <1>1 DEF Sound, Onward

LEMMA SecretMoves ==
    ASSUME ControlAssumption, NEW c, Sound(c), NEW f \in Fields \cup {None}
    PROVE  LET d == [c EXCEPT !.secret = f] IN Sound(d) /\ Onward(c, d)
<1> DEFINE d == [c EXCEPT !.secret = f]
<1>1. /\ d \in Service /\ d.holder = c.holder /\ d.lease = c.lease /\ d.poisoned = c.poisoned
      /\ d.generation = c.generation /\ d.epoch = c.epoch
  BY DEF Sound, Service
<1> QED
  BY <1>1 DEF Sound, Onward

\* state ends an expired lease and then an ask that is too old.
LEMMA LookMoves ==
    ASSUME ControlAssumption, NEW c, Sound(c), NEW n \in Times
    PROVE  LET d == WithoutStaleHelp(WithoutExpired(c, n), n) IN Sound(d) /\ Onward(c, d)
<1> DEFINE e == WithoutExpired(c, n)
           d == WithoutStaleHelp(e, n)
<1>1. Sound(e) /\ Onward(c, e)
  BY ExpiryMoves
<1> HIDE DEF e
<1>2. d = e \/ d = [e EXCEPT !.requested_at = None]
  BY DEF WithoutStaleHelp
<1>3. Sound(d)
  BY <1>1, <1>2, HelpMoves
<1>4. e \in Service
  BY <1>1 DEF Sound
<1>5. /\ d.lease = e.lease /\ d.generation = e.generation /\ d.epoch = e.epoch
      /\ d.poisoned = e.poisoned
  BY <1>2, <1>4 DEF Service
<1>6. Onward(c, d)
  BY <1>1, <1>5 DEF Onward
<1> QED
  BY <1>3, <1>6 DEF e

-----------------------------------------------------------------------------
(* The fence. *)

LEMMA Fence ==
    ASSUME ControlAssumption, NEW c, Sound(c), NEW d, Sound(d), Onward(c, d),
           NEW k \in Ticket, InStep(k, c)
    PROVE  /\ InStep(k, d)
           /\ ~Valid(c, k) => ~Valid(d, k)
           /\ d.lease # c.lease => ~Valid(d, k)
<1>1. /\ c.generation \in Nat /\ c.epoch \in Nat /\ d.generation \in Nat /\ d.epoch \in Nat
      /\ k.generation \in Nat /\ k.epoch \in Nat
  BY DEF Sound, Service, Ticket, ControlAssumption
<1>2. Valid(d, k) => /\ ~d.poisoned /\ k.generation = d.generation /\ k.epoch = d.epoch
                     /\ d.lease # None
  BY DEF Valid, Sound, TicketOf
<1>3. CASE /\ d.generation = c.generation /\ d.epoch = c.epoch
           /\ d.lease = c.lease /\ d.poisoned = c.poisoned
  BY <1>3 DEF InStep, Valid
<1>4. CASE d.generation = c.generation /\ d.epoch = c.epoch + 1
  BY <1>1, <1>2, <1>4 DEF InStep
<1>5. CASE d.generation = c.generation /\ d.epoch = c.epoch /\ d.poisoned
  BY <1>1, <1>2, <1>5 DEF InStep
<1>6. CASE d.generation > c.generation /\ d.lease = None
  BY <1>1, <1>2, <1>6 DEF InStep
<1> QED
  BY <1>3, <1>4, <1>5, <1>6 DEF Onward

\* Every step moves the service onward, and issues at most the ticket of the lease.
LEMMA StepMoves ==
    ASSUME ControlAssumption, Sound(control), [Next]_vars
    PROVE  /\ Sound(control') /\ Onward(control, control')
           /\ \/ tickets' = tickets
              \/ /\ control.lease # None /\ control' = control
                 /\ tickets' = tickets \cup {TicketOf(control.lease)}
<1>1. ASSUME NEW n \in Times, state(n) PROVE Sound(control') /\ Onward(control, control') /\ tickets' = tickets
  BY <1>1, LookMoves DEF state
<1>2. ASSUME NEW n \in Times, request_help(n)
      PROVE  Sound(control') /\ Onward(control, control') /\ tickets' = tickets
  BY <1>2, HelpMoves DEF request_help
<1>3. ASSUME NEW n \in Times, assert_bot_may_act(n) \/ authorize_human_input(n)
      PROVE  Sound(control') /\ Onward(control, control') /\ tickets' = tickets
  BY <1>3, ExpiryMoves DEF assert_bot_may_act, authorize_human_input
<1>4. ASSUME NEW n \in Times, issue_human_input_ticket(n)
      PROVE  /\ Sound(control') /\ Onward(control, control')
             /\ \/ tickets' = tickets
                \/ /\ control.lease # None /\ control' = control
                   /\ tickets' = tickets \cup {TicketOf(control.lease)}
  BY <1>4, ExpiryMoves DEF issue_human_input_ticket, WithoutExpired
<1>5. ASSUME NEW n \in Times, NEW a \in Actors, NEW x \in Times, take(a, x, n)
      PROVE  Sound(control') /\ Onward(control, control') /\ tickets' = tickets
  BY <1>5, TakeMoves DEF take
<1>6. ASSUME NEW f \in Fields, request_secret(f) \/ secret_supplied(f)
      PROVE  Sound(control') /\ Onward(control, control') /\ tickets' = tickets
  BY <1>6, SecretMoves DEF request_secret, secret_supplied
<1>7. ASSUME release PROVE Sound(control') /\ Onward(control, control') /\ tickets' = tickets
  BY <1>7, ReleaseMoves DEF release
<1>8. ASSUME document_navigated
      PROVE  Sound(control') /\ Onward(control, control') /\ tickets' = tickets
  BY <1>8, NavigationMoves DEF document_navigated
<1>9. ASSUME NEW g \in 1..MaxGeneration, computer_restarted(g)
      PROVE  Sound(control') /\ Onward(control, control') /\ tickets' = tickets
  BY <1>9, RestartMoves DEF computer_restarted
<1>10. ASSUME UNCHANGED vars
       PROVE  Sound(control') /\ Onward(control, control') /\ tickets' = tickets
  BY <1>10 DEF vars, Onward
<1> QED
  BY <1>1, <1>2, <1>3, <1>4, <1>5, <1>6, <1>7, <1>8, <1>9, <1>10 DEF Next

LEMMA ControlInitial ==
    ASSUME ControlAssumption
    PROVE  Init => ControlInv
<1> SUFFICES ASSUME Init PROVE ControlInv
  OBVIOUS
<1>1. New \in Service
  BY DEF New, Service, ControlAssumption
<1>2. Sound(control)
  BY <1>1 DEF Init, New, Sound
<1> QED
  BY <1>2, SoundIsInv DEF Init, ControlInv, TicketsInStep

LEMMA ControlStep ==
    ASSUME ControlAssumption, ControlInv, [Next]_vars
    PROVE  /\ ControlInv'
           /\ \A k \in tickets : /\ ~Valid(control, k) => ~Valid(control', k)
                                 /\ control'.lease # control.lease => ~Valid(control', k)
<1>1. Sound(control) /\ tickets \subseteq Ticket /\ TicketsInStep
  BY SoundIsInv DEF ControlInv
<1>2. /\ Sound(control') /\ Onward(control, control')
      /\ \/ tickets' = tickets
         \/ /\ control.lease # None /\ control' = control
            /\ tickets' = tickets \cup {TicketOf(control.lease)}
  BY <1>1, StepMoves
<1>3. \A k \in tickets : /\ InStep(k, control')
                         /\ ~Valid(control, k) => ~Valid(control', k)
                         /\ control'.lease # control.lease => ~Valid(control', k)
  BY <1>1, <1>2, Fence DEF TicketsInStep
<1>4. control.lease # None => TicketOf(control.lease) \in Ticket /\ InStep(TicketOf(control.lease), control)
  <2> SUFFICES ASSUME control.lease # None
               PROVE  TicketOf(control.lease) \in Ticket /\ InStep(TicketOf(control.lease), control)
    OBVIOUS
  <2>1. control.lease \in Lease
    BY <1>1 DEF Sound, Service
  <2>2. TicketOf(control.lease) \in Ticket
    BY <2>1 DEF Lease, Ticket, TicketOf
  <2>3. InStep(TicketOf(control.lease), control)
    BY <1>1 DEF InStep, Valid, TicketOf, Sound
  <2> QED
    BY <2>2, <2>3
<1>5. tickets' \subseteq Ticket /\ TicketsInStep'
  BY <1>1, <1>2, <1>3, <1>4 DEF TicketsInStep
<1>6. (TypeOK /\ OneHolder)'
  BY <1>2, <1>5 DEF TypeOK, OneHolder, Sound, Service
<1> QED
  BY <1>3, <1>5, <1>6 DEF ControlInv

-----------------------------------------------------------------------------
(* The theorems. *)

THEOREM ControlInvariant ==
    ASSUME ControlAssumption
    PROVE  Spec => []ControlInv
<1>1. Init => ControlInv
  BY ControlInitial
<1>2. ControlInv /\ [Next]_vars => ControlInv'
  BY ControlStep
<1> QED
  BY <1>1, <1>2, PTL DEF Spec

\* The wheel has one holder, and at no time of anybody's clock both the Bot may act
\* and a ticket authorizes a person (ControlService::state, take, release,
\* assert_bot_may_act, authorize_human_input).
THEOREM WheelIsSafe ==
    ASSUME ControlAssumption
    PROVE  Spec => []ControlSafety
<1>1. ControlInv => NeverBoth
  <2> SUFFICES ASSUME ControlInv, NEW n \in Times, ~control.poisoned,
                      WithoutExpired(control, n).holder = "bot",
                      NEW k \in tickets, NEW a \in Actors, Authorizes(control, a, k, n)
               PROVE  FALSE
    BY DEF NeverBoth
  <2>1. control.lease # None /\ ~Expired(control, n)
    BY DEF Authorizes, Valid
  <2>2. control.holder = "bot"
    BY <2>1 DEF WithoutExpired
  <2> QED
    BY <2>1, <2>2 DEF ControlInv, OneHolder
<1>2. ControlInv => ControlSafety
  BY <1>1 DEF ControlInv, ControlSafety
<1> QED
  BY ControlInvariant, <1>2, PTL

\* Input queued under a ticket is refused after any change of the lease, and stays
\* refused whatever lease, epoch or generation follows (bump_epoch,
\* enter_poisoned, computer_restarted).
THEOREM TicketsAreFenced ==
    ASSUME ControlAssumption
    PROVE  Spec => ControlSteps
<1>1. ControlInv /\ [Next]_vars =>
        [\A k \in tickets : ~Valid(control, k) => ~Valid(control', k)]_vars
  BY ControlStep
<1>2. ControlInv /\ [Next]_vars =>
        [control'.lease # control.lease => \A k \in tickets : ~Valid(control', k)]_vars
  BY ControlStep
<1> QED
  BY ControlInvariant, <1>1, <1>2, PTL DEF Spec, ControlSteps, StaleNeverRevives, HandoverFences

-----------------------------------------------------------------------------
(* The browsers: the inductive invariant. *)

Entries == [instance : Instances, browser : Browsers, idle : BOOLEAN, leases : Nat]

Calling == {"queued", "busy", "waiting", "choose", "launch", "retire", "insert", "rollback"}

\* Between the selection of an operation and its end: the lifecycle mutex.
Locked == {"choose", "launch", "retire", "insert", "rollback", "sweep"}

TaskRecords ==
    [pc : Calling \cup {"idle", "sweep", "leased", "dropping"},
     op : {"ensure", "sweep", "stop", "stop_after_drain", "close_all", Absent},
     instance : Instances \cup {Absent}, keys : SUBSET Scopes, victims : SUBSET Entries,
     browser : Browsers \cup {Absent}, notified : BOOLEAN, failed : BOOLEAN]

BrowserShapes ==
    /\ live \in [Scopes -> Entries \cup {Absent}]
    /\ touched \in Seq(Scopes) /\ IsInjective(touched) /\ ToSet(touched) = Scopes
    /\ Len(touched) = Cardinality(Scopes)
    /\ closed \in BOOLEAN /\ shut \in BOOLEAN
    /\ lifecycle \in Tasks \cup {Absent}
    /\ task \in [Tasks -> TaskRecords]
    /\ running \subseteq Browsers

Lives(b) == \E s \in Scopes : live[s] # Absent /\ live[s].browser = b

Has(r, b) == (b # Absent /\ r.browser = b) \/ \E v \in r.victims : v.browser = b

\* What a caller has in hand, by what it is doing.
Fits(r) ==
    /\ r.pc \in {"choose", "launch", "insert", "rollback"} => r.op = "ensure"
    /\ r.pc = "sweep" => r.op = "sweep"
    /\ r.pc \in {"busy", "waiting"} => r.op = "stop_after_drain"
    /\ r.pc \in Calling /\ r.op \in {"ensure", "stop", "stop_after_drain"} =>
         r.instance \in Instances
    /\ r.pc = "leased" => r.instance \in Instances
    /\ r.victims # {} => r.pc \in {"launch", "retire"}
    /\ r.browser # Absent <=> \/ r.pc \in {"insert", "rollback", "leased", "dropping"}
                              \/ (r.pc = "retire" /\ r.op = "ensure")

CallersFit == \A t \in Tasks : Fits(task[t])

MutexHeld == \A t \in Tasks : (lifecycle = t) <=> task[t].pc \in Locked

\* A resident browser is in its place, runs, and is nobody else's.
InPlace ==
    /\ \A s \in Scopes : live[s] # Absent =>
         live[s].instance.scope = s /\ live[s].browser \in running
    /\ \A s, u \in Scopes : s # u /\ live[s] # Absent /\ live[u] # Absent =>
         live[s].browser # live[u].browser

\* A browser that was taken out of the table runs, has no lease and an empty place.
VictimOk(r, v) ==
    /\ v.leases = 0 /\ v.browser \in running /\ ~Lives(v.browser)
    /\ v.browser # r.browser
    /\ v.instance.scope \in Scopes /\ live[v.instance.scope] = Absent
    /\ \A w \in r.victims :
         w.browser = v.browser \/ w.instance.scope = v.instance.scope => w = v

VictimsKept == \A t \in Tasks : \A v \in task[t].victims : VictimOk(task[t], v)

\* A new browser runs and is known to its launcher only.
NewKept ==
    \A t \in Tasks : task[t].pc \in {"retire", "insert", "rollback"} /\ task[t].browser # Absent =>
        /\ task[t].browser \in running /\ ~Lives(task[t].browser)
        /\ \A u \in Tasks : u # t => ~Has(task[u], task[t].browser)

LeasesCounted ==
    /\ \A s \in Scopes : live[s] # Absent => live[s].leases = Cardinality(Holders(s))
    /\ \A t \in Tasks : task[t].pc = "leased" =>
         /\ task[t].instance.scope \in Scopes
         /\ live[task[t].instance.scope] # Absent
         /\ live[task[t].instance.scope].instance = task[t].instance
         /\ live[task[t].instance.scope].browser = task[t].browser

Accounted == \A b \in running : Lives(b) \/ \E t \in Tasks : Has(task[t], b)

\* The places that are taken or may have to be given back.
Held ==
    {s \in Scopes : live[s] # Absent
                    \/ \E t \in Tasks : \E v \in task[t].victims : v.instance.scope = s}

Budgeted ==
    /\ Cardinality(Held) <= maximum_live
    /\ \A t \in Tasks : task[t].op = "ensure" /\ task[t].pc \in {"launch", "retire", "insert"} =>
         Cardinality(Resident) < maximum_live

Shutting ==
    /\ shut => /\ closed /\ Resident = {}
               /\ \A t \in Tasks : task[t].pc \notin Locked \ {"sweep"}
    /\ \A t \in Tasks : task[t].op = "close_all" /\ task[t].pc \in {"queued", "retire"} =>
         closed /\ (task[t].pc = "retire" => Resident = {})

BrowserInv ==
    /\ BrowserShapes /\ CallersFit /\ MutexHeld /\ InPlace /\ VictimsKept /\ NewKept
    /\ LeasesCounted /\ Accounted /\ Budgeted /\ Shutting

-----------------------------------------------------------------------------
(* Handles and their owners. *)

LEMMA OwnedIsHad ==
    ASSUME NEW t
    PROVE  \A b : b \in Owned(t) <=> Has(task[t], b)
  BY DEF Owned, Has

LEMMA UnsharedIsNotHad ==
    ASSUME NEW t, NEW b, b # Absent
    PROVE  Unshared(b, t) <=> \A u \in Tasks : u # t => ~Has(task[u], b)
  BY OwnedIsHad DEF Unshared

LEMMA LivesIsResident ==
    ASSUME NEW b
    PROVE  Lives(b) <=> \E s \in Resident : live[s].browser = b
  BY DEF Lives, Resident

\* The mutex has one holder: nobody else is between a selection and its end.
LEMMA OneKeeper ==
    ASSUME BrowserInv, NEW t, t \in Tasks, lifecycle \in {t, Absent}, Absent \notin Tasks,
           NEW u, u \in Tasks, u # t
    PROVE  /\ task[u].pc \notin Locked
           /\ task[u].victims = {}
  <1>1. task[u].pc \notin Locked
    BY DEF BrowserInv, MutexHeld
  <1>2. task[u].victims = {}
    BY <1>1 DEF BrowserInv, CallersFit, Fits, Locked
  <1> QED BY <1>1, <1>2

\* What becomes of the record of one caller.
LEMMA OneMoves ==
    ASSUME BrowserInv, NEW t, t \in Tasks, NEW r, r \in TaskRecords, Become(t, r)
    PROVE  /\ task' \in [Tasks -> TaskRecords] /\ task'[t] = r
           /\ \A u \in Tasks : u # t => task'[u] = task[u]
  BY DEF BrowserInv, BrowserShapes, Become

LEMMA RestingFits ==
    /\ Resting \in TaskRecords /\ Fits(Resting)
    /\ Resting.pc = "idle" /\ Resting.victims = {} /\ Resting.browser = Absent
  <1>1. Resting \in TaskRecords
    BY DEF Resting, TaskRecords
  <1>2. /\ Resting.pc = "idle" /\ Resting.victims = {} /\ Resting.browser = Absent
    BY DEF Resting
  <1>3. Fits(Resting)
    BY <1>2 DEF Fits, Calling
  <1> QED BY <1>1, <1>2, <1>3

\* Who gives the mutex up, takes it, or leaves it.
LEMMA MutexFollows ==
    ASSUME BrowserInv, Absent \notin Tasks, NEW t, t \in Tasks, NEW r, task'[t] = r,
           \A u \in Tasks : u # t => task'[u].pc = task[u].pc,
           \/ r.pc \notin Locked /\ lifecycle' = IF lifecycle = t THEN Absent ELSE lifecycle
           \/ r.pc \in Locked /\ lifecycle \in {t, Absent} /\ lifecycle' = t
           \/ (r.pc \in Locked <=> task[t].pc \in Locked) /\ lifecycle' = lifecycle
    PROVE  MutexHeld' /\ lifecycle' \in Tasks \cup {Absent}
  <1> USE DEF BrowserInv
  <1>1. lifecycle \in Tasks \cup {Absent}
    BY DEF BrowserShapes
  <1>2. \A u \in Tasks : (lifecycle = u) <=> task[u].pc \in Locked
    BY DEF MutexHeld
  <1>3. lifecycle' \in Tasks \cup {Absent}
    BY <1>1
  <1>4. ASSUME NEW u \in Tasks
        PROVE  (lifecycle' = u) <=> task'[u].pc \in Locked
    <2>1. CASE r.pc \notin Locked /\ lifecycle' = IF lifecycle = t THEN Absent ELSE lifecycle
      BY <1>1, <1>2, <2>1
    <2>2. CASE r.pc \in Locked /\ lifecycle \in {t, Absent} /\ lifecycle' = t
      BY <1>1, <1>2, <2>2
    <2>3. CASE (r.pc \in Locked <=> task[t].pc \in Locked) /\ lifecycle' = lifecycle
      BY <1>1, <1>2, <2>3
    <2> QED BY <2>1, <2>2, <2>3
  <1> QED BY <1>3, <1>4 DEF MutexHeld

\* Leases are those of the callers that have one.
LEMMA HoldersStay ==
    ASSUME NEW t, t \in Tasks, task[t].pc # "leased", task'[t].pc # "leased",
           \A u \in Tasks : u # t => task'[u].pc = task[u].pc /\ task'[u].instance = task[u].instance
    PROVE  \A s : Holders(s)' = Holders(s)
  BY DEF Holders

LEMMA HoldersFinite ==
    ASSUME ManagerAssumption, NEW s
    PROVE  IsFiniteSet(Holders(s)) /\ Cardinality(Holders(s)) \in Nat
           /\ Cardinality(Holders(s)) <= Cardinality(Tasks)
  <1>1. Holders(s) \subseteq Tasks
    BY DEF Holders
  <1>2. IsFiniteSet(Holders(s)) /\ Cardinality(Holders(s)) <= Cardinality(Tasks)
    BY <1>1, FS_Subset DEF ManagerAssumption
  <1> QED BY <1>2, FS_CardinalityType

LEMMA ScopesFinite ==
    ASSUME ManagerAssumption
    PROVE  /\ IsFiniteSet(Held) /\ IsFiniteSet(Resident) /\ Resident \subseteq Held
           /\ Cardinality(Held) \in Nat /\ Cardinality(Resident) \in Nat
           /\ Cardinality(Resident) <= Cardinality(Held)
  <1>1. Held \subseteq Scopes /\ Resident \subseteq Held
    BY DEF Held, Resident
  <1>2. IsFiniteSet(Held)
    BY <1>1, FS_Subset DEF ManagerAssumption
  <1>3. IsFiniteSet(Resident) /\ Cardinality(Resident) <= Cardinality(Held)
    BY <1>1, <1>2, FS_Subset
  <1> QED BY <1>1, <1>2, <1>3, FS_CardinalityType

-----------------------------------------------------------------------------
(* The steps, by what they do to the browsers. *)

\* A caller with nothing in hand goes on with nothing in hand.
LEMMA MoveKeeps ==
    ASSUME ManagerAssumption, BrowserInv, NEW t, t \in Tasks, NEW r, r \in TaskRecords,
           Become(t, r), Fits(r), r.victims = {}, r.browser = Absent,
           task[t].victims = {}, task[t].browser = Absent,
           r.pc \in {"idle", "queued", "busy", "waiting", "choose", "sweep"},
           MutexHeld', lifecycle' \in Tasks \cup {Absent},
           closed' \in BOOLEAN, shut' \in BOOLEAN, Shutting',
           UNCHANGED <<live, touched, running>>
    PROVE  BrowserInv'
  <1> USE DEF BrowserInv
  <1>1. /\ task' \in [Tasks -> TaskRecords] /\ task'[t] = r
        /\ \A u \in Tasks : u # t => task'[u] = task[u]
    BY OneMoves
  <1>2. task[t].pc \notin {"insert", "rollback", "leased", "dropping"}
    BY DEF CallersFit, Fits
  <1>3. BrowserShapes'
    BY <1>1 DEF BrowserShapes
  <1>4. CallersFit'
    BY <1>1 DEF CallersFit, Fits
  <1>5. InPlace'
    BY DEF InPlace
  <1>6. \A b : Lives(b)' <=> Lives(b)
    BY DEF Lives
  <1>7. \A b, u : u \in Tasks => (Has(task'[u], b) <=> Has(task[u], b))
    BY <1>1 DEF Has
  <1>8. VictimsKept'
    BY <1>1, <1>6 DEF VictimsKept, VictimOk
  <1>9. NewKept'
    BY <1>1, <1>6, <1>7 DEF NewKept
  <1>10. LeasesCounted'
    <2>1. \A s : Holders(s)' = Holders(s)
      BY <1>1, <1>2, HoldersStay
    <2> QED BY <1>1, <2>1 DEF LeasesCounted
  <1>11. Accounted'
    BY <1>6, <1>7 DEF Accounted
  <1>12. Budgeted'
    <2>1. Held' = Held /\ Resident' = Resident
      BY <1>1 DEF Held, Resident
    <2> QED BY <1>1, <2>1 DEF Budgeted
  <1> QED BY <1>3, <1>4, <1>5, <1>8, <1>9, <1>10, <1>11, <1>12

\* The same, while nobody closes the manager.
LEMMA QuietMoveKeeps ==
    ASSUME ManagerAssumption, BrowserInv, NEW t, t \in Tasks, NEW r, r \in TaskRecords,
           Become(t, r), Fits(r), r.victims = {}, r.browser = Absent,
           task[t].victims = {}, task[t].browser = Absent,
           r.pc \in {"idle", "queued", "busy", "waiting", "choose", "sweep"},
           r.pc = "choose" => ~shut, r.pc = "queued" /\ r.op = "close_all" => closed,
           MutexHeld', lifecycle' \in Tasks \cup {Absent},
           UNCHANGED <<live, touched, running, closed, shut>>
    PROVE  BrowserInv'
  <1>1. /\ task' \in [Tasks -> TaskRecords] /\ task'[t] = r
        /\ \A u \in Tasks : u # t => task'[u] = task[u]
    BY OneMoves
  <1>2. Resident' = Resident
    BY DEF Resident
  <1>3. Shutting'
    BY <1>1, <1>2 DEF BrowserInv, Shutting, Locked
  <1>4. closed' \in BOOLEAN /\ shut' \in BOOLEAN
    BY DEF BrowserInv, BrowserShapes
  <1>5. UNCHANGED <<live, touched, running>>
    OBVIOUS
  <1> QED BY <1>3, <1>4, <1>5, MoveKeeps

\* Nothing in hand.
Empty(t) == task[t].victims = {} /\ task[t].browser = Absent

LEMMA EmptyHanded ==
    ASSUME BrowserInv, NEW t, t \in Tasks,
           task[t].pc \in {"idle", "queued", "busy", "waiting", "choose", "sweep"}
    PROVE  Empty(t) /\ task[t] \in TaskRecords /\ Fits(task[t])
  BY DEF Empty, BrowserInv, BrowserShapes, CallersFit, Fits

\* A call returns that had nothing in hand.
LEMMA ReturnKeeps ==
    ASSUME ManagerAssumption, BrowserInv, NEW t, t \in Tasks, Empty(t), Returns(t),
           UNCHANGED <<live, touched, running, closed, shut>>
    PROVE  BrowserInv'
  <1>1. PICK r : r = Resting
    OBVIOUS
  <1>2. /\ r \in TaskRecords /\ Fits(r) /\ r.pc = "idle" /\ r.victims = {} /\ r.browser = Absent
    BY <1>1, RestingFits
  <1>3. Become(t, r) /\ lifecycle' = IF lifecycle = t THEN Absent ELSE lifecycle
    BY <1>1 DEF Returns
  <1>4. /\ task'[t] = r /\ \A u \in Tasks : u # t => task'[u] = task[u]
    BY <1>2, <1>3, OneMoves
  <1>5. MutexHeld' /\ lifecycle' \in Tasks \cup {Absent}
    BY <1>2, <1>3, <1>4, MutexFollows DEF ManagerAssumption, Locked
  <1>6. r.pc # "choose" /\ r.pc # "queued"
    BY <1>2
  <1> QED BY <1>2, <1>3, <1>5, <1>6, QuietMoveKeeps DEF Empty

\* A call begins and queues for the mutex.
LEMMA QueueKeeps ==
    ASSUME ManagerAssumption, BrowserInv, NEW t, t \in Tasks, At(t, "idle"),
           NEW r, r \in TaskRecords, r.pc = "queued", r.victims = {}, r.browser = Absent,
           \/ r.op \in {"ensure", "stop", "stop_after_drain"} /\ r.instance \in Instances
           \/ r.op = "sweep",
           Become(t, r),
           UNCHANGED <<live, touched, lifecycle, running, closed, shut>>
    PROVE  BrowserInv'
  <1>1. Fits(r)
    BY DEF Fits
  <1>2. Empty(t) /\ task[t].pc = "idle"
    BY EmptyHanded DEF At
  <1>3. /\ task'[t] = r /\ \A u \in Tasks : u # t => task'[u] = task[u]
    BY OneMoves
  <1>4. MutexHeld' /\ lifecycle' \in Tasks \cup {Absent}
    BY <1>2, <1>3, MutexFollows DEF ManagerAssumption, Locked
  <1>5. r.pc # "choose" /\ r.op # "close_all"
    OBVIOUS
  <1> QED BY <1>1, <1>2, <1>4, <1>5, QuietMoveKeeps DEF Empty

\* A caller with nothing in hand goes on to another place of its call.
LEMMA GoesKeeps ==
    ASSUME ManagerAssumption, BrowserInv, NEW t, t \in Tasks, NEW r,
           task[t].pc \in {"queued", "busy", "waiting"},
           r.pc \in {"queued", "busy", "waiting", "choose", "sweep"},
           r.pc = "choose" => task[t].op = "ensure" /\ ~shut,
           r.pc = "sweep" => task[t].op = "sweep",
           r.pc \in {"busy", "waiting"} => task[t].op = "stop_after_drain",
           r.pc = "queued" => task[t].pc # "queued" /\ (task[t].op = "close_all" => closed),
           \/ /\ r.pc \in Locked /\ lifecycle = Absent /\ lifecycle' = t
           \/ /\ r.pc \notin Locked /\ lifecycle' = lifecycle,
           r \in TaskRecords, r.op = task[t].op, r.instance = task[t].instance,
           r.victims = task[t].victims, r.browser = task[t].browser,
           Become(t, r), UNCHANGED <<live, touched, running, closed, shut>>
    PROVE  BrowserInv'
  <1>1. Empty(t) /\ Fits(task[t])
    BY EmptyHanded
  <1>2. /\ task'[t] = r /\ \A u \in Tasks : u # t => task'[u] = task[u]
    BY OneMoves
  <1>3. Fits(r)
    BY <1>1 DEF Fits, Empty, Calling
  <1>4. MutexHeld' /\ lifecycle' \in Tasks \cup {Absent}
    <2>1. CASE r.pc \in Locked /\ lifecycle = Absent /\ lifecycle' = t
      BY <1>2, <2>1, MutexFollows DEF ManagerAssumption
    <2>2. CASE r.pc \notin Locked /\ lifecycle' = lifecycle
      BY <1>2, <2>2, MutexFollows DEF ManagerAssumption, Locked
    <2> QED BY <2>1, <2>2
  <1> QED BY <1>1, <1>3, <1>4, QuietMoveKeeps DEF Empty

-----------------------------------------------------------------------------
(* The order of the touches. *)

LEMMA Found ==
    ASSUME NEW S, NEW q \in Seq(S), IsInjective(q), NEW n \in 1..Len(q)
    PROVE  RemoveFirst(q, q[n]) = RemoveAt(q, n)
  <1> DEFINE same == {m \in 1..Len(q) : q[m] = q[n]}
  <1>1. same = {n}
    BY DEF IsInjective
  <1>2. Min({n}) = n
    BY DEF Min
  <1>3. SelectInSeq(q, LAMBDA x : x = q[n]) = n
    BY <1>1, <1>2 DEF SelectInSeq
  <1> QED BY <1>3 DEF RemoveFirst

LEMMA TouchJoins ==
    ASSUME NEW S, NEW a \in Seq(S), NEW b \in Seq(S)
    PROVE  /\ a \o b \in Seq(S) /\ Len(a \o b) = Len(a) + Len(b)
           /\ \A m \in 1..(Len(a) + Len(b)) :
                (a \o b)[m] = IF m <= Len(a) THEN a[m] ELSE b[m - Len(a)]
  OBVIOUS

\* The n-th goes to the end, the others keep their order.
ToEnd(S, q, n, p) ==
    /\ p \in Seq(S) /\ Len(p) = Len(q) /\ p[Len(q)] = q[n]
    /\ \A m \in 1..(Len(q) - 1) : p[m] = IF m < n THEN q[m] ELSE q[m + 1]

\* The scope that is touched goes to the end, the others keep their order.
LEMMA MovedToEnd ==
    ASSUME NEW S, NEW q \in Seq(S), IsInjective(q), NEW n \in 1..Len(q),
           NEW p, p = Append(RemoveFirst(q, q[n]), q[n])
    PROVE  ToEnd(S, q, n, p)
  <1> DEFINE a == SubSeq(q, 1, n - 1)
             b == SubSeq(q, n + 1, Len(q))
  <1>1. /\ a \in Seq(S) /\ Len(a) = n - 1
        /\ \A m \in 1..(n - 1) : a[m] = q[m]
    OBVIOUS
  <1>2. /\ b \in Seq(S) /\ Len(b) = Len(q) - n
        /\ \A m \in 1..(Len(q) - n) : b[m] = q[n + m]
    OBVIOUS
  <1>3. p = Append(a \o b, q[n])
    BY Found DEF RemoveAt
  <1> HIDE DEF a, b
  <1>4. /\ a \o b \in Seq(S) /\ Len(a \o b) = Len(a) + Len(b)
        /\ \A m \in 1..(Len(a) + Len(b)) :
             (a \o b)[m] = IF m <= Len(a) THEN a[m] ELSE b[m - Len(a)]
    BY <1>1, <1>2, TouchJoins
  <1>5. Len(a \o b) = Len(q) - 1 /\ Len(q) \in Nat /\ Len(q) >= 1
    BY <1>1, <1>2, <1>4
  <1>6. /\ p \in Seq(S) /\ Len(p) = Len(q) /\ p[Len(q)] = q[n]
        /\ \A m \in 1..(Len(q) - 1) : p[m] = (a \o b)[m]
    BY <1>3, <1>4, <1>5
  <1>7. ASSUME NEW m \in 1..(Len(q) - 1)
        PROVE  (a \o b)[m] = IF m < n THEN q[m] ELSE q[m + 1]
    <2>1. (a \o b)[m] = IF m <= Len(a) THEN a[m] ELSE b[m - Len(a)]
      BY <1>1, <1>2, <1>4
    <2>2. CASE m < n
      BY <1>1, <2>1, <2>2
    <2>3. CASE ~(m < n)
      <3>1. m - Len(a) \in 1..(Len(q) - n) /\ n + (m - Len(a)) = m + 1 /\ ~(m <= Len(a))
        BY <1>1, <2>3
      <3>2. b[m - Len(a)] = q[n + (m - Len(a))]
        BY <1>2, <3>1
      <3> QED BY <2>1, <2>3, <3>1, <3>2
    <2> QED BY <2>2, <2>3
  <1>8. /\ p \in Seq(S) /\ Len(p) = Len(q) /\ p[Len(q)] = q[n]
        /\ \A m \in 1..(Len(q) - 1) : p[m] = IF m < n THEN q[m] ELSE q[m + 1]
    BY <1>6, <1>7
  <1> QED BY <1>8 DEF ToEnd

LEMMA TouchKeepsOrder ==
    ASSUME BrowserInv, NEW s, s \in Scopes, Touch(s)
    PROVE  /\ touched' \in Seq(Scopes) /\ IsInjective(touched') /\ ToSet(touched') = Scopes
           /\ Len(touched') = Cardinality(Scopes)
  <1>1. /\ touched \in Seq(Scopes) /\ IsInjective(touched) /\ ToSet(touched) = Scopes
        /\ Len(touched) = Cardinality(Scopes) /\ Len(touched) \in Nat
        /\ touched' = Append(RemoveFirst(touched, s), s)
    BY DEF BrowserInv, BrowserShapes, Touch
  <1>2. PICK n \in 1..Len(touched) : touched[n] = s
    BY <1>1 DEF ToSet
  <1>3. /\ touched' \in Seq(Scopes) /\ Len(touched') = Len(touched)
        /\ touched'[Len(touched)] = s
        /\ \A m \in 1..(Len(touched) - 1) :
             touched'[m] = IF m < n THEN touched[m] ELSE touched[m + 1]
    <2>1. PICK p : p = touched'
      OBVIOUS
    <2>2. PICK q : q = touched
      OBVIOUS
    <2>3. /\ q \in Seq(Scopes) /\ IsInjective(q) /\ n \in 1..Len(q) /\ s = q[n]
          /\ p = Append(RemoveFirst(q, s), s)
      BY <1>1, <1>2, <2>1, <2>2
    <2>4. p = Append(RemoveFirst(q, q[n]), q[n])
      BY <2>3
    <2>5. ToEnd(Scopes, q, n, p)
      BY <2>3, <2>4, MovedToEnd
    <2> QED BY <2>1, <2>2, <2>3, <2>5 DEF ToEnd
  <1>4. \A m, k \in 1..Len(touched) : touched[m] = touched[k] => m = k
    BY <1>1 DEF IsInjective
  <1>5. PICK from : from = [m \in 1..Len(touched) |->
                              IF m = Len(touched) THEN n ELSE IF m < n THEN m ELSE m + 1]
    OBVIOUS
  <1>6. \A m \in 1..Len(touched) :
          /\ from[m] \in 1..Len(touched)
          /\ touched'[m] = touched[from[m]]
    BY <1>1, <1>2, <1>3, <1>5
  <1>7. \A m, k \in 1..Len(touched) : from[m] = from[k] => m = k
    BY <1>1, <1>2, <1>5
  <1>8. DOMAIN touched' = 1..Len(touched) /\ DOMAIN touched = 1..Len(touched)
    BY <1>1, <1>3
  <1>9. IsInjective(touched')
    BY <1>4, <1>6, <1>7, <1>8 DEF IsInjective
  <1>10. ASSUME NEW k \in 1..Len(touched)
         PROVE  \E m \in 1..Len(touched) : from[m] = k
    <2>1. CASE k = n
      BY <1>1, <1>2, <1>5, <2>1
    <2>2. CASE k < n
      BY <1>1, <1>2, <1>5, <2>2
    <2>3. CASE k > n
      <3>1. k - 1 \in 1..Len(touched) /\ k - 1 # Len(touched) /\ ~(k - 1 < n) /\ (k - 1) + 1 = k
        BY <1>1, <1>2, <2>3
      <3> QED BY <1>5, <3>1
    <2> QED BY <1>1, <1>2, <2>1, <2>2, <2>3
  <1>11. ToSet(touched') = ToSet(touched)
    <2>1. ASSUME NEW x \in ToSet(touched')
          PROVE  x \in ToSet(touched)
      BY <1>6, <1>8, <2>1 DEF ToSet
    <2>2. ASSUME NEW x \in ToSet(touched)
          PROVE  x \in ToSet(touched')
      <3>1. PICK k \in 1..Len(touched) : touched[k] = x
        BY <1>8, <2>2 DEF ToSet
      <3>2. PICK m \in 1..Len(touched) : from[m] = k
        BY <1>10
      <3> QED BY <1>6, <1>8, <3>1, <3>2 DEF ToSet
    <2> QED BY <2>1, <2>2
  <1> QED BY <1>1, <1>3, <1>9, <1>11

-----------------------------------------------------------------------------
(* Giving up, taking and giving back. *)


LEMMA HadIsBrowser ==
    ASSUME BrowserInv, NEW u, u \in Tasks, NEW v, v \in task[u].victims
    PROVE  /\ VictimOk(task[u], v) /\ v \in Entries /\ v.browser \in Browsers
           /\ v.instance.scope \in Scopes /\ Has(task[u], v.browser)
  BY DEF BrowserInv, BrowserShapes, VictimsKept, VictimOk, TaskRecords, Entries, Has

\* A caller gives up some of what it had in hand: what nobody else knows of is
\* closed, what another caller still refers to goes on running.
LEMMA ShedKeeps ==
    ASSUME ManagerAssumption, BrowserInv, NEW t, t \in Tasks, NEW r, r \in TaskRecords,
           Become(t, r), Fits(r), task[t].pc # "leased", r.pc # "leased",
           r.victims \subseteq task[t].victims, r.browser \in {task[t].browser, Absent},
           r.pc \in {"retire", "insert", "rollback"} =>
               task[t].pc \in {"retire", "insert", "rollback"},
           r.op = "ensure" /\ r.pc \in {"launch", "retire", "insert"} =>
               task[t].op = "ensure" /\ task[t].pc \in {"launch", "retire", "insert"},
           running' \subseteq running,
           \A b \in running : b \in running' \/
               (~Has(r, b) /\ ~Lives(b) /\ \A u \in Tasks : u # t => ~Has(task[u], b)),
           \A b \in running' : Has(task[t], b) =>
               Lives(b) \/ Has(r, b) \/ \E u \in Tasks : u # t /\ Has(task[u], b),
           MutexHeld', lifecycle' \in Tasks \cup {Absent}, shut' \in BOOLEAN, Shutting',
           UNCHANGED <<live, touched, closed>>
    PROVE  BrowserInv'
  <1>1. /\ task' \in [Tasks -> TaskRecords] /\ task'[t] = r
        /\ \A u \in Tasks : u # t => task'[u] = task[u]
    BY OneMoves
  <1>2. BrowserShapes'
    BY <1>1 DEF BrowserInv, BrowserShapes
  <1>3. CallersFit'
    BY <1>1 DEF BrowserInv, CallersFit
  <1>4. \A b : Lives(b)' <=> Lives(b)
    BY DEF Lives
  <1>5. \A b : Has(r, b) => Has(task[t], b)
    BY DEF Has
  <1>6. InPlace'
    <2>1. ASSUME NEW s \in Scopes, live[s] # Absent
          PROVE  live[s].instance.scope = s /\ live[s].browser \in running'
      <3>1. live[s].instance.scope = s /\ live[s].browser \in running /\ Lives(live[s].browser)
        BY <2>1 DEF BrowserInv, InPlace, Lives
      <3> QED BY <3>1
    <2> QED BY <2>1 DEF BrowserInv, InPlace
  <1>7. VictimsKept'
    <2>1. ASSUME NEW u \in Tasks, NEW v \in task'[u].victims
          PROVE  VictimOk(task[u], v)'
      <3>1. v \in task[u].victims
        BY <1>1, <2>1
      <3>2. VictimOk(task[u], v) /\ Has(task[u], v.browser)
        BY <3>1, HadIsBrowser
      <3>3. Has(task'[u], v.browser)
        BY <1>1, <2>1, <3>2, HadIsBrowser DEF Has
      <3>4. v.browser \in running'
        BY <1>1, <3>2, <3>3 DEF VictimOk
      <3>5. v.browser # Absent
        BY <3>1, HadIsBrowser DEF ManagerAssumption
      <3>6. v.browser # task'[u].browser /\ task'[u].victims \subseteq task[u].victims
        BY <1>1, <3>2, <3>5 DEF VictimOk
      <3> QED BY <1>4, <3>2, <3>4, <3>6 DEF VictimOk
    <2> QED BY <2>1 DEF VictimsKept
  <1>8. NewKept'
    <2>1. ASSUME NEW u \in Tasks, task'[u].pc \in {"retire", "insert", "rollback"},
                 task'[u].browser # Absent
          PROVE  /\ task'[u].browser \in running' /\ ~Lives(task'[u].browser)
                 /\ \A w \in Tasks : w # u => ~Has(task'[w], task'[u].browser)
      <3>1. task'[u].browser = task[u].browser /\ task[u].pc \in {"retire", "insert", "rollback"}
        BY <1>1, <2>1
      <3>2. /\ task[u].browser \in running /\ ~Lives(task[u].browser)
            /\ \A w \in Tasks : w # u => ~Has(task[w], task[u].browser)
        BY <2>1, <3>1 DEF BrowserInv, NewKept
      <3>3. Has(task'[u], task[u].browser)
        BY <2>1, <3>1 DEF Has
      <3>4. task[u].browser \in running'
        BY <1>1, <3>2, <3>3
      <3> QED BY <1>1, <1>5, <3>1, <3>2, <3>4
    <2> QED BY <1>4, <2>1 DEF NewKept
  <1>9. LeasesCounted'
    <2>1. \A s : Holders(s)' = Holders(s)
      BY <1>1, HoldersStay
    <2>2. \A u \in Tasks : task'[u].pc = "leased" => u # t
      BY <1>1
    <2> QED BY <1>1, <2>1, <2>2 DEF BrowserInv, LeasesCounted
  <1>10. Accounted'
    <2>1. ASSUME NEW b \in running'
          PROVE  Lives(b) \/ \E u \in Tasks : Has(task'[u], b)
      <3>1. Lives(b) \/ \E u \in Tasks : Has(task[u], b)
        BY <2>1 DEF BrowserInv, Accounted
      <3> QED BY <1>1, <2>1, <3>1
    <2> QED BY <1>4, <2>1 DEF Accounted
  <1>11. Budgeted'
    <2>1. Resident' = Resident
      BY DEF Resident
    <2>2. Held' \subseteq Held
      BY <1>1 DEF Held
    <2>3. Cardinality(Held') <= Cardinality(Held) /\ Cardinality(Held') \in Nat
      BY <2>2, ScopesFinite, FS_Subset, FS_CardinalityType
    <2>4. Cardinality(Held') <= maximum_live
      BY <2>3, ScopesFinite DEF BrowserInv, Budgeted, ManagerAssumption
    <2> QED BY <1>1, <2>1, <2>4 DEF BrowserInv, Budgeted
  <1> QED BY <1>2, <1>3, <1>6, <1>7, <1>8, <1>9, <1>10, <1>11 DEF BrowserInv

\* The browsers of a selection leave the table for the hands of the caller.
LEMMA TakeKeeps ==
    ASSUME ManagerAssumption, BrowserInv, NEW t, t \in Tasks, NEW set, NEW pc,
           Empty(t), task[t].pc # "leased", task[t].pc # "dropping", Take(t, set, pc),
           set \subseteq Resident, \A s \in set : Unleased(s),
           \/ pc = "launch" /\ task[t].op = "ensure" /\ task[t].instance \in Instances
           \/ pc = "retire" /\ task[t].op \in {"stop", "stop_after_drain", "sweep", "close_all"},
           task[t].op \in {"stop", "stop_after_drain"} => task[t].instance \in Instances,
           pc = "launch" => Cardinality({s \in Resident : s \notin set}) < maximum_live,
           task[t].op = "close_all" => closed /\ set = Resident,
           ~shut, lifecycle \in {t, Absent}, lifecycle' = t,
           UNCHANGED <<touched, closed, running, shut>>
    PROVE  BrowserInv'
  <1> USE DEF Empty
  <1>1. PICK r : r = [task[t] EXCEPT !.pc = pc, !.keys = {}, !.victims = {live[s] : s \in set}]
    OBVIOUS
  <1>2. task[t] \in TaskRecords /\ set \subseteq Scopes /\ \A s \in set : live[s] \in Entries
    BY DEF BrowserInv, BrowserShapes, Resident
  <1>3. /\ r.pc = pc /\ r.op = task[t].op /\ r.instance = task[t].instance
        /\ r.victims = {live[s] : s \in set} /\ r.browser = Absent
    BY <1>1, <1>2 DEF TaskRecords
  <1>4. r \in TaskRecords
    <2>1. {live[s] : s \in set} \in SUBSET Entries /\ pc \in {"launch", "retire"}
      BY <1>2
    <2> QED BY <1>1, <1>2, <2>1 DEF TaskRecords, Calling
  <1>5. Fits(r)
    BY <1>3 DEF Fits, Calling
  <1>6. Become(t, r) /\ live' = [s \in Scopes |-> IF s \in set THEN Absent ELSE live[s]]
    BY <1>1 DEF Take
  <1>7. /\ task' \in [Tasks -> TaskRecords] /\ task'[t] = r
        /\ \A u \in Tasks : u # t => task'[u] = task[u]
    BY <1>4, <1>6, OneMoves
  <1>8. \A u \in Tasks : u # t => task[u].pc \notin Locked /\ task[u].victims = {}
    BY OneKeeper DEF ManagerAssumption
  <1>9. /\ \A s \in Scopes : s \notin set => live'[s] = live[s]
        /\ \A s \in set : live'[s] = Absent
    BY <1>2, <1>6
  <1>10. \A s \in set : /\ live[s] # Absent /\ live[s].instance.scope = s
                        /\ live[s].browser \in running /\ live[s].leases = 0
    BY <1>2 DEF BrowserInv, InPlace, Unleased, Resident
  <1>11. MutexHeld' /\ lifecycle' \in Tasks \cup {Absent}
    BY <1>3, <1>7, MutexFollows DEF ManagerAssumption, Locked
  <1>12. BrowserShapes'
    BY <1>2, <1>6, <1>7, <1>11 DEF BrowserInv, BrowserShapes
  <1>13. CallersFit'
    BY <1>5, <1>7 DEF BrowserInv, CallersFit
  <1>14. InPlace'
    BY <1>2, <1>9 DEF BrowserInv, InPlace
  <1>15. \A b : Lives(b)' => Lives(b)
    BY <1>2, <1>9 DEF Lives
  <1>16. VictimsKept'
    <2>1. ASSUME NEW u \in Tasks, NEW v \in task'[u].victims
          PROVE  VictimOk(task[u], v)'
      <3>1. u = t /\ v \in r.victims
        BY <1>7, <1>8, <2>1
      <3>2. PICK s \in set : v = live[s]
        BY <1>3, <3>1
      <3>3. v.instance.scope = s /\ live'[s] = Absent /\ s \in Scopes /\ v.leases = 0 /\ v.browser \in running'
        BY <1>2, <1>9, <1>10, <3>2
      <3>4. v.browser # r.browser
        BY <1>2, <1>3, <3>2 DEF Entries, ManagerAssumption
      <3>5. ~Lives(v.browser)'
        BY <1>2, <1>9, <1>10, <3>2 DEF BrowserInv, InPlace, Lives
      <3>6. \A w \in r.victims :
              w.browser = v.browser \/ w.instance.scope = v.instance.scope => w = v
        BY <1>2, <1>3, <1>10, <3>2 DEF BrowserInv, InPlace
      <3> QED BY <1>7, <3>1, <3>3, <3>4, <3>5, <3>6 DEF VictimOk
    <2> QED BY <2>1 DEF VictimsKept
  <1>17. NewKept'
    BY <1>3, <1>7, <1>8 DEF NewKept, Locked
  <1>18. LeasesCounted'
    <2>1. \A s : Holders(s)' = Holders(s)
      BY <1>3, <1>7, HoldersStay
    <2>2. ASSUME NEW u \in Tasks, task'[u].pc = "leased"
          PROVE  task'[u] = task[u] /\ task[u].instance.scope \in Scopes \ set
      <3>1. u # t /\ task'[u] = task[u]
        BY <1>3, <1>7, <2>2
      <3>2. task[u].instance.scope \in Scopes /\ u \in Holders(task[u].instance.scope)
        BY <2>2, <3>1 DEF BrowserInv, LeasesCounted, Holders
      <3>3. Cardinality(Holders(task[u].instance.scope)) # 0
        BY <3>2, HoldersFinite, FS_EmptySet
      <3> QED BY <1>10, <3>1, <3>2, <3>3 DEF BrowserInv, LeasesCounted
    <2> QED BY <1>9, <2>1, <2>2 DEF BrowserInv, LeasesCounted
  <1>19. Accounted'
    <2>1. ASSUME NEW b \in running
          PROVE  Lives(b)' \/ \E u \in Tasks : Has(task'[u], b)
      <3>1. CASE Lives(b)
        <4>1. PICK s \in Scopes : live[s] # Absent /\ live[s].browser = b
          BY <3>1 DEF Lives
        <4>2. CASE s \in set
          BY <1>3, <1>7, <4>1, <4>2 DEF Has
        <4>3. CASE s \notin set
          BY <1>9, <4>1, <4>3 DEF Lives
        <4> QED BY <4>2, <4>3
      <3>2. CASE ~Lives(b)
        <4>1. PICK u \in Tasks : Has(task[u], b)
          BY <3>2 DEF BrowserInv, Accounted
        <4>2. u # t
          BY <4>1 DEF Has
        <4> QED BY <1>7, <4>1, <4>2
      <3> QED BY <3>1, <3>2
    <2> QED BY <2>1 DEF Accounted
  <1>20. Resident' = {s \in Resident : s \notin set}
    BY <1>2, <1>9 DEF Resident
  <1>21. Budgeted'
    <2>1. Held' \subseteq Held
      <3>1. ASSUME NEW s \in Held'
            PROVE  s \in Held
        <4>1. CASE live'[s] # Absent
          BY <1>2, <1>9, <4>1 DEF Held
        <4>2. CASE \E u \in Tasks : \E v \in task'[u].victims : v.instance.scope = s
          BY <1>2, <1>3, <1>7, <1>8, <1>10, <4>2 DEF Held
        <4> QED BY <4>1, <4>2, <3>1 DEF Held
      <3> QED BY <3>1
    <2>2. Cardinality(Held') <= Cardinality(Held) /\ Cardinality(Held') \in Nat
      BY <2>1, ScopesFinite, FS_Subset, FS_CardinalityType
    <2>3. Cardinality(Held') <= maximum_live
      BY <2>2, ScopesFinite DEF BrowserInv, Budgeted, ManagerAssumption
    <2>4. \A u \in Tasks : u # t => task'[u].pc \notin {"launch", "retire", "insert"}
      BY <1>7, <1>8 DEF Locked
    <2>5. task'[t].op = "ensure" => Cardinality(Resident') < maximum_live
      BY <1>3, <1>7, <1>20
    <2> QED BY <2>3, <2>4, <2>5 DEF Budgeted
  <1>22. Shutting'
    <2>1. task'[t].op = "close_all" => closed' /\ Resident' = {}
      BY <1>3, <1>7, <1>20
    <2>2. \A u \in Tasks : u # t => task'[u] = task[u] /\ task'[u].pc # "retire"
      BY <1>7, <1>8 DEF Locked
    <2> QED BY <2>1, <2>2 DEF BrowserInv, Shutting
  <1> QED BY <1>11, <1>12, <1>13, <1>14, <1>16, <1>17, <1>18, <1>19, <1>21, <1>22 DEF BrowserInv

-----------------------------------------------------------------------------
(* Leases. *)

\* The browsers stay where they are, whatever becomes of their leases and clocks.
SamePlaces ==
    /\ live' \in [Scopes -> Entries \cup {Absent}]
    /\ \A s \in Scopes : live'[s] = Absent <=> live[s] = Absent
    /\ \A s \in Scopes : live[s] # Absent =>
         live'[s].instance = live[s].instance /\ live'[s].browser = live[s].browser

LEMMA PlacesStay ==
    ASSUME BrowserInv, SamePlaces, UNCHANGED running
    PROVE  /\ InPlace' /\ Resident' = Resident
           /\ \A b : Lives(b)' <=> Lives(b)
  <1>1. InPlace'
    BY DEF BrowserInv, InPlace, SamePlaces
  <1>2. Resident' = Resident
    BY DEF Resident, SamePlaces
  <1>3. \A b : Lives(b)' <=> Lives(b)
    BY DEF Lives, SamePlaces
  <1> QED BY <1>1, <1>2, <1>3

\* A caller gets the lease of a browser that is there.
LEMMA LendKeeps ==
    ASSUME ManagerAssumption, BrowserInv, NEW t, t \in Tasks, NEW i, i \in Instances,
           task[t].pc \in {"idle", "queued"}, LendExisting(t, i),
           UNCHANGED <<closed, running, shut>>
    PROVE  BrowserInv'
  <1>1. PICK s : s = i.scope
    OBVIOUS
  <1>2. s \in Scopes /\ ~closed /\ live[s] # Absent /\ live[s].instance = i
    BY <1>1 DEF ManagerAssumption, LendExisting, Same, Inst
  <1>3. PICK b : b = live[s].browser
    OBVIOUS
  <1>4. live[s] \in Entries /\ b \in Browsers /\ live[s].leases \in Nat
    BY <1>2, <1>3 DEF BrowserInv, BrowserShapes, Entries
  <1>5. PICK r : r = [Resting EXCEPT !.pc = "leased", !.instance = i, !.browser = b]
    OBVIOUS
  <1>6. /\ r.pc = "leased" /\ r.op = Absent /\ r.instance = i /\ r.browser = b
        /\ r.victims = {} /\ r \in TaskRecords
    BY <1>4, <1>5 DEF Resting, TaskRecords
  <1>7. Fits(r)
    BY <1>4, <1>6 DEF Fits, Calling, ManagerAssumption
  <1>8. Become(t, r) /\ lifecycle' = IF lifecycle = t THEN Absent ELSE lifecycle
    BY <1>1, <1>3, <1>5 DEF LendExisting, Leased
  <1>9. /\ task' \in [Tasks -> TaskRecords] /\ task'[t] = r
        /\ \A u \in Tasks : u # t => task'[u] = task[u]
    BY <1>6, <1>8, OneMoves
  <1>10. Empty(t)
    BY EmptyHanded
  <1>11. live' = [live EXCEPT ![s].idle = FALSE, ![s].leases = @ + 1]
    BY <1>1 DEF LendExisting
  <1>12. /\ live'[s] \in Entries /\ live'[s].instance = i /\ live'[s].browser = b
         /\ live'[s].leases = live[s].leases + 1
         /\ \A x \in Scopes : x # s => live'[x] = live[x]
         /\ DOMAIN live' = Scopes
    BY <1>2, <1>3, <1>4, <1>11 DEF BrowserInv, BrowserShapes, Entries
  <1>13. SamePlaces
    <2>1. live'[s] # Absent
      BY <1>12 DEF ManagerAssumption, Entries
    <2>2. live' \in [Scopes -> Entries \cup {Absent}]
      BY <1>2, <1>11, <1>12 DEF BrowserInv, BrowserShapes
    <2> QED BY <1>2, <1>3, <1>12, <2>1, <2>2 DEF SamePlaces
  <1>14. InPlace' /\ Resident' = Resident /\ \A x : Lives(x)' <=> Lives(x)
    BY <1>13, PlacesStay
  <1>15. MutexHeld' /\ lifecycle' \in Tasks \cup {Absent}
    BY <1>6, <1>8, <1>9, MutexFollows DEF ManagerAssumption, Locked
  <1>16. BrowserShapes'
    <2>1. Touch(s)
      BY <1>1 DEF LendExisting
    <2>2. /\ touched' \in Seq(Scopes) /\ IsInjective(touched') /\ ToSet(touched') = Scopes
          /\ Len(touched') = Cardinality(Scopes)
      BY <1>2, <2>1, TouchKeepsOrder
    <2> QED BY <1>9, <1>13, <1>15, <2>2 DEF BrowserInv, BrowserShapes, SamePlaces
  <1>17. CallersFit'
    BY <1>7, <1>9 DEF BrowserInv, CallersFit
  <1>18. Lives(b)
    BY <1>2, <1>3 DEF Lives
  <1>19. \A x : Has(r, x) => Lives(x)
    BY <1>6, <1>18 DEF Has
  <1>20. VictimsKept'
    <2>1. ASSUME NEW u \in Tasks, NEW v \in task'[u].victims
          PROVE  VictimOk(task[u], v)'
      <3>1. u # t /\ task'[u] = task[u]
        BY <1>6, <1>9, <2>1
      <3>2. VictimOk(task[u], v)
        BY <2>1, <3>1, HadIsBrowser
      <3>3. live'[v.instance.scope] = Absent
        BY <1>13, <3>2 DEF SamePlaces, VictimOk
      <3> QED BY <1>14, <3>1, <3>2, <3>3 DEF VictimOk
    <2> QED BY <2>1 DEF VictimsKept
  <1>21. NewKept'
    <2>1. ASSUME NEW u \in Tasks, task'[u].pc \in {"retire", "insert", "rollback"},
                 task'[u].browser # Absent
          PROVE  /\ task'[u].browser \in running' /\ ~Lives(task'[u].browser)
                 /\ \A w \in Tasks : w # u => ~Has(task'[w], task'[u].browser)
      <3>1. u # t /\ task'[u] = task[u]
        BY <1>6, <1>9, <2>1
      <3>2. /\ task[u].browser \in running /\ ~Lives(task[u].browser)
            /\ \A w \in Tasks : w # u => ~Has(task[w], task[u].browser)
        BY <2>1, <3>1 DEF BrowserInv, NewKept
      <3> QED BY <1>9, <1>19, <3>1, <3>2
    <2> QED BY <1>14, <2>1 DEF NewKept
  <1>22. LeasesCounted'
    <2>1. t \notin Holders(s) /\ Holders(s)' = Holders(s) \cup {t}
      BY <1>1, <1>6, <1>9 DEF Holders
    <2>2. \A x : x # s => Holders(x)' = Holders(x)
      BY <1>1, <1>6, <1>9 DEF Holders
    <2>3. Cardinality(Holders(s) \cup {t}) = Cardinality(Holders(s)) + 1
      BY <2>1, HoldersFinite, FS_AddElement
    <2>4. live[s].leases = Cardinality(Holders(s))
      BY <1>2 DEF BrowserInv, LeasesCounted
    <2>5. ASSUME NEW x \in Scopes, live'[x] # Absent
          PROVE  live'[x].leases = Cardinality(Holders(x)')
      <3>1. CASE x = s
        BY <1>12, <2>1, <2>3, <2>4, <3>1
      <3>2. CASE x # s
        BY <1>12, <2>2, <2>5, <3>2 DEF BrowserInv, LeasesCounted
      <3> QED BY <3>1, <3>2
    <2>6. ASSUME NEW u \in Tasks, task'[u].pc = "leased"
          PROVE  /\ task'[u].instance.scope \in Scopes
                 /\ live'[task'[u].instance.scope] # Absent
                 /\ live'[task'[u].instance.scope].instance = task'[u].instance
                 /\ live'[task'[u].instance.scope].browser = task'[u].browser
      <3>1. CASE u = t
        BY <1>1, <1>2, <1>6, <1>9, <1>12, <1>13, <3>1 DEF SamePlaces
      <3>2. CASE u # t
        BY <1>9, <1>13, <2>6, <3>2 DEF BrowserInv, LeasesCounted, SamePlaces
      <3> QED BY <3>1, <3>2
    <2> QED BY <2>5, <2>6 DEF LeasesCounted
  <1>23. Accounted'
    <2>1. \A x : ~Has(task[t], x)
      BY <1>10 DEF Empty, Has
    <2> QED BY <1>9, <1>14, <2>1 DEF BrowserInv, Accounted
  <1>24. Budgeted'
    <2>1. Held' = Held
      BY <1>6, <1>9, <1>10, <1>13 DEF Held, SamePlaces, Empty
    <2> QED BY <1>6, <1>9, <1>14, <2>1 DEF BrowserInv, Budgeted
  <1>25. Shutting'
    BY <1>2, <1>6, <1>9, <1>14 DEF BrowserInv, Shutting
  <1> QED BY <1>14, <1>15, <1>16, <1>17, <1>20, <1>21, <1>22, <1>23, <1>24, <1>25 DEF BrowserInv

\* Callers that hear of a release, or of nothing, and a lease that may end.
SameHands(u) ==
    /\ task'[u].op = task[u].op /\ task'[u].instance = task[u].instance
    /\ task'[u].victims = task[u].victims /\ task'[u].browser = task[u].browser

LEMMA HandsStay ==
    ASSUME ManagerAssumption, BrowserInv, SamePlaces, task' \in [Tasks -> TaskRecords],
           \A u \in Tasks : SameHands(u),
           \A u \in Tasks : task'[u].pc = task[u].pc
               \/ (task[u].pc = "leased" /\ task'[u].pc = "dropping"),
           \A s \in Scopes : live'[s] # Absent => live'[s].leases = Cardinality(Holders(s)'),
           UNCHANGED <<touched, closed, lifecycle, running, shut>>
    PROVE  BrowserInv'
  <1>1. InPlace' /\ Resident' = Resident /\ \A x : Lives(x)' <=> Lives(x)
    BY PlacesStay
  <1>2. BrowserShapes'
    BY DEF BrowserInv, BrowserShapes, SamePlaces
  <1>3. CallersFit'
    <2>1. ASSUME NEW u \in Tasks
          PROVE  Fits(task'[u])
      <3>1. Fits(task[u]) /\ SameHands(u)
        BY DEF BrowserInv, CallersFit
      <3>2. CASE task'[u].pc = task[u].pc
        BY <3>1, <3>2 DEF Fits, SameHands
      <3>3. CASE task[u].pc = "leased" /\ task'[u].pc = "dropping"
        BY <3>1, <3>3 DEF Fits, SameHands, Calling
      <3> QED BY <3>2, <3>3
    <2> QED BY <2>1 DEF CallersFit
  <1>4. MutexHeld'
    BY DEF BrowserInv, MutexHeld, Locked
  <1>5. \A u \in Tasks : \A b : Has(task'[u], b) <=> Has(task[u], b)
    BY DEF SameHands, Has
  <1>6. VictimsKept'
    <2>1. ASSUME NEW u \in Tasks, NEW v \in task'[u].victims
          PROVE  VictimOk(task[u], v)'
      <3>1. VictimOk(task[u], v)
        BY <2>1, HadIsBrowser DEF SameHands
      <3>2. live'[v.instance.scope] = Absent
        BY <3>1 DEF SamePlaces, VictimOk
      <3> QED BY <1>1, <3>1, <3>2 DEF VictimOk, SameHands
    <2> QED BY <2>1 DEF VictimsKept
  <1>7. NewKept'
    <2>1. ASSUME NEW u \in Tasks, task'[u].pc \in {"retire", "insert", "rollback"},
                 task'[u].browser # Absent
          PROVE  /\ task'[u].browser \in running' /\ ~Lives(task'[u].browser)
                 /\ \A w \in Tasks : w # u => ~Has(task'[w], task'[u].browser)
      <3>1. task'[u].pc = task[u].pc /\ task'[u].browser = task[u].browser
        BY <2>1 DEF SameHands
      <3>2. /\ task[u].browser \in running /\ ~Lives(task[u].browser)
            /\ \A w \in Tasks : w # u => ~Has(task[w], task[u].browser)
        BY <2>1, <3>1 DEF BrowserInv, NewKept
      <3> QED BY <1>5, <3>1, <3>2
    <2> QED BY <1>1, <2>1 DEF NewKept
  <1>8. LeasesCounted'
    BY DEF BrowserInv, LeasesCounted, SameHands, SamePlaces
  <1>9. Accounted'
    BY <1>1, <1>5 DEF BrowserInv, Accounted
  <1>10. Budgeted'
    <2>1. Held' = Held
      BY DEF Held, SamePlaces, SameHands
    <2> QED BY <1>1, <2>1 DEF BrowserInv, Budgeted, SameHands
  <1>11. Shutting'
    BY <1>1 DEF BrowserInv, Shutting, SameHands, Locked
  <1> QED BY <1>1, <1>2, <1>3, <1>4, <1>6, <1>7, <1>8, <1>9, <1>10, <1>11 DEF BrowserInv

LEMMA AgeKeeps ==
    ASSUME ManagerAssumption, BrowserInv, NEW s, s \in Scopes, age(s)
    PROVE  BrowserInv'
  <1>1. live[s] # Absent /\ live[s] \in Entries
    BY DEF age, Resident, BrowserInv, BrowserShapes
  <1>2. live' = [live EXCEPT ![s].idle = TRUE] /\ UNCHANGED <<touched, closed, lifecycle, task, running, shut>>
    BY DEF age
  <1>3. /\ live'[s] \in Entries /\ live'[s].instance = live[s].instance
        /\ live'[s].browser = live[s].browser /\ live'[s].leases = live[s].leases
        /\ \A x \in Scopes : x # s => live'[x] = live[x]
        /\ live' \in [Scopes -> Entries \cup {Absent}]
    BY <1>1, <1>2 DEF BrowserInv, BrowserShapes, Entries
  <1>4. live'[s] # Absent
    BY <1>3 DEF ManagerAssumption, Entries
  <1>5. SamePlaces
    BY <1>1, <1>3, <1>4 DEF SamePlaces
  <1>6. \A x \in Scopes : live'[x] # Absent => live'[x].leases = Cardinality(Holders(x)')
    <2>1. \A x : Holders(x)' = Holders(x)
      BY <1>2 DEF Holders
    <2> QED BY <1>1, <1>3, <2>1 DEF BrowserInv, LeasesCounted
  <1>7. \A u \in Tasks : SameHands(u) /\ task'[u].pc = task[u].pc
    BY <1>2 DEF SameHands
  <1>8. task' \in [Tasks -> TaskRecords]
    BY <1>2 DEF BrowserInv, BrowserShapes
  <1> QED BY <1>2, <1>5, <1>6, <1>7, <1>8, HandsStay

LEMMA DropLeaseKeeps ==
    ASSUME ManagerAssumption, BrowserInv, NEW t, t \in Tasks, drop_lease(t)
    PROVE  BrowserInv'
  <1>1. PICK s : s = task[t].instance.scope
    OBVIOUS
  <1>2. /\ task[t].pc = "leased" /\ s \in Scopes /\ live[s] # Absent /\ live[s] \in Entries
        /\ live' = [live EXCEPT ![s].leases = @ - 1]
        /\ UNCHANGED <<touched, closed, lifecycle, running, shut>>
    BY <1>1 DEF drop_lease, At, BrowserInv, BrowserShapes, LeasesCounted
  <1>3. task' = [u \in Tasks |->
                  IF u = t THEN [task[t] EXCEPT !.pc = "dropping"]
                  ELSE [task[u] EXCEPT !.notified = @ \/ Notified(u)]]
    BY DEF drop_lease
  <1>4. /\ task'[t] \in TaskRecords /\ SameHands(t) /\ task'[t].pc = "dropping"
    <2>1. PICK r : r = [task[t] EXCEPT !.pc = "dropping"]
      OBVIOUS
    <2>2. task[t] \in TaskRecords /\ task'[t] = r
      BY <1>3, <2>1 DEF BrowserInv, BrowserShapes
    <2>3. /\ r \in TaskRecords /\ r.pc = "dropping" /\ r.op = task[t].op
          /\ r.instance = task[t].instance /\ r.victims = task[t].victims
          /\ r.browser = task[t].browser
      BY <2>1, <2>2 DEF TaskRecords
    <2> QED BY <2>2, <2>3 DEF SameHands
  <1>5. ASSUME NEW u \in Tasks, u # t
        PROVE  task'[u] \in TaskRecords /\ SameHands(u) /\ task'[u].pc = task[u].pc
    <2>1. PICK n \in BOOLEAN : n = (task[u].notified \/ Notified(u))
      BY DEF Notified, BrowserInv, BrowserShapes, TaskRecords
    <2>2. task[u] \in TaskRecords /\ task'[u] = [task[u] EXCEPT !.notified = n]
      BY <1>3, <1>5, <2>1 DEF BrowserInv, BrowserShapes
    <2>3. PICK r : r = [task[u] EXCEPT !.notified = n]
      OBVIOUS
    <2>4. /\ r \in TaskRecords /\ r.pc = task[u].pc /\ r.op = task[u].op
          /\ r.instance = task[u].instance /\ r.victims = task[u].victims
          /\ r.browser = task[u].browser
      BY <2>1, <2>2, <2>3 DEF TaskRecords
    <2> QED BY <2>2, <2>3, <2>4 DEF SameHands
  <1>6. task' \in [Tasks -> TaskRecords]
    BY <1>3, <1>4, <1>5
  <1>7. /\ t \in Holders(s) /\ Holders(s)' = Holders(s) \ {t}
        /\ \A x : x # s => Holders(x)' = Holders(x)
    BY <1>1, <1>2, <1>4, <1>5 DEF Holders, SameHands
  <1>8. /\ Cardinality(Holders(s) \ {t}) = Cardinality(Holders(s)) - 1
        /\ Cardinality(Holders(s)) \in Nat /\ Cardinality(Holders(s)) # 0
    BY <1>7, HoldersFinite, FS_RemoveElement, FS_EmptySet
  <1>9. live[s].leases = Cardinality(Holders(s))
    BY <1>2 DEF BrowserInv, LeasesCounted
  <1>10. /\ live'[s] \in Entries /\ live'[s].instance = live[s].instance
         /\ live'[s].browser = live[s].browser /\ live'[s].leases = live[s].leases - 1
         /\ \A x \in Scopes : x # s => live'[x] = live[x]
         /\ live' \in [Scopes -> Entries \cup {Absent}]
    BY <1>2, <1>8, <1>9 DEF BrowserInv, BrowserShapes, Entries
  <1>11. live'[s] # Absent
    BY <1>10 DEF ManagerAssumption, Entries
  <1>12. SamePlaces
    BY <1>2, <1>10, <1>11 DEF SamePlaces
  <1>13. \A x \in Scopes : live'[x] # Absent => live'[x].leases = Cardinality(Holders(x)')
    <2>1. ASSUME NEW x \in Scopes, live'[x] # Absent
          PROVE  live'[x].leases = Cardinality(Holders(x)')
      <3>1. CASE x = s
        BY <1>7, <1>8, <1>9, <1>10, <3>1
      <3>2. CASE x # s
        BY <1>7, <1>10, <2>1, <3>2 DEF BrowserInv, LeasesCounted
      <3> QED BY <3>1, <3>2
    <2> QED BY <2>1
  <1>14. \A u \in Tasks : SameHands(u)
    BY <1>4, <1>5
  <1>15. \A u \in Tasks : task'[u].pc = task[u].pc \/ (task[u].pc = "leased" /\ task'[u].pc = "dropping")
    BY <1>2, <1>4, <1>5
  <1> QED BY <1>2, <1>6, <1>12, <1>13, <1>14, <1>15, HandsStay

-----------------------------------------------------------------------------
(* Launches. *)

LEMMA LaunchKeeps ==
    ASSUME ManagerAssumption, BrowserInv, NEW t, t \in Tasks, launch_ok(t)
    PROVE  BrowserInv'
  <1>1. PICK b \in Fresh : b = CHOOSE x \in Fresh : TRUE
    BY DEF launch_ok
  <1>2. PICK pc : pc = IF task[t].victims = {} THEN "insert" ELSE "retire"
    OBVIOUS
  <1>3. PICK r : r = [task[t] EXCEPT !.browser = b, !.pc = pc]
    OBVIOUS
  <1>4. /\ task[t].pc = "launch" /\ running' = running \cup {b} /\ Become(t, r)
        /\ UNCHANGED <<live, touched, closed, lifecycle, shut>>
    BY <1>1, <1>2, <1>3 DEF launch_ok, At
  <1>5. task[t] \in TaskRecords /\ Fits(task[t])
    BY DEF BrowserInv, BrowserShapes, CallersFit
  <1>6. b \in Browsers /\ b \notin running /\ b # Absent /\ b \notin Referenced
    BY DEF Fresh, ManagerAssumption
  <1>7. ~Lives(b) /\ \A u \in Tasks : ~Has(task[u], b)
    <2>1. ~Lives(b)
      BY <1>6, LivesIsResident DEF Referenced
    <2>2. ASSUME NEW u \in Tasks
          PROVE  ~Has(task[u], b)
      <3>1. b \notin Owned(u)
        BY <1>6 DEF Referenced
      <3> QED BY <3>1, OwnedIsHad
    <2> QED BY <2>1, <2>2
  <1>8. /\ r.pc = pc /\ r.op = task[t].op /\ r.instance = task[t].instance
        /\ r.victims = task[t].victims /\ r.browser = b
    BY <1>3, <1>5 DEF TaskRecords
  <1>9. pc \in {"insert", "retire"} /\ (task[t].victims # {} => pc = "retire")
    BY <1>2
  <1>10. r \in TaskRecords
    BY <1>3, <1>5, <1>6, <1>9 DEF TaskRecords, Calling
  <1>11. task[t].op = "ensure" /\ task[t].instance \in Instances
    BY <1>4, <1>5 DEF Fits, Calling
  <1>12. Fits(r)
    BY <1>6, <1>8, <1>9, <1>11 DEF Fits, Calling
  <1>13. /\ task' \in [Tasks -> TaskRecords] /\ task'[t] = r
         /\ \A u \in Tasks : u # t => task'[u] = task[u]
    BY <1>4, <1>10, OneMoves
  <1>14. lifecycle = t
    BY <1>4 DEF BrowserInv, MutexHeld, Locked
  <1>15. \A u \in Tasks : u # t => task[u].pc \notin Locked /\ task[u].victims = {}
    BY <1>14, OneKeeper DEF ManagerAssumption
  <1>16. MutexHeld'
    BY <1>4, <1>8, <1>9, <1>13, MutexFollows DEF ManagerAssumption, Locked
  <1>17. BrowserShapes'
    BY <1>4, <1>6, <1>13 DEF BrowserInv, BrowserShapes
  <1>18. CallersFit'
    BY <1>12, <1>13 DEF BrowserInv, CallersFit
  <1>19. InPlace'
    BY <1>4 DEF BrowserInv, InPlace
  <1>20. \A x : Lives(x)' <=> Lives(x)
    BY <1>4 DEF Lives
  <1>21. VictimsKept'
    <2>1. ASSUME NEW u \in Tasks, NEW v \in task'[u].victims
          PROVE  VictimOk(task[u], v)'
      <3>1. u = t /\ v \in task[t].victims
        BY <1>8, <1>13, <1>15, <2>1
      <3>2. VictimOk(task[t], v) /\ Has(task[t], v.browser)
        BY <3>1, HadIsBrowser
      <3>3. v.browser # b
        BY <1>7, <3>2
      <3> QED BY <1>4, <1>8, <1>13, <1>20, <3>1, <3>2, <3>3 DEF VictimOk
    <2> QED BY <2>1 DEF VictimsKept
  <1>22. NewKept'
    <2>1. ASSUME NEW u \in Tasks, task'[u].pc \in {"retire", "insert", "rollback"},
                 task'[u].browser # Absent
          PROVE  /\ task'[u].browser \in running' /\ ~Lives(task'[u].browser)
                 /\ \A w \in Tasks : w # u => ~Has(task'[w], task'[u].browser)
      <3>1. u = t /\ task'[u].browser = b
        BY <1>8, <1>13, <1>15, <2>1 DEF Locked
      <3> QED BY <1>4, <1>7, <1>13, <3>1
    <2> QED BY <1>20, <2>1 DEF NewKept
  <1>23. LeasesCounted'
    <2>1. \A s : Holders(s)' = Holders(s)
      BY <1>4, <1>8, <1>9, <1>13, HoldersStay
    <2>2. \A u \in Tasks : task'[u].pc = "leased" => u # t
      BY <1>8, <1>9, <1>13
    <2> QED BY <1>4, <1>13, <2>1, <2>2 DEF BrowserInv, LeasesCounted
  <1>24. Accounted'
    <2>1. ASSUME NEW x \in running'
          PROVE  Lives(x) \/ \E u \in Tasks : Has(task'[u], x)
      <3>1. CASE x = b
        BY <1>6, <1>8, <1>13, <3>1 DEF Has
      <3>2. CASE x # b
        <4>1. Lives(x) \/ \E u \in Tasks : Has(task[u], x)
          BY <1>4, <2>1, <3>2 DEF BrowserInv, Accounted
        <4>2. task[t].browser = Absent
          BY <1>4, <1>5 DEF Fits
        <4>3. Has(task[t], x) => Has(r, x)
          BY <1>8, <4>2 DEF Has
        <4> QED BY <1>13, <4>1, <4>3
      <3> QED BY <3>1, <3>2
    <2> QED BY <1>20, <2>1 DEF Accounted
  <1>25. Budgeted'
    <2>1. Held' = Held /\ Resident' = Resident
      BY <1>4, <1>8, <1>13 DEF Held, Resident
    <2> QED BY <1>4, <1>11, <1>13, <2>1 DEF BrowserInv, Budgeted
  <1>26. Shutting'
    <2>1. ~shut
      BY <1>4 DEF BrowserInv, Shutting, Locked
    <2>2. Resident' = Resident
      BY <1>4 DEF Resident
    <2> QED BY <1>4, <1>8, <1>11, <1>13, <2>1, <2>2 DEF BrowserInv, Shutting
  <1>27. lifecycle' \in Tasks \cup {Absent}
    BY <1>4 DEF BrowserInv, BrowserShapes
  <1> QED BY <1>16, <1>17, <1>18, <1>19, <1>21, <1>22, <1>23, <1>24, <1>25, <1>26 DEF BrowserInv

\* A launch fails: what was selected for it is in its place again.
LEMMA RestoreKeeps ==
    ASSUME ManagerAssumption, BrowserInv, NEW t, t \in Tasks, launch_failed(t)
    PROVE  BrowserInv'
  <1>1. PICK r : r = Resting
    OBVIOUS
  <1>2. PICK back : back = task[t].victims
    OBVIOUS
  <1>3. /\ task[t].pc = "launch" /\ Become(t, r) /\ live' = Restored(t)
        /\ lifecycle' = IF lifecycle = t THEN Absent ELSE lifecycle
        /\ UNCHANGED <<touched, closed, running, shut>>
    BY <1>1 DEF launch_failed, At, Returns
  <1>4. /\ r \in TaskRecords /\ Fits(r) /\ r.pc = "idle" /\ r.victims = {} /\ r.browser = Absent
    BY <1>1, RestingFits
  <1>5. /\ task' \in [Tasks -> TaskRecords] /\ task'[t] = r
        /\ \A u \in Tasks : u # t => task'[u] = task[u]
    BY <1>3, <1>4, OneMoves
  <1>6. lifecycle = t /\ task[t].browser = Absent
    BY <1>3 DEF BrowserInv, MutexHeld, Locked, CallersFit, Fits
  <1>7. \A u \in Tasks : u # t => task[u].pc \notin Locked /\ task[u].victims = {}
    BY <1>6, OneKeeper DEF ManagerAssumption
  <1>8. \A v \in back : /\ v \in Entries /\ v.leases = 0 /\ v.browser \in running
                        /\ ~Lives(v.browser) /\ v # Absent
                        /\ v.instance.scope \in Scopes /\ live[v.instance.scope] = Absent
                        /\ \A w \in back : w.browser = v.browser
                             \/ w.instance.scope = v.instance.scope => w = v
    BY <1>2, HadIsBrowser DEF VictimOk, ManagerAssumption, Entries
  <1>9. live' = [s \in Scopes |-> IF \E v \in back : v.instance.scope = s
                                  THEN CHOOSE v \in back : v.instance.scope = s
                                  ELSE live[s]]
    BY <1>2, <1>3 DEF Restored
  <1>10. ASSUME NEW v \in back
         PROVE  live'[v.instance.scope] = v
    <2>1. v.instance.scope \in Scopes
      BY <1>8
    <2>2. (CHOOSE w \in back : w.instance.scope = v.instance.scope) = v
      BY <1>8
    <2> QED BY <1>9, <2>1, <2>2
  <1>11. \A s \in Scopes : (\A v \in back : v.instance.scope # s) => live'[s] = live[s]
    BY <1>9
  <1>12. \A s \in Scopes : \/ live'[s] = live[s] /\ \A v \in back : v.instance.scope # s
                           \/ live'[s] \in back /\ live'[s].instance.scope = s
                              /\ live[s] = Absent /\ live'[s] # Absent
    BY <1>8, <1>10, <1>11
  <1>13. MutexHeld' /\ lifecycle' \in Tasks \cup {Absent}
    BY <1>3, <1>4, <1>5, MutexFollows DEF ManagerAssumption, Locked
  <1>14. BrowserShapes'
    <2>1. live' \in [Scopes -> Entries \cup {Absent}]
      <3>1. \A s \in Scopes : live'[s] \in Entries \cup {Absent}
        BY <1>8, <1>12 DEF BrowserInv, BrowserShapes
      <3>2. DOMAIN live' = Scopes /\ live' = [s \in Scopes |-> live'[s]]
        BY <1>9
      <3> QED BY <3>1, <3>2
    <2> QED BY <1>3, <1>5, <1>13, <2>1 DEF BrowserInv, BrowserShapes
  <1>15. CallersFit'
    BY <1>4, <1>5 DEF BrowserInv, CallersFit
  <1>16. InPlace'
    <2>1. ASSUME NEW s \in Scopes, live'[s] # Absent
          PROVE  live'[s].instance.scope = s /\ live'[s].browser \in running
      BY <1>8, <1>12, <2>1 DEF BrowserInv, InPlace
    <2>2. ASSUME NEW s \in Scopes, NEW u \in Scopes, s # u, live'[s] # Absent, live'[u] # Absent,
                 live'[s].browser = live'[u].browser
          PROVE  FALSE
      <3>1. CASE live'[s] = live[s] /\ live'[u] = live[u]
        BY <2>2, <3>1 DEF BrowserInv, InPlace
      <3>2. CASE live'[s] = live[s] /\ live'[u] \in back
        BY <1>8, <2>2, <3>2 DEF Lives
      <3>3. CASE live'[s] \in back /\ live'[u] = live[u]
        BY <1>8, <2>2, <3>3 DEF Lives
      <3>4. CASE live'[s] \in back /\ live'[u] \in back
        <4>1. live'[s] = live'[u]
          BY <1>8, <2>2, <3>4
        <4> QED BY <2>1, <2>2, <4>1
      <3> QED BY <1>12, <3>1, <3>2, <3>3, <3>4
    <2> QED BY <1>3, <2>1, <2>2 DEF InPlace
  <1>17. VictimsKept'
    BY <1>4, <1>5, <1>7 DEF VictimsKept
  <1>18. NewKept'
    BY <1>4, <1>5, <1>7 DEF NewKept, Locked
  <1>19. LeasesCounted'
    <2>1. \A s : Holders(s)' = Holders(s)
      BY <1>3, <1>4, <1>5, HoldersStay
    <2>2. ASSUME NEW s \in Scopes, live'[s] # Absent
          PROVE  live'[s].leases = Cardinality(Holders(s))
      <3>1. CASE live'[s] = live[s]
        BY <2>2, <3>1 DEF BrowserInv, LeasesCounted
      <3>2. CASE live'[s] \in back /\ live[s] = Absent
        <4>1. Holders(s) = {}
          BY <3>2 DEF Holders, BrowserInv, LeasesCounted
        <4> QED BY <1>8, <3>2, <4>1, FS_EmptySet
      <3> QED BY <1>12, <3>1, <3>2
    <2>3. ASSUME NEW u \in Tasks, task'[u].pc = "leased"
          PROVE  /\ task'[u].instance.scope \in Scopes
                 /\ live'[task'[u].instance.scope] # Absent
                 /\ live'[task'[u].instance.scope].instance = task'[u].instance
                 /\ live'[task'[u].instance.scope].browser = task'[u].browser
      <3>1. task'[u] = task[u]
        BY <1>4, <1>5, <2>3
      <3>2. PICK s : s = task[u].instance.scope
        OBVIOUS
      <3>3. s \in Scopes /\ live[s] # Absent /\ live[s].instance = task[u].instance
            /\ live[s].browser = task[u].browser
        BY <2>3, <3>1, <3>2 DEF BrowserInv, LeasesCounted
      <3>4. live'[s] = live[s]
        BY <1>12, <3>3
      <3> QED BY <3>1, <3>2, <3>3, <3>4
    <2> QED BY <2>1, <2>2, <2>3 DEF LeasesCounted
  <1>20. Accounted'
    <2>1. ASSUME NEW b \in running
          PROVE  Lives(b)' \/ \E u \in Tasks : Has(task'[u], b)
      <3>1. CASE Lives(b)
        BY <1>12, <3>1 DEF Lives
      <3>2. CASE \E u \in Tasks : u # t /\ Has(task[u], b)
        BY <1>5, <3>2
      <3>3. CASE Has(task[t], b)
        <4>1. PICK v \in back : v.browser = b
          BY <1>2, <1>6, <3>3 DEF Has
        <4> QED BY <1>8, <1>10, <4>1 DEF Lives
      <3> QED BY <3>1, <3>2, <3>3 DEF BrowserInv, Accounted
    <2> QED BY <1>3, <2>1 DEF Accounted
  <1>21. Budgeted'
    <2>1. Held' \subseteq Held
      BY <1>2, <1>4, <1>5, <1>12 DEF Held
    <2>2. Cardinality(Held') <= Cardinality(Held) /\ Cardinality(Held') \in Nat
      BY <2>1, ScopesFinite, FS_Subset, FS_CardinalityType
    <2>3. Cardinality(Held') <= maximum_live
      BY <2>2, ScopesFinite DEF BrowserInv, Budgeted, ManagerAssumption
    <2>4. \A u \in Tasks : task'[u].pc \notin {"launch", "retire", "insert"}
      BY <1>4, <1>5, <1>7 DEF Locked
    <2> QED BY <2>3, <2>4 DEF Budgeted
  <1>22. Shutting'
    <2>1. ~shut
      BY <1>3 DEF BrowserInv, Shutting, Locked
    <2>2. task'[t].pc = "idle" /\ \A u \in Tasks : u # t => task'[u] = task[u] /\ task'[u].pc # "retire"
      BY <1>4, <1>5, <1>7 DEF Locked
    <2> QED BY <1>3, <2>1, <2>2 DEF BrowserInv, Shutting
  <1> QED BY <1>13, <1>14, <1>15, <1>16, <1>17, <1>18, <1>19, <1>20, <1>21, <1>22 DEF BrowserInv

\* A new browser gets its place, which is empty, and its first lease.
LEMMA InsertKeeps ==
    ASSUME ManagerAssumption, BrowserInv, NEW t, t \in Tasks, insert(t), MayInsert(t)
    PROVE  BrowserInv'
  <1>1. PICK i : i = task[t].instance
    OBVIOUS
  <1>2. PICK b : b = task[t].browser
    OBVIOUS
  <1>3. PICK s : s = i.scope
    OBVIOUS
  <1>4. PICK e : e = [instance |-> i, browser |-> b, idle |-> FALSE, leases |-> 1]
    OBVIOUS
  <1>5. PICK r : r = [Resting EXCEPT !.pc = "leased", !.instance = i, !.browser = b]
    OBVIOUS
  <1>6. /\ task[t].pc = "insert" /\ ~closed /\ live[s] = Absent /\ Touch(s)
        /\ live' = [live EXCEPT ![s] = e] /\ Become(t, r)
        /\ lifecycle' = IF lifecycle = t THEN Absent ELSE lifecycle
        /\ UNCHANGED <<closed, running, shut>>
    BY <1>1, <1>2, <1>3, <1>4, <1>5 DEF insert, MayInsert, At, Leased
  <1>7. /\ task[t] \in TaskRecords /\ i \in Instances /\ b # Absent /\ b \in Browsers
        /\ task[t].op = "ensure" /\ task[t].victims = {}
    BY <1>1, <1>2, <1>6 DEF BrowserInv, BrowserShapes, CallersFit, Fits, Calling, TaskRecords
  <1>8. s \in Scopes
    BY <1>3, <1>7 DEF ManagerAssumption
  <1>9. /\ e \in Entries /\ e # Absent /\ e.instance = i /\ e.browser = b /\ e.leases = 1
    <2>1. e \in Entries /\ e.instance = i /\ e.browser = b /\ e.leases = 1
      BY <1>4, <1>7 DEF Entries
    <2> QED BY <2>1 DEF Entries, ManagerAssumption
  <1>10. /\ r.pc = "leased" /\ r.op = Absent /\ r.instance = i /\ r.browser = b
         /\ r.victims = {} /\ r \in TaskRecords
    BY <1>5, <1>7 DEF Resting, TaskRecords
  <1>11. Fits(r)
    BY <1>7, <1>10 DEF Fits, Calling
  <1>12. /\ task' \in [Tasks -> TaskRecords] /\ task'[t] = r
         /\ \A u \in Tasks : u # t => task'[u] = task[u]
    BY <1>6, <1>10, OneMoves
  <1>13. lifecycle = t
    BY <1>6 DEF BrowserInv, MutexHeld, Locked
  <1>14. \A u \in Tasks : u # t => task[u].pc \notin Locked /\ task[u].victims = {}
    BY <1>13, OneKeeper DEF ManagerAssumption
  <1>15. b \in running /\ ~Lives(b)
    BY <1>2, <1>6, <1>7 DEF BrowserInv, NewKept
  <1>16. live'[s] = e /\ \A x \in Scopes : x # s => live'[x] = live[x]
    BY <1>6, <1>8 DEF BrowserInv, BrowserShapes
  <1>17. MutexHeld' /\ lifecycle' \in Tasks \cup {Absent}
    BY <1>6, <1>10, <1>12, MutexFollows DEF ManagerAssumption, Locked
  <1>18. BrowserShapes'
    <2>1. live' \in [Scopes -> Entries \cup {Absent}]
      BY <1>6, <1>8, <1>9 DEF BrowserInv, BrowserShapes
    <2>2. /\ touched' \in Seq(Scopes) /\ IsInjective(touched') /\ ToSet(touched') = Scopes
          /\ Len(touched') = Cardinality(Scopes)
      BY <1>6, <1>8, TouchKeepsOrder
    <2> QED BY <1>6, <1>12, <1>17, <2>1, <2>2 DEF BrowserInv, BrowserShapes
  <1>19. CallersFit'
    BY <1>11, <1>12 DEF BrowserInv, CallersFit
  <1>20. \A x \in Scopes : live[x] # Absent => live[x].browser # b
    BY <1>15 DEF Lives
  <1>21. InPlace'
    BY <1>3, <1>6, <1>8, <1>9, <1>15, <1>16, <1>20 DEF BrowserInv, InPlace
  <1>22. VictimsKept'
    BY <1>10, <1>12, <1>14 DEF VictimsKept
  <1>23. NewKept'
    BY <1>10, <1>12, <1>14 DEF NewKept, Locked
  <1>24. LeasesCounted'
    <2>1. Holders(s) = {}
      BY <1>6 DEF Holders, BrowserInv, LeasesCounted
    <2>2. Holders(s)' = {t} /\ \A x : x # s => Holders(x)' = Holders(x)
      BY <1>3, <1>6, <1>10, <1>12, <2>1 DEF Holders
    <2>3. Cardinality({t}) = 1
      BY FS_Singleton
    <2>4. ASSUME NEW x \in Scopes, live'[x] # Absent
          PROVE  live'[x].leases = Cardinality(Holders(x)')
      <3>1. CASE x = s
        BY <1>9, <1>16, <2>2, <2>3, <3>1
      <3>2. CASE x # s
        BY <1>16, <2>2, <2>4, <3>2 DEF BrowserInv, LeasesCounted
      <3> QED BY <3>1, <3>2
    <2>5. ASSUME NEW u \in Tasks, task'[u].pc = "leased"
          PROVE  /\ task'[u].instance.scope \in Scopes
                 /\ live'[task'[u].instance.scope] # Absent
                 /\ live'[task'[u].instance.scope].instance = task'[u].instance
                 /\ live'[task'[u].instance.scope].browser = task'[u].browser
      <3>1. CASE u = t
        BY <1>3, <1>8, <1>9, <1>10, <1>12, <1>16, <3>1
      <3>2. CASE u # t
        <4>1. PICK x : x = task[u].instance.scope
          OBVIOUS
        <4>2. /\ task'[u] = task[u] /\ x \in Scopes /\ live[x] # Absent
              /\ live[x].instance = task[u].instance /\ live[x].browser = task[u].browser
          BY <1>12, <2>5, <3>2, <4>1 DEF BrowserInv, LeasesCounted
        <4>3. live'[x] = live[x]
          BY <1>6, <1>16, <4>2
        <4> QED BY <4>1, <4>2, <4>3
      <3> QED BY <3>1, <3>2
    <2> QED BY <2>4, <2>5 DEF LeasesCounted
  <1>25. Accounted'
    <2>1. ASSUME NEW x \in running
          PROVE  Lives(x)' \/ \E u \in Tasks : Has(task'[u], x)
      <3>1. CASE Lives(x)
        BY <1>6, <1>16, <3>1 DEF Lives
      <3>2. CASE \E u \in Tasks : u # t /\ Has(task[u], x)
        BY <1>12, <3>2
      <3>3. CASE Has(task[t], x)
        <4>1. x = b
          BY <1>2, <1>7, <3>3 DEF Has
        <4> QED BY <1>8, <1>9, <1>16, <4>1 DEF Lives
      <3> QED BY <3>1, <3>2, <3>3 DEF BrowserInv, Accounted
    <2> QED BY <1>6, <2>1 DEF Accounted
  <1>26. Budgeted'
    <2>1. Held' = Resident \cup {s}
      BY <1>6, <1>8, <1>9, <1>10, <1>12, <1>14, <1>16 DEF Held, Resident
    <2>2. Cardinality(Resident \cup {s}) = Cardinality(Resident) + 1
      <3>1. IsFiniteSet(Resident) /\ s \notin Resident
        BY <1>6, ScopesFinite DEF Resident
      <3> QED BY <3>1, FS_AddElement
    <2>3. Cardinality(Resident) < maximum_live
      BY <1>6, <1>7 DEF BrowserInv, Budgeted
    <2>4. Cardinality(Held') <= maximum_live
      BY <2>1, <2>2, <2>3, ScopesFinite DEF ManagerAssumption
    <2>5. \A u \in Tasks : task'[u].pc \notin {"launch", "retire", "insert"}
      BY <1>10, <1>12, <1>14 DEF Locked
    <2> QED BY <2>4, <2>5 DEF Budgeted
  <1>27. Shutting'
    <2>1. ~shut
      BY <1>6 DEF BrowserInv, Shutting, Locked
    <2>2. task'[t].pc = "leased" /\ \A u \in Tasks : u # t => task'[u] = task[u] /\ task'[u].pc # "retire"
      BY <1>10, <1>12, <1>14 DEF Locked
    <2> QED BY <1>6, <2>1, <2>2 DEF BrowserInv, Shutting
  <1> QED BY <1>17, <1>18, <1>19, <1>21, <1>22, <1>23, <1>24, <1>25, <1>26, <1>27 DEF BrowserInv

\* A call returns; what it alone had in hand, and is not resident, ends with it.
LEMMA LetGoKeeps ==
    ASSUME ManagerAssumption, BrowserInv, NEW t, t \in Tasks, task[t].pc # "leased", Returns(t),
           running' \subseteq running,
           \A b \in running : b \in running' \/
               (~Lives(b) /\ \A u \in Tasks : u # t => ~Has(task[u], b)),
           \A b \in running' : Has(task[t], b) =>
               Lives(b) \/ \E u \in Tasks : u # t /\ Has(task[u], b),
           shut' \in BOOLEAN,
           shut' => shut \/ (closed /\ Resident = {} /\ lifecycle \in {t, Absent}),
           UNCHANGED <<live, touched, closed>>
    PROVE  BrowserInv'
  <1>1. PICK r : r = Resting
    OBVIOUS
  <1>2. /\ r \in TaskRecords /\ Fits(r) /\ r.pc = "idle" /\ r.victims = {} /\ r.browser = Absent
    BY <1>1, RestingFits
  <1>3. Become(t, r) /\ lifecycle' = IF lifecycle = t THEN Absent ELSE lifecycle
    BY <1>1 DEF Returns
  <1>4. task'[t] = r /\ \A u \in Tasks : u # t => task'[u] = task[u]
    BY <1>2, <1>3, OneMoves
  <1>5. MutexHeld' /\ lifecycle' \in Tasks \cup {Absent}
    BY <1>2, <1>3, <1>4, MutexFollows DEF ManagerAssumption, Locked
  <1>6. \A b : ~Has(r, b)
    BY <1>2 DEF Has
  <1>7. Resident' = Resident
    BY DEF Resident
  <1>8. Shutting'
    <2>1. CASE shut \/ ~shut'
      BY <1>2, <1>4, <1>7, <2>1 DEF BrowserInv, Shutting, Locked
    <2>2. CASE closed /\ Resident = {} /\ lifecycle \in {t, Absent}
      <3>1. \A u \in Tasks : u # t => task[u].pc \notin Locked
        BY <2>2, OneKeeper DEF ManagerAssumption
      <3>2. \A u \in Tasks : task'[u].pc \notin Locked
        BY <1>2, <1>4, <3>1 DEF Locked
      <3> QED BY <1>7, <2>2, <3>2 DEF Shutting
    <2> QED BY <2>1, <2>2
  <1>9. r.victims \subseteq task[t].victims /\ r.browser \in {task[t].browser, Absent}
    BY <1>2
  <1>10. r.pc \notin {"leased", "launch", "retire", "insert", "rollback"}
    BY <1>2
  <1> QED BY <1>2, <1>3, <1>5, <1>6, <1>8, <1>9, <1>10, ShedKeeps

\* What a caller that is not at a lease has in hand is not in the table.
LEMMA HandsAreApart ==
    ASSUME BrowserInv, NEW t, t \in Tasks, task[t].pc \notin {"leased", "dropping"},
           NEW b, Has(task[t], b)
    PROVE  ~Lives(b)
  <1>1. CASE \E v \in task[t].victims : v.browser = b
    BY <1>1, HadIsBrowser DEF VictimOk
  <1>2. CASE b # Absent /\ task[t].browser = b
    <2>1. task[t].pc \in {"retire", "insert", "rollback"}
      BY <1>2 DEF BrowserInv, CallersFit, Fits
    <2> QED BY <1>2, <2>1 DEF BrowserInv, NewKept
  <1> QED BY <1>1, <1>2 DEF Has

LEMMA RunningIsNotAbsent ==
    ASSUME ManagerAssumption, BrowserInv
    PROVE  \A b \in running : b # Absent
  BY DEF BrowserInv, BrowserShapes, ManagerAssumption

LEMMA CancelKeeps ==
    ASSUME ManagerAssumption, BrowserInv, NEW t, t \in Tasks, cancel(t)
    PROVE  BrowserInv'
  <1>1. /\ task[t].pc \in {"queued", "launch", "retire", "rollback", "waiting"}
        /\ running' = running \ Dropped(t) /\ Returns(t) /\ UNCHANGED <<live, touched, closed, shut>>
    BY DEF cancel
  <1>2. \A b \in running : b \in Dropped(t) <=>
          Has(task[t], b) /\ \A u \in Tasks : u # t => ~Has(task[u], b)
    BY OwnedIsHad, UnsharedIsNotHad, RunningIsNotAbsent DEF Dropped
  <1>3. \A b : Has(task[t], b) => ~Lives(b)
    BY <1>1, HandsAreApart
  <1>4. \A b \in running : b \in running' \/
          (~Lives(b) /\ \A u \in Tasks : u # t => ~Has(task[u], b))
    BY <1>1, <1>2, <1>3
  <1>5. \A b \in running' : Has(task[t], b) => Lives(b) \/ \E u \in Tasks : u # t /\ Has(task[u], b)
    BY <1>1, <1>2
  <1>6. shut' \in BOOLEAN /\ (shut' => shut) /\ running' \subseteq running /\ task[t].pc # "leased"
    BY <1>1 DEF BrowserInv, BrowserShapes
  <1> QED BY <1>1, <1>4, <1>5, <1>6, LetGoKeeps

LEMMA DropInnerKeeps ==
    ASSUME ManagerAssumption, BrowserInv, NEW t, t \in Tasks, drop_inner(t)
    PROVE  BrowserInv'
  <1>1. PICK gone : gone = {b \in Owned(t) : Unshared(b, t) /\ \A s \in Resident : live[s].browser # b}
    OBVIOUS
  <1>2. /\ task[t].pc = "dropping"
        /\ running' = running \ gone /\ Returns(t) /\ UNCHANGED <<live, touched, closed, shut>>
    BY <1>1 DEF drop_inner, At
  <1>3. \A b \in running : b \in gone <=>
          Has(task[t], b) /\ ~Lives(b) /\ \A u \in Tasks : u # t => ~Has(task[u], b)
    BY <1>1, OwnedIsHad, UnsharedIsNotHad, LivesIsResident, RunningIsNotAbsent
  <1>4. \A b \in running : b \in running' \/
          (~Lives(b) /\ \A u \in Tasks : u # t => ~Has(task[u], b))
    BY <1>2, <1>3
  <1>5. \A b \in running' : Has(task[t], b) => Lives(b) \/ \E u \in Tasks : u # t /\ Has(task[u], b)
    BY <1>2, <1>3
  <1>6. shut' \in BOOLEAN /\ (shut' => shut) /\ running' \subseteq running /\ task[t].pc # "leased"
    BY <1>2 DEF BrowserInv, BrowserShapes
  <1> QED BY <1>2, <1>4, <1>5, <1>6, LetGoKeeps

LEMMA RollbackKeeps ==
    ASSUME ManagerAssumption, BrowserInv, NEW t, t \in Tasks, launch_rollback(t)
    PROVE  BrowserInv'
  <1>1. PICK b : b = task[t].browser
    OBVIOUS
  <1>2. /\ task[t].pc = "rollback" /\ running' = running \ {b} /\ Returns(t)
        /\ UNCHANGED <<live, touched, closed, shut>>
    BY <1>1 DEF launch_rollback, At
  <1>3. b # Absent /\ task[t].victims = {}
    BY <1>1, <1>2 DEF BrowserInv, CallersFit, Fits
  <1>4. ~Lives(b) /\ \A u \in Tasks : u # t => ~Has(task[u], b)
    BY <1>1, <1>2, <1>3 DEF BrowserInv, NewKept
  <1>5. \A x : Has(task[t], x) => x = b
    BY <1>1, <1>3 DEF Has
  <1>6. \A x \in running : x \in running' \/
          (~Lives(x) /\ \A u \in Tasks : u # t => ~Has(task[u], x))
    BY <1>2, <1>4
  <1>7. \A x \in running' : Has(task[t], x) => Lives(x) \/ \E u \in Tasks : u # t /\ Has(task[u], x)
    BY <1>2, <1>5
  <1>8. shut' \in BOOLEAN /\ (shut' => shut) /\ running' \subseteq running /\ task[t].pc # "leased"
    BY <1>2 DEF BrowserInv, BrowserShapes
  <1> QED BY <1>2, <1>6, <1>7, <1>8, LetGoKeeps

\* The next of the selected browsers is retired: closed through its unshared
\* handle, or left to the caller that still refers to it.
LEMMA RetireKeeps ==
    ASSUME ManagerAssumption, BrowserInv, NEW t, t \in Tasks, task[t].pc = "retire",
           NEW v, v \in task[t].victims, NEW failed \in BOOLEAN,
           AfterRetirement(t, task[t].victims \ {v}, failed),
           \/ Unshared(v.browser, t) /\ running' = running \ {v.browser}
           \/ ~Unshared(v.browser, t) /\ running' = running,
           UNCHANGED <<live, touched, closed>>
    PROVE  BrowserInv'
  <1>1. PICK rest : rest = task[t].victims \ {v}
    OBVIOUS
  <1>2. /\ VictimOk(task[t], v) /\ v.browser # Absent /\ ~Lives(v.browser)
    BY HadIsBrowser DEF VictimOk, ManagerAssumption
  <1>3. task[t] \in TaskRecords /\ Fits(task[t]) /\ lifecycle = t
    BY DEF BrowserInv, BrowserShapes, CallersFit, MutexHeld, Locked
  <1>4. \A w \in rest : w \in task[t].victims /\ w.browser # v.browser
    BY <1>1, <1>2 DEF VictimOk
  <1>5. task[t].browser # v.browser
    BY <1>2 DEF VictimOk
  <1>6. \A b \in running : b \in running' \/
          (b = v.browser /\ ~Lives(b) /\ \A u \in Tasks : u # t => ~Has(task[u], b))
    BY <1>2, UnsharedIsNotHad
  <1>7. v.browser \in running' => \E u \in Tasks : u # t /\ Has(task[u], v.browser)
    BY <1>2, UnsharedIsNotHad
  <1>8. running' \subseteq running
    OBVIOUS
  <1>9. \A b : Has(task[t], b) => b = v.browser \/ (b # Absent /\ task[t].browser = b)
                                  \/ \E w \in rest : w.browser = b
    BY <1>1 DEF Has
  <1>10. Resident' = Resident
    BY DEF Resident
  <1>11. ~shut /\ shut \in BOOLEAN
    BY DEF BrowserInv, BrowserShapes, Shutting, Locked
  <1>12. ASSUME NEW r, r \in TaskRecords, Become(t, r), Fits(r), r.op = task[t].op,
                r.victims = rest, r.browser = task[t].browser,
                r.pc \in {"retire", "insert", "rollback"},
                UNCHANGED <<lifecycle, shut>>
         PROVE  BrowserInv'
    <2>1. task'[t] = r /\ \A u \in Tasks : u # t => task'[u] = task[u]
      BY <1>12, OneMoves
    <2>2. MutexHeld' /\ lifecycle' \in Tasks \cup {Absent}
      BY <1>12, <2>1, MutexFollows DEF ManagerAssumption, Locked
    <2>3. Shutting'
      <3>1. r.op = "close_all" => task[t].op = "close_all" /\ closed /\ Resident = {}
        BY <1>12 DEF BrowserInv, Shutting
      <3> QED BY <1>10, <1>11, <1>12, <2>1, <3>1 DEF BrowserInv, Shutting
    <2>4. \A b \in running : b \in running' \/
            (~Has(r, b) /\ ~Lives(b) /\ \A u \in Tasks : u # t => ~Has(task[u], b))
      <3>1. ~Has(r, v.browser)
        BY <1>4, <1>5, <1>12 DEF Has
      <3> QED BY <1>6, <3>1
    <2>5. \A b \in running' : Has(task[t], b) =>
            Lives(b) \/ Has(r, b) \/ \E u \in Tasks : u # t /\ Has(task[u], b)
      BY <1>7, <1>9, <1>12 DEF Has
    <2>6. r.victims \subseteq task[t].victims /\ r.browser \in {task[t].browser, Absent}
      BY <1>1, <1>12
    <2>7. shut' \in BOOLEAN /\ r.pc # "leased" /\ task[t].pc # "leased"
      BY <1>11, <1>12
    <2>8. UNCHANGED <<live, touched, closed>>
      OBVIOUS
    <2>9. r.op = "ensure" => task[t].op = "ensure"
      BY <1>12
    <2> QED BY <1>8, <1>12, <2>2, <2>3, <2>4, <2>5, <2>6, <2>7, <2>8, <2>9, ShedKeeps
  <1>13. CASE rest # {}
    <2>1. PICK r : r = [task[t] EXCEPT !.victims = rest, !.failed = failed]
      OBVIOUS
    <2>2. /\ r.pc = "retire" /\ r.op = task[t].op /\ r.instance = task[t].instance
          /\ r.victims = rest /\ r.browser = task[t].browser
      BY <1>3, <2>1 DEF TaskRecords
    <2>3. rest \in SUBSET Entries
      BY <1>1, <1>3 DEF TaskRecords
    <2>4. r \in TaskRecords
      BY <1>3, <2>1, <2>3 DEF TaskRecords
    <2>5. Fits(r)
      BY <1>3, <2>2 DEF Fits
    <2>6. Become(t, r) /\ UNCHANGED <<lifecycle, shut>>
      BY <1>1, <1>13, <2>1 DEF AfterRetirement
    <2> QED BY <1>12, <2>2, <2>4, <2>5, <2>6
  <1>14. CASE rest = {} /\ task[t].op = "ensure"
    <2>1. PICK pc : pc = IF failed THEN "rollback" ELSE "insert"
      OBVIOUS
    <2>2. PICK r : r = [task[t] EXCEPT !.victims = {}, !.pc = pc]
      OBVIOUS
    <2>3. pc \in {"rollback", "insert"}
      BY <2>1
    <2>4. /\ r.pc = pc /\ r.op = task[t].op /\ r.instance = task[t].instance
          /\ r.victims = rest /\ r.browser = task[t].browser
      BY <1>3, <1>14, <2>2 DEF TaskRecords
    <2>5. r \in TaskRecords
      BY <1>3, <2>2, <2>3 DEF TaskRecords, Calling
    <2>6. Fits(r)
      BY <1>3, <1>14, <2>3, <2>4 DEF Fits, Calling
    <2>7. Become(t, r) /\ UNCHANGED <<lifecycle, shut>>
      BY <1>1, <1>14, <2>1, <2>2 DEF AfterRetirement
    <2> QED BY <1>12, <2>3, <2>4, <2>5, <2>6, <2>7
  <1>15. CASE rest = {} /\ task[t].op # "ensure"
    <2>1. Returns(t) /\ shut' = (shut \/ (task[t].op = "close_all" /\ ~failed))
      BY <1>1, <1>15 DEF AfterRetirement
    <2>2. task[t].browser = Absent
      BY <1>3, <1>15 DEF Fits
    <2>3. \A b : Has(task[t], b) => b = v.browser
      BY <1>9, <1>15, <2>2
    <2>4. shut' => closed /\ Resident = {} /\ lifecycle \in {t, Absent}
      BY <1>3, <1>11, <2>1 DEF BrowserInv, Shutting
    <2>5. \A b \in running : b \in running' \/
            (~Lives(b) /\ \A u \in Tasks : u # t => ~Has(task[u], b))
      BY <1>6
    <2>6. \A b \in running' : Has(task[t], b) =>
            Lives(b) \/ \E u \in Tasks : u # t /\ Has(task[u], b)
      BY <1>7, <2>3
    <2>7. shut' \in BOOLEAN /\ task[t].pc # "leased"
      BY <1>11, <2>1
    <2>8. UNCHANGED <<live, touched, closed>>
      OBVIOUS
    <2> QED BY <1>8, <2>1, <2>4, <2>5, <2>6, <2>7, <2>8, LetGoKeeps
  <1> QED BY <1>13, <1>14, <1>15

\* An insertion that may not happen turns into the closing of the new browser.
LEMMA GiveUpKeeps ==
    ASSUME ManagerAssumption, BrowserInv, NEW t, t \in Tasks, insert(t), ~MayInsert(t)
    PROVE  BrowserInv'
  <1>1. PICK r : r = [task[t] EXCEPT !.pc = "rollback"]
    OBVIOUS
  <1>2. /\ task[t].pc = "insert" /\ Become(t, r)
        /\ UNCHANGED <<live, touched, lifecycle, closed, running, shut>>
    BY <1>1 DEF insert, At, Goes
  <1>3. task[t] \in TaskRecords /\ Fits(task[t])
    BY DEF BrowserInv, BrowserShapes, CallersFit
  <1>4. /\ r.pc = "rollback" /\ r.op = task[t].op /\ r.instance = task[t].instance
        /\ r.victims = task[t].victims /\ r.browser = task[t].browser /\ r \in TaskRecords
    BY <1>1, <1>3 DEF TaskRecords, Calling
  <1>5. Fits(r)
    BY <1>2, <1>3, <1>4 DEF Fits, Calling
  <1>6. task'[t] = r /\ \A u \in Tasks : u # t => task'[u] = task[u]
    BY <1>2, <1>4, OneMoves
  <1>7. MutexHeld' /\ lifecycle' \in Tasks \cup {Absent}
    BY <1>2, <1>4, <1>6, MutexFollows DEF ManagerAssumption, Locked
  <1>8. Shutting'
    <2>1. ~shut
      BY <1>2 DEF BrowserInv, Shutting, Locked
    <2>2. Resident' = Resident
      BY <1>2 DEF Resident
    <2> QED BY <1>2, <1>4, <1>6, <2>1, <2>2 DEF BrowserInv, Shutting
  <1>9. shut' \in BOOLEAN /\ running' = running
    BY <1>2 DEF BrowserInv, BrowserShapes
  <1>10. \A b : Has(task[t], b) => Has(r, b)
    BY <1>4 DEF Has
  <1> QED BY <1>2, <1>4, <1>5, <1>7, <1>8, <1>9, <1>10, ShedKeeps

-----------------------------------------------------------------------------
(* The operations. *)

LEMMA Room ==
    ASSUME ManagerAssumption, BrowserInv, NEW s, s \in Resident
    PROVE  Cardinality({x \in Resident : x \notin {s}}) < maximum_live
  <1>1. {x \in Resident : x \notin {s}} = Resident \ {s}
    OBVIOUS
  <1>2. Cardinality(Resident \ {s}) = Cardinality(Resident) - 1
    BY ScopesFinite, FS_RemoveElement
  <1>3. Cardinality(Resident) <= maximum_live /\ Cardinality(Resident) \in Nat
    BY ScopesFinite DEF BrowserInv, Budgeted, ManagerAssumption
  <1>4. PICK n \in Nat : n = Cardinality(Resident)
    BY <1>3
  <1>5. maximum_live \in Nat /\ n <= maximum_live
    BY <1>3, <1>4 DEF ManagerAssumption
  <1>6. n - 1 < maximum_live
    BY <1>5
  <1> QED BY <1>1, <1>2, <1>4, <1>6

LEMMA ChooseKeeps ==
    ASSUME ManagerAssumption, BrowserInv, NEW t, t \in Tasks, choose(t)
    PROVE  BrowserInv'
  <1>1. PICK i : i = task[t].instance
    OBVIOUS
  <1>2. task[t].pc = "choose" /\ UNCHANGED <<touched, closed, running, shut>>
    BY DEF choose, At
  <1>3. Empty(t) /\ Fits(task[t]) /\ lifecycle = t
    BY <1>2, EmptyHanded DEF BrowserInv, MutexHeld, Locked
  <1>4. task[t].op = "ensure" /\ i \in Instances /\ i.scope \in Scopes
    BY <1>1, <1>2, <1>3 DEF Fits, Calling, ManagerAssumption
  <1>5. ~closed => ~shut
    BY DEF BrowserInv, Shutting
  <1>6. ASSUME NEW s \in Resident, ~closed, Unleased(s), Take(t, {s}, "launch"), UNCHANGED lifecycle
        PROVE  BrowserInv'
    <2>1. Cardinality({x \in Resident : x \notin {s}}) < maximum_live
      BY Room
    <2>2. {s} \subseteq Resident /\ \A x \in {s} : Unleased(x)
      BY <1>6
    <2>3. lifecycle \in {t, Absent} /\ lifecycle' = t
      BY <1>3, <1>6
    <2>4. PICK set : set = {s}
      OBVIOUS
    <2> QED BY <1>1, <1>2, <1>3, <1>4, <1>5, <1>6, <2>1, <2>2, <2>3, <2>4, TakeKeeps
  <1>7. CASE ~closed /\ live[i.scope] # Absent /\ MayReplace(i) /\ Take(t, {i.scope}, "launch")
             /\ UNCHANGED lifecycle
    <2>1. i.scope \in Resident /\ Unleased(i.scope)
      BY <1>4, <1>7 DEF Resident, MayReplace
    <2> QED BY <1>6, <1>7, <2>1
  <1>8. CASE ~closed /\ live[i.scope] = Absent /\ ~Full /\ Take(t, {}, "launch") /\ UNCHANGED lifecycle
    <2>1. PICK set : set = {}
      OBVIOUS
    <2>2. {x \in Resident : x \notin set} = Resident
      BY <2>1
    <2>3. Cardinality({x \in Resident : x \notin set}) < maximum_live
      <3>1. PICK n \in Nat : n = Cardinality(Resident)
        BY ScopesFinite
      <3>2. maximum_live \in Nat /\ ~(n >= maximum_live)
        BY <1>8, <3>1 DEF Full, ManagerAssumption
      <3>3. n < maximum_live
        BY <3>2
      <3> QED BY <2>2, <3>1, <3>3
    <2>4. set \subseteq Resident /\ (\A x \in set : Unleased(x)) /\ Take(t, set, "launch")
      BY <1>8, <2>1
    <2>5. lifecycle \in {t, Absent} /\ lifecycle' = t /\ ~shut
      BY <1>3, <1>5, <1>8
    <2> QED BY <1>1, <1>2, <1>3, <1>4, <2>3, <2>4, <2>5, TakeKeeps
  <1>9. CASE ~closed /\ (\E s \in Scopes : Lru(s) /\ Take(t, {s}, "launch")) /\ UNCHANGED lifecycle
    BY <1>6, <1>9 DEF Lru
  <1>10. CASE Returns(t) /\ UNCHANGED live
    BY <1>2, <1>3, <1>10, ReturnKeeps
  <1> QED BY <1>1, <1>7, <1>8, <1>9, <1>10 DEF choose

LEMMA RecheckKeeps ==
    ASSUME ManagerAssumption, BrowserInv, NEW t, t \in Tasks, recheck(t)
    PROVE  BrowserInv'
  <1>1. PICK i : i = task[t].instance
    OBVIOUS
  <1>2. /\ task[t].pc = "queued" /\ task[t].op = "ensure" /\ lifecycle = Absent
        /\ UNCHANGED <<closed, running, shut>>
    BY DEF recheck, At, Free
  <1>3. Empty(t) /\ task[t] \in TaskRecords /\ i \in Instances
    BY <1>1, <1>2, EmptyHanded DEF Fits, Calling
  <1>4. CASE LendExisting(t, i)
    BY <1>2, <1>3, <1>4, LendKeeps
  <1>5. CASE Returns(t) /\ UNCHANGED <<live, touched>>
    BY <1>2, <1>3, <1>5, ReturnKeeps
  <1>6. CASE Misses(i) /\ Goes(t, "choose") /\ lifecycle' = t /\ UNCHANGED <<live, touched>>
    <2>1. PICK r : r = [task[t] EXCEPT !.pc = "choose"]
      OBVIOUS
    <2>2. /\ r.pc = "choose" /\ r.op = task[t].op /\ r.instance = task[t].instance
          /\ r.victims = task[t].victims /\ r.browser = task[t].browser /\ r \in TaskRecords
      BY <1>3, <2>1 DEF TaskRecords, Calling
    <2>3. Become(t, r)
      BY <1>6, <2>1 DEF Goes
    <2>4. ~shut
      BY <1>6 DEF Misses, Refuses, BrowserInv, Shutting
    <2>5. r.pc \in Locked /\ r.pc \notin {"queued", "sweep", "busy", "waiting"}
      BY <2>2 DEF Locked
    <2> QED BY <1>2, <1>6, <2>2, <2>3, <2>4, <2>5, GoesKeeps
  <1> QED BY <1>1, <1>4, <1>5, <1>6 DEF recheck

LEMMA EnsureKeeps ==
    ASSUME ManagerAssumption, BrowserInv, NEW t, t \in Tasks, NEW i, i \in Instances,
           acquire_existing(t, i) \/ ensure(t, i)
    PROVE  BrowserInv'
  <1>1. At(t, "idle") /\ task[t].pc = "idle" /\ UNCHANGED <<closed, running, shut>>
    BY DEF acquire_existing, ensure, At
  <1>2. CASE LendExisting(t, i)
    BY <1>1, <1>2, LendKeeps
  <1>3. CASE /\ Become(t, [Resting EXCEPT !.pc = "queued", !.op = "ensure", !.instance = i])
             /\ UNCHANGED <<live, touched, lifecycle>>
    <2>1. PICK r : r = [Resting EXCEPT !.pc = "queued", !.op = "ensure", !.instance = i]
      OBVIOUS
    <2>2. /\ r \in TaskRecords /\ r.pc = "queued" /\ r.op = "ensure" /\ r.victims = {}
          /\ r.browser = Absent /\ r.instance = i
      BY <2>1 DEF Resting, TaskRecords, Calling
    <2>3. Become(t, r) /\ UNCHANGED <<live, touched, lifecycle>>
      BY <1>3, <2>1
    <2> QED BY <1>1, <2>2, <2>3, QueueKeeps
  <1> QED BY <1>2, <1>3 DEF acquire_existing, ensure

LEMMA SweepKeeps ==
    ASSUME ManagerAssumption, BrowserInv, NEW t, t \in Tasks,
           sweep_idle(t) \/ sweep_choose(t) \/ sweep_take(t)
    PROVE  BrowserInv'
  <1>1. CASE sweep_idle(t)
    <2>1. PICK r : r = [Resting EXCEPT !.pc = "queued", !.op = "sweep"]
      OBVIOUS
    <2>2. /\ r \in TaskRecords /\ r.pc = "queued" /\ r.op = "sweep" /\ r.victims = {}
          /\ r.browser = Absent
      BY <2>1 DEF Resting, TaskRecords, Calling
    <2>3. /\ At(t, "idle") /\ Become(t, r)
          /\ UNCHANGED <<live, touched, closed, lifecycle, running, shut>>
      BY <1>1, <2>1 DEF sweep_idle
    <2> QED BY <2>2, <2>3, QueueKeeps
  <1>2. CASE sweep_choose(t)
    <2>1. PICK keys : keys = {s \in Resident : Unleased(s) /\ live[s].idle}
      OBVIOUS
    <2>2. PICK r : r = [task[t] EXCEPT !.pc = "sweep", !.keys = keys]
      OBVIOUS
    <2>3. /\ task[t].pc = "queued" /\ task[t].op = "sweep" /\ lifecycle = Absent /\ lifecycle' = t /\ Become(t, r)
          /\ UNCHANGED <<live, touched, closed, running, shut>>
      BY <1>2, <2>1, <2>2 DEF sweep_choose, At, Free
    <2>4. task[t] \in TaskRecords /\ keys \in SUBSET Scopes
      BY <2>1 DEF BrowserInv, BrowserShapes, Resident
    <2>5. /\ r.pc = "sweep" /\ r.op = task[t].op /\ r.instance = task[t].instance
          /\ r.victims = task[t].victims /\ r.browser = task[t].browser /\ r \in TaskRecords
      BY <2>2, <2>4 DEF TaskRecords
    <2>6. r.pc \in Locked /\ r.pc \notin {"queued", "choose", "busy", "waiting"}
      BY <2>5 DEF Locked
    <2> QED BY <2>3, <2>5, <2>6, GoesKeeps
  <1>3. CASE sweep_take(t)
    <2>1. PICK keys : keys = {s \in task[t].keys : StillUnleased(s)}
      OBVIOUS
    <2>2. task[t].pc = "sweep" /\ UNCHANGED <<touched, closed, running, shut>>
      BY <1>3 DEF sweep_take, At
    <2>3. Empty(t) /\ lifecycle = t
      BY <2>2, EmptyHanded DEF BrowserInv, MutexHeld, Locked
    <2>4. CASE Returns(t) /\ UNCHANGED live
      BY <2>2, <2>3, <2>4, ReturnKeeps
    <2>5. CASE keys # {} /\ Take(t, keys, "retire") /\ UNCHANGED lifecycle
      <3>1. keys \subseteq Resident /\ \A s \in keys : Unleased(s)
        BY <2>1 DEF StillUnleased
      <3>2. ~shut
        BY <2>5, <3>1 DEF BrowserInv, Shutting
      <3>3. task[t].op = "sweep"
        BY <2>2 DEF BrowserInv, CallersFit, Fits
      <3> QED BY <2>2, <2>3, <2>5, <3>1, <3>2, <3>3, TakeKeeps
    <2> QED BY <1>3, <2>1, <2>4, <2>5 DEF sweep_take
  <1> QED BY <1>1, <1>2, <1>3

LEMMA StopKeeps ==
    ASSUME ManagerAssumption, BrowserInv, NEW t, t \in Tasks, stop_take(t)
    PROVE  BrowserInv'
  <1>1. PICK i : i = task[t].instance
    OBVIOUS
  <1>2. /\ task[t].pc = "queued" /\ task[t].op \in {"stop", "stop_after_drain"}
        /\ lifecycle = Absent /\ UNCHANGED <<touched, closed, running, shut>>
    BY DEF stop_take, At, Free
  <1>3. Empty(t) /\ task[t] \in TaskRecords /\ i \in Instances /\ i.scope \in Scopes
    BY <1>1, <1>2, EmptyHanded DEF Fits, Calling, ManagerAssumption
  <1>4. CASE Returns(t) /\ UNCHANGED live
    BY <1>2, <1>3, <1>4, ReturnKeeps
  <1>5. CASE /\ task[t].op = "stop_after_drain" /\ Goes(t, "busy")
             /\ UNCHANGED lifecycle /\ UNCHANGED live
    <2>1. PICK r : r = [task[t] EXCEPT !.pc = "busy"]
      OBVIOUS
    <2>2. /\ r.pc = "busy" /\ r.op = task[t].op /\ r.instance = task[t].instance
          /\ r.victims = task[t].victims /\ r.browser = task[t].browser /\ r \in TaskRecords
      BY <1>3, <2>1 DEF TaskRecords, Calling
    <2>3. Become(t, r) /\ r.pc \notin Locked /\ r.pc # "queued"
      BY <1>5, <2>1, <2>2 DEF Goes, Locked
    <2> QED BY <1>2, <1>5, <2>2, <2>3, GoesKeeps
  <1>6. CASE /\ live[i.scope] # Absent /\ Unleased(i.scope) /\ Take(t, {i.scope}, "retire")
             /\ lifecycle' = t
    <2>1. PICK set : set = {i.scope}
      OBVIOUS
    <2>2. set \subseteq Resident /\ set # {} /\ (\A s \in set : Unleased(s)) /\ Take(t, set, "retire")
      BY <1>3, <1>6, <2>1 DEF Resident
    <2>3. ~shut
      BY <2>2 DEF BrowserInv, Shutting
    <2> QED BY <1>1, <1>2, <1>3, <1>6, <2>2, <2>3, TakeKeeps
  <1> QED BY <1>1, <1>4, <1>5, <1>6 DEF stop_take, Busy

LEMMA WaitKeeps ==
    ASSUME ManagerAssumption, BrowserInv, NEW t, t \in Tasks, await_release(t) \/ wake(t)
    PROVE  BrowserInv'
  <1>1. UNCHANGED <<live, touched, closed, lifecycle, running, shut>>
    BY DEF await_release, wake
  <1>2. task[t] \in TaskRecords
    BY DEF BrowserInv, BrowserShapes
  <1>3. CASE await_release(t)
    <2>1. PICK r : r = [task[t] EXCEPT !.pc = "waiting"]
      OBVIOUS
    <2>2. /\ r.pc = "waiting" /\ r.op = task[t].op /\ r.instance = task[t].instance
          /\ r.victims = task[t].victims /\ r.browser = task[t].browser /\ r \in TaskRecords
      BY <1>2, <2>1 DEF TaskRecords, Calling
    <2>3. Become(t, r) /\ r.pc \notin Locked /\ r.pc # "queued" /\ task[t].pc = "busy"
      BY <1>3, <2>1, <2>2 DEF await_release, At, Goes, Locked
    <2>4. task[t].op = "stop_after_drain"
      BY <2>3 DEF BrowserInv, CallersFit, Fits
    <2> QED BY <1>1, <2>2, <2>3, <2>4, GoesKeeps
  <1>4. CASE wake(t)
    <2>1. PICK r : r = [task[t] EXCEPT !.pc = "queued", !.notified = FALSE]
      OBVIOUS
    <2>2. /\ r.pc = "queued" /\ r.op = task[t].op /\ r.instance = task[t].instance
          /\ r.victims = task[t].victims /\ r.browser = task[t].browser /\ r \in TaskRecords
      BY <1>2, <2>1 DEF TaskRecords, Calling
    <2>3. Become(t, r) /\ r.pc \notin Locked /\ task[t].pc = "waiting"
      BY <1>4, <2>1, <2>2 DEF wake, At, Locked
    <2>4. task[t].op # "close_all"
      BY <2>3 DEF BrowserInv, CallersFit, Fits
    <2> QED BY <1>1, <2>2, <2>3, <2>4, GoesKeeps
  <1> QED BY <1>3, <1>4

LEMMA CloseKeeps ==
    ASSUME ManagerAssumption, BrowserInv, NEW t, t \in Tasks, close_all(t) \/ close_take(t)
    PROVE  BrowserInv'
  <1>1. CASE close_all(t)
    <2>1. PICK r : r = [Resting EXCEPT !.pc = "queued", !.op = "close_all"]
      OBVIOUS
    <2>2. /\ r.pc = "queued" /\ r.op = "close_all" /\ r.victims = {} /\ r.browser = Absent
          /\ r \in TaskRecords
      BY <2>1 DEF Resting, TaskRecords, Calling
    <2>3. Fits(r)
      BY <2>2 DEF Fits
    <2>4. /\ task[t].pc = "idle" /\ closed' = TRUE /\ Become(t, r)
          /\ UNCHANGED <<live, touched, lifecycle, running, shut>>
      BY <1>1, <2>1 DEF close_all, At
    <2>5. task'[t] = r /\ \A u \in Tasks : u # t => task'[u] = task[u]
      BY <2>2, <2>4, OneMoves
    <2>6. Empty(t)
      BY <2>4, EmptyHanded
    <2>7. MutexHeld' /\ lifecycle' \in Tasks \cup {Absent}
      BY <2>2, <2>4, <2>5, MutexFollows DEF ManagerAssumption, Locked
    <2>8. Resident' = Resident
      BY <2>4 DEF Resident
    <2>9. Shutting'
      BY <2>2, <2>4, <2>5, <2>8 DEF BrowserInv, Shutting, Locked
    <2>10. shut' \in BOOLEAN /\ closed' \in BOOLEAN
      BY <2>4 DEF BrowserInv, BrowserShapes
    <2> QED BY <2>2, <2>3, <2>4, <2>6, <2>7, <2>9, <2>10, MoveKeeps DEF Empty
  <1>2. CASE close_take(t)
    <2>1. /\ task[t].pc = "queued" /\ task[t].op = "close_all" /\ lifecycle = Absent
          /\ UNCHANGED <<touched, closed, running>>
      BY <1>2 DEF close_take, At, Free
    <2>2. Empty(t) /\ closed
      BY <2>1, EmptyHanded DEF BrowserInv, Shutting
    <2>3. CASE Returns(t) /\ UNCHANGED <<live, shut>>
      BY <2>1, <2>2, <2>3, ReturnKeeps
    <2>4. CASE Resident = {} /\ Returns(t) /\ shut' = TRUE /\ UNCHANGED live
      <3>1. \A b : ~Has(task[t], b)
        BY <2>2 DEF Empty, Has
      <3> QED BY <2>1, <2>2, <2>4, <3>1, LetGoKeeps
    <2>5. CASE /\ Resident # {} /\ \A s \in Resident : Unleased(s)
               /\ Take(t, Resident, "retire") /\ lifecycle' = t /\ UNCHANGED shut
      <3>1. ~shut
        BY <2>5 DEF BrowserInv, Shutting
      <3>2. PICK set : set = Resident
        OBVIOUS
      <3> QED BY <2>1, <2>2, <2>5, <3>1, <3>2, TakeKeeps
    <2> QED BY <1>2, <2>3, <2>4, <2>5 DEF close_take
  <1> QED BY <1>1, <1>2

LEMMA StopBegins ==
    ASSUME ManagerAssumption, BrowserInv, NEW t, t \in Tasks, NEW i, i \in Instances,
           NEW op, op \in {"stop", "stop_after_drain"}, stop_browser(t, i, op)
    PROVE  BrowserInv'
  <1>1. PICK r : r = [Resting EXCEPT !.pc = "queued", !.op = op, !.instance = i]
    OBVIOUS
  <1>2. /\ r \in TaskRecords /\ r.pc = "queued" /\ r.op = op /\ r.victims = {}
        /\ r.browser = Absent /\ r.instance = i
    BY <1>1 DEF Resting, TaskRecords, Calling
  <1>3. /\ At(t, "idle") /\ Become(t, r)
        /\ UNCHANGED <<live, touched, closed, lifecycle, running, shut>>
    BY <1>1 DEF stop_browser
  <1> QED BY <1>2, <1>3, QueueKeeps

LEMMA BrowserNextKeeps ==
    ASSUME ManagerAssumption, BrowserInv, BrowserNext
    PROVE  BrowserInv'
  <1>1. CASE \E s \in Scopes : age(s)
    BY <1>1, AgeKeeps
  <1>2. ASSUME NEW t \in Tasks,
               \/ \E i \in Instances : acquire_existing(t, i) \/ ensure(t, i)
               \/ \E i \in Instances, op \in {"stop", "stop_after_drain"} : stop_browser(t, i, op)
               \/ recheck(t) \/ choose(t) \/ launch_ok(t) \/ launch_failed(t)
               \/ retire(t) \/ insert(t) \/ launch_rollback(t)
               \/ sweep_idle(t) \/ sweep_choose(t) \/ sweep_take(t)
               \/ stop_take(t) \/ await_release(t) \/ wake(t)
               \/ close_all(t) \/ close_take(t)
               \/ drop_lease(t) \/ drop_inner(t) \/ cancel(t)
        PROVE  BrowserInv'
    <2>1. CASE \E i \in Instances : acquire_existing(t, i) \/ ensure(t, i)
      BY <2>1, EnsureKeeps
    <2>2. CASE \E i \in Instances, op \in {"stop", "stop_after_drain"} : stop_browser(t, i, op)
      BY <2>2, StopBegins
    <2>3. CASE recheck(t)
      BY <2>3, RecheckKeeps
    <2>4. CASE choose(t)
      BY <2>4, ChooseKeeps
    <2>5. CASE launch_ok(t)
      BY <2>5, LaunchKeeps
    <2>6. CASE launch_failed(t)
      BY <2>6, RestoreKeeps
    <2>7. CASE retire(t)
      <3>1. /\ task[t].pc = "retire" /\ UNCHANGED <<live, touched, closed>>
            /\ task[t].failed \in BOOLEAN
        BY <2>7 DEF retire, At, BrowserInv, BrowserShapes, TaskRecords
      <3>2. PICK v \in task[t].victims :
              \/ /\ Unshared(v.browser, t)
                 /\ running' = running \ {v.browser}
                 /\ \E error \in BOOLEAN :
                      AfterRetirement(t, task[t].victims \ {v}, task[t].failed \/ error)
              \/ /\ ~Unshared(v.browser, t)
                 /\ UNCHANGED running
                 /\ AfterRetirement(t, task[t].victims \ {v}, TRUE)
        BY <2>7 DEF retire
      <3>3. PICK failed \in BOOLEAN :
              /\ AfterRetirement(t, task[t].victims \ {v}, failed)
              /\ \/ Unshared(v.browser, t) /\ running' = running \ {v.browser}
                 \/ ~Unshared(v.browser, t) /\ running' = running
        <4>1. CASE /\ Unshared(v.browser, t)
                   /\ running' = running \ {v.browser}
                   /\ \E error \in BOOLEAN :
                        AfterRetirement(t, task[t].victims \ {v}, task[t].failed \/ error)
          <5>1. PICK error \in BOOLEAN :
                  AfterRetirement(t, task[t].victims \ {v}, task[t].failed \/ error)
            BY <4>1
          <5>2. (task[t].failed \/ error) \in BOOLEAN
            OBVIOUS
          <5> QED BY <4>1, <5>1, <5>2
        <4>2. CASE /\ ~Unshared(v.browser, t)
                   /\ UNCHANGED running
                   /\ AfterRetirement(t, task[t].victims \ {v}, TRUE)
          BY <4>2
        <4> QED BY <3>2, <4>1, <4>2
      <3> QED BY <3>1, <3>3, RetireKeeps
    <2>8. CASE insert(t)
      BY <2>8, InsertKeeps, GiveUpKeeps
    <2>9. CASE launch_rollback(t)
      BY <2>9, RollbackKeeps
    <2>10. CASE sweep_idle(t) \/ sweep_choose(t) \/ sweep_take(t)
      BY <2>10, SweepKeeps
    <2>11. CASE stop_take(t)
      BY <2>11, StopKeeps
    <2>12. CASE await_release(t) \/ wake(t)
      BY <2>12, WaitKeeps
    <2>13. CASE close_all(t) \/ close_take(t)
      BY <2>13, CloseKeeps
    <2>14. CASE drop_lease(t)
      BY <2>14, DropLeaseKeeps
    <2>15. CASE drop_inner(t)
      BY <2>15, DropInnerKeeps
    <2>16. CASE cancel(t)
      BY <2>16, CancelKeeps
    <2> QED BY <1>2, <2>1, <2>2, <2>3, <2>4, <2>5, <2>6, <2>7, <2>8, <2>9, <2>10, <2>11,
               <2>12, <2>13, <2>14, <2>15, <2>16
  <1> QED BY <1>1, <1>2 DEF BrowserNext

-----------------------------------------------------------------------------
(* The beginning, and what the invariant says. *)

LEMMA SetToSeqOrders ==
    ASSUME NEW S, IsFiniteSet(S)
    PROVE  /\ SetToSeq(S) \in Seq(S) /\ IsInjective(SetToSeq(S)) /\ ToSet(SetToSeq(S)) = S
           /\ Len(SetToSeq(S)) = Cardinality(S)
  <1>1. PICK n \in Nat : n = Cardinality(S)
    BY FS_CardinalityType
  <1>2. PICK f : f \in Bijection(1..n, S)
    BY <1>1, FS_CardinalityType DEF ExistsBijection
  <1>3. f \in [1..n -> S] /\ IsInjective(f)
    BY <1>2 DEF Bijection, Injection
  <1>4. PICK q : q = SetToSeq(S)
    OBVIOUS
  <1>5. q \in [1..n -> S] /\ IsInjective(q)
    BY <1>1, <1>3, <1>4 DEF SetToSeq
  <1>6. q \in Seq(S) /\ Len(q) = n
    BY <1>5
  <1>7. IsFiniteSet(1..n) /\ Cardinality(1..n) = n
    BY FS_Interval
  <1>8. q \in Surjection(1..n, S)
    <2>1. q \in Injection(1..n, S)
      BY <1>5 DEF Injection
    <2> QED BY <1>1, <1>7, <2>1, FS_Injection
  <1>9. \A x \in S : \E k \in 1..n : q[k] = x
    BY <1>8 DEF Surjection
  <1>10. ToSet(q) = S
    BY <1>5, <1>9 DEF ToSet
  <1> QED BY <1>1, <1>4, <1>5, <1>6, <1>10

LEMMA BrowserInitHolds ==
    ASSUME ManagerAssumption, BrowserInit
    PROVE  BrowserInv
  <1>1. /\ live = [s \in Scopes |-> Absent] /\ touched = SetToSeq(Scopes) /\ closed = FALSE
        /\ lifecycle = Absent /\ task = [t \in Tasks |-> Resting] /\ running = {} /\ shut = FALSE
    BY DEF BrowserInit
  <1>2. \A t \in Tasks : /\ task[t] = Resting /\ task[t] \in TaskRecords /\ Fits(task[t])
                          /\ task[t].pc = "idle" /\ task[t].victims = {}
    BY <1>1, RestingFits
  <1>3. \A s \in Scopes : live[s] = Absent
    BY <1>1
  <1>4. BrowserShapes
    <2>1. /\ touched \in Seq(Scopes) /\ IsInjective(touched) /\ ToSet(touched) = Scopes
          /\ Len(touched) = Cardinality(Scopes)
      BY <1>1, SetToSeqOrders DEF ManagerAssumption
    <2>2. task \in [Tasks -> TaskRecords] /\ live \in [Scopes -> Entries \cup {Absent}]
      BY <1>1, <1>2
    <2> QED BY <1>1, <2>1, <2>2 DEF BrowserShapes
  <1>5. CallersFit /\ MutexHeld
    BY <1>1, <1>2 DEF CallersFit, MutexHeld, Locked, ManagerAssumption
  <1>6. InPlace /\ VictimsKept /\ NewKept
    BY <1>2, <1>3 DEF InPlace, VictimsKept, NewKept
  <1>7. LeasesCounted /\ Accounted
    BY <1>1, <1>2, <1>3 DEF LeasesCounted, Accounted
  <1>8. Held = {} /\ Cardinality({}) = 0
    BY <1>2, <1>3, FS_EmptySet DEF Held
  <1>9. Budgeted
    <2>1. 0 <= maximum_live
      BY DEF ManagerAssumption
    <2> QED BY <1>2, <1>8, <2>1 DEF Budgeted
  <1>10. Shutting
    BY <1>1, <1>2 DEF Shutting
  <1> QED BY <1>4, <1>5, <1>6, <1>7, <1>9, <1>10 DEF BrowserInv

LEMMA ImageIsSmaller ==
    ASSUME NEW S, IsFiniteSet(S), NEW f
    PROVE  IsFiniteSet({f[x] : x \in S}) /\ Cardinality({f[x] : x \in S}) <= Cardinality(S)
  <1>1. PICK g : g = [x \in S |-> f[x]]
    OBVIOUS
  <1>2. PICK T : T = {f[x] : x \in S}
    OBVIOUS
  <1>3. g \in Surjection(S, T)
    BY <1>1, <1>2 DEF Surjection
  <1> QED BY <1>2, <1>3, FS_Surjection

LEMMA BudgetFollows ==
    ASSUME ManagerAssumption, BrowserInv
    PROVE  BudgetHolds
  <1>1. PICK n \in Nat : n = Cardinality(Held)
    BY ScopesFinite
  <1>2. n <= maximum_live /\ maximum_live \in Nat /\ Cardinality(Resident) \in Nat
        /\ Cardinality(Resident) <= n
    BY <1>1, ScopesFinite DEF BrowserInv, Budgeted, ManagerAssumption
  <1>3. PICK l : l = lifecycle
    OBVIOUS
  <1>4. PICK handled : handled = UNION {Owned(t) : t \in {u \in Tasks : lifecycle = u}}
    OBVIOUS
  <1>5. \A b \in handled : l \in Tasks /\ Has(task[l], b)
    BY <1>3, <1>4, OwnedIsHad
  <1>6. PICK own : own = {live[s].browser : s \in Resident}
    OBVIOUS
  <1>7. PICK f : f = [s \in Held |-> IF live[s] # Absent THEN live[s].browser
                        ELSE (CHOOSE v \in task[l].victims : v.instance.scope = s).browser]
    OBVIOUS
  <1>8. PICK img : img = {f[s] : s \in Held}
    OBVIOUS
  <1>9. IsFiniteSet(img) /\ Cardinality(img) <= Cardinality(Held)
    BY <1>8, ScopesFinite, ImageIsSmaller
  <1>10. own \subseteq img
    <2>1. \A s \in Resident : s \in Held /\ live[s] # Absent
      BY DEF Resident, Held
    <2> QED BY <1>6, <1>7, <1>8, <2>1
  <1>11. ASSUME NEW b \in handled
         PROVE  b \in img \/ b = task[l].browser
    <2>1. CASE \E v \in task[l].victims : v.browser = b
      <3>1. PICK v \in task[l].victims : v.browser = b
        BY <2>1
      <3>2. PICK s : s = v.instance.scope
        OBVIOUS
      <3>3. VictimOk(task[l], v)
        BY <1>5, <3>1, HadIsBrowser
      <3>4. s \in Held /\ live[s] = Absent
        BY <1>5, <3>2, <3>3 DEF VictimOk, Held
      <3>5. (CHOOSE w \in task[l].victims : w.instance.scope = s) = v
        BY <3>2, <3>3 DEF VictimOk
      <3>6. f[s] = b
        BY <1>7, <3>1, <3>4, <3>5
      <3> QED BY <1>8, <3>4, <3>6
    <2> QED BY <1>5, <2>1 DEF Has
  <1>12. own \cup handled \subseteq img \cup {task[l].browser}
    BY <1>10, <1>11
  <1>13. /\ IsFiniteSet(img \cup {task[l].browser})
         /\ Cardinality(img \cup {task[l].browser}) <= n + 1
    <2>1. PICK k \in Nat : k = Cardinality(img)
      BY <1>9, FS_CardinalityType
    <2>2. k <= n
      BY <1>1, <1>9, <2>1
    <2>3. /\ IsFiniteSet(img \cup {task[l].browser})
          /\ Cardinality(img \cup {task[l].browser}) \in {k, k + 1}
      BY <1>9, <2>1, FS_AddElement
    <2> QED BY <2>2, <2>3
  <1>14. Cardinality(own \cup handled) \in Nat
         /\ Cardinality(own \cup handled) <= Cardinality(img \cup {task[l].browser})
    BY <1>12, <1>13, FS_Subset, FS_CardinalityType
  <1>15. PICK m \in Nat : m = Cardinality(img \cup {task[l].browser})
    BY <1>13, FS_CardinalityType
  <1>16. Cardinality(own \cup handled) <= maximum_live + 1
    BY <1>2, <1>13, <1>14, <1>15
  <1>17. Cardinality(Resident) <= maximum_live
    BY <1>2
  <1> QED BY <1>4, <1>6, <1>16, <1>17 DEF BudgetHolds

LEMMA BrowserSafetyFollows ==
    ASSUME ManagerAssumption, BrowserInv
    PROVE  BrowserSafety
  <1>1. BrowserTypeOK
    <2>1. ASSUME NEW s \in Scopes
          PROVE  live[s] \in Entry \cup {Absent}
      <3>1. CASE live[s] # Absent
        <4>1. live[s] \in Entries /\ live[s].leases = Cardinality(Holders(s))
          BY <3>1 DEF BrowserInv, BrowserShapes, LeasesCounted
        <4>2. Cardinality(Tasks) \in Nat
          BY FS_CardinalityType DEF ManagerAssumption
        <4>3. live[s].leases \in 0..Cardinality(Tasks)
          BY <4>1, <4>2, HoldersFinite
        <4> QED BY <4>1, <4>3 DEF Entry, Entries
      <3> QED BY <3>1
    <2>2. live \in [Scopes -> Entry \cup {Absent}]
      BY <2>1 DEF BrowserInv, BrowserShapes
    <2>3. \A s \in Resident : Inst(s).scope = s
      BY DEF BrowserInv, InPlace, Resident, Inst
    <2>4. \A t \in Tasks : (lifecycle = t) <=>
            task[t].pc \in {"choose", "launch", "retire", "insert", "rollback", "sweep"}
      BY DEF BrowserInv, MutexHeld, Locked
    <2> QED BY <2>2, <2>3, <2>4 DEF BrowserTypeOK, BrowserInv, BrowserShapes
  <1>2. LeaseKeepsItsBrowser
    <2>1. ASSUME NEW s \in Scopes, NEW t \in Holders(s)
          PROVE  /\ Same(task[t].instance) /\ live[s].browser = task[t].browser
                 /\ task[t].browser \in running
      <3>1. t \in Tasks /\ task[t].pc = "leased" /\ task[t].instance.scope = s
        BY <2>1 DEF Holders
      <3>2. /\ live[s] # Absent /\ live[s].instance = task[t].instance
            /\ live[s].browser = task[t].browser
        BY <3>1 DEF BrowserInv, LeasesCounted
      <3> QED BY <3>1, <3>2 DEF Same, Inst, BrowserInv, InPlace
    <2>2. \A s \in Scopes : live[s] # Absent => live[s].leases = Cardinality(Holders(s))
      BY DEF BrowserInv, LeasesCounted
    <2> QED BY <2>1, <2>2 DEF LeaseKeepsItsBrowser
  <1>3. NoOrphanProcess
    <2>1. ASSUME NEW b \in running
          PROVE  b \in Referenced
      <3>1. CASE Lives(b)
        BY <3>1, LivesIsResident DEF Referenced
      <3>2. CASE \E t \in Tasks : Has(task[t], b)
        BY <3>2, OwnedIsHad DEF Referenced
      <3> QED BY <3>1, <3>2 DEF BrowserInv, Accounted
    <2>2. \A s \in Resident : live[s].browser \in running
      BY DEF BrowserInv, InPlace, Resident
    <2> QED BY <2>1, <2>2 DEF NoOrphanProcess
  <1>4. ShutdownIsFinal
    <2>1. ASSUME shut, NEW b \in running
          PROVE  \E t \in Tasks : At(t, "dropping") /\ b \in Owned(t)
      <3>1. Resident = {} /\ \A t \in Tasks : task[t].pc \notin Locked \ {"sweep"}
        BY <2>1 DEF BrowserInv, Shutting
      <3>2. ~Lives(b)
        BY <3>1, LivesIsResident
      <3>3. PICK t \in Tasks : Has(task[t], b)
        BY <3>2 DEF BrowserInv, Accounted
      <3>4. Fits(task[t]) /\ task[t].pc \notin {"launch", "retire", "insert", "rollback"}
        BY <3>1 DEF BrowserInv, CallersFit, Locked
      <3>5. task[t].browser # Absent
        BY <3>3, <3>4 DEF Fits, Has
      <3>6. task[t].pc \in {"leased", "dropping"}
        BY <3>4, <3>5 DEF Fits
      <3>7. task[t].pc # "leased"
        BY <3>1 DEF BrowserInv, LeasesCounted, Resident
      <3> QED BY <3>3, <3>6, <3>7, OwnedIsHad DEF At
    <2>2. shut => Resident = {}
      BY DEF BrowserInv, Shutting
    <2> QED BY <2>1, <2>2 DEF ShutdownIsFinal
  <1> QED BY <1>1, <1>2, <1>3, <1>4, BudgetFollows DEF BrowserSafety

\* Whatever callers, evictions, sweeps, stops, failures and cancellations do to the
\* browser manager: a lease keeps its browser, no process is orphaned, the budget
\* holds and a shutdown is final (openbot-computer/src/manager.rs).
THEOREM LeasedBrowsersStay ==
    ASSUME ManagerAssumption
    PROVE  BrowserSpec => []BrowserSafety
  <1>1. BrowserInit => BrowserInv
    BY BrowserInitHolds
  <1>2. BrowserInv /\ [BrowserNext]_browserVars => BrowserInv'
    <2>1. CASE BrowserInv /\ BrowserNext
      BY <2>1, BrowserNextKeeps
    <2>2. CASE BrowserInv /\ UNCHANGED browserVars
      <3>1. UNCHANGED <<live, touched, closed, lifecycle, task, running, shut>>
        BY <2>2 DEF browserVars
      <3>2. SamePlaces /\ task' \in [Tasks -> TaskRecords]
        BY <2>2, <3>1 DEF SamePlaces, BrowserInv, BrowserShapes
      <3>3. \A u \in Tasks : SameHands(u) /\ task'[u].pc = task[u].pc
        BY <3>1 DEF SameHands
      <3>4. \A s \in Scopes : live'[s] # Absent => live'[s].leases = Cardinality(Holders(s)')
        <4>1. \A s : Holders(s)' = Holders(s)
          BY <3>1 DEF Holders
        <4> QED BY <2>2, <3>1, <4>1 DEF BrowserInv, LeasesCounted
      <3> QED BY <2>2, <3>1, <3>2, <3>3, <3>4, HandsStay
    <2> QED BY <2>1, <2>2
  <1>3. BrowserInv => BrowserSafety
    BY BrowserSafetyFollows
  <1> QED BY <1>1, <1>2, <1>3, PTL DEF BrowserSpec

=============================================================================

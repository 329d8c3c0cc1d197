--------------------------- MODULE ComputerControl ---------------------------
(***************************************************************************)
(* The wheel of one computer tab (openbot-computer/src/control.rs,         *)
(* ControlService): the Bot holds it unless a person has an unexpired      *)
(* lease.  Viewers echo tickets that name the generation, the epoch and    *)
(* the expiry of the lease; the epoch is advanced by every change of the   *)
(* lease, so that input queued before the change is refused after it.  An  *)
(* exhausted epoch poisons the generation until the computer restarts.     *)
(*                                                                         *)
(* The operations on the state are functions of it; every call brings its  *)
(* own clock value, which need not be later than that of the call before.  *)
(* Labels and reasons are left out: a help request is its time.            *)
(***************************************************************************)
EXTENDS Naturals

CONSTANTS
    Actors,             \* who a verified AuthContext may name, with its generation
    Fields,             \* secret targets: a field of a document generation
    MaxEpoch,           \* u64::MAX
    HELP_REQUEST_TTL,
    MaxTime,            \* bound: clock values
    MaxGeneration,      \* bound: restarts
    None

VARIABLES
    control,  \* the ControlService
    tickets   \* the tickets issued so far, in the hands of viewers

vars == <<control, tickets>>

-----------------------------------------------------------------------------

Times == 0..MaxTime

Lease == [owner : Actors, generation : Nat, epoch : Nat, expires_at : Times]

Ticket == [generation : Nat, epoch : Nat, expires_at : Times]

ControlAssumption ==
    /\ MaxEpoch \in Nat /\ HELP_REQUEST_TTL \in Nat
    /\ MaxTime \in Nat /\ MaxGeneration \in Nat
    /\ None \notin Nat /\ None \notin Lease

New == [generation |-> 0, epoch |-> 0, poisoned |-> FALSE, holder |-> "bot",
        requested_at |-> None, secret |-> None, lease |-> None]

MutReleasedWithoutBump(c) == [c EXCEPT !.holder = "bot", !.requested_at = None, !.secret = None]

\* release_without_bump.
ReleasedWithoutBump(c) ==
    [c EXCEPT !.holder = "bot", !.requested_at = None, !.secret = None, !.lease = None]

Exhausted(c) == c.epoch = MaxEpoch

\* enter_poisoned: the generation refuses person and Bot.
Poisoned(c) == [ReleasedWithoutBump(c) EXCEPT !.poisoned = TRUE]

MutBumped(c, changed) == IF Exhausted(c) THEN Poisoned(c) ELSE [changed EXCEPT !.epoch = c.epoch,
    !.lease = IF @ = None THEN None ELSE [@ EXCEPT !.epoch = c.epoch]]

\* bump_epoch, then the change that was to be made; or poison instead of it.
Bumped(c, changed) == IF Exhausted(c) THEN Poisoned(c) ELSE [changed EXCEPT !.epoch = c.epoch + 1]

\* take: the lease is bound to the new epoch.
Taken(c, a, x) ==
    Bumped(c, [c EXCEPT !.holder = "human", !.requested_at = None, !.secret = None,
                 !.lease = [owner |-> a, generation |-> c.generation,
                            epoch |-> c.epoch + 1, expires_at |-> x]])

Released(c) == Bumped(c, ReleasedWithoutBump(c))

Expired(c, n) == c.lease # None /\ n >= c.lease.expires_at

\* expire_human_lease.
WithoutExpired(c, n) == IF Expired(c, n) THEN Released(c) ELSE c

\* expire_help_request: only when the age is greater than the bound.
HelpExpired(c, n) ==
    c.holder = "bot" /\ c.requested_at # None /\ n > c.requested_at + HELP_REQUEST_TTL

WithoutStaleHelp(c, n) == IF HelpExpired(c, n) THEN [c EXCEPT !.requested_at = None] ELSE c

\* document_navigated: the person keeps the wheel under a new epoch.
Navigated(c) ==
    Bumped(c, IF c.lease = None THEN c ELSE [c EXCEPT !.lease.epoch = c.epoch + 1])

\* computer_restarted: the generation advances and an exhausted epoch starts over.
Restarted(c, g) ==
    [ReleasedWithoutBump(c) EXCEPT !.generation = g, !.poisoned = FALSE,
       !.epoch = IF Exhausted(c) THEN 0 ELSE c.epoch + 1]

\* issue_human_input_ticket.
TicketOf(l) == [generation |-> l.generation, epoch |-> l.epoch, expires_at |-> l.expires_at]

\* The comparison of authorize_human_input, without the actor.
Valid(c, k) == c.lease # None /\ TicketOf(c.lease) = k

\* authorize_human_input succeeds.
Authorizes(c, a, k, n) ==
    /\ ~c.poisoned /\ ~Expired(c, n)
    /\ Valid(c, k) /\ c.lease.owner = a

-----------------------------------------------------------------------------

Init ==
    /\ control = New
    /\ tickets = {}

\* state: expired leases and asks end when somebody looks.
state(n) ==
    /\ control' = WithoutStaleHelp(WithoutExpired(control, n), n)
    /\ UNCHANGED tickets

request_help(n) ==
    /\ control' = [control EXCEPT !.requested_at = n]
    /\ UNCHANGED tickets

request_secret(f) ==
    /\ control' = [control EXCEPT !.secret = f]
    /\ UNCHANGED tickets

\* secret_supplied: the completed target must be the pending one.
secret_supplied(f) ==
    /\ control.secret = f
    /\ control' = [control EXCEPT !.secret = None]
    /\ UNCHANGED tickets

take(a, x, n) ==
    /\ ~control.poisoned /\ x > n
    /\ control' = Taken(control, a, x)
    /\ UNCHANGED tickets

release ==
    /\ ~control.poisoned
    /\ control' = Released(control)
    /\ UNCHANGED tickets

\* assert_bot_may_act: whatever it answers, an expired lease is gone.
assert_bot_may_act(n) ==
    /\ ~control.poisoned
    /\ control' = WithoutExpired(control, n)
    /\ UNCHANGED tickets

issue_human_input_ticket(n) ==
    /\ ~control.poisoned
    /\ control' = WithoutExpired(control, n)
    /\ tickets' = IF control.lease # None /\ ~Expired(control, n)
                  THEN tickets \cup {TicketOf(control.lease)} ELSE tickets

\* authorize_human_input, also for the receipt the engine consumes: it accepts
\* only what Authorizes allows, and ends an expired lease.
authorize_human_input(n) ==
    /\ ~control.poisoned
    /\ control' = WithoutExpired(control, n)
    /\ UNCHANGED tickets

document_navigated ==
    /\ ~control.poisoned
    /\ control' = Navigated(control)
    /\ UNCHANGED tickets

computer_restarted(g) ==
    /\ g > control.generation
    /\ control' = Restarted(control, g)
    /\ UNCHANGED tickets

Next ==
    \/ \E n \in Times :
        \/ state(n) \/ request_help(n) \/ assert_bot_may_act(n)
        \/ issue_human_input_ticket(n) \/ authorize_human_input(n)
        \/ \E a \in Actors, x \in Times : take(a, x, n)
    \/ \E f \in Fields : request_secret(f) \/ secret_supplied(f)
    \/ release \/ document_navigated
    \/ \E g \in 1..MaxGeneration : computer_restarted(g)

Spec == Init /\ [][Next]_vars

-----------------------------------------------------------------------------
(* Properties. *)

\* What the service and the viewers keep.
TypeOK ==
    /\ control \in [generation : 0..MaxGeneration, epoch : 0..MaxEpoch, poisoned : BOOLEAN,
                    holder : {"bot", "human"}, requested_at : Times \cup {None},
                    secret : Fields \cup {None}, lease : Lease \cup {None}]
    /\ tickets \subseteq Ticket

\* The wheel has one holder: a person exactly while there is a lease, under the
\* current generation and epoch; in a poisoned generation nobody has a lease.
OneHolder ==
    /\ (control.holder = "human") <=> (control.lease # None)
    /\ control.lease # None => /\ control.lease.generation = control.generation
                               /\ control.lease.epoch = control.epoch
    /\ control.poisoned => control.lease = None

\* A ticket that has become invalid stays so for ever: a later lease of the same
\* person, the expiry chosen again, or the epoch that starts over after a poisoned
\* generation never revive queued input (authorize_human_input).
StaleNeverRevives ==
    [][\A k \in tickets : ~Valid(control, k) => ~Valid(control', k)]_vars

\* Every handover is a fence: a step that ends, transfers, renews or navigates the
\* lease makes all tickets issued before it invalid.
HandoverFences ==
    [][control'.lease # control.lease => \A k \in tickets : ~Valid(control', k)]_vars

\* Whoever may act is decided by the clock of the call: at no time both the Bot may
\* act and a ticket authorizes a person (assert_bot_may_act, authorize_human_input).
NeverBoth ==
    \A n \in Times :
        (~control.poisoned /\ WithoutExpired(control, n).holder = "bot")
            => \A k \in tickets, a \in Actors : ~Authorizes(control, a, k, n)

\* What holds of the wheel at any time, and what no step may do to it.
ControlSafety == TypeOK /\ OneHolder /\ NeverBoth

ControlSteps == StaleNeverRevives /\ HandoverFences

=============================================================================

------------------------- MODULE RunExecutionProofs -------------------------
(***************************************************************************)
(* A run is executed at most once, and a failure before its execution is   *)
(* definite.                                                               *)
(*                                                                         *)
(* Only the relay whose acknowledgement delivered the dispatch row may     *)
(* activate a child.  The argument follows the right to execute: a claim   *)
(* under the current token (ClaimHeld), the permit it is exchanged for     *)
(* once, and the child the permit becomes (OnePermit).                     *)
(***************************************************************************)
EXTENDS RunRuntimeProofs

DispatchStep == {"offer", "acknowledge", "busy", "reject"}
PermitStep   == {"activate", "fail_activation"}

\* A relay between its claim of a dispatch and the settlement of the claim.
Dispatching(p, r) == relay[p].run = r /\ relay[p].step \in DispatchStep

\* A relay whose acknowledgement of the dispatch was committed.
Permit(p, r) == relay[p].run = r /\ relay[p].step \in PermitStep

Executed(p, r) == child[p][r].phase # "none"

\* The token a relay works under is still the run's.
Current(p, r) ==
    run[r].status = "running" /\ relay[p].lease.fencing = run[r].fencing

\* A relay works on a run that has begun, and is never ahead of it.
Overtaken ==
    \A p \in Replicas, r \in Runs :
        relay[p].run = r =>
            run[r].status # "absent" /\ relay[p].lease.fencing <= run[r].fencing

\* A current dispatching relay owns the lease, and its claim is the row's unless
\* the row was dead-lettered: nobody else can have delivered it.
ClaimHeld ==
    \A p \in Replicas, r \in Runs :
        Dispatching(p, r) /\ Current(p, r) =>
            /\ lease.owner = p
            /\ HoldsClaim(p, dispatch[r]) \/ dispatch[r].status = "dead_letter"

\* One acknowledgement, one permit, one child.
OnePermit ==
    \A r \in Runs : \A p \in Replicas :
        /\ Permit(p, r) \/ Executed(p, r) => dispatch[r].status = "delivered"
        /\ Permit(p, r) => ~Executed(p, r)
        /\ \A q \in Replicas :
            (Permit(p, r) \/ Executed(p, r)) /\ (Permit(q, r) \/ Executed(q, r)) => p = q

\* A run that failed before it started can no longer be started.
Definite ==
    \A r \in Runs :
        /\ run[r].code \in UnstartedCode =>
            run[r].status # "running" /\ \A p \in Replicas : ~Permit(p, r) /\ ~Executed(p, r)
        /\ run[r].status = "reconciliation_required" => dispatch[r].status = "delivered"

ExecutionInv == Overtaken /\ ClaimHeld /\ OnePermit /\ Definite

-----------------------------------------------------------------------------
(* What a step leaves alone. *)

\* The relay becomes idle, or stays on its claim without gaining a right.
RelayStays(p) ==
    \/ relay'[p] = IdleRelay
    \/ /\ relay'[p].run = relay[p].run
       /\ relay'[p].attempt = relay[p].attempt
       /\ relay'[p].lease = relay[p].lease
       /\ relay'[p].step \in DispatchStep => relay[p].step \in DispatchStep
       /\ relay'[p].step \in PermitStep => relay[p].step \in PermitStep

RunStays(r) ==
    /\ run'[r].status = run[r].status
    /\ run'[r].fencing = run[r].fencing
    /\ run'[r].code = run[r].code

DispatchStays(r) ==
    /\ dispatch'[r].status = dispatch[r].status
    /\ dispatch'[r].by = dispatch[r].by
    /\ dispatch'[r].attempt = dispatch[r].attempt

ChildStays(p, r) == child'[p][r].phase = "none" <=> child[p][r].phase = "none"

RelaysStay    == \A p \in Replicas : RelayStays(p)
RunsStay      == \A r \in Runs : RunStays(r)
DispatchesStay == \A r \in Runs : DispatchStays(r)
ChildrenStay  == \A p \in Replicas, r \in Runs : ChildStays(p, r)

\* Nothing the invariant speaks of moves, except that a right may be given up.
Calm == RelaysStay /\ RunsStay /\ DispatchesStay /\ ChildrenStay /\ lease'.owner = lease.owner

LEMMA IdleHasNoRight ==
    ASSUME NEW p \in Replicas, relay'[p] = IdleRelay, NEW r \in Runs
    PROVE  relay'[p].run # r /\ ~Dispatching(p, r)' /\ ~Permit(p, r)'
  BY RuntimeAssumption DEF IdleRelay, Dispatching, Permit

LEMMA RightsStay ==
    ASSUME NEW p \in Replicas, NEW r \in Runs, RelayStays(p)
    PROVE  /\ Dispatching(p, r)' => Dispatching(p, r)
           /\ Permit(p, r)' => Permit(p, r)
           /\ relay'[p].run = r => /\ relay[p].run = r
                                   /\ relay'[p].lease = relay[p].lease
                                   /\ relay'[p].attempt = relay[p].attempt
<1>1. CASE relay'[p] = IdleRelay
  BY <1>1, IdleHasNoRight
<1>2. CASE relay'[p] # IdleRelay
  BY <1>2 DEF RelayStays, Dispatching, Permit
<1> QED
  BY <1>1, <1>2

LEMMA CalmKeeps ==
    ASSUME ExecutionInv, Calm
    PROVE  ExecutionInv'
<1>1. ASSUME NEW p \in Replicas, NEW r \in Runs
      PROVE  /\ Dispatching(p, r)' => Dispatching(p, r)
             /\ Permit(p, r)' => Permit(p, r)
             /\ relay'[p].run = r => /\ relay[p].run = r
                                     /\ relay'[p].lease = relay[p].lease
                                     /\ relay'[p].attempt = relay[p].attempt
             /\ Executed(p, r)' <=> Executed(p, r)
  BY RightsStay DEF Calm, RelaysStay, ChildrenStay, ChildStays, Executed
<1>2. ASSUME NEW r \in Runs
      PROVE  RunStays(r) /\ DispatchStays(r) /\ lease'.owner = lease.owner
  BY DEF Calm, RunsStay, DispatchesStay
<1>3. Overtaken'
  BY <1>1, <1>2 DEF ExecutionInv, Overtaken, RunStays
<1>4. ClaimHeld'
  <2> SUFFICES ASSUME NEW p \in Replicas, NEW r \in Runs, Dispatching(p, r)', Current(p, r)'
               PROVE  /\ lease'.owner = p
                      /\ HoldsClaim(p, dispatch[r])' \/ dispatch'[r].status = "dead_letter"
    BY DEF ClaimHeld
  <2>1. Dispatching(p, r) /\ Current(p, r) /\ relay'[p].attempt = relay[p].attempt
    BY <1>1, <1>2 DEF Dispatching, Current, RunStays
  <2>2. lease.owner = p /\ (HoldsClaim(p, dispatch[r]) \/ dispatch[r].status = "dead_letter")
    BY <2>1 DEF ExecutionInv, ClaimHeld
  <2> QED
    BY <1>2, <2>1, <2>2 DEF HoldsClaim, DispatchStays
<1>5. OnePermit'
  BY <1>1, <1>2 DEF ExecutionInv, OnePermit, DispatchStays
<1>6. Definite'
  BY <1>1, <1>2 DEF ExecutionInv, Definite, RunStays, DispatchStays
<1> QED
  BY <1>3, <1>4, <1>5, <1>6 DEF ExecutionInv

\* Every other run of the thread is out of the foreground.
LEMMA OthersDoNotRun ==
    ASSUME Promise!LedgerInv, NEW r \in Runs, run[r].status = "running", NEW q \in Runs, q # r
    PROVE  run[q].status # "running"
  BY DEF Promise!LedgerInv, Promise!Exclusive, Promise!Foreground

\* A terminal of r, whoever writes it.
LEMMA TerminalKeeps ==
    ASSUME TypeOK, TypeOK', Promise!LedgerInv, ExecutionInv, NEW r \in Runs,
           run[r].status = "running", run'[r].status \in TerminalStatus,
           run'[r].fencing >= run[r].fencing,
           \A q \in Runs \ {r} : RunStays(q) /\ DispatchStays(q),
           RelaysStay, ChildrenStay,
           dispatch[r].status = "delivered" => dispatch'[r].status = "delivered",
           run'[r].code \in UnstartedCode =>
             \A p \in Replicas : ~Permit(p, r)' /\ ~Executed(p, r)',
           run'[r].status = "reconciliation_required" => dispatch'[r].status = "delivered"
    PROVE  ExecutionInv'
<1>1. ASSUME NEW p \in Replicas, NEW q \in Runs
      PROVE  /\ Permit(p, q)' => Permit(p, q)
             /\ relay'[p].run = q => relay[p].run = q /\ relay'[p].lease = relay[p].lease
             /\ Executed(p, q)' <=> Executed(p, q)
  BY RightsStay DEF RelaysStay, ChildrenStay, ChildStays, Executed
<1>2. \A q \in Runs : run'[q].status # "running"
  BY OthersDoNotRun DEF RunStays, TerminalStatus
<1>3. /\ \A q \in Runs : run[q].fencing \in Nat /\ run'[q].fencing \in Nat
      /\ \A p \in Replicas : relay[p].lease.fencing \in Nat
  BY DEF TypeOK, DatabaseTyped, RunRow, RelayTyped, RelayState, Lease
<1>4. Overtaken'
  <2> SUFFICES ASSUME NEW p \in Replicas, NEW q \in Runs, relay'[p].run = q
               PROVE  run'[q].status # "absent" /\ relay'[p].lease.fencing <= run'[q].fencing
    BY DEF Overtaken
  <2>1. run[q].status # "absent" /\ relay'[p].lease.fencing <= run[q].fencing
    BY <1>1 DEF ExecutionInv, Overtaken
  <2>2. run'[q].status # "absent" /\ run[q].fencing <= run'[q].fencing
    BY <1>3, <2>1 DEF RunStays, TerminalStatus
  <2> QED
    BY <1>1, <1>3, <2>1, <2>2
<1>5. ClaimHeld'
  BY <1>2 DEF ClaimHeld, Current
<1>6. \A q \in Runs : dispatch[q].status = "delivered" => dispatch'[q].status = "delivered"
  BY DEF DispatchStays
<1>7. OnePermit'
  BY <1>1, <1>6 DEF ExecutionInv, OnePermit
<1>8. Definite'
  BY <1>1, <1>2, <1>6 DEF ExecutionInv, Definite, RunStays
<1> QED
  BY <1>4, <1>5, <1>7, <1>8 DEF ExecutionInv

\* The claim of a cancellation: the claimant gains no right to execute, and a
\* takeover ends the rights of relays under the old token.
LEMMA ClaimCancellationKeeps ==
    ASSUME TypeOK, TypeOK', Promise!LedgerInv, ExecutionInv, NEW p \in Replicas, NEW r \in Runs,
           run[r].status = "running",
           run'[r].status = "running", run'[r].code = run[r].code,
           run'[r].fencing >= run[r].fencing,
           run'[r].fencing = run[r].fencing => lease'.owner = lease.owner,
           \A q \in Runs \ {r} : RunStays(q),
           \A q \in Replicas \ {p} : RelayStays(q),
           \/ RelayStays(p)
           \/ /\ relay'[p].run = r /\ relay'[p].lease.fencing = run'[r].fencing
              /\ relay'[p].step \notin DispatchStep \cup PermitStep,
           DispatchesStay, ChildrenStay
    PROVE  ExecutionInv'
<1>1. ASSUME NEW q \in Replicas, NEW s \in Runs
      PROVE  /\ Dispatching(q, s)' => /\ Dispatching(q, s)
                                      /\ relay'[q].lease = relay[q].lease
                                      /\ relay'[q].attempt = relay[q].attempt
             /\ Permit(q, s)' => Permit(q, s)
             /\ Executed(q, s)' <=> Executed(q, s)
  <2>1. Executed(q, s)' <=> Executed(q, s)
    BY DEF ChildrenStay, ChildStays, Executed
  <2>2. CASE RelayStays(q)
    BY <2>1, <2>2, RightsStay DEF Dispatching
  <2>3. CASE ~RelayStays(q)
    BY <2>1, <2>3 DEF Dispatching, Permit
  <2> QED
    BY <2>2, <2>3
<1>2. /\ \A q \in Runs : run[q].fencing \in Nat /\ run'[q].fencing \in Nat
      /\ \A q \in Replicas : relay[q].lease.fencing \in Nat
  BY DEF TypeOK, DatabaseTyped, RunRow, RelayTyped, RelayState, Lease
<1>3. \A q \in Runs : /\ run'[q].status = run[q].status /\ run'[q].code = run[q].code
                      /\ run[q].fencing <= run'[q].fencing
                      /\ DispatchStays(q)
  BY <1>2 DEF RunStays, DispatchesStay
<1>4. Overtaken'
  <2> SUFFICES ASSUME NEW q \in Replicas, NEW s \in Runs, relay'[q].run = s
               PROVE  run'[s].status # "absent" /\ relay'[q].lease.fencing <= run'[s].fencing
    BY DEF Overtaken
  <2>1. CASE RelayStays(q)
    <3>1. relay[q].run = s /\ relay'[q].lease = relay[q].lease
      BY <2>1, RightsStay
    <3>2. run[s].status # "absent" /\ relay[q].lease.fencing <= run[s].fencing
      BY <3>1 DEF ExecutionInv, Overtaken
    <3> QED
      BY <1>2, <1>3, <3>1, <3>2
  <2>2. CASE ~RelayStays(q)
    <3>1. q = p /\ s = r /\ relay'[q].lease.fencing = run'[s].fencing
      BY <2>2
    <3> QED
      BY <1>2, <3>1
  <2> QED
    BY <2>1, <2>2
<1>5. ClaimHeld'
  <2> SUFFICES ASSUME NEW q \in Replicas, NEW s \in Runs, Dispatching(q, s)', Current(q, s)'
               PROVE  /\ lease'.owner = q
                      /\ HoldsClaim(q, dispatch[s])' \/ dispatch'[s].status = "dead_letter"
    BY DEF ClaimHeld
  <2>1. s = r
    BY <1>3, OthersDoNotRun DEF Current
  <2>2. /\ Dispatching(q, r)
        /\ relay'[q].lease = relay[q].lease
        /\ relay'[q].attempt = relay[q].attempt
    BY <1>1, <2>1
  <2>3. relay[q].lease.fencing <= run[r].fencing /\ relay[q].lease.fencing = run'[r].fencing
    BY <2>1, <2>2 DEF ExecutionInv, Overtaken, Dispatching, Current
  <2>4. run'[r].fencing = run[r].fencing /\ relay[q].lease.fencing = run[r].fencing
    BY <1>2, <1>3, <2>3
  <2>5. Current(q, r)
    BY <2>4 DEF Current
  <2>6. lease.owner = q /\ (HoldsClaim(q, dispatch[r]) \/ dispatch[r].status = "dead_letter")
    BY <2>2, <2>5 DEF ExecutionInv, ClaimHeld
  <2> QED
    BY <1>3, <2>1, <2>2, <2>4, <2>6 DEF HoldsClaim, DispatchStays
<1>6. OnePermit'
  BY <1>1, <1>3 DEF ExecutionInv, OnePermit, DispatchStays
<1>7. Definite'
  BY <1>1, <1>3 DEF ExecutionInv, Definite, DispatchStays
<1> QED
  BY <1>4, <1>5, <1>6, <1>7 DEF ExecutionInv

\* The claim of a dispatch: no other relay keeps a current claim, since the
\* lease now is the claimant's.
LEMMA ClaimDispatchKeeps ==
    ASSUME TypeOK, TypeOK', Promise!LedgerInv, ExecutionInv, NEW p \in Replicas, NEW r \in Runs,
           run[r].status = "running",
           run'[r].status = "running", run'[r].code = run[r].code,
           run'[r].fencing >= run[r].fencing,
           run'[r].fencing = run[r].fencing => lease.owner = p,
           lease'.owner = p,
           \A q \in Runs \ {r} : RunStays(q) /\ DispatchStays(q),
           dispatch[r].status # "delivered",
           dispatch'[r].status = "delivering", dispatch'[r].by = p,
           \A q \in Replicas \ {p} : relay'[q] = relay[q],
           \/ relay'[p] = relay[p] /\ relay[p].step = "idle"
           \/ /\ relay'[p].run = r /\ relay'[p].lease.fencing = run'[r].fencing
              /\ relay'[p].step = "offer" /\ relay'[p].attempt = dispatch'[r].attempt,
           ChildrenStay
    PROVE  ExecutionInv'
<1>1. ASSUME NEW q \in Replicas, NEW s \in Runs
      PROVE  /\ Permit(q, s)' => Permit(q, s)
             /\ Executed(q, s)' <=> Executed(q, s)
  <2>1. Executed(q, s)' <=> Executed(q, s)
    BY DEF ChildrenStay, ChildStays, Executed
  <2>2. CASE q = p
    BY <2>1, <2>2 DEF Permit, PermitStep
  <2>3. CASE q # p
    BY <2>1, <2>3 DEF Permit
  <2> QED
    BY <2>2, <2>3
<1>2. /\ \A q \in Runs : run[q].fencing \in Nat /\ run'[q].fencing \in Nat
      /\ \A q \in Replicas : relay[q].lease.fencing \in Nat
  BY DEF TypeOK, DatabaseTyped, RunRow, RelayTyped, RelayState, Lease
<1>3. \A q \in Runs : /\ run'[q].status = run[q].status /\ run'[q].code = run[q].code
                      /\ run[q].fencing <= run'[q].fencing
  BY <1>2 DEF RunStays
<1>4. Overtaken'
  <2> SUFFICES ASSUME NEW q \in Replicas, NEW s \in Runs, relay'[q].run = s
               PROVE  run'[s].status # "absent" /\ relay'[q].lease.fencing <= run'[s].fencing
    BY DEF Overtaken
  <2>1. CASE relay'[q] = relay[q]
    <3>1. run[s].status # "absent" /\ relay[q].lease.fencing <= run[s].fencing
      BY <2>1 DEF ExecutionInv, Overtaken
    <3> QED
      BY <1>2, <1>3, <2>1, <3>1
  <2>2. CASE relay'[q] # relay[q]
    <3>1. s = r /\ relay'[q].lease.fencing = run'[s].fencing
      BY <2>2
    <3> QED
      BY <1>2, <3>1
  <2> QED
    BY <2>1, <2>2
<1>5. ClaimHeld'
  <2> SUFFICES ASSUME NEW q \in Replicas, NEW s \in Runs, Dispatching(q, s)', Current(q, s)'
               PROVE  /\ lease'.owner = q
                      /\ HoldsClaim(q, dispatch[s])' \/ dispatch'[s].status = "dead_letter"
    BY DEF ClaimHeld
  <2>1. s = r
    BY <1>3, OthersDoNotRun DEF Current
  <2>2. CASE q = p
    BY <2>1, <2>2 DEF HoldsClaim, Dispatching, DispatchStep
  <2>3. CASE q # p
    <3>1. Dispatching(q, r) /\ relay'[q] = relay[q]
      BY <2>1, <2>3 DEF Dispatching
    <3>2. relay[q].lease.fencing <= run[r].fencing /\ relay[q].lease.fencing = run'[r].fencing
      BY <2>1, <3>1 DEF ExecutionInv, Overtaken, Dispatching, Current
    <3>3. run'[r].fencing = run[r].fencing /\ relay[q].lease.fencing = run[r].fencing
      BY <1>2, <1>3, <3>2
    <3>4. lease.owner = q
      BY <3>1, <3>3 DEF ExecutionInv, ClaimHeld, Current
    <3> QED
      BY <2>3, <3>3, <3>4
  <2> QED
    BY <2>2, <2>3
<1>6. \A q \in Runs : dispatch[q].status = "delivered" => dispatch'[q].status = "delivered"
  BY DEF DispatchStays
<1>7. OnePermit'
  BY <1>1, <1>6 DEF ExecutionInv, OnePermit
<1>8. Definite'
  BY <1>1, <1>3, <1>6 DEF ExecutionInv, Definite
<1> QED
  BY <1>4, <1>5, <1>7, <1>8 DEF ExecutionInv

\* A dispatch row is settled, dead-lettered or returned to pending while nobody
\* has the permit, and no other relay has a current claim on it.
LEMMA DispatchMoves ==
    ASSUME TypeOK, ExecutionInv, NEW r \in Runs,
           RunsStay, RelaysStay, ChildrenStay, lease'.owner = lease.owner,
           \A q \in Runs \ {r} : DispatchStays(q),
           dispatch[r].status = "delivered" => dispatch'[r].status = "delivered",
           \/ dispatch'[r].status = "dead_letter"
           \/ \A q \in Replicas : ~(Dispatching(q, r)' /\ Current(q, r)')
    PROVE  ExecutionInv'
<1>1. ASSUME NEW p \in Replicas, NEW q \in Runs
      PROVE  /\ Dispatching(p, q)' => Dispatching(p, q)
             /\ Permit(p, q)' => Permit(p, q)
             /\ relay'[p].run = q => /\ relay[p].run = q
                                     /\ relay'[p].lease = relay[p].lease
                                     /\ relay'[p].attempt = relay[p].attempt
             /\ Executed(p, q)' <=> Executed(p, q)
  BY RightsStay DEF RelaysStay, ChildrenStay, ChildStays, Executed
<1>2. \A q \in Runs : RunStays(q)
  BY DEF RunsStay
<1>3. Overtaken'
  BY <1>1, <1>2 DEF ExecutionInv, Overtaken, RunStays
<1>4. ClaimHeld'
  <2> SUFFICES ASSUME NEW p \in Replicas, NEW q \in Runs, Dispatching(p, q)', Current(p, q)'
               PROVE  /\ lease'.owner = p
                      /\ HoldsClaim(p, dispatch[q])' \/ dispatch'[q].status = "dead_letter"
    BY DEF ClaimHeld
  <2>1. Dispatching(p, q) /\ Current(p, q) /\ relay'[p].attempt = relay[p].attempt
    BY <1>1, <1>2 DEF Dispatching, Current, RunStays
  <2>2. lease.owner = p /\ (HoldsClaim(p, dispatch[q]) \/ dispatch[q].status = "dead_letter")
    BY <2>1 DEF ExecutionInv, ClaimHeld
  <2>3. CASE q = r
    BY <2>2, <2>3
  <2>4. CASE q # r
    BY <2>1, <2>2, <2>4 DEF HoldsClaim, DispatchStays
  <2> QED
    BY <2>3, <2>4
<1>5. \A q \in Runs : dispatch[q].status = "delivered" => dispatch'[q].status = "delivered"
  BY DEF DispatchStays
<1>6. OnePermit'
  BY <1>1, <1>5 DEF ExecutionInv, OnePermit
<1>7. Definite'
  BY <1>1, <1>2, <1>5 DEF ExecutionInv, Definite, RunStays
<1> QED
  BY <1>3, <1>4, <1>6, <1>7 DEF ExecutionInv

\* The acknowledgement exchanges the claim for the permit.
LEMMA AcknowledgeKeeps ==
    ASSUME TypeOK, ExecutionInv, NEW p \in Replicas, NEW r \in Runs,
           Dispatching(p, r), Current(p, r), HoldsClaim(p, dispatch[r]),
           dispatch'[r].status = "delivered",
           \A q \in Runs \ {r} : DispatchStays(q),
           \A q \in Replicas \ {p} : relay'[q] = relay[q],
           relay'[p].run = r, relay'[p].lease.fencing = run[r].fencing,
           relay'[p].step \notin DispatchStep,
           RunsStay, ChildrenStay, lease'.owner = lease.owner
    PROVE  ExecutionInv'
<1>1. \A q \in Replicas, s \in Runs : Executed(q, s)' <=> Executed(q, s)
  BY DEF ChildrenStay, ChildStays, Executed
<1>2. \A q \in Runs : RunStays(q)
  BY DEF RunsStay
<1>3. dispatch[r].status = "delivering" /\ dispatch[r].by = p /\ run[r].status = "running"
  BY DEF HoldsClaim, Current
<1>4. \A q \in Replicas : ~Permit(q, r) /\ ~Executed(q, r)
  BY <1>3 DEF ExecutionInv, OnePermit
<1>5. \A q \in Replicas, s \in Runs : Permit(q, s)' => Permit(q, s) \/ (q = p /\ s = r)
  BY DEF Permit
<1>6. Overtaken'
  <2> SUFFICES ASSUME NEW q \in Replicas, NEW s \in Runs, relay'[q].run = s
               PROVE  run'[s].status # "absent" /\ relay'[q].lease.fencing <= run'[s].fencing
    BY DEF Overtaken
  <2>1. CASE q = p
    <3>1. s = r /\ relay'[q].lease.fencing = run'[s].fencing /\ run[r].fencing \in Nat
      BY <1>2, <2>1 DEF RunStays, TypeOK, DatabaseTyped, RunRow
    <3> QED
      BY <1>2, <1>3, <3>1 DEF RunStays
  <2>2. CASE q # p
    BY <1>2, <2>2 DEF ExecutionInv, Overtaken, RunStays
  <2> QED
    BY <2>1, <2>2
<1>7. ClaimHeld'
  <2> SUFFICES ASSUME NEW q \in Replicas, NEW s \in Runs, Dispatching(q, s)', Current(q, s)'
               PROVE  /\ lease'.owner = q
                      /\ HoldsClaim(q, dispatch[s])' \/ dispatch'[s].status = "dead_letter"
    BY DEF ClaimHeld
  <2>1. q # p /\ relay'[q] = relay[q]
    BY DEF Dispatching
  <2>2. Dispatching(q, s) /\ Current(q, s)
    BY <1>2, <2>1 DEF Dispatching, Current, RunStays
  <2>3. lease.owner = q /\ (HoldsClaim(q, dispatch[s]) \/ dispatch[s].status = "dead_letter")
    BY <2>2 DEF ExecutionInv, ClaimHeld
  <2>4. s # r
    BY <1>3, <2>1, <2>3 DEF HoldsClaim
  <2> QED
    BY <2>1, <2>3, <2>4 DEF HoldsClaim, DispatchStays
<1>8. \A q \in Runs : dispatch[q].status = "delivered" => dispatch'[q].status = "delivered"
  BY DEF DispatchStays
<1>9. OnePermit'
  <2> SUFFICES ASSUME NEW s \in Runs, NEW q \in Replicas
               PROVE  /\ Permit(q, s)' \/ Executed(q, s)' => dispatch'[s].status = "delivered"
                      /\ Permit(q, s)' => ~Executed(q, s)'
                      /\ \A t \in Replicas :
                          (Permit(q, s)' \/ Executed(q, s)') /\ (Permit(t, s)' \/ Executed(t, s)')
                          => q = t
    BY DEF OnePermit
  <2>1. CASE s = r
    BY <1>1, <1>4, <1>5, <2>1
  <2>2. CASE s # r
    BY <1>1, <1>5, <1>8, <2>2 DEF ExecutionInv, OnePermit
  <2> QED
    BY <2>1, <2>2
<1>10. Definite'
  BY <1>1, <1>2, <1>3, <1>5, <1>8 DEF ExecutionInv, Definite, RunStays
<1> QED
  BY <1>6, <1>7, <1>9, <1>10 DEF ExecutionInv

\* The permit becomes the child.
LEMMA ActivateKeeps ==
    ASSUME TypeOK, ExecutionInv, NEW p \in Replicas, NEW r \in Runs, Permit(p, r),
           relay' = [relay EXCEPT ![p] = IdleRelay],
           \A q \in Replicas, s \in Runs : <<q, s>> # <<p, r>> => ChildStays(q, s),
           RunsStay, DispatchesStay, lease'.owner = lease.owner
    PROVE  ExecutionInv'
<1>1. relay'[p] = IdleRelay /\ \A q \in Replicas \ {p} : relay'[q] = relay[q]
  BY DEF TypeOK, RelayTyped
<1>2. \A q \in Replicas : RelayStays(q)
  BY <1>1 DEF RelayStays
<1>3. ASSUME NEW q \in Replicas, NEW s \in Runs
      PROVE  /\ Dispatching(q, s)' => Dispatching(q, s)
             /\ Permit(q, s)' => Permit(q, s) /\ q # p
             /\ relay'[q].run = s => relay[q].run = s /\ relay'[q] = relay[q]
             /\ Executed(q, s)' => Executed(q, s) \/ (q = p /\ s = r)
  <2>1. Executed(q, s)' => Executed(q, s) \/ (q = p /\ s = r)
    BY DEF ChildStays, Executed
  <2> QED
    BY <1>1, <1>2, <2>1, RightsStay, IdleHasNoRight
<1>4. \A q \in Runs : RunStays(q) /\ DispatchStays(q)
  BY DEF RunsStay, DispatchesStay
<1>5. Overtaken'
  BY <1>3, <1>4 DEF ExecutionInv, Overtaken, RunStays
<1>6. ClaimHeld'
  <2> SUFFICES ASSUME NEW q \in Replicas, NEW s \in Runs, Dispatching(q, s)', Current(q, s)'
               PROVE  /\ lease'.owner = q
                      /\ HoldsClaim(q, dispatch[s])' \/ dispatch'[s].status = "dead_letter"
    BY DEF ClaimHeld
  <2>1. Dispatching(q, s) /\ Current(q, s) /\ relay'[q] = relay[q]
    BY <1>3, <1>4 DEF Dispatching, Current, RunStays
  <2>2. lease.owner = q /\ (HoldsClaim(q, dispatch[s]) \/ dispatch[s].status = "dead_letter")
    BY <2>1 DEF ExecutionInv, ClaimHeld
  <2> QED
    BY <1>4, <2>1, <2>2 DEF HoldsClaim, DispatchStays
<1>7. OnePermit'
  <2> SUFFICES ASSUME NEW s \in Runs, NEW q \in Replicas
               PROVE  /\ Permit(q, s)' \/ Executed(q, s)' => dispatch'[s].status = "delivered"
                      /\ Permit(q, s)' => ~Executed(q, s)'
                      /\ \A t \in Replicas :
                          (Permit(q, s)' \/ Executed(q, s)') /\ (Permit(t, s)' \/ Executed(t, s)')
                          => q = t
    BY DEF OnePermit
  <2>1. \A t \in Replicas : Permit(t, s)' \/ Executed(t, s)' => Permit(t, s) \/ Executed(t, s)
    BY <1>3
  <2>2. Permit(q, s)' => ~Executed(q, s)'
    BY <1>3 DEF ExecutionInv, OnePermit
  <2> QED
    BY <1>4, <2>1, <2>2 DEF ExecutionInv, OnePermit, DispatchStays
<1>8. Definite'
  <2>1. \A t \in Replicas, s \in Runs :
          Permit(t, s)' \/ Executed(t, s)' => Permit(t, s) \/ Executed(t, s)
    BY <1>3
  <2> QED
    BY <1>4, <2>1 DEF ExecutionInv, Definite, RunStays, DispatchStays
<1> QED
  BY <1>5, <1>6, <1>7, <1>8 DEF ExecutionInv

\* A begun run has no past: nobody works on it and nobody executed it.
LEMMA BeginKeeps ==
    ASSUME RefinementInv, RefinementInv', ExecutionInv, NEW p \in Replicas, NEW r \in Runs,
           BeginRun(p, r)
    PROVE  ExecutionInv'
<1>1. run[r].status = "absent" /\ dispatch[r].status = "absent"
  BY DEF BeginRun, RefinementInv, Unbegun
<1>2. /\ run \in [Runs -> RunRow] /\ dispatch \in [Runs -> Outbox]
  BY DEF RefinementInv, TypeOK, DatabaseTyped
<1>3. /\ run'[r].status = "running" /\ run'[r].code = "none"
      /\ dispatch'[r].status = "pending"
      /\ \A q \in Runs \ {r} : run'[q] = run[q] /\ dispatch'[q] = dispatch[q]
      /\ UNCHANGED <<relay, child>>
  BY <1>2 DEF BeginRun, process, PendingRow, NoRow
<1>4. \A q \in Runs \ {r} : run[q].status # "running"
  BY DEF BeginRun, blocks_foreground_slot
<1>5. \A q \in Replicas : relay[q].run # r /\ ~Executed(q, r)
  BY <1>1 DEF ExecutionInv, Overtaken, OnePermit
<1>6. Overtaken'
  BY <1>3, <1>5 DEF ExecutionInv, Overtaken
<1>7. ClaimHeld'
  BY <1>3, <1>4, <1>5 DEF ClaimHeld, Current, Dispatching
<1>8. OnePermit'
  BY <1>3, <1>5 DEF ExecutionInv, OnePermit, Permit, Executed
<1>9. Definite'
  BY <1>3, <1>5 DEF ExecutionInv, Definite, Permit, Executed, UnstartedCode
<1> QED
  BY <1>6, <1>7, <1>8, <1>9 DEF ExecutionInv

-----------------------------------------------------------------------------
(* The actions. *)

LEMMA SameStays ==
    /\ UNCHANGED relay => RelaysStay
    /\ UNCHANGED run => RunsStay
    /\ UNCHANGED dispatch => DispatchesStay
    /\ UNCHANGED child => ChildrenStay
  BY DEF RelaysStay, RelayStays, RunsStay, RunStays, DispatchesStay, DispatchStays, ChildrenStay,
     ChildStays

LEMMA GoIdleStays ==
    ASSUME TypeOK, NEW p \in Replicas, GoIdle(p)
    PROVE  RelaysStay /\ relay'[p] = IdleRelay /\ \A q \in Replicas \ {p} : relay'[q] = relay[q]
  BY DEF TypeOK, RelayTyped, GoIdle, RelaysStay, RelayStays

LEMMA GoToFields ==
    ASSUME TypeOK, NEW p \in Replicas, NEW step, GoTo(p, step)
    PROVE  /\ relay'[p].step = step
           /\ relay'[p].run = relay[p].run
           /\ relay'[p].attempt = relay[p].attempt
           /\ relay'[p].lease = relay[p].lease
           /\ \A q \in Replicas \ {p} : relay'[q] = relay[q]
<1>1. relay[p] \in RelayState
  BY DEF TypeOK, RelayTyped
<1> QED
  BY <1>1 DEF TypeOK, RelayTyped, GoTo, RelayState

LEMMA GoToStays ==
    ASSUME TypeOK, NEW p \in Replicas, NEW step, GoTo(p, step),
           step \in DispatchStep => relay[p].step \in DispatchStep,
           step \in PermitStep => relay[p].step \in PermitStep
    PROVE  RelaysStay
  BY GoToFields DEF RelaysStay, RelayStays

\* A child keeps being one, whatever it does.
LEMMA SetChildStays ==
    ASSUME TypeOK, NEW p \in Replicas, NEW r \in Runs, NEW c, SetChild(p, r, c),
           c.phase = "none" <=> child[p][r].phase = "none"
    PROVE  ChildrenStay
<1>1. /\ child'[p][r] = c
      /\ \A q \in Replicas, s \in Runs : <<q, s>> # <<p, r>> => child'[q][s] = child[q][s]
  BY DEF SetChild, TypeOK, ChildTyped
<1> QED
  BY <1>1 DEF ChildrenStay, ChildStays

LEMMA SignalStays ==
    ASSUME TypeOK, NEW p \in Replicas, NEW r \in Runs, Signal(p, r)
    PROVE  ChildrenStay
<1>1. child[p][r] \in ChildState
  BY DEF TypeOK, ChildTyped
<1> DEFINE c == [child[p][r] EXCEPT !.cancelled = (@ \/ child[p][r].phase \in LivePhase)]
<1>2. c.phase = child[p][r].phase
  BY <1>1 DEF ChildState
<1>3. /\ child'[p][r] = c
      /\ \A q \in Replicas, s \in Runs : <<q, s>> # <<p, r>> => child'[q][s] = child[q][s]
  BY DEF Signal, TypeOK, ChildTyped
<1> HIDE DEF c
<1> QED
  BY <1>2, <1>3 DEF ChildrenStay, ChildStays

\* Handler steps outside of a transaction, and the child-signalled fact.
LEMMA QuietRelayKeeps ==
    ASSUME TypeOK, ExecutionInv, NEW p \in Replicas,
           revoke(p) \/ mark_cancellation_signalled(p) \/ offer(p) \/ withdraw(p)
    PROVE  ExecutionInv'
<1>1. relay[p].run \in Runs
  BY DEF TypeOK, RelayTyped, revoke, mark_cancellation_signalled, offer, withdraw
<1>2. UNCHANGED <<run, dispatch, lease>>
  BY DEF revoke, mark_cancellation_signalled, offer, withdraw, database
<1>3. RelaysStay
  <2>1. CASE revoke(p)
    BY <2>1, GoToStays DEF revoke, DispatchStep, PermitStep
  <2>2. CASE mark_cancellation_signalled(p)
    BY <2>2, GoIdleStays DEF mark_cancellation_signalled
  <2>3. CASE offer(p)
    <3>1. GoTo(p, "reject") \/ GoTo(p, "acknowledge") \/ GoTo(p, "busy")
      BY <2>3 DEF offer
    <3>2. relay[p].step \in DispatchStep
      BY <2>3 DEF offer, DispatchStep
    <3> QED
      BY <3>1, <3>2, GoToStays DEF PermitStep
  <2>4. CASE withdraw(p)
    BY <2>4, GoIdleStays DEF withdraw
  <2> QED
    BY <2>1, <2>2, <2>3, <2>4
<1>4. ChildrenStay
  <2>1. UNCHANGED child \/ Signal(p, relay[p].run)
    BY DEF revoke, mark_cancellation_signalled, offer, withdraw
  <2> QED
    BY <1>1, <2>1, SignalStays, SameStays
<1> QED
  BY <1>2, <1>3, <1>4, SameStays, CalmKeeps DEF Calm

LEMMA ClaimsKeep ==
    ASSUME RefinementInv, RefinementInv', Promise!Onward, ExecutionInv,
           NEW p \in Replicas, NEW r \in Runs,
           claim_cancellation(p, r) \/ claim_dispatch(p, r)
    PROVE  ExecutionInv'
<1>1. TypeOK /\ TypeOK' /\ Promise!LedgerInv /\ Unbegun
  BY DEF RefinementInv
<1>2. /\ run \in [Runs -> RunRow] /\ dispatch \in [Runs -> Outbox] /\ lease.fencing \in Nat
      /\ run[r] \in RunRow /\ dispatch[r] \in Outbox
      /\ relay \in [Replicas -> RelayState]
  BY <1>1 DEF TypeOK, DatabaseTyped, LeaseRow, RelayTyped
<1>3. UNCHANGED child /\ relay[p].step = "idle"
  BY DEF claim_cancellation, claim_dispatch, RelayIdle
<1>4. ASSUME NEW early \in BOOLEAN, ClaimVerdict(r, early) = "claimed", ClaimLease(p, r, early),
             LeaseReachable(p, early), Selectable(p, cancel[r]) \/ Selectable(p, dispatch[r])
      PROVE  /\ run[r].status = "running" /\ run'[r].status = "running"
             /\ run'[r].code = run[r].code
             /\ run'[r].fencing = ClaimToken(early)
             /\ run'[r].fencing >= run[r].fencing
             /\ run'[r].fencing = run[r].fencing => lease.owner = p
             /\ lease'.owner = p
             /\ \A q \in Runs \ {r} : RunStays(q)
  <2>1. run[r].fencing = lease.fencing /\ run[r].status \notin TerminalStatus
    BY <1>4 DEF ClaimVerdict, is_terminal_status
  <2>2. run[r].status # "absent"
    BY <1>1, <1>4 DEF Selectable, Unbegun
  <2>3. run[r].status = "running"
    BY <1>2, <2>1, <2>2 DEF RunRow, RunStatus
  <2>4. /\ run'[r].status = run[r].status /\ run'[r].code = run[r].code
        /\ run'[r].fencing = ClaimToken(early)
        /\ \A q \in Runs \ {r} : run'[q] = run[q]
    BY <1>2, <1>4 DEF ClaimLease, RunRow
  <2>5. ClaimToken(early) >= lease.fencing /\ (ClaimToken(early) = lease.fencing => lease.owner = p)
    BY <1>2, <1>4 DEF ClaimToken, LeaseReachable
  <2>6. lease'.owner = p
    BY <1>4 DEF ClaimLease
  <2> QED
    BY <2>1, <2>3, <2>4, <2>5, <2>6 DEF RunStays
<1>5. ASSUME NEW step, NEW attempt, NEW token, ReceiveClaim(p, r, step, attempt, token)
      PROVE  /\ \A q \in Replicas \ {p} : relay'[q] = relay[q]
             /\ \/ UNCHANGED relay
                \/ /\ relay'[p].run = r /\ relay'[p].lease.fencing = token
                   /\ relay'[p].step = step /\ relay'[p].attempt = attempt
  BY <1>2, <1>5 DEF ReceiveClaim
<1>6. CASE claim_cancellation(p, r)
  <2>1. PICK early \in BOOLEAN :
          /\ CancelClaimable(p, r, early)
          /\ \/ UNCHANGED <<lease, run, relay>>
             \/ /\ ClaimVerdict(r, early) = "claimed"
                /\ ClaimLease(p, r, early)
                /\ ReceiveClaim(p, r, "revoke", NextAttempt(p, cancel[r]), ClaimToken(early))
    BY <1>6 DEF claim_cancellation
  <2>2. UNCHANGED dispatch
    BY <1>6 DEF claim_cancellation
  <2>3. CASE UNCHANGED <<lease, run, relay>>
    BY <1>3, <2>2, <2>3, SameStays, CalmKeeps DEF Calm
  <2>4. CASE /\ ClaimVerdict(r, early) = "claimed"
             /\ ClaimLease(p, r, early)
             /\ ReceiveClaim(p, r, "revoke", NextAttempt(p, cancel[r]), ClaimToken(early))
    <3>1. LeaseReachable(p, early) /\ Selectable(p, cancel[r])
      BY <2>1 DEF CancelClaimable
    <3>2. /\ run[r].status = "running" /\ run'[r].status = "running"
          /\ run'[r].code = run[r].code
          /\ run'[r].fencing = ClaimToken(early)
          /\ run'[r].fencing >= run[r].fencing
          /\ run'[r].fencing = run[r].fencing => lease.owner = p
          /\ lease'.owner = p
          /\ \A q \in Runs \ {r} : RunStays(q)
      BY <1>4, <2>4, <3>1
    <3>3. /\ \A q \in Replicas \ {p} : RelayStays(q)
          /\ \/ RelayStays(p)
             \/ /\ relay'[p].run = r /\ relay'[p].lease.fencing = run'[r].fencing
                /\ relay'[p].step \notin DispatchStep \cup PermitStep
      BY <1>5, <2>4, <3>2 DEF RelayStays, DispatchStep, PermitStep
    <3> QED
      BY <1>1, <1>3, <2>2, <3>2, <3>3, SameStays, ClaimCancellationKeeps
  <2> QED
    BY <2>1, <2>3, <2>4
<1>7. CASE claim_dispatch(p, r)
  <2>1. PICK early \in BOOLEAN :
          /\ DispatchClaimable(p, r, early)
          /\ \/ /\ DispatchVerdict(r, early) = "settled"
                /\ dispatch' = [dispatch EXCEPT ![r] = Delivered(dispatch[r])]
                /\ UNCHANGED <<lease, run, relay>>
             \/ /\ dispatch' = [dispatch EXCEPT ![r] = DeadLettered(dispatch[r])]
                /\ UNCHANGED <<lease, run, relay>>
             \/ /\ DispatchVerdict(r, early) = "claimed"
                /\ ClaimLease(p, r, early)
                /\ dispatch' = [dispatch EXCEPT ![r] = Claimed(p, dispatch[r])]
                /\ ReceiveClaim(p, r, "offer", NextAttempt(p, dispatch[r]), ClaimToken(early))
    BY <1>7 DEF claim_dispatch
  <2>2. LeaseReachable(p, early) /\ Selectable(p, dispatch[r]) /\ dispatch[r].status # "delivered"
    BY <2>1 DEF DispatchClaimable, Selectable
  <2>3. CASE /\ DispatchVerdict(r, early) = "settled"
             /\ dispatch' = [dispatch EXCEPT ![r] = Delivered(dispatch[r])]
             /\ UNCHANGED <<lease, run, relay>>
    <3>1. run'[r].status # "running"
      BY <2>3 DEF DispatchVerdict, ClaimVerdict, is_terminal_status, TerminalStatus
    <3>2. \A q \in Runs \ {r} : DispatchStays(q)
      BY <1>2, <2>3 DEF DispatchStays
    <3> QED
      BY <1>1, <1>3, <2>2, <2>3, <3>1, <3>2, SameStays, DispatchMoves DEF Current
  <2>4. CASE /\ dispatch' = [dispatch EXCEPT ![r] = DeadLettered(dispatch[r])]
             /\ UNCHANGED <<lease, run, relay>>
    <3>1. dispatch'[r].status = "dead_letter"
      BY <1>2, <2>4 DEF DeadLettered, Outbox
    <3>2. \A q \in Runs \ {r} : DispatchStays(q)
      BY <1>2, <2>4 DEF DispatchStays
    <3> QED
      BY <1>1, <1>3, <2>2, <2>4, <3>1, <3>2, SameStays, DispatchMoves
  <2>5. CASE /\ DispatchVerdict(r, early) = "claimed"
             /\ ClaimLease(p, r, early)
             /\ dispatch' = [dispatch EXCEPT ![r] = Claimed(p, dispatch[r])]
             /\ ReceiveClaim(p, r, "offer", NextAttempt(p, dispatch[r]), ClaimToken(early))
    <3>1. ClaimVerdict(r, early) = "claimed"
      BY <2>5 DEF DispatchVerdict
    <3>2. /\ run[r].status = "running" /\ run'[r].status = "running"
          /\ run'[r].code = run[r].code
          /\ run'[r].fencing = ClaimToken(early)
          /\ run'[r].fencing >= run[r].fencing
          /\ run'[r].fencing = run[r].fencing => lease.owner = p
          /\ lease'.owner = p
          /\ \A q \in Runs \ {r} : RunStays(q)
      BY <1>4, <2>2, <2>5, <3>1
    <3>3. /\ dispatch'[r].status = "delivering" /\ dispatch'[r].by = p
          /\ dispatch'[r].attempt = NextAttempt(p, dispatch[r])
          /\ \A q \in Runs \ {r} : DispatchStays(q)
      BY <1>2, <2>5 DEF Claimed, DispatchStays
    <3>4. /\ \A q \in Replicas \ {p} : relay'[q] = relay[q]
          /\ \/ relay'[p] = relay[p] /\ relay[p].step = "idle"
             \/ /\ relay'[p].run = r /\ relay'[p].lease.fencing = run'[r].fencing
                /\ relay'[p].step = "offer" /\ relay'[p].attempt = dispatch'[r].attempt
      BY <1>3, <1>5, <2>5, <3>2, <3>3
    <3> QED
      BY <1>1, <1>3, <2>2, <3>2, <3>3, <3>4, SameStays, ClaimDispatchKeeps
  <2> QED
    BY <2>1, <2>3, <2>4, <2>5
<1> QED
  BY <1>6, <1>7

LEMMA AcknowledgeDispatchKeeps ==
    ASSUME TypeOK, ExecutionInv, NEW p \in Replicas, acknowledge_dispatch(p)
    PROVE  ExecutionInv'
<1> DEFINE r == relay[p].run
<1>1. r \in Runs /\ relay[p] \in RelayState /\ relay \in [Replicas -> RelayState]
  BY DEF TypeOK, RelayTyped, acknowledge_dispatch
<1>2. Dispatching(p, r) /\ UNCHANGED <<run, child, lease>>
  BY DEF acknowledge_dispatch, Dispatching, DispatchStep
<1>3. \/ /\ Current(p, r) /\ HoldsClaim(p, dispatch[r])
         /\ dispatch' = [dispatch EXCEPT ![r] = Delivered(dispatch[r])]
         /\ GoActivate(p, r) \/ GoTo(p, "withdraw")
      \/ Current(p, r) /\ dispatch[r].status = "delivered"
      \/ GoTo(p, "withdraw") /\ UNCHANGED dispatch
  BY DEF acknowledge_dispatch, Current, validate_lease_identity
<1> HIDE DEF r
<1>4. CASE /\ Current(p, r) /\ HoldsClaim(p, dispatch[r])
           /\ dispatch' = [dispatch EXCEPT ![r] = Delivered(dispatch[r])]
           /\ GoActivate(p, r) \/ GoTo(p, "withdraw")
  <2>1. dispatch \in [Runs -> Outbox] /\ dispatch[r] \in Outbox
    BY <1>1 DEF TypeOK, DatabaseTyped
  <2>2. dispatch'[r].status = "delivered" /\ \A q \in Runs \ {r} : DispatchStays(q)
    BY <1>1, <1>4, <2>1 DEF Delivered, Outbox, DispatchStays
  <2>3. /\ \A q \in Replicas \ {p} : relay'[q] = relay[q]
        /\ relay'[p].run = r /\ relay'[p].lease.fencing = run[r].fencing
        /\ relay'[p].step \notin DispatchStep
    <3>1. CASE GoActivate(p, r)
      BY <1>1, <3>1 DEF GoActivate, RelayState, DispatchStep, r
    <3>2. CASE GoTo(p, "withdraw")
      BY <1>4, <3>2, GoToFields DEF DispatchStep, Current, r
    <3> QED
      BY <1>4, <3>1, <3>2
  <2> QED
    BY <1>1, <1>2, <1>4, <2>2, <2>3, SameStays, AcknowledgeKeeps
<1>5. CASE Current(p, r) /\ dispatch[r].status = "delivered"
  BY <1>1, <1>2, <1>5 DEF ExecutionInv, ClaimHeld, HoldsClaim
<1>6. CASE GoTo(p, "withdraw") /\ UNCHANGED dispatch
  <2>1. RelaysStay
    BY <1>6, GoToStays DEF DispatchStep, PermitStep
  <2> QED
    BY <1>2, <1>6, <2>1, SameStays, CalmKeeps DEF Calm
<1> QED
  BY <1>3, <1>4, <1>5, <1>6

LEMMA ActivationKeeps ==
    ASSUME TypeOK, ExecutionInv, NEW p \in Replicas, activate(p)
    PROVE  ExecutionInv'
<1> DEFINE r == relay[p].run
<1>1. r \in Runs
  BY DEF TypeOK, RelayTyped, activate
<1>2. Permit(p, r) /\ UNCHANGED <<run, dispatch, lease>>
  BY DEF activate, Permit, PermitStep, database
<1>3. \/ /\ GoIdle(p)
         /\ \/ UNCHANGED child
            \/ \E c : SetChild(p, r, c)
      \/ GoTo(p, "fail_activation") /\ UNCHANGED child
  BY DEF activate, SetChild
<1> HIDE DEF r
<1>4. CASE GoIdle(p) /\ \E c : SetChild(p, r, c)
  <2>1. \A q \in Replicas, s \in Runs : <<q, s>> # <<p, r>> => ChildStays(q, s)
    BY <1>1, <1>4 DEF SetChild, TypeOK, ChildTyped, ChildStays
  <2>2. relay' = [relay EXCEPT ![p] = IdleRelay]
    BY <1>4 DEF GoIdle
  <2> QED
    BY <1>1, <1>2, <2>1, <2>2, SameStays, ActivateKeeps
<1>5. CASE GoIdle(p) /\ UNCHANGED child
  BY <1>2, <1>5, GoIdleStays, SameStays, CalmKeeps DEF Calm
<1>6. CASE GoTo(p, "fail_activation") /\ UNCHANGED child
  <2>1. RelaysStay
    BY <1>2, <1>6, GoToStays DEF Permit, DispatchStep, PermitStep
  <2> QED
    BY <1>2, <1>6, <2>1, SameStays, CalmKeeps DEF Calm
<1> QED
  BY <1>3, <1>4, <1>5, <1>6

LEMMA TerminalFields ==
    ASSUME TypeOK, NEW r \in Runs, NEW k, NEW expected, NEW code, NEW token,
           WriteTerminal(r, k, expected, code, token)
    PROVE  /\ run'[r].status = k /\ run'[r].fencing = token /\ run'[r].code = code
           /\ \A q \in Runs \ {r} : RunStays(q)
<1>1. run \in [Runs -> RunRow]
  BY DEF TypeOK, DatabaseTyped
<1> QED
  BY <1>1 DEF WriteTerminal, TerminalRow, RunStays

\* Once a dispatch is not delivered, nobody has the permit or a child.
LEMMA UndeliveredIsUnstarted ==
    ASSUME ExecutionInv, NEW r \in Runs, dispatch[r].status # "delivered"
    PROVE  \A p \in Replicas : ~Permit(p, r) /\ ~Executed(p, r)
  BY DEF ExecutionInv, OnePermit

LEMMA FinishUnstartedKeeps ==
    ASSUME TypeOK, TypeOK', Promise!LedgerInv, ExecutionInv, NEW p \in Replicas,
           finish_unstarted_cancellation(p)
    PROVE  ExecutionInv'
<1>0. PICK r \in Runs : r = relay[p].run
  BY DEF TypeOK, RelayTyped, finish_unstarted_cancellation
<1>L. PICK l \in Lease : l = relay[p].lease
  BY DEF TypeOK, RelayTyped, RelayState
<1>1. r \in Runs /\ run[r].fencing \in Nat
  BY DEF TypeOK, DatabaseTyped, RunRow
<1>2. RelaysStay /\ ChildrenStay
  BY GoIdleStays, SameStays DEF finish_unstarted_cancellation
<1>3. \/ /\ run[r].status = "running" /\ run[r].fencing = l.fencing
         /\ WriteTerminal(r, "cancelled", l.seq, "none", l.fencing)
         /\ dispatch' = [dispatch EXCEPT ![r] = Delivered(dispatch[r])]
      \/ /\ run[r].status = "cancelled" /\ UNCHANGED <<lease, run>>
         /\ dispatch' = [dispatch EXCEPT ![r] = Delivered(dispatch[r])]
      \/ UNCHANGED <<lease, run, dispatch>>
  BY <1>0, <1>L DEF finish_unstarted_cancellation, CanFinish, ReplaysTerminal,
     validate_lease_identity, database
<1>4. ASSUME dispatch' = [dispatch EXCEPT ![r] = Delivered(dispatch[r])]
      PROVE  dispatch'[r].status = "delivered" /\ \A q \in Runs \ {r} : DispatchStays(q)
  <2>1. dispatch \in [Runs -> Outbox] /\ dispatch[r] \in Outbox
    BY <1>1 DEF TypeOK, DatabaseTyped
  <2> QED
    BY <1>1, <1>4, <2>1 DEF Delivered, Outbox, DispatchStays
<1>5. CASE /\ run[r].status = "running" /\ run[r].fencing = l.fencing
           /\ WriteTerminal(r, "cancelled", l.seq, "none", l.fencing)
           /\ dispatch' = [dispatch EXCEPT ![r] = Delivered(dispatch[r])]
  <2>1. /\ run'[r].status = "cancelled" /\ run'[r].fencing = l.fencing /\ run'[r].code = "none"
        /\ \A q \in Runs \ {r} : RunStays(q)
    BY <1>1, <1>5, TerminalFields
  <2>2. /\ run'[r].status \in TerminalStatus /\ run'[r].fencing >= run[r].fencing
        /\ run'[r].code \notin UnstartedCode /\ run'[r].status # "reconciliation_required"
    BY <1>1, <1>5, <2>1 DEF TerminalStatus, UnstartedCode
  <2> QED
    BY <1>1, <1>2, <1>4, <1>5, <2>1, <2>2, TerminalKeeps
<1>6. CASE /\ run[r].status = "cancelled" /\ UNCHANGED <<lease, run>>
           /\ dispatch' = [dispatch EXCEPT ![r] = Delivered(dispatch[r])]
  <2>1. RunsStay /\ lease'.owner = lease.owner /\ \A q \in Replicas : ~Current(q, r)'
    BY <1>6, SameStays DEF Current
  <2> QED
    BY <1>1, <1>2, <1>4, <1>6, <2>1, DispatchMoves
<1>7. CASE UNCHANGED <<lease, run, dispatch>>
  BY <1>2, <1>7, SameStays, CalmKeeps DEF Calm
<1> QED
  BY <1>3, <1>5, <1>6, <1>7

\* A relay gives a run up before its execution: only the holder of the permit,
\* or of a current claim, gets that far, and it becomes idle.
LEMMA RelayFailsKeeps ==
    ASSUME TypeOK, TypeOK', Promise!LedgerInv, ExecutionInv, NEW p \in Replicas,
           fail_activation(p) \/ reject_dispatch(p)
    PROVE  ExecutionInv'
<1>1. PICK r \in Runs : r = relay[p].run
  BY DEF TypeOK, RelayTyped, fail_activation, reject_dispatch
<1>2. PICK l \in Lease : l = relay[p].lease
  BY DEF TypeOK, RelayTyped, RelayState
<1>3. run[r].fencing \in Nat /\ dispatch \in [Runs -> Outbox] /\ dispatch[r] \in Outbox
  BY DEF TypeOK, DatabaseTyped, RunRow
<1>4. /\ RelaysStay /\ ChildrenStay /\ relay'[p] = IdleRelay
      /\ \A q \in Replicas \ {p} : relay'[q] = relay[q]
      /\ UNCHANGED child
  BY GoIdleStays, SameStays DEF fail_activation, reject_dispatch, RelayFails
<1>5. \/ UNCHANGED <<lease, run, dispatch>>
      \/ /\ run[r].status = "running" /\ run[r].fencing = l.fencing
         /\ WriteTerminal(r, "failed", l.seq, "agent_runtime_unavailable", l.fencing)
         /\ \/ Permit(p, r) /\ dispatch' = [dispatch EXCEPT ![r] = dispatch[r]]
            \/ /\ Dispatching(p, r) /\ dispatch' = [dispatch EXCEPT ![r] = Delivered(dispatch[r])]
               /\ dispatch[r].status = "delivered" \/ HoldsClaim(p, dispatch[r])
  BY <1>1, <1>2 DEF fail_activation, reject_dispatch, RelayFails, CanFinish, validate_lease_identity,
     database, Permit, PermitStep, Dispatching, DispatchStep
<1>6. CASE UNCHANGED <<lease, run, dispatch>>
  BY <1>4, <1>6, SameStays, CalmKeeps DEF Calm
<1>7. CASE /\ run[r].status = "running" /\ run[r].fencing = l.fencing
           /\ WriteTerminal(r, "failed", l.seq, "agent_runtime_unavailable", l.fencing)
           /\ \/ Permit(p, r) /\ dispatch' = [dispatch EXCEPT ![r] = dispatch[r]]
              \/ /\ Dispatching(p, r) /\ dispatch' = [dispatch EXCEPT ![r] = Delivered(dispatch[r])]
                 /\ dispatch[r].status = "delivered" \/ HoldsClaim(p, dispatch[r])
  <2>1. /\ run'[r].status = "failed" /\ run'[r].fencing = l.fencing
        /\ run'[r].code = "agent_runtime_unavailable"
        /\ \A q \in Runs \ {r} : RunStays(q)
    BY <1>7, TerminalFields
  <2>2. /\ run'[r].status \in TerminalStatus /\ run'[r].fencing >= run[r].fencing
        /\ run'[r].status # "reconciliation_required"
    BY <1>3, <1>7, <2>1 DEF TerminalStatus
  <2>3. /\ dispatch[r].status = "delivered" => dispatch'[r].status = "delivered"
        /\ \A q \in Runs \ {r} : DispatchStays(q)
    BY <1>3, <1>7 DEF Delivered, Outbox, DispatchStays
  <2>4. \A q \in Replicas : ~Permit(q, r)' /\ ~Executed(q, r)'
    <3>1. \A q \in Replicas : Executed(q, r)' <=> Executed(q, r)
      BY <1>4 DEF Executed
    <3>2. ~Permit(p, r)' /\ \A q \in Replicas \ {p} : Permit(q, r)' => Permit(q, r)
      BY <1>4, IdleHasNoRight DEF Permit
    <3>3. CASE Permit(p, r)
      BY <3>1, <3>2, <3>3 DEF ExecutionInv, OnePermit
    <3>4. CASE Dispatching(p, r) /\ (dispatch[r].status = "delivered" \/ HoldsClaim(p, dispatch[r]))
      <4>1. Current(p, r)
        BY <1>1, <1>2, <1>7 DEF Current
      <4>2. dispatch[r].status # "delivered"
        BY <3>4, <4>1 DEF ExecutionInv, ClaimHeld, HoldsClaim
      <4> QED
        BY <3>1, <3>2, <4>2, UndeliveredIsUnstarted
    <3> QED
      BY <1>7, <3>3, <3>4
  <2> QED
    BY <1>4, <1>7, <2>1, <2>2, <2>3, <2>4, TerminalKeeps
<1> QED
  BY <1>5, <1>6, <1>7

LEMMA RetryDispatchKeeps ==
    ASSUME TypeOK, ExecutionInv, NEW p \in Replicas, retry_dispatch(p)
    PROVE  ExecutionInv'
<1>1. PICK r \in Runs : r = relay[p].run
  BY DEF TypeOK, RelayTyped, retry_dispatch
<1>2. dispatch \in [Runs -> Outbox] /\ dispatch[r] \in Outbox
  BY DEF TypeOK, DatabaseTyped
<1>3. /\ RelaysStay /\ relay'[p] = IdleRelay /\ \A q \in Replicas \ {p} : relay'[q] = relay[q]
      /\ UNCHANGED <<run, lease, child>>
  BY GoIdleStays DEF retry_dispatch
<1>4. CASE UNCHANGED dispatch
  BY <1>3, <1>4, SameStays, CalmKeeps DEF Calm
<1>5. CASE /\ HoldsClaim(p, dispatch[r])
           /\ dispatch' = [dispatch EXCEPT ![r] = [PendingRow EXCEPT !.attempt = relay[p].attempt]]
  <2>1. dispatch[r].status = "delivering" /\ dispatch[r].by = p
    BY <1>5 DEF HoldsClaim
  <2>2. \A q \in Runs \ {r} : DispatchStays(q)
    BY <1>2, <1>5 DEF DispatchStays
  <2>3. ASSUME NEW q \in Replicas, Dispatching(q, r)', Current(q, r)'
        PROVE  FALSE
    <3>1. q # p
      BY <1>3, <2>3, IdleHasNoRight
    <3>2. Dispatching(q, r) /\ Current(q, r)
      BY <1>3, <2>3, <3>1 DEF Dispatching, Current
    <3> QED
      BY <2>1, <3>1, <3>2 DEF ExecutionInv, ClaimHeld, HoldsClaim
  <2> QED
    BY <1>3, <2>1, <2>2, <2>3, SameStays, DispatchMoves
<1> QED
  BY <1>1, <1>4, <1>5 DEF retry_dispatch

\* Recovery: a dead-lettered dispatch never gave a permit.
LEMMA RecoveryKeeps ==
    ASSUME RefinementInv, TypeOK', ExecutionInv, NEW p \in Replicas, NEW r \in Runs,
           recover_one_stale_run(p, r)
    PROVE  ExecutionInv'
<1>1. TypeOK /\ Promise!LedgerInv
  BY DEF RefinementInv
<1>2. run[r].fencing \in Nat /\ lease.fencing \in Nat
  BY <1>1 DEF TypeOK, DatabaseTyped, RunRow, LeaseRow
<1>3. /\ run[r].status = "running" /\ dispatch[r].status \in {"delivered", "dead_letter"}
      /\ WriteTerminal(r, RecoveryStatus(r), run[r].next, RecoveryCode(r), RecoveryToken)
      /\ UNCHANGED <<dispatch, relay, child>>
  BY DEF recover_one_stale_run, Recoverable, process
<1>4. /\ run'[r].status = RecoveryStatus(r) /\ run'[r].fencing = RecoveryToken
      /\ run'[r].code = RecoveryCode(r)
      /\ \A q \in Runs \ {r} : RunStays(q)
  BY <1>1, <1>3, TerminalFields
<1>5. run[r].fencing = lease.fencing
  BY <1>1, <1>3 DEF Promise!LedgerInv, Promise!Bound
<1>6. RecoveryToken >= run[r].fencing
  BY <1>2, <1>5, RuntimeAssumption DEF RecoveryToken
<1>7. run'[r].status \in TerminalStatus
  BY <1>4 DEF RecoveryStatus, TerminalStatus
<1>8. RelaysStay /\ ChildrenStay /\ DispatchesStay
  BY <1>3, SameStays
<1>9. \A q \in Runs \ {r} : DispatchStays(q)
  BY <1>8 DEF DispatchesStay
<1>10. CASE dispatch[r].status = "delivered"
  <2>1. run'[r].code \notin UnstartedCode
    BY <1>4, <1>10 DEF RecoveryCode, UnstartedCode
  <2> QED
    BY <1>1, <1>3, <1>4, <1>6, <1>7, <1>8, <1>9, <1>10, <2>1, TerminalKeeps
<1>11. CASE dispatch[r].status = "dead_letter"
  <2>1. run'[r].status # "reconciliation_required"
    BY <1>4, <1>11 DEF RecoveryStatus
  <2>2. \A q \in Replicas : ~Permit(q, r)' /\ ~Executed(q, r)'
    BY <1>3, <1>11, UndeliveredIsUnstarted DEF Permit, Executed
  <2> QED
    BY <1>1, <1>3, <1>4, <1>6, <1>7, <1>8, <1>9, <2>1, <2>2, TerminalKeeps
<1> QED
  BY <1>3, <1>10, <1>11

LEMMA RequestsKeep ==
    ASSUME RefinementInv, RefinementInv', ExecutionInv, NEW r \in Runs, Request(r)
    PROVE  ExecutionInv'
<1>1. CASE \E p \in Replicas : BeginRun(p, r)
  BY <1>1, BeginKeeps
<1>2. CASE RequestCancellation(r)
  BY <1>2, SameStays, CalmKeeps DEF RequestCancellation, process, Calm
<1> QED
  BY <1>1, <1>2 DEF Request, DrainClosedHistory

\* An append writes a journal and moves its own child on.
LEMMA AppendKeeps ==
    ASSUME TypeOK, ExecutionInv, NEW p \in Replicas, NEW r \in Runs, NEW k,
           NEW received, NEW failed,
           child[p][r].phase # "none", received.phase # "none", failed.phase # "none",
           AppendChunk(p, r, k, received, failed),
           UNCHANGED <<lease, dispatch, relay>>
    PROVE  ExecutionInv'
<1>1. ChildrenStay
  <2>1. SetChild(p, r, received) \/ SetChild(p, r, failed)
    BY DEF AppendChunk
  <2> QED
    BY <2>1, SetChildStays
<1>2. RunsStay
  <2>1. run \in [Runs -> RunRow] /\ run[r] \in RunRow
    BY DEF TypeOK, DatabaseTyped
  <2>2. UNCHANGED run \/ run' = [run EXCEPT ![r].next = child[p][r].expected + 1]
    BY DEF AppendChunk
  <2> QED
    BY <2>1, <2>2 DEF RunsStay, RunStays, RunRow
<1> QED
  BY <1>1, <1>2, SameStays, CalmKeeps DEF Calm

\* The terminal a child writes is no unstarted one, and its dispatch was delivered.
LEMMA ChildFinishKeeps ==
    ASSUME TypeOK, TypeOK', Promise!LedgerInv, ExecutionInv, NEW p \in Replicas, NEW r \in Runs,
           finish_run(p, r)
    PROVE  ExecutionInv'
<1> DEFINE c == child[p][r]
<1>1. /\ c.phase = "closing" /\ c.goal \in TerminalStatus /\ run[r].fencing \in Nat
  BY DEF finish_run, Executing, TypeOK, ChildTyped, DatabaseTyped, RunRow
<1>2. UNCHANGED relay /\ SetChild(p, r, Ended(c))
  BY DEF finish_run
<1>3. Ended(c).phase # "none"
  BY DEF Ended, NoChild
<1>4. RelaysStay /\ ChildrenStay
  BY <1>1, <1>2, <1>3, SameStays, SetChildStays
<1>5. PICK code \in {"agent", "none"} :
        \/ /\ run[r].status = "running" /\ run[r].fencing = c.lease.fencing
           /\ WriteTerminal(r, c.goal, c.expected, code, c.lease.fencing)
           /\ UNCHANGED dispatch
        \/ UNCHANGED <<lease, run, dispatch>>
  BY DEF finish_run, CanFinish, validate_lease_identity, database
<1>6. CASE UNCHANGED <<lease, run, dispatch>>
  BY <1>4, <1>6, SameStays, CalmKeeps DEF Calm
<1>7. CASE /\ run[r].status = "running" /\ run[r].fencing = c.lease.fencing
           /\ WriteTerminal(r, c.goal, c.expected, code, c.lease.fencing)
           /\ UNCHANGED dispatch
  <2>1. dispatch[r].status = "delivered"
    BY <1>1 DEF ExecutionInv, OnePermit, Executed
  <2>2. /\ run'[r].status = c.goal /\ run'[r].fencing = c.lease.fencing /\ run'[r].code = code
        /\ \A q \in Runs \ {r} : RunStays(q)
    BY <1>7, TerminalFields
  <2>3. /\ run'[r].status \in TerminalStatus /\ run'[r].fencing >= run[r].fencing
        /\ run'[r].code \notin UnstartedCode
        /\ dispatch'[r].status = "delivered"
    BY <1>1, <1>5, <1>7, <2>1, <2>2 DEF UnstartedCode
  <2>4. \A q \in Runs \ {r} : DispatchStays(q)
    BY <1>7 DEF DispatchStays
  <2> QED
    BY <1>4, <1>7, <2>2, <2>3, <2>4, TerminalKeeps
<1> QED
  BY <1>5, <1>6, <1>7

LEMMA ChildKeeps ==
    ASSUME TypeOK, TypeOK', Promise!LedgerInv, ExecutionInv, NEW p \in Replicas, NEW r \in Runs,
           Child(p, r)
    PROVE  ExecutionInv'
<1> DEFINE c == child[p][r]
<1>1. c \in ChildState
  BY DEF TypeOK, ChildTyped
<1>2. ASSUME NEW d, SetChild(p, r, d), d.phase # "none", c.phase # "none",
             UNCHANGED <<run, dispatch, lease, relay>>
      PROVE  ExecutionInv'
  BY <1>2, SetChildStays, SameStays, CalmKeeps DEF Calm
<1>3. CASE execute_activation(p, r)
  <2>1. [c EXCEPT !.phase = "working"].phase # "none"
    BY <1>1 DEF ChildState
  <2> QED
    BY <1>2, <1>3, <2>1 DEF execute_activation, Executing, database
<1>4. CASE \E goal \in TerminalStatus, pending \in {"none", "text"} :
             close_run(p, r, goal, pending)
  <2>1. PICK goal \in TerminalStatus, pending \in {"none", "text"} : close_run(p, r, goal, pending)
    BY <1>4
  <2> DEFINE d == [c EXCEPT !.phase = "closing", !.goal = goal, !.pending = pending]
  <2>2. d.phase # "none"
    BY <1>1 DEF ChildState
  <2>3. SetChild(p, r, d) /\ c.phase # "none" /\ UNCHANGED <<run, dispatch, lease, relay>>
    BY <2>1 DEF close_run, Executing, database
  <2> HIDE DEF d
  <2> QED
    BY <1>2, <2>2, <2>3
<1>5. CASE \/ \E k \in ChunkKind : append_semantic_chunk(p, r, k)
           \/ \E k \in CheckpointKind : append_checkpoint(p, r, k)
  <2>1. PICK k : append_semantic_chunk(p, r, k) \/ append_checkpoint(p, r, k)
    BY <1>5
  <2> DEFINE received == [c EXCEPT !.expected = @ + 1]
             kept == [c EXCEPT !.phase = "closing", !.pending = k,
                               !.goal = "reconciliation_required"]
             dropped == [c EXCEPT !.phase = "closing", !.goal = "reconciliation_required"]
  <2>2. c.phase # "none" /\ UNCHANGED <<lease, dispatch, relay>>
    BY <2>1 DEF append_semantic_chunk, append_checkpoint, Executing
  <2>3. received.phase # "none" /\ kept.phase # "none" /\ dropped.phase # "none"
    BY <1>1, <2>2 DEF ChildState
  <2>4. AppendChunk(p, r, k, received, kept) \/ AppendChunk(p, r, k, received, dropped)
    BY <2>1 DEF append_semantic_chunk, append_checkpoint
  <2> HIDE DEF received, kept, dropped
  <2> QED
    BY <2>2, <2>3, <2>4, AppendKeeps
<1>6. CASE lease_lost(p, r)
  <2> DEFINE d == [c EXCEPT !.phase = "closing", !.goal = "reconciliation_required"]
  <2>1. d.phase # "none"
    BY <1>1 DEF ChildState
  <2>2. SetChild(p, r, d) /\ c.phase # "none" /\ UNCHANGED <<run, dispatch, lease, relay>>
    BY <1>6 DEF lease_lost, Executing, database
  <2> HIDE DEF d
  <2> QED
    BY <1>2, <2>1, <2>2
<1>7. Ended(c).phase # "none" /\ GoneChild.phase # "none"
  BY DEF Ended, GoneChild, NoChild
<1>8. CASE flush(p, r)
  <2> DEFINE received == [c EXCEPT !.expected = @ + 1, !.pending = "none"]
  <2>1. /\ c.phase # "none" /\ UNCHANGED <<lease, dispatch, relay>>
        /\ AppendChunk(p, r, c.pending, received, Ended(c))
    BY <1>8 DEF flush, Executing
  <2>2. received.phase # "none"
    BY <1>1, <2>1 DEF ChildState
  <2> HIDE DEF received
  <2> QED
    BY <1>7, <2>1, <2>2, AppendKeeps
<1>9. CASE abandon(p, r)
  BY <1>2, <1>7, <1>9 DEF abandon, Executing, database
<1>10. CASE cleanup(p, r)
  BY <1>2, <1>7, <1>10 DEF cleanup, Executing, database
<1> QED
  BY <1>3, <1>4, <1>5, <1>6, <1>8, <1>9, <1>10, ChildFinishKeeps DEF Child

LEMMA TimerKeeps ==
    ASSUME TypeOK, ExecutionInv, Timer
    PROVE  ExecutionInv'
<1>1. UNCHANGED <<run, relay, child>> /\ lease'.owner = lease.owner
  BY DEF Timer, lease_expires, dispatch_claim_expires, cancel_claim_expires, process, TypeOK,
     DatabaseTyped, LeaseRow
<1>2. DispatchesStay
  <2>1. dispatch \in [Runs -> Outbox]
    BY DEF TypeOK, DatabaseTyped
  <2>2. UNCHANGED dispatch \/ \E r \in Runs : dispatch' = [dispatch EXCEPT ![r].live = FALSE]
    BY DEF Timer, lease_expires, dispatch_claim_expires, cancel_claim_expires
  <2>3. CASE \E r \in Runs : dispatch' = [dispatch EXCEPT ![r].live = FALSE]
    BY <2>1, <2>3 DEF DispatchesStay, DispatchStays, Outbox
  <2> QED
    BY <2>2, <2>3, SameStays
<1> QED
  BY <1>1, <1>2, SameStays, CalmKeeps DEF Calm

LEMMA LifeKeeps ==
    ASSUME TypeOK, ExecutionInv, NEW p \in Replicas, Life(p)
    PROVE  ExecutionInv'
<1>1. UNCHANGED <<run, dispatch, lease>>
  BY DEF Life, stop, stop_deadline, crash, database
<1>2. RelaysStay
  BY GoIdleStays, SameStays DEF Life, stop, stop_deadline, crash, GoIdle
<1>3. ChildrenStay
  <2>1. child \in [Replicas -> [Runs -> ChildState]]
    BY DEF TypeOK, ChildTyped
  <2>2. CASE stop(p)
    <3>1. \A q \in Replicas \ {p} : child'[q] = child[q]
      BY <2>1, <2>2 DEF stop
    <3>2. ASSUME NEW r \in Runs PROVE child'[p][r].phase = child[p][r].phase
      <4>1. child[p][r] \in ChildState
        BY <2>1
      <4>2. child'[p][r] = child[p][r] \/ child'[p][r] = [child[p][r] EXCEPT !.cancelled = TRUE]
        BY <2>1, <2>2 DEF stop
      <4> QED
        BY <4>1, <4>2 DEF ChildState
    <3> QED
      BY <3>1, <3>2 DEF ChildrenStay, ChildStays
  <2>3. CASE stop_deadline(p) \/ crash(p)
    <3>1. /\ \A q \in Replicas \ {p} : child'[q] = child[q]
          /\ \A r \in Runs : child'[p][r] = Over(child[p][r])
      BY <2>1, <2>3 DEF stop_deadline, crash
    <3> QED
      BY <3>1 DEF ChildrenStay, ChildStays, Over, NoChild, GoneChild
  <2> QED
    BY <2>2, <2>3 DEF Life
<1> QED
  BY <1>1, <1>2, <1>3, SameStays, CalmKeeps DEF Calm

-----------------------------------------------------------------------------

LEMMA ExecutionInitial == Init => ExecutionInv
<1> SUFFICES ASSUME Init PROVE ExecutionInv
  OBVIOUS
<1>1. /\ \A p \in Replicas : relay[p] = IdleRelay
      /\ \A p \in Replicas, r \in Runs : child[p][r] = NoChild
      /\ \A r \in Runs : run[r].status = "absent" /\ run[r].code = "none"
  BY DEF Init
<1>2. \A p \in Replicas, r \in Runs : relay[p].run # r /\ ~Executed(p, r)
  BY <1>1, RuntimeAssumption DEF IdleRelay, Executed, NoChild
<1> QED
  BY <1>1, <1>2 DEF ExecutionInv, Overtaken, ClaimHeld, OnePermit, Definite, Dispatching, Permit,
     UnstartedCode

LEMMA ExecutionStep ==
    ASSUME RefinementInv, ExecutionInv, [Next]_vars
    PROVE  ExecutionInv'
<1>1. TypeOK /\ TypeOK' /\ Promise!LedgerInv /\ RefinementInv' /\ Promise!Onward
  BY RefinementStep DEF RefinementInv
<1>2. CASE \E r \in Runs : Request(r)
  BY <1>1, <1>2, RequestsKeep
<1>3. CASE CloseHistory
  BY <1>3, SameStays, CalmKeeps DEF CloseHistory, process, Calm
<1>4. ASSUME NEW p \in Replicas, Relay(p)
      PROVE  ExecutionInv'
  <2>1. CASE \E r \in Runs : claim_cancellation(p, r) \/ claim_dispatch(p, r)
    BY <1>1, <2>1, ClaimsKeep
  <2>2. CASE \E r \in Runs : recover_one_stale_run(p, r)
    BY <1>1, <2>2, RecoveryKeeps
  <2>3. CASE revoke(p) \/ mark_cancellation_signalled(p) \/ offer(p) \/ withdraw(p)
    BY <1>1, <2>3, QuietRelayKeeps
  <2>4. CASE acknowledge_dispatch(p) \/ activate(p) \/ retry_dispatch(p)
    BY <1>1, <2>4, AcknowledgeDispatchKeeps, ActivationKeeps, RetryDispatchKeeps
  <2>5. CASE finish_unstarted_cancellation(p)
    BY <1>1, <2>5, FinishUnstartedKeeps
  <2>6. CASE fail_activation(p) \/ reject_dispatch(p)
    BY <1>1, <2>6, RelayFailsKeeps
  <2> QED
    BY <1>4, <2>1, <2>2, <2>3, <2>4, <2>5, <2>6 DEF Relay
<1>5. CASE \E p \in Replicas : Life(p)
  BY <1>1, <1>5, LifeKeeps
<1>6. CASE \E p \in Replicas, r \in Runs : Child(p, r)
  BY <1>1, <1>6, ChildKeeps
<1>7. CASE Timer
  BY <1>1, <1>7, TimerKeeps
<1>8. CASE UNCHANGED vars
  BY <1>8, SameStays, CalmKeeps DEF vars, database, process, Calm
<1> QED
  BY <1>2, <1>3, <1>4, <1>5, <1>6, <1>7, <1>8 DEF Next

LEMMA ExecutionAlways == Spec => []ExecutionInv
<1>1. RefinementInv /\ ExecutionInv /\ [Next]_vars => ExecutionInv'
  BY ExecutionStep
<1> QED
  BY <1>1, ExecutionInitial, RefinementAlways, PTL DEF Spec

\* Whatever is claimed, lost, retried, taken over or crashes, and on however many
\* replicas, at most one child is ever activated for a run.
THEOREM ExecutedOnce == Spec => []AtMostOneExecution
<1>1. ExecutionInv => AtMostOneExecution
  BY DEF ExecutionInv, OnePermit, AtMostOneExecution, Executed
<1> QED
  BY <1>1, ExecutionAlways, PTL

\* agent_runtime_unavailable from a relay and dispatch_dead_letter are definite:
\* no child of the run exists or ever existed; and a run is only reported as
\* unresolved once its dispatch was delivered.
THEOREM DefiniteFailures == Spec => []OutcomeMatchesDelivery
<1>1. ExecutionInv => OutcomeMatchesDelivery
  BY DEF ExecutionInv, Definite, OutcomeMatchesDelivery, Executed
<1> QED
  BY <1>1, ExecutionAlways, PTL

-----------------------------------------------------------------------------
(* The one child of a run, while its token is current, knows the journal.  It *)
(* starts from the sequence its permit carries, and loses count only of an    *)
(* event whose commit it could not confirm.                                   *)

Writing(p, r) == child[p][r].phase \in LivePhase

\* A child at work is never ahead of its run, and holds no chunk before it closes.
WriterBehind ==
    \A p \in Replicas, r \in Runs :
        /\ Writing(p, r) => child[p][r].lease.fencing <= run[r].fencing
        /\ child[p][r].phase \in {"queued", "working"} => child[p][r].pending = "none"

\* A current permit carries the next sequence of the journal.
PermitInSync ==
    \A p \in Replicas, r \in Runs :
        relay[p].run = r /\ relay[p].step = "activate" /\ Current(p, r) =>
            lease.owner = p /\ relay[p].lease.seq = run[r].next

WriterInv == WriterBehind /\ PermitInSync /\ FencedWriterInSync

\* The child is over, or nothing but its cancellation flag changes.
WriterStays(p, r) ==
    \/ child'[p][r].phase \notin LivePhase
    \/ /\ child'[p][r].phase = child[p][r].phase
       /\ child'[p][r].lease = child[p][r].lease
       /\ child'[p][r].expected = child[p][r].expected
       /\ child'[p][r].pending = child[p][r].pending

\* No step of another actor writes to the journal of a run that goes on.
JournalStays(r) ==
    run'[r].status = "running" /\ run[r].status = "running" =>
        run'[r].next = run[r].next /\ events'[r] = events[r]

\* What the step of any actor means for a token that is still current after it.
StillCurrent(r, t) ==
    run'[r].status = "running" /\ t = run'[r].fencing =>
        run[r].status = "running" /\ t = run[r].fencing /\ lease'.owner = lease.owner

LEMMA TokenCurrent ==
    ASSUME RefinementInv, RefinementInv', Promise!Onward, NEW r \in Runs, NEW t \in Nat,
           run[r].status # "absent", t <= run[r].fencing
    PROVE  StillCurrent(r, t) /\ t <= run'[r].fencing /\ run'[r].fencing \in Nat
<1>1. /\ run[r].status \in RunStatus
      /\ run[r].fencing \in Nat /\ run'[r].fencing \in Nat
      /\ lease.fencing \in Nat /\ lease'.fencing \in Nat
  BY DEF RefinementInv, TypeOK, DatabaseTyped, RunRow, LeaseRow
<1>2. /\ run[r].status \in TerminalStatus => run'[r].status = run[r].status
      /\ run'[r].fencing >= run[r].fencing
      /\ lease'.owner # lease.owner => lease'.fencing > lease.fencing
  BY DEF Promise!Onward, Promise!Final, TerminalStatus
<1>3. /\ run[r].status = "running" => run[r].fencing = lease.fencing
      /\ run'[r].status = "running" => run'[r].fencing = lease'.fencing
  BY DEF RefinementInv, Promise!LedgerInv, Promise!Bound
<1>4. run'[r].status = "running" => run[r].status = "running"
  BY <1>1, <1>2 DEF RunStatus, TerminalStatus
<1> QED
  BY <1>1, <1>2, <1>3, <1>4 DEF StillCurrent

\* Only a delivered run has a child, and only a begun one was delivered.
LEMMA ExecutedHasBegun ==
    ASSUME RefinementInv, ExecutionInv, NEW p \in Replicas, NEW r \in Runs, Executed(p, r)
    PROVE  run[r].status # "absent"
  BY DEF RefinementInv, Unbegun, ExecutionInv, OnePermit

\* What FencedWriterInSync says of one child.
InSync(p, r) ==
    LET c == child[p][r] IN
    (c.phase \in LivePhase /\ run[r].status = "running" /\ c.lease.fencing = run[r].fencing)
    => /\ lease.owner = p
       /\ \/ c.expected = run[r].next
          \/ /\ c.phase = "closing" /\ c.expected + 1 = run[r].next
             /\ \E e \in events[r] :
                  /\ e.seq = c.expected
                  /\ e.kind = c.pending \/ (c.pending = "none" /\ e.kind \in CheckpointKind)

LEMMA InSyncEverywhere ==
    FencedWriterInSync <=> \A p \in Replicas, r \in Runs : InSync(p, r)
  BY DEF FencedWriterInSync, InSync

\* What WriterInv says of the child of p.
Sound(p, r) ==
    /\ Writing(p, r) => child[p][r].lease.fencing <= run[r].fencing
    /\ child[p][r].phase \in {"queued", "working"} => child[p][r].pending = "none"
    /\ InSync(p, r)

LEMMA SoundEverywhere ==
    WriterInv <=> PermitInSync /\ \A p \in Replicas, r \in Runs : Sound(p, r)
  BY InSyncEverywhere DEF WriterInv, WriterBehind, Sound

LEMMA WriterKept ==
    ASSUME RefinementInv, RefinementInv', Promise!Onward, ExecutionInv,
           NEW p \in Replicas, NEW r \in Runs,
           Sound(p, r), WriterStays(p, r), JournalStays(r)
    PROVE  Sound(p, r)'
<1>1. CASE child'[p][r].phase \notin LivePhase
  BY <1>1 DEF Sound, Writing, InSync, LivePhase
<1>2. CASE child'[p][r].phase \in LivePhase
  <2> DEFINE c == child[p][r]
             d == child'[p][r]
  <2>1. /\ d.phase = c.phase /\ d.lease = c.lease /\ d.expected = c.expected
        /\ d.pending = c.pending
    BY <1>2 DEF WriterStays
  <2>2. Writing(p, r) /\ c.lease.fencing <= run[r].fencing
    BY <1>2, <2>1 DEF Writing, Sound
  <2>3. run[r].status # "absent"
    BY <2>2, ExecutedHasBegun DEF Writing, Executed, LivePhase
  <2>4. c.lease.fencing \in Nat
    BY DEF RefinementInv, TypeOK, ChildTyped, ChildState, Lease
  <2>5. StillCurrent(r, c.lease.fencing) /\ c.lease.fencing <= run'[r].fencing
    BY <2>2, <2>3, <2>4, TokenCurrent
  <2>6. InSync(p, r)'
    <3> SUFFICES ASSUME run'[r].status = "running", d.lease.fencing = run'[r].fencing
                 PROVE  /\ lease'.owner = p
                        /\ \/ d.expected = run'[r].next
                           \/ /\ d.phase = "closing" /\ d.expected + 1 = run'[r].next
                              /\ \E e \in events'[r] :
                                   /\ e.seq = d.expected
                                   /\ \/ e.kind = d.pending
                                      \/ d.pending = "none" /\ e.kind \in CheckpointKind
      BY DEF InSync
    <3>1. /\ run[r].status = "running" /\ c.lease.fencing = run[r].fencing
          /\ lease'.owner = lease.owner
      BY <2>1, <2>5 DEF StillCurrent
    <3>2. run'[r].next = run[r].next /\ events'[r] = events[r]
      BY <3>1 DEF JournalStays
    <3>3. /\ lease.owner = p
          /\ \/ c.expected = run[r].next
             \/ /\ c.phase = "closing" /\ c.expected + 1 = run[r].next
                /\ \E e \in events[r] :
                     /\ e.seq = c.expected
                     /\ \/ e.kind = c.pending
                        \/ c.pending = "none" /\ e.kind \in CheckpointKind
      BY <1>2, <2>1, <3>1 DEF Sound, InSync
    <3> QED
      BY <2>1, <3>1, <3>2, <3>3
  <2> QED
    BY <2>1, <2>5, <2>6 DEF Sound, Writing
<1> QED
  BY <1>1, <1>2

\* A permit that stays, while the journal does.
LEMMA PermitKept ==
    ASSUME RefinementInv, RefinementInv', Promise!Onward, ExecutionInv, PermitInSync,
           NEW p \in Replicas, NEW r \in Runs,
           relay'[p] = relay[p], relay[p].run = r, relay[p].step = "activate",
           Current(p, r)', JournalStays(r)
    PROVE  lease'.owner = p /\ relay'[p].lease.seq = run'[r].next
<1>1. run[r].status # "absent" /\ relay[p].lease.fencing <= run[r].fencing
  BY DEF ExecutionInv, Overtaken
<1>2. relay[p].lease.fencing \in Nat
  BY DEF RefinementInv, TypeOK, RelayTyped, RelayState, Lease
<1>3. StillCurrent(r, relay[p].lease.fencing)
  BY <1>1, <1>2, TokenCurrent
<1>4. Current(p, r) /\ lease'.owner = lease.owner /\ run'[r].status = "running"
  BY <1>3 DEF StillCurrent, Current
<1> QED
  BY <1>4 DEF PermitInSync, JournalStays, Current

\* A step outside the children keeps what it does not touch.
LEMMA QuietWriters ==
    ASSUME RefinementInv, RefinementInv', Promise!Onward, ExecutionInv, WriterInv,
           \A p \in Replicas, r \in Runs : WriterStays(p, r),
           \A r \in Runs : JournalStays(r),
           \A p \in Replicas : relay'[p].step = "activate" => relay'[p] = relay[p]
    PROVE  WriterInv'
<1>1. \A p \in Replicas, r \in Runs : Sound(p, r)'
  BY WriterKept, SoundEverywhere
<1>2. PermitInSync'
  BY PermitKept DEF WriterInv, PermitInSync
<1> QED
  BY <1>1, <1>2, InSyncEverywhere DEF WriterInv, WriterBehind, Sound, FencedWriterInSync, InSync

-----------------------------------------------------------------------------

\* A terminal ends its run and leaves the others alone.
LEMMA TerminalJournal ==
    ASSUME TypeOK, NEW q \in Runs, NEW k \in TerminalStatus, NEW expected, NEW code, NEW t,
           WriteTerminal(q, k, expected, code, t), NEW r \in Runs
    PROVE  JournalStays(r)
<1>1. run \in [Runs -> RunRow] /\ events \in [Runs -> SUBSET Event]
  BY DEF TypeOK, DatabaseTyped
<1>2. run'[q].status = k /\ (r # q => run'[r] = run[r])
  BY <1>1 DEF WriteTerminal, TerminalRow
<1>3. r # q => events'[r] = events[r]
  BY <1>1 DEF WriteTerminal
<1> QED
  BY <1>2, <1>3 DEF JournalStays, TerminalStatus

LEMMA RelayJournal ==
    ASSUME TypeOK, NEW p \in Replicas, Relay(p), NEW r \in Runs
    PROVE  JournalStays(r)
<1>0. run \in [Runs -> RunRow]
  BY DEF TypeOK, DatabaseTyped
<1>1. ASSUME NEW q \in Runs, claim_cancellation(p, q) \/ claim_dispatch(p, q)
      PROVE  JournalStays(r)
  <2>1. UNCHANGED events
    BY <1>1 DEF claim_cancellation, claim_dispatch
  <2>2. UNCHANGED run \/ \E t : run' = [run EXCEPT ![q].fencing = t]
    BY <1>1 DEF claim_cancellation, claim_dispatch, ClaimLease
  <2> QED
    BY <1>0, <2>1, <2>2 DEF JournalStays, RunRow
<1>2. ASSUME NEW q \in Runs, recover_one_stale_run(p, q)
      PROVE  JournalStays(r)
  <2>1. RecoveryStatus(q) \in TerminalStatus
    BY DEF RecoveryStatus, TerminalStatus
  <2>2. WriteTerminal(q, RecoveryStatus(q), run[q].next, RecoveryCode(q), RecoveryToken)
    BY <1>2 DEF recover_one_stale_run
  <2> QED
    BY <2>1, <2>2, TerminalJournal
<1>3. CASE finish_unstarted_cancellation(p) \/ fail_activation(p) \/ reject_dispatch(p)
  <2> DEFINE q == relay[p].run
             l == relay[p].lease
  <2>1. q \in Runs
    BY <1>3 DEF finish_unstarted_cancellation, fail_activation, reject_dispatch, TypeOK, RelayTyped
  <2>2. \/ UNCHANGED <<run, events>>
        \/ \E k \in TerminalStatus : \E code : WriteTerminal(q, k, l.seq, code, l.fencing)
    <3>1. CASE finish_unstarted_cancellation(p)
      BY <3>1 DEF finish_unstarted_cancellation, TerminalStatus, database
    <3>2. CASE fail_activation(p)
      BY <3>2 DEF fail_activation, RelayFails, TerminalStatus, database
    <3>3. CASE reject_dispatch(p)
      BY <3>3 DEF reject_dispatch, RelayFails, TerminalStatus, database
    <3> QED
      BY <1>3, <3>1, <3>2, <3>3
  <2> HIDE DEF q, l
  <2> QED
    BY <2>1, <2>2, TerminalJournal DEF JournalStays
<1>4. CASE \/ revoke(p) \/ mark_cancellation_signalled(p) \/ offer(p)
           \/ acknowledge_dispatch(p) \/ withdraw(p) \/ activate(p) \/ retry_dispatch(p)
  <2>1. UNCHANGED <<run, events>>
    BY <1>4 DEF database, revoke, mark_cancellation_signalled, offer,
       acknowledge_dispatch, withdraw, activate, retry_dispatch
  <2> QED
    BY <2>1 DEF JournalStays
<1> QED
  BY <1>1, <1>2, <1>3, <1>4 DEF Relay

\* A signal only raises the flag of a child.
LEMMA SignalWriters ==
    ASSUME TypeOK, NEW q \in Replicas, NEW s \in Runs, Signal(q, s),
           NEW p \in Replicas, NEW r \in Runs
    PROVE  WriterStays(p, r)
<1>1. child[q][s] \in ChildState
  BY DEF TypeOK, ChildTyped
<1> DEFINE c == [child[q][s] EXCEPT !.cancelled = (@ \/ child[q][s].phase \in LivePhase)]
<1>2. /\ c.phase = child[q][s].phase /\ c.lease = child[q][s].lease
      /\ c.expected = child[q][s].expected /\ c.pending = child[q][s].pending
  BY <1>1 DEF ChildState
<1>3. child'[q][s] = c /\ (<<p, r>> # <<q, s>> => child'[p][r] = child[p][r])
  BY DEF Signal, TypeOK, ChildTyped
<1> HIDE DEF c
<1> QED
  BY <1>2, <1>3 DEF WriterStays

\* Of the relay's steps, only an acknowledgement makes a permit and only an
\* activation makes a child.
LEMMA RelayWriters ==
    ASSUME RefinementInv, RefinementInv', Promise!Onward, ExecutionInv, WriterInv,
           NEW p \in Replicas, Relay(p), ~acknowledge_dispatch(p), ~activate(p)
    PROVE  WriterInv'
<1>0. TypeOK
  BY DEF RefinementInv
<1>1. \A r \in Runs : JournalStays(r)
  BY <1>0, RelayJournal
<1>2. \A q \in Replicas, r \in Runs : WriterStays(q, r)
  <2>1. UNCHANGED child \/ (relay[p].run \in Runs /\ Signal(p, relay[p].run))
    <3>1. CASE revoke(p) \/ withdraw(p)
      BY <1>0, <3>1 DEF revoke, withdraw, TypeOK, RelayTyped
    <3>2. CASE fail_activation(p) \/ reject_dispatch(p) \/ finish_unstarted_cancellation(p)
               \/ mark_cancellation_signalled(p) \/ offer(p) \/ retry_dispatch(p)
      BY <3>2 DEF fail_activation, reject_dispatch, RelayFails, finish_unstarted_cancellation,
         mark_cancellation_signalled, offer, retry_dispatch
    <3>3. CASE \E r \in Runs : \/ claim_cancellation(p, r) \/ recover_one_stale_run(p, r)
                               \/ claim_dispatch(p, r)
      BY <3>3 DEF claim_cancellation, recover_one_stale_run, claim_dispatch, process
    <3> QED
      BY <3>1, <3>2, <3>3 DEF Relay
  <2> QED
    BY <1>0, <2>1, SignalWriters DEF WriterStays
<1>3. \A q \in Replicas : relay'[q].step = "activate" => relay'[q] = relay[q]
  <2>1. UNCHANGED relay \/ GoIdle(p)
        \/ (\E step : GoTo(p, step) /\ step # "activate")
        \/ (\E s : s.step # "activate" /\ relay' = [relay EXCEPT ![p] = s])
    <3>1. CASE withdraw(p) \/ fail_activation(p) \/ reject_dispatch(p) \/ retry_dispatch(p)
               \/ finish_unstarted_cancellation(p) \/ mark_cancellation_signalled(p)
      <4>1. GoIdle(p)
        BY <3>1 DEF withdraw, fail_activation, reject_dispatch, RelayFails, retry_dispatch,
           finish_unstarted_cancellation, mark_cancellation_signalled
      <4> QED
        BY <4>1
    <3>5. CASE revoke(p) \/ offer(p)
      <4>1. \E step \in {"signalled", "no_local_child", "reject", "acknowledge", "busy"} :
              GoTo(p, step)
        BY <3>5 DEF revoke, offer
      <4> QED
        BY <4>1
    <3>2. ASSUME NEW r, NEW step, NEW attempt, NEW t, ReceiveClaim(p, r, step, attempt, t),
                 step # "activate"
          PROVE  UNCHANGED relay \/ (\E s : s.step # "activate" /\ relay' = [relay EXCEPT ![p] = s])
      <4> DEFINE s == [step |-> step, run |-> r, attempt |-> attempt,
                       lease |-> [fencing |-> t, seq |-> run[r].next]]
      <4>1. s.step = step
        OBVIOUS
      <4>2. UNCHANGED relay \/ relay' = [relay EXCEPT ![p] = s]
        BY <3>2 DEF ReceiveClaim
      <4> HIDE DEF s
      <4> QED
        BY <3>2, <4>1, <4>2
    <3>3. CASE \E r \in Runs : claim_cancellation(p, r) \/ claim_dispatch(p, r)
      <4>1. UNCHANGED relay
            \/ (\E r, attempt, t : ReceiveClaim(p, r, "revoke", attempt, t))
            \/ (\E r, attempt, t : ReceiveClaim(p, r, "offer", attempt, t))
        BY <3>3 DEF claim_cancellation, claim_dispatch
      <4> QED
        BY <3>2, <4>1
    <3>4. CASE \E r \in Runs : recover_one_stale_run(p, r)
      BY <3>4 DEF recover_one_stale_run, process
    <3> QED
      BY <3>1, <3>3, <3>4, <3>5 DEF Relay
  <2>2. CASE UNCHANGED relay
    BY <2>2
  <2>3. CASE GoIdle(p)
    <3>1. relay'[p] = IdleRelay /\ \A q \in Replicas \ {p} : relay'[q] = relay[q]
      BY <1>0, <2>3, GoIdleStays
    <3> QED
      BY <3>1 DEF IdleRelay
  <2>4. ASSUME NEW step, GoTo(p, step), step # "activate"
        PROVE  \A q \in Replicas : relay'[q].step = "activate" => relay'[q] = relay[q]
    BY <1>0, <2>4, GoToFields
  <2>5. ASSUME NEW s, s.step # "activate", relay' = [relay EXCEPT ![p] = s]
        PROVE  \A q \in Replicas : relay'[q].step = "activate" => relay'[q] = relay[q]
    BY <1>0, <2>5 DEF TypeOK, RelayTyped
  <2> QED
    BY <2>1, <2>2, <2>3, <2>4, <2>5
<1> QED
  BY <1>1, <1>2, <1>3, QuietWriters

\* The acknowledgement hands out the run's lease and next sequence as they are.
LEMMA AcknowledgeWriters ==
    ASSUME RefinementInv, RefinementInv', Promise!Onward, ExecutionInv, WriterInv,
           NEW p \in Replicas, acknowledge_dispatch(p)
    PROVE  WriterInv'
<1> DEFINE s == relay[p].run
<1>0. TypeOK /\ s \in Runs
  BY DEF RefinementInv, TypeOK, RelayTyped, acknowledge_dispatch
<1>1. UNCHANGED <<lease, run, events, child>>
  BY DEF acknowledge_dispatch
<1>2. \A q \in Replicas, r \in Runs : Sound(q, r)'
  BY <1>1, SoundEverywhere DEF Sound, Writing, InSync
<1>3. Dispatching(p, s)
  BY DEF acknowledge_dispatch, Dispatching, DispatchStep
<1>4. \/ GoTo(p, "withdraw")
      \/ GoActivate(p, s) /\ lease.owner = p
  <2>1. \/ GoTo(p, "withdraw")
        \/ GoActivate(p, s) /\ \E early \in BOOLEAN : validate_active_lease(p, relay[p].lease, early)
        \/ /\ GoActivate(p, s) /\ dispatch[s].status = "delivered"
           /\ validate_lease_identity(s, relay[p].lease) /\ run[s].status = "running"
    BY DEF acknowledge_dispatch
  <2>2. CASE /\ dispatch[s].status = "delivered"
             /\ validate_lease_identity(s, relay[p].lease) /\ run[s].status = "running"
    <3>1. Current(p, s)
      BY <2>2 DEF Current, validate_lease_identity
    <3>2. HoldsClaim(p, dispatch[s]) \/ dispatch[s].status = "dead_letter"
      BY <1>0, <1>3, <3>1 DEF ExecutionInv, ClaimHeld
    <3> QED
      BY <2>2, <3>2 DEF HoldsClaim
  <2> QED
    BY <2>1, <2>2 DEF validate_active_lease
<1>5. PermitInSync'
  <2> SUFFICES ASSUME NEW q \in Replicas, NEW r \in Runs, relay'[q].run = r,
                      relay'[q].step = "activate", Current(q, r)'
               PROVE  lease'.owner = q /\ relay'[q].lease.seq = run'[r].next
    BY DEF PermitInSync
  <2>1. CASE q # p
    <3>1. relay'[q] = relay[q]
      BY <1>0, <1>4, <2>1, GoToFields DEF GoActivate, TypeOK, RelayTyped
    <3> QED
      BY <1>1, <3>1 DEF WriterInv, PermitInSync, Current
  <2>2. CASE q = p /\ GoTo(p, "withdraw")
    BY <1>0, <2>2, GoToFields
  <2>3. CASE q = p /\ GoActivate(p, s) /\ lease.owner = p
    <3>1. relay[p] \in RelayState /\ relay \in [Replicas -> RelayState]
      BY <1>0 DEF TypeOK, RelayTyped
    <3>2. /\ relay'[p].run = s
          /\ relay'[p].lease = [fencing |-> run[s].fencing, seq |-> run[s].next]
      BY <2>3, <3>1 DEF GoActivate, RelayState
    <3> QED
      BY <1>1, <2>3, <3>2
  <2> QED
    BY <1>4, <2>1, <2>2, <2>3
<1> QED
  BY <1>2, <1>5, InSyncEverywhere DEF WriterInv, WriterBehind, Sound, FencedWriterInSync, InSync

\* A child starts from the sequence of its permit.
LEMMA ActivateWriters ==
    ASSUME RefinementInv, RefinementInv', Promise!Onward, ExecutionInv, WriterInv,
           NEW p \in Replicas, activate(p)
    PROVE  WriterInv'
<1> DEFINE s == relay[p].run
           l == relay[p].lease
           d == [NoChild EXCEPT !.phase = "queued", !.lease = l, !.expected = l.seq]
<1>0. TypeOK /\ s \in Runs /\ relay[p].step = "activate"
  BY DEF RefinementInv, TypeOK, RelayTyped, activate
<1>1. UNCHANGED <<lease, run, events>>
  BY DEF activate, database
<1>2. UNCHANGED child \/ child' = [child EXCEPT ![p][s] = d]
  BY DEF activate
<1>3. \A q \in Replicas : relay'[q].step = "activate" => relay'[q] = relay[q]
  <2>1. GoIdle(p) \/ GoTo(p, "fail_activation")
    BY DEF activate
  <2>2. CASE GoIdle(p)
    BY <1>0, <2>2, GoIdleStays DEF IdleRelay
  <2>3. CASE GoTo(p, "fail_activation")
    BY <1>0, <2>3, GoToFields
  <2> QED
    BY <2>1, <2>2, <2>3
<1>4. PermitInSync'
  BY <1>1, <1>3 DEF WriterInv, PermitInSync, Current
<1>5. ASSUME NEW q \in Replicas, NEW r \in Runs
      PROVE  Sound(q, r)'
  <2>1. CASE child'[q][r] = child[q][r]
    BY <1>1, <2>1, SoundEverywhere DEF Sound, Writing, InSync
  <2>2. CASE q = p /\ r = s /\ child' = [child EXCEPT ![p][s] = d]
    <3>1. child'[q][r] = d
      BY <1>0, <2>2 DEF TypeOK, ChildTyped
    <3>2. d.phase = "queued" /\ d.lease = l /\ d.expected = l.seq /\ d.pending = "none"
      BY DEF NoChild
    <3>3. l.fencing <= run[s].fencing
      BY <1>0 DEF ExecutionInv, Overtaken
    <3>4. run[s].status = "running" /\ l.fencing = run[s].fencing =>
            lease.owner = p /\ l.seq = run[s].next
      BY <1>0 DEF WriterInv, PermitInSync, Current
    <3> HIDE DEF d, l, s
    <3> QED
      BY <1>1, <2>2, <3>1, <3>2, <3>3, <3>4 DEF Sound, Writing, InSync
  <2>3. child'[q][r] = child[q][r] \/ (q = p /\ r = s /\ child' = [child EXCEPT ![p][s] = d])
    BY <1>0, <1>2 DEF TypeOK, ChildTyped
  <2> QED
    BY <2>1, <2>2, <2>3
<1> QED
  BY <1>4, <1>5, InSyncEverywhere DEF WriterInv, WriterBehind, Sound, FencedWriterInSync, InSync

-----------------------------------------------------------------------------

\* One append of a child: received, replayed, refused, or committed without the
\* child knowing.
LEMMA AppendWriters ==
    ASSUME TypeOK, NEW p \in Replicas, NEW r \in Runs, Sound(p, r), UNCHANGED lease,
           NEW k \in ChunkKind \cup CheckpointKind, NEW received, NEW failed,
           AppendChunk(p, r, k, received, failed),
           \/ child[p][r].phase = "working" /\ received.pending = "none"
           \/ child[p][r].phase = "closing",
           received.phase = child[p][r].phase,
           received.lease = child[p][r].lease,
           received.expected = child[p][r].expected + 1,
           \/ failed.phase \notin LivePhase
           \/ /\ child[p][r].phase = "working" /\ failed.phase = "closing"
              /\ failed.lease = child[p][r].lease
              /\ failed.expected = child[p][r].expected
              /\ failed.pending = k \/ (failed.pending = "none" /\ k \in CheckpointKind)
    PROVE  Sound(p, r)'
<1> DEFINE c == child[p][r]
           d == child'[p][r]
<1>1. /\ run \in [Runs -> RunRow] /\ events \in [Runs -> SUBSET Event]
      /\ c.expected \in Nat /\ run[r].next \in Nat
  BY DEF TypeOK, DatabaseTyped, ChildTyped, ChildState, RunRow
<1>2. c.phase \in LivePhase /\ c.lease.fencing <= run[r].fencing
  BY DEF Sound, Writing, LivePhase
<1>3. \A e : SetChild(p, r, e) => d = e
  BY DEF SetChild, TypeOK, ChildTyped
<1>4. InSync(p, r)
  BY DEF Sound
<1> HIDE DEF d
<1>5. PICK early \in BOOLEAN :
        \/ /\ CanAppend(p, r, c.lease, c.expected, early)
           /\ InsertEvent(r, c.expected, k, c.lease.fencing)
           /\ run' = [run EXCEPT ![r].next = c.expected + 1]
           /\ SetChild(p, r, received) \/ SetChild(p, r, failed)
        \/ /\ ReplaysChunk(r, c.lease, c.expected, k)
           /\ SetChild(p, r, received)
           /\ UNCHANGED <<run, events>>
        \/ SetChild(p, r, failed) /\ UNCHANGED <<run, events>>
  BY DEF AppendChunk
<1>6. CASE /\ CanAppend(p, r, c.lease, c.expected, early)
           /\ InsertEvent(r, c.expected, k, c.lease.fencing)
           /\ run' = [run EXCEPT ![r].next = c.expected + 1]
           /\ SetChild(p, r, received) \/ SetChild(p, r, failed)
  <2>1. lease.owner = p
    BY <1>6 DEF CanAppend, validate_active_lease
  <2>2. /\ run'[r].next = c.expected + 1 /\ run'[r].fencing = run[r].fencing
    BY <1>1, <1>6 DEF RunRow
  <2> DEFINE e == [seq |-> c.expected, at |-> thread.next, kind |-> k, by |-> c.lease.fencing]
  <2>3. e \in events'[r] /\ e.seq = c.expected /\ e.kind = k
    BY <1>1, <1>6 DEF InsertEvent
  <2> HIDE DEF e
  <2>4. CASE d = received
    BY <1>2, <2>1, <2>2, <2>4 DEF Sound, Writing, InSync, d
  <2>5. CASE d = failed
    BY <1>2, <2>1, <2>2, <2>3, <2>5 DEF Sound, Writing, InSync, d, LivePhase
  <2> QED
    BY <1>3, <1>6, <2>4, <2>5
<1>7. CASE /\ ReplaysChunk(r, c.lease, c.expected, k)
           /\ SetChild(p, r, received)
           /\ UNCHANGED <<run, events>>
  <2>1. d = received
    BY <1>3, <1>7
  <2>2. run[r].fencing = c.lease.fencing /\ run[r].next > c.expected
    BY <1>7 DEF ReplaysChunk, validate_lease_identity
  <2>3. run[r].status = "running" => lease.owner = p /\ c.expected + 1 = run[r].next
    BY <1>1, <1>2, <1>4, <2>2 DEF InSync
  <2> QED
    BY <1>2, <1>7, <2>1, <2>3 DEF Sound, Writing, InSync, d
<1>8. CASE SetChild(p, r, failed) /\ UNCHANGED <<run, events>>
  <2>1. d = failed
    BY <1>3, <1>8
  <2>2. CASE failed.phase \notin LivePhase
    BY <2>1, <2>2 DEF Sound, Writing, InSync, d, LivePhase
  <2>3. CASE failed.phase \in LivePhase
    <3>1. /\ c.phase = "working" /\ failed.phase = "closing"
          /\ failed.lease = c.lease /\ failed.expected = c.expected
      BY <2>3
    <3>2. run[r].status = "running" /\ c.lease.fencing = run[r].fencing =>
            lease.owner = p /\ c.expected = run[r].next
      BY <1>2, <1>4, <3>1 DEF InSync
    <3> QED
      BY <1>2, <1>8, <2>1, <3>1, <3>2 DEF Sound, Writing, InSync, d
  <2> QED
    BY <2>2, <2>3
<1> QED
  BY <1>5, <1>6, <1>7, <1>8

\* The child moves on, or turns to its terminal, without a write.
LEMMA MoveWriters ==
    ASSUME TypeOK, NEW p \in Replicas, NEW r \in Runs, Sound(p, r), NEW d,
           SetChild(p, r, d), UNCHANGED <<lease, run, events>>,
           child[p][r].phase \in {"queued", "working"},
           d.phase \in {"working", "closing"}, d.lease = child[p][r].lease,
           d.expected = child[p][r].expected,
           d.phase = "working" => d.pending = child[p][r].pending
    PROVE  Sound(p, r)'
<1>1. child'[p][r] = d
  BY DEF SetChild, TypeOK, ChildTyped
<1> QED
  BY <1>1 DEF Sound, Writing, InSync, LivePhase

\* What a child does to its own run.
LEMMA OwnWriter ==
    ASSUME TypeOK, NEW p \in Replicas, NEW r \in Runs, Sound(p, r), Child(p, r)
    PROVE  Sound(p, r)'
<1> DEFINE c == child[p][r]
<1>1. c \in ChildState /\ (c.phase \in {"queued", "working"} => c.pending = "none")
  BY DEF TypeOK, ChildTyped, Sound
<1>2. CASE execute_activation(p, r)
  <2> DEFINE d == [c EXCEPT !.phase = "working"]
  <2>1. /\ d.phase = "working" /\ d.lease = c.lease /\ d.expected = c.expected
        /\ d.pending = c.pending
    BY <1>1 DEF ChildState
  <2>2. SetChild(p, r, d) /\ c.phase = "queued" /\ UNCHANGED <<lease, run, events>>
    BY <1>2 DEF execute_activation, Executing, database
  <2> HIDE DEF d
  <2> QED
    BY <2>1, <2>2, MoveWriters
<1>3. CASE \E goal \in TerminalStatus, pending \in {"none", "text"} :
             close_run(p, r, goal, pending)
  <2>1. PICK goal \in TerminalStatus, pending \in {"none", "text"} : close_run(p, r, goal, pending)
    BY <1>3
  <2> DEFINE d == [c EXCEPT !.phase = "closing", !.goal = goal, !.pending = pending]
  <2>2. d.phase = "closing" /\ d.lease = c.lease /\ d.expected = c.expected
    BY <1>1 DEF ChildState
  <2>3. /\ SetChild(p, r, d) /\ c.phase \in {"queued", "working"}
        /\ UNCHANGED <<lease, run, events>>
    BY <2>1 DEF close_run, Executing, database
  <2> HIDE DEF d
  <2> QED
    BY <2>2, <2>3, MoveWriters
<1>4. CASE lease_lost(p, r)
  <2> DEFINE d == [c EXCEPT !.phase = "closing", !.goal = "reconciliation_required"]
  <2>1. d.phase = "closing" /\ d.lease = c.lease /\ d.expected = c.expected
    BY <1>1 DEF ChildState
  <2>2. SetChild(p, r, d) /\ c.phase = "working" /\ UNCHANGED <<lease, run, events>>
    BY <1>4 DEF lease_lost, Executing, database
  <2> HIDE DEF d
  <2> QED
    BY <2>1, <2>2, MoveWriters
<1>5. ASSUME NEW k \in ChunkKind, append_semantic_chunk(p, r, k)
      PROVE  Sound(p, r)'
  <2> DEFINE received == [c EXCEPT !.expected = @ + 1]
             failed == [c EXCEPT !.phase = "closing", !.pending = k,
                                 !.goal = "reconciliation_required"]
  <2>1. c.phase = "working" /\ UNCHANGED lease /\ AppendChunk(p, r, k, received, failed)
    BY <1>5 DEF append_semantic_chunk, Executing
  <2>2. /\ received.phase = c.phase /\ received.lease = c.lease
        /\ received.expected = c.expected + 1 /\ received.pending = c.pending
    BY <1>1 DEF ChildState
  <2>3. /\ failed.phase = "closing" /\ failed.lease = c.lease
        /\ failed.expected = c.expected /\ failed.pending = k
    BY <1>1 DEF ChildState
  <2> HIDE DEF received, failed
  <2> QED
    BY <1>1, <2>1, <2>2, <2>3, AppendWriters
<1>6. ASSUME NEW k \in CheckpointKind, append_checkpoint(p, r, k)
      PROVE  Sound(p, r)'
  <2> DEFINE received == [c EXCEPT !.expected = @ + 1]
             failed == [c EXCEPT !.phase = "closing", !.goal = "reconciliation_required"]
  <2>1. c.phase = "working" /\ UNCHANGED lease /\ AppendChunk(p, r, k, received, failed)
    BY <1>6 DEF append_checkpoint, Executing
  <2>2. /\ received.phase = c.phase /\ received.lease = c.lease
        /\ received.expected = c.expected + 1 /\ received.pending = c.pending
    BY <1>1 DEF ChildState
  <2>3. /\ failed.phase = "closing" /\ failed.lease = c.lease
        /\ failed.expected = c.expected /\ failed.pending = c.pending
    BY <1>1 DEF ChildState
  <2> HIDE DEF received, failed
  <2> QED
    BY <1>1, <2>1, <2>2, <2>3, AppendWriters
<1>7. CASE flush(p, r)
  <2> DEFINE received == [c EXCEPT !.expected = @ + 1, !.pending = "none"]
             failed == Ended(c)
             k == c.pending
  <2>1. /\ c.phase = "closing" /\ k # "none" /\ UNCHANGED lease
        /\ AppendChunk(p, r, k, received, failed)
    BY <1>7 DEF flush, Executing
  <2>2. /\ received.phase = c.phase /\ received.lease = c.lease
        /\ received.expected = c.expected + 1
    BY <1>1 DEF ChildState
  <2>3. failed.phase \notin LivePhase
    BY DEF Ended, NoChild, LivePhase
  <2>4. k \in ChunkKind
    BY <1>1, <2>1 DEF ChildState
  <2> HIDE DEF received, failed, k
  <2> QED
    BY <2>1, <2>2, <2>3, <2>4, AppendWriters
<1>8. CASE finish_run(p, r) \/ abandon(p, r) \/ cleanup(p, r)
  <2>1. SetChild(p, r, Ended(c)) \/ SetChild(p, r, GoneChild)
    BY <1>8 DEF finish_run, abandon, cleanup
  <2>2. child'[p][r] = Ended(c) \/ child'[p][r] = GoneChild
    BY <2>1 DEF SetChild, TypeOK, ChildTyped
  <2>3. child'[p][r].phase \in {"ended", "gone"}
    BY <2>2 DEF Ended, GoneChild, NoChild
  <2> QED
    BY <2>3 DEF Sound, Writing, InSync, LivePhase
<1> QED
  BY <1>2, <1>3, <1>4, <1>5, <1>6, <1>7, <1>8 DEF Child

\* What a child leaves alone.
LEMMA ChildFrame ==
    ASSUME TypeOK, NEW p \in Replicas, NEW r \in Runs, Child(p, r)
    PROVE  /\ Executed(p, r)
           /\ UNCHANGED relay
           /\ \A q \in Replicas, s \in Runs : <<q, s>> # <<p, r>> => child'[q][s] = child[q][s]
           /\ \A s \in Runs \ {r} : JournalStays(s)
<1>0. run \in [Runs -> RunRow] /\ events \in [Runs -> SUBSET Event]
  BY DEF TypeOK, DatabaseTyped
<1>1. Executed(p, r) /\ UNCHANGED relay
  BY DEF Child, execute_activation, close_run, append_semantic_chunk, append_checkpoint,
     lease_lost, flush, finish_run, abandon, cleanup, Executing, Executed
<1>2. \E d : SetChild(p, r, d)
  BY DEF Child, execute_activation, close_run, append_semantic_chunk, append_checkpoint,
     lease_lost, flush, finish_run, abandon, cleanup, AppendChunk
<1>3. \A q \in Replicas, s \in Runs : <<q, s>> # <<p, r>> => child'[q][s] = child[q][s]
  BY <1>2 DEF SetChild, TypeOK, ChildTyped
<1>4. ASSUME NEW s \in Runs, s # r
      PROVE  JournalStays(s)
  <2>1. CASE UNCHANGED <<run, events>>
    BY <2>1 DEF JournalStays
  <2>2. ASSUME NEW k, NEW received, NEW failed, AppendChunk(p, r, k, received, failed)
        PROVE  JournalStays(s)
    <3>1. \/ UNCHANGED <<run, events>>
          \/ /\ run' = [run EXCEPT ![r].next = child[p][r].expected + 1]
             /\ InsertEvent(r, child[p][r].expected, k, child[p][r].lease.fencing)
      BY <2>2 DEF AppendChunk
    <3> QED
      BY <1>0, <1>4, <2>1, <3>1 DEF JournalStays, InsertEvent
  <2>3. CASE finish_run(p, r)
    <3>1. child[p][r].goal \in TerminalStatus
      BY <2>3 DEF finish_run, Executing, TypeOK, ChildTyped
    <3>2. \/ UNCHANGED <<run, events>>
          \/ \E code : WriteTerminal(r, child[p][r].goal, child[p][r].expected, code,
                                     child[p][r].lease.fencing)
      BY <2>3 DEF finish_run, database
    <3> QED
      BY <2>1, <3>1, <3>2, TerminalJournal
  <2>4. CASE \/ \E k \in ChunkKind : append_semantic_chunk(p, r, k)
             \/ \E k \in CheckpointKind : append_checkpoint(p, r, k)
             \/ flush(p, r)
    BY <2>2, <2>4 DEF append_semantic_chunk, append_checkpoint, flush
  <2>5. CASE \/ execute_activation(p, r) \/ lease_lost(p, r) \/ abandon(p, r) \/ cleanup(p, r)
             \/ \E goal \in TerminalStatus, pending \in {"none", "text"} :
                  close_run(p, r, goal, pending)
    <3>1. UNCHANGED <<run, events>>
      BY <2>5 DEF database, execute_activation, lease_lost, abandon, cleanup, close_run
    <3> QED
      BY <2>1, <3>1
  <2> QED
    BY <2>3, <2>4, <2>5 DEF Child
<1> QED
  BY <1>1, <1>3, <1>4

LEMMA ChildWriters ==
    ASSUME RefinementInv, RefinementInv', Promise!Onward, ExecutionInv, WriterInv,
           NEW p \in Replicas, NEW r \in Runs, Child(p, r)
    PROVE  WriterInv'
<1>0. TypeOK
  BY DEF RefinementInv
<1>1. /\ Executed(p, r) /\ UNCHANGED relay
      /\ \A q \in Replicas, s \in Runs : <<q, s>> # <<p, r>> => child'[q][s] = child[q][s]
      /\ \A s \in Runs \ {r} : JournalStays(s)
  BY <1>0, ChildFrame
<1>2. \A q \in Replicas : /\ Executed(q, r) => q = p
                          /\ ~Permit(q, r)
  BY <1>1 DEF ExecutionInv, OnePermit
<1>3. ASSUME NEW q \in Replicas, NEW s \in Runs
      PROVE  Sound(q, s)'
  <2>1. Sound(q, s)
    BY SoundEverywhere
  <2>2. CASE q = p /\ s = r
    BY <1>0, <2>1, <2>2, OwnWriter
  <2>3. CASE s # r
    <3>1. child'[q][s] = child[q][s] /\ JournalStays(s)
      BY <1>1, <2>3
    <3> QED
      BY <2>1, <3>1, WriterKept DEF WriterStays
  <2>4. CASE s = r /\ q # p
    <3>1. child'[q][s] = child[q][s] /\ child[q][s].phase = "none"
      BY <1>1, <1>2, <2>4 DEF Executed
    <3> QED
      BY <3>1 DEF Sound, Writing, InSync, LivePhase
  <2> QED
    BY <2>2, <2>3, <2>4
<1>4. PermitInSync'
  <2> SUFFICES ASSUME NEW q \in Replicas, NEW s \in Runs, relay'[q].run = s,
                      relay'[q].step = "activate", Current(q, s)'
               PROVE  lease'.owner = q /\ relay'[q].lease.seq = run'[s].next
    BY DEF PermitInSync
  <2>1. relay'[q] = relay[q] /\ Permit(q, s)
    BY <1>1 DEF Permit, PermitStep
  <2>2. s # r
    BY <1>2, <2>1
  <2> QED
    BY <1>1, <2>1, <2>2, PermitKept DEF WriterInv
<1> QED
  BY <1>3, <1>4, InSyncEverywhere DEF WriterInv, WriterBehind, Sound, FencedWriterInSync, InSync

\* A stop signals the children, the end of the process takes them along.
LEMMA LifeWriters ==
    ASSUME TypeOK, NEW p \in Replicas, Life(p)
    PROVE  /\ \A q \in Replicas, r \in Runs : WriterStays(q, r)
           /\ \A q \in Replicas : relay'[q].step = "activate" => relay'[q] = relay[q]
<1>1. child \in [Replicas -> [Runs -> ChildState]]
  BY DEF TypeOK, ChildTyped
<1>2. ASSUME NEW q \in Replicas, NEW r \in Runs
      PROVE  WriterStays(q, r)
  <2>1. CASE stop(p)
    <3>1. child'[q][r] = child[q][r] \/ child'[q][r] = [child[q][r] EXCEPT !.cancelled = TRUE]
      BY <1>1, <2>1 DEF stop
    <3>2. child[q][r] \in ChildState
      BY <1>1
    <3> QED
      BY <3>1, <3>2 DEF WriterStays, ChildState
  <2>2. CASE stop_deadline(p) \/ crash(p)
    <3>1. child'[q][r] = child[q][r] \/ child'[q][r] = Over(child[q][r])
      BY <1>1, <2>2 DEF stop_deadline, crash
    <3>2. Over(child[q][r]).phase \notin LivePhase
      BY DEF Over, NoChild, GoneChild, LivePhase
    <3> QED
      BY <3>1, <3>2 DEF WriterStays
  <2> QED
    BY <2>1, <2>2 DEF Life
<1>3. UNCHANGED relay \/ GoIdle(p)
  BY DEF Life, stop, stop_deadline, crash, GoIdle
<1>4. CASE GoIdle(p)
  BY <1>2, <1>4, GoIdleStays DEF IdleRelay
<1> QED
  BY <1>2, <1>3, <1>4

LEMMA WriterStep ==
    ASSUME RefinementInv, ExecutionInv, WriterInv, [Next]_vars
    PROVE  WriterInv'
<1>0. TypeOK /\ RefinementInv' /\ Promise!Onward
  BY RefinementStep DEF RefinementInv
<1>1. ASSUME NEW p \in Replicas, Relay(p)
      PROVE  WriterInv'
  BY <1>0, <1>1, RelayWriters, AcknowledgeWriters, ActivateWriters
<1>2. ASSUME NEW p \in Replicas, NEW r \in Runs, Child(p, r)
      PROVE  WriterInv'
  BY <1>0, <1>2, ChildWriters
<1>3. CASE UNCHANGED <<relay, child>> /\ \A r \in Runs : JournalStays(r)
  BY <1>0, <1>3, QuietWriters DEF WriterStays
<1>4. ASSUME NEW p \in Replicas, NEW r \in Runs, BeginRun(p, r)
      PROVE  WriterInv'
  <2>1. UNCHANGED <<relay, child>>
    BY <1>4 DEF BeginRun, process
  <2>2. \A s \in Runs : run[s].status # "running"
    BY <1>4 DEF BeginRun, blocks_foreground_slot
  <2> QED
    BY <1>3, <2>1, <2>2 DEF JournalStays
<1>5. ASSUME NEW r \in Runs, RequestCancellation(r) \/ DrainClosedHistory(r)
      PROVE  WriterInv'
  BY <1>3, <1>5 DEF RequestCancellation, DrainClosedHistory, process, JournalStays
<1>6. CASE CloseHistory \/ Timer \/ UNCHANGED vars
  <2>1. UNCHANGED <<run, events, relay, child>>
    BY <1>6 DEF CloseHistory, Timer, lease_expires, dispatch_claim_expires,
       cancel_claim_expires, vars, database, process
  <2> QED
    BY <1>3, <2>1 DEF JournalStays
<1>7. ASSUME NEW p \in Replicas, Life(p)
      PROVE  WriterInv'
  <2>1. \A r \in Runs : JournalStays(r)
    BY <1>7 DEF Life, stop, stop_deadline, crash, database, JournalStays
  <2> QED
    BY <1>0, <1>7, <2>1, LifeWriters, QuietWriters
<1> QED
  BY <1>1, <1>2, <1>4, <1>5, <1>6, <1>7 DEF Next, Request

\* While its token is current, a child writes at the sequence the journal is at,
\* or repeats the one event whose commit it did not see: it overwrites nothing,
\* skips nothing, and its replay finds its own chunk (acknowledge_dispatch,
\* activate, append_chunk, replay_event).
THEOREM WriterInSync == Spec => []FencedWriterInSync
<1>1. Init => WriterInv
  <2> SUFFICES ASSUME Init PROVE WriterInv
    OBVIOUS
  <2>1. /\ \A p \in Replicas : relay[p].step = "idle"
        /\ \A p \in Replicas, r \in Runs : child[p][r].phase = "none"
    BY DEF Init, IdleRelay, NoChild
  <2> QED
    BY <2>1 DEF WriterInv, WriterBehind, PermitInSync, FencedWriterInSync, Writing, LivePhase
<1>2. RefinementInv /\ ExecutionInv /\ WriterInv /\ [Next]_vars => WriterInv'
  BY WriterStep
<1>3. WriterInv => FencedWriterInSync
  BY DEF WriterInv
<1> QED
  BY <1>1, <1>2, <1>3, RefinementAlways, ExecutionAlways, PTL DEF Spec

=============================================================================

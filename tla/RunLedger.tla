------------------------------ MODULE RunLedger ------------------------------
(***************************************************************************)
(* What the durable run runtime promises to whoever reads the database.    *)
(*                                                                         *)
(* A thread has at most one foreground run.  Its runs are journals that    *)
(* only grow, one event at a time, until their single terminal event.      *)
(* Every event is written under the fencing token that is current when it  *)
(* is written; a token passes to another holder only by growing.  There    *)
(* are no outboxes, claims, timers, processes or failures here: RunRuntime *)
(* has those, and implements this specification.                           *)
(***************************************************************************)
EXTENDS Integers

CONSTANTS
    Replicas,    \* who may hold the lease of the thread
    Runs         \* the runs of the thread

VARIABLES
    holder,      \* thread_leases.owner_id
    token,       \* thread_leases.fencing_token
    clock,       \* threads.next_event_seq
    status,      \* runs.status
    epoch,       \* runs.lease_fencing_token
    length,      \* runs.next_event_seq
    journal      \* run_events

ledger == <<holder, token, clock, status, epoch, length, journal>>

Final      == {"completed", "failed", "cancelled", "reconciliation_required"}
Foreground == {"running", "reconciliation_required"}
Content    == {"text", "reasoning", "tool_exchange", "remote_projection"}
Kind       == {"started", "scrubbed"} \cup Content \cup Final

Entry == [seq : Nat, at : Nat, kind : Kind, by : Nat]

LedgerInit ==
    /\ holder \notin Replicas
    /\ token = 0
    /\ clock = 0
    /\ status = [r \in Runs |-> "absent"]
    /\ epoch = [r \in Runs |-> 0]
    /\ length = [r \in Runs |-> 0]
    /\ journal = [r \in Runs |-> {}]

\* What is left of an event of a run that ended: nothing that was only for the
\* running one.
SealedEntry(e) ==
    [seq |-> e.seq, at |-> e.at, by |-> e.by,
     kind |-> IF e.kind \in {"reasoning", "remote_projection"} THEN "scrubbed" ELSE e.kind]

Sealed(entries) == {SealedEntry(e) : e \in entries}

\* The lease passes to p under the next token.
Fence(p) == holder' = p /\ token' = token + 1

\* The next event of run r, written on top of what is kept of its journal,
\* under the token that holds after the step.
Write(r, k, kept) ==
    /\ journal' = [journal EXCEPT ![r] =
                     kept \cup {[seq |-> length[r], at |-> clock, kind |-> k, by |-> token']}]
    /\ length' = [length EXCEPT ![r] = @ + 1]
    /\ clock' = clock + 1
    /\ epoch' = [epoch EXCEPT ![r] = token']

\* A run begins when no run of the thread is in the foreground.
Begin(r) ==
    /\ status[r] = "absent"
    /\ \A q \in Runs : status[q] \notin Foreground
    /\ UNCHANGED <<holder, token>> \/ \E p \in Replicas : Fence(p)
    /\ status' = [status EXCEPT ![r] = "running"]
    /\ Write(r, "started", journal[r])

\* The holder of the token extends the journal of its running run.
Append(r, k) ==
    /\ status[r] = "running"
    /\ UNCHANGED <<holder, token, status>>
    /\ Write(r, k, journal[r])

\* The running run ends, once, at the hands of the holder or of whoever fences
\* the holder off in the same transaction.
Finish(r, k) ==
    /\ status[r] = "running"
    /\ UNCHANGED <<holder, token>> \/ \E p \in Replicas : Fence(p)
    /\ status' = [status EXCEPT ![r] = k]
    /\ Write(r, k, Sealed(journal[r]))

\* The running run and the lease move to the next token together.
Takeover(p, r) ==
    /\ status[r] = "running"
    /\ Fence(p)
    /\ epoch' = [epoch EXCEPT ![r] = token']
    /\ UNCHANGED <<clock, status, length, journal>>

LedgerNext ==
    \E r \in Runs :
        \/ Begin(r)
        \/ \E k \in Content : Append(r, k)
        \/ \E k \in Final : Finish(r, k)
        \/ \E p \in Replicas : Takeover(p, r)

LedgerSpec == LedgerInit /\ [][LedgerNext]_ledger

-----------------------------------------------------------------------------
(* What follows for a reader of the database. *)

LedgerTyped ==
    /\ token \in Nat
    /\ clock \in Nat
    /\ status \in [Runs -> {"absent", "running"} \cup Final]
    /\ epoch \in [Runs -> Nat]
    /\ length \in [Runs -> Nat]
    /\ journal \in [Runs -> SUBSET Entry]

\* One event at every sequence of a journal, none beyond its length.
Dense ==
    \A r \in Runs :
        /\ \A e \in journal[r] : e.seq < length[r]
        /\ \A n \in 0 .. length[r] - 1 : \E e \in journal[r] : e.seq = n
        /\ \A e, f \in journal[r] : e.seq = f.seq => e = f

\* No two events of the thread share a thread sequence.
Ordered ==
    \A r, q \in Runs : \A e \in journal[r], f \in journal[q] :
        /\ e.at < clock
        /\ e.at = f.at => r = q /\ e = f

\* The terminal event is the last one and says the status.
Ends ==
    \A r \in Runs :
        /\ \A e \in journal[r] :
            e.kind \in Final => e.kind = status[r] /\ e.seq + 1 = length[r]
        /\ status[r] \in Final => \E e \in journal[r] : e.kind = status[r]

\* At most one run is in the foreground.
Exclusive ==
    \A r, q \in Runs : status[r] \in Foreground /\ status[q] \in Foreground => r = q

\* A running run is bound to the current token.
Bound == \A r \in Runs : status[r] = "running" => epoch[r] = token

=============================================================================

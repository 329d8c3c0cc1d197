---------------------------- MODULE ThreadHistory ----------------------------
(***************************************************************************)
(* The thread history authority: closing the history of a thread, draining *)
(* its runs, clearing its bodies in bounded batches and recording the      *)
(* completion (openbot-infra/src/thread_history_authority/*.rs, with the   *)
(* guards of sql/native_0052.sql).                                         *)
(*                                                                         *)
(* The actors are database transactions of any process.  They meet at two  *)
(* rows of a thread: its head H, which writers share and a closer or the   *)
(* completion takes exclusively, and its intent Q, which serialises the    *)
(* batches.  Every lock is NOWAIT: an action that needs a lock somebody    *)
(* else has is not enabled, the caller got Unavailable and may call again. *)
(* A transaction may fail or its process end at any point before COMMIT.   *)
(*                                                                         *)
(* Transaction ids are handed out in order; the snapshot of a reader has   *)
(* the oldest id in progress as its xmin.  Row contents are abstracted to  *)
(* present or cleared, the nine tables to one.                             *)
(***************************************************************************)
EXTENDS Naturals, FiniteSets, Sequences, FiniteSetsExt

CONSTANTS
    Threads,
    Rows,        \* body rows of a thread
    Runs,        \* runs of a thread
    Procs,       \* transactions that write
    Readers,     \* transactions that only read
    Askers,      \* who may ask for a stop and clear
    Requests,    \* request ids
    BatchLimit,  \* ROW_LIMIT
    MaxXid,      \* bound: transaction ids
    Nothing

HistoryAssumption ==
    /\ BatchLimit \in Nat \ {0}
    /\ MaxXid \in Nat \ {0}
    /\ IsFiniteSet(Rows)
    /\ Nothing \notin Askers \cup Requests \cup Threads \cup Rows \cup Runs

VARIABLES
    head,        \* phase of the head of each thread
    intent,      \* the clear intent of each thread
    deleted,     \* threads that are soft-deleted
    row,         \* body rows
    run,         \* runs
    acceptance,  \* the one cancellation acceptance of a run
    batches,     \* committed batches of the thread's operation
    completion,  \* completion record of the operation
    audits,      \* completion audit events of each thread
    tx,          \* the open transaction of each process
    snapshot,    \* the snapshot of each reader
    nextXid,
    acks,        \* history: intents that were acknowledged to their actor
    conflicts    \* history: requests that were refused as conflicts

historyVars == <<head, intent, deleted, row, run, acceptance, batches, completion, audits,
          tx, snapshot, nextXid, acks, conflicts>>

-----------------------------------------------------------------------------

NoTx == [kind |-> "none", thread |-> Nothing, item |-> Nothing, actor |-> Nothing,
         rows |-> {}, xid |-> 0]

Intent(kind, request, actor, op) ==
    [kind |-> kind, request |-> request, actor |-> actor, op |-> op]

NoIntent == Intent("none", Nothing, Nothing, 0)
NoCompletion == [batches |-> 0, rows |-> 0]
NoSnapshot == [xmin |-> 0, sees |-> {}]

Content(t) == {b \in DOMAIN row[t] : row[t][b] = "content"}
Running(t) == {r \in DOMAIN run[t] : run[t][r] = "running"}
Completed(t) == completion[t] # NoCompletion
Open(t) == head[t] = "open"

Idle(p) == tx[p].kind = "none"
On(p, t) == tx[p].thread = t

\* thread_history_lock_joint leaves a writer and a batch with H SHARE.
Sharing(p, t) == On(p, t) /\ tx[p].kind \in {"write", "begin", "batch"}

\* FOR UPDATE NOWAIT on H: a closer and the completion.
Excluding(p, t) == On(p, t) /\ tx[p].kind \in {"locked", "inserted", "maintain", "complete"}

HeadShareable(t) == \A p \in Procs : ~Excluding(p, t)

HeadFree(t) == \A p \in Procs : ~Sharing(p, t) /\ ~Excluding(p, t)

\* FOR UPDATE NOWAIT on Q: batches and the completion of an operation.
IntentFree(t) == \A p \in Procs : ~(On(p, t) /\ tx[p].kind \in {"batch", "complete"})

Xids == {tx[p].xid : p \in {p \in Procs : ~Idle(p)}}

\* The transaction of p begins.
Begin(p, kind, t, item, actor, rows) ==
    /\ Idle(p)
    /\ nextXid < MaxXid
    /\ tx' = [tx EXCEPT ![p] = [kind |-> kind, thread |-> t, item |-> item, actor |-> actor,
                                rows |-> rows, xid |-> nextXid]]
    /\ nextXid' = nextXid + 1

End(p) == tx' = [tx EXCEPT ![p] = NoTx]

records == <<batches, completion, audits>>
answers == <<acks, conflicts>>
history == <<row, run, acceptance>>

HistoryInit ==
    /\ head = [t \in Threads |-> "open"]
    /\ intent = [t \in Threads |-> NoIntent]
    /\ deleted = {}
    /\ row = [t \in Threads |-> [b \in Rows |-> "absent"]]
    /\ run = [t \in Threads |-> [r \in Runs |-> "absent"]]
    /\ acceptance = [t \in Threads |-> [r \in Runs |-> "none"]]
    /\ batches = [t \in Threads |-> <<>>]
    /\ completion = [t \in Threads |-> NoCompletion]
    /\ audits = [t \in Threads |-> 0]
    /\ tx = [p \in Procs |-> NoTx]
    /\ snapshot = [x \in Readers |-> NoSnapshot]
    /\ nextXid = 1
    /\ acks = {}
    /\ conflicts = {}

-----------------------------------------------------------------------------
(* Writers: bodies and new runs, admitted by require_open. *)

write(p, t, b) ==
    /\ Open(t) /\ HeadShareable(t)
    /\ row[t][b] = "absent"
    /\ Begin(p, "write", t, b, Nothing, {})
    /\ UNCHANGED <<head, intent, deleted, history, records, snapshot, answers>>

begin_run(p, t, r) ==
    /\ Open(t) /\ HeadShareable(t)
    /\ t \notin deleted
    /\ run[t][r] = "absent"
    /\ Begin(p, "begin", t, r, Nothing, {})
    /\ UNCHANGED <<head, intent, deleted, history, records, snapshot, answers>>

write_commit(p) ==
    /\ LET t == tx[p].thread
           i == tx[p].item
       IN  \/ /\ tx[p].kind = "write"
              /\ row' = [row EXCEPT ![t][i] = IF @ = "absent" THEN "content" ELSE @]
              /\ UNCHANGED run
           \/ /\ tx[p].kind = "begin"
              /\ run' = [run EXCEPT ![t][i] = IF @ = "absent" THEN "running" ELSE @]
              /\ UNCHANGED row
    /\ End(p)
    /\ UNCHANGED <<head, intent, deleted, acceptance, records, snapshot, nextXid, answers>>

\* A transaction is rolled back: refused, timed out, or its process ended.
rollback(p) ==
    /\ ~Idle(p)
    /\ End(p)
    /\ UNCHANGED <<head, intent, deleted, history, records, snapshot, nextXid, answers>>

delete_thread(t) ==
    /\ t \notin deleted
    /\ HeadFree(t)
    /\ deleted' = deleted \cup {t}
    /\ UNCHANGED <<head, intent, history, records, tx, snapshot, nextXid, answers>>

-----------------------------------------------------------------------------
(* close_for_stop_clear_before: an actor asks to stop and clear a thread. *)

Answer(t, q, a) == [thread |-> t, request |-> q, actor |-> a]

\* request_used_elsewhere reads what is committed.
UsedElsewhere(q, t) == \E u \in Threads \ {t} : intent[u].request = q

\* record_intent: the exclusive head, then a request id used elsewhere is refused.
stop_clear(p, t, q, a) ==
    /\ t \notin deleted
    /\ Open(t) /\ HeadFree(t)
    /\ \/ /\ UsedElsewhere(q, t)
          /\ Idle(p)
          /\ conflicts' = conflicts \cup {Answer(t, q, a)}
          /\ UNCHANGED <<tx, nextXid>>
       \/ /\ ~UsedElsewhere(q, t)
          /\ Begin(p, "locked", t, q, a, {})
          /\ UNCHANGED conflicts
    /\ UNCHANGED <<head, intent, deleted, history, records, snapshot, acks>>

\* The insert waits for an uncommitted one of the same request id.
UniqueWait(p) ==
    \A o \in Procs \ {p} : ~(tx[o].kind = "inserted" /\ tx[o].item = tx[p].item)

\* INSERT_INTENT ... ON CONFLICT DO NOTHING, and the committed winner is read.
insert_intent(p) ==
    /\ tx[p].kind = "locked"
    /\ UniqueWait(p)
    /\ LET t == tx[p].thread
           q == tx[p].item
       IN  IF UsedElsewhere(q, t)
           THEN /\ conflicts' = conflicts \cup {Answer(t, q, tx[p].actor)}
                /\ End(p)
           ELSE /\ tx' = [tx EXCEPT ![p].kind = "inserted"]
                /\ UNCHANGED conflicts
    /\ UNCHANGED <<head, intent, deleted, history, records, snapshot, nextXid, acks>>

Close(t, i) ==
    /\ head' = [head EXCEPT ![t] = "closed"]
    /\ intent' = [intent EXCEPT ![t] = i]

\* The intent and the closed head commit together; the acknowledgement may be
\* lost or come after the deadline.
close_commit(p) ==
    /\ tx[p].kind = "inserted"
    /\ LET i == Intent("stop_clear", tx[p].item, tx[p].actor, tx[p].xid)
       IN  /\ Close(tx[p].thread, i)
           /\ acks' \in {acks, acks \cup {[thread |-> tx[p].thread, intent |-> i]}}
    /\ End(p)
    /\ UNCHANGED <<deleted, history, records, snapshot, nextXid, conflicts>>

\* classify_closed: the same request of the same actor is the original intent.
Replays(i, q, a) == i.kind = "stop_clear" /\ i.request = q /\ i.actor = a

classify_closed(t, q, a) ==
    /\ t \notin deleted
    /\ ~Open(t) /\ HeadShareable(t)
    /\ IF Replays(intent[t], q, a)
       THEN /\ acks' = acks \cup {[thread |-> t,
                                   intent |-> Intent("stop_clear", q, a, intent[t].op)]}
            /\ UNCHANGED conflicts
       ELSE /\ conflicts' = conflicts \cup {Answer(t, q, a)}
            /\ UNCHANGED acks
    /\ UNCHANGED <<head, intent, deleted, history, records, tx, snapshot, nextXid>>

\* close_deleted_history_before: trusted maintenance of a soft-deleted thread.
maintain(p, t) ==
    /\ t \in deleted
    /\ Open(t) /\ HeadFree(t)
    /\ Begin(p, "maintain", t, Nothing, Nothing, {})
    /\ UNCHANGED <<head, intent, deleted, history, records, snapshot, answers>>

maintain_commit(p) ==
    /\ tx[p].kind = "maintain"
    /\ Close(tx[p].thread, Intent("maintenance_clear", Nothing, Nothing, tx[p].xid))
    /\ End(p)
    /\ UNCHANGED <<deleted, history, records, snapshot, nextXid, answers>>

-----------------------------------------------------------------------------
(* drain_closed_history_runs_before, the user's own cancellation, and the    *)
(* consumer of acceptances (RunRuntime).                                     *)

\* stop_one_run: an acceptance that is already there is left as it is.
drain(t, r) ==
    /\ ~Open(t)
    /\ run[t][r] = "running"
    /\ acceptance[t][r] = "none"
    /\ acceptance' = [acceptance EXCEPT ![t][r] = "history"]
    /\ UNCHANGED <<head, intent, deleted, row, run, records, tx, snapshot, nextXid, answers>>

user_cancels(t, r) ==
    /\ run[t][r] = "running"
    /\ acceptance[t][r] = "none"
    /\ acceptance' = [acceptance EXCEPT ![t][r] = "actor"]
    /\ UNCHANGED <<head, intent, deleted, row, run, records, tx, snapshot, nextXid, answers>>

\* The terminal of a run of a closed history is written without a body.
run_ends(t, r) ==
    /\ run[t][r] = "running"
    /\ run' = [run EXCEPT ![t][r] = "terminal"]
    /\ UNCHANGED <<head, intent, deleted, row, acceptance, records, tx, snapshot, nextXid, answers>>

-----------------------------------------------------------------------------
(* clear_closed_history_before. *)

Cleared(t) == {b \in Rows : row[t][b] = "cleared"}

LastBatch(t) == batches[t][Len(batches[t])].xid

\* select_batch takes the first rows that are pending, as many as the limit; a
\* history without bodies gets one empty batch.
BatchRows(t) ==
    {s \in SUBSET Content(t) : Cardinality(s) = Min({BatchLimit, Cardinality(Content(t))})}

\* has_live_runs.
Drained(t) == Running(t) = {}

NeedsBatch(t) == Content(t) # {} \/ batches[t] = <<>>

\* clear_original: the intent is locked, the runs have ended, bodies remain or no
\* batch was ever written.  The inserted batch shares the head.
clear_batch(p, t) ==
    /\ ~Open(t)
    /\ IntentFree(t) /\ HeadShareable(t)
    /\ ~Completed(t)
    /\ Drained(t)
    /\ NeedsBatch(t)
    /\ \E s \in BatchRows(t) : Begin(p, "batch", t, Nothing, Nothing, s)
    /\ UNCHANGED <<head, intent, deleted, history, records, snapshot, answers>>

batch_commit(p) ==
    /\ tx[p].kind = "batch"
    /\ LET t == tx[p].thread
       IN  /\ row' = [row EXCEPT ![t] = [b \in Rows |-> IF b \in tx[p].rows THEN "cleared" ELSE @[b]]]
           /\ batches' = [batches EXCEPT ![t] =
                            Append(@, [xid |-> tx[p].xid, rows |-> Cardinality(tx[p].rows)])]
    /\ End(p)
    /\ UNCHANGED <<head, intent, deleted, run, acceptance, completion, audits, snapshot, nextXid,
                   answers>>

MutMayStillSee(x, t) == snapshot[x].xmin < LastBatch(t)

\* backend_xmin <= the last batch: an equal xmin may have seen it in progress.
MayStillSee(x, t) == snapshot[x].xmin <= LastBatch(t)

readers_quiescent(t) ==
    \A x \in Readers : snapshot[x] # NoSnapshot => ~MayStillSee(x, t)

\* What the completion trigger requires once more at the end.
MayComplete(t) ==
    /\ Drained(t)
    /\ Content(t) = {}
    /\ batches[t] # <<>>
    /\ readers_quiescent(t)

\* clear_completion: the exclusive head, and everything read again under it.
clear_completion(p, t) ==
    /\ ~Open(t)
    /\ IntentFree(t) /\ HeadFree(t)
    /\ ~Completed(t)
    /\ MayComplete(t)
    /\ Begin(p, "complete", t, Nothing, Nothing, {})
    /\ UNCHANGED <<head, intent, deleted, history, records, snapshot, answers>>

\* The rows of the batches: a sum over the sequence.
CountRows(bs) ==
    LET upTo[n \in 0..Len(bs)] == IF n = 0 THEN 0 ELSE upTo[n - 1] + bs[n].rows
    IN  upTo[Len(bs)]

\* The record and its audit event commit together.
completion_commit(p) ==
    /\ tx[p].kind = "complete"
    /\ LET t == tx[p].thread
       IN  /\ MayComplete(t)
           /\ completion' = [completion EXCEPT ![t] =
                               [batches |-> Len(batches[t]), rows |-> CountRows(batches[t])]]
           /\ audits' = [audits EXCEPT ![t] = @ + 1]
    /\ End(p)
    /\ UNCHANGED <<head, intent, deleted, history, batches, snapshot, nextXid, answers>>

-----------------------------------------------------------------------------
(* Readers. *)

read(x) ==
    /\ snapshot[x] = NoSnapshot
    /\ snapshot' = [snapshot EXCEPT ![x] =
                      [xmin |-> Min(Xids \cup {nextXid}),
                       sees |-> {s \in Threads \X Rows : s[2] \in Content(s[1])}]]
    /\ UNCHANGED <<head, intent, deleted, history, records, tx, nextXid, answers>>

read_ends(x) ==
    /\ snapshot[x] # NoSnapshot
    /\ snapshot' = [snapshot EXCEPT ![x] = NoSnapshot]
    /\ UNCHANGED <<head, intent, deleted, history, records, tx, nextXid, answers>>

Close_steps(p) ==
    \/ \E t \in Threads, q \in Requests, a \in Askers : stop_clear(p, t, q, a)
    \/ insert_intent(p) \/ close_commit(p)
    \/ \E t \in Threads : maintain(p, t)
    \/ maintain_commit(p)

Clear_steps(p) ==
    \/ \E t \in Threads : clear_batch(p, t) \/ clear_completion(p, t)
    \/ batch_commit(p) \/ completion_commit(p)

HistoryNext ==
    \/ \E p \in Procs :
         \/ \E t \in Threads, b \in Rows : write(p, t, b)
         \/ \E t \in Threads, r \in Runs : begin_run(p, t, r)
         \/ write_commit(p) \/ rollback(p)
         \/ Close_steps(p) \/ Clear_steps(p)
    \/ \E t \in Threads :
         \/ delete_thread(t)
         \/ \E q \in Requests, a \in Askers : classify_closed(t, q, a)
         \/ \E r \in Runs : drain(t, r) \/ user_cancels(t, r) \/ run_ends(t, r)
    \/ \E x \in Readers : read(x) \/ read_ends(x)

HistorySpec == HistoryInit /\ [][HistoryNext]_historyVars

\* A transaction is bounded by its deadline (server_transaction_timeout), a
\* reader ends, an accepted cancellation ends its run (RunRuntime), and whoever
\* drains and clears a closed history repeats the bounded calls.
HistorySteps ==
    ({"write", "close", "clear"} \X Procs) \cup ({"drain", "end"} \X Threads \X Runs)
      \cup ({"read"} \X Readers)

HistoryStep(f) ==
    \/ f[1] = "write" /\ (write_commit(f[2]) \/ rollback(f[2]))
    \/ f[1] = "close" /\ (insert_intent(f[2]) \/ close_commit(f[2]) \/ maintain_commit(f[2]) \/ rollback(f[2]))
    \/ f[1] = "clear" /\ Clear_steps(f[2])
    \/ f[1] = "drain" /\ drain(f[2], f[3])
    \/ f[1] = "end" /\ acceptance[f[2]][f[3]] # "none" /\ run_ends(f[2], f[3])
    \/ f[1] = "read" /\ read_ends(f[2])

-----------------------------------------------------------------------------
(* Properties. *)

\* A closed history is completed, whatever its runs and readers were doing, also
\* when it never had a body: unless failing transactions use up every id.
ClosedIsCompleted ==
    \A t \in Threads : []<>(Open(t) \/ Completed(t) \/ nextXid = MaxXid)

\* What the tables of the thread history and its transactions hold; an intent
\* and a closed head always exist together.
HistoryTypeOK ==
    /\ head \in [Threads -> {"open", "closed"}]
    /\ \A t \in Threads : (head[t] = "closed") <=> (intent[t] # NoIntent)
    /\ deleted \subseteq Threads
    /\ row \in [Threads -> [Rows -> {"absent", "content", "cleared"}]]
    /\ run \in [Threads -> [Runs -> {"absent", "running", "terminal"}]]
    /\ acceptance \in [Threads -> [Runs -> {"none", "actor", "history"}]]
    /\ audits \in [Threads -> {0, 1}]
    /\ nextXid \in 1..MaxXid

\* From the moment a history is closed no body appears in it and no run begins,
\* although writers that were admitted before may still commit: they share the
\* head, which the closer takes exclusively (lock_thread_write_disposition).
ClosedNeverGrows ==
    [][\A t \in Threads : ~Open(t) =>
         /\ Content(t)' \subseteq Content(t)
         /\ Running(t)' \subseteq Running(t)]_historyVars

\* A completed clear is true of every observer: no body is left, no run of the
\* thread is alive, and no reader still holds a snapshot in which a body of the
\* thread is visible (thread_history_clear_readers_quiescent).
CompletedMeansErased ==
    \A t \in Threads : Completed(t) =>
        /\ Content(t) = {}
        /\ Running(t) = {}
        /\ \A x \in Readers, b \in Rows : <<t, b>> \notin snapshot[x].sees

\* The completion counts every batch and every row exactly once and is audited
\* once: no batch of another call slips in beside it (Q and H NOWAIT).
CompletionExact ==
    \A t \in Threads :
        /\ audits[t] = IF Completed(t) THEN 1 ELSE 0
        /\ Completed(t) => completion[t] = [batches |-> Len(batches[t]), rows |-> Cardinality(Cleared(t))]
        /\ CountRows(batches[t]) = Cardinality(Cleared(t))

\* An acknowledged intent is the one that closed the history, for ever, also when
\* the acknowledgement is an exact replay after a lost COMMIT; and a request that
\* closed a thread is never answered as a conflict.
AcknowledgedIntentHolds ==
    /\ \A k \in acks : intent[k.thread] = k.intent
    /\ \A c \in conflicts : ~Replays(intent[c.thread], c.request, c.actor)

\* One request id closes at most one thread (REQUEST_OWNER and the unique key).
RequestClosesOneThread ==
    \A t, u \in Threads :
        (t # u /\ intent[t].request # Nothing) => intent[t].request # intent[u].request

\* HistoryTypeOK: What the tables hold; an intent and a closed head exist together.
\* CompletedMeansErased: A completed clear is true of every observer: no body is
\*   left, no run of the thread is alive and no reader holds a snapshot with a body
\*   of it.
\* CompletionExact: The completion counts every batch and every row exactly once
\*   and is audited once.
\* AcknowledgedIntentHolds: An acknowledged intent is the one that closed the
\*   history, also when the acknowledgement is a replay after a lost COMMIT; a
\*   request that closed a thread is never answered as a conflict.
\* RequestClosesOneThread: One request id closes at most one thread.
HistorySafety ==
    /\ HistoryTypeOK /\ CompletedMeansErased /\ CompletionExact
    /\ AcknowledgedIntentHolds /\ RequestClosesOneThread

=============================================================================

-------------------------- MODULE GatewayRotation --------------------------
(***************************************************************************)
(* The credential of one SDK gateway connection: its enrollment, the       *)
(* rotation of its refresh token, its removal and the requests that use it.*)
(*                                                                         *)
(* A refresh token may be spent once.  An operation therefore writes the   *)
(* rotation down before it spends the token: under a session-level         *)
(* advisory lock it moves the connection to rotation_pending, records the  *)
(* admission of the one token request, sends it, stages the new secret,    *)
(* reads it back and only then makes it current.  Every other request is   *)
(* sent inside a transaction that holds the actor and the connection rows  *)
(* FOR SHARE until the response headers.                                   *)
(*                                                                         *)
(* A transaction of an operation is one step of the server (the rows it    *)
(* reads are locked FOR UPDATE), separate from the step that sends it and  *)
(* the one that receives its result: an operation may be cancelled, time   *)
(* out or crash in between, and the server may still commit.  The order in *)
(* which an operation calls the authority is the SDK's (external).         *)
(***************************************************************************)
EXTENDS Integers, Sequences, FiniteSets

CONSTANTS Ops,        \* operations: authority, transport and their SDK client
          Sessions,   \* database sessions: the permits of SESSION_PERMITS
          MaxGen,     \* bound on credential_generation
          MaxFaults,  \* bound on the sessions the server or the network ends
          Overlap     \* operations whose SDK client also sends a request while it rotates

RotationAssumption ==
    /\ MaxGen \in Nat \ {0} /\ MaxFaults \in Nat /\ Overlap \subseteq Ops
    /\ "none" \notin Ops \cup Sessions

VARIABLES
    actor,    \* the auth generation of the enrollment is still the actor's
    conn,     \* the row of sdk_gateway_connections
    rows,     \* the rows of sdk_gateway_operations; an id is a position
    secrets,  \* the row of sdk_gateway_secrets of each generation
    adv,      \* the session that holds the advisory lock, or None
    sess,     \* the sessions, at the client and at the server
    op,       \* what each operation is doing
    cat,      \* the catalogue request of each operation
    en,       \* the enrollment
    spends,   \* token requests sent, per generation of the refresh token
    faults    \* sessions ended by the server or the network

durable == <<actor, conn, rows, secrets>>
vars    == <<durable, adv, sess, op, cat, en, spends, faults>>

None == "none"
Gens == 1..MaxGen

Calls   == {"enroll", "begin", "admit", "stage", "finalize", "clear"}
NoCall  == [k |-> None, id |-> 0, reply |-> None]
NoSess  == [client |-> "none", alive |-> FALSE, intx |-> FALSE,
            locks |-> "none", call |-> NoCall]
NoOp    == [pc |-> "idle", s |-> None, id |-> 0, admitted |-> FALSE,
            then |-> "idle", loaded |-> 0]
Pcs     == {"idle", "locking", "check", "locked", "ready", "missing",
            "pending", "failed", "wait", "begun", "admitted", "flight",
            "discovered", "answered", "metadata", "identified", "staged",
            "checked", "finalized", "committed", "cleared"}

----------------------------------------------------------------------------
(* Sessions                                                                *)

\* A permit is free again once nobody refers to its session.
FreeSession(s) ==
    /\ sess[s].client = "none" /\ ~sess[s].alive
    /\ \A o \in Ops : op[o].s # s /\ cat[o].s # s
    /\ en.s # s

\* DetachedSession::run and begin: a session that is closing, broken or in a
\* transaction of its own refuses the next BEGIN.
Usable(s) == sess[s].client = "open" /\ sess[s].alive /\ ~sess[s].intx

Opened == [NoSess EXCEPT !.client = "open", !.alive = TRUE]
acquire(s, state) == FreeSession(s) /\ sess' = [sess EXCEPT ![s] = state]

\* schedule_close and Drop: the client is gone; the server finds out later.
schedule_close(s) == [sess EXCEPT ![s].client = "none"]

\* The server ends a session: its transaction is rolled back, its advisory
\* lock is released.
Ended(s) == [sess EXCEPT ![s] = [NoSess EXCEPT !.client = sess[s].client]]
Release(s) == adv' = IF adv = s THEN None ELSE adv

\* The session leaves: what it had asked for is dropped or already done.
SessionEnds(s) ==
    /\ sess[s].alive /\ sess[s].client = "none"
    /\ sess' = Ended(s) /\ Release(s)
    /\ UNCHANGED <<durable, op, cat, en, spends, faults>>

\* The network fails, or idle_in_transaction_session_timeout (15 s) is
\* shorter than the answer of the gateway.  The client does not know.
BackendDies(s) ==
    /\ sess[s].alive /\ sess[s].client = "open" /\ faults < MaxFaults
    /\ faults' = faults + 1
    /\ sess' = Ended(s) /\ Release(s)
    /\ UNCHANGED <<durable, op, cat, en, spends>>

----------------------------------------------------------------------------
(* Transactions.  Each is a record of what it leaves in the tables.        *)

Tables == [conn |-> conn, rows |-> rows, secrets |-> secrets]
Open(r) == r.st \in {"pending", "staged"}

\* insert_enrollment_inner
insert_enrollment ==
    IF conn.st = "absent"
    THEN [conn |-> [st |-> "ready", gen |-> 1, current |-> 1, pending |-> 0],
          rows |-> rows, secrets |-> [secrets EXCEPT ![1] = "live"]]
    ELSE Tables

\* begin_rotation_inner
begin_rotation(id) ==
    IF conn.st = "ready" /\ conn.current # 0 /\ conn.pending = 0 /\ conn.gen < MaxGen
    THEN [conn |-> [conn EXCEPT !.st = "rotation_pending", !.pending = id],
          rows |-> Append(rows, [from |-> conn.gen, st |-> "pending",
                                 candidate |-> 0, admitted |-> FALSE]),
          secrets |-> secrets]
    ELSE Tables

\* The connection of a transaction of rotation id.
Rotating(id) ==
    conn.st = "rotation_pending" /\ conn.pending = id /\ conn.current # 0

\* admit_token_send_inner
admit_token_send(id) ==
    IF /\ Rotating(id) /\ rows[id].from = conn.gen
       /\ rows[id].st = "pending" /\ rows[id].candidate = 0 /\ ~rows[id].admitted
    THEN [Tables EXCEPT !.rows[id].admitted = TRUE]
    ELSE Tables

\* stage_rotation_inner, the transaction
stage_rotation(id) ==
    IF /\ Rotating(id) /\ rows[id].from = conn.gen
       /\ rows[id].st = "pending" /\ rows[id].candidate = 0 /\ rows[id].admitted
    THEN [Tables EXCEPT !.secrets[conn.gen + 1] = "live",
                        !.rows[id].st = "staged",
                        !.rows[id].candidate = conn.gen + 1]
    ELSE Tables

\* finalize_rotation_inner
finalize_rotation(id) ==
    IF /\ Rotating(id) /\ rows[id].from = conn.gen
       /\ rows[id].st = "staged" /\ rows[id].candidate = conn.gen + 1
    THEN [conn |-> [st |-> "ready", gen |-> conn.gen + 1,
                    current |-> rows[id].candidate, pending |-> 0],
          rows |-> [rows EXCEPT ![id].st = "committed"],
          secrets |-> [secrets EXCEPT ![conn.current] = "retired"]]
    ELSE Tables

\* Every open rotation is closed, every secret retired, the generation moves.
Withdraw(rowState, connState) ==
    [conn |-> [st |-> connState, gen |-> conn.gen + 1, current |-> 0, pending |-> 0],
     rows |-> [i \in DOMAIN rows |->
                 IF Open(rows[i]) THEN [rows[i] EXCEPT !.st = rowState] ELSE rows[i]],
     secrets |-> [g \in Gens |->
                    IF secrets[g] = "live" THEN "retired" ELSE secrets[g]]]

\* clear_credentials_inner
clear_credentials ==
    IF conn.st \in {"ready", "rotation_pending", "missing"} /\ conn.gen < MaxGen
    THEN Withdraw("cleared", "missing") ELSE Tables

After(call) ==
    CASE call.k = "enroll"   -> insert_enrollment
      [] call.k = "begin"    -> begin_rotation(Len(rows) + 1)
      [] call.k = "admit"    -> admit_token_send(call.id)
      [] call.k = "stage"    -> stage_rotation(call.id)
      [] call.k = "finalize" -> finalize_rotation(call.id)
      [] call.k = "clear"    -> clear_credentials

\* Another session's FOR SHARE on the connection row keeps FOR UPDATE waiting.
Blocked(s) == \E t \in Sessions \ {s} : sess[t].locks = "row"

\* The server runs a transaction: the actor is verified, the rows are checked
\* and written, and the commit or the rollback ends whatever transaction the
\* session was in.
verify_actor_tx == actor
Serve(s) ==
    LET call == sess[s].call
        done == verify_actor_tx /\ After(call) # Tables
        new  == IF done THEN After(call) ELSE Tables
    IN  /\ sess[s].alive /\ call.k # None /\ call.reply = None /\ ~Blocked(s)
        /\ conn' = new.conn /\ rows' = new.rows /\ secrets' = new.secrets
        /\ sess' = [sess EXCEPT ![s].locks = "none",
                                ![s].call.reply = IF done THEN "ok" ELSE "no",
                                ![s].call.id = IF call.k = "begin" THEN Len(rows) + 1
                                                                   ELSE call.id]
        /\ UNCHANGED <<actor, adv, op, cat, en, spends, faults>>

\* people_admin advance_generation, which the revocation of the actor runs:
\* the user row is locked first, then the gateway rows are withdrawn.
advance_generation ==
    /\ actor /\ conn.gen < MaxGen
    /\ \A s \in Sessions : sess[s].locks = "none"
    /\ actor' = FALSE
    /\ IF conn.st = "absent" THEN UNCHANGED <<conn, rows, secrets>>
       ELSE LET new == Withdraw("auth_required", "auth_required")
            IN  conn' = new.conn /\ rows' = new.rows /\ secrets' = new.secrets
    /\ UNCHANGED <<adv, sess, op, cat, en, spends, faults>>

----------------------------------------------------------------------------
(* Enrollment                                                              *)

\* EnrollmentFence::before_request: each request has a session of its own,
\* with the actor row FOR SHARE.
EnrollRequest(s) ==
    /\ en.pc \in {"start", "metadata"} /\ actor
    /\ acquire(s, [Opened EXCEPT !.intx = TRUE, !.locks = "user"])
    /\ en' = [pc |-> IF en.pc = "start" THEN "flight1" ELSE "flight2", s |-> s]
    /\ UNCHANGED <<durable, adv, op, cat, spends, faults>>

EnrollReply ==
    /\ en.pc \in {"flight1", "flight2"}
    /\ en' = IF sess[en.s].alive
             THEN [pc |-> IF en.pc = "flight1" THEN "metadata" ELSE "profile", s |-> None]
             ELSE [pc |-> "failed", s |-> None]
    /\ sess' = [sess EXCEPT ![en.s].client = "none", ![en.s].locks = "none"]
    /\ UNCHANGED <<durable, adv, op, cat, spends, faults>>

EnrollInsert(s) ==
    /\ en.pc = "profile"
    /\ acquire(s, [Opened EXCEPT !.call = [NoCall EXCEPT !.k = "enroll"]])
    /\ en' = [pc |-> "insert", s |-> s]
    /\ UNCHANGED <<durable, adv, op, cat, spends, faults>>

\* The insert is acknowledged; its session is closed and another one reads
\* the rows back.
EnrollCommitted ==
    /\ en.pc = "insert" /\ sess[en.s].alive /\ sess[en.s].call.reply # None
    /\ en' = [pc |-> IF sess[en.s].call.reply = "ok" THEN "verify" ELSE "failed", s |-> None]
    /\ sess' = schedule_close(en.s)
    /\ UNCHANGED <<durable, adv, op, cat, spends, faults>>

EnrollReadback(s) ==
    /\ en.pc = "verify"
    /\ acquire(s, [Opened EXCEPT !.client = "none"])
    /\ en' = [en EXCEPT !.pc = IF actor /\ conn.st = "ready" /\ conn.gen = 1
                                  /\ secrets[1] = "live"
                               THEN "receipt" ELSE "failed"]
    /\ UNCHANGED <<durable, adv, op, cat, spends, faults>>

\* Cancellation, the deadline or a crash.
EnrollGivesUp ==
    /\ en.pc \notin {"receipt", "failed"}
    /\ en' = [pc |-> "failed", s |-> None]
    /\ sess' = IF en.s = None THEN sess ELSE schedule_close(en.s)
    /\ UNCHANGED <<durable, adv, op, cat, spends, faults>>

----------------------------------------------------------------------------
(* The strict authority of an operation                                    *)

Active(o) == op[o].pc \notin {"idle", "locking", "check"}

\* StrictTokenAuthority::lock.  PostgresGatewayAccounts::operation has found
\* the connection.
Lock(o, s) ==
    /\ op[o].pc = "idle" /\ (o \in Overlap \/ cat[o].pc = "idle")
    /\ actor /\ conn.st # "absent"
    /\ acquire(s, Opened)
    /\ op' = [op EXCEPT ![o] = [NoOp EXCEPT !.pc = "locking", !.s = s,
                                            !.loaded = op[o].loaded]]
    /\ UNCHANGED <<durable, adv, cat, en, spends, faults>>

\* pg_advisory_lock
advisory_lock(o) ==
    /\ op[o].pc = "locking" /\ sess[op[o].s].alive /\ adv = None
    /\ adv' = op[o].s
    /\ op' = [op EXCEPT ![o].pc = "check"]
    /\ UNCHANGED <<durable, sess, cat, en, spends, faults>>

\* The connection is verified under the lock before the guard exists.
LockChecks(o) ==
    /\ op[o].pc = "check" /\ sess[op[o].s].alive
    /\ IF actor THEN op' = [op EXCEPT ![o].pc = "locked"] /\ UNCHANGED sess
       ELSE /\ op' = [op EXCEPT ![o] = NoOp]
            /\ sess' = schedule_close(op[o].s)
    /\ UNCHANGED <<durable, adv, cat, en, spends, faults>>

\* load_inner: what the connection is, read FOR SHARE and rolled back.
LoadedState(o) ==
    CASE ~Usable(op[o].s) \/ ~actor -> "failed"
      [] conn.st = "ready" -> IF secrets[conn.current] = "live" /\ conn.pending = 0
                              THEN "ready" ELSE "failed"
      [] conn.st = "missing" -> "missing"
      [] conn.st = "rotation_pending" ->
            IF Open(rows[conn.pending]) THEN "pending" ELSE "failed"
      [] OTHER -> "failed"

load(o) ==
    /\ op[o].pc = "locked"
    /\ LET got == LoadedState(o) IN
       op' = [op EXCEPT ![o].pc = got,
                        ![o].loaded = IF got = "ready" THEN conn.gen ELSE op[o].loaded,
                        ![o].id = IF got = "pending" THEN conn.pending ELSE op[o].id]
    /\ UNCHANGED <<durable, adv, sess, cat, en, spends, faults>>

\* A transaction is sent on the session of the lock.  tokio-postgres begins
\* it whether or not the session is in a transaction already.
Send(o, from, call, then) ==
    /\ op[o].pc \in from
    /\ LET s == op[o].s IN
       IF sess[s].client = "open" /\ sess[s].alive
       THEN /\ sess' = [sess EXCEPT ![s].call =
                          [k |-> call, id |-> op[o].id, reply |-> None]]
            /\ op' = [op EXCEPT ![o].pc = "wait", ![o].then = then]
       ELSE /\ sess' = schedule_close(s)
            /\ op' = [op EXCEPT ![o].pc = "failed"]
    /\ UNCHANGED <<durable, adv, cat, en, spends, faults>>

BeginRotation(o)    == op[o].id = 0 /\ Send(o, {"ready"}, "begin", "begun")
AdmitTokenSend(o)   == Send(o, {"discovered"}, "admit", "admitted")
StageRotation(o)    == op[o].admitted /\ Send(o, {"identified"}, "stage", "staged")
FinalizeRotation(o) == Send(o, {"checked"}, "finalize", "finalized")
Clear(o) == Send(o, {"locked", "ready", "missing", "pending", "failed"}, "clear", "cleared")

\* The result of the transaction arrives: set_operation after begin,
\* mark_token_admitted after admit.
Receive(o) ==
    LET call == sess[op[o].s].call IN
    /\ op[o].pc = "wait" /\ sess[op[o].s].alive /\ call.reply # None
    /\ op' = [op EXCEPT ![o].pc = IF call.reply = "ok" THEN op[o].then ELSE "failed",
                        ![o].id = IF call.k = "begin" /\ call.reply = "ok"
                                  THEN call.id ELSE op[o].id,
                        ![o].admitted = op[o].admitted
                                        \/ (call.k = "admit" /\ call.reply = "ok")]
    /\ sess' = [sess EXCEPT ![op[o].s].call = NoCall]
    /\ UNCHANGED <<durable, adv, cat, en, spends, faults>>

\* The session broke under the transaction: its outcome is unknown.
CommitUnknown(o) ==
    /\ op[o].pc = "wait"
    /\ sess[op[o].s].client = "none" \/ ~sess[op[o].s].alive
    /\ op' = [op EXCEPT ![o].pc = "failed"]
    /\ sess' = schedule_close(op[o].s)
    /\ UNCHANGED <<durable, adv, cat, en, spends, faults>>

\* load_connection inside the transaction of a request: FOR SHARE of the actor
\* and of the connection.
FencedUnlocked(s) == [sess EXCEPT ![s].intx = TRUE]
Fenced(s) == [sess EXCEPT ![s].intx = TRUE, ![s].locks = IF actor THEN "row" ELSE "none"]

\* AuthorityInner::before_request on the session of the lock: the share locks
\* are taken and stay until the headers.  A refusal leaves the transaction
\* open.
Requests == {<<"begun", "discovered">>, <<"admitted", "answered">>,
             <<"answered", "metadata">>, <<"metadata", "identified">>}
Permitted(o) == conn.st # "absent" /\ Open(rows[op[o].id])
                /\ (op[o].pc = "metadata" => rows[op[o].id].admitted)
SpendsToken(o) == op[o].pc = "admitted"
before_request(o) ==
    \E r \in Requests :
        /\ op[o].pc = r[1]
        /\ LET s == op[o].s IN
           IF ~Usable(s)
           THEN /\ op' = [op EXCEPT ![o].pc = "failed"]
                /\ sess' = IF sess[s].alive THEN sess ELSE schedule_close(s)
                /\ UNCHANGED spends
           ELSE /\ sess' = Fenced(s)
                /\ op' = [op EXCEPT ![o].pc = IF actor /\ Permitted(o)
                                              THEN "flight" ELSE "failed",
                                    ![o].then = r[2]]
                /\ spends' = IF actor /\ Permitted(o) /\ SpendsToken(o)
                             THEN [spends EXCEPT ![op[o].loaded] = @ + 1]
                             ELSE spends
        /\ UNCHANGED <<durable, adv, cat, en, faults>>

\* release_after_headers: the reply counts once the rollback is confirmed.
\* An account that does not match, or a token reply that is lost after its
\* headers, ends the rotation.
release_after_headers(o) ==
    LET s == op[o].s IN
    /\ op[o].pc = "flight"
    /\ IF sess[s].client = "open" /\ sess[s].alive
       THEN /\ sess' = [sess EXCEPT ![s].intx = FALSE, ![s].locks = "none"]
            /\ \E accepted \in BOOLEAN :
                 op' = [op EXCEPT ![o].pc = IF accepted THEN op[o].then ELSE "failed"]
       ELSE /\ sess' = schedule_close(s)
            /\ op' = [op EXCEPT ![o].pc = "failed"]
    /\ UNCHANGED <<durable, adv, cat, en, spends, faults>>

\* The request fails before its headers: Permit::drop closes the session.
RequestLost(o) ==
    /\ op[o].pc = "flight"
    /\ op' = [op EXCEPT ![o].pc = "failed"]
    /\ sess' = schedule_close(op[o].s)
    /\ UNCHANGED <<durable, adv, cat, en, spends, faults>>

\* stage_rotation_inner, the readback: the rows of the staged secret.
StageReadback(o) ==
    /\ op[o].pc = "staged"
    /\ op' = [op EXCEPT ![o].pc =
                IF /\ Usable(op[o].s) /\ actor
                   /\ Rotating(op[o].id) /\ rows[op[o].id].from = conn.gen
                   /\ rows[op[o].id].st = "staged"
                   /\ secrets[rows[op[o].id].candidate] = "live"
                THEN "checked" ELSE "failed"]
    /\ UNCHANGED <<durable, adv, sess, cat, en, spends, faults>>

\* commit_inner, the end: the new tokens are loaded back.
Confirm(o) ==
    /\ op[o].pc = "finalized"
    /\ op' = [op EXCEPT ![o].pc =
                IF LoadedState(o) = "ready" /\ conn.gen = op[o].loaded + 1
                THEN "committed" ELSE "failed"]
    /\ UNCHANGED <<durable, adv, sess, cat, en, spends, faults>>

\* StrictGuard::drop
Unlock(o) ==
    /\ op[o].pc \in {"ready", "missing", "pending", "failed", "committed", "cleared"}
    /\ op' = [op EXCEPT ![o] = [NoOp EXCEPT !.loaded =
                  IF op[o].pc = "committed" THEN op[o].loaded + 1
                  ELSE IF op[o].pc = "ready" THEN op[o].loaded ELSE 0]]
    /\ sess' = schedule_close(op[o].s)
    /\ UNCHANGED <<durable, adv, cat, en, spends, faults>>

\* The operation is cancelled, meets its deadline or dies with its process.
GiveUp(o) ==
    /\ op[o].pc # "idle"
    /\ op' = [op EXCEPT ![o] = NoOp]
    /\ sess' = schedule_close(op[o].s)
    /\ UNCHANGED <<durable, adv, cat, en, spends, faults>>

----------------------------------------------------------------------------
(* The catalogue request of an operation that has loaded its tokens        *)

\* Outside the lock the request has a session of its own.
CatalogueAlone(o, s) ==
    /\ cat[o].pc = "idle" /\ op[o].loaded # 0 /\ ~Active(o)
    /\ (o \in Overlap \/ op[o].pc = "idle")
    /\ actor /\ conn.st = "ready" /\ secrets[conn.current] = "live"
    /\ acquire(s, [Opened EXCEPT !.intx = TRUE, !.locks = "row"])
    /\ cat' = [cat EXCEPT ![o] = [pc |-> "flight", s |-> s]]
    /\ UNCHANGED <<durable, adv, op, en, spends, faults>>

\* Under the lock it shares the session of the lock; refused, it leaves the
\* transaction open there.
CatalogueUnderLock(o) ==
    LET s == op[o].s IN
    /\ o \in Overlap /\ cat[o].pc = "idle" /\ op[o].loaded # 0 /\ Active(o)
    /\ Usable(s) /\ sess[s].call.k = None
    /\ sess' = Fenced(s)
    /\ cat' = [cat EXCEPT ![o] = IF actor /\ conn.st = "ready"
                                 THEN [pc |-> "flight", s |-> s] ELSE @]
    /\ UNCHANGED <<durable, adv, op, en, spends, faults>>

CatalogueReply(o) ==
    LET s == cat[o].s IN
    /\ cat[o].pc = "flight"
    /\ sess[s].client = "open" /\ sess[s].alive => sess[s].call.k = None
    /\ IF sess[s].client = "open" /\ sess[s].alive
       THEN sess' = [sess EXCEPT ![s].intx = FALSE, ![s].locks = "none",
                                 ![s].client = IF op[o].s = s THEN "open" ELSE "none"]
       ELSE sess' = schedule_close(s)
    /\ cat' = [cat EXCEPT ![o] = [pc |-> "idle", s |-> None]]
    /\ UNCHANGED <<durable, adv, op, en, spends, faults>>

CatalogueLost(o) ==
    /\ cat[o].pc = "flight"
    /\ sess' = schedule_close(cat[o].s)
    /\ cat' = [cat EXCEPT ![o] = [pc |-> "idle", s |-> None]]
    /\ UNCHANGED <<durable, adv, op, en, spends, faults>>

----------------------------------------------------------------------------
Init ==
    /\ actor = TRUE
    /\ conn = [st |-> "absent", gen |-> 0, current |-> 0, pending |-> 0]
    /\ rows = <<>>
    /\ secrets = [g \in Gens |-> "absent"]
    /\ adv = None
    /\ sess = [s \in Sessions |-> NoSess]
    /\ op = [o \in Ops |-> NoOp]
    /\ cat = [o \in Ops |-> [pc |-> "idle", s |-> None]]
    /\ en = [pc |-> "start", s |-> None]
    /\ spends = [g \in Gens |-> 0]
    /\ faults = 0

Enrolling == \/ EnrollReply \/ EnrollCommitted \/ EnrollGivesUp
             \/ \E s \in Sessions : EnrollRequest(s) \/ EnrollInsert(s) \/ EnrollReadback(s)

Operating(o) ==
    \/ \E s \in Sessions : Lock(o, s) \/ CatalogueAlone(o, s)
    \/ advisory_lock(o) \/ LockChecks(o) \/ load(o)
    \/ BeginRotation(o) \/ AdmitTokenSend(o) \/ StageRotation(o)
    \/ FinalizeRotation(o) \/ Clear(o)
    \/ Receive(o) \/ CommitUnknown(o)
    \/ before_request(o) \/ release_after_headers(o) \/ RequestLost(o)
    \/ StageReadback(o) \/ Confirm(o) \/ Unlock(o) \/ GiveUp(o)
    \/ CatalogueUnderLock(o) \/ CatalogueReply(o) \/ CatalogueLost(o)

Serving(s) == Serve(s) \/ SessionEnds(s) \/ BackendDies(s)

Next == \/ Enrolling \/ advance_generation
        \/ \E o \in Ops : Operating(o)
        \/ \E s \in Sessions : Serving(s)

Spec == Init /\ [][Next]_vars

\* Deadlines fire (an operation lasts at most 60 s, a request 30 s), the
\* server notices a closed connection and serves what it was sent.
FairSteps ==
    ({"give_up", "lose"} \X Ops) \cup ({"end"} \X Sessions) \cup {<<"enroll">>}

FairStep(f) ==
    \/ f[1] = "give_up" /\ GiveUp(f[2])
    \/ f[1] = "lose" /\ CatalogueLost(f[2])
    \/ f[1] = "end" /\ SessionEnds(f[2])
    \/ f[1] = "enroll" /\ EnrollGivesUp

----------------------------------------------------------------------------
(* Properties                                                              *)

\* The tables, the sessions and the operations stay in their domains, and
\* the advisory lock belongs to a session the server still has.
TypeOK ==
    /\ actor \in BOOLEAN
    /\ conn \in [st : {"absent", "ready", "rotation_pending", "missing", "auth_required"},
                 gen : 0..MaxGen, current : 0..MaxGen, pending : 0..MaxGen]
    /\ rows \in Seq([from : Gens, candidate : 0..MaxGen, admitted : BOOLEAN,
                     st : {"pending", "staged", "committed", "auth_required", "cleared"}])
    /\ secrets \in [Gens -> {"absent", "live", "retired"}]
    /\ sess \in [Sessions -> [client : {"none", "open"}, alive : BOOLEAN, intx : BOOLEAN,
                              locks : {"none", "user", "row"},
                              call : [k : Calls \cup {None}, id : 0..MaxGen,
                                      reply : {None, "ok", "no"}]]]
    /\ op \in [Ops -> [pc : Pcs, s : Sessions \cup {None}, id : 0..MaxGen,
                       admitted : BOOLEAN, then : Pcs, loaded : 0..MaxGen]]
    /\ cat \in [Ops -> [pc : {"idle", "flight"}, s : Sessions \cup {None}]]
    /\ en \in [pc : {"start", "flight1", "metadata", "flight2", "profile", "insert",
                     "verify", "receipt", "failed"}, s : Sessions \cup {None}]
    /\ spends \in [Gens -> Nat] /\ faults \in 0..MaxFaults
    /\ adv \in Sessions \cup {None} /\ (adv # None => sess[adv].alive)

\* A refresh token is spent at most once, whatever is cancelled, lost or
\* committed without an answer: a connection that is ready has one that was
\* never sent, and each later secret was bought by exactly one request.
RefreshSpentOnce ==
    /\ \A g \in Gens : spends[g] <= 1
    /\ conn.st = "ready" => spends[conn.gen] = 0
    /\ \A g \in Gens \ {1} : secrets[g] # "absent" => spends[g - 1] = 1

\* A connection in use has its current secret unretired, and beside it at
\* most the candidate of the staged rotation; one that was cleared or whose
\* actor was revoked leaves no usable secret behind, not even of a rotation
\* that was under way.
CurrentIsLive ==
    LET live == {g \in Gens : secrets[g] = "live"} IN
    IF conn.st \in {"ready", "rotation_pending"}
    THEN /\ conn.current = conn.gen /\ conn.gen \in live
         /\ \A g \in live \ {conn.gen} :
                conn.pending # 0 /\ rows[conn.pending].st = "staged"
                /\ rows[conn.pending].candidate = g
    ELSE live = {}

\* While the session of the lock lives, nothing but the revocation of the
\* actor changes what an operation has loaded: not even the commit of an
\* operation that was given up, whose session keeps the lock until the
\* server has ended it.  A committed rotation, and an enrollment with a
\* receipt, are in the tables.
LockCoversRotation ==
    /\ \A o \in Ops :
         op[o].s # None /\ actor /\ sess[op[o].s].alive =>
           /\ op[o].pc \in {"ready", "begun", "discovered", "admitted", "flight", "answered",
                            "metadata", "identified", "staged", "checked"}
                => conn.gen = op[o].loaded
           /\ op[o].pc \in {"finalized", "committed"}
                => conn.st = "ready" /\ conn.gen = op[o].loaded + 1
    /\ en.pc = "receipt" => conn.st # "absent"

\* While a request is under way and its session lives, the actor has not been
\* revoked and the connection has not moved: the reply that is accepted was
\* authorized when it came.  Not so of a client that sends requests while it
\* rotates: its transactions end the one that fences the request.
FencedFlight ==
    \A o \in Ops \ Overlap :
        /\ op[o].pc = "flight" /\ sess[op[o].s].client = "open" /\ sess[op[o].s].alive
             => actor /\ conn.pending = op[o].id
        /\ cat[o].pc = "flight" /\ sess[cat[o].s].client = "open" /\ sess[cat[o].s].alive
             => actor /\ conn.st = "ready"

\* The four together, which no cancellation, lost session, late commit or
\* revocation may break: a refresh token is spent at most once, a connection
\* in use has its current secret, one that was withdrawn has none, the lock
\* covers what an operation has loaded, and a request under way is authorized.
RotationSafety == TypeOK /\ RefreshSpentOnce /\ CurrentIsLive /\ LockCoversRotation /\ FencedFlight

\* No session is lost: the permit of a session comes back, whatever the
\* gateway, the SDK and the database do, and with it the advisory lock.
SessionsReturn == \A s \in Sessions : []<>FreeSession(s)
=============================================================================
